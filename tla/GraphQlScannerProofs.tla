------------------------ MODULE GraphQlScannerProofs ------------------------
(***************************************************************************)
(* For every document and every sequence of calls that a parser can make,  *)
(* search_for_line finds the nodes it is asked for.  That its exception is *)
(* never thrown follows from an invariant of the search (its first entry   *)
(* does not begin after the position looked for) and from one of the cursor*)
(* (a token that a node is made of starts inside the source), which has to *)
(* hold of every saved cursor too, since revert brings them back.          *)
(*                                                                         *)
(* The second part is about numbers: one that stands by itself is one      *)
(* token.  The third part is about the locations that the search finds.    *)
(***************************************************************************)
EXTENDS GraphQlScanner, FiniteSetTheorems, SequenceTheorems, TLAPS

Long == {"word", "number", "integer", "point", "fraction", "exponent", "power", "dot", "dots", "string", "truncated",
         "block"}

LookAhead == {"try", "peek", "skip_to"}

\* The token of a cursor that a node can be made of starts inside the source.
Inside(c) == c.token \notin {"none", "white_space", "end"} => c.start_position < size

CursorInv ==
    /\ pc \in {"scan", "comment"} => cursor.start_position <= cursor.position
    /\ pc \in Long => cursor.start_position < size
    /\ pc \in {"parser", "return", "search"} => Inside(cursor)

SavedInv ==
    /\ \A i \in 1 .. Len(saved_text_cursors) : Inside(saved_text_cursors[i])
    /\ pc \in {"scan", "comment", "return"} \cup Long /\ call.op \in LookAhead
          => Len(saved_text_cursors) > 0

ListInv == Len(position_to_line_list) > 0 /\ position_to_line_list[1].position = 0

NodesInv == \A p \in syntaxes : p < size

SearchInv ==
    pc = "search" =>
        /\ search.start <= search.end
        /\ search.end < Len(position_to_line_list)
        /\ Entry(search.start).position <= search.position
        /\ search.position < size

ScannerInv ==
    TypeOK /\ CursorInv /\ SavedInv /\ ListInv /\ NodesInv /\ SearchInv /\ SearchSucceeds

-----------------------------------------------------------------------------
(* The source and the cursor *)

\* A source is a sequence, and a character is there exactly inside it.
LEMMA CharInside ==
    ASSUME TypeOK, NEW p \in Nat
    PROVE  /\ size \in Nat
           /\ CharAt(p) # "none" <=> p < size
<1>1. source \in Seq(Char) /\ size \in Nat
  BY ScannerAssumption DEF TypeOK, size
<1>2. p < size => source[p + 1] \in Char
  BY <1>1 DEF size
<1>. QED
  BY <1>1, <1>2 DEF CharAt, Char, Digit, Letter

\* increment_position moves the position and the column only.
LEMMA Incremented ==
    ASSUME NEW c \in Cursor, NEW n \in Nat
    PROVE  /\ Increment(c, n) \in Cursor
           /\ Increment(c, n).position = c.position + n
           /\ Increment(c, n).line = c.line
           /\ Increment(c, n).start_position = c.start_position
           /\ Increment(c, n).start_column = c.start_column
BY DEF Increment, CursorAt, Cursor

\* The middle of a range of entries is not its last.
LEMMA Middle ==
    ASSUME NEW a \in Nat, NEW b \in Nat, a < b
    PROVE  /\ a + (b - a) \div 2 \in Nat
           /\ a <= a + (b - a) \div 2
           /\ a + (b - a) \div 2 < b
OBVIOUS

\* At the top of the stack is a cursor whose token lies inside the source, and
\* the others stay where they are when it is taken off.
LEMMA Popped ==
    ASSUME TypeOK, SavedInv, Len(saved_text_cursors) > 0, revert
    PROVE  /\ cursor' \in Cursor
           /\ Inside(cursor')
           /\ saved_text_cursors' \in Seq(Cursor)
           /\ \A i \in 1 .. Len(saved_text_cursors') : Inside(saved_text_cursors'[i])
<1>1. /\ saved_text_cursors \in Seq(Cursor)
      /\ \A i \in 1 .. Len(saved_text_cursors) : Inside(saved_text_cursors[i])
  BY DEF TypeOK, SavedInv
<1>. QED
  BY <1>1 DEF revert

\* The cursor on top of the stack after save is the present one.
LEMMA Saved ==
    ASSUME TypeOK, SavedInv, Inside(cursor), save
    PROVE  /\ saved_text_cursors' \in Seq(Cursor)
           /\ Len(saved_text_cursors') > 0
           /\ \A i \in 1 .. Len(saved_text_cursors') : Inside(saved_text_cursors'[i])
BY DEF TypeOK, SavedInv, save

\* A step that leaves the source alone leaves its size and what is inside it.
LEMMA SameSource ==
    ASSUME source' = source
    PROVE  size' = size /\ \A c \in Cursor : Inside(c)' <=> Inside(c)
BY DEF size, Inside

-----------------------------------------------------------------------------
(* take_next_token *)

Scanning == {"scan", "comment"} \cup Long

\* What a step of the scan does to the cursor and the place in the code.
ScanResult ==
    /\ cursor' \in Cursor
    /\ pc' \in Scanning \cup {"return"}
    /\ pc' \in {"scan", "comment"} => cursor'.start_position <= cursor'.position
    /\ pc' \in Long => cursor'.start_position < size
    /\ pc' = "return" => Inside(cursor')

\* What it does to the line list.
ListResult ==
    \/ UNCHANGED position_to_line_list
    \/ \E e \in [position : Nat, line : Nat] :
          position_to_line_list' = Append(position_to_line_list, e)

\* The end of take_next_token, when the token starts inside the source or is
\* none that a node can be made of.
LEMMA Yielded ==
    ASSUME NEW c \in Cursor, NEW token \in Token, Yield(token, c),
           token \notin {"white_space", "end"} => c.start_position < size
    PROVE  ScanResult
BY DEF Yield, CursorAt, ScanResult, Scanning, Long, Inside, Cursor

LEMMA LineBreakStep ==
    ASSUME TypeOK, CursorInv, pc = "scan", TakeLineBreak
    PROVE  ScanResult /\ ListResult
<1>. DEFINE ch == CharAt(cursor.position)
            n == IF ch = "cr" /\ CharAt(cursor.position + 2) = "nl" THEN 2 ELSE 1
            c == Increment(cursor, n)
            broken == CursorAt(c.position, c.line + 1, c.column, c.start_position, c.start_column,
                               c.token)
<1>1. cursor \in Cursor /\ n \in Nat /\ n >= 1
  BY DEF TypeOK
<1>. HIDE DEF n
<1>2. /\ c \in Cursor
      /\ c.position = cursor.position + n
      /\ c.line = cursor.line
      /\ c.start_position = cursor.start_position
  BY <1>1, Incremented
<1>3. /\ position_to_line_list' =
            Append(position_to_line_list, [position |-> c.position, line |-> c.line + 1])
      /\ IF call.skip
         THEN /\ pc' = pc
              /\ cursor' = CursorAt(c.position, c.line + 1, 1, c.start_position + 1, 1, c.token)
         ELSE Yield("white_space", broken)
  BY DEF TakeLineBreak, n
<1>. HIDE DEF c
<1>4. ListResult
  BY <1>2, <1>3 DEF ListResult, Cursor
<1>5. CASE call.skip
  BY <1>1, <1>2, <1>3, <1>4, <1>5 DEF ScanResult, Scanning, Long, CursorInv, CursorAt, Cursor
<1>6. CASE ~ call.skip
  <2>1. broken \in Cursor
    BY <1>2 DEF Cursor, CursorAt
  <2>. HIDE DEF broken
  <2>. QED
    BY <1>3, <1>4, <1>6, <2>1, Yielded DEF Token
<1>. QED
  BY <1>5, <1>6

LEMMA SpaceStep ==
    ASSUME TypeOK, CursorInv, pc = "scan", TakeSpace
    PROVE  ScanResult /\ ListResult
<1>1. cursor \in Cursor
  BY DEF TypeOK
<1>2. CASE call.skip
  BY <1>1, <1>2 DEF TakeSpace, Skip, ScanResult, ListResult, Scanning, Long, CursorInv, CursorAt, Cursor
<1>3. CASE ~ call.skip
  BY <1>1, <1>3, Incremented, Yielded DEF TakeSpace, ListResult, Token
<1>. QED
  BY <1>2, <1>3

LEMMA CommentStep ==
    ASSUME TypeOK, CursorInv, TakeComment \/ EndComment
    PROVE  ScanResult /\ ListResult
<1>1. cursor \in Cursor
  BY DEF TypeOK
<1>. QED
  BY <1>1 DEF TakeComment, EndComment, Skip, ScanResult, ListResult, Scanning, Long, CursorInv,
              CursorAt, Cursor

LEMMA TokenStep ==
    ASSUME TypeOK, CursorInv, pc = "scan", TakePunctuator \/ BeginLongToken \/ EndOfDocument
    PROVE  ScanResult /\ ListResult
<1>1. cursor \in Cursor /\ cursor.position \in Nat /\ cursor.start_position \in Nat
  BY DEF TypeOK, Cursor
<1>2. size \in Nat /\ (CharAt(cursor.position) # "none" => cursor.position < size)
  BY <1>1, CharInside
<1>3. CASE TakePunctuator
  <2>1. cursor.start_position < size
    BY <1>1, <1>2, <1>3 DEF TakePunctuator, CursorInv
  <2>. QED
    BY <1>1, <1>3, <2>1, Incremented, Yielded DEF TakePunctuator, ListResult, Token
<1>4. CASE BeginLongToken
  <2>1. cursor.start_position < size
    BY <1>1, <1>2, <1>4 DEF BeginLongToken, CursorInv, Digit, Letter
  <2>2. /\ pc' \in Long
        /\ \E n \in Nat : cursor' = Increment(cursor, n)
    BY <1>4 DEF BeginLongToken, Long
  <2>. QED
    BY <1>1, <1>4, <2>1, <2>2, Incremented DEF BeginLongToken, ScanResult, ListResult, Scanning, Long
<1>5. CASE EndOfDocument
  BY <1>1, <1>5, Yielded DEF EndOfDocument, ListResult, Token
<1>. QED
  BY <1>3, <1>4, <1>5

\* A longer token ends, or goes on with further characters.
LongResult ==
    \/ \E n \in {0, 1, 3}, token \in Token :
          (n = 0 /\ Yield(token, cursor)) \/ Yield(token, Increment(cursor, n))
    \/ \E n \in {1, 2} : pc' \in Long /\ cursor' = Increment(cursor, n)

LEMMA LongResultSound ==
    ASSUME TypeOK, CursorInv, pc \in Long, LongResult
    PROVE  ScanResult
<1>1. cursor \in Cursor /\ cursor.start_position < size
  BY DEF TypeOK, CursorInv
<1>2. ASSUME NEW n \in {0, 1, 3}, NEW token \in Token,
             (n = 0 /\ Yield(token, cursor)) \/ Yield(token, Increment(cursor, n))
      PROVE  ScanResult
  BY <1>1, <1>2, Incremented, Yielded
<1>3. ASSUME NEW n \in {1, 2}, pc' \in Long, cursor' = Increment(cursor, n)
      PROVE  ScanResult
  BY <1>1, <1>3, Incremented DEF ScanResult, Scanning, Long
<1>. QED
  BY <1>2, <1>3 DEF LongResult

LEMMA LongStep ==
    ASSUME TypeOK, CursorInv, ScanWord \/ scan_ellipses_after_first_dot \/ ScanString \/ ScanBlock
    PROVE  ScanResult /\ ListResult
<1>1. pc \in Long
  BY DEF ScanWord, scan_ellipses_after_first_dot, ScanString, ScanBlock, Long
<1>2. LongResult
  BY DEF ScanWord, scan_ellipses_after_first_dot, Advance, ScanString, ScanBlock, Long, Token, LongResult
<1>3. ListResult
  BY DEF ScanWord, scan_ellipses_after_first_dot, Advance, ScanString, ScanBlock, ListResult
<1>. QED
  BY <1>1, <1>2, <1>3, LongResultSound

LEMMA NumberStep ==
    ASSUME TypeOK, CursorInv, scan_integer_part \/ scan_number \/ ScanFraction \/ ScanExponent
    PROVE  ScanResult /\ ListResult
<1>1. pc \in Long
  BY DEF scan_integer_part, scan_number, ScanFraction, ScanExponent, Long
<1>2. ASSUME scan_integer_part \/ scan_number PROVE LongResult
  BY <1>2 DEF scan_integer_part, scan_number, Advance, Long, Token, LongResult
<1>3. ASSUME ScanFraction \/ ScanExponent PROVE LongResult
  BY <1>3 DEF ScanFraction, ScanExponent, Advance, Long, Token, LongResult
<1>4. ListResult
  BY DEF scan_integer_part, scan_number, ScanFraction, ScanExponent, ListResult
<1>. QED
  BY <1>1, <1>2, <1>3, <1>4, LongResultSound

\* The line list only grows, and stays a list of places and lines.
LEMMA ListGrows ==
    ASSUME TypeOK, ListInv, ListResult
    PROVE  /\ position_to_line_list' \in Seq([position : Nat, line : Nat])
           /\ ListInv'
<1>1. CASE UNCHANGED position_to_line_list
  BY <1>1 DEF TypeOK, ListInv
<1>2. ASSUME NEW e \in [position : Nat, line : Nat],
             position_to_line_list' = Append(position_to_line_list, e)
      PROVE  /\ position_to_line_list' \in Seq([position : Nat, line : Nat])
             /\ ListInv'
  BY <1>2 DEF TypeOK, ListInv
<1>. QED
  BY <1>1, <1>2 DEF ListResult

LEMMA ScanStep ==
    ASSUME ScannerInv, Scan
    PROVE  ScannerInv'
<1>. USE DEF ScannerInv
<1>1. ScanResult /\ ListResult
  BY LineBreakStep, SpaceStep, CommentStep, TokenStep, LongStep, NumberStep DEF Scan, TakeChar
<1>2. UNCHANGED <<source, saved_text_cursors, call, syntaxes, search>>
  BY DEF Scan
<1>3. pc \in Scanning
  BY DEF Scan, TakeChar, TakeComment, EndComment, ScanWord, scan_integer_part, scan_number,
         ScanFraction, ScanExponent, scan_ellipses_after_first_dot, ScanString, ScanBlock, Scanning, Long
<1>4. TypeOK' /\ ListInv'
  BY <1>1, <1>2, ListGrows DEF TypeOK, ScanResult, Scanning, Long
<1>5. size' = size /\ \A c \in Cursor : Inside(c)' <=> Inside(c)
  BY <1>2, SameSource
<1>6. CursorInv'
  BY <1>1, <1>2, <1>5 DEF CursorInv, ScanResult, Scanning, Long, Inside
<1>7. SavedInv'
  BY <1>1, <1>2, <1>3, <1>5 DEF SavedInv, ScanResult, Scanning, Long, TypeOK, Inside
<1>8. NodesInv' /\ SearchInv' /\ SearchSucceeds'
  BY <1>1, <1>2, <1>5 DEF NodesInv, SearchInv, SearchSucceeds, ScanResult, Scanning, Long
<1>. QED
  BY <1>4, <1>6, <1>7, <1>8

-----------------------------------------------------------------------------
(* The callers *)

\* set_token_start_position
LEMMA TokenStarted ==
    ASSUME cursor \in Cursor, set_token_start_position
    PROVE  cursor' \in Cursor /\ cursor'.start_position <= cursor'.position
BY DEF set_token_start_position, CursorAt, Cursor

LEMMA CallStep ==
    ASSUME ScannerInv, NEW op \in {"take", "try", "peek", "skip_to", "skip_block"},
           NEW skip \in SkipWhiteSpace[source], Call(op, skip)
    PROVE  ScannerInv'
<1>. USE DEF ScannerInv
<1>1. /\ pc = "parser" /\ pc' = "scan"
      /\ call' = [op |-> op, skip |-> skip, braces |-> 0, seen |-> FALSE]
      /\ UNCHANGED <<source, position_to_line_list, syntaxes, search>>
  BY DEF Call
<1>2. cursor \in Cursor /\ Inside(cursor)
  BY <1>1 DEF TypeOK, CursorInv
<1>3. cursor' \in Cursor /\ cursor'.start_position <= cursor'.position
  BY <1>2, TokenStarted DEF Call
<1>4. /\ saved_text_cursors' \in Seq(Cursor)
      /\ \A i \in 1 .. Len(saved_text_cursors') : Inside(saved_text_cursors'[i])
      /\ op \in LookAhead => Len(saved_text_cursors') > 0
  <2>1. CASE op \in LookAhead
    BY <1>2, <2>1, Saved DEF Call, LookAhead
  <2>2. CASE op \notin LookAhead
    BY <2>2 DEF Call, LookAhead, TypeOK, SavedInv
  <2>. QED
    BY <2>1, <2>2
<1>5. TypeOK'
  BY <1>1, <1>3, <1>4, ScannerAssumption DEF TypeOK
<1>6. size' = size /\ \A c \in Cursor : Inside(c)' <=> Inside(c)
  BY <1>1, SameSource
<1>7. CursorInv'
  BY <1>1, <1>3 DEF CursorInv, Long
<1>8. SavedInv'
  BY <1>1, <1>4, <1>6 DEF SavedInv, Inside
<1>9. ListInv' /\ NodesInv' /\ SearchInv' /\ SearchSucceeds'
  BY <1>1, <1>6 DEF ListInv, NodesInv, SearchInv, SearchSucceeds
<1>. QED
  BY <1>5, <1>7, <1>8, <1>9

\* A step back to the parser, or on to the next token, after which the cursor
\* and the stack are sound.
LEMMA Returned ==
    ASSUME ScannerInv, pc = "return", pc' \in {"parser", "scan"},
           UNCHANGED <<source, position_to_line_list, syntaxes, search>>,
           cursor' \in Cursor,
           pc' = "parser" => Inside(cursor'),
           pc' = "scan" => cursor'.start_position <= cursor'.position,
           saved_text_cursors' \in Seq(Cursor),
           \A i \in 1 .. Len(saved_text_cursors') : Inside(saved_text_cursors'[i]),
           call' \in [op : {"take", "try", "peek", "skip_to", "skip_block"}, skip : BOOLEAN,
                     braces : Int, seen : BOOLEAN],
           pc' = "scan" /\ call'.op \in LookAhead => Len(saved_text_cursors') > 0
    PROVE  ScannerInv'
<1>. USE DEF ScannerInv
<1>1. TypeOK'
  BY DEF TypeOK
<1>2. size' = size /\ \A c \in Cursor : Inside(c)' <=> Inside(c)
  BY SameSource
<1>3. CursorInv'
  BY <1>2 DEF CursorInv, Long, Inside
<1>4. SavedInv'
  BY <1>2 DEF SavedInv, Long, Inside
<1>5. ListInv' /\ NodesInv' /\ SearchInv' /\ SearchSucceeds'
  BY <1>2 DEF ListInv, NodesInv, SearchInv, SearchSucceeds
<1>. QED
  BY <1>1, <1>3, <1>4, <1>5

LEMMA ReturnStep ==
    ASSUME ScannerInv, Return
    PROVE  ScannerInv'
<1>1. /\ TypeOK /\ SavedInv
      /\ pc = "return" /\ pc' = "parser"
      /\ UNCHANGED <<source, position_to_line_list, call, syntaxes, search>>
  BY DEF Return, ScannerInv
<1>2. /\ Inside(cursor)
      /\ \A i \in 1 .. Len(saved_text_cursors) : Inside(saved_text_cursors[i])
      /\ cursor \in Cursor /\ saved_text_cursors \in Seq(Cursor)
  BY <1>1 DEF ScannerInv, CursorInv, SavedInv, TypeOK
<1>3. CASE UNCHANGED <<cursor, saved_text_cursors>>
  BY <1>1, <1>2, <1>3, Returned DEF TypeOK
<1>4. CASE call.op \in {"peek", "try"} /\ revert
  <2>1. Len(saved_text_cursors) > 0
    BY <1>1, <1>4 DEF SavedInv, LookAhead
  <2>. QED
    BY <1>1, <1>4, <2>1, Popped, Returned DEF TypeOK
<1>. QED
  BY <1>3, <1>4 DEF Return

LEMMA SkipToStep ==
    ASSUME ScannerInv, ReturnSkipTo
    PROVE  ScannerInv'
<1>1. /\ TypeOK /\ SavedInv
      /\ pc = "return" /\ call.op = "skip_to"
      /\ UNCHANGED <<source, position_to_line_list, call, syntaxes, search>>
  BY DEF ReturnSkipTo, ScannerInv
<1>2. /\ Inside(cursor)
      /\ \A i \in 1 .. Len(saved_text_cursors) : Inside(saved_text_cursors[i])
      /\ cursor \in Cursor /\ saved_text_cursors \in Seq(Cursor)
  BY <1>1 DEF ScannerInv, CursorInv, SavedInv, TypeOK
<1>3. CASE pc' = "parser" /\ UNCHANGED <<cursor, saved_text_cursors>>
  BY <1>1, <1>2, <1>3, Returned DEF TypeOK
<1>4. CASE pc' = "parser" /\ revert
  <2>1. Len(saved_text_cursors) > 0
    BY <1>1 DEF SavedInv, LookAhead
  <2>. QED
    BY <1>1, <1>4, <2>1, Popped, Returned DEF TypeOK
<1>5. CASE pc' = "scan" /\ save /\ set_token_start_position
  BY <1>1, <1>2, <1>5, Saved, TokenStarted, Returned DEF TypeOK
<1>. QED
  BY <1>3, <1>4, <1>5 DEF ReturnSkipTo

LEMMA SkipBlockStep ==
    ASSUME ScannerInv, ReturnSkipBlock
    PROVE  ScannerInv'
<1>1. /\ TypeOK /\ SavedInv
      /\ pc = "return" /\ call.op = "skip_block"
      /\ UNCHANGED <<source, position_to_line_list, saved_text_cursors, syntaxes, search>>
  BY DEF ReturnSkipBlock, ScannerInv
<1>2. /\ Inside(cursor)
      /\ \A i \in 1 .. Len(saved_text_cursors) : Inside(saved_text_cursors[i])
      /\ cursor \in Cursor /\ saved_text_cursors \in Seq(Cursor)
  BY <1>1 DEF ScannerInv, CursorInv, SavedInv, TypeOK
<1>3. /\ call' \in [op : {"take", "try", "peek", "skip_to", "skip_block"}, skip : BOOLEAN,
                    braces : Int, seen : BOOLEAN]
      /\ call'.op \notin LookAhead
  BY <1>1 DEF ReturnSkipBlock, TypeOK, LookAhead
<1>4. CASE pc' = "parser" /\ UNCHANGED cursor
  BY <1>1, <1>2, <1>3, <1>4, Returned
<1>5. CASE pc' = "scan" /\ set_token_start_position
  BY <1>1, <1>2, <1>3, <1>5, TokenStarted, Returned
<1>. QED
  BY <1>4, <1>5 DEF ReturnSkipBlock

-----------------------------------------------------------------------------
(* Nodes and the search *)

LEMMA CreateSyntaxStep ==
    ASSUME ScannerInv, CreateSyntax
    PROVE  ScannerInv'
<1>. USE DEF ScannerInv
<1>1. /\ pc = "parser"
      /\ syntaxes' = syntaxes \cup {cursor.start_position}
      /\ UNCHANGED <<source, cursor, position_to_line_list, saved_text_cursors, pc, call, search>>
  BY DEF CreateSyntax
<1>2. cursor.start_position < size /\ cursor.start_position \in Nat
  BY <1>1 DEF CreateSyntax, CursorInv, Inside, TypeOK, Cursor
<1>3. TypeOK' /\ NodesInv'
  BY <1>1, <1>2 DEF TypeOK, NodesInv, size
<1>4. CursorInv' /\ SavedInv' /\ ListInv' /\ SearchInv' /\ SearchSucceeds'
  BY <1>1 DEF CursorInv, SavedInv, ListInv, SearchInv, SearchSucceeds, Inside, size, Entry
<1>. QED
  BY <1>3, <1>4

LEMMA GetLocationStep ==
    ASSUME ScannerInv, NEW position \in syntaxes, get_token_location(position)
    PROVE  ScannerInv'
<1>. USE DEF ScannerInv
<1>1. /\ pc = "parser" /\ pc' = "search"
      /\ search' = [start |-> 0, end |-> Len(position_to_line_list) - 1, position |-> position,
                    line |-> search.line, column |-> search.column]
      /\ UNCHANGED <<source, cursor, position_to_line_list, saved_text_cursors, call, syntaxes>>
  BY DEF get_token_location
<1>2. position \in Nat /\ position < size
  BY DEF TypeOK, NodesInv
<1>3. TypeOK'
  BY <1>1, <1>2 DEF TypeOK, ListInv
<1>4. SearchInv'
  BY <1>1, <1>2 DEF SearchInv, ListInv, TypeOK, Entry, size
<1>5. CursorInv' /\ SavedInv' /\ ListInv' /\ NodesInv' /\ SearchSucceeds'
  BY <1>1 DEF CursorInv, SavedInv, ListInv, NodesInv, SearchSucceeds, Inside, size, Long
<1>. QED
  BY <1>3, <1>4, <1>5

\* Every entry up to the last is one of the list.
LEMMA EntryType ==
    ASSUME TypeOK, NEW i \in Nat, i < Len(position_to_line_list)
    PROVE  Entry(i) \in [position : Nat, line : Nat]
<1>. DEFINE Entries == [position : Nat, line : Nat]
<1>1. i + 1 \in 1 .. Len(position_to_line_list)
  BY DEF TypeOK
<1>2. position_to_line_list \in Seq(Entries)
  BY DEF TypeOK
<1>. HIDE DEF Entries
<1>3. Entry(i) \in Entries
  BY <1>1, <1>2 DEF Entry
<1>. QED
  BY <1>3 DEF Entries

\* One call of the recursion finds the line or narrows the search to entries
\* of which the first does not begin after the position.
LEMMA SearchStep ==
    ASSUME ScannerInv, search_for_line
    PROVE  ScannerInv'
<1>. USE DEF ScannerInv
<1>. DEFINE mid == search.start + (search.end - search.start) \div 2
            p == search.position
            in_line == p >= Entry(mid).position /\ p < Entry(mid + 1).position
            in_last == search.end = search.start /\ p >= Entry(mid).position /\ p < size
            Narrowed == /\ search' \in [start : Nat, end : Nat, position : Nat, line : Nat, column : Nat]
                        /\ pc' \in {"parser", "search"}
                        /\ pc' = "search" =>
                              /\ search'.start <= search'.end
                              /\ search'.end < Len(position_to_line_list)
                              /\ Entry(search'.start).position <= search'.position
                              /\ search'.position < size
<1>1. /\ pc = "search"
      /\ UNCHANGED <<source, cursor, position_to_line_list, saved_text_cursors, call, syntaxes>>
      /\ IF search.end > search.start
         THEN /\ pc' = IF in_line THEN "parser" ELSE "search"
              /\ search' = IF in_line THEN Locate(mid)
                           ELSE IF p < Entry(mid).position
                           THEN Narrow(search.start, mid - 1)
                           ELSE Narrow(mid + 1, search.end)
         ELSE /\ pc' = IF in_last THEN "parser" ELSE "thrown"
              /\ search' = IF in_last THEN Locate(mid) ELSE search
  BY DEF search_for_line
<1>2. /\ search.start \in Nat /\ search.end \in Nat /\ p \in Nat /\ size \in Nat
      /\ search.start <= search.end /\ search.end < Len(position_to_line_list)
      /\ Entry(search.start).position <= p /\ p < size
      /\ Len(position_to_line_list) \in Nat
  <2>1. size \in Nat
    BY CharInside
  <2>. QED
    BY <1>1, <2>1 DEF TypeOK, SearchInv
<1>3. \A i \in Nat : i < Len(position_to_line_list) =>
          Entry(i) \in [position : Nat, line : Nat]
  BY EntryType
<1>4. Narrowed
  <2>1. CASE search.end > search.start
    <3>1. mid \in Nat /\ search.start <= mid /\ mid < search.end
      BY <1>2, <2>1, Middle
    <3>. HIDE DEF mid
    <3>2. Entry(mid) \in [position : Nat, line : Nat] /\ Entry(mid + 1) \in [position : Nat, line : Nat]
      BY <1>2, <1>3, <3>1
    <3>3. CASE in_line
      BY <1>1, <1>2, <2>1, <3>1, <3>2, <3>3 DEF Locate
    <3>4. CASE ~ in_line /\ p < Entry(mid).position
      <4>1. mid # search.start
        BY <1>2, <3>2, <3>4
      <4>2. mid - 1 \in Nat /\ search.start <= mid - 1 /\ mid - 1 < Len(position_to_line_list)
        BY <1>2, <3>1, <4>1
      <4>3. pc' = "search" /\ search' = Narrow(search.start, mid - 1)
        BY <1>1, <2>1, <3>4
      <4>. QED
        BY <1>2, <4>2, <4>3 DEF TypeOK, Narrow
    <3>5. CASE ~ in_line /\ ~ (p < Entry(mid).position)
      <4>1. Entry(mid + 1).position <= p
        BY <1>2, <3>2, <3>5
      <4>2. pc' = "search" /\ search' = Narrow(mid + 1, search.end)
        BY <1>1, <2>1, <3>5
      <4>. QED
        BY <1>2, <3>1, <4>1, <4>2 DEF TypeOK, Narrow
    <3>. QED
      BY <3>3, <3>4, <3>5
  <2>2. CASE ~ (search.end > search.start)
    <3>1. search.end = search.start /\ mid = search.start
      BY <1>2, <2>2
    <3>. HIDE DEF mid
    <3>2. in_last /\ Entry(mid) \in [position : Nat, line : Nat]
      BY <1>2, <1>3, <3>1
    <3>. QED
      BY <1>1, <1>2, <2>2, <3>1, <3>2 DEF Locate
  <2>. QED
    BY <2>1, <2>2
<1>. HIDE DEF mid, in_line, in_last
<1>5. TypeOK'
  BY <1>1, <1>4 DEF TypeOK
<1>6. SearchInv' /\ SearchSucceeds'
  BY <1>1, <1>4 DEF SearchInv, SearchSucceeds, Entry, size
<1>7. CursorInv' /\ SavedInv' /\ ListInv' /\ NodesInv'
  BY <1>1, <1>4 DEF CursorInv, SavedInv, ListInv, NodesInv, Inside, size, Long
<1>. QED
  BY <1>5, <1>6, <1>7

-----------------------------------------------------------------------------
(* The theorems *)

\* The invariant of the scanner, for every document and every parser.
THEOREM ScannerInvariant == Spec => []ScannerInv
<1>1. Init => ScannerInv
  <2>. SUFFICES ASSUME Init PROVE ScannerInv
    OBVIOUS
  <2>1. TypeOK
    BY DEF Init, TypeOK, Cursor, CursorAt, Token
  <2>2. CursorInv /\ SavedInv /\ ListInv /\ NodesInv /\ SearchInv /\ SearchSucceeds
    BY DEF Init, CursorInv, SavedInv, ListInv, NodesInv, SearchInv, SearchSucceeds, CursorAt, Inside, Long
  <2>. QED
    BY <2>1, <2>2 DEF ScannerInv
<1>2. ScannerInv /\ [Next]_vars => ScannerInv'
  <2>. SUFFICES ASSUME ScannerInv, [Next]_vars PROVE ScannerInv'
    OBVIOUS
  <2>1. CASE UNCHANGED vars
    BY <2>1 DEF vars, ScannerInv, TypeOK, CursorInv, SavedInv, ListInv, NodesInv, SearchInv,
                SearchSucceeds, Inside, size, Entry
  <2>2. CASE Next
    BY <2>2, CallStep, ScanStep, ReturnStep, SkipToStep, SkipBlockStep, CreateSyntaxStep,
       GetLocationStep, SearchStep DEF Next
  <2>. QED
    BY <2>1, <2>2
<1>. QED
  BY <1>1, <1>2, PTL DEF Spec

\* The variables keep their types; the bounds of the search never leave the
\* natural numbers, so mid - 1 does not wrap.
THEOREM ScannerTypeCorrect == Spec => []TypeOK
BY ScannerInvariant, PTL DEF ScannerInv

\* The exception of search_for_line is never thrown for a node of the parser.
THEOREM SearchAlwaysSucceeds == Spec => []SearchSucceeds
BY ScannerInvariant, PTL DEF ScannerInv
-----------------------------------------------------------------------------
(* Numbers: where their parts are in the source, and how far they are read *)

\* The characters behind a up to b are digits, and there are some.
DigitsIn(a, b) == a < b /\ \A k \in a + 1 .. b : source[k] \in Digit

\* Where the digits begin that follow place a, behind a sign if there is one.
BehindSign(a) == IF CharAt(a) = "minus" THEN a + 1 ELSE a

\* The characters behind s up to n are a number, with its integer part up to i and
\* its fraction up to j, that stands by itself and that is not cut in two.
NumberAt(s, i, j, n) ==
    /\ s < i /\ i <= j /\ j <= n /\ n <= size
    /\ DigitsIn(BehindSign(s), i)
    /\ i > BehindSign(s) + 1 => source[BehindSign(s) + 1] # "zero"
    /\ i < j => source[i + 1] = "dot" /\ DigitsIn(i + 1, j)
    /\ j < n => source[j + 1] = "e" /\ DigitsIn(BehindSign(j + 1), n)
    /\ CharAt(n) \notin Digit \cup Letter \cup {"dot"}
    /\ ~ (n > s + 2 /\ source[s + 2] = "zero" /\ source[s + 3] \in Digit)

\* A token that starts with a number is this number.
Read(c) ==
    c.token \notin {"none", "white_space", "end"} =>
        \A i, j, n \in Nat : NumberAt(c.start_position, i, j, n) =>
            c.position = n /\ c.token = IF i = n THEN "int" ELSE "float"

\* How far a number is read.
Reading(c, at, i, j, n) ==
    \/ at = "number" /\ c.position = c.start_position + 1
    \/ at = "integer" /\ c.position \in c.start_position + 2 .. i
    \/ at = "point" /\ c.position = i
    \/ at = "fraction" /\ i < j /\ c.position \in i + 2 .. j
    \/ at = "exponent" /\ j < n /\ c.position = j + 1
    \/ at = "power" /\ j < n /\ c.position \in BehindSign(j + 1) + 1 .. n

\* Without carriage returns: no token is read while white space is skipped, a number
\* is read as far as the state of the scanner says, and all that was read is whole.
NumbersInv ==
    Without({"cr"}) =>
        /\ pc \in {"scan", "comment"} => cursor.start_position = cursor.position
        /\ pc \in Long =>
              \A i, j, n \in Nat :
                  NumberAt(cursor.start_position, i, j, n) => Reading(cursor, pc, i, j, n)
        /\ pc \in {"parser", "return", "search"} => Read(cursor)
        /\ \A k \in 1 .. Len(saved_text_cursors) : Read(saved_text_cursors[k])

\* A character inside the source.
LEMMA CharValue ==
    ASSUME TypeOK, NEW p \in Nat
    PROVE  /\ size \in Nat /\ (p < size => CharAt(p) = source[p + 1] /\ CharAt(p) \in Char)
           /\ p >= size => CharAt(p) = "none"
<1>1. source \in Seq(Char) /\ size \in Nat
  BY ScannerAssumption DEF TypeOK, size
<1>2. p < size => source[p + 1] \in Char
  BY <1>1 DEF size
<1> QED
  BY <1>1, <1>2 DEF CharAt

\* Digits behind a place are what CharAt returns there.
LEMMA DigitsThere ==
    ASSUME TypeOK, NEW a \in Nat, NEW b \in Nat, DigitsIn(a, b), b <= size
    PROVE  a < b /\ \A p \in a .. b - 1 : CharAt(p) \in Digit
<1>1. a < b
  BY DEF DigitsIn
<1>2. ASSUME NEW p \in a .. b - 1
      PROVE  CharAt(p) \in Digit
  <2>1. p \in Nat /\ p + 1 \in a + 1 .. b
    OBVIOUS
  <2>2. CharAt(p) = source[p + 1]
    BY <2>1, CharValue
  <2> QED
    BY <2>1, <2>2 DEF DigitsIn
<1> QED
  BY <1>1, <1>2

\* The place behind a sign.
LEMMA SignPlace ==
    ASSUME NEW a \in Nat
    PROVE  BehindSign(a) \in Nat /\ (IF CharAt(a) = "minus" THEN BehindSign(a) = a + 1 ELSE BehindSign(a) = a)
BY DEF BehindSign

\* The characters of a number.
LEMMA NumberChars ==
    ASSUME TypeOK, NEW s \in Nat, NEW i \in Nat, NEW j \in Nat, NEW n \in Nat, NumberAt(s, i, j, n)
    PROVE  /\ s < i /\ i <= j /\ j <= n /\ n <= size /\ size \in Nat
           /\ CharAt(s) \in Digit \cup {"minus"}
           /\ \A p \in s + 1 .. i - 1 : CharAt(p) \in Digit
           /\ CharAt(i) \notin Digit /\ (CharAt(i) = "dot" <=> i < j) /\ (CharAt(i) = "e" <=> i = j /\ j < n)
           /\ i < j => i + 1 < j /\ \A p \in i + 1 .. j - 1 : CharAt(p) \in Digit
           /\ CharAt(j) \notin Digit /\ (CharAt(j) = "e" <=> j < n)
           /\ j < n => /\ BehindSign(j + 1) < n
                       /\ \A p \in BehindSign(j + 1) .. n - 1 : CharAt(p) \in Digit
           /\ CharAt(n) \notin Digit
           /\ CharAt(s + 1) = "zero" /\ s + 2 <= i => i = s + 2
<1>1. s < i /\ i <= j /\ j <= n /\ n <= size /\ size \in Nat
  BY CharValue DEF NumberAt
<1>2. CharAt(n) \notin Digit \cup Letter \cup {"dot"}
  BY DEF NumberAt
<1>3. \A p \in BehindSign(s) .. i - 1 : CharAt(p) \in Digit
  BY <1>1, SignPlace, DigitsThere DEF NumberAt
<1>4. CharAt(s) \in Digit \cup {"minus"} /\ \A p \in s + 1 .. i - 1 : CharAt(p) \in Digit
  <2>1. BehindSign(s) \in Nat /\ BehindSign(s) <= s + 1 /\ (CharAt(s) # "minus" => BehindSign(s) = s)
    BY SignPlace
  <2>2. s \in s .. i - 1
    BY <1>1
  <2> QED
    BY <1>1, <1>3, <2>1, <2>2
<1>5. i < j => CharAt(i) = "dot" /\ i + 1 < j /\ \A p \in i + 1 .. j - 1 : CharAt(p) \in Digit
  <2>1. HAVE i < j
  <2>2. source[i + 1] = "dot" /\ DigitsIn(i + 1, j) /\ i < size /\ j <= size
    BY <1>1, <2>1 DEF NumberAt
  <2>3. CharAt(i) = source[i + 1]
    BY <2>2, CharValue
  <2>4. i + 1 < j /\ \A p \in i + 1 .. j - 1 : CharAt(p) \in Digit
    BY <2>2, DigitsThere
  <2> QED
    BY <2>2, <2>3, <2>4
<1>6. j < n => /\ CharAt(j) = "e" /\ BehindSign(j + 1) < n
               /\ \A p \in BehindSign(j + 1) .. n - 1 : CharAt(p) \in Digit
  <2>1. HAVE j < n
  <2>2. source[j + 1] = "e" /\ DigitsIn(BehindSign(j + 1), n) /\ j < size
    BY <1>1, <2>1 DEF NumberAt
  <2>3. CharAt(j) = source[j + 1]
    BY <2>2, CharValue
  <2>4. PICK d \in Nat : d = BehindSign(j + 1)
    BY SignPlace
  <2>5. d < n /\ \A p \in d .. n - 1 : CharAt(p) \in Digit
    BY <1>1, <2>2, <2>4, DigitsThere
  <2> QED
    BY <2>2, <2>3, <2>4, <2>5
<1>7. j = n => CharAt(j) \notin Digit \cup {"e", "dot"}
  BY <1>2 DEF Letter
<1>8. CharAt(j) \notin Digit /\ (CharAt(j) = "e" <=> j < n)
  BY <1>1, <1>6, <1>7 DEF Digit
<1>9. CharAt(i) \notin Digit /\ (CharAt(i) = "dot" <=> i < j) /\ (CharAt(i) = "e" <=> i = j /\ j < n)
  <2>1. CASE i < j
    BY <1>5, <2>1 DEF Digit
  <2>2. CASE i = j
    BY <1>1, <1>6, <1>7, <2>2 DEF Digit
  <2> QED
    BY <1>1, <2>1, <2>2
<1>10. CharAt(s + 1) = "zero" /\ s + 2 <= i => i = s + 2
  <2>1. SUFFICES ASSUME CharAt(s + 1) = "zero", s + 2 < i
                 PROVE  FALSE
    BY <1>1
  <2>2. s + 2 \in s + 1 .. i - 1 /\ s + 1 < size /\ s + 2 < size /\ n > s + 2 /\ s + 1 \in Nat /\ s + 2 \in Nat
    BY <1>1, <2>1
  <2>3. CharAt(s + 2) \in Digit
    BY <1>4, <2>2
  <2>4. CharAt(s + 1) = source[s + 2] /\ CharAt(s + 2) = source[s + 3]
    <3>1. (s + 1) + 1 = s + 2 /\ (s + 2) + 1 = s + 3
      OBVIOUS
    <3> QED
      BY <2>2, <3>1, CharValue
  <2> QED
    BY <2>1, <2>2, <2>3, <2>4 DEF NumberAt
<1> QED
  BY <1>1, <1>2, <1>4, <1>5, <1>6, <1>8, <1>9, <1>10

\* A step in the middle of a number goes on in it, or returns it whole.
NumberGoesOn(s, i, j, n) ==
    /\ cursor'.start_position = s
    /\ \/ pc' \in Long /\ Reading(cursor', pc', i, j, n)
       \/ pc' = "return" /\ cursor'.position = n /\ cursor'.token = IF i = n THEN "int" ELSE "float"

\* Where the cursor is after a step that reads on.
LEMMA Advanced ==
    ASSUME cursor \in Cursor, NEW to, NEW k \in Nat, Advance(to, k)
    PROVE  pc' = to /\ cursor'.start_position = cursor.start_position /\ cursor'.position = cursor.position + k
BY Incremented DEF Advance

\* Where the cursor is when a token is returned.
LEMMA Given ==
    ASSUME cursor \in Cursor, NEW token, Yield(token, cursor)
    PROVE  /\ pc' = "return" /\ cursor'.start_position = cursor.start_position
           /\ cursor'.position = cursor.position /\ cursor'.token = token
BY DEF Yield, CursorAt

\* Every step of scan_number in the middle of a number stays in it, or returns it whole.
LEMMA NumberOn ==
    ASSUME TypeOK, NEW s \in Nat, NEW i \in Nat, NEW j \in Nat, NEW n \in Nat, NumberAt(s, i, j, n),
           cursor.start_position = s, Reading(cursor, pc, i, j, n),
           scan_integer_part \/ scan_number \/ ScanFraction \/ ScanExponent
    PROVE  NumberGoesOn(s, i, j, n)
<1>1. cursor \in Cursor /\ cursor.position \in Nat
  BY DEF TypeOK, Cursor
<1>2. PICK p \in Nat : p = cursor.position
  BY <1>1
<1>3. PICK ch : ch = CharAt(p)
  OBVIOUS
<1>4. /\ s < i /\ i <= j /\ j <= n
      /\ \A q \in s + 1 .. i - 1 : CharAt(q) \in Digit
      /\ CharAt(i) \notin Digit /\ (CharAt(i) = "dot" <=> i < j) /\ (CharAt(i) = "e" <=> i = j /\ j < n)
      /\ i < j => i + 1 < j /\ \A q \in i + 1 .. j - 1 : CharAt(q) \in Digit
      /\ CharAt(j) \notin Digit /\ (CharAt(j) = "e" <=> j < n)
      /\ j < n => BehindSign(j + 1) < n /\ \A q \in BehindSign(j + 1) .. n - 1 : CharAt(q) \in Digit
      /\ CharAt(n) \notin Digit
      /\ CharAt(s + 1) = "zero" /\ s + 2 <= i => i = s + 2
  BY NumberChars
<1>5. \A to : \A k \in Nat : Advance(to, k) =>
         pc' = to /\ cursor'.start_position = s /\ cursor'.position = p + k
  BY <1>1, <1>2, Advanced
<1>6. \A token : Yield(token, cursor) =>
         pc' = "return" /\ cursor'.start_position = s /\ cursor'.position = p /\ cursor'.token = token
  BY <1>1, <1>2, Given
<1>7. CASE scan_integer_part
  <2>1. /\ pc \in {"number", "integer"} /\ ch \in Digit
        /\ Advance(IF pc = "number" /\ ch = "zero" THEN "point" ELSE "integer", 1)
    BY <1>2, <1>3, <1>7 DEF scan_integer_part
  <2>2. /\ pc' = (IF pc = "number" /\ ch = "zero" THEN "point" ELSE "integer")
        /\ cursor'.start_position = s /\ cursor'.position = p + 1
    BY <1>5, <2>1
  <2>3. IF pc = "number" THEN p = s + 1 ELSE p \in s + 2 .. i
    BY <1>2, <2>1 DEF Reading
  <2>4. s + 1 <= p /\ p < i
    <3>1. p # i
      BY <1>3, <1>4, <2>1
    <3> QED
      BY <1>4, <2>1, <2>3, <3>1
  <2>5. CASE pc = "number" /\ ch = "zero"
    <3>1. p + 1 = i
      <4>1. p = s + 1 /\ s + 2 <= i
        BY <2>3, <2>4, <2>5
      <4>2. CharAt(s + 1) = "zero"
        BY <1>3, <2>5, <4>1
      <4>3. i = s + 2
        BY <1>4, <4>1, <4>2
      <4> QED
        BY <4>1, <4>3
    <3> QED
      BY <2>2, <2>5, <3>1 DEF NumberGoesOn, Reading, Long
  <2>6. CASE ~ (pc = "number" /\ ch = "zero")
    <3>1. p + 1 \in s + 2 .. i
      BY <2>4
    <3> QED
      BY <2>2, <2>6, <3>1 DEF NumberGoesOn, Reading, Long
  <2> QED
    BY <2>5, <2>6
<1>8. CASE scan_number
  <2>1. /\ pc = "point" \/ (pc \in {"number", "integer"} /\ ch \notin Digit)
        /\ \/ ch = "dot" /\ CharAt(p + 1) \in Digit /\ Advance("fraction", 2)
           \/ ch = "dot" /\ CharAt(p + 1) \notin Digit
           \/ ch = "e" /\ Advance("exponent", 1)
           \/ ch \notin {"dot", "e"} /\ Yield("int", cursor)
    BY <1>2, <1>3, <1>8 DEF scan_number
  <2>2. p = i
    <3>1. CASE pc = "point"
      BY <1>2, <3>1 DEF Reading
    <3>2. CASE pc \in {"number", "integer"} /\ ch \notin Digit
      <4>1. p >= s + 1 /\ p <= i
        <5>1. IF pc = "number" THEN p = s + 1 ELSE p \in s + 2 .. i
          BY <1>2, <3>2 DEF Reading
        <5> QED
          BY <1>4, <3>2, <5>1
      <4>2. ~ p \in s + 1 .. i - 1
        BY <1>3, <1>4, <3>2
      <4> QED
        BY <4>1, <4>2
    <3> QED
      BY <2>1, <3>1, <3>2
  <2>3. CASE ch = "dot" /\ CharAt(p + 1) \in Digit /\ Advance("fraction", 2)
    <3>1. pc' = "fraction" /\ cursor'.start_position = s /\ cursor'.position = p + 2
      BY <1>5, <2>3
    <3>2. i < j /\ p + 2 \in i + 2 .. j
      BY <1>3, <1>4, <2>2, <2>3
    <3> QED
      BY <3>1, <3>2 DEF NumberGoesOn, Reading, Long
  <2>4. CASE ch = "dot" /\ CharAt(p + 1) \notin Digit
    <3>1. i < j /\ i + 1 \in i + 1 .. j - 1
      BY <1>3, <1>4, <2>2, <2>4
    <3> QED
      BY <1>4, <2>2, <2>4, <3>1
  <2>5. CASE ch = "e" /\ Advance("exponent", 1)
    <3>1. pc' = "exponent" /\ cursor'.start_position = s /\ cursor'.position = p + 1
      BY <1>5, <2>5
    <3>2. i = j /\ j < n
      BY <1>3, <1>4, <2>2, <2>5
    <3> QED
      BY <2>2, <3>1, <3>2 DEF NumberGoesOn, Reading, Long
  <2>6. CASE ch \notin {"dot", "e"} /\ Yield("int", cursor)
    <3>1. pc' = "return" /\ cursor'.start_position = s /\ cursor'.position = p /\ cursor'.token = "int"
      BY <1>6, <2>6
    <3>2. i = n
      BY <1>3, <1>4, <2>2, <2>6
    <3> QED
      BY <2>2, <3>1, <3>2 DEF NumberGoesOn
  <2> QED
    BY <2>1, <2>3, <2>4, <2>5, <2>6
<1>9. CASE ScanFraction
  <2>1. /\ pc = "fraction"
        /\ \/ ch \in Digit /\ Advance("fraction", 1)
           \/ ch = "e" /\ Advance("exponent", 1)
           \/ ch \notin Digit \cup {"e"} /\ Yield("float", cursor)
    BY <1>2, <1>3, <1>9 DEF ScanFraction
  <2>2. i < j /\ p \in i + 2 .. j
    BY <1>2, <2>1 DEF Reading
  <2>3. ch \notin Digit => p = j
    <3>1. p # j => p \in i + 1 .. j - 1
      BY <2>2
    <3> QED
      BY <1>3, <1>4, <2>2, <3>1
  <2>4. CASE ch \in Digit /\ Advance("fraction", 1)
    <3>1. pc' = "fraction" /\ cursor'.start_position = s /\ cursor'.position = p + 1
      BY <1>5, <2>4
    <3>2. p # j
      BY <1>3, <1>4, <2>4
    <3>3. p + 1 \in i + 2 .. j
      BY <2>2, <3>2
    <3> QED
      BY <2>2, <3>1, <3>3 DEF NumberGoesOn, Reading, Long
  <2>5. CASE ch = "e" /\ Advance("exponent", 1)
    <3>1. pc' = "exponent" /\ cursor'.start_position = s /\ cursor'.position = p + 1
      BY <1>5, <2>5
    <3>2. p = j /\ j < n
      BY <1>3, <1>4, <2>3, <2>5 DEF Digit
    <3> QED
      BY <3>1, <3>2 DEF NumberGoesOn, Reading, Long
  <2>6. CASE ch \notin Digit \cup {"e"} /\ Yield("float", cursor)
    <3>1. pc' = "return" /\ cursor'.start_position = s /\ cursor'.position = p /\ cursor'.token = "float"
      BY <1>6, <2>6
    <3>2. p = n /\ i # n
      BY <1>3, <1>4, <2>2, <2>3, <2>6
    <3> QED
      BY <3>1, <3>2 DEF NumberGoesOn
  <2> QED
    BY <2>1, <2>4, <2>5, <2>6
<1>10. CASE ScanExponent
  <2>1. PICK d \in Nat : d = BehindSign(j + 1) /\ (IF CharAt(j + 1) = "minus" THEN d = (j + 1) + 1 ELSE d = j + 1)
    BY SignPlace
  <2>2. CASE pc = "exponent"
    <3>1. p = j + 1 /\ j < n
      BY <1>2, <2>2 DEF Reading
    <3>2. d < n /\ CharAt(d) \in Digit
      <4>1. d < n /\ \A q \in d .. n - 1 : CharAt(q) \in Digit
        BY <1>4, <2>1, <3>1
      <4> QED
        BY <4>1
    <3>3. PICK sign \in {0, 1} :
            /\ sign = (IF CharAt(p) = "minus" THEN 1 ELSE 0)
            /\ CharAt(p + sign) \in Digit => Advance("power", sign + 1)
      <4>1. pc # "power"
        BY <2>2
      <4> QED
        BY <1>2, <1>10, <4>1 DEF ScanExponent
    <3>4. p + sign = d
      BY <2>1, <3>1, <3>3
    <3>5. pc' = "power" /\ cursor'.start_position = s /\ cursor'.position = p + (sign + 1)
      BY <1>5, <3>2, <3>3, <3>4
    <3>6. p + (sign + 1) \in d + 1 .. n
      BY <3>2, <3>3, <3>4
    <3> QED
      BY <2>1, <3>1, <3>5, <3>6 DEF NumberGoesOn, Reading, Long
  <2>3. CASE pc = "power"
    <3>1. j < n /\ p \in d + 1 .. n
      BY <1>2, <2>1, <2>3 DEF Reading
    <3>2. IF ch \in Digit THEN Advance("power", 1) ELSE Yield("float", cursor)
      <4>1. pc # "exponent"
        BY <2>3
      <4> QED
        BY <1>2, <1>3, <1>10, <4>1 DEF ScanExponent
    <3>3. CASE ch \in Digit
      <4>1. pc' = "power" /\ cursor'.start_position = s /\ cursor'.position = p + 1
        BY <1>5, <3>2, <3>3
      <4>2. p # n
        BY <1>3, <1>4, <3>3
      <4>3. p + 1 \in d + 1 .. n
        BY <3>1, <4>2
      <4> QED
        BY <2>1, <3>1, <4>1, <4>3 DEF NumberGoesOn, Reading, Long
    <3>4. CASE ch \notin Digit
      <4>1. pc' = "return" /\ cursor'.start_position = s /\ cursor'.position = p /\ cursor'.token = "float"
        BY <1>6, <3>2, <3>4
      <4>2. p # n => p \in d .. n - 1
        BY <3>1
      <4>3. p = n
        BY <1>3, <1>4, <2>1, <3>1, <3>4, <4>2
      <4>4. i # n
        BY <1>4, <3>1
      <4> QED
        BY <4>1, <4>3, <4>4 DEF NumberGoesOn
    <3> QED
      BY <3>3, <3>4
  <2> QED
    BY <1>10, <2>2, <2>3 DEF ScanExponent
<1> QED
  BY <1>7, <1>8, <1>9, <1>10

-----------------------------------------------------------------------------
(* The steps *)

\* What is said of the source stays true of it.
LEMMA SameNumbers ==
    ASSUME source' = source
    PROVE  /\ Without({"cr"})' <=> Without({"cr"})
           /\ \A s, i, j, n : NumberAt(s, i, j, n)' <=> NumberAt(s, i, j, n)
           /\ \A c : Read(c)' <=> Read(c)
           /\ \A c, at, i, j, n : Reading(c, at, i, j, n)' <=> Reading(c, at, i, j, n)
<1>1. /\ Without({"cr"})' <=> Without({"cr"})
      /\ \A s, i, j, n : NumberAt(s, i, j, n)' <=> NumberAt(s, i, j, n)
  BY DEF Without, size, NumberAt, DigitsIn, BehindSign, CharAt
<1>2. \A c, at, i, j, n : Reading(c, at, i, j, n)' <=> Reading(c, at, i, j, n)
  BY DEF Reading, BehindSign, CharAt, size
<1>3. \A c : Read(c)' <=> Read(c)
  BY <1>1 DEF Read
<1> QED
  BY <1>1, <1>2, <1>3

\* What the invariant says of the cursor, at a place in the code.
CursorRead(c, at) ==
    /\ at \in {"scan", "comment"} => c.start_position = c.position
    /\ at \in Long =>
          \A i, j, n \in Nat : NumberAt(c.start_position, i, j, n) => Reading(c, at, i, j, n)
    /\ at \in {"parser", "return", "search"} => Read(c)

\* A step that leaves the source and the saved cursors alone has only the cursor to show.
LEMMA CursorReadSuffices ==
    ASSUME NumbersInv, source' = source, saved_text_cursors' = saved_text_cursors,
           Without({"cr"}) => CursorRead(cursor', pc')
    PROVE  NumbersInv'
<1>1. /\ Without({"cr"})' <=> Without({"cr"})
      /\ \A s, i, j, n : NumberAt(s, i, j, n)' <=> NumberAt(s, i, j, n)
      /\ \A c : Read(c)' <=> Read(c)
      /\ \A c, at, i, j, n : Reading(c, at, i, j, n)' <=> Reading(c, at, i, j, n)
  BY SameNumbers
<1> QED
  BY <1>1 DEF NumbersInv, CursorRead

\* A number begins with a digit or a sign, so no other token is one.
LEMMA NoNumber ==
    ASSUME TypeOK, NEW s \in Nat, CharAt(s) \notin Digit \cup {"minus"}
    PROVE  \A i, j, n \in Nat : ~ NumberAt(s, i, j, n)
BY NumberChars

\* A step of the scanner.
LEMMA ScanNumbers ==
    ASSUME ScannerInv, NumbersInv, Scan
    PROVE  NumbersInv'
<1>1. source' = source /\ saved_text_cursors' = saved_text_cursors
  BY DEF Scan
<1> SUFFICES ASSUME Without({"cr"})
             PROVE  CursorRead(cursor', pc')
  BY <1>1, CursorReadSuffices
<1>2. TypeOK /\ cursor \in Cursor /\ cursor.position \in Nat /\ cursor.start_position \in Nat
  BY DEF ScannerInv, TypeOK, Cursor
<1>3. /\ pc \in {"scan", "comment"} => cursor.start_position = cursor.position
      /\ pc \in Long => \A i, j, n \in Nat :
            NumberAt(cursor.start_position, i, j, n) => Reading(cursor, pc, i, j, n)
  BY DEF NumbersInv
<1>4. PICK s, p, ch : s = cursor.start_position /\ p = cursor.position /\ ch = CharAt(p)
  OBVIOUS
<1>5. s \in Nat /\ p \in Nat
  BY <1>2, <1>4
<1>6. ASSUME pc' = "return", cursor'.token \in {"white_space", "end"}
      PROVE  CursorRead(cursor', pc')
  BY <1>6 DEF CursorRead, Read, Long
<1>7. ASSUME pc' \in Long \cup {"return"}, cursor'.start_position = s, CharAt(s) \notin Digit \cup {"minus"}
      PROVE  CursorRead(cursor', pc')
  <2>1. \A i, j, n \in Nat : ~ NumberAt(s, i, j, n)
    BY <1>2, <1>5, <1>7, NoNumber
  <2> QED
    BY <1>7, <2>1 DEF CursorRead, Read, Long
<1>8. \A token, c : Yield(token, c) =>
         /\ pc' = "return" /\ cursor'.token = token /\ cursor'.start_position = c.start_position
  BY DEF Yield, CursorAt
<1>9. \A n \in Nat : Increment(cursor, n).start_position = s /\ Increment(cursor, n).position = p + n
  BY <1>2, <1>4, Incremented
<1>10. ASSUME pc = "scan", TakeLineBreak
       PROVE  CursorRead(cursor', pc')
  <2>1. ch = "nl"
    <3>1. ch \in {"nl", "cr"}
      BY <1>4, <1>10 DEF TakeLineBreak
    <3>2. p < size /\ ch = source[p + 1] /\ size \in Nat
      BY <1>2, <1>4, <1>5, <3>1, CharValue
    <3>3. p + 1 \in 1 .. size
      BY <1>5, <3>2
    <3> QED
      BY <3>1, <3>2, <3>3 DEF Without
  <2>2. PICK c : c = Increment(cursor, 1)
    OBVIOUS
  <2>3. \/ pc' = pc /\ cursor' = CursorAt(c.position, c.line + 1, 1, c.start_position + 1, 1, c.token)
        \/ pc' = "return" /\ cursor'.token = "white_space"
    BY <1>4, <1>8, <1>10, <2>1, <2>2 DEF TakeLineBreak
  <2>4. c.position = p + 1 /\ c.start_position = s
    BY <1>9, <2>2
  <2>5. CASE pc' = pc /\ cursor' = CursorAt(c.position, c.line + 1, 1, c.start_position + 1, 1, c.token)
    <3>1. cursor'.start_position = s + 1 /\ cursor'.position = p + 1
      BY <2>4, <2>5 DEF CursorAt
    <3> QED
      BY <1>3, <1>4, <1>10, <2>5, <3>1 DEF CursorRead, Long
  <2> QED
    BY <1>6, <2>3, <2>5
<1>11. ASSUME pc \in {"scan", "comment"}, pc' \in {"scan", "comment"}, cursor' \in {cursor, Skip(cursor)}
       PROVE  CursorRead(cursor', pc')
  <2>1. Skip(cursor).start_position = s + 1 /\ Skip(cursor).position = p + 1
    BY <1>4 DEF Skip, CursorAt
  <2> QED
    BY <1>3, <1>4, <1>11, <2>1 DEF CursorRead, Long
<1>12. ASSUME pc = "scan", TakeSpace
       PROVE  CursorRead(cursor', pc')
  BY <1>6, <1>8, <1>11, <1>12 DEF TakeSpace
<1>13. ASSUME TakeComment \/ EndComment
       PROVE  CursorRead(cursor', pc')
  BY <1>11, <1>13 DEF TakeComment, EndComment
<1>14. ASSUME pc = "scan", TakePunctuator
       PROVE  CursorRead(cursor', pc')
  <2>1. ch \in {"open", "close", "punct", "bad"} /\ \E token : Yield(token, Increment(cursor, 1))
    BY <1>4, <1>14 DEF TakePunctuator
  <2>2. pc' = "return" /\ cursor'.start_position = s
    BY <1>8, <1>9, <2>1
  <2>3. CharAt(s) \notin Digit \cup {"minus"}
    BY <1>3, <1>4, <1>14, <2>1 DEF Digit
  <2> QED
    BY <1>7, <2>2, <2>3
<1>15. ASSUME pc = "scan", BeginLongToken
       PROVE  CursorRead(cursor', pc')
  <2>1. p = s
    BY <1>3, <1>4, <1>15
  <2>2. \E n \in {1, 3} : cursor' = Increment(cursor, n) /\ (ch # "quote" => n = 1)
    BY <1>4, <1>15 DEF BeginLongToken
  <2>3. cursor'.start_position = s /\ (ch # "quote" => cursor'.position = s + 1)
    BY <1>9, <2>1, <2>2
  <2>4. \/ ch \in Digit \cup {"minus"} /\ pc' = "number"
        \/ ch \notin Digit \cup {"minus"} /\ pc' \in Long
    BY <1>4, <1>15 DEF BeginLongToken, Long, Letter, Digit
  <2>5. CASE ch \in Digit \cup {"minus"} /\ pc' = "number"
    <3>1. cursor'.position = cursor'.start_position + 1
      BY <2>3, <2>5 DEF Digit
    <3> QED
      BY <2>5, <3>1 DEF CursorRead, Reading
  <2>6. CASE ch \notin Digit \cup {"minus"} /\ pc' \in Long
    BY <1>4, <1>7, <2>1, <2>3, <2>6
  <2> QED
    BY <2>4, <2>5, <2>6
<1>16. ASSUME pc = "scan", EndOfDocument
       PROVE  CursorRead(cursor', pc')
  BY <1>6, <1>8, <1>16 DEF EndOfDocument
<1>17. ASSUME ScanWord \/ scan_ellipses_after_first_dot \/ ScanString \/ ScanBlock
       PROVE  CursorRead(cursor', pc')
  <2>1. pc \in {"word", "dot", "dots", "string", "truncated", "block"} /\ pc \in Long
    BY <1>17 DEF ScanWord, scan_ellipses_after_first_dot, ScanString, ScanBlock, Long
  <2>2. pc' \in Long \cup {"return"} /\ cursor'.start_position = s
    <3>1. LongResult
      BY <1>17 DEF ScanWord, scan_ellipses_after_first_dot, Advance, ScanString, ScanBlock, Long, Token, LongResult
    <3> QED
      BY <1>4, <1>8, <1>9, <3>1 DEF LongResult
  <2>3. \A i, j, n \in Nat : ~ NumberAt(s, i, j, n)
    BY <1>3, <1>4, <2>1 DEF Reading
  <2> QED
    BY <2>2, <2>3 DEF CursorRead, Read, Long
<1>9a. ASSUME scan_integer_part \/ scan_number \/ ScanFraction \/ ScanExponent
       PROVE  CursorRead(cursor', pc')
  <2>1. pc \in Long
    BY <1>9a DEF scan_integer_part, scan_number, ScanFraction, ScanExponent, Long
  <2>2. pc' \in Long \cup {"return"} /\ cursor'.start_position = s
    <3>1. LongResult
      BY <1>9a DEF scan_integer_part, scan_number, ScanFraction, ScanExponent, Advance, Long, Token, LongResult
    <3> QED
      BY <1>4, <1>8, <1>9, <3>1 DEF LongResult
  <2>3. ASSUME NEW i \in Nat, NEW j \in Nat, NEW n \in Nat, NumberAt(s, i, j, n)
        PROVE  NumberGoesOn(s, i, j, n)
    BY <1>2, <1>3, <1>4, <1>5, <1>9a, <2>1, <2>3, NumberOn
  <2> QED
    BY <2>2, <2>3 DEF CursorRead, Read, NumberGoesOn, Long
<1> QED
  BY <1>10, <1>12, <1>13, <1>14, <1>15, <1>16, <1>17, <1>9a DEF Scan, TakeChar

\* The cursor that is saved or brought back was read.
LEMMA StackRead ==
    ASSUME ScannerInv, NEW stack, stack = saved_text_cursors,
           \A k \in 1 .. Len(stack) : Read(stack[k])
    PROVE  /\ save /\ Read(cursor) => \A k \in 1 .. Len(saved_text_cursors') : Read(saved_text_cursors'[k])
           /\ revert /\ Len(stack) > 0 =>
                 Read(cursor') /\ \A k \in 1 .. Len(saved_text_cursors') : Read(saved_text_cursors'[k])
<1>1. stack \in Seq(Cursor) /\ cursor \in Cursor
  BY DEF ScannerInv, TypeOK
<1>2. PICK l \in Nat : l = Len(stack)
  BY <1>1
<1>3. ASSUME save, Read(cursor)
      PROVE  \A k \in 1 .. Len(saved_text_cursors') : Read(saved_text_cursors'[k])
  <2>1. /\ Len(saved_text_cursors') = l + 1 /\ saved_text_cursors'[l + 1] = cursor
        /\ \A k \in 1 .. l : saved_text_cursors'[k] = stack[k]
    BY <1>1, <1>2, <1>3, AppendProperties DEF save
  <2>2. \A k \in 1 .. l + 1 : k \in 1 .. l \/ k = l + 1
    OBVIOUS
  <2> QED
    BY <1>2, <1>3, <2>1, <2>2
<1>4. ASSUME revert, l > 0
      PROVE  Read(cursor') /\ \A k \in 1 .. Len(saved_text_cursors') : Read(saved_text_cursors'[k])
  <2>1. saved_text_cursors' = SubSeq(stack, 1, l - 1) /\ cursor' = stack[l]
    BY <1>2, <1>4 DEF revert
  <2>2. Len(saved_text_cursors') = l - 1 /\ \A k \in 1 .. l - 1 : saved_text_cursors'[k] = stack[k]
    BY <1>1, <1>2, <1>4, <2>1
  <2>3. l \in 1 .. l /\ \A k \in 1 .. l - 1 : k \in 1 .. l
    BY <1>4
  <2> QED
    BY <1>2, <2>1, <2>2, <2>3
<1> QED
  BY <1>2, <1>3, <1>4

\* A step of the parser or back to it.
LEMMA ParserNumbers ==
    ASSUME ScannerInv, NumbersInv,
           \/ \E op \in {"take", "try", "peek", "skip_to", "skip_block"}, skip \in SkipWhiteSpace[source] : Call(op, skip)
           \/ Return \/ ReturnSkipTo \/ ReturnSkipBlock
    PROVE  NumbersInv'
<1>1. source' = source /\ pc \in {"parser", "return"} /\ pc' \in {"parser", "scan"}
  BY DEF Call, Return, ReturnSkipTo, ReturnSkipBlock
<1>2. /\ Without({"cr"})' <=> Without({"cr"})
      /\ \A c : Read(c)' <=> Read(c)
  BY <1>1, SameNumbers
<1> SUFFICES ASSUME Without({"cr"})
             PROVE  /\ pc' = "scan" => cursor'.start_position = cursor'.position
                    /\ pc' = "parser" => Read(cursor')
                    /\ \A k \in 1 .. Len(saved_text_cursors') : Read(saved_text_cursors'[k])
  BY <1>1, <1>2 DEF NumbersInv, Long
<1>3. Read(cursor) /\ \A k \in 1 .. Len(saved_text_cursors) : Read(saved_text_cursors[k])
  BY <1>1 DEF NumbersInv
<1>4. /\ save => \A k \in 1 .. Len(saved_text_cursors') : Read(saved_text_cursors'[k])
      /\ revert /\ Len(saved_text_cursors) > 0 =>
            Read(cursor') /\ \A k \in 1 .. Len(saved_text_cursors') : Read(saved_text_cursors'[k])
  <2>1. PICK stack : stack = saved_text_cursors
    OBVIOUS
  <2> QED
    BY <1>3, <2>1, StackRead
<1>5. set_token_start_position => cursor'.start_position = cursor'.position
  BY DEF set_token_start_position, CursorAt
<1>6. ASSUME NEW op, NEW skip, Call(op, skip)
      PROVE  /\ pc' = "scan" /\ cursor'.start_position = cursor'.position
             /\ \A k \in 1 .. Len(saved_text_cursors') : Read(saved_text_cursors'[k])
  BY <1>3, <1>4, <1>5, <1>6 DEF Call
<1>7. pc = "return" /\ call.op \in LookAhead => Len(saved_text_cursors) > 0
  BY DEF ScannerInv, SavedInv
<1>8. CASE Return
  BY <1>3, <1>4, <1>7, <1>8 DEF Return, LookAhead
<1>9. CASE ReturnSkipTo
  BY <1>3, <1>4, <1>5, <1>7, <1>9 DEF ReturnSkipTo, LookAhead
<1>10. CASE ReturnSkipBlock
  BY <1>3, <1>5, <1>10 DEF ReturnSkipBlock
<1> QED
  BY <1>6, <1>8, <1>9, <1>10

\* A step that makes a node or looks one up.
LEMMA NodeNumbers ==
    ASSUME NumbersInv,
           \/ CreateSyntax \/ (\E position \in syntaxes : get_token_location(position))
           \/ search_for_line \/ UNCHANGED vars
    PROVE  NumbersInv'
<1>1. source' = source /\ cursor' = cursor /\ saved_text_cursors' = saved_text_cursors
  BY DEF CreateSyntax, get_token_location, search_for_line, vars
<1>2. pc' = pc \/ (pc \in {"parser", "search"} /\ pc' \in {"parser", "search", "thrown"})
  BY DEF CreateSyntax, get_token_location, search_for_line, vars
<1>3. Without({"cr"}) => CursorRead(cursor, pc)
  BY DEF NumbersInv, CursorRead
<1>4. Without({"cr"}) => CursorRead(cursor, pc')
  BY <1>2, <1>3 DEF CursorRead, Long
<1> QED
  BY <1>1, <1>4, CursorReadSuffices

\* Before the first call nothing was read.
LEMMA NumbersStart ==
    ASSUME Init
    PROVE  NumbersInv
<1>1. pc = "parser" /\ cursor.token = "none" /\ saved_text_cursors = <<>>
  BY DEF Init, CursorAt
<1> QED
  BY <1>1 DEF NumbersInv, Read, Long

-----------------------------------------------------------------------------
(* Parts of the source as texts, which is how NumbersAsWritten speaks of them *)

\* The part of the source behind a up to b.
Text(a, b) == SubSeq(source, a + 1, b)

\* The characters of a part of the source.
LEMMA TextChars ==
    ASSUME TypeOK, NEW a \in Nat, NEW b \in Nat, a <= b, b <= size
    PROVE  /\ Text(a, b) \in Seq(Char) /\ Len(Text(a, b)) = b - a
           /\ \A k \in 1 .. b - a : Text(a, b)[k] = source[a + k]
<1>1. source \in Seq(Char) /\ size \in Nat /\ size = Len(source)
  BY ScannerAssumption DEF TypeOK, size
<1>2. \A k \in a + 1 .. b : source[k] \in Char
  BY <1>1
<1>3. PICK t : t = SubSeq(source, a + 1, b)
  OBVIOUS
<1>4. /\ t \in Seq(Char) /\ Len(t) = IF a + 1 <= b THEN b - (a + 1) + 1 ELSE 0
      /\ \A k \in 1 .. b - (a + 1) + 1 : t[k] = source[(a + 1) + k - 1]
  BY <1>2, <1>3, SubSeqProperties
<1>5. Len(t) = b - a
  BY <1>4
<1>6. ASSUME NEW k \in 1 .. b - a
      PROVE  t[k] = source[a + k]
  <2>1. k \in 1 .. b - (a + 1) + 1 /\ (a + 1) + k - 1 = a + k
    OBVIOUS
  <2> QED
    BY <1>4, <2>1
<1> QED
  BY <1>3, <1>4, <1>5, <1>6 DEF Text

\* The part behind x up to y of the text behind a up to b.
PartOfText(a, b, x, y) == SubSeq(Text(a, b), x + 1, y) = Text(a + x, a + y)

\* A part of a part of the source is a part of the source.
LEMMA TextOfText ==
    ASSUME TypeOK, NEW a \in Nat, NEW b \in Nat, a <= b, b <= size,
           NEW x \in Nat, NEW y \in Nat, x <= y, y <= b - a
    PROVE  PartOfText(a, b, x, y)
<1>1. PICK t, u, v : t = Text(a, b) /\ u = SubSeq(t, x + 1, y) /\ v = Text(a + x, a + y)
  OBVIOUS
<1>2. t \in Seq(Char) /\ Len(t) = b - a /\ \A k \in 1 .. b - a : t[k] = source[a + k]
  BY <1>1, TextChars
<1>3. size \in Nat
  BY CharValue
<1>4. v \in Seq(Char) /\ Len(v) = y - x /\ \A k \in 1 .. y - x : v[k] = source[(a + x) + k]
  <2>1. a + x \in Nat /\ a + y \in Nat /\ a + x <= a + y /\ a + y <= size /\ (a + y) - (a + x) = y - x
    BY <1>3
  <2> QED
    BY <1>1, <2>1, TextChars
<1>5. u \in Seq(Char) /\ Len(u) = y - x /\ \A k \in 1 .. y - x : u[k] = t[x + k]
  <2>1. \A k \in x + 1 .. y : t[k] \in Char
    BY <1>2
  <2>2. /\ u \in Seq(Char) /\ Len(u) = IF x + 1 <= y THEN y - (x + 1) + 1 ELSE 0
        /\ \A k \in 1 .. y - (x + 1) + 1 : u[k] = t[(x + 1) + k - 1]
    BY <1>1, <2>1, SubSeqProperties
  <2>3. Len(u) = y - x
    BY <2>2
  <2>4. \A k \in 1 .. y - x : k \in 1 .. y - (x + 1) + 1 /\ (x + 1) + k - 1 = x + k
    OBVIOUS
  <2> QED
    BY <2>2, <2>3, <2>4
<1>6. ASSUME NEW k \in 1 .. y - x
      PROVE  u[k] = v[k]
  <2>1. x + k \in 1 .. b - a /\ a + (x + k) = (a + x) + k
    OBVIOUS
  <2> QED
    BY <1>2, <1>4, <1>5, <2>1
<1>7. u = v
  BY <1>4, <1>5, <1>6, SeqEqual
<1> QED
  BY <1>1, <1>7 DEF PartOfText

\* A part that is digits.
LEMMA TextDigits ==
    ASSUME TypeOK, NEW a \in Nat, NEW b \in Nat, a <= b, b <= size
    PROVE  Digits(Text(a, b)) <=> DigitsIn(a, b)
<1>1. PICK t : t = Text(a, b)
  OBVIOUS
<1>2. t \in Seq(Char) /\ Len(t) = b - a /\ \A k \in 1 .. b - a : t[k] = source[a + k]
  BY <1>1, TextChars
<1>3. DOMAIN t = 1 .. b - a /\ (t = <<>> <=> a = b)
  BY <1>2, LenProperties, EmptySeq
<1>4. ASSUME \A k \in 1 .. b - a : t[k] \in Digit, NEW k \in a + 1 .. b
      PROVE  source[k] \in Digit
  <2>1. k - a \in 1 .. b - a /\ a + (k - a) = k
    OBVIOUS
  <2> QED
    BY <1>2, <1>4, <2>1
<1>5. ASSUME \A k \in a + 1 .. b : source[k] \in Digit, NEW k \in 1 .. b - a
      PROVE  t[k] \in Digit
  <2>1. a + k \in a + 1 .. b
    OBVIOUS
  <2> QED
    BY <1>2, <1>5, <2>1
<1> QED
  BY <1>1, <1>3, <1>4, <1>5 DEF Digits, DigitsIn

\* The first character of a part, and what follows it.
LEMMA TextTail ==
    ASSUME TypeOK, NEW a \in Nat, NEW b \in Nat, a < b, b <= size
    PROVE  Text(a, b) # <<>> /\ Text(a, b)[1] = source[a + 1] /\ Tail(Text(a, b)) = Text(a + 1, b)
<1>1. PICK t : t = Text(a, b)
  OBVIOUS
<1>2. t \in Seq(Char) /\ Len(t) = b - a /\ \A k \in 1 .. b - a : t[k] = source[a + k]
  <2>1. a <= b
    OBVIOUS
  <2> QED
    BY <1>1, <2>1, TextChars
<1>3. t # <<>> /\ t[1] = source[a + 1]
  <2>1. 1 \in 1 .. b - a /\ b - a # 0
    OBVIOUS
  <2> QED
    BY <1>2, <2>1, EmptySeq
<1>4. Tail(t) = Text(a + 1, b)
  <2>1. PICK u, v : u = Tail(t) /\ v = Text(a + 1, b)
    OBVIOUS
  <2>2. u \in Seq(Char) /\ Len(u) = b - a - 1 /\ \A k \in 1 .. b - a - 1 : u[k] = t[k + 1]
    BY <1>2, <1>3, <2>1, HeadTailProperties
  <2>3. v \in Seq(Char) /\ Len(v) = b - (a + 1) /\ \A k \in 1 .. b - (a + 1) : v[k] = source[(a + 1) + k]
    <3>1. a + 1 \in Nat /\ a + 1 <= b
      OBVIOUS
    <3> QED
      BY <2>1, <3>1, TextChars
  <2>4. ASSUME NEW k \in 1 .. b - a - 1
        PROVE  u[k] = v[k]
    <3>1. k + 1 \in 1 .. b - a /\ k \in 1 .. b - (a + 1) /\ a + (k + 1) = (a + 1) + k
      OBVIOUS
    <3> QED
      BY <1>2, <2>2, <2>3, <3>1
  <2>5. b - (a + 1) = b - a - 1
    OBVIOUS
  <2>6. u = v
    BY <2>2, <2>3, <2>4, <2>5, SeqEqual
  <2> QED
    BY <2>1, <2>6
<1> QED
  BY <1>1, <1>3, <1>4

\* A part without its sign.
LEMMA TextUnsigned ==
    ASSUME TypeOK, NEW a \in Nat, NEW b \in Nat, a < b, b <= size
    PROVE  /\ Unsigned(Text(a, b)) = Text(BehindSign(a), b)
           /\ BehindSign(a) \in Nat /\ BehindSign(a) <= b /\ BehindSign(a) <= a + 1 /\ a <= BehindSign(a)
<1>1. PICK t : t = Text(a, b)
  OBVIOUS
<1>2. t \in Seq(Char) /\ Len(t) = b - a /\ \A k \in 1 .. b - a : t[k] = source[a + k]
  <2>1. a <= b
    OBVIOUS
  <2> QED
    BY <1>1, <2>1, TextChars
<1>3. size \in Nat /\ CharAt(a) = source[a + 1] /\ 1 \in 1 .. b - a
  BY CharValue
<1>4. t # <<>> /\ t[1] = CharAt(a)
  BY <1>2, <1>3, EmptySeq
<1>5. Tail(t) = Text(a + 1, b)
  BY <1>1, TextTail
<1>6. /\ BehindSign(a) = IF CharAt(a) = "minus" THEN a + 1 ELSE a
      /\ BehindSign(a) \in Nat /\ BehindSign(a) <= b /\ BehindSign(a) <= a + 1 /\ a <= BehindSign(a)
  BY DEF BehindSign
<1> QED
  BY <1>1, <1>4, <1>5, <1>6 DEF Unsigned

\* The parts of a number.
LEMMA TextParts ==
    ASSUME TypeOK, NEW a \in Nat, NEW b \in Nat, a < b, b <= size
    PROVE  /\ Whole(Text(a, b)) <=>
                 DigitsIn(BehindSign(a), b) /\ (b > BehindSign(a) + 1 => source[BehindSign(a) + 1] # "zero")
           /\ Fraction(Text(a, b)) <=> source[a + 1] = "dot" /\ DigitsIn(a + 1, b)
           /\ Exponent(Text(a, b)) => source[a + 1] = "e" /\ DigitsIn(BehindSign(a + 1), b)
<1>1. PICK d \in Nat : d = BehindSign(a) /\ d <= b /\ Unsigned(Text(a, b)) = Text(d, b)
  BY TextUnsigned
<1>2. Whole(Text(a, b)) <=> DigitsIn(d, b) /\ (b > d + 1 => source[d + 1] # "zero")
  <2>1. Digits(Text(d, b)) <=> DigitsIn(d, b)
    BY <1>1, TextDigits
  <2>2. Len(Text(d, b)) > 1 <=> b > d + 1
    BY <1>1, TextChars
  <2>3. d < b => Text(d, b)[1] = source[d + 1]
    BY <1>1, TextTail
  <2>4. b > d + 1 => d < b
    OBVIOUS
  <2> QED
    BY <1>1, <2>1, <2>2, <2>3, <2>4 DEF Whole
<1>3. Text(a, b) # <<>> /\ Text(a, b)[1] = source[a + 1] /\ Tail(Text(a, b)) = Text(a + 1, b)
  BY TextTail
<1>4. a + 1 \in Nat /\ a + 1 <= b
  OBVIOUS
<1>5. Digits(Text(a + 1, b)) <=> DigitsIn(a + 1, b)
  BY <1>4, TextDigits
<1>6. Fraction(Text(a, b)) <=> source[a + 1] = "dot" /\ DigitsIn(a + 1, b)
  BY <1>3, <1>5 DEF Fraction
<1>7. ASSUME Exponent(Text(a, b))
      PROVE  source[a + 1] = "e" /\ DigitsIn(BehindSign(a + 1), b)
  <2>1. source[a + 1] = "e" /\ Digits(Unsigned(Text(a + 1, b)))
    BY <1>3, <1>7 DEF Exponent
  <2>2. a + 1 < b
    <3>1. SUFFICES ASSUME a + 1 = b PROVE FALSE
      BY <1>4
    <3>2. PICK t : t = Text(a + 1, b)
      OBVIOUS
    <3>3. t \in Seq(Char) /\ Len(t) = 0
      BY <1>4, <3>1, <3>2, TextChars
    <3>4. t = <<>>
      BY <3>3, EmptySeq
    <3> QED
      BY <2>1, <3>2, <3>4 DEF Unsigned, Digits
  <2>3. PICK c \in Nat : c = BehindSign(a + 1) /\ c <= b /\ Unsigned(Text(a + 1, b)) = Text(c, b)
    BY <1>4, <2>2, TextUnsigned
  <2>4. Digits(Text(c, b)) <=> DigitsIn(c, b)
    BY <2>3, TextDigits
  <2> QED
    BY <2>1, <2>3, <2>4
<1> QED
  BY <1>1, <1>2, <1>6, <1>7

\* A text that is a number is one at its place in the source.
LEMMA TextNumber ==
    ASSUME TypeOK, NEW s \in Nat, NEW n \in s + 1 .. size, Number(Text(s, n)),
           ~ (Len(Text(s, n)) > 2 /\ Text(s, n)[2] = "zero" /\ Text(s, n)[3] \in Digit),
           CharAt(n) \notin Digit \cup Letter \cup {"dot"}
    PROVE  \E i, j \in Nat : NumberAt(s, i, j, n) /\ (Whole(Text(s, n)) <=> i = n)
<1>1. n \in Nat /\ s < n /\ s <= n /\ n <= size /\ size \in Nat
  BY CharValue
<1>2. PICK t : t = Text(s, n)
  OBVIOUS
<1>3. t \in Seq(Char) /\ Len(t) = n - s /\ \A k \in 1 .. n - s : t[k] = source[s + k]
  BY <1>1, <1>2, TextChars
<1>4. DOMAIN t = 1 .. n - s
  BY <1>3, LenProperties
<1>5. PICK x \in 1 .. n - s : \E y \in x .. n - s :
        /\ Whole(SubSeq(t, 1, x))
        /\ x < y => Fraction(SubSeq(t, x + 1, y))
        /\ y < n - s => Exponent(SubSeq(t, y + 1, n - s))
  BY <1>2, <1>3, <1>4 DEF Number
<1>6. PICK y \in x .. n - s :
        /\ Whole(SubSeq(t, 1, x))
        /\ x < y => Fraction(SubSeq(t, x + 1, y))
        /\ y < n - s => Exponent(SubSeq(t, y + 1, n - s))
  BY <1>5
<1>7. PICK i, j \in Nat : i = s + x /\ j = s + y
  BY <1>1
<1>8. s < i /\ i <= j /\ j <= n /\ (x < y <=> i < j) /\ (y < n - s <=> j < n) /\ i <= size /\ j <= size
  BY <1>1, <1>7
<1> DEFINE Part(u, v) == SubSeq(t, u + 1, v) = Text(s + u, s + v)
<1>9. ASSUME NEW u \in Nat, NEW v \in Nat, u <= v, v <= n - s
       PROVE  Part(u, v)
  <2>1. PartOfText(s, n, u, v)
    BY <1>1, <1>9, TextOfText
  <2> QED
    BY <1>2, <2>1 DEF PartOfText
<1> HIDE DEF Part
<1>10. Whole(Text(s, i))
  <2>1. SubSeq(t, 0 + 1, x) = Text(s + 0, s + x)
    <3>1. PICK z \in Nat : z = 0 /\ z <= x /\ x \in Nat /\ x <= n - s
      BY <1>1
    <3>2. Part(z, x)
      BY <1>9, <3>1
    <3> QED
      BY <3>1, <3>2 DEF Part
  <2>2. 0 + 1 = 1 /\ s + 0 = s
    OBVIOUS
  <2> QED
    BY <1>6, <1>7, <2>1, <2>2
<1>11. i < j => Fraction(Text(i, j))
  <2>1. SubSeq(t, x + 1, y) = Text(s + x, s + y)
    <3>1. x \in Nat /\ y \in Nat /\ x <= y /\ y <= n - s
      BY <1>1
    <3>2. Part(x, y)
      BY <1>9, <3>1
    <3> QED
      BY <3>2 DEF Part
  <2> QED
    BY <1>6, <1>7, <1>8, <2>1
<1>12. j < n => Exponent(Text(j, n))
  <2>1. PICK z \in Nat : z = n - s /\ s + z = n /\ y <= z
    BY <1>1
  <2>2. SubSeq(t, y + 1, z) = Text(s + y, s + z)
    <3>1. Part(y, z)
      <4>1. y \in Nat /\ z <= n - s
        BY <2>1
      <4> QED
        BY <1>9, <2>1, <4>1
    <3> QED
      BY <3>1 DEF Part
  <2> QED
    BY <1>6, <1>7, <1>8, <2>1, <2>2
<1>13. DigitsIn(BehindSign(s), i) /\ (i > BehindSign(s) + 1 => source[BehindSign(s) + 1] # "zero")
  BY <1>8, <1>10, TextParts
<1>14. i < j => source[i + 1] = "dot" /\ DigitsIn(i + 1, j)
  BY <1>8, <1>11, TextParts
<1>15. j < n => source[j + 1] = "e" /\ DigitsIn(BehindSign(j + 1), n)
  BY <1>1, <1>12, TextParts
<1>16. ~ (n > s + 2 /\ source[s + 2] = "zero" /\ source[s + 3] \in Digit)
  <2>1. n > s + 2 => Len(t) > 2 /\ t[2] = source[s + 2] /\ t[3] = source[s + 3]
    BY <1>1, <1>3
  <2> QED
    BY <1>2, <2>1
<1>17. NumberAt(s, i, j, n)
  BY <1>1, <1>8, <1>13, <1>14, <1>15, <1>16 DEF NumberAt
<1>18. Whole(Text(s, n)) <=> i = n
  <2>1. ASSUME Whole(Text(s, n)), i # n
        PROVE  FALSE
    <3>1. DigitsIn(BehindSign(s), n)
      BY <1>1, <2>1, TextParts
    <3>2. BehindSign(s) \in Nat /\ BehindSign(s) <= s + 1
      BY <1>1, TextUnsigned
    <3>3. i + 1 \in BehindSign(s) + 1 .. n
      BY <1>1, <1>8, <2>1, <3>2
    <3>4. source[i + 1] \in Digit
      BY <3>1, <3>3 DEF DigitsIn
    <3>5. source[i + 1] \in {"dot", "e"}
      BY <1>8, <1>14, <1>15, <2>1
    <3> QED
      BY <3>4, <3>5 DEF Digit
  <2> QED
    BY <1>10, <2>1
<1> QED
  BY <1>17, <1>18

-----------------------------------------------------------------------------
(* Numbers as written *)

\* For every document and every sequence of calls: while scan_number reads, the
\* cursor is where the number's parts say it is (its sign, integer part, fraction and
\* exponent, in this order), and every token that starts with a number, the ones on
\* the stack of saved cursors included, ends where the number ends.
THEOREM NumbersInvariant == Spec => []NumbersInv
<1>1. ScannerInv /\ NumbersInv /\ [Next]_vars => NumbersInv'
  BY ScanNumbers, ParserNumbers, NodeNumbers DEF Next
<1> QED
  BY <1>1, NumbersStart, ScannerInvariant, PTL DEF Spec

\* For every document: a number that stands by itself is one token, an integer or
\* a float as it is written, whatever was scanned, reverted and scanned again before
\* (scan_number), unless a zero behind its first character cuts it in two.
THEOREM NumbersRead == Spec => []NumbersAsWritten
<1>1. ScannerInv /\ NumbersInv => NumbersAsWritten
  <2>1. SUFFICES ASSUME ScannerInv, NumbersInv, pc = "parser", Without({"cr"}),
                        cursor.token \notin {"none", "white_space", "end"},
                        NEW n \in cursor.start_position + 1 .. size,
                        Number(Text(cursor.start_position, n)),
                        ~ (/\ Len(Text(cursor.start_position, n)) > 2
                           /\ Text(cursor.start_position, n)[2] = "zero"
                           /\ Text(cursor.start_position, n)[3] \in Digit),
                        CharAt(n) \notin Digit \cup Letter \cup {"dot"}
                 PROVE  /\ cursor.position = n
                        /\ cursor.token = IF Whole(Text(cursor.start_position, n)) THEN "int" ELSE "float"
    BY DEF NumbersAsWritten, Text
  <2>2. TypeOK /\ cursor.start_position \in Nat /\ n \in Nat
    <3>1. TypeOK /\ cursor.start_position \in Nat
      BY <2>1 DEF ScannerInv, TypeOK, Cursor
    <3>2. size \in Nat
      BY <3>1, CharValue
    <3> QED
      BY <2>1, <3>1, <3>2
  <2>3. PICK s \in Nat : s = cursor.start_position
    BY <2>2
  <2>4. \E i, j \in Nat : NumberAt(s, i, j, n) /\ (Whole(Text(s, n)) <=> i = n)
    BY <2>1, <2>2, <2>3, TextNumber
  <2>5. Read(cursor)
    BY <2>1 DEF NumbersInv
  <2> QED
    BY <2>1, <2>2, <2>3, <2>4, <2>5 DEF Read
<1> QED
  BY <1>1, NumbersInvariant, ScannerInvariant, PTL

-----------------------------------------------------------------------------
(* Where syntax nodes are: the binary search in the line list finds the line *)
(* of a node, although looking ahead leaves entries in the list that are     *)
(* appended again later.                                                     *)
(*                                                                           *)
(* The argument: whatever lies in the list beyond the position of the cursor *)
(* was noted between that position and the next token (Ahead).  So when the  *)
(* next token is found nothing in the list begins after its start, and from  *)
(* then on only entries beyond it are appended.                              *)


\* The scanner comes from q to the character i in a comment.
Commented(q, i) ==
    \E h \in q + 1 .. i : source[h] = "hash" /\ \A k \in h .. i : source[k] # "nl"

\* The scanner, in mode "scan" or "comment" at q, passes over character i.
Passed(q, mode, i) ==
    \/ source[i] \in {"nl", "sp", "hash"}
    \/ Commented(q, i)
    \/ mode = "comment" /\ \A k \in q + 1 .. i : source[k] # "nl"

\* A line begins at e, and there is no token between q and e.
Blank(q, mode, e) ==
    e <= size /\ source[e] = "nl" /\ \A i \in q + 1 .. e : Passed(q, mode, i)

\* What the list has beyond q belongs to the blanks behind q.
Ahead(q, mode) ==
    \A j \in DOMAIN position_to_line_list :
        position_to_line_list[j].position > q => Blank(q, mode, position_to_line_list[j].position)

\* The lines that begin up to p come first.
PartedBy(p) ==
    \A i, j \in DOMAIN position_to_line_list :
        i < j /\ position_to_line_list[j].position <= p => position_to_line_list[i].position <= p

Breaks(p) == {i \in 1 .. p : source[i] = "nl"}

\* Entry i is where the line of p begins, if no string spans lines.
TrueLine(i, p) ==
    LET e == position_to_line_list[i]
    IN  /\ e.line = 1 + Cardinality(Breaks(p))
        /\ e.position = 0 \/ source[e.position] = "nl"
        /\ \A k \in e.position + 1 .. p : source[k] # "nl"

\* White space never counts.
AlwaysSkips == SkipWhiteSpace[source] = {TRUE}

\* The source has no strings.
NoStrings == Without({"quote"})

\* Entry i is the last that does not lie beyond p.
LastEntry(i, p) ==
    /\ position_to_line_list[i].position <= p
    /\ \A j \in DOMAIN position_to_line_list : j > i => position_to_line_list[j].position > p

\* The last entry up to p has this line, and the column is counted from it,
\* unless line breaks may be returned as white space.
LastAt(p, line, column) ==
    \E i \in DOMAIN position_to_line_list :
        /\ LastEntry(i, p)
        /\ position_to_line_list[i].line = line
        /\ AlwaysSkips => column = p - position_to_line_list[i].position + 1
        /\ NoStrings => TrueLine(i, p)

\* A cursor between two calls of take_next_token.
Located(c) ==
    /\ c.start_position <= c.position
    /\ Ahead(c.position, "scan")
    /\ LastAt(c.position, c.line, c.column)
    /\ AlwaysSkips => c.token # "white_space"
    /\ c.token \notin {"none", "white_space", "end"} =>
          PartedBy(c.start_position) /\ LastAt(c.start_position, c.line, c.start_column)

\* Between two tokens.
BetweenInv ==
    pc \in {"scan", "comment"} =>
        /\ cursor.start_position = cursor.position /\ cursor.start_column = cursor.column
        /\ Ahead(cursor.position, pc)
        /\ LastAt(cursor.position, cursor.line, cursor.column)

\* In a token that is longer than a character.
LongInv ==
    pc \in Long =>
        /\ cursor.start_position <= cursor.position
        /\ cursor.column - cursor.start_column = cursor.position - cursor.start_position
        /\ \A j \in DOMAIN position_to_line_list :
              position_to_line_list[j].position <= cursor.start_position
        /\ LastAt(cursor.start_position, cursor.line, cursor.start_column)
        /\ NoStrings =>
              /\ pc \notin {"string", "truncated", "block"}
              /\ \A k \in cursor.start_position + 1 .. cursor.position : source[k] # "nl"

\* The cursor on top of the stack.
Top == saved_text_cursors[Len(saved_text_cursors)]

LooksAhead == pc \in Scanning \cup {"return"} /\ call.op \in LookAhead

\* From a the scanner came to q without a token.
Crossed(a, q, mode) ==
    /\ \A i \in a + 1 .. q : Passed(a, "scan", i)
    /\ mode = "comment" => Commented(a, q)

\* The cursor that a look-ahead will come back to.
LookInv ==
    LooksAhead =>
        /\ Located(Top)
        /\ Top.position <= cursor.position
        /\ \A p \in syntaxes : p <= Top.position
        /\ pc \in {"scan", "comment"} => Crossed(Top.position, cursor.position, pc)

\* The list is as the search for a node needs it.
Findable(p) ==
    /\ PartedBy(p)
    /\ \E i \in DOMAIN position_to_line_list :
          LastEntry(i, p) /\ (NoStrings => TrueLine(i, p))

NodeInv == \A p \in syntaxes : p <= cursor.position /\ Findable(p)

\* What is known of documents without carriage returns.
LinesInv ==
    Without({"cr"}) =>
        /\ BetweenInv /\ LongInv /\ LookInv /\ NodeInv
        /\ pc \in {"parser", "return", "search"} => Located(cursor)
        /\ pc \in Scanning \cup {"return"} => call.skip \in SkipWhiteSpace[source]

-----------------------------------------------------------------------------
(* Blanks *)

\* The next character is known when it is one of some kind.
LEMMA CharIs ==
    ASSUME TypeOK, NEW q \in Nat, CharAt(q) # "none"
    PROVE  q < size /\ size \in Nat /\ source[q + 1] = CharAt(q) /\ q + 1 \in 1 .. size
<1>1. q < size /\ size \in Nat
  BY CharInside
<1> QED
  BY <1>1 DEF CharAt

\* The scanner takes a space or a line break.
LEMMA BlankAfterSpace ==
    ASSUME NEW q \in Nat, NEW e \in Nat, Blank(q, "scan", e), source[q + 1] \in {"nl", "sp"}
    PROVE  Blank(q + 1, "scan", e)
<1> SUFFICES ASSUME NEW i \in (q + 1) + 1 .. e PROVE Passed(q + 1, "scan", i)
  BY DEF Blank
<1>1. i \in q + 1 .. e /\ Passed(q, "scan", i)
  BY DEF Blank
<1>2. CASE Commented(q, i)
  <2>1. PICK h \in q + 1 .. i : source[h] = "hash" /\ \A k \in h .. i : source[k] # "nl"
    BY <1>2 DEF Commented
  <2>2. h \in (q + 1) + 1 .. i
    BY <2>1
  <2> QED
    BY <2>1, <2>2 DEF Commented, Passed
<1> QED
  BY <1>1, <1>2 DEF Passed

\* It takes the hash of a comment, or goes on in one.
LEMMA BlankInComment ==
    ASSUME NEW q \in Nat, NEW e \in Nat, NEW mode \in {"scan", "comment"}, Blank(q, mode, e),
           source[q + 1] # "nl", mode = "comment" \/ source[q + 1] = "hash"
    PROVE  Blank(q + 1, "comment", e)
<1> SUFFICES ASSUME NEW i \in (q + 1) + 1 .. e PROVE Passed(q + 1, "comment", i)
  BY DEF Blank
<1>1. i \in q + 1 .. e /\ Passed(q, mode, i)
  BY DEF Blank
<1>2. CASE Commented(q, i)
  <2>1. PICK h \in q + 1 .. i : source[h] = "hash" /\ \A k \in h .. i : source[k] # "nl"
    BY <1>2 DEF Commented
  <2>2. CASE h = q + 1
    BY <2>1, <2>2 DEF Passed
  <2>3. CASE h # q + 1
    <3>1. h \in (q + 1) + 1 .. i
      BY <2>3
    <3> QED
      BY <2>1, <3>1 DEF Commented, Passed
  <2> QED
    BY <2>2, <2>3
<1>3. CASE mode = "comment" /\ \A k \in q + 1 .. i : source[k] # "nl"
  BY <1>3 DEF Passed
<1> QED
  BY <1>1, <1>2, <1>3 DEF Passed

\* A comment ends before a line break or with the source.
LEMMA BlankAfterComment ==
    ASSUME size \in Nat, NEW q \in Nat, NEW e \in Nat, e > q, Blank(q, "comment", e),
           q >= size \/ source[q + 1] = "nl"
    PROVE  Blank(q, "scan", e)
<1>1. e <= size /\ q < size /\ source[q + 1] = "nl"
  BY DEF Blank
<1> SUFFICES ASSUME NEW i \in q + 1 .. e PROVE Passed(q, "scan", i)
  BY DEF Blank
<1>2. Passed(q, "comment", i) /\ q + 1 \in q + 1 .. i
  BY DEF Blank
<1> QED
  BY <1>1, <1>2 DEF Passed

\* No line begins beyond the first character of a token, or beyond the end.
LEMMA NotBlank ==
    ASSUME size \in Nat, NEW q \in Nat, NEW e \in Nat, e > q,
           q >= size \/ source[q + 1] \notin {"nl", "sp", "hash"}
    PROVE  ~ Blank(q, "scan", e)
<1> SUFFICES ASSUME Blank(q, "scan", e) PROVE FALSE
  OBVIOUS
<1>1. q < size /\ source[q + 1] \notin {"nl", "sp", "hash"}
  BY DEF Blank
<1>2. Passed(q, "scan", q + 1)
  BY DEF Blank
<1>3. ~ Commented(q, q + 1)
  <2> SUFFICES ASSUME NEW h \in q + 1 .. q + 1, source[h] = "hash" PROVE FALSE
    BY DEF Commented
  <2>1. h = q + 1
    OBVIOUS
  <2> QED
    BY <2>1, <1>1
<1> QED
  BY <1>1, <1>2, <1>3 DEF Passed

\* The way from a to q gets one character longer: a blank, a hash, or a
\* character of a comment.
LEMMA CrossedMore ==
    ASSUME NEW a \in Nat, NEW q \in Nat, a <= q, NEW before \in {"scan", "comment"}, NEW after \in {"scan", "comment"},
           Crossed(a, q, before),
           \/ source[q + 1] \in {"nl", "sp"} /\ after = "scan"
           \/ source[q + 1] = "hash" /\ after = "comment"
           \/ before = "comment" /\ source[q + 1] # "nl" /\ after = "comment"
    PROVE  Crossed(a, q + 1, after)
<1>1. source[q + 1] # "nl" /\ after = "comment" => Commented(a, q + 1)
  <2> SUFFICES ASSUME source[q + 1] # "nl", after = "comment" PROVE Commented(a, q + 1)
    OBVIOUS
  <2>1. CASE source[q + 1] = "hash"
    <3>1. q + 1 \in a + 1 .. q + 1 /\ \A k \in q + 1 .. q + 1 : k = q + 1
      OBVIOUS
    <3> QED
      BY <2>1, <3>1 DEF Commented
  <2>2. CASE before = "comment"
    <3>1. PICK h \in a + 1 .. q : source[h] = "hash" /\ \A k \in h .. q : source[k] # "nl"
      BY <2>2 DEF Crossed, Commented
    <3>2. h \in a + 1 .. q + 1 /\ \A k \in h .. q + 1 : k \in h .. q \/ k = q + 1
      OBVIOUS
    <3> QED
      BY <3>1, <3>2 DEF Commented
  <2> QED
    BY <2>1, <2>2
<1>2. Passed(a, "scan", q + 1)
  BY <1>1 DEF Passed
<1>3. \A i \in a + 1 .. q + 1 : i \in a + 1 .. q \/ i = q + 1
  OBVIOUS
<1>4. \A i \in a + 1 .. q + 1 : Passed(a, "scan", i)
  BY <1>2, <1>3 DEF Crossed
<1>5. after = "comment" => source[q + 1] # "nl"
  OBVIOUS
<1> QED
  BY <1>1, <1>4, <1>5 DEF Crossed

-----------------------------------------------------------------------------
(* The list grows *)

Entries == [position : Nat, line : Nat]

\* The list after a step, as ListResult says.
LEMMA Grown ==
    ASSUME position_to_line_list \in Seq(Entries), NEW e \in Entries,
           position_to_line_list' = Append(position_to_line_list, e)
    PROVE  /\ position_to_line_list' \in Seq(Entries)
           /\ DOMAIN position_to_line_list = 1 .. Len(position_to_line_list)
           /\ DOMAIN position_to_line_list' = 1 .. Len(position_to_line_list) + 1
           /\ Len(position_to_line_list) \in Nat
           /\ \A i \in DOMAIN position_to_line_list :
                 /\ i \in DOMAIN position_to_line_list' /\ i < Len(position_to_line_list) + 1
                 /\ position_to_line_list'[i] = position_to_line_list[i]
           /\ position_to_line_list'[Len(position_to_line_list) + 1] = e
           /\ \A i \in DOMAIN position_to_line_list' :
                 i \in DOMAIN position_to_line_list \/ i = Len(position_to_line_list) + 1
<1> DEFINE l == position_to_line_list
<1>1. l \in Seq(Entries) /\ Len(l) \in Nat /\ DOMAIN l = 1 .. Len(l)
  OBVIOUS
<1>2. position_to_line_list' = Append(l, e)
  OBVIOUS
<1> HIDE DEF l
<1>3. Append(l, e) \in Seq(Entries) /\ DOMAIN Append(l, e) = 1 .. Len(l) + 1
  BY <1>1
<1>4. \A i \in 1 .. Len(l) : Append(l, e)[i] = l[i]
  BY <1>1
<1>5. Append(l, e)[Len(l) + 1] = e
  BY <1>1
<1> QED
  BY <1>1, <1>2, <1>3, <1>4, <1>5 DEF l

\* An entry beyond p changes nothing for p.
LEMMA BeyondKeeps ==
    ASSUME position_to_line_list \in Seq(Entries), source' = source, NEW e \in Entries,
           position_to_line_list' = Append(position_to_line_list, e),
           NEW p \in Nat, e.position > p
    PROVE  /\ PartedBy(p) => PartedBy(p)'
           /\ \A line, column \in Nat : LastAt(p, line, column) => LastAt(p, line, column)'
           /\ Findable(p) => Findable(p)'
<1> DEFINE l == position_to_line_list
           n == Len(l) + 1
<1>1. /\ \A i \in DOMAIN l : i \in DOMAIN l' /\ i < n /\ l'[i] = l[i]
      /\ l'[n] = e
      /\ \A i \in DOMAIN l' : i \in DOMAIN l \/ i = n
      /\ DOMAIN l' = 1 .. n /\ DOMAIN l = 1 .. Len(l) /\ n \in Nat
  BY Grown
<1>2. /\ AlwaysSkips' = AlwaysSkips /\ NoStrings' = NoStrings
  BY DEF AlwaysSkips, NoStrings, Without, size
<1> HIDE DEF n
<1>3. PartedBy(p) => PartedBy(p)'
  <2> SUFFICES ASSUME PartedBy(p), NEW i \in DOMAIN l', NEW j \in DOMAIN l', i < j, l'[j].position <= p
               PROVE  l'[i].position <= p
    BY DEF PartedBy
  <2>1. ~ (e.position <= p)
    BY DEF Entries
  <2>2. j \in DOMAIN l /\ j < n
    BY <2>1, <1>1
  <2>3. i \in DOMAIN l
    BY <2>2, <1>1
  <2> QED
    BY <2>2, <2>3, <1>1 DEF PartedBy
<1>4. ASSUME NEW i \in DOMAIN l, LastEntry(i, p)
      PROVE  LastEntry(i, p)' /\ (TrueLine(i, p) => TrueLine(i, p)') /\ l'[i] = l[i] /\ i \in DOMAIN l'
  <2>1. LastEntry(i, p)'
    BY <1>1, <1>4 DEF LastEntry
  <2>2. TrueLine(i, p) => TrueLine(i, p)'
    BY <1>1 DEF TrueLine, Breaks
  <2> QED
    BY <2>1, <2>2, <1>1
<1>5. ASSUME NEW line \in Nat, NEW column \in Nat, LastAt(p, line, column)
      PROVE  LastAt(p, line, column)'
  <2>1. PICK i \in DOMAIN l :
           /\ LastEntry(i, p)
           /\ l[i].line = line
           /\ AlwaysSkips => column = p - l[i].position + 1
           /\ NoStrings => TrueLine(i, p)
    BY <1>5 DEF LastAt
  <2>2. LastEntry(i, p)' /\ (TrueLine(i, p) => TrueLine(i, p)') /\ l'[i] = l[i] /\ i \in DOMAIN l'
    BY <2>1, <1>4
  <2> QED
    BY <2>1, <2>2, <1>2 DEF LastAt
<1>6. Findable(p) => Findable(p)'
  BY <1>2, <1>3, <1>4 DEF Findable
<1> QED
  BY <1>3, <1>5, <1>6

\* An entry in the blanks behind q is one of those that may lie ahead.
LEMMA AheadKeeps ==
    ASSUME position_to_line_list \in Seq(Entries), source' = source, NEW e \in Entries,
           position_to_line_list' = Append(position_to_line_list, e),
           NEW q \in Nat, NEW mode, Ahead(q, mode), e.position > q => Blank(q, mode, e.position)
    PROVE  Ahead(q, mode)'
<1> DEFINE l == position_to_line_list
           n == Len(l) + 1
<1>1. /\ \A i \in DOMAIN l : l'[i] = l[i]
      /\ l'[n] = e
      /\ \A i \in DOMAIN l' : i \in DOMAIN l \/ i = n
  BY Grown
<1>2. \A x : Blank(q, mode, x)' = Blank(q, mode, x)
  BY DEF Blank, Passed, Commented, size
<1> HIDE DEF n
<1> QED
  BY <1>1, <1>2 DEF Ahead

\* A cursor stays located when a line behind it is noted in the blanks that
\* follow.
LEMMA LocatedKeeps ==
    ASSUME position_to_line_list \in Seq(Entries), source' = source, NEW e \in Entries,
           position_to_line_list' = Append(position_to_line_list, e),
           NEW c \in Cursor, Located(c), e.position > c.position,
           Blank(c.position, "scan", e.position)
    PROVE  Located(c)'
<1>1. /\ c.position \in Nat /\ c.start_position \in Nat /\ c.line \in Nat /\ c.column \in Nat
      /\ c.start_column \in Nat /\ e.position \in Nat
  BY DEF Cursor, Entries
<1>2. e.position > c.start_position
  BY <1>1 DEF Located
<1>3. Ahead(c.position, "scan")'
  BY <1>1, AheadKeeps DEF Located
<1>4. LastAt(c.position, c.line, c.column)'
  BY <1>1, BeyondKeeps DEF Located
<1>5. PartedBy(c.start_position) => PartedBy(c.start_position)'
  BY <1>1, <1>2, BeyondKeeps
<1>6. LastAt(c.start_position, c.line, c.start_column) => LastAt(c.start_position, c.line, c.start_column)'
  BY <1>1, <1>2, BeyondKeeps
<1>7. AlwaysSkips' = AlwaysSkips
  BY DEF AlwaysSkips
<1> QED
  BY <1>3, <1>4, <1>5, <1>6, <1>7 DEF Located

\* Where source and list stay, everything that is said of places stays.
LEMMA SameList ==
    ASSUME source' = source, position_to_line_list' = position_to_line_list
    PROVE  /\ \A p : PartedBy(p) => PartedBy(p)'
           /\ \A p : Findable(p) => Findable(p)'
           /\ \A p, line, column : LastAt(p, line, column) => LastAt(p, line, column)'
           /\ \A q, mode : Ahead(q, mode) => Ahead(q, mode)'
           /\ \A c : Located(c) => Located(c)'
<1>1. /\ AlwaysSkips' = AlwaysSkips /\ NoStrings' = NoStrings
  BY DEF AlwaysSkips, NoStrings, Without, size
<1>2. \A p : PartedBy(p) => PartedBy(p)'
  BY DEF PartedBy
<1>3. \A i, p : TrueLine(i, p) => TrueLine(i, p)'
  BY DEF TrueLine, Breaks
<1>4. \A i, p : LastEntry(i, p) => LastEntry(i, p)'
  BY DEF LastEntry
<1>5. \A p, line, column : LastAt(p, line, column) => LastAt(p, line, column)'
  BY <1>1, <1>3, <1>4 DEF LastAt
<1>6. \A p : Findable(p) => Findable(p)'
  BY <1>1, <1>2, <1>3, <1>4 DEF Findable
<1>7. \A q, mode, e : Blank(q, mode, e) => Blank(q, mode, e)'
  BY DEF Blank, Passed, Commented, size
<1>8. \A q, mode : Ahead(q, mode) => Ahead(q, mode)'
  BY <1>7 DEF Ahead
<1>9. \A c : Located(c) => Located(c)'
  BY <1>1, <1>2, <1>5, <1>8 DEF Located
<1> QED
  BY <1>2, <1>5, <1>6, <1>8, <1>9

-----------------------------------------------------------------------------
(* The line of a place *)

\* Characters without a line break, and without an entry among them, belong to
\* the same line.
LEMMA LastMoves ==
    ASSUME position_to_line_list \in Seq(Entries),
           NEW s \in Nat, NEW p \in Nat, NEW line \in Nat, NEW column \in Nat, s <= p,
           LastAt(s, line, column),
           \A j \in DOMAIN position_to_line_list : position_to_line_list[j].position \notin s + 1 .. p,
           NoStrings => \A k \in s + 1 .. p : source[k] # "nl"
    PROVE  LastAt(p, line, column + (p - s))
<1> DEFINE l == position_to_line_list
<1>1. PICK i \in DOMAIN l :
         /\ LastEntry(i, s)
         /\ l[i].line = line
         /\ AlwaysSkips => column = s - l[i].position + 1
         /\ NoStrings => TrueLine(i, s)
  BY DEF LastAt
<1>2. \A j \in DOMAIN l : l[j].position \in Nat
  <2>1. \A j \in DOMAIN l : l[j] \in Entries
    OBVIOUS
  <2> QED
    BY <2>1 DEF Entries
<1>3. LastEntry(i, p)
  BY <1>1, <1>2 DEF LastEntry
<1>4. ASSUME NoStrings PROVE TrueLine(i, p)
  <2>1. Breaks(p) = Breaks(s)
    BY <1>4 DEF Breaks
  <2>2. l[i].position <= s
    BY <1>1 DEF LastEntry
  <2>3. \A k \in l[i].position + 1 .. p : k \in l[i].position + 1 .. s \/ k \in s + 1 .. p
    BY <2>2, <1>2
  <2> QED
    BY <2>1, <2>3, <1>1, <1>4 DEF TrueLine
<1>5. AlwaysSkips => column + (p - s) = p - l[i].position + 1
  <2>1. PICK m \in Nat : m = l[i].position
    BY <1>1, <1>2
  <2>2. AlwaysSkips => column = s - m + 1
    BY <2>1, <1>1
  <2>3. AlwaysSkips => column + (p - s) = p - m + 1
    BY <2>2
  <2> QED
    BY <2>1, <2>3
<1> QED
  BY <1>1, <1>3, <1>4, <1>5 DEF LastAt

\* A line break begins the next line.
LEMMA LastBreaks ==
    ASSUME position_to_line_list \in Seq(Entries), source' = source,
           NEW q \in Nat, NEW line \in Nat, NEW column \in Nat, LastAt(q, line, column),
           source[q + 1] = "nl",
           position_to_line_list' =
              Append(position_to_line_list, [position |-> q + 1, line |-> line + 1]),
           NEW next \in Nat, AlwaysSkips => next = 1
    PROVE  LastAt(q + 1, line + 1, next)'
<1> DEFINE l == position_to_line_list
<1>1. PICK e \in Entries : e = [position |-> q + 1, line |-> line + 1] /\ e.position = q + 1 /\ e.line = line + 1
  BY DEF Entries
<1>7. PICK n : n = Len(l) + 1
  OBVIOUS
<1>2. /\ l'[n] = e /\ DOMAIN l' = 1 .. n /\ n \in Nat /\ n \in DOMAIN l'
      /\ \A j \in DOMAIN l' : ~ (j > n)
  <2>1. /\ l'[n] = e /\ DOMAIN l' = 1 .. n /\ Len(l) \in Nat
    BY <1>1, <1>7, Grown
  <2> QED
    BY <2>1, <1>7
<1>3. LastEntry(n, q + 1)'
  BY <1>1, <1>2 DEF LastEntry
<1>4. ASSUME NoStrings PROVE TrueLine(n, q + 1)'
  <2>1. PICK i \in DOMAIN l : l[i].line = line /\ TrueLine(i, q)
    BY <1>4 DEF LastAt
  <2>2. line = 1 + Cardinality(Breaks(q))
    BY <2>1 DEF TrueLine
  <2>3. IsFiniteSet(Breaks(q)) /\ q + 1 \notin Breaks(q)
    <3>1. IsFiniteSet(1 .. q) /\ Breaks(q) \subseteq 1 .. q
      BY FS_Interval DEF Breaks
    <3> QED
      BY <3>1, FS_Subset
  <2>4. Breaks(q + 1) = Breaks(q) \cup {q + 1}
    <3>1. \A x : x \in 1 .. q + 1 <=> x \in 1 .. q \/ x = q + 1
      OBVIOUS
    <3> QED
      BY <3>1 DEF Breaks
  <2>5. Cardinality(Breaks(q + 1)) = Cardinality(Breaks(q)) + 1 /\ Cardinality(Breaks(q)) \in Nat
    BY <2>3, <2>4, FS_AddElement, FS_CardinalityType
  <2>6. Breaks(q + 1)' = Breaks(q + 1)
    BY DEF Breaks
  <2>7. e.line = 1 + Cardinality(Breaks(q + 1))
    BY <2>2, <2>5, <1>1
  <2>8. \A k \in e.position + 1 .. q + 1 : source[k] # "nl"
    BY <1>1
  <2> QED
    BY <2>6, <2>7, <2>8, <1>1, <1>2 DEF TrueLine
<1>5. /\ AlwaysSkips' = AlwaysSkips /\ NoStrings' = NoStrings
  BY DEF AlwaysSkips, NoStrings, Without, size
<1>6. AlwaysSkips => next = (q + 1) - e.position + 1
  BY <1>1
<1> QED
  BY <1>1, <1>2, <1>3, <1>4, <1>5, <1>6 DEF LastAt

\* A token, when no line begins beyond its start, leaves a located cursor.
LEMMA TokenLocated ==
    ASSUME position_to_line_list \in Seq(Entries), NEW c \in Cursor,
           c.start_position <= c.position,
           c.column - c.start_column = c.position - c.start_position,
           \A j \in DOMAIN position_to_line_list : position_to_line_list[j].position <= c.start_position,
           LastAt(c.start_position, c.line, c.start_column),
           NoStrings => \A k \in c.start_position + 1 .. c.position : source[k] # "nl",
           c.token # "white_space"
    PROVE  Located(c)
<1>1. /\ c.position \in Nat /\ c.start_position \in Nat /\ c.line \in Nat /\ c.column \in Nat
      /\ c.start_column \in Nat
  BY DEF Cursor
<1>2. \A j \in DOMAIN position_to_line_list : position_to_line_list[j].position \in Nat
  <2>1. \A j \in DOMAIN position_to_line_list : position_to_line_list[j] \in Entries
    OBVIOUS
  <2> QED
    BY <2>1 DEF Entries
<1>3. c.column = c.start_column + (c.position - c.start_position)
  BY <1>1
<1>4. LastAt(c.position, c.line, c.column)
  <2>1. \A j \in DOMAIN position_to_line_list :
           position_to_line_list[j].position \notin c.start_position + 1 .. c.position
    BY <1>1, <1>2
  <2>2. LastAt(c.position, c.line, c.start_column + (c.position - c.start_position))
    BY <2>1, <1>1, LastMoves
  <2> QED
    BY <2>2, <1>3
<1>5. Ahead(c.position, "scan")
  BY <1>1, <1>2 DEF Ahead
<1>6. PartedBy(c.start_position)
  BY DEF PartedBy
<1> QED
  BY <1>4, <1>5, <1>6 DEF Located

-----------------------------------------------------------------------------
(* Steps of the scan *)

\* What is known between two tokens.
LEMMA Between ==
    ASSUME ScannerInv, Without({"cr"}), LinesInv, pc \in {"scan", "comment"}
    PROVE  /\ cursor \in Cursor /\ cursor.position \in Nat /\ cursor.line \in Nat
           /\ cursor.column \in Nat /\ size \in Nat
           /\ position_to_line_list \in Seq(Entries)
           /\ \A j \in DOMAIN position_to_line_list : position_to_line_list[j].position \in Nat
           /\ cursor.start_position = cursor.position /\ cursor.start_column = cursor.column
           /\ Ahead(cursor.position, pc)
           /\ LastAt(cursor.position, cursor.line, cursor.column)
           /\ LooksAhead => Top.position <= cursor.position
                            /\ Crossed(Top.position, cursor.position, pc) /\ Top.position \in Nat
           /\ call.skip \in SkipWhiteSpace[source]
<1>1. TypeOK /\ SavedInv
  BY DEF ScannerInv
<1>2. cursor \in Cursor /\ position_to_line_list \in Seq(Entries) /\ saved_text_cursors \in Seq(Cursor)
  BY <1>1 DEF TypeOK, Entries
<1>3. \A j \in DOMAIN position_to_line_list : position_to_line_list[j].position \in Nat
  <2>1. \A j \in DOMAIN position_to_line_list : position_to_line_list[j] \in Entries
    BY <1>2
  <2> QED
    BY <2>1 DEF Entries
<1>4. size \in Nat
  BY <1>1, CharInside
<1>5. /\ cursor.start_position = cursor.position /\ cursor.start_column = cursor.column
      /\ Ahead(cursor.position, pc)
      /\ LastAt(cursor.position, cursor.line, cursor.column)
      /\ LooksAhead => Top.position <= cursor.position /\ Crossed(Top.position, cursor.position, pc)
      /\ call.skip \in SkipWhiteSpace[source]
  BY DEF LinesInv, BetweenInv, LookInv, Scanning
<1>6. LooksAhead => Top \in Cursor
  <2>1. LooksAhead => Len(saved_text_cursors) > 0
    BY <1>1 DEF LooksAhead, SavedInv
  <2> QED
    BY <2>1, <1>2 DEF Top
<1>7. LooksAhead => Top.position \in Nat
  BY <1>6 DEF Cursor
<1>8. cursor.position \in Nat /\ cursor.line \in Nat /\ cursor.column \in Nat
  BY <1>2 DEF Cursor
<1> QED
  BY <1>2, <1>3, <1>4, <1>5, <1>7, <1>8

\* The top of the stack during a look-ahead.
LEMMA TopTyped ==
    ASSUME ScannerInv, LooksAhead
    PROVE  Top \in Cursor
<1>1. TypeOK /\ SavedInv
  BY DEF ScannerInv
<1>2. saved_text_cursors \in Seq(Cursor) /\ Len(saved_text_cursors) > 0
  BY <1>1 DEF LooksAhead, SavedInv, TypeOK, Scanning
<1> QED
  BY <1>2 DEF Top

\* What a step of the scan has to establish.
LEMMA ScanAssembles ==
    ASSUME ScannerInv, Without({"cr"}), LinesInv, pc \in Scanning,
           UNCHANGED <<source, saved_text_cursors, call, syntaxes>>,
           cursor' \in Cursor, cursor'.position >= cursor.position, pc' \in Scanning \cup {"return"},
           \/ UNCHANGED position_to_line_list
           \/ \E e \in Entries : /\ position_to_line_list' = Append(position_to_line_list, e)
                                 /\ e.position > cursor.position
                                 /\ LooksAhead => Blank(Top.position, "scan", e.position),
           BetweenInv', LongInv', pc' = "return" => Located(cursor)',
           LooksAhead /\ pc' \in {"scan", "comment"} => Crossed(Top.position, cursor'.position, pc')
    PROVE  LinesInv'
<1>1. /\ cursor \in Cursor /\ cursor.position \in Nat /\ cursor'.position \in Nat
      /\ position_to_line_list \in Seq(Entries) /\ syntaxes \subseteq Nat
  BY DEF ScannerInv, TypeOK, Cursor, Entries
<1>2. LookInv /\ NodeInv /\ call.skip \in SkipWhiteSpace[source]
  BY DEF LinesInv
<1>3. \A a, q, mode : Crossed(a, q, mode)' = Crossed(a, q, mode)
  BY DEF Crossed, Passed, Commented
<1>4. LooksAhead' => LooksAhead /\ Top' = Top
  BY DEF LooksAhead, Top
<1>5. NodeInv'
  <2> SUFFICES ASSUME NEW p \in syntaxes PROVE p <= cursor'.position /\ Findable(p)'
    BY DEF NodeInv
  <2>1. p \in Nat /\ p <= cursor.position /\ Findable(p)
    BY <1>1, <1>2 DEF NodeInv
  <2>2. p <= cursor'.position
    BY <2>1, <1>1
  <2>3. CASE UNCHANGED position_to_line_list
    BY <2>1, <2>2, <2>3, SameList
  <2>4. ASSUME NEW e \in Entries, e.position > cursor.position,
               position_to_line_list' = Append(position_to_line_list, e)
        PROVE  Findable(p)'
    <3>1. e.position > p
      BY <2>1, <2>4, <1>1 DEF Entries
    <3> QED
      BY <2>1, <2>4, <3>1, <1>1, BeyondKeeps
  <2> QED
    BY <2>2, <2>3, <2>4
<1>6. LookInv'
  <2> SUFFICES ASSUME LooksAhead'
               PROVE  /\ Located(Top)'
                      /\ Top'.position <= cursor'.position
                      /\ \A p \in syntaxes' : p <= Top'.position
                      /\ pc' \in {"scan", "comment"} => Crossed(Top.position, cursor.position, pc)'
    BY DEF LookInv
  <2>1. LooksAhead /\ Top' = Top
    BY <1>4
  <2>2. /\ Located(Top) /\ Top.position <= cursor.position /\ \A p \in syntaxes : p <= Top.position
    BY <2>1, <1>2 DEF LookInv
  <2>3. PICK t \in Cursor : t = Top
    BY <2>1, TopTyped
  <2>4. t.position \in Nat
    BY <2>3 DEF Cursor
  <2>5. Located(t)'
    <3>1. CASE UNCHANGED position_to_line_list
      BY <2>2, <2>3, <3>1, SameList
    <3>2. ASSUME NEW e \in Entries, position_to_line_list' = Append(position_to_line_list, e),
                 e.position > cursor.position, Blank(t.position, "scan", e.position)
          PROVE  Located(t)'
      <4>1. e.position > t.position
        BY <2>2, <2>3, <2>4, <3>2, <1>1 DEF Entries
      <4> QED
        BY <4>1, <2>2, <2>3, <3>2, <1>1, LocatedKeeps
    <3> QED
      BY <3>1, <3>2, <2>1, <2>3
  <2>6. Located(Top)'
    BY <2>1, <2>3, <2>5
  <2>7. Top'.position <= cursor'.position
    BY <2>1, <2>2, <2>3, <2>4, <1>1
  <2>8. pc' \in {"scan", "comment"} => Crossed(Top.position, cursor.position, pc)'
    BY <2>1, <1>3
  <2> QED
    BY <2>1, <2>2, <2>6, <2>7, <2>8
<1>7. pc' \in {"parser", "return", "search"} => Located(cursor)'
  BY DEF Scanning, Long
<1> QED
  BY <1>2, <1>5, <1>6, <1>7 DEF LinesInv

\* A step of the scan, by its effect.
LEMMA ScanFrame ==
    ASSUME ScannerInv, Scan
    PROVE  /\ UNCHANGED <<source, saved_text_cursors, call, syntaxes, search>>
           /\ cursor' \in Cursor /\ pc' \in Scanning \cup {"return"} /\ pc \in Scanning
<1> USE DEF ScannerInv
<1>1. ScanResult
  BY LineBreakStep, SpaceStep, CommentStep, TokenStep, LongStep, NumberStep DEF Scan, TakeChar
<1>2. pc \in Scanning
  BY DEF Scan, TakeChar, TakeComment, EndComment, ScanWord, scan_integer_part, scan_number,
         ScanFraction, ScanExponent, scan_ellipses_after_first_dot, ScanString, ScanBlock, Scanning, Long
<1> QED
  BY <1>1, <1>2 DEF ScanResult, Scan

\* Without white space that counts, no call asks for it.
LEMMA SpaceSkipped ==
    ASSUME AlwaysSkips, call.skip \in SkipWhiteSpace[source]
    PROVE  call.skip
<1>1. call.skip \in {TRUE}
  BY Zenon DEF AlwaysSkips
<1>2. call.skip = TRUE
  BY <1>1, Zenon
<1> QED
  BY <1>2, Zenon

\* What the list has behind q lies behind q + 1 too when q + 1 is blank.
LEMMA AheadMoves ==
    ASSUME NEW q \in Nat, NEW before \in {"scan", "comment"}, NEW after \in {"scan", "comment"},
           \A j \in DOMAIN position_to_line_list : position_to_line_list[j].position \in Nat,
           Ahead(q, before),
           \A e \in Nat : Blank(q, before, e) => Blank(q + 1, after, e)
    PROVE  Ahead(q + 1, after)
<1> SUFFICES ASSUME NEW j \in DOMAIN position_to_line_list, position_to_line_list[j].position > q + 1
             PROVE  Blank(q + 1, after, position_to_line_list[j].position)
  BY DEF Ahead
<1>1. PICK e \in Nat : e = position_to_line_list[j].position
  OBVIOUS
<1>2. e > q
  BY <1>1
<1>3. Blank(q, before, e)
  BY <1>1, <1>2 DEF Ahead
<1> QED
  BY <1>1, <1>3

\* The entry for a line break.
LEMMA EntryMade ==
    ASSUME NEW q \in Nat, NEW line \in Nat
    PROVE  \E e \in Entries : e = [position |-> q + 1, line |-> line + 1] /\ e.position = q + 1
<1>1. [position |-> q + 1, line |-> line + 1] \in Entries
  BY DEF Entries
<1> QED
  BY <1>1

LEMMA LineBreakLines ==
    ASSUME ScannerInv, Without({"cr"}), LinesInv, Scan, pc = "scan", TakeLineBreak
    PROVE  LinesInv'
<1>1. /\ UNCHANGED <<source, saved_text_cursors, call, syntaxes>>
      /\ cursor' \in Cursor /\ pc' \in Scanning \cup {"return"} /\ pc \in Scanning
  BY ScanFrame
<1>2. PICK q \in Nat, line \in Nat, column \in Nat :
         q = cursor.position /\ line = cursor.line /\ column = cursor.column
  BY Between
<1>3. /\ cursor \in Cursor /\ size \in Nat
      /\ position_to_line_list \in Seq(Entries)
      /\ \A j \in DOMAIN position_to_line_list : position_to_line_list[j].position \in Nat
      /\ cursor.start_position = q /\ cursor.start_column = column
      /\ Ahead(q, "scan")
      /\ LastAt(q, line, column)
      /\ LooksAhead => Top.position <= q /\ Crossed(Top.position, q, "scan") /\ Top.position \in Nat
      /\ call.skip \in SkipWhiteSpace[source]
  BY <1>2, Between
<1>4. CharAt(q) = "nl" /\ q < size /\ source[q + 1] = "nl"
  <2>1. CharAt(q) \in {"nl", "cr"}
    BY <1>2 DEF TakeLineBreak
  <2>2. q < size /\ source[q + 1] = CharAt(q) /\ q + 1 \in 1 .. size
    BY <2>1, CharIs DEF ScannerInv
  <2> QED
    BY <2>1, <2>2 DEF Without
<1>5. PICK c : c = Increment(cursor, 1)
  OBVIOUS
<1>6. /\ c.position = q + 1 /\ c.line = line /\ c.column = column + 1 /\ c.start_position = q
      /\ c.start_column = column /\ c.token = cursor.token
  BY <1>2, <1>3, <1>5 DEF Increment, CursorAt
<1>7. /\ position_to_line_list' = Append(position_to_line_list, [position |-> q + 1, line |-> line + 1])
      /\ IF call.skip
         THEN pc' = pc /\ cursor' = CursorAt(c.position, c.line + 1, 1, c.start_position + 1, 1, c.token)
         ELSE Yield("white_space", CursorAt(c.position, c.line + 1, c.column, c.start_position,
                                            c.start_column, c.token))
  <2>1. c = Increment(cursor, IF CharAt(q) = "cr" /\ CharAt(q + 2) = "nl" THEN 2 ELSE 1)
    BY <1>4, <1>5
  <2> QED
    BY <2>1, <1>2, <1>6 DEF TakeLineBreak
<1>8. PICK e \in Entries : e = [position |-> q + 1, line |-> line + 1] /\ e.position = q + 1
  BY EntryMade
<1>9. Ahead(q + 1, "scan")'
  <2>1. \A x \in Nat : Blank(q, "scan", x) => Blank(q + 1, "scan", x)
    BY <1>4, BlankAfterSpace
  <2>2. Ahead(q + 1, "scan")
    BY <2>1, <1>3, AheadMoves
  <2> QED
    BY <2>2, <1>1, <1>3, <1>7, <1>8, AheadKeeps
<1>10. LooksAhead => Crossed(Top.position, q + 1, "scan") /\ Blank(Top.position, "scan", e.position)
  <2> SUFFICES ASSUME LooksAhead
               PROVE  Crossed(Top.position, q + 1, "scan") /\ Blank(Top.position, "scan", e.position)
    OBVIOUS
  <2>1. PICK a \in Nat : a = Top.position /\ a <= q /\ Crossed(a, q, "scan")
    BY <1>3
  <2>2. Crossed(a, q + 1, "scan")
    BY <2>1, <1>4, CrossedMore
  <2>3. Blank(a, "scan", q + 1)
    BY <2>2, <1>3, <1>4 DEF Crossed, Blank
  <2> QED
    BY <2>1, <2>2, <2>3, <1>8
<1>11. CASE call.skip
  <2>1. /\ pc' = "scan" /\ cursor'.position = q + 1 /\ cursor'.line = line + 1 /\ cursor'.column = 1
        /\ cursor'.start_position = q + 1 /\ cursor'.start_column = 1
    BY <1>6, <1>7, <1>11 DEF CursorAt
  <2>2. LastAt(q + 1, line + 1, 1)'
    BY <1>1, <1>3, <1>4, <1>7, LastBreaks
  <2>3. BetweenInv'
    BY <1>9, <2>1, <2>2 DEF BetweenInv
  <2>4. LongInv' /\ pc' # "return"
    BY <2>1 DEF LongInv, Long
  <2> QED
    BY <1>1, <1>2, <1>7, <1>8, <1>10, <2>1, <2>3, <2>4, ScanAssembles
<1>12. CASE ~ call.skip
  <2>1. /\ pc' = "return" /\ cursor'.position = q + 1 /\ cursor'.line = line + 1
        /\ cursor'.column = column + 1 /\ cursor'.start_position = q /\ cursor'.start_column = column
        /\ cursor'.token = "white_space"
    BY <1>6, <1>7, <1>12 DEF CursorAt, Yield
  <2>2. ~ AlwaysSkips
    BY <1>3, <1>12, SpaceSkipped
  <2>3. LastAt(q + 1, line + 1, column + 1)'
    BY <1>1, <1>3, <1>4, <1>7, <2>2, LastBreaks
  <2>4. ~ AlwaysSkips'
    BY <1>1, <2>2 DEF AlwaysSkips
  <2>5. Located(cursor)'
    BY <1>9, <2>1, <2>3, <2>4 DEF Located
  <2>6. BetweenInv' /\ LongInv'
    BY <2>1 DEF BetweenInv, LongInv, Long
  <2> QED
    BY <1>1, <1>2, <1>7, <1>8, <1>10, <2>1, <2>5, <2>6, ScanAssembles
<1> QED
  BY <1>11, <1>12

\* One character without a line break leaves the line as it is.
LEMMA LastSteps ==
    ASSUME position_to_line_list \in Seq(Entries),
           \A j \in DOMAIN position_to_line_list : position_to_line_list[j].position \in Nat,
           NEW q \in Nat, NEW line \in Nat, NEW column \in Nat, NEW mode,
           Ahead(q, mode), LastAt(q, line, column), source[q + 1] # "nl"
    PROVE  LastAt(q + 1, line, column + 1)
<1>1. \A k \in q + 1 .. q + 1 : k = q + 1
  OBVIOUS
<1>2. \A j \in DOMAIN position_to_line_list : position_to_line_list[j].position \notin q + 1 .. q + 1
  <2> SUFFICES ASSUME NEW j \in DOMAIN position_to_line_list, position_to_line_list[j].position = q + 1
               PROVE  FALSE
    BY <1>1
  <2>1. Blank(q, mode, q + 1)
    BY DEF Ahead
  <2> QED
    BY <2>1 DEF Blank
<1>3. PICK p \in Nat : p = q + 1
  OBVIOUS
<1>4. LastAt(p, line, column + (p - q))
  <2>1. q <= p /\ \A k \in q + 1 .. p : source[k] # "nl"
    BY <1>1, <1>3
  <2>2. \A j \in DOMAIN position_to_line_list : position_to_line_list[j].position \notin q + 1 .. p
    BY <1>2, <1>3
  <2> QED
    BY <2>1, <2>2, LastMoves
<1>5. column + (p - q) = column + 1
  BY <1>3
<1> QED
  BY <1>3, <1>4, <1>5

LEMMA SpaceLines ==
    ASSUME ScannerInv, Without({"cr"}), LinesInv, Scan, pc = "scan", TakeSpace
    PROVE  LinesInv'
<1>1. /\ UNCHANGED <<source, saved_text_cursors, call, syntaxes>>
      /\ cursor' \in Cursor /\ pc' \in Scanning \cup {"return"} /\ pc \in Scanning
  BY ScanFrame
<1>2. PICK q \in Nat, line \in Nat, column \in Nat :
         q = cursor.position /\ line = cursor.line /\ column = cursor.column
  BY Between
<1>3. /\ cursor \in Cursor /\ size \in Nat
      /\ position_to_line_list \in Seq(Entries)
      /\ \A j \in DOMAIN position_to_line_list : position_to_line_list[j].position \in Nat
      /\ cursor.start_position = q /\ cursor.start_column = column
      /\ Ahead(q, "scan")
      /\ LastAt(q, line, column)
      /\ LooksAhead => Top.position <= q /\ Crossed(Top.position, q, "scan") /\ Top.position \in Nat
      /\ call.skip \in SkipWhiteSpace[source]
  BY <1>2, Between
<1>4. source[q + 1] = "sp"
  BY <1>2, CharIs DEF TakeSpace, ScannerInv
<1>5. UNCHANGED position_to_line_list
  BY DEF TakeSpace
<1>6. Ahead(q + 1, "scan")'
  <2>1. \A x \in Nat : Blank(q, "scan", x) => Blank(q + 1, "scan", x)
    BY <1>4, BlankAfterSpace
  <2>2. Ahead(q + 1, "scan")
    BY <2>1, <1>3, AheadMoves
  <2> QED
    BY <2>2, <1>1, <1>5, SameList
<1>7. LastAt(q + 1, line, column + 1)'
  <2>1. LastAt(q + 1, line, column + 1)
    BY <1>3, <1>4, LastSteps
  <2> QED
    BY <2>1, <1>1, <1>5, SameList
<1>8. LooksAhead => Crossed(Top.position, q + 1, "scan")
  BY <1>3, <1>4, CrossedMore
<1>9. CASE call.skip
  <2>1. /\ pc' = "scan" /\ cursor'.position = q + 1 /\ cursor'.line = line /\ cursor'.column = column + 1
        /\ cursor'.start_position = q + 1 /\ cursor'.start_column = column + 1
    BY <1>2, <1>3, <1>9 DEF CursorAt, TakeSpace, Skip
  <2>2. BetweenInv'
    BY <1>6, <1>7, <2>1 DEF BetweenInv
  <2>3. LongInv' /\ pc' # "return"
    BY <2>1 DEF LongInv, Long
  <2> QED
    BY <1>1, <1>2, <1>5, <1>8, <2>1, <2>2, <2>3, ScanAssembles
<1>10. CASE ~ call.skip
  <2>1. /\ pc' = "return" /\ cursor'.position = q + 1 /\ cursor'.line = line
        /\ cursor'.column = column + 1 /\ cursor'.start_position = q /\ cursor'.start_column = column
        /\ cursor'.token = "white_space"
    BY <1>2, <1>3, <1>10 DEF CursorAt, TakeSpace, Yield, Increment
  <2>2. ~ AlwaysSkips
    BY <1>3, <1>10, SpaceSkipped
  <2>3. ~ AlwaysSkips'
    BY <1>1, <2>2 DEF AlwaysSkips
  <2>4. Located(cursor)'
    BY <1>6, <1>7, <2>1, <2>3 DEF Located
  <2>5. BetweenInv' /\ LongInv'
    BY <2>1 DEF BetweenInv, LongInv, Long
  <2> QED
    BY <1>1, <1>2, <1>5, <2>1, <2>4, <2>5, ScanAssembles
<1> QED
  BY <1>9, <1>10

LEMMA TakeCommentLines ==
    ASSUME ScannerInv, Without({"cr"}), LinesInv, Scan, TakeComment
    PROVE  LinesInv'
<1>1. /\ UNCHANGED <<source, saved_text_cursors, call, syntaxes>>
      /\ cursor' \in Cursor /\ pc' \in Scanning \cup {"return"} /\ pc \in Scanning
  BY ScanFrame
<1>2. PICK q \in Nat, line \in Nat, column \in Nat :
         q = cursor.position /\ line = cursor.line /\ column = cursor.column
  BY Between DEF TakeComment
<1>3. /\ cursor \in Cursor /\ size \in Nat
      /\ position_to_line_list \in Seq(Entries)
      /\ \A j \in DOMAIN position_to_line_list : position_to_line_list[j].position \in Nat
      /\ cursor.start_position = q /\ cursor.start_column = column
      /\ Ahead(q, pc)
      /\ LastAt(q, line, column)
      /\ LooksAhead => Top.position <= q /\ Crossed(Top.position, q, pc) /\ Top.position \in Nat
      /\ call.skip \in SkipWhiteSpace[source]
  BY <1>2, Between DEF TakeComment
<1>4. pc \in {"scan", "comment"} /\ source[q + 1] # "nl" /\ (pc = "comment" \/ source[q + 1] = "hash")
  <2>1. CharAt(q) \notin {"nl", "none"}
    BY <1>2 DEF TakeComment
  <2>2. source[q + 1] = CharAt(q)
    BY <2>1, CharIs DEF ScannerInv
  <2> QED
    BY <1>2, <2>1, <2>2 DEF TakeComment
<1>5. UNCHANGED position_to_line_list
  BY DEF TakeComment
<1>6. Ahead(q + 1, "comment")'
  <2>1. \A x \in Nat : Blank(q, pc, x) => Blank(q + 1, "comment", x)
    BY <1>4, BlankInComment
  <2>2. Ahead(q + 1, "comment")
    BY <2>1, <1>3, <1>4, AheadMoves
  <2> QED
    BY <2>2, <1>1, <1>5, SameList
<1>7. LastAt(q + 1, line, column + 1)'
  <2>1. LastAt(q + 1, line, column + 1)
    BY <1>3, <1>4, LastSteps
  <2> QED
    BY <2>1, <1>1, <1>5, SameList
<1>8. LooksAhead => Crossed(Top.position, q + 1, "comment")
  BY <1>3, <1>4, CrossedMore
<1>9. /\ pc' = "comment" /\ cursor'.position = q + 1 /\ cursor'.line = line /\ cursor'.column = column + 1
      /\ cursor'.start_position = q + 1 /\ cursor'.start_column = column + 1
  BY <1>2, <1>3 DEF CursorAt, TakeComment, Skip
<1>10. BetweenInv'
  BY <1>6, <1>7, <1>9 DEF BetweenInv
<1>11. LongInv' /\ pc' # "return"
  BY <1>9 DEF LongInv, Long
<1> QED
  BY <1>1, <1>2, <1>5, <1>8, <1>9, <1>10, <1>11, ScanAssembles

LEMMA EndCommentLines ==
    ASSUME ScannerInv, Without({"cr"}), LinesInv, Scan, EndComment
    PROVE  LinesInv'
<1>1. /\ UNCHANGED <<source, saved_text_cursors, call, syntaxes>>
      /\ cursor' \in Cursor /\ pc' \in Scanning \cup {"return"} /\ pc \in Scanning
  BY ScanFrame
<1>2. PICK q \in Nat, line \in Nat, column \in Nat :
         q = cursor.position /\ line = cursor.line /\ column = cursor.column
  BY Between DEF EndComment
<1>3. /\ cursor \in Cursor /\ size \in Nat
      /\ position_to_line_list \in Seq(Entries)
      /\ \A j \in DOMAIN position_to_line_list : position_to_line_list[j].position \in Nat
      /\ cursor.start_position = q /\ cursor.start_column = column
      /\ Ahead(q, "comment")
      /\ LastAt(q, line, column)
      /\ LooksAhead => Top.position <= q /\ Crossed(Top.position, q, "comment") /\ Top.position \in Nat
      /\ call.skip \in SkipWhiteSpace[source]
  BY <1>2, Between DEF EndComment
<1>4. q >= size \/ source[q + 1] = "nl"
  <2>1. CharAt(q) \in {"nl", "cr", "none"}
    BY <1>2 DEF EndComment
  <2>2. CASE CharAt(q) = "none"
    BY <2>2, <1>3, CharInside DEF ScannerInv
  <2>3. CASE CharAt(q) # "none"
    <3>1. source[q + 1] = CharAt(q) /\ q + 1 \in 1 .. size
      BY <2>3, CharIs DEF ScannerInv
    <3> QED
      BY <2>1, <2>3, <3>1 DEF Without
  <2> QED
    BY <2>2, <2>3
<1>5. UNCHANGED position_to_line_list /\ pc' = "scan" /\ UNCHANGED cursor
  BY DEF EndComment
<1>6. Ahead(q, "scan")'
  <2>1. Ahead(q, "scan")
    <3> SUFFICES ASSUME NEW j \in DOMAIN position_to_line_list, position_to_line_list[j].position > q
                 PROVE  Blank(q, "scan", position_to_line_list[j].position)
      BY DEF Ahead
    <3>1. PICK e \in Nat : e = position_to_line_list[j].position /\ e > q
      BY <1>3
    <3>2. Blank(q, "comment", e)
      BY <3>1, <1>3 DEF Ahead
    <3> QED
      BY <3>1, <3>2, <1>3, <1>4, BlankAfterComment
  <2> QED
    BY <2>1, <1>1, <1>5, SameList
<1>7. LastAt(q, line, column)'
  BY <1>1, <1>3, <1>5, SameList
<1>8. LooksAhead => Crossed(Top.position, q, "scan")
  BY <1>3 DEF Crossed
<1>9. /\ cursor'.position = q /\ cursor'.line = line /\ cursor'.column = column
      /\ cursor'.start_position = q /\ cursor'.start_column = column
  BY <1>2, <1>3, <1>5
<1>10. BetweenInv'
  BY <1>5, <1>6, <1>7, <1>9 DEF BetweenInv
<1>11. LongInv' /\ pc' # "return"
  BY <1>5 DEF LongInv, Long
<1> QED
  BY <1>1, <1>2, <1>5, <1>8, <1>9, <1>10, <1>11, ScanAssembles

\* The list has nothing beyond the place where a token or the end is found.
LEMMA NothingBeyond ==
    ASSUME TypeOK, Without({"cr"}), NEW q \in Nat, Ahead(q, "scan"),
           \A j \in DOMAIN position_to_line_list : position_to_line_list[j].position \in Nat,
           CharAt(q) \notin {"nl", "cr", "sp", "hash"}
    PROVE  \A j \in DOMAIN position_to_line_list : position_to_line_list[j].position <= q
<1> SUFFICES ASSUME NEW j \in DOMAIN position_to_line_list, position_to_line_list[j].position > q
             PROVE  FALSE
  OBVIOUS
<1>1. PICK e \in Nat : e = position_to_line_list[j].position /\ e > q
  OBVIOUS
<1>2. Blank(q, "scan", e)
  BY <1>1 DEF Ahead
<1>3. size \in Nat /\ (q >= size \/ source[q + 1] \notin {"nl", "sp", "hash"})
  BY CharIs, CharInside
<1> QED
  BY <1>1, <1>2, <1>3, NotBlank

\* The cursor goes on by n characters in a token that starts where it did.
Goes(n) ==
    /\ cursor'.position = cursor.position + n /\ cursor'.column = cursor.column + n
    /\ cursor'.line = cursor.line
    /\ cursor'.start_position = cursor.start_position /\ cursor'.start_column = cursor.start_column

\* The token goes on or ends there.
GoesOn == pc' \in Long \/ (pc' = "return" /\ cursor'.token # "white_space")

InString == pc \in {"string", "truncated", "block"}

\* The n characters are none of a line break.
Inline(n) == \A m \in 0 .. n - 1 : CharAt(cursor.position + m) \notin {"nl", "none"}

LEMMA InlineChars ==
    ASSUME TypeOK, NEW n \in Nat, Inline(n)
    PROVE  \A k \in cursor.position + 1 .. cursor.position + n : source[k] # "nl"
<1>1. PICK q \in Nat : q = cursor.position
  BY DEF TypeOK, Cursor
<1> SUFFICES ASSUME NEW k \in q + 1 .. q + n PROVE source[k] # "nl"
  BY <1>1
<1>2. PICK m \in 0 .. n - 1 : k = q + m + 1
  <2>1. k - q - 1 \in 0 .. n - 1 /\ k = q + (k - q - 1) + 1
    OBVIOUS
  <2> QED
    BY <2>1
<1>3. q + m \in Nat /\ CharAt(q + m) \notin {"nl", "none"}
  BY <1>1, <1>2 DEF Inline
<1> QED
  BY <1>2, <1>3, CharIs

\* A token of which the scanner has taken n more characters.
LEMMA TokenGoes ==
    ASSUME ScannerInv, Without({"cr"}), LinesInv, Scan, UNCHANGED position_to_line_list,
           NEW n \in Nat, Goes(n), GoesOn,
           cursor.start_position <= cursor.position,
           cursor.column - cursor.start_column = cursor.position - cursor.start_position,
           \A j \in DOMAIN position_to_line_list :
              position_to_line_list[j].position <= cursor.start_position,
           LastAt(cursor.start_position, cursor.line, cursor.start_column),
           NoStrings =>
              /\ ~ InString'
              /\ \A k \in cursor.start_position + 1 .. cursor.position : source[k] # "nl"
              /\ \A k \in cursor.position + 1 .. cursor.position + n : source[k] # "nl"
    PROVE  LinesInv'
<1>1. /\ UNCHANGED <<source, saved_text_cursors, call, syntaxes>>
      /\ cursor' \in Cursor /\ pc' \in Scanning \cup {"return"} /\ pc \in Scanning
  BY ScanFrame
<1>2. cursor \in Cursor /\ position_to_line_list \in Seq(Entries)
  BY DEF ScannerInv, TypeOK, Entries
<1>3. /\ cursor.position \in Nat /\ cursor.column \in Nat /\ cursor.start_position \in Nat
      /\ cursor.start_column \in Nat
  BY <1>2 DEF Cursor
<1>4. PICK c \in Cursor : c = cursor'
  BY <1>1
<1>5. /\ c.position = cursor.position + n /\ c.column = cursor.column + n /\ c.line = cursor.line
      /\ c.start_position = cursor.start_position /\ c.start_column = cursor.start_column
  BY <1>4 DEF Goes
<1>6. /\ c.start_position <= c.position
      /\ c.column - c.start_column = c.position - c.start_position
      /\ c.position >= cursor.position
  BY <1>3, <1>5
<1>7. NoStrings => \A k \in c.start_position + 1 .. c.position : source[k] # "nl"
  <2>1. \A k \in c.start_position + 1 .. c.position :
           k \in cursor.start_position + 1 .. cursor.position
           \/ k \in cursor.position + 1 .. cursor.position + n
    BY <1>3, <1>5
  <2> QED
    BY <2>1
<1>8. LastAt(c.start_position, c.line, c.start_column)
  BY <1>5
<1>9. \A j \in DOMAIN position_to_line_list : position_to_line_list[j].position <= c.start_position
  BY <1>5
<1>10. pc' \notin {"scan", "comment"} /\ BetweenInv'
  BY DEF GoesOn, Long, BetweenInv
<1>11. LongInv'
  <2> SUFFICES ASSUME pc' \in Long PROVE LongInv'
    BY DEF LongInv
  <2>1. LastAt(c.start_position, c.line, c.start_column)'
    BY <1>1, <1>8, SameList
  <2>2. NoStrings' = NoStrings
    BY <1>1 DEF NoStrings, Without, size
  <2>3. NoStrings' => pc' \notin {"string", "truncated", "block"}
    BY <2>2 DEF InString
  <2>4. LastAt(cursor.start_position, cursor.line, cursor.start_column)'
    BY <1>4, <2>1
  <2> QED
    BY <1>1, <1>4, <1>6, <1>7, <1>9, <2>2, <2>3, <2>4 DEF LongInv
<1>12. pc' = "return" => Located(cursor)'
  <2> SUFFICES ASSUME pc' = "return" PROVE Located(cursor)'
    OBVIOUS
  <2>1. c.token # "white_space"
    BY <1>4 DEF GoesOn, Long
  <2>2. Located(c)
    BY <2>1, <1>2, <1>6, <1>7, <1>8, <1>9, TokenLocated
  <2>3. Located(c)'
    BY <2>2, <1>1, SameList
  <2> QED
    BY <2>3, <1>4
<1> QED
  BY <1>1, <1>4, <1>6, <1>10, <1>11, <1>12, ScanAssembles

\* A token is found, or the end.
LEMMA TokenLines ==
    ASSUME ScannerInv, Without({"cr"}), LinesInv, Scan, pc = "scan",
           TakePunctuator \/ BeginLongToken \/ EndOfDocument
    PROVE  LinesInv'
<1>1. /\ UNCHANGED <<source, saved_text_cursors, call, syntaxes>>
      /\ cursor' \in Cursor /\ pc' \in Scanning \cup {"return"} /\ pc \in Scanning
  BY ScanFrame
<1>2. PICK q \in Nat, line \in Nat, column \in Nat :
         q = cursor.position /\ line = cursor.line /\ column = cursor.column
  BY Between
<1>3. /\ cursor \in Cursor /\ size \in Nat
      /\ position_to_line_list \in Seq(Entries)
      /\ \A j \in DOMAIN position_to_line_list : position_to_line_list[j].position \in Nat
      /\ cursor.start_position = q /\ cursor.start_column = column
      /\ Ahead(q, "scan") /\ LastAt(q, line, column)
  BY <1>2, Between
<1>4. UNCHANGED position_to_line_list
  BY DEF TakePunctuator, BeginLongToken, EndOfDocument
<1>5. CharAt(q) \notin {"nl", "cr", "sp", "hash"}
  BY <1>2 DEF TakePunctuator, BeginLongToken, EndOfDocument, Letter, Digit
<1>6. \A j \in DOMAIN position_to_line_list : position_to_line_list[j].position <= q
  BY <1>3, <1>5, NothingBeyond DEF ScannerInv
<1>7. \A k \in q + 1 .. q : source[k] # "nl"
  OBVIOUS
<1>8. ASSUME NEW n \in Nat, Goes(n), GoesOn,
             NoStrings => ~ InString' /\ \A k \in q + 1 .. q + n : source[k] # "nl"
      PROVE  LinesInv'
  <2>1. cursor.column - cursor.start_column = cursor.position - cursor.start_position
    BY <1>2, <1>3
  <2> QED
    BY <1>2, <1>3, <1>4, <1>6, <1>7, <1>8, <2>1, TokenGoes
<1>9. CASE TakePunctuator
  <2>1. Goes(1) /\ GoesOn /\ ~ InString'
    BY <1>2, <1>9 DEF TakePunctuator, Yield, Increment, CursorAt, Goes, GoesOn, InString
  <2>2. \A k \in q + 1 .. q + 1 : source[k] # "nl"
    <3>1. source[q + 1] = CharAt(q)
      BY <1>2, <1>9, CharIs DEF TakePunctuator, ScannerInv
    <3>2. \A k \in q + 1 .. q + 1 : k = q + 1
      OBVIOUS
    <3> QED
      BY <1>5, <3>1, <3>2
  <2> QED
    BY <1>8, <2>1, <2>2
<1>10. CASE EndOfDocument
  <2>1. Goes(0) /\ GoesOn /\ ~ InString'
    BY <1>2, <1>3, <1>10 DEF EndOfDocument, Yield, CursorAt, Goes, GoesOn, InString
  <2>2. \A k \in q + 1 .. q + 0 : source[k] # "nl"
    OBVIOUS
  <2> QED
    BY <1>8, <2>1, <2>2
<1>11. CASE BeginLongToken
  <2>1. CharAt(q) # "none"
    BY <1>2, <1>11 DEF BeginLongToken, Letter, Digit
  <2>2. source[q + 1] = CharAt(q) /\ q + 1 \in 1 .. size
    BY <2>1, CharIs DEF ScannerInv
  <2>3. CASE CharAt(q) = "quote"
    <3>1. ~ NoStrings
      BY <2>2, <2>3 DEF NoStrings, Without
    <3>2. PICK n \in {1, 3} : cursor' = Increment(cursor, n) /\ pc' \in {"string", "block"}
      BY <1>2, <1>11, <2>3 DEF BeginLongToken, Letter, Digit
    <3>3. Goes(n) /\ GoesOn /\ n \in Nat
      BY <3>2 DEF Increment, CursorAt, Goes, GoesOn, Long
    <3> QED
      BY <1>8, <3>1, <3>3
  <2>4. CASE CharAt(q) # "quote"
    <3>1. cursor' = Increment(cursor, 1) /\ pc' \in {"word", "number", "dot"}
      BY <1>2, <1>11, <2>4 DEF BeginLongToken
    <3>2. Goes(1) /\ GoesOn /\ ~ InString'
      BY <3>1 DEF Increment, CursorAt, Goes, GoesOn, Long, InString
    <3>3. \A k \in q + 1 .. q + 1 : source[k] # "nl"
      <4>1. \A k \in q + 1 .. q + 1 : k = q + 1
        OBVIOUS
      <4> QED
        BY <1>5, <2>2, <4>1
    <3> QED
      BY <1>8, <3>2, <3>3
  <2> QED
    BY <2>3, <2>4
<1> QED
  BY <1>9, <1>10, <1>11

\* A longer token goes on or ends.
LEMMA LongLines ==
    ASSUME ScannerInv, Without({"cr"}), LinesInv, Scan, pc \in Long, UNCHANGED position_to_line_list,
           NEW n \in Nat, Goes(n), GoesOn, ~ InString => ~ InString' /\ Inline(n)
    PROVE  LinesInv'
<1>1. LongInv
  BY DEF LinesInv
<1>2. NoStrings => ~ InString
  BY <1>1 DEF LongInv, InString
<1>3. NoStrings => ~ InString' /\ \A k \in cursor.position + 1 .. cursor.position + n : source[k] # "nl"
  BY <1>2, InlineChars DEF ScannerInv
<1> QED
  BY <1>1, <1>3, TokenGoes DEF LongInv

LEMMA InlineFew ==
    ASSUME TypeOK
    PROVE  /\ Inline(0)
           /\ CharAt(cursor.position) \notin {"nl", "none"} =>
                 /\ Inline(1)
                 /\ CharAt(cursor.position + 1) \notin {"nl", "none"} => Inline(2)
<1>1. cursor.position \in Nat /\ cursor.position + 0 = cursor.position
  BY DEF TypeOK, Cursor
<1>2. 0 .. 0 - 1 = {} /\ 0 .. 1 - 1 = {0} /\ 0 .. 2 - 1 = {0, 1}
  OBVIOUS
<1> QED
  BY <1>1, <1>2 DEF Inline

\* increment_position, and the end of a token.
LEMMA Moves ==
    ASSUME cursor \in Cursor, NEW n \in Nat
    PROVE  /\ cursor' = Increment(cursor, n) => Goes(n)
           /\ pc' \in Long => GoesOn
           /\ \A token \in Token \ {"white_space"} :
                 /\ Yield(token, Increment(cursor, n)) => Goes(n) /\ GoesOn /\ ~ InString'
                 /\ Yield(token, cursor) => Goes(0) /\ GoesOn /\ ~ InString'
<1>1. cursor.position \in Nat /\ cursor.column \in Nat
  BY DEF Cursor
<1>2. cursor' = Increment(cursor, n) => Goes(n)
  BY DEF Increment, CursorAt, Goes
<1>3. pc' \in Long => GoesOn
  BY DEF GoesOn
<1>4. ASSUME NEW token \in Token \ {"white_space"}, Yield(token, Increment(cursor, n))
      PROVE  Goes(n) /\ GoesOn /\ ~ InString'
  BY <1>4 DEF Increment, CursorAt, Goes, GoesOn, Yield, InString
<1>5. ASSUME NEW token \in Token \ {"white_space"}, Yield(token, cursor)
      PROVE  Goes(0) /\ GoesOn /\ ~ InString'
  BY <1>1, <1>5 DEF CursorAt, Goes, GoesOn, Yield, InString
<1> QED
  BY <1>2, <1>3, <1>4, <1>5

\* What a step inside a longer token does.
Step(n) == Goes(n) /\ GoesOn /\ (~ InString => ~ InString' /\ Inline(n))

LEMMA WordSteps ==
    ASSUME TypeOK, ScanWord \/ scan_ellipses_after_first_dot
    PROVE  \E n \in Nat : Step(n)
<1>1. cursor \in Cursor
  BY DEF TypeOK
<1>2. CASE pc' \in {"word", "dots"} /\ cursor' = Increment(cursor, 1)
           /\ CharAt(cursor.position) \notin {"nl", "none"}
  <2>1. Goes(1) /\ GoesOn /\ ~ InString'
    BY <1>1, <1>2, Moves DEF InString, Long
  <2> QED
    BY <1>2, <2>1, InlineFew DEF Step
<1>3. CASE \E token \in Token \ {"white_space"} : Yield(token, cursor)
  BY <1>1, <1>3, Moves, InlineFew DEF Step
<1>4. CASE Yield("ellipses", Increment(cursor, 1)) /\ CharAt(cursor.position) = "dot"
  <2>1. Goes(1) /\ GoesOn /\ ~ InString'
    BY <1>1, <1>4, Moves DEF Token
  <2> QED
    BY <1>4, <2>1, InlineFew DEF Step
<1> QED
  BY <1>2, <1>3, <1>4 DEF ScanWord, scan_ellipses_after_first_dot, Advance, Letter, Digit, Token

LEMMA NumberSteps ==
    ASSUME TypeOK, scan_integer_part \/ scan_number \/ ScanFraction \/ ScanExponent
    PROVE  \E n \in Nat : Step(n)
<1>1. cursor \in Cursor
  BY DEF TypeOK
<1> DEFINE ch == CharAt(cursor.position)
           next == CharAt(cursor.position + 1)
           Known(x) == x \in Digit \cup {"dot", "e", "minus"}
           Numeric == {"number", "integer", "point", "fraction", "exponent", "power"}
<1>2. Inline(0) /\ (Known(ch) => Inline(1)) /\ (Known(ch) /\ Known(next) => Inline(2))
  BY InlineFew DEF Digit
<1>3. ASSUME NEW n \in Nat, NEW to \in Numeric, Advance(to, n), Inline(n)
      PROVE  \E m \in Nat : Step(m)
  <2>1. Goes(n) /\ GoesOn /\ ~ InString'
    BY <1>1, <1>3, Moves DEF Advance, InString, Long
  <2> QED
    BY <1>3, <2>1 DEF Step
<1>4. ASSUME NEW n \in Nat, NEW token \in Token \ {"white_space"}, Inline(n),
             Yield(token, Increment(cursor, n)) \/ (n = 0 /\ Yield(token, cursor))
      PROVE  \E m \in Nat : Step(m)
  BY <1>1, <1>4, Moves DEF Step
<1>5. CASE scan_integer_part
  <2>1. PICK to \in Numeric : Advance(to, 1)
    BY <1>5 DEF scan_integer_part
  <2>2. Known(ch)
    BY <1>5 DEF scan_integer_part
  <2> QED
    BY <1>2, <1>3, <2>1, <2>2
<1>6. CASE scan_number
  <2>1. CASE ch = "dot" /\ next \in Digit /\ Advance("fraction", 2)
    BY <2>1, <1>2, <1>3
  <2>2. CASE ch = "dot" /\ Yield("unknown", Increment(cursor, 1))
    BY <2>2, <1>2, <1>4 DEF Token
  <2>3. CASE ch = "e" /\ Advance("exponent", 1)
    BY <2>3, <1>2, <1>3
  <2>4. CASE Yield("int", cursor)
    BY <2>4, <1>2, <1>4 DEF Token
  <2> QED
    BY <1>6, <2>1, <2>2, <2>3, <2>4 DEF scan_number
<1>7. CASE ScanFraction
  <2>1. CASE ch \in Digit /\ Advance("fraction", 1)
    BY <2>1, <1>2, <1>3
  <2>2. CASE ch = "e" /\ Advance("exponent", 1)
    BY <2>2, <1>2, <1>3
  <2>3. CASE Yield("float", cursor)
    BY <2>3, <1>2, <1>4 DEF Token
  <2> QED
    BY <1>7, <2>1, <2>2, <2>3 DEF ScanFraction
<1>8. CASE ScanExponent
  <2>1. CASE pc = "power"
    <3>1. CASE ch \in Digit /\ Advance("power", 1)
      BY <3>1, <1>2, <1>3
    <3>2. CASE Yield("float", cursor)
      BY <3>2, <1>2, <1>4 DEF Token
    <3> QED
      BY <1>8, <2>1, <3>1, <3>2 DEF ScanExponent
  <2>2. CASE pc = "exponent" /\ ch = "minus"
    <3>1. CASE next \in Digit /\ Advance("power", 2)
      BY <2>2, <3>1, <1>2, <1>3
    <3>2. CASE Yield("unknown", Increment(cursor, 1))
      BY <2>2, <3>2, <1>2, <1>4 DEF Token
    <3>3. 1 + 1 = 2
      OBVIOUS
    <3> QED
      BY <1>8, <2>2, <3>1, <3>2, <3>3 DEF ScanExponent
  <2>3. CASE pc = "exponent" /\ ch # "minus"
    <3>1. cursor.position + 0 = cursor.position /\ 0 + 1 = 1
      BY <1>1 DEF Cursor
    <3>2. CASE ch \in Digit /\ Advance("power", 1)
      BY <3>2, <1>2, <1>3
    <3>3. CASE Yield("unknown", Increment(cursor, 0))
      BY <3>3, <1>2, <1>4 DEF Token
    <3> QED
      BY <1>8, <2>3, <3>1, <3>2, <3>3 DEF ScanExponent
  <2> QED
    BY <1>8, <2>1, <2>2, <2>3 DEF ScanExponent
<1> QED
  BY <1>5, <1>6, <1>7, <1>8

LEMMA StringSteps ==
    ASSUME TypeOK, ScanString \/ ScanBlock
    PROVE  \E n \in Nat : Step(n)
<1>1. cursor \in Cursor /\ InString
  BY DEF TypeOK, ScanString, ScanBlock, InString
<1>2. ASSUME NEW n \in Nat, cursor' = Increment(cursor, n), pc' \in Long
      PROVE  \E m \in Nat : Step(m)
  BY <1>1, <1>2, Moves DEF Step
<1>3. ASSUME NEW n \in Nat, NEW token \in Token \ {"white_space"},
             Yield(token, Increment(cursor, n)) \/ Yield(token, cursor)
      PROVE  \E m \in Nat : Step(m)
  BY <1>1, <1>3, Moves DEF Step
<1>4. CASE ScanString
  BY <1>2, <1>3, <1>4 DEF ScanString, Token, Long
<1>5. CASE ScanBlock
  BY <1>2, <1>3, <1>5 DEF ScanBlock, Token, Long
<1> QED
  BY <1>4, <1>5

LEMMA ScanLines ==
    ASSUME ScannerInv, Without({"cr"}), LinesInv, Scan
    PROVE  LinesInv'
<1>1. CASE TakeChar
  BY <1>1, LineBreakLines, SpaceLines, TokenLines DEF TakeChar
<1>2. CASE TakeComment \/ EndComment
  BY <1>2, TakeCommentLines, EndCommentLines
<1>3. ASSUME NEW n \in Nat, Step(n), pc \in Long, UNCHANGED position_to_line_list
      PROVE  LinesInv'
  BY <1>3, LongLines DEF Step
<1>4. CASE ScanWord \/ scan_ellipses_after_first_dot
  <2>1. pc \in Long /\ UNCHANGED position_to_line_list
    BY <1>4 DEF ScanWord, scan_ellipses_after_first_dot, Long
  <2> QED
    BY <1>3, <1>4, <2>1, WordSteps DEF ScannerInv
<1>5. CASE scan_integer_part \/ scan_number \/ ScanFraction \/ ScanExponent
  <2>1. pc \in Long /\ UNCHANGED position_to_line_list
    BY <1>5 DEF scan_integer_part, scan_number, ScanFraction, ScanExponent, Long
  <2> QED
    BY <1>3, <1>5, <2>1, NumberSteps DEF ScannerInv
<1>6. CASE ScanString \/ ScanBlock
  <2>1. pc \in Long /\ UNCHANGED position_to_line_list
    BY <1>6 DEF ScanString, ScanBlock, Long
  <2> QED
    BY <1>3, <1>6, <2>1, StringSteps DEF ScannerInv
<1> QED
  BY <1>1, <1>2, <1>4, <1>5, <1>6 DEF Scan

-----------------------------------------------------------------------------
(* Steps of the callers *)

\* What the parser has between its calls, and the scanner when it returns.
LEMMA Resting ==
    ASSUME ScannerInv, Without({"cr"}), LinesInv, pc \in {"parser", "return", "search"}
    PROVE  /\ Located(cursor) /\ cursor \in Cursor /\ cursor.position \in Nat
           /\ \A p \in syntaxes : p \in Nat /\ p <= cursor.position /\ Findable(p)
           /\ pc = "return" => call.skip \in SkipWhiteSpace[source]
<1>1. Located(cursor) /\ NodeInv /\ (pc = "return" => call.skip \in SkipWhiteSpace[source])
  BY DEF LinesInv
<1>2. cursor \in Cursor /\ syntaxes \subseteq Nat
  BY DEF ScannerInv, TypeOK
<1>3. cursor.position \in Nat
  BY <1>2 DEF Cursor
<1> QED
  BY <1>1, <1>2, <1>3 DEF NodeInv

\* Back to the parser with a located cursor.
LEMMA Back ==
    ASSUME ScannerInv, Without({"cr"}), LinesInv, pc' \in {"parser", "search", "thrown"},
           UNCHANGED <<source, position_to_line_list>>, NEW c, c = cursor', Located(c),
           \A p \in syntaxes' : p <= c.position /\ Findable(p)
    PROVE  LinesInv'
<1>1. Located(c)' /\ \A p \in syntaxes' : Findable(p)'
  BY SameList
<1>2. NodeInv'
  BY <1>1 DEF NodeInv
<1>3. BetweenInv' /\ LongInv' /\ LookInv'
  BY DEF BetweenInv, LongInv, LookInv, LooksAhead, Scanning, Long
<1>4. Located(cursor)'
  BY <1>1
<1>5. pc' \notin Scanning \cup {"return"}
  BY DEF Scanning, Long
<1> QED
  BY <1>2, <1>3, <1>4, <1>5 DEF LinesInv

\* A call of take_next_token begins.
LEMMA Begun ==
    ASSUME ScannerInv, Without({"cr"}), LinesInv, pc \in {"parser", "return"}, pc' = "scan",
           UNCHANGED <<source, position_to_line_list, syntaxes>>, set_token_start_position,
           call'.skip \in SkipWhiteSpace[source], call'.op \in LookAhead => save
    PROVE  LinesInv'
<1>1. /\ Located(cursor) /\ cursor \in Cursor /\ cursor.position \in Nat
      /\ \A p \in syntaxes : p \in Nat /\ p <= cursor.position /\ Findable(p)
  BY Resting
<1>2. PICK c \in Cursor : c = cursor
  BY <1>1
<1>3. /\ cursor'.position = c.position /\ cursor'.line = c.line /\ cursor'.column = c.column
      /\ cursor'.start_position = c.position /\ cursor'.start_column = c.column
  BY <1>2 DEF set_token_start_position, CursorAt
<1>4. Located(c)' /\ \A p \in syntaxes : Findable(p)'
  BY <1>1, <1>2, SameList
<1>5. Ahead(c.position, "scan")' /\ LastAt(c.position, c.line, c.column)'
  BY <1>1, <1>2, SameList DEF Located
<1>6. BetweenInv'
  BY <1>3, <1>5 DEF BetweenInv
<1>7. NodeInv'
  BY <1>1, <1>2, <1>3, <1>4 DEF NodeInv
<1>8. LookInv'
  <2> SUFFICES ASSUME LooksAhead' PROVE LookInv'
    BY DEF LookInv
  <2>1. Top' = c
    <3>1. saved_text_cursors \in Seq(Cursor) /\ save
      BY DEF ScannerInv, TypeOK, LooksAhead
    <3> QED
      BY <3>1, <1>2 DEF Top, save
  <2>2. Located(Top)'
    BY <2>1, <1>4
  <2>3. c.position \in Nat
    BY <1>1, <1>2
  <2>4. Crossed(c.position, c.position, "scan")'
    BY <2>3 DEF Crossed
  <2>5. Crossed(Top.position, cursor.position, pc)'
    BY <2>1, <2>4, <1>3
  <2> QED
    BY <2>1, <2>2, <2>3, <2>5, <1>1, <1>2, <1>3 DEF LookInv
<1>9. LongInv' /\ pc' \notin {"parser", "return", "search"}
  BY DEF LongInv, Long
<1> QED
  BY <1>6, <1>7, <1>8, <1>9 DEF LinesInv

LEMMA CallLines ==
    ASSUME ScannerInv, Without({"cr"}), LinesInv,
           NEW op \in {"take", "try", "peek", "skip_to", "skip_block"},
           NEW skip \in SkipWhiteSpace[source], Call(op, skip)
    PROVE  LinesInv'
<1>1. /\ pc = "parser" /\ pc' = "scan" /\ UNCHANGED <<source, position_to_line_list, syntaxes>>
      /\ set_token_start_position /\ call'.op = op /\ call'.skip = skip
  BY DEF Call
<1>2. op \in LookAhead => save
  BY DEF Call, LookAhead
<1> QED
  BY <1>1, <1>2, Begun

\* revert brings back the cursor that was saved.
LEMMA RevertLines ==
    ASSUME ScannerInv, Without({"cr"}), LinesInv, pc = "return", call.op \in LookAhead, pc' = "parser",
           revert, UNCHANGED <<source, position_to_line_list, syntaxes>>
    PROVE  LinesInv'
<1>1. LooksAhead
  BY DEF LooksAhead
<1>2. Located(Top) /\ \A p \in syntaxes : p <= Top.position /\ Findable(p)
  BY <1>1, Resting DEF LinesInv, LookInv
<1>3. PICK c : c = Top /\ c = cursor'
  BY DEF revert, Top
<1> QED
  BY <1>2, <1>3, Back

LEMMA ReturnLines ==
    ASSUME ScannerInv, Without({"cr"}), LinesInv, Return \/ ReturnSkipTo \/ ReturnSkipBlock
    PROVE  LinesInv'
<1>1. pc = "return" /\ UNCHANGED <<source, position_to_line_list, syntaxes>>
  BY DEF Return, ReturnSkipTo, ReturnSkipBlock
<1>2. /\ Located(cursor) /\ cursor \in Cursor
      /\ \A p \in syntaxes : p <= cursor.position /\ Findable(p)
      /\ call.skip \in SkipWhiteSpace[source]
  BY <1>1, Resting
<1>3. CASE pc' = "parser" /\ UNCHANGED cursor
  BY <1>1, <1>2, <1>3, Back
<1>4. CASE pc' = "parser" /\ revert /\ call.op \in LookAhead
  BY <1>1, <1>4, RevertLines
<1>5. CASE /\ pc' = "scan" /\ set_token_start_position
           /\ call'.skip = call.skip /\ (call'.op \in LookAhead => save)
  BY <1>1, <1>2, <1>5, Begun
<1>6. CASE Return
  BY <1>3, <1>4, <1>6 DEF Return, LookAhead
<1>7. CASE ReturnSkipTo
  BY <1>3, <1>4, <1>5, <1>7 DEF ReturnSkipTo, LookAhead
<1>8. CASE ReturnSkipBlock
  <2>1. call'.op = "skip_block" /\ call'.skip = call.skip
    BY <1>8 DEF ReturnSkipBlock
  <2>2. call'.op \notin LookAhead
    BY <2>1 DEF LookAhead
  <2>3. (pc' = "parser" /\ UNCHANGED cursor) \/ (pc' = "scan" /\ set_token_start_position)
    BY <1>8 DEF ReturnSkipBlock
  <2> QED
    BY <1>3, <1>5, <2>1, <2>2, <2>3
<1> QED
  BY <1>6, <1>7, <1>8

\* A node starts where a located token does.
LEMMA NodeLines ==
    ASSUME ScannerInv, Without({"cr"}), LinesInv, CreateSyntax
    PROVE  LinesInv'
<1>1. /\ pc = "parser" /\ pc' = pc /\ UNCHANGED <<source, position_to_line_list, cursor>>
      /\ syntaxes' = syntaxes \cup {cursor.start_position}
      /\ cursor.token \notin {"none", "white_space", "end"}
  BY DEF CreateSyntax
<1>2. /\ Located(cursor)
      /\ \A p \in syntaxes : p <= cursor.position /\ Findable(p)
  BY <1>1, Resting
<1>3. cursor.start_position <= cursor.position /\ Findable(cursor.start_position)
  BY <1>1, <1>2 DEF Located, LastAt, Findable
<1> QED
  BY <1>1, <1>2, <1>3, Back

LEMMA SearchLines ==
    ASSUME ScannerInv, Without({"cr"}), LinesInv,
           search_for_line \/ \E position \in syntaxes : get_token_location(position)
    PROVE  LinesInv'
<1>1. /\ pc \in {"parser", "search"} /\ pc' \in {"parser", "search", "thrown"}
      /\ UNCHANGED <<source, position_to_line_list, cursor, syntaxes>>
  BY DEF search_for_line, get_token_location
<1>2. /\ Located(cursor)
      /\ \A p \in syntaxes : p <= cursor.position /\ Findable(p)
  BY <1>1, Resting
<1> QED
  BY <1>1, <1>2, Back

LEMMA SourceStays ==
    ASSUME [Next]_vars
    PROVE  source' = source
BY DEF Next, vars, Call, Scan, Return, ReturnSkipTo, ReturnSkipBlock, CreateSyntax, get_token_location,
       search_for_line

\* At the start only the first line has begun.
LEMMA LinesStart ==
    ASSUME Init
    PROVE  LinesInv
<1>1. /\ source \in Sources /\ cursor = CursorAt(0, 1, 1, 0, 1, "none")
      /\ position_to_line_list = <<[position |-> 0, line |-> 1]>>
      /\ pc = "parser" /\ syntaxes = {}
  BY DEF Init
<1>2. /\ cursor.position = 0 /\ cursor.start_position = 0 /\ cursor.token = "none"
      /\ cursor.line = 1 /\ cursor.column = 1
  BY <1>1 DEF CursorAt
<1>3. PICK e : e = [position |-> 0, line |-> 1] /\ e.position = 0 /\ e.line = 1
  <2> DEFINE first == [position |-> 0, line |-> 1]
  <2>1. first.position = 0 /\ first.line = 1
    OBVIOUS
  <2> HIDE DEF first
  <2>2. \E e : e = first /\ e.position = 0 /\ e.line = 1
    BY <2>1
  <2> QED
    BY <2>2 DEF first
<1>4. DOMAIN position_to_line_list = {1} /\ position_to_line_list[1] = e
  BY <1>1, <1>3
<1>5. LastEntry(1, 0)
  BY <1>3, <1>4 DEF LastEntry
<1>6. TrueLine(1, 0)
  <2>1. Breaks(0) = {}
    BY DEF Breaks
  <2>2. Cardinality(Breaks(0)) = 0
    BY <2>1, FS_EmptySet
  <2> QED
    BY <2>2, <1>3, <1>4 DEF TrueLine
<1>7. LastAt(0, 1, 1)
  <2>1. 1 = 0 - e.position + 1
    BY <1>3
  <2> QED
    BY <1>3, <1>4, <1>5, <1>6, <2>1 DEF LastAt
<1>8. Ahead(0, "scan")
  BY <1>3, <1>4 DEF Ahead
<1>9. Located(cursor)
  BY <1>2, <1>7, <1>8 DEF Located
<1>10. BetweenInv /\ LongInv /\ LookInv /\ NodeInv
  BY <1>1 DEF BetweenInv, LongInv, LookInv, NodeInv, LooksAhead, Scanning, Long
<1>11. pc \notin Scanning \cup {"return"}
  BY <1>1 DEF Scanning, Long
<1> QED
  BY <1>9, <1>10, <1>11 DEF LinesInv

LEMMA LinesStep ==
    ASSUME ScannerInv, LinesInv, [Next]_vars
    PROVE  LinesInv'
<1>1. source' = source
  BY SourceStays
<1>2. Without({"cr"})' = Without({"cr"})
  BY <1>1 DEF Without, size
<1> SUFFICES ASSUME Without({"cr"}) PROVE LinesInv'
  BY <1>2 DEF LinesInv
<1>3. CASE UNCHANGED vars
  <2>1. /\ UNCHANGED <<source, cursor, position_to_line_list, saved_text_cursors, pc, call, syntaxes>>
    BY <1>3 DEF vars
  <2>2. /\ \A p : Findable(p) => Findable(p)'
        /\ \A p, line, column : LastAt(p, line, column) => LastAt(p, line, column)'
        /\ \A q, mode : Ahead(q, mode) => Ahead(q, mode)'
        /\ \A c : Located(c) => Located(c)'
    BY <2>1, SameList
  <2>3. NodeInv'
    BY <2>1, <2>2 DEF LinesInv, NodeInv
  <2>4. BetweenInv'
    BY <2>1, <2>2 DEF LinesInv, BetweenInv
  <2>5. LongInv'
    <3>1. NoStrings' = NoStrings
      BY <2>1 DEF NoStrings, Without, size
    <3> QED
      BY <2>1, <2>2, <3>1 DEF LinesInv, LongInv
  <2>6. LookInv'
    <3>1. \A a, q, mode : Crossed(a, q, mode)' = Crossed(a, q, mode)
      BY <2>1 DEF Crossed, Passed, Commented
    <3>2. LooksAhead' = LooksAhead /\ Top' = Top
      BY <2>1 DEF LooksAhead, Top
    <3> QED
      BY <2>1, <2>2, <3>1, <3>2 DEF LinesInv, LookInv
  <2> QED
    BY <2>1, <2>2, <2>3, <2>4, <2>5, <2>6 DEF LinesInv
<1>4. CASE Next
  BY <1>4, CallLines, ScanLines, ReturnLines, NodeLines, SearchLines DEF Next
<1> QED
  BY <1>3, <1>4

-----------------------------------------------------------------------------
(* What the search finds *)

\* The line breaks up to p, of either kind.
BreaksTo(p) == {i \in 1 .. size : i <= p /\ source[i] \in {"nl", "cr"}}

\* No line has a number beyond the breaks before it.
Numbered(line, p) == 1 <= line /\ line <= 1 + Cardinality(BreaksTo(p))

\* Whatever the characters are, the list and all cursors count no break twice.
CountInv ==
    /\ \A j \in DOMAIN position_to_line_list :
          Numbered(position_to_line_list[j].line, position_to_line_list[j].position)
    /\ Numbered(cursor.line, cursor.position)
    /\ \A i \in DOMAIN saved_text_cursors :
          Numbered(saved_text_cursors[i].line, saved_text_cursors[i].position)

\* The entries that the search has left behind begin beyond the node.
BeyondInv ==
    pc = "search" =>
        /\ search.position \in syntaxes
        /\ Without({"cr"}) =>
              \A j \in DOMAIN position_to_line_list :
                  j > search.end + 1 => position_to_line_list[j].position > search.position

\* Farther on there are at least as many breaks, and more with one between.
LEMMA BreaksGrow ==
    ASSUME size \in Nat, NEW p \in Nat, NEW q \in Nat, p <= q
    PROVE  /\ Cardinality(BreaksTo(p)) \in Nat /\ Cardinality(BreaksTo(q)) \in Nat
           /\ Cardinality(BreaksTo(p)) <= Cardinality(BreaksTo(q))
           /\ \A k \in 1 .. size : k > p /\ k <= q /\ source[k] \in {"nl", "cr"} =>
                 Cardinality(BreaksTo(p)) + 1 <= Cardinality(BreaksTo(q))
<1>1. IsFiniteSet(1 .. size) /\ BreaksTo(q) \subseteq 1 .. size
  BY FS_Interval DEF BreaksTo
<1>2. IsFiniteSet(BreaksTo(q))
  BY <1>1, FS_Subset
<1>3. BreaksTo(p) \subseteq BreaksTo(q)
  BY DEF BreaksTo
<1>4. IsFiniteSet(BreaksTo(p)) /\ Cardinality(BreaksTo(p)) <= Cardinality(BreaksTo(q))
  BY <1>2, <1>3, FS_Subset
<1>5. Cardinality(BreaksTo(p)) \in Nat /\ Cardinality(BreaksTo(q)) \in Nat
  BY <1>2, <1>4, FS_CardinalityType
<1>6. ASSUME NEW k \in 1 .. size, k > p, k <= q, source[k] \in {"nl", "cr"}
      PROVE  Cardinality(BreaksTo(p)) + 1 <= Cardinality(BreaksTo(q))
  <2>1. k \in BreaksTo(q) /\ k \notin BreaksTo(p)
    BY <1>6 DEF BreaksTo
  <2>2. Cardinality(BreaksTo(p)) # Cardinality(BreaksTo(q))
    <3>1. BreaksTo(p) # BreaksTo(q)
      BY <2>1
    <3> QED
      BY <1>2, <1>3, <3>1, FS_Subset
  <2> QED
    BY <1>4, <1>5, <2>2
<1> QED
  BY <1>4, <1>5, <1>6

LEMMA NumberedOn ==
    ASSUME size \in Nat, NEW line \in Nat, NEW p \in Nat, NEW q \in Nat, p <= q, Numbered(line, p)
    PROVE  /\ Numbered(line, q)
           /\ \A k \in 1 .. size : k > p /\ k <= q /\ source[k] \in {"nl", "cr"} => Numbered(line + 1, q)
<1> DEFINE a == Cardinality(BreaksTo(p))
           b == Cardinality(BreaksTo(q))
<1>1. /\ a \in Nat /\ b \in Nat /\ a <= b
      /\ \A k \in 1 .. size : k > p /\ k <= q /\ source[k] \in {"nl", "cr"} => a + 1 <= b
  BY BreaksGrow
<1>2. 1 <= line /\ line <= 1 + a
  BY DEF Numbered
<1> HIDE DEF a, b
<1>3. 1 <= line /\ line <= 1 + b
  BY <1>1, <1>2
<1>4. a + 1 <= b => 1 <= line + 1 /\ line + 1 <= 1 + b
  BY <1>1, <1>2
<1> QED
  BY <1>1, <1>3, <1>4 DEF Numbered, a, b

\* A step of the scan that notes no line stays in the line.
LEMMA StaysInLine ==
    ASSUME ScannerInv, Scan, ~ (pc = "scan" /\ TakeLineBreak)
    PROVE  /\ UNCHANGED position_to_line_list /\ cursor'.line = cursor.line
           /\ cursor'.position >= cursor.position
<1>1. TypeOK /\ cursor \in Cursor /\ cursor.position \in Nat
  BY DEF ScannerInv, TypeOK, Cursor
<1>2. CASE TakeSpace
  BY <1>1, <1>2 DEF TakeSpace, Yield, Skip, Increment, CursorAt
<1>3. CASE TakeComment \/ EndComment
  BY <1>1, <1>3 DEF TakeComment, EndComment, Skip, CursorAt
<1>4. CASE TakePunctuator \/ EndOfDocument
  BY <1>1, <1>4 DEF TakePunctuator, EndOfDocument, Yield, Increment, CursorAt
<1>5. CASE BeginLongToken
  <2>1. PICK n \in {1, 3} : cursor' = Increment(cursor, n)
    BY <1>5 DEF BeginLongToken
  <2> QED
    BY <1>1, <1>5, <2>1 DEF BeginLongToken, Increment, CursorAt
<1>6. CASE \/ ScanWord \/ scan_ellipses_after_first_dot
           \/ scan_integer_part \/ scan_number \/ ScanFraction \/ ScanExponent
           \/ ScanString \/ ScanBlock
  <2>1. PICK n \in Nat : Step(n)
    BY <1>1, <1>6, WordSteps, NumberSteps, StringSteps
  <2>2. UNCHANGED position_to_line_list
    BY <1>6 DEF ScanWord, scan_ellipses_after_first_dot, scan_integer_part, scan_number, ScanFraction,
                ScanExponent, ScanString, ScanBlock
  <2> QED
    BY <1>1, <2>1, <2>2 DEF Step, Goes
<1> QED
  BY <1>2, <1>3, <1>4, <1>5, <1>6 DEF Scan, TakeChar

\* A line break adds one to the line, at a place beyond it.
LEMMA BreakNoted ==
    ASSUME ScannerInv, Scan, pc = "scan", TakeLineBreak
    PROVE  /\ cursor.position + 1 \in 1 .. size /\ source[cursor.position + 1] \in {"nl", "cr"}
           /\ cursor'.line = cursor.line + 1 /\ cursor'.position > cursor.position
           /\ position_to_line_list' =
                 Append(position_to_line_list, [position |-> cursor'.position, line |-> cursor'.line])
<1>1. TypeOK /\ cursor \in Cursor /\ cursor.position \in Nat
  BY DEF ScannerInv, TypeOK, Cursor
<1>2. CharAt(cursor.position) \in {"nl", "cr"}
  BY DEF TakeLineBreak
<1>3. cursor.position + 1 \in 1 .. size /\ source[cursor.position + 1] \in {"nl", "cr"}
  BY <1>1, <1>2, CharIs
<1>4. PICK n \in {1, 2} : n = IF CharAt(cursor.position) = "cr" /\ CharAt(cursor.position + 2) = "nl" THEN 2 ELSE 1
  OBVIOUS
<1>5. PICK c : c = Increment(cursor, n) /\ c.position = cursor.position + n /\ c.line = cursor.line
  <2>1. /\ Increment(cursor, n).position = cursor.position + n
        /\ Increment(cursor, n).line = cursor.line
    BY <1>1, <1>4, Incremented
  <2>2. PICK c : c = Increment(cursor, n)
    OBVIOUS
  <2> QED
    BY <2>1, <2>2
<1>6. /\ position_to_line_list' = Append(position_to_line_list, [position |-> c.position, line |-> c.line + 1])
      /\ \/ cursor' = CursorAt(c.position, c.line + 1, 1, c.start_position + 1, 1, c.token)
         \/ Yield("white_space", CursorAt(c.position, c.line + 1, c.column, c.start_position,
                                          c.start_column, c.token))
  BY <1>4, <1>5 DEF TakeLineBreak
<1>7. cursor'.position = c.position /\ cursor'.line = c.line + 1
  BY <1>6 DEF Yield, CursorAt
<1> QED
  BY <1>1, <1>3, <1>4, <1>5, <1>6, <1>7

\* What a step does to the lists of lines and of saved cursors.
LEMMA CountStep ==
    ASSUME ScannerInv, CountInv, [Next]_vars
    PROVE  CountInv'
<1>1. /\ TypeOK /\ size \in Nat /\ cursor \in Cursor /\ cursor.position \in Nat /\ cursor.line \in Nat
      /\ position_to_line_list \in Seq(Entries) /\ saved_text_cursors \in Seq(Cursor)
  BY CharInside DEF ScannerInv, TypeOK, Cursor, Entries
<1>2. \A line, p : Numbered(line, p)' = Numbered(line, p)
  BY SourceStays DEF Numbered, BreaksTo, size
<1>3. CASE /\ UNCHANGED position_to_line_list
           /\ cursor'.line = cursor.line /\ cursor'.position = cursor.position
           /\ UNCHANGED saved_text_cursors \/ save
  <2>1. Numbered(cursor'.line, cursor'.position)
    BY <1>3 DEF CountInv
  <2>2. \A i \in DOMAIN saved_text_cursors' : Numbered(saved_text_cursors'[i].line, saved_text_cursors'[i].position)
    <3>1. CASE UNCHANGED saved_text_cursors
      BY <3>1 DEF CountInv
    <3>2. CASE save
      <4>1. \A i \in DOMAIN saved_text_cursors' :
               (i \in DOMAIN saved_text_cursors /\ saved_text_cursors'[i] = saved_text_cursors[i])
               \/ saved_text_cursors'[i] = cursor
        BY <1>1, <3>2 DEF save
      <4> QED
        BY <4>1 DEF CountInv
    <3> QED
      BY <1>3, <3>1, <3>2
  <2> QED
    BY <1>2, <1>3, <2>1, <2>2 DEF CountInv
<1>4. CASE revert /\ UNCHANGED position_to_line_list /\ Len(saved_text_cursors) > 0
  <2>1. Len(saved_text_cursors) \in DOMAIN saved_text_cursors
    BY <1>1, <1>4
  <2>2. Numbered(cursor'.line, cursor'.position)
    BY <1>4, <2>1 DEF CountInv, revert
  <2>3. \A i \in DOMAIN saved_text_cursors' :
           i \in DOMAIN saved_text_cursors /\ saved_text_cursors'[i] = saved_text_cursors[i]
    BY <1>1, <1>4 DEF revert
  <2> QED
    BY <1>2, <1>4, <2>2, <2>3 DEF CountInv
<1>5. CASE Scan
  <2>1. cursor' \in Cursor /\ UNCHANGED saved_text_cursors
    BY <1>5, ScanFrame
  <2>2. cursor'.position \in Nat /\ cursor'.line \in Nat
    BY <2>1 DEF Cursor
  <2>3. CASE ~ (pc = "scan" /\ TakeLineBreak)
    <3>1. UNCHANGED position_to_line_list /\ cursor'.line = cursor.line /\ cursor'.position >= cursor.position
      BY <1>5, <2>3, StaysInLine
    <3>2. Numbered(cursor'.line, cursor'.position)
      BY <1>1, <2>2, <3>1, NumberedOn DEF CountInv
    <3> QED
      BY <1>2, <2>1, <3>1, <3>2 DEF CountInv
  <2>4. CASE pc = "scan" /\ TakeLineBreak
    <3>1. /\ cursor.position + 1 \in 1 .. size /\ source[cursor.position + 1] \in {"nl", "cr"}
          /\ cursor'.line = cursor.line + 1 /\ cursor'.position > cursor.position
          /\ position_to_line_list' =
                Append(position_to_line_list, [position |-> cursor'.position, line |-> cursor'.line])
      BY <1>5, <2>4, BreakNoted
    <3>2. cursor.position + 1 > cursor.position /\ cursor.position + 1 <= cursor'.position
          /\ cursor.position <= cursor'.position
      BY <1>1, <2>2, <3>1
    <3>3. Numbered(cursor.line + 1, cursor'.position)
      BY <1>1, <2>2, <3>1, <3>2, NumberedOn DEF CountInv
    <3>4. PICK e \in Entries : /\ e = [position |-> cursor'.position, line |-> cursor'.line]
                               /\ e.position = cursor'.position /\ e.line = cursor'.line
      <4>1. [position |-> cursor'.position, line |-> cursor'.line] \in Entries
        BY <2>2 DEF Entries
      <4> QED
        BY <4>1
    <3>5. \A j \in DOMAIN position_to_line_list' :
             (j \in DOMAIN position_to_line_list /\ position_to_line_list'[j] = position_to_line_list[j])
             \/ position_to_line_list'[j] = e
      BY <1>1, <3>1, <3>4, Grown
    <3>6. \A j \in DOMAIN position_to_line_list' :
             Numbered(position_to_line_list'[j].line, position_to_line_list'[j].position)
      BY <3>1, <3>3, <3>4, <3>5 DEF CountInv
    <3> QED
      BY <1>2, <2>1, <3>1, <3>3, <3>6 DEF CountInv
  <2> QED
    BY <2>3, <2>4
<1>6. set_token_start_position => cursor'.line = cursor.line /\ cursor'.position = cursor.position
  BY DEF set_token_start_position, CursorAt
<1>7. pc = "return" /\ call.op \in {"peek", "try", "skip_to"} => Len(saved_text_cursors) > 0
  BY DEF ScannerInv, SavedInv, LookAhead
<1>8. CASE UNCHANGED vars
  BY <1>3, <1>8 DEF vars
<1>9. ASSUME NEW op, NEW skip, Call(op, skip) PROVE CountInv'
  BY <1>3, <1>6, <1>9 DEF Call
<1>10. CASE Return
  BY <1>3, <1>4, <1>7, <1>10 DEF Return
<1>11. CASE ReturnSkipTo
  BY <1>3, <1>4, <1>6, <1>7, <1>11 DEF ReturnSkipTo
<1>12. CASE ReturnSkipBlock
  BY <1>3, <1>6, <1>12 DEF ReturnSkipBlock
<1>13. CASE CreateSyntax \/ search_for_line \/ \E position \in syntaxes : get_token_location(position)
  BY <1>3, <1>13 DEF CreateSyntax, search_for_line, get_token_location
<1> QED
  BY <1>5, <1>8, <1>9, <1>10, <1>11, <1>12, <1>13 DEF Next

LEMMA CountStart ==
    ASSUME Init
    PROVE  CountInv
<1>1. /\ source \in Sources /\ cursor = CursorAt(0, 1, 1, 0, 1, "none")
      /\ position_to_line_list = <<[position |-> 0, line |-> 1]>>
      /\ saved_text_cursors = <<>>
  BY DEF Init
<1>2. Numbered(1, 0)
  <2>1. size \in Nat
    BY <1>1, ScannerAssumption DEF size
  <2>2. BreaksTo(0) = {}
    BY <2>1 DEF BreaksTo
  <2>3. Cardinality(BreaksTo(0)) = 0
    BY <2>2, FS_EmptySet
  <2> QED
    BY <2>3 DEF Numbered
<1>3. cursor.position = 0 /\ cursor.line = 1
  BY <1>1 DEF CursorAt
<1>4. \A j \in DOMAIN position_to_line_list : position_to_line_list[j].position = 0 /\ position_to_line_list[j].line = 1
  BY <1>1
<1>5. DOMAIN saved_text_cursors = {}
  BY <1>1
<1> QED
  BY <1>2, <1>3, <1>4, <1>5 DEF CountInv

\* Entry i is the one: the node does not lie before it, and the next one, if the
\* search still has it, begins beyond the node.
Hit(i) ==
    /\ pc' = "parser" /\ search' = Locate(i) /\ Entry(i).position <= search.position
    /\ i = search.end \/ (i < search.end /\ search.position < Entry(i + 1).position)

Leftward(i) ==
    /\ pc' = "search" /\ search' = Narrow(search.start, i - 1) /\ i > 0
    /\ search.position < Entry(i).position

Rightward(i) == pc' = "search" /\ search' = Narrow(i + 1, search.end)

\* One call of search_for_line.
LEMMA SearchCases ==
    ASSUME ScannerInv, search_for_line
    PROVE  \E i \in Nat : i < Len(position_to_line_list) /\ (Hit(i) \/ Leftward(i) \/ Rightward(i))
<1> DEFINE mid == search.start + (search.end - search.start) \div 2
           p == search.position
           in_line == p >= Entry(mid).position /\ p < Entry(mid + 1).position
           in_last == search.end = search.start /\ p >= Entry(mid).position /\ p < size
<1>1. /\ pc = "search"
      /\ IF search.end > search.start
         THEN /\ pc' = IF in_line THEN "parser" ELSE "search"
              /\ search' = IF in_line THEN Locate(mid)
                           ELSE IF p < Entry(mid).position
                           THEN Narrow(search.start, mid - 1)
                           ELSE Narrow(mid + 1, search.end)
         ELSE /\ pc' = IF in_last THEN "parser" ELSE "thrown"
              /\ search' = IF in_last THEN Locate(mid) ELSE search
  BY DEF search_for_line
<1>2. /\ search.start \in Nat /\ search.end \in Nat /\ p \in Nat
      /\ search.start <= search.end /\ search.end < Len(position_to_line_list)
      /\ Entry(search.start).position <= p /\ p < size
      /\ Len(position_to_line_list) \in Nat
  BY <1>1 DEF ScannerInv, TypeOK, SearchInv
<1>3. \A i \in Nat : i < Len(position_to_line_list) => Entry(i).position \in Nat
  BY EntryType DEF ScannerInv
<1>4. CASE search.end > search.start
  <2>1. mid \in Nat /\ search.start <= mid /\ mid < search.end /\ mid < Len(position_to_line_list)
    BY <1>2, <1>4, Middle
  <2> HIDE DEF mid
  <2>2. CASE in_line
    <3>1. Hit(mid)
      BY <1>1, <1>2, <1>3, <1>4, <2>1, <2>2 DEF Hit
    <3> QED
      BY <2>1, <3>1
  <2>3. CASE ~ in_line /\ p < Entry(mid).position
    <3>1. mid # search.start
      BY <1>2, <1>3, <2>1, <2>3
    <3>2. mid > 0
      BY <1>2, <2>1, <3>1
    <3>3. Leftward(mid)
      BY <1>1, <1>4, <2>3, <3>2 DEF Leftward
    <3> QED
      BY <2>1, <3>3
  <2>4. CASE ~ in_line /\ ~ (p < Entry(mid).position)
    <3>1. Rightward(mid)
      BY <1>1, <1>4, <2>4 DEF Rightward
    <3> QED
      BY <2>1, <3>1
  <2> QED
    BY <2>2, <2>3, <2>4
<1>5. CASE ~ (search.end > search.start)
  <2>1. search.end = search.start /\ mid = search.start
    BY <1>2, <1>5
  <2> HIDE DEF mid
  <2>2. in_last /\ mid \in Nat /\ mid < Len(position_to_line_list)
    BY <1>2, <1>3, <2>1
  <2>3. Hit(mid)
    BY <1>1, <1>5, <2>1, <2>2, <1>2, <1>3 DEF Hit
  <2> QED
    BY <2>2, <2>3
<1> QED
  BY <1>4, <1>5

\* While the search goes on, what it leaves behind lies beyond the node.
LEMMA BeyondStep ==
    ASSUME ScannerInv, LinesInv, BeyondInv, [Next]_vars
    PROVE  BeyondInv'
<1> DEFINE l == position_to_line_list
<1>1. position_to_line_list \in Seq(Entries) /\ Len(l) \in Nat /\ DOMAIN l = 1 .. Len(l)
  BY DEF ScannerInv, TypeOK, Entries
<1>2. \A j \in DOMAIN l : l[j].position \in Nat
  <2>1. \A j \in DOMAIN l : l[j] \in Entries
    BY <1>1
  <2> QED
    BY <2>1 DEF Entries
<1>3. Without({"cr"})' = Without({"cr"})
  BY SourceStays DEF Without, size
<1>4. CASE UNCHANGED vars
  BY <1>3, <1>4 DEF vars, BeyondInv
<1>5. ASSUME NEW position \in syntaxes, get_token_location(position) PROVE BeyondInv'
  <2>1. /\ search'.position = position /\ search'.end = Len(l) - 1
        /\ UNCHANGED <<position_to_line_list, syntaxes>>
    BY <1>5 DEF get_token_location
  <2>2. \A j \in DOMAIN l : ~ (j > search'.end + 1)
    BY <1>1, <2>1
  <2> QED
    BY <2>1, <2>2 DEF BeyondInv
<1>6. CASE search_for_line
  <2>1. pc = "search" /\ UNCHANGED <<position_to_line_list, syntaxes>>
    BY <1>6 DEF search_for_line
  <2>2. PICK i \in Nat : i < Len(l) /\ (Hit(i) \/ Leftward(i) \/ Rightward(i))
    BY <1>6, SearchCases
  <2>3. CASE Hit(i)
    BY <2>3 DEF Hit, BeyondInv
  <2>4. CASE Rightward(i)
    <3>1. search'.position = search.position /\ search'.end = search.end
      BY <2>4 DEF Rightward, Narrow
    <3> QED
      BY <1>3, <2>1, <3>1 DEF BeyondInv
  <2>5. CASE Leftward(i)
    <3>1. /\ search'.position = search.position /\ search'.end = i - 1
          /\ i + 1 \in DOMAIN l /\ search.position < l[i + 1].position
      BY <1>1, <2>2, <2>5 DEF Leftward, Narrow, Entry
    <3>2. search.position \in syntaxes /\ search.position \in Nat
      BY <2>1 DEF BeyondInv, ScannerInv, TypeOK
    <3>3. ASSUME Without({"cr"}), NEW j \in DOMAIN l, j > search'.end + 1
          PROVE  l[j].position > search.position
      <4>1. PartedBy(search.position)
        BY <3>2, <3>3, <2>1 DEF LinesInv, NodeInv, Findable
      <4>2. j = i + 1 \/ i + 1 < j
        BY <1>1, <2>2, <3>1, <3>3
      <4> QED
        BY <1>2, <3>1, <3>2, <4>1, <4>2 DEF PartedBy
    <3> QED
      BY <1>3, <2>1, <3>1, <3>2, <3>3 DEF BeyondInv
  <2> QED
    BY <2>2, <2>3, <2>4, <2>5
<1>7. CASE pc' # "search"
  BY <1>7 DEF BeyondInv
<1>8. pc' # "search" \/ UNCHANGED vars \/ search_for_line \/ \E position \in syntaxes : get_token_location(position)
  <2>1. Scan => pc' # "search"
    BY ScanFrame DEF Scanning, Long
  <2> QED
    BY <2>1 DEF Next, Call, Return, ReturnSkipTo, ReturnSkipBlock, CreateSyntax
<1> QED
  BY <1>4, <1>5, <1>6, <1>7, <1>8

\* What LocationsAreRight says of a node at p.
Right(p, line, column) ==
    /\ line \in 1 .. 1 + Cardinality(BreaksTo(p))
    /\ Without({"cr", "quote"}) =>
          /\ line = 1 + Cardinality(BreaksTo(p))
          /\ \E i \in BreaksTo(p) \cup {0} :
                (\A j \in BreaksTo(p) : j <= i) /\ column = p - i + 1

LEMMA RightSuffices ==
    ASSUME source' = source, size \in Nat, NEW p \in Nat, p <= size, search'.position = p,
           Right(p, search'.line, search'.column)
    PROVE  LocationsAreRight'
<1>1. {i \in 1 .. p : source[i] \in {"nl", "cr"}} = BreaksTo(p)
  BY DEF BreaksTo
<1>2. {i \in 1 .. search'.position : source'[i] \in {"nl", "cr"}} = BreaksTo(p)
  BY <1>1
<1>3. Without({"cr", "quote"})' = Without({"cr", "quote"})
  BY DEF Without, size
<1> QED
  BY <1>2, <1>3 DEF Right, LocationsAreRight

\* The entry that is hit is the last one that does not begin beyond the node.
LEMMA HitIsLast ==
    ASSUME ScannerInv, LinesInv, BeyondInv, Without({"cr"}), pc = "search",
           NEW i \in Nat, i < Len(position_to_line_list), Hit(i)
    PROVE  LastEntry(i + 1, search.position) /\ (NoStrings => TrueLine(i + 1, search.position))
<1> DEFINE l == position_to_line_list
<1>1. position_to_line_list \in Seq(Entries) /\ Len(l) \in Nat /\ DOMAIN l = 1 .. Len(l)
  BY DEF ScannerInv, TypeOK, Entries
<1>2. \A j \in DOMAIN l : l[j].position \in Nat
  <2>1. \A j \in DOMAIN l : l[j] \in Entries
    BY <1>1
  <2> QED
    BY <2>1 DEF Entries
<1>3. PICK p \in Nat : p = search.position
  BY DEF ScannerInv, TypeOK
<1>4. PartedBy(p) /\ \E k \in DOMAIN l : LastEntry(k, p) /\ (NoStrings => TrueLine(k, p))
  BY <1>3 DEF BeyondInv, LinesInv, NodeInv, Findable
<1>5. search.end \in Nat /\ i + 1 \in DOMAIN l /\ l[i + 1].position <= p
  BY <1>1, <1>3 DEF Hit, Entry, ScannerInv, TypeOK
<1>6. \A j \in DOMAIN l : j > i + 1 => l[j].position > p
  <2> SUFFICES ASSUME NEW j \in DOMAIN l, j > i + 1 PROVE l[j].position > p
    OBVIOUS
  <2>1. CASE i = search.end
    BY <2>1, <1>3 DEF BeyondInv
  <2>2. CASE i < search.end /\ p < l[(i + 1) + 1].position
    <3>1. (i + 1) + 1 \in DOMAIN l /\ (j = (i + 1) + 1 \/ (i + 1) + 1 < j)
      BY <1>1
    <3> QED
      BY <1>2, <1>4, <2>2, <3>1 DEF PartedBy
  <2> QED
    BY <1>3, <2>1, <2>2 DEF Hit, Entry
<1>7. PICK k \in DOMAIN l : LastEntry(k, p) /\ (NoStrings => TrueLine(k, p))
  BY <1>4
<1>8. k = i + 1
  <2>1. ~ (k > i + 1)
    BY <1>2, <1>6, <1>7 DEF LastEntry
  <2>2. ~ (i + 1 > k)
    BY <1>2, <1>5, <1>7 DEF LastEntry
  <2> QED
    BY <1>1, <2>1, <2>2
<1> QED
  BY <1>3, <1>7, <1>8

LEMMA HitIsRight ==
    ASSUME ScannerInv, LinesInv, BeyondInv, CountInv, pc = "search",
           NEW i \in Nat, i < Len(position_to_line_list), Hit(i)
    PROVE  search'.position = search.position /\ Right(search.position, search'.line, search'.column)
<1>1. position_to_line_list \in Seq(Entries) /\ i + 1 \in DOMAIN position_to_line_list
  BY DEF ScannerInv, TypeOK, Entries
<1>2. PICK e \in Entries : e = position_to_line_list[i + 1]
  BY <1>1
<1>3. e.position \in Nat /\ e.line \in Nat
  BY <1>2 DEF Entries
<1>4. PICK p \in Nat : p = search.position
  BY DEF ScannerInv, TypeOK
<1>5. /\ search'.position = p /\ search'.line = e.line /\ search'.column = p - e.position + 1
      /\ e.position <= p
  BY <1>2, <1>4 DEF Hit, Locate, Entry
<1>6. size \in Nat /\ p < size
  BY <1>4, CharInside DEF ScannerInv, SearchInv
<1>7. Cardinality(BreaksTo(p)) \in Nat
  BY <1>6, BreaksGrow
<1>8. e.line \in 1 .. 1 + Cardinality(BreaksTo(p))
  <2>1. Numbered(e.line, e.position)
    BY <1>1, <1>2 DEF CountInv
  <2>2. Numbered(e.line, p)
    BY <1>3, <1>5, <1>6, <2>1, NumberedOn
  <2> QED
    BY <1>3, <1>7, <2>2 DEF Numbered
<1>9. ASSUME Without({"cr", "quote"})
      PROVE  /\ e.line = 1 + Cardinality(BreaksTo(p))
             /\ \E k \in BreaksTo(p) \cup {0} :
                   (\A j \in BreaksTo(p) : j <= k) /\ p - e.position + 1 = p - k + 1
  <2>1. Without({"cr"}) /\ NoStrings
    BY <1>9 DEF Without, NoStrings
  <2>2. TrueLine(i + 1, p)
    BY <1>4, <2>1, HitIsLast
  <2>3. Breaks(p) = BreaksTo(p)
    <3>1. \A x \in 1 .. p : x \in 1 .. size /\ x <= p
      BY <1>6
    <3> QED
      BY <1>6, <2>1, <3>1 DEF Breaks, BreaksTo, Without
  <2>4. /\ e.line = 1 + Cardinality(Breaks(p))
        /\ e.position = 0 \/ source[e.position] = "nl"
        /\ \A k \in e.position + 1 .. p : source[k] # "nl"
    BY <1>2, <2>2 DEF TrueLine
  <2>5. e.position \in Breaks(p) \cup {0}
    BY <1>3, <1>5, <2>4 DEF Breaks
  <2>6. \A j \in Breaks(p) : j <= e.position
    BY <1>3, <2>4 DEF Breaks
  <2> QED
    BY <2>3, <2>4, <2>5, <2>6
<1> QED
  BY <1>4, <1>5, <1>8, <1>9 DEF Right

LEMMA RightStep ==
    ASSUME ScannerInv, LinesInv, BeyondInv, CountInv, LocationsAreRight, [Next]_vars
    PROVE  LocationsAreRight'
<1>1. source' = source
  BY SourceStays
<1>2. CASE search_for_line
  <2>1. pc = "search"
    BY <1>2 DEF search_for_line
  <2>2. PICK i \in Nat : i < Len(position_to_line_list) /\ (Hit(i) \/ Leftward(i) \/ Rightward(i))
    BY <1>2, SearchCases
  <2>3. CASE Leftward(i) \/ Rightward(i)
    BY <2>3 DEF Leftward, Rightward, LocationsAreRight
  <2>4. CASE Hit(i)
    <3>1. PICK p \in Nat : p = search.position
      BY DEF ScannerInv, TypeOK
    <3>2. size \in Nat /\ p <= size
      BY <2>1, <3>1, CharInside DEF ScannerInv, SearchInv
    <3>3. search'.position = p /\ Right(p, search'.line, search'.column)
      BY <2>1, <2>2, <2>4, <3>1, HitIsRight
    <3> QED
      BY <1>1, <3>2, <3>3, RightSuffices
  <2> QED
    BY <2>2, <2>3, <2>4
<1>3. CASE UNCHANGED search /\ pc # "search"
  <2>1. pc \notin {"search", "thrown"}
    BY <1>3 DEF ScannerInv, SearchSucceeds
  <2>2. Without({"cr", "quote"})' = Without({"cr", "quote"})
    BY <1>1 DEF Without, size
  <2> QED
    BY <1>1, <1>3, <2>1, <2>2 DEF LocationsAreRight
<1>4. CASE pc' = "search"
  BY <1>4 DEF LocationsAreRight
<1>5. search_for_line \/ (UNCHANGED search /\ pc # "search") \/ pc' = "search"
  <2>1. Scan => UNCHANGED search /\ pc # "search"
    BY ScanFrame DEF Scanning, Long
  <2> QED
    BY <2>1 DEF Next, vars, Call, Return, ReturnSkipTo, ReturnSkipBlock, CreateSyntax, get_token_location
<1> QED
  BY <1>2, <1>3, <1>4, <1>5

LEMMA RightStart ==
    ASSUME Init
    PROVE  LocationsAreRight /\ BeyondInv
<1>1. search = [start |-> 0, end |-> 0, position |-> 0, line |-> 1, column |-> 1] /\ pc = "parser"
  BY DEF Init
<1>2. search.position = 0 /\ search.line = 1 /\ search.column = 1
  BY <1>1
<1>3. {i \in 1 .. search.position : source[i] \in {"nl", "cr"}} = {}
  BY <1>2
<1>4. Cardinality({i \in 1 .. search.position : source[i] \in {"nl", "cr"}}) = 0
  BY <1>3, FS_EmptySet
<1>5. 1 \in 1 .. 1 + 0 /\ 1 = 1 + 0 /\ 1 = 0 - 0 + 1
  OBVIOUS
<1>6. LocationsAreRight
  BY <1>2, <1>3, <1>4, <1>5 DEF LocationsAreRight
<1> QED
  BY <1>1, <1>6 DEF BeyondInv

-----------------------------------------------------------------------------
(* The theorems *)

\* The list of lines is as the search needs it, for every document and every
\* sequence of calls.
THEOREM LinesInvariant == Spec => [](LinesInv /\ CountInv /\ BeyondInv /\ LocationsAreRight)
<1> DEFINE Inv == LinesInv /\ CountInv /\ BeyondInv /\ LocationsAreRight
<1>1. Init => Inv
  BY LinesStart, CountStart, RightStart
<1>2. ScannerInv /\ Inv /\ [Next]_vars => Inv'
  BY LinesStep, CountStep, BeyondStep, RightStep
<1> HIDE DEF Inv
<1>3. Spec => []Inv
  BY <1>1, <1>2, ScannerInvariant, PTL DEF Spec
<1> QED
  BY <1>3 DEF Inv

\* Although revert leaves the line list as it is and looking ahead appends the
\* same lines again, every node parts the list, as the binary search needs it.
THEOREM NodesPartLines == Spec => []LineListParted
<1>1. LinesInv => LineListParted
  BY DEF LinesInv, NodeInv, Findable, PartedBy, LineListParted
<1> QED
  BY <1>1, LinesInvariant, PTL

\* The location that search_for_line gives is the one that counting line breaks
\* gives, and no break counts twice however often it was scanned.
THEOREM LocationsRight == Spec => []LocationsAreRight
BY LinesInvariant, PTL

\* The line and column that the cursor has for the current token, which
\* diagnostics use, are those that the search will give for its node.
THEOREM LocationsOfTokensAgree == Spec => []LocationsAgree
<1>1. ScannerInv /\ LinesInv => LocationsAgree
  <2> SUFFICES ASSUME ScannerInv, LinesInv, AlwaysSkips, Without({"cr"}), pc = "parser",
                      cursor.token \notin {"none", "end"}
               PROVE  \E i \in DOMAIN position_to_line_list :
                         /\ \A j \in DOMAIN position_to_line_list :
                               j > i <=> position_to_line_list[j].position > cursor.start_position
                         /\ cursor.line = position_to_line_list[i].line
                         /\ cursor.start_column = cursor.start_position - position_to_line_list[i].position + 1
    BY DEF LocationsAgree, AlwaysSkips
  <2>1. Located(cursor) /\ cursor.token \notin {"none", "white_space", "end"}
    BY DEF LinesInv, Located
  <2>2. PartedBy(cursor.start_position) /\ LastAt(cursor.start_position, cursor.line, cursor.start_column)
    BY <2>1 DEF Located
  <2>3. /\ position_to_line_list \in Seq(Entries) /\ Len(position_to_line_list) \in Nat
        /\ DOMAIN position_to_line_list = 1 .. Len(position_to_line_list)
    BY DEF ScannerInv, TypeOK, Entries
  <2>4. \A j \in DOMAIN position_to_line_list : position_to_line_list[j] \in Entries
    BY <2>3
  <2>5. /\ \A j \in DOMAIN position_to_line_list : position_to_line_list[j].position \in Nat
        /\ cursor.start_position \in Nat
    BY <2>4 DEF Entries, ScannerInv, TypeOK, Cursor
  <2>6. PICK i \in DOMAIN position_to_line_list :
           /\ LastEntry(i, cursor.start_position)
           /\ position_to_line_list[i].line = cursor.line
           /\ cursor.start_column = cursor.start_position - position_to_line_list[i].position + 1
    BY <2>2 DEF LastAt
  <2>7. ASSUME NEW j \in DOMAIN position_to_line_list
        PROVE  j > i <=> position_to_line_list[j].position > cursor.start_position
    <3>1. CASE j > i
      BY <2>6, <3>1 DEF LastEntry
    <3>2. CASE j <= i
      <4>1. position_to_line_list[i].position <= cursor.start_position
        BY <2>6 DEF LastEntry
      <4>2. position_to_line_list[j].position <= cursor.start_position
        BY <2>2, <2>3, <3>2, <4>1 DEF PartedBy
      <4> QED
        BY <2>3, <2>5, <3>2, <4>2
    <3> QED
      BY <2>3, <3>1, <3>2
  <2> QED
    BY <2>6, <2>7
<1> QED
  BY <1>1, LinesInvariant, ScannerInvariant, PTL
=============================================================================
