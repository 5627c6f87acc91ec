--------------------------- MODULE GraphQlScanner ---------------------------
(***************************************************************************)
(* The GraphQL scanner, src/program/graphql/graphql_scanner.cpp, driven by *)
(* a parser that may make any call in any order.  The scanner keeps a      *)
(* cursor into the source and a list of the places where lines begin; a    *)
(* call that looks ahead saves the cursor and reverts to it, but the list  *)
(* keeps what was appended meanwhile, and scanning the same text again     *)
(* appends it again.  The place of a syntax node in the text is found later*)
(* by a binary search in this list.                                        *)
(*                                                                         *)
(* The source is a sequence of characters, taken as members of a few       *)
(* classes: "word" stands for the letters of names and keywords other than *)
(* "e", "digit" for those that are not zero, "punct" for the punctuators of*)
(* one character, "bad" for an escape sequence that is not valid in a      *)
(* string.  A plus sign, which only an exponent may have, is left out.  A  *)
(* step handles one character, so the loops of the code are loops of steps.*)
(*                                                                         *)
(* start_line is left out: nothing reads it.  The errors that the scanner  *)
(* hands to the parser are left to the parser.                             *)
(***************************************************************************)
EXTENDS Integers, Sequences, FiniteSets

CONSTANTS
    Sources,         \* the documents
    SkipWhiteSpace,  \* for each document, the values of skip_white_space its parser passes
    MaxEntries,      \* bound: no call begins when the line list is longer
    MaxSaves         \* bound: no call begins when more cursors are saved

Digit == {"zero", "digit"}
Letter == {"word", "e"}
Char == {"nl", "cr", "sp", "hash", "dot", "open", "close", "punct", "quote", "bad", "minus"} \cup Digit \cup Letter

Token == {"none", "white_space", "word", "int", "float", "ellipses", "open", "close", "punct", "string",
          "invalid", "unknown", "end"}

ASSUME ScannerAssumption ==
    /\ Sources \subseteq Seq(Char)
    /\ SkipWhiteSpace \in [Sources -> SUBSET BOOLEAN]
    /\ MaxEntries \in Nat /\ MaxSaves \in Nat

VARIABLES
    source,
    cursor,                 \* position, line, column, start_position, start_column and
                            \* the token that starts there
    position_to_line_list,
    saved_text_cursors,     \* a stack, its top last
    pc,                     \* what the scanner is in the middle of
    call,                   \* the call of the parser, with the variables of skip_block
    syntaxes,               \* the start of every syntax node that was created
    search                  \* the arguments of search_for_line, and what it found last

vars == <<source, cursor, position_to_line_list, saved_text_cursors, pc, call, syntaxes, search>>

size == Len(source)

\* current_char() at any position; past the end there is none.
CharAt(position) == IF position < size THEN source[position + 1] ELSE "none"

\* A cursor: where the scanner is, where the current token starts and what it is.
CursorAt(position, line, column, start_position, start_column, token) ==
    [position |-> position, line |-> line, column |-> column, start_position |-> start_position,
     start_column |-> start_column, token |-> token]

-----------------------------------------------------------------------------
Init ==
    /\ source \in Sources
    /\ cursor = CursorAt(0, 1, 1, 0, 1, "none")
    /\ position_to_line_list = <<[position |-> 0, line |-> 1]>>
    /\ saved_text_cursors = <<>>
    /\ pc = "parser"
    /\ call = [op |-> "take", skip |-> TRUE, braces |-> 0, seen |-> FALSE]
    /\ syntaxes = {}
    /\ search = [start |-> 0, end |-> 0, position |-> 0, line |-> 1, column |-> 1]

save == saved_text_cursors' = Append(saved_text_cursors, cursor)

\* increment_position, n times
Increment(c, n) ==
    CursorAt(c.position + n, c.line, c.column + n, c.start_position, c.start_column, c.token)

\* One character that does not belong to the token.
Skip(c) ==
    CursorAt(c.position + 1, c.line, c.column + 1, c.start_position + 1, c.start_column + 1, c.token)

\* The start of take_next_token.
set_token_start_position ==
    cursor' = CursorAt(cursor.position, cursor.line, cursor.column, cursor.position, cursor.column,
                       cursor.token)

\* The parser calls take_next_token or scan_expected ("take"), try_scan ("try"),
\* peek_next_token, skip_to or skip_block.  The one other function that moves the
\* cursor, scan_directive_location (graphql_scanner.cpp:416-461), is not among the
\* calls: only a schema's directive definitions use it, it notes line breaks too,
\* but takes names out of comments and strings, and so what is said here of the line
\* list is not said of sources with directive definitions.
Call(op, skip) ==
    /\ pc = "parser"
    /\ Len(position_to_line_list) <= MaxEntries
    /\ Len(saved_text_cursors) <= MaxSaves
    /\ op \notin {"take", "try"} => skip
    /\ call' = [op |-> op, skip |-> skip, braces |-> 0, seen |-> FALSE]
    /\ pc' = "scan"
    /\ set_token_start_position
    /\ IF op \in {"try", "peek", "skip_to"} THEN save ELSE UNCHANGED saved_text_cursors
    /\ UNCHANGED <<source, position_to_line_list, syntaxes, search>>

\* The end of take_next_token.
Yield(token, c) ==
    /\ pc' = "return"
    /\ cursor' = CursorAt(c.position, c.line, c.column, c.start_position, c.start_column, token)

\* Variant: the line of a line break is only noted when white space is skipped.
TakeLineBreakUnnoted ==
    LET c == Increment(cursor, 1)
    IN  /\ CharAt(cursor.position) = "nl"
        /\ UNCHANGED position_to_line_list
        /\ pc' = pc
        /\ cursor' = CursorAt(c.position, c.line + 1, 1, c.start_position + 1, 1, c.token)

\* A line break.  After a carriage return the character behind the next one is
\* looked at.  When white space counts, the column goes on.
TakeLineBreak ==
    LET ch == CharAt(cursor.position)
        c == Increment(cursor, IF ch = "cr" /\ CharAt(cursor.position + 2) = "nl" THEN 2 ELSE 1)
    IN  /\ ch \in {"nl", "cr"}
        /\ position_to_line_list' =
              Append(position_to_line_list, [position |-> c.position, line |-> c.line + 1])
        /\ IF call.skip
           THEN /\ pc' = pc
                /\ cursor' = CursorAt(c.position, c.line + 1, 1, c.start_position + 1, 1, c.token)
           ELSE Yield("white_space",
                      CursorAt(c.position, c.line + 1, c.column, c.start_position, c.start_column,
                               c.token))

\* Variant: the start of the token is not moved on.
TakeSpaceKeepsStart ==
    /\ CharAt(cursor.position) = "sp"
    /\ pc' = pc
    /\ cursor' = [Skip(cursor) EXCEPT !.start_column = cursor.start_column]
    /\ UNCHANGED position_to_line_list

\* A space, a comma or a byte order mark.
TakeSpace ==
    /\ CharAt(cursor.position) = "sp"
    /\ IF call.skip
       THEN pc' = pc /\ cursor' = Skip(cursor)
       ELSE Yield("white_space", Increment(cursor, 1))
    /\ UNCHANGED position_to_line_list

\* The hash, and in a comment every character up to the line break.
TakeComment ==
    /\ \/ pc = "scan" /\ CharAt(cursor.position) = "hash"
       \/ pc = "comment" /\ CharAt(cursor.position) \notin {"nl", "cr", "none"}
    /\ pc' = "comment"
    /\ cursor' = Skip(cursor)
    /\ UNCHANGED position_to_line_list

EndComment ==
    /\ pc = "comment"
    /\ CharAt(cursor.position) \in {"nl", "cr", "none"}
    /\ pc' = "scan"
    /\ UNCHANGED <<cursor, position_to_line_list>>

\* Tokens of one character.
TakePunctuator ==
    LET ch == CharAt(cursor.position)
    IN  /\ ch \in {"open", "close", "punct", "bad"}
        /\ Yield(IF ch = "bad" THEN "unknown" ELSE ch, Increment(cursor, 1))
        /\ UNCHANGED position_to_line_list

\* The first character of a longer token; three quotes begin a block string.
BeginLongToken ==
    LET p == cursor.position
        block == CharAt(p + 1) = "quote" /\ CharAt(p + 2) = "quote"
    IN  /\ \/ CharAt(p) \in Letter /\ pc' = "word"
           \/ CharAt(p) \in Digit \cup {"minus"} /\ pc' = "number"
           \/ CharAt(p) = "dot" /\ pc' = "dot"
           \/ CharAt(p) = "quote" /\ pc' = IF block THEN "block" ELSE "string"
        /\ cursor' = Increment(cursor, IF CharAt(p) = "quote" /\ block THEN 3 ELSE 1)
        /\ UNCHANGED position_to_line_list

EndOfDocument ==
    /\ CharAt(cursor.position) = "none"
    /\ Yield("end", cursor)
    /\ UNCHANGED position_to_line_list

TakeChar ==
    /\ pc = "scan"
    /\ TakeLineBreak \/ TakeSpace \/ TakePunctuator \/ BeginLongToken \/ EndOfDocument

\* The rest of a name or a keyword.
ScanWord ==
    /\ pc = "word"
    /\ IF CharAt(cursor.position) \in Letter \cup Digit
       THEN pc' = pc /\ cursor' = Increment(cursor, 1)
       ELSE Yield("word", cursor)
    /\ UNCHANGED position_to_line_list

\* The next characters belong to the number too.
Advance(to, n) == pc' = to /\ cursor' = Increment(cursor, n)

\* scan_integer_part begins behind the first character, a sign or a digit.  A zero
\* there is taken for a leading one and ends the part, whatever comes next.
scan_integer_part ==
    LET ch == CharAt(cursor.position)
    IN  /\ pc \in {"number", "integer"}
        /\ ch \in Digit
        /\ Advance(IF pc = "number" /\ ch = "zero" THEN "point" ELSE "integer", 1)
        /\ UNCHANGED position_to_line_list

\* Behind the integer part: a point with a digit, an exponent, or the end.
scan_number ==
    LET ch == CharAt(cursor.position)
    IN  /\ pc = "point" \/ (pc \in {"number", "integer"} /\ ch \notin Digit)
        /\ \/ ch = "dot" /\ CharAt(cursor.position + 1) \in Digit /\ Advance("fraction", 2)
           \/ ch = "dot" /\ CharAt(cursor.position + 1) \notin Digit /\ Yield("unknown", Increment(cursor, 1))
           \/ ch = "e" /\ Advance("exponent", 1)
           \/ ch \notin {"dot", "e"} /\ Yield("int", cursor)
        /\ UNCHANGED position_to_line_list

\* Variant: a number with a point has no exponent.
ScanFractionOnly ==
    /\ pc = "fraction"
    /\ IF CharAt(cursor.position) \in Digit THEN Advance("fraction", 1) ELSE Yield("float", cursor)
    /\ UNCHANGED position_to_line_list

\* The digits behind the point; an exponent may follow.
ScanFraction ==
    LET ch == CharAt(cursor.position)
    IN  /\ pc = "fraction"
        /\ \/ ch \in Digit /\ Advance("fraction", 1)
           \/ ch = "e" /\ Advance("exponent", 1)
           \/ ch \notin Digit \cup {"e"} /\ Yield("float", cursor)
        /\ UNCHANGED position_to_line_list

\* Behind the "e": a sign, and a digit that has to be there; then the other digits.
ScanExponent ==
    LET sign == IF CharAt(cursor.position) = "minus" THEN 1 ELSE 0
    IN  /\ \/ /\ pc = "exponent"
              /\ IF CharAt(cursor.position + sign) \in Digit
                 THEN Advance("power", sign + 1)
                 ELSE Yield("unknown", Increment(cursor, sign))
           \/ /\ pc = "power"
              /\ IF CharAt(cursor.position) \in Digit THEN Advance("power", 1) ELSE Yield("float", cursor)
        /\ UNCHANGED position_to_line_list

\* The second and the third dot.
scan_ellipses_after_first_dot ==
    LET ch == CharAt(cursor.position)
    IN  /\ pc \in {"dot", "dots"}
        /\ \/ ch # "dot" /\ Yield("unknown", cursor)
           \/ ch = "dot" /\ pc = "dot" /\ Advance("dots", 1)
           \/ ch = "dot" /\ pc = "dots" /\ Yield("ellipses", Increment(cursor, 1))
        /\ UNCHANGED position_to_line_list

\* Variant: the string goes on until a quote is met.
ScanStringUnbounded ==
    LET ch == CharAt(cursor.position)
    IN  /\ pc \in {"string", "truncated"}
        /\ IF ch = "quote"
           THEN Yield(IF pc = "string" THEN "string" ELSE "invalid", Increment(cursor, 1))
           ELSE /\ pc' = pc
                /\ cursor' = IF ch = "none" THEN cursor ELSE Increment(cursor, 1)
        /\ UNCHANGED position_to_line_list

\* A string goes on over line breaks, which only make it invalid, and up to
\* one past the end of the source.  A bad escape ends it.
ScanString ==
    LET ch == CharAt(cursor.position)
        result == IF pc = "string" THEN "string" ELSE "invalid"
    IN  /\ pc \in {"string", "truncated"}
        /\ \/ cursor.position > size /\ Yield(result, cursor)
           \/ cursor.position <= size /\ ch = "bad" /\ Yield("invalid", Increment(cursor, 1))
           \/ cursor.position <= size /\ ch = "quote" /\ Yield(result, Increment(cursor, 1))
           \/ /\ cursor.position <= size /\ ch \notin {"bad", "quote"}
              /\ pc' = IF ch \in {"nl", "cr"} THEN "truncated" ELSE pc
              /\ cursor' = Increment(cursor, 1)
        /\ UNCHANGED position_to_line_list

\* A block string ends with three quotes; a quote among the last two
\* characters of the source ends the scan.
ScanBlock ==
    LET p == cursor.position
        quotes == CharAt(p) = "quote" /\ CharAt(p + 1) = "quote" /\ CharAt(p + 2) = "quote"
        cut_off == p > size \/ (CharAt(p) = "quote" /\ p + 2 >= size)
    IN  /\ pc = "block"
        /\ \/ cut_off /\ Yield("unknown", cursor)
           \/ ~ cut_off /\ quotes /\ Yield("string", Increment(cursor, 3))
           \/ ~ cut_off /\ ~ quotes /\ pc' = pc /\ cursor' = Increment(cursor, 1)
        /\ UNCHANGED position_to_line_list

Scan ==
    /\ \/ TakeChar \/ TakeComment \/ EndComment
       \/ ScanWord \/ scan_integer_part \/ scan_number \/ ScanFraction \/ ScanExponent
       \/ scan_ellipses_after_first_dot \/ ScanString \/ ScanBlock
    /\ UNCHANGED <<source, saved_text_cursors, call, syntaxes, search>>

-----------------------------------------------------------------------------
(* The callers of take_next_token *)

\* Variant: the cursor is not taken off the stack's top but off its bottom.
RevertToFirst ==
    /\ cursor' = saved_text_cursors[1]
    /\ saved_text_cursors' = SubSeq(saved_text_cursors, 1, Len(saved_text_cursors) - 1)

revert ==
    /\ cursor' = saved_text_cursors[Len(saved_text_cursors)]
    /\ saved_text_cursors' = SubSeq(saved_text_cursors, 1, Len(saved_text_cursors) - 1)

\* take_next_token and peek_next_token return.  try_scan returns with the token
\* that was expected, leaving its cursor on the stack, or reverts.
Return ==
    /\ pc = "return"
    /\ call.op \in {"take", "peek", "try"}
    /\ pc' = "parser"
    /\ \/ /\ call.op \in {"take", "try"}
          /\ call.op = "try" => cursor.token # "end"
          /\ UNCHANGED <<cursor, saved_text_cursors>>
       \/ call.op \in {"peek", "try"} /\ revert
    /\ UNCHANGED <<source, position_to_line_list, call, syntaxes, search>>

\* skip_to goes on with another cursor saved, or reverts to before the token it
\* was to find, or reaches the end.
ReturnSkipTo ==
    /\ pc = "return"
    /\ call.op = "skip_to"
    /\ \/ /\ cursor.token = "end"
          /\ pc' = "parser"
          /\ UNCHANGED <<cursor, saved_text_cursors>>
       \/ /\ cursor.token # "end"
          /\ pc' = "parser"
          /\ revert
       \/ /\ cursor.token # "end"
          /\ pc' = "scan"
          /\ save
          /\ set_token_start_position
    /\ UNCHANGED <<source, position_to_line_list, call, syntaxes, search>>

\* skip_block counts braces until none is open.
ReturnSkipBlock ==
    LET token == cursor.token
        braces == call.braces + (IF token = "open" THEN 1 ELSE IF token = "close" THEN -1 ELSE 0)
        seen == call.seen \/ token \in {"open", "close"}
    IN  /\ pc = "return"
        /\ call.op = "skip_block"
        /\ call' = [op |-> call.op, skip |-> call.skip, braces |-> braces, seen |-> seen]
        /\ IF token = "end" \/ (seen /\ braces <= 0)
           THEN pc' = "parser" /\ UNCHANGED cursor
           ELSE pc' = "scan" /\ set_token_start_position
        /\ UNCHANGED <<source, position_to_line_list, saved_text_cursors, syntaxes, search>>

-----------------------------------------------------------------------------
(* Syntax nodes and where they are *)

\* The parser makes a node of the token it was given last.  The start that it
\* gives a directive afterwards is that of the token "@" before the name.
CreateSyntax ==
    /\ pc = "parser"
    /\ cursor.token \notin {"none", "white_space", "end"}
    /\ syntaxes' = syntaxes \cup {cursor.start_position}
    /\ UNCHANGED <<source, cursor, position_to_line_list, saved_text_cursors, pc, call, search>>

\* Variant: the last entry is left out of the search.
get_token_locationOffByOne(position) ==
    /\ pc = "parser"
    /\ position \in syntaxes
    /\ pc' = "search"
    /\ search' = [start |-> 0, end |-> Len(position_to_line_list) - 2, position |-> position,
                  line |-> search.line, column |-> search.column]
    /\ UNCHANGED <<source, cursor, position_to_line_list, saved_text_cursors, call, syntaxes>>

\* get_token_location of a node.
get_token_location(position) ==
    /\ pc = "parser"
    /\ position \in syntaxes
    /\ pc' = "search"
    /\ search' = [start |-> 0, end |-> Len(position_to_line_list) - 1, position |-> position,
                  line |-> search.line, column |-> search.column]
    /\ UNCHANGED <<source, cursor, position_to_line_list, saved_text_cursors, call, syntaxes>>

\* position_to_line_list[i]
Entry(i) == position_to_line_list[i + 1]

\* The location in the line that entry i begins.
Locate(i) ==
    [start |-> search.start, end |-> search.end, position |-> search.position,
     line |-> Entry(i).line, column |-> search.position - Entry(i).position + 1]

\* The arguments of the recursive call.
Narrow(start, end) ==
    [start |-> start, end |-> end, position |-> search.position, line |-> search.line,
     column |-> search.column]

\* Variant: a position at the very start of the last line is refused.
search_for_lineStrict ==
    LET mid == search.start + (search.end - search.start) \div 2
        p == search.position
        in_line == p >= Entry(mid).position /\ p < Entry(mid + 1).position
        in_last == search.end = search.start /\ p > Entry(mid).position /\ p < size
    IN  /\ pc = "search"
        /\ IF search.end > search.start
           THEN /\ pc' = IF in_line THEN "parser" ELSE "search"
                /\ search' = IF in_line THEN Locate(mid)
                             ELSE IF p < Entry(mid).position
                             THEN Narrow(search.start, mid - 1)
                             ELSE Narrow(mid + 1, search.end)
           ELSE /\ pc' = IF in_last THEN "parser" ELSE "thrown"
                /\ search' = IF in_last THEN Locate(mid) ELSE search
        /\ UNCHANGED <<source, cursor, position_to_line_list, saved_text_cursors, call, syntaxes>>

\* search_for_line: one call of the recursion.  The end of the search without a
\* result is an exception.
search_for_line ==
    LET mid == search.start + (search.end - search.start) \div 2
        p == search.position
        in_line == p >= Entry(mid).position /\ p < Entry(mid + 1).position
        in_last == search.end = search.start /\ p >= Entry(mid).position /\ p < size
    IN  /\ pc = "search"
        /\ IF search.end > search.start
           THEN /\ pc' = IF in_line THEN "parser" ELSE "search"
                /\ search' = IF in_line THEN Locate(mid)
                             ELSE IF p < Entry(mid).position
                             THEN Narrow(search.start, mid - 1)
                             ELSE Narrow(mid + 1, search.end)
           ELSE /\ pc' = IF in_last THEN "parser" ELSE "thrown"
                /\ search' = IF in_last THEN Locate(mid) ELSE search
        /\ UNCHANGED <<source, cursor, position_to_line_list, saved_text_cursors, call, syntaxes>>

Next ==
    \/ \E op \in {"take", "try", "peek", "skip_to", "skip_block"}, skip \in SkipWhiteSpace[source] :
          Call(op, skip)
    \/ Scan
    \/ Return \/ ReturnSkipTo \/ ReturnSkipBlock
    \/ CreateSyntax
    \/ \E position \in syntaxes : get_token_location(position)
    \/ search_for_line

\* The scanner is sequential code: a call that was made runs on.
Fairness == WF_vars(Scan \/ Return \/ ReturnSkipTo \/ ReturnSkipBlock \/ search_for_line)

Spec == Init /\ [][Next]_vars /\ Fairness

-----------------------------------------------------------------------------
(* Properties *)

Cursor == [position : Nat, line : Nat, column : Nat, start_position : Nat, start_column : Nat,
           token : Token]

TypeOK ==
    /\ source \in Sources
    /\ cursor \in Cursor
    /\ position_to_line_list \in Seq([position : Nat, line : Nat])
    /\ saved_text_cursors \in Seq(Cursor)
    /\ pc \in {"parser", "scan", "comment", "word", "number", "integer", "point", "fraction",
               "exponent", "power", "dot", "dots", "string", "truncated", "block", "return", "search", "thrown"}
    /\ call \in [op : {"take", "try", "peek", "skip_to", "skip_block"}, skip : BOOLEAN,
                 braces : Int, seen : BOOLEAN]
    /\ syntaxes \subseteq Nat
    /\ search \in [start : Nat, end : Nat, position : Nat, line : Nat, column : Nat]

\* The source has none of these characters.
Without(chars) == \A i \in 1 .. size : source[i] \notin chars

\* search_for_line finds every node that the parser made, whatever was looked
\* ahead, reverted and scanned again since: its exception is never thrown.
SearchSucceeds == pc # "thrown"

\* revert leaves the line list as it is, so it is not sorted.  Still, every
\* node parts it: the lines that begin before the node's start come first,
\* all others after them.  This is what the binary search needs.
LineListParted ==
    Without({"cr"}) =>
        \A p \in syntaxes : \A i, j \in DOMAIN position_to_line_list :
            i < j /\ position_to_line_list[j].position <= p => position_to_line_list[i].position <= p

\* The location that search_for_line finds is the one that counting the line
\* breaks of the source gives, when there are no strings to span lines and no
\* carriage returns.  With them a node's line may be too low, for breaks inside
\* strings are not noted and the start of a token stays one behind, but however
\* often the text is scanned again no break counts twice.
LocationsAreRight ==
    LET breaks == {i \in 1 .. search.position : source[i] \in {"nl", "cr"}}
    IN  pc \notin {"search", "thrown"} =>
            /\ search.line \in 1 .. 1 + Cardinality(breaks)
            /\ Without({"cr", "quote"}) =>
                  /\ search.line = 1 + Cardinality(breaks)
                  /\ \E i \in breaks \cup {0} :
                        (\A j \in breaks : j <= i) /\ search.column = search.position - i + 1

\* The location of the current token that the cursor has, and that diagnostics
\* use, is the one that the search will give for its node, and that
\* has_diagnostic_in_syntax compares with it.  Not so when a line break was
\* returned as white space, since the column goes on then.
LocationsAgree ==
    /\ SkipWhiteSpace[source] = {TRUE} /\ Without({"cr"})
    /\ pc = "parser" /\ cursor.token \notin {"none", "end"}
    =>
        \E i \in DOMAIN position_to_line_list :
            /\ \A j \in DOMAIN position_to_line_list :
                  j > i <=> position_to_line_list[j].position > cursor.start_position
            /\ cursor.line = position_to_line_list[i].line
            /\ cursor.start_column = cursor.start_position - position_to_line_list[i].position + 1

\* What a number is.
Digits(text) == text # <<>> /\ \A i \in DOMAIN text : text[i] \in Digit
Unsigned(text) == IF text # <<>> /\ text[1] = "minus" THEN Tail(text) ELSE text
Whole(text) == Digits(Unsigned(text)) /\ (Len(Unsigned(text)) > 1 => Unsigned(text)[1] # "zero")
Fraction(text) == text # <<>> /\ text[1] = "dot" /\ Digits(Tail(text))
Exponent(text) == text # <<>> /\ text[1] = "e" /\ Digits(Unsigned(Tail(text)))
Number(text) ==
    \E i \in DOMAIN text : \E j \in i .. Len(text) :
        /\ Whole(SubSeq(text, 1, i))
        /\ i < j => Fraction(SubSeq(text, i + 1, j))
        /\ j < Len(text) => Exponent(SubSeq(text, j + 1, Len(text)))

\* A number that stands by itself is one token, an integer or a float as it is
\* written (scan_number), unless its second character is a zero and a digit
\* follows: 100 is read as 10 and 0.
NumbersAsWritten ==
    pc = "parser" /\ cursor.token \notin {"none", "white_space", "end"} /\ Without({"cr"}) =>
        \A n \in cursor.start_position + 1 .. size :
            LET text == SubSeq(source, cursor.start_position + 1, n)
                cut == Len(text) > 2 /\ text[2] = "zero" /\ text[3] \in Digit
            IN  Number(text) /\ ~ cut /\ CharAt(n) \notin Digit \cup Letter \cup {"dot"} =>
                    /\ cursor.position = n
                    /\ cursor.token = IF Whole(text) THEN "int" ELSE "float"

\* Every call of the parser returns: the loops over comments, strings that
\* nobody closes, skipped tokens and the recursion of the search all end.
CallsReturn == (pc # "parser") ~> (pc = "parser")

=============================================================================
