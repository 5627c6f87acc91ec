-------------------------- MODULE HttpParserProofs --------------------------
(***************************************************************************)
(* Three things about every request.                                       *)
(*                                                                         *)
(* get_token_value copies nothing from outside the text.  The position may *)
(* pass the end of the text in scan_method and in scan_http_version, so the*)
(* argument is that no value is taken before the next check: the start of a*)
(* token never lies behind the position, and the position lies inside the  *)
(* text wherever a token ends.  Since revert sets both, the same has to be *)
(* known of every cursor on the stack.                                     *)
(*                                                                         *)
(* What parse_headers and parse_body return is what the text says.  The    *)
(* scanner does not keep where a line began or where its colon was; the    *)
(* invariant says that there are such places, and that no line ended       *)
(* between the start of the line and the position.                         *)
(*                                                                         *)
(* A well-formed request is not refused.  Its places are fixed by the text,*)
(* and the invariant says where the parser is among them.                  *)
(***************************************************************************)
EXTENDS HttpParser, SequenceTheorems, TLAPS

\* Where the position has not been compared with the size.
Unchecked == {"method", "cr_1", "thrown"}

SavedInv ==
    /\ saved_text_cursors \in Seq(SavedTextCursor)
    /\ \A i \in 1 .. Len(saved_text_cursors) :
          saved_text_cursors[i].start_position <= saved_text_cursors[i].position
    /\ pc \in {"content", "blanks"} => Len(saved_text_cursors) > 0

CursorInv ==
    /\ position \in Nat /\ start_position \in 0 .. size
    /\ pc \in Unchecked \/ position <= size
    /\ pc # "thrown" => start_position <= position
    /\ pc = "method" => start_position = 0
    /\ SavedInv

Phase == {"method", "space_1", "path", "path_rest", "path_hex_1", "path_hex_2", "query_rest",
          "query_hex_1", "query_hex_2", "query_end", "space_2", "version", "cr_1", "nl_1",
          "header", "name", "colon", "space_3", "value", "content", "blanks", "value_end",
          "cr_2", "nl_2", "nl_3", "body", "parsed", "thrown"}

Method == {"None", "Connect", "Delete", "Get", "Head", "Options", "Trace", "Patch", "Post", "Put"}

Header == HeaderNames \cup {Unknown}

\* A value that is null or lies inside the text.
Good(span) == span \in Spans /\ InText(span)

ValueInv ==
    /\ method \in Method /\ header \in Header
    /\ Good(path) /\ Good(query) /\ Good(current_header) /\ Good(body)
    /\ headers \in [Header -> Spans]
    /\ \A h \in Header : InText(headers[h])

ParserInv == text \in Seq(Char) /\ pc \in Phase /\ CursorInv /\ ValueInv

-----------------------------------------------------------------------------
\* What is to be shown: the invariant has both properties in it.
LEMMA InvariantSuffices == ParserInv => TypeOK /\ ValuesInText
BY DEF ParserInv, CursorInv, SavedInv, ValueInv, TypeOK, ValuesInText, Unchecked, Phase, Method,
       Header, Good

\* get_token_value, where the cursor is inside the text.
LEMMA TokenIsGood ==
    ASSUME NEW from \in Nat, NEW to \in Nat, from <= to, to <= size
    PROVE  Good(Span(from, to))
BY DEF Good, InText, Span, Spans

\* A null pointer is a good value.
LEMMA NullIsGood == Good(Null)
BY DEF Good, InText, Null, Spans

\* A step that takes no value keeps those there are.
LEMMA ValuesKept ==
    ASSUME ValueInv, UNCHANGED text, UNCHANGED requestVars, UNCHANGED headerVars
    PROVE  ValueInv'
BY DEF ValueInv, requestVars, headerVars, Good, InText, size

\* So does the method, and a header that is looked up.
LEMMA NamesKept ==
    ASSUME ValueInv, UNCHANGED <<text, path, query, headers, body, current_header>>,
           method' \in Method, header' \in Header
    PROVE  ValueInv'
BY DEF ValueInv, Good, InText, size

\* A cursor that is saved inside the text is as good as those below it.
LEMMA Pushed ==
    ASSUME SavedInv, UNCHANGED text, position \in 0 .. size, start_position \in 0 .. size,
           start_position <= position, save
    PROVE  SavedInv'
<1>. DEFINE c == [position |-> position, start_position |-> start_position]
            s == saved_text_cursors
<1>1. c \in SavedTextCursor /\ s \in Seq(SavedTextCursor) /\ SavedTextCursor' = SavedTextCursor
  BY DEF SavedInv, SavedTextCursor, size
<1>2. c.start_position <= c.position
  OBVIOUS
<1>3. \A i \in 1 .. Len(s) : s[i].start_position <= s[i].position
  BY DEF SavedInv
<1>4. saved_text_cursors' = Append(s, c)
  BY DEF save
<1>. HIDE DEF c, s
<1>5. /\ saved_text_cursors' \in Seq(SavedTextCursor)
      /\ Len(saved_text_cursors') = Len(s) + 1
      /\ \A i \in 1 .. Len(s) : saved_text_cursors'[i] = s[i]
      /\ saved_text_cursors'[Len(s) + 1] = c
  BY <1>1, <1>4
<1>6. Len(s) \in Nat
  BY <1>1
<1>7. \A i \in 1 .. Len(s) + 1 :
         saved_text_cursors'[i].start_position <= saved_text_cursors'[i].position
  <2>1. TAKE i \in 1 .. Len(s) + 1
  <2>2. CASE i = Len(s) + 1
    BY <1>2, <1>5, <2>2
  <2>3. CASE i # Len(s) + 1
    <3>1. i \in 1 .. Len(s)
      BY <1>6, <2>1, <2>3
    <3>. QED
      BY <3>1, <1>3, <1>5
  <2>. QED
    BY <2>2, <2>3
<1>. QED
  BY <1>1, <1>5, <1>6, <1>7 DEF SavedInv

\* A stack without its top.
LEMMA Shortened ==
    ASSUME NEW S, NEW s \in Seq(S), NEW n \in Nat, Len(s) = n + 1
    PROVE  /\ s[n + 1] \in S
           /\ SubSeq(s, 1, n) \in Seq(S)
           /\ Len(SubSeq(s, 1, n)) = n
           /\ \A i \in 1 .. n : SubSeq(s, 1, n)[i] = s[i]
<1>1. \A i \in 1 .. n : s[i] \in S
  OBVIOUS
<1>2. s[n + 1] \in S
  OBVIOUS
<1>. DEFINE f == SubSeq(s, 1, n)
<1>3. /\ f \in Seq(S)
      /\ Len(f) = IF 1 <= n THEN n - 1 + 1 ELSE 0
      /\ \A i \in 1 .. n - 1 + 1 : f[i] = s[1 + i - 1]
  BY <1>1, SubSeqProperties
<1>. HIDE DEF f
<1>4. Len(f) = n
  BY <1>3
<1>5. ASSUME NEW i \in 1 .. n PROVE f[i] = s[i]
  <2>1. i \in 1 .. n - 1 + 1 /\ 1 + i - 1 = i
    OBVIOUS
  <2>2. f[i] = s[1 + i - 1]
    BY <1>3, <2>1
  <2>. QED
    BY <2>1, <2>2
<1>. QED
  BY <1>2, <1>3, <1>4, <1>5 DEF f

\* revert goes back to a cursor whose token starts and ends inside the text.
LEMMA Popped ==
    ASSUME SavedInv, UNCHANGED text, Len(saved_text_cursors) > 0, revert,
           pc' \notin {"content", "blanks"}, size \in Nat
    PROVE  /\ SavedInv'
           /\ position' \in 0 .. size /\ start_position' \in 0 .. size
           /\ start_position' <= position'
<1>. DEFINE s == saved_text_cursors
<1>1. s \in Seq(SavedTextCursor) /\ SavedTextCursor' = SavedTextCursor
  BY DEF SavedInv, SavedTextCursor, size
<1>2. PICK n \in Nat : Len(s) = n + 1 /\ Len(s) - 1 = n
  <2>1. Len(s) \in Nat /\ Len(s) > 0
    BY <1>1
  <2>2. Len(s) - 1 \in Nat /\ Len(s) = (Len(s) - 1) + 1
    BY <2>1
  <2>. QED
    BY <2>2
<1>3. \A i \in 1 .. n + 1 : s[i].start_position <= s[i].position
  BY <1>2 DEF SavedInv
<1>4. /\ position' = s[n + 1].position
      /\ start_position' = s[n + 1].start_position
      /\ saved_text_cursors' = SubSeq(s, 1, n)
  BY <1>2 DEF revert
<1>. HIDE DEF s
<1>5. /\ s[n + 1] \in SavedTextCursor
      /\ saved_text_cursors' \in Seq(SavedTextCursor)
      /\ Len(saved_text_cursors') = n
      /\ \A i \in 1 .. n : saved_text_cursors'[i] = s[i]
  BY <1>1, <1>2, <1>4, Shortened
<1>6. \A i \in 1 .. n :
         saved_text_cursors'[i].start_position <= saved_text_cursors'[i].position
  BY <1>3, <1>5
<1>7. position' \in 0 .. size /\ start_position' \in 0 .. size /\ start_position' <= position'
  BY <1>3, <1>4, <1>5 DEF SavedTextCursor
<1>. QED
  BY <1>1, <1>5, <1>6, <1>7 DEF SavedInv

\* Nothing is saved or reverted.
LEMMA StackKept ==
    ASSUME SavedInv, UNCHANGED <<text, saved_text_cursors>>,
           pc' \in {"content", "blanks"} => pc \in {"content", "blanks"}
    PROVE  SavedInv'
BY DEF SavedInv, SavedTextCursor, size

-----------------------------------------------------------------------------
(* The steps *)

\* The invariant holds initially.
LEMMA InitInv == Init => ParserInv
<1>. SUFFICES ASSUME Init PROVE ParserInv
  OBVIOUS
<1>1. text \in Seq(Char) /\ size \in Nat
  BY ParserAssumption DEF Init, size
<1>2. CursorInv
  BY <1>1 DEF Init, CursorInv, SavedInv, Unchecked
<1>3. ValueInv
  BY NullIsGood DEF Init, ValueInv, Method, Header, Good
<1>. QED
  BY <1>1, <1>2, <1>3 DEF ParserInv, Init, Phase

\* The facts that every step starts from.
LEMMA Given ==
    ASSUME ParserInv, UNCHANGED text
    PROVE  /\ size \in Nat /\ size' = size /\ text' \in Seq(Char)
           /\ position \in Nat /\ start_position \in Nat /\ start_position <= size
           /\ pc \notin Unchecked => position <= size /\ start_position <= position
           /\ SavedInv /\ ValueInv
BY DEF ParserInv, CursorInv, size, Unchecked

\* scan_expected moves the cursor by a character, and into the text when it
\* was behind it.
LEMMA ExpectedStep ==
    ASSUME ParserInv, UNCHANGED text, NEW at, NEW ch, NEW next,
           at \in Phase \ {"method", "thrown", "content", "blanks"},
           next \in Phase \ {"method", "content", "blanks"},
           scan_expected(at, ch, next)
    PROVE  pc' \in Phase /\ CursorInv'
<1>1. SavedInv'
  BY Given, StackKept DEF scan_expected, increment_position, Phase
<1>2. start_position <= position
  BY DEF ParserInv, CursorInv, scan_expected, Phase
<1>. QED
  BY Given, <1>1, <1>2 DEF scan_expected, increment_position, CursorInv, Phase, Unchecked

\* Every step of the parser keeps the invariant.
LEMMA NextInv == ParserInv /\ [Next]_vars => ParserInv'
<1>. SUFFICES ASSUME ParserInv, [Next]_vars PROVE ParserInv'
  OBVIOUS
<1>. DEFINE Result == pc' \in Phase /\ CursorInv' /\ ValueInv'
<1>0. SUFFICES Result /\ UNCHANGED text
  BY Given DEF ParserInv
<1>1. CASE scan_method
  <2>1. position' \in Nat /\ method' \in Method
    BY <1>1 DEF scan_method, Methods, MethodsWithP, Method
  <2>2. SavedInv' /\ ValueInv'
    BY <1>1, <2>1, Given, StackKept, NamesKept DEF scan_method, ValueInv, headerVars
  <2>3. start_position = 0
    BY <1>1 DEF ParserInv, CursorInv, scan_method
  <2>. QED
    BY <1>1, <2>1, <2>2, <2>3, Given DEF scan_method, CursorInv, Unchecked, Phase
<1>2. CASE ExpectCharacter
  <2>1. ValueInv'
    BY <1>2, Given, ValuesKept DEF ExpectCharacter
  <2>2. pc' \in Phase /\ CursorInv'
    BY <1>2, ExpectedStep DEF ExpectCharacter, Phase
  <2>. QED
    BY <1>2, <2>1, <2>2 DEF ExpectCharacter
<1>3. CASE BeginPath
  <2>1. SavedInv' /\ ValueInv'
    BY <1>3, Given, StackKept, ValuesKept DEF BeginPath, increment_position
  <2>. QED
    BY <1>3, <2>1, Given DEF BeginPath, increment_position, set_token_start_position, CursorInv,
                             Unchecked, Phase
<1>4. ASSUME NEW at \in {"path_rest", "query_rest"}, NEW more, ScanTarget(at, more)
      PROVE  Result /\ UNCHANGED text
  <2>1. SavedInv' /\ ValueInv'
    BY <1>4, Given, StackKept, ValuesKept DEF ScanTarget, increment_position
  <2>. QED
    BY <1>4, <2>1, Given DEF ScanTarget, increment_position, CursorInv, Unchecked, Phase
<1>5. ASSUME NEW a \in {"path_rest", "query_rest"}, NEW b \in {"path_hex_1", "query_hex_1"},
             NEW c \in {"path_hex_2", "query_hex_2"}, ScanPercent(<<a, b, c>>)
      PROVE  Result /\ UNCHANGED text
  <2>1. /\ pc \in {a, b, c} /\ pc' \in {a, b, c, "thrown"}
        /\ \/ position < size /\ position' = position + 1
           \/ pc' = "thrown" /\ position' = position
        /\ UNCHANGED <<text, start_position, saved_text_cursors>>
        /\ UNCHANGED requestVars /\ UNCHANGED headerVars
    BY <1>5 DEF ScanPercent, increment_position
  <2>2. SavedInv' /\ ValueInv'
    BY <1>5, <2>1, Given, StackKept, ValuesKept
  <2>. QED
    BY <1>5, <2>1, <2>2, Given DEF CursorInv, Unchecked, Phase
<1>6. CASE EndPath
  <2>1. start_position \in Nat /\ position \in 0 .. size /\ start_position <= position
    BY <1>6, Given DEF EndPath, Unchecked
  <2>2. Good(path')
    BY <1>6, <2>1, TokenIsGood, Given DEF EndPath, get_token_value, Good, InText
  <2>3. ValueInv'
    BY <1>6, <2>2, Given DEF EndPath, ValueInv, headerVars, Good, InText
  <2>4. SavedInv'
    BY <1>6, <2>1, Given, Pushed, StackKept DEF EndPath, save, increment_position,
       set_token_start_position
  <2>. QED
    BY <1>6, <2>1, <2>3, <2>4, Given DEF EndPath, increment_position, set_token_start_position,
                                         CursorInv, Unchecked, Phase
<1>7. CASE EndQuery
  <2>1. start_position \in Nat /\ position \in 0 .. size /\ start_position <= position
    BY <1>7, Given DEF EndQuery, Unchecked
  <2>2. Good(query')
    BY <1>7, <2>1, TokenIsGood, Given DEF EndQuery, get_token_value, Good, InText
  <2>3. ValueInv' /\ SavedInv'
    BY <1>7, <2>2, Given, StackKept DEF EndQuery, ValueInv, headerVars, cursorVars, Good, InText
  <2>. QED
    BY <1>7, <2>1, <2>3, Given DEF EndQuery, cursorVars, CursorInv, Unchecked, Phase
<1>8. CASE scan_http_version
  <2>1. SavedInv' /\ ValueInv'
    BY <1>8, Given, StackKept, ValuesKept DEF scan_http_version
  <2>. QED
    BY <1>8, <2>1, Given DEF scan_http_version, CursorInv, Unchecked, Phase
<1>9. CASE BeginHeader
  <2>1. position \in 0 .. size /\ start_position \in 0 .. size
    BY <1>9, Given DEF BeginHeader, Unchecked
  <2>2. SavedInv' /\ ValueInv'
    BY <1>9, <2>1, Given, Pushed, StackKept, ValuesKept DEF BeginHeader, increment_position, Unchecked
  <2>. QED
    BY <1>9, <2>1, <2>2, Given DEF BeginHeader, increment_position, set_token_start_position,
                                   CursorInv, Unchecked, Phase
<1>10. CASE ScanName
  <2>1. header' \in Header
    BY <1>10, Given DEF ScanName, get_header, Header, ValueInv
  <2>2. SavedInv' /\ ValueInv'
    BY <1>10, <2>1, Given, StackKept, NamesKept DEF ScanName, increment_position, requestVars, ValueInv
  <2>. QED
    BY <1>10, <2>2, Given DEF ScanName, increment_position, CursorInv, Unchecked, Phase
<1>11. CASE SkipSpaceBefore
  <2>1. position \in 0 .. size /\ start_position \in 0 .. size /\ start_position <= position
    BY <1>11, Given DEF SkipSpaceBefore, Unchecked
  <2>2. SavedInv' /\ ValueInv'
    BY <1>11, <2>1, Given, Pushed, StackKept, ValuesKept
       DEF SkipSpaceBefore, scan_optional, increment_position
  <2>. QED
    BY <1>11, <2>1, <2>2, Given DEF SkipSpaceBefore, scan_optional, increment_position, CursorInv,
                                    Unchecked, Phase
<1>12. CASE BeginFieldContent
  <2>1. position \in 0 .. size /\ start_position \in 0 .. size /\ start_position <= position
    BY <1>12, Given DEF BeginFieldContent, Unchecked
  <2>2. SavedInv' /\ ValueInv'
    BY <1>12, <2>1, Given, Pushed, StackKept, ValuesKept DEF BeginFieldContent, increment_position
  <2>. QED
    BY <1>12, <2>1, <2>2, Given DEF BeginFieldContent, increment_position, CursorInv, Unchecked, Phase
<1>13. CASE ScanFieldContent
  <2>1. SavedInv' /\ ValueInv'
    BY <1>13, Given, StackKept, ValuesKept DEF ScanFieldContent, increment_position
  <2>. QED
    BY <1>13, <2>1, Given DEF ScanFieldContent, increment_position, CursorInv, Unchecked, Phase
<1>14. CASE ScanBlanks
  <2>1. ValueInv' /\ Len(saved_text_cursors) > 0
    BY <1>14, Given, ValuesKept DEF ScanBlanks, SavedInv
  <2>2. CASE revert /\ pc' = "value_end"
    <3>1. /\ SavedInv'
          /\ position' \in 0 .. size /\ start_position' \in 0 .. size /\ start_position' <= position'
      BY <1>14, <2>1, <2>2, Given, Popped DEF ScanBlanks
    <3>. QED
      BY <1>14, <2>1, <2>2, <3>1, Given DEF ScanBlanks, CursorInv, Phase
  <2>3. CASE ~ (revert /\ pc' = "value_end")
    <3>1. SavedInv'
      BY <1>14, <2>3, Given, StackKept DEF ScanBlanks, increment_position
    <3>. QED
      BY <1>14, <2>1, <2>3, <3>1, Given DEF ScanBlanks, increment_position, CursorInv, Unchecked, Phase
  <2>. QED
    BY <2>2, <2>3
<1>15. CASE EndValue
  <2>1. start_position \in 0 .. size /\ position \in 0 .. size /\ start_position <= position
    BY <1>15, Given DEF EndValue, Unchecked
  <2>2. Good(current_header')
    BY <1>15, <2>1, TokenIsGood, Given DEF EndValue, get_token_value, Good, InText
  <2>3. ValueInv'
    BY <1>15, <2>2, Given DEF EndValue, ValueInv, requestVars, Good, InText
  <2>4. SavedInv'
    BY <1>15, <2>1, Given, Pushed, StackKept DEF EndValue, scan_optional, increment_position
  <2>. QED
    BY <1>15, <2>1, <2>3, <2>4, Given DEF EndValue, scan_optional, increment_position, CursorInv,
                                         Unchecked, Phase
<1>16. CASE EndHeader
  <2>1. pc' \in Phase /\ CursorInv'
    BY <1>16, ExpectedStep DEF EndHeader, Phase
  <2>2. headers' = headers \/ headers' = [headers EXCEPT ![header] = current_header]
    BY <1>16 DEF EndHeader
  <2>3. headers' \in [Header -> Spans] /\ \A h \in Header : InText(headers'[h])
    <3>1. ValueInv
      BY DEF ParserInv
    <3>. QED
      BY <2>2, <3>1 DEF ValueInv, Good
  <2>4. ValueInv'
    BY <1>16, <2>3, Given DEF EndHeader, ValueInv, headerVars, Good, InText
  <2>. QED
    BY <1>16, <2>1, <2>4 DEF EndHeader
<1>17. CASE parse_body
  <2>1. start_position \in 0 .. size /\ position \in 0 .. size /\ start_position <= position
    BY <1>17, Given DEF parse_body, Unchecked
  <2>2. \/ position' = position /\ body' = body /\ start_position' = start_position
        \/ \E length \in 0 .. UIntMax :
              /\ position' = BodyEnd(length)
              /\ start_position' = position
              /\ body' = Span(position, BodyEnd(length))
    BY <1>17 DEF parse_body, set_token_start_position
  <2>3. \A length \in 0 .. UIntMax : BodyEnd(length) \in position .. size
    <3>1. size \in Nat
      BY <1>17, Given DEF parse_body
    <3>. QED
      BY <2>1, <3>1, ParserAssumption DEF BodyEnd
  <2>4. /\ position' \in Nat /\ start_position' \in 0 .. size
        /\ start_position' <= position' /\ position' <= size
    BY <1>17, <2>1, <2>2, <2>3, Given DEF parse_body
  <2>5. Good(body')
    <3>1. CASE body' = body
      BY <1>17, <3>1, Given DEF parse_body, ValueInv, Good, InText
    <3>2. CASE body' # body
      <4>1. PICK length \in 0 .. UIntMax : body' = Span(position, BodyEnd(length))
        BY <2>2, <3>2
      <4>. QED
        BY <1>17, <4>1, <2>1, <2>3, TokenIsGood, Given DEF parse_body, Good, InText
    <3>. QED
      BY <3>1, <3>2
  <2>6. ValueInv' /\ SavedInv'
    BY <1>17, <2>5, Given, StackKept DEF parse_body, ValueInv, headerVars, Good, InText
  <2>. QED
    BY <1>17, <2>4, <2>6, Given DEF parse_body, CursorInv, Phase
<1>18. CASE UNCHANGED vars
  <2>1. UNCHANGED <<text, saved_text_cursors, position, start_position, pc>>
        /\ UNCHANGED requestVars /\ UNCHANGED headerVars
    BY <1>18 DEF vars, cursorVars
  <2>. QED
    BY <2>1, Given, StackKept, ValuesKept DEF ParserInv, CursorInv
<1>. QED
  BY <1>1, <1>2, <1>3, <1>4, <1>5, <1>6, <1>7, <1>8, <1>9, <1>10, <1>11, <1>12, <1>13, <1>14,
     <1>15, <1>16, <1>17, <1>18 DEF Next

-----------------------------------------------------------------------------
(* The headers as the request writes them.  No step changes the text, so   *)
(* what it holds is said of a text t and not of the variable: such a fact  *)
(* is the same before and after a step.                                    *)

CharAt(t, p) == t[p + 1]
LineEnd(t, p) == p + 1 < Len(t) /\ CharAt(t, p) = "cr" /\ CharAt(t, p + 1) = "nl"

\* A header name from r up to n, as far as it has been scanned.
NameText(t, r, n) ==
    /\ r <= n /\ n <= Len(t)
    /\ r < Len(t) => CharAt(t, r) \in Letter
    /\ \A k \in r .. n - 1 : CharAt(t, k) \in Letter \cup {"dash"}

\* A header line from r up to n, with its colon at c and no end of it before n.
LineText(t, r, c, n) ==
    /\ NameText(t, r, c) /\ c < n /\ n <= Len(t)
    /\ CharAt(t, c) = "colon"
    /\ \A k \in c + 1 .. n - 1 : CharAt(t, k) # "cr"

HeaderLine(t, r, c, e) == LineText(t, r, c, e) /\ LineEnd(t, e)

\* The header of the name from r up to c.
Lowered(t, r, c) == [i \in 1 .. c - r |-> IF t[r + i] \in Upper THEN "l" ELSE t[r + i]]
HeaderOf(t, r, c) == get_header(Lowered(t, r, c))

\* The value between a colon at c and the end of the line at e.
ValueStart(t, c) == IF CharAt(t, c + 1) = "sp" THEN c + 2 ELSE c + 1
Trimmed(t, c, e) ==
    Span(ValueStart(t, c), IF ValueStart(t, c) < e /\ CharAt(t, e - 1) = "sp" THEN e - 1 ELSE e)

\* Where a line begins, behind a request line whose target ends at q.
LineBegins(t, q, r) == q + 11 <= r /\ LineEnd(t, r - 2)

\* The lines before p, where one begins: all of them are headers.
HeadText(t, q, p) ==
    /\ LineBegins(t, q, p) /\ p <= Len(t)
    /\ \A r \in q + 9 .. p - 3 : ~ (LineEnd(t, r) /\ LineEnd(t, r + 2))
    /\ \A r \in q + 11 .. p - 1 :
          LineBegins(t, q, r) => \E c, e \in 0 .. Len(t) : HeaderLine(t, r, c, e)

\* The line at r has the header h.
HasHeader(t, r, h) ==
    \E c, e \in 0 .. Len(t) : HeaderLine(t, r, c, e) /\ HeaderOf(t, r, c) = h

\* The value of h is that of its last line before p, or null if it has none.
NoLine(t, q, h, from, p) ==
    \A r \in from .. p - 1 : LineBegins(t, q, r) => ~ HasHeader(t, r, h)
LastLine(t, q, h, value, r, p) ==
    /\ LineBegins(t, q, r) /\ NoLine(t, q, h, r + 1, p)
    /\ \E c, e \in 0 .. Len(t) :
          HeaderLine(t, r, c, e) /\ HeaderOf(t, r, c) = h /\ value = Trimmed(t, c, e)
Entered(t, q, hs, p) ==
    \A h \in Header :
        \/ hs[h] = Null /\ NoLine(t, q, h, q + 11, p)
        \/ \E r \in q + 11 .. p - 1 : LastLine(t, q, h, hs[h], r, p)

HeadTo(t, q, hs, p) == HeadText(t, q, p) /\ Entered(t, q, hs, p)

-----------------------------------------------------------------------------
(* What each call of scan_header has found when it is entered *)

\* The request line has been left at the same distance from the target.
RequestLineInv ==
    /\ pc = "space_2" => position = query.to
    /\ pc = "version" => position = query.to + 1
    /\ pc = "cr_1" => position = query.to + 9
    /\ pc = "nl_1" => position = query.to + 10 /\ CharAt(text, position - 1) = "cr"

InHead == {"header", "name", "colon", "space_3", "value", "content", "blanks", "value_end",
           "cr_2", "nl_2", "nl_3", "body", "parsed", "thrown"}

NothingYet ==
    /\ pc # "parsed" => body = Null
    /\ pc \notin InHead => \A h \in Header : headers[h] = Null

NameInv ==
    pc \in {"name", "colon"} =>
        /\ HeadTo(text, query.to, headers, start_position)
        /\ NameText(text, start_position, position)
        /\ pc = "colon" => header = HeaderOf(text, start_position, position)

\* The cursor that revert goes back to is at a character of the value.
ContentInv ==
    LET top == saved_text_cursors[Len(saved_text_cursors)]
    IN  /\ top.start_position = start_position
        /\ start_position <= top.position /\ top.position < position
        /\ is_vchar(CharAt(text, top.position))
        /\ pc = "content" => top.position = position - 1

\* The value from its start up to the position, behind a colon at c.
ValueScanned(c) ==
    /\ pc \in {"value", "content", "blanks", "value_end"} =>
          /\ c < start_position /\ start_position <= position
          /\ c + 1 < size => start_position = ValueStart(text, c)
    /\ pc = "value" => position = start_position \/ is_vchar(CharAt(text, position - 1))
    /\ pc \in {"content", "blanks"} => ContentInv
    /\ pc = "value_end" =>
          /\ position < size
          /\ \/ is_vchar(CharAt(text, position))
             \/ position = start_position \/ is_vchar(CharAt(text, position - 1))
    /\ pc = "cr_2" /\ position < size /\ CharAt(text, position) = "cr" =>
          current_header = Trimmed(text, c, position)
    /\ pc = "nl_2" =>
          CharAt(text, position - 1) = "cr" /\ current_header = Trimmed(text, c, position - 1)

InValue == {"space_3", "value", "content", "blanks", "value_end", "cr_2", "nl_2"}

\* The end of the line so far, which nl_2 has seen the first character of.
Scanned == IF pc = "nl_2" THEN position - 1 ELSE position

LineOf(r, c) ==
    /\ HeadTo(text, query.to, headers, r)
    /\ LineText(text, r, c, Scanned)
    /\ header = HeaderOf(text, r, c)
    /\ pc = "space_3" => c = position - 1
    /\ ValueScanned(c)

LineInv == pc \in InValue => \E r, c \in 0 .. size : LineOf(r, c)

\* The body of a request whose head ends before p, at the empty line.
BodyFrom(p) ==
    IF method = "Get" \/ headers[ContentLength] = Null THEN body = Null
    ELSE LET declared == atoll(Value(headers[ContentLength]))
         IN  declared \in 0 .. UIntMax =>
                 body = Span(p + 2, IF declared < size - (p + 2) THEN p + 2 + declared ELSE size)

HeadInv ==
    /\ pc = "header" => HeadTo(text, query.to, headers, position)
    /\ pc = "nl_3" =>
          HeadTo(text, query.to, headers, position - 1) /\ CharAt(text, position - 1) = "cr"
    /\ pc = "body" => HeadTo(text, query.to, headers, position - 2) /\ LineEnd(text, position - 2)
    /\ pc = "parsed" =>
          \E p \in 0 .. size :
              HeadTo(text, query.to, headers, p) /\ LineEnd(text, p) /\ BodyFrom(p)

WrittenInv == RequestLineInv /\ NothingYet /\ NameInv /\ LineInv /\ HeadInv

-----------------------------------------------------------------------------
(* Facts about a text *)

\* A header line has no end of a line before its own.
LEMMA NoBreakInside ==
    ASSUME NEW t \in Seq(Char), NEW r \in Nat, NEW c \in Nat, NEW n \in Nat, LineText(t, r, c, n),
           NEW k \in r .. n - 1
    PROVE  CharAt(t, k) # "cr"
<1>1. CASE k < c
  BY <1>1 DEF LineText, NameText, Letter, Upper
<1>2. CASE k = c
  BY <1>2 DEF LineText
<1>3. CASE k > c
  BY <1>3 DEF LineText
<1>. QED
  BY <1>1, <1>2, <1>3

\* The first character of a line is a letter, and its colon lies behind it.
LEMMA FirstIsLetter ==
    ASSUME NEW t \in Seq(Char), NEW r \in Nat, NEW c \in Nat, NEW n \in Nat, LineText(t, r, c, n)
    PROVE  CharAt(t, r) \in Letter /\ r < c /\ c < n /\ n <= Len(t)
BY DEF LineText, NameText, Letter, Upper

\* A line has one colon that ends its name, and one end.
LEMMA LineIsUnique ==
    ASSUME NEW t \in Seq(Char), NEW r \in Nat, NEW c \in Nat, NEW e \in Nat, HeaderLine(t, r, c, e),
           NEW d \in Nat, NEW f \in Nat, HeaderLine(t, r, d, f)
    PROVE  c = d /\ e = f
<1>1. c = d
  BY DEF HeaderLine, LineText, NameText, Letter, Upper
<1>2. CharAt(t, e) = "cr" /\ CharAt(t, f) = "cr"
  BY DEF HeaderLine, LineEnd
<1>3. ~ (e < f) /\ ~ (f < e)
  BY <1>2, NoBreakInside, FirstIsLetter DEF HeaderLine
<1>. QED
  BY <1>1, <1>3

\* Behind a header line the next line begins, and none before it.
LEMMA NextLineBegins ==
    ASSUME NEW t \in Seq(Char), NEW q \in Nat, NEW r \in Nat, NEW c \in Nat, NEW e \in Nat,
           HeaderLine(t, r, c, e), LineBegins(t, q, r)
    PROVE  /\ LineBegins(t, q, e + 2) /\ e + 2 <= Len(t) /\ r < e
           /\ \A k \in r + 1 .. e + 1 : ~ LineBegins(t, q, k)
<1>1. r < e /\ e + 1 < Len(t) /\ Len(t) \in Nat
  BY FirstIsLetter DEF HeaderLine, LineEnd
<1>2. LineBegins(t, q, e + 2)
  <2>1. q + 11 <= e + 2 /\ (e + 2) - 2 = e
    BY <1>1 DEF LineBegins
  <2>. QED
    BY <2>1 DEF LineBegins, HeaderLine
<1>3. ASSUME NEW k \in r + 1 .. e + 1, LineBegins(t, q, k) PROVE FALSE
  <2>1. LineEnd(t, k - 2)
    BY <1>3 DEF LineBegins
  <2>2. CASE k = r + 1
    <3>1. k - 2 = r - 1 /\ r - 1 = (r - 2) + 1
      BY <2>2
    <3>2. CharAt(t, r - 1) = "nl"
      BY <3>1 DEF LineBegins, LineEnd
    <3>. QED
      BY <2>1, <3>1, <3>2 DEF LineEnd
  <2>3. CASE k # r + 1
    <3>1. k - 2 \in r .. e - 1
      BY <2>3, <1>1
    <3>. QED
      BY <2>1, <3>1, NoBreakInside DEF LineEnd, HeaderLine
  <2>. QED
    BY <2>2, <2>3
<1>. QED
  BY <1>1, <1>2, <1>3

\* The lines before p, and one more.
LEMMA HeadTextGrows ==
    ASSUME NEW t \in Seq(Char), NEW q \in Nat, NEW r \in Nat, NEW c \in Nat, NEW e \in Nat,
           HeadText(t, q, r), HeaderLine(t, r, c, e)
    PROVE  HeadText(t, q, e + 2)
<1>1. LineBegins(t, q, r)
  BY DEF HeadText
<1>2. /\ LineBegins(t, q, e + 2) /\ e + 2 <= Len(t) /\ r < e
      /\ \A k \in r + 1 .. e + 1 : ~ LineBegins(t, q, k)
  BY <1>1, NextLineBegins
<1>3. ASSUME NEW k \in q + 9 .. (e + 2) - 3, LineEnd(t, k), LineEnd(t, k + 2) PROVE FALSE
  <2>1. k <= r - 3 \/ k = r - 2 \/ k \in (r + 1) - 2 .. (e + 1) - 2
    BY <1>2
  <2>2. CASE k <= r - 3
    BY <1>3, <2>2 DEF HeadText
  <2>3. CASE k = r - 2
    <3>1. k + 2 = r
      BY <2>3
    <3>. QED
      BY <1>3, <3>1, FirstIsLetter DEF HeaderLine, LineEnd, Letter, Upper
  <2>4. CASE k \in (r + 1) - 2 .. (e + 1) - 2
    <3>1. k + 2 \in r + 1 .. e + 1 /\ (k + 2) - 2 = k
      BY <2>4
    <3>2. q + 11 <= k + 2
      OBVIOUS
    <3>. QED
      BY <1>2, <1>3, <3>1, <3>2 DEF LineBegins
  <2>. QED
    BY <2>1, <2>2, <2>3, <2>4
<1>4. ASSUME NEW k \in q + 11 .. (e + 2) - 1, LineBegins(t, q, k)
      PROVE  \E d, f \in 0 .. Len(t) : HeaderLine(t, k, d, f)
  <2>1. k <= r - 1 \/ k = r
    BY <1>2, <1>4
  <2>2. CASE k <= r - 1
    BY <1>4, <2>2 DEF HeadText
  <2>3. CASE k = r
    BY <2>3, FirstIsLetter DEF HeaderLine
  <2>. QED
    BY <2>1, <2>2, <2>3
<1>. QED
  BY <1>2, <1>3, <1>4 DEF HeadText

\* parse_headers enters the value of a line under its header.
LEMMA EnteredGrows ==
    ASSUME NEW t \in Seq(Char), NEW q \in Nat, NEW r \in Nat, NEW c \in Nat, NEW e \in Nat,
           NEW hs \in [Header -> Spans], NEW new,
           LineBegins(t, q, r), HeaderLine(t, r, c, e), Entered(t, q, hs, r),
           new = [hs EXCEPT ![HeaderOf(t, r, c)] = Trimmed(t, c, e)]
    PROVE  Entered(t, q, new, e + 2)
<1>1. r < e /\ \A k \in r + 1 .. e + 1 : ~ LineBegins(t, q, k)
  BY NextLineBegins
<1>2. c \in 0 .. Len(t) /\ e \in 0 .. Len(t) /\ r >= q + 11
  BY FirstIsLetter DEF HeaderLine, LineBegins
<1>3. ASSUME NEW h \in Header, h # HeaderOf(t, r, c) PROVE ~ HasHeader(t, r, h)
  BY <1>3, LineIsUnique DEF HasHeader
<1>4. ASSUME NEW h \in Header, h # HeaderOf(t, r, c), NEW from \in Nat, NoLine(t, q, h, from, r)
      PROVE  NoLine(t, q, h, from, e + 2)
  <2>1. SUFFICES ASSUME NEW k \in from .. (e + 2) - 1, LineBegins(t, q, k)
                 PROVE  ~ HasHeader(t, k, h)
    BY DEF NoLine
  <2>2. k \in from .. r - 1 \/ k = r
    BY <1>1, <2>1
  <2>. QED
    BY <2>1, <2>2, <1>3, <1>4 DEF NoLine
<1>5. SUFFICES ASSUME NEW h \in Header
               PROVE  \/ new[h] = Null /\ NoLine(t, q, h, q + 11, e + 2)
                      \/ \E k \in q + 11 .. (e + 2) - 1 : LastLine(t, q, h, new[h], k, e + 2)
  BY DEF Entered
<1>6. CASE h = HeaderOf(t, r, c)
  <2>1. new[h] = Trimmed(t, c, e)
    BY <1>6
  <2>2. NoLine(t, q, h, r + 1, e + 2)
    BY <1>1 DEF NoLine
  <2>3. LastLine(t, q, h, new[h], r, e + 2)
    BY <1>2, <1>6, <2>1, <2>2 DEF LastLine
  <2>. QED
    BY <2>3, <1>1, <1>2
<1>7. CASE h # HeaderOf(t, r, c)
  <2>1. new[h] = hs[h]
    BY <1>7
  <2>2. CASE hs[h] = Null /\ NoLine(t, q, h, q + 11, r)
    BY <2>1, <2>2, <1>4, <1>7
  <2>3. CASE \E k \in q + 11 .. r - 1 : LastLine(t, q, h, hs[h], k, r)
    <3>1. PICK k \in q + 11 .. r - 1 : LastLine(t, q, h, hs[h], k, r)
      BY <2>3
    <3>2. NoLine(t, q, h, k + 1, e + 2)
      BY <3>1, <1>4, <1>7 DEF LastLine
    <3>3. LastLine(t, q, h, new[h], k, e + 2)
      BY <2>1, <3>1, <3>2 DEF LastLine
    <3>4. k \in q + 11 .. (e + 2) - 1
      BY <1>1
    <3>. QED
      BY <3>3, <3>4
  <2>. QED
    BY <2>2, <2>3 DEF Entered
<1>. QED
  BY <1>6, <1>7

\* Both together.
LEMMA HeadGrows ==
    ASSUME NEW t \in Seq(Char), NEW q \in Nat, NEW r \in Nat, NEW c \in Nat, NEW e \in Nat,
           NEW hs \in [Header -> Spans], NEW new,
           HeadTo(t, q, hs, r), HeaderLine(t, r, c, e),
           new = [hs EXCEPT ![HeaderOf(t, r, c)] = Trimmed(t, c, e)]
    PROVE  HeadTo(t, q, new, e + 2)
BY HeadTextGrows, EnteredGrows DEF HeadTo, HeadText

\* Behind the request line nothing has been entered.
LEMMA HeadBegins ==
    ASSUME NEW t \in Seq(Char), NEW q \in Nat, NEW hs, LineEnd(t, q + 9),
           \A h \in Header : hs[h] = Null
    PROVE  HeadTo(t, q, hs, q + 11)
<1>1. (q + 11) - 2 = q + 9 /\ (q + 9) + 1 < Len(t) /\ Len(t) \in Nat
  BY DEF LineEnd
<1>2. LineBegins(t, q, q + 11) /\ q + 11 <= Len(t)
  BY <1>1 DEF LineBegins
<1>. QED
  BY <1>1, <1>2 DEF HeadTo, HeadText, Entered, NoLine

\* The same facts with the names of the specification.
LEMMA BreakIsLineEnd ==
    ASSUME NEW k
    PROVE  Break(k) = LineEnd(text, k)
BY DEF Break, LineEnd, At, CharAt, size

\* The first position of a character is the one with none before it.
LEMMA FirstIs ==
    ASSUME text \in Seq(Char), NEW p \in Nat, NEW ch, NEW n \in p .. size - 1, CharAt(text, n) = ch,
           \A k \in p .. n - 1 : CharAt(text, k) # ch
    PROVE  First(p, ch) = n
<1>. DEFINE P(i) == At(i) = ch /\ \A j \in p .. i - 1 : At(j) # ch
<1>1. size \in Nat
  BY DEF size
<1>2. P(n)
  BY DEF At, CharAt
<1>3. ASSUME NEW i \in p .. size - 1, P(i) PROVE i = n
  <2>1. ~ (i < n) /\ ~ (n < i)
    BY <1>1, <1>2, <1>3
  <2>. QED
    BY <1>1, <2>1
<1>4. First(p, ch) = CHOOSE i \in p .. size - 1 : P(i)
  BY DEF First
<1>. HIDE DEF P
<1>. QED
  BY <1>2, <1>3, <1>4

\* The name and the value that the specification finds in a header line.
LEMMA LineAsWritten ==
    ASSUME text \in Seq(Char), NEW r \in Nat, NEW c \in Nat, NEW e \in Nat,
           HeaderLine(text, r, c, e)
    PROVE  /\ get_header(lower_cased(NameOf(r))) = HeaderOf(text, r, c)
           /\ ValueIn(r) = Trimmed(text, c, e)
<1>1. r < c /\ c < e /\ e < size /\ size \in Nat
  BY FirstIsLetter DEF HeaderLine, LineEnd, size
<1>2. First(r, "colon") = c
  <2>1. CharAt(text, c) = "colon" /\ \A k \in r .. c - 1 : CharAt(text, k) # "colon"
    BY DEF HeaderLine, LineText, NameText, Letter, Upper
  <2>. QED
    BY <1>1, <2>1, FirstIs
<1>3. First(r, "cr") = e
  <2>1. CharAt(text, e) = "cr" /\ \A k \in r .. e - 1 : CharAt(text, k) # "cr"
    BY NoBreakInside DEF HeaderLine, LineEnd
  <2>. QED
    BY <1>1, <2>1, FirstIs
<1>4. NameOf(r) = Span(r, c)
  BY <1>2 DEF NameOf
<1>5. lower_cased(Span(r, c)) = Lowered(text, r, c)
  BY DEF lower_cased, Lowered, Span
<1>6. get_header(lower_cased(NameOf(r))) = HeaderOf(text, r, c)
  BY <1>4, <1>5 DEF HeaderOf
<1>7. ValueIn(r) = Trimmed(text, c, e)
  BY <1>2, <1>3 DEF ValueIn, Trimmed, ValueStart, At, CharAt
<1>. QED
  BY <1>6, <1>7

\* The head ends with the line before the first empty one.
LEMMA HeadEndIs ==
    ASSUME text \in Seq(Char), query.to \in Nat, NEW p \in Nat, HeadText(text, query.to, p),
           LineEnd(text, p)
    PROVE  HeadEnd = p - 2
<1>. DEFINE q == query.to
            P(k) == /\ Break(k) /\ Break(k + 2)
                    /\ \A r \in q + 9 .. k - 1 : ~ (Break(r) /\ Break(r + 2))
<1>1. size \in Nat /\ size = Len(text)
  BY DEF size
<1>2. q \in Nat
  OBVIOUS
<1>3. HeadEnd = CHOOSE k \in q + 9 .. size : P(k)
  BY DEF HeadEnd
<1>. HIDE DEF q
<1>4. q + 11 <= p /\ p <= size /\ LineEnd(text, p - 2) /\ (p - 2) + 2 = p
  BY <1>1 DEF HeadText, LineBegins, q
<1>5. \A r \in q + 9 .. p - 3 : ~ (Break(r) /\ Break(r + 2))
  BY BreakIsLineEnd DEF HeadText, q
<1>6. P(p - 2)
  <2>1. Break(p - 2) /\ Break((p - 2) + 2)
    BY <1>4, BreakIsLineEnd
  <2>. QED
    BY <2>1, <1>5
<1>7. ASSUME NEW k \in q + 9 .. size, P(k) PROVE k = p - 2
  <2>1. ~ (k < p - 2)
    BY <1>2, <1>5, <1>7
  <2>2. ~ (p - 2 < k)
    BY <1>2, <1>4, <1>6, <1>7
  <2>. QED
    BY <1>1, <1>2, <2>1, <2>2
<1>8. p - 2 \in q + 9 .. size
  BY <1>1, <1>2, <1>4
<1>. HIDE DEF P
<1>. QED
  BY <1>3, <1>6, <1>7, <1>8

\* The lines of the specification are those that parse_headers has read.
LEMMA LinesAre ==
    ASSUME text \in Seq(Char), query.to \in Nat, NEW p \in Nat, HeadText(text, query.to, p),
           LineEnd(text, p), NEW r
    PROVE  r \in HeaderLines <=> r \in query.to + 11 .. p - 1 /\ LineBegins(text, query.to, r)
<1>1. PICK q \in Nat : q = query.to
  OBVIOUS
<1>2. HeaderLines = {k \in q + 11 .. p - 2 : Break(k - 2)}
  BY <1>1, HeadEndIs DEF HeaderLines
<1>3. r \in HeaderLines <=> r \in q + 11 .. p - 2 /\ LineEnd(text, r - 2)
  BY <1>2, BreakIsLineEnd
<1>4. ASSUME r = p - 1, LineEnd(text, r - 2) PROVE FALSE
  <2>1. r - 2 = p - 3 /\ (p - 3) + 1 = p - 2
    BY <1>4
  <2>2. CharAt(text, p - 2) = "nl"
    BY <1>4, <2>1 DEF LineEnd
  <2>3. CharAt(text, p - 2) = "cr"
    BY DEF HeadText, LineBegins, LineEnd
  <2>. QED
    BY <2>2, <2>3
<1>. QED
  BY <1>1, <1>3, <1>4 DEF LineBegins

\* What has been entered when the empty line is met is what the request says.
LEMMA EnteredAsWritten ==
    ASSUME text \in Seq(Char), query.to \in Nat, NEW p \in Nat,
           HeadTo(text, query.to, headers, p), LineEnd(text, p), NEW h \in Header
    PROVE  LET mine == {r \in HeaderLines : get_header(lower_cased(NameOf(r))) = h}
           IN  \/ mine = {} /\ headers[h] = Null
               \/ \E r \in mine : (\A u \in mine : u <= r) /\ headers[h] = ValueIn(r)
<1>. DEFINE mine == {r \in HeaderLines : get_header(lower_cased(NameOf(r))) = h}
<1>1. PICK q \in Nat : q = query.to
  OBVIOUS
<1>2. HeadText(text, q, p) /\ Entered(text, q, headers, p)
  BY <1>1 DEF HeadTo
<1>3. ASSUME NEW r \in q + 11 .. p - 1, LineBegins(text, q, r)
      PROVE  r \in mine <=> HasHeader(text, r, h)
  <2>1. PICK c \in 0 .. Len(text), e \in 0 .. Len(text) : HeaderLine(text, r, c, e)
    BY <1>2, <1>3 DEF HeadText
  <2>2. c \in Nat /\ e \in Nat /\ r \in Nat
    BY <1>1
  <2>3. get_header(lower_cased(NameOf(r))) = HeaderOf(text, r, c)
    BY <2>1, <2>2, LineAsWritten
  <2>4. r \in HeaderLines
    BY <1>1, <1>2, <1>3, LinesAre
  <2>5. HasHeader(text, r, h) <=> HeaderOf(text, r, c) = h
    BY <2>1, <2>2, LineIsUnique DEF HasHeader
  <2>. QED
    BY <2>3, <2>4, <2>5
<1>4. ASSUME NEW r \in mine PROVE r \in q + 11 .. p - 1 /\ LineBegins(text, q, r)
  BY <1>1, <1>2, <1>4, LinesAre
<1>. HIDE DEF mine
<1>5. CASE headers[h] = Null /\ NoLine(text, q, h, q + 11, p)
  <2>1. ASSUME NEW r \in mine PROVE FALSE
    BY <1>3, <1>4, <1>5, <2>1 DEF NoLine
  <2>. QED
    BY <1>5, <2>1 DEF mine
<1>6. CASE \E r \in q + 11 .. p - 1 : LastLine(text, q, h, headers[h], r, p)
  <2>1. PICK r \in q + 11 .. p - 1 : LastLine(text, q, h, headers[h], r, p)
    BY <1>6
  <2>2. PICK c \in 0 .. Len(text), e \in 0 .. Len(text) :
           HeaderLine(text, r, c, e) /\ HeaderOf(text, r, c) = h /\ headers[h] = Trimmed(text, c, e)
    BY <2>1 DEF LastLine
  <2>3. r \in Nat /\ c \in Nat /\ e \in Nat
    BY <1>1
  <2>4. headers[h] = ValueIn(r)
    BY <2>2, <2>3, LineAsWritten
  <2>5. r \in mine
    BY <1>3, <2>1, <2>2 DEF LastLine, HasHeader
  <2>6. ASSUME NEW u \in mine PROVE u <= r
    <3>1. u \in q + 11 .. p - 1 /\ LineBegins(text, q, u) /\ HasHeader(text, u, h)
      BY <1>3, <1>4
    <3>2. ~ (u \in r + 1 .. p - 1)
      BY <2>1, <3>1 DEF LastLine, NoLine
    <3>. QED
      BY <2>3, <3>1, <3>2
  <2>. QED
    BY <2>4, <2>5, <2>6 DEF mine
<1>. QED
  BY <1>2, <1>5, <1>6 DEF Entered, mine

\* The invariant has both properties in it.
LEMMA WrittenSuffices == ParserInv /\ WrittenInv => HeadersAsWritten /\ BodyAsDeclared
<1>. SUFFICES ASSUME ParserInv, WrittenInv, pc = "parsed" PROVE HeadersAsWritten /\ BodyAsDeclared
  BY DEF HeadersAsWritten, BodyAsDeclared
<1>1. text \in Seq(Char) /\ size \in Nat /\ query.to \in Nat /\ DOMAIN headers = Header
  BY DEF ParserInv, ValueInv, Good, Spans, size
<1>2. PICK p \in 0 .. size :
         HeadTo(text, query.to, headers, p) /\ LineEnd(text, p) /\ BodyFrom(p)
  BY DEF WrittenInv, HeadInv
<1>3. p \in Nat /\ HeadText(text, query.to, p)
  BY <1>1, <1>2 DEF HeadTo
<1>4. HeadersAsWritten
  BY <1>1, <1>2, <1>3, EnteredAsWritten DEF HeadersAsWritten
<1>5. BodyAsDeclared
  <2>1. CASE method = "Get" \/ headers[ContentLength] = Null
    BY <1>2, <2>1 DEF BodyAsDeclared, BodyFrom
  <2>2. CASE ~ (method = "Get" \/ headers[ContentLength] = Null)
    <3>1. PICK d : d = atoll(Value(headers[ContentLength]))
      OBVIOUS
    <3>2. d \in 0 .. UIntMax =>
             body = Span(p + 2, IF d < size - (p + 2) THEN p + 2 + d ELSE size)
      BY <1>2, <2>2, <3>1 DEF BodyFrom
    <3>3. HeadEnd + 4 = p + 2
      <4>1. HeadEnd = p - 2
        BY <1>1, <1>2, <1>3, HeadEndIs
      <4>. QED
        BY <1>3, <4>1
    <3>4. d \in 0 .. UIntMax =>
             /\ body.from = HeadEnd + 4
             /\ body.to = IF d < size - body.from THEN body.from + d ELSE size
      BY <3>2, <3>3 DEF Span
    <3>. QED
      BY <2>2, <3>1, <3>4 DEF BodyAsDeclared
  <2>. QED
    BY <2>1, <2>2
<1>. QED
  BY <1>4, <1>5

-----------------------------------------------------------------------------
(* The steps of the request line *)

Early == {"method", "space_1", "path", "path_rest", "path_hex_1", "path_hex_2", "query_rest",
          "query_hex_1", "query_hex_2", "query_end"}

\* What the parts of the invariant rest on.
LEMMA Facts ==
    ASSUME ParserInv
    PROVE  /\ text \in Seq(Char) /\ size = Len(text) /\ size \in Nat
           /\ position \in Nat /\ start_position \in 0 .. size /\ query.to \in Nat
           /\ pc \notin Unchecked => position <= size /\ start_position <= position
           /\ headers \in [Header -> Spans] /\ DOMAIN headers = Header
BY DEF ParserInv, CursorInv, ValueInv, Good, Spans, Unchecked, size

\* Inside the text current_char() returns the character there.
LEMMA CurrentIs ==
    ASSUME position < size
    PROVE  current_char = {CharAt(text, position)}
BY DEF current_char, CharAt

\* A call that fails leaves nothing to be shown.
LEMMA Thrown ==
    ASSUME WrittenInv, pc # "parsed", pc' = "thrown", UNCHANGED body
    PROVE  WrittenInv'
BY DEF WrittenInv, RequestLineInv, NothingYet, NameInv, LineInv, HeadInv, InHead, InValue

\* Up to the query, nothing is.
LEMMA EarlyStep ==
    ASSUME WrittenInv, pc \in Early, pc' \in Early \cup {"thrown"}, UNCHANGED <<headers, body>>
    PROVE  WrittenInv'
BY DEF WrittenInv, RequestLineInv, NothingYet, NameInv, LineInv, HeadInv, InHead, InValue, Early

\* The query ends where the rest of the request line begins.
LEMMA EndQueryWritten ==
    ASSUME ParserInv, WrittenInv, EndQuery
    PROVE  WrittenInv'
<1>1. pc' = "space_2" /\ position' = query'.to /\ UNCHANGED <<headers, body>> /\ pc \in Early
  BY DEF EndQuery, cursorVars, get_token_value, Span, Early
<1>2. RequestLineInv' /\ NothingYet'
  BY <1>1 DEF WrittenInv, RequestLineInv, NothingYet, InHead, Early
<1>. QED
  BY <1>1, <1>2 DEF WrittenInv, NameInv, LineInv, HeadInv, InHead, InValue

\* The version is eight characters long.
LEMMA VersionWritten ==
    ASSUME ParserInv, WrittenInv, scan_http_version
    PROVE  WrittenInv'
<1>1. UNCHANGED <<text, headers, body, query>> /\ pc = "version"
  BY DEF scan_http_version, requestVars
<1>2. CASE pc' = "thrown"
  BY <1>1, <1>2, Thrown
<1>3. CASE pc' # "thrown"
  <2>1. pc' = "cr_1" /\ position' = position + 8
    BY <1>3 DEF scan_http_version
  <2>2. RequestLineInv' /\ NothingYet'
    BY <1>1, <2>1, Facts DEF WrittenInv, RequestLineInv, NothingYet, InHead
  <2>. QED
    BY <2>1, <2>2 DEF WrittenInv, NameInv, LineInv, HeadInv, InHead, InValue
<1>. QED
  BY <1>2, <1>3

\* scan_expected, where it does not throw.
LEMMA ExpectedIs ==
    ASSUME NEW at, NEW ch, NEW next, scan_expected(at, ch, next), pc' # "thrown"
    PROVE  /\ pc = at /\ pc' = next /\ position < size /\ CharAt(text, position) = ch
           /\ position' = position + 1 /\ UNCHANGED <<start_position, saved_text_cursors>>
<1>1. pc = at /\ UNCHANGED <<start_position, saved_text_cursors>>
  BY DEF scan_expected
<1>2. ch \in current_char /\ pc' = next /\ position < size /\ position' = position + 1
  BY DEF scan_expected, increment_position
<1>. QED
  BY <1>1, <1>2, CurrentIs

\* The characters that are asked for, up to the colon, and behind the head.
LEMMA ExpectWritten ==
    ASSUME ParserInv, WrittenInv, ExpectCharacter, UNCHANGED text
    PROVE  WrittenInv'
<1>1. UNCHANGED <<text, headers, body, query, header, current_header, method>> /\ pc # "parsed"
  BY DEF ExpectCharacter, requestVars, headerVars, scan_expected
<1>2. PICK q \in Nat : q = query.to /\ q = query'.to
  BY <1>1, Facts
<1>3. CASE pc' = "thrown"
  BY <1>1, <1>3, Thrown
<1>. SUFFICES ASSUME pc' # "thrown" PROVE WrittenInv'
  BY <1>3
<1>4. CASE scan_expected("space_1", "sp", "path")
  <2>1. pc \in Early /\ pc' \in Early
    BY <1>4, ExpectedIs DEF Early
  <2>. QED
    BY <1>1, <2>1, EarlyStep
<1>5. CASE scan_expected("space_2", "sp", "version")
  <2>1. pc = "space_2" /\ pc' = "version" /\ position' = position + 1
    BY <1>5, ExpectedIs
  <2>2. RequestLineInv' /\ NothingYet'
    BY <1>1, <1>2, <2>1, Facts DEF WrittenInv, RequestLineInv, NothingYet, InHead
  <2>. QED
    BY <2>1, <2>2 DEF WrittenInv, NameInv, LineInv, HeadInv, InHead, InValue
<1>6. CASE scan_expected("cr_1", "cr", "nl_1")
  <2>1. pc = "cr_1" /\ pc' = "nl_1" /\ position' = position + 1 /\ CharAt(text, position) = "cr"
    BY <1>6, ExpectedIs
  <2>2. position' = q + 10 /\ position' - 1 = position
    BY <1>2, <2>1, Facts DEF WrittenInv, RequestLineInv
  <2>3. RequestLineInv' /\ NothingYet'
    BY <1>1, <1>2, <2>1, <2>2 DEF WrittenInv, RequestLineInv, NothingYet, InHead
  <2>. QED
    BY <2>1, <2>3 DEF WrittenInv, NameInv, LineInv, HeadInv, InHead, InValue
<1>7. CASE scan_expected("nl_1", "nl", "header")
  <2>1. /\ pc = "nl_1" /\ pc' = "header" /\ position' = position + 1 /\ position < size
        /\ CharAt(text, position) = "nl"
    BY <1>7, ExpectedIs
  <2>2. position = q + 10 /\ position' = q + 11 /\ CharAt(text, q + 9) = "cr"
    <3>1. position = q + 10 /\ CharAt(text, position - 1) = "cr"
      BY <1>2, <2>1 DEF WrittenInv, RequestLineInv
    <3>2. position - 1 = q + 9 /\ position + 1 = q + 11
      BY <3>1
    <3>. QED
      BY <2>1, <3>1, <3>2
  <2>3. LineEnd(text, q + 9)
    <3>1. (q + 9) + 1 = q + 10
      OBVIOUS
    <3>. QED
      BY <2>1, <2>2, <3>1, Facts DEF LineEnd
  <2>4. HeadTo(text, q, headers, q + 11)
    <3>1. \A h \in Header : headers[h] = Null
      BY <2>1 DEF WrittenInv, NothingYet, InHead
    <3>. QED
      BY <2>3, <3>1, HeadBegins, Facts
  <2>5. HeadTo(text', query'.to, headers', position')
    BY <1>1, <1>2, <2>2, <2>4
  <2>6. HeadInv'
    BY <2>1, <2>5 DEF HeadInv
  <2>. QED
    BY <1>1, <2>1, <2>6 DEF WrittenInv, RequestLineInv, NothingYet, NameInv, LineInv, InHead, InValue
<1>8. CASE scan_expected("colon", "colon", "space_3")
  <2>1. /\ pc = "colon" /\ pc' = "space_3" /\ position' = position + 1 /\ position < size
        /\ CharAt(text, position) = "colon" /\ start_position' = start_position
    BY <1>8, ExpectedIs
  <2>2. PICK r \in 0 .. size, c \in 0 .. size : r = start_position /\ c = position
    BY <2>1, Facts
  <2>3. /\ HeadTo(text, q, headers, r) /\ NameText(text, r, c) /\ header = HeaderOf(text, r, c)
    BY <1>2, <2>1, <2>2 DEF WrittenInv, NameInv
  <2>4. LineText(text, r, c, c + 1)
    BY <2>1, <2>2, <2>3, Facts DEF LineText
  <2>5. LineOf(r, c)'
    <3>1. Scanned' = c + 1 /\ c = position' - 1
      BY <2>1, <2>2, Facts DEF Scanned
    <3>2. ValueScanned(c)'
      BY <2>1 DEF ValueScanned
    <3>3. /\ HeadTo(text', query'.to, headers', r) /\ LineText(text', r, c, Scanned')
          /\ header' = HeaderOf(text', r, c)
      BY <1>1, <1>2, <2>3, <2>4, <3>1
    <3>. QED
      BY <3>1, <3>2, <3>3 DEF LineOf
  <2>6. LineInv'
    <3>1. r \in 0 .. size' /\ c \in 0 .. size'
      BY <1>1, <2>2 DEF size
    <3>. QED
      BY <2>5, <3>1 DEF LineInv
  <2>. QED
    BY <1>1, <2>1, <2>6 DEF WrittenInv, RequestLineInv, NothingYet, NameInv, HeadInv, InHead
<1>9. CASE scan_expected("cr_2", "cr", "nl_2")
  <2>1. /\ pc = "cr_2" /\ pc' = "nl_2" /\ position' = position + 1 /\ position < size
        /\ CharAt(text, position) = "cr"
    BY <1>9, ExpectedIs
  <2>2. PICK r \in 0 .. size, c \in 0 .. size : LineOf(r, c)
    BY <2>1 DEF WrittenInv, LineInv, InValue
  <2>3. position' - 1 = position /\ Scanned = position /\ Scanned' = position
    BY <2>1, Facts DEF Scanned
  <2>4. /\ HeadTo(text, q, headers, r) /\ LineText(text, r, c, Scanned)
        /\ header = HeaderOf(text, r, c) /\ current_header = Trimmed(text, c, position)
    BY <1>2, <2>1, <2>2 DEF LineOf, ValueScanned
  <2>5. LineOf(r, c)'
    <3>1. ValueScanned(c)'
      BY <1>1, <2>1, <2>3, <2>4 DEF ValueScanned
    <3>2. /\ HeadTo(text', query'.to, headers', r) /\ LineText(text', r, c, Scanned')
          /\ header' = HeaderOf(text', r, c)
      BY <1>1, <1>2, <2>3, <2>4
    <3>. QED
      BY <2>1, <3>1, <3>2 DEF LineOf
  <2>6. LineInv'
    <3>1. r \in 0 .. size' /\ c \in 0 .. size'
      BY <1>1, <2>2 DEF size
    <3>. QED
      BY <2>5, <3>1 DEF LineInv
  <2>. QED
    BY <1>1, <2>1, <2>6 DEF WrittenInv, RequestLineInv, NothingYet, NameInv, HeadInv, InHead
<1>10. CASE scan_expected("nl_3", "nl", "body")
  <2>1. /\ pc = "nl_3" /\ pc' = "body" /\ position' = position + 1 /\ position < size
        /\ CharAt(text, position) = "nl"
    BY <1>10, ExpectedIs
  <2>2. HeadTo(text, q, headers, position - 1) /\ CharAt(text, position - 1) = "cr"
    BY <1>2, <2>1 DEF WrittenInv, HeadInv
  <2>3. position' - 2 = position - 1 /\ (position - 1) + 1 = position
    BY <2>1, Facts
  <2>4. LineEnd(text, position - 1)
    BY <2>1, <2>2, <2>3, Facts DEF LineEnd
  <2>5. HeadTo(text', query'.to, headers', position' - 2) /\ LineEnd(text', position' - 2)
    BY <1>1, <1>2, <2>2, <2>3, <2>4
  <2>6. HeadInv'
    BY <2>1, <2>5 DEF HeadInv
  <2>. QED
    BY <1>1, <2>1, <2>6 DEF WrittenInv, RequestLineInv, NothingYet, NameInv, LineInv, InHead, InValue
<1>. QED
  BY <1>4, <1>5, <1>6, <1>7, <1>8, <1>9, <1>10 DEF ExpectCharacter

-----------------------------------------------------------------------------
(* The steps of the headers *)

\* A name grows by a letter or a dash.
LEMMA NameGrows ==
    ASSUME NEW t \in Seq(Char), NEW r \in Nat, NEW n \in Nat, NameText(t, r, n), n < Len(t),
           CharAt(t, n) \in Letter \cup {"dash"}
    PROVE  NameText(t, r, n + 1)
BY DEF NameText

\* A line grows by any character that does not end it.
LEMMA LineTextGrows ==
    ASSUME NEW t \in Seq(Char), NEW r \in Nat, NEW c \in Nat, NEW n \in Nat, LineText(t, r, c, n),
           n < Len(t), CharAt(t, n) # "cr"
    PROVE  LineText(t, r, c, n + 1)
BY DEF LineText

\* A line is given back up to a character behind its colon.
LEMMA LineTextShrinks ==
    ASSUME NEW t \in Seq(Char), NEW r \in Nat, NEW c \in Nat, NEW n \in Nat, LineText(t, r, c, n),
           NEW k \in c + 1 .. n
    PROVE  LineText(t, r, c, k)
BY DEF LineText

\* A line begins with a letter, or it is the empty one.
LEMMA BeginHeaderWritten ==
    ASSUME ParserInv, WrittenInv, BeginHeader
    PROVE  WrittenInv'
<1>1. /\ UNCHANGED <<text, headers, body, query, header, current_header>> /\ pc = "header"
      /\ start_position' = position
  BY DEF BeginHeader, requestVars, headerVars, set_token_start_position
<1>2. HeadTo(text', query'.to, headers', position) /\ body' = Null
  BY <1>1 DEF WrittenInv, HeadInv, NothingYet
<1>3. CASE pc' = "thrown"
  BY <1>1, <1>3, Thrown
<1>4. CASE pc' = "name"
  <2>1. position' = position /\ \E c \in current_char : c \in Letter
    BY <1>4 DEF BeginHeader, increment_position
  <2>2. position < Len(text) => CharAt(text, position) \in Letter
    BY <2>1, CurrentIs, Facts
  <2>3. NameText(text, position, position)
    <3>1. position \in Nat /\ position <= Len(text)
      BY <1>1, Facts DEF Unchecked
    <3>. QED
      BY <2>2, <3>1 DEF NameText
  <2>4. NameText(text', start_position', position')
    BY <1>1, <2>1, <2>3
  <2>5. HeadTo(text', query'.to, headers', start_position')
    BY <1>1, <1>2
  <2>6. NameInv'
    BY <1>4, <2>4, <2>5 DEF NameInv
  <2>. QED
    BY <1>2, <1>4, <2>6 DEF WrittenInv, RequestLineInv, NothingYet, LineInv, HeadInv, InHead, InValue
<1>5. CASE pc' = "nl_3"
  <2>1. position' = position + 1 /\ position < size /\ "cr" \in current_char
    BY <1>5 DEF BeginHeader, increment_position
  <2>2. CharAt(text, position) = "cr" /\ position' - 1 = position
    BY <2>1, CurrentIs, Facts
  <2>3. HeadTo(text', query'.to, headers', position' - 1) /\ CharAt(text', position' - 1) = "cr"
    BY <1>1, <1>2, <2>2
  <2>4. HeadInv'
    BY <1>5, <2>3 DEF HeadInv
  <2>. QED
    BY <1>2, <1>5, <2>4 DEF WrittenInv, RequestLineInv, NothingYet, NameInv, LineInv, InHead, InValue
<1>. QED
  BY <1>3, <1>4, <1>5 DEF BeginHeader, increment_position

\* The name is scanned, and looked up at its end.
LEMMA ScanNameWritten ==
    ASSUME ParserInv, WrittenInv, ScanName
    PROVE  WrittenInv'
<1>1. UNCHANGED <<text, headers, body, query, start_position>> /\ pc = "name"
  BY DEF ScanName, requestVars
<1>2. /\ HeadTo(text, query.to, headers, start_position)
      /\ NameText(text, start_position, position)
      /\ body' = Null
  BY <1>1 DEF WrittenInv, NameInv, NothingYet
<1>3. HeadTo(text', query'.to, headers', start_position')
  BY <1>1, <1>2
<1>4. NameInv' /\ pc' \in {"name", "colon"}
  <2>1. CASE pc' = "name"
    <3>1. /\ position < size /\ position' = position + 1
          /\ \E c \in current_char : c \in Letter \cup {"dash"}
      BY <2>1 DEF ScanName, increment_position
    <3>2. NameText(text, start_position, position + 1)
      <4>1. CharAt(text, position) \in Letter \cup {"dash"}
        BY <3>1, CurrentIs
      <4>. QED
        BY <1>2, <3>1, <4>1, NameGrows, Facts
    <3>. QED
      BY <1>1, <1>3, <2>1, <3>1, <3>2 DEF NameInv
  <2>2. CASE pc' # "name"
    <3>1. /\ pc' = "colon" /\ position' = position
          /\ header' = get_header(lower_cased(Span(start_position, position)))
      <4>1. \/ position < size /\ increment_position("name")
            \/ /\ pc' = "colon" /\ UNCHANGED position
               /\ header' = get_header(lower_cased(get_token_value))
        BY DEF ScanName
      <4>2. ~ (position < size /\ increment_position("name"))
        BY <2>2, Facts DEF increment_position
      <4>. QED
        BY <4>1, <4>2 DEF get_token_value
    <3>2. lower_cased(Span(start_position, position)) = Lowered(text, start_position, position)
      BY DEF lower_cased, Lowered, Span
    <3>3. header' = HeaderOf(text, start_position, position)
      BY <3>1, <3>2 DEF HeaderOf
    <3>4. /\ header' = HeaderOf(text', start_position', position')
          /\ NameText(text', start_position', position')
      BY <1>1, <1>2, <3>1, <3>3
    <3>. QED
      BY <1>3, <3>1, <3>4 DEF NameInv
  <2>. QED
    BY <2>1, <2>2
<1>. QED
  BY <1>2, <1>4 DEF WrittenInv, RequestLineInv, NothingYet, LineInv, HeadInv, InHead, InValue

\* A step inside a line that keeps the head, the name and the colon.
LEMMA ValueStep ==
    ASSUME ParserInv, WrittenInv, pc \in InValue, pc' \in InValue \ {"space_3", "nl_2"},
           UNCHANGED <<text, query, headers, header, body>>,
           ASSUME NEW r \in 0 .. size, NEW c \in 0 .. size, LineOf(r, c)
           PROVE  LineText(text, r, c, position') /\ ValueScanned(c)'
    PROVE  WrittenInv'
<1>1. PICK r \in 0 .. size, c \in 0 .. size : LineOf(r, c)
  BY DEF WrittenInv, LineInv
<1>2. LineText(text', r, c, Scanned') /\ ValueScanned(c)'
  BY <1>1 DEF Scanned
<1>3. HeadTo(text', query'.to, headers', r) /\ header' = HeaderOf(text', r, c)
  BY <1>1 DEF LineOf
<1>4. LineOf(r, c)'
  BY <1>2, <1>3 DEF LineOf
<1>5. LineInv'
  <2>1. r \in 0 .. size' /\ c \in 0 .. size'
    BY DEF size
  <2>. QED
    BY <1>4, <2>1 DEF LineInv
<1>6. NothingYet'
  BY DEF WrittenInv, NothingYet, InHead, InValue
<1>. QED
  BY <1>5, <1>6 DEF WrittenInv, RequestLineInv, NameInv, HeadInv, InValue

\* The space before the value, and where the value starts.
LEMMA SkipSpaceWritten ==
    ASSUME ParserInv, WrittenInv, SkipSpaceBefore
    PROVE  WrittenInv'
<1>1. /\ UNCHANGED <<text, query, headers, header, body>> /\ pc = "space_3"
      /\ start_position' = position'
  BY DEF SkipSpaceBefore, requestVars, headerVars
<1>2. CASE pc' = "thrown"
  BY <1>1, <1>2, Thrown
<1>3. CASE pc' # "thrown"
  <2>1. pc' = "value" /\ pc' \in InValue \ {"space_3", "nl_2"} /\ pc \in InValue
    BY <1>1, <1>3 DEF SkipSpaceBefore, scan_optional, increment_position, InValue
  <2>2. \/ "sp" \in current_char /\ position < size /\ position' = position + 1
        \/ (\E c \in current_char : c # "sp") /\ position' = position
    BY <1>3 DEF SkipSpaceBefore, scan_optional, increment_position
  <2>3. ASSUME NEW r \in 0 .. size, NEW c \in 0 .. size, LineOf(r, c)
        PROVE  LineText(text, r, c, position') /\ ValueScanned(c)'
    <3>1. c = position - 1 /\ position = c + 1 /\ LineText(text, r, c, c + 1)
      BY <1>1, <2>3, Facts DEF LineOf, Scanned
    <3>2. CASE position < size
      <4>1. current_char = {CharAt(text, c + 1)}
        BY <3>1, <3>2, CurrentIs
      <4>2. position' = ValueStart(text, c)
        BY <2>2, <3>1, <4>1 DEF ValueStart
      <4>3. LineText(text, r, c, position')
        BY <2>2, <3>1, <3>2, <4>1, LineTextGrows, Facts
      <4>4. position' \in {c + 1, c + 2}
        BY <2>2, <3>1
      <4>. QED
        BY <1>1, <2>1, <4>2, <4>3, <4>4, Facts DEF ValueScanned
    <3>3. CASE ~ (position < size)
      <4>1. position' = position /\ ~ (c + 1 < size) /\ size' = size
        BY <1>1, <2>2, <3>1, <3>3 DEF size
      <4>. QED
        BY <1>1, <2>1, <3>1, <4>1, Facts DEF ValueScanned
    <3>. QED
      BY <3>2, <3>3
  <2>. QED
    BY <1>1, <2>1, <2>3, ValueStep
<1>. QED
  BY <1>2, <1>3

\* The cursor that save puts on the stack.
LEMMA SavedOnTop ==
    ASSUME ParserInv, save
    PROVE  saved_text_cursors'[Len(saved_text_cursors')]
              = [position |-> position, start_position |-> start_position]
<1>1. saved_text_cursors \in Seq(SavedTextCursor)
  BY DEF ParserInv, CursorInv, SavedInv
<1>2. PICK s : s = saved_text_cursors
  OBVIOUS
<1>3. PICK v : v = [position |-> position, start_position |-> start_position]
  OBVIOUS
<1>4. saved_text_cursors' = Append(s, v)
  BY <1>2, <1>3 DEF save
<1>5. Append(s, v)[Len(Append(s, v))] = v
  BY <1>1, <1>2
<1>. QED
  BY <1>3, <1>4, <1>5

\* There is one to go back to behind the first character of a value.
LEMMA TopSaved ==
    ASSUME ParserInv, pc \in {"content", "blanks"}
    PROVE  saved_text_cursors[Len(saved_text_cursors)] \in SavedTextCursor
<1>1. PICK s : s = saved_text_cursors /\ s \in Seq(SavedTextCursor) /\ Len(s) > 0
  BY DEF ParserInv, CursorInv, SavedInv
<1>2. s[Len(s)] \in SavedTextCursor
  BY <1>1
<1>. QED
  BY <1>1, <1>2

\* A character of the value, or its end.
LEMMA BeginContentWritten ==
    ASSUME ParserInv, WrittenInv, BeginFieldContent
    PROVE  WrittenInv'
<1>1. /\ UNCHANGED <<text, query, headers, header, body, start_position>> /\ pc = "value"
      /\ position < size /\ size' = size
  BY DEF BeginFieldContent, requestVars, headerVars, size
<1>2. current_char = {CharAt(text, position)}
  BY <1>1, CurrentIs
<1>3. CASE is_vchar(CharAt(text, position))
  <2>1. save /\ position' = position + 1 /\ pc' = "content"
    <3>1. save /\ increment_position("content")
      BY <1>2, <1>3 DEF BeginFieldContent
    <3>. QED
      BY <1>1, <3>1, Facts DEF increment_position
  <2>2. ContentInv'
    <3>1. PICK top : top = saved_text_cursors'[Len(saved_text_cursors')]
      OBVIOUS
    <3>2. top.position = position /\ top.start_position = start_position
      BY <2>1, <3>1, SavedOnTop
    <3>3. start_position <= position /\ position < position' /\ position = position' - 1
      BY <1>1, <2>1, Facts DEF Unchecked
    <3>. QED
      BY <1>1, <1>3, <2>1, <3>1, <3>2, <3>3 DEF ContentInv
  <2>3. ASSUME NEW r \in 0 .. size, NEW c \in 0 .. size, LineOf(r, c)
        PROVE  LineText(text, r, c, position') /\ ValueScanned(c)'
    <3>1. LineText(text, r, c, position) /\ ValueScanned(c)
      BY <1>1, <2>3 DEF LineOf, Scanned
    <3>2. LineText(text, r, c, position')
      BY <1>1, <1>3, <2>1, <3>1, LineTextGrows, Facts DEF is_vchar
    <3>. QED
      BY <1>1, <2>1, <2>2, <3>1, <3>2, Facts DEF ValueScanned
  <2>4. pc \in InValue /\ pc' \in InValue \ {"space_3", "nl_2"}
    BY <1>1, <2>1 DEF InValue
  <2>. QED
    BY <1>1, <2>3, <2>4, ValueStep
<1>4. CASE ~ is_vchar(CharAt(text, position))
  <2>1. position' = position /\ pc' = "value_end"
    BY <1>2, <1>4 DEF BeginFieldContent, increment_position
  <2>2. ASSUME NEW r \in 0 .. size, NEW c \in 0 .. size, LineOf(r, c)
        PROVE  LineText(text, r, c, position') /\ ValueScanned(c)'
    <3>1. LineText(text, r, c, position) /\ ValueScanned(c)
      BY <1>1, <2>2 DEF LineOf, Scanned
    <3>. QED
      BY <1>1, <2>1, <3>1, Facts DEF ValueScanned
  <2>3. pc \in InValue /\ pc' \in InValue \ {"space_3", "nl_2"}
    BY <1>1, <2>1 DEF InValue
  <2>. QED
    BY <1>1, <2>2, <2>3, ValueStep
<1>. QED
  BY <1>3, <1>4

\* Behind a character, a blank or the next one.
LEMMA ContentWritten ==
    ASSUME ParserInv, WrittenInv, ScanFieldContent
    PROVE  WrittenInv'
<1>1. /\ UNCHANGED <<text, query, headers, header, body, start_position, saved_text_cursors>>
      /\ pc = "content" /\ size' = size
  BY DEF ScanFieldContent, requestVars, headerVars, size
<1>2. CASE pc' = "thrown"
  BY <1>1, <1>2, Thrown
<1>3. CASE pc' # "thrown"
  <2>1. \/ /\ pc' = "blanks" /\ position' = position + 1 /\ position < size
           /\ \E c \in current_char : c \in Blank
        \/ pc' = "value" /\ position' = position
    BY <1>3 DEF ScanFieldContent, increment_position
  <2>2. pc \in InValue /\ pc' \in InValue \ {"space_3", "nl_2"}
    BY <1>1, <2>1 DEF InValue
  <2>3. ASSUME NEW r \in 0 .. size, NEW c \in 0 .. size, LineOf(r, c)
        PROVE  LineText(text, r, c, position') /\ ValueScanned(c)'
    <3>1. LineText(text, r, c, position) /\ ValueScanned(c)
      BY <1>1, <2>3 DEF LineOf, Scanned
    <3>2. PICK top : top = saved_text_cursors[Len(saved_text_cursors)]
      OBVIOUS
    <3>3. /\ top.start_position = start_position /\ top.position = position - 1
          /\ start_position <= top.position /\ top.position < position
          /\ is_vchar(CharAt(text, top.position))
          /\ c < start_position
          /\ c + 1 < size => start_position = ValueStart(text, c)
      BY <1>1, <3>1, <3>2 DEF ValueScanned, ContentInv
    <3>4. CASE pc' = "blanks"
      <4>1. position' = position + 1 /\ position < size /\ CharAt(text, position) \in Blank
        BY <2>1, <3>4, CurrentIs
      <4>2. LineText(text, r, c, position')
        BY <3>1, <4>1, LineTextGrows, Facts DEF Blank
      <4>3. start_position <= position' /\ top.position < position'
        BY <3>3, <4>1, Facts
      <4>4. ContentInv'
        BY <1>1, <3>2, <3>3, <3>4, <4>3 DEF ContentInv
      <4>. QED
        BY <1>1, <3>3, <3>4, <4>2, <4>3, <4>4 DEF ValueScanned
    <3>5. CASE pc' = "value"
      <4>1. position' = position /\ start_position <= position
        BY <2>1, <3>3, <3>5, Facts
      <4>. QED
        BY <1>1, <3>1, <3>3, <3>5, <4>1 DEF ValueScanned
    <3>. QED
      BY <2>1, <3>4, <3>5
  <2>. QED
    BY <1>1, <2>2, <2>3, ValueStep
<1>. QED
  BY <1>2, <1>3

\* Behind a blank; without a further character revert goes back to the first.
LEMMA BlanksWritten ==
    ASSUME ParserInv, WrittenInv, ScanBlanks
    PROVE  WrittenInv'
<1>1. /\ UNCHANGED <<text, query, headers, header, body>>
      /\ pc = "blanks" /\ size' = size
  BY DEF ScanBlanks, requestVars, headerVars, size
<1>2. CASE pc' = "thrown"
  BY <1>1, <1>2, Thrown
<1>3. CASE pc' # "thrown"
  <2>1. \/ /\ pc' = "blanks" /\ position' = position + 1 /\ position < size
           /\ \E c \in current_char : c \in Blank
           /\ UNCHANGED <<start_position, saved_text_cursors>>
        \/ /\ pc' = "value" /\ position' = position + 1 /\ position < size
           /\ \E c \in current_char : is_vchar(c)
           /\ UNCHANGED <<start_position, saved_text_cursors>>
        \/ pc' = "value_end" /\ revert
    BY <1>3 DEF ScanBlanks, increment_position
  <2>2. pc \in InValue /\ pc' \in InValue \ {"space_3", "nl_2"}
    BY <1>1, <2>1 DEF InValue
  <2>3. ASSUME NEW r \in 0 .. size, NEW c \in 0 .. size, LineOf(r, c)
        PROVE  LineText(text, r, c, position') /\ ValueScanned(c)'
    <3>1. LineText(text, r, c, position) /\ ValueScanned(c)
      BY <1>1, <2>3 DEF LineOf, Scanned
    <3>2. PICK top : top = saved_text_cursors[Len(saved_text_cursors)]
      OBVIOUS
    <3>3. /\ top.start_position = start_position
          /\ start_position <= top.position /\ top.position < position
          /\ is_vchar(CharAt(text, top.position))
          /\ c < start_position
          /\ c + 1 < size => start_position = ValueStart(text, c)
      BY <1>1, <3>1, <3>2 DEF ValueScanned, ContentInv
    <3>4. CASE pc' = "blanks"
      <4>1. /\ position' = position + 1 /\ position < size /\ CharAt(text, position) \in Blank
            /\ UNCHANGED <<start_position, saved_text_cursors>>
        BY <2>1, <3>4, CurrentIs
      <4>2. LineText(text, r, c, position')
        BY <3>1, <4>1, LineTextGrows, Facts DEF Blank
      <4>3. start_position <= position' /\ top.position < position'
        <5>1. top.position \in 0 .. size
          BY <1>1, <3>2, TopSaved DEF SavedTextCursor
        <5>. QED
          BY <3>3, <4>1, <5>1, Facts
      <4>4. ContentInv'
        BY <1>1, <3>2, <3>3, <3>4, <4>1, <4>3 DEF ContentInv
      <4>. QED
        BY <1>1, <3>3, <3>4, <4>1, <4>2, <4>3, <4>4 DEF ValueScanned
    <3>5. CASE pc' = "value"
      <4>1. /\ position' = position + 1 /\ position < size /\ is_vchar(CharAt(text, position))
            /\ UNCHANGED <<start_position, saved_text_cursors>>
        BY <2>1, <3>5, CurrentIs
      <4>2. LineText(text, r, c, position')
        BY <3>1, <4>1, LineTextGrows, Facts DEF is_vchar
      <4>3. start_position <= position' /\ position' - 1 = position
        BY <1>1, <4>1, Facts DEF Unchecked
      <4>. QED
        BY <1>1, <3>3, <3>5, <4>1, <4>2, <4>3 DEF ValueScanned
    <3>6. CASE pc' = "value_end"
      <4>1. position' = top.position /\ start_position' = top.start_position
        BY <2>1, <3>2, <3>6 DEF revert
      <4>2. top.position \in 0 .. size
        BY <1>1, <3>2, TopSaved DEF SavedTextCursor
      <4>3. top.position \in c + 1 .. position /\ top.position < size
        BY <1>1, <3>3, <4>2, Facts DEF Unchecked
      <4>4. LineText(text, r, c, position')
        BY <3>1, <4>1, <4>3, LineTextShrinks, Facts
      <4>. QED
        BY <1>1, <3>3, <3>6, <4>1, <4>3, <4>4 DEF ValueScanned
    <3>. QED
      BY <2>1, <3>4, <3>5, <3>6
  <2>. QED
    BY <1>1, <2>2, <2>3, ValueStep
<1>. QED
  BY <1>2, <1>3

\* The value ends, and is the trimmed one if the line ends here as well.
LEMMA EndValueWritten ==
    ASSUME ParserInv, WrittenInv, EndValue
    PROVE  WrittenInv'
<1>1. /\ UNCHANGED <<text, query, headers, header, body, start_position>>
      /\ pc \in {"value", "value_end"} /\ size' = size
      /\ current_header' = Span(start_position, position)
  BY DEF EndValue, requestVars, get_token_value, size
<1>2. CASE pc' = "thrown"
  BY <1>1, <1>2, Thrown
<1>3. CASE pc' # "thrown"
  <2>1. /\ pc' = "cr_2"
        /\ \/ "sp" \in current_char /\ position' = position + 1 /\ position < size
           \/ (\E c \in current_char : c # "sp") /\ position' = position
    BY <1>3 DEF EndValue, scan_optional, increment_position
  <2>2. pc \in InValue /\ pc' \in InValue \ {"space_3", "nl_2"}
    BY <1>1, <2>1 DEF InValue
  <2>3. ASSUME NEW r \in 0 .. size, NEW c \in 0 .. size, LineOf(r, c)
        PROVE  LineText(text, r, c, position') /\ ValueScanned(c)'
    <3>1. LineText(text, r, c, position) /\ ValueScanned(c)
      BY <1>1, <2>3 DEF LineOf, Scanned
    <3>2. c < start_position /\ start_position <= position
      BY <1>1, <3>1 DEF ValueScanned
    <3>3. CASE position' = position + 1
      <4>1. position < size /\ CharAt(text, position) = "sp"
        BY <2>1, <3>3, CurrentIs, Facts
      <4>2. LineText(text, r, c, position')
        BY <3>1, <3>3, <4>1, LineTextGrows, Facts
      <4>3. start_position = ValueStart(text, c) /\ start_position < position'
            /\ position' - 1 = position
        BY <1>1, <3>1, <3>2, <3>3, <4>1, Facts DEF ValueScanned
      <4>4. current_header' = Trimmed(text, c, position')
        BY <1>1, <4>1, <4>3 DEF Trimmed
      <4>. QED
        BY <1>1, <2>1, <4>2, <4>4 DEF ValueScanned
    <3>4. CASE position' = position
      <4>1. ASSUME position < size, CharAt(text, position) = "cr"
            PROVE  current_header' = Trimmed(text, c, position)
        <5>1. start_position = ValueStart(text, c)
          BY <1>1, <3>1, <3>2, <4>1, Facts DEF ValueScanned
        <5>2. position = start_position \/ is_vchar(CharAt(text, position - 1))
          BY <1>1, <3>1, <4>1 DEF ValueScanned, is_vchar
        <5>3. ~ (start_position < position /\ CharAt(text, position - 1) = "sp")
          BY <5>2, Facts DEF is_vchar, Blank
        <5>. QED
          BY <1>1, <5>1, <5>3 DEF Trimmed
      <4>2. ValueScanned(c)'
        BY <1>1, <2>1, <3>4, <4>1 DEF ValueScanned
      <4>. QED
        BY <3>1, <3>4, <4>2
    <3>. QED
      BY <2>1, <3>3, <3>4
  <2>. QED
    BY <1>1, <2>2, <2>3, ValueStep
<1>. QED
  BY <1>2, <1>3

\* The line ends and the value is entered.
LEMMA EndHeaderWritten ==
    ASSUME ParserInv, WrittenInv, EndHeader
    PROVE  WrittenInv'
<1>1. UNCHANGED <<text, query, body>> /\ pc = "nl_2"
  BY DEF EndHeader, scan_expected
<1>2. CASE pc' = "thrown"
  BY <1>1, <1>2, Thrown
<1>3. CASE pc' # "thrown"
  <2>1. /\ pc' = "header" /\ position < size /\ CharAt(text, position) = "nl"
        /\ position' = position + 1
        /\ headers' = [headers EXCEPT ![header] = current_header]
    <3>1. scan_expected("nl_2", "nl", "header")
      BY DEF EndHeader
    <3>2. /\ pc' = "header" /\ position < size /\ CharAt(text, position) = "nl"
          /\ position' = position + 1
      BY <1>3, <3>1, ExpectedIs
    <3>. QED
      BY <3>2 DEF EndHeader
  <2>2. PICK r \in 0 .. size, c \in 0 .. size : LineOf(r, c)
    BY <1>1 DEF WrittenInv, LineInv, InValue
  <2>3. PICK q \in Nat : q = query.to /\ q = query'.to
    BY <1>1, Facts
  <2>4. /\ HeadTo(text, q, headers, r) /\ LineText(text, r, c, position - 1)
        /\ header = HeaderOf(text, r, c)
        /\ CharAt(text, position - 1) = "cr" /\ current_header = Trimmed(text, c, position - 1)
    BY <1>1, <2>2, <2>3 DEF LineOf, ValueScanned, Scanned
  <2>5. PICK e \in Nat : e = position - 1 /\ e + 1 = position /\ e + 2 = position'
    <3>1. c < position - 1
      BY <2>4 DEF LineText
    <3>2. position - 1 \in Nat
      BY <3>1, Facts
    <3>3. (position - 1) + 1 = position /\ (position - 1) + 2 = position'
      BY <2>1, Facts
    <3>. QED
      BY <3>2, <3>3
  <2>6. LineEnd(text, e)
    BY <2>1, <2>4, <2>5, Facts DEF LineEnd
  <2>7. HeadTo(text, q, headers', e + 2)
    <3>1. HeaderLine(text, r, c, e)
      BY <2>4, <2>5, <2>6 DEF HeaderLine
    <3>2. headers' = [headers EXCEPT ![HeaderOf(text, r, c)] = Trimmed(text, c, e)]
      BY <2>1, <2>4, <2>5
    <3>3. /\ text \in Seq(Char) /\ r \in Nat /\ c \in Nat /\ headers \in [Header -> Spans]
          /\ HeadTo(text, q, headers, r)
      BY <2>4, Facts
    <3>. QED
      BY <3>1, <3>2, <3>3, HeadGrows
  <2>8. HeadTo(text', query'.to, headers', position')
    BY <1>1, <2>3, <2>5, <2>7
  <2>9. HeadInv'
    BY <2>1, <2>8 DEF HeadInv
  <2>10. NothingYet'
    BY <1>1, <2>1 DEF WrittenInv, NothingYet, InHead
  <2>. QED
    BY <2>1, <2>9, <2>10 DEF WrittenInv, RequestLineInv, NameInv, LineInv, InValue
<1>. QED
  BY <1>2, <1>3

\* The body is taken behind the empty line.
LEMMA BodyWritten ==
    ASSUME ParserInv, WrittenInv, parse_body
    PROVE  WrittenInv'
<1>1. UNCHANGED <<text, query, headers, method>> /\ pc = "body" /\ pc' = "parsed" /\ size' = size
  BY DEF parse_body, size
<1>2. HeadTo(text, query.to, headers, position - 2) /\ LineEnd(text, position - 2) /\ body = Null
  BY <1>1 DEF WrittenInv, HeadInv, NothingYet
<1>3. PICK p \in 0 .. size : p = position - 2 /\ p + 2 = position
  <2>1. query.to + 11 <= position - 2
    BY <1>2 DEF HeadTo, HeadText, LineBegins
  <2>2. position - 2 \in 0 .. size /\ (position - 2) + 2 = position
    BY <1>1, <2>1, Facts DEF Unchecked
  <2>. QED
    BY <2>2
<1>4. BodyFrom(p)'
  <2>1. CASE method = "Get" \/ headers[ContentLength] = Null
    <3>1. body' = Null
      BY <1>2, <2>1 DEF parse_body
    <3>. QED
      BY <1>1, <2>1, <3>1 DEF BodyFrom
  <2>2. CASE ~ (method = "Get" \/ headers[ContentLength] = Null)
    <3>1. PICK d : d = atoll(Value(headers[ContentLength]))
      OBVIOUS
    <3>2. PICK length \in 0 .. UIntMax :
             length = d % (UIntMax + 1) /\ body' = Span(position, BodyEnd(length))
      BY <2>2, <3>1 DEF parse_body
    <3>3. d \in 0 .. UIntMax => length = d
      BY <3>2, ParserAssumption
    <3>4. d \in 0 .. UIntMax =>
             body' = Span(p + 2, IF d < size - (p + 2) THEN p + 2 + d ELSE size)
      BY <1>3, <3>2, <3>3 DEF BodyEnd
    <3>5. Value(headers[ContentLength])' = Value(headers[ContentLength])
      BY <1>1 DEF Value
    <3>6. d = atoll(Value(headers[ContentLength])')
      BY <3>1, <3>5
    <3>. QED
      BY <1>1, <2>2, <3>4, <3>6 DEF BodyFrom
  <2>. QED
    BY <2>1, <2>2
<1>5. HeadInv'
  <2>1. HeadTo(text', query'.to, headers', p) /\ LineEnd(text', p) /\ p \in 0 .. size'
    BY <1>1, <1>2, <1>3
  <2>. QED
    BY <1>1, <1>4, <2>1 DEF HeadInv
<1>. QED
  BY <1>1, <1>5 DEF WrittenInv, RequestLineInv, NothingYet, NameInv, LineInv, InHead, InValue

\* The invariant holds initially.
LEMMA InitWritten == Init => WrittenInv
BY DEF Init, WrittenInv, RequestLineInv, NothingYet, NameInv, LineInv, HeadInv, InHead, InValue, Header

\* Every step of the parser keeps it.
LEMMA NextWritten == ParserInv /\ WrittenInv /\ [Next]_vars => WrittenInv'
<1>. SUFFICES ASSUME ParserInv, WrittenInv, [Next]_vars PROVE WrittenInv'
  OBVIOUS
<1>1. CASE scan_method
  BY <1>1, EarlyStep DEF scan_method, Early
<1>2. CASE ExpectCharacter
  BY <1>2, ExpectWritten DEF ExpectCharacter
<1>3. CASE BeginPath
  BY <1>3, EarlyStep DEF BeginPath, increment_position, requestVars, Early
<1>4. ASSUME NEW at \in {"path_rest", "query_rest"}, NEW more, ScanTarget(at, more)
      PROVE  WrittenInv'
  BY <1>4, EarlyStep DEF ScanTarget, increment_position, requestVars, Early
<1>5. ASSUME NEW a \in {"path_rest", "query_rest"}, NEW b \in {"path_hex_1", "query_hex_1"},
             NEW c \in {"path_hex_2", "query_hex_2"}, ScanPercent(<<a, b, c>>)
      PROVE  WrittenInv'
  <2>1. pc \in {a, b, c} /\ pc' \in {a, b, c, "thrown"} /\ UNCHANGED requestVars
    BY <1>5 DEF ScanPercent, increment_position
  <2>2. pc \in Early /\ pc' \in Early \cup {"thrown"}
    BY <1>5, <2>1 DEF Early
  <2>. QED
    BY <2>1, <2>2, EarlyStep DEF requestVars
<1>6. CASE EndPath
  BY <1>6, EarlyStep DEF EndPath, increment_position, Early
<1>7. CASE EndQuery
  BY <1>7, EndQueryWritten
<1>8. CASE scan_http_version
  BY <1>8, VersionWritten
<1>9. CASE BeginHeader
  BY <1>9, BeginHeaderWritten
<1>10. CASE ScanName
  BY <1>10, ScanNameWritten
<1>11. CASE SkipSpaceBefore
  BY <1>11, SkipSpaceWritten
<1>12. CASE BeginFieldContent
  BY <1>12, BeginContentWritten
<1>13. CASE ScanFieldContent
  BY <1>13, ContentWritten
<1>14. CASE ScanBlanks
  BY <1>14, BlanksWritten
<1>15. CASE EndValue
  BY <1>15, EndValueWritten
<1>16. CASE EndHeader
  BY <1>16, EndHeaderWritten
<1>17. CASE parse_body
  BY <1>17, BodyWritten
<1>18. CASE UNCHANGED vars
  <2>1. /\ UNCHANGED <<text, position, start_position, saved_text_cursors, pc, method, query>>
        /\ UNCHANGED <<headers, body, header, current_header>>
    BY <1>18 DEF vars, cursorVars, requestVars, headerVars
  <2>2. RequestLineInv' /\ NothingYet' /\ NameInv'
    BY <2>1 DEF WrittenInv, RequestLineInv, NothingYet, NameInv
  <2>3. LineInv'
    BY <2>1 DEF WrittenInv, LineInv, LineOf, ValueScanned, ContentInv, Scanned, size
  <2>4. HeadInv'
    BY <2>1 DEF WrittenInv, HeadInv, BodyFrom, Value, size
  <2>. QED
    BY <2>2, <2>3, <2>4 DEF WrittenInv
<1>. QED
  BY <1>1, <1>2, <1>3, <1>4, <1>5, <1>6, <1>7, <1>8, <1>9, <1>10, <1>11, <1>12, <1>13, <1>14,
     <1>15, <1>16, <1>17, <1>18 DEF Next

-----------------------------------------------------------------------------
(* The requests that are never refused: the places of a well-formed text,  *)
(* and where the parser is among them.                                     *)

\* The method of the text ends before n.
MethodText(t, n) ==
    \/ \E m \in Methods : CharAt(t, 0) = m[2] /\ n = m[3]
    \/ \E m \in MethodsWithP :
          CharAt(t, 0) = "P" /\ 1 < Len(t) /\ CharAt(t, 1) = m[2] /\ n = m[3]

\* The characters of a path or a query, from i up to j.
TargetText(t, i, j, more) ==
    \A k \in i .. j - 1 :
        \/ is_pchar(CharAt(t, k)) \/ CharAt(t, k) \in more
        \/ /\ CharAt(t, k) = "pct" /\ k + 2 < j
           /\ CharAt(t, k + 1) \in Hex /\ CharAt(t, k + 2) \in Hex

\* A header line at r with its colon at c and its end at e, and no blanks in
\* the value but for the first character.
PlainLine(t, r, c, e) ==
    /\ r < c /\ c < e /\ CharAt(t, r) \in Letter /\ CharAt(t, c) = "colon" /\ LineEnd(t, e)
    /\ \A k \in r .. c - 1 : CharAt(t, k) \in Letter \cup {"dash"}
    /\ \A k \in c + 1 .. e - 1 : is_vchar(CharAt(t, k)) \/ (k = c + 1 /\ CharAt(t, k) = "sp")

\* The method ends before n, the path before p, the query before q, and the
\* lines before b.
RequestLineText(t, n, p, q) ==
    /\ MethodText(t, n) /\ n + 1 < p /\ p <= q /\ q + 10 < Len(t)
    /\ CharAt(t, n) = "sp" /\ CharAt(t, n + 1) = "slash"
    /\ TargetText(t, n + 1, p, {"slash"})
    /\ p = q \/ (CharAt(t, p) = "quest" /\ TargetText(t, p, q, {"slash", "quest"}))
    /\ CharAt(t, q) = "sp" /\ CharAt(t, q + 1) = "H" /\ LineEnd(t, q + 9)

PlainHead(t, q, b) ==
    /\ q + 9 <= b /\ b + 3 < Len(t) /\ LineEnd(t, b) /\ LineEnd(t, b + 2)
    /\ \A r \in q + 11 .. b :
          LineEnd(t, r - 2) => \E c, e \in 0 .. Len(t) : PlainLine(t, r, c, e)

WellFormedAt(t, n, p, q, b) == RequestLineText(t, n, p, q) /\ PlainHead(t, q, b)

\* The parser in the request line of such a text.
InRequestLine(n, p, q) ==
    /\ pc = "method" => position = 0
    /\ pc = "space_1" => position = n
    /\ pc = "path" => position = n + 1
    /\ pc = "path_rest" => position \in n + 2 .. p
    /\ pc = "path_hex_1" =>
          position \in n + 2 .. p /\ CharAt(text, position - 1) = "pct"
    /\ pc = "path_hex_2" =>
          position \in n + 3 .. p + 1 /\ CharAt(text, position - 2) = "pct"
    /\ pc = "query_rest" => position \in p + 1 .. q
    /\ pc = "query_hex_1" =>
          position \in p + 1 .. q /\ CharAt(text, position - 1) = "pct"
    /\ pc = "query_hex_2" =>
          position \in p + 2 .. q + 1 /\ CharAt(text, position - 2) = "pct"
    /\ pc \in {"query_hex_1", "query_hex_2", "query_rest"} => p # q
    /\ pc \in {"query_end", "space_2"} => position = q
    /\ pc = "version" => position = q + 1
    /\ pc = "cr_1" => position = q + 9
    /\ pc = "nl_1" => position = q + 10

\* The parser in the header line at r.
InLine(r, c, e) ==
    /\ pc = "name" => position \in r .. c
    /\ pc = "colon" => position = c
    /\ pc = "space_3" => position = c + 1
    /\ pc = "value" =>
          position \in c + 1 .. e /\ (position = c + 1 => CharAt(text, position) # "sp")
    /\ pc = "content" => position \in c + 2 .. e
    /\ pc \in {"value_end", "cr_2"} => position = e
    /\ pc = "nl_2" => position = e + 1

Line == {"name", "colon", "space_3", "value", "content", "value_end", "cr_2", "nl_2"}

InPlainHead(q, b) ==
    /\ pc = "header" => position \in q + 11 .. b + 2 /\ LineEnd(text, position - 2)
    /\ pc \in Line =>
          \E r, c, e \in 0 .. size : q + 11 <= r /\ e <= b /\ PlainLine(text, r, c, e) /\ InLine(r, c, e)
    /\ pc = "nl_3" => position = b + 3

OnTrack(n, p, q, b) ==
    pc \notin {"thrown", "blanks"} /\ InRequestLine(n, p, q) /\ InPlainHead(q, b)

AcceptInv ==
    \A n, p, q, b \in Nat : WellFormedAt(text, n, p, q, b) => OnTrack(n, p, q, b)

\* A well-formed request has these places.
LEMMA WellFormedPlaces ==
    ASSUME text \in Seq(Char), WellFormed
    PROVE  \E n, p, q, b \in Nat : WellFormedAt(text, n, p, q, b)
<1>1. size \in Nat /\ size = Len(text)
  BY DEF size
<1>2. PICK m \in Methods \cup {<<x[1], "P", x[3]>> :
                                 x \in {y \in MethodsWithP : size > 1 /\ At(1) = y[2]}} :
        /\ At(0) = m[2] /\ m[3] + 1 < size /\ At(m[3]) = "sp" /\ At(m[3] + 1) = "slash"
        /\ \E p \in m[3] + 2 .. size - 1 :
              /\ Target(m[3] + 1, p, {"slash"})
              /\ \E q \in p .. size - 2 :
                    /\ At(q) = "sp" /\ At(q + 1) = "H" /\ Break(q + 9)
                    /\ p = q \/ (At(p) = "quest" /\ Target(p, q, {"slash", "quest"}))
                    /\ \E b \in q + 9 .. size - 4 :
                          /\ Break(b) /\ Break(b + 2)
                          /\ \A r \in q + 11 .. b : Break(r - 2) => PlainHeader(r)
  BY DEF WellFormed
<1>3. PICK n \in Nat : n = m[3] /\ MethodText(text, n)
  <2>1. CASE m \in Methods
    <3>1. m[3] \in Nat
      BY <2>1 DEF Methods
    <3>2. CharAt(text, 0) = m[2]
      BY <1>2 DEF At, CharAt
    <3>. QED
      BY <2>1, <3>1, <3>2 DEF MethodText
  <2>2. CASE m \notin Methods
    <3>1. PICK x \in MethodsWithP : size > 1 /\ At(1) = x[2] /\ m = <<x[1], "P", x[3]>>
      BY <2>2
    <3>2. m[2] = "P" /\ m[3] = x[3] /\ x[3] \in Nat
      BY <3>1 DEF MethodsWithP
    <3>3. CharAt(text, 0) = "P" /\ CharAt(text, 1) = x[2] /\ 1 < Len(text)
      BY <1>1, <1>2, <3>1, <3>2 DEF At, CharAt
    <3>. QED
      BY <3>1, <3>2, <3>3 DEF MethodText
  <2>. QED
    BY <2>1, <2>2
<1>4. PICK p \in n + 2 .. size - 1 :
        /\ Target(n + 1, p, {"slash"})
        /\ \E q \in p .. size - 2 :
              /\ At(q) = "sp" /\ At(q + 1) = "H" /\ Break(q + 9)
              /\ p = q \/ (At(p) = "quest" /\ Target(p, q, {"slash", "quest"}))
              /\ \E b \in q + 9 .. size - 4 :
                    /\ Break(b) /\ Break(b + 2)
                    /\ \A r \in q + 11 .. b : Break(r - 2) => PlainHeader(r)
  BY <1>2, <1>3
<1>5. PICK q \in p .. size - 2 :
        /\ At(q) = "sp" /\ At(q + 1) = "H" /\ Break(q + 9)
        /\ p = q \/ (At(p) = "quest" /\ Target(p, q, {"slash", "quest"}))
        /\ \E b \in q + 9 .. size - 4 :
              /\ Break(b) /\ Break(b + 2)
              /\ \A r \in q + 11 .. b : Break(r - 2) => PlainHeader(r)
  BY <1>4
<1>6. PICK b \in q + 9 .. size - 4 :
        /\ Break(b) /\ Break(b + 2)
        /\ \A r \in q + 11 .. b : Break(r - 2) => PlainHeader(r)
  BY <1>5
<1>7. p \in Nat /\ q \in Nat /\ b \in Nat
  BY <1>1, <1>3
<1>8. ASSUME NEW i, NEW j, NEW more, Target(i, j, more) PROVE TargetText(text, i, j, more)
  BY <1>8 DEF Target, TargetText, At, CharAt
<1>9. RequestLineText(text, n, p, q)
  <2>1. n + 1 < p /\ p <= q /\ q + 10 < Len(text)
    <3>1. (q + 9) + 1 < size
      BY <1>5 DEF Break
    <3>. QED
      BY <1>1, <1>3, <1>7, <3>1
  <2>2. /\ CharAt(text, n) = "sp" /\ CharAt(text, n + 1) = "slash"
        /\ CharAt(text, q) = "sp" /\ CharAt(text, q + 1) = "H"
    BY <1>2, <1>3, <1>5 DEF At, CharAt
  <2>3. LineEnd(text, q + 9)
    BY <1>5, BreakIsLineEnd
  <2>4. TargetText(text, n + 1, p, {"slash"})
    BY <1>4, <1>8
  <2>5. p = q \/ (CharAt(text, p) = "quest" /\ TargetText(text, p, q, {"slash", "quest"}))
    BY <1>5, <1>8 DEF At, CharAt
  <2>. QED
    BY <1>3, <2>1, <2>2, <2>3, <2>4, <2>5 DEF RequestLineText
<1>10. PlainHead(text, q, b)
  <2>1. q + 9 <= b /\ b + 3 < Len(text)
    BY <1>1, <1>7
  <2>2. LineEnd(text, b) /\ LineEnd(text, b + 2)
    BY <1>6, BreakIsLineEnd
  <2>3. ASSUME NEW r \in q + 11 .. b, LineEnd(text, r - 2)
        PROVE  \E c, e \in 0 .. Len(text) : PlainLine(text, r, c, e)
    <3>1. PlainHeader(r)
      BY <1>6, <2>3, BreakIsLineEnd
    <3>2. PICK c \in r + 1 .. size - 1 :
             /\ At(c) = "colon"
             /\ \A k \in r .. c - 1 : At(k) \in Letter \cup {"dash"}
             /\ \E e \in c + 1 .. size - 1 :
                   /\ Break(e)
                   /\ \A k \in c + 1 .. e - 1 : is_vchar(At(k)) \/ (k = c + 1 /\ At(k) = "sp")
      BY <3>1 DEF PlainHeader
    <3>3. PICK e \in c + 1 .. size - 1 :
             /\ Break(e)
             /\ \A k \in c + 1 .. e - 1 : is_vchar(At(k)) \/ (k = c + 1 /\ At(k) = "sp")
      BY <3>2
    <3>4. At(r) \in Letter
      BY <3>1 DEF PlainHeader
    <3>5. LineEnd(text, e)
      BY <3>3, BreakIsLineEnd
    <3>6. r < c /\ c < e /\ c \in 0 .. Len(text) /\ e \in 0 .. Len(text)
      BY <1>1, <1>7, <3>2, <3>3
    <3>7. PlainLine(text, r, c, e)
      BY <3>2, <3>3, <3>4, <3>5, <3>6 DEF PlainLine, At, CharAt
    <3>. QED
      BY <3>6, <3>7
  <2>. QED
    BY <2>1, <2>2, <2>3 DEF PlainHead
<1>. QED
  BY <1>7, <1>9, <1>10 DEF WellFormedAt

\* The invariant has the property in it.
LEMMA AcceptSuffices == ParserInv /\ AcceptInv => WellFormedAccepted
<1>. SUFFICES ASSUME ParserInv, AcceptInv, pc = "thrown", WellFormed PROVE FALSE
  BY DEF WellFormedAccepted
<1>1. PICK n, p, q, b \in Nat : WellFormedAt(text, n, p, q, b)
  BY WellFormedPlaces DEF ParserInv
<1>. QED
  BY <1>1 DEF AcceptInv, OnTrack

\* The places lie in the text, one behind the other.
LEMMA PlacesInOrder ==
    ASSUME ParserInv, NEW n \in Nat, NEW p \in Nat, NEW q \in Nat, NEW b \in Nat,
           WellFormedAt(text, n, p, q, b)
    PROVE  /\ size \in Nat /\ size = Len(text) /\ text \in Seq(Char) /\ position \in Nat
           /\ n + 1 < p /\ p <= q /\ q + 10 < size /\ q + 9 <= b /\ b + 3 < size
BY Facts DEF WellFormedAt, RequestLineText, PlainHead

\* A step in the request line that stays on track.
LEMMA TrackRequestLine ==
    ASSUME NEW n, NEW p, NEW q, NEW b, pc' \notin Line \cup {"header", "nl_3", "thrown", "blanks"},
           InRequestLine(n, p, q)'
    PROVE  OnTrack(n, p, q, b)'
BY DEF OnTrack, InPlainHead

\* scan_expected, where the character is there.
LEMMA ExpectedFound ==
    ASSUME NEW at, NEW ch, NEW next, scan_expected(at, ch, next), position < size,
           CharAt(text, position) = ch, position \in Nat, size \in Nat
    PROVE  pc' = next /\ position' = position + 1
<1>1. current_char = {ch}
  BY CurrentIs
<1>2. increment_position(next)
  BY <1>1 DEF scan_expected
<1>. QED
  BY <1>2 DEF increment_position

\* The method has its first character, or its first two.
LEMMA MethodOnTrack ==
    ASSUME ParserInv, NEW n \in Nat, NEW p \in Nat, NEW q \in Nat, NEW b \in Nat,
           WellFormedAt(text, n, p, q, b), OnTrack(n, p, q, b), scan_method
    PROVE  OnTrack(n, p, q, b)'
<1>1. position = 0 /\ pc = "method" /\ size' = size
  BY DEF OnTrack, InRequestLine, scan_method, size
<1>2. n + 1 < p /\ p <= q /\ q + 10 < size /\ size \in Nat /\ size = Len(text)
  BY PlacesInOrder
<1>3. current_char = {CharAt(text, 0)}
  BY <1>1, <1>2, CurrentIs
<1>4. position' = n
  <2>1. MethodText(text, n)
    BY DEF WellFormedAt, RequestLineText
  <2>2. CASE \E m \in Methods : CharAt(text, 0) = m[2] /\ n = m[3]
    <3>1. PICK m \in Methods : CharAt(text, 0) = m[2] /\ n = m[3]
      BY <2>2
    <3>2. \E k \in Methods : CharAt(text, 0) = k[2] /\ position' = k[3]
      <4>1. CharAt(text, 0) # "P"
        BY <3>1 DEF Methods
      <4>. QED
        BY <1>3, <3>1, <4>1 DEF scan_method
    <3>. QED
      BY <3>1, <3>2 DEF Methods
  <2>3. CASE \E m \in MethodsWithP :
                CharAt(text, 0) = "P" /\ 1 < Len(text) /\ CharAt(text, 1) = m[2] /\ n = m[3]
    <3>1. PICK m \in MethodsWithP :
             CharAt(text, 0) = "P" /\ 1 < Len(text) /\ CharAt(text, 1) = m[2] /\ n = m[3]
      BY <2>3
    <3>2. text[2] = CharAt(text, 1) /\ size > 1
      BY <1>2, <3>1 DEF CharAt
    <3>3. \A k \in Methods : k[2] # "P"
      BY DEF Methods
    <3>4. \E k \in MethodsWithP : CharAt(text, 1) = k[2] /\ position' = k[3]
      BY <1>3, <3>1, <3>2, <3>3 DEF scan_method
    <3>. QED
      BY <3>1, <3>4 DEF MethodsWithP
  <2>. QED
    BY <2>1, <2>2, <2>3 DEF MethodText
<1>5. pc' = "space_1"
  BY <1>2, <1>4 DEF scan_method
<1>6. InRequestLine(n, p, q)'
  BY <1>4, <1>5 DEF InRequestLine
<1>. QED
  BY <1>5, <1>6, TrackRequestLine DEF Line

\* The characters that are asked for are there.
LEMMA ExpectOnTrack ==
    ASSUME ParserInv, NEW n \in Nat, NEW p \in Nat, NEW q \in Nat, NEW b \in Nat,
           WellFormedAt(text, n, p, q, b), OnTrack(n, p, q, b), ExpectCharacter
    PROVE  OnTrack(n, p, q, b)'
<1>1. UNCHANGED text /\ size' = size
  BY DEF ExpectCharacter, size
<1>2. /\ size \in Nat /\ size = Len(text) /\ text \in Seq(Char) /\ position \in Nat
      /\ n + 1 < p /\ p <= q /\ q + 10 < size /\ q + 9 <= b /\ b + 3 < size
  BY PlacesInOrder
<1>3. /\ CharAt(text, n) = "sp" /\ CharAt(text, n + 1) = "slash"
      /\ CharAt(text, q) = "sp" /\ CharAt(text, q + 1) = "H" /\ LineEnd(text, q + 9)
      /\ LineEnd(text, b + 2)
  BY DEF WellFormedAt, RequestLineText, PlainHead
<1>4. CASE scan_expected("space_1", "sp", "path")
  <2>1. position = n
    BY <1>4 DEF scan_expected, OnTrack, InRequestLine
  <2>2. pc' = "path" /\ position' = position + 1
    BY <1>2, <1>3, <1>4, <2>1, ExpectedFound
  <2>3. InRequestLine(n, p, q)'
    BY <2>1, <2>2 DEF InRequestLine
  <2>. QED
    BY <2>2, <2>3, TrackRequestLine DEF Line
<1>5. CASE scan_expected("space_2", "sp", "version")
  <2>1. position = q
    BY <1>5 DEF scan_expected, OnTrack, InRequestLine
  <2>2. pc' = "version" /\ position' = position + 1
    BY <1>2, <1>3, <1>5, <2>1, ExpectedFound
  <2>3. InRequestLine(n, p, q)'
    BY <2>1, <2>2 DEF InRequestLine
  <2>. QED
    BY <2>2, <2>3, TrackRequestLine DEF Line
<1>6. CASE scan_expected("cr_1", "cr", "nl_1")
  <2>1. position = q + 9
    BY <1>6 DEF scan_expected, OnTrack, InRequestLine
  <2>2. CharAt(text, position) = "cr" /\ position < size
    BY <1>2, <1>3, <2>1 DEF LineEnd
  <2>3. pc' = "nl_1" /\ position' = position + 1
    BY <1>2, <1>6, <2>2, ExpectedFound
  <2>4. InRequestLine(n, p, q)'
    BY <2>1, <2>3 DEF InRequestLine
  <2>. QED
    BY <2>3, <2>4, TrackRequestLine DEF Line
<1>7. CASE scan_expected("nl_1", "nl", "header")
  <2>1. position = q + 10 /\ position = (q + 9) + 1
    BY <1>7 DEF scan_expected, OnTrack, InRequestLine
  <2>2. CharAt(text, position) = "nl" /\ position < size
    BY <1>2, <1>3, <2>1 DEF LineEnd
  <2>3. pc' = "header" /\ position' = position + 1
    BY <1>2, <1>7, <2>2, ExpectedFound
  <2>4. position' \in q + 11 .. b + 2 /\ position' - 2 = q + 9
    BY <1>2, <2>1, <2>3
  <2>5. InPlainHead(q, b)'
    BY <1>1, <1>3, <2>3, <2>4 DEF InPlainHead, Line
  <2>. QED
    BY <2>3, <2>5 DEF OnTrack, InRequestLine
<1>8. CASE scan_expected("colon", "colon", "space_3") \/ scan_expected("cr_2", "cr", "nl_2")
  <2>1. PICK r \in 0 .. size, c \in 0 .. size, e \in 0 .. size :
           q + 11 <= r /\ e <= b /\ PlainLine(text, r, c, e) /\ InLine(r, c, e)
    BY <1>8 DEF scan_expected, OnTrack, InPlainHead, Line
  <2>2. r < c /\ c < e /\ CharAt(text, c) = "colon" /\ CharAt(text, e) = "cr"
    BY <2>1 DEF PlainLine, LineEnd
  <2>3. InLine(r, c, e)' /\ pc' \in {"space_3", "nl_2"}
    <3>1. CASE scan_expected("colon", "colon", "space_3")
      <4>1. position = c /\ position < size
        BY <1>2, <2>1, <2>2, <3>1 DEF scan_expected, InLine
      <4>2. pc' = "space_3" /\ position' = c + 1
        BY <1>2, <2>2, <3>1, <4>1, ExpectedFound
      <4>. QED
        BY <4>2 DEF InLine
    <3>2. CASE scan_expected("cr_2", "cr", "nl_2")
      <4>1. position = e /\ position < size
        BY <1>2, <2>1, <2>2, <3>2 DEF scan_expected, InLine
      <4>2. pc' = "nl_2" /\ position' = e + 1
        BY <1>2, <2>2, <3>2, <4>1, ExpectedFound
      <4>. QED
        BY <4>2 DEF InLine
    <3>. QED
      BY <1>8, <3>1, <3>2
  <2>4. InPlainHead(q, b)'
    BY <1>1, <2>1, <2>3 DEF InPlainHead
  <2>. QED
    BY <2>3, <2>4 DEF OnTrack, InRequestLine
<1>9. CASE scan_expected("nl_3", "nl", "body")
  <2>1. position = b + 3 /\ position = (b + 2) + 1
    BY <1>9 DEF scan_expected, OnTrack, InPlainHead
  <2>2. CharAt(text, position) = "nl" /\ position < size
    BY <1>2, <1>3, <2>1 DEF LineEnd
  <2>3. pc' = "body"
    BY <1>2, <1>9, <2>2, ExpectedFound
  <2>. QED
    BY <2>3 DEF OnTrack, InRequestLine, InPlainHead, Line
<1>. QED
  BY <1>4, <1>5, <1>6, <1>7, <1>8, <1>9 DEF ExpectCharacter

\* A "%" of the target has its two digits before the end of it.
LEMMA PercentInTarget ==
    ASSUME NEW t \in Seq(Char), NEW i \in Nat, NEW j \in Nat, NEW more, "pct" \notin more,
           TargetText(t, i, j, more), NEW k \in i .. j - 1, CharAt(t, k) = "pct"
    PROVE  k + 2 < j /\ CharAt(t, k + 1) \in Hex /\ CharAt(t, k + 2) \in Hex
<1>1. ~ is_pchar("pct")
  BY DEF is_pchar, Letter, Upper, Digit
<1>. QED
  BY <1>1 DEF TargetText

\* The loops over the path and the query.
LEMMA TargetOnTrack ==
    ASSUME ParserInv, NEW n \in Nat, NEW p \in Nat, NEW q \in Nat, NEW b \in Nat,
           WellFormedAt(text, n, p, q, b), OnTrack(n, p, q, b),
           NEW at \in {"path_rest", "query_rest"}, NEW more \in {{"slash"}, {"slash", "quest"}},
           at = "path_rest" => more = {"slash"}, ScanTarget(at, more)
    PROVE  OnTrack(n, p, q, b)'
<1>1. /\ size \in Nat /\ size = Len(text) /\ position \in Nat
      /\ n + 1 < p /\ p <= q /\ q + 10 < size
  BY PlacesInOrder
<1>2. /\ pc = at /\ position < size /\ pc' = at /\ position' = position + 1
      /\ \E c \in current_char : is_pchar(c) \/ c \in more
  BY <1>1 DEF ScanTarget, increment_position
<1>3. is_pchar(CharAt(text, position)) \/ CharAt(text, position) \in more
  BY <1>2, CurrentIs
<1>4. CASE at = "path_rest"
  <2>1. position \in n + 2 .. p
    BY <1>2, <1>4 DEF OnTrack, InRequestLine
  <2>2. CharAt(text, p) \in {"sp", "quest"}
    BY DEF WellFormedAt, RequestLineText
  <2>3. position # p
    BY <1>3, <1>4, <2>2 DEF is_pchar, Letter, Upper, Digit
  <2>4. InRequestLine(n, p, q)'
    BY <1>1, <1>2, <1>4, <2>1, <2>3 DEF InRequestLine
  <2>. QED
    BY <1>2, <1>4, <2>4, TrackRequestLine DEF Line
<1>5. CASE at = "query_rest"
  <2>1. position \in p + 1 .. q /\ p # q
    BY <1>2, <1>5 DEF OnTrack, InRequestLine
  <2>2. CharAt(text, q) = "sp"
    BY DEF WellFormedAt, RequestLineText
  <2>3. position # q
    BY <1>3, <2>2 DEF is_pchar, Letter, Upper, Digit
  <2>4. InRequestLine(n, p, q)'
    BY <1>1, <1>2, <1>5, <2>1, <2>3 DEF InRequestLine
  <2>. QED
    BY <1>2, <1>5, <2>4, TrackRequestLine DEF Line
<1>. QED
  BY <1>4, <1>5

\* What ScanPercent does, phase by phase.
LEMMA PercentSteps ==
    ASSUME NEW u, NEW v, NEW w, u # v, v # w, u # w, ScanPercent(<<u, v, w>>), position < size,
           position \in Nat, size \in Nat,
           pc \in {v, w} => CharAt(text, position) \in Hex
    PROVE  /\ position' = position + 1 /\ UNCHANGED text
           /\ \/ pc = u /\ pc' = v /\ CharAt(text, position) = "pct"
              \/ pc = v /\ pc' = w
              \/ pc = w /\ pc' = u
<1>1. current_char = {CharAt(text, position)}
  BY CurrentIs
<1>2. CASE pc = u
  BY <1>1, <1>2 DEF ScanPercent, increment_position
<1>3. CASE pc \in {v, w}
  BY <1>1, <1>3 DEF ScanPercent, increment_position
<1>. QED
  BY <1>2, <1>3 DEF ScanPercent

\* A percent sign of the path.
LEMMA PathPercentOnTrack ==
    ASSUME ParserInv, NEW n \in Nat, NEW p \in Nat, NEW q \in Nat, NEW b \in Nat,
           WellFormedAt(text, n, p, q, b), OnTrack(n, p, q, b),
           ScanPercent(<<"path_rest", "path_hex_1", "path_hex_2">>)
    PROVE  OnTrack(n, p, q, b)'
<1>1. /\ size \in Nat /\ size = Len(text) /\ position \in Nat /\ text \in Seq(Char)
      /\ n + 1 < p /\ p <= q /\ q + 10 < size
  BY PlacesInOrder
<1>2. pc \in {"path_rest", "path_hex_1", "path_hex_2"}
  BY DEF ScanPercent
<1>3. ASSUME NEW k \in n + 1 .. p - 1, CharAt(text, k) = "pct"
      PROVE  k + 2 < p /\ CharAt(text, k + 1) \in Hex /\ CharAt(text, k + 2) \in Hex
  <2>1. TargetText(text, n + 1, p, {"slash"})
    BY DEF WellFormedAt, RequestLineText
  <2>. QED
    BY <1>1, <1>3, <2>1, PercentInTarget
<1>4. /\ position < size
      /\ pc = "path_hex_1" => position + 1 < p /\ CharAt(text, position) \in Hex
      /\ pc = "path_hex_2" => position < p /\ CharAt(text, position) \in Hex
  <2>1. CASE pc = "path_rest"
    BY <1>1, <2>1 DEF OnTrack, InRequestLine
  <2>2. CASE pc = "path_hex_1"
    <3>1. position \in n + 2 .. p /\ CharAt(text, position - 1) = "pct"
      BY <2>2 DEF OnTrack, InRequestLine
    <3>2. position - 1 \in n + 1 .. p - 1 /\ (position - 1) + 1 = position
      BY <3>1
    <3>. QED
      BY <1>1, <1>3, <2>2, <3>1, <3>2
  <2>3. CASE pc = "path_hex_2"
    <3>1. position \in n + 3 .. p + 1 /\ CharAt(text, position - 2) = "pct"
      BY <2>3 DEF OnTrack, InRequestLine
    <3>2. position - 2 \in n + 1 .. p - 1 /\ (position - 2) + 2 = position
      BY <3>1
    <3>. QED
      BY <1>1, <1>3, <2>3, <3>1, <3>2
  <2>. QED
    BY <1>2, <2>1, <2>2, <2>3
<1>5. /\ position' = position + 1 /\ UNCHANGED text
      /\ \/ pc = "path_rest" /\ pc' = "path_hex_1" /\ CharAt(text, position) = "pct"
         \/ pc = "path_hex_1" /\ pc' = "path_hex_2"
         \/ pc = "path_hex_2" /\ pc' = "path_rest"
  BY <1>1, <1>4, PercentSteps
<1>6. InRequestLine(n, p, q)'
  <2>1. CASE pc = "path_rest"
    <3>1. position \in n + 2 .. p /\ position' - 1 = position /\ CharAt(text, position) = "pct"
          /\ CharAt(text, p) # "pct"
      BY <1>1, <1>5, <2>1 DEF OnTrack, InRequestLine, WellFormedAt, RequestLineText
    <3>2. position' \in n + 2 .. p
      BY <1>1, <1>5, <3>1
    <3>. QED
      BY <1>5, <2>1, <3>1, <3>2 DEF InRequestLine
  <2>2. CASE pc = "path_hex_1"
    <3>1. position \in n + 2 .. p /\ position' - 2 = position - 1 /\ CharAt(text, position - 1) = "pct"
      BY <1>1, <1>5, <2>2 DEF OnTrack, InRequestLine
    <3>2. position' \in n + 3 .. p + 1
      BY <1>1, <1>5, <3>1
    <3>. QED
      BY <1>5, <2>2, <3>1, <3>2 DEF InRequestLine
  <2>3. CASE pc = "path_hex_2"
    <3>1. position \in n + 3 .. p + 1 /\ position < p
      BY <1>4, <2>3 DEF OnTrack, InRequestLine
    <3>2. position' \in n + 2 .. p
      BY <1>1, <1>5, <3>1
    <3>. QED
      BY <1>5, <2>3, <3>2 DEF InRequestLine
  <2>. QED
    BY <1>2, <2>1, <2>2, <2>3
<1>. QED
  BY <1>5, <1>6, TrackRequestLine DEF Line

\* A percent sign of the query.
LEMMA QueryPercentOnTrack ==
    ASSUME ParserInv, NEW n \in Nat, NEW p \in Nat, NEW q \in Nat, NEW b \in Nat,
           WellFormedAt(text, n, p, q, b), OnTrack(n, p, q, b),
           ScanPercent(<<"query_rest", "query_hex_1", "query_hex_2">>)
    PROVE  OnTrack(n, p, q, b)'
<1>1. /\ size \in Nat /\ size = Len(text) /\ position \in Nat /\ text \in Seq(Char)
      /\ n + 1 < p /\ p <= q /\ q + 10 < size
  BY PlacesInOrder
<1>2. pc \in {"query_rest", "query_hex_1", "query_hex_2"} /\ p # q
  BY DEF ScanPercent, OnTrack, InRequestLine
<1>3. ASSUME NEW k \in p .. q - 1, CharAt(text, k) = "pct"
      PROVE  k + 2 < q /\ CharAt(text, k + 1) \in Hex /\ CharAt(text, k + 2) \in Hex
  <2>1. TargetText(text, p, q, {"slash", "quest"})
    BY <1>2 DEF WellFormedAt, RequestLineText
  <2>. QED
    BY <1>1, <1>3, <2>1, PercentInTarget
<1>4. /\ position < size
      /\ pc = "query_hex_1" => position + 1 < q /\ CharAt(text, position) \in Hex
      /\ pc = "query_hex_2" => position < q /\ CharAt(text, position) \in Hex
  <2>1. CASE pc = "query_rest"
    BY <1>1, <2>1 DEF OnTrack, InRequestLine
  <2>2. CASE pc = "query_hex_1"
    <3>1. position \in p + 1 .. q /\ CharAt(text, position - 1) = "pct"
      BY <2>2 DEF OnTrack, InRequestLine
    <3>2. position - 1 \in p .. q - 1 /\ (position - 1) + 1 = position
      BY <3>1
    <3>. QED
      BY <1>1, <1>3, <2>2, <3>1, <3>2
  <2>3. CASE pc = "query_hex_2"
    <3>1. position \in p + 2 .. q + 1 /\ CharAt(text, position - 2) = "pct"
      BY <2>3 DEF OnTrack, InRequestLine
    <3>2. position - 2 \in p .. q - 1 /\ (position - 2) + 2 = position
      BY <3>1
    <3>. QED
      BY <1>1, <1>3, <2>3, <3>1, <3>2
  <2>. QED
    BY <1>2, <2>1, <2>2, <2>3
<1>5. /\ position' = position + 1 /\ UNCHANGED text
      /\ \/ pc = "query_rest" /\ pc' = "query_hex_1" /\ CharAt(text, position) = "pct"
         \/ pc = "query_hex_1" /\ pc' = "query_hex_2"
         \/ pc = "query_hex_2" /\ pc' = "query_rest"
  BY <1>1, <1>4, PercentSteps
<1>6. InRequestLine(n, p, q)'
  <2>1. CASE pc = "query_rest"
    <3>1. position \in p + 1 .. q /\ position' - 1 = position /\ CharAt(text, position) = "pct"
          /\ CharAt(text, q) # "pct"
      BY <1>1, <1>5, <2>1 DEF OnTrack, InRequestLine, WellFormedAt, RequestLineText
    <3>2. position' \in p + 1 .. q
      BY <1>1, <1>5, <3>1
    <3>. QED
      BY <1>2, <1>5, <2>1, <3>1, <3>2 DEF InRequestLine
  <2>2. CASE pc = "query_hex_1"
    <3>1. position \in p + 1 .. q /\ position' - 2 = position - 1 /\ CharAt(text, position - 1) = "pct"
      BY <1>1, <1>5, <2>2 DEF OnTrack, InRequestLine
    <3>2. position' \in p + 2 .. q + 1
      BY <1>1, <1>5, <3>1
    <3>. QED
      BY <1>2, <1>5, <2>2, <3>1, <3>2 DEF InRequestLine
  <2>3. CASE pc = "query_hex_2"
    <3>1. position \in p + 2 .. q + 1 /\ position < q
      BY <1>4, <2>3 DEF OnTrack, InRequestLine
    <3>2. position' \in p + 1 .. q
      BY <1>1, <1>5, <3>1
    <3>. QED
      BY <1>2, <1>5, <2>3, <3>2 DEF InRequestLine
  <2>. QED
    BY <1>2, <2>1, <2>2, <2>3
<1>. QED
  BY <1>5, <1>6, TrackRequestLine DEF Line

\* The path begins with a slash, and ends where the places say.
LEMMA PathOnTrack ==
    ASSUME ParserInv, NEW n \in Nat, NEW p \in Nat, NEW q \in Nat, NEW b \in Nat,
           WellFormedAt(text, n, p, q, b), OnTrack(n, p, q, b), BeginPath \/ EndPath
    PROVE  OnTrack(n, p, q, b)'
<1>1. /\ size \in Nat /\ size = Len(text) /\ position \in Nat
      /\ n + 1 < p /\ p <= q /\ q + 10 < size
  BY PlacesInOrder
<1>2. CASE BeginPath
  <2>1. position = n + 1 /\ CharAt(text, n + 1) = "slash" /\ position < size
    BY <1>1, <1>2 DEF BeginPath, OnTrack, InRequestLine, WellFormedAt, RequestLineText
  <2>2. current_char = {"slash"}
    BY <2>1, CurrentIs
  <2>3. pc' = "path_rest" /\ position' = position + 1
    BY <1>1, <1>2, <2>1, <2>2 DEF BeginPath, increment_position
  <2>4. InRequestLine(n, p, q)'
    BY <1>1, <2>1, <2>3 DEF InRequestLine
  <2>. QED
    BY <2>3, <2>4, TrackRequestLine DEF Line
<1>3. CASE EndPath
  <2>1. position \in n + 2 .. p /\ position < size
    BY <1>1, <1>3 DEF EndPath, OnTrack, InRequestLine
  <2>2. current_char = {CharAt(text, position)}
    BY <2>1, CurrentIs
  <2>3. ~ is_pchar(CharAt(text, position)) /\ CharAt(text, position) \notin {"slash", "pct"}
    BY <1>3, <2>1, <2>2 DEF EndPath
  <2>4. position = p
    <3>1. TargetText(text, n + 1, p, {"slash"})
      BY DEF WellFormedAt, RequestLineText
    <3>2. position \notin n + 1 .. p - 1
      BY <2>3, <3>1 DEF TargetText
    <3>. QED
      BY <1>1, <2>1, <3>2
  <2>5. CASE p = q
    <3>1. current_char = {"sp"}
      BY <2>2, <2>4, <2>5 DEF WellFormedAt, RequestLineText
    <3>2. pc' = "query_end" /\ position' = position
      BY <1>3, <3>1 DEF EndPath
    <3>3. InRequestLine(n, p, q)'
      BY <2>4, <2>5, <3>2 DEF InRequestLine
    <3>. QED
      BY <3>2, <3>3, TrackRequestLine DEF Line
  <2>6. CASE p # q
    <3>1. current_char = {"quest"}
      BY <2>2, <2>4, <2>6 DEF WellFormedAt, RequestLineText
    <3>2. pc' = "query_rest" /\ position' = position + 1
      BY <1>1, <1>3, <2>1, <3>1 DEF EndPath, increment_position
    <3>3. InRequestLine(n, p, q)'
      BY <1>1, <2>4, <2>6, <3>2 DEF InRequestLine
    <3>. QED
      BY <3>2, <3>3, TrackRequestLine DEF Line
  <2>. QED
    BY <2>5, <2>6
<1>. QED
  BY <1>2, <1>3

\* So does the query, and behind it the version begins with its letter.
LEMMA QueryOnTrack ==
    ASSUME ParserInv, NEW n \in Nat, NEW p \in Nat, NEW q \in Nat, NEW b \in Nat,
           WellFormedAt(text, n, p, q, b), OnTrack(n, p, q, b), EndQuery \/ scan_http_version
    PROVE  OnTrack(n, p, q, b)'
<1>1. /\ size \in Nat /\ size = Len(text) /\ position \in Nat
      /\ n + 1 < p /\ p <= q /\ q + 10 < size
  BY PlacesInOrder
<1>2. CASE EndQuery
  <2>1. position = q
    <3>1. CASE pc = "query_end"
      BY <3>1 DEF OnTrack, InRequestLine
    <3>2. CASE pc = "query_rest"
      <4>1. position \in p + 1 .. q /\ p # q /\ position < size
        BY <1>1, <3>2 DEF OnTrack, InRequestLine
      <4>2. current_char = {CharAt(text, position)}
        BY <4>1, CurrentIs
      <4>3. /\ ~ is_pchar(CharAt(text, position))
            /\ CharAt(text, position) \notin {"slash", "quest", "pct"}
        BY <1>2, <3>2, <4>1, <4>2 DEF EndQuery
      <4>4. TargetText(text, p, q, {"slash", "quest"})
        BY <4>1 DEF WellFormedAt, RequestLineText
      <4>5. position \notin p .. q - 1
        BY <4>3, <4>4 DEF TargetText
      <4>. QED
        BY <1>1, <4>1, <4>5
    <3>. QED
      BY <1>2, <3>1, <3>2 DEF EndQuery
  <2>2. pc' = "space_2" /\ position' = position
    BY <1>2 DEF EndQuery, cursorVars
  <2>3. InRequestLine(n, p, q)'
    BY <2>1, <2>2 DEF InRequestLine
  <2>. QED
    BY <2>2, <2>3, TrackRequestLine DEF Line
<1>3. CASE scan_http_version
  <2>1. position = q + 1 /\ position < size /\ CharAt(text, position) = "H"
    BY <1>1, <1>3 DEF scan_http_version, OnTrack, InRequestLine, WellFormedAt, RequestLineText
  <2>2. current_char = {"H"}
    BY <2>1, CurrentIs
  <2>3. pc' = "cr_1" /\ position' = position + 8
    BY <1>1, <1>3, <2>1, <2>2 DEF scan_http_version
  <2>4. InRequestLine(n, p, q)'
    BY <2>1, <2>3 DEF InRequestLine
  <2>. QED
    BY <2>3, <2>4, TrackRequestLine DEF Line
<1>. QED
  BY <1>2, <1>3

\* A line ends at the first end there is.
LEMMA PlainLineEnds ==
    ASSUME NEW t \in Seq(Char), NEW r \in Nat, NEW c \in Nat, NEW e \in Nat, PlainLine(t, r, c, e),
           NEW k \in Nat, r <= k, LineEnd(t, k)
    PROVE  e <= k
<1>1. CharAt(t, k) = "cr" /\ r < c /\ c < e
  BY DEF LineEnd, PlainLine
<1>2. ASSUME k < e PROVE FALSE
  <2>1. CASE k < c
    <3>1. CharAt(t, k) \in Letter \cup {"dash"}
      BY <2>1 DEF PlainLine
    <3>. QED
      BY <1>1, <3>1 DEF Letter, Upper
  <2>2. CASE k = c
    BY <1>1, <2>2 DEF PlainLine
  <2>3. CASE k > c
    <3>1. is_vchar(CharAt(t, k)) \/ CharAt(t, k) = "sp"
      BY <1>2, <2>3 DEF PlainLine
    <3>. QED
      BY <1>1, <3>1 DEF is_vchar
  <2>. QED
    BY <2>1, <2>2, <2>3
<1>. QED
  BY <1>2

\* A line begins: a header, or the empty one.
LEMMA BeginHeaderOnTrack ==
    ASSUME ParserInv, NEW n \in Nat, NEW p \in Nat, NEW q \in Nat, NEW b \in Nat,
           WellFormedAt(text, n, p, q, b), OnTrack(n, p, q, b), BeginHeader
    PROVE  OnTrack(n, p, q, b)'
<1>1. /\ size \in Nat /\ size = Len(text) /\ text \in Seq(Char) /\ position \in Nat
      /\ q + 9 <= b /\ b + 3 < size
  BY PlacesInOrder
<1>2. /\ position \in q + 11 .. b + 2 /\ LineEnd(text, position - 2) /\ position < size
      /\ UNCHANGED text /\ size' = size
  BY <1>1 DEF BeginHeader, OnTrack, InPlainHead, size
<1>3. current_char = {CharAt(text, position)}
  BY <1>2, CurrentIs
<1>4. LineEnd(text, b) /\ LineEnd(text, b + 2)
  BY DEF WellFormedAt, PlainHead
<1>5. CASE position <= b
  <2>1. PICK c, e \in 0 .. size : PlainLine(text, position, c, e)
    BY <1>1, <1>2, <1>5 DEF WellFormedAt, PlainHead
  <2>2. CharAt(text, position) \in Letter /\ position < c
    BY <2>1 DEF PlainLine
  <2>3. pc' = "name" /\ position' = position
    BY <1>3, <2>2 DEF BeginHeader, Letter, Upper
  <2>4. e <= b
    BY <1>1, <1>4, <1>5, <2>1, PlainLineEnds
  <2>5. InLine(position, c, e)'
    BY <1>1, <2>2, <2>3 DEF InLine
  <2>6. PICK r \in 0 .. size : r = position
    BY <1>1, <1>2
  <2>7. InLine(r, c, e)'
    BY <1>1, <2>2, <2>3, <2>6 DEF InLine
  <2>8. q + 11 <= r /\ PlainLine(text', r, c, e) /\ r \in 0 .. size' /\ c \in 0 .. size' /\ e \in 0 .. size'
    BY <1>2, <2>1, <2>6
  <2>9. InPlainHead(q, b)'
    BY <2>3, <2>4, <2>7, <2>8 DEF InPlainHead
  <2>. QED
    BY <2>3, <2>9 DEF OnTrack, InRequestLine
<1>6. CASE position = b + 1
  <2>1. position - 2 = b - 1 /\ (b - 1) + 1 = b
    BY <1>6
  <2>2. CharAt(text, b) = "nl"
    BY <1>2, <2>1 DEF LineEnd
  <2>. QED
    BY <1>4, <2>2 DEF LineEnd
<1>7. CASE position = b + 2
  <2>1. CharAt(text, position) = "cr"
    BY <1>4, <1>7 DEF LineEnd
  <2>2. increment_position("nl_3")
    BY <1>3, <2>1 DEF BeginHeader, Letter, Upper
  <2>3. pc' = "nl_3" /\ position' = b + 3
    BY <1>1, <1>2, <1>7, <2>2 DEF increment_position
  <2>. QED
    BY <2>3 DEF OnTrack, InRequestLine, InPlainHead, Line
<1>. QED
  BY <1>1, <1>2, <1>5, <1>6, <1>7

\* A step inside a line that stays in it.
LEMMA TrackLine ==
    ASSUME NEW n, NEW p, NEW q, NEW b, NEW r \in 0 .. size, NEW c \in 0 .. size,
           NEW e \in 0 .. size, q + 11 <= r, e <= b, PlainLine(text, r, c, e),
           UNCHANGED text, pc' \in Line, InLine(r, c, e)'
    PROVE  OnTrack(n, p, q, b)'
<1>1. size' = size
  BY DEF size
<1>2. InPlainHead(q, b)'
  BY <1>1 DEF InPlainHead, Line
<1>. QED
  BY <1>2 DEF OnTrack, InRequestLine, Line

\* What the scanner finds at the position in such a line, for its other steps:
\* none of them fails, and no blanks have to be skipped.
LEMMA LineFacts ==
    ASSUME ParserInv, NEW n \in Nat, NEW p \in Nat, NEW q \in Nat, NEW b \in Nat,
           WellFormedAt(text, n, p, q, b),
           NEW r \in 0 .. size, NEW c \in 0 .. size, NEW e \in 0 .. size, e <= b,
           PlainLine(text, r, c, e), InLine(r, c, e), pc \in Line
    PROVE  /\ r \in Nat /\ c \in Nat /\ e \in Nat /\ position \in Nat /\ size \in Nat
           /\ r < c /\ c < e /\ e + 1 < size /\ position < size
           /\ current_char = {CharAt(text, position)}
           /\ pc = "name" /\ position < c => CharAt(text, position) \in Letter \cup {"dash"}
           /\ pc = "name" /\ position = c => CharAt(text, position) = "colon"
           /\ pc \in {"value", "content"} /\ position < e => is_vchar(CharAt(text, position))
           /\ position = e => CharAt(text, position) = "cr"
           /\ position = e + 1 => CharAt(text, position) = "nl"
<1>1. /\ size \in Nat /\ size = Len(text) /\ position \in Nat /\ b + 3 < size
  BY PlacesInOrder
<1>2. r < c /\ c < e /\ e + 1 < size /\ r \in Nat /\ c \in Nat /\ e \in Nat
  BY <1>1 DEF PlainLine
<1>3. position < size
  BY <1>1, <1>2 DEF InLine, Line
<1>4. current_char = {CharAt(text, position)}
  BY <1>3, CurrentIs
<1>5. /\ pc = "name" /\ position < c => CharAt(text, position) \in Letter \cup {"dash"}
      /\ pc = "name" /\ position = c => CharAt(text, position) = "colon"
  BY <1>1, <1>2 DEF InLine, PlainLine
<1>6. pc \in {"value", "content"} /\ position < e => is_vchar(CharAt(text, position))
  <2>1. SUFFICES ASSUME pc \in {"value", "content"}, position < e
                 PROVE  is_vchar(CharAt(text, position))
    OBVIOUS
  <2>2. position \in c + 1 .. e - 1 /\ (position = c + 1 => CharAt(text, position) # "sp")
    BY <1>1, <1>2, <2>1 DEF InLine
  <2>. QED
    BY <2>2 DEF PlainLine
<1>7. LineEnd(text, e)
  BY DEF PlainLine
<1>8. /\ position = e => CharAt(text, position) = "cr"
      /\ position = e + 1 => CharAt(text, position) = "nl"
  BY <1>7 DEF LineEnd
<1>. QED
  BY <1>1, <1>2, <1>3, <1>4, <1>5, <1>6, <1>8

\* The steps of scan_header inside the line.
LEMMA LineOnTrack ==
    ASSUME ParserInv, NEW n \in Nat, NEW p \in Nat, NEW q \in Nat, NEW b \in Nat,
           WellFormedAt(text, n, p, q, b), OnTrack(n, p, q, b),
           \/ ScanName \/ SkipSpaceBefore \/ BeginFieldContent \/ ScanFieldContent
           \/ EndValue \/ EndHeader
    PROVE  OnTrack(n, p, q, b)'
<1>1. pc \in Line /\ UNCHANGED text /\ size' = size
  BY DEF ScanName, SkipSpaceBefore, BeginFieldContent, ScanFieldContent, EndValue, EndHeader,
         scan_expected, Line, size
<1>2. PICK r \in 0 .. size, c \in 0 .. size, e \in 0 .. size :
         q + 11 <= r /\ e <= b /\ PlainLine(text, r, c, e) /\ InLine(r, c, e)
  BY <1>1 DEF OnTrack, InPlainHead
<1>3. /\ r \in Nat /\ c \in Nat /\ e \in Nat /\ position \in Nat /\ size \in Nat
      /\ r < c /\ c < e /\ e + 1 < size /\ position < size
      /\ current_char = {CharAt(text, position)}
      /\ pc = "name" /\ position < c => CharAt(text, position) \in Letter \cup {"dash"}
      /\ pc = "name" /\ position = c => CharAt(text, position) = "colon"
      /\ pc \in {"value", "content"} /\ position < e => is_vchar(CharAt(text, position))
      /\ position = e => CharAt(text, position) = "cr"
      /\ position = e + 1 => CharAt(text, position) = "nl"
  BY <1>1, <1>2, LineFacts
<1>4. SUFFICES (pc' \in Line /\ InLine(r, c, e)') \/ OnTrack(n, p, q, b)'
  BY <1>1, <1>2, TrackLine
<1>5. CASE ScanName
  <2>1. pc = "name" /\ position \in r .. c
    BY <1>2, <1>5 DEF ScanName, InLine
  <2>2. CASE position < c
    <3>1. increment_position("name")
      BY <1>3, <1>5, <2>1, <2>2 DEF ScanName
    <3>2. pc' = "name" /\ position' = position + 1
      BY <1>3, <3>1 DEF increment_position
    <3>. QED
      BY <1>3, <2>1, <2>2, <3>2 DEF InLine, Line
  <2>3. CASE position = c
    <3>1. CharAt(text, position) \notin Letter \cup {"dash"}
      BY <1>3, <2>1, <2>3 DEF Letter, Upper
    <3>2. pc' = "colon" /\ position' = position
      BY <1>3, <1>5, <3>1 DEF ScanName
    <3>. QED
      BY <2>3, <3>2 DEF InLine, Line
  <2>. QED
    BY <1>3, <2>1, <2>2, <2>3
<1>6. CASE SkipSpaceBefore
  <2>1. position = c + 1
    BY <1>2, <1>6 DEF SkipSpaceBefore, InLine
  <2>2. CASE CharAt(text, position) = "sp"
    <3>1. increment_position("value")
      BY <1>3, <1>6, <2>2 DEF SkipSpaceBefore, scan_optional
    <3>2. pc' = "value" /\ position' = c + 2
      BY <1>3, <2>1, <3>1 DEF increment_position
    <3>3. e # c + 1
      BY <1>3, <2>1, <2>2
    <3>. QED
      BY <1>3, <3>2, <3>3 DEF InLine, Line
  <2>3. CASE CharAt(text, position) # "sp"
    <3>1. pc' = "value" /\ position' = position
      BY <1>3, <1>6, <2>3 DEF SkipSpaceBefore, scan_optional
    <3>. QED
      BY <1>1, <1>3, <2>1, <2>3, <3>1 DEF InLine, Line
  <2>. QED
    BY <2>2, <2>3
<1>7. CASE BeginFieldContent
  <2>1. pc = "value" /\ position \in c + 1 .. e
    BY <1>2, <1>7 DEF BeginFieldContent, InLine
  <2>2. CASE position < e
    <3>1. is_vchar(CharAt(text, position))
      BY <1>3, <2>1, <2>2
    <3>2. increment_position("content")
      BY <1>3, <1>7, <3>1 DEF BeginFieldContent
    <3>3. pc' = "content" /\ position' = position + 1
      BY <1>3, <3>2 DEF increment_position
    <3>. QED
      BY <1>3, <2>1, <2>2, <3>3 DEF InLine, Line
  <2>3. CASE position = e
    <3>1. ~ is_vchar(CharAt(text, position))
      BY <1>3, <2>3 DEF is_vchar
    <3>2. pc' = "value_end" /\ position' = position
      BY <1>3, <1>7, <3>1 DEF BeginFieldContent
    <3>. QED
      BY <2>3, <3>2 DEF InLine, Line
  <2>. QED
    BY <1>3, <2>1, <2>2, <2>3
<1>8. CASE ScanFieldContent
  <2>1. pc = "content" /\ position \in c + 2 .. e
    BY <1>2, <1>8 DEF ScanFieldContent, InLine
  <2>2. CharAt(text, position) \notin Blank
    <3>1. position < e \/ position = e
      BY <1>3, <2>1
    <3>2. is_vchar(CharAt(text, position)) \/ CharAt(text, position) = "cr"
      BY <1>3, <2>1, <3>1
    <3>. QED
      BY <3>2 DEF is_vchar, Blank
  <2>3. pc' = "value" /\ position' = position
    BY <1>3, <1>8, <2>2 DEF ScanFieldContent
  <2>. QED
    BY <1>3, <2>1, <2>3 DEF InLine, Line
<1>9. CASE EndValue
  <2>1. position = e
    BY <1>2, <1>3, <1>9 DEF EndValue, InLine
  <2>2. CharAt(text, position) # "sp"
    BY <1>3, <2>1
  <2>3. pc' = "cr_2" /\ position' = position
    BY <1>3, <1>9, <2>2 DEF EndValue, scan_optional
  <2>. QED
    BY <2>1, <2>3 DEF InLine, Line
<1>10. CASE EndHeader
  <2>1. scan_expected("nl_2", "nl", "header")
    BY <1>10 DEF EndHeader
  <2>2. position = e + 1
    BY <1>2, <2>1 DEF scan_expected, InLine
  <2>3. pc' = "header" /\ position' = e + 2
    <3>1. pc' = "header" /\ position' = position + 1
      BY <1>3, <2>1, <2>2, ExpectedFound
    <3>. QED
      BY <1>3, <2>2, <3>1
  <2>4. position' \in q + 11 .. b + 2 /\ position' - 2 = e
    BY <1>2, <1>3, <2>3
  <2>5. LineEnd(text', position' - 2)
    BY <1>1, <1>2, <2>4 DEF PlainLine
  <2>. QED
    BY <2>3, <2>4, <2>5 DEF OnTrack, InRequestLine, InPlainHead, Line
<1>. QED
  BY <1>5, <1>6, <1>7, <1>8, <1>9, <1>10

\* The parser starts on track, and every step keeps it there.
LEMMA InitAccept == Init => AcceptInv
BY DEF Init, AcceptInv, OnTrack, InRequestLine, InPlainHead, Line

LEMMA NextAccept == ParserInv /\ AcceptInv /\ [Next]_vars => AcceptInv'
<1>. SUFFICES ASSUME ParserInv, AcceptInv, [Next]_vars,
                     NEW n \in Nat, NEW p \in Nat, NEW q \in Nat, NEW b \in Nat,
                     WellFormedAt(text', n, p, q, b)
              PROVE  OnTrack(n, p, q, b)'
  BY DEF AcceptInv
<1>1. UNCHANGED text
  BY DEF Next, vars, scan_method, ExpectCharacter, BeginPath, ScanTarget, ScanPercent, EndPath,
         EndQuery, scan_http_version, BeginHeader, ScanName, SkipSpaceBefore, BeginFieldContent,
         ScanFieldContent, ScanBlanks, EndValue, EndHeader, parse_body
<1>2. WellFormedAt(text, n, p, q, b) /\ OnTrack(n, p, q, b)
  BY <1>1 DEF AcceptInv
<1>3. CASE scan_method
  BY <1>2, <1>3, MethodOnTrack
<1>4. CASE ExpectCharacter
  BY <1>2, <1>4, ExpectOnTrack
<1>5. CASE ScanTarget("path_rest", {"slash"})
  BY <1>2, <1>5, TargetOnTrack
<1>6. CASE ScanTarget("query_rest", {"slash", "quest"})
  BY <1>2, <1>6, TargetOnTrack
<1>7. CASE ScanPercent(<<"path_rest", "path_hex_1", "path_hex_2">>)
  BY <1>2, <1>7, PathPercentOnTrack
<1>8. CASE ScanPercent(<<"query_rest", "query_hex_1", "query_hex_2">>)
  BY <1>2, <1>8, QueryPercentOnTrack
<1>9. CASE BeginPath \/ EndPath
  BY <1>2, <1>9, PathOnTrack
<1>10. CASE EndQuery \/ scan_http_version
  BY <1>2, <1>10, QueryOnTrack
<1>11. CASE BeginHeader
  BY <1>2, <1>11, BeginHeaderOnTrack
<1>12. CASE \/ ScanName \/ SkipSpaceBefore \/ BeginFieldContent \/ ScanFieldContent
            \/ EndValue \/ EndHeader
  BY <1>2, <1>12, LineOnTrack
<1>13. CASE ScanBlanks
  BY <1>2, <1>13 DEF ScanBlanks, OnTrack
<1>14. CASE parse_body
  BY <1>14 DEF parse_body, OnTrack, InRequestLine, InPlainHead, Line
<1>15. CASE UNCHANGED vars
  <2>1. UNCHANGED <<text, position, pc>>
    BY <1>15 DEF vars, cursorVars
  <2>2. InRequestLine(n, p, q)'
    BY <1>2, <2>1 DEF OnTrack, InRequestLine
  <2>3. InPlainHead(q, b)'
    BY <1>2, <2>1 DEF OnTrack, InPlainHead, InLine, size
  <2>. QED
    BY <1>2, <2>1, <2>2, <2>3 DEF OnTrack
<1>. QED
  BY <1>3, <1>4, <1>5, <1>6, <1>7, <1>8, <1>9, <1>10, <1>11, <1>12, <1>13, <1>14, <1>15 DEF Next

-----------------------------------------------------------------------------
(* The theorems *)

\* The invariant of the parser holds for every request.
THEOREM ParserInvariant == Spec => []ParserInv
BY InitInv, NextInv, PTL DEF Spec

\* The parser's variables keep their types: in particular the position is
\* inside the text wherever a character of it is taken.
THEOREM ParserTypeCorrect == Spec => []TypeOK
BY ParserInvariant, InvariantSuffices, PTL

\* For every request and every content of the buffer behind it, each value that
\* get_token_value copies is a part of the request.
THEOREM ValuesAlwaysInText == Spec => []ValuesInText
BY ParserInvariant, InvariantSuffices, PTL

\* What the scanner has read of the head, and what parse_headers has entered,
\* agree with the text at every step.
THEOREM WrittenInvariant == Spec => []WrittenInv
<1>1. ParserInv /\ WrittenInv /\ [Next]_vars => WrittenInv'
  BY NextWritten
<1>. QED
  BY <1>1, InitWritten, ParserInvariant, PTL DEF Spec

\* For every request that is parsed and every table of header names, the headers
\* are those of the lines before the first empty one, the last of each name.
THEOREM HeadersAlwaysAsWritten == Spec => []HeadersAsWritten
BY ParserInvariant, WrittenInvariant, WrittenSuffices, PTL

\* For every request that is parsed, the body begins behind the first empty line
\* and has the declared length, or ends with the text.
THEOREM BodyAlwaysAsDeclared == Spec => []BodyAsDeclared
BY ParserInvariant, WrittenInvariant, WrittenSuffices, PTL

\* For every request with a method, a path, a query, a version, headers of one
\* word and an empty line, at whatever places, the parser is on its way to the
\* body, whatever the buffer holds behind the text.
THEOREM AcceptInvariant == Spec => []AcceptInv
<1>1. ParserInv /\ AcceptInv /\ [Next]_vars => AcceptInv'
  BY NextAccept
<1>. QED
  BY <1>1, InitAccept, ParserInvariant, PTL DEF Spec

\* No such request is refused by an exception of the scanner.
THEOREM WellFormedAlwaysAccepted == Spec => []WellFormedAccepted
BY ParserInvariant, AcceptInvariant, AcceptSuffices, PTL

=============================================================================
