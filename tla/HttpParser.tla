----------------------------- MODULE HttpParser -----------------------------
(***************************************************************************)
(* The HTTP parser of a request, src/program/http_parser.cpp, and the      *)
(* scanner below it, src/program/http_scanner.cpp.  Parse works on what one*)
(* SSL_read returned: `size` bytes in a larger buffer that is not          *)
(* terminated.  current_char() does not compare the position with the size,*)
(* so behind the text it gives whatever the buffer holds there: any        *)
(* character.  Exceptions are not caught; the parse ends with them.        *)
(*                                                                         *)
(* A character stands for itself where the scanner looks at it, and for a  *)
(* class otherwise: "l" for the lower-case letters and "L" for the upper   *)
(* case ones that begin no method, "1" for the digits, "vchar" for what is *)
(* printable but not allowed in a path, "ctl" for every other byte.  The   *)
(* values are spans of the text, as get_token_value copies them.           *)
(*                                                                         *)
(* scan_request_target, scan_rest_of_line and peek_next_char are left out: *)
(* nothing calls them.  is_obs_text is false: char is signed.              *)
(***************************************************************************)
EXTENDS Integers, Sequences

CONSTANTS
    Texts,          \* the requests
    HeaderNames,    \* the keys of string_to_token
    ContentLength,  \* the one that Parse looks up
    UIntMax         \* the largest unsigned int

Upper == {"A", "C", "D", "G", "H", "L", "O", "P", "T", "U"}
Letter == Upper \cup {"l"}
Digit == {"0", "1", "6"}
\* isxdigit.  The code takes every hexadecimal digit.  The classes "l" and "L" hold
\* some (a to f, and B, E, F) and letters that are none; here they count as none, and
\* no property depends on it.
Hex == {"A", "C", "D"} \cup Digit
Blank == {"sp", "tab"}
Char == Letter \cup Digit \cup Blank
          \cup {"dash", "slash", "quest", "pct", "colon", "vchar", "cr", "nl", "ctl"}

ASSUME ParserAssumption ==
    /\ Texts \subseteq Seq(Char) \ {<<>>}
    /\ HeaderNames \subseteq Seq(Char)
    /\ ContentLength \in HeaderNames /\ <<>> \notin HeaderNames
    /\ UIntMax \in Nat

VARIABLES
    text,
    position,
    start_position,
    saved_text_cursors,  \* a stack, its top last
    pc,                  \* which loop or call the parser is in; "parsed" or "thrown" at the end
    method,
    path, query,         \* spans
    header,              \* the header whose value is being scanned
    current_header,      \* its value, a span
    headers,             \* the map of parse_headers
    body

cursorVars == <<position, start_position, saved_text_cursors>>
requestVars == <<method, path, query, headers, body>>
headerVars == <<header, current_header>>
vars == <<text, cursorVars, pc, requestVars, headerVars>>

size == Len(text)

\* The span of the text from one position up to another.
Span(from, to) == [from |-> from, to |-> to]

Spans == [from : Nat, to : Nat]

\* A null pointer.
Null == [from |-> 1, to |-> 0]

Unknown == <<>>

Init ==
    /\ text \in Texts
    /\ position = 0
    /\ start_position = 0
    /\ saved_text_cursors = <<>>
    /\ pc = "method"
    /\ method = "None"
    /\ path = Null /\ query = Null /\ body = Null
    /\ header = Unknown
    /\ current_header = Null
    /\ headers = [h \in HeaderNames \cup {Unknown} |-> Null]

-----------------------------------------------------------------------------
(* The cursor *)

\* What current_char() may return.
current_char == IF position < size THEN {text[position + 1]} ELSE Char

\* increment_position, then on to `next`; it throws at the end of the text.
increment_position(next) ==
    \/ position < size /\ position' = position + 1 /\ pc' = next
    \/ position >= size /\ pc' = "thrown" /\ UNCHANGED position

set_token_start_position == start_position' = position

get_token_value == Span(start_position, position)

save == saved_text_cursors' =
            Append(saved_text_cursors, [position |-> position, start_position |-> start_position])

\* Variant: the cursor stays where it is.
revertKeepsPosition ==
    /\ saved_text_cursors' = SubSeq(saved_text_cursors, 1, Len(saved_text_cursors) - 1)
    /\ UNCHANGED <<position, start_position>>

revert ==
    LET top == saved_text_cursors[Len(saved_text_cursors)]
    IN  /\ position' = top.position
        /\ start_position' = top.start_position
        /\ saved_text_cursors' = SubSeq(saved_text_cursors, 1, Len(saved_text_cursors) - 1)

\* scan_expected(ch) at `at`, then on to `next`.
scan_expected(at, ch, next) ==
    /\ pc = at
    /\ \E c \in current_char :
          \/ c = ch /\ increment_position(next)
          \/ c # ch /\ pc' = "thrown" /\ UNCHANGED position
    /\ UNCHANGED <<start_position, saved_text_cursors>>

\* scan_optional(ch): the saved cursor stays on the stack when ch is there, and
\* is pushed and popped again when it is not.
scan_optional(ch, found, missing) ==
    \E c \in current_char :
        \/ c = ch /\ save /\ increment_position(found)
        \/ c # ch /\ pc' = missing /\ UNCHANGED <<position, saved_text_cursors>>

-----------------------------------------------------------------------------
(* The request line *)

\* What scan_method takes the first characters for, and how many it skips; the
\* others are not looked at.
Methods ==
    {<<"Connect", "C", 7>>, <<"Delete", "D", 6>>, <<"Get", "G", 3>>, <<"Head", "H", 4>>,
     <<"Options", "O", 7>>, <<"Trace", "T", 5>>}
MethodsWithP == {<<"Patch", "A", 5>>, <<"Post", "O", 4>>, <<"Put", "U", 3>>}

\* Variant: a method may be all there is.
scan_methodUnchecked ==
    /\ pc = "method"
    /\ \E m \in Methods : /\ text[1] = m[2]
                          /\ method' = m[1]
                          /\ position' = m[3]
    /\ pc' = "space_1"
    /\ UNCHANGED <<text, start_position, saved_text_cursors, path, query, headers, body, headerVars>>

scan_method ==
    /\ pc = "method"
    /\ \E first \in current_char, second \in IF size > 1 THEN {text[2]} ELSE Char :
          \/ \E m \in Methods : first = m[2] /\ method' = m[1] /\ position' = m[3]
          \/ \E m \in MethodsWithP :
                first = "P" /\ second = m[2] /\ method' = m[1] /\ position' = m[3]
          \/ /\ first = "P" /\ \A m \in MethodsWithP : second # m[2]
             /\ method' = "None" /\ position' = 1
          \/ /\ first # "P" /\ \A m \in Methods : first # m[2]
             /\ method' = "None" /\ position' = 0
    /\ pc' = IF position' >= size THEN "thrown" ELSE "space_1"
    /\ UNCHANGED <<text, start_position, saved_text_cursors, path, query, headers, body, headerVars>>

\* is_pchar of a character that is not "%".
is_pchar(ch) == ch \in Letter \cup Digit \cup {"dash", "colon"}

\* scan_absolute_path begins: the slash is part of the value.
BeginPath ==
    /\ pc = "path"
    /\ set_token_start_position
    /\ \E c \in current_char :
          \/ c = "slash" /\ increment_position("path_rest")
          \/ c # "slash" /\ pc' = "thrown" /\ UNCHANGED position
    /\ UNCHANGED <<text, saved_text_cursors, requestVars, headerVars>>

\* The loop over a path or a query, with the characters it takes besides those
\* of is_pchar.
ScanTarget(at, more) ==
    /\ pc = at
    /\ position < size
    /\ \E c \in current_char : is_pchar(c) \/ c \in more
    /\ increment_position(at)
    /\ UNCHANGED <<text, start_position, saved_text_cursors, requestVars, headerVars>>

\* is_pchar at a "%": the first digit, the second, and the step over it.
ScanPercent(at) ==
    /\ \/ pc = at[1] /\ position < size /\ "pct" \in current_char /\ increment_position(at[2])
       \/ /\ pc \in {at[2], at[3]}
          /\ \E c \in current_char :
                \/ c \in Hex /\ increment_position(IF pc = at[2] THEN at[3] ELSE at[1])
                \/ c \notin Hex /\ pc' = "thrown" /\ UNCHANGED position
    /\ UNCHANGED <<text, start_position, saved_text_cursors, requestVars, headerVars>>

\* The path ends, and scan_query looks for a question mark.
EndPath ==
    /\ pc = "path_rest"
    /\ position < size => \A c \in current_char : ~ is_pchar(c) /\ c \notin {"slash", "pct"}
    /\ path' = get_token_value
    /\ set_token_start_position
    /\ \E c \in current_char :
          \/ c = "quest" /\ save /\ increment_position("query_rest")
          \/ c # "quest" /\ pc' = "query_end" /\ UNCHANGED <<position, saved_text_cursors>>
    /\ UNCHANGED <<text, method, query, headers, body, headerVars>>

EndQuery ==
    /\ \/ pc = "query_end"
       \/ /\ pc = "query_rest"
          /\ position < size =>
                \A c \in current_char : ~ is_pchar(c) /\ c \notin {"slash", "quest", "pct"}
    /\ query' = get_token_value
    /\ pc' = "space_2"
    /\ UNCHANGED <<text, cursorVars, method, path, headers, body, headerVars>>

\* scan_http_version: seven characters behind the "H" are not looked at, and
\* neither is the end of the text.
scan_http_version ==
    /\ pc = "version"
    /\ \E c \in current_char :
          \/ c = "H" /\ position < size /\ position' = position + 8 /\ pc' = "cr_1"
          \/ (c # "H" \/ position >= size) /\ pc' = "thrown" /\ UNCHANGED position
    /\ UNCHANGED <<text, start_position, saved_text_cursors, requestVars, headerVars>>

\* The single characters that ParseRequestLine and scan_header ask for.
ExpectCharacter ==
    /\ \/ scan_expected("space_1", "sp", "path")
       \/ scan_expected("space_2", "sp", "version")
       \/ scan_expected("cr_1", "cr", "nl_1")
       \/ scan_expected("nl_1", "nl", "header")
       \/ scan_expected("colon", "colon", "space_3")
       \/ scan_expected("cr_2", "cr", "nl_2")
       \/ scan_expected("nl_3", "nl", "body")
    /\ UNCHANGED <<text, requestVars, headerVars>>

-----------------------------------------------------------------------------
(* The headers *)

\* scan_header begins, with a letter or with the empty line.
BeginHeader ==
    /\ pc = "header"
    /\ set_token_start_position
    /\ \E c \in current_char :
          \/ c \in Letter /\ pc' = "name" /\ UNCHANGED <<position, saved_text_cursors>>
          \/ c = "cr" /\ save /\ increment_position("nl_3")
          \/ c \notin Letter \cup {"cr"} /\ pc' = "thrown" /\ UNCHANGED <<position, saved_text_cursors>>
    /\ UNCHANGED <<text, requestVars, headerVars>>

\* get_lower_cased_value
lower_cased(span) ==
    [i \in 1 .. span.to - span.from |->
        IF text[span.from + i] \in Upper THEN "l" ELSE text[span.from + i]]

\* get_header, a search in the table.
get_header(name) == IF name \in HeaderNames THEN name ELSE Unknown

ScanName ==
    /\ pc = "name"
    /\ \/ /\ position < size /\ \E c \in current_char : c \in Letter \cup {"dash"}
          /\ increment_position("name")
          /\ UNCHANGED header
       \/ /\ position < size => \A c \in current_char : c \notin Letter \cup {"dash"}
          /\ pc' = "colon"
          /\ header' = get_header(lower_cased(get_token_value))
          /\ UNCHANGED position
    /\ UNCHANGED <<text, start_position, saved_text_cursors, requestVars, current_header>>

is_vchar(ch) == ch \notin Blank \cup {"cr", "nl", "ctl"}

\* Variant: the space has to be there.
SkipSpaceBeforeStrict ==
    /\ pc = "space_3"
    /\ scan_optional("sp", "value", "thrown")
    /\ start_position' = position'
    /\ UNCHANGED <<text, requestVars, headerVars>>

\* The optional space before the value, which then starts.
SkipSpaceBefore ==
    /\ pc = "space_3"
    /\ scan_optional("sp", "value", "value")
    /\ start_position' = position'
    /\ UNCHANGED <<text, requestVars, headerVars>>

\* scan_header_value goes on while scan_field_content finds a character, or a
\* character, blanks and a further character.
BeginFieldContent ==
    /\ pc = "value"
    /\ position < size
    /\ \E c \in current_char :
          \/ is_vchar(c) /\ save /\ increment_position("content")
          \/ ~ is_vchar(c) /\ pc' = "value_end" /\ UNCHANGED <<position, saved_text_cursors>>
    /\ UNCHANGED <<text, start_position, requestVars, headerVars>>

\* Behind the first character.
ScanFieldContent ==
    /\ pc = "content"
    /\ \E c \in current_char :
          \/ c \in Blank /\ increment_position("blanks")
          \/ c \notin Blank /\ pc' = "value" /\ UNCHANGED position
    /\ UNCHANGED <<text, start_position, saved_text_cursors, requestVars, headerVars>>

\* Variant: the characters that were given back are scanned again.
ScanBlanksAgain ==
    /\ pc = "blanks"
    /\ \/ position < size /\ increment_position("value") /\ UNCHANGED <<start_position, saved_text_cursors>>
       \/ (\A c \in current_char : ~ is_vchar(c)) /\ revert /\ pc' = "value"
    /\ UNCHANGED <<text, requestVars, headerVars>>

\* Behind a blank: further ones, or the second character.  Without it, the
\* first one is given back too.
ScanBlanks ==
    /\ pc = "blanks"
    /\ \/ /\ position < size /\ \E c \in current_char : c \in Blank
          /\ increment_position("blanks")
          /\ UNCHANGED <<start_position, saved_text_cursors>>
       \/ \E c \in current_char :
             /\ position < size => c \notin Blank
             /\ \/ is_vchar(c) /\ increment_position("value") /\ UNCHANGED <<start_position, saved_text_cursors>>
                \/ ~ is_vchar(c) /\ revert /\ pc' = "value_end"
    /\ UNCHANGED <<text, requestVars, headerVars>>

\* The value ends; one space behind it is skipped.
EndValue ==
    /\ \/ pc = "value_end"
       \/ pc = "value" /\ position >= size
    /\ current_header' = get_token_value
    /\ scan_optional("sp", "cr_2", "cr_2")
    /\ UNCHANGED <<text, start_position, requestVars, header>>

\* The line ends, and parse_headers enters the value: a later one replaces it.
EndHeader ==
    /\ scan_expected("nl_2", "nl", "header")
    /\ headers' = IF pc' = "header" THEN [headers EXCEPT ![header] = current_header] ELSE headers
    /\ UNCHANGED <<text, method, path, query, body, headerVars>>

-----------------------------------------------------------------------------
(* The body *)

\* What atoll makes of the first n characters: a sign, then digits up to the
\* first other character.
DigitsOf(s) == {i \in DOMAIN s : \A j \in 1 .. i : s[j] \in Digit}
ValueOf(s) ==
    LET value[i \in 0 .. Len(s)] ==
            IF i = 0 THEN 0
            ELSE IF i \in DigitsOf(s)
            THEN 10 * value[i - 1] + (IF s[i] = "0" THEN 0 ELSE IF s[i] = "1" THEN 1 ELSE 6)
            ELSE value[i - 1]
    IN  value[Len(s)]
atoll(s) == IF s # <<>> /\ s[1] = "dash" THEN - ValueOf(Tail(s)) ELSE ValueOf(s)

\* The characters of a span.
Value(span) == SubSeq(text, span.from + 1, span.to)

\* Variant: the declared length is trusted.
BodyEndUnchecked(length) == position + length

\* Variant: one character more is taken.
BodyEndOneMore(length) == IF length < size - position THEN position + length + 1 ELSE size

\* Where scan_body stops: after so many characters, or at the end of the text.
BodyEnd(length) == IF length < size - position THEN position + length ELSE size

\* The length becomes an unsigned int when scan_body is called.
parse_body ==
    /\ pc = "body"
    /\ IF method # "Get" /\ headers[ContentLength] # Null
       THEN \E length \in 0 .. UIntMax :
                /\ length = atoll(Value(headers[ContentLength])) % (UIntMax + 1)
                /\ set_token_start_position
                /\ position' = BodyEnd(length)
                /\ body' = Span(position, BodyEnd(length))
       ELSE UNCHANGED <<start_position, position, body>>
    /\ pc' = "parsed"
    /\ UNCHANGED <<text, saved_text_cursors, method, path, query, headers, headerVars>>

Next ==
    \/ scan_method \/ ExpectCharacter
    \/ BeginPath \/ ScanTarget("path_rest", {"slash"})
    \/ ScanPercent(<<"path_rest", "path_hex_1", "path_hex_2">>)
    \/ EndPath \/ ScanTarget("query_rest", {"slash", "quest"})
    \/ ScanPercent(<<"query_rest", "query_hex_1", "query_hex_2">>)
    \/ EndQuery \/ scan_http_version
    \/ BeginHeader \/ ScanName \/ SkipSpaceBefore
    \/ BeginFieldContent \/ ScanFieldContent \/ ScanBlanks \/ EndValue \/ EndHeader
    \/ parse_body

\* Parse is one call: it runs on.
Spec == Init /\ [][Next]_vars /\ WF_vars(Next)

-----------------------------------------------------------------------------
(* Properties *)

SavedTextCursor == [position : 0 .. size, start_position : 0 .. size]

TypeOK ==
    /\ text \in Seq(Char)
    /\ position \in Nat /\ start_position \in 0 .. size
    /\ pc \in {"method", "cr_1", "thrown"} \/ position <= size
    /\ saved_text_cursors \in Seq(SavedTextCursor)
    /\ pc \in {"method", "space_1", "path", "path_rest", "path_hex_1", "path_hex_2", "query_rest",
               "query_hex_1", "query_hex_2", "query_end", "space_2", "version", "cr_1", "nl_1",
               "header", "name", "colon", "space_3", "value", "content", "blanks", "value_end",
               "cr_2", "nl_2", "nl_3", "body", "parsed", "thrown"}
    /\ method \in {"None", "Connect", "Delete", "Get", "Head", "Options", "Trace", "Patch", "Post", "Put"}
    /\ header \in HeaderNames \cup {Unknown}
    /\ path \in Spans /\ query \in Spans /\ current_header \in Spans /\ body \in Spans
    /\ headers \in [HeaderNames \cup {Unknown} -> Spans]

InText(span) == span = Null \/ (span.from <= span.to /\ span.to <= size)

\* get_token_value copies nothing that lies outside the text, although
\* current_char reads behind it and scan_http_version steps over its end: every
\* value of the request is a part of what was received.
ValuesInText ==
    /\ InText(path) /\ InText(query) /\ InText(current_header) /\ InText(body)
    /\ \A h \in DOMAIN headers : InText(headers[h])

\* The character at a position, and a line that ends there.
At(p) == text[p + 1]
Break(p) == p + 1 < size /\ At(p) = "cr" /\ At(p + 1) = "nl"

\* The first position from p on where the text has ch.
First(p, ch) == CHOOSE i \in p .. size - 1 : At(i) = ch /\ \A j \in p .. i - 1 : At(j) # ch

\* The end of the last line before the first empty one, and where the lines
\* between it and the request line begin.
HeadEnd == CHOOSE p \in query.to + 9 .. size : Break(p) /\ Break(p + 2)
             /\ \A r \in query.to + 9 .. p - 1 : ~ (Break(r) /\ Break(r + 2))
HeaderLines == {r \in query.to + 11 .. HeadEnd : Break(r - 2)}

NameOf(r) == Span(r, First(r, "colon"))

\* What stands between the colon and the end of the line, without one space on
\* either side.
ValueIn(r) ==
    LET colon == First(r, "colon")
        end == First(r, "cr")
        from == IF At(colon + 1) = "sp" THEN colon + 2 ELSE colon + 1
    IN  Span(from, IF from < end /\ At(end - 1) = "sp" THEN end - 1 ELSE end)

\* The headers that parse_headers returns are those of the lines between the
\* request line and the first empty line: each value is what its last line has
\* behind the colon, and a header that has a value has a line.
HeadersAsWritten ==
    pc = "parsed" =>
        \A h \in DOMAIN headers :
            LET mine == {r \in HeaderLines : get_header(lower_cased(NameOf(r))) = h}
            IN  \/ mine = {} /\ headers[h] = Null
                \/ \E r \in mine : (\A u \in mine : u <= r) /\ headers[h] = ValueIn(r)

\* The body that parse_body returns begins behind the first empty line and is
\* as long as the request declares, or ends with what was received.
BodyAsDeclared ==
    pc = "parsed" =>
        IF method = "Get" \/ headers[ContentLength] = Null THEN body = Null
        ELSE LET declared == atoll(Value(headers[ContentLength]))
             IN  declared \in 0 .. UIntMax =>
                     /\ body.from = HeadEnd + 4
                     /\ body.to = IF declared < size - body.from THEN body.from + declared ELSE size

\* The positions from i up to j hold whole characters of a path or a query.
Target(i, j, more) ==
    \A k \in i .. j - 1 :
        \/ is_pchar(At(k)) \/ At(k) \in more
        \/ At(k) = "pct" /\ k + 2 < j /\ At(k + 1) \in Hex /\ At(k + 2) \in Hex

\* A header at r whose value has no blanks, except for the first character.
PlainHeader(r) ==
    At(r) \in Letter /\ \E c \in r + 1 .. size - 1 :
        /\ At(c) = "colon"
        /\ \A k \in r .. c - 1 : At(k) \in Letter \cup {"dash"}
        /\ \E e \in c + 1 .. size - 1 :
              /\ Break(e)
              /\ \A k \in c + 1 .. e - 1 : is_vchar(At(k)) \/ (k = c + 1 /\ At(k) = "sp")

\* A request with a method, a path, a query, a version, headers of one word
\* and an empty line.
WellFormed ==
    \E m \in Methods \cup {<<x[1], "P", x[3]>> : x \in {y \in MethodsWithP : size > 1 /\ At(1) = y[2]}} :
        /\ At(0) = m[2] /\ m[3] + 1 < size /\ At(m[3]) = "sp" /\ At(m[3] + 1) = "slash"
        /\ \E p \in m[3] + 2 .. size - 1 :
              /\ Target(m[3] + 1, p, {"slash"})
              /\ \E q \in p .. size - 2 :
                    /\ At(q) = "sp" /\ At(q + 1) = "H" /\ Break(q + 9)
                    /\ p = q \/ (At(p) = "quest" /\ Target(p, q, {"slash", "quest"}))
                    /\ \E b \in q + 9 .. size - 4 :
                          /\ Break(b) /\ Break(b + 2)
                          /\ \A r \in q + 11 .. b : Break(r - 2) => PlainHeader(r)

\* Such a request is never refused, by any of the exceptions of the scanner and
\* whatever the buffer holds behind it.
WellFormedAccepted == pc = "thrown" => ~ WellFormed

\* Parse returns or throws: its loops over the target, the names, the values
\* and the characters it gives back all end.
ParseEnds == <>(pc \in {"parsed", "thrown"})

=============================================================================
