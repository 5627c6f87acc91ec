-------------------------- MODULE MCGraphQlScanner --------------------------
(* Small instances of the scanner. *)
EXTENDS GraphQlScanner

Strings(chars, n) == UNION {[1 .. k -> chars] : k \in 0 .. n}

\* Line breaks, comments and names in every order.
LineSources == Strings({"nl", "sp", "hash", "word"}, 4)

\* Carriage returns among line breaks, names and strings.
ReturnSources ==
    Strings({"nl", "cr", "word"}, 3) \cup {<<"cr", "nl", "nl", "word">>} \cup
    {<<"quote">> \o s : s \in Strings({"nl", "cr", "quote"}, 2)}

\* Every kind of character in short sources.
ShortSources == Strings(Char, 2)

\* Strings that are closed, truncated, invalid or end with the source, braces
\* to skip, dots and carriage returns, each followed by a further line.
TokenSources ==
    {<<"quote", "word", "quote", "nl", "word">>, <<"quote", "nl", "quote", "sp", "word">>,
     <<"quote", "bad", "word", "quote">>, <<"word", "nl", "quote", "sp">>,
     <<"quote", "quote", "quote", "nl", "quote", "quote", "quote", "nl", "word">>,
     <<"quote", "quote", "quote", "nl", "quote">>, <<"quote", "quote", "quote", "nl">>,
     <<"quote", "quote", "nl", "word">>,
     <<"dot", "dot", "dot", "nl", "dot", "dot">>, <<"cr", "word", "nl", "word">>,
     <<"cr", "nl", "word", "nl">>, <<"open", "nl", "open", "close", "close", "nl", "word">>,
     <<"close", "nl", "open", "word", "close">>, <<"punct", "nl", "word", "punct">>}

\* What begins like a number, and numbers with all their parts, whole and cut.
NumberSources ==
    Strings({"minus", "zero", "digit", "dot", "e"}, 3) \cup
    {w \o f \o e :
        w \in {<<"digit">>, <<"digit", "digit", "zero">>, <<"digit", "zero", "digit">>, <<"minus", "zero">>},
        f \in {<<>>, <<"dot">>, <<"dot", "zero", "digit">>},
        e \in {<<>>, <<"e">>, <<"e", "digit", "zero">>, <<"e", "minus", "digit">>, <<"e", "minus">>}}

AllSources == LineSources \cup ReturnSources \cup NumberSources \cup ShortSources \cup TokenSources

\* White space counts for the parsers of documents of even length at times; it is
\* always skipped for the others.
Skips == [s \in AllSources |-> IF Len(s) % 2 = 0 THEN BOOLEAN ELSE {TRUE}]

=============================================================================
