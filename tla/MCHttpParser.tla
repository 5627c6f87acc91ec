---------------------------- MODULE MCHttpParser ----------------------------
(* Small instances of the parser. *)
EXTENDS HttpParser

\* A table with Content-Length, another header and one whose key has an
\* upper-case letter.
LengthName == <<"l", "l">>
Names == {LengthName, <<"l">>, <<"l", "dash", "L">>}

Version == <<"sp", "H", "T", "T", "P", "slash", "1", "vchar", "1", "cr", "nl">>
Get == <<"G", "L", "T", "sp", "slash">>
Post == <<"P", "O", "L", "T", "sp", "slash">>
Line(name, value) == name \o <<"colon">> \o value \o <<"cr", "nl">>
Empty == <<"cr", "nl">>

Seeds ==
    {Get \o <<"l", "quest", "pct", "A", "1", "slash">> \o Version \o Empty,
     Get \o Version \o Line(<<"l">>, <<"sp", "l", "sp", "l">>) \o Line(<<"L">>, <<"l">>) \o Empty,
     Post \o Version \o Line(<<"L", "l">>, <<"sp", "1">>) \o Empty \o <<"vchar", "vchar">>,
     Post \o Version \o Line(<<"l", "l">>, <<"6">>) \o Line(<<"l", "l">>, <<"0", "1">>) \o Empty
          \o <<"cr", "nl">>}

\* Requests that need a longer text: lengths that are negative, too large or
\* no number, every method, the other blanks and percent signs.
Others ==
    {Post \o Version \o Line(LengthName, v) \o Empty \o <<"l", "l">> :
        v \in {<<"dash", "1">>, <<"1", "6">>, <<"1", "1">>, <<"l">>, <<>>, <<"6", "l">>}}
    \cup {<<c>> \o <<"L", "L", "L", "L", "L", "L">> \o <<"sp", "slash">> \o Version \o Empty :
            c \in {"C", "O"}}
    \cup {<<"D", "L", "L", "L", "L", "L", "sp", "slash">> \o Version \o Empty,
          <<"T", "L", "L", "L", "L", "sp", "slash">> \o Version \o Empty,
          <<"H", "L", "L", "L", "sp", "slash">> \o Version \o Empty,
          <<"P", "A", "L", "L", "L", "sp", "slash">> \o Version \o Empty,
          <<"P", "U", "L", "sp", "slash">> \o Version \o Empty}
    \cup {Get \o Version \o Line(<<"l">>, v) \o Empty :
            v \in {<<"l", "tab", "sp", "l">>, <<"l", "sp", "l", "sp", "l">>, <<"l", "sp">>,
                   <<"sp", "sp">>, <<"l", "sp", "l", "sp">>, <<"l", "l", "tab">>}}
    \cup {Get \o <<"pct", "1">> , Get \o <<"pct">>, Get \o <<"l", "pct", "l">>}
    \cup {Get \o Version \o Line(<<"l", "dash", "l">>, <<"1">>) \o Empty}

\* Every request cut short, and with any one character replaced.
Cut(s) == {SubSeq(s, 1, n) : n \in 1 .. Len(s)}
Changed(s) == {[s EXCEPT ![i] = c] : i \in DOMAIN s, c \in Char}

Requests == UNION {Cut(s) \cup Changed(s) : s \in Seeds} \cup UNION {Cut(s) : s \in Others}

=============================================================================
