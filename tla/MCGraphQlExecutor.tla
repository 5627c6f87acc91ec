-------------------------- MODULE MCGraphQlExecutor --------------------------
(* A small instance of GraphQlExecutor: one schema with a type of each kind, *)
(* the documents up to a depth that fit it, eight of them with one token     *)
(* changed, and some others.                                                 *)
EXTENDS GraphQlExecutor

Scalar(id, kind) == Type(id, kind, "", FALSE, FALSE, FALSE)
Named(id, name) == Type(id, "Object", name, FALSE, FALSE, FALSE)
NoArguments(fields) == [f \in fields |-> <<>>]

\* type Query { f: Int, o: O, i: I, u: U, g(r: Int!, l: [Int], x: X, w: O): Int }
\* interface I { f: Int }         type O implements I { f: Int, o: O }
\* type P { f: Int }              union U = O
\* input X { b: Int!, c: E, y: [X] }   enum E { v }
\* directive @d on FIELD | QUERY | FRAGMENT_SPREAD | INLINE_FRAGMENT | FRAGMENT_DEFINITION
\* directive @k(r: Int!) on FIELD
SmallSchema ==
    [kind |-> [t \in {"Query", "O", "P", "I", "U", "X", "E"} |->
                 CASE t \in {"Query", "O", "P"} -> "object"
                   [] t = "I" -> "interface" [] t = "U" -> "union"
                   [] t = "X" -> "input" [] t = "E" -> "enum"],
     fields |->
        [t \in {"Query", "O", "P", "I", "X"} |->
           CASE t = "Query" -> [f |-> Scalar("Query.f", "Int"), o |-> Named("Query.o", "O"),
                                i |-> Named("Query.i", "I"), u |-> Named("Query.u", "U"),
                                g |-> Scalar("Query.g", "Int")]
             [] t = "O" -> [f |-> Scalar("O.f", "Int"), o |-> Named("O.o", "O")]
             [] t = "P" -> [f |-> Scalar("P.f", "Int")]
             [] t = "I" -> [f |-> Scalar("I.f", "Int")]
             [] t = "X" -> [b |-> Type("X.b", "Int", "", TRUE, FALSE, FALSE),
                            c |-> Type("X.c", "Enum", "E", FALSE, FALSE, FALSE),
                            y |-> Type("X.y", "Object", "X", FALSE, TRUE, FALSE)]],
     arguments |->
        [t \in {"Query", "O", "P", "I"} |->
           CASE t = "Query" ->
                  [f \in {"f", "o", "i", "u", "g"} |->
                     IF f = "g" THEN [r |-> Type("g.r", "Int", "", TRUE, FALSE, FALSE),
                                      l |-> Type("g.l", "Int", "", FALSE, TRUE, FALSE),
                                      x |-> Named("g.x", "X"), w |-> Named("g.w", "O")]
                     ELSE <<>>]
             [] t = "O" -> NoArguments({"f", "o"})
             [] OTHER -> NoArguments({"f"})],
     values |-> [t \in {"E"} |-> {"v"}],
     members |-> [t \in {"U"} |-> {"O"}],
     implementations |-> [t \in {"Query", "O", "P"} |-> IF t = "O" THEN {"I"} ELSE {}],
     directives |->
        [d |-> [locations |-> {"query", "FIELD", "FRAGMENT_SPREAD", "INLINE_FRAGMENT",
                               "FRAGMENT_DEFINITION"}, arguments |-> <<>>],
         k |-> [locations |-> {"FIELD"},
                arguments |-> [r |-> Type("k.r", "Int", "", TRUE, FALSE, FALSE)]]],
     query |-> "Query", mutation |-> "P", subscription |-> "none"]

SomeNames == {"f", "o", "i", "u", "g", "r", "l", "x", "w", "b", "c", "y", "v", "d", "k", "F", "Query", "O", "P",
              "I", "U", "X", "E", "z"}
SomeKeywords == {"query", "mutation", "subscription", "fragment", "on", "null", "true", "false",
                 "Int", "Float", "String", "Boolean", "ID"}

-----------------------------------------------------------------------------
(* The documents that fit the schema, from its types.  Bounds: Depth levels of
   braces, two selections in a set, one optional argument or input field at a
   time, two equal elements in a list. *)

Depth == 2

Nullable(type) == ~ type.is_non_null /\ ~ type.is_non_null_list

\* The required names with at most one other, in every order.
Orders(types) ==
    LET required == {n \in DOMAIN types : ~ Nullable(types[n])} IN
    UNION {SetToSeqs(required \cup other) :
             other \in {{}} \cup {{n} : n \in DOMAIN types \ required}}

RECURSIVE Elements(_, _, _), Values(_, _, _), Given(_, _, _, _)

\* The values of the type without its list: input objects up to depth d.  open are
\* the lists around.
Elements(type, open, d) ==
    CASE type.kind = "Int" -> {<<"int">>}
      [] type.kind = "Enum" -> {<<v>> : v \in Schema.values[type.name]}
      [] type.kind = "Object" /\ Schema.kind[type.name] = "input" /\ d > 0 ->
            {<<"{">> \o fields \o <<"}">> : fields \in
               UNION {Given(Schema.fields[type.name], names, open, d - 1) :
                        names \in Orders(Schema.fields[type.name])}}
      [] OTHER -> {}

\* A list has no list of the same type node inside: its flag is off there.
Values(type, open, d) ==
    LET inside == Elements(type, open \cup {type.id}, d) IN
    (IF Nullable(type) THEN {<<"null">>} ELSE {}) \cup
    (IF ~ type.is_list THEN Elements(type, open, d)
     ELSE IF type.id \in open THEN {}
     ELSE {<<"[", "]">>} \cup
          UNION {{<<"[">> \o e \o <<"]">>, <<"[">> \o e \o e \o <<"]">>} : e \in inside})

\* Names, colons and values: arguments or the fields of an input object.
Given(types, names, open, d) ==
    IF names = <<>> THEN {<<>>}
    ELSE {<<Head(names), ":">> \o v \o rest :
            v \in Values(types[Head(names)], open, d), rest \in Given(types, Tail(names), open, d)}

ArgumentsOf(type, field, d) ==
    LET types == Schema.arguments[type][field] IN
    IF DOMAIN types = {} THEN {<<>>}
    ELSE {<<"(">> \o given \o <<")">> :
            given \in UNION {Given(types, names, {}, d) : names \in Orders(types)}}

\* A fragment on the object applies where the type is selected.
Applies(object, type) ==
    \/ object = type
    \/ Schema.kind[type] = "interface" /\ type \in Schema.implementations[object]
    \/ Schema.kind[type] = "union" /\ object \in Schema.members[type]

RECURSIVE Items(_, _, _), Sets(_, _, _)

\* The selections on the type, when fragment F is on the object ("none": there is
\* no such fragment).  An alias is the name of the field itself.
Items(type, object, d) ==
    LET fields == IF HasFields(type) THEN DOMAIN Schema.fields[type] ELSE {}
        braced(before, of) == IF d = 0 THEN {} ELSE {before \o s : s \in Sets(of, object, d - 1)}
        inline == {t \in Symbols : Schema.kind[t] = "object" /\ Applies(t, type)}
    IN  UNION {LET t == Schema.fields[type][f] IN
               IF t.kind = "Object"
               THEN braced(<<f>>, t.name) \cup braced(<<f, ":", f, "@", "d">>, t.name)
               ELSE {<<f>> \o a : a \in ArgumentsOf(type, f, d)} : f \in fields} \cup
        (IF fields = {} THEN {}
         ELSE {<<"f", ":", "f">>, <<"f", "@", "d">>, <<"f", "@", "k", "(", "r", ":", "int", ")", "@", "d">>}) \cup
        UNION {braced(<<"...", "on", t, "@", "d">>, t) : t \in inline} \cup
        (IF object # "none" /\ Applies(object, type) THEN {<<"...", "F">>, <<"...", "F", "@", "d">>} ELSE {})

\* A selection, and behind it nothing, a field, or one that uses a list again.
Sets(type, object, d) ==
    {<<"{">> \o i \o more \o <<"}">> : i \in Items(type, object, d),
       more \in {<<>>} \cup (IF HasFields(type) THEN {<<"f">>} ELSE {}) \cup
                (IF type = "Query" THEN {<<"g", "(", "l", ":", "[", "int", "]", "r", ":", "int", ")">>}
                 ELSE {})}

FragmentOf(object) ==
    IF object = "none" THEN <<>> ELSE <<"fragment", "F", "on", object, "@", "d", "{", "f", "}">>

\* Operations of every form, with and without a fragment, of one or two operations.
\* There is at most one variable: parse_variable_definitions reads no second one.
Fitting ==
    {s \o FragmentOf("O") : s \in Sets("Query", "O", Depth)} \cup
    {s \o FragmentOf("Query") : s \in Sets("Query", "Query", 1)} \cup
    UNION {{header \o s : s \in Sets("Query", "none", 1)} :
             header \in {<<"query">>, <<"query", "d">>, <<"query", "@", "d">>, <<"query", "F", "@", "d">>,
                        <<"query", "F", "(", "v", ":", "Int", ")">>,
                        <<"query", "F", "(", "v", ":", "[", "Int", "!", "]", "!", "=", "[", "int", "]", ")">>}} \cup
    {<<"mutation">> \o m \o <<"query">> \o q : m \in Sets("P", "none", 1), q \in Sets("Query", "none", 0)}

-----------------------------------------------------------------------------
\* Documents that fit the schema, of which others are made.
Samples ==
    {<<"{", "f", ":", "f", "}">>,
     <<"query", "d", "@", "d", "{", "o", "{", "f", "o", "{", "f", "}", "}", "f", "}">>,
     <<"{", "i", "{", "f", "...", "on", "O", "{", "o", "{", "f", "}", "}", "f", "}", "f", "}">>,
     <<"{", "u", "{", "...", "F", "@", "d", "}", "f", "}", "fragment", "F", "on", "O", "{", "f", "}">>,
     <<"mutation", "{", "f", "}", "query", "{", "...", "F", "}", "fragment", "F", "on", "Query", "{", "f", "}">>,
     <<"{", "g", "(", "r", ":", "int", "l", ":", "[", "int", "int", "]", ")", "f", "@", "k", "(", "r", ":", "int", ")", "}">>,
     <<"{", "g", "(", "x", ":", "{", "b", ":", "int", "c", ":", "v", "y", ":", "[", "{", "b", ":", "int", "}", "]", "}",
       "r", ":", "int", ")", "g", "(", "l", ":", "[", "]", "r", ":", "int", ")", "}">>,
     <<"query", "F", "(", "v", ":", "[", "Int", "!", "]", "!", "=", "[", "int", "]", ")", "{", "f", "}">>}

\* Tokens that replace one of a document.
SomeTokens == {"{", "}", "(", ")", "[", "]", ":", "...", "@", "@_", "=", "!", "on", "query", "fragment",
               "subscription", "f", "o", "g", "z", "P", "U", "int", "string", "null", "true"}

Truncated == UNION {{SubSeq(d, 1, n) : n \in 0 .. Len(d)} : d \in Samples}
Shortened == UNION {{RemoveAt(d, i) : i \in 1 .. Len(d)} : d \in Samples}
Replaced == UNION {UNION {{ReplaceAt(d, i, t) : t \in SomeTokens} : i \in 1 .. Len(d)} : d \in Samples}

\* Documents that take the ways one change does not lead to: an output type where
\* an object is given, a fragment on an interface, a fragment that is there
\* twice, a name without a colon in an object.
Odd ==
    {<<"{", "g", "(", "r", ":", "int", "w", ":", "{", "}", ")", "f", "}">>,
     <<"{", "i", "{", "...", "F", "}", "}", "fragment", "F", "on", "I", "{", "f", "}">>,
     <<"{", "f", "...", "F", "}", "fragment", "F", "on", "Query", "{", "f", "}",
       "fragment", "F", "on", "Query", "{", "f", "}">>,
     <<"{", "g", "(", "r", ":", "int", "x", ":", "{", "b", ":", "int", "b", ":", "int", "c", "}", ")", "}">>}

SomeDocuments == Fitting \cup Samples \cup Truncated \cup Shortened \cup Replaced \cup Odd

\* A document that fits the schema, up to the bounds of Fitting, is accepted with
\* all its definitions (Execute): whatever was pushed, switched off or put aside
\* while one part of it was read is as it was when the next part is.  Left out
\* are aliases other than the field's own name, as the alias is what is looked
\* up, a second variable, which is never read, and a list inside an element of
\* a list of the same type node, which is refused.
WellFormedAccepted ==
    (outcome # "running" /\ document \in Fitting \cup Samples) =>
        /\ Accepted
        /\ Len(operation_definitions) + Len(fragment_definitions) =
           Cardinality({i \in DOMAIN document : document[i] \in {"query", "mutation", "fragment"}}) +
           (IF document[1] = "{" THEN 1 ELSE 0)
=============================================================================
