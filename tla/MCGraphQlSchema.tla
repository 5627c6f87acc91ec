-------------------------- MODULE MCGraphQlSchema --------------------------
(* A small instance of GraphQlSchema: schemas that are right, those with one *)
(* token changed, and some others.                                           *)
EXTENDS GraphQlSchema

SomeLocations == {"OBJECT", "FIELD_DEFINITION", "ARGUMENT_DEFINITION", "ENUM", "ENUM_VALUE"}
SomeNames == SomeLocations \cup {"Query", "O", "I", "U", "X", "Y", "E", "d", "a", "b", "f", "g", "v", "z"}
SomeKeywords ==
    {"type", "interface", "input", "enum", "directive", "schema", "union", "implements", "query",
     "mutation", "subscription", "on", "null", "true", "false", "Int", "Float", "String", "Boolean", "ID"}
SomeOrdered ==
    <<"ARGUMENT_DEFINITION", "Boolean", "E", "ENUM", "ENUM_VALUE", "FIELD_DEFINITION", "Float", "I", "ID", "Int", "O",
      "OBJECT", "Query", "String", "U", "X", "Y", "a", "b", "d", "directive", "enum", "f", "false",
      "g", "implements", "input", "interface", "mutation", "null", "on", "query", "schema",
      "subscription", "true", "type", "union", "v", "z">>

\* Schemas that are right, in the eyes of the code: one has an interface as the root of
\* its mutations, since set_root_types looks at no kind.
WellFormed ==
    {<<"type", "Query", "{", "f", ":", "Int", "g", "(", "a", ":", "X", "!", ")", ":", "[", "O", "!", "]", "!", "}",
       "input", "X", "{", "a", ":", "Int", "b", ":", "[", "X", "]", "}", "type", "O", "{", "f", ":", "ID", "}">>,
     <<"interface", "I", "{", "f", ":", "Int", "}", "type", "O", "implements", "I", "{", "string", "f", ":", "Int", "}",
       "schema", "{", "query", ":", "O", "mutation", ":", "I", "}", "union", "U", "=", "|", "O">>,
     <<"directive", "@", "d", "(", "a", ":", "[", "Int", "]", "!", ")", "on", "OBJECT", "|", "ENUM_VALUE",
       "type", "Query", "@", "d", "(", "a", ":", "[", "int", "]", ")", "{", "f", ":", "E", "}",
       "enum", "E", "{", "v", "@", "d", "(", "a", ":", "[", "]", ")", "query", "}">>,
     <<"type", "Query", "{", "f", ":", "E", "@", "d", "(", "a", ":", "{", "f", ":", "v", "g", ":", "string", "}", ")", "}",
       "enum", "E", "{", "v", "}", "input", "X", "{", "f", ":", "E", "!", "g", ":", "ID", "}",
       "directive", "@", "d", "(", "a", ":", "X", ")", "on", "FIELD_DEFINITION">>}

\* Tokens that replace one of a schema.
SomeTokens == {"{", "}", "(", ")", "[", "]", ":", "@", "@_", "=", "|", "&", "!", "on", "query", "type", "input", "enum",
               "union", "directive", "schema", "implements", "Int", "O", "X", "I", "E", "d", "z", "int", "string", "null",
               "true"}

Truncated == UNION {{SubSeq(d, 1, n) : n \in 0 .. Len(d)} : d \in WellFormed}
Shortened == UNION {{RemoveAt(d, i) : i \in 1 .. Len(d)} : d \in WellFormed}
Replaced == UNION {UNION {{ReplaceAt(d, i, t) : t \in SomeTokens} : i \in 1 .. Len(d)} : d \in WellFormed}

\* Values for an argument of the type [X!]!, and what they are the values of.
Scalars == {<<"int">>, <<"null">>, <<"v">>, <<"string">>}
Lists == {<<"[", "]">>} \cup {<<"[">> \o x \o y \o <<"]">> : x \in Scalars, y \in Scalars \cup {<<>>}}
Objects ==
    {<<"{", "f", ":">> \o x \o <<"}">> : x \in Scalars \cup Lists} \cup
    {<<"{", "g", ":">> \o x \o <<"f", ":", "[", "int", "]", "}">> : x \in Scalars} \cup
    {<<"{", "f", ":", "[", "]", n, ":", "null", "}">> : n \in {"f", "g", "z"}}
SomeValues ==
    Scalars \cup Lists \cup Objects \cup {<<"[">> \o x \o <<"{", "f", ":", "[", "]", "}", "]">> : x \in Scalars \cup Objects}

Valued ==
    {<<"input", "X", "{", "f", ":", "[", "Int", "!", "]", "!", "g", ":", "E", "}", "enum", "E", "{", "v", "}",
       "directive", "@", "d", "(", "a", ":", "[", "X", "!", "]", "!", ")", "on", "OBJECT", "|", "FIELD_DEFINITION",
       "type", "Query", "@", "d", "(", "a", ":">> \o x \o
     <<")", "{", "f", ":", "Int", "@", "d", "(", "a", ":", "[", "]", ")", "}">> : x \in SomeValues}

\* Schemas that take the ways one change does not lead to: a directive on the values
\* of an enum behind its argument's type, in both orders, on its own argument, a union without its
\* last member, interfaces that do not match, names and arguments that are there
\* three times, a value with nothing in it where a single one is expected.
Odd ==
    {<<"enum", "E", "{", "v", "@", "d", "(", "a", ":", "{", "f", ":", "v", "}", ")", "}", "input", "X", "{", "f", ":", "E", "}",
       "directive", "@", "d", "(", "a", ":", "X", ")", "on", "ENUM_VALUE", "type", "Query", "{", "f", ":", "Int", "}">>,
     <<"directive", "@", "d", "(", "a", ":", "X", ")", "on", "ENUM_VALUE", "type", "Query", "{", "f", ":", "Int", "}",
       "input", "X", "{", "f", ":", "E", "}", "enum", "E", "{", "v", "@", "d", "(", "a", ":", "{", "f", ":", "v", "}", ")", "}">>,
     <<"directive", "@", "d", "(", "a", ":", "X", "@", "d", ")", "on", "ARGUMENT_DEFINITION",
       "input", "X", "{", "f", ":", "Y", "}", "input", "Y", "@", "d", "{", "g", ":", "ID", "@", "d", "}">>,
     <<"union", "U", "=", "O", "|", "Query", "|", "enum", "E", "{", "v", "}", "type", "Query", "{", "f", ":", "U", "}">>,
     <<"interface", "I", "{", "f", ":", "Int", "g", ":", "E", "}", "interface", "X", "{", "z", ":", "O", "}",
       "type", "Query", "implements", "I", "&", "X", "{", "f", ":", "ID", "g", ":", "E", "}">>,
     <<"enum", "E", "{", "v", "}", "enum", "E", "{", "v", "}", "input", "E", "{", "f", ":", "E", "}", "union", "E", "=", "E",
       "type", "Query", "@", "d", "(", "a", ":", "int", "a", ":", "int", "a", ":", "int", ")", "{", "f", ":", "E", "}">>,
     <<"directive", "@", "d", "(", "a", ":", "Int", ")", "on", "OBJECT",
       "type", "Query", "@", "d", "(", "a", ":", "[", "{", "f", ":", "]", "}", "]", ")", "{", "f", ":", "Int", "}">>}

SomeDocuments == WellFormed \cup Truncated \cup Shortened \cup Replaced \cup Valued \cup Odd

\* Each of the schemas of WellFormed is accepted, with all its definitions (the
\* constructor).
WellFormedAccepted ==
    (outcome # "running" /\ document \in WellFormed) =>
        /\ Accepted
        /\ Len(definitions) = Cardinality({i \in DOMAIN document : document[i] \in PrimaryTokens})

\* What check_value should compute: list says whether the type is taken as a list.  Any
\* name fits an enum, whether it is one of its values or not: check_value does not look
\* (graphql_schema.cpp:966-974).
RECURSIVE Fits(_, _, _)
Fits(value, type, list) ==
    LET fields == Symbol(type.name).fields
        given == {value.items[i].name : i \in DOMAIN value.items}
    IN  CASE value.kind = "null" -> ~ (IF list THEN type.is_non_null_list ELSE type.is_non_null)
          [] value.kind = "list" -> list /\ \A i \in DOMAIN value.items : Fits(value.items[i].value, type, FALSE)
          [] value.kind = "object" ->
               /\ ~ list /\ type.type = "Object" /\ given \subseteq DOMAIN fields
               /\ \A f \in DOMAIN fields : Strict(fields[f].type) => f \in given
               /\ \A i \in DOMAIN value.items :
                     LET own == types[fields[value.items[i].name].type] IN
                     Fits(value.items[i].value, own, own.is_list)
          [] OTHER -> ~ list /\ type.type \in AssignableTo[value.kind]

\* When nothing else is wrong, a schema is accepted exactly when the values of the
\* directives' arguments fit their types (check_value, which switches the list flags
\* of the Type nodes off and on again).  The values of the run have lists in objects in
\* lists, but no list whose element is a list.
ValuesFit ==
    (outcome = "done" /\
     ToSet(diagnostics) \subseteq {NotAssignable, "Field_0_does_not_exist_on_type_1", "Missing_required_field_0"}) =>
        (diagnostics = <<>> <=>
         \A i \in DOMAIN directives :
            LET defined == directive_definitions[directives[i].name].arguments IN
            \A a \in DOMAIN directives[i].arguments \cap DOMAIN defined :
                Fits(directives[i].arguments[a], types[defined[a]], types[defined[a]].is_list))
=============================================================================
