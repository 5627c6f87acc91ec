------------------------- MODULE GraphQlSchemaParser -------------------------
(***************************************************************************)
(* How a schema is read: the first half of the constructor of              *)
(* src/program/graphql/graphql_schema.cpp and the functions it calls.      *)
(*                                                                         *)
(* The syntax nodes that are looked at again are state: the Type nodes and *)
(* the declarations, in the order they are made, and they point to one     *)
(* another by their places in these sequences (0: a null pointer).  A      *)
(* declaration is there from its name on, its fields from its closing brace*)
(* on.  The maps of the code follow from this: symbols has the first       *)
(* declaration of a name, interfaces the first interface, and              *)
(* forward_type_references the types that have a name.                     *)
(*                                                                         *)
(* Descriptions, default texts and the arguments of fields are read and not*)
(* kept.  Strings have no errors, and no letters where the scanner looks   *)
(* for a directive's location; there are no comments.                      *)
(***************************************************************************)
EXTENDS GraphQlParser

CONSTANTS
    Locations,   \* the names of the directive locations
    Ordered      \* the words, in the order that std::map gives them

VARIABLES
    types,
    declarations,
    duplicate_symbols,
    definitions,            \* what was parsed to its end
    directives,             \* the directives that are applied
    directive_definitions,  \* the first of each name
    current_value_token

declarationVars == <<types, declarations, duplicate_symbols, definitions>>
directiveVars == <<directives, directive_definitions>>
schemaVars == <<declarationVars, directiveVars, current_value_token>>

\* The way through a map: the name that no other is in front of has its turn.
Before(m, n) == \E i, j \in DOMAIN Ordered : i < j /\ Ordered[i] = m /\ Ordered[j] = n
Foremost(names) == {n \in names : ~ \E m \in names : Before(m, n)}

\* What emplace does.
Emplace(map, name, value) ==
    [n \in DOMAIN map \cup {name} |-> IF n \in DOMAIN map THEN map[n] ELSE value]

\* What a function returns, a null pointer included.
Null == [null |-> TRUE]
Pointer(value) == [null |-> FALSE, value |-> value]

\* A declaration; complete says that fields is not null.
Declaration(kind, name) ==
    [kind |-> kind, name |-> name, directives |-> {}, fields |-> <<>>, complete |-> FALSE,
     values |-> <<>>, members |-> {}, implementations |-> {}]

Named(name) == {i \in DOMAIN declarations : declarations[i].name = name}
Symbols == {declarations[i].name : i \in DOMAIN declarations}
Symbol(name) == declarations[Min(Named(name))]

TypeKinds == {"type", "interface", "input", "enum"}
PrimaryTokens == TypeKinds \cup {"directive", "schema", "union"}
SkipToPrimary(p) == SkipTo(p, PrimaryTokens)

RootFields == {"query", "mutation", "subscription"}

-----------------------------------------------------------------------------
(* parse_value *)

\* prints is what get_value_string does with the value: restore throws when
\* nothing was saved, and the case of an object runs into the one that throws.
Value(kind, items, otherwise) ==
    LET stops == SelectSeq(items, LAMBDA i : i.value.prints # "text") IN
    [kind |-> kind, items |-> items,
     prints |-> IF stops # <<>> THEN stops[1].value.prints ELSE otherwise]
NoValue == Value("nullptr", <<>>, "undefined")
Returned == IF result.null THEN NoValue ELSE result.value

CallValue(at, of) == Call(at, of, Frame("value", "begin", <<>>))

ScalarTokens == {"null", "string", "int", "float", "true", "false", "name"}

parse_value ==
    LET kind == Kind(position)
        p == After(position)
    IN  /\ In("value", "begin")
        /\ current_value_token' = kind
        /\ \/ /\ kind = "["
              /\ Report(p, <<>>)
              /\ CallValue("list", <<>>)
           \/ /\ kind = "]"
              /\ Report(p, <<>>)
              /\ Return(Null)
           \/ /\ kind \in ScalarTokens
              /\ Report(p, <<>>)
              /\ Return(Pointer(Value(kind, <<>>, "text")))
           \/ /\ kind = "{"
              /\ Report(p, <<>>)
              /\ Goto("object", <<>>)
           \/ /\ kind \notin ScalarTokens \cup {"[", "]", "{"}
              /\ Report(SkipTo(p, {"name", ")"}), <<"Expected_value_instead_got_0">>)
              /\ Return(Null)
        /\ UNCHANGED <<declarationVars, directiveVars>>

\* One more element, or the end of the list: whatever has no value ends it.
parse_list ==
    /\ In("value", "list")
    /\ IF result.null
       THEN /\ Report(position, When(current_value_token # "]", "Expected_0_but_got_1"))
            /\ Return(Pointer(Value("list", Top.of, IF Top.of = <<>> THEN "thrown" ELSE "text")))
       ELSE /\ Report(position, <<>>)
            /\ CallValue("list", Append(Top.of, [name |-> "", value |-> result.value]))
    /\ UNCHANGED schemaVars

ObjectValue == Pointer(Value("object", Top.of, "thrown"))

parse_object_field ==
    LET kind == NameKind(position)
        p == After(position)
        to == SkipTo(p, {"}", "name"})
    IN  /\ In("value", "object")
        /\ \/ /\ kind \in {"}", "end"}
              /\ Report(p, <<>>)
              /\ Return(ObjectValue)
           \/ /\ kind = "name" /\ Kind(p) = ":"
              /\ Report(After(p), <<>>)
              /\ CallValue("object_field", Append(Top.of, [name |-> TokenAt(position), value |-> NoValue]))
           \/ /\ kind = "name" /\ Kind(p) # ":"
              /\ Report(After(p), <<NotExpected(p)>>)
              /\ Return(Null)
           \/ /\ kind \notin {"}", "end", "name"}
              /\ Report(to, <<"Expected_object_field_name">>)
              /\ IF Kind(to) = "name" THEN UNCHANGED <<frames, result>> ELSE Return(ObjectValue)
        /\ UNCHANGED schemaVars

end_object_field ==
    /\ In("value", "object_field")
    /\ Goto("object", [Top.of EXCEPT ![Len(Top.of)].value = Returned])
    /\ UNCHANGED <<document, position, diagnostics, outcome, schemaVars>>

-----------------------------------------------------------------------------
(* parse_arguments_after_open_paren, parse_directives *)

\* Any token but a parenthesis stands for the name.
parse_argument ==
    LET p == After(position) IN
    /\ In("arguments", "begin")
    /\ \/ /\ NameKind(position) = ")"
          /\ Report(p, <<>>)
          /\ Return(Pointer(Top.of.arguments))
       \/ /\ NameKind(position) # ")" /\ Kind(p) = ":"
          /\ Report(After(p), <<>>)
          /\ CallValue("emplace", [Top.of EXCEPT !.name = TokenAt(position)])
       \/ /\ NameKind(position) # ")" /\ Kind(p) # ":"
          /\ Report(SkipTo(After(p), {"}"}), <<NotExpected(p)>>)
          /\ Return(Pointer(Top.of.arguments))
    /\ UNCHANGED schemaVars

\* The first of a name stays; it is reported once, every other one as well.
end_argument ==
    LET name == Top.of.name
        again == name \in DOMAIN Top.of.arguments
    IN  /\ In("arguments", "emplace")
        /\ Report(position, When(again /\ name \notin Top.of.reported, "Duplicate_argument_0") \o
                            When(again, "Duplicate_argument_0"))
        /\ Goto("begin", [Top.of EXCEPT !.arguments = Emplace(@, name, Returned),
                                        !.reported = IF again THEN @ \cup {name} ELSE @])
        /\ UNCHANGED schemaVars

\* parse_directives returns the names.
CallDirectives(at, of, location, parent) ==
    Call(at, of, Frame("directives", "begin",
                       [location |-> location, parent |-> parent, name |-> "", seen |-> {}]))

parse_directive ==
    LET p == After(position)
        q == After(p)
        spaced == TokenAt(position) = "@_"
        of == [Top.of EXCEPT !.name = TokenAt(p)]
    IN  /\ In("directives", "begin")
        /\ \/ /\ Kind(position) # "@"
              /\ Report(position, <<>>)
              /\ Return(Pointer(Top.of.seen))
           \/ /\ Kind(position) = "@" /\ (spaced \/ NameKind(p) # "name")
              /\ Report(SkipToPrimary(IF spaced THEN p ELSE q), <<"Expected_name_but_instead_got_0">>)
              /\ Return(Pointer(Top.of.seen))
           \/ /\ Kind(position) = "@" /\ ~ spaced /\ NameKind(p) = "name"
              /\ Report(Optional(q, "("), <<>>)
              /\ IF Kind(q) = "("
                 THEN Call("emplace", of,
                           Frame("arguments", "begin", [arguments |-> <<>>, name |-> "", reported |-> {}]))
                 ELSE frames' = Append(Front(frames), Continued("emplace", of)) /\ result' = Pointer(<<>>)
        /\ UNCHANGED schemaVars

end_directive ==
    LET name == Top.of.name IN
    /\ In("directives", "emplace")
    /\ Report(position, When(name \in Top.of.seen, "Duplicate_argument_0"))
    /\ directives' = Append(directives, [name |-> name, location |-> Top.of.location,
                                         parent |-> Top.of.parent, arguments |-> result.value])
    /\ Goto("begin", [Top.of EXCEPT !.seen = @ \cup {name}])
    /\ UNCHANGED <<declarationVars, directive_definitions, current_value_token>>

ParseDirectives ==
    \/ parse_value \/ parse_list \/ parse_object_field \/ end_object_field
    \/ parse_argument \/ end_argument \/ parse_directive \/ end_directive

-----------------------------------------------------------------------------
(* parse_type_annotation, parse_arguments_definition_after_open_paren *)

TypeKeywords == {"Int", "Float", "String", "Boolean", "ID"}

CallType(at, of, in_input_location, parent) ==
    Call(at, of, Frame("type_annotation", "begin",
                       [in_input_location |-> in_input_location, parent |-> parent]))

\* A Type node that has a name can be seen by others even when it is not returned.
\* The constructor sets neither is_list_type, is_non_null_list nor name
\* (graphql_syntaxes.h:399-400), and the pool's memory comes from malloc
\* (memory_pool.cpp:12): that what the parser leaves unset is false or null is assumed
\* here, the code does not see to it.
parse_type_annotation ==
    LET At(n) == Kind(position + n)
        is_list == At(0) = "["
        word == IF is_list THEN 1 ELSE 0
        named == At(word) = "name"
        known == named \/ At(word) \in TypeKeywords
        is_non_null == At(word + 1) = "!"
        close == IF is_non_null THEN word + 2 ELSE word + 1
        closed == is_list => At(close) = "]"
        strict == is_list /\ closed /\ At(close + 1) = "!"
        taken == IF ~ known THEN word + 1 ELSE IF ~ is_list THEN close ELSE IF strict THEN close + 2 ELSE close + 1
        type == [type |-> IF named THEN "Object" ELSE At(word),
                 name |-> IF named THEN TokenAt(position + word) ELSE "",
                 is_non_null |-> is_non_null, is_list |-> is_list, is_non_null_list |-> strict,
                 in_input_location |-> Top.of.in_input_location, parent |-> Top.of.parent]
    IN  /\ In("type_annotation", "begin")
        /\ Report(Min({position + taken, Len(document)}),
                  IF known THEN When(~ closed, NotExpected(position + close))
                  ELSE <<"Expected_type_annotation_instead_got_0">>)
        /\ types' = IF known THEN Append(types, type) ELSE types
        /\ Return(IF known /\ closed THEN Pointer(Len(types')) ELSE Null)
        /\ UNCHANGED <<declarations, duplicate_symbols, definitions, directiveVars, current_value_token>>

CallArgumentsDefinition(at, of, parent) ==
    Call(at, of, Frame("arguments_definition", "begin",
                       [parent |-> parent, arguments |-> <<>>, name |-> "", type |-> 0]))

parse_argument_definition ==
    LET kind == NameKind(position)
        p == After(position)
    IN  /\ In("arguments_definition", "begin")
        /\ \/ /\ kind = "string"
              /\ Report(p, <<>>)
              /\ UNCHANGED <<frames, result>>
           \/ /\ kind \notin {"string", "name"}
              /\ Report(p, When(kind \notin {")", "end"}, "Expected_name_of_argument"))
              /\ Return(Pointer(Top.of.arguments))
           \/ /\ kind = "name" /\ Kind(p) # ":"
              /\ Report(After(p), <<NotExpected(p)>>)
              /\ Return(Pointer(Top.of.arguments))
           \/ /\ kind = "name" /\ Kind(p) = ":"
              /\ Report(After(p), <<>>)
              /\ CallType("type", [Top.of EXCEPT !.name = TokenAt(position)], TRUE, Top.of.parent)
        /\ UNCHANGED schemaVars

\* An argument whose type cannot be read is kept, with a null pointer for it.
argument_directives ==
    /\ In("arguments_definition", "type")
    /\ CallDirectives("emplace", [Top.of EXCEPT !.type = IF result.null THEN 0 ELSE result.value],
                      "ARGUMENT_DEFINITION", Top.of.parent)
    /\ UNCHANGED <<document, position, diagnostics, outcome, schemaVars>>

end_argument_definition ==
    LET of == Top.of IN
    /\ In("arguments_definition", "emplace")
    /\ Report(position, When(of.name \in DOMAIN of.arguments, "Duplicate_argument_0"))
    /\ Goto("begin", [of EXCEPT !.arguments = Emplace(@, of.name, of.type)])
    /\ UNCHANGED schemaVars

-----------------------------------------------------------------------------
(* parse_fields_definition_after_open_brace, parse_input_fields_definition *)

CallFields(at, of, input) ==
    Call(at, of, Frame("fields", "begin", [input |-> input, fields |-> <<>>, name |-> "", type |-> 0]))

\* A name, and the arguments behind it unless the fields are those of an input.
parse_field ==
    LET kind == NameKind(position)
        p == After(position)
        of == [Top.of EXCEPT !.name = TokenAt(position)]
        some == DOMAIN of.fields # {}
    IN  /\ In("fields", "begin")
        /\ \/ /\ kind = "string"
              /\ Report(p, <<>>)
              /\ UNCHANGED <<frames, result>>
           \/ /\ kind = "}" /\ some
              /\ Report(p, <<>>)
              /\ Return(Pointer(of.fields))
           \/ /\ kind = "end"
              /\ Report(p, <<"Expected_0_but_instead_reached_the_end_of_document">>)
              /\ Return(Null)
           \/ /\ kind \notin {"string", "end", "name"} /\ ~ (kind = "}" /\ some)
              /\ Report(p, <<"Expected_field_definition">>)
              /\ Return(Null)
           \/ /\ kind = "name"
              /\ Report(IF of.input THEN p ELSE Optional(p, "("),
                        When(~ of.input /\ of.name \in DOMAIN of.fields, "Duplicate_field_0"))
              /\ IF ~ of.input /\ Kind(p) = "("
                 THEN CallArgumentsDefinition("colon", of, "")
                 ELSE Goto("colon", of)
        /\ UNCHANGED schemaVars

parse_field_type ==
    /\ \/ /\ In("fields", "colon")
          /\ IF Kind(position) = ":"
             THEN Report(After(position), <<>>) /\ CallType("type", Top.of, Top.of.input, "")
             ELSE Report(After(position), <<NotExpected(position)>>) /\ Return(Null)
       \/ /\ In("fields", "type")
          /\ Report(position, <<>>)
          /\ IF result.null THEN Return(Null)
             ELSE CallDirectives("emplace", [Top.of EXCEPT !.type = result.value],
                                 IF Top.of.input THEN "INPUT_FIELD_DEFINITION" ELSE "FIELD_DEFINITION", "")
    /\ UNCHANGED schemaVars

end_field ==
    LET of == Top.of IN
    /\ In("fields", "emplace")
    /\ Goto("begin", [of EXCEPT !.fields =
                        Emplace(@, of.name, [type |-> of.type, directives |-> result.value])])
    /\ UNCHANGED <<document, position, diagnostics, outcome, schemaVars>>

-----------------------------------------------------------------------------
(* parse_object, parse_interface_definition, parse_input_object, parse_enum *)

InType(at) == \E kind \in TypeKinds : In(kind, at)
TypeLocation ==
    [type |-> "OBJECT", interface |-> "INTERFACE", input |-> "INPUT_OBJECT", enum |-> "ENUM"]

\* parse_object_name and its like: the symbol is added unless it is there; the
\* first declaration of a name is reported with the second.
parse_type_name ==
    LET name == TokenAt(position)
        again == name \in Symbols
    IN  /\ InType("begin")
        /\ IF (IF Top.fn \in {"type", "interface"} THEN NameKind(position) ELSE Kind(position)) = "name"
           THEN /\ Report(After(position), When(again, "Duplicate_type_0") \o
                                           When(again /\ name \notin duplicate_symbols, "Duplicate_type_0"))
                /\ declarations' = Append(declarations, Declaration(Top.fn, name))
                /\ duplicate_symbols' = IF again THEN duplicate_symbols \cup {name} ELSE duplicate_symbols
                /\ CallDirectives("body", [index |-> Len(declarations'), implementations |-> {},
                                           some |-> FALSE, name |-> ""], TypeLocation[Top.fn], "")
           ELSE /\ Report(After(position), <<IF Top.fn = "enum" THEN NotExpected(position)
                                             ELSE "Expected_type_name_instead_got_0">>)
                /\ Return(Null)
                /\ UNCHANGED <<declarations, duplicate_symbols>>
        /\ UNCHANGED <<types, definitions, directiveVars, current_value_token>>

Parsed(kind) == Return(Pointer([kind |-> kind, roots |-> <<>>]))

\* An interface without fields is parsed all the same.
parse_type_body ==
    LET kind == Top.fn
        p == After(position)
    IN  /\ InType("body")
        /\ declarations' = [declarations EXCEPT ![Top.of.index].directives = result.value]
        /\ \/ /\ kind = "type" /\ Kind(position) = "implements"
              /\ Report(p, <<>>)
              /\ Goto("implements", Top.of)
           \/ /\ Kind(position) = "{"
              /\ Report(p, <<>>)
              /\ IF kind = "enum" THEN Goto("values", Top.of)
                 ELSE CallFields("fields", Top.of, kind = "input")
           \/ /\ Kind(position) # "{" /\ ~ (kind = "type" /\ Kind(position) = "implements")
              /\ Report(p, <<NotExpected(position)>>)
              /\ IF kind = "interface" THEN Parsed(kind) ELSE Return(Null)
        /\ UNCHANGED <<types, duplicate_symbols, definitions, directiveVars, current_value_token>>

parse_implementation ==
    LET name == TokenAt(position)
        p == After(position)
        of == [Top.of EXCEPT !.implementations = @ \cup {name}]
        wrong == When(name \in Symbols /\ Symbol(name).kind # "interface", "Expected_name_of_interface")
    IN  /\ In("type", "implements")
        /\ \/ /\ Kind(position) # "name"
              /\ Report(p, <<IF Kind(position) = "end" THEN "Unexpected_end_of_implementations"
                             ELSE "Expected_name_of_interface">>)
              /\ Return(Null) /\ UNCHANGED declarations
           \/ /\ Kind(position) = "name" /\ Kind(p) = "{"
              /\ Report(After(p), wrong)
              /\ declarations' = [declarations EXCEPT ![of.index].implementations = of.implementations]
              /\ CallFields("fields", of, FALSE)
           \/ /\ Kind(position) = "name" /\ Kind(p) = "&"
              /\ Report(After(p), wrong)
              /\ Goto("implements", of) /\ UNCHANGED declarations
           \/ /\ Kind(position) = "name" /\ Kind(p) \notin {"{", "&"}
              /\ Report(SkipBlock(After(p)), wrong \o <<"Expected_0_but_got_1">>)
              /\ Return(Null) /\ UNCHANGED declarations
        /\ UNCHANGED <<types, duplicate_symbols, definitions, directiveVars, current_value_token>>

end_fields ==
    /\ InType("fields")
    /\ declarations' =
           IF result.null THEN declarations
           ELSE [declarations EXCEPT ![Top.of.index].fields = result.value, ![Top.of.index].complete = TRUE]
    /\ IF result.null /\ Top.fn # "interface" THEN Return(Null) ELSE Parsed(Top.fn)
    /\ UNCHANGED <<document, position, diagnostics, outcome, types, duplicate_symbols, definitions,
                   directiveVars, current_value_token>>

\* Variant: keywords are no values.
EnumValuesNames == Names

\* is_valid_enum_value
EnumValues == Names \cup (Keywords \ {"true", "false", "null", "on"})

parse_enum_value ==
    LET token == TokenAt(position)
        p == After(position)
    IN  /\ In("enum", "values")
        /\ \/ /\ token = "}" /\ Top.of.some
              /\ Report(p, <<>>)
              /\ Parsed("enum")
           \/ /\ token = "string"
              /\ Report(p, <<>>)
              /\ UNCHANGED <<frames, result>>
           \/ /\ token = "end"
              /\ Report(p, <<"Expected_0_but_instead_reached_the_end_of_document">>)
              /\ Return(Null)
           \/ /\ token \in EnumValues
              /\ Report(p, <<>>)
              /\ CallDirectives("emplace", [Top.of EXCEPT !.name = token], "ENUM_VALUE", "")
           \/ /\ token \notin EnumValues \cup {"string", "end"} /\ ~ (token = "}" /\ Top.of.some)
              /\ Report(SkipTo(p, {"}"}), <<"Expected_enum_value_but_instead_got_0">>)
              /\ Parsed("enum")
        /\ UNCHANGED schemaVars

end_enum_value ==
    LET of == Top.of IN
    /\ In("enum", "emplace")
    /\ declarations' = [declarations EXCEPT ![of.index].values = Emplace(@, of.name, result.value)]
    /\ Goto("values", [of EXCEPT !.some = TRUE])
    /\ UNCHANGED <<document, position, diagnostics, outcome, types, duplicate_symbols, definitions,
                   directiveVars, current_value_token>>

ParseTypes ==
    \/ parse_type_annotation \/ parse_argument_definition \/ argument_directives \/ end_argument_definition
    \/ parse_field \/ parse_field_type \/ end_field
    \/ parse_type_name \/ parse_type_body \/ parse_implementation \/ end_fields
    \/ parse_enum_value \/ end_enum_value

-----------------------------------------------------------------------------
(* parse_union_after_union_keyword *)

\* Another token was expected than the one behind q tokens.
NoUnion(q) == Report(SkipToPrimary(After(q)), <<NotExpected(q)>>) /\ Return(Null)

\* The members so far; a token that is neither "|" nor the begin of a definition
\* ends the union without a word, and it is not kept.
parse_union ==
    LET p == After(position)
        member == Optional(p, "|")
        kept == [name |-> TokenAt(position), members |-> {}]
    IN  /\ \/ /\ In("union", "begin")
              /\ IF Kind(position) = "name"
                 THEN Report(p, <<>>) /\ CallDirectives("equal", kept, "UNION", "")
                 ELSE NoUnion(position)
           \/ /\ In("union", "equal")
              /\ IF Kind(position) # "=" THEN NoUnion(position)
                 ELSE IF Kind(member) # "name" THEN NoUnion(member)
                 ELSE /\ Report(After(member), <<>>)
                      /\ Goto("members", [Top.of EXCEPT !.members = {TokenAt(member)}])
           \/ /\ In("union", "members")
              /\ Kind(position) = "|"
              /\ IF Kind(p) # "name" THEN NoUnion(p)
                 ELSE /\ Report(After(p), <<>>)
                      /\ Goto("members", [Top.of EXCEPT !.members = @ \cup {TokenAt(p)}])
           \/ /\ In("union", "members")
              /\ Kind(position) \notin PrimaryTokens \cup {"|", "end"}
              /\ Report(SkipToPrimary(p), <<>>)
              /\ Return(Null)
        /\ UNCHANGED schemaVars

\* emplace keeps the symbol that is there.
end_union ==
    /\ In("union", "members")
    /\ Kind(position) \in PrimaryTokens \cup {"end"}
    /\ Report(position, <<>>)
    /\ declarations' = Append(declarations, [Declaration("union", Top.of.name) EXCEPT !.members = Top.of.members])
    /\ Parsed("union")
    /\ UNCHANGED <<types, duplicate_symbols, definitions, directiveVars, current_value_token>>

-----------------------------------------------------------------------------
(* parse_directive_definition_after_directive_keyword *)

\* scan_directive_location: what stands in front of the next word is passed over,
\* and is part of the text that is looked up.
Word(p) == First(p, LAMBDA q : NameKind(q) = "name")
LocationAt(p) ==
    IF Word(p) = Len(document) THEN "EndOfDocument"
    ELSE IF Word(p) = p /\ TokenAt(p) \in Locations THEN TokenAt(p) ELSE "Unknown"

\* Tokens without an entry in graphQlTokenToString, whose at throws.  Dollar has none
\* either, but take_next_token has no case for "$" and never returns it: the character
\* is Unknown, which has one.
Unprintable == {"&", "int", "float", "string", "end"}

parse_directive_name ==
    LET p == After(position)
        q == After(p)
        spaced == TokenAt(position) = "@_"
        of == [name |-> TokenAt(p), arguments |-> <<>>, locations |-> {}]
    IN  /\ In("directive", "begin")
        /\ \/ /\ Kind(position) # "@"
              /\ Report(SkipToPrimary(p), <<NotExpected(position)>>)
              /\ Return(Null)
           \/ /\ Kind(position) = "@" /\ (spaced \/ NameKind(p) # "name")
              /\ IF ~ spaced /\ NameKind(p) \in Unprintable THEN Stop("thrown")
                 ELSE /\ Report(SkipToPrimary(IF spaced THEN p ELSE q), <<"Expected_name_but_instead_got_0">>)
                      /\ Return(Null)
           \/ /\ Kind(position) = "@" /\ ~ spaced /\ NameKind(p) = "name"
              /\ Report(Optional(q, "("), <<>>)
              /\ IF Kind(q) = "("
                 THEN CallArgumentsDefinition("arguments", of, of.name)
                 ELSE Goto("on", of)
        /\ UNCHANGED schemaVars

end_directive_arguments ==
    /\ In("directive", "arguments")
    /\ Goto("on", [Top.of EXCEPT !.arguments = result.value])
    /\ UNCHANGED <<document, position, diagnostics, outcome, schemaVars>>

\* "on" and the first location; the end of the document is kept as one.
parse_first_location ==
    LET p == Optional(After(position), "|") IN
    /\ In("directive", "on")
    /\ \/ /\ Kind(position) # "on"
          /\ Report(SkipTo(After(position), {"}"}), <<NotExpected(position)>>)
          /\ Return(Null)
       \/ /\ Kind(position) = "on" /\ LocationAt(p) = "Unknown"
          /\ Report(SkipToPrimary(After(Word(p))), <<"Expected_directive_location">>)
          /\ Return(Null)
       \/ /\ Kind(position) = "on" /\ LocationAt(p) # "Unknown"
          /\ Report(After(Word(p)), <<>>)
          /\ Goto("locations", [Top.of EXCEPT !.locations = {LocationAt(p)}])
    /\ UNCHANGED schemaVars

parse_location ==
    LET p == After(position)
        kind == Kind(position)
    IN  /\ In("directive", "locations")
        /\ kind \notin PrimaryTokens \cup {"end"}
        /\ \/ /\ kind # "|"
              /\ Report(SkipToPrimary(p), <<"Expected_0_but_got_1">>)
              /\ Return(Null)
           \/ /\ kind = "|" /\ LocationAt(p) = "Unknown"
              /\ Report(SkipToPrimary(After(Word(p))), <<"Expected_directive_location">>)
              /\ Return(Null)
           \/ /\ kind = "|" /\ LocationAt(p) = "EndOfDocument"
              /\ Report(Word(p), <<"Expected_directive_location_but_instead_reached_the_end_of_document">>)
              /\ Return(Null)
           \/ /\ kind = "|" /\ LocationAt(p) \in Locations
              /\ Report(After(Word(p)), <<>>)
              /\ Goto("locations", [Top.of EXCEPT !.locations = @ \cup {LocationAt(p)}])
        /\ UNCHANGED schemaVars

end_directive_definition ==
    /\ In("directive", "locations")
    /\ Kind(position) \in PrimaryTokens \cup {"end"}
    /\ Report(position, <<>>)
    /\ directive_definitions' = Emplace(directive_definitions, Top.of.name,
                                        [arguments |-> Top.of.arguments, locations |-> Top.of.locations])
    /\ Parsed("directive")
    /\ UNCHANGED <<declarationVars, directives, current_value_token>>

-----------------------------------------------------------------------------
(* parse_schema *)

\* parse_schema_field_after_colon, behind p tokens; name "" is a null pointer.
SchemaField(p) ==
    LET q == After(p) IN
    IF Kind(p) # ":" THEN [position |-> q, name |-> "", messages |-> <<NotExpected(p)>>]
    ELSE IF Kind(q) # "name"
    THEN [position |-> SkipToPrimary(After(q)), name |-> "", messages |-> <<NotExpected(q)>>]
    ELSE [position |-> After(q), name |-> TokenAt(q), messages |-> <<>>]

parse_schema ==
    LET p == After(position) IN
    /\ \/ /\ In("schema", "begin")
          /\ Report(position, <<>>)
          /\ CallDirectives("body", <<>>, "SCHEMA", "")
       \/ /\ In("schema", "body")
          /\ IF Kind(position) = "{"
             THEN /\ Report(p, <<>>)
                  /\ Goto("fields", [roots |-> <<>>, added_duplicate_types |-> {}])
             ELSE Report(SkipBlock(p), <<NotExpected(position)>>) /\ Return(Null)
    /\ UNCHANGED schemaVars

\* The first field of a kind counts, whether its type can be read or not.
parse_schema_field ==
    LET kind == Kind(position)
        of == Top.of
        field == SchemaField(After(position))
        again == kind \in DOMAIN of.roots
    IN  /\ In("schema", "fields")
        /\ \/ /\ kind \in RootFields
              /\ Report(field.position,
                        When(again, "Duplicate_field_0") \o field.messages \o
                        When(again /\ kind \notin of.added_duplicate_types, "Duplicate_field_0"))
              /\ Goto("fields", [of EXCEPT !.roots = Emplace(@, kind, field.name),
                                           !.added_duplicate_types = IF again THEN @ \cup {kind} ELSE @])
           \/ /\ kind \in {"}", "end"}
              /\ Report(After(position), <<>>)
              /\ Return(Pointer([kind |-> "schema", roots |-> of.roots]))
           \/ /\ kind \notin RootFields \cup {"}", "end"}
              /\ Report(field.position,
                        <<"A_schema_definition_can_only_contain_query_mutation_and_subscription_fields">> \o
                        field.messages)
              /\ UNCHANGED <<frames, result>>
        /\ UNCHANGED schemaVars

ParseOthers ==
    \/ parse_union \/ end_union
    \/ parse_directive_name \/ end_directive_arguments \/ parse_first_location \/ parse_location
    \/ end_directive_definition \/ parse_schema \/ parse_schema_field

-----------------------------------------------------------------------------
(* The constructor's loop *)

\* parse_primary_token
parse_primary_token ==
    LET kind == Kind(position)
        p == After(position)
    IN  /\ In("document", "begin")
        /\ kind # "end"
        /\ \/ /\ kind = "string"
              /\ Report(p, <<>>)
              /\ UNCHANGED <<frames, result>>
           \/ /\ kind \in PrimaryTokens
              /\ Report(p, <<>>)
              /\ Call("parsed", 0, Frame(kind, "begin", <<>>))
           \/ /\ kind \notin PrimaryTokens \cup {"string"}
              /\ Report(SkipBlock(p), <<"Expected_type_definition">>)
              /\ UNCHANGED <<frames, result>>
        /\ UNCHANGED schemaVars

\* What failed is skipped to the end of the next block, wherever that begins.
end_definition ==
    /\ In("document", "parsed")
    /\ Report(IF result.null THEN SkipBlock(position) ELSE position, <<>>)
    /\ definitions' = IF result.null THEN definitions ELSE Append(definitions, result.value)
    /\ Goto("begin", 0)
    /\ UNCHANGED <<types, declarations, duplicate_symbols, directiveVars, current_value_token>>

ParseDocument == parse_primary_token \/ end_definition
=============================================================================
