---------------------------- MODULE GraphQlValues ----------------------------
(***************************************************************************)
(* The parts of src/program/graphql/graphql_executor.cpp that read         *)
(* arguments, values, directives and variable definitions.                 *)
(*                                                                         *)
(* parse_value checks the elements of a list by switching is_list_type of  *)
(* the schema's own Type node off and on again, so list_types is state: the*)
(* nodes whose is_list_type is set.  The set of duplicate fields is kept   *)
(* for the executor's whole life.                                          *)
(***************************************************************************)
EXTENDS GraphQlParser

CONSTANT
    Schema   \* what add_schema copies, see SchemaType

\* A Type node: its identity, TypeEnum, the name it has when it is not a scalar
\* ("" otherwise: the pointer is null) and its modifiers.
Type(id, kind, name, non_null, list, non_null_list) ==
    [id |-> id, kind |-> kind, name |-> name, is_non_null |-> non_null, is_list |-> list,
     is_non_null_list |-> non_null_list]

\* Schema is a record: the kind of every symbol; fields (their Types) of objects,
\* interfaces and input objects; arguments of the fields; values of enums;
\* members of unions; implementations of objects; directives with locations and
\* arguments; the root types query, mutation and subscription ("none": null).
Symbols == DOMAIN Schema.kind

VARIABLES
    current_object_types, \* a stack of type names, its top last
    list_types,           \* the Type nodes with is_list_type
    current_value_token,
    duplicate_fields,
    flaws                 \* history: what is wrong in the document, seen from the schema

valueVars == <<list_types, current_value_token, duplicate_fields, flaws>>

IsList(type) == type.id \in list_types
Required(type) == (type.is_non_null /\ ~ IsList(type)) \/ type.is_non_null_list

\* get_type_name follows the name of a type that is no scalar.
HasTypeName(type) == type.kind \in {"Object", "Enum"} => type.name # ""

-----------------------------------------------------------------------------
(* parse_value *)

\* A value of the type is read; the caller goes on at the given place.
CallValue(at, of, type) == Call(at, of, Frame("value", "begin", type))

\* The kinds of type that a scalar token can be assigned to.
AssignableTo(kind) ==
    CASE kind = "string" -> {"String", "ID"}
      [] kind = "int" -> {"Int", "ID"}
      [] kind = "float" -> {"Float"}
      [] kind \in {"true", "false"} -> {"Boolean"}

ValueToken == Kind(position)

\* A list begins: its elements are checked against the type without the list.
parse_list ==
    /\ In("value", "begin")
    /\ ValueToken = "["
    /\ HasTypeName(Top.of) \/ IsList(Top.of)
    /\ Report(After(position), When(~ IsList(Top.of), "The_value_0_is_not_assignable_to_type_1"))
    /\ current_value_token' = "["
    /\ list_types' = list_types \ {Top.of.id}
    /\ CallValue("next", Top.of, Top.of)
    /\ UNCHANGED <<current_object_types, duplicate_fields, flaws>>

\* The next element, until parse_value returns null.
parse_list_element ==
    /\ In("value", "next")
    /\ result # "null"
    /\ CallValue("next", Top.of, Top.of)
    /\ UNCHANGED <<document, position, diagnostics, outcome, current_object_types, valueVars>>

\* Variant: is_list_type stays off behind the list.
EndListKeepsType ==
    /\ In("value", "next")
    /\ result = "null"
    /\ Report(position, When(current_value_token # "]", "Expected_0_but_got_1"))
    /\ Return("value")
    /\ UNCHANGED <<current_object_types, valueVars>>

\* The end of a list; is_list_type is set, whether it was before or not.
end_list ==
    /\ In("value", "next")
    /\ result = "null"
    /\ Report(position, When(current_value_token # "]", "Expected_0_but_got_1"))
    /\ list_types' = list_types \cup {Top.of.id}
    /\ Return("value")
    /\ UNCHANGED <<current_object_types, current_value_token, duplicate_fields, flaws>>

\* The token does not fit the type.
Misfit(type) ==
    CASE ValueToken = "]" -> FALSE
      [] ValueToken = "null" -> type.is_non_null \/ type.is_non_null_list
      [] OTHER -> type.kind \notin AssignableTo(ValueToken) \/ IsList(type)

\* A token of its own: the end of a list, null, or a scalar.
parse_scalar ==
    LET kind == ValueToken
        wrong == Misfit(Top.of)
    IN  /\ In("value", "begin")
        /\ kind \in {"]", "null", "string", "int", "float", "true", "false"}
        /\ wrong => HasTypeName(Top.of)
        /\ Report(After(position),
                  When(wrong, IF kind = "null" THEN "The_value_0_is_not_assignable_to_type_1"
                              ELSE "Type_0_is_not_assignable_to_type_1"))
        /\ Return(IF kind = "]" THEN "null" ELSE "value")
        /\ current_value_token' = kind
        /\ UNCHANGED <<current_object_types, list_types, duplicate_fields, flaws>>

\* A name is an enum value.
parse_enum_value ==
    /\ In("value", "begin")
    /\ ValueToken = "name"
    /\ Top.of.kind = "Enum" /\ Top.of.name # ""
    /\ Report(After(position),
              When(IsList(Top.of), "The_value_0_is_not_assignable_to_type_1") \o
              When(TokenAt(position) \notin Schema.values[Top.of.name], "Undefined_enum_value_0"))
    /\ Return("value")
    /\ current_value_token' = "name"
    /\ UNCHANGED <<current_object_types, list_types, duplicate_fields, flaws>>

IsInputObject(type) ==
    type.kind = "Object" /\ type.name \in Symbols /\ Schema.kind[type.name] = "input"

\* An object where none can be: the braces that follow are skipped.
refuse_object ==
    /\ In("value", "begin")
    /\ ValueToken = "{"
    /\ Top.of.kind # "Object" \/ IsList(Top.of)
    /\ HasTypeName(Top.of)
    /\ Report(SkipBlock(After(position)), <<"The_value_0_is_not_assignable_to_type_1">>)
    /\ Return("null")
    /\ current_value_token' = "{"
    /\ UNCHANGED <<current_object_types, list_types, duplicate_fields, flaws>>

\* An object that is read: its fields so far, and those of them that have values.
ObjectRead(type, parsed, object_fields) ==
    [type |-> type, parsed |-> parsed, object_fields |-> object_fields]

\* An object; the schema may have been reported and have an output type here, which
\* is refused without its braces.
parse_object_value ==
    /\ In("value", "begin")
    /\ ValueToken = "{"
    /\ Top.of.kind = "Object" /\ ~ IsList(Top.of)
    /\ Top.of.name # ""
    /\ IF IsInputObject(Top.of)
       THEN /\ Report(After(position), <<>>)
            /\ Goto("object", ObjectRead(Top.of, <<>>, <<>>))
       ELSE /\ Report(After(position), <<"The_type_0_is_not_an_object">>)
            /\ Return("null")
    /\ current_value_token' = "{"
    /\ UNCHANGED <<current_object_types, list_types, duplicate_fields, flaws>>

FieldsOf(name) == DOMAIN Schema.fields[name]
\* The code keeps them in a vector beside the fields, where a field that is declared
\* a second time, and dropped, may be added too (graphql_schema.cpp:487-491).  Schema
\* gives each field once: a schema that repeats one is reported.
RequiredFields(name) ==
    {f \in FieldsOf(name) :
        Schema.fields[name][f].is_non_null \/ Schema.fields[name][f].is_non_null_list}

\* A field of the object that is known: its value follows.
parse_object_field ==
    LET name == TokenAt(position)
        of == Top.of
    IN  /\ In("value", "object")
        /\ ValueToken = "name"
        /\ name \in FieldsOf(of.type.name)
        /\ duplicate_fields' =
               IF Contains(of.parsed, name) THEN duplicate_fields \cup {name} ELSE duplicate_fields
        /\ LET p == After(position) IN
           IF Kind(p) = ":"
           THEN /\ Report(After(p), <<>>)
                /\ CallValue("object_field", ObjectRead(of.type, Append(of.parsed, name), of.object_fields),
                             Schema.fields[of.type.name][name])
           ELSE /\ Report(After(p), <<NotExpected(p)>>)
                /\ Return("null")
        /\ UNCHANGED <<current_object_types, list_types, current_value_token, flaws>>

end_object_field ==
    /\ In("value", "object_field")
    /\ LET of == Top.of IN
       Goto("object", ObjectRead(of.type, of.parsed, Append(of.object_fields, Last(of.parsed))))
    /\ UNCHANGED <<document, position, diagnostics, outcome, current_object_types, valueVars>>

\* A field that is not known, or no field at all.
skip_object_field ==
    LET p == After(position)
        unknown == ValueToken = "name"
        to == SkipTo(p, {"name", "}"})
    IN  /\ In("value", "object")
        /\ ValueToken \notin {"}", "end"}
        /\ unknown => TokenAt(position) \notin FieldsOf(Top.of.type.name)
        /\ Report(to, <<IF unknown THEN "Field_0_does_not_exist_on_type_1"
                        ELSE "Expected_object_field_name">>)
        /\ Goto(IF unknown \/ Kind(to) = "name" THEN "object" ELSE "end_object", Top.of)
        /\ UNCHANGED <<current_object_types, valueVars>>

close_object ==
    /\ In("value", "object")
    /\ ValueToken \in {"}", "end"}
    /\ Report(After(position), <<>>)
    /\ Goto("end_object", Top.of)
    /\ UNCHANGED <<current_object_types, valueVars>>

\* The fields with values whose name is among the duplicates, and those missing.
end_object ==
    /\ In("value", "end_object")
    /\ Report(position,
         Times(Cardinality({i \in DOMAIN Top.of.object_fields :
                              Top.of.object_fields[i] \in duplicate_fields}), "Duplicate_field_0") \o
         Times(Cardinality(RequiredFields(Top.of.type.name) \ ToSet(Top.of.parsed)),
               "Missing_required_field_0"))
    /\ Return("value")
    /\ UNCHANGED <<current_object_types, valueVars>>

\* Any other token.
refuse_value ==
    /\ In("value", "begin")
    /\ ValueToken \notin {"[", "]", "null", "string", "int", "float", "true", "false", "name", "{"}
    /\ Report(SkipTo(After(position), {"name", ")"}), <<"Expected_value_instead_got_0">>)
    /\ Return("null")
    /\ current_value_token' = ValueToken
    /\ UNCHANGED <<current_object_types, list_types, duplicate_fields, flaws>>

\* The name of the type is needed and the pointer to it is null, or it is the
\* name of something that is no enum.
undefined_value ==
    LET kind == ValueToken IN
    /\ In("value", "begin")
    /\ \/ kind = "name" /\ (Top.of.kind # "Enum" \/ Top.of.name = "")
       \/ kind = "{" /\ Top.of.kind \in {"Object", "Enum"} /\ Top.of.name = ""
       \/ kind = "[" /\ ~ HasTypeName(Top.of) /\ ~ IsList(Top.of)
       \/ kind = "null" /\ ~ HasTypeName(Top.of) /\ (Top.of.is_non_null \/ Top.of.is_non_null_list)
       \/ kind \in {"string", "int", "float", "true", "false"} /\ ~ HasTypeName(Top.of)
    /\ Undefined
    /\ UNCHANGED <<current_object_types, valueVars>>

ParseValue ==
    \/ parse_list \/ parse_list_element \/ end_list \/ parse_scalar \/ parse_enum_value
    \/ refuse_object \/ parse_object_value \/ parse_object_field \/ end_object_field
    \/ skip_object_field \/ close_object \/ end_object \/ refuse_value \/ undefined_value

-----------------------------------------------------------------------------
(* parse_arguments *)

\* definitions maps the names of the arguments to their Types, given are those that
\* were there and name is the current one.
Arguments(definitions, given, name) ==
    [definitions |-> definitions, given |-> given, name |-> name]
CallArguments(at, of, definitions) ==
    Call(at, of, Frame("arguments", "begin", Arguments(definitions, {}, "")))

MissingArguments(definitions, given) ==
    {a \in DOMAIN definitions : Required(definitions[a]) /\ a \notin given}

\* A name and a colon; the value of an argument that is not known is skipped.
parse_argument ==
    LET name == TokenAt(position)
        known == name \in DOMAIN Top.of.definitions
        p == After(position)
        of == Arguments(Top.of.definitions, Top.of.given, name)
    IN  /\ In("arguments", "begin")
        /\ NameKind(position) = "name"
        /\ \/ /\ Kind(p) # ":"
              /\ Report(SkipTo(After(p), {"}"}),
                        When(~ known, "Unknown_argument_0") \o <<NotExpected(p)>>)
              /\ Return("null")
           \/ /\ Kind(p) = ":" /\ known
              /\ Report(After(p), <<>>)
              /\ CallValue("directives", of, Top.of.definitions[name])
           \/ /\ Kind(p) = ":" /\ ~ known
              /\ Report(SkipTo(After(p), {"name", ")"}), <<"Unknown_argument_0">>)
              /\ Goto("directives", of)
        /\ UNCHANGED <<current_object_types, valueVars>>

\* Variant: an argument is not noted as given.
EndArgumentUnnoted ==
    /\ In("arguments", "emplace")
    /\ Goto("begin", Top.of)
    /\ UNCHANGED <<document, position, diagnostics, outcome, current_object_types, valueVars>>

\* emplace keeps the first argument of a name.
end_argument ==
    /\ In("arguments", "emplace")
    /\ LET of == Top.of IN Goto("begin", Arguments(of.definitions, of.given \cup {of.name}, of.name))
    /\ UNCHANGED <<document, position, diagnostics, outcome, current_object_types, valueVars>>

\* Variant: the loop goes on until a parenthesis, and stays at the end of the
\* document.
EndArgumentsAtParen ==
    /\ In("arguments", "begin")
    /\ NameKind(position) # "name"
    /\ Report(After(position), <<>>)
    /\ IF NameKind(position) = ")" THEN Return("arguments") ELSE UNCHANGED <<frames, result>>
    /\ UNCHANGED <<current_object_types, valueVars>>

\* Any other token ends the arguments, whatever it is.
end_arguments ==
    /\ In("arguments", "begin")
    /\ NameKind(position) # "name"
    /\ Report(After(position),
              Times(Cardinality(MissingArguments(Top.of.definitions, Top.of.given)),
                    "Missing_required_argument_0"))
    /\ Return("arguments")
    /\ UNCHANGED <<current_object_types, valueVars>>

-----------------------------------------------------------------------------
(* parse_directives *)

Directives(location, seen, name) == [location |-> location, seen |-> seen, name |-> name]
CallDirectives(at, of, location) ==
    Call(at, of, Frame("directives", "begin", Directives(location, {}, "")))

argument_directives ==
    /\ In("arguments", "directives")
    /\ CallDirectives("emplace", Top.of, "ARGUMENT_DEFINITION")
    /\ UNCHANGED <<document, position, diagnostics, outcome, current_object_types, valueVars>>

PrimaryTokens == {"query", "mutation", "subscription", "fragment"}

\* An "@" and a name, without white space between them.
parse_directive ==
    LET p == After(position)
        spaced == TokenAt(position) = "@_"
        name == TokenAt(p)
        q == After(p)
        of == Directives(Top.of.location, Top.of.seen, name)
        wrong == When(Top.of.location \notin Schema.directives[name].locations,
                      "The_directive_0_does_not_support_the_location_1")
    IN  /\ In("directives", "begin")
        /\ Kind(position) = "@"
        /\ \/ /\ spaced \/ NameKind(p) # "name"
              /\ Report(SkipTo(IF spaced THEN p ELSE q, PrimaryTokens),
                        <<"Expected_name_but_instead_got_0">>)
              /\ Return("directives")
           \/ /\ ~ spaced /\ NameKind(p) = "name" /\ name \notin DOMAIN Schema.directives
              /\ Report(SkipTo(q, {")"}), <<"Undefined_directive_0">>)
              /\ Return("directives")
           \/ /\ ~ spaced /\ NameKind(p) = "name" /\ name \in DOMAIN Schema.directives
              /\ Report(Optional(q, "("), wrong)
              /\ IF Kind(q) = "("
                 THEN CallArguments("arguments", of, Schema.directives[name].arguments)
                 ELSE Goto("emplace", of)
        /\ UNCHANGED <<current_object_types, list_types, current_value_token, duplicate_fields, flaws>>

directive_arguments ==
    /\ In("directives", "arguments")
    /\ IF result = "null" THEN Return("directives") ELSE Goto("emplace", Top.of)
    /\ UNCHANGED <<document, position, diagnostics, outcome, current_object_types, valueVars>>

end_directive ==
    /\ In("directives", "emplace")
    /\ Report(position, When(Top.of.name \in Top.of.seen, "Duplicate_argument_0"))
    /\ LET of == Top.of IN Goto("begin", Directives(of.location, of.seen \cup {of.name}, of.name))
    /\ UNCHANGED <<current_object_types, valueVars>>

end_directives ==
    /\ In("directives", "begin")
    /\ Kind(position) # "@"
    /\ Return("directives")
    /\ UNCHANGED <<document, position, diagnostics, outcome, current_object_types, valueVars>>

-----------------------------------------------------------------------------
(* parse_variable_definitions, parse_type *)

\* The types that have a keyword; every other token is the name of an object,
\* and is not kept.
TypeKeywords == {"Boolean", "Int", "Float", "String", "ID"}

\* One variable, its type and "=": as a comma is white space, there never is a
\* second one.  Its type is a node of its own.
parse_variable ==
    LET colon == After(position)
        bracket == After(colon)
        word == Optional(bracket, "[")
        is_list == Kind(bracket) = "["
        mark == After(word)
        close == Optional(mark, "!")
        second == IF is_list THEN After(close) ELSE close
        equal == IF is_list THEN Optional(second, "!") ELSE second
        type == Type("variable", IF Kind(word) \in TypeKeywords THEN Kind(word) ELSE "Object",
                     "", Kind(mark) = "!", is_list, is_list /\ Kind(second) = "!")
    IN  /\ In("variables", "begin")
        /\ Kind(position) = "name"
        /\ Report(Optional(equal, "="),
                  When(Kind(colon) # ":", NotExpected(colon)) \o
                  When(is_list /\ Kind(close) # "]", NotExpected(close)))
        /\ list_types' = IF is_list THEN list_types \cup {"variable"} ELSE list_types \ {"variable"}
        /\ IF Kind(equal) = "=" THEN CallValue("end", Top.of, type)
           ELSE Return("variables")
        /\ UNCHANGED <<current_object_types, current_value_token, duplicate_fields, flaws>>

end_variables ==
    /\ \/ In("variables", "end") /\ UNCHANGED position
       \/ In("variables", "begin") /\ Kind(position) # "name" /\ position' = After(position)
    /\ Return("variables")
    /\ UNCHANGED <<document, diagnostics, outcome, current_object_types, valueVars>>

ParseArguments == parse_argument \/ end_argument \/ end_arguments \/ argument_directives
ParseDirectives == parse_directive \/ directive_arguments \/ end_directive \/ end_directives
ParseVariables == parse_variable \/ end_variables
=============================================================================
