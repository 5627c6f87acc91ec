---------------------------- MODULE GraphQlSchema ----------------------------
(***************************************************************************)
(* The schema, src/program/graphql/graphql_schema.cpp: GraphQlSchemaParser *)
(* reads it, and the second half of the constructor checks what could not  *)
(* be checked before everything was read.                                  *)
(*                                                                         *)
(* The checks change the Type nodes: a reference to an enum is marked when *)
(* its turn comes, and a list is made a single value while its elements are*)
(* looked at.  check_recursive_directives follows the types of input fields*)
(* and knows no end of its own: MaxDepth is what fits on the stack.        *)
(***************************************************************************)
EXTENDS GraphQlSchemaParser

Graph == INSTANCE Graphs

CONSTANT
    MaxDepth   \* calls that are open at once; then the outcome is "overflow"

ASSUME SchemaAssumption ==
    /\ Documents \subseteq Seq(STRING)
    /\ Names \cap Keywords = {}
    /\ Locations \subseteq Names
    /\ ToSet(Ordered) = Names \cup Keywords
    /\ MaxDepth \in Nat

VARIABLE
    root   \* query, mutation and subscription: declarations, 0 where none was set

vars == <<parserVars, schemaVars, root>>

Init ==
    /\ document \in Documents
    /\ position = 0
    /\ diagnostics = <<>>
    /\ frames = <<Frame("document", "begin", 0)>>
    /\ result = Null
    /\ outcome = "running"
    /\ types = <<>>
    /\ declarations = <<>>
    /\ duplicate_symbols = {}
    /\ definitions = <<>>
    /\ directives = <<>>
    /\ directive_definitions = <<>>
    /\ current_value_token = ""
    /\ root = [r \in RootFields |-> 0]

parsedVars == <<declarations, duplicate_symbols, definitions, directiveVars, current_value_token>>

-----------------------------------------------------------------------------
(* set_root_types *)

DefaultName == [query |-> "Query", mutation |-> "Mutation", subscription |-> "Subscription"]

\* The names in the last schema definition; "" stands for a null pointer.
Schemas == SelectSeq(definitions, LAMBDA d : d.kind = "schema")
RootName(r) ==
    IF Schemas # <<>> /\ r \in DOMAIN Last(Schemas).roots THEN Last(Schemas).roots[r] ELSE ""
RootType(r) == IF RootName(r) # "" THEN RootName(r) ELSE DefaultName[r]

\* A declaration of any kind will do.
set_root_types ==
    LET undefined(r) == When(RootName(r) # "" /\ RootName(r) \notin Symbols, "Type_0_is_not_defined") IN
    /\ In("document", "begin")
    /\ Kind(position) = "end"
    /\ root' = [r \in RootFields |-> IF RootType(r) \in Symbols THEN Min(Named(RootType(r))) ELSE 0]
    /\ Report(position,
              undefined("query") \o
              When(RootName("query") = "" /\ "Query" \notin Symbols, "No_query_root_operation_type_defined") \o
              undefined("mutation") \o undefined("subscription"))
    /\ Goto("references", 1)
    /\ UNCHANGED schemaVars

-----------------------------------------------------------------------------
(* check_forward_references, check_recursive_directives *)

\* Variant: the loop begins again.
ReferencesAgain(i) == {j \in DOMAIN types : types[j].name # ""}

References(i) == {j \in i .. Len(types) : types[j].name # ""}

\* Variant: the types of fields are not followed.
CallRecursiveFlat(at, of, directive, type) ==
    IF In("recursive", "fields") THEN Goto(at, of)
    ELSE Call(at, of, Frame("recursive", "begin", [directive |-> directive, type |-> type, names |-> {}]))

CallRecursive(at, of, directive, type) ==
    Call(at, of, Frame("recursive", "begin", [directive |-> directive, type |-> type, names |-> {}]))

check_forward_reference ==
    LET i == Min(References(Top.of))
        type == types[i]
        defined == type.name \in Symbols
        kind == Symbol(type.name).kind
    IN  /\ In("document", "references")
        /\ References(Top.of) # {}
        /\ types' = IF defined /\ kind = "enum" THEN [types EXCEPT ![i].type = "Enum"] ELSE types
        /\ Report(position,
                  IF ~ defined THEN <<"Type_0_is_not_defined">>
                  ELSE When(kind = "input" /\ ~ type.in_input_location,
                            "Cannot_add_an_input_type_to_an_output_location") \o
                       When(kind \in {"type", "interface", "union"} /\ type.in_input_location,
                            "Cannot_add_an_output_type_to_an_input_location"))
        /\ IF defined /\ kind \in {"enum", "input"} /\ type.parent # ""
           THEN CallRecursive("references", i + 1, type.parent, i)
           ELSE Goto("references", i + 1)
        /\ UNCHANGED <<parsedVars, root>>

end_forward_references ==
    /\ In("document", "references")
    /\ References(Top.of) = {}
    /\ Goto("directives", 1)
    /\ UNCHANGED <<document, position, diagnostics, outcome, schemaVars, root>>

RecursiveMessage == "Cannot_annotate_with_a_type_that_recursively_references_the_directive_0"

\* The declaration whose turn it is, when it is what the cast says.
Current == Symbol(types[Top.of.type].name)
IsInputType ==
    /\ types[Top.of.type].name \in Symbols
    /\ \/ Current.kind = "enum"
       \/ Current.kind = "input" /\ Current.complete

check_recursive_type ==
    /\ In("recursive", "begin")
    /\ IF IsInputType
       THEN /\ Report(position, When(Top.of.directive \in Current.directives, RecursiveMessage))
            /\ IF Current.kind = "enum" THEN Goto("values", [Top.of EXCEPT !.names = DOMAIN Current.values])
               ELSE Goto("fields", [Top.of EXCEPT !.names = DOMAIN Current.fields])
       ELSE Undefined
    /\ UNCHANGED <<schemaVars, root>>

check_recursive_value ==
    /\ In("recursive", "values")
    /\ \E name \in Foremost(Top.of.names) :
          /\ Report(position, When(Top.of.directive \in Current.values[name], RecursiveMessage))
          /\ Goto("values", [Top.of EXCEPT !.names = @ \ {name}])
    /\ UNCHANGED <<schemaVars, root>>

\* Fields that were marked as enums are not followed.
check_recursive_field ==
    /\ In("recursive", "fields")
    /\ \E name \in Foremost(Top.of.names) :
          LET field == Current.fields[name]
              of == [Top.of EXCEPT !.names = @ \ {name}]
          IN  \/ /\ types[field.type].type = "Object" /\ Len(frames) >= MaxDepth
                 /\ Stop("overflow")
              \/ /\ ~ (types[field.type].type = "Object" /\ Len(frames) >= MaxDepth)
                 /\ Report(position, When(of.directive \in field.directives, RecursiveMessage))
                 /\ IF types[field.type].type = "Object"
                    THEN CallRecursive("fields", of, of.directive, field.type)
                    ELSE Goto("fields", of)
    /\ UNCHANGED <<schemaVars, root>>

end_recursive_type ==
    /\ In("recursive", "values") \/ In("recursive", "fields")
    /\ Top.of.names = {}
    /\ Return(Null)
    /\ UNCHANGED <<document, position, diagnostics, outcome, schemaVars, root>>

-----------------------------------------------------------------------------
(* check_directive_references *)

Strict(type) == types[type].is_non_null \/ types[type].is_non_null_list

check_directive_reference ==
    LET directive == directives[Top.of]
        definition == directive_definitions[directive.name]
    IN  /\ In("document", "directives")
        /\ Top.of <= Len(directives)
        /\ IF directive.name \notin DOMAIN directive_definitions
           THEN /\ Report(position, <<"Undefined_directive_0">>)
                /\ Goto("directives", Top.of + 1)
           ELSE /\ Report(position,
                          When(directive.parent = directive.name, "Directive_cannot_reference_itself") \o
                          When(directive.location \notin definition.locations,
                               "The_directive_0_does_not_support_the_location_1"))
                /\ Call("directives", Top.of + 1,
                        Frame("directive_arguments", "begin",
                              [given |-> directive.arguments, defined |-> definition.arguments,
                               names |-> DOMAIN definition.arguments, checked |-> {}]))
        /\ UNCHANGED <<schemaVars, root>>

CallCheckValue(at, of, value, type) ==
    Call(at, of, Frame("check_value", "begin",
                       [value |-> value, type |-> type, items |-> <<>>, checked |-> {}, reported |-> {},
                        missing |-> {}, is_non_null_list |-> FALSE]))

check_directive_argument ==
    /\ In("directive_arguments", "begin")
    /\ \E name \in Foremost(Top.of.names) :
          LET type == Top.of.defined[name]
              of == [Top.of EXCEPT !.names = @ \ {name}]
          IN  IF type = 0 THEN Undefined
              ELSE IF name \in DOMAIN Top.of.given
              THEN /\ Report(position, <<>>)
                   /\ CallCheckValue("begin", [of EXCEPT !.checked = @ \cup {name}], Top.of.given[name], type)
              ELSE /\ Report(position, When(Strict(type), "Missing_required_argument_0"))
                   /\ Goto("begin", of)
    /\ UNCHANGED <<schemaVars, root>>

\* Where there are unknown arguments, the known ones are reported.
report_arguments ==
    /\ In("directive_arguments", "begin")
    /\ Top.of.names = {} /\ Top.of.checked # DOMAIN Top.of.given
    /\ Goto("unknown", Top.of)
    /\ UNCHANGED <<document, position, diagnostics, outcome, schemaVars, root>>

report_argument ==
    /\ In("directive_arguments", "unknown")
    /\ \E name \in Foremost(Top.of.checked) :
          /\ Report(position, <<"Unknown_argument_0">>)
          /\ Goto("unknown", [Top.of EXCEPT !.checked = @ \ {name}])
    /\ UNCHANGED <<schemaVars, root>>

end_directive_reference ==
    /\ \/ In("directive_arguments", "begin") /\ Top.of.names = {} /\ Top.of.checked = DOMAIN Top.of.given
       \/ In("directive_arguments", "unknown") /\ Top.of.checked = {}
    /\ Return(Null)
    /\ UNCHANGED <<document, position, diagnostics, outcome, schemaVars, root>>

\* The object whose turn it is, the interfaces that are left, the current one and
\* the fields that are left of it.
Implementing(object, names) == [object |-> object, names |-> names, name |-> "", fields |-> {}]

end_directive_references ==
    /\ In("document", "directives")
    /\ Top.of > Len(directives)
    /\ Goto("implementations", Implementing(0, {}))
    /\ UNCHANGED <<document, position, diagnostics, outcome, schemaVars, root>>

-----------------------------------------------------------------------------
(* check_value, check_input_object *)

NotAssignable == "The_value_0_is_not_assignable_to_type_1"

AssignableTo ==
    [string |-> {"String", "ID"}, int |-> {"Int", "ID"}, float |-> {"Float"}, true |-> {"Boolean"},
     false |-> {"Boolean"}, name |-> {"Enum"}]

check_scalar ==
    LET kind == Top.of.value.kind
        type == types[Top.of.type]
    IN  /\ In("check_value", "begin")
        /\ kind \in ScalarTokens
        /\ Report(position,
                  When(IF kind = "null"
                       THEN (~ type.is_list /\ type.is_non_null) \/ type.is_non_null_list
                       ELSE type.type \notin AssignableTo[kind] \/ type.is_list, NotAssignable))
        /\ Return(Null)
        /\ UNCHANGED <<schemaVars, root>>

\* The elements are checked against the same Type node, no longer a list.
check_list ==
    LET type == types[Top.of.type] IN
    /\ In("check_value", "begin")
    /\ Top.of.value.kind = "list" /\ type.is_list
    /\ types' = [types EXCEPT ![Top.of.type].is_list = FALSE, ![Top.of.type].is_non_null_list = FALSE]
    /\ Report(position, <<>>)
    /\ Goto("list", [Top.of EXCEPT !.items = Top.of.value.items, !.is_non_null_list = type.is_non_null_list])
    /\ UNCHANGED <<parsedVars, root>>

check_list_element ==
    /\ In("check_value", "list")
    /\ Top.of.items # <<>>
    /\ Report(position, <<>>)
    /\ CallCheckValue("list", [Top.of EXCEPT !.items = Tail(@)], Head(Top.of.items).value, Top.of.type)
    /\ UNCHANGED <<schemaVars, root>>

\* Variant: the node stays what the elements were checked against.
EndCheckListKeepsType ==
    /\ In("check_value", "list")
    /\ Top.of.items = <<>>
    /\ Report(position, <<>>)
    /\ Return(Null)
    /\ UNCHANGED <<schemaVars, root>>

end_check_list ==
    /\ In("check_value", "list")
    /\ Top.of.items = <<>>
    /\ types' = [types EXCEPT ![Top.of.type].is_list = TRUE,
                              ![Top.of.type].is_non_null_list = Top.of.is_non_null_list]
    /\ Report(position, <<>>)
    /\ Return(Null)
    /\ UNCHANGED <<parsedVars, root>>

IsObject(type) == types[type].type = "Object" /\ ~ types[type].is_list

\* The message needs the text of the value.
refuse_value ==
    LET value == Top.of.value IN
    /\ In("check_value", "begin")
    /\ \/ value.kind = "list" /\ ~ types[Top.of.type].is_list
       \/ value.kind = "object" /\ ~ IsObject(Top.of.type)
    /\ \/ value.prints = "text" /\ Report(position, <<NotAssignable>>) /\ Return(Null)
       \/ value.prints = "thrown" /\ Stop("thrown")
       \/ value.prints = "undefined" /\ Undefined
    /\ UNCHANGED <<schemaVars, root>>

\* check_recursive_directives has seen that an input type has its fields.
check_input_object ==
    LET name == types[Top.of.type].name IN
    /\ In("check_value", "begin")
    /\ Top.of.value.kind = "object" /\ IsObject(Top.of.type)
    /\ \/ /\ name \notin Symbols
          /\ Report(position, <<"Type_0_is_not_defined">>) /\ Return(Null)
       \/ /\ name \in Symbols /\ Symbol(name).kind # "input"
          /\ Report(position, <<>>) /\ Return(Null)
       \/ /\ name \in Symbols /\ Symbol(name).kind = "input"
          /\ Report(position, <<>>)
          /\ Goto("object", [Top.of EXCEPT !.items = Top.of.value.items])
    /\ UNCHANGED <<schemaVars, root>>

check_object_field ==
    LET name == Head(Top.of.items).name
        fields == Current.fields
        of == [Top.of EXCEPT !.items = Tail(@)]
    IN  /\ In("check_value", "object")
        /\ Top.of.items # <<>>
        /\ \/ /\ name \notin DOMAIN fields
              /\ Report(position, <<"Field_0_does_not_exist_on_type_1">>)
              /\ Goto("object", of)
           \/ /\ name \in DOMAIN fields /\ name \in of.checked
              /\ Report(position, <<"Duplicate_field_0">> \o When(name \notin of.reported, "Duplicate_field_0"))
              /\ Goto("object", [of EXCEPT !.reported = @ \cup {name}])
           \/ /\ name \in DOMAIN fields /\ name \notin of.checked
              /\ Report(position, <<>>)
              /\ CallCheckValue("object", [of EXCEPT !.checked = @ \cup {name}],
                                Head(Top.of.items).value, fields[name].type)
        /\ UNCHANGED <<schemaVars, root>>

end_object_fields ==
    /\ In("check_value", "object")
    /\ Top.of.items = <<>>
    /\ Goto("missing", [Top.of EXCEPT !.missing = DOMAIN Current.fields \ Top.of.checked])
    /\ UNCHANGED <<document, position, diagnostics, outcome, schemaVars, root>>

check_missing_field ==
    /\ In("check_value", "missing")
    /\ \E name \in Foremost(Top.of.missing) :
          /\ Report(position, When(Strict(Current.fields[name].type), "Missing_required_field_0"))
          /\ Goto("missing", [Top.of EXCEPT !.missing = @ \ {name}])
    /\ UNCHANGED <<schemaVars, root>>

end_check_object ==
    /\ In("check_value", "missing")
    /\ Top.of.missing = {}
    /\ Return(Null)
    /\ UNCHANGED <<document, position, diagnostics, outcome, schemaVars, root>>

\* parse_value gave no value, and not always a message.
undefined_value ==
    /\ In("check_value", "begin")
    /\ Top.of.value.kind = "nullptr"
    /\ Undefined
    /\ UNCHANGED <<schemaVars, root>>

-----------------------------------------------------------------------------
(* check_object_implementations, check_union_members *)

Interfaces(name) == {i \in Named(name) : declarations[i].kind = "interface"}

\* What is wrong with one field of an interface; the fields behind the first one of
\* another type are not looked at.
Mismatch == "Type_0_does_not_match_type_1_from_the_interface_2"
NotImplemented == "The_field_0_in_interface_1_is_not_implemented"
FieldProblem(object, interface, field) ==
    LET own == types[object.fields[field].type]
        other == types[interface.fields[field].type]
    IN  IF field \notin DOMAIN object.fields THEN NotImplemented
        ELSE IF own.type # other.type \/ own.name # other.name THEN Mismatch ELSE ""

Interface(name) == declarations[Min(Interfaces(name))]

\* The fields of an interface that failed are a null pointer.
check_object_implementation ==
    LET object == declarations[Top.of.object] IN
    /\ In("document", "implementations")
    /\ \E name \in Foremost(Top.of.names) :
          LET of == [Top.of EXCEPT !.names = @ \ {name}, !.name = name]
              defined == Interfaces(name) # {}
          IN  \/ /\ ~ (defined /\ object.complete)
                 /\ Report(position, When(~ defined, "Interface_0_is_not_defined"))
                 /\ Goto("implementations", of)
              \/ /\ defined /\ object.complete /\ Interface(name).complete
                 /\ Report(position, <<>>)
                 /\ Goto("interface", [of EXCEPT !.fields = DOMAIN Interface(name).fields])
              \/ /\ defined /\ object.complete /\ ~ Interface(name).complete
                 /\ Undefined
    /\ UNCHANGED <<schemaVars, root>>

check_interface_field ==
    /\ In("document", "interface")
    /\ \E field \in Foremost(Top.of.fields) :
          LET problem == FieldProblem(declarations[Top.of.object], Interface(Top.of.name), field) IN
          /\ Report(position, When(problem # "", problem))
          /\ Goto("interface", [Top.of EXCEPT !.fields = IF problem = Mismatch THEN {} ELSE @ \ {field}])
    /\ UNCHANGED <<schemaVars, root>>

end_interface ==
    /\ In("document", "interface")
    /\ Top.of.fields = {}
    /\ Goto("implementations", Top.of)
    /\ UNCHANGED <<document, position, diagnostics, outcome, schemaVars, root>>

next_object ==
    LET next == Top.of.object + 1 IN
    /\ In("document", "implementations")
    /\ Top.of.names = {}
    /\ IF next <= Len(declarations)
       THEN Goto("implementations", Implementing(next, declarations[next].implementations))
       ELSE Goto("unions", [union |-> 0, members |-> {}])
    /\ UNCHANGED <<document, position, diagnostics, outcome, schemaVars, root>>

\* Variant: a member only has to be defined.
MemberProblemUndefined(name) == When(name \notin Symbols, "Type_0_is_not_defined")

MemberProblem(name) ==
    IF name \notin Symbols THEN <<"Type_0_is_not_defined">>
    ELSE When(Symbol(name).kind # "type", "Only_objects_are_allowed_as_members_in_a_union")

check_union_member ==
    /\ In("document", "unions")
    /\ \E name \in Foremost(Top.of.members) :
          /\ Report(position, MemberProblem(name))
          /\ Goto("unions", [Top.of EXCEPT !.members = @ \ {name}])
    /\ UNCHANGED <<schemaVars, root>>

next_union ==
    LET next == Top.of.union + 1 IN
    /\ In("document", "unions")
    /\ Top.of.members = {}
    /\ \/ /\ next <= Len(declarations)
          /\ Goto("unions", [union |-> next, members |-> declarations[next].members])
          /\ UNCHANGED <<document, position, diagnostics, outcome>>
       \/ /\ next > Len(declarations)
          /\ Stop("done")
    /\ UNCHANGED <<schemaVars, root>>

-----------------------------------------------------------------------------

CheckSchema ==
    \/ set_root_types \/ check_forward_reference \/ end_forward_references
    \/ check_recursive_type \/ check_recursive_value \/ check_recursive_field \/ end_recursive_type
    \/ check_directive_reference \/ check_directive_argument \/ report_arguments \/ report_argument
    \/ end_directive_reference \/ end_directive_references
    \/ check_object_implementation \/ check_interface_field \/ end_interface \/ next_object
    \/ check_union_member \/ next_union

CheckValue ==
    \/ check_scalar \/ check_list \/ check_list_element \/ end_check_list \/ refuse_value
    \/ check_input_object \/ check_object_field \/ end_object_fields \/ check_missing_field \/ end_check_object
    \/ undefined_value

Next ==
    \/ CheckSchema \/ CheckValue
    \/ (ParseDocument \/ ParseTypes \/ ParseOthers \/ ParseDirectives) /\ UNCHANGED root

\* One thread runs the constructor to its end.
Spec == Init /\ [][Next]_vars /\ WF_vars(Next)

-----------------------------------------------------------------------------
(* Properties *)

Accepted == outcome = "done" /\ diagnostics = <<>>

ReferenceFits(type) ==
    LET kind == Symbol(type.name).kind IN
    /\ type.name \in Symbols
    /\ kind = "input" => type.in_input_location
    /\ kind \in {"type", "interface", "union"} => ~ type.in_input_location
    /\ type.type = "Enum" <=> kind = "enum"

ReferencesFit == \A i \in References(1) : ReferenceFits(types[i])

IsInterface(name) == name \in Symbols /\ Symbol(name).kind = "interface"
Implements(object, name) ==
    IsInterface(name) /\ \A f \in DOMAIN Symbol(name).fields : FieldProblem(object, Symbol(name), f) = ""
IsMember(name) == name \in Symbols /\ Symbol(name).kind = "type"

DeclarationsFit ==
    \A i \in DOMAIN declarations :
        LET declaration == declarations[i] IN
        /\ declaration.kind \in {"type", "interface", "input"} => declaration.complete
        /\ declaration.kind # "union" => i = Min(Named(declaration.name))
        /\ \A name \in declaration.members : IsMember(name)
        /\ \A name \in declaration.implementations : Implements(declaration, name)

DirectivesFit ==
    \A i \in DOMAIN directives :
        LET directive == directives[i]
            definition == directive_definitions[directive.name]
        IN  /\ directive.name \in DOMAIN directive_definitions
            /\ directive.location \in definition.locations
            /\ \A a \in DOMAIN definition.arguments :
                  Strict(definition.arguments[a]) => a \in DOMAIN directive.arguments

\* A schema without diagnostics holds together (the constructor, set_root_types and
\* the checks): every type that is named is defined, and is of a kind that can be
\* where it is named; no name is defined twice, but by unions, which are dropped without
\* a word where the name is taken; an interface is implemented field by field; directives are
\* defined for where they are; there is a query.  The executor follows all of these
\* pointers without looking.
AcceptedIsClosed ==
    Accepted => ReferencesFit /\ DeclarationsFit /\ DirectivesFit /\ root["query"] # 0

\* The input types that a type leads to, through the types of fields.
InputGraph ==
    [node |-> Symbols,
     edge |-> {e \in Symbols \X Symbols :
                 /\ Symbol(e[1]).kind = "input"
                 /\ \E f \in DOMAIN Symbol(e[1]).fields : types[Symbol(e[1]).fields[f].type].name = e[2]}]

\* The types of the arguments that directives are defined with.
DirectiveTypes ==
    {i \in References(1) :
        types[i].parent # "" /\ types[i].name \in Symbols /\ Symbol(types[i].name).kind \in {"input", "enum"}}
Behind(i) == Graph!Descendants(InputGraph, types[i].name)

\* The directives that are written on a declaration, its fields and its values.
Applied(declaration) ==
    declaration.directives \cup
    UNION {declaration.fields[f].directives : f \in DOMAIN declaration.fields} \cup
    UNION {declaration.values[v] : v \in DOMAIN declaration.values}

\* The types of a directive's arguments that lead back to it: it is applied on the
\* type, on an input type behind it, or on an enum that is the type of a field there
\* and is mentioned later than the argument, when it is not yet marked as an enum.
LeadsBack ==
    {i \in DirectiveTypes :
        LET own == types[i].name
            inputs == {n \in Behind(i) \cup {own} : Symbol(n).kind = "input"}
            fields == UNION {{Symbol(n).fields[f].type : f \in DOMAIN Symbol(n).fields} : n \in inputs}
            enums == {types[j].name : j \in {j \in fields \cap References(i + 1) : types[j].name \in Symbols}}
        IN  \E n \in {own} \cup inputs \cup enums : types[i].parent \in Applied(Symbol(n))}

\* The search for recursive directives (check_recursive_directives) does not come
\* back where an argument leads to an input type that contains itself, and only
\* there; where it does, it reports a directive exactly when one leads back to
\* itself.  Whether an enum behind a field counts depends on the order of the
\* definitions, for check_forward_references marks enums one by one.
RecursionSearched ==
    /\ outcome \in {"done", "overflow"} =>
          (outcome = "overflow" <=>
           \E i \in DirectiveTypes : \E n \in Behind(i) : n \in Graph!Descendants(InputGraph, n))
    /\ outcome = "done" => (Contains(diagnostics, RecursiveMessage) <=> LeadsBack # {})

\* Whatever the document is, the constructor ends.
ParseEnds == <>(outcome # "running")
=============================================================================
