--------------------------- MODULE GraphQlExecutor ---------------------------
(***************************************************************************)
(* The executor, src/program/graphql/graphql_executor.cpp: it parses a     *)
(* document against a schema and reports what does not fit.  The type that *)
(* a selection set is about is the top of current_object_types: it is      *)
(* pushed in front of the set and popped at its closing brace, and by no   *)
(* other way out of the set.                                               *)
(*                                                                         *)
(* The schema has a query type and every type that it names; whether       *)
(* something else was reported of it is not looked at.  Objects are made   *)
(* in memory of the pool that was never used before, so a pointer that no  *)
(* constructor sets is null.                                               *)
(***************************************************************************)
EXTENDS GraphQlValues

VARIABLES
    fragments,                   \* the names of the fragments that were begun
    fragment_definitions,        \* the fragments of the document: name and type
    operation_definitions,       \* the operations of the document
    forward_fragment_references  \* the spreads: name and the type around them

definitionVars == <<fragments, fragment_definitions, operation_definitions>>
documentVars == <<definitionVars, forward_fragment_references>>
vars == <<parserVars, current_object_types, valueVars, documentVars>>

KindOf(type) == Schema.kind[type]
Root(kind) ==
    IF kind = "query" THEN Schema.query
    ELSE IF kind = "mutation" THEN Schema.mutation ELSE Schema.subscription
Push(type) == current_object_types' = Append(current_object_types, type)

\* A selection set: type is what it is about in the document, base the height of
\* current_object_types when it is called, selections "none" or "some", and field
\* the current one.
Selection(type, base, selections, field) ==
    [type |-> type, base |-> base, selections |-> selections, field |-> field]
SelectionFrame(type, base) == Frame("selection", "begin", Selection(type, base, "none", ""))

\* The type nodes of the schema that are lists.
AllTypes ==
    UNION {Range(Schema.fields[t]) : t \in DOMAIN Schema.fields} \cup
    UNION {UNION {Range(Schema.arguments[t][f]) : f \in DOMAIN Schema.arguments[t]} :
             t \in DOMAIN Schema.arguments} \cup
    UNION {Range(Schema.directives[d].arguments) : d \in DOMAIN Schema.directives}
ListTypes == {type.id : type \in {t \in AllTypes : t.is_list}}

HasFields(type) == KindOf(type) \in {"object", "interface"}

\* The maps of the schema are finite and complete: types that have fields have them
\* with their arguments, and every type that the type of a field names is there.
SchemaComplete ==
    /\ \A t \in Symbols : HasFields(t) \/ KindOf(t) = "input" => t \in DOMAIN Schema.fields
    /\ \A t \in DOMAIN Schema.fields :
          /\ IsFiniteSet(FieldsOf(t))
          /\ \A f \in FieldsOf(t) :
                Schema.fields[t][f].kind = "Object" => Schema.fields[t][f].name \in Symbols
    /\ \A t \in Symbols : HasFields(t) =>
          \A f \in FieldsOf(t) : IsFiniteSet(DOMAIN Schema.arguments[t][f])
    /\ \A d \in DOMAIN Schema.directives : IsFiniteSet(DOMAIN Schema.directives[d].arguments)

ASSUME ExecutorAssumption ==
    /\ Documents \subseteq Seq(STRING)
    /\ Names \cap Keywords = {}
    /\ Schema.query \in Symbols
    /\ {Schema.mutation, Schema.subscription} \subseteq Symbols \cup {"none"}
    /\ "variable" \notin ListTypes
    /\ SchemaComplete

Init ==
    /\ document \in Documents
    /\ position = 0
    /\ diagnostics = <<>>
    /\ current_object_types = <<>>
    /\ frames = <<Frame("document", "begin", 0)>>
    /\ result = ""
    /\ outcome = "running"
    /\ list_types = ListTypes
    /\ current_value_token = ""
    /\ duplicate_fields = {}
    /\ flaws = {}
    /\ fragments = {}
    /\ fragment_definitions = <<>>
    /\ operation_definitions = <<>>
    /\ forward_fragment_references = <<>>

-----------------------------------------------------------------------------
(* Fragments that are applied *)

\* check_fragment_assignment: the message for a fragment on object that is
\* applied where the type is current.
Mismatch(object, current) ==
    IF KindOf(current) = "interface"
    THEN When(current \notin Schema.implementations[object],
              "The_object_0_does_not_implement_the_interface_1")
    ELSE IF KindOf(current) = "object"
    THEN When(current # object, "The_object_0_does_not_match_the_object_1")
    ELSE IF KindOf(current) = "union"
    THEN When(object \notin Schema.members[current], "The_type_0_is_not_member_of_the_union_1")
    ELSE <<"Type_conditions_are_only_applicable_inside_object_interfaces_and_unions">>

\* implementations is read from what is no object.
NoImplementations(object, current) == KindOf(object) # "object" /\ KindOf(current) = "interface"

\* The fragments of the name, in the order that they were added.
DefinitionsOf(reference) ==
    SelectSeq(fragment_definitions, LAMBDA f : f.name = reference.name)

\* One spread, at the end of the document: the first fragment of its name counts.
check_forward_fragment_references ==
    LET reference == forward_fragment_references[Top.of]
        object == DefinitionsOf(reference)[1].type
    IN  /\ In("document", "references")
        /\ Top.of <= Len(forward_fragment_references)
        /\ \/ /\ DefinitionsOf(reference) = <<>>
              /\ Report(position, <<"Fragment_0_is_not_defined">>)
              /\ Goto("references", Top.of + 1)
           \/ /\ DefinitionsOf(reference) # <<>> /\ NoImplementations(object, reference.type)
              /\ Undefined
           \/ /\ DefinitionsOf(reference) # <<>> /\ ~ NoImplementations(object, reference.type)
              /\ Report(position, Mismatch(object, reference.type))
              /\ Goto("references", Top.of + 1)
        /\ UNCHANGED <<current_object_types, valueVars, documentVars>>

-----------------------------------------------------------------------------
(* Execute, parse_primary_token *)

\* An operation: the type of its root is pushed and what follows is parsed.
BeginOperation ==
    LET kind == Kind(position) IN
    /\ In("document", "begin")
    /\ kind \in {"query", "mutation", "subscription"}
    /\ IF Root(kind) = "none"
       THEN /\ Report(SkipTo(After(position), PrimaryTokens),
                   <<IF kind = "mutation" THEN "Mutations_are_not_supported"
                     ELSE "Subscriptions_are_not_supported">>)
            /\ UNCHANGED <<frames, result, current_object_types>>
       ELSE /\ Report(After(position), <<>>)
            /\ Push(Root(kind))
            /\ Call("begin", 0, Frame("operation", "name", kind))
    /\ UNCHANGED <<valueVars, documentVars>>

\* A selection set without a keyword is a query.
BeginQuery ==
    /\ In("document", "begin")
    /\ Kind(position) = "{"
    /\ Report(After(position), <<>>)
    /\ Push(Schema.query)
    /\ frames' = <<Continued("begin", 0), Frame("operation", "end", "query"),
                   SelectionFrame(Schema.query, Len(current_object_types'))>>
    /\ UNCHANGED <<result, valueVars, documentVars>>

Fragment(name, type) == [name |-> name, type |-> type]
BeginFragment ==
    /\ In("document", "begin")
    /\ Kind(position) = "fragment"
    /\ Report(After(position), <<>>)
    /\ Call("begin", 0, Frame("fragment", "name", Fragment("", "")))
    /\ UNCHANGED <<current_object_types, valueVars, documentVars>>

RefuseDefinition ==
    /\ In("document", "begin")
    /\ Kind(position) \notin PrimaryTokens \cup {"{", "end"}
    /\ Report(After(position), <<"Expected_operation_definition_or_fragment_definition">>)
    /\ UNCHANGED <<frames, result, current_object_types, valueVars, documentVars>>

\* The end of the document: the spreads are checked, one by one.
EndDefinitions ==
    /\ In("document", "begin")
    /\ Kind(position) = "end"
    /\ Report(position, <<>>)
    /\ Goto("references", 1)
    /\ UNCHANGED <<current_object_types, valueVars, documentVars>>

EndDocument ==
    /\ In("document", "references")
    /\ Top.of > Len(forward_fragment_references)
    /\ Stop("done")
    /\ UNCHANGED <<current_object_types, valueVars, documentVars>>

Execute ==
    \/ BeginOperation \/ BeginQuery \/ BeginFragment \/ RefuseDefinition
    \/ EndDefinitions \/ check_forward_fragment_references \/ EndDocument

-----------------------------------------------------------------------------
(* parse_operation_definition *)

\* The name, and behind it the variables.
OperationName ==
    LET named == NameKind(position) = "name"
        p == After(position)
    IN  /\ In("operation", "name")
        /\ IF named /\ Kind(p) = "("
           THEN /\ Report(After(p), <<>>)
                /\ Call("close", Top.of, Frame("variables", "begin", ""))
           ELSE /\ Report(IF named THEN p ELSE position, <<>>)
                /\ Goto("directives", Top.of)
        /\ UNCHANGED <<current_object_types, valueVars, documentVars>>

\* The parenthesis behind the variables.
CloseVariables ==
    /\ In("operation", "close")
    /\ Report(After(position), When(Kind(position) # ")", NotExpected(position)))
    /\ Goto("directives", Top.of)
    /\ UNCHANGED <<current_object_types, valueVars, documentVars>>

OperationDirectives ==
    /\ In("operation", "directives")
    /\ CallDirectives("body", Top.of, Top.of)
    /\ UNCHANGED <<document, position, diagnostics, outcome, current_object_types, valueVars,
                   documentVars>>

\* Without a brace the operation is given up, and its type stays on the stack.
OperationBody ==
    /\ In("operation", "body")
    /\ IF Kind(position) = "{"
       THEN /\ Report(After(position), <<>>)
            /\ Call("end", Top.of, SelectionFrame(Root(Top.of), Len(current_object_types)))
       ELSE /\ Report(After(position), <<NotExpected(position)>>)
            /\ Return("null")
    /\ UNCHANGED <<current_object_types, valueVars, documentVars>>

\* Execute adds an operation that is not null.
EndOperation ==
    /\ In("operation", "end")
    /\ operation_definitions' =
           IF result = "null" THEN operation_definitions ELSE Append(operation_definitions, Top.of)
    /\ Return(result)
    /\ UNCHANGED <<document, position, diagnostics, outcome, current_object_types, valueVars,
                   fragments, fragment_definitions, forward_fragment_references>>

ParseOperation ==
    OperationName \/ CloseVariables \/ OperationDirectives \/ OperationBody \/ EndOperation

-----------------------------------------------------------------------------
(* parse_fragment_definition_after_fragment_keyword *)

\* The name.  duplicate_fragments is never added to, so the first fragment of
\* the name is reported again with each one that follows.
FragmentName ==
    LET name == TokenAt(position) IN
    /\ In("fragment", "name")
    /\ IF Kind(position) # "name"
       THEN /\ Report(After(position), <<NotExpected(position)>>)
            /\ Return("null")
            /\ UNCHANGED fragments
       ELSE /\ Report(After(position), Times(IF name \in fragments THEN 2 ELSE 0, "Duplicate_fragment_0"))
            /\ Goto("on", Fragment(name, ""))
            /\ fragments' = fragments \cup {name}
    /\ UNCHANGED <<current_object_types, valueVars, fragment_definitions, operation_definitions,
                   forward_fragment_references>>

FragmentOn ==
    /\ In("fragment", "on")
    /\ IF Kind(position) = "on"
       THEN Report(After(position), <<>>) /\ Goto("type", Top.of)
       ELSE Report(After(position), <<NotExpected(position)>>) /\ Return("null")
    /\ UNCHANGED <<current_object_types, valueVars, documentVars>>

\* The type is pushed, even when it is not the type of an object.
FragmentType ==
    LET type == TokenAt(position) IN
    /\ In("fragment", "type")
    /\ \/ /\ Kind(position) # "name"
          /\ Report(After(position), <<NotExpected(position)>>)
          /\ Return("null") /\ UNCHANGED current_object_types
       \/ /\ Kind(position) = "name" /\ type \notin Symbols
          /\ Report(After(position), <<"Type_0_is_not_defined">>)
          /\ Return("null") /\ UNCHANGED current_object_types
       \/ /\ Kind(position) = "name" /\ type \in Symbols
          /\ Report(After(position), When(KindOf(type) # "object", "The_type_0_is_not_an_object"))
          /\ Push(type)
          /\ CallDirectives("body", Fragment(Top.of.name, type), "FRAGMENT_DEFINITION")
    /\ UNCHANGED <<valueVars, documentVars>>

FragmentBody ==
    /\ In("fragment", "body")
    /\ IF Kind(position) = "{"
       THEN /\ Report(After(position), <<>>)
            /\ Call("end", Top.of, SelectionFrame(Top.of.type, Len(current_object_types)))
       ELSE /\ Report(SkipBlock(After(position)), <<NotExpected(position)>>)
            /\ Return("null")
    /\ UNCHANGED <<current_object_types, valueVars, documentVars>>

\* Execute adds a fragment, unless its selection set was null.
EndFragment ==
    /\ In("fragment", "end")
    /\ Report(IF result = "null" THEN SkipBlock(position) ELSE position, <<>>)
    /\ fragment_definitions' =
           IF result = "null" THEN fragment_definitions ELSE Append(fragment_definitions, Top.of)
    /\ Return(result)
    /\ UNCHANGED <<current_object_types, valueVars, fragments, operation_definitions,
                   forward_fragment_references>>

ParseFragment == FragmentName \/ FragmentOn \/ FragmentType \/ FragmentBody \/ EndFragment

-----------------------------------------------------------------------------
(* parse_selection_set_after_open_brace *)

SelectionToken == NameKind(position)
Selected(field) == Selection(Top.of.type, Top.of.base, "some", field)

\* "... on", and what is behind it.
InlineFragment ==
    LET p == After(After(position))
        type == TokenAt(p)
        q == After(p)
        named == Kind(p) = "name"
    IN  /\ In("selection", "begin")
        /\ SelectionToken = "..." /\ Kind(After(position)) = "on"
        /\ \/ /\ ~ named
              /\ Report(SkipBlock(q), <<NotExpected(p), "Expected_name_of_object">>)
              /\ Return("null") /\ UNCHANGED current_object_types
           \/ /\ named /\ type \notin Symbols
              /\ Report(SkipBlock(q), <<"Type_0_is_not_defined">>)
              /\ UNCHANGED <<frames, result, current_object_types>>
           \/ /\ named /\ type \in Symbols /\ KindOf(type) # "object"
              /\ Report(SkipBlock(q), <<"The_type_0_is_not_an_object">>)
              /\ UNCHANGED <<frames, result, current_object_types>>
           \/ /\ named /\ type \in Symbols /\ KindOf(type) = "object"
              /\ Report(q, Mismatch(type, Last(current_object_types)))
              /\ Push(type)
              /\ CallDirectives("inline", Selected(type), "INLINE_FRAGMENT")
        /\ UNCHANGED <<valueVars, documentVars>>

\* The selection set of an inline fragment; the fragment is added without one too.
InlineFragmentBody ==
    /\ In("selection", "inline")
    /\ IF Kind(position) = "{"
       THEN /\ Report(After(position), <<>>)
            /\ Call("begin", Top.of, SelectionFrame(Top.of.field, Len(current_object_types)))
       ELSE /\ Report(After(position), <<NotExpected(position)>>)
            /\ Goto("begin", Top.of)
    /\ UNCHANGED <<current_object_types, valueVars, documentVars>>

\* A spread is checked at the end of the document, against the type on top now.
FragmentSpread ==
    LET p == After(position) IN
    /\ In("selection", "begin")
    /\ SelectionToken = "..." /\ Kind(p) # "on"
    /\ IF Kind(p) = "name"
       THEN /\ Report(After(p), <<>>)
            /\ forward_fragment_references' =
                   Append(forward_fragment_references,
                          [name |-> TokenAt(p), type |-> Last(current_object_types)])
            /\ CallDirectives("begin", Selected(""), "FRAGMENT_SPREAD")
       ELSE /\ Report(SkipBlock(After(p)), <<"Expected_fragment_spread_or_inline_fragment">>)
            /\ UNCHANGED <<frames, result, forward_fragment_references>>
    /\ UNCHANGED <<current_object_types, valueVars, definitionVars>>

Defines(type, name) == HasFields(type) /\ name \in FieldsOf(type)

\* What is wrong with the field that begins here, whatever the code looks at: a
\* name that the type of the selection set does not have.
FieldFlaws ==
    LET p == After(position)
        aliased == Kind(p) = ":"
        name == IF aliased THEN TokenAt(After(p)) ELSE TokenAt(position)
    IN  IF Defines(Top.of.type, name) THEN {}
        ELSE {IF aliased THEN "undefined_aliased_field" ELSE "undefined_field"}

\* A field of the type on top.  It is the first name that is looked up, and
\* behind a colon there is another one.
SelectField ==
    LET type == Last(current_object_types)
        name == TokenAt(position)
        p == After(position)
        aliased == Kind(p) = ":"
        q == IF aliased THEN After(After(p)) ELSE p
        of == Selected(name)
    IN  /\ In("selection", "begin")
        /\ SelectionToken = "name"
        /\ Defines(type, name)
        /\ Report(Optional(q, "("),
                  When(aliased /\ Kind(After(p)) # "name", NotExpected(After(p))))
        /\ IF Kind(q) = "(" THEN CallArguments("directives", of, Schema.arguments[type][name])
           ELSE Goto("directives", of)
        /\ flaws' = flaws \cup FieldFlaws
        /\ UNCHANGED <<current_object_types, list_types, current_value_token, duplicate_fields,
                       documentVars>>

\* Variant: a field that does not exist is skipped without a diagnostic.
RefuseFieldSilently ==
    LET type == Last(current_object_types) IN
    /\ In("selection", "begin")
    /\ SelectionToken = "name"
    /\ HasFields(type) /\ TokenAt(position) \notin FieldsOf(type)
    /\ Report(SkipTo(After(position), {"name", "}", "..."}), <<>>)
    /\ flaws' = flaws \cup FieldFlaws
    /\ UNCHANGED <<frames, result, current_object_types, list_types, current_value_token,
                   duplicate_fields, documentVars>>

RefuseField ==
    LET type == Last(current_object_types) IN
    /\ In("selection", "begin")
    /\ SelectionToken = "name"
    /\ HasFields(type) /\ TokenAt(position) \notin FieldsOf(type)
    /\ Report(SkipTo(After(position), {"name", "}", "..."}), <<"Field_0_does_not_exist_on_type_1">>)
    /\ flaws' = flaws \cup FieldFlaws
    /\ UNCHANGED <<frames, result, current_object_types, list_types, current_value_token,
                   duplicate_fields, documentVars>>

\* fields is read from what has none, a union for example.
UndefinedField ==
    /\ In("selection", "begin")
    /\ SelectionToken = "name"
    /\ ~ HasFields(Last(current_object_types))
    /\ Undefined
    /\ UNCHANGED <<current_object_types, valueVars, documentVars>>

FieldDirectives ==
    /\ In("selection", "directives")
    /\ CallDirectives("body", Top.of, "FIELD")
    /\ UNCHANGED <<document, position, diagnostics, outcome, current_object_types, valueVars,
                   documentVars>>

\* Variant: the type of the field is not pushed in front of its selection set.
EnterFieldUnpushed(type) ==
    /\ UNCHANGED current_object_types
    /\ Call("begin", Top.of, SelectionFrame(type, Len(current_object_types')))

EnterField(type) ==
    /\ Push(type)
    /\ Call("begin", Top.of, SelectionFrame(type, Len(current_object_types')))

\* The type of the field is the one found when its name was read.
FieldBody ==
    LET type == Schema.fields[Last(current_object_types)][Top.of.field] IN
    /\ In("selection", "body")
    /\ \/ /\ Kind(position) # "{"
          /\ Report(position, <<>>)
          /\ Goto("begin", Top.of) /\ UNCHANGED current_object_types
       \/ /\ Kind(position) = "{" /\ type.kind = "Object"
          /\ Report(After(position), <<>>)
          /\ EnterField(type.name)
       \/ /\ Kind(position) = "{" /\ type.kind # "Object"
          /\ Report(SkipTo(After(position), PrimaryTokens), <<"Cannot_select_fields_on_a_scalar_field_0">>)
          /\ Return("null") /\ UNCHANGED current_object_types
    /\ UNCHANGED <<valueVars, documentVars>>

\* Variant: the type stays on the stack behind the closing brace.
CloseSelectionSetUnpopped ==
    /\ In("selection", "begin")
    /\ SelectionToken = "}"
    /\ Report(After(position), <<>>)
    /\ Return("selection_set")
    /\ UNCHANGED <<current_object_types, valueVars, documentVars>>

CloseSelectionSet ==
    /\ In("selection", "begin")
    /\ SelectionToken = "}"
    /\ Report(After(position), <<>>)
    /\ current_object_types' = Front(current_object_types)
    /\ Return("selection_set")
    /\ UNCHANGED <<valueVars, documentVars>>

\* The end of the document, or a token that begins no selection: the set ends
\* there, and its type stays on the stack.
BreakSelectionSet ==
    LET end == SelectionToken = "end" IN
    /\ In("selection", "begin")
    /\ SelectionToken \notin {"name", "...", "}"}
    /\ Report(After(position),
         <<IF ~ end THEN "Expected_field_inline_fragment_or_fragment_spread"
           ELSE IF Top.of.selections = "some" THEN "Expected_0_but_instead_reached_the_end_of_document"
           ELSE "Expected_at_least_a_field_inline_fragment_or_fragment_spread">>)
    /\ Return(IF end THEN "null" ELSE "selection_set")
    /\ UNCHANGED <<current_object_types, valueVars, documentVars>>

ParseSelectionSet ==
    \/ InlineFragment \/ InlineFragmentBody \/ FragmentSpread \/ SelectField \/ RefuseField
    \/ UndefinedField \/ FieldDirectives \/ FieldBody \/ CloseSelectionSet \/ BreakSelectionSet

Next ==
    \/ Execute \/ ParseOperation \/ ParseFragment \/ ParseSelectionSet
    \/ (ParseValue \/ ParseArguments \/ ParseDirectives \/ ParseVariables) /\ UNCHANGED documentVars

\* One thread runs Execute to its end.
Spec == Init /\ [][Next]_vars /\ WF_vars(Next)

-----------------------------------------------------------------------------
(* Properties *)

SelectionFrames == {i \in DOMAIN frames : frames[i].fn = "selection"}

\* Only symbols of the schema are pushed; every selection set that is open has
\* an entry of its own on current_object_types, and an inline fragment that waits
\* for its set has one more.  So top and pop never meet an empty stack, whichever way out of a set
\* was taken before (parse_selection_set_after_open_brace).
StackCoversSelections ==
    /\ current_object_types \in Seq(Symbols)
    /\ \A i \in SelectionFrames : frames[i].of.base \in 1 .. Len(current_object_types)
    /\ \A i, j \in SelectionFrames : i < j => frames[i].of.base < frames[j].of.base
    /\ \A i \in SelectionFrames : frames[i].at = "inline" => frames[i].of.base < Len(current_object_types)

\* As long as nothing was reported, the entry of an open selection set is the
\* type that the set is about, the top is that of the innermost one, and
\* nothing is left between two definitions: the fields are looked up in the
\* right type.
TypesFollowNesting ==
    diagnostics = <<>> =>
        /\ \A i \in SelectionFrames : current_object_types[frames[i].of.base] = frames[i].of.type
        /\ In("selection", "begin") => Len(current_object_types) = Top.of.base
        /\ In("document", "begin") => current_object_types = <<>>

\* A document without diagnostics selects only fields that exist, as far as
\* they have no alias (parse_selection_set_after_open_brace).
Accepted == outcome = "done" /\ diagnostics = <<>>
AcceptedFieldsExist == Accepted => "undefined_field" \notin flaws

\* Reading a list leaves the schema as it was, unless something was reported:
\* is_list_type is off only while the elements are read (parse_value).
SchemaRestored ==
    (diagnostics = <<>> /\ \A i \in DOMAIN frames : frames[i].at # "next")
        => list_types \ {"variable"} = ListTypes

\* Execute comes to an end (the loops of Execute and of the parse functions).
ParseEnds == <>(outcome # "running")

\* "should error on undefined field": every field that is selected is looked
\* for, those with an alias too.
UndefinedFieldReported == Accepted => flaws \cap {"undefined_field", "undefined_aliased_field"} = {}

=============================================================================
