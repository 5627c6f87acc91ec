------------------------- MODULE GraphQlSchemaProofs -------------------------
(***************************************************************************)
(* For every document: a schema that the constructor accepts without a     *)
(* diagnostic holds together.                                              *)
(*                                                                         *)
(* All but the first conjunct of the invariant is claimed only as long as  *)
(* nothing was reported, and a step after which nothing is reported has    *)
(* taken none of the ways that report.  What is left to say is what each   *)
(* function may take for granted of those that it called, how far the loop *)
(* of each check has come, and that a list whose elements are being looked *)
(* at gets its flags back.                                                 *)
(***************************************************************************)
EXTENDS GraphQlSchema, GraphQlParserProofs

-----------------------------------------------------------------------------
(* Invariants *)

\* Where the constructor is.
Phase == frames[1].at
ReadPhases == {"begin", "parsed"}
FitPhases == {"directives", "implementations", "interface", "unions"}

ReadFns == {"value", "arguments", "directives", "type_annotation", "arguments_definition", "fields"}

\* The functions that can be the i-th on the stack.
Placed(i, fn, phase) ==
    /\ i = 1 => fn = "document"
    /\ i = 2 => \/ phase = "parsed" /\ fn \in PrimaryTokens
                \/ phase = "references" /\ fn = "recursive"
                \/ phase = "directives" /\ fn = "directive_arguments"
    /\ i > 2 => \/ phase = "parsed" /\ fn \in ReadFns
                \/ phase = "references" /\ fn = "recursive"
                \/ phase = "directives" /\ fn = "check_value"

\* A map to pointers to Type nodes, of which there are n.
Pointers(map, n) == \A a \in DOMAIN map : map[a] \in 1 .. n

TypeOf == {"index", "implementations", "some", "name"}
ArgumentsOf == {"parent", "arguments", "name", "type"}
DirectiveOf == {"name", "arguments", "locations"}
CheckOf == {"given", "defined", "names", "checked"}
ValueOf == {"value", "type", "items", "checked", "reported", "missing", "is_non_null_list"}

\* What the variables of a function are.
Shaped(f, n) ==
    /\ f.fn \in TypeKinds /\ f.at # "begin" => DOMAIN f.of = TypeOf
    /\ f.fn = "arguments_definition" =>
          /\ DOMAIN f.of = ArgumentsOf
          /\ f.of.type \in 0 .. n /\ (f.at = "emplace" => f.of.type # 0)
          /\ Pointers(f.of.arguments, n)
    /\ f.fn = "directive" /\ f.at # "begin" => DOMAIN f.of = DirectiveOf /\ Pointers(f.of.arguments, n)
    /\ f.fn = "directive_arguments" => DOMAIN f.of = CheckOf /\ (f.at # "begin" => f.of.names = {})
    /\ f.fn = "check_value" => DOMAIN f.of = ValueOf

\* Whom a function waits for, where it looks at what is returned.
Waits(f, callee) ==
    /\ f.fn \in TypeKinds /\ f.at = "fields" => callee = "fields"
    /\ f.fn \in {"fields", "arguments_definition"} /\ f.at = "type" => callee = "type_annotation"
    /\ f.fn = "directive" /\ f.at = "arguments" => callee = "arguments_definition"

\* What is returned to it.
Got(f, r, n) ==
    /\ f.fn \in TypeKinds /\ f.at = "fields" => ~ r.null
    /\ f.fn = "fields" /\ f.at = "type" => ~ r.null
    /\ f.fn = "arguments_definition" /\ f.at = "type" => ~ r.null /\ r.value \in 1 .. n
    /\ f.fn = "directive" /\ f.at = "arguments" => Pointers(r.value, n)

StackOk(s, r, n) ==
    /\ IsSequence(s) /\ Len(s) > 0
    /\ \A i \in DOMAIN s : Placed(i, s[i].fn, s[1].at) /\ Shaped(s[i], n)
    /\ \A i \in DOMAIN s : i < Len(s) => Waits(s[i], s[i + 1].fn)
    /\ Got(s[Len(s)], r, n)

StackInv == StackOk(frames, result, Len(types))

\* A declaration is complete unless its definition is being read.
DeclarationFields ==
    {"kind", "name", "directives", "fields", "complete", "values", "members", "implementations"}
Unfinished(d) == ~ d.complete /\ (d.kind \in {"type", "interface", "input"} \/ d.implementations # {})
Builds(f, k) ==
    f.fn \in {"type", "interface", "input"} /\ f.at \in {"body", "implements", "fields"} /\ f.of.index = k

DeclarationsInv ==
    /\ IsSequence(declarations)
    /\ \A k \in DOMAIN declarations :
          /\ DOMAIN declarations[k] = DeclarationFields
          /\ Unfinished(declarations[k]) => Len(frames) > 1 /\ Builds(frames[2], k)
    /\ \A j, k \in DOMAIN declarations :
          declarations[k].kind # "union" /\ declarations[j].name = declarations[k].name => k <= j

\* A Type node that has a name is an object until its turn comes.
TypeFields ==
    {"type", "name", "is_non_null", "is_list", "is_non_null_list", "in_input_location", "parent"}
Referenced(j) == Phase \in FitPhases \/ (Phase = "references" /\ j < frames[1].of)

IsReference(type) == type.name # ""
TypeFits(j) ==
    IsReference(types[j]) => /\ Referenced(j) => ReferenceFits(types[j])
                             /\ ~ Referenced(j) => types[j].type = "Object"

TypesInv ==
    /\ IsSequence(types)
    /\ Phase = "references" => frames[1].of \in Nat \ {0}
    /\ \A j \in DOMAIN types : DOMAIN types[j] = TypeFields /\ TypeFits(j)

RootInv == Phase \notin ReadPhases => root["query"] # 0

\* A list that is being looked at is not strict until it is put back.
Saves(f, t) == f.fn = "check_value" /\ f.at = "list" /\ f.of.type = t /\ f.of.is_non_null_list
StrictAgain(t) == Strict(t) \/ \E k \in DOMAIN frames : Saves(frames[k], t)

\* The arguments of the directive whose turn it is that are still to be looked at.
Pending(i, a) == Len(frames) > 1 /\ i = frames[1].of - 1 /\ a \in frames[2].of.names

DirectiveFits(i) ==
    LET directive == directives[i]
        definition == directive_definitions[directive.name]
    IN  /\ directive.name \in DOMAIN directive_definitions
        /\ directive.location \in definition.locations
        /\ \A a \in DOMAIN definition.arguments :
              ~ Pending(i, a) /\ StrictAgain(definition.arguments[a]) => a \in DOMAIN directive.arguments

DirectivesInv ==
    /\ IsSequence(directives)
    /\ \A d \in DOMAIN directive_definitions : Pointers(directive_definitions[d].arguments, Len(types))
    /\ Phase = "directives" =>
          /\ frames[1].of \in Nat \ {0}
          /\ Len(frames) > 1 =>
                /\ frames[1].of - 1 \in DOMAIN directives
                /\ frames[2].of.given = directives[frames[1].of - 1].arguments
                /\ frames[2].of.defined = directive_definitions[directives[frames[1].of - 1].name].arguments
    /\ \A i \in DOMAIN directives :
          Phase \in FitPhases /\ (Phase = "directives" => i < frames[1].of) => DirectiveFits(i)

\* The interfaces and the members that were looked at.
ImplementingOf == {"object", "names", "name", "fields"}
Past(k, name, of) == k < of.object \/ (k = of.object /\ name \notin of.names)
Covered(k, name) ==
    \/ Phase = "unions"
    \/ Phase = "implementations" /\ Past(k, name, frames[1].of)
    \/ Phase = "interface" /\ Past(k, name, frames[1].of) /\ (k = frames[1].of.object => name # frames[1].of.name)

Alike(object, interface, f) == FieldProblem(object, interface, f) = ""
InterfaceSeen(of) ==
    /\ IsInterface(of.name)
    /\ \A f \in DOMAIN Symbol(of.name).fields \ of.fields : Alike(declarations[of.object], Symbol(of.name), f)

ImplementationsInv ==
    /\ Phase \in {"implementations", "interface"} =>
          /\ DOMAIN frames[1].of = ImplementingOf
          /\ frames[1].of.object \in Nat
    /\ Phase = "interface" => InterfaceSeen(frames[1].of)
    /\ \A k \in DOMAIN declarations : \A name \in declarations[k].implementations :
          Covered(k, name) => Implements(declarations[k], name)

UnionOf == {"union", "members"}
UnionsInv ==
    Phase = "unions" =>
        /\ DOMAIN frames[1].of = UnionOf
        /\ frames[1].of.union \in Nat
        /\ \A k \in DOMAIN declarations : \A name \in declarations[k].members :
              k < frames[1].of.union \/ (k = frames[1].of.union /\ name \notin frames[1].of.members) => IsMember(name)
        /\ outcome = "done" => frames[1].of.members = {} /\ frames[1].of.union >= Len(declarations)

SchemaInv ==
    /\ StackInv /\ DeclarationsInv /\ TypesInv /\ RootInv /\ DirectivesInv
    /\ ImplementationsInv /\ UnionsInv
    /\ outcome = "done" => Phase = "unions"

\* As long as nothing was reported.
CleanInv == IsSequence(diagnostics) /\ (diagnostics = <<>> => SchemaInv)

-----------------------------------------------------------------------------
(* Messages: they are only added, and a step after which there are none has *)
(* reported none.                                                           *)

LEMMA ReportNone ==
    ASSUME IsSequence(diagnostics), NEW p, Report(p, <<>>)
    PROVE  Reported
BY MessagesReported, ShortSequences

LEMMA ReportOne ==
    ASSUME IsSequence(diagnostics), NEW p, NEW m, Report(p, <<m>>)
    PROVE  Reported /\ diagnostics' # <<>>
BY MessagesReported, ShortSequences

LEMMA WhenIsSequence ==
    ASSUME NEW c, NEW m
    PROVE  IsSequence(When(c, m)) /\ (When(c, m) = <<>> => ~ c)
BY ShortSequences DEF When

LEMMA ReportWhen ==
    ASSUME IsSequence(diagnostics), NEW p, NEW c, NEW m, Report(p, When(c, m))
    PROVE  Reported /\ (diagnostics' = <<>> => ~ c)
BY WhenIsSequence, MessagesReported

LEMMA ReportTwo ==
    ASSUME IsSequence(diagnostics), NEW p, NEW c, NEW d, NEW m, NEW n, Report(p, When(c, m) \o When(d, n))
    PROVE  Reported /\ (diagnostics' = <<>> => ~ c /\ ~ d)
<1>1. PICK w : w = When(c, m) \o When(d, n)
  OBVIOUS
<1>2. Report(p, w)
  BY <1>1
<1>3. IsSequence(w) /\ (w = <<>> => ~ c /\ ~ d)
  BY <1>1, WhenIsSequence, ConcatSequences
<1>4. Reported /\ (diagnostics' = <<>> => w = <<>>)
  BY <1>2, <1>3, MessagesReported
<1> QED
  BY <1>3, <1>4

LEMMA SameMessages ==
    ASSUME IsSequence(diagnostics), diagnostics' = diagnostics
    PROVE  Reported
BY DEF Reported

LEMMA StopReports ==
    ASSUME IsSequence(diagnostics), NEW how, Stop(how)
    PROVE  Reported
BY SameMessages DEF Stop

LEMMA ParseDirectivesReports ==
    ASSUME IsSequence(diagnostics), ParseDirectives
    PROVE  Reported
<1>1. CASE parse_value
  BY <1>1, ReportNone, ReportOne DEF parse_value
<1>2. CASE parse_list
  BY <1>2, ReportNone, ReportWhen DEF parse_list
<1>3. CASE parse_object_field
  BY <1>3, ReportNone, ReportOne DEF parse_object_field
<1>4. CASE end_object_field
  BY <1>4, SameMessages DEF end_object_field
<1>5. CASE parse_argument
  BY <1>5, ReportNone, ReportOne DEF parse_argument
<1>6. CASE end_argument
  BY <1>6, ReportTwo DEF end_argument
<1>7. CASE parse_directive
  BY <1>7, ReportNone, ReportOne DEF parse_directive
<1>8. CASE end_directive
  BY <1>8, ReportWhen DEF end_directive
<1> QED
  BY <1>1, <1>2, <1>3, <1>4, <1>5, <1>6, <1>7, <1>8 DEF ParseDirectives

LEMMA ParseTypesReports ==
    ASSUME IsSequence(diagnostics), ParseTypes
    PROVE  Reported
<1>1. CASE parse_type_annotation
  <2>1. \E p : \E c : \E m : \E n : Report(p, IF c THEN When(n, m) ELSE <<"Expected_type_annotation_instead_got_0">>)
    BY <1>1 DEF parse_type_annotation
  <2> QED
    BY <2>1, ReportOne, ReportWhen
<1>2. CASE parse_argument_definition
  BY <1>2, ReportNone, ReportOne, ReportWhen DEF parse_argument_definition
<1>3. CASE argument_directives
  BY <1>3, SameMessages DEF argument_directives
<1>4. CASE end_argument_definition
  BY <1>4, ReportWhen DEF end_argument_definition
<1>5. CASE parse_field
  BY <1>5, ReportNone, ReportOne, ReportWhen DEF parse_field
<1>6. CASE parse_field_type
  BY <1>6, ReportNone, ReportOne DEF parse_field_type
<1>7. CASE end_field
  BY <1>7, SameMessages DEF end_field
<1>8. CASE parse_type_name
  BY <1>8, ReportTwo, ReportOne DEF parse_type_name
<1>9. CASE parse_type_body
  BY <1>9, ReportNone, ReportOne DEF parse_type_body
<1>10. CASE parse_implementation
  <2>1. PICK w : IsSequence(w) /\ w = When(TokenAt(position) \in Symbols /\ Symbol(TokenAt(position)).kind # "interface",
                                           "Expected_name_of_interface")
    BY WhenIsSequence
  <2>2. IsSequence(w \o <<"Expected_0_but_got_1">>)
    BY <2>1, ShortSequences, ConcatSequences
  <2>3. \E p : \/ \E m : Report(p, <<m>>)
               \/ Report(p, w)
               \/ Report(p, w \o <<"Expected_0_but_got_1">>)
    BY <1>10, <2>1 DEF parse_implementation
  <2> QED
    BY <2>1, <2>2, <2>3, ReportOne, MessagesReported
<1>11. CASE end_fields
  BY <1>11, SameMessages DEF end_fields
<1>12. CASE parse_enum_value
  BY <1>12, ReportNone, ReportOne DEF parse_enum_value
<1>13. CASE end_enum_value
  BY <1>13, SameMessages DEF end_enum_value
<1> QED
  BY <1>1, <1>2, <1>3, <1>4, <1>5, <1>6, <1>7, <1>8, <1>9, <1>10, <1>11, <1>12, <1>13 DEF ParseTypes

LEMMA SchemaFieldMessages ==
    ASSUME NEW p
    PROVE  IsSequence(SchemaField(p).messages)
BY ShortSequences DEF SchemaField

LEMMA ParseOthersReports ==
    ASSUME IsSequence(diagnostics), ParseOthers
    PROVE  Reported
<1>1. CASE parse_union
  BY <1>1, ReportNone, ReportOne DEF parse_union, NoUnion
<1>2. CASE end_union
  BY <1>2, ReportNone DEF end_union
<1>3. CASE parse_directive_name
  BY <1>3, ReportNone, ReportOne, StopReports DEF parse_directive_name
<1>4. CASE end_directive_arguments
  BY <1>4, SameMessages DEF end_directive_arguments
<1>5. CASE parse_first_location
  BY <1>5, ReportNone, ReportOne DEF parse_first_location
<1>6. CASE parse_location
  BY <1>6, ReportNone, ReportOne DEF parse_location
<1>7. CASE end_directive_definition
  BY <1>7, ReportNone DEF end_directive_definition
<1>8. CASE parse_schema
  BY <1>8, ReportNone, ReportOne DEF parse_schema
<1>9. CASE parse_schema_field
  <2>1. PICK f : f = SchemaField(After(position)) /\ IsSequence(f.messages)
    BY SchemaFieldMessages
  <2>2. PICK a, b : /\ IsSequence(a) /\ IsSequence(b)
                    /\ a = When(Kind(position) \in DOMAIN Top.of.roots, "Duplicate_field_0")
                    /\ b = When(Kind(position) \in DOMAIN Top.of.roots /\
                                Kind(position) \notin Top.of.added_duplicate_types, "Duplicate_field_0")
    BY WhenIsSequence
  <2>3. PICK o : o = <<"A_schema_definition_can_only_contain_query_mutation_and_subscription_fields">> /\ IsSequence(o)
    BY ShortSequences
  <2>4. /\ IsSequence(a \o f.messages) /\ IsSequence(o \o f.messages)
        /\ IsSequence((a \o f.messages) \o b)
    BY <2>1, <2>2, <2>3, ConcatSequences
  <2>5. \E p : \/ Report(p, a \o f.messages \o b)
               \/ Report(p, <<>>)
               \/ Report(p, o \o f.messages)
    BY <1>9, <2>1, <2>2, <2>3 DEF parse_schema_field
  <2> QED
    BY <2>4, <2>5, ReportNone, MessagesReported
<1> QED
  BY <1>1, <1>2, <1>3, <1>4, <1>5, <1>6, <1>7, <1>8, <1>9 DEF ParseOthers

LEMMA ParseDocumentReports ==
    ASSUME IsSequence(diagnostics), ParseDocument
    PROVE  Reported
BY ReportNone, ReportOne DEF ParseDocument, parse_primary_token, end_definition

LEMMA CheckSchemaReports ==
    ASSUME IsSequence(diagnostics), CheckSchema
    PROVE  Reported
<1>1. CASE set_root_types
  <2> DEFINE u(r) == When(RootName(r) # "" /\ RootName(r) \notin Symbols, "Type_0_is_not_defined")
             v == When(RootName("query") = "" /\ "Query" \notin Symbols, "No_query_root_operation_type_defined")
  <2>1. Report(position, u("query") \o v \o u("mutation") \o u("subscription"))
    BY <1>1 DEF set_root_types
  <2>2. PICK a, b, c, d : /\ IsSequence(a) /\ IsSequence(b) /\ IsSequence(c) /\ IsSequence(d)
                          /\ a = u("query") /\ b = v /\ c = u("mutation") /\ d = u("subscription")
    BY WhenIsSequence
  <2>3. Report(position, ((a \o b) \o c) \o d)
    BY <2>1, <2>2
  <2>4. IsSequence(a \o b)
    BY <2>2, ConcatSequences
  <2>5. IsSequence((a \o b) \o c)
    BY <2>2, <2>4, ConcatSequences
  <2>6. IsSequence(((a \o b) \o c) \o d)
    BY <2>2, <2>5, ConcatSequences
  <2> QED
    BY <2>3, <2>6, MessagesReported
<1>2. CASE check_forward_reference
  BY <1>2, ReportOne, ReportTwo DEF check_forward_reference
<1>3. CASE end_forward_references \/ report_arguments \/ end_directive_reference \/ end_directive_references
           \/ end_interface \/ next_object \/ end_recursive_type
  BY <1>3, SameMessages DEF end_forward_references, report_arguments, end_directive_reference,
     end_directive_references, end_interface, next_object, end_recursive_type
<1>4. CASE check_recursive_type \/ check_recursive_value \/ check_recursive_field
  BY <1>4, ReportWhen, StopReports
     DEF check_recursive_type, check_recursive_value, check_recursive_field, Undefined
<1>5. CASE check_directive_reference
  BY <1>5, ReportOne, ReportTwo DEF check_directive_reference
<1>6. CASE check_directive_argument
  BY <1>6, ReportNone, ReportWhen, StopReports DEF check_directive_argument, Undefined
<1>7. CASE report_argument
  BY <1>7, ReportOne DEF report_argument
<1>8. CASE check_object_implementation
  BY <1>8, ReportNone, ReportWhen, StopReports DEF check_object_implementation, Undefined
<1>9. CASE check_interface_field
  BY <1>9, ReportWhen DEF check_interface_field
<1>10. CASE check_union_member
  BY <1>10, ReportOne, ReportWhen DEF check_union_member, MemberProblem
<1>11. CASE next_union
  BY <1>11, SameMessages, StopReports DEF next_union
<1> QED
  BY <1>1, <1>2, <1>3, <1>4, <1>5, <1>6, <1>7, <1>8, <1>9, <1>10, <1>11 DEF CheckSchema

LEMMA CheckValueReports ==
    ASSUME IsSequence(diagnostics), CheckValue
    PROVE  Reported
<1>1. CASE check_scalar
  BY <1>1, ReportWhen DEF check_scalar
<1>2. CASE check_list \/ check_list_element \/ end_check_list
  BY <1>2, ReportNone DEF check_list, check_list_element, end_check_list
<1>3. CASE refuse_value
  BY <1>3, ReportOne, StopReports DEF refuse_value, Undefined
<1>4. CASE check_input_object
  BY <1>4, ReportNone, ReportOne DEF check_input_object
<1>5. CASE check_object_field
  <2>1. IsSequence(<<"Duplicate_field_0">> \o
                   When(Head(Top.of.items).name \notin Top.of.reported, "Duplicate_field_0"))
    BY WhenIsSequence, ShortSequences, ConcatSequences
  <2> QED
    BY <1>5, <2>1, ReportNone, ReportOne, MessagesReported DEF check_object_field
<1>6. CASE end_object_fields \/ end_check_object
  BY <1>6, SameMessages DEF end_object_fields, end_check_object
<1>7. CASE check_missing_field
  BY <1>7, ReportWhen DEF check_missing_field
<1>8. CASE undefined_value
  BY <1>8, StopReports DEF undefined_value, Undefined
<1> QED
  BY <1>1, <1>2, <1>3, <1>4, <1>5, <1>6, <1>7, <1>8 DEF CheckValue

LEMMA NextReports ==
    ASSUME IsSequence(diagnostics), [Next]_vars
    PROVE  Reported
<1>1. CASE UNCHANGED vars
  BY <1>1, SameMessages DEF vars, parserVars
<1> QED
  BY <1>1, ParseDirectivesReports, ParseTypesReports, ParseOthersReports, ParseDocumentReports,
     CheckSchemaReports, CheckValueReports DEF Next

-----------------------------------------------------------------------------
(* The stack: what the calls and returns of functions leave of StackOk *)

LEMMA MoreTypes ==
    ASSUME NEW n \in Nat, NEW m \in Nat, n <= m
    PROVE  /\ \A map : Pointers(map, n) => Pointers(map, m)
           /\ \A f : Shaped(f, n) => Shaped(f, m)
<1>1. 1 .. n \subseteq 1 .. m /\ 0 .. n \subseteq 0 .. m
  OBVIOUS
<1>2. \A map : Pointers(map, n) => Pointers(map, m)
  BY <1>1 DEF Pointers
<1> QED
  BY <1>1, <1>2 DEF Shaped

\* What a function has to return.
Returns(fn, value, n) ==
    /\ fn \in {"fields", "type_annotation"} => ~ value.null
    /\ fn = "type_annotation" => value.value \in 1 .. n
    /\ fn = "arguments_definition" => Pointers(value.value, n)

LEMMA ReturnsGot ==
    ASSUME NEW f, NEW fn, NEW value, NEW n, Waits(f, fn), Returns(fn, value, n)
    PROVE  Got(f, value, n)
BY DEF Waits, Returns, Got

\* The functions that nobody asks for a pointer.
LEMMA OthersReturn ==
    ASSUME NEW fn, fn \notin {"fields", "type_annotation", "arguments_definition"}, NEW value, NEW n
    PROVE  Returns(fn, value, n)
BY DEF Returns

LEMMA StackGoto ==
    ASSUME NEW n \in Nat, NEW m \in Nat, n <= m, StackOk(frames, result, n),
           NEW f, IsSequence(frames'), Len(frames') = Len(frames), Below, Len(frames) > 1,
           frames'[Len(frames)] = f, f.fn = frames[Len(frames)].fn, Shaped(f, m), Got(f, result', m)
    PROVE  StackOk(frames', result', m)
<1>1. Len(frames) \in Nat /\ DOMAIN frames = 1 .. Len(frames) /\ DOMAIN frames' = 1 .. Len(frames)
  BY SequenceLength DEF StackOk
<1>2. frames'[1] = frames[1]
  BY <1>1 DEF Below
<1>3. ASSUME NEW i \in DOMAIN frames'
      PROVE  Placed(i, frames'[i].fn, frames'[1].at) /\ Shaped(frames'[i], m)
  <2>1. CASE i < Len(frames)
    BY <1>1, <1>2, <2>1, MoreTypes DEF StackOk, Below
  <2>2. CASE i = Len(frames)
    BY <1>1, <1>2, <2>2 DEF StackOk
  <2> QED
    BY <1>1, <2>1, <2>2
<1>4. ASSUME NEW i \in DOMAIN frames', i < Len(frames')
      PROVE  Waits(frames'[i], frames'[i + 1].fn)
  <2>1. frames'[i] = frames[i] /\ frames'[i + 1].fn = frames[i + 1].fn
    BY <1>1, <1>4 DEF Below
  <2> QED
    BY <1>1, <1>4, <2>1 DEF StackOk
<1> QED
  BY <1>1, <1>3, <1>4 DEF StackOk

LEMMA StackCall ==
    ASSUME NEW n \in Nat, StackOk(frames, result, n),
           NEW f, NEW g, IsSequence(frames'), Len(frames') = Len(frames) + 1, Below,
           frames'[Len(frames)] = f, f.fn = frames[Len(frames)].fn, Shaped(f, n),
           Len(frames) = 1 => f.at = frames'[1].at,
           frames'[Len(frames) + 1] = g, Shaped(g, n), Waits(f, g.fn), Got(g, result', n),
           Placed(Len(frames) + 1, g.fn, frames'[1].at),
           Len(frames) > 1 \/ Placed(1, f.fn, f.at)
    PROVE  StackOk(frames', result', n)
<1>1. Len(frames) \in Nat /\ DOMAIN frames = 1 .. Len(frames) /\ DOMAIN frames' = 1 .. Len(frames) + 1
  BY SequenceLength DEF StackOk
<1>2. Len(frames) > 1 => frames'[1] = frames[1]
  BY <1>1 DEF Below
<1>3. ASSUME NEW i \in DOMAIN frames'
      PROVE  Placed(i, frames'[i].fn, frames'[1].at) /\ Shaped(frames'[i], n)
  <2>1. CASE i < Len(frames)
    BY <1>1, <1>2, <2>1 DEF StackOk, Below
  <2>2. CASE i = Len(frames) /\ i > 1
    BY <1>1, <1>2, <2>2 DEF StackOk
  <2>3. CASE i = Len(frames) /\ i = 1
    BY <1>1, <2>3 DEF StackOk
  <2>4. CASE i = Len(frames) + 1
    BY <2>4
  <2> QED
    BY <1>1, <2>1, <2>2, <2>3, <2>4
<1>4. ASSUME NEW i \in DOMAIN frames', i < Len(frames')
      PROVE  Waits(frames'[i], frames'[i + 1].fn)
  <2>1. CASE i < Len(frames)
    <3>1. frames'[i] = frames[i] /\ frames'[i + 1].fn = frames[i + 1].fn
      BY <1>1, <2>1 DEF Below
    <3> QED
      BY <1>1, <2>1, <3>1 DEF StackOk
  <2>2. CASE i = Len(frames)
    BY <2>2
  <2> QED
    BY <1>1, <1>4, <2>1, <2>2
<1> QED
  BY <1>1, <1>3, <1>4 DEF StackOk

LEMMA StackReturn ==
    ASSUME NEW n \in Nat, NEW m \in Nat, n <= m, StackOk(frames, result, n),
           IsSequence(frames'), Len(frames') = Len(frames) - 1, Below, Len(frames) > 1,
           Returns(frames[Len(frames)].fn, result', m)
    PROVE  StackOk(frames', result', m)
<1>1. Len(frames) \in Nat /\ DOMAIN frames = 1 .. Len(frames) /\ DOMAIN frames' = 1 .. Len(frames) - 1
  BY SequenceLength DEF StackOk
<1>2. \A i \in DOMAIN frames' : frames'[i] = frames[i]
  BY <1>1 DEF Below
<1>3. \A i \in DOMAIN frames' : Placed(i, frames'[i].fn, frames'[1].at) /\ Shaped(frames'[i], m)
  BY <1>1, <1>2, MoreTypes DEF StackOk
<1>4. ASSUME NEW i \in DOMAIN frames', i < Len(frames')
      PROVE  Waits(frames'[i], frames'[i + 1].fn)
  BY <1>1, <1>2, <1>4 DEF StackOk
<1>5. Waits(frames[Len(frames) - 1], frames[Len(frames)].fn)
  BY <1>1 DEF StackOk
<1>6. Got(frames'[Len(frames')], result', m)
  BY <1>1, <1>2, <1>5, ReturnsGot
<1> QED
  BY <1>1, <1>3, <1>4, <1>6 DEF StackOk

\* Which function is on top says how high the stack is, and where the constructor is.
LEMMA TopPlace ==
    ASSUME StackInv, NEW fn, NEW at, In(fn, at)
    PROVE  /\ Len(types) \in Nat => StackOk(frames, result, Len(types))
           /\ IsSequence(frames) /\ Len(frames) \in Nat \ {0} /\ DOMAIN frames = 1 .. Len(frames)
           /\ outcome = "running"
           /\ Top = frames[Len(frames)] /\ Top.fn = fn /\ Top.at = at
           /\ fn = "document" => Len(frames) = 1 /\ Phase = at
           /\ fn \in PrimaryTokens => Len(frames) = 2 /\ Phase = "parsed"
           /\ fn \in ReadFns => Len(frames) > 2 /\ Phase = "parsed"
           /\ fn = "recursive" => Len(frames) > 1 /\ Phase = "references"
           /\ fn = "directive_arguments" => Len(frames) = 2 /\ Phase = "directives"
           /\ fn = "check_value" => Len(frames) > 2 /\ Phase = "directives"
           /\ Shaped(Top, Len(types)) /\ Got(Top, result, Len(types))
<1>1. IsSequence(frames) /\ Len(frames) \in Nat \ {0} /\ DOMAIN frames = 1 .. Len(frames)
  BY SequenceLength DEF StackInv, StackOk
<1>2. outcome = "running" /\ Top = frames[Len(frames)] /\ Top.fn = fn /\ Top.at = at
  BY TopIsLast DEF In
<1>3. Placed(Len(frames), fn, Phase) /\ Shaped(Top, Len(types)) /\ Got(Top, result, Len(types))
  BY <1>1, <1>2 DEF StackInv, StackOk, Phase
<1>4. Len(frames) = 1 => fn = "document" /\ Phase = at
  BY <1>2, <1>3 DEF Placed, Phase
<1>5. Len(frames) = 2 =>
          \/ Phase = "parsed" /\ fn \in PrimaryTokens
          \/ Phase = "references" /\ fn = "recursive"
          \/ Phase = "directives" /\ fn = "directive_arguments"
  BY <1>3 DEF Placed
<1>6. Len(frames) > 2 =>
          \/ Phase = "parsed" /\ fn \in ReadFns
          \/ Phase = "references" /\ fn = "recursive"
          \/ Phase = "directives" /\ fn = "check_value"
  BY <1>3 DEF Placed
<1>7. Len(frames) = 1 \/ Len(frames) = 2 \/ Len(frames) > 2
  BY <1>1
<1>8. /\ fn = "document" => Len(frames) = 1 /\ Phase = at
      /\ fn \in PrimaryTokens => Len(frames) = 2 /\ Phase = "parsed"
      /\ fn \in ReadFns => Len(frames) > 2 /\ Phase = "parsed"
      /\ fn = "recursive" => Len(frames) > 1 /\ Phase = "references"
      /\ fn = "directive_arguments" => Len(frames) = 2 /\ Phase = "directives"
      /\ fn = "check_value" => Len(frames) > 2 /\ Phase = "directives"
  BY <1>1, <1>4, <1>5, <1>6, <1>7 DEF PrimaryTokens, TypeKinds, ReadFns
<1> QED
  BY <1>1, <1>2, <1>3, <1>8 DEF StackInv

-----------------------------------------------------------------------------
(* Reading *)

TypesRead ==
    /\ IsSequence(types)
    /\ \A j \in DOMAIN types :
          DOMAIN types[j] = TypeFields /\ (IsReference(types[j]) => types[j].type = "Object")

DirectivesRead ==
    /\ IsSequence(directives)
    /\ \A d \in DOMAIN directive_definitions : Pointers(directive_definitions[d].arguments, Len(types))

ReadInv ==
    StackInv /\ DeclarationsInv /\ TypesRead /\ DirectivesRead /\ Phase \in ReadPhases /\ outcome # "done"

\* While the document is read, this is all that the invariant says.
LEMMA ReadInvIsSchemaInv ==
    /\ Phase \in ReadPhases /\ SchemaInv => ReadInv
    /\ ReadInv => SchemaInv
<1>1. Phase \in ReadPhases => Phase \notin FitPhases /\ Phase # "references" /\ Phase # "directives" /\ Phase # "unions"
                              /\ Phase # "implementations" /\ Phase # "interface"
  BY DEF ReadPhases, FitPhases
<1>2. Phase \in ReadPhases => (TypesInv <=> TypesRead)
  BY <1>1 DEF TypesInv, TypeFits, TypesRead, Referenced
<1>3. Phase \in ReadPhases => (DirectivesInv <=> DirectivesRead)
  BY <1>1 DEF DirectivesInv, DirectivesRead
<1>4. Phase \in ReadPhases => RootInv /\ ImplementationsInv /\ UnionsInv
  BY <1>1 DEF RootInv, ImplementationsInv, UnionsInv, Covered
<1> QED
  BY <1>1, <1>2, <1>3, <1>4 DEF SchemaInv, ReadInv

LEMMA TypesAreSequence ==
    ASSUME TypesRead
    PROVE  Len(types) \in Nat /\ DOMAIN types = 1 .. Len(types)
BY SequenceLength DEF TypesRead

\* Above the definition the declarations are not touched.
LEMMA DeclarationsKept ==
    ASSUME ReadInv, Len(frames) > 2, IsSequence(frames'), Below, Len(frames') >= Len(frames) - 1,
           declarations' = declarations
    PROVE  DeclarationsInv' /\ Phase' = Phase
<1>1. Len(frames) \in Nat /\ Len(frames') \in Nat
  BY SequenceLength DEF ReadInv, StackInv, StackOk
<1>2. frames'[1] = frames[1] /\ frames'[2] = frames[2] /\ Len(frames') > 1 /\ Len(frames) > 1
  BY <1>1 DEF Below
<1>3. DeclarationsInv'
  BY <1>2 DEF ReadInv, DeclarationsInv
<1> QED
  BY <1>2, <1>3 DEF Phase

\* Values, arguments and directives: no one relies on what they return.
ValueFns == {"value", "arguments", "directives"}

ValueStep ==
    \/ UNCHANGED <<frames, result>>
    \/ \E at, of : frames' = Append(Front(frames), Continued(at, of))
    \/ \E at, of, callee : callee.fn \in ValueFns /\ Call(at, of, callee)
    \/ \E value : Return(value)

LEMMA ValueFrames ==
    ASSUME NEW f, f.fn \in ValueFns, NEW n, NEW r
    PROVE  Shaped(f, n) /\ Got(f, r, n) /\ (\A fn : Waits(f, fn)) /\ Returns(f.fn, r, n)
BY DEF ValueFns, Shaped, Got, Waits, Returns, TypeKinds

LEMMA ValueStepKeepsStack ==
    ASSUME ReadInv, Len(frames) > 2, frames[Len(frames)].fn \in ValueFns, ValueStep
    PROVE  StackOk(frames', result', Len(types)) /\ IsSequence(frames') /\ Below /\ Len(frames') >= Len(frames) - 1
<1>1. Len(types) \in Nat
  BY TypesAreSequence DEF ReadInv
<1>2. StackOk(frames, result, Len(types)) /\ IsSequence(frames) /\ Len(frames) \in Nat
      /\ DOMAIN frames = 1 .. Len(frames) /\ Len(frames) > 0
  BY SequenceLength DEF ReadInv, StackInv, StackOk
<1>3. CASE UNCHANGED <<frames, result>>
  BY <1>2, <1>3 DEF Below
<1>4. ASSUME NEW at, NEW of, frames' = Append(Front(frames), Continued(at, of))
      PROVE  StackOk(frames', result', Len(types)) /\ IsSequence(frames') /\ Below /\ Len(frames') >= Len(frames) - 1
  <2>1. PICK f : f = Frame(frames[Len(frames)].fn, at, of)
    OBVIOUS
  <2>2. /\ IsSequence(frames') /\ Len(frames') = Len(frames) /\ Below
        /\ frames'[Len(frames)] = f /\ f.fn = frames[Len(frames)].fn
    BY <1>2, <1>4, <2>1, ContinuedFrames DEF Frame
  <2>3. Shaped(f, Len(types)) /\ Got(f, result', Len(types))
    BY <2>2, ValueFrames
  <2> QED
    BY <1>1, <1>2, <2>2, <2>3, StackGoto
<1>5. ASSUME NEW at, NEW of, NEW callee, callee.fn \in ValueFns, Call(at, of, callee)
      PROVE  StackOk(frames', result', Len(types)) /\ IsSequence(frames') /\ Below /\ Len(frames') >= Len(frames) - 1
  <2>1. PICK f : f = Frame(frames[Len(frames)].fn, at, of)
    OBVIOUS
  <2>2. /\ IsSequence(frames') /\ Len(frames') = Len(frames) + 1 /\ Below
        /\ frames'[Len(frames)] = f /\ f.fn = frames[Len(frames)].fn
        /\ frames'[Len(frames) + 1] = callee
    BY <1>2, <1>5, <2>1, AfterCall DEF Frame
  <2>3. Shaped(f, Len(types)) /\ Shaped(callee, Len(types)) /\ Waits(f, callee.fn) /\ Got(callee, result', Len(types))
    BY <1>5, <2>2, ValueFrames
  <2>4. frames'[1] = frames[1] /\ frames[1].at = "parsed"
    BY <1>2, <2>2 DEF Below, StackOk, Placed, ValueFns, ReadFns
  <2>5. Placed(Len(frames) + 1, callee.fn, frames'[1].at)
    BY <1>2, <1>5, <2>4 DEF Placed, ValueFns, ReadFns
  <2> QED
    BY <1>1, <1>2, <2>2, <2>3, <2>5, StackCall
<1>6. ASSUME NEW value, Return(value)
      PROVE  StackOk(frames', result', Len(types)) /\ IsSequence(frames') /\ Below /\ Len(frames') >= Len(frames) - 1
  <2>1. IsSequence(frames') /\ Len(frames') = Len(frames) - 1 /\ Below
    BY <1>2, <1>6, AfterReturn
  <2>2. Returns(frames[Len(frames)].fn, result', Len(types))
    BY ValueFrames
  <2> QED
    BY <1>1, <1>2, <2>1, <2>2, StackReturn
<1> QED
  BY <1>3, <1>4, <1>5, <1>6 DEF ValueStep

LEMMA ValueGoto ==
    ASSUME NEW at, NEW of, Goto(at, of)
    PROVE  ValueStep
<1>1. frames' = Append(Front(frames), Continued(at, of))
  BY DEF Goto
<1> QED
  BY <1>1 DEF ValueStep

LEMMA ValueReturn ==
    ASSUME NEW value, Return(value)
    PROVE  ValueStep
BY DEF ValueStep

LEMMA ValueCall ==
    ASSUME NEW at, NEW of, NEW fn \in ValueFns, NEW from, NEW about, Call(at, of, Frame(fn, from, about))
    PROVE  ValueStep
<1>1. PICK callee : callee = Frame(fn, from, about)
  OBVIOUS
<1>2. callee.fn \in ValueFns
  BY <1>1 DEF Frame
<1>3. Call(at, of, callee)
  BY <1>1
<1> QED
  BY <1>2, <1>3 DEF ValueStep

LEMMA CallValueSteps ==
    ASSUME NEW at, NEW of, CallValue(at, of)
    PROVE  ValueStep
<1>1. "value" \in ValueFns /\ Call(at, of, Frame("value", "begin", <<>>))
  BY DEF CallValue, ValueFns
<1> QED
  BY <1>1, ValueCall

\* What the actions of a directive leave of the rest.
DirectiveStep ==
    /\ outcome' = outcome
    /\ UNCHANGED <<types, declarations, directive_definitions>>
    /\ directives' = directives \/ \E d : directives' = Append(directives, d)

LEMMA DirectiveSteps ==
    ASSUME ParseDirectives
    PROVE  ValueStep /\ DirectiveStep /\ \E fn \in ValueFns : \E at : In(fn, at)
<1>1. {"value", "arguments", "directives"} = ValueFns
  BY DEF ValueFns
<1>2. CASE parse_value
  <2>1. ValueStep
    BY <1>2, ValueGoto, ValueReturn, CallValueSteps DEF parse_value
  <2>2. In("value", "begin") /\ DirectiveStep
    BY <1>2 DEF parse_value, DirectiveStep, Report, declarationVars, directiveVars
  <2> QED
    BY <1>1, <2>1, <2>2
<1>3. CASE parse_list
  <2>1. ValueStep
    BY <1>3, ValueGoto, ValueReturn, CallValueSteps DEF parse_list
  <2>2. In("value", "list") /\ DirectiveStep
    BY <1>3 DEF parse_list, DirectiveStep, Report, schemaVars, declarationVars, directiveVars
  <2> QED
    BY <1>1, <2>1, <2>2
<1>4. CASE parse_object_field
  <2>1. UNCHANGED <<frames, result>> => ValueStep
    BY DEF ValueStep
  <2>2. ValueStep
    BY <1>4, <2>1, ValueGoto, ValueReturn, CallValueSteps DEF parse_object_field
  <2>3. In("value", "object") /\ DirectiveStep
    BY <1>4 DEF parse_object_field, DirectiveStep, Report, schemaVars, declarationVars, directiveVars
  <2> QED
    BY <1>1, <2>2, <2>3
<1>5. CASE end_object_field
  <2>1. ValueStep
    BY <1>5, ValueGoto DEF end_object_field
  <2>2. In("value", "object_field") /\ DirectiveStep
    BY <1>5 DEF end_object_field, DirectiveStep, schemaVars, declarationVars, directiveVars
  <2> QED
    BY <1>1, <2>1, <2>2
<1>6. CASE parse_argument
  <2>1. ValueStep
    BY <1>6, ValueReturn, CallValueSteps DEF parse_argument
  <2>2. In("arguments", "begin") /\ DirectiveStep
    BY <1>6 DEF parse_argument, DirectiveStep, Report, schemaVars, declarationVars, directiveVars
  <2> QED
    BY <1>1, <2>1, <2>2
<1>7. CASE end_argument
  <2>1. ValueStep
    BY <1>7, ValueGoto DEF end_argument
  <2>2. In("arguments", "emplace") /\ DirectiveStep
    BY <1>7 DEF end_argument, DirectiveStep, Report, schemaVars, declarationVars, directiveVars
  <2> QED
    BY <1>1, <2>1, <2>2
<1>8. CASE parse_directive
  <2>1. \A at, of : frames' = Append(Front(frames), Continued(at, of)) => ValueStep
    BY DEF ValueStep
  <2>2. "arguments" \in ValueFns
    BY DEF ValueFns
  <2>3. \/ \E value : Return(value)
        \/ \E at, of : frames' = Append(Front(frames), Continued(at, of))
        \/ \E at, of, about : Call(at, of, Frame("arguments", "begin", about))
    BY <1>8 DEF parse_directive
  <2>5. ValueStep
    BY <2>1, <2>2, <2>3, ValueReturn, ValueCall
  <2>4. In("directives", "begin") /\ DirectiveStep
    BY <1>8 DEF parse_directive, DirectiveStep, Report, schemaVars, declarationVars, directiveVars
  <2> QED
    BY <1>1, <2>5, <2>4
<1>9. CASE end_directive
  <2>1. ValueStep
    BY <1>9, ValueGoto DEF end_directive
  <2>2. In("directives", "emplace") /\ DirectiveStep
    BY <1>9 DEF end_directive, DirectiveStep, Report, declarationVars
  <2> QED
    BY <1>1, <2>1, <2>2
<1> QED
  BY <1>2, <1>3, <1>4, <1>5, <1>6, <1>7, <1>8, <1>9 DEF ParseDirectives

\* A step above the definition: the stack holds, and at most Type nodes are added.
LEMMA ReadAbove ==
    ASSUME ReadInv, Len(frames) > 2, StackOk(frames', result', Len(types')), Below, Len(frames') >= Len(frames) - 1,
           outcome' = outcome, UNCHANGED <<declarations, directive_definitions>>, TypesRead', Len(types) <= Len(types'),
           IsSequence(directives')
    PROVE  ReadInv'
<1>1. IsSequence(frames')
  BY DEF StackOk
<1>2. DeclarationsInv' /\ Phase' = Phase
  BY <1>1, DeclarationsKept
<1>3. Len(types) \in Nat /\ Len(types') \in Nat
  BY SequenceLength DEF ReadInv, TypesRead
<1>4. \A d \in DOMAIN directive_definitions : Pointers(directive_definitions[d].arguments, Len(types'))
  BY <1>3, MoreTypes DEF ReadInv, DirectivesRead
<1>5. DirectivesRead'
  BY <1>4 DEF DirectivesRead
<1> QED
  BY <1>2, <1>5 DEF ReadInv, StackInv

LEMMA SameTypes ==
    ASSUME TypesRead, types' = types
    PROVE  TypesRead' /\ Len(types') = Len(types) /\ Len(types) <= Len(types')
<1>1. Len(types') = Len(types) /\ Len(types) \in Nat
  BY TypesAreSequence
<1>2. TypesRead'
  BY DEF TypesRead
<1> QED
  BY <1>1, <1>2

LEMMA ParseDirectivesKeepsReadInv ==
    ASSUME ReadInv, ParseDirectives
    PROVE  ReadInv'
<1>1. PICK fn, at : fn \in ValueFns /\ In(fn, at)
  BY DirectiveSteps
<1>2. Len(frames) > 2 /\ frames[Len(frames)].fn \in ValueFns
  BY <1>1, TopPlace DEF ReadInv, ValueFns, ReadFns
<1>3. StackOk(frames', result', Len(types)) /\ Below /\ Len(frames') >= Len(frames) - 1
  BY <1>2, DirectiveSteps, ValueStepKeepsStack
<1>4. DirectiveStep
  BY DirectiveSteps
<1>5. IsSequence(directives')
  BY <1>4, AppendToSequence DEF DirectiveStep, ReadInv, DirectivesRead
<1>6. types' = types /\ TypesRead /\ Len(types) \in Nat
  BY <1>4, TypesAreSequence DEF DirectiveStep, ReadInv
<1>7. TypesRead' /\ Len(types) <= Len(types') /\ Len(types') = Len(types)
  BY <1>6, SameTypes
<1> QED
  BY <1>2, <1>3, <1>4, <1>5, <1>7, ReadAbove DEF DirectiveStep

-----------------------------------------------------------------------------
(* Types, fields and arguments *)

\* What a step leaves of the stack.
Kept == StackOk(frames', result', Len(types)) /\ Below /\ Len(frames') >= Len(frames) - 1

LEMMA StaysKept ==
    ASSUME StackInv, UNCHANGED <<frames, result>>
    PROVE  Kept /\ Len(frames') = Len(frames) /\ frames'[Len(frames)] = frames[Len(frames)]
<1>1. Len(frames) \in Nat
  BY SequenceLength DEF StackInv, StackOk
<1> QED
  BY <1>1 DEF Kept, StackInv, Below

LEMMA GotoKept ==
    ASSUME StackInv, Len(types) \in Nat, Len(frames) > 1, NEW fn, frames[Len(frames)].fn = fn,
           NEW at, NEW of, Goto(at, of), Shaped(Frame(fn, at, of), Len(types)), Got(Frame(fn, at, of), result, Len(types))
    PROVE  Kept /\ Len(frames') = Len(frames) /\ frames'[Len(frames)] = Frame(fn, at, of)
<1>1. StackOk(frames, result, Len(types)) /\ IsSequence(frames) /\ Len(frames) \in Nat /\ Len(frames) > 0
  BY SequenceLength DEF StackInv, StackOk
<1>2. PICK f : f = Frame(fn, at, of)
  OBVIOUS
<1>3. /\ IsSequence(frames') /\ Len(frames') = Len(frames) /\ Below
      /\ frames'[Len(frames)] = f /\ f.fn = frames[Len(frames)].fn /\ result' = result
  BY <1>1, <1>2, AfterGoto DEF Frame, Goto
<1>4. Shaped(f, Len(types)) /\ Got(f, result', Len(types))
  BY <1>2, <1>3
<1>5. StackOk(frames', result', Len(types))
  BY <1>1, <1>3, <1>4, StackGoto
<1> QED
  BY <1>1, <1>2, <1>3, <1>5 DEF Kept

LEMMA CallKept ==
    ASSUME StackInv, Len(types) \in Nat, Len(frames) > 1, NEW fn, frames[Len(frames)].fn = fn,
           NEW at, NEW of, NEW callee, NEW from, NEW about, Call(at, of, Frame(callee, from, about)),
           Shaped(Frame(fn, at, of), Len(types)), Waits(Frame(fn, at, of), callee),
           Shaped(Frame(callee, from, about), Len(types)), Got(Frame(callee, from, about), result, Len(types)),
           Placed(Len(frames) + 1, callee, Phase)
    PROVE  Kept /\ Len(frames') = Len(frames) + 1 /\ frames'[Len(frames)] = Frame(fn, at, of)
<1>1. StackOk(frames, result, Len(types)) /\ IsSequence(frames) /\ Len(frames) \in Nat /\ Len(frames) > 0
  BY SequenceLength DEF StackInv, StackOk
<1>2. PICK f, g : f = Frame(fn, at, of) /\ g = Frame(callee, from, about)
  OBVIOUS
<1>3. Call(at, of, g)
  BY <1>2
<1>4. /\ IsSequence(frames') /\ Len(frames') = Len(frames) + 1 /\ Below
      /\ frames'[Len(frames)] = f /\ f.fn = frames[Len(frames)].fn
      /\ frames'[Len(frames) + 1] = g
  BY <1>1, <1>2, <1>3, AfterCall DEF Frame
<1>5. g.fn = callee /\ result' = result
  BY <1>2, <1>3 DEF Frame, Call
<1>6. frames'[1].at = Phase
  BY <1>1, <1>4 DEF Below, Phase
<1>7. Shaped(f, Len(types)) /\ Shaped(g, Len(types)) /\ Waits(f, g.fn) /\ Got(g, result', Len(types))
      /\ Placed(Len(frames) + 1, g.fn, frames'[1].at)
  BY <1>2, <1>5, <1>6
<1>8. StackOk(frames', result', Len(types))
  BY <1>1, <1>4, <1>7, StackCall
<1> QED
  BY <1>1, <1>2, <1>4, <1>8 DEF Kept

LEMMA ReturnKept ==
    ASSUME StackInv, Len(types) \in Nat, Len(frames) > 1, NEW fn, frames[Len(frames)].fn = fn,
           NEW value, Return(value), Returns(fn, value, Len(types))
    PROVE  Kept /\ Len(frames') = Len(frames) - 1
<1>1. StackOk(frames, result, Len(types)) /\ IsSequence(frames) /\ Len(frames) \in Nat /\ Len(frames) > 0
  BY SequenceLength DEF StackInv, StackOk
<1>2. IsSequence(frames') /\ Len(frames') = Len(frames) - 1 /\ Below /\ result' = value
  BY <1>1, AfterReturn DEF Return
<1>3. StackOk(frames', result', Len(types))
  BY <1>1, <1>2, StackReturn
<1> QED
  BY <1>1, <1>2, <1>3 DEF Kept

\* The functions that are called while reading, when they begin.
LEMMA CalleeBegins ==
    ASSUME NEW n, NEW r, NEW fn, NEW about, fn \in {"value", "arguments", "directives", "type_annotation", "fields"}
    PROVE  Shaped(Frame(fn, "begin", about), n) /\ Got(Frame(fn, "begin", about), r, n)
<1>1. PICK f : f = Frame(fn, "begin", about)
  OBVIOUS
<1>2. f.fn = fn /\ f.at = "begin"
  BY <1>1 DEF Frame
<1>3. Shaped(f, n) /\ Got(f, r, n)
  BY <1>2 DEF Shaped, Got, TypeKinds
<1> QED
  BY <1>1, <1>3

LEMMA NoPointers ==
    ASSUME NEW n
    PROVE  Pointers(<<>>, n)
BY DEF Pointers

LEMMA ArgumentsDefinitionBegins ==
    ASSUME NEW n \in Nat, NEW r, NEW of, DOMAIN of = ArgumentsOf, Pointers(of.arguments, n), of.type = 0
    PROVE  /\ Shaped(Frame("arguments_definition", "begin", of), n)
           /\ Got(Frame("arguments_definition", "begin", of), r, n)
<1>1. PICK f : f = Frame("arguments_definition", "begin", of)
  OBVIOUS
<1>2. f.fn = "arguments_definition" /\ f.at = "begin" /\ f.of = of
  BY <1>1 DEF Frame
<1>3. Shaped(f, n) /\ Got(f, r, n)
  BY <1>2 DEF Shaped, Got, TypeKinds
<1> QED
  BY <1>1, <1>3

\* What parse_arguments_definition begins with.
LEMMA ArgumentsDefinitionOf ==
    ASSUME NEW parent, NEW of, of = [parent |-> parent, arguments |-> <<>>, name |-> "", type |-> 0], NEW n
    PROVE  DOMAIN of = ArgumentsOf /\ Pointers(of.arguments, n) /\ of.type = 0
<1>1. DOMAIN of = ArgumentsOf /\ of.arguments = <<>> /\ of.type = 0
  BY DEF ArgumentsOf
<1> QED
  BY <1>1, NoPointers

\* Above the definition anything that reads can be called.
LEMMA PlacedAbove ==
    ASSUME NEW i \in Nat, i > 2, NEW fn \in ReadFns
    PROVE  Placed(i, fn, "parsed")
BY DEF Placed

LEMMA FieldsFrames ==
    ASSUME NEW at, NEW of, NEW n, NEW r
    PROVE  LET f == Frame("fields", at, of)
           IN  /\ Shaped(f, n) /\ Waits(f, "type_annotation")
               /\ at # "type" => Got(f, r, n) /\ \A fn : Waits(f, fn)
<1>1. PICK f : f = Frame("fields", at, of)
  OBVIOUS
<1>2. f.fn = "fields" /\ f.at = at
  BY <1>1 DEF Frame
<1>3. Shaped(f, n) /\ Waits(f, "type_annotation")
  BY <1>2 DEF Shaped, Waits, TypeKinds
<1>4. at # "type" => Got(f, r, n) /\ \A fn : Waits(f, fn)
  BY <1>2 DEF Got, Waits, TypeKinds
<1> QED
  BY <1>1, <1>3, <1>4

LEMMA ArgumentFrames ==
    ASSUME NEW at, NEW of, NEW n, NEW r, DOMAIN of = ArgumentsOf, of.type \in 0 .. n,
           at = "emplace" => of.type # 0, Pointers(of.arguments, n)
    PROVE  LET f == Frame("arguments_definition", at, of)
           IN  /\ Shaped(f, n) /\ Waits(f, "type_annotation")
               /\ at # "type" => Got(f, r, n) /\ \A fn : Waits(f, fn)
<1>1. PICK f : f = Frame("arguments_definition", at, of)
  OBVIOUS
<1>2. f.fn = "arguments_definition" /\ f.at = at /\ f.of = of
  BY <1>1 DEF Frame
<1>3. Shaped(f, n)
  BY <1>2 DEF Shaped, TypeKinds
<1>4. Waits(f, "type_annotation") /\ (at # "type" => Got(f, r, n) /\ \A fn : Waits(f, fn))
  BY <1>2 DEF Got, Waits, TypeKinds
<1> QED
  BY <1>1, <1>3, <1>4

\* Nothing was reported, and the step reports nothing.
Clean == IsSequence(diagnostics) /\ diagnostics = <<>> /\ diagnostics' = <<>>

\* A step of a function above the definition that adds no Type node.
LEMMA KeptAbove ==
    ASSUME ReadInv, Len(frames) > 2, Kept, outcome' = outcome, UNCHANGED schemaVars
    PROVE  ReadInv'
<1>1. UNCHANGED <<types, declarations, directives, directive_definitions>>
  BY DEF schemaVars, declarationVars, directiveVars
<1>2. TypesRead' /\ Len(types') = Len(types) /\ Len(types) <= Len(types')
  BY <1>1, SameTypes DEF ReadInv
<1>3. IsSequence(directives')
  BY <1>1 DEF ReadInv, DirectivesRead
<1>4. StackOk(frames', result', Len(types')) /\ Below /\ Len(frames') >= Len(frames) - 1
  BY <1>2 DEF Kept
<1> QED
  BY <1>1, <1>2, <1>3, <1>4, ReadAbove

LEMMA ReadTypeAnnotation ==
    ASSUME ReadInv, Clean, parse_type_annotation
    PROVE  ReadInv'
<1> DEFINE At(n) == Kind(position + n)
           is_list == At(0) = "["
           word == IF is_list THEN 1 ELSE 0
           named == At(word) = "name"
           known == named \/ At(word) \in TypeKeywords
           is_non_null == At(word + 1) = "!"
           close == IF is_non_null THEN word + 2 ELSE word + 1
           closed == is_list => At(close) = "]"
           strict == is_list /\ closed /\ At(close + 1) = "!"
           type == [type |-> IF named THEN "Object" ELSE At(word),
                    name |-> IF named THEN TokenAt(position + word) ELSE "",
                    is_non_null |-> is_non_null, is_list |-> is_list, is_non_null_list |-> strict,
                    in_input_location |-> Top.of.in_input_location, parent |-> Top.of.parent]
<1>1. /\ In("type_annotation", "begin")
      /\ \E p : Report(p, IF known THEN When(~ closed, NotExpected(position + close))
                          ELSE <<"Expected_type_annotation_instead_got_0">>)
      /\ types' = IF known THEN Append(types, type) ELSE types
      /\ Return(IF known /\ closed THEN Pointer(Len(types')) ELSE Null)
      /\ UNCHANGED <<declarations, duplicate_symbols, definitions, directiveVars, current_value_token>>
  BY DEF parse_type_annotation
<1>2. DOMAIN type = TypeFields /\ (type.name # "" => type.type = "Object")
  BY DEF TypeFields
<1>3. PICK t : t = type
  OBVIOUS
<1> HIDE DEF type, known, closed, close
<1>4. known /\ closed
  BY <1>1, ReportOne, ReportWhen DEF Clean
<1>5. types' = Append(types, t) /\ Return(Pointer(Len(types')))
  BY <1>1, <1>3, <1>4
<1>6. DOMAIN t = TypeFields /\ (IsReference(t) => t.type = "Object")
  BY <1>2, <1>3 DEF IsReference
<1>7. /\ Len(types) \in Nat /\ DOMAIN types = 1 .. Len(types) /\ Len(types') = Len(types) + 1
      /\ IsSequence(types') /\ DOMAIN types' = 1 .. Len(types) + 1
      /\ types'[Len(types) + 1] = t /\ \A i \in 1 .. Len(types) : types'[i] = types[i]
  <2>1. IsSequence(types) /\ Len(types) \in Nat /\ DOMAIN types = 1 .. Len(types)
    BY TypesAreSequence DEF ReadInv, TypesRead
  <2>2. /\ Len(types') = Len(types) + 1 /\ IsSequence(types')
        /\ types'[Len(types) + 1] = t /\ \A i \in 1 .. Len(types) : types'[i] = types[i]
    BY <1>5, <2>1, AppendToSequence
  <2>3. DOMAIN types' = 1 .. Len(types')
    BY <2>2, SequenceLength
  <2> QED
    BY <2>1, <2>2, <2>3
<1>8. ASSUME NEW j \in DOMAIN types'
      PROVE  DOMAIN types'[j] = TypeFields /\ (IsReference(types'[j]) => types'[j].type = "Object")
  <2>1. CASE j \in 1 .. Len(types)
    BY <1>7, <2>1 DEF ReadInv, TypesRead
  <2>2. CASE j = Len(types) + 1
    BY <1>6, <1>7, <2>2
  <2>3. j \in 1 .. Len(types) \/ j = Len(types) + 1
    BY <1>7
  <2> QED
    BY <2>1, <2>2, <2>3
<1>9. TypesRead'
  BY <1>7, <1>8 DEF TypesRead
<1>10. /\ StackOk(frames, result, Len(types)) /\ IsSequence(frames) /\ Len(frames) \in Nat /\ Len(frames) > 2
       /\ frames[Len(frames)].fn = "type_annotation" /\ Len(frames) > 0 /\ Len(frames) > 1
       /\ outcome = "running"
  BY <1>1, <1>7, TopPlace DEF ReadInv, ReadFns
<1>11. IsSequence(frames') /\ Len(frames') = Len(frames) - 1 /\ Below /\ result' = Pointer(Len(types'))
  BY <1>5, <1>10, AfterReturn DEF Return
<1>12. Returns("type_annotation", result', Len(types'))
  BY <1>7, <1>11 DEF Returns, Pointer
<1>13. Len(types') \in Nat /\ Len(types) <= Len(types')
  BY <1>7
<1>14. Returns(frames[Len(frames)].fn, result', Len(types'))
  BY <1>10, <1>12
<1>15. StackOk(frames', result', Len(types'))
  BY <1>7, <1>10, <1>11, <1>13, <1>14, StackReturn
<1>16. outcome' = outcome /\ UNCHANGED <<declarations, directives, directive_definitions>>
  BY <1>1 DEF Report, directiveVars
<1>17. IsSequence(directives')
  BY <1>16 DEF ReadInv, DirectivesRead
<1>18. Len(frames') >= Len(frames) - 1
  BY <1>10, <1>11
<1> QED
  BY <1>9, <1>10, <1>11, <1>13, <1>15, <1>16, <1>17, <1>18, ReadAbove

\* The variables of parse_arguments_definition.
LEMMA ArgumentsExcept ==
    ASSUME NEW of, DOMAIN of = ArgumentsOf, NEW x
    PROVE  /\ LET o == [of EXCEPT !.name = x]
              IN  DOMAIN o = ArgumentsOf /\ o.type = of.type /\ o.arguments = of.arguments
           /\ LET o == [of EXCEPT !.type = x]
              IN  DOMAIN o = ArgumentsOf /\ o.type = x /\ o.arguments = of.arguments
           /\ LET o == [of EXCEPT !.arguments = x]
              IN  DOMAIN o = ArgumentsOf /\ o.type = of.type /\ o.arguments = x
BY Zenon DEF ArgumentsOf

LEMMA EmplacePointer ==
    ASSUME NEW map, NEW n, Pointers(map, n), NEW name, NEW value \in 1 .. n
    PROVE  Pointers(Emplace(map, name, value), n)
BY DEF Pointers, Emplace

LEMMA ReadArgumentDefinition ==
    ASSUME ReadInv, Clean, parse_argument_definition
    PROVE  ReadInv'
<1>1. In("arguments_definition", "begin") /\ outcome' = outcome /\ UNCHANGED schemaVars
  BY DEF parse_argument_definition, Report
<1>2. Len(types) \in Nat /\ StackInv
  BY TypesAreSequence DEF ReadInv
<1>3. /\ Len(frames) \in Nat /\ Len(frames) > 2 /\ Len(frames) > 1 /\ frames[Len(frames)].fn = "arguments_definition"
      /\ Top.fn = "arguments_definition" /\ Shaped(Top, Len(types)) /\ Phase = "parsed"
  BY <1>1, <1>2, TopPlace DEF ReadFns
<1>4. DOMAIN Top.of = ArgumentsOf /\ Top.of.type \in 0 .. Len(types) /\ Pointers(Top.of.arguments, Len(types))
  BY <1>3 DEF Shaped
<1>5. \/ UNCHANGED <<frames, result>>
      \/ Return(Pointer(Top.of.arguments))
      \/ CallType("type", [Top.of EXCEPT !.name = TokenAt(position)], TRUE, Top.of.parent)
  BY ReportOne DEF parse_argument_definition, Clean
<1>6. CASE UNCHANGED <<frames, result>>
  BY <1>2, <1>6, StaysKept, <1>1, <1>3, KeptAbove
<1>7. CASE Return(Pointer(Top.of.arguments))
  <2>1. Returns("arguments_definition", Pointer(Top.of.arguments), Len(types))
    BY <1>4 DEF Returns, Pointer
  <2>2. Kept
    BY <1>2, <1>3, <1>7, <2>1, ReturnKept
  <2> QED
    BY <2>2, <1>1, <1>3, KeptAbove
<1>8. CASE CallType("type", [Top.of EXCEPT !.name = TokenAt(position)], TRUE, Top.of.parent)
  <2>1. PICK of : of = [Top.of EXCEPT !.name = TokenAt(position)]
    OBVIOUS
  <2>2. PICK about : Call("type", of, Frame("type_annotation", "begin", about))
    BY <1>8, <2>1 DEF CallType
  <2>3. DOMAIN of = ArgumentsOf /\ of.type \in 0 .. Len(types) /\ Pointers(of.arguments, Len(types))
    BY <1>4, <2>1, ArgumentsExcept
  <2>4. Shaped(Frame("arguments_definition", "type", of), Len(types))
        /\ Waits(Frame("arguments_definition", "type", of), "type_annotation")
    BY <2>3, ArgumentFrames
  <2>5. Shaped(Frame("type_annotation", "begin", about), Len(types))
        /\ Got(Frame("type_annotation", "begin", about), result, Len(types))
    BY CalleeBegins
  <2>6. Placed(Len(frames) + 1, "type_annotation", Phase)
    BY <1>3, PlacedAbove DEF ReadFns
  <2>7. Kept
    BY <1>2, <1>3, <2>2, <2>4, <2>5, <2>6, CallKept
  <2> QED
    BY <2>7, <1>1, <1>3, KeptAbove
<1> QED
  BY <1>5, <1>6, <1>7, <1>8

LEMMA ReadArgumentDirectives ==
    ASSUME ReadInv, argument_directives
    PROVE  ReadInv'
<1>1. In("arguments_definition", "type") /\ outcome' = outcome /\ UNCHANGED schemaVars
  BY DEF argument_directives
<1>2. Len(types) \in Nat /\ StackInv
  BY TypesAreSequence DEF ReadInv
<1>3. /\ Len(frames) \in Nat /\ Len(frames) > 2 /\ Len(frames) > 1 /\ frames[Len(frames)].fn = "arguments_definition"
      /\ Top.fn = "arguments_definition" /\ Top.at = "type"
      /\ Shaped(Top, Len(types)) /\ Got(Top, result, Len(types)) /\ Phase = "parsed"
  BY <1>1, <1>2, TopPlace DEF ReadFns
<1>4. DOMAIN Top.of = ArgumentsOf /\ Pointers(Top.of.arguments, Len(types))
  BY <1>3 DEF Shaped
<1>5. ~ result.null /\ result.value \in 1 .. Len(types)
  BY <1>3 DEF Got
<1>6. PICK of : of = [Top.of EXCEPT !.type = result.value]
  OBVIOUS
<1>7. \E about : Call("emplace", of, Frame("directives", "begin", about))
  BY <1>5, <1>6 DEF argument_directives, CallDirectives
<1>8. PICK about : Call("emplace", of, Frame("directives", "begin", about))
  BY <1>7
<1>9. DOMAIN of = ArgumentsOf /\ of.type \in 0 .. Len(types) /\ of.type # 0 /\ Pointers(of.arguments, Len(types))
  <2>1. DOMAIN of = ArgumentsOf /\ of.type = result.value /\ of.arguments = Top.of.arguments
    BY <1>4, <1>6, ArgumentsExcept
  <2> QED
    BY <1>2, <1>4, <1>5, <2>1
<1>10. Shaped(Frame("arguments_definition", "emplace", of), Len(types))
       /\ Waits(Frame("arguments_definition", "emplace", of), "directives")
  BY <1>9, ArgumentFrames
<1>11. Shaped(Frame("directives", "begin", about), Len(types))
       /\ Got(Frame("directives", "begin", about), result, Len(types))
  BY CalleeBegins
<1>12. Placed(Len(frames) + 1, "directives", Phase)
  BY <1>3, PlacedAbove DEF ReadFns
<1>13. Kept
  BY <1>2, <1>3, <1>8, <1>10, <1>11, <1>12, CallKept
<1> QED
  BY <1>13, <1>1, <1>3, KeptAbove

LEMMA ReadArgument ==
    ASSUME ReadInv, end_argument_definition
    PROVE  ReadInv'
<1>1. In("arguments_definition", "emplace") /\ outcome' = outcome /\ UNCHANGED schemaVars
  BY DEF end_argument_definition, Report
<1>2. Len(types) \in Nat /\ StackInv
  BY TypesAreSequence DEF ReadInv
<1>3. /\ Len(frames) \in Nat /\ Len(frames) > 2 /\ Len(frames) > 1 /\ frames[Len(frames)].fn = "arguments_definition"
      /\ Top.fn = "arguments_definition" /\ Top.at = "emplace" /\ Shaped(Top, Len(types))
  BY <1>1, <1>2, TopPlace DEF ReadFns
<1>4. DOMAIN Top.of = ArgumentsOf /\ Pointers(Top.of.arguments, Len(types)) /\ Top.of.type \in 1 .. Len(types)
  BY <1>2, <1>3 DEF Shaped
<1>5. PICK arguments : arguments = Emplace(Top.of.arguments, Top.of.name, Top.of.type)
  OBVIOUS
<1>6. Pointers(arguments, Len(types))
  BY <1>4, <1>5, EmplacePointer
<1>7. PICK of : of = [Top.of EXCEPT !.arguments = arguments]
  OBVIOUS
<1>8. Goto("begin", of)
  BY <1>5, <1>7 DEF end_argument_definition
<1>9. DOMAIN of = ArgumentsOf /\ of.type \in 0 .. Len(types) /\ Pointers(of.arguments, Len(types))
  BY <1>4, <1>6, <1>7, ArgumentsExcept
<1>10. Shaped(Frame("arguments_definition", "begin", of), Len(types))
       /\ Got(Frame("arguments_definition", "begin", of), result, Len(types))
  BY <1>9, ArgumentFrames
<1>11. Kept
  BY <1>2, <1>3, <1>8, <1>10, GotoKept
<1> QED
  BY <1>11, <1>1, <1>3, KeptAbove

\* parse_arguments_definition is called where what it returns is waited for, or by a field.
LEMMA ArgumentsDefinitionKept ==
    ASSUME ReadInv, Len(frames) > 1, Phase = "parsed", NEW fn, frames[Len(frames)].fn = fn, NEW at, NEW of, NEW parent,
           CallArgumentsDefinition(at, of, parent),
           Shaped(Frame(fn, at, of), Len(types)), Waits(Frame(fn, at, of), "arguments_definition")
    PROVE  Kept /\ Len(frames') = Len(frames) + 1 /\ frames'[Len(frames)] = Frame(fn, at, of)
<1>1. Len(types) \in Nat /\ StackInv
  BY TypesAreSequence DEF ReadInv
<1>2. PICK about : about = [parent |-> parent, arguments |-> <<>>, name |-> "", type |-> 0]
  OBVIOUS
<1>3. Call(at, of, Frame("arguments_definition", "begin", about))
  BY <1>2 DEF CallArgumentsDefinition
<1>4. DOMAIN about = ArgumentsOf /\ Pointers(about.arguments, Len(types)) /\ about.type = 0
  BY <1>2, ArgumentsDefinitionOf
<1>5. /\ Shaped(Frame("arguments_definition", "begin", about), Len(types))
      /\ Got(Frame("arguments_definition", "begin", about), result, Len(types))
  BY <1>1, <1>4, ArgumentsDefinitionBegins
<1>6. Len(frames) \in Nat
  BY <1>1, SequenceLength DEF StackInv, StackOk
<1>7. Placed(Len(frames) + 1, "arguments_definition", Phase)
  BY <1>6, PlacedAbove DEF ReadFns
<1> QED
  BY <1>1, <1>3, <1>5, <1>7, CallKept

LEMMA CalleeKept ==
    ASSUME ReadInv, Len(frames) > 1, Phase = "parsed", NEW fn, frames[Len(frames)].fn = fn, NEW at, NEW of,
           NEW callee \in {"directives", "type_annotation", "fields"}, NEW about, Call(at, of, Frame(callee, "begin", about)),
           Shaped(Frame(fn, at, of), Len(types)), Waits(Frame(fn, at, of), callee)
    PROVE  Kept /\ Len(frames') = Len(frames) + 1 /\ frames'[Len(frames)] = Frame(fn, at, of)
<1>1. Len(types) \in Nat /\ StackInv
  BY TypesAreSequence DEF ReadInv
<1>2. /\ Shaped(Frame(callee, "begin", about), Len(types))
      /\ Got(Frame(callee, "begin", about), result, Len(types))
  BY CalleeBegins
<1>3. Len(frames) \in Nat
  BY <1>1, SequenceLength DEF StackInv, StackOk
<1>4. Placed(Len(frames) + 1, callee, Phase)
  BY <1>3, PlacedAbove DEF ReadFns
<1> QED
  BY <1>1, <1>2, <1>4, CallKept

LEMMA FieldsKept ==
    ASSUME ReadInv, Len(frames) > 2, Phase = "parsed", frames[Len(frames)].fn = "fields",
           \/ UNCHANGED <<frames, result>>
           \/ \E of : Goto("colon", of) \/ Goto("begin", of)
           \/ \E fields : Return(Pointer(fields))
           \/ \E of, parent : CallArgumentsDefinition("colon", of, parent)
           \/ \E of, about : Call("type", of, Frame("type_annotation", "begin", about))
           \/ \E of, about : Call("emplace", of, Frame("directives", "begin", about)),
           outcome' = outcome, UNCHANGED schemaVars
    PROVE  ReadInv'
<1>1. Len(types) \in Nat /\ StackInv /\ Len(frames) > 1
  BY TypesAreSequence, SequenceLength DEF ReadInv, StackInv, StackOk
<1>2. CASE UNCHANGED <<frames, result>>
  BY <1>1, <1>2, StaysKept, KeptAbove
<1>3. ASSUME NEW at \in {"colon", "begin"}, NEW of, Goto(at, of)
      PROVE  Kept
  BY <1>1, <1>3, FieldsFrames, GotoKept
<1>4. ASSUME NEW fields, Return(Pointer(fields))
      PROVE  Kept
  <2>1. Returns("fields", Pointer(fields), Len(types))
    BY DEF Returns, Pointer
  <2> QED
    BY <1>1, <1>4, <2>1, ReturnKept
<1>5. ASSUME NEW of, NEW parent, CallArgumentsDefinition("colon", of, parent)
      PROVE  Kept
  BY <1>1, <1>5, FieldsFrames, ArgumentsDefinitionKept
<1>6. ASSUME NEW of, NEW about, Call("type", of, Frame("type_annotation", "begin", about))
      PROVE  Kept
  BY <1>1, <1>6, FieldsFrames, CalleeKept
<1>7. ASSUME NEW of, NEW about, Call("emplace", of, Frame("directives", "begin", about))
      PROVE  Kept
  BY <1>1, <1>7, FieldsFrames, CalleeKept
<1>8. Kept
  BY <1>1, <1>2, <1>3, <1>4, <1>5, <1>6, <1>7, StaysKept
<1> QED
  BY <1>8, KeptAbove

LEMMA ReadField ==
    ASSUME ReadInv, Clean, parse_field
    PROVE  ReadInv'
<1>1. In("fields", "begin") /\ outcome' = outcome /\ UNCHANGED schemaVars
  BY DEF parse_field, Report
<1>2. Len(frames) > 2 /\ frames[Len(frames)].fn = "fields" /\ Phase = "parsed"
  BY <1>1, TopPlace DEF ReadFns, ReadInv
<1>3. \/ UNCHANGED <<frames, result>>
      \/ \E of : Goto("colon", of)
      \/ \E fields : Return(Pointer(fields))
      \/ \E of, parent : CallArgumentsDefinition("colon", of, parent)
  BY ReportOne DEF parse_field, Clean
<1> QED
  BY <1>1, <1>2, <1>3, FieldsKept

LEMMA ReadFieldType ==
    ASSUME ReadInv, Clean, parse_field_type
    PROVE  ReadInv'
<1>1. (In("fields", "colon") \/ In("fields", "type")) /\ outcome' = outcome /\ UNCHANGED schemaVars
  BY DEF parse_field_type, Report
<1>2. Len(frames) > 2 /\ frames[Len(frames)].fn = "fields" /\ Phase = "parsed" /\ Top.fn = "fields"
  BY <1>1, TopPlace DEF ReadFns, ReadInv
<1>3. In("fields", "type") => ~ result.null
  <2>1. In("fields", "type") => Top.at = "type" /\ Got(Top, result, Len(types))
    BY TopPlace DEF ReadInv
  <2> QED
    BY <1>2, <2>1 DEF Got
<1>4. \/ \E of, about : Call("type", of, Frame("type_annotation", "begin", about))
      \/ \E of, about : Call("emplace", of, Frame("directives", "begin", about))
  <2>1. CASE In("fields", "colon") /\ \E of, input : CallType("type", of, input, "")
    BY <2>1 DEF CallType
  <2>2. CASE \E of, location : CallDirectives("emplace", of, location, "")
    BY <2>2 DEF CallDirectives
  <2> QED
    BY <1>3, <2>1, <2>2, ReportOne DEF parse_field_type, Clean
<1> QED
  BY <1>1, <1>2, <1>4, FieldsKept

LEMMA ReadFieldEnd ==
    ASSUME ReadInv, end_field
    PROVE  ReadInv'
<1>1. In("fields", "emplace") /\ outcome' = outcome /\ UNCHANGED schemaVars
  BY DEF end_field
<1>2. Len(frames) > 2 /\ frames[Len(frames)].fn = "fields" /\ Phase = "parsed"
  BY <1>1, TopPlace DEF ReadFns, ReadInv
<1>3. \E of : Goto("begin", of)
  BY DEF end_field
<1> QED
  BY <1>1, <1>2, <1>3, FieldsKept

-----------------------------------------------------------------------------
(* Definitions *)

\* A step of the function that reads a definition.
LEMMA ReadDefinition ==
    ASSUME ReadInv, Len(frames) = 2, Kept, outcome' = outcome, types' = types, DeclarationsInv',
           IsSequence(directives'),
           \A d \in DOMAIN directive_definitions' : Pointers(directive_definitions'[d].arguments, Len(types))
    PROVE  ReadInv'
<1>1. frames'[1] = frames[1]
  BY DEF Kept, Below
<1>2. TypesRead' /\ Len(types') = Len(types)
  BY SameTypes DEF ReadInv
<1>3. DirectivesRead'
  BY <1>2 DEF DirectivesRead
<1>4. StackInv'
  BY <1>2 DEF StackInv, Kept
<1> QED
  BY <1>1, <1>2, <1>3, <1>4 DEF ReadInv, Phase

\* Who is in one of these has no declaration to finish.
LEMMA NothingUnfinished ==
    ASSUME DeclarationsInv, NEW fn, NEW at, Len(frames) = 2 => frames[2].fn = fn /\ frames[2].at = at,
           Len(frames) \in {1, 2},
           fn \notin {"type", "interface", "input"} \/ at \notin {"body", "implements", "fields"}
    PROVE  \A k \in DOMAIN declarations : ~ Unfinished(declarations[k])
<1>1. ~ (Len(frames) > 1) \/ \A k : ~ Builds(frames[2], k)
  BY DEF Builds
<1> QED
  BY <1>1 DEF DeclarationsInv

LEMMA SameDeclarations ==
    ASSUME DeclarationsInv, declarations' = declarations,
           \A k \in DOMAIN declarations : ~ Unfinished(declarations[k])
    PROVE  DeclarationsInv'
<1>1. \A k \in DOMAIN declarations' : ~ Unfinished(declarations'[k])
  OBVIOUS
<1> QED
  BY <1>1 DEF DeclarationsInv

\* What the functions of a definition find.
LEMMA InDefinition ==
    ASSUME ReadInv, NEW fn \in PrimaryTokens, NEW at, In(fn, at)
    PROVE  /\ Len(types) \in Nat /\ StackInv /\ DeclarationsInv
           /\ Len(frames) = 2 /\ Len(frames) > 1 /\ frames[2].fn = fn /\ frames[2].at = at /\ Phase = "parsed"
           /\ Top = frames[2] /\ frames[Len(frames)] = frames[2] /\ frames[Len(frames)].fn = fn
           /\ Top.fn = fn /\ Top.at = at
           /\ Shaped(Top, Len(types)) /\ Got(Top, result, Len(types))
           /\ IsSequence(directives)
           /\ \A d \in DOMAIN directive_definitions : Pointers(directive_definitions[d].arguments, Len(types))
<1>1. Len(types) \in Nat /\ StackInv /\ DeclarationsInv
  BY TypesAreSequence DEF ReadInv
<1>2. Len(frames) = 2 /\ Phase = "parsed" /\ Top = frames[Len(frames)] /\ Top.fn = fn /\ Top.at = at
      /\ Shaped(Top, Len(types)) /\ Got(Top, result, Len(types))
  BY <1>1, TopPlace
<1> QED
  BY <1>1, <1>2 DEF ReadInv, DirectivesRead

\* A definition that makes no declaration.
LEMMA KeptDefinition ==
    ASSUME ReadInv, NEW fn \in PrimaryTokens, NEW at, In(fn, at),
           fn \notin {"type", "interface", "input"} \/ at \notin {"body", "implements", "fields"},
           Kept, outcome' = outcome, UNCHANGED schemaVars
    PROVE  ReadInv'
<1>1. UNCHANGED <<types, declarations, directives, directive_definitions>>
  BY DEF schemaVars, declarationVars, directiveVars
<1>2. /\ Len(frames) = 2 /\ frames[2].fn = fn /\ frames[2].at = at /\ DeclarationsInv /\ IsSequence(directives)
      /\ \A d \in DOMAIN directive_definitions : Pointers(directive_definitions[d].arguments, Len(types))
  BY InDefinition
<1>3. \A k \in DOMAIN declarations : ~ Unfinished(declarations[k])
  BY <1>2, NothingUnfinished
<1>4. DeclarationsInv'
  BY <1>1, <1>2, <1>3, SameDeclarations
<1> QED
  BY <1>1, <1>2, <1>4, ReadDefinition

LEMMA TypeFrames ==
    ASSUME NEW fn \in TypeKinds, NEW at, NEW of, NEW n, NEW r, DOMAIN of = TypeOf
    PROVE  /\ Shaped(Frame(fn, at, of), n) /\ Waits(Frame(fn, at, of), "fields")
           /\ at # "fields" => Got(Frame(fn, at, of), r, n) /\ \A callee : Waits(Frame(fn, at, of), callee)
<1>1. PICK f : f = Frame(fn, at, of)
  OBVIOUS
<1>2. f.fn = fn /\ f.at = at /\ f.of = of
  BY <1>1 DEF Frame
<1>3. Shaped(f, n)
  BY <1>2 DEF Shaped, TypeKinds
<1>4. Waits(f, "fields") /\ (at # "fields" => Got(f, r, n) /\ \A callee : Waits(f, callee))
  BY <1>2 DEF Got, Waits, TypeKinds
<1> QED
  BY <1>1, <1>3, <1>4

LEMMA OtherFrames ==
    ASSUME NEW fn \in {"union", "schema"}, NEW at, NEW of, NEW n, NEW r
    PROVE  /\ Shaped(Frame(fn, at, of), n) /\ Got(Frame(fn, at, of), r, n)
           /\ \A callee : Waits(Frame(fn, at, of), callee)
<1>1. PICK f : f = Frame(fn, at, of)
  OBVIOUS
<1>2. f.fn = fn
  BY <1>1 DEF Frame
<1>3. Shaped(f, n) /\ Got(f, r, n) /\ \A callee : Waits(f, callee)
  BY <1>2 DEF Shaped, Got, Waits, TypeKinds
<1> QED
  BY <1>1, <1>3

LEMMA DirectiveFrames ==
    ASSUME NEW at, NEW of, NEW n, NEW r, DOMAIN of = DirectiveOf, Pointers(of.arguments, n)
    PROVE  /\ Shaped(Frame("directive", at, of), n) /\ Waits(Frame("directive", at, of), "arguments_definition")
           /\ at # "arguments" => Got(Frame("directive", at, of), r, n)
<1>1. PICK f : f = Frame("directive", at, of)
  OBVIOUS
<1>2. f.fn = "directive" /\ f.at = at /\ f.of = of
  BY <1>1 DEF Frame
<1>3. Shaped(f, n)
  BY <1>2 DEF Shaped, TypeKinds
<1>4. Waits(f, "arguments_definition") /\ (at # "arguments" => Got(f, r, n))
  BY <1>2 DEF Got, Waits, TypeKinds
<1> QED
  BY <1>1, <1>3, <1>4

LEMMA DefinitionReturns ==
    ASSUME ReadInv, NEW fn \in PrimaryTokens, NEW at, In(fn, at), NEW value, Return(value)
    PROVE  Kept /\ Len(frames') = 1
<1>1. Len(types) \in Nat /\ StackInv /\ Len(frames) = 2 /\ Len(frames) > 1 /\ frames[Len(frames)].fn = fn
  BY InDefinition
<1>2. fn \notin {"fields", "type_annotation", "arguments_definition"}
  BY DEF PrimaryTokens, TypeKinds
<1>3. Returns(fn, value, Len(types))
  BY <1>2, OthersReturn
<1>4. Kept /\ Len(frames') = Len(frames) - 1
  BY <1>1, <1>3, ReturnKept
<1> QED
  BY <1>1, <1>4

LEMMA SequenceExcept ==
    ASSUME NEW s, IsSequence(s), NEW k, NEW x, NEW t, t = [s EXCEPT ![k] = x]
    PROVE  /\ IsSequence(t) /\ Len(t) = Len(s) /\ DOMAIN t = DOMAIN s
           /\ \A i \in DOMAIN s : t[i] = IF i = k THEN x ELSE s[i]
<1>1. DOMAIN t = DOMAIN s /\ \A i \in DOMAIN s : t[i] = IF i = k THEN x ELSE s[i]
  OBVIOUS
<1>2. Len(s) \in Nat /\ DOMAIN s = 1 .. Len(s)
  BY SequenceLength
<1>3. PICK T : T = {t[i] : i \in DOMAIN t}
  OBVIOUS
<1>4. \A i \in 1 .. Len(s) : t[i] \in T
  BY <1>1, <1>2, <1>3
<1>5. t \in [1 .. Len(s) -> T]
  BY <1>1, <1>2, <1>4
<1>6. t \in Seq(T)
  BY <1>2, <1>5, SeqDef
<1>7. IsSequence(t)
  BY <1>6, ElementsMakeSequence
<1>8. Len(t) = Len(s)
  BY <1>1, <1>2, <1>7, SequenceLength
<1> QED
  BY <1>1, <1>7, <1>8

\* One declaration is filled in: it keeps its kind and its name.
Amends(k, new) ==
    /\ declarations' = [declarations EXCEPT ![k] = new]
    /\ k \in DOMAIN declarations =>
          DOMAIN new = DeclarationFields /\ new.kind = declarations[k].kind /\ new.name = declarations[k].name

LEMMA Amended ==
    ASSUME DeclarationsInv, NEW k, NEW new, Amends(k, new),
           k \in DOMAIN declarations /\ Unfinished(new) => Len(frames') > 1 /\ Builds(frames'[2], k),
           \A i \in DOMAIN declarations \ {k} :
              Unfinished(declarations[i]) => Len(frames') > 1 /\ Builds(frames'[2], i)
    PROVE  DeclarationsInv'
<1>1. /\ IsSequence(declarations') /\ DOMAIN declarations' = DOMAIN declarations
      /\ \A i \in DOMAIN declarations : declarations'[i] = IF i = k THEN new ELSE declarations[i]
  BY SequenceExcept DEF DeclarationsInv, Amends
<1>2. \A i \in DOMAIN declarations : /\ DOMAIN declarations'[i] = DeclarationFields
                                     /\ declarations'[i].kind = declarations[i].kind
                                     /\ declarations'[i].name = declarations[i].name
  BY <1>1 DEF DeclarationsInv, Amends
<1>3. \A i \in DOMAIN declarations : Unfinished(declarations'[i]) => Len(frames') > 1 /\ Builds(frames'[2], i)
  BY <1>1
<1>4. \A i, j \in DOMAIN declarations' :
          declarations'[j].kind # "union" /\ declarations'[i].name = declarations'[j].name => j <= i
  BY <1>1, <1>2 DEF DeclarationsInv
<1> QED
  BY <1>1, <1>2, <1>3, <1>4 DEF DeclarationsInv

\* The ways a declaration is filled in.
LEMMA DeclarationExcept ==
    ASSUME NEW d, DOMAIN d = DeclarationFields, NEW v
    PROVE  /\ LET e == [d EXCEPT !.directives = v]
              IN  /\ DOMAIN e = DeclarationFields /\ e.kind = d.kind /\ e.name = d.name
                  /\ e.complete = d.complete /\ e.implementations = d.implementations
           /\ LET e == [d EXCEPT !.values = v]
              IN  /\ DOMAIN e = DeclarationFields /\ e.kind = d.kind /\ e.name = d.name
                  /\ e.complete = d.complete /\ e.implementations = d.implementations
           /\ LET e == [d EXCEPT !.implementations = v]
              IN  DOMAIN e = DeclarationFields /\ e.kind = d.kind /\ e.name = d.name
           /\ LET e == [d EXCEPT !.fields = v, !.complete = TRUE]
              IN  DOMAIN e = DeclarationFields /\ e.kind = d.kind /\ e.name = d.name /\ e.complete = TRUE
BY Zenon DEF DeclarationFields

LEMMA TypeExcept ==
    ASSUME NEW of, DOMAIN of = TypeOf, NEW x
    PROVE  /\ LET o == [of EXCEPT !.implementations = x] IN DOMAIN o = TypeOf /\ o.index = of.index
           /\ LET o == [of EXCEPT !.name = x] IN DOMAIN o = TypeOf /\ o.index = of.index
           /\ LET o == [of EXCEPT !.some = x] IN DOMAIN o = TypeOf /\ o.index = of.index
BY Zenon DEF TypeOf

\* The names are not among the ones before.
LEMMA DeclarationAdded ==
    ASSUME DeclarationsInv, NEW new, declarations' = Append(declarations, new), DOMAIN new = DeclarationFields,
           new.kind # "union" => new.name \notin Symbols,
           \A k \in DOMAIN declarations : ~ Unfinished(declarations[k]),
           Unfinished(new) => Len(frames') > 1 /\ Builds(frames'[2], Len(declarations) + 1)
    PROVE  DeclarationsInv'
<1>1. Len(declarations) \in Nat /\ DOMAIN declarations = 1 .. Len(declarations)
  BY SequenceLength DEF DeclarationsInv
<1>2. /\ IsSequence(declarations') /\ Len(declarations') = Len(declarations) + 1
      /\ \A k \in 1 .. Len(declarations) : declarations'[k] = declarations[k]
      /\ declarations'[Len(declarations) + 1] = new
  BY AppendToSequence DEF DeclarationsInv
<1>3. DOMAIN declarations' = 1 .. Len(declarations) + 1
  BY <1>2, SequenceLength
<1>4. ASSUME NEW k \in DOMAIN declarations'
      PROVE  k \in DOMAIN declarations \/ k = Len(declarations) + 1
  BY <1>1, <1>3
<1>5. ASSUME NEW k \in DOMAIN declarations'
      PROVE  /\ DOMAIN declarations'[k] = DeclarationFields
             /\ Unfinished(declarations'[k]) => Len(frames') > 1 /\ Builds(frames'[2], k)
  <2>1. CASE k \in DOMAIN declarations
    BY <1>1, <1>2, <2>1 DEF DeclarationsInv
  <2>2. CASE k = Len(declarations) + 1
    BY <1>2, <2>2
  <2> QED
    BY <1>4, <2>1, <2>2
<1>6. ASSUME NEW j \in DOMAIN declarations', NEW k \in DOMAIN declarations',
             declarations'[k].kind # "union", declarations'[j].name = declarations'[k].name
      PROVE  k <= j
  <2>1. CASE j \in DOMAIN declarations /\ k \in DOMAIN declarations
    BY <1>1, <1>2, <1>6, <2>1 DEF DeclarationsInv
  <2>2. CASE j = Len(declarations) + 1
    BY <1>1, <1>3, <2>2
  <2>3. CASE j \in DOMAIN declarations /\ k = Len(declarations) + 1
    <3>1. declarations[j].name \notin Symbols
      BY <1>1, <1>2, <1>6, <2>3
    <3> QED
      BY <2>3, <3>1 DEF Symbols
  <2> QED
    BY <1>4, <2>1, <2>2, <2>3
<1> QED
  BY <1>2, <1>5, <1>6 DEF DeclarationsInv

LEMMA InTypeDefinition ==
    ASSUME ReadInv, NEW at, InType(at)
    PROVE  Top.fn \in TypeKinds /\ Top.fn \in PrimaryTokens /\ In(Top.fn, at)
<1>1. PICK kind \in TypeKinds : In(kind, at)
  BY DEF InType
<1>2. Top.fn = kind
  BY <1>1 DEF In
<1> QED
  BY <1>1, <1>2 DEF PrimaryTokens

LEMMA ReadTypeName ==
    ASSUME ReadInv, Clean, parse_type_name
    PROVE  ReadInv'
<1>1. PICK fn : fn = Top.fn
  OBVIOUS
<1>2. fn \in TypeKinds /\ fn \in PrimaryTokens /\ In(fn, "begin") /\ InType("begin")
  BY <1>1, InTypeDefinition DEF parse_type_name
<1>3. /\ Len(types) \in Nat /\ StackInv /\ DeclarationsInv /\ Len(frames) = 2 /\ Len(frames) > 1
      /\ frames[2].fn = fn /\ frames[2].at = "begin" /\ Phase = "parsed" /\ frames[Len(frames)].fn = fn
      /\ IsSequence(directives)
      /\ \A d \in DOMAIN directive_definitions : Pointers(directive_definitions[d].arguments, Len(types))
  BY <1>2, InDefinition
<1>4. PICK name, p : /\ \E c : Report(p, When(name \in Symbols, "Duplicate_type_0") \o When(c, "Duplicate_type_0"))
                     /\ declarations' = Append(declarations, Declaration(fn, name))
                     /\ \E location : CallDirectives("body", [index |-> Len(declarations'), implementations |-> {},
                                                              some |-> FALSE, name |-> ""], location, "")
                     /\ UNCHANGED <<types, definitions, directiveVars, current_value_token>>
  BY <1>1, ReportOne DEF parse_type_name, Clean
<1>5. name \notin Symbols /\ outcome' = outcome
  BY <1>4, ReportTwo DEF Clean, Report
<1>6. PICK of : of = [index |-> Len(declarations'), implementations |-> {}, some |-> FALSE, name |-> ""]
  OBVIOUS
<1>7. PICK about : Call("body", of, Frame("directives", "begin", about))
  BY <1>4, <1>6 DEF CallDirectives
<1>8. DOMAIN of = TypeOf /\ of.index = Len(declarations')
  BY <1>6 DEF TypeOf
<1>9. Shaped(Frame(fn, "body", of), Len(types)) /\ Waits(Frame(fn, "body", of), "directives")
  BY <1>2, <1>8, TypeFrames
<1>10. Kept /\ Len(frames') = 3 /\ frames'[2] = Frame(fn, "body", of)
  BY <1>3, <1>7, <1>9, CalleeKept
<1>11. PICK new : new = Declaration(fn, name)
  OBVIOUS
<1>12. /\ DOMAIN new = DeclarationFields /\ new.kind = fn /\ new.name = name
       /\ ~ new.complete /\ new.implementations = {}
  BY <1>11 DEF Declaration, DeclarationFields
<1>13. declarations' = Append(declarations, new) /\ Len(declarations') = Len(declarations) + 1
  BY <1>3, <1>4, <1>11, AppendToSequence DEF DeclarationsInv
<1>14. Unfinished(new) => Len(frames') > 1 /\ Builds(frames'[2], Len(declarations) + 1)
  BY <1>8, <1>10, <1>12, <1>13 DEF Unfinished, Builds, Frame
<1>15. \A k \in DOMAIN declarations : ~ Unfinished(declarations[k])
  BY <1>3, NothingUnfinished
<1>16. DeclarationsInv'
  BY <1>3, <1>5, <1>12, <1>13, <1>14, <1>15, DeclarationAdded
<1>17. UNCHANGED <<types, directives, directive_definitions>>
  BY <1>4 DEF directiveVars
<1> QED
  BY <1>3, <1>5, <1>10, <1>16, <1>17, ReadDefinition

\* Filled in by a function that goes on or calls another.
LEMMA AmendedInType ==
    ASSUME ReadInv, NEW fn \in TypeKinds, NEW at, In(fn, at), NEW new, Amends(Top.of.index, new),
           fn = "enum" => at \in {"body", "values", "emplace"},
           NEW to, NEW of, Len(frames') > 1, frames'[2] = Frame(fn, to, of), of.index = Top.of.index,
           fn # "enum" => to \in {"body", "implements", "fields"},
           Top.of.index \in DOMAIN declarations =>
              fn = "type" \/ (new.complete = declarations[Top.of.index].complete
                              /\ new.implementations = declarations[Top.of.index].implementations)
    PROVE  DeclarationsInv'
<1>1. fn \in PrimaryTokens
  BY DEF PrimaryTokens
<1>2. DeclarationsInv /\ Len(frames) = 2 /\ frames[2].fn = fn /\ frames[2].at = at /\ Top = frames[2]
  BY <1>1, InDefinition
<1>3. PICK f : f = frames'[2]
  OBVIOUS
<1>4. f.fn = fn /\ f.at = to /\ f.of = of
  BY <1>3 DEF Frame
<1>5. CASE fn # "enum"
  <2>1. \A k : k = Top.of.index => Builds(f, k)
    BY <1>4, <1>5 DEF Builds, TypeKinds
  <2>2. \A k \in DOMAIN declarations \ {Top.of.index} : ~ Unfinished(declarations[k])
    BY <1>2 DEF DeclarationsInv, Builds
  <2> QED
    BY <1>2, <1>3, <2>1, <2>2, Amended
<1>6. CASE fn = "enum"
  <2>1. \A k \in DOMAIN declarations : ~ Unfinished(declarations[k])
    BY <1>2, <1>6, NothingUnfinished
  <2>2. Top.of.index \in DOMAIN declarations => ~ Unfinished(new)
    BY <1>6, <2>1 DEF Amends, Unfinished
  <2> QED
    BY <1>2, <2>1, <2>2, Amended
<1> QED
  BY <1>5, <1>6

\* What the functions that read a type find behind its name.
LEMMA InTypeBody ==
    ASSUME ReadInv, NEW fn \in TypeKinds, NEW at, In(fn, at), at # "begin"
    PROVE  /\ fn \in PrimaryTokens /\ Top.fn = fn /\ DOMAIN Top.of = TypeOf
           /\ Len(types) \in Nat /\ StackInv /\ DeclarationsInv /\ Len(frames) = 2 /\ Len(frames) > 1
           /\ frames[2].fn = fn /\ frames[2].at = at /\ Top = frames[2]
           /\ Phase = "parsed" /\ frames[Len(frames)].fn = fn
           /\ IsSequence(directives)
           /\ \A d \in DOMAIN directive_definitions : Pointers(directive_definitions[d].arguments, Len(types))
<1>1. fn \in PrimaryTokens
  BY DEF PrimaryTokens
<1>2. Top.fn = fn /\ Top.at = at /\ Shaped(Top, Len(types))
  BY <1>1, InDefinition
<1>3. DOMAIN Top.of = TypeOf
  BY <1>2 DEF Shaped
<1> QED
  BY <1>1, <1>3, InDefinition

\* A function that reads a type goes on, or calls another.
LEMMA TypeGoesOn ==
    ASSUME ReadInv, NEW fn \in TypeKinds, NEW at, In(fn, at), at # "begin", NEW to, NEW of, DOMAIN of = TypeOf,
           \/ to # "fields" /\ Goto(to, of)
           \/ to # "fields" /\ \E about : Call(to, of, Frame("directives", "begin", about))
           \/ \E about : Call(to, of, Frame("fields", "begin", about))
    PROVE  Kept /\ Len(frames') > 1 /\ frames'[2] = Frame(fn, to, of)
<1>1. /\ Len(types) \in Nat /\ StackInv /\ Len(frames) = 2 /\ Len(frames) > 1 /\ Phase = "parsed"
      /\ frames[Len(frames)].fn = fn
  BY InTypeBody
<1>2. /\ Shaped(Frame(fn, to, of), Len(types)) /\ Waits(Frame(fn, to, of), "fields")
      /\ to # "fields" => Got(Frame(fn, to, of), result, Len(types)) /\ Waits(Frame(fn, to, of), "directives")
  BY TypeFrames
<1>3. CASE to # "fields" /\ Goto(to, of)
  <2>1. Kept /\ Len(frames') = Len(frames) /\ frames'[Len(frames)] = Frame(fn, to, of)
    BY <1>1, <1>2, <1>3, GotoKept
  <2> QED
    BY <1>1, <2>1
<1>4. CASE to # "fields" /\ \E about : Call(to, of, Frame("directives", "begin", about))
  <2>1. Kept /\ Len(frames') = Len(frames) + 1 /\ frames'[Len(frames)] = Frame(fn, to, of)
    BY <1>1, <1>2, <1>4, CalleeKept
  <2> QED
    BY <1>1, <2>1
<1>5. CASE \E about : Call(to, of, Frame("fields", "begin", about))
  <2>1. Kept /\ Len(frames') = Len(frames) + 1 /\ frames'[Len(frames)] = Frame(fn, to, of)
    BY <1>1, <1>2, <1>5, CalleeKept
  <2> QED
    BY <1>1, <2>1
<1> QED
  BY <1>3, <1>4, <1>5

\* A field of one declaration is set.
LEMMA SetField ==
    ASSUME NEW k, NEW v, DeclarationsInv
    PROVE  /\ declarations' = [declarations EXCEPT ![k].directives = v] =>
                 Amends(k, [declarations[k] EXCEPT !.directives = v])
           /\ declarations' = [declarations EXCEPT ![k].values = v] =>
                 Amends(k, [declarations[k] EXCEPT !.values = v])
           /\ declarations' = [declarations EXCEPT ![k].implementations = v] =>
                 Amends(k, [declarations[k] EXCEPT !.implementations = v])
<1>1. k \in DOMAIN declarations => DOMAIN declarations[k] = DeclarationFields
  BY DEF DeclarationsInv
<1>2. k \in DOMAIN declarations =>
          /\ LET e == [declarations[k] EXCEPT !.directives = v]
             IN  DOMAIN e = DeclarationFields /\ e.kind = declarations[k].kind /\ e.name = declarations[k].name
          /\ LET e == [declarations[k] EXCEPT !.values = v]
             IN  DOMAIN e = DeclarationFields /\ e.kind = declarations[k].kind /\ e.name = declarations[k].name
          /\ LET e == [declarations[k] EXCEPT !.implementations = v]
             IN  DOMAIN e = DeclarationFields /\ e.kind = declarations[k].kind /\ e.name = declarations[k].name
  BY <1>1, DeclarationExcept
<1> QED
  BY <1>2 DEF Amends

LEMMA ReadTypeBody ==
    ASSUME ReadInv, Clean, parse_type_body
    PROVE  ReadInv'
<1>1. PICK fn, of, k : fn = Top.fn /\ of = Top.of /\ k = Top.of.index
  OBVIOUS
<1>2. fn \in TypeKinds /\ fn \in PrimaryTokens /\ In(fn, "body") /\ InType("body")
  BY <1>1, InTypeDefinition DEF parse_type_body
<1>3. /\ DOMAIN of = TypeOf /\ DeclarationsInv /\ Len(frames) = 2 /\ IsSequence(directives)
      /\ \A d \in DOMAIN directive_definitions : Pointers(directive_definitions[d].arguments, Len(types))
  BY <1>1, <1>2, InTypeBody
<1>4. /\ declarations' = [declarations EXCEPT ![k].directives = result.value]
      /\ outcome' = outcome
      /\ UNCHANGED <<types, duplicate_symbols, definitions, directiveVars, current_value_token>>
  BY <1>1 DEF parse_type_body, Report
<1>5. \/ fn = "type" /\ Goto("implements", of)
      \/ fn = "enum" /\ Goto("values", of)
      \/ fn # "enum" /\ \E about : Call("fields", of, Frame("fields", "begin", about))
  BY <1>1, ReportOne DEF parse_type_body, CallFields, Clean
<1>6. PICK to : /\ fn # "enum" => to \in {"body", "implements", "fields"}
                /\ \/ to # "fields" /\ Goto(to, of)
                   \/ \E about : Call(to, of, Frame("fields", "begin", about))
  BY <1>5
<1>7. Kept /\ Len(frames') > 1 /\ frames'[2] = Frame(fn, to, of)
  BY <1>2, <1>3, <1>6, TypeGoesOn
<1>8. PICK new : new = [declarations[k] EXCEPT !.directives = result.value]
  OBVIOUS
<1>9. Amends(k, new)
  BY <1>3, <1>4, <1>8, SetField
<1>10. k \in DOMAIN declarations => new.complete = declarations[k].complete
                                    /\ new.implementations = declarations[k].implementations
  BY <1>3, <1>8, DeclarationExcept DEF DeclarationsInv
<1>11. DeclarationsInv'
  BY <1>1, <1>2, <1>6, <1>7, <1>9, <1>10, AmendedInType
<1>12. UNCHANGED <<types, directives, directive_definitions>>
  BY <1>4 DEF directiveVars
<1> QED
  BY <1>3, <1>4, <1>7, <1>11, <1>12, ReadDefinition

LEMMA ReadImplementation ==
    ASSUME ReadInv, Clean, parse_implementation
    PROVE  ReadInv'
<1>1. PICK of : of = [Top.of EXCEPT !.implementations = @ \cup {TokenAt(position)}]
  OBVIOUS
<1>2. "type" \in TypeKinds /\ In("type", "implements")
  BY DEF parse_implementation, TypeKinds
<1>3. /\ DOMAIN Top.of = TypeOf /\ DeclarationsInv /\ Len(frames) = 2 /\ IsSequence(directives)
      /\ frames[2].fn = "type" /\ frames[2].at = "implements" /\ Top = frames[2]
      /\ \A d \in DOMAIN directive_definitions : Pointers(directive_definitions[d].arguments, Len(types))
  BY <1>2, InTypeBody
<1>4. DOMAIN of = TypeOf /\ of.index = Top.of.index
  BY <1>1, <1>3, TypeExcept
<1>5. PICK w : IsSequence(w) /\ w = When(TokenAt(position) \in Symbols /\ Symbol(TokenAt(position)).kind # "interface",
                                         "Expected_name_of_interface")
  BY WhenIsSequence
<1>6. ASSUME NEW p, Report(p, w \o <<"Expected_0_but_got_1">>)
      PROVE  FALSE
  <2>1. PICK m : m = w \o <<"Expected_0_but_got_1">>
    OBVIOUS
  <2>2. IsSequence(m) /\ m # <<>>
    BY <1>5, <2>1, ShortSequences, ConcatSequences
  <2>3. Report(p, m)
    BY <1>6, <2>1
  <2> QED
    BY <2>2, <2>3, MessagesReported DEF Clean
<1>7. \/ /\ declarations' = [declarations EXCEPT ![of.index].implementations = of.implementations]
         /\ \E about : Call("fields", of, Frame("fields", "begin", about))
      \/ Goto("implements", of) /\ UNCHANGED declarations
  BY <1>1, <1>5, <1>6, ReportOne DEF parse_implementation, CallFields, Clean
<1>8. outcome' = outcome /\ UNCHANGED <<types, directives, directive_definitions>>
  BY DEF parse_implementation, Report, directiveVars
<1>9. CASE \E about : Call("fields", of, Frame("fields", "begin", about))
           /\ declarations' = [declarations EXCEPT ![of.index].implementations = of.implementations]
  <2>1. Kept /\ Len(frames') > 1 /\ frames'[2] = Frame("type", "fields", of)
    BY <1>2, <1>4, <1>9, TypeGoesOn
  <2>2. PICK new : new = [declarations[of.index] EXCEPT !.implementations = of.implementations]
    OBVIOUS
  <2>3. Amends(Top.of.index, new)
    BY <1>3, <1>4, <1>9, <2>2, SetField
  <2>4. DeclarationsInv'
    BY <1>2, <1>4, <2>1, <2>3, AmendedInType
  <2> QED
    BY <1>3, <1>8, <2>1, <2>4, ReadDefinition
<1>10. CASE Goto("implements", of) /\ UNCHANGED declarations
  <2>1. Kept /\ Len(frames') > 1 /\ frames'[2] = Frame("type", "implements", of)
    BY <1>2, <1>4, <1>10, TypeGoesOn
  <2>2. \A k : Builds(frames[2], k) => Builds(frames'[2], k)
    BY <1>3, <1>4, <2>1 DEF Builds, Frame
  <2>3. DeclarationsInv'
    BY <1>3, <1>10, <2>1, <2>2 DEF DeclarationsInv
  <2> QED
    BY <1>3, <1>8, <2>1, <2>3, ReadDefinition
<1> QED
  BY <1>7, <1>9, <1>10

LEMMA ReadFields ==
    ASSUME ReadInv, end_fields
    PROVE  ReadInv'
<1>1. PICK fn, k : fn = Top.fn /\ k = Top.of.index
  OBVIOUS
<1>2. fn \in TypeKinds /\ fn \in PrimaryTokens /\ In(fn, "fields") /\ InType("fields")
  BY <1>1, InTypeDefinition DEF end_fields
<1>3. /\ DeclarationsInv /\ Len(frames) = 2 /\ IsSequence(directives)
      /\ frames[2].fn = fn /\ frames[2].at = "fields" /\ Top = frames[2]
      /\ \A d \in DOMAIN directive_definitions : Pointers(directive_definitions[d].arguments, Len(types))
  BY <1>2, InTypeBody
<1>4. Top.fn = fn /\ Top.at = "fields" /\ Got(Top, result, Len(types))
  BY <1>2, InDefinition
<1>5. ~ result.null
  BY <1>2, <1>4 DEF Got
<1>6. /\ declarations' = [declarations EXCEPT ![k].fields = result.value, ![k].complete = TRUE]
      /\ \E value : Return(value)
      /\ outcome' = outcome /\ UNCHANGED <<types, directives, directive_definitions>>
  BY <1>1, <1>5 DEF end_fields, Parsed, directiveVars
<1>7. Kept /\ Len(frames') = 1
  BY <1>2, <1>6, DefinitionReturns
<1>8. PICK new : new = [declarations[k] EXCEPT !.fields = result.value, !.complete = TRUE]
  OBVIOUS
<1>9. declarations' = [declarations EXCEPT ![k] = new]
  BY <1>6, <1>8
<1>10. k \in DOMAIN declarations =>
          /\ DOMAIN new = DeclarationFields /\ new.kind = declarations[k].kind /\ new.name = declarations[k].name
          /\ new.complete
  BY <1>3, <1>8, DeclarationExcept DEF DeclarationsInv
<1>11. Amends(k, new) /\ (k \in DOMAIN declarations => ~ Unfinished(new))
  BY <1>9, <1>10 DEF Amends, Unfinished
<1>12. \A i \in DOMAIN declarations \ {k} : ~ Unfinished(declarations[i])
  BY <1>1, <1>3 DEF DeclarationsInv, Builds
<1>13. DeclarationsInv'
  BY <1>3, <1>11, <1>12, Amended
<1> QED
  BY <1>3, <1>6, <1>7, <1>13, ReadDefinition

LEMMA ReadEnumValue ==
    ASSUME ReadInv, parse_enum_value
    PROVE  ReadInv'
<1>1. /\ "enum" \in TypeKinds /\ "enum" \in PrimaryTokens /\ In("enum", "values")
      /\ outcome' = outcome /\ UNCHANGED schemaVars
  BY DEF parse_enum_value, TypeKinds, PrimaryTokens, Report
<1>2. StackInv /\ DOMAIN Top.of = TypeOf
  BY <1>1, InTypeBody
<1>3. PICK of : of = [Top.of EXCEPT !.name = TokenAt(position)]
  OBVIOUS
<1>4. DOMAIN of = TypeOf
  BY <1>2, <1>3, TypeExcept
<1>5. \/ UNCHANGED <<frames, result>>
      \/ \E value : Return(value)
      \/ \E about : Call("emplace", of, Frame("directives", "begin", about))
  BY <1>3 DEF parse_enum_value, Parsed, CallDirectives
<1>6. Kept
  BY <1>1, <1>2, <1>4, <1>5, StaysKept, DefinitionReturns, TypeGoesOn
<1> QED
  BY <1>1, <1>6, KeptDefinition

LEMMA ReadEnumValueEnd ==
    ASSUME ReadInv, end_enum_value
    PROVE  ReadInv'
<1>0. PICK k : k = Top.of.index
  OBVIOUS
<1>1. PICK of : of = [Top.of EXCEPT !.some = TRUE]
  OBVIOUS
<1>2. /\ "enum" \in TypeKinds /\ In("enum", "emplace")
      /\ outcome' = outcome /\ UNCHANGED <<types, directives, directive_definitions>>
  BY DEF end_enum_value, TypeKinds, directiveVars
<1>3. /\ DOMAIN Top.of = TypeOf /\ DeclarationsInv /\ Len(frames) = 2 /\ IsSequence(directives)
      /\ \A d \in DOMAIN directive_definitions : Pointers(directive_definitions[d].arguments, Len(types))
  BY <1>2, InTypeBody
<1>4. DOMAIN of = TypeOf /\ of.index = Top.of.index
  BY <1>1, <1>3, TypeExcept
<1>5. Goto("values", of)
  BY <1>1 DEF end_enum_value
<1>6. Kept /\ Len(frames') > 1 /\ frames'[2] = Frame("enum", "values", of)
  BY <1>2, <1>4, <1>5, TypeGoesOn
<1>7. PICK v : v = Emplace(declarations[k].values, Top.of.name, result.value)
  OBVIOUS
<1>8. declarations' = [declarations EXCEPT ![k].values = v]
  BY <1>0, <1>7 DEF end_enum_value
<1>9. PICK new : new = [declarations[k] EXCEPT !.values = v]
  OBVIOUS
<1>10. Amends(k, new)
  BY <1>3, <1>8, <1>9, SetField
<1>11. k \in DOMAIN declarations => new.complete = declarations[k].complete
                                    /\ new.implementations = declarations[k].implementations
  BY <1>3, <1>9, DeclarationExcept DEF DeclarationsInv
<1>12. DeclarationsInv'
  BY <1>0, <1>2, <1>4, <1>6, <1>10, <1>11, AmendedInType
<1> QED
  BY <1>2, <1>3, <1>6, <1>12, ReadDefinition

LEMMA ParseTypesKeepsReadInv ==
    ASSUME ReadInv, Clean, ParseTypes
    PROVE  ReadInv'
BY ReadTypeAnnotation, ReadArgumentDefinition, ReadArgumentDirectives, ReadArgument, ReadField, ReadFieldType,
   ReadFieldEnd, ReadTypeName, ReadTypeBody, ReadImplementation, ReadFields, ReadEnumValue, ReadEnumValueEnd
   DEF ParseTypes

\* Unions and the schema definition keep no pointers.
OtherStep ==
    \/ UNCHANGED <<frames, result>>
    \/ \E value : Return(value)
    \/ \E to, of : Goto(to, of)
    \/ \E to, of, about : Call(to, of, Frame("directives", "begin", about))

LEMMA OtherKept ==
    ASSUME ReadInv, NEW fn \in {"union", "schema"}, NEW at, In(fn, at), OtherStep, outcome' = outcome,
           UNCHANGED schemaVars
    PROVE  ReadInv'
<1>1. fn \in PrimaryTokens
  BY DEF PrimaryTokens
<1>2. Len(types) \in Nat /\ StackInv /\ Len(frames) > 1 /\ Phase = "parsed" /\ frames[Len(frames)].fn = fn
  BY <1>1, InDefinition
<1>3. CASE UNCHANGED <<frames, result>>
  BY <1>2, <1>3, StaysKept, KeptDefinition, <1>1
<1>4. ASSUME NEW value, Return(value) PROVE Kept
  BY <1>1, <1>4, DefinitionReturns
<1>5. ASSUME NEW to, NEW of, Goto(to, of) PROVE Kept
  BY <1>2, <1>5, OtherFrames, GotoKept
<1>6. ASSUME NEW to, NEW of, NEW about, Call(to, of, Frame("directives", "begin", about)) PROVE Kept
  BY <1>2, <1>6, OtherFrames, CalleeKept
<1>7. Kept
  BY <1>2, <1>3, <1>4, <1>5, <1>6, StaysKept DEF OtherStep
<1> QED
  BY <1>1, <1>7, KeptDefinition

LEMMA ReadUnion ==
    ASSUME ReadInv, parse_union
    PROVE  ReadInv'
<1>1. (\E at : In("union", at)) /\ outcome' = outcome /\ UNCHANGED schemaVars
  BY DEF parse_union, NoUnion, Report
<1>2. OtherStep
  BY DEF parse_union, NoUnion, CallDirectives, OtherStep
<1> QED
  BY <1>1, <1>2, OtherKept

LEMMA ReadSchema ==
    ASSUME ReadInv, parse_schema
    PROVE  ReadInv'
<1>1. (\E at : In("schema", at)) /\ outcome' = outcome /\ UNCHANGED schemaVars
  BY DEF parse_schema, Report
<1>2. OtherStep
  BY DEF parse_schema, CallDirectives, OtherStep
<1> QED
  BY <1>1, <1>2, OtherKept

LEMMA ReadSchemaField ==
    ASSUME ReadInv, parse_schema_field
    PROVE  ReadInv'
<1>1. In("schema", "fields") /\ outcome' = outcome /\ UNCHANGED schemaVars
  BY DEF parse_schema_field, Report
<1>2. OtherStep
  BY DEF parse_schema_field, OtherStep
<1> QED
  BY <1>1, <1>2, OtherKept

LEMMA ReadUnionEnd ==
    ASSUME ReadInv, end_union
    PROVE  ReadInv'
<1>1. PICK new : new = [Declaration("union", Top.of.name) EXCEPT !.members = Top.of.members]
  OBVIOUS
<1>2. /\ In("union", "members") /\ "union" \in PrimaryTokens /\ declarations' = Append(declarations, new)
      /\ (\E value : Return(value)) /\ outcome' = outcome
      /\ UNCHANGED <<types, directives, directive_definitions>>
  BY <1>1 DEF end_union, Report, Parsed, directiveVars, PrimaryTokens
<1>3. PICK d : d = Declaration("union", Top.of.name)
  OBVIOUS
<1>4. DOMAIN d = DeclarationFields /\ d.kind = "union" /\ d.implementations = {}
  BY <1>3 DEF Declaration, DeclarationFields
<1>5. DOMAIN new = DeclarationFields /\ new.kind = "union" /\ new.implementations = {}
  <2>1. new = [d EXCEPT !.members = Top.of.members]
    BY <1>1, <1>3
  <2> QED
    BY <1>4, <2>1, Zenon DEF DeclarationFields
<1>6. ~ Unfinished(new)
  BY <1>5 DEF Unfinished
<1>7. /\ DeclarationsInv /\ Len(frames) = 2 /\ IsSequence(directives)
      /\ frames[2].fn = "union" /\ frames[2].at = "members"
      /\ \A d_1 \in DOMAIN directive_definitions : Pointers(directive_definitions[d_1].arguments, Len(types))
  BY <1>2, InDefinition
<1>8. \A k \in DOMAIN declarations : ~ Unfinished(declarations[k])
  BY <1>7, NothingUnfinished
<1>9. DeclarationsInv'
  BY <1>2, <1>5, <1>6, <1>7, <1>8, DeclarationAdded
<1>10. Kept
  BY <1>2, DefinitionReturns
<1> QED
  BY <1>2, <1>7, <1>9, <1>10, ReadDefinition

LEMMA DirectiveExcept ==
    ASSUME NEW of, DOMAIN of = DirectiveOf, NEW x
    PROVE  /\ LET o == [of EXCEPT !.arguments = x] IN DOMAIN o = DirectiveOf /\ o.arguments = x
           /\ LET o == [of EXCEPT !.locations = x] IN DOMAIN o = DirectiveOf /\ o.arguments = of.arguments
BY Zenon DEF DirectiveOf

LEMMA DirectiveKept ==
    ASSUME ReadInv, NEW at, In("directive", at), outcome' = outcome, UNCHANGED schemaVars,
           NEW of, DOMAIN of = DirectiveOf, Pointers(of.arguments, Len(types)),
           \/ \E value : Return(value)
           \/ \E to \in {"on", "locations"} : Goto(to, of)
           \/ \E parent : CallArgumentsDefinition("arguments", of, parent)
    PROVE  ReadInv'
<1>1. "directive" \in PrimaryTokens
  BY DEF PrimaryTokens
<1>2. Len(types) \in Nat /\ StackInv /\ Len(frames) > 1 /\ Phase = "parsed" /\ frames[Len(frames)].fn = "directive"
  BY <1>1, InDefinition
<1>3. ASSUME NEW value, Return(value) PROVE Kept
  BY <1>1, <1>3, DefinitionReturns
<1>4. ASSUME NEW to \in {"on", "locations"}, Goto(to, of) PROVE Kept
  BY <1>2, <1>4, DirectiveFrames, GotoKept
<1>5. ASSUME NEW parent, CallArgumentsDefinition("arguments", of, parent) PROVE Kept
  BY <1>2, <1>5, DirectiveFrames, ArgumentsDefinitionKept
<1>6. Kept
  BY <1>3, <1>4, <1>5
<1> QED
  BY <1>1, <1>6, KeptDefinition

\* What the functions of a directive definition have read so far.
LEMMA InDirective ==
    ASSUME ReadInv, NEW at, In("directive", at)
    PROVE  /\ at # "begin" => DOMAIN Top.of = DirectiveOf /\ Pointers(Top.of.arguments, Len(types))
           /\ at = "arguments" => Pointers(result.value, Len(types))
<1>1. "directive" \in PrimaryTokens
  BY DEF PrimaryTokens
<1>2. Top.fn = "directive" /\ Top.at = at /\ Shaped(Top, Len(types)) /\ Got(Top, result, Len(types))
  BY <1>1, InDefinition
<1> QED
  BY <1>2 DEF Shaped, Got

LEMMA ReadDirectiveName ==
    ASSUME ReadInv, parse_directive_name, ~ Stop("thrown")
    PROVE  ReadInv'
<1>1. PICK of : of = [name |-> TokenAt(After(position)), arguments |-> <<>>, locations |-> {}]
  OBVIOUS
<1>2. DOMAIN of = DirectiveOf /\ of.arguments = <<>> /\ of.name = TokenAt(After(position))
  BY <1>1 DEF DirectiveOf
<1>3. Pointers(of.arguments, Len(types))
  BY <1>2, NoPointers
<1>4. In("directive", "begin") /\ outcome' = outcome /\ UNCHANGED schemaVars
  BY DEF parse_directive_name, Report
<1>5. \/ \E value : Return(value)
      \/ \E to \in {"on", "locations"} : Goto(to, of)
      \/ \E parent : CallArgumentsDefinition("arguments", of, parent)
  BY <1>1 DEF parse_directive_name
<1> QED
  BY <1>2, <1>3, <1>4, <1>5, DirectiveKept

LEMMA ReadDirectiveArguments ==
    ASSUME ReadInv, end_directive_arguments
    PROVE  ReadInv'
<1>1. PICK of : of = [Top.of EXCEPT !.arguments = result.value]
  OBVIOUS
<1>2. In("directive", "arguments") /\ outcome' = outcome /\ UNCHANGED schemaVars /\ Goto("on", of)
  BY <1>1 DEF end_directive_arguments
<1>3. DOMAIN of = DirectiveOf /\ of.arguments = result.value /\ Pointers(result.value, Len(types))
  BY <1>1, <1>2, InDirective, DirectiveExcept
<1>4. Pointers(of.arguments, Len(types))
  BY <1>3
<1> QED
  BY <1>2, <1>3, <1>4, DirectiveKept

LEMMA ReadLocation ==
    ASSUME ReadInv, parse_first_location \/ parse_location
    PROVE  ReadInv'
<1>1. PICK at : at \in {"on", "locations"} /\ In("directive", at) /\ outcome' = outcome /\ UNCHANGED schemaVars
  BY DEF parse_first_location, parse_location, Report
<1>2. DOMAIN Top.of = DirectiveOf /\ Pointers(Top.of.arguments, Len(types))
  BY <1>1, InDirective
<1>3. \/ \E value : Return(value)
      \/ \E x : Goto("locations", [Top.of EXCEPT !.locations = x])
  BY DEF parse_first_location, parse_location
<1>4. CASE \E value : Return(value)
  BY <1>1, <1>2, <1>4, DirectiveKept
<1>5. ASSUME NEW x, Goto("locations", [Top.of EXCEPT !.locations = x])
      PROVE  ReadInv'
  <2>1. PICK of : of = [Top.of EXCEPT !.locations = x]
    OBVIOUS
  <2>2. DOMAIN of = DirectiveOf /\ of.arguments = Top.of.arguments /\ Goto("locations", of)
    BY <1>2, <1>5, <2>1, DirectiveExcept
  <2>3. Pointers(of.arguments, Len(types))
    BY <1>2, <2>2
  <2> QED
    BY <1>1, <2>2, <2>3, DirectiveKept
<1> QED
  BY <1>3, <1>4, <1>5

LEMMA ReadDirectiveEnd ==
    ASSUME ReadInv, end_directive_definition
    PROVE  ReadInv'
<1>1. "directive" \in PrimaryTokens
  BY DEF PrimaryTokens
<1>2. PICK definition : definition = [arguments |-> Top.of.arguments, locations |-> Top.of.locations]
  OBVIOUS
<1>3. /\ In("directive", "locations") /\ (\E value : Return(value)) /\ outcome' = outcome
      /\ directive_definitions' = Emplace(directive_definitions, Top.of.name, definition)
      /\ UNCHANGED <<types, declarations, directives>>
  BY <1>2 DEF end_directive_definition, Report, Parsed, declarationVars
<1>4. /\ DeclarationsInv /\ Len(frames) = 2 /\ IsSequence(directives)
      /\ frames[2].fn = "directive" /\ frames[2].at = "locations"
      /\ \A d \in DOMAIN directive_definitions : Pointers(directive_definitions[d].arguments, Len(types))
  BY <1>1, <1>3, InDefinition
<1>5. definition.arguments = Top.of.arguments
  BY <1>2
<1>6. Pointers(definition.arguments, Len(types))
  BY <1>3, <1>5, InDirective
<1>7. \A d \in DOMAIN directive_definitions' : Pointers(directive_definitions'[d].arguments, Len(types))
  BY <1>3, <1>4, <1>6 DEF Emplace
<1>8. Kept
  BY <1>1, <1>3, DefinitionReturns
<1>9. \A k \in DOMAIN declarations : ~ Unfinished(declarations[k])
  BY <1>4, NothingUnfinished
<1>10. DeclarationsInv'
  BY <1>3, <1>4, <1>9, SameDeclarations
<1> QED
  BY <1>3, <1>4, <1>7, <1>8, <1>10, ReadDefinition

LEMMA ParseOthersKeepsReadInv ==
    ASSUME ReadInv, ParseOthers, ~ Stop("thrown")
    PROVE  ReadInv'
BY ReadUnion, ReadUnionEnd, ReadDirectiveName, ReadDirectiveArguments, ReadLocation, ReadDirectiveEnd, ReadSchema,
   ReadSchemaField DEF ParseOthers

-----------------------------------------------------------------------------
(* The constructor, when it calls nobody *)

LEMMA GotoAlone ==
    ASSUME StackInv, Len(frames) = 1, NEW at, NEW of, Goto(at, of), NEW m, Len(frames) \in Nat
    PROVE  /\ StackOk(frames', result', m) /\ Len(frames') = 1 /\ frames'[1] = Frame("document", at, of)
           /\ frames'[1].at = at /\ frames'[1].of = of
<1>1. IsSequence(frames) /\ Len(frames) > 0 /\ frames[1].fn = "document"
  BY DEF StackInv, StackOk, Placed
<1>2. IsSequence(frames') /\ Len(frames') = 1 /\ frames'[1] = Frame("document", at, of)
  BY <1>1, AfterGoto
<1>3. frames'[1].fn = "document" /\ frames'[1].at = at /\ frames'[1].of = of
  BY <1>2 DEF Frame
<1>4. DOMAIN frames' = 1 .. 1
  BY <1>2, SequenceLength
<1>5. Shaped(frames'[1], m) /\ Got(frames'[1], result', m)
  BY <1>3 DEF Shaped, Got, TypeKinds
<1>6. Placed(1, frames'[1].fn, frames'[1].at)
  BY <1>3 DEF Placed
<1>7. \A i \in DOMAIN frames' : i = 1
  BY <1>4
<1>8. ~ (1 < Len(frames')) /\ Len(frames') > 0
  BY <1>2
<1>9. StackOk(frames', result', m)
  BY <1>2, <1>5, <1>6, <1>7, <1>8 DEF StackOk
<1> QED
  BY <1>2, <1>3, <1>9

LEMMA CallAlone ==
    ASSUME StackInv, Len(frames) = 1, Len(types) \in Nat, NEW at, NEW of, NEW fn, NEW from, NEW about,
           Call(at, of, Frame(fn, from, about)), Placed(2, fn, at),
           Shaped(Frame(fn, from, about), Len(types)), Got(Frame(fn, from, about), result, Len(types))
    PROVE  /\ StackOk(frames', result', Len(types)) /\ Len(frames') = 2
           /\ frames'[1] = Frame("document", at, of) /\ frames'[1].at = at /\ frames'[1].of = of
           /\ frames'[2] = Frame(fn, from, about)
<1>1. StackOk(frames, result, Len(types)) /\ IsSequence(frames) /\ Len(frames) > 0 /\ frames[1].fn = "document"
  BY DEF StackInv, StackOk, Placed
<1>2. PICK f, g : f = Frame("document", at, of) /\ g = Frame(fn, from, about)
  OBVIOUS
<1>3. Call(at, of, g)
  BY <1>2
<1>4. IsSequence(frames') /\ Len(frames') = Len(frames) + 1 /\ Below /\ frames'[Len(frames)] = f /\ frames'[Len(frames) + 1] = g
  BY <1>1, <1>2, <1>3, AfterCall
<1>5. f.fn = "document" /\ f.at = at /\ f.of = of /\ g.fn = fn /\ result' = result
  BY <1>2, <1>3 DEF Frame, Call
<1>6. Shaped(f, Len(types)) /\ Waits(f, g.fn) /\ Placed(1, f.fn, f.at)
  BY <1>5 DEF Shaped, Waits, Placed, TypeKinds
<1>7. Shaped(g, Len(types)) /\ Got(g, result', Len(types)) /\ Placed(Len(frames) + 1, g.fn, frames'[1].at)
  BY <1>2, <1>4, <1>5
<1>8. StackOk(frames', result', Len(types))
  BY <1>1, <1>4, <1>5, <1>6, <1>7, StackCall
<1> QED
  BY <1>2, <1>4, <1>5, <1>8

LEMMA DefinitionBegins ==
    ASSUME NEW fn \in PrimaryTokens, NEW about, NEW n, NEW r
    PROVE  Shaped(Frame(fn, "begin", about), n) /\ Got(Frame(fn, "begin", about), r, n)
<1>1. PICK f : f = Frame(fn, "begin", about)
  OBVIOUS
<1>2. f.fn = fn /\ f.at = "begin"
  BY <1>1 DEF Frame
<1>3. Shaped(f, n) /\ Got(f, r, n)
  BY <1>2 DEF Shaped, Got, PrimaryTokens, TypeKinds
<1> QED
  BY <1>1, <1>3

\* What the constructor finds between two calls.
LEMMA InDocument ==
    ASSUME ReadInv, NEW at, In("document", at)
    PROVE  /\ Len(types) \in Nat /\ StackInv /\ DeclarationsInv /\ Len(frames) = 1 /\ Phase = at
           /\ Top = frames[1] /\ \A k \in DOMAIN declarations : ~ Unfinished(declarations[k])
<1>1. Len(types) \in Nat /\ StackInv /\ DeclarationsInv /\ Len(frames) = 1 /\ Phase = at /\ Top = frames[Len(frames)]
  BY TypesAreSequence, TopPlace DEF ReadInv
<1>2. \A k \in DOMAIN declarations : ~ Unfinished(declarations[k])
  BY <1>1 DEF DeclarationsInv
<1> QED
  BY <1>1, <1>2

LEMMA ParseDocumentKeepsReadInv ==
    ASSUME ReadInv, ParseDocument
    PROVE  ReadInv'
<1>1. PICK at : In("document", at) /\ outcome' = outcome /\ UNCHANGED <<types, declarations, directives, directive_definitions>>
  BY DEF ParseDocument, parse_primary_token, end_definition, Report, schemaVars, declarationVars, directiveVars
<1>2. /\ Len(types) \in Nat /\ StackInv /\ DeclarationsInv /\ Len(frames) = 1
      /\ \A k \in DOMAIN declarations : ~ Unfinished(declarations[k])
  BY <1>1, InDocument
<1>3. DeclarationsInv' /\ TypesRead' /\ Len(types') = Len(types)
  BY <1>1, <1>2, SameDeclarations, SameTypes DEF ReadInv
<1>4. DirectivesRead'
  BY <1>1, <1>3 DEF DirectivesRead, ReadInv
<1>5. StackOk(frames', result', Len(types)) /\ frames'[1].at \in ReadPhases
  <2>1. CASE UNCHANGED <<frames, result>>
    BY <2>1 DEF ReadInv, StackInv, Phase
  <2>2. CASE Goto("begin", 0)
    BY <1>2, <2>2, GotoAlone DEF ReadPhases
  <2>3. ASSUME NEW fn \in PrimaryTokens, Call("parsed", 0, Frame(fn, "begin", <<>>))
        PROVE  StackOk(frames', result', Len(types)) /\ frames'[1].at \in ReadPhases
    <3>1. Placed(2, fn, "parsed")
      BY DEF Placed
    <3>2. Shaped(Frame(fn, "begin", <<>>), Len(types)) /\ Got(Frame(fn, "begin", <<>>), result, Len(types))
      BY DefinitionBegins
    <3> QED
      BY <1>2, <2>3, <3>1, <3>2, CallAlone DEF ReadPhases
  <2>4. \/ UNCHANGED <<frames, result>>
        \/ Goto("begin", 0)
        \/ \E fn \in PrimaryTokens : Call("parsed", 0, Frame(fn, "begin", <<>>))
    BY DEF ParseDocument, parse_primary_token, end_definition
  <2> QED
    BY <2>1, <2>2, <2>3, <2>4
<1> QED
  BY <1>1, <1>3, <1>4, <1>5 DEF ReadInv, StackInv, Phase

-----------------------------------------------------------------------------
(* The checks: what was read does not change any more *)

LEMMA SameSymbols ==
    ASSUME declarations' = declarations
    PROVE  /\ Symbols' = Symbols
           /\ \A name : Named(name)' = Named(name)
           /\ \A name : Symbol(name)' = Symbol(name)
<1>1. Symbols' = Symbols
  BY DEF Symbols
<1>2. \A name : Named(name)' = Named(name)
  BY DEF Named
<1>3. \A name : Symbol(name)' = Symbol(name)
  BY <1>2 DEF Symbol
<1> QED
  BY <1>1, <1>2, <1>3

LEMMA SameReferenceFits ==
    ASSUME declarations' = declarations, NEW t
    PROVE  ReferenceFits(t)' <=> ReferenceFits(t)
BY SameSymbols DEF ReferenceFits

LEMMA SameImplements ==
    ASSUME UNCHANGED <<declarations, types>>
    PROVE  /\ \A object, name : Implements(object, name)' <=> Implements(object, name)
           /\ \A of : InterfaceSeen(of)' <=> InterfaceSeen(of)
           /\ \A name : IsMember(name)' <=> IsMember(name)
<1>1. \A name : (IsInterface(name)' <=> IsInterface(name)) /\ Symbol(name)' = Symbol(name)
  BY SameSymbols DEF IsInterface
<1>2. \A a, b, f : FieldProblem(a, b, f)' = FieldProblem(a, b, f)
  BY DEF FieldProblem
<1>3. \A object, name : Implements(object, name)' <=> Implements(object, name)
  BY <1>1, <1>2 DEF Implements
<1>4. \A of : InterfaceSeen(of)' <=> InterfaceSeen(of)
  BY <1>1, <1>2 DEF InterfaceSeen, Alike
<1>5. \A name : IsMember(name)' <=> IsMember(name)
  BY SameSymbols DEF IsMember
<1> QED
  BY <1>3, <1>4, <1>5

\* All that is read is complete.
LEMMA NothingLeft ==
    ASSUME StackInv, DeclarationsInv, Phase \notin ReadPhases
    PROVE  \A k \in DOMAIN declarations : ~ Unfinished(declarations[k])
<1>1. Len(frames) \in Nat /\ DOMAIN frames = 1 .. Len(frames)
  BY SequenceLength DEF StackInv, StackOk
<1>2. CASE Len(frames) > 1
  <2>1. 2 \in DOMAIN frames
    BY <1>1, <1>2
  <2>2. Placed(2, frames[2].fn, Phase)
    BY <2>1 DEF StackInv, StackOk, Phase
  <2>3. frames[2].fn \in {"recursive", "directive_arguments"}
    BY <2>2 DEF Placed, ReadPhases
  <2>4. \A k : ~ Builds(frames[2], k)
    BY <2>3 DEF Builds
  <2> QED
    BY <2>4 DEF DeclarationsInv
<1>3. CASE ~ (Len(frames) > 1)
  BY <1>3 DEF DeclarationsInv
<1> QED
  BY <1>2, <1>3

\* Once everything is read, the stack says nothing about the declarations.
LEMMA DeclarationsStay ==
    ASSUME StackInv, DeclarationsInv, Phase \notin ReadPhases, declarations' = declarations
    PROVE  DeclarationsInv'
BY NothingLeft, SameDeclarations

\* The program ends, or nothing happens.
LEMMA SameStateKeepsInv ==
    ASSUME SchemaInv, outcome' = "done" => outcome = "done", UNCHANGED <<frames, result, schemaVars, root>>
    PROVE  SchemaInv'
<1>1. /\ outcome' = "done" => outcome = "done"
      /\ UNCHANGED <<frames, result, types, declarations, directives, directive_definitions, root>>
  BY DEF schemaVars, declarationVars, directiveVars
<1>2. StackInv' /\ DeclarationsInv' /\ RootInv'
  BY <1>1 DEF SchemaInv, StackInv, DeclarationsInv, RootInv, Phase
<1>3. TypesInv'
  BY <1>1, SameReferenceFits DEF SchemaInv, TypesInv, TypeFits, Referenced, Phase
<1>4. DirectivesInv'
  <2>1. \A t : StrictAgain(t)' <=> StrictAgain(t)
    BY <1>1 DEF StrictAgain, Strict
  <2>2. \A i, a : Pending(i, a)' <=> Pending(i, a)
    BY <1>1 DEF Pending
  <2>3. \A i : DirectiveFits(i)' <=> DirectiveFits(i)
    BY <1>1, <2>1, <2>2 DEF DirectiveFits
  <2> QED
    BY <1>1, <2>3 DEF SchemaInv, DirectivesInv, Phase
<1>5. ImplementationsInv'
  <2>1. \A k, name : Covered(k, name)' <=> Covered(k, name)
    BY <1>1 DEF Covered, Phase
  <2> QED
    BY <1>1, <2>1, SameImplements DEF SchemaInv, ImplementationsInv, Phase
<1>6. UnionsInv'
  BY <1>1, SameImplements DEF SchemaInv, UnionsInv, Phase
<1> QED
  BY <1>1, <1>2, <1>3, <1>4, <1>5, <1>6 DEF SchemaInv, Phase

LEMMA StopKeepsInv ==
    ASSUME SchemaInv, NEW how, how # "done", Stop(how), UNCHANGED <<schemaVars, root>>
    PROVE  SchemaInv'
BY SameStateKeepsInv DEF Stop

-----------------------------------------------------------------------------
(* set_root_types *)

LEMMA NamedNumbers ==
    ASSUME IsSequence(declarations), NEW name
    PROVE  /\ Named(name) \in SUBSET Nat /\ 0 \notin Named(name)
           /\ name \in Symbols <=> Named(name) # {}
           /\ name \in Symbols => Min(Named(name)) \in Named(name) /\ \A y \in Named(name) : Min(Named(name)) <= y
<1>1. DOMAIN declarations = 1 .. Len(declarations) /\ Len(declarations) \in Nat
  BY SequenceLength
<1>2. Named(name) \in SUBSET Nat /\ 0 \notin Named(name)
  BY <1>1 DEF Named
<1>3. name \in Symbols <=> Named(name) # {}
  BY DEF Named, Symbols
<1> QED
  BY <1>2, <1>3, MinIsLeast

\* The part of the invariant while references are looked at.
ReferencesPhase ==
    StackInv /\ DeclarationsInv /\ TypesInv /\ RootInv /\ DirectivesRead /\ outcome # "done" /\ Phase = "references"

LEMMA ReferencesPhaseIsSchemaInv ==
    /\ Phase = "references" /\ SchemaInv => ReferencesPhase
    /\ ReferencesPhase => SchemaInv
<1>1. Phase = "references" => Phase \notin FitPhases /\ Phase # "directives" /\ Phase # "unions"
                              /\ Phase # "implementations" /\ Phase # "interface"
  BY DEF FitPhases
<1>2. Phase = "references" => (DirectivesInv <=> DirectivesRead)
  BY <1>1 DEF DirectivesInv, DirectivesRead
<1>3. Phase = "references" => ImplementationsInv /\ UnionsInv
  BY <1>1 DEF ImplementationsInv, UnionsInv, Covered
<1> QED
  BY <1>1, <1>2, <1>3 DEF SchemaInv, ReferencesPhase

LEMMA ReferencesPhaseNext == ReferencesPhase' => SchemaInv'
BY ReferencesPhaseIsSchemaInv, PTL

LEMMA ReadInvNext == ReadInv' => SchemaInv'
BY ReadInvIsSchemaInv, PTL

LEMMA RootTypesSet ==
    ASSUME ReadInv, Clean, set_root_types
    PROVE  SchemaInv'
<1>1. /\ In("document", "begin") /\ Goto("references", 1) /\ outcome' = outcome
      /\ UNCHANGED <<types, declarations, directives, directive_definitions>>
  BY DEF set_root_types, Report, schemaVars, declarationVars, directiveVars
<1>2. /\ Len(types) \in Nat /\ StackInv /\ DeclarationsInv /\ Len(frames) = 1 /\ Len(frames) \in Nat
      /\ \A k \in DOMAIN declarations : ~ Unfinished(declarations[k])
  BY <1>1, InDocument
<1>3. DeclarationsInv' /\ TypesRead' /\ Len(types') = Len(types)
  BY <1>1, <1>2, SameDeclarations, SameTypes DEF ReadInv
<1>4. DirectivesRead'
  BY <1>1, <1>3 DEF DirectivesRead, ReadInv
<1>5. StackOk(frames', result', Len(types')) /\ frames'[1].at = "references" /\ frames'[1].of = 1
  BY <1>1, <1>2, <1>3, GotoAlone
<1>6. TypesInv'
  <2>1. IsSequence(types) /\ DOMAIN types = 1 .. Len(types)
    BY TypesAreSequence DEF ReadInv, TypesRead
  <2>3. \A j \in DOMAIN types : DOMAIN types[j] = TypeFields /\ (IsReference(types[j]) => types[j].type = "Object")
    BY DEF ReadInv, TypesRead
  <2>4. types' = types /\ IsSequence(types') /\ DOMAIN types' = 1 .. Len(types)
    BY <1>1, <2>1
  <2>5. Phase' = "references" /\ frames'[1].of = 1 /\ Phase' \notin FitPhases
    BY <1>5 DEF Phase, FitPhases
  <2>6. ASSUME NEW j \in DOMAIN types'
        PROVE  DOMAIN types'[j] = TypeFields /\ TypeFits(j)'
    <3>1. ~ Referenced(j)'
      BY <1>2, <2>4, <2>5 DEF Referenced
    <3>2. DOMAIN types'[j] = TypeFields /\ (IsReference(types'[j]) => types'[j].type = "Object")
      BY <2>3, <2>4
    <3> QED
      BY <3>1, <3>2 DEF TypeFits
  <2> QED
    BY <2>4, <2>5, <2>6 DEF TypesInv
<1>7. root'["query"] # 0
  <2>1. PICK a, b, c, d : /\ a = When(RootName("query") # "" /\ RootName("query") \notin Symbols, "Type_0_is_not_defined")
                          /\ b = When(RootName("query") = "" /\ "Query" \notin Symbols, "No_query_root_operation_type_defined")
                          /\ c = When(RootName("mutation") # "" /\ RootName("mutation") \notin Symbols, "Type_0_is_not_defined")
                          /\ d = When(RootName("subscription") # "" /\ RootName("subscription") \notin Symbols,
                                      "Type_0_is_not_defined")
    OBVIOUS
  <2>2. \E p : Report(p, a \o b \o c \o d)
    BY <2>1 DEF set_root_types
  <2>3. IsSequence(a) /\ IsSequence(b) /\ IsSequence(c) /\ IsSequence(d)
    BY <2>1, WhenIsSequence
  <2>4. IsSequence(a \o b)
    BY <2>3, ConcatSequences
  <2>5. IsSequence(a \o b \o c)
    BY <2>3, <2>4, ConcatSequences
  <2>6. PICK w : w = a \o b \o c \o d
    OBVIOUS
  <2>7. IsSequence(w) /\ \E p : Report(p, w)
    BY <2>2, <2>3, <2>5, <2>6, ConcatSequences
  <2>8. w = <<>>
    BY <2>7, MessagesReported DEF Clean
  <2>9. a = <<>> /\ b = <<>>
    BY <2>3, <2>4, <2>5, <2>6, <2>8, ConcatSequences
  <2>10. ~ (RootName("query") # "" /\ RootName("query") \notin Symbols) /\ ~ (RootName("query") = "" /\ "Query" \notin Symbols)
    BY <2>1, <2>9, WhenIsSequence
  <2>11. RootType("query") \in Symbols
    BY <2>10 DEF RootType, DefaultName
  <2>12. root'["query"] = Min(Named(RootType("query")))
    BY <2>11 DEF set_root_types, RootFields
  <2>13. PICK name : name = RootType("query")
    OBVIOUS
  <2>14. Min(Named(name)) \in Named(name) /\ 0 \notin Named(name)
    BY <1>2, <2>11, <2>13, NamedNumbers DEF DeclarationsInv
  <2> QED
    BY <2>12, <2>13, <2>14
<1>8. ReferencesPhase'
  BY <1>1, <1>3, <1>4, <1>5, <1>6, <1>7 DEF ReferencesPhase, StackInv, RootInv, Phase, ReadInv
<1> QED
  BY <1>8, ReferencesPhaseNext

-----------------------------------------------------------------------------
(* check_forward_references and check_recursive_directives *)

LEMMA InReferences ==
    ASSUME SchemaInv, NEW fn, NEW at, In(fn, at), fn = "recursive" \/ (fn = "document" /\ at = "references")
    PROVE  /\ ReferencesPhase /\ Phase = "references" /\ Phase \notin ReadPhases
           /\ Len(types) \in Nat /\ DOMAIN types = 1 .. Len(types)
           /\ StackOk(frames, result, Len(types)) /\ StackInv /\ IsSequence(frames) /\ Len(frames) \in Nat /\ Len(frames) > 0
           /\ Top = frames[Len(frames)] /\ frames[Len(frames)].fn = fn /\ outcome = "running"
           /\ fn = "recursive" => Len(frames) > 1
           /\ fn = "document" => Len(frames) = 1
<1>1. StackInv /\ IsSequence(types)
  BY DEF SchemaInv, TypesInv
<1>2. Phase = "references" /\ (fn = "recursive" => Len(frames) > 1) /\ (fn = "document" => Len(frames) = 1)
      /\ Top = frames[Len(frames)] /\ frames[Len(frames)].fn = fn /\ outcome = "running"
      /\ IsSequence(frames) /\ Len(frames) \in Nat /\ Len(frames) > 0
  BY <1>1, TopPlace
<1>3. Len(types) \in Nat /\ DOMAIN types = 1 .. Len(types)
  BY <1>1, SequenceLength
<1> QED
  BY <1>1, <1>2, <1>3, ReferencesPhaseIsSchemaInv DEF ReadPhases, StackInv

\* A step above the constructor.
LEMMA ReferencesStep ==
    ASSUME ReferencesPhase, StackOk(frames', result', Len(types)), frames'[1] = frames[1], outcome' = outcome,
           UNCHANGED <<schemaVars, root>>
    PROVE  SchemaInv'
<1>1. UNCHANGED <<types, declarations, directives, directive_definitions, root>>
  BY DEF schemaVars, declarationVars, directiveVars
<1>2. Phase' = Phase /\ Phase = "references" /\ Phase \notin ReadPhases
  BY DEF Phase, ReferencesPhase, ReadPhases
<1>3. DeclarationsInv'
  BY <1>1, <1>2, DeclarationsStay DEF ReferencesPhase
<1>4. TypesInv'
  BY <1>1, <1>2, SameReferenceFits DEF ReferencesPhase, TypesInv, TypeFits, Referenced
<1>5. StackInv' /\ RootInv' /\ DirectivesRead'
  BY <1>1, <1>2 DEF ReferencesPhase, StackInv, RootInv, DirectivesRead
<1>6. ReferencesPhase'
  BY <1>2, <1>3, <1>4, <1>5 DEF ReferencesPhase
<1> QED
  BY <1>6, ReferencesPhaseNext

\* check_recursive_directives has nothing that anyone relies on.
LEMMA RecursiveFrames ==
    ASSUME NEW at, NEW of, NEW n, NEW r
    PROVE  /\ Shaped(Frame("recursive", at, of), n) /\ Got(Frame("recursive", at, of), r, n)
           /\ \A callee : Waits(Frame("recursive", at, of), callee)
<1>1. PICK f : f = Frame("recursive", at, of)
  OBVIOUS
<1>2. f.fn = "recursive"
  BY <1>1 DEF Frame
<1>3. Shaped(f, n) /\ Got(f, r, n) /\ \A callee : Waits(f, callee)
  BY <1>2 DEF Shaped, Got, Waits, TypeKinds
<1> QED
  BY <1>1, <1>3

RecursiveStep ==
    \/ \E at, of : Goto(at, of)
    \/ \E at, of, about : Call(at, of, Frame("recursive", "begin", about))
    \/ \E value : Return(value)

LEMMA RecursiveKept ==
    ASSUME SchemaInv, NEW at, In("recursive", at), RecursiveStep, outcome' = outcome, UNCHANGED <<schemaVars, root>>
    PROVE  SchemaInv'
<1>1. /\ ReferencesPhase /\ Phase = "references" /\ Len(types) \in Nat /\ StackInv /\ Len(frames) \in Nat
      /\ Len(frames) > 1 /\ frames[Len(frames)].fn = "recursive"
  BY InReferences
<1>2. ASSUME NEW to, NEW of, Goto(to, of) PROVE Kept
  BY <1>1, <1>2, RecursiveFrames, GotoKept
<1>3. ASSUME NEW to, NEW of, NEW about, Call(to, of, Frame("recursive", "begin", about)) PROVE Kept
  <2>1. Placed(Len(frames) + 1, "recursive", Phase)
    BY <1>1 DEF Placed
  <2> QED
    BY <1>1, <1>3, <2>1, RecursiveFrames, CallKept
<1>4. ASSUME NEW value, Return(value) PROVE Kept
  BY <1>1, <1>4, OthersReturn, ReturnKept
<1>5. Kept
  BY <1>2, <1>3, <1>4 DEF RecursiveStep
<1>6. frames'[1] = frames[1] /\ StackOk(frames', result', Len(types))
  BY <1>1, <1>5 DEF Kept, Below
<1> QED
  BY <1>1, <1>6, ReferencesStep

LEMMA RecursiveChecked ==
    ASSUME SchemaInv, check_recursive_type \/ check_recursive_value \/ check_recursive_field \/ end_recursive_type
    PROVE  SchemaInv'
<1>1. (\E at : In("recursive", at)) /\ UNCHANGED <<schemaVars, root>>
  BY DEF check_recursive_type, check_recursive_value, check_recursive_field, end_recursive_type
<1>2. CASE Stop("undefined") \/ Stop("overflow")
  BY <1>1, <1>2, StopKeepsInv
<1>3. CASE ~ Stop("undefined") /\ ~ Stop("overflow")
  <2>1. ASSUME check_recursive_type PROVE RecursiveStep /\ outcome' = outcome
    BY <1>3, <2>1 DEF check_recursive_type, Undefined, Report, RecursiveStep
  <2>2. ASSUME check_recursive_value PROVE RecursiveStep /\ outcome' = outcome
    BY <2>2 DEF check_recursive_value, Report, RecursiveStep
  <2>3. ASSUME check_recursive_field PROVE RecursiveStep /\ outcome' = outcome
    BY <1>3, <2>3 DEF check_recursive_field, CallRecursive, Report, RecursiveStep
  <2>4. ASSUME end_recursive_type PROVE RecursiveStep /\ outcome' = outcome
    BY <2>4 DEF end_recursive_type, RecursiveStep
  <2>5. RecursiveStep /\ outcome' = outcome
    BY <2>1, <2>2, <2>3, <2>4
  <2> QED
    BY <1>1, <2>5, RecursiveKept
<1> QED
  BY <1>2, <1>3

\* The types, when references from o on are left.
FitsBefore(j, o) ==
    IsReference(types[j]) => (j < o => ReferenceFits(types[j])) /\ (~ (j < o) => types[j].type = "Object")
TypesBefore(o) ==
    /\ IsSequence(types) /\ o \in Nat \ {0}
    /\ \A j \in DOMAIN types : DOMAIN types[j] = TypeFields /\ FitsBefore(j, o)

LEMMA TypesInReferences == Phase = "references" => (TypesInv <=> TypesBefore(frames[1].of))
BY DEF TypesInv, TypesBefore, TypeFits, FitsBefore, Referenced, FitPhases

LEMMA TypesInReferencesNext == Phase' = "references" /\ TypesBefore(frames[1].of)' => TypesInv'
BY DEF TypesInv, TypesBefore, TypeFits, FitsBefore, Referenced, FitPhases, Phase

LEMMA ReferencesLeft ==
    ASSUME NEW o \in Nat \ {0}, NEW T, T = References(o)
    PROVE  T \in SUBSET Nat /\ \A j : j \in T <=> j \in o .. Len(types) /\ IsReference(types[j])
<1>1. \A j : j \in T <=> j \in o .. Len(types) /\ IsReference(types[j])
  BY Zenon DEF References, IsReference
<1> QED
  BY <1>1

\* The first reference that is left has its turn.
LEMMA NextReference ==
    ASSUME NEW o, TypesBefore(o), NEW T, T = References(o), T # {}, NEW i, i = Min(T)
    PROVE  /\ i \in DOMAIN types /\ i \in Nat /\ IsReference(types[i]) /\ o <= i
           /\ \A j \in DOMAIN types : j < i /\ IsReference(types[j]) => j < o
<1>1. o \in Nat \ {0} /\ DOMAIN types = 1 .. Len(types) /\ Len(types) \in Nat
  BY SequenceLength DEF TypesBefore
<1>2. T \in SUBSET Nat /\ \A j : j \in T <=> j \in o .. Len(types) /\ IsReference(types[j])
  BY <1>1, ReferencesLeft
<1>3. i \in T /\ \A y \in T : i <= y
  BY <1>2, MinIsLeast
<1>4. i \in DOMAIN types /\ i \in Nat /\ IsReference(types[i]) /\ o <= i
  BY <1>1, <1>2, <1>3
<1>5. ASSUME NEW j \in DOMAIN types, j < i, IsReference(types[j])
      PROVE  j < o
  <2>1. j \notin T
    BY <1>1, <1>3, <1>4, <1>5
  <2> QED
    BY <1>1, <1>2, <1>5, <2>1
<1> QED
  BY <1>4, <1>5

LEMMA NoReferenceLeft ==
    ASSUME NEW o, TypesBefore(o), References(o) = {}
    PROVE  \A j \in DOMAIN types : DOMAIN types[j] = TypeFields /\ (IsReference(types[j]) => ReferenceFits(types[j]))
<1>1. o \in Nat \ {0} /\ DOMAIN types = 1 .. Len(types) /\ Len(types) \in Nat
  BY SequenceLength DEF TypesBefore
<1>2. \A j \in DOMAIN types : IsReference(types[j]) => j < o
  BY <1>1, ReferencesLeft
<1> QED
  BY <1>2 DEF TypesBefore, FitsBefore

LEMMA TypeExceptEnum ==
    ASSUME NEW t, DOMAIN t = TypeFields, NEW u, u = [t EXCEPT !.type = "Enum"]
    PROVE  /\ DOMAIN u = TypeFields /\ u.type = "Enum"
           /\ u.name = t.name /\ u.in_input_location = t.in_input_location
BY Zenon DEF TypeFields

LEMMA ForwardReferenceFits ==
    ASSUME NEW t, t.name \in Symbols, t.type = "Object", NEW u, u.name = t.name, u.in_input_location = t.in_input_location,
           Symbol(t.name).kind = "input" => t.in_input_location,
           Symbol(t.name).kind \in {"type", "interface", "union"} => ~ t.in_input_location,
           IF Symbol(t.name).kind = "enum" THEN u.type = "Enum" ELSE u.type = t.type
    PROVE  ReferenceFits(u)
BY DEF ReferenceFits

LEMMA ForwardReferenceChecked ==
    ASSUME SchemaInv, Clean, check_forward_reference
    PROVE  SchemaInv'
<1>1. In("document", "references") /\ References(Top.of) # {}
  BY DEF check_forward_reference
<1>2. /\ ReferencesPhase /\ Phase = "references" /\ Phase \notin ReadPhases /\ Len(types) \in Nat
      /\ DOMAIN types = 1 .. Len(types) /\ StackInv /\ Len(frames) = 1 /\ Len(frames) \in Nat /\ Top = frames[1]
  BY <1>1, InReferences
<1>0. PICK o, T : o = Top.of /\ T = References(Top.of)
  OBVIOUS
<1>3. PICK i, name, kind : i = Min(References(Top.of)) /\ name = types[i].name /\ kind = Symbol(types[i].name).kind
  OBVIOUS
<1>4. TypesBefore(o)
  BY <1>0, <1>2, TypesInReferences DEF ReferencesPhase
<1>23. T = References(o) /\ T # {} /\ i = Min(T)
  BY <1>0, <1>1, <1>3
<1>24. /\ i \in DOMAIN types /\ i \in Nat /\ IsReference(types[i]) /\ o <= i
       /\ \A j \in DOMAIN types : j < i /\ IsReference(types[j]) => j < o
  BY <1>4, <1>23, NextReference
<1>5. /\ types' = IF name \in Symbols /\ kind = "enum" THEN [types EXCEPT ![i].type = "Enum"] ELSE types
      /\ \E p : Report(p, IF name \notin Symbols THEN <<"Type_0_is_not_defined">>
                          ELSE When(kind = "input" /\ ~ types[i].in_input_location,
                                    "Cannot_add_an_input_type_to_an_output_location") \o
                               When(kind \in {"type", "interface", "union"} /\ types[i].in_input_location,
                                    "Cannot_add_an_output_type_to_an_input_location"))
      /\ \/ \E about : Call("references", i + 1, Frame("recursive", "begin", about))
         \/ Goto("references", i + 1)
      /\ UNCHANGED <<parsedVars, root>>
  BY <1>3 DEF check_forward_reference, CallRecursive
<1>6. name \in Symbols
  BY <1>5, ReportOne DEF Clean
<1>7. /\ ~ (kind = "input" /\ ~ types[i].in_input_location)
      /\ ~ (kind \in {"type", "interface", "union"} /\ types[i].in_input_location)
  BY <1>5, <1>6, ReportTwo DEF Clean
<1>8. PICK u : u = IF kind = "enum" THEN [types[i] EXCEPT !.type = "Enum"] ELSE types[i]
  OBVIOUS
<1>9. types' = [types EXCEPT ![i] = u]
  <2>1. CASE kind = "enum"
    BY <1>5, <1>6, <1>8, <2>1
  <2>2. CASE kind # "enum"
    <3>1. types' = types /\ u = types[i]
      BY <1>5, <1>8, <2>2
    <3>2. types = [j \in DOMAIN types |-> types[j]]
      BY <1>2, SequenceLength DEF ReferencesPhase, TypesInv, IsSequence
    <3> QED
      BY <3>1, <3>2
  <2> QED
    BY <2>1, <2>2
<1>10. DOMAIN types[i] = TypeFields /\ types[i].type = "Object"
  <2>1. o \in Nat \ {0} /\ FitsBefore(i, o) /\ DOMAIN types[i] = TypeFields
    BY <1>4, <1>24 DEF TypesBefore
  <2>2. ~ (i < o)
    BY <1>24, <2>1
  <2> QED
    BY <1>24, <2>1, <2>2 DEF FitsBefore
<1>11. /\ DOMAIN u = TypeFields /\ u.name = name /\ u.in_input_location = types[i].in_input_location
       /\ IF kind = "enum" THEN u.type = "Enum" ELSE u.type = types[i].type
  <2>1. CASE kind = "enum"
    BY <1>3, <1>8, <1>10, <2>1, TypeExceptEnum
  <2>2. CASE kind # "enum"
    BY <1>3, <1>8, <1>10, <2>2
  <2> QED
    BY <2>1, <2>2
<1>12. ReferenceFits(u)
  BY <1>3, <1>6, <1>7, <1>10, <1>11, ForwardReferenceFits
<1>13. /\ IsSequence(types') /\ Len(types') = Len(types) /\ DOMAIN types' = DOMAIN types
       /\ \A j \in DOMAIN types : types'[j] = IF j = i THEN u ELSE types[j]
  <2>1. PICK t : t = types'
    OBVIOUS
  <2>2. t = [types EXCEPT ![i] = u] /\ IsSequence(types)
    BY <1>4, <1>9, <2>1 DEF TypesBefore
  <2>3. /\ IsSequence(t) /\ Len(t) = Len(types) /\ DOMAIN t = DOMAIN types
        /\ \A j \in DOMAIN types : t[j] = IF j = i THEN u ELSE types[j]
    BY <2>2, SequenceExcept
  <2> QED
    BY <2>1, <2>3
<1>14. declarations' = declarations /\ UNCHANGED <<directives, directive_definitions, root>> /\ outcome' = outcome
  BY <1>5 DEF parsedVars, directiveVars, Report
<1>15. StackOk(frames', result', Len(types)) /\ frames'[1].at = "references" /\ frames'[1].of = i + 1
  <2>1. CASE Goto("references", i + 1)
    BY <1>2, <2>1, GotoAlone
  <2>2. ASSUME NEW about, Call("references", i + 1, Frame("recursive", "begin", about))
        PROVE  StackOk(frames', result', Len(types)) /\ frames'[1].at = "references" /\ frames'[1].of = i + 1
    <3>1. Placed(2, "recursive", "references")
      BY DEF Placed
    <3> QED
      BY <1>2, <2>2, <3>1, RecursiveFrames, CallAlone
  <2> QED
    BY <1>5, <2>1, <2>2
<1>16. Phase' = "references" /\ o \in Nat \ {0}
  BY <1>4, <1>15 DEF Phase, TypesBefore
<1>17. ASSUME NEW j \in DOMAIN types'
       PROVE  DOMAIN types'[j] = TypeFields /\ FitsBefore(j, i + 1)'
  <2>1. j \in DOMAIN types /\ j \in Nat
    BY <1>2, <1>13
  <2>2. CASE j = i
    <3>1. types'[j] = u /\ ReferenceFits(u)'
      BY <1>12, <1>13, <1>14, <2>1, <2>2, SameReferenceFits
    <3>2. ReferenceFits(types[j])'
      BY <3>1
    <3>3. j < i + 1
      BY <1>24, <2>2
    <3> QED
      BY <1>11, <3>1, <3>2, <3>3 DEF FitsBefore
  <2>3. CASE j # i
    <3>1. types'[j] = types[j]
      BY <1>13, <2>1, <2>3
    <3>2. DOMAIN types[j] = TypeFields /\ FitsBefore(j, o)
      BY <1>4, <2>1 DEF TypesBefore
    <3>3. IsReference(types[j]) => (j < i + 1 => j < o) /\ (~ (j < i + 1) => ~ (j < o))
      BY <1>16, <1>24, <2>1, <2>3
    <3>4. ReferenceFits(types[j])' <=> ReferenceFits(types[j])
      BY <1>14, <3>1, SameReferenceFits
    <3> QED
      BY <3>1, <3>2, <3>3, <3>4 DEF FitsBefore
  <2> QED
    BY <2>2, <2>3
<1>18. TypesInv'
  <2>1. i + 1 \in Nat \ {0}
    BY <1>24
  <2>2. TypesBefore(frames[1].of)'
    BY <1>13, <1>15, <1>17, <2>1 DEF TypesBefore
  <2> QED
    BY <1>16, <2>2, TypesInReferencesNext
<1>19. DeclarationsInv'
  BY <1>2, <1>14, DeclarationsStay DEF ReferencesPhase
<1>20. RootInv' /\ DirectivesRead'
  BY <1>2, <1>13, <1>14 DEF ReferencesPhase, RootInv, DirectivesRead
<1>21. StackInv'
  BY <1>13, <1>15 DEF StackInv
<1>22. ReferencesPhase'
  BY <1>2, <1>14, <1>16, <1>18, <1>19, <1>20, <1>21 DEF ReferencesPhase
<1> QED
  BY <1>22, ReferencesPhaseNext

-----------------------------------------------------------------------------
(* check_directive_references *)

\* Every reference was looked at.
TypesChecked ==
    /\ IsSequence(types)
    /\ \A j \in DOMAIN types : DOMAIN types[j] = TypeFields /\ (IsReference(types[j]) => ReferenceFits(types[j]))

DirectivesPhase ==
    /\ StackInv /\ DeclarationsInv /\ TypesChecked /\ RootInv /\ DirectivesInv
    /\ outcome # "done" /\ Phase = "directives"

LEMMA DirectivesPhaseIsSchemaInv ==
    /\ Phase = "directives" /\ SchemaInv => DirectivesPhase
    /\ DirectivesPhase => SchemaInv
<1>1. Phase = "directives" => Phase \in FitPhases /\ Phase # "references" /\ Phase # "unions"
                              /\ Phase # "implementations" /\ Phase # "interface"
  BY DEF FitPhases
<1>2. Phase = "directives" => (TypesInv <=> TypesChecked)
  BY <1>1 DEF TypesInv, TypeFits, TypesChecked, Referenced
<1>3. Phase = "directives" => ImplementationsInv /\ UnionsInv
  BY <1>1 DEF ImplementationsInv, UnionsInv, Covered
<1> QED
  BY <1>1, <1>2, <1>3 DEF SchemaInv, DirectivesPhase

LEMMA DirectivesPhaseNext == DirectivesPhase' => SchemaInv'
BY DirectivesPhaseIsSchemaInv, PTL

\* What no step of this phase changes.
SameDirectives == outcome' = outcome /\ UNCHANGED <<declarations, directives, directive_definitions, root>>

LEMMA SchemaVarsSame ==
    ASSUME UNCHANGED <<schemaVars, root>>
    PROVE  types' = types /\ UNCHANGED <<declarations, directives, directive_definitions, root>>
BY DEF schemaVars, declarationVars, directiveVars

LEMMA DirectivesPhaseStays ==
    ASSUME StackInv, DeclarationsInv, RootInv, Phase \notin ReadPhases, outcome # "done", SameDirectives,
           StackOk(frames', result', Len(types)), Len(types') = Len(types),
           frames'[1].at = "directives", TypesChecked', DirectivesInv'
    PROVE  SchemaInv'
<1>1. DeclarationsInv'
  BY DeclarationsStay DEF SameDirectives
<1>2. StackInv' /\ Phase' = "directives" /\ RootInv' /\ outcome' # "done"
  BY DEF StackInv, Phase, RootInv, SameDirectives
<1>3. DirectivesPhase'
  BY <1>1, <1>2 DEF DirectivesPhase
<1> QED
  BY <1>3, DirectivesPhaseNext

LEMMA ForwardReferencesEnd ==
    ASSUME SchemaInv, end_forward_references
    PROVE  SchemaInv'
<1>1. In("document", "references") /\ References(Top.of) = {} /\ Goto("directives", 1)
      /\ outcome' = outcome /\ UNCHANGED <<schemaVars, root>>
  BY DEF end_forward_references
<1>2. /\ ReferencesPhase /\ Phase = "references" /\ Phase \notin ReadPhases /\ StackInv
      /\ Len(frames) = 1 /\ Len(frames) \in Nat /\ Top = frames[1]
  BY <1>1, InReferences
<1>3. types' = types /\ SameDirectives
  BY <1>1, SchemaVarsSame DEF SameDirectives
<1>4. TypesBefore(Top.of)
  BY <1>2, TypesInReferences DEF ReferencesPhase
<1>5. \A j \in DOMAIN types : DOMAIN types[j] = TypeFields /\ (IsReference(types[j]) => ReferenceFits(types[j]))
  BY <1>1, <1>4, NoReferenceLeft
<1>6. TypesChecked'
  BY <1>3, <1>4, <1>5, SameReferenceFits DEF TypesChecked, TypesBefore, SameDirectives
<1>7. StackOk(frames', result', Len(types)) /\ Len(frames') = 1 /\ frames'[1].at = "directives" /\ frames'[1].of = 1
  BY <1>1, <1>2, GotoAlone
<1>8. DirectivesInv'
  <2>1. DirectivesRead /\ IsSequence(directives) /\ DOMAIN directives = 1 .. Len(directives) /\ Len(directives) \in Nat
    BY <1>2, SequenceLength DEF ReferencesPhase, DirectivesRead
  <2>2. \A i \in DOMAIN directives : ~ (i < 1)
    BY <2>1
  <2>3. ~ (Len(frames') > 1) /\ 1 \in Nat \ {0}
    BY <1>7
  <2> QED
    BY <1>3, <1>7, <2>1, <2>2, <2>3 DEF DirectivesInv, DirectivesRead, Phase, SameDirectives
<1> QED
  BY <1>2, <1>3, <1>6, <1>7, <1>8, DirectivesPhaseStays DEF ReferencesPhase

\* A directive that was right stays so.
LEMMA DirectiveStillFits ==
    ASSUME UNCHANGED <<directives, directive_definitions>>, NEW i, DirectiveFits(i),
           \A a \in DOMAIN directive_definitions[directives[i].name].arguments :
               LET t == directive_definitions[directives[i].name].arguments[a]
               IN  ~ Pending(i, a)' /\ StrictAgain(t)' =>
                       (~ Pending(i, a) /\ StrictAgain(t)) \/ a \in DOMAIN directives[i].arguments
    PROVE  DirectiveFits(i)'
BY DEF DirectiveFits

\* Nothing is saved while no value is looked at.
LEMMA NothingSaved ==
    ASSUME IsSequence(frames), Len(frames) \in {1, 2}, frames[1].fn = "document",
           Len(frames) = 2 => frames[2].fn = "directive_arguments"
    PROVE  \A t : StrictAgain(t) <=> Strict(t)
<1>1. DOMAIN frames = 1 .. Len(frames)
  BY SequenceLength
<1>2. \A k \in DOMAIN frames : frames[k].fn # "check_value"
  BY <1>1
<1> QED
  BY <1>2 DEF StrictAgain, Saves

LEMMA InDirectives ==
    ASSUME SchemaInv, NEW fn, NEW at, In(fn, at),
           fn \in {"directive_arguments", "check_value"} \/ (fn = "document" /\ at = "directives")
    PROVE  /\ DirectivesPhase /\ Phase = "directives" /\ Phase \notin ReadPhases /\ outcome # "done"
           /\ Len(types) \in Nat /\ DOMAIN types = 1 .. Len(types) /\ TypesChecked
           /\ StackOk(frames, result, Len(types)) /\ StackInv /\ DeclarationsInv /\ RootInv /\ DirectivesInv
           /\ IsSequence(frames) /\ Len(frames) \in Nat /\ Len(frames) > 0
           /\ Top = frames[Len(frames)] /\ frames[Len(frames)].fn = fn /\ Top.at = at /\ frames[1].fn = "document"
           /\ fn = "document" => Len(frames) = 1
           /\ fn = "directive_arguments" => Len(frames) = 2
           /\ fn = "check_value" => Len(frames) > 2
           /\ Shaped(Top, Len(types))
<1>1. StackInv /\ IsSequence(types) /\ DeclarationsInv /\ RootInv
  BY DEF SchemaInv, TypesInv
<1>2. /\ Phase = "directives" /\ (fn = "document" => Len(frames) = 1)
      /\ (fn = "directive_arguments" => Len(frames) = 2) /\ (fn = "check_value" => Len(frames) > 2)
      /\ Top = frames[Len(frames)] /\ frames[Len(frames)].fn = fn /\ Top.at = at /\ outcome = "running"
      /\ IsSequence(frames) /\ Len(frames) \in Nat /\ Len(frames) > 0 /\ DOMAIN frames = 1 .. Len(frames)
      /\ Shaped(Top, Len(types))
  BY <1>1, TopPlace
<1>3. Len(types) \in Nat /\ DOMAIN types = 1 .. Len(types)
  BY <1>1, SequenceLength
<1>4. frames[1].fn = "document"
  BY <1>1, <1>2 DEF StackInv, StackOk, Placed
<1>5. DirectivesPhase
  BY <1>2, DirectivesPhaseIsSchemaInv
<1> QED
  BY <1>1, <1>2, <1>3, <1>4, <1>5 DEF ReadPhases, StackInv, DirectivesPhase

\* check_directive_arguments
LEMMA DirectiveArgumentsFrames ==
    ASSUME NEW at, NEW of, DOMAIN of = CheckOf, at # "begin" => of.names = {}, NEW n, NEW r
    PROVE  /\ Shaped(Frame("directive_arguments", at, of), n) /\ Got(Frame("directive_arguments", at, of), r, n)
           /\ \A callee : Waits(Frame("directive_arguments", at, of), callee)
<1>1. PICK f : f = Frame("directive_arguments", at, of)
  OBVIOUS
<1>2. f.fn = "directive_arguments" /\ f.at = at /\ f.of = of
  BY <1>1 DEF Frame
<1>3. Shaped(f, n) /\ Got(f, r, n) /\ \A callee : Waits(f, callee)
  BY <1>2 DEF Shaped, Got, Waits, TypeKinds
<1> QED
  BY <1>1, <1>3

LEMMA DirectiveReferenceChecked ==
    ASSUME SchemaInv, Clean, check_directive_reference
    PROVE  SchemaInv'
<1>1. PICK o, directive, definition :
          o = Top.of /\ directive = directives[o] /\ definition = directive_definitions[directive.name]
  OBVIOUS
<1>2. PICK of : of = [given |-> directive.arguments, defined |-> definition.arguments,
                      names |-> DOMAIN definition.arguments, checked |-> {}]
  OBVIOUS
<1>3. In("document", "directives") /\ o <= Len(directives) /\ UNCHANGED <<schemaVars, root>>
  BY <1>1 DEF check_directive_reference
<1>4. \/ \E p : Report(p, <<"Undefined_directive_0">>)
      \/ /\ directive.name \in DOMAIN directive_definitions
         /\ \E p, c : Report(p, When(c, "Directive_cannot_reference_itself") \o
                                When(directive.location \notin definition.locations,
                                     "The_directive_0_does_not_support_the_location_1"))
         /\ Call("directives", o + 1, Frame("directive_arguments", "begin", of))
         /\ outcome' = outcome
  BY <1>1, <1>2 DEF check_directive_reference, Report
<1>5. /\ directive.name \in DOMAIN directive_definitions /\ directive.location \in definition.locations
      /\ Call("directives", o + 1, Frame("directive_arguments", "begin", of)) /\ outcome' = outcome
  BY <1>4, ReportOne, ReportTwo DEF Clean
<1>6. /\ DirectivesPhase /\ Phase = "directives" /\ Phase \notin ReadPhases /\ Len(types) \in Nat
      /\ IsSequence(frames) /\ StackInv /\ Len(frames) = 1 /\ Top = frames[1] /\ frames[1].fn = "document"
      /\ DeclarationsInv /\ RootInv /\ DirectivesInv /\ TypesChecked /\ outcome # "done"
  BY <1>3, InDirectives
<1>7. types' = types /\ SameDirectives
  BY <1>3, <1>5, SchemaVarsSame DEF SameDirectives
<1>8. /\ DOMAIN of = CheckOf /\ of.names = DOMAIN definition.arguments
      /\ of.given = directive.arguments /\ of.defined = definition.arguments
  BY <1>2 DEF CheckOf
<1>9. Placed(2, "directive_arguments", "directives")
  BY DEF Placed
<1>10. /\ StackOk(frames', result', Len(types)) /\ Len(frames') = 2
       /\ frames'[1].at = "directives" /\ frames'[1].of = o + 1 /\ frames'[1].fn = "document"
       /\ frames'[2].of = of /\ frames'[2].fn = "directive_arguments"
  <2>1. /\ Shaped(Frame("directive_arguments", "begin", of), Len(types))
        /\ Got(Frame("directive_arguments", "begin", of), result, Len(types))
    BY <1>8, DirectiveArgumentsFrames
  <2>2. /\ StackOk(frames', result', Len(types)) /\ Len(frames') = 2
        /\ frames'[1] = Frame("document", "directives", o + 1)
        /\ frames'[2] = Frame("directive_arguments", "begin", of)
    BY <1>5, <1>6, <1>9, <2>1, CallAlone
  <2> QED
    BY <2>2 DEF Frame
<1>11. TypesChecked'
  BY <1>6, <1>7, SameReferenceFits DEF TypesChecked, SameDirectives
<1>12. /\ o \in Nat \ {0} /\ o \in DOMAIN directives /\ DOMAIN directives = 1 .. Len(directives)
       /\ Len(directives) \in Nat /\ o + 1 \in Nat \ {0} /\ (o + 1) - 1 = o
  <2>1. o \in Nat \ {0} /\ IsSequence(directives)
    BY <1>1, <1>6 DEF DirectivesInv
  <2>2. DOMAIN directives = 1 .. Len(directives) /\ Len(directives) \in Nat
    BY <2>1, SequenceLength
  <2> QED
    BY <1>3, <2>1, <2>2
<1>13. \A t : (StrictAgain(t) <=> Strict(t)) /\ (StrictAgain(t)' <=> StrictAgain(t))
  <2>1. \A t : StrictAgain(t) <=> Strict(t)
    BY <1>6, NothingSaved
  <2>2. \A k \in DOMAIN frames' : frames'[k].fn # "check_value"
    <3>1. DOMAIN frames' = 1 .. 2
      BY <1>10, SequenceLength DEF StackOk
    <3> QED
      BY <1>10, <3>1
  <2>3. \A t : StrictAgain(t)' <=> Strict(t)'
    BY <2>2 DEF StrictAgain, Saves
  <2>4. \A t : Strict(t)' <=> Strict(t)
    BY <1>7 DEF Strict
  <2> QED
    BY <2>1, <2>3, <2>4
<1>14. ASSUME NEW i \in DOMAIN directives, i < o + 1
       PROVE  DirectiveFits(i)'
  <2>1. CASE i = o
    <3>1. \A a \in DOMAIN definition.arguments : Pending(i, a)'
      BY <1>8, <1>10, <1>12, <2>1 DEF Pending
    <3> QED
      BY <1>1, <1>5, <1>7, <2>1, <3>1 DEF DirectiveFits, SameDirectives
  <2>2. CASE i # o
    <3>1. i < o
      BY <1>12, <1>14, <2>2
    <3>2. DirectiveFits(i)
      BY <1>1, <1>6, <3>1 DEF DirectivesInv, FitPhases
    <3>3. \A a : ~ Pending(i, a)
      BY <1>6 DEF Pending
    <3> QED
      BY <1>7, <1>13, <3>2, <3>3, DirectiveStillFits DEF SameDirectives
  <2> QED
    BY <2>1, <2>2
<1>15. DirectivesInv'
  <2>1. IsSequence(directives) /\ \A d \in DOMAIN directive_definitions : Pointers(directive_definitions[d].arguments, Len(types))
    BY <1>6 DEF DirectivesInv
  <2>2. frames'[2].of.given = directives[o].arguments
        /\ frames'[2].of.defined = directive_definitions[directives[o].name].arguments
    BY <1>1, <1>8, <1>10
  <2>3. Phase' = "directives" /\ frames'[1].of = o + 1
    BY <1>10 DEF Phase
  <2> QED
    BY <1>7, <1>12, <1>14, <2>1, <2>2, <2>3 DEF DirectivesInv, SameDirectives
<1> QED
  BY <1>6, <1>7, <1>10, <1>11, <1>15, DirectivesPhaseStays

\* A step of check_directive_arguments itself: the arguments that it is done with
\* are given, or are not required.
LEMMA DirectiveArgumentsStep ==
    ASSUME DirectivesPhase, SameDirectives, types' = types, Len(frames) = 2, frames[1].fn = "document",
           frames[2].fn = "directive_arguments", StackOk(frames', result', Len(types)),
           frames'[1] = frames[1], NEW of, DOMAIN of = CheckOf, Len(frames') > 1, frames'[2].of = of,
           of.given = frames[2].of.given, of.defined = frames[2].of.defined,
           \A k \in DOMAIN frames' : \A t : ~ Saves(frames'[k], t),
           \A a \in frames[2].of.names \ of.names : a \in DOMAIN of.given \/ ~ Strict(of.defined[a])
    PROVE  SchemaInv'
<1>1. /\ StackInv /\ DeclarationsInv /\ RootInv /\ Phase \notin ReadPhases /\ outcome # "done"
      /\ Phase = "directives" /\ frames[1].at = "directives" /\ TypesChecked /\ DirectivesInv
  BY DEF DirectivesPhase, ReadPhases, Phase
<1>2. TypesChecked'
  BY <1>1, SameReferenceFits DEF TypesChecked, SameDirectives
<1>3. IsSequence(frames) /\ Len(frames) \in {1, 2} /\ Len(frames) > 1
  BY <1>1 DEF StackInv, StackOk
<1>4. PICK o : o = frames[1].of
  OBVIOUS
<1>5. /\ o \in Nat \ {0} /\ o - 1 \in DOMAIN directives
      /\ of.given = directives[o - 1].arguments
      /\ of.defined = directive_definitions[directives[o - 1].name].arguments
  BY <1>1, <1>3, <1>4 DEF DirectivesInv
<1>6. \A t : (StrictAgain(t) <=> Strict(t)) /\ (StrictAgain(t)' <=> Strict(t))
  <2>1. \A t : StrictAgain(t) <=> Strict(t)
    BY <1>3, NothingSaved
  <2>2. \A t : StrictAgain(t)' <=> Strict(t)'
    BY DEF StrictAgain
  <2>3. \A t : Strict(t)' <=> Strict(t)
    BY DEF Strict
  <2> QED
    BY <2>1, <2>2, <2>3
<1>7. ASSUME NEW i \in DOMAIN directives, DirectiveFits(i)
      PROVE  DirectiveFits(i)'
  <2>1. CASE i # o - 1
    <3>1. \A a : ~ Pending(i, a)
      BY <1>4, <2>1 DEF Pending
    <3> QED
      BY <1>6, <1>7, <3>1, DirectiveStillFits DEF SameDirectives
  <2>2. CASE i = o - 1
    <3>1. \A a : (Pending(i, a) <=> a \in frames[2].of.names) /\ (Pending(i, a)' <=> a \in of.names)
      BY <1>3, <1>4, <2>2 DEF Pending
    <3>2. ASSUME NEW a \in DOMAIN directive_definitions[directives[i].name].arguments,
                 ~ Pending(i, a)', Strict(directive_definitions[directives[i].name].arguments[a])
          PROVE  ~ Pending(i, a) \/ a \in DOMAIN directives[i].arguments
      BY <1>5, <2>2, <3>1, <3>2
    <3> QED
      BY <1>6, <1>7, <3>2, DirectiveStillFits DEF SameDirectives
  <2> QED
    BY <2>1, <2>2
<1>8. DirectivesInv'
  <2>1. IsSequence(directives) /\ \A d \in DOMAIN directive_definitions : Pointers(directive_definitions[d].arguments, Len(types))
    BY <1>1 DEF DirectivesInv
  <2>2. \A i \in DOMAIN directives : i < o => DirectiveFits(i)
    BY <1>1, <1>4 DEF DirectivesInv, FitPhases
  <2>3. Phase' = "directives" /\ frames'[1].of = o
    BY <1>1, <1>4 DEF Phase
  <2>4. \A i \in DOMAIN directives : i < o => DirectiveFits(i)'
    BY <1>7, <2>2
  <2> QED
    BY <1>5, <2>1, <2>3, <2>4 DEF DirectivesInv, SameDirectives
<1> QED
  BY <1>1, <1>2, <1>8, DirectivesPhaseStays

\* Nothing in a stack without open values saves anything.
LEMMA NoSaves ==
    ASSUME NEW f, f.fn # "check_value" \/ f.at # "list", NEW t
    PROVE  ~ Saves(f, t)
BY DEF Saves

LEMMA FrameSaves ==
    ASSUME NEW fn, NEW at, NEW of, fn # "check_value" \/ at # "list", NEW t
    PROVE  ~ Saves(Frame(fn, at, of), t)
BY DEF Saves, Frame

\* check_value begins.
ValueAbout(value, type) ==
    [value |-> value, type |-> type, items |-> <<>>, checked |-> {}, reported |-> {},
     missing |-> {}, is_non_null_list |-> FALSE]

LEMMA CheckValueFrames ==
    ASSUME NEW at, NEW of, DOMAIN of = ValueOf, NEW n, NEW r
    PROVE  /\ Shaped(Frame("check_value", at, of), n) /\ Got(Frame("check_value", at, of), r, n)
           /\ \A callee : Waits(Frame("check_value", at, of), callee)
<1>1. PICK f : f = Frame("check_value", at, of)
  OBVIOUS
<1>2. f.fn = "check_value" /\ f.at = at /\ f.of = of
  BY <1>1 DEF Frame
<1>3. Shaped(f, n) /\ Got(f, r, n) /\ \A callee : Waits(f, callee)
  BY <1>2 DEF Shaped, Got, Waits, TypeKinds
<1> QED
  BY <1>1, <1>3

LEMMA ValueAboutFields ==
    ASSUME NEW value, NEW type
    PROVE  DOMAIN ValueAbout(value, type) = ValueOf
BY DEF ValueAbout, ValueOf

LEMMA CallsCheckValue ==
    ASSUME NEW at, NEW of, NEW value, NEW type, CallCheckValue(at, of, value, type)
    PROVE  \E about : DOMAIN about = ValueOf /\ Call(at, of, Frame("check_value", "begin", about))
<1>1. Call(at, of, Frame("check_value", "begin", ValueAbout(value, type)))
  BY DEF CallCheckValue, ValueAbout
<1> QED
  BY <1>1, ValueAboutFields

LEMMA CheckOfExcept ==
    ASSUME NEW of, DOMAIN of = CheckOf, NEW name, NEW new, new = [of EXCEPT !.names = @ \ {name}]
    PROVE  DOMAIN new = CheckOf /\ new.given = of.given /\ new.defined = of.defined /\ new.names = of.names \ {name}
BY Zenon DEF CheckOf

LEMMA CheckOfChecked ==
    ASSUME NEW of, DOMAIN of = CheckOf, NEW checked, NEW new, new = [of EXCEPT !.checked = checked]
    PROVE  DOMAIN new = CheckOf /\ new.given = of.given /\ new.defined = of.defined /\ new.names = of.names
BY Zenon DEF CheckOf

\* check_directive_arguments goes on, at the same argument or another one.
LEMMA DirectiveArgumentsGoto ==
    ASSUME SchemaInv, NEW from, In("directive_arguments", from), NEW at, NEW of, Goto(at, of), SameDirectives, types' = types,
           DOMAIN of = CheckOf, at # "begin" => of.names = {},
           of.given = Top.of.given, of.defined = Top.of.defined,
           \A a \in Top.of.names \ of.names : a \in DOMAIN of.given \/ ~ Strict(of.defined[a])
    PROVE  SchemaInv'
<1>1. /\ DirectivesPhase /\ Len(types) \in Nat /\ StackInv /\ Len(frames) = 2 /\ Len(frames) > 1
      /\ Top = frames[2] /\ frames[2].fn = "directive_arguments" /\ frames[1].fn = "document"
  BY InDirectives
<1>2. Kept /\ Len(frames') = 2 /\ frames'[2] = Frame("directive_arguments", at, of)
  BY <1>1, DirectiveArgumentsFrames, GotoKept
<1>3. StackOk(frames', result', Len(types)) /\ frames'[1] = frames[1] /\ Len(frames') > 1 /\ frames'[2].of = of
  BY <1>1, <1>2 DEF Kept, Below, Frame
<1>4. \A k \in DOMAIN frames' : \A t : ~ Saves(frames'[k], t)
  <2>1. DOMAIN frames' = 1 .. 2
    BY <1>2, <1>3, SequenceLength DEF StackOk
  <2>2. frames'[1].fn # "check_value" /\ frames'[2].fn # "check_value"
    BY <1>1, <1>2, <1>3 DEF Frame
  <2> QED
    BY <2>1, <2>2, NoSaves
<1> QED
  BY <1>1, <1>3, <1>4, DirectiveArgumentsStep

LEMMA DirectiveArgumentsCall ==
    ASSUME SchemaInv, In("directive_arguments", "begin"), NEW of, NEW about,
           Call("begin", of, Frame("check_value", "begin", about)), SameDirectives, types' = types,
           DOMAIN about = ValueOf, DOMAIN of = CheckOf,
           of.given = Top.of.given, of.defined = Top.of.defined,
           \A a \in Top.of.names \ of.names : a \in DOMAIN of.given
    PROVE  SchemaInv'
<1>1. /\ DirectivesPhase /\ Len(types) \in Nat /\ StackInv /\ Len(frames) = 2 /\ Len(frames) > 1 /\ Phase = "directives"
      /\ IsSequence(frames) /\ Len(frames) > 0
      /\ Top = frames[2] /\ frames[2].fn = "directive_arguments" /\ frames[1].fn = "document"
  BY InDirectives
<1>2. Placed(3, "check_value", "directives")
  BY DEF Placed
<1>3. Kept /\ Len(frames') = 3 /\ frames'[2] = Frame("directive_arguments", "begin", of)
  <2>1. /\ Shaped(Frame("directive_arguments", "begin", of), Len(types))
        /\ Waits(Frame("directive_arguments", "begin", of), "check_value")
    BY DirectiveArgumentsFrames
  <2>2. /\ Shaped(Frame("check_value", "begin", about), Len(types))
        /\ Got(Frame("check_value", "begin", about), result, Len(types))
    BY CheckValueFrames
  <2>3. Placed(Len(frames) + 1, "check_value", Phase)
    BY <1>1, <1>2
  <2> QED
    BY <1>1, <2>1, <2>2, <2>3, CallKept
<1>4. StackOk(frames', result', Len(types)) /\ frames'[1] = frames[1] /\ Len(frames') > 1 /\ frames'[2].of = of
  BY <1>1, <1>3 DEF Kept, Below, Frame
<1>5. frames'[3] = Frame("check_value", "begin", about)
  BY <1>1, AfterCall
<1>6. \A k \in DOMAIN frames' : \A t : ~ Saves(frames'[k], t)
  <2>1. DOMAIN frames' = 1 .. 3
    BY <1>3, <1>4, SequenceLength DEF StackOk
  <2>2. frames'[1].fn # "check_value" /\ frames'[2].fn # "check_value" /\ frames'[3].at # "list"
    BY <1>1, <1>3, <1>4, <1>5 DEF Frame
  <2> QED
    BY <2>1, <2>2, NoSaves
<1> QED
  BY <1>1, <1>4, <1>6, DirectiveArgumentsStep

LEMMA DirectiveArgumentsShape ==
    ASSUME SchemaInv, NEW at, In("directive_arguments", at)
    PROVE  DOMAIN Top.of = CheckOf /\ (at # "begin" => Top.of.names = {})
<1>1. Shaped(Top, Len(types)) /\ Top.fn = "directive_arguments" /\ Top.at = at
  BY InDirectives DEF In
<1> QED
  BY <1>1 DEF Shaped

LEMMA DirectiveArgumentChecked ==
    ASSUME SchemaInv, Clean, check_directive_argument
    PROVE  SchemaInv'
<1>1. In("directive_arguments", "begin") /\ UNCHANGED <<schemaVars, root>> /\ DOMAIN Top.of = CheckOf
  BY DirectiveArgumentsShape DEF check_directive_argument
<1>2. CASE Undefined
  BY <1>1, <1>2, StopKeepsInv DEF Undefined
<1>3. CASE ~ Undefined
  <2>1. PICK name, of, type, new :
            /\ name \in Top.of.names /\ of = [Top.of EXCEPT !.names = @ \ {name}] /\ type = Top.of.defined[name]
            /\ new = [of EXCEPT !.checked = @ \cup {name}]
            /\ IF name \in DOMAIN Top.of.given
               THEN Report(position, <<>>) /\ CallCheckValue("begin", new, Top.of.given[name], type)
               ELSE Report(position, When(Strict(type), "Missing_required_argument_0")) /\ Goto("begin", of)
    BY <1>3 DEF check_directive_argument, Foremost
  <2>2. DOMAIN of = CheckOf /\ of.given = Top.of.given /\ of.defined = Top.of.defined /\ of.names = Top.of.names \ {name}
    BY <1>1, <2>1, CheckOfExcept
  <2>3. DOMAIN new = CheckOf /\ new.given = of.given /\ new.defined = of.defined /\ new.names = of.names
    BY <2>1, <2>2, CheckOfChecked
  <2>4. types' = types /\ SameDirectives
    BY <1>1, <2>1, SchemaVarsSame DEF SameDirectives, Report
  <2>5. CASE name \in DOMAIN Top.of.given
    <3>1. PICK about : DOMAIN about = ValueOf /\ Call("begin", new, Frame("check_value", "begin", about))
      BY <2>1, <2>5, CallsCheckValue
    <3>2. \A a \in Top.of.names \ new.names : a \in DOMAIN new.given
      BY <2>2, <2>3, <2>5
    <3> QED
      BY <1>1, <2>2, <2>3, <2>4, <3>1, <3>2, DirectiveArgumentsCall
  <2>6. CASE name \notin DOMAIN Top.of.given
    <3>1. Goto("begin", of) /\ Report(position, When(Strict(type), "Missing_required_argument_0"))
      BY <2>1, <2>6
    <3>2. ~ Strict(type)
      BY <3>1, ReportWhen DEF Clean
    <3>3. \A a \in Top.of.names \ of.names : ~ Strict(of.defined[a])
      BY <2>1, <2>2, <3>2
    <3> QED
      BY <1>1, <2>2, <2>4, <3>1, <3>3, DirectiveArgumentsGoto
  <2> QED
    BY <2>5, <2>6
<1> QED
  BY <1>2, <1>3

LEMMA ArgumentsReported ==
    ASSUME SchemaInv, report_arguments
    PROVE  SchemaInv'
<1>1. /\ In("directive_arguments", "begin") /\ Top.of.names = {} /\ Goto("unknown", Top.of) /\ outcome' = outcome
      /\ UNCHANGED <<schemaVars, root>>
  BY DEF report_arguments
<1>2. DOMAIN Top.of = CheckOf /\ types' = types /\ SameDirectives
  BY <1>1, DirectiveArgumentsShape, SchemaVarsSame DEF SameDirectives
<1> QED
  BY <1>1, <1>2, DirectiveArgumentsGoto

\* A message is reported, and nothing is claimed any more.
LEMMA ArgumentReported ==
    ASSUME Clean, report_argument
    PROVE  FALSE
BY ReportOne DEF Clean, report_argument

LEMMA DirectiveReferenceEnd ==
    ASSUME SchemaInv, end_directive_reference
    PROVE  SchemaInv'
<1>1. PICK at : In("directive_arguments", at) /\ (at = "begin" => Top.of.names = {})
  BY DEF end_directive_reference
<1>2. Return(Null) /\ outcome' = outcome /\ UNCHANGED <<schemaVars, root>>
  BY DEF end_directive_reference
<1>3. Top.of.names = {} /\ types' = types /\ SameDirectives
  BY <1>1, <1>2, DirectiveArgumentsShape, SchemaVarsSame DEF SameDirectives
<1>4. /\ DirectivesPhase /\ Len(types) \in Nat /\ StackInv /\ Len(frames) = 2 /\ Len(frames) > 1 /\ Phase = "directives"
      /\ Phase \notin ReadPhases /\ DeclarationsInv /\ RootInv /\ DirectivesInv /\ TypesChecked /\ outcome # "done"
      /\ IsSequence(frames) /\ Top = frames[2] /\ frames[2].fn = "directive_arguments" /\ frames[1].fn = "document"
  BY <1>1, InDirectives
<1>5. Kept /\ Len(frames') = 1
  BY <1>2, <1>4, OthersReturn, ReturnKept
<1>6. StackOk(frames', result', Len(types)) /\ frames'[1] = frames[1] /\ frames'[1].at = "directives"
  BY <1>4, <1>5 DEF Kept, Below, Phase
<1>7. TypesChecked'
  BY <1>3, <1>4, SameReferenceFits DEF TypesChecked, SameDirectives
<1>8. \A t : StrictAgain(t)' => StrictAgain(t)
  <2>1. DOMAIN frames' = 1 .. 1
    BY <1>5, <1>6, SequenceLength DEF StackOk
  <2>2. \A k \in DOMAIN frames' : frames'[k].fn # "check_value"
    BY <1>4, <1>6, <2>1
  <2>3. \A t : StrictAgain(t)' <=> Strict(t)'
    BY <2>2 DEF StrictAgain, Saves
  <2>4. \A t : Strict(t)' <=> Strict(t)
    BY <1>3 DEF Strict
  <2> QED
    BY <2>3, <2>4 DEF StrictAgain
<1>9. \A i, a : ~ Pending(i, a)
  BY <1>3, <1>4 DEF Pending
<1>10. \A i \in DOMAIN directives : DirectiveFits(i) => DirectiveFits(i)'
  BY <1>3, <1>8, <1>9, DirectiveStillFits DEF SameDirectives
<1>11. DirectivesInv'
  <2>1. Phase' = "directives" /\ ~ (Len(frames') > 1)
    BY <1>5, <1>6 DEF Phase
  <2> QED
    BY <1>3, <1>4, <1>6, <1>10, <2>1 DEF DirectivesInv, SameDirectives, FitPhases
<1> QED
  BY <1>3, <1>4, <1>6, <1>7, <1>11, DirectivesPhaseStays

-----------------------------------------------------------------------------
(* check_value and check_input_object *)

\* What a required list that is being looked at is, is known from the stack.
LEMMA CheckValueStep ==
    ASSUME DirectivesPhase, SameDirectives, TypesChecked', Len(types') = Len(types), Len(types) \in Nat,
           StackOk(frames', result', Len(types)), frames'[1] = frames[1], frames'[2] = frames[2],
           Len(frames) > 1, Len(frames') > 1,
           \A t \in 1 .. Len(types) : StrictAgain(t)' => StrictAgain(t)
    PROVE  SchemaInv'
<1>1. /\ StackInv /\ DeclarationsInv /\ RootInv /\ Phase \notin ReadPhases /\ outcome # "done"
      /\ Phase = "directives" /\ frames[1].at = "directives" /\ DirectivesInv
  BY DEF DirectivesPhase, ReadPhases, Phase
<1>2. \A i, a : Pending(i, a)' <=> Pending(i, a)
  BY DEF Pending
<1>3. ASSUME NEW i \in DOMAIN directives, DirectiveFits(i)
      PROVE  DirectiveFits(i)'
  <2>1. Pointers(directive_definitions[directives[i].name].arguments, Len(types))
    BY <1>1, <1>3 DEF DirectivesInv, DirectiveFits
  <2>2. \A a \in DOMAIN directive_definitions[directives[i].name].arguments :
            directive_definitions[directives[i].name].arguments[a] \in 1 .. Len(types)
    BY <2>1 DEF Pointers
  <2> QED
    BY <1>2, <1>3, <2>2, DirectiveStillFits DEF SameDirectives
<1>4. DirectivesInv'
  <2>1. Phase' = "directives"
    BY <1>1 DEF Phase
  <2>2. \A i \in DOMAIN directives : i < frames[1].of => DirectiveFits(i)
    BY <1>1 DEF DirectivesInv, FitPhases
  <2>3. \A i \in DOMAIN directives : i < frames[1].of => DirectiveFits(i)'
    BY <1>3, <2>2
  <2> QED
    BY <1>1, <2>1, <2>3 DEF DirectivesInv, SameDirectives
<1> QED
  BY <1>1, <1>4, DirectivesPhaseStays

\* The frames after a step of check_value: the one that was on top is now f.
OnTop(f) ==
    /\ StackOk(frames', result', Len(types)) /\ frames'[1] = frames[1] /\ frames'[2] = frames[2]
    /\ Len(frames') > 1
    /\ \A t : \A k \in DOMAIN frames' : Saves(frames'[k], t) => Saves(f, t) \/ \E j \in DOMAIN frames : Saves(frames[j], t)

LEMMA KeptOnTop ==
    ASSUME Kept, Len(frames) \in Nat, Len(frames) > 2, IsSequence(frames), NEW f,
           \A k \in DOMAIN frames' : k < Len(frames) \/ \A t : Saves(frames'[k], t) => Saves(f, t)
    PROVE  OnTop(f)
<1>1. StackOk(frames', result', Len(types)) /\ Below /\ Len(frames') >= Len(frames) - 1 /\ IsSequence(frames')
  BY DEF Kept, StackOk
<1>2. /\ DOMAIN frames = 1 .. Len(frames) /\ DOMAIN frames' = 1 .. Len(frames') /\ Len(frames') \in Nat
  BY <1>1, SequenceLength
<1>3. frames'[1] = frames[1] /\ frames'[2] = frames[2] /\ Len(frames') > 1
  BY <1>1, <1>2 DEF Below
<1>4. \A k \in DOMAIN frames' : k < Len(frames) => k \in DOMAIN frames /\ frames'[k] = frames[k]
  BY <1>1, <1>2 DEF Below
<1> QED
  BY <1>1, <1>3, <1>4 DEF OnTop

LEMMA CheckValueGoto ==
    ASSUME SchemaInv, NEW from, In("check_value", from), NEW at, NEW of, Goto(at, of), DOMAIN of = ValueOf
    PROVE  OnTop(Frame("check_value", at, of))
<1>1. /\ Len(types) \in Nat /\ StackInv /\ Len(frames) > 2 /\ IsSequence(frames) /\ Len(frames) \in Nat
      /\ Len(frames) > 1 /\ frames[Len(frames)].fn = "check_value"
  BY InDirectives
<1>2. Kept /\ Len(frames') = Len(frames) /\ frames'[Len(frames)] = Frame("check_value", at, of)
  BY <1>1, CheckValueFrames, GotoKept
<1>3. DOMAIN frames' = 1 .. Len(frames)
  BY <1>2, SequenceLength DEF Kept, StackOk
<1>4. \A k \in DOMAIN frames' : k < Len(frames) \/ k = Len(frames)
  BY <1>1, <1>3
<1> QED
  BY <1>1, <1>2, <1>4, KeptOnTop

LEMMA CheckValueCall ==
    ASSUME SchemaInv, NEW from, In("check_value", from), NEW at, NEW of, NEW value, NEW type,
           CallCheckValue(at, of, value, type), DOMAIN of = ValueOf
    PROVE  OnTop(Frame("check_value", at, of))
<1>1. /\ Len(types) \in Nat /\ StackInv /\ Len(frames) > 2 /\ IsSequence(frames) /\ Len(frames) \in Nat
      /\ Len(frames) > 1 /\ frames[Len(frames)].fn = "check_value" /\ Phase = "directives" /\ Len(frames) > 0
  BY InDirectives
<1>2. PICK about : DOMAIN about = ValueOf /\ Call(at, of, Frame("check_value", "begin", about))
  BY CallsCheckValue
<1>3. Placed(Len(frames) + 1, "check_value", Phase)
  BY <1>1 DEF Placed
<1>4. Shaped(Frame("check_value", at, of), Len(types)) /\ Waits(Frame("check_value", at, of), "check_value")
  BY CheckValueFrames
<1>5. /\ Shaped(Frame("check_value", "begin", about), Len(types))
      /\ Got(Frame("check_value", "begin", about), result, Len(types))
  BY <1>2, CheckValueFrames
<1>6. Kept /\ Len(frames') = Len(frames) + 1 /\ frames'[Len(frames)] = Frame("check_value", at, of)
  BY <1>1, <1>2, <1>3, <1>4, <1>5, CallKept
<1>7. frames'[Len(frames) + 1] = Frame("check_value", "begin", about)
  BY <1>1, <1>2, AfterCall
<1>8. DOMAIN frames' = 1 .. Len(frames) + 1
  BY <1>6, SequenceLength DEF Kept, StackOk
<1>9. \A k \in DOMAIN frames' : k < Len(frames) \/ k = Len(frames) \/ k = Len(frames) + 1
  BY <1>1, <1>8
<1>10. \A t : ~ Saves(frames'[Len(frames) + 1], t)
  BY <1>7, FrameSaves
<1> QED
  BY <1>1, <1>6, <1>9, <1>10, KeptOnTop

LEMMA CheckValueReturn ==
    ASSUME SchemaInv, NEW from, In("check_value", from), Return(Null)
    PROVE  OnTop(Top)
<1>1. /\ Len(types) \in Nat /\ StackInv /\ Len(frames) > 2 /\ IsSequence(frames) /\ Len(frames) \in Nat
      /\ Len(frames) > 1 /\ frames[Len(frames)].fn = "check_value"
  BY InDirectives
<1>2. Kept /\ Len(frames') = Len(frames) - 1
  BY <1>1, OthersReturn, ReturnKept
<1>3. DOMAIN frames' = 1 .. Len(frames) - 1
  BY <1>2, SequenceLength DEF Kept, StackOk
<1>4. \A k \in DOMAIN frames' : k < Len(frames)
  BY <1>1, <1>3
<1>5. PICK f : f = Top
  OBVIOUS
<1> QED
  BY <1>1, <1>2, <1>4, <1>5, KeptOnTop

\* The Type nodes stay: what the frame on top saves, it saved before.
LEMMA CheckValueKept ==
    ASSUME SchemaInv, NEW from, In("check_value", from), NEW f, OnTop(f), SameDirectives, types' = types,
           \A t : Saves(f, t) => Saves(Top, t)
    PROVE  SchemaInv'
<1>1. /\ DirectivesPhase /\ Len(types) \in Nat /\ TypesChecked /\ Len(frames) > 2 /\ IsSequence(frames) /\ Len(frames) \in Nat
      /\ Top = frames[Len(frames)]
  BY InDirectives
<1>2. TypesChecked'
  BY <1>1, SameReferenceFits DEF TypesChecked, SameDirectives
<1>3. Len(frames) \in DOMAIN frames /\ Len(frames) > 1
  BY <1>1, SequenceLength
<1>4. \A t : \A k \in DOMAIN frames' : Saves(frames'[k], t) => \E j \in DOMAIN frames : Saves(frames[j], t)
  BY <1>1, <1>3 DEF OnTop
<1>5. \A t : Strict(t)' <=> Strict(t)
  BY DEF Strict
<1>6. \A t : StrictAgain(t)' => StrictAgain(t)
  BY <1>4, <1>5 DEF StrictAgain
<1> QED
  BY <1>1, <1>2, <1>3, <1>6, CheckValueStep DEF OnTop

\* The variables of check_value, when some of them change.
LEMMA ValueOfItems ==
    ASSUME NEW of, DOMAIN of = ValueOf, NEW items, NEW new, new = [of EXCEPT !.items = items]
    PROVE  DOMAIN new = ValueOf /\ new.type = of.type /\ new.is_non_null_list = of.is_non_null_list
BY Zenon DEF ValueOf

WithList(of, items, saved) == [of EXCEPT !.items = items, !.is_non_null_list = saved]
LEMMA ValueOfList ==
    ASSUME NEW of, DOMAIN of = ValueOf, NEW items, NEW saved, NEW new, new = WithList(of, items, saved)
    PROVE  DOMAIN new = ValueOf /\ new.type = of.type /\ new.is_non_null_list = saved
BY Zenon DEF ValueOf, WithList

LEMMA ValueOfOther ==
    ASSUME NEW of, DOMAIN of = ValueOf, NEW x
    PROVE  /\ DOMAIN [of EXCEPT !.reported = x] = ValueOf
           /\ DOMAIN [of EXCEPT !.checked = x] = ValueOf
           /\ DOMAIN [of EXCEPT !.missing = x] = ValueOf
BY DEF ValueOf

LEMMA CheckValueShape ==
    ASSUME SchemaInv, NEW at, In("check_value", at)
    PROVE  DOMAIN Top.of = ValueOf /\ Top.fn = "check_value" /\ Top.at = at
<1>1. Shaped(Top, Len(types)) /\ Top.fn = "check_value" /\ Top.at = at
  BY InDirectives DEF In
<1> QED
  BY <1>1 DEF Shaped

\* The steps that are not about a list.
LEMMA CheckValueElsewhere ==
    ASSUME SchemaInv, NEW from, In("check_value", from), SameDirectives, types' = types, NEW at, at # "list", NEW of, DOMAIN of = ValueOf,
           Goto(at, of) \/ \E value, type : CallCheckValue(at, of, value, type)
    PROVE  SchemaInv'
<1>1. PICK f : f = Frame("check_value", at, of)
  OBVIOUS
<1>2. OnTop(f)
  BY <1>1, CheckValueGoto, CheckValueCall
<1>3. \A t : ~ Saves(f, t)
  BY <1>1, FrameSaves
<1> QED
  BY <1>2, <1>3, CheckValueKept

LEMMA CheckValueReturns ==
    ASSUME SchemaInv, NEW from, In("check_value", from), SameDirectives, types' = types, Return(Null)
    PROVE  SchemaInv'
<1>1. PICK f : f = Top
  OBVIOUS
<1>2. OnTop(f)
  BY <1>1, CheckValueReturn
<1>3. \A t : Saves(f, t) => Saves(Top, t)
  BY <1>1
<1> QED
  BY <1>2, <1>3, CheckValueKept

LEMMA ScalarChecked ==
    ASSUME SchemaInv, check_scalar
    PROVE  SchemaInv'
<1>1. In("check_value", "begin") /\ Return(Null) /\ outcome' = outcome /\ UNCHANGED <<schemaVars, root>>
  BY DEF check_scalar, Report
<1>2. types' = types /\ SameDirectives
  BY <1>1, SchemaVarsSame DEF SameDirectives
<1> QED
  BY <1>1, <1>2, CheckValueReturns

LEMMA ListElementChecked ==
    ASSUME SchemaInv, check_list_element
    PROVE  SchemaInv'
<1>1. PICK of : of = [Top.of EXCEPT !.items = Tail(@)]
  OBVIOUS
<1>2. /\ In("check_value", "list") /\ CallCheckValue("list", of, Head(Top.of.items).value, Top.of.type)
      /\ outcome' = outcome /\ UNCHANGED <<schemaVars, root>>
  BY <1>1 DEF check_list_element, Report
<1>3. types' = types /\ SameDirectives
  BY <1>2, SchemaVarsSame DEF SameDirectives
<1>4. DOMAIN Top.of = ValueOf /\ Top.fn = "check_value" /\ Top.at = "list"
  BY <1>2, CheckValueShape
<1>5. DOMAIN of = ValueOf /\ of.type = Top.of.type /\ of.is_non_null_list = Top.of.is_non_null_list
  BY <1>1, <1>4, ValueOfItems
<1>6. PICK f : f = Frame("check_value", "list", of)
  OBVIOUS
<1>7. OnTop(f)
  BY <1>2, <1>5, <1>6, CheckValueCall
<1>8. \A t : Saves(f, t) => Saves(Top, t)
  BY <1>4, <1>5, <1>6 DEF Saves, Frame
<1> QED
  BY <1>2, <1>3, <1>7, <1>8, CheckValueKept

LEMMA InputObjectChecked ==
    ASSUME SchemaInv, Clean, check_input_object
    PROVE  SchemaInv'
<1>1. PICK of : of = [Top.of EXCEPT !.items = Top.of.value.items]
  OBVIOUS
<1>2. /\ In("check_value", "begin") /\ outcome' = outcome /\ UNCHANGED <<schemaVars, root>>
      /\ Return(Null) \/ Goto("object", of)
  BY <1>1 DEF check_input_object, Report
<1>3. types' = types /\ SameDirectives
  BY <1>2, SchemaVarsSame DEF SameDirectives
<1>4. DOMAIN of = ValueOf
  BY <1>1, <1>2, CheckValueShape, ValueOfItems
<1> QED
  BY <1>2, <1>3, <1>4, CheckValueReturns, CheckValueElsewhere

LEMMA ObjectFieldChecked ==
    ASSUME SchemaInv, check_object_field
    PROVE  SchemaInv'
<1>1. PICK of : of = [Top.of EXCEPT !.items = Tail(@)]
  OBVIOUS
<1>2. PICK name : name = Head(Top.of.items).name
  OBVIOUS
<1>3. PICK a, b : a = [of EXCEPT !.reported = @ \cup {name}] /\ b = [of EXCEPT !.checked = @ \cup {name}]
  OBVIOUS
<1>4. In("check_value", "object") /\ outcome' = outcome /\ UNCHANGED <<schemaVars, root>>
  BY DEF check_object_field, Report
<1>5. \/ Goto("object", of)
      \/ Goto("object", a)
      \/ \E value, type : CallCheckValue("object", b, value, type)
  BY <1>1, <1>2, <1>3 DEF check_object_field
<1>6. DOMAIN of = ValueOf
  BY <1>1, <1>4, CheckValueShape, ValueOfItems
<1>7. DOMAIN a = ValueOf /\ DOMAIN b = ValueOf
  BY <1>3, <1>6, ValueOfOther
<1>8. types' = types /\ SameDirectives
  BY <1>4, SchemaVarsSame DEF SameDirectives
<1> QED
  BY <1>4, <1>5, <1>6, <1>7, <1>8, CheckValueElsewhere

LEMMA MissingFieldsChecked ==
    ASSUME SchemaInv, end_object_fields \/ check_missing_field \/ end_check_object
    PROVE  SchemaInv'
<1>1. PICK at : In("check_value", at) /\ outcome' = outcome /\ UNCHANGED <<schemaVars, root>>
  BY DEF end_object_fields, check_missing_field, end_check_object, Report
<1>2. \/ \E missing : Goto("missing", [Top.of EXCEPT !.missing = missing])
      \/ Return(Null)
  <2>1. ASSUME check_missing_field PROVE \E missing : Goto("missing", [Top.of EXCEPT !.missing = missing])
    BY <2>1 DEF check_missing_field
  <2> QED
    BY <2>1 DEF end_object_fields, end_check_object
<1>3. types' = types /\ SameDirectives
  BY <1>1, SchemaVarsSame DEF SameDirectives
<1>4. \A missing : DOMAIN [Top.of EXCEPT !.missing = missing] = ValueOf
  BY <1>1, CheckValueShape, ValueOfOther
<1>5. ASSUME NEW missing, Goto("missing", [Top.of EXCEPT !.missing = missing])
      PROVE  SchemaInv'
  <2>1. PICK of : of = [Top.of EXCEPT !.missing = missing]
    OBVIOUS
  <2>2. Goto("missing", of) /\ DOMAIN of = ValueOf
    BY <1>4, <1>5, <2>1
  <2> QED
    BY <1>1, <1>3, <2>2, CheckValueElsewhere
<1> QED
  BY <1>1, <1>2, <1>3, <1>5, CheckValueReturns

LEMMA ValueRefused ==
    ASSUME SchemaInv, Clean, refuse_value \/ undefined_value
    PROVE  SchemaInv'
<1>1. UNCHANGED <<schemaVars, root>> /\ (Stop("thrown") \/ Stop("undefined"))
  BY ReportOne DEF Clean, refuse_value, undefined_value, Undefined
<1> QED
  BY <1>1, StopKeepsInv

\* The flags of one Type node change.
WithFlags(s, x, a, b) == [s EXCEPT ![x].is_list = a, ![x].is_non_null_list = b]
LEMMA FlagsOfType ==
    ASSUME NEW s, IsSequence(s), \A j \in DOMAIN s : DOMAIN s[j] = TypeFields, NEW x, NEW a, NEW b, NEW new,
           new = WithFlags(s, x, a, b)
    PROVE  /\ IsSequence(new) /\ Len(new) = Len(s) /\ DOMAIN new = DOMAIN s
           /\ \A j \in DOMAIN s :
                 /\ DOMAIN new[j] = TypeFields /\ new[j].name = s[j].name /\ new[j].type = s[j].type
                 /\ new[j].in_input_location = s[j].in_input_location /\ new[j].is_non_null = s[j].is_non_null
                 /\ (j = x => new[j].is_non_null_list = b)
                 /\ (j # x => new[j].is_non_null_list = s[j].is_non_null_list)
<1>1. PICK u : u = [s[x] EXCEPT !.is_list = a, !.is_non_null_list = b]
  OBVIOUS
<1>2. new = [s EXCEPT ![x] = u]
  BY <1>1 DEF WithFlags
<1>3. /\ IsSequence(new) /\ Len(new) = Len(s) /\ DOMAIN new = DOMAIN s
      /\ \A j \in DOMAIN s : new[j] = IF j = x THEN u ELSE s[j]
  BY <1>2, SequenceExcept
<1>4. DOMAIN s[x] = TypeFields =>
          /\ DOMAIN u = TypeFields /\ u.name = s[x].name /\ u.type = s[x].type
          /\ u.in_input_location = s[x].in_input_location /\ u.is_non_null = s[x].is_non_null
          /\ u.is_non_null_list = b
  BY <1>1, Zenon DEF TypeFields
<1> QED
  BY <1>3, <1>4

LEMMA FlagsKeepReference ==
    ASSUME NEW t, NEW u, u.name = t.name, u.type = t.type, u.in_input_location = t.in_input_location
    PROVE  (IsReference(u) <=> IsReference(t)) /\ (ReferenceFits(u) <=> ReferenceFits(t))
BY DEF IsReference, ReferenceFits

\* A list that is looked at, or was.
LEMMA CheckListKept ==
    ASSUME SchemaInv, NEW from, In("check_value", from), NEW f, OnTop(f), SameDirectives, NEW a, NEW b,
           types' = [types EXCEPT ![Top.of.type].is_list = a, ![Top.of.type].is_non_null_list = b],
           b => StrictAgain(Top.of.type),
           \A t : Saves(f, t) => StrictAgain(t)
    PROVE  SchemaInv'
<1>1. /\ DirectivesPhase /\ Len(types) \in Nat /\ TypesChecked /\ Len(frames) > 2 /\ Len(frames) \in Nat
      /\ DOMAIN types = 1 .. Len(types)
  BY InDirectives
<1>2. PICK x, new : x = Top.of.type /\ new = types'
  OBVIOUS
<1>3. new = WithFlags(types, x, a, b)
  BY <1>2 DEF WithFlags
<1>4. IsSequence(types) /\ \A j \in DOMAIN types : DOMAIN types[j] = TypeFields
  BY <1>1 DEF TypesChecked
<1>5. /\ IsSequence(new) /\ Len(new) = Len(types) /\ DOMAIN new = DOMAIN types
      /\ \A j \in DOMAIN types :
            /\ DOMAIN new[j] = TypeFields /\ new[j].name = types[j].name /\ new[j].type = types[j].type
            /\ new[j].in_input_location = types[j].in_input_location /\ new[j].is_non_null = types[j].is_non_null
            /\ (j = x => new[j].is_non_null_list = b)
            /\ (j # x => new[j].is_non_null_list = types[j].is_non_null_list)
  BY <1>3, <1>4, FlagsOfType
<1>6. TypesChecked'
  <2>1. \A j \in DOMAIN types : IsReference(new[j]) => ReferenceFits(new[j])
    BY <1>1, <1>5, FlagsKeepReference DEF TypesChecked
  <2>2. \A j \in DOMAIN types : IsReference(new[j]) => ReferenceFits(new[j])'
    BY <2>1, SameReferenceFits DEF SameDirectives
  <2> QED
    BY <1>2, <1>5, <2>2 DEF TypesChecked
<1>7. ASSUME NEW t \in 1 .. Len(types), StrictAgain(t)'
      PROVE  StrictAgain(t)
  <2>1. CASE Strict(t)'
    <3>1. new[t].is_non_null \/ new[t].is_non_null_list
      BY <1>2, <2>1 DEF Strict
    <3>2. types[t].is_non_null \/ (t = x /\ b) \/ types[t].is_non_null_list
      BY <1>1, <1>5, <3>1
    <3> QED
      BY <1>2, <3>2 DEF StrictAgain, Strict
  <2>2. CASE \E k \in DOMAIN frames' : Saves(frames'[k], t)
    BY <2>2 DEF OnTop, StrictAgain
  <2> QED
    BY <1>7, <2>1, <2>2 DEF StrictAgain
<1>8. Len(types') = Len(types) /\ Len(frames) > 1
  BY <1>1, <1>2, <1>5
<1> QED
  BY <1>1, <1>6, <1>7, <1>8, CheckValueStep DEF OnTop

LEMMA ListChecked ==
    ASSUME SchemaInv, check_list
    PROVE  SchemaInv'
<1>1. PICK of, saved : saved = types[Top.of.type].is_non_null_list
                       /\ of = [Top.of EXCEPT !.items = Top.of.value.items, !.is_non_null_list = saved]
  OBVIOUS
<1>2. /\ In("check_value", "begin") /\ Goto("list", of)
      /\ types' = [types EXCEPT ![Top.of.type].is_list = FALSE, ![Top.of.type].is_non_null_list = FALSE]
  BY <1>1 DEF check_list
<1>3. SameDirectives
  BY DEF check_list, SameDirectives, Report, parsedVars, directiveVars
<1>4. DOMAIN of = ValueOf /\ of.type = Top.of.type /\ of.is_non_null_list = saved
  <2>1. PICK old, items : old = Top.of /\ items = Top.of.value.items
    OBVIOUS
  <2>2. DOMAIN old = ValueOf
    BY <1>2, <2>1, CheckValueShape
  <2>3. of = WithList(old, items, saved)
    BY <1>1, <2>1 DEF WithList
  <2> QED
    BY <2>1, <2>2, <2>3, ValueOfList
<1>5. PICK f : f = Frame("check_value", "list", of)
  OBVIOUS
<1>6. OnTop(f)
  BY <1>2, <1>4, <1>5, CheckValueGoto
<1>7. \A t : Saves(f, t) => Strict(t)
  BY <1>1, <1>4, <1>5 DEF Saves, Frame, Strict
<1>8. \A t : Saves(f, t) => StrictAgain(t)
  BY <1>7 DEF StrictAgain
<1> QED
  BY <1>2, <1>3, <1>6, <1>8, CheckListKept

LEMMA ListEnd ==
    ASSUME SchemaInv, end_check_list
    PROVE  SchemaInv'
<1>1. /\ In("check_value", "list") /\ Return(Null)
      /\ types' = [types EXCEPT ![Top.of.type].is_list = TRUE, ![Top.of.type].is_non_null_list = Top.of.is_non_null_list]
  BY DEF end_check_list
<1>2. SameDirectives
  BY DEF end_check_list, SameDirectives, Report, parsedVars, directiveVars
<1>3. PICK f : f = Top
  OBVIOUS
<1>4. OnTop(f)
  BY <1>1, <1>3, CheckValueReturn
<1>5. \A t : Saves(Top, t) => StrictAgain(t)
  <2>1. Top = frames[Len(frames)] /\ Len(frames) \in DOMAIN frames
    BY <1>1, InDirectives, SequenceLength
  <2> QED
    BY <2>1 DEF StrictAgain
<1>6. Top.of.is_non_null_list => StrictAgain(Top.of.type)
  BY <1>1, <1>5, CheckValueShape DEF Saves
<1>7. \A t : Saves(f, t) => StrictAgain(t)
  BY <1>3, <1>5
<1> QED
  BY <1>1, <1>2, <1>4, <1>6, <1>7, CheckListKept

-----------------------------------------------------------------------------
(* check_object_implementations and check_union_members *)

LatePhases == {"implementations", "interface", "unions"}

LEMMA InLate ==
    ASSUME SchemaInv, NEW at, In("document", at), at \in LatePhases
    PROVE  /\ StackInv /\ DeclarationsInv /\ ImplementationsInv /\ UnionsInv
           /\ Phase = at /\ Phase \notin ReadPhases /\ Top = frames[1]
           /\ \A i \in DOMAIN directives : DirectiveFits(i)
<1>1. StackInv /\ DeclarationsInv /\ ImplementationsInv /\ UnionsInv /\ DirectivesInv
  BY DEF SchemaInv
<1>2. Phase = at /\ Top = frames[1]
  BY <1>1, TopPlace
<1> QED
  BY <1>1, <1>2 DEF DirectivesInv, LatePhases, FitPhases, ReadPhases

\* The constructor goes on; the loops have said what they saw.
LEMMA LateGoto ==
    ASSUME SchemaInv, NEW from \in FitPhases, In("document", from), \A i \in DOMAIN directives : DirectiveFits(i),
           NEW at \in LatePhases, NEW of, Goto(at, of), outcome' = outcome, UNCHANGED <<schemaVars, root>>,
           ImplementationsInv', UnionsInv'
    PROVE  SchemaInv'
<1>1. types' = types /\ UNCHANGED <<declarations, directives, directive_definitions, root>>
  BY SchemaVarsSame
<1>2. StackInv /\ DeclarationsInv /\ TypesInv /\ RootInv /\ DirectivesInv
  BY DEF SchemaInv
<1>3. /\ Phase = from /\ Len(frames) = 1 /\ Len(frames) \in Nat /\ IsSequence(frames) /\ outcome = "running"
      /\ Top = frames[1] /\ Top.fn = "document"
  BY <1>2, TopPlace
<1>4. /\ StackOk(frames', result', Len(types)) /\ Len(frames') = 1
      /\ frames'[1] = Frame("document", at, of) /\ frames'[1].at = at
  BY <1>2, <1>3, GotoAlone
<1>5. /\ Phase' = at /\ Phase \in FitPhases /\ Phase' \in FitPhases /\ Phase' # "references" /\ Phase' # "directives"
      /\ Phase \notin ReadPhases /\ frames'[1].fn = "document"
  BY <1>3, <1>4 DEF Phase, LatePhases, FitPhases, ReadPhases, Frame
<1>6. StackInv' /\ RootInv' /\ outcome' # "done"
  BY <1>1, <1>2, <1>3, <1>4, <1>5 DEF StackInv, RootInv
<1>7. DeclarationsInv'
  BY <1>1, <1>2, <1>5, DeclarationsStay
<1>8. TypesInv'
  BY <1>1, <1>2, <1>5, SameReferenceFits DEF TypesInv, TypeFits, Referenced
<1>9. DirectivesInv'
  <2>1. \A t : StrictAgain(t)' => StrictAgain(t)
    <3>1. \A t : Strict(t)' <=> Strict(t)
      BY <1>1 DEF Strict
    <3>2. DOMAIN frames' = 1 .. 1
      BY <1>4, SequenceLength DEF StackOk
    <3>3. \A k \in DOMAIN frames' : \A t : ~ Saves(frames'[k], t)
      BY <1>5, <3>2, NoSaves
    <3> QED
      BY <3>1, <3>3 DEF StrictAgain
  <2>2. \A i, a : ~ Pending(i, a)
    BY <1>3 DEF Pending
  <2>3. \A i \in DOMAIN directives : DirectiveFits(i)'
    BY <1>1, <2>1, <2>2, DirectiveStillFits
  <2> QED
    BY <1>1, <1>2, <1>5, <2>3 DEF DirectivesInv
<1> QED
  BY <1>6, <1>7, <1>8, <1>9 DEF SchemaInv

\* A name that is not that of a union is declared once.
LEMMA InterfaceIsSymbol ==
    ASSUME DeclarationsInv, NEW name
    PROVE  /\ IsInterface(name) <=> Interfaces(name) # {}
           /\ IsInterface(name) => Interface(name) = Symbol(name)
<1>1. IsSequence(declarations) /\ DOMAIN declarations = 1 .. Len(declarations) /\ Len(declarations) \in Nat
  BY SequenceLength DEF DeclarationsInv
<1>2. /\ Named(name) \in SUBSET Nat
      /\ name \in Symbols <=> Named(name) # {}
      /\ name \in Symbols => Min(Named(name)) \in Named(name) /\ \A y \in Named(name) : Min(Named(name)) <= y
  BY <1>1, NamedNumbers
<1>3. PICK T : T = Interfaces(name)
  OBVIOUS
<1>4. \A i : i \in T <=> i \in Named(name) /\ declarations[i].kind = "interface"
  BY <1>3 DEF Interfaces
<1>5. \A i : i \in Named(name) => i \in DOMAIN declarations /\ declarations[i].name = name
  BY DEF Named
<1>6. ASSUME NEW i \in T
      PROVE  i = Min(Named(name))
  <2>1. \A j \in Named(name) : i <= j
    BY <1>4, <1>5, <1>6 DEF DeclarationsInv
  <2> QED
    BY <1>2, <1>4, <1>6, <2>1
<1>7. T # {} => Min(T) \in T
  BY <1>2, <1>4, MinIsLeast
<1>8. PICK m : m = Min(Named(name))
  OBVIOUS
<1>9. Symbol(name) = declarations[m]
  BY <1>8 DEF Symbol
<1>10. IsInterface(name) <=> T # {}
  BY <1>2, <1>4, <1>6, <1>8, <1>9 DEF IsInterface
<1>11. T # {} => Interface(name) = Symbol(name)
  BY <1>3, <1>6, <1>7, <1>8, <1>9 DEF Interface
<1> QED
  BY <1>3, <1>10, <1>11

CoveredAt(k, name, at, of) ==
    Past(k, name, of) /\ (at = "interface" /\ k = of.object => name # of.name)

LEMMA ImplementationsGoto ==
    ASSUME SchemaInv, NEW from \in FitPhases, In("document", from), \A i \in DOMAIN directives : DirectiveFits(i),
           NEW at \in {"implementations", "interface"}, NEW of, Goto(at, of), outcome' = outcome, UNCHANGED <<schemaVars, root>>,
           DOMAIN of = ImplementingOf, of.object \in Nat, at = "interface" => InterfaceSeen(of),
           \A k \in DOMAIN declarations : \A name \in declarations[k].implementations :
               CoveredAt(k, name, at, of) => Implements(declarations[k], name)
    PROVE  SchemaInv'
<1>1. types' = types /\ declarations' = declarations
  BY SchemaVarsSame
<1>2. StackInv /\ Len(frames) = 1 /\ Len(frames) \in Nat
  BY TopPlace DEF SchemaInv
<1>3. frames'[1].at = at /\ frames'[1].of = of
  BY <1>2, GotoAlone
<1>4. Phase' = at /\ at # "unions" /\ at \in LatePhases
  BY <1>3 DEF Phase, LatePhases
<1>5. \A k, name : Covered(k, name)' => CoveredAt(k, name, at, of)
  BY <1>3, <1>4 DEF Covered, CoveredAt
<1>6. \A object, name : Implements(object, name)' <=> Implements(object, name)
  BY <1>1, SameImplements
<1>7. at = "interface" => InterfaceSeen(of)'
  BY <1>1, SameImplements
<1>8. ImplementationsInv'
  BY <1>1, <1>3, <1>4, <1>5, <1>6, <1>7 DEF ImplementationsInv
<1>9. UnionsInv'
  BY <1>4 DEF UnionsInv
<1> QED
  BY <1>4, <1>8, <1>9, LateGoto

\* The members that were looked at.
Seen(k, name, of) == k < of.union \/ (k = of.union /\ name \notin of.members)

LEMMA UnionsGoto ==
    ASSUME SchemaInv, NEW from \in FitPhases, In("document", from), \A i \in DOMAIN directives : DirectiveFits(i),
           NEW of, Goto("unions", of), outcome' = outcome, UNCHANGED <<schemaVars, root>>,
           DOMAIN of = UnionOf, of.union \in Nat,
           \A k \in DOMAIN declarations : \A name \in declarations[k].implementations : Implements(declarations[k], name),
           \A k \in DOMAIN declarations : \A name \in declarations[k].members : Seen(k, name, of) => IsMember(name)
    PROVE  SchemaInv'
<1>1. types' = types /\ declarations' = declarations
  BY SchemaVarsSame
<1>2. StackInv /\ Len(frames) = 1 /\ Len(frames) \in Nat /\ outcome = "running"
  BY TopPlace DEF SchemaInv
<1>3. frames'[1].at = "unions" /\ frames'[1].of = of
  BY <1>2, GotoAlone
<1>4. Phase' = "unions" /\ "unions" \in LatePhases /\ outcome' # "done"
  BY <1>2, <1>3 DEF Phase, LatePhases
<1>5. /\ \A object, name : Implements(object, name)' <=> Implements(object, name)
      /\ \A name : IsMember(name)' <=> IsMember(name)
  BY <1>1, SameImplements
<1>6. ImplementationsInv'
  BY <1>1, <1>4, <1>5 DEF ImplementationsInv
<1>7. UnionsInv'
  BY <1>1, <1>3, <1>4, <1>5 DEF UnionsInv, Seen
<1> QED
  BY <1>4, <1>6, <1>7, LateGoto

LEMMA DeclarationNumbers ==
    ASSUME DeclarationsInv
    PROVE  /\ DOMAIN declarations = 1 .. Len(declarations) /\ Len(declarations) \in Nat
           /\ \A k \in DOMAIN declarations : k \in Nat /\ k > 0 /\ k <= Len(declarations)
<1>1. DOMAIN declarations = 1 .. Len(declarations) /\ Len(declarations) \in Nat
  BY SequenceLength DEF DeclarationsInv
<1> QED
  BY <1>1

LEMMA ImplementingFields ==
    ASSUME NEW object, NEW names
    PROVE  /\ DOMAIN Implementing(object, names) = ImplementingOf
           /\ Implementing(object, names).object = object /\ Implementing(object, names).names = names
BY DEF Implementing, ImplementingOf

LEMMA DirectiveReferencesEnd ==
    ASSUME SchemaInv, end_directive_references
    PROVE  SchemaInv'
<1>1. PICK of : of = Implementing(0, {})
  OBVIOUS
<1>2. /\ In("document", "directives") /\ Top.of > Len(directives) /\ outcome' = outcome
      /\ UNCHANGED <<schemaVars, root>> /\ Goto("implementations", of)
  BY <1>1 DEF end_directive_references
<1>3. Phase = "directives" /\ Top = frames[1] /\ DirectivesInv /\ DeclarationsInv /\ Len(frames) = 1
  BY <1>2, InDirectives
<1>4. \A i \in DOMAIN directives : DirectiveFits(i)
  <2>1. IsSequence(directives) /\ frames[1].of \in Nat \ {0}
    BY <1>3 DEF DirectivesInv
  <2>2. DOMAIN directives = 1 .. Len(directives) /\ Len(directives) \in Nat
    BY <2>1, SequenceLength
  <2>3. \A i \in DOMAIN directives : i < frames[1].of
    BY <1>2, <1>3, <2>1, <2>2
  <2> QED
    BY <1>3, <2>3 DEF DirectivesInv, FitPhases
<1>5. DOMAIN of = ImplementingOf /\ of.object = 0 /\ of.object \in Nat
  BY <1>1, ImplementingFields
<1>6. \A k \in DOMAIN declarations : \A name : ~ CoveredAt(k, name, "implementations", of)
  BY <1>3, <1>5, DeclarationNumbers DEF CoveredAt, Past
<1>7. "directives" \in FitPhases
  BY DEF FitPhases
<1> QED
  BY <1>2, <1>4, <1>5, <1>6, <1>7, ImplementationsGoto

\* What the loop over the implementations has seen.
LEMMA ImplementationsSeen ==
    ASSUME SchemaInv, NEW at \in {"implementations", "interface"}, In("document", at)
    PROVE  /\ at \in FitPhases /\ DeclarationsInv
           /\ \A k \in DOMAIN declarations : ~ Unfinished(declarations[k])
           /\ \A i \in DOMAIN directives : DirectiveFits(i)
           /\ DOMAIN Top.of = ImplementingOf /\ Top.of.object \in Nat
           /\ at = "interface" => InterfaceSeen(Top.of)
           /\ \A k \in DOMAIN declarations : \A name \in declarations[k].implementations :
                 CoveredAt(k, name, at, Top.of) => Implements(declarations[k], name)
<1>1. at \in FitPhases /\ at \in LatePhases /\ at # "unions"
  BY DEF FitPhases, LatePhases
<1>2. /\ StackInv /\ DeclarationsInv /\ ImplementationsInv /\ Phase = at /\ Phase \notin ReadPhases /\ Top = frames[1]
      /\ \A i \in DOMAIN directives : DirectiveFits(i)
  BY <1>1, InLate
<1>3. \A k \in DOMAIN declarations : ~ Unfinished(declarations[k])
  BY <1>2, NothingLeft
<1>4. \A k, name : CoveredAt(k, name, at, Top.of) => Covered(k, name)
  BY <1>2 DEF Covered, CoveredAt
<1> QED
  BY <1>1, <1>2, <1>3, <1>4 DEF ImplementationsInv

\* The variables of the loop when the next interface has its turn.
WithInterface(of, name) == [of EXCEPT !.names = @ \ {name}, !.name = name]
WithFields(of, fields) == [of EXCEPT !.fields = fields]

LEMMA NextInterface ==
    ASSUME NEW of, DOMAIN of = ImplementingOf, NEW name, NEW new, new = WithInterface(of, name)
    PROVE  DOMAIN new = ImplementingOf /\ new.object = of.object /\ new.names = of.names \ {name} /\ new.name = name
BY Zenon DEF ImplementingOf, WithInterface

LEMMA NextFields ==
    ASSUME NEW of, DOMAIN of = ImplementingOf, NEW fields, NEW new, new = WithFields(of, fields)
    PROVE  /\ DOMAIN new = ImplementingOf /\ new.object = of.object /\ new.names = of.names
           /\ new.name = of.name /\ new.fields = fields
BY Zenon DEF ImplementingOf, WithFields

LEMMA ObjectImplementationChecked ==
    ASSUME SchemaInv, Clean, check_object_implementation
    PROVE  SchemaInv'
<1>1. In("document", "implementations") /\ UNCHANGED <<schemaVars, root>>
  BY DEF check_object_implementation
<1>2. CASE Undefined
  BY <1>1, <1>2, StopKeepsInv DEF Undefined
<1>3. CASE ~ Undefined
  <2>1. PICK name, of, new :
            /\ name \in Top.of.names /\ of = [Top.of EXCEPT !.names = @ \ {name}, !.name = name]
            /\ new = [of EXCEPT !.fields = DOMAIN Interface(name).fields]
            /\ \/ /\ ~ (Interfaces(name) # {} /\ declarations[Top.of.object].complete)
                  /\ Report(position, When(~ (Interfaces(name) # {}), "Interface_0_is_not_defined"))
                  /\ Goto("implementations", of)
               \/ /\ Interfaces(name) # {} /\ outcome' = outcome
                  /\ Goto("interface", new)
    BY <1>3 DEF check_object_implementation, Foremost, Report
  <2>2. of = WithInterface(Top.of, name) /\ new = WithFields(of, DOMAIN Interface(name).fields)
    BY <2>1 DEF WithInterface, WithFields
  <2>3. /\ "implementations" \in FitPhases /\ DeclarationsInv
        /\ \A k \in DOMAIN declarations : ~ Unfinished(declarations[k])
        /\ \A i \in DOMAIN directives : DirectiveFits(i)
        /\ DOMAIN Top.of = ImplementingOf /\ Top.of.object \in Nat
        /\ \A k \in DOMAIN declarations : \A n \in declarations[k].implementations :
              CoveredAt(k, n, "implementations", Top.of) => Implements(declarations[k], n)
    BY <1>1, ImplementationsSeen
  <2>4. DOMAIN of = ImplementingOf /\ of.object = Top.of.object /\ of.names = Top.of.names \ {name} /\ of.name = name
    BY <2>2, <2>3, NextInterface
  <2>5. /\ DOMAIN new = ImplementingOf /\ new.object = Top.of.object /\ new.names = Top.of.names \ {name} /\ new.name = name
        /\ new.fields = DOMAIN Interface(name).fields
    BY <2>2, <2>4, NextFields
  <2>6. ASSUME ~ (Interfaces(name) # {} /\ declarations[Top.of.object].complete),
               Report(position, When(~ (Interfaces(name) # {}), "Interface_0_is_not_defined")),
               Goto("implementations", of)
        PROVE  SchemaInv'
    <3>1. ~ declarations[Top.of.object].complete /\ outcome' = outcome
      BY <2>6, ReportWhen DEF Clean, Report
    <3>2. ASSUME NEW k \in DOMAIN declarations, NEW n \in declarations[k].implementations,
                 CoveredAt(k, n, "implementations", of)
          PROVE  CoveredAt(k, n, "implementations", Top.of)
      <4>1. k # Top.of.object
        BY <2>3, <3>1, <3>2 DEF Unfinished
      <4> QED
        BY <2>4, <3>2, <4>1 DEF CoveredAt, Past
    <3>3. \A k \in DOMAIN declarations : \A n \in declarations[k].implementations :
              CoveredAt(k, n, "implementations", of) => Implements(declarations[k], n)
      BY <2>3, <3>2
    <3> QED
      BY <1>1, <2>3, <2>4, <2>6, <3>1, <3>3, ImplementationsGoto
  <2>7. ASSUME Interfaces(name) # {}, outcome' = outcome, Goto("interface", new)
        PROVE  SchemaInv'
    <3>1. IsInterface(name) /\ Interface(name) = Symbol(name)
      BY <2>3, <2>7, InterfaceIsSymbol
    <3>2. InterfaceSeen(new)
      BY <2>5, <3>1 DEF InterfaceSeen
    <3>3. \A k, n : CoveredAt(k, n, "interface", new) => CoveredAt(k, n, "implementations", Top.of)
      BY <2>5 DEF CoveredAt, Past
    <3>4. \A k \in DOMAIN declarations : \A n \in declarations[k].implementations :
              CoveredAt(k, n, "interface", new) => Implements(declarations[k], n)
      BY <2>3, <3>3
    <3> QED
      BY <1>1, <2>3, <2>5, <2>7, <3>2, <3>4, ImplementationsGoto
  <2> QED
    BY <2>1, <2>6, <2>7
<1> QED
  BY <1>2, <1>3

LEMMA InterfaceFieldChecked ==
    ASSUME SchemaInv, Clean, check_interface_field
    PROVE  SchemaInv'
<1>1. In("document", "interface") /\ UNCHANGED <<schemaVars, root>>
  BY DEF check_interface_field
<1>2. /\ "interface" \in FitPhases /\ DeclarationsInv
      /\ \A i \in DOMAIN directives : DirectiveFits(i)
      /\ DOMAIN Top.of = ImplementingOf /\ Top.of.object \in Nat /\ InterfaceSeen(Top.of)
      /\ \A k \in DOMAIN declarations : \A n \in declarations[k].implementations :
            CoveredAt(k, n, "interface", Top.of) => Implements(declarations[k], n)
  BY <1>1, ImplementationsSeen
<1>3. Interface(Top.of.name) = Symbol(Top.of.name)
  BY <1>2, InterfaceIsSymbol DEF InterfaceSeen
<1>4. PICK field, problem :
          /\ field \in Top.of.fields
          /\ problem = FieldProblem(declarations[Top.of.object], Symbol(Top.of.name), field)
          /\ \E p : Report(p, When(problem # "", problem))
          /\ Goto("interface", [Top.of EXCEPT !.fields = IF problem = Mismatch THEN {} ELSE @ \ {field}])
  BY <1>3 DEF check_interface_field, Foremost
<1>5. problem = "" /\ outcome' = outcome
  BY <1>4, ReportWhen DEF Clean, Report
<1>6. PICK of : of = WithFields(Top.of, Top.of.fields \ {field})
  OBVIOUS
<1>7. Goto("interface", of)
  <2>1. problem # Mismatch
    BY <1>5, Zenon DEF Mismatch
  <2> QED
    BY <1>4, <1>6, <2>1 DEF WithFields
<1>8. /\ DOMAIN of = ImplementingOf /\ of.object = Top.of.object /\ of.names = Top.of.names
      /\ of.name = Top.of.name /\ of.fields = Top.of.fields \ {field}
  BY <1>2, <1>6, NextFields
<1>9. Alike(declarations[Top.of.object], Symbol(Top.of.name), field)
  BY <1>4, <1>5 DEF Alike
<1>10. InterfaceSeen(of)
  BY <1>2, <1>8, <1>9 DEF InterfaceSeen
<1>11. \A k, n : CoveredAt(k, n, "interface", of) => CoveredAt(k, n, "interface", Top.of)
  BY <1>8 DEF CoveredAt, Past
<1>12. \A k \in DOMAIN declarations : \A n \in declarations[k].implementations :
          CoveredAt(k, n, "interface", of) => Implements(declarations[k], n)
  BY <1>2, <1>11
<1>13. of.object \in Nat
  BY <1>2, <1>8
<1> QED
  BY <1>1, <1>2, <1>5, <1>7, <1>8, <1>10, <1>12, <1>13, ImplementationsGoto

LEMMA InterfaceEnd ==
    ASSUME SchemaInv, end_interface
    PROVE  SchemaInv'
<1>1. /\ In("document", "interface") /\ UNCHANGED <<schemaVars, root>> /\ Top.of.fields = {} /\ outcome' = outcome
      /\ Goto("implementations", Top.of)
  BY DEF end_interface
<1>2. /\ "interface" \in FitPhases /\ DeclarationsInv
      /\ \A i \in DOMAIN directives : DirectiveFits(i)
      /\ DOMAIN Top.of = ImplementingOf /\ Top.of.object \in Nat /\ InterfaceSeen(Top.of)
      /\ \A k \in DOMAIN declarations : \A n \in declarations[k].implementations :
            CoveredAt(k, n, "interface", Top.of) => Implements(declarations[k], n)
  BY <1>1, ImplementationsSeen
<1>3. PICK of : of = Top.of
  OBVIOUS
<1>4. Implements(declarations[of.object], of.name)
  <2>1. IsInterface(of.name) /\ \A f \in DOMAIN Symbol(of.name).fields : Alike(declarations[of.object], Symbol(of.name), f)
    BY <1>1, <1>2, <1>3 DEF InterfaceSeen
  <2> QED
    BY <2>1 DEF Implements, Alike
<1>5. ASSUME NEW k \in DOMAIN declarations, NEW n \in declarations[k].implementations,
             CoveredAt(k, n, "implementations", of)
      PROVE  Implements(declarations[k], n)
  <2>1. CASE k = of.object /\ n = of.name
    BY <1>4, <2>1
  <2>2. CASE ~ (k = of.object /\ n = of.name)
    <3>1. CoveredAt(k, n, "interface", of)
      BY <1>5, <2>2 DEF CoveredAt
    <3> QED
      BY <1>2, <1>3, <3>1
  <2> QED
    BY <2>1, <2>2
<1> QED
  BY <1>1, <1>2, <1>3, <1>5, ImplementationsGoto

LEMMA NextObject ==
    ASSUME SchemaInv, next_object
    PROVE  SchemaInv'
<1>1. PICK next : next = Top.of.object + 1
  OBVIOUS
<1>2. PICK of, first : of = Implementing(next, declarations[next].implementations) /\ first = [union |-> 0, members |-> {}]
  OBVIOUS
<1>3. /\ In("document", "implementations") /\ UNCHANGED <<schemaVars, root>> /\ Top.of.names = {} /\ outcome' = outcome
      /\ IF next <= Len(declarations) THEN Goto("implementations", of) ELSE Goto("unions", first)
  BY <1>1, <1>2 DEF next_object
<1>4. /\ "implementations" \in FitPhases /\ DeclarationsInv
      /\ \A i \in DOMAIN directives : DirectiveFits(i)
      /\ Top.of.object \in Nat
      /\ \A k \in DOMAIN declarations : \A n \in declarations[k].implementations :
            CoveredAt(k, n, "implementations", Top.of) => Implements(declarations[k], n)
  BY <1>3, ImplementationsSeen
<1>5. next \in Nat
  BY <1>1, <1>4
<1>6. \A k \in DOMAIN declarations : k < next => \A n : CoveredAt(k, n, "implementations", Top.of)
  <2>1. \A k \in DOMAIN declarations : k < next => k < Top.of.object \/ k = Top.of.object
    BY <1>1, <1>4, DeclarationNumbers
  <2> QED
    BY <1>3, <2>1 DEF CoveredAt, Past
<1>7. CASE next <= Len(declarations)
  <2>1. Goto("implementations", of)
    BY <1>3, <1>7
  <2>2. DOMAIN of = ImplementingOf /\ of.object = next /\ of.names = declarations[next].implementations
    BY <1>2, ImplementingFields
  <2>3. \A k \in DOMAIN declarations : \A n \in declarations[k].implementations :
            CoveredAt(k, n, "implementations", of) => k < next
    BY <2>2 DEF CoveredAt, Past
  <2>4. \A k \in DOMAIN declarations : \A n \in declarations[k].implementations :
            CoveredAt(k, n, "implementations", of) => Implements(declarations[k], n)
    BY <1>4, <1>6, <2>3
  <2> QED
    BY <1>3, <1>4, <1>5, <2>1, <2>2, <2>4, ImplementationsGoto
<1>8. CASE ~ (next <= Len(declarations))
  <2>1. Goto("unions", first)
    BY <1>3, <1>8
  <2>2. DOMAIN first = UnionOf /\ first.union = 0 /\ first.union \in Nat
    BY <1>2 DEF UnionOf
  <2>3. \A k \in DOMAIN declarations : k < next /\ \A name : ~ Seen(k, name, first)
    BY <1>4, <1>5, <1>8, <2>2, DeclarationNumbers DEF Seen
  <2>4. \A k \in DOMAIN declarations : \A n \in declarations[k].implementations : Implements(declarations[k], n)
    BY <1>4, <1>6, <2>3
  <2> QED
    BY <1>3, <1>4, <2>1, <2>2, <2>3, <2>4, UnionsGoto
<1> QED
  BY <1>7, <1>8

LEMMA UnionsSeen ==
    ASSUME SchemaInv, In("document", "unions")
    PROVE  /\ "unions" \in FitPhases /\ DeclarationsInv
           /\ \A i \in DOMAIN directives : DirectiveFits(i)
           /\ DOMAIN Top.of = UnionOf /\ Top.of.union \in Nat
           /\ \A k \in DOMAIN declarations : \A name \in declarations[k].implementations : Implements(declarations[k], name)
           /\ \A k \in DOMAIN declarations : \A name \in declarations[k].members : Seen(k, name, Top.of) => IsMember(name)
<1>1. "unions" \in FitPhases /\ "unions" \in LatePhases
  BY DEF FitPhases, LatePhases
<1>2. /\ DeclarationsInv /\ ImplementationsInv /\ UnionsInv /\ Phase = "unions" /\ Top = frames[1]
      /\ \A i \in DOMAIN directives : DirectiveFits(i)
  BY <1>1, InLate
<1>3. \A k \in DOMAIN declarations : \A name \in declarations[k].implementations : Implements(declarations[k], name)
  BY <1>2 DEF ImplementationsInv, Covered
<1>4. /\ DOMAIN Top.of = UnionOf /\ Top.of.union \in Nat
      /\ \A k \in DOMAIN declarations : \A name \in declarations[k].members : Seen(k, name, Top.of) => IsMember(name)
  BY <1>2 DEF UnionsInv, Seen
<1> QED
  BY <1>1, <1>2, <1>3, <1>4

WithMembers(of, members) == [of EXCEPT !.members = members]
LEMMA NextMembers ==
    ASSUME NEW of, DOMAIN of = UnionOf, NEW members, NEW new, new = WithMembers(of, members)
    PROVE  DOMAIN new = UnionOf /\ new.union = of.union /\ new.members = members
BY Zenon DEF UnionOf, WithMembers

LEMMA UnionMemberChecked ==
    ASSUME SchemaInv, Clean, check_union_member
    PROVE  SchemaInv'
<1>1. In("document", "unions") /\ UNCHANGED <<schemaVars, root>> /\ outcome' = outcome
  BY DEF check_union_member, Report
<1>2. PICK name, of :
          /\ name \in Top.of.members /\ of = WithMembers(Top.of, Top.of.members \ {name}) /\ Goto("unions", of)
          /\ \E p : Report(p, MemberProblem(name))
  BY DEF check_union_member, Foremost, WithMembers
<1>3. IsMember(name)
  <2>1. name \in Symbols
    BY <1>2, ReportOne DEF Clean, MemberProblem
  <2>2. \E p : Report(p, When(Symbol(name).kind # "type", "Only_objects_are_allowed_as_members_in_a_union"))
    BY <1>2, <2>1 DEF MemberProblem
  <2> QED
    BY <2>1, <2>2, ReportWhen DEF Clean, IsMember
<1>4. /\ "unions" \in FitPhases
      /\ \A i \in DOMAIN directives : DirectiveFits(i)
      /\ DOMAIN Top.of = UnionOf /\ Top.of.union \in Nat
      /\ \A k \in DOMAIN declarations : \A n \in declarations[k].implementations : Implements(declarations[k], n)
      /\ \A k \in DOMAIN declarations : \A n \in declarations[k].members : Seen(k, n, Top.of) => IsMember(n)
  BY <1>1, UnionsSeen
<1>5. DOMAIN of = UnionOf /\ of.union = Top.of.union /\ of.members = Top.of.members \ {name} /\ of.union \in Nat
  BY <1>2, <1>4, NextMembers
<1>6. \A k, n : Seen(k, n, of) => Seen(k, n, Top.of) \/ n = name
  BY <1>5 DEF Seen
<1>7. \A k \in DOMAIN declarations : \A n \in declarations[k].members : Seen(k, n, of) => IsMember(n)
  BY <1>3, <1>4, <1>6
<1> QED
  BY <1>1, <1>2, <1>4, <1>5, <1>7, UnionsGoto

LEMMA NextUnion ==
    ASSUME SchemaInv, next_union
    PROVE  SchemaInv'
<1>1. PICK next : next = Top.of.union + 1
  OBVIOUS
<1>2. PICK of : of = [union |-> next, members |-> declarations[next].members]
  OBVIOUS
<1>3. /\ In("document", "unions") /\ UNCHANGED <<schemaVars, root>> /\ Top.of.members = {}
      /\ \/ next <= Len(declarations) /\ Goto("unions", of) /\ outcome' = outcome
         \/ next > Len(declarations) /\ Stop("done")
  BY <1>1, <1>2 DEF next_union
<1>4. /\ "unions" \in FitPhases /\ DeclarationsInv
      /\ \A i \in DOMAIN directives : DirectiveFits(i)
      /\ DOMAIN Top.of = UnionOf /\ Top.of.union \in Nat
      /\ \A k \in DOMAIN declarations : \A n \in declarations[k].implementations : Implements(declarations[k], n)
      /\ \A k \in DOMAIN declarations : \A n \in declarations[k].members : Seen(k, n, Top.of) => IsMember(n)
  BY <1>3, UnionsSeen
<1>5. CASE Goto("unions", of) /\ outcome' = outcome
  <2>1. DOMAIN of = UnionOf /\ of.union = next /\ of.members = declarations[next].members /\ next \in Nat
    BY <1>1, <1>2, <1>4 DEF UnionOf
  <2>2. \A k \in DOMAIN declarations : k < next => \A n : Seen(k, n, Top.of)
    <3>1. \A k \in DOMAIN declarations : k < next => k < Top.of.union \/ k = Top.of.union
      BY <1>1, <1>4, DeclarationNumbers
    <3> QED
      BY <1>3, <3>1 DEF Seen
  <2>3. \A k \in DOMAIN declarations : \A n \in declarations[k].members : Seen(k, n, of) => k < next
    BY <2>1 DEF Seen
  <2>4. \A k \in DOMAIN declarations : \A n \in declarations[k].members : Seen(k, n, of) => IsMember(n)
    BY <1>4, <2>2, <2>3
  <2> QED
    BY <1>3, <1>4, <1>5, <2>1, <2>4, UnionsGoto
<1>6. CASE next > Len(declarations) /\ Stop("done")
  <2>1. /\ outcome' = "done" /\ UNCHANGED <<frames, result, types, declarations, directives, directive_definitions, root>>
    BY <1>3, <1>6, SchemaVarsSame DEF Stop
  <2>2. Phase = "unions" /\ Phase' = "unions" /\ Top = frames[1] /\ StackInv /\ Phase \notin ReadPhases
    <3>1. "unions" \in LatePhases
      BY DEF LatePhases
    <3> QED
      BY <1>3, <2>1, <3>1, InLate DEF Phase
  <2>3. DeclarationsInv' /\ StackInv' /\ RootInv'
    BY <1>4, <2>1, <2>2, DeclarationsStay DEF SchemaInv, StackInv, RootInv, Phase
  <2>4. TypesInv'
    BY <2>1, SameReferenceFits DEF SchemaInv, TypesInv, TypeFits, Referenced, Phase
  <2>5. DirectivesInv'
    <3>1. \A t : StrictAgain(t)' <=> StrictAgain(t)
      BY <2>1 DEF StrictAgain, Strict
    <3>2. \A i, a : Pending(i, a)' <=> Pending(i, a)
      BY <2>1 DEF Pending
    <3>3. \A i : DirectiveFits(i)' <=> DirectiveFits(i)
      BY <2>1, <3>1, <3>2 DEF DirectiveFits
    <3> QED
      BY <2>1, <3>3 DEF SchemaInv, DirectivesInv, Phase
  <2>6. ImplementationsInv'
    BY <1>4, <2>1, <2>2, SameImplements DEF ImplementationsInv
  <2>7. UnionsInv'
    <3>1. Top.of.union >= Len(declarations)
      BY <1>1, <1>4, <1>6, DeclarationNumbers
    <3> QED
      BY <1>3, <1>4, <2>1, <2>2, <3>1, SameImplements DEF UnionsInv, Seen
  <2> QED
    BY <2>2, <2>3, <2>4, <2>5, <2>6, <2>7 DEF SchemaInv
<1> QED
  BY <1>3, <1>5, <1>6

-----------------------------------------------------------------------------
(* The invariant *)

LEMMA InitialSchema ==
    ASSUME Init
    PROVE  CleanInv
<1>1. PICK f : f = Frame("document", "begin", 0)
  OBVIOUS
<1>2. f.fn = "document" /\ f.at = "begin"
  BY <1>1 DEF Frame
<1>3. /\ frames = <<f>> /\ types = <<>> /\ declarations = <<>> /\ directives = <<>> /\ directive_definitions = <<>>
      /\ diagnostics = <<>> /\ outcome = "running"
  BY <1>1 DEF Init
<1>4. /\ IsSequence(frames) /\ Len(frames) = 1 /\ DOMAIN frames = 1 .. 1 /\ frames[1] = f
      /\ IsSequence(types) /\ IsSequence(declarations) /\ IsSequence(directives) /\ IsSequence(diagnostics)
  BY <1>3, ShortSequences
<1>5. Phase = "begin" /\ Phase \in ReadPhases /\ outcome # "done"
  BY <1>2, <1>3, <1>4 DEF Phase, ReadPhases
<1>6. StackInv
  <2>1. Placed(1, f.fn, f.at) /\ Shaped(f, Len(types)) /\ Got(f, result, Len(types))
    BY <1>2 DEF Placed, Shaped, Got, TypeKinds
  <2>2. \A i \in DOMAIN frames : i = 1 /\ ~ (i < Len(frames))
    BY <1>4
  <2>3. Len(frames) > 0
    BY <1>4
  <2> QED
    BY <1>4, <2>1, <2>2, <2>3 DEF StackInv, StackOk
<1>7. DOMAIN types = {} /\ DOMAIN declarations = {} /\ DOMAIN directive_definitions = {}
  BY <1>3
<1>8. DeclarationsInv /\ TypesRead /\ DirectivesRead
  BY <1>4, <1>7 DEF DeclarationsInv, TypesRead, DirectivesRead
<1>9. SchemaInv
  BY <1>5, <1>6, <1>8, ReadInvIsSchemaInv DEF ReadInv
<1> QED
  BY <1>4, <1>9 DEF CleanInv

LEMMA CheckSchemaKeepsInv ==
    ASSUME SchemaInv, Clean, CheckSchema
    PROVE  SchemaInv'
<1>1. CASE set_root_types
  <2>1. In("document", "begin")
    BY <1>1 DEF set_root_types
  <2>2. Phase \in ReadPhases
    BY <2>1, TopPlace DEF SchemaInv, ReadPhases
  <2> QED
    BY <1>1, <2>2, ReadInvIsSchemaInv, RootTypesSet
<1>2. CASE ~ set_root_types
  BY <1>2, ForwardReferenceChecked, ForwardReferencesEnd, RecursiveChecked, DirectiveReferenceChecked,
     DirectiveArgumentChecked, ArgumentsReported, ArgumentReported, DirectiveReferenceEnd, DirectiveReferencesEnd,
     ObjectImplementationChecked, InterfaceFieldChecked, InterfaceEnd, NextObject, UnionMemberChecked, NextUnion
     DEF CheckSchema
<1> QED
  BY <1>1, <1>2

LEMMA CheckValueKeepsInv ==
    ASSUME SchemaInv, Clean, CheckValue
    PROVE  SchemaInv'
BY ScalarChecked, ListChecked, ListElementChecked, ListEnd, ValueRefused, InputObjectChecked, ObjectFieldChecked,
   MissingFieldsChecked DEF CheckValue

\* The functions that read are on the stack only while the document is read.
Reading ==
    \/ \E fn, at : fn \in ReadFns \cup PrimaryTokens /\ In(fn, at)
    \/ \E at : at \in ReadPhases /\ In("document", at)

LEMMA ReadingPhase ==
    ASSUME SchemaInv, Reading
    PROVE  ReadInv
<1>1. StackInv
  BY DEF SchemaInv
<1>2. Phase \in ReadPhases
  BY <1>1, TopPlace DEF Reading, ReadPhases
<1> QED
  BY <1>2, ReadInvIsSchemaInv

LEMMA ReadFunctions ==
    ASSUME NEW fn, fn \in {"value", "arguments", "directives", "type_annotation", "arguments_definition", "fields",
                           "union", "directive", "schema"} \cup TypeKinds, NEW at, In(fn, at)
    PROVE  Reading
BY DEF Reading, ReadFns, PrimaryTokens, TypeKinds

LEMMA ParsersRead ==
    ASSUME ParseDocument \/ ParseTypes \/ ParseOthers \/ ParseDirectives
    PROVE  Reading
<1>1. CASE ParseDocument
  <2>1. In("document", "begin") \/ In("document", "parsed")
    BY <1>1 DEF ParseDocument, parse_primary_token, end_definition
  <2> QED
    BY <2>1 DEF Reading, ReadPhases
<1>2. CASE ParseDirectives
  BY <1>2, DirectiveSteps DEF Reading, ValueFns, ReadFns
<1>3. CASE ParseTypes
  <2>1. CASE parse_type_annotation
    BY <2>1, ReadFunctions DEF parse_type_annotation
  <2>2. CASE parse_argument_definition \/ argument_directives \/ end_argument_definition
    BY <2>2, ReadFunctions DEF parse_argument_definition, argument_directives, end_argument_definition
  <2>3. CASE parse_field \/ parse_field_type \/ end_field
    BY <2>3, ReadFunctions DEF parse_field, parse_field_type, end_field
  <2>4. CASE parse_type_name
    BY <2>4, ReadFunctions DEF parse_type_name, InType
  <2>5. CASE parse_type_body
    BY <2>5, ReadFunctions DEF parse_type_body, InType
  <2>6. CASE parse_implementation
    BY <2>6, ReadFunctions DEF parse_implementation, TypeKinds
  <2>7. CASE end_fields
    BY <2>7, ReadFunctions DEF end_fields, InType
  <2>8. CASE parse_enum_value \/ end_enum_value
    BY <2>8, ReadFunctions DEF parse_enum_value, end_enum_value, TypeKinds
  <2> QED
    BY <1>3, <2>1, <2>2, <2>3, <2>4, <2>5, <2>6, <2>7, <2>8 DEF ParseTypes
<1>4. CASE ParseOthers
  <2>1. CASE parse_union \/ end_union
    BY <2>1, ReadFunctions DEF parse_union, NoUnion, end_union
  <2>2. CASE parse_directive_name \/ end_directive_arguments
    BY <2>2, ReadFunctions DEF parse_directive_name, end_directive_arguments
  <2>3. CASE parse_first_location \/ parse_location \/ end_directive_definition
    BY <2>3, ReadFunctions DEF parse_first_location, parse_location, end_directive_definition
  <2>4. CASE parse_schema \/ parse_schema_field
    BY <2>4, ReadFunctions DEF parse_schema, parse_schema_field
  <2> QED
    BY <1>4, <2>1, <2>2, <2>3, <2>4 DEF ParseOthers
<1> QED
  BY <1>1, <1>2, <1>3, <1>4

LEMMA ParsersKeepInv ==
    ASSUME SchemaInv, Clean, ParseDocument \/ ParseTypes \/ ParseOthers \/ ParseDirectives, root' = root
    PROVE  SchemaInv'
<1>1. ReadInv
  BY ParsersRead, ReadingPhase
<1>2. CASE ParseOthers /\ Stop("thrown")
  <2>1. parse_directive_name \/ outcome' = outcome
    BY <1>2 DEF ParseOthers, Report, parse_union, NoUnion, end_union, end_directive_arguments, parse_first_location,
       parse_location, end_directive_definition, parse_schema, parse_schema_field
  <2>2. UNCHANGED schemaVars
    <3>1. outcome = "running"
      BY ParsersRead DEF Reading, In
    <3>2. outcome' # outcome
      BY <1>2, <3>1 DEF Stop
    <3> QED
      BY <2>1, <3>2 DEF parse_directive_name
  <2> QED
    BY <1>2, <2>2, StopKeepsInv
<1>3. CASE ~ (ParseOthers /\ Stop("thrown"))
  <2>1. ReadInv'
    BY <1>1, <1>3, ParseDocumentKeepsReadInv, ParseTypesKeepsReadInv, ParseOthersKeepsReadInv, ParseDirectivesKeepsReadInv
  <2> QED
    BY <2>1, ReadInvNext
<1> QED
  BY <1>2, <1>3

LEMMA NextKeepsInv ==
    ASSUME CleanInv, [Next]_vars
    PROVE  CleanInv'
<1>1. IsSequence(diagnostics') /\ (diagnostics' = <<>> => diagnostics = <<>>)
  BY NextReports DEF CleanInv, Reported
<1>2. ASSUME diagnostics' = <<>>
      PROVE  SchemaInv'
  <2>1. Clean /\ SchemaInv
    BY <1>1, <1>2 DEF Clean, CleanInv
  <2>2. CASE Next
    BY <2>1, <2>2, CheckSchemaKeepsInv, CheckValueKeepsInv, ParsersKeepInv DEF Next
  <2>3. CASE UNCHANGED vars
    BY <2>1, <2>3, SameStateKeepsInv DEF vars, parserVars
  <2> QED
    BY <2>2, <2>3
<1> QED
  BY <1>1, <1>2 DEF CleanInv

\* As long as nothing was reported, the functions on the stack know of each other
\* what the code takes for granted: a pointer that was returned is not null, the
\* Type nodes that an argument points to exist, a declaration is complete once its
\* definition was read, and a check has looked at all that its loop has passed.
THEOREM SchemaInvariant == Spec => []CleanInv
<1>1. Init => CleanInv
  BY InitialSchema
<1>2. CleanInv /\ [Next]_vars => CleanInv'
  BY NextKeepsInv
<1> QED
  BY <1>1, <1>2, PTL DEF Spec

-----------------------------------------------------------------------------
(* What it is for *)

LEMMA AcceptedFits ==
    ASSUME CleanInv, Accepted
    PROVE  ReferencesFit /\ DeclarationsFit /\ DirectivesFit /\ root["query"] # 0
<1>1. SchemaInv /\ outcome = "done"
  BY DEF CleanInv, Accepted
<1>2. /\ StackInv /\ DeclarationsInv /\ TypesInv /\ RootInv /\ DirectivesInv /\ ImplementationsInv /\ UnionsInv
      /\ Phase = "unions" /\ Phase \in FitPhases /\ Phase \notin ReadPhases /\ Phase # "directives"
  BY <1>1 DEF SchemaInv, FitPhases, ReadPhases
<1>3. ReferencesFit
  <2>1. DOMAIN types = 1 .. Len(types) /\ Len(types) \in Nat
    BY <1>2, SequenceLength DEF TypesInv
  <2>2. PICK o, T : o = 1 /\ T = References(o)
    OBVIOUS
  <2>3. \A j : j \in T <=> j \in o .. Len(types) /\ IsReference(types[j])
    BY <2>2, ReferencesLeft
  <2>4. \A j \in T : j \in DOMAIN types /\ IsReference(types[j])
    BY <2>1, <2>2, <2>3
  <2>5. \A j \in T : ReferenceFits(types[j])
    BY <1>2, <2>4 DEF TypesInv, TypeFits, Referenced
  <2> QED
    BY <2>2, <2>5 DEF ReferencesFit
<1>4. ASSUME NEW i \in DOMAIN declarations
      PROVE  /\ declarations[i].kind \in {"type", "interface", "input"} => declarations[i].complete
             /\ declarations[i].kind # "union" => i = Min(Named(declarations[i].name))
             /\ \A name \in declarations[i].members : IsMember(name)
             /\ \A name \in declarations[i].implementations : Implements(declarations[i], name)
  <2>1. ~ Unfinished(declarations[i])
    BY <1>2, NothingLeft
  <2>2. ASSUME declarations[i].kind # "union"
        PROVE  i = Min(Named(declarations[i].name))
    <3>1. PICK name : name = declarations[i].name
      OBVIOUS
    <3>2. i \in Named(name)
      BY <3>1 DEF Named
    <3>3. \A j \in Named(name) : j \in DOMAIN declarations /\ i <= j
      BY <1>2, <2>2, <3>1 DEF Named, DeclarationsInv
    <3>4. Named(name) \in SUBSET Nat /\ Min(Named(name)) \in Named(name) /\ \A y \in Named(name) : Min(Named(name)) <= y
      BY <1>2, <3>2, NamedNumbers DEF DeclarationsInv
    <3>5. PICK m : m = Min(Named(name))
      OBVIOUS
    <3>6. m <= i /\ i <= m /\ m \in Nat /\ i \in Nat
      BY <3>2, <3>3, <3>4, <3>5
    <3> QED
      BY <3>1, <3>5, <3>6
  <2>3. \A name \in declarations[i].members : IsMember(name)
    <3>1. frames[1].of.members = {} /\ frames[1].of.union >= Len(declarations) /\ frames[1].of.union \in Nat
      BY <1>1, <1>2 DEF UnionsInv
    <3>2. i \in Nat /\ i <= Len(declarations) /\ Len(declarations) \in Nat
      BY <1>2, DeclarationNumbers
    <3>3. i < frames[1].of.union \/ i = frames[1].of.union
      BY <3>1, <3>2
    <3> QED
      BY <1>2, <3>1, <3>3 DEF UnionsInv
  <2>4. \A name \in declarations[i].implementations : Implements(declarations[i], name)
    BY <1>2 DEF ImplementationsInv, Covered
  <2> QED
    BY <2>1, <2>2, <2>3, <2>4 DEF Unfinished
<1>5. DeclarationsFit
  BY <1>4 DEF DeclarationsFit
<1>6. ~ (Len(frames) > 1)
  <2>1. Len(frames) \in Nat /\ DOMAIN frames = 1 .. Len(frames)
    BY <1>2, SequenceLength DEF StackInv, StackOk
  <2>2. Len(frames) > 1 => Placed(2, frames[2].fn, Phase)
    BY <1>2, <2>1 DEF StackInv, StackOk, Phase
  <2> QED
    BY <1>2, <2>2 DEF Placed
<1>7. DirectivesFit
  <2>1. \A i \in DOMAIN directives : DirectiveFits(i)
    BY <1>2 DEF DirectivesInv
  <2>2. \A i, a : ~ Pending(i, a)
    BY <1>6 DEF Pending
  <2>3. \A t : Strict(t) => StrictAgain(t)
    BY DEF StrictAgain
  <2> QED
    BY <2>1, <2>2, <2>3 DEF DirectivesFit, DirectiveFits
<1> QED
  BY <1>2, <1>3, <1>5, <1>7 DEF RootInv

\* A schema that is accepted without a diagnostic holds together, whatever the
\* document is (the constructor of GraphQlSchema, set_root_types and the checks):
\* every type that is named is defined once and can be where it is named, interfaces
\* are implemented field by field, the members of unions are object types, directives
\* are defined for where they are and have the arguments that they require, and there
\* is a query.
THEOREM SchemaAccepted == Spec => []AcceptedIsClosed
<1>1. CleanInv => AcceptedIsClosed
  BY AcceptedFits DEF AcceptedIsClosed
<1> QED
  BY <1>1, SchemaInvariant, PTL
=============================================================================
