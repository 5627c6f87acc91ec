------------------------ MODULE GraphQlExecutorProofs ------------------------
(***************************************************************************)
(* Proofs about the executor, for every document and every schema: how the *)
(* stack of types follows the nesting of the selection sets, and that the  *)
(* schema is as it was before when a list was read.                        *)
(***************************************************************************)
EXTENDS GraphQlExecutor, GraphQlParserProofs

-----------------------------------------------------------------------------
(* Invariants *)

StructureFns == {"document", "operation", "fragment", "selection"}
CallFns == {"value", "arguments", "directives"}
ValueFns == CallFns \cup {"variables"}

\* The frames that can be under a selection set: the set around it is in the
\* middle of its loop, the operation or the fragment behind its body.
Encloses(i) ==
    \/ i = 1
    \/ i = 2 /\ frames[i].at = "end"
    \/ i > 2 /\ frames[i].fn = "selection" /\ frames[i].at = "begin"

\* The document, a definition, selection sets, and what is read in the innermost.
FramesInv ==
    /\ IsSequence(frames) /\ Len(frames) > 0
    /\ IsSequence(diagnostics)
    /\ \A i \in DOMAIN frames :
          /\ frames[i].fn \in StructureFns \cup ValueFns
          /\ frames[i].fn = "document" <=> i = 1
          /\ frames[i].fn \in {"operation", "fragment"} <=> i = 2
          /\ frames[i].fn = "variables" => i = 3
          /\ frames[i].at = "next" => frames[i].fn = "value"
    /\ \A i, j \in DOMAIN frames : i < j /\ frames[j].fn = "selection" => Encloses(i)
    /\ 3 \in DOMAIN frames =>
          /\ frames[2].at = "end" => frames[3].fn = "selection"
          /\ frames[2].fn = "fragment" => frames[2].at \in {"body", "end"}

\* What is counted to report it is finite.
Counted(frame) ==
    /\ frame.fn = "arguments" => IsFiniteSet(DOMAIN frame.of.definitions)
    /\ frame.fn = "value" /\ frame.at \in {"object", "object_field", "end_object"} =>
          /\ IsFiniteSet(RequiredFields(frame.of.type.name))
          /\ IsSequence(frame.of.object_fields)

CountedInv == \A i \in DOMAIN frames : Counted(frames[i])

\* An operation and a fragment have pushed their type in front of their body.
Pushed(i) ==
    \/ frames[i].fn = "operation" /\ frames[i].at # "end"
    \/ frames[i].fn = "fragment" /\ frames[i].at = "body"

\* The field that is read is one of the type on top.
BodyInv ==
    /\ \A i \in DOMAIN frames : Pushed(i) => Len(current_object_types) > 0
    /\ \A i \in DOMAIN frames : frames[i].fn = "operation" => Root(frames[i].of) \in Symbols
    /\ \A i \in SelectionFrames :
          frames[i].at \in {"directives", "body"} =>
              Defines(current_object_types[Len(current_object_types)], frames[i].of.field)

\* A definition has only its own type pushed, and only in front of its body.
DefinitionTypes ==
    /\ Len(frames) = 1 => current_object_types = <<>>
    /\ 2 \in DOMAIN frames /\ Pushed(2) =>
          /\ Len(current_object_types) = 1
          /\ frames[2].fn = "operation" => current_object_types[1] = Root(frames[2].of)
          /\ frames[2].fn = "fragment" => current_object_types[1] = frames[2].of.type
    /\ Len(frames) = 2 /\ ~ Pushed(2) => current_object_types = <<>>

\* As long as nothing was reported, the height of current_object_types is the
\* number of selection sets, one more where a type waits for its set.
Innermost(i) == i \in SelectionFrames /\ (i < Len(frames) => frames[i + 1].fn # "selection")

NestingInv ==
    diagnostics = <<>> =>
        /\ \A i \in SelectionFrames :
              frames[i].of.base = i - 2 /\ current_object_types[i - 2] = frames[i].of.type
        /\ DefinitionTypes
        /\ \A i \in SelectionFrames : Innermost(i) =>
              IF frames[i].at = "inline"
              THEN Len(current_object_types) = i - 1 /\ current_object_types[i - 1] = frames[i].of.field
              ELSE Len(current_object_types) = i - 2
        /\ "undefined_field" \notin flaws

\* The lists whose elements are read are those that are switched off.
ListsInv ==
    diagnostics = <<>> =>
        /\ \A i \in DOMAIN frames : frames[i].at = "next" =>
              /\ frames[i].of.id \in ListTypes \cup {"variable"}
              /\ frames[i].of.id \notin list_types
        /\ \A i, j \in DOMAIN frames :
              frames[i].at = "next" /\ frames[j].at = "next" /\ frames[i].of.id = frames[j].of.id => i = j
        /\ list_types \subseteq ListTypes \cup {"variable"}
        /\ \A id \in ListTypes \ list_types :
              \E i \in DOMAIN frames : frames[i].at = "next" /\ frames[i].of.id = id

ExecutorInv ==
    FramesInv /\ CountedInv /\ StackCoversSelections /\ BodyInv /\ NestingInv /\ ListsInv

-----------------------------------------------------------------------------
(* Messages *)

LEMMA ReportsAreReported ==
    ASSUME FramesInv, Reports
    PROVE  Reported
BY ConcatSequences DEF FramesInv, Reports, Report, Reported

LEMMA ReportedMessages ==
    ASSUME FramesInv, NEW p, NEW messages, IsSequence(messages), Report(p, messages)
    PROVE  Reported /\ (diagnostics' = <<>> => messages = <<>>)
BY ConcatSequences DEF FramesInv, Report, Reported

-----------------------------------------------------------------------------
(* The steps of arguments, values, directives and variables *)

\* The frame on top is one of theirs; it goes on, calls one of them or returns.
ValueStep ==
    /\ current_object_types' = current_object_types
    /\ flaws' = flaws
    /\ Reported
    /\ frames[Len(frames)].fn \in ValueFns
    /\ IsSequence(frames') /\ Below
    /\ \/ Len(frames') = Len(frames) - 1
       \/ /\ Len(frames') = Len(frames)
          /\ frames'[Len(frames)].fn = frames[Len(frames)].fn
          /\ frames'[Len(frames)].at = "next" => frames[Len(frames)].fn = "value"
       \/ /\ Len(frames') = Len(frames) + 1
          /\ frames'[Len(frames)].fn = frames[Len(frames)].fn
          /\ frames'[Len(frames)].at = "next" => frames[Len(frames)].fn = "value"
          /\ frames'[Len(frames) + 1].fn \in CallFns
          /\ frames'[Len(frames) + 1].at = "begin"

\* Nothing is said of the frames and of the schema.
ValueAction ==
    /\ current_object_types' = current_object_types
    /\ flaws' = flaws
    /\ Reported
    /\ frames[Len(frames)].fn \in ValueFns

\* The same lists are read, at the same places.
KeepsNext ==
    /\ \A i \in DOMAIN frames : frames[i].at = "next" =>
          i \in DOMAIN frames' /\ frames'[i].at = "next" /\ frames'[i].of = frames[i].of
    /\ \A i \in DOMAIN frames' : frames'[i].at = "next" => i \in DOMAIN frames /\ frames[i].at = "next"

LEMMA NextKept ==
    ASSUME FramesInv, IsSequence(frames'), Below,
           Len(frames') \in {Len(frames) - 1, Len(frames), Len(frames) + 1},
           frames[Len(frames)].at = "next" => Len(frames') >= Len(frames),
           Len(frames') >= Len(frames) =>
              /\ frames[Len(frames)].at = "next" <=> frames'[Len(frames)].at = "next"
              /\ frames[Len(frames)].at = "next" => frames'[Len(frames)].of = frames[Len(frames)].of,
           Len(frames') = Len(frames) + 1 => frames'[Len(frames) + 1].at # "next"
    PROVE  KeepsNext
<1>1. PICK n : n = Len(frames) /\ n \in Nat /\ n > 0 /\ DOMAIN frames = 1 .. n
  BY SequenceLength DEF FramesInv
<1>2. PICK m : m = Len(frames') /\ m \in {n - 1, n, n + 1} /\ DOMAIN frames' = 1 .. m
  BY <1>1, SequenceLength
<1>3. \A i \in 1 .. n - 1 : frames'[i] = frames[i]
  BY <1>1 DEF Below
<1>4. /\ frames[n].at = "next" => m >= n
      /\ m >= n => (frames[n].at = "next" <=> frames'[n].at = "next")
      /\ m >= n /\ frames[n].at = "next" => frames'[n].of = frames[n].of
      /\ m = n + 1 => frames'[n + 1].at # "next"
  BY <1>1, <1>2
<1>5. \A i \in 1 .. n : i \in 1 .. n - 1 \/ i = n
  BY <1>1
<1>6. \A i \in 1 .. m : i \in 1 .. n - 1 \/ (i = n /\ m >= n) \/ (i = n + 1 /\ m = n + 1)
  BY <1>1, <1>2
<1>7. \A i \in 1 .. n - 1 : i \in 1 .. m
  BY <1>1, <1>2
<1>8. m >= n => n \in 1 .. m
  BY <1>1, <1>2
<1>9. \A i \in 1 .. n : frames[i].at = "next" =>
          i \in 1 .. m /\ frames'[i].at = "next" /\ frames'[i].of = frames[i].of
  BY <1>3, <1>4, <1>5, <1>7, <1>8
<1>10. \A i \in 1 .. m : frames'[i].at = "next" => i \in 1 .. n /\ frames[i].at = "next"
  BY <1>1, <1>3, <1>4, <1>6
<1> QED
  BY <1>1, <1>2, <1>9, <1>10 DEF KeepsNext

LEMMA Steps ==
    ASSUME NEW n \in Nat
    PROVE  n # n + 1 /\ n >= n /\ n - 1 # n + 1 /\ ~ n - 1 >= n
OBVIOUS

LEMMA ValueGoto ==
    ASSUME FramesInv, CountedInv, ValueAction, NEW at, NEW of, Goto(at, of),
           at = "next" => frames[Len(frames)].fn = "value",
           Counted(Frame(frames[Len(frames)].fn, at, of))
    PROVE  /\ ValueStep /\ CountedInv'
           /\ /\ frames[Len(frames)].at = "next" <=> at = "next"
              /\ at = "next" => of = frames[Len(frames)].of
              => KeepsNext
<1>1. IsSequence(frames) /\ Len(frames) > 0 /\ Len(frames) \in Nat /\ DOMAIN frames = 1 .. Len(frames)
  BY SequenceLength DEF FramesInv
<1>2. /\ IsSequence(frames') /\ Len(frames') = Len(frames) /\ Below
      /\ frames'[Len(frames)] = Frame(frames[Len(frames)].fn, at, of)
  BY <1>1, AfterGoto
<1>3. DOMAIN frames' = 1 .. Len(frames)
  BY <1>2, SequenceLength
<1>4. ValueStep
  BY <1>2 DEF ValueAction, ValueStep, Frame
<1>5. CountedInv'
  BY <1>1, <1>2, <1>3 DEF CountedInv, Below
<1>6. frames'[Len(frames)].at = at /\ frames'[Len(frames)].of = of
  BY <1>2 DEF Frame
<1>7. ASSUME frames[Len(frames)].at = "next" <=> at = "next",
             at = "next" => of = frames[Len(frames)].of
      PROVE  KeepsNext
  <2>1. Len(frames') # Len(frames) + 1 /\ Len(frames') >= Len(frames)
    BY <1>1, <1>2, Steps
  <2> QED
    BY <1>2, <1>6, <1>7, <2>1, NextKept
<1> QED
  BY <1>4, <1>5, <1>7

LEMMA ValueCall ==
    ASSUME FramesInv, CountedInv, ValueAction, NEW at, NEW of, NEW fn \in CallFns, NEW what,
           Call(at, of, Frame(fn, "begin", what)),
           at = "next" => frames[Len(frames)].fn = "value",
           Counted(Frame(frames[Len(frames)].fn, at, of)), Counted(Frame(fn, "begin", what))
    PROVE  /\ ValueStep /\ CountedInv'
           /\ /\ frames[Len(frames)].at = "next" <=> at = "next"
              /\ at = "next" => of = frames[Len(frames)].of
              => KeepsNext
<1>1. IsSequence(frames) /\ Len(frames) > 0 /\ Len(frames) \in Nat /\ DOMAIN frames = 1 .. Len(frames)
  BY SequenceLength DEF FramesInv
<1>2. /\ IsSequence(frames') /\ Len(frames') = Len(frames) + 1 /\ Below
      /\ frames'[Len(frames)] = Frame(frames[Len(frames)].fn, at, of)
      /\ frames'[Len(frames) + 1] = Frame(fn, "begin", what)
  BY <1>1, AfterCall
<1>3. DOMAIN frames' = 1 .. Len(frames) + 1
  BY <1>2, SequenceLength
<1>4. ValueStep
  BY <1>2 DEF ValueAction, ValueStep, Frame
<1>5. CountedInv'
  BY <1>1, <1>2, <1>3 DEF CountedInv, Below
<1>6. /\ frames'[Len(frames)].at = at /\ frames'[Len(frames)].of = of
      /\ Len(frames') = Len(frames) + 1 => frames'[Len(frames) + 1].at = "begin"
  BY <1>1, <1>2 DEF Frame
<1>7. ASSUME frames[Len(frames)].at = "next" <=> at = "next",
             at = "next" => of = frames[Len(frames)].of
      PROVE  KeepsNext
  BY <1>1, <1>2, <1>6, <1>7, NextKept
<1> QED
  BY <1>4, <1>5, <1>7

LEMMA ValueReturn ==
    ASSUME FramesInv, CountedInv, ValueAction, NEW value, Return(value)
    PROVE  ValueStep /\ CountedInv' /\ (frames[Len(frames)].at # "next" => KeepsNext)
<1>1. IsSequence(frames) /\ Len(frames) > 0 /\ Len(frames) \in Nat /\ DOMAIN frames = 1 .. Len(frames)
  BY SequenceLength DEF FramesInv
<1>2. IsSequence(frames') /\ Len(frames') = Len(frames) - 1 /\ Below
  BY <1>1, AfterReturn
<1>3. DOMAIN frames' = 1 .. Len(frames) - 1
  BY <1>2, SequenceLength
<1>4. ValueStep
  BY <1>2 DEF ValueAction, ValueStep
<1>5. CountedInv'
  BY <1>1, <1>2, <1>3 DEF CountedInv, Below
<1>6. ASSUME frames[Len(frames)].at # "next"
      PROVE  KeepsNext
  <2>1. Len(frames') # Len(frames) + 1 /\ ~ Len(frames') >= Len(frames)
    BY <1>1, <1>2, Steps
  <2> QED
    BY <1>2, <1>6, <2>1, NextKept
<1> QED
  BY <1>4, <1>5, <1>6

LEMMA ValueStop ==
    ASSUME FramesInv, CountedInv, ValueAction, frames' = frames
    PROVE  ValueStep /\ CountedInv' /\ KeepsNext
<1>1. IsSequence(frames) /\ Len(frames) > 0 /\ Len(frames) \in Nat /\ DOMAIN frames = 1 .. Len(frames)
  BY SequenceLength DEF FramesInv
<1>2. frames[Len(frames)].at = "next" => frames[Len(frames)].fn = "value"
  BY <1>1 DEF FramesInv
<1>3. ValueStep
  BY <1>1, <1>2 DEF ValueAction, ValueStep, Below
<1>4. CountedInv'
  BY DEF CountedInv
<1> QED
  BY <1>3, <1>4 DEF KeepsNext

\* The conditions of an action on the frame on top.
LEMMA OnTop ==
    ASSUME NEW fn, NEW at, In(fn, at)
    PROVE  frames[Len(frames)].fn = fn /\ frames[Len(frames)].at = at /\ Top = frames[Len(frames)]
BY DEF In, Top, Last

LEMMA TopCounted ==
    ASSUME FramesInv, CountedInv
    PROVE  Counted(frames[Len(frames)])
<1>1. IsSequence(frames) /\ Len(frames) > 0 /\ Len(frames) \in Nat /\ DOMAIN frames = 1 .. Len(frames)
  BY SequenceLength DEF FramesInv
<1> QED
  BY <1>1 DEF CountedInv

LEMMA PlainCounted ==
    ASSUME NEW fn \in {"value", "directives", "variables"}, NEW at, NEW of,
           fn = "value" => at \in {"begin", "next"}
    PROVE  Counted(Frame(fn, at, of))
BY DEF Counted, Frame

LEMMA ListSteps ==
    ASSUME FramesInv, CountedInv, parse_list \/ parse_list_element \/ end_list
    PROVE  ValueStep /\ CountedInv'
<1> USE DEF CallFns, ValueFns
<1>0. IsSequence(diagnostics)
  BY DEF FramesInv
<1>1. CASE parse_list
  <2>1. In("value", "begin") /\ CallValue("next", Top.of, Top.of)
    BY <1>1 DEF parse_list
  <2>2. Reported
    <3>1. Reports
      BY <1>1, ShortSequences, ConcatSequences DEF parse_list, Reports, When
    <3> QED
      BY <3>1, ReportsAreReported
  <2>3. ValueAction
    BY <1>1, <2>1, <2>2, OnTop DEF parse_list, ValueAction
  <2> QED
    BY <2>1, <2>3, OnTop, ValueCall, PlainCounted DEF CallValue
<1>2. CASE parse_list_element
  <2>1. In("value", "next") /\ CallValue("next", Top.of, Top.of)
    BY <1>2 DEF parse_list_element
  <2>2. Reported
    BY <1>0, <1>2 DEF parse_list_element, Reported
  <2>3. ValueAction
    BY <1>2, <2>1, <2>2, OnTop DEF parse_list_element, ValueAction, valueVars
  <2> QED
    BY <2>1, <2>3, OnTop, ValueCall, PlainCounted DEF CallValue
<1>3. CASE end_list
  <2>1. In("value", "next") /\ Return("value")
    BY <1>3 DEF end_list
  <2>2. Reported
    <3>1. Reports
      BY <1>3, ShortSequences, ConcatSequences DEF end_list, Reports, When
    <3> QED
      BY <3>1, ReportsAreReported
  <2>3. ValueAction
    BY <1>3, <2>1, <2>2, OnTop DEF end_list, ValueAction
  <2> QED
    BY <2>1, <2>3, ValueReturn
<1> QED
  BY <1>1, <1>2, <1>3

LEMMA ScalarSteps ==
    ASSUME FramesInv, CountedInv,
           parse_scalar \/ parse_enum_value \/ refuse_object \/ refuse_value \/ undefined_value
    PROVE  ValueStep /\ CountedInv' /\ KeepsNext
<1> USE DEF CallFns, ValueFns
<1>0. IsSequence(diagnostics)
  BY DEF FramesInv
<1>1. CASE parse_scalar
  <2>1. In("value", "begin") /\ \E value : Return(value)
    BY <1>1 DEF parse_scalar
  <2>2. Reported
    <3>1. Reports
      BY <1>1, ShortSequences, ConcatSequences DEF parse_scalar, Reports, When
    <3> QED
      BY <3>1, ReportsAreReported
  <2>3. ValueAction
    BY <1>1, <2>1, <2>2, OnTop DEF parse_scalar, ValueAction
  <2> QED
    BY <2>1, <2>3, OnTop, ValueReturn
<1>2. CASE parse_enum_value
  <2>1. In("value", "begin") /\ Return("value")
    BY <1>2 DEF parse_enum_value
  <2>2. Reported
    <3>1. Reports
      BY <1>2, ShortSequences, ConcatSequences DEF parse_enum_value, Reports, When
    <3> QED
      BY <3>1, ReportsAreReported
  <2>3. ValueAction
    BY <1>2, <2>1, <2>2, OnTop DEF parse_enum_value, ValueAction
  <2> QED
    BY <2>1, <2>3, OnTop, ValueReturn
<1>3. CASE refuse_object
  <2>1. In("value", "begin") /\ Return("null")
    BY <1>3 DEF refuse_object
  <2>2. Reported
    <3>1. Reports
      BY <1>3, ShortSequences, ConcatSequences DEF refuse_object, Reports
    <3> QED
      BY <3>1, ReportsAreReported
  <2>3. ValueAction
    BY <1>3, <2>1, <2>2, OnTop DEF refuse_object, ValueAction
  <2> QED
    BY <2>1, <2>3, OnTop, ValueReturn
<1>4. CASE refuse_value
  <2>1. In("value", "begin") /\ Return("null")
    BY <1>4 DEF refuse_value
  <2>2. Reported
    <3>1. Reports
      BY <1>4, ShortSequences, ConcatSequences DEF refuse_value, Reports
    <3> QED
      BY <3>1, ReportsAreReported
  <2>3. ValueAction
    BY <1>4, <2>1, <2>2, OnTop DEF refuse_value, ValueAction
  <2> QED
    BY <2>1, <2>3, OnTop, ValueReturn
<1>5. CASE undefined_value
  <2>1. In("value", "begin") /\ frames' = frames
    BY <1>5 DEF undefined_value, Undefined, Stop
  <2>2. Reported
    BY <1>0, <1>5 DEF undefined_value, Undefined, Stop, Reported
  <2>3. ValueAction
    BY <1>5, <2>1, <2>2, OnTop DEF undefined_value, ValueAction, valueVars
  <2> QED
    BY <2>1, <2>3, ValueStop
<1> QED
  BY <1>1, <1>2, <1>3, <1>4, <1>5

LEMMA RequiredFieldsFinite ==
    ASSUME NEW type, IsInputObject(type)
    PROVE  IsFiniteSet(RequiredFields(type.name))
<1>1. type.name \in DOMAIN Schema.fields
  BY ExecutorAssumption DEF IsInputObject, SchemaComplete, KindOf
<1>2. IsFiniteSet(FieldsOf(type.name))
  BY <1>1, ExecutorAssumption DEF SchemaComplete
<1>3. RequiredFields(type.name) \subseteq FieldsOf(type.name)
  BY DEF RequiredFields
<1> QED
  BY <1>2, <1>3, FS_Subset

LEMMA ObjectSteps ==
    ASSUME FramesInv, CountedInv,
           parse_object_value \/ parse_object_field \/ end_object_field
    PROVE  ValueStep /\ CountedInv' /\ KeepsNext
<1> USE DEF CallFns, ValueFns
<1>0. IsSequence(diagnostics)
  BY DEF FramesInv
<1>1. CASE parse_object_value
  <2>1. In("value", "begin")
    BY <1>1 DEF parse_object_value
  <2>2. Reported
    <3>1. Reports
      BY <1>1, ShortSequences DEF parse_object_value, Reports
    <3> QED
      BY <3>1, ReportsAreReported
  <2>3. ValueAction
    BY <1>1, <2>1, <2>2, OnTop DEF parse_object_value, ValueAction
  <2>4. CASE IsInputObject(Top.of)
    <3>1. Goto("object", ObjectRead(Top.of, <<>>, <<>>))
      BY <1>1, <2>4 DEF parse_object_value
    <3>2. IsFiniteSet(RequiredFields(Top.of.name))
      BY <2>4, RequiredFieldsFinite
    <3>3. Counted(Frame("value", "object", ObjectRead(Top.of, <<>>, <<>>)))
      BY <3>2, ShortSequences DEF Counted, Frame, ObjectRead
    <3> QED
      BY <2>1, <2>3, <3>1, <3>3, OnTop, ValueGoto
  <2>5. CASE ~ IsInputObject(Top.of)
    <3>1. Return("null")
      BY <1>1, <2>5 DEF parse_object_value
    <3> QED
      BY <2>1, <2>3, <3>1, OnTop, ValueReturn
  <2> QED
    BY <2>4, <2>5
<1>2. CASE parse_object_field
  <2>1. In("value", "object")
    BY <1>2 DEF parse_object_field
  <2>2. Reported
    <3>1. Reports
      BY <1>2, ShortSequences DEF parse_object_field, Reports
    <3> QED
      BY <3>1, ReportsAreReported
  <2>3. ValueAction
    BY <1>2, <2>1, <2>2, OnTop DEF parse_object_field, ValueAction
  <2>4. CASE Return("null")
    BY <2>1, <2>3, <2>4, OnTop, ValueReturn
  <2>5. CASE \E name, type : CallValue("object_field",
                ObjectRead(Top.of.type, Append(Top.of.parsed, name), Top.of.object_fields), type)
    <3>1. PICK of, type :
            /\ CallValue("object_field", of, type)
            /\ \E name : of = ObjectRead(Top.of.type, Append(Top.of.parsed, name), Top.of.object_fields)
      BY <2>5
    <3>2. of.type = Top.of.type /\ of.object_fields = Top.of.object_fields
      BY <3>1 DEF ObjectRead
    <3>3. Counted(Frame("value", "object_field", of))
      BY <2>1, <3>2, OnTop, TopCounted DEF Counted, Frame
    <3> QED
      BY <2>1, <2>3, <3>1, <3>3, OnTop, ValueCall, PlainCounted DEF CallValue
  <2>6. \/ Return("null")
        \/ \E name, type : CallValue("object_field",
                ObjectRead(Top.of.type, Append(Top.of.parsed, name), Top.of.object_fields), type)
    BY <1>2 DEF parse_object_field
  <2> QED
    BY <2>4, <2>5, <2>6
<1>3. CASE end_object_field
  <2>1. In("value", "object_field")
    BY <1>3 DEF end_object_field
  <2>2. Reported
    BY <1>0, <1>3 DEF end_object_field, Reported
  <2>3. ValueAction
    BY <1>3, <2>1, <2>2, OnTop DEF end_object_field, ValueAction, valueVars
  <2>4. PICK of : /\ Goto("object", of)
                  /\ of = ObjectRead(Top.of.type, Top.of.parsed,
                                     Append(Top.of.object_fields, Last(Top.of.parsed)))
    BY <1>3 DEF end_object_field
  <2>5. IsSequence(of.object_fields) /\ IsFiniteSet(RequiredFields(of.type.name))
    BY <2>1, <2>4, OnTop, TopCounted, AppendToSequence DEF Counted, ObjectRead
  <2>6. Counted(Frame("value", "object", of))
    BY <2>5 DEF Counted, Frame
  <2> QED
    BY <2>1, <2>3, <2>4, <2>6, OnTop, ValueGoto
<1> QED
  BY <1>1, <1>2, <1>3

LEMMA EndObjectSteps ==
    ASSUME FramesInv, CountedInv, skip_object_field \/ close_object \/ end_object
    PROVE  ValueStep /\ CountedInv' /\ KeepsNext
<1> USE DEF CallFns, ValueFns
<1>1. CASE skip_object_field
  <2>1. In("value", "object")
    BY <1>1 DEF skip_object_field
  <2>2. Reported
    <3>1. Reports
      BY <1>1, ShortSequences DEF skip_object_field, Reports
    <3> QED
      BY <3>1, ReportsAreReported
  <2>3. ValueAction
    BY <1>1, <2>1, <2>2, OnTop DEF skip_object_field, ValueAction, valueVars
  <2>4. PICK at \in {"object", "end_object"} : Goto(at, Top.of)
    BY <1>1 DEF skip_object_field
  <2>5. Counted(Frame("value", at, Top.of))
    BY <2>1, OnTop, TopCounted DEF Counted, Frame
  <2> QED
    BY <2>1, <2>3, <2>4, <2>5, OnTop, ValueGoto
<1>2. CASE close_object
  <2>1. In("value", "object") /\ Goto("end_object", Top.of)
    BY <1>2 DEF close_object
  <2>2. Reported
    <3>1. Reports
      BY <1>2, ShortSequences DEF close_object, Reports
    <3> QED
      BY <3>1, ReportsAreReported
  <2>3. ValueAction
    BY <1>2, <2>1, <2>2, OnTop DEF close_object, ValueAction, valueVars
  <2>5. Counted(Frame("value", "end_object", Top.of))
    BY <2>1, OnTop, TopCounted DEF Counted, Frame
  <2> QED
    BY <2>1, <2>3, <2>5, OnTop, ValueGoto
<1>3. CASE end_object
  <2>1. In("value", "end_object") /\ Return("value")
    BY <1>3 DEF end_object
  <2>2. PICK duplicates, missing :
          /\ duplicates = {i \in DOMAIN Top.of.object_fields :
                              Top.of.object_fields[i] \in duplicate_fields}
          /\ missing = RequiredFields(Top.of.type.name) \ ToSet(Top.of.parsed)
          /\ Report(position, Times(Cardinality(duplicates), "Duplicate_field_0") \o
                              Times(Cardinality(missing), "Missing_required_field_0"))
    BY <1>3 DEF end_object
  <2>3. IsFiniteSet(duplicates)
    <3>1. IsSequence(Top.of.object_fields)
      BY <2>1, OnTop, TopCounted DEF Counted
    <3>2. IsFiniteSet(1 .. Len(Top.of.object_fields))
      BY <3>1, SequenceLength, FS_Interval
    <3> QED
      BY <2>2, <3>1, <3>2, SequenceLength, FS_Subset
  <2>4. IsFiniteSet(missing)
    <3>1. IsFiniteSet(RequiredFields(Top.of.type.name))
      BY <2>1, OnTop, TopCounted DEF Counted
    <3> QED
      BY <2>2, <3>1, FS_Subset
  <2>5. Reported
    <3>1. Cardinality(duplicates) \in Nat /\ Cardinality(missing) \in Nat
      BY <2>3, <2>4, FS_CardinalityType
    <3>2. IsSequence(Times(Cardinality(duplicates), "Duplicate_field_0") \o
                     Times(Cardinality(missing), "Missing_required_field_0"))
      BY <3>1, TimesIsSequence, ConcatSequences
    <3> QED
      BY <2>2, <3>2, ReportedMessages
  <2>6. ValueAction
    BY <1>3, <2>1, <2>5, OnTop DEF end_object, ValueAction, valueVars
  <2> QED
    BY <2>1, <2>6, OnTop, ValueReturn
<1> QED
  BY <1>1, <1>2, <1>3

LEMMA ArgumentSteps ==
    ASSUME FramesInv, CountedInv, ParseArguments
    PROVE  ValueStep /\ CountedInv' /\ KeepsNext
<1> USE DEF CallFns, ValueFns
<1>0. IsSequence(diagnostics)
  BY DEF FramesInv
<1>1. CASE parse_argument
  <2>1. In("arguments", "begin")
    BY <1>1 DEF parse_argument
  <2>2. Reported
    <3>1. Reports
      BY <1>1, ShortSequences, ConcatSequences DEF parse_argument, Reports, When
    <3> QED
      BY <3>1, ReportsAreReported
  <2>3. ValueAction
    BY <1>1, <2>1, <2>2, OnTop DEF parse_argument, ValueAction, valueVars
  <2>4. PICK of :
          /\ of = Arguments(Top.of.definitions, Top.of.given, TokenAt(position))
          /\ \/ Return("null")
             \/ \E type : CallValue("directives", of, type)
             \/ Goto("directives", of)
    BY <1>1 DEF parse_argument
  <2>5. of.definitions = Top.of.definitions
    BY <2>4 DEF Arguments
  <2>6. Counted(Frame("arguments", "directives", of))
    BY <2>1, <2>5, OnTop, TopCounted DEF Counted, Frame
  <2>7. CASE Return("null")
    BY <2>1, <2>3, <2>7, OnTop, ValueReturn
  <2>8. CASE \E type : CallValue("directives", of, type)
    BY <2>1, <2>3, <2>6, <2>8, OnTop, ValueCall, PlainCounted DEF CallValue
  <2>9. CASE Goto("directives", of)
    BY <2>1, <2>3, <2>6, <2>9, OnTop, ValueGoto
  <2> QED
    BY <2>4, <2>7, <2>8, <2>9
<1>2. CASE end_argument
  <2>1. In("arguments", "emplace")
    BY <1>2 DEF end_argument
  <2>2. Reported
    BY <1>0, <1>2 DEF end_argument, Reported
  <2>3. ValueAction
    BY <1>2, <2>1, <2>2, OnTop DEF end_argument, ValueAction, valueVars
  <2>4. PICK of : /\ Goto("begin", of)
                  /\ of = Arguments(Top.of.definitions, Top.of.given \cup {Top.of.name}, Top.of.name)
    BY <1>2 DEF end_argument
  <2>5. of.definitions = Top.of.definitions
    BY <2>4 DEF Arguments
  <2>6. Counted(Frame("arguments", "begin", of))
    BY <2>1, <2>5, OnTop, TopCounted DEF Counted, Frame
  <2> QED
    BY <2>1, <2>3, <2>4, <2>6, OnTop, ValueGoto
<1>3. CASE end_arguments
  <2>1. In("arguments", "begin") /\ Return("arguments")
    BY <1>3 DEF end_arguments
  <2>2. PICK missing : /\ missing = MissingArguments(Top.of.definitions, Top.of.given)
                       /\ Report(After(position), Times(Cardinality(missing), "Missing_required_argument_0"))
    BY <1>3 DEF end_arguments
  <2>3. IsFiniteSet(missing)
    <3>1. IsFiniteSet(DOMAIN Top.of.definitions)
      BY <2>1, OnTop, TopCounted DEF Counted
    <3> QED
      BY <2>2, <3>1, FS_Subset DEF MissingArguments
  <2>4. Reported
    BY <2>2, <2>3, FS_CardinalityType, TimesIsSequence, ReportedMessages
  <2>5. ValueAction
    BY <1>3, <2>1, <2>4, OnTop DEF end_arguments, ValueAction, valueVars
  <2> QED
    BY <2>1, <2>5, OnTop, ValueReturn
<1>4. CASE argument_directives
  <2>1. In("arguments", "directives") /\ CallDirectives("emplace", Top.of, "ARGUMENT_DEFINITION")
    BY <1>4 DEF argument_directives
  <2>2. Reported
    BY <1>0, <1>4 DEF argument_directives, Reported
  <2>3. ValueAction
    BY <1>4, <2>1, <2>2, OnTop DEF argument_directives, ValueAction, valueVars
  <2>4. Counted(Frame("arguments", "emplace", Top.of))
    BY <2>1, OnTop, TopCounted DEF Counted, Frame
  <2>5. PICK what : Call("emplace", Top.of, Frame("directives", "begin", what))
    BY <2>1 DEF CallDirectives
  <2>6. Counted(Frame("directives", "begin", what))
    BY PlainCounted
  <2> QED
    BY <2>1, <2>3, <2>4, <2>5, <2>6, OnTop, ValueCall
<1> QED
  BY <1>1, <1>2, <1>3, <1>4 DEF ParseArguments

LEMMA DirectiveSteps ==
    ASSUME FramesInv, CountedInv, ParseDirectives
    PROVE  ValueStep /\ CountedInv' /\ KeepsNext
<1> USE DEF CallFns, ValueFns
<1>0. IsSequence(diagnostics)
  BY DEF FramesInv
<1>1. CASE parse_directive
  <2>1. In("directives", "begin")
    BY <1>1 DEF parse_directive
  <2>2. Reported
    <3>1. Reports
      BY <1>1, ShortSequences DEF parse_directive, Reports, When
    <3> QED
      BY <3>1, ReportsAreReported
  <2>3. ValueAction
    BY <1>1, <2>1, <2>2, OnTop DEF parse_directive, ValueAction
  <2>4. \/ Return("directives")
        \/ \E of : Goto("emplace", of)
        \/ \E of : \E name \in DOMAIN Schema.directives :
              CallArguments("arguments", of, Schema.directives[name].arguments)
    BY <1>1 DEF parse_directive
  <2>5. CASE Return("directives")
    BY <2>1, <2>3, <2>5, OnTop, ValueReturn
  <2>6. CASE \E of : Goto("emplace", of)
    BY <2>1, <2>3, <2>6, OnTop, ValueGoto, PlainCounted
  <2>7. CASE \E of : \E name \in DOMAIN Schema.directives :
               CallArguments("arguments", of, Schema.directives[name].arguments)
    <3>1. PICK of, definitions : /\ CallArguments("arguments", of, definitions)
                                 /\ IsFiniteSet(DOMAIN definitions)
      BY <2>7, ExecutorAssumption DEF SchemaComplete
    <3>2. PICK what : /\ Call("arguments", of, Frame("arguments", "begin", what))
                      /\ what = Arguments(definitions, {}, "")
      BY <3>1 DEF CallArguments
    <3>3. Counted(Frame("arguments", "begin", what))
      BY <3>1, <3>2 DEF Counted, Frame, Arguments
    <3>4. Counted(Frame("directives", "arguments", of))
      BY PlainCounted
    <3>5. frames[Len(frames)].fn = "directives" /\ frames[Len(frames)].at = "begin"
      BY <2>1, OnTop
    <3>6. Call("arguments", of, Frame("arguments", "begin", what))
      BY <3>2
    <3> QED
      BY <2>3, <3>3, <3>4, <3>5, <3>6, ValueCall
  <2> QED
    BY <2>4, <2>5, <2>6, <2>7
<1>2. CASE directive_arguments
  <2>1. In("directives", "arguments") /\ (Return("directives") \/ Goto("emplace", Top.of))
    BY <1>2 DEF directive_arguments
  <2>2. Reported
    BY <1>0, <1>2 DEF directive_arguments, Reported
  <2>3. ValueAction
    BY <1>2, <2>1, <2>2, OnTop DEF directive_arguments, ValueAction, valueVars
  <2> QED
    BY <2>1, <2>3, OnTop, ValueReturn, ValueGoto, PlainCounted
<1>3. CASE end_directive
  <2>1. In("directives", "emplace") /\ \E of : Goto("begin", of)
    BY <1>3 DEF end_directive
  <2>2. Reported
    <3>1. Reports
      BY <1>3, ShortSequences DEF end_directive, Reports, When
    <3> QED
      BY <3>1, ReportsAreReported
  <2>3. ValueAction
    BY <1>3, <2>1, <2>2, OnTop DEF end_directive, ValueAction, valueVars
  <2> QED
    BY <2>1, <2>3, OnTop, ValueGoto, PlainCounted
<1>4. CASE end_directives
  <2>1. In("directives", "begin") /\ Return("directives")
    BY <1>4 DEF end_directives
  <2>2. Reported
    BY <1>0, <1>4 DEF end_directives, Reported
  <2>3. ValueAction
    BY <1>4, <2>1, <2>2, OnTop DEF end_directives, ValueAction, valueVars
  <2> QED
    BY <2>1, <2>3, OnTop, ValueReturn
<1> QED
  BY <1>1, <1>2, <1>3, <1>4 DEF ParseDirectives

LEMMA VariableSteps ==
    ASSUME FramesInv, CountedInv, ParseVariables
    PROVE  ValueStep /\ CountedInv' /\ KeepsNext
<1> USE DEF CallFns, ValueFns
<1>0. IsSequence(diagnostics)
  BY DEF FramesInv
<1>1. CASE parse_variable
  <2>1. In("variables", "begin")
    BY <1>1 DEF parse_variable
  <2>2. Reported
    <3>1. Reports
      BY <1>1, ShortSequences, ConcatSequences DEF parse_variable, Reports, When
    <3> QED
      BY <3>1, ReportsAreReported
  <2>3. ValueAction
    BY <1>1, <2>1, <2>2, OnTop DEF parse_variable, ValueAction
  <2>4. Return("variables") \/ \E type : CallValue("end", Top.of, type)
    BY <1>1 DEF parse_variable
  <2>5. CASE Return("variables")
    BY <2>1, <2>3, <2>5, OnTop, ValueReturn
  <2>6. CASE \E type : CallValue("end", Top.of, type)
    <3>1. PICK type : Call("end", Top.of, Frame("value", "begin", type))
      BY <2>6 DEF CallValue
    <3>2. Counted(Frame("variables", "end", Top.of)) /\ Counted(Frame("value", "begin", type))
      BY PlainCounted
    <3> QED
      BY <2>1, <2>3, <3>1, <3>2, OnTop, ValueCall
  <2> QED
    BY <2>4, <2>5, <2>6
<1>2. CASE end_variables
  <2>1. Return("variables") /\ (In("variables", "end") \/ In("variables", "begin"))
    BY <1>2 DEF end_variables
  <2>2. Reported
    BY <1>0, <1>2 DEF end_variables, Reported
  <2>3. ValueAction
    BY <1>2, <2>1, <2>2, OnTop DEF end_variables, ValueAction, valueVars
  <2> QED
    BY <2>1, <2>3, OnTop, ValueReturn
<1> QED
  BY <1>1, <1>2 DEF ParseVariables

ValueActions == ParseValue \/ ParseArguments \/ ParseDirectives \/ ParseVariables

LEMMA ValueSteps ==
    ASSUME FramesInv, CountedInv, ValueActions
    PROVE  ValueStep /\ CountedInv'
BY ListSteps, ScalarSteps, ObjectSteps, EndObjectSteps, ArgumentSteps, DirectiveSteps, VariableSteps
   DEF ValueActions, ParseValue

LEMMA ValueStepKeepsNesting ==
    ASSUME FramesInv, StackCoversSelections, BodyInv, NestingInv, ValueStep
    PROVE  FramesInv' /\ StackCoversSelections' /\ BodyInv' /\ NestingInv'
<1>0. PICK n : n = Len(frames)
  OBVIOUS
<1>1. n \in Nat /\ n > 0 /\ DOMAIN frames = 1 .. n
  BY <1>0, SequenceLength DEF FramesInv
<1>2. frames[n].fn \in {"value", "arguments", "directives", "variables"}
  BY <1>0 DEF ValueStep, ValueFns, CallFns
<1>3. n > 2
  <2>1. 1 \in DOMAIN frames /\ n \in DOMAIN frames
    BY <1>1
  <2>2. frames[n].fn # "document" /\ frames[n].fn \notin {"operation", "fragment"}
    BY <1>2
  <2>3. n # 1 /\ n # 2
    BY <2>1, <2>2 DEF FramesInv
  <2> QED
    BY <1>1, <2>3
<1>4. PICK m \in {n - 1, n, n + 1} : m = Len(frames') /\ DOMAIN frames' = 1 .. m
  BY <1>0, SequenceLength DEF ValueStep
<1>5. \A i \in 1 .. n - 1 : frames'[i] = frames[i]
  BY <1>0 DEF ValueStep, Below
<1>6. m >= n => /\ frames'[n].fn = frames[n].fn
                /\ frames'[n].at = "next" => frames'[n].fn = "value"
  BY <1>0, <1>1, <1>4 DEF ValueStep
<1>7. m = n + 1 => frames'[n + 1].fn \in {"value", "arguments", "directives"} /\ frames'[n + 1].at # "next"
  BY <1>0, <1>1, <1>4 DEF ValueStep, CallFns
<1>8. /\ current_object_types' = current_object_types
      /\ flaws' = flaws
      /\ IsSequence(diagnostics')
      /\ diagnostics' = <<>> => diagnostics = <<>>
      /\ IsSequence(frames')
  BY DEF ValueStep, Reported
<1>9. \A i \in DOMAIN frames' : frames'[i].fn = "selection" => i \in 1 .. n - 1 /\ frames[i].fn = "selection"
  BY <1>1, <1>2, <1>4, <1>5, <1>6, <1>7
<1>10. FramesInv'
  <2>1. \A i \in DOMAIN frames' :
          /\ frames'[i].fn \in StructureFns \cup ValueFns
          /\ frames'[i].fn = "document" <=> i = 1
          /\ frames'[i].fn \in {"operation", "fragment"} <=> i = 2
          /\ frames'[i].fn = "variables" => i = 3
          /\ frames'[i].at = "next" => frames'[i].fn = "value"
    BY <1>1, <1>2, <1>3, <1>4, <1>5, <1>6, <1>7 DEF FramesInv, StructureFns, ValueFns, CallFns
  <2>2. \A i, j \in DOMAIN frames' : i < j /\ frames'[j].fn = "selection" => Encloses(i)'
    <3>1. SUFFICES ASSUME NEW i \in DOMAIN frames', NEW j \in DOMAIN frames', i < j,
                          frames'[j].fn = "selection"
                   PROVE  Encloses(i)'
      OBVIOUS
    <3>2. j \in 1 .. n - 1 /\ frames[j].fn = "selection"
      BY <1>9, <3>1
    <3>3. i \in 1 .. n - 1 /\ j \in DOMAIN frames /\ i \in DOMAIN frames
      BY <1>1, <1>4, <3>1, <3>2
    <3>4. Encloses(i)
      BY <3>1, <3>2, <3>3 DEF FramesInv
    <3> QED
      BY <1>5, <3>3, <3>4 DEF Encloses
  <2>3. 3 \in DOMAIN frames' =>
          /\ frames'[2].at = "end" => frames'[3].fn = "selection"
          /\ frames'[2].fn = "fragment" => frames'[2].at \in {"body", "end"}
    <3>1. 3 \in DOMAIN frames /\ 2 \in 1 .. n - 1
      BY <1>1, <1>3
    <3>2. n = 3 => frames[2].at # "end"
      BY <1>2, <3>1 DEF FramesInv
    <3> QED
      BY <1>1, <1>3, <1>5, <3>1, <3>2 DEF FramesInv
  <2> QED
    BY <1>1, <1>3, <1>4, <1>8, <2>1, <2>2, <2>3 DEF FramesInv
<1>11. \A i \in SelectionFrames' : i \in SelectionFrames /\ frames'[i] = frames[i]
  BY <1>1, <1>5, <1>9 DEF SelectionFrames
<1>12. StackCoversSelections'
  BY <1>8, <1>11 DEF StackCoversSelections
<1>13. 2 \in DOMAIN frames /\ frames'[2] = frames[2]
  BY <1>1, <1>3, <1>5
<1>14. \A i \in DOMAIN frames' : frames'[i].fn \in {"operation", "fragment"} => i = 2
  BY <1>10 DEF FramesInv
<1>15. BodyInv'
  <2>1. \A i \in DOMAIN frames' : Pushed(i)' => Len(current_object_types') > 0
    BY <1>8, <1>13, <1>14 DEF BodyInv, Pushed
  <2>2. \A i \in DOMAIN frames' : frames'[i].fn = "operation" => Root(frames'[i].of) \in Symbols
    BY <1>13, <1>14 DEF BodyInv
  <2>3. \A i \in SelectionFrames' :
          frames'[i].at \in {"directives", "body"} =>
              Defines(current_object_types'[Len(current_object_types')], frames'[i].of.field)
    BY <1>8, <1>11 DEF BodyInv
  <2> QED
    BY <2>1, <2>2, <2>3 DEF BodyInv, Pushed
<1>16. NestingInv'
  <2>1. SUFFICES ASSUME diagnostics' = <<>>
                 PROVE  NestingInv'
    BY DEF NestingInv
  <2>2. diagnostics = <<>>
    BY <1>8, <2>1
  <2>3. \A i \in SelectionFrames : Innermost(i)' => Innermost(i)
    <3>1. SUFFICES ASSUME NEW i \in SelectionFrames, Innermost(i)', i < n, frames[i + 1].fn = "selection"
                   PROVE  FALSE
      BY <1>0 DEF Innermost
    <3>2. i \in 1 .. n
      BY <1>1 DEF SelectionFrames
    <3>3. i + 1 \in 1 .. n - 1
      BY <1>1, <1>2, <3>1, <3>2
    <3>4. i < m /\ frames'[i + 1].fn = "selection"
      BY <1>1, <1>4, <1>5, <3>1, <3>2, <3>3
    <3> QED
      BY <1>4, <3>1, <3>4 DEF Innermost
  <2>4. Len(frames') # 1
    BY <1>1, <1>3, <1>4
  <2>5. Len(frames') = 2 => Pushed(2)
    <3>1. SUFFICES ASSUME Len(frames') = 2
                   PROVE  Pushed(2)
      OBVIOUS
    <3>2. n = 3
      BY <1>1, <1>3, <1>4, <3>1
    <3>3. 3 \in DOMAIN frames /\ 2 \in DOMAIN frames /\ frames[3].fn # "selection"
      BY <1>1, <1>2, <3>2
    <3>4. frames[2].at # "end"
      BY <3>3 DEF FramesInv
    <3>5. frames[2].fn \in {"operation", "fragment"} /\ (frames[2].fn = "fragment" => frames[2].at \in {"body", "end"})
      BY <3>3 DEF FramesInv
    <3> QED
      BY <3>4, <3>5 DEF Pushed
  <2>6. Pushed(2)' <=> Pushed(2)
    BY <1>13 DEF Pushed
  <2>7. \A i \in SelectionFrames' :
          frames'[i].of.base = i - 2 /\ current_object_types'[i - 2] = frames'[i].of.type
    BY <1>8, <1>11, <2>2 DEF NestingInv
  <2>8. 2 \in DOMAIN frames' /\ Pushed(2)' =>
              /\ Len(current_object_types') = 1
              /\ frames'[2].fn = "operation" => current_object_types'[1] = Root(frames'[2].of)
              /\ frames'[2].fn = "fragment" => current_object_types'[1] = frames'[2].of.type
    BY <1>8, <1>13, <2>2, <2>6 DEF NestingInv, DefinitionTypes
  <2>9. \A i \in SelectionFrames' : Innermost(i)' =>
              IF frames'[i].at = "inline"
              THEN Len(current_object_types') = i - 1 /\ current_object_types'[i - 1] = frames'[i].of.field
              ELSE Len(current_object_types') = i - 2
    BY <1>8, <1>11, <2>2, <2>3 DEF NestingInv
  <2>10. "undefined_field" \notin flaws'
    BY <1>8, <2>2 DEF NestingInv
  <2> QED
    BY <1>4, <2>4, <2>5, <2>6, <2>7, <2>8, <2>9, <2>10 DEF NestingInv, DefinitionTypes
<1> QED
  BY <1>10, <1>12, <1>15, <1>16

-----------------------------------------------------------------------------
(* The lists that are switched off *)

LEMMA ListsKept ==
    ASSUME ListsInv, Reported, KeepsNext, list_types' = list_types
    PROVE  ListsInv'
<1>1. SUFFICES ASSUME diagnostics' = <<>>
               PROVE  ListsInv'
  BY DEF ListsInv
<1>2. diagnostics = <<>>
  BY <1>1 DEF Reported
<1>3. \A i \in DOMAIN frames' : frames'[i].at = "next" =>
          i \in DOMAIN frames /\ frames[i].at = "next" /\ frames'[i].of = frames[i].of
  BY DEF KeepsNext
<1>4. \A i \in DOMAIN frames' : frames'[i].at = "next" =>
              /\ frames'[i].of.id \in ListTypes \cup {"variable"}
              /\ frames'[i].of.id \notin list_types'
  BY <1>2, <1>3 DEF ListsInv
<1>5. \A i, j \in DOMAIN frames' :
         frames'[i].at = "next" /\ frames'[j].at = "next" /\ frames'[i].of.id = frames'[j].of.id => i = j
  BY <1>2, <1>3 DEF ListsInv
<1>6. \A id \in ListTypes \ list_types' :
              \E i \in DOMAIN frames' : frames'[i].at = "next" /\ frames'[i].of.id = id
  BY <1>2 DEF ListsInv, KeepsNext
<1> QED
  BY <1>2, <1>4, <1>5, <1>6 DEF ListsInv

\* The type of the list is a list, or it is reported.
LEMMA ParseListKeepsLists ==
    ASSUME FramesInv, CountedInv, ListsInv, parse_list
    PROVE  ListsInv'
<1>1. SUFFICES ASSUME diagnostics' = <<>>
               PROVE  ListsInv'
  BY DEF ListsInv
<1>2. diagnostics = <<>> /\ Top.of.id \in list_types
  <2>1. PICK messages : /\ messages = (IF IsList(Top.of) THEN <<>> ELSE <<"The_value_0_is_not_assignable_to_type_1">>)
                        /\ Report(After(position), messages)
    BY DEF parse_list, When
  <2>2. IsSequence(messages)
    BY <2>1, ShortSequences
  <2>3. Reported /\ messages = <<>>
    BY <1>1, <2>1, <2>2, ReportedMessages
  <2>4. IsList(Top.of)
    BY <2>1, <2>3
  <2> QED
    BY <1>1, <2>3, <2>4 DEF Reported, IsList
<1>3. PICK n : n = Len(frames) /\ n \in Nat /\ n > 0 /\ DOMAIN frames = 1 .. n
  BY SequenceLength DEF FramesInv
<1>4. frames[n].at = "begin" /\ Top = frames[n]
  BY <1>3, OnTop DEF parse_list
<1>5. PICK id : id = Top.of.id
  OBVIOUS
<1>6. /\ DOMAIN frames' = 1 .. n + 1
      /\ \A i \in 1 .. n - 1 : frames'[i] = frames[i]
      /\ frames'[n].at = "next" /\ frames'[n].of.id = id
      /\ frames'[n + 1].at = "begin"
  <2>1. Call("next", Top.of, Frame("value", "begin", Top.of)) /\ IsSequence(frames) /\ Len(frames) > 0
    BY DEF parse_list, CallValue, FramesInv
  <2>2. /\ IsSequence(frames') /\ Len(frames') = Len(frames) + 1 /\ Below
        /\ frames'[Len(frames)] = Frame(frames[Len(frames)].fn, "next", Top.of)
        /\ frames'[Len(frames) + 1] = Frame("value", "begin", Top.of)
    BY <2>1, AfterCall
  <2> QED
    BY <1>3, <1>5, <2>2, SequenceLength DEF Below, Frame
<1>7. list_types' = list_types \ {id} /\ id \in list_types
  BY <1>2, <1>5 DEF parse_list
<1>8. \A i \in DOMAIN frames' : frames'[i].at = "next" =>
         i = n \/ (i \in 1 .. n - 1 /\ frames[i].at = "next" /\ frames'[i].of = frames[i].of)
  BY <1>3, <1>6
<1>9. \A i \in 1 .. n - 1 : frames[i].at = "next" =>
         /\ frames[i].of.id \in ListTypes \cup {"variable"}
         /\ frames[i].of.id \notin list_types /\ frames[i].of.id # id
  BY <1>2, <1>3, <1>7 DEF ListsInv
<1>10. id \in ListTypes \cup {"variable"} /\ list_types \subseteq ListTypes \cup {"variable"}
  BY <1>2, <1>7 DEF ListsInv
<1>11. \A i \in DOMAIN frames' : frames'[i].at = "next" =>
              /\ frames'[i].of.id \in ListTypes \cup {"variable"}
              /\ frames'[i].of.id \notin list_types'
  BY <1>6, <1>7, <1>8, <1>9, <1>10
<1>12. \A i, j \in 1 .. n - 1 : frames[i].at = "next" /\ frames[j].at = "next" /\ frames[i].of.id = frames[j].of.id => i = j
  BY <1>2, <1>3 DEF ListsInv
<1>13. \A i, j \in DOMAIN frames' :
         frames'[i].at = "next" /\ frames'[j].at = "next" /\ frames'[i].of.id = frames'[j].of.id => i = j
  BY <1>6, <1>8, <1>9, <1>12
<1>14. \A x \in ListTypes \ list_types' :
              \E i \in DOMAIN frames' : frames'[i].at = "next" /\ frames'[i].of.id = x
  <2>1. SUFFICES ASSUME NEW x \in ListTypes, x \notin list_types, x # id
                 PROVE  \E i \in DOMAIN frames' : frames'[i].at = "next" /\ frames'[i].of.id = x
    BY <1>3, <1>6, <1>7
  <2>2. PICK i \in DOMAIN frames : frames[i].at = "next" /\ frames[i].of.id = x
    BY <1>2, <2>1 DEF ListsInv
  <2>3. i \in 1 .. n - 1 /\ i \in DOMAIN frames'
    BY <1>3, <1>4, <1>6, <2>2
  <2> QED
    BY <1>6, <2>2, <2>3
<1> QED
  BY <1>7, <1>10, <1>11, <1>13, <1>14 DEF ListsInv

LEMMA EndListKeepsLists ==
    ASSUME FramesInv, CountedInv, ListsInv, end_list
    PROVE  ListsInv'
<1>1. SUFFICES ASSUME diagnostics' = <<>>
               PROVE  ListsInv'
  BY DEF ListsInv
<1>2. diagnostics = <<>>
  BY <1>1, ListSteps DEF ValueStep, Reported
<1>3. PICK n : n = Len(frames) /\ n \in Nat /\ n > 0 /\ DOMAIN frames = 1 .. n
  BY SequenceLength DEF FramesInv
<1>4. frames[n].at = "next" /\ Top = frames[n]
  BY <1>3, OnTop DEF end_list
<1>5. PICK id : id = Top.of.id
  OBVIOUS
<1>6. DOMAIN frames' = 1 .. n - 1 /\ \A i \in 1 .. n - 1 : frames'[i] = frames[i]
  <2>1. Return("value") /\ IsSequence(frames) /\ Len(frames) > 0
    BY DEF end_list, FramesInv
  <2>2. IsSequence(frames') /\ Len(frames') = Len(frames) - 1 /\ Below
    BY <2>1, AfterReturn
  <2> QED
    BY <1>3, <2>2, SequenceLength DEF Below
<1>7. list_types' = list_types \cup {id}
  BY <1>5 DEF end_list
<1>8. n \in DOMAIN frames /\ frames[n].of.id = id
  BY <1>3, <1>4, <1>5
<1>9. id \in ListTypes \cup {"variable"} /\ list_types \subseteq ListTypes \cup {"variable"}
  BY <1>2, <1>4, <1>8 DEF ListsInv
<1>10. \A i \in 1 .. n - 1 : i \in DOMAIN frames /\ i # n
  BY <1>3
<1>11. \A i \in 1 .. n - 1 : frames[i].at = "next" =>
         /\ frames[i].of.id \in ListTypes \cup {"variable"}
         /\ frames[i].of.id \notin list_types /\ frames[i].of.id # id
  BY <1>2, <1>4, <1>8, <1>10 DEF ListsInv
<1>12. \A i \in DOMAIN frames' : frames'[i].at = "next" =>
              /\ frames'[i].of.id \in ListTypes \cup {"variable"}
              /\ frames'[i].of.id \notin list_types'
  BY <1>6, <1>7, <1>11
<1>13. \A i, j \in DOMAIN frames' :
         frames'[i].at = "next" /\ frames'[j].at = "next" /\ frames'[i].of.id = frames'[j].of.id => i = j
  BY <1>2, <1>6, <1>10 DEF ListsInv
<1>14. \A x \in ListTypes \ list_types' :
              \E i \in DOMAIN frames' : frames'[i].at = "next" /\ frames'[i].of.id = x
  <2>1. SUFFICES ASSUME NEW x \in ListTypes, x \notin list_types, x # id
                 PROVE  \E i \in DOMAIN frames' : frames'[i].at = "next" /\ frames'[i].of.id = x
    BY <1>7
  <2>2. PICK i \in DOMAIN frames : frames[i].at = "next" /\ frames[i].of.id = x
    BY <1>2, <2>1 DEF ListsInv
  <2>3. i \in 1 .. n - 1
    BY <1>3, <1>8, <2>1, <2>2
  <2> QED
    BY <1>6, <2>2, <2>3
<1> QED
  BY <1>7, <1>9, <1>12, <1>13, <1>14 DEF ListsInv

\* No list is read where variables are defined.
LEMMA ParseVariableKeepsLists ==
    ASSUME FramesInv, CountedInv, ListsInv, parse_variable
    PROVE  ListsInv'
<1>1. SUFFICES ASSUME diagnostics' = <<>>
               PROVE  ListsInv'
  BY DEF ListsInv
<1>2. KeepsNext /\ diagnostics = <<>>
  BY <1>1, VariableSteps DEF ParseVariables, ValueStep, Reported
<1>3. PICK n : n = Len(frames) /\ n \in Nat /\ n > 0 /\ DOMAIN frames = 1 .. n
  BY SequenceLength DEF FramesInv
<1>4. frames[n].fn = "variables" /\ n \in DOMAIN frames
  <2>1. In("variables", "begin")
    BY DEF parse_variable
  <2> QED
    BY <1>3, <2>1, OnTop
<1>5. n = 3
  BY <1>4 DEF FramesInv
<1>6. \A i \in DOMAIN frames : frames[i].fn # "value"
  <2>1. 1 \in DOMAIN frames /\ 2 \in DOMAIN frames
    BY <1>3, <1>5
  <2>2. frames[1].fn = "document" /\ frames[2].fn \in {"operation", "fragment"}
    BY <2>1 DEF FramesInv
  <2>3. \A i \in 1 .. 3 : i = 1 \/ i = 2 \/ i = 3
    OBVIOUS
  <2> QED
    BY <1>3, <1>4, <1>5, <2>2, <2>3
<1>7. \A i \in DOMAIN frames : frames[i].at # "next"
  BY <1>6 DEF FramesInv
<1>8. \A i \in DOMAIN frames' : frames'[i].at # "next"
  BY <1>2, <1>7 DEF KeepsNext
<1>9. ListTypes \subseteq list_types /\ list_types \subseteq ListTypes \cup {"variable"}
  BY <1>2, <1>7 DEF ListsInv
<1>10. list_types' = list_types \cup {"variable"} \/ list_types' = list_types \ {"variable"}
  BY DEF parse_variable
<1>11. ListTypes \subseteq list_types' /\ list_types' \subseteq ListTypes \cup {"variable"}
  BY <1>9, <1>10, ExecutorAssumption
<1> QED
  BY <1>8, <1>11 DEF ListsInv

LEMMA ValuesKeepLists ==
    ASSUME FramesInv, CountedInv, ListsInv, ValueActions
    PROVE  ListsInv'
<1>1. CASE parse_list \/ end_list \/ parse_variable
  BY <1>1, ParseListKeepsLists, EndListKeepsLists, ParseVariableKeepsLists
<1>2. CASE parse_list_element
  <2>1. list_types' = list_types /\ In("value", "next") /\ Call("next", Top.of, Frame("value", "begin", Top.of))
    BY <1>2 DEF parse_list_element, valueVars, CallValue
  <2>2. Reported /\ ValueStep
    BY <1>2, ListSteps DEF ValueStep
  <2>3. ValueAction
    BY <2>2 DEF ValueStep, ValueAction
  <2>4. Counted(Frame("value", "next", Top.of)) /\ Counted(Frame("value", "begin", Top.of))
    BY PlainCounted
  <2>5. KeepsNext
    BY <2>1, <2>3, <2>4, OnTop, ValueCall DEF CallFns
  <2> QED
    BY <2>1, <2>2, <2>5, ListsKept
<1>3. CASE \/ parse_scalar \/ parse_enum_value \/ refuse_object \/ refuse_value \/ undefined_value
           \/ parse_object_value \/ parse_object_field \/ end_object_field
           \/ skip_object_field \/ close_object \/ end_object
  <2>1. Reported /\ KeepsNext
    BY <1>3, ScalarSteps, ObjectSteps, EndObjectSteps DEF ValueStep
  <2>2. list_types' = list_types
    BY <1>3 DEF parse_scalar, parse_enum_value, refuse_object, refuse_value, undefined_value,
       parse_object_value, parse_object_field, end_object_field, skip_object_field, close_object,
       end_object, valueVars
  <2> QED
    BY <2>1, <2>2, ListsKept
<1>4. CASE ParseArguments \/ ParseDirectives \/ end_variables
  <2>1. Reported /\ KeepsNext
    BY <1>4, ArgumentSteps, DirectiveSteps, VariableSteps DEF ValueStep, ParseVariables
  <2>2. list_types' = list_types
    BY <1>4 DEF ParseArguments, parse_argument, end_argument, end_arguments, argument_directives,
       ParseDirectives, parse_directive, directive_arguments, end_directive, end_directives,
       end_variables, valueVars
  <2> QED
    BY <2>1, <2>2, ListsKept
<1> QED
  BY <1>1, <1>2, <1>3, <1>4 DEF ValueActions, ParseValue, ParseVariables

-----------------------------------------------------------------------------
(* The frames under the steps of definitions and selection sets *)

FramesKept == FramesInv' /\ CountedInv' /\ KeepsNext

LEMMA StructureGoto ==
    ASSUME FramesInv, CountedInv, Reported, frames[Len(frames)].fn \in StructureFns,
           NEW at, NEW of, at # "next", Goto(at, of)
    PROVE  /\ FramesKept
           /\ Len(frames') = Len(frames) /\ Below
           /\ frames'[Len(frames)] = Frame(frames[Len(frames)].fn, at, of)
<1>1. PICK n : n = Len(frames) /\ n \in Nat /\ n > 0 /\ DOMAIN frames = 1 .. n /\ IsSequence(frames)
  BY SequenceLength DEF FramesInv
<1>2. /\ IsSequence(frames') /\ Len(frames') = n /\ Below
      /\ frames'[n] = Frame(frames[n].fn, at, of)
  BY <1>1, AfterGoto
<1>3. DOMAIN frames' = 1 .. n /\ \A i \in 1 .. n - 1 : frames'[i] = frames[i]
  BY <1>1, <1>2, SequenceLength DEF Below
<1>4. frames'[n].fn = frames[n].fn /\ frames'[n].at = at /\ frames[n].fn \in {"document", "operation", "fragment", "selection"}
  BY <1>1, <1>2 DEF Frame, StructureFns
<1>5. n \in DOMAIN frames /\ frames[n].at # "next"
  BY <1>1, <1>4 DEF FramesInv
<1>6. \A i \in 1 .. n : frames'[i].fn = frames[i].fn /\ (i # n => frames'[i] = frames[i])
  BY <1>1, <1>3, <1>4
<1>7. FramesInv'
  <2>1. \A i \in DOMAIN frames' :
          /\ frames'[i].fn \in StructureFns \cup ValueFns
          /\ frames'[i].fn = "document" <=> i = 1
          /\ frames'[i].fn \in {"operation", "fragment"} <=> i = 2
          /\ frames'[i].fn = "variables" => i = 3
          /\ frames'[i].at = "next" => frames'[i].fn = "value"
    BY <1>1, <1>3, <1>4, <1>6 DEF FramesInv
  <2>2. \A i, j \in DOMAIN frames' : i < j /\ frames'[j].fn = "selection" => Encloses(i)'
    <3>1. SUFFICES ASSUME NEW i \in 1 .. n, NEW j \in 1 .. n, i < j, frames'[j].fn = "selection"
                   PROVE  Encloses(i)'
      BY <1>3
    <3>2. Encloses(i)
      BY <1>1, <1>6, <3>1 DEF FramesInv
    <3>3. frames'[i] = frames[i]
      BY <1>1, <1>6, <3>1
    <3> QED
      BY <3>2, <3>3 DEF Encloses
  <2>3. 3 \in DOMAIN frames' =>
          /\ frames'[2].at = "end" => frames'[3].fn = "selection"
          /\ frames'[2].fn = "fragment" => frames'[2].at \in {"body", "end"}
    BY <1>1, <1>3, <1>6 DEF FramesInv
  <2> QED
    BY <1>1, <1>2, <2>1, <2>2, <2>3 DEF FramesInv, Reported
<1>8. CountedInv'
  <2>1. Counted(frames'[n])
    BY <1>4 DEF Counted
  <2> QED
    BY <1>1, <1>3, <2>1 DEF CountedInv
<1>9. KeepsNext
  BY <1>1, <1>3, <1>4, <1>5, <1>6 DEF KeepsNext
<1> QED
  BY <1>1, <1>2, <1>7, <1>8, <1>9 DEF FramesKept

\* What a function of the structure calls.
MayCall(n, fn, at, callee) ==
    /\ fn = "document" => n = 1 /\ callee.fn \in {"operation", "fragment"}
    /\ fn # "document" => callee.fn \in CallFns \cup {"variables", "selection"}
    /\ callee.fn = "variables" => n = 2
    /\ callee.fn = "selection" => at = (IF n = 2 THEN "end" ELSE "begin")
    /\ n = 2 /\ callee.fn # "selection" => at # "end"
    /\ fn = "fragment" => at \in {"body", "end"}
    /\ at # "next" /\ callee.at # "next"
    /\ Counted(callee)

LEMMA StructureCall ==
    ASSUME FramesInv, CountedInv, Reported, frames[Len(frames)].fn \in StructureFns,
           NEW at, NEW of, NEW callee, MayCall(Len(frames), frames[Len(frames)].fn, at, callee),
           Call(at, of, callee)
    PROVE  /\ FramesKept
           /\ Len(frames') = Len(frames) + 1 /\ Below
           /\ frames'[Len(frames)] = Frame(frames[Len(frames)].fn, at, of)
           /\ frames'[Len(frames) + 1] = callee
<1>1. PICK n : n = Len(frames) /\ n \in Nat /\ n > 0 /\ DOMAIN frames = 1 .. n /\ IsSequence(frames)
  BY SequenceLength DEF FramesInv
<1>2. /\ IsSequence(frames') /\ Len(frames') = n + 1 /\ Below
      /\ frames'[n] = Frame(frames[n].fn, at, of)
      /\ frames'[n + 1] = callee
  BY <1>1, AfterCall
<1>3. DOMAIN frames' = 1 .. n + 1 /\ \A i \in 1 .. n - 1 : frames'[i] = frames[i]
  BY <1>1, <1>2, SequenceLength DEF Below
<1>4. frames'[n].fn = frames[n].fn /\ frames'[n].at = at /\ frames[n].fn \in {"document", "operation", "fragment", "selection"}
  BY <1>1, <1>2 DEF Frame, StructureFns
<1>5. n \in DOMAIN frames /\ frames[n].at # "next"
  BY <1>1, <1>4 DEF FramesInv
<1>6. \A i \in 1 .. n : frames'[i].fn = frames[i].fn /\ (i # n => frames'[i] = frames[i])
  BY <1>1, <1>3, <1>4
<1>7. MayCall(n, frames[n].fn, at, callee)
  BY <1>1
<1>8. \A i \in 1 .. n + 1 : i \in 1 .. n \/ i = n + 1
  BY <1>1
<1>9. (frames[n].fn = "document" <=> n = 1) /\ (frames[n].fn \in {"operation", "fragment"} <=> n = 2)
  BY <1>1 DEF FramesInv
<1>10. FramesInv'
  <2>1. \A i \in DOMAIN frames' :
          /\ frames'[i].fn \in StructureFns \cup ValueFns
          /\ frames'[i].fn = "document" <=> i = 1
          /\ frames'[i].fn \in {"operation", "fragment"} <=> i = 2
          /\ frames'[i].fn = "variables" => i = 3
          /\ frames'[i].at = "next" => frames'[i].fn = "value"
    <3>1. \A i \in 1 .. n :
            /\ frames'[i].fn \in StructureFns \cup ValueFns
            /\ frames'[i].fn = "document" <=> i = 1
            /\ frames'[i].fn \in {"operation", "fragment"} <=> i = 2
            /\ frames'[i].fn = "variables" => i = 3
            /\ frames'[i].at = "next" => frames'[i].fn = "value"
      BY <1>1, <1>4, <1>6, <1>7 DEF FramesInv, MayCall
    <3>2. /\ callee.fn \in StructureFns \cup ValueFns
          /\ callee.fn = "document" <=> n + 1 = 1
          /\ callee.fn \in {"operation", "fragment"} <=> n + 1 = 2
          /\ callee.fn = "variables" => n + 1 = 3
          /\ callee.at = "next" => callee.fn = "value"
      BY <1>1, <1>7, <1>9 DEF MayCall, StructureFns, ValueFns, CallFns
    <3> QED
      BY <1>2, <1>3, <1>8, <3>1, <3>2
  <2>2. \A i, j \in DOMAIN frames' : i < j /\ frames'[j].fn = "selection" => Encloses(i)'
    <3>1. SUFFICES ASSUME NEW i \in 1 .. n + 1, NEW j \in 1 .. n + 1, i < j, frames'[j].fn = "selection"
                   PROVE  Encloses(i)'
      BY <1>3
    <3>2. CASE j \in 1 .. n
      <4>1. Encloses(i)
        BY <1>1, <1>6, <3>1, <3>2 DEF FramesInv
      <4>2. frames'[i] = frames[i]
        BY <1>1, <1>6, <3>1, <3>2
      <4> QED
        BY <4>1, <4>2 DEF Encloses
    <3>3. CASE j = n + 1
      <4>1. callee.fn = "selection"
        BY <1>2, <3>1, <3>3
      <4>2. CASE i = n
        <5>1. frames[n].fn # "document" /\ at = (IF n = 2 THEN "end" ELSE "begin")
          BY <1>7, <4>1 DEF MayCall
        <5>2. n > 1 /\ (n # 2 => frames[n].fn = "selection" /\ at = "begin") /\ (n = 2 => at = "end")
          BY <1>1, <1>4, <1>9, <5>1
        <5> QED
          BY <1>1, <1>4, <4>2, <5>2 DEF Encloses
      <4>3. CASE i # n
        <5>1. i \in 1 .. n - 1 /\ frames'[i] = frames[i] /\ i \in DOMAIN frames
          BY <1>1, <1>3, <3>1, <3>3, <4>3
        <5>2. CASE frames[n].fn = "selection"
          <6>1. Encloses(i)
            BY <1>1, <1>5, <5>1, <5>2 DEF FramesInv
          <6> QED
            BY <5>1, <6>1 DEF Encloses
        <5>3. CASE frames[n].fn # "selection"
          <6>1. n = 1 \/ n = 2
            BY <1>4, <1>9, <5>3
          <6>2. i = 1
            BY <5>1, <6>1
          <6> QED
            BY <6>2 DEF Encloses
        <5> QED
          BY <5>2, <5>3
      <4> QED
        BY <4>2, <4>3
    <3> QED
      BY <1>8, <3>1, <3>2, <3>3
  <2>3. 3 \in DOMAIN frames' =>
          /\ frames'[2].at = "end" => frames'[3].fn = "selection"
          /\ frames'[2].fn = "fragment" => frames'[2].at \in {"body", "end"}
    <3>1. CASE n = 2
      BY <1>2, <1>4, <1>7, <3>1 DEF MayCall
    <3>2. CASE n > 2
      BY <1>1, <1>6, <3>2 DEF FramesInv
    <3> QED
      BY <1>1, <1>3, <3>1, <3>2
  <2> QED
    BY <1>1, <1>2, <2>1, <2>2, <2>3 DEF FramesInv, Reported
<1>11. CountedInv'
  <2>1. Counted(frames'[n]) /\ Counted(frames'[n + 1])
    BY <1>2, <1>4, <1>7 DEF Counted, MayCall
  <2> QED
    BY <1>1, <1>3, <1>8, <2>1 DEF CountedInv
<1>12. KeepsNext
  <2>1. at # "next" /\ callee.at # "next"
    BY <1>7 DEF MayCall
  <2> QED
    BY <1>1, <1>2, <1>3, <1>4, <1>5, <1>6, <1>8, <2>1 DEF KeepsNext
<1> QED
  BY <1>1, <1>2, <1>10, <1>11, <1>12 DEF FramesKept

LEMMA StructureReturn ==
    ASSUME FramesInv, CountedInv, Reported, frames[Len(frames)].fn \in StructureFns,
           Len(frames) > 1, NEW value, Return(value)
    PROVE  FramesKept /\ Len(frames') = Len(frames) - 1 /\ Below
<1>1. PICK n : n = Len(frames) /\ n \in Nat /\ n > 1 /\ DOMAIN frames = 1 .. n /\ IsSequence(frames)
  BY SequenceLength DEF FramesInv
<1>2. IsSequence(frames') /\ Len(frames') = n - 1 /\ Below
  BY <1>1, AfterReturn
<1>3. DOMAIN frames' = 1 .. n - 1 /\ \A i \in 1 .. n - 1 : frames'[i] = frames[i]
  BY <1>1, <1>2, SequenceLength DEF Below
<1>4. n \in DOMAIN frames /\ frames[n].at # "next"
  BY <1>1 DEF FramesInv, StructureFns
<1>5. \A i \in DOMAIN frames' : i \in DOMAIN frames /\ frames'[i] = frames[i]
  BY <1>1, <1>3
<1>6. FramesInv'
  <2>1. \A i, j \in DOMAIN frames' : i < j /\ frames'[j].fn = "selection" => Encloses(i)'
    BY <1>5 DEF FramesInv, Encloses
  <2>2. 3 \in DOMAIN frames' =>
          /\ frames'[2].at = "end" => frames'[3].fn = "selection"
          /\ frames'[2].fn = "fragment" => frames'[2].at \in {"body", "end"}
    <3>1. 3 \in DOMAIN frames' => 2 \in DOMAIN frames' /\ 3 \in DOMAIN frames
      BY <1>1, <1>3
    <3> QED
      BY <1>5, <3>1 DEF FramesInv
  <2> QED
    BY <1>1, <1>2, <1>5, <2>1, <2>2 DEF FramesInv, Reported
<1>7. CountedInv'
  BY <1>5 DEF CountedInv
<1>8. KeepsNext
  BY <1>1, <1>3, <1>4, <1>5 DEF KeepsNext
<1> QED
  BY <1>1, <1>2, <1>6, <1>7, <1>8 DEF FramesKept

LEMMA StructureStays ==
    ASSUME FramesInv, CountedInv, Reported, frames' = frames
    PROVE  FramesKept
BY DEF FramesKept, FramesInv, Encloses, CountedInv, KeepsNext, Reported

-----------------------------------------------------------------------------
(* Definitions *)

\* The frames and the types stay as they are.
LEMMA StayStep ==
    ASSUME ExecutorInv, Reported, frames' = frames, current_object_types' = current_object_types,
           list_types' = list_types, diagnostics' = <<>> => flaws' = flaws
    PROVE  ExecutorInv'
<1>1. FramesKept
  BY StructureStays DEF ExecutorInv
<1>2. ListsInv'
  BY <1>1, ListsKept DEF ExecutorInv, FramesKept
<1>3. SelectionFrames' = SelectionFrames
  BY DEF SelectionFrames
<1>4. StackCoversSelections'
  BY <1>3 DEF ExecutorInv, StackCoversSelections
<1>5. BodyInv'
  BY <1>3 DEF ExecutorInv, BodyInv, Pushed
<1>6. NestingInv'
  BY <1>3 DEF ExecutorInv, NestingInv, DefinitionTypes, Pushed, Innermost, Reported
<1> QED
  BY <1>1, <1>2, <1>4, <1>5, <1>6 DEF ExecutorInv, FramesKept

\* There is no selection set, before and after the step.
LEMMA DefinitionStep ==
    ASSUME ExecutorInv, FramesKept, Reported, list_types' = list_types,
           Len(frames') \in 1 .. 3, Len(frames') = 3 => frames'[3].fn # "selection",
           current_object_types' \in Seq(Symbols),
           Len(frames') > 1 =>
              /\ Pushed(2)' => Len(current_object_types') > 0
              /\ frames'[2].fn = "operation" => Root(frames'[2].of) \in Symbols,
           diagnostics' = <<>> => flaws' = flaws /\ DefinitionTypes'
    PROVE  ExecutorInv'
<1>1. ListsInv'
  BY ListsKept DEF ExecutorInv, FramesKept
<1>2. PICK m : m = Len(frames') /\ m \in 1 .. 3 /\ DOMAIN frames' = 1 .. m
  BY SequenceLength DEF FramesKept, FramesInv
<1>3. \A i \in DOMAIN frames' : i = 1 \/ i = 2 \/ (i = 3 /\ m = 3)
  BY <1>2
<1>4. \A i \in DOMAIN frames' : frames'[i].fn # "selection"
  BY <1>2, <1>3 DEF FramesKept, FramesInv
<1>5. SelectionFrames' = {}
  BY <1>4 DEF SelectionFrames
<1>6. StackCoversSelections'
  BY <1>5 DEF StackCoversSelections
<1>7. BodyInv'
  <2>1. \A i \in DOMAIN frames' : frames'[i].fn \in {"operation", "fragment"} => i = 2 /\ m > 1
    BY <1>2, <1>3 DEF FramesKept, FramesInv
  <2> QED
    BY <1>2, <1>5, <2>1 DEF BodyInv, Pushed
<1>8. NestingInv'
  <2>1. diagnostics' = <<>> => diagnostics = <<>> /\ "undefined_field" \notin flaws'
    BY DEF Reported, ExecutorInv, NestingInv
  <2> QED
    BY <1>5, <2>1 DEF NestingInv
<1> QED
  BY <1>1, <1>6, <1>7, <1>8 DEF ExecutorInv, FramesKept

LEMMA InDocument ==
    ASSUME FramesInv, NEW at, In("document", at)
    PROVE  /\ Len(frames) = 1 /\ DOMAIN frames = {1}
           /\ frames[1].fn = "document" /\ frames[1].at = at /\ Top = frames[1]
<1>1. PICK n : n = Len(frames) /\ n \in Nat /\ n > 0 /\ DOMAIN frames = 1 .. n
  BY SequenceLength DEF FramesInv
<1>2. frames[n].fn = "document" /\ n \in DOMAIN frames /\ frames[n].at = at /\ Top = frames[n]
  BY <1>1, OnTop
<1>3. n = 1
  BY <1>2 DEF FramesInv
<1>4. 1 .. 1 = {1}
  OBVIOUS
<1> QED
  BY <1>1, <1>2, <1>3, <1>4

LEMMA InDefinition ==
    ASSUME FramesInv, NEW fn \in {"operation", "fragment"}, NEW at, In(fn, at)
    PROVE  /\ Len(frames) = 2 /\ DOMAIN frames = {1, 2}
           /\ frames[2].fn = fn /\ frames[2].at = at /\ Top = frames[2]
<1>1. PICK n : n = Len(frames) /\ n \in Nat /\ n > 0 /\ DOMAIN frames = 1 .. n
  BY SequenceLength DEF FramesInv
<1>2. frames[n].fn = fn /\ n \in DOMAIN frames /\ frames[n].at = at /\ Top = frames[n]
  BY <1>1, OnTop
<1>3. n = 2
  BY <1>2 DEF FramesInv
<1>4. 1 .. 2 = {1, 2}
  OBVIOUS
<1> QED
  BY <1>1, <1>2, <1>3, <1>4

LEMMA BeginOperationStep ==
    ASSUME ExecutorInv, BeginOperation
    PROVE  ExecutorInv'
<1>1. /\ FramesInv /\ CountedInv /\ NestingInv /\ StackCoversSelections
      /\ Len(frames) = 1 /\ frames[1].fn = "document" /\ Top = frames[1]
  <2>1. In("document", "begin")
    BY DEF BeginOperation
  <2> QED
    BY <2>1, InDocument DEF ExecutorInv
<1>2. Reported
  <2>1. Reports
    BY ShortSequences DEF BeginOperation, Reports
  <2> QED
    BY <1>1, <2>1, ReportsAreReported
<1>3. list_types' = list_types /\ flaws' = flaws
  BY DEF BeginOperation, valueVars
<1>4. PICK kind : /\ kind = Kind(position) /\ kind \in {"query", "mutation", "subscription"}
                  /\ \/ frames' = frames /\ current_object_types' = current_object_types
                     \/ /\ Root(kind) # "none"
                        /\ Push(Root(kind))
                        /\ Call("begin", 0, Frame("operation", "name", kind))
  BY DEF BeginOperation
<1>5. CASE frames' = frames /\ current_object_types' = current_object_types
  BY <1>2, <1>3, <1>5, StayStep
<1>6. CASE /\ Root(kind) # "none"
           /\ Push(Root(kind))
           /\ Call("begin", 0, Frame("operation", "name", kind))
  <2>1. PICK type \in Symbols : type = Root(kind)
    BY <1>4, <1>6, ExecutorAssumption DEF Root
  <2>2. PICK callee : callee = Frame("operation", "name", kind)
    OBVIOUS
  <2>3. callee.fn = "operation" /\ callee.at = "name" /\ callee.of = kind
    BY <2>2 DEF Frame
  <2>4. MayCall(1, "document", "begin", callee)
    BY <2>3 DEF MayCall, Counted
  <2>5. FramesKept /\ Len(frames') = 2 /\ frames'[2] = callee
    BY <1>1, <1>2, <1>6, <2>2, <2>4, StructureCall DEF StructureFns
  <2>6. /\ current_object_types \in Seq(Symbols)
        /\ current_object_types' = Append(current_object_types, type)
    BY <1>1, <1>6, <2>1 DEF StackCoversSelections, Push
  <2>7. current_object_types' \in Seq(Symbols) /\ Len(current_object_types') > 0
    BY <2>6, LenProperties, AppendProperties
  <2>8. ASSUME diagnostics' = <<>>
        PROVE  DefinitionTypes'
    <3>1. current_object_types = <<>>
      BY <1>1, <1>2, <2>8 DEF Reported, NestingInv, DefinitionTypes
    <3>2. Len(current_object_types') = 1 /\ current_object_types'[1] = type
      BY <2>6, <3>1
    <3>3. Pushed(2)'
      BY <2>3, <2>5 DEF Pushed
    <3> QED
      BY <2>1, <2>3, <2>5, <3>2, <3>3 DEF DefinitionTypes
  <2> QED
    BY <1>2, <1>3, <2>1, <2>3, <2>5, <2>7, <2>8, DefinitionStep
<1> QED
  BY <1>4, <1>5, <1>6

LEMMA BeginFragmentStep ==
    ASSUME ExecutorInv, BeginFragment
    PROVE  ExecutorInv'
<1>1. /\ FramesInv /\ CountedInv /\ NestingInv /\ StackCoversSelections
      /\ Len(frames) = 1 /\ frames[1].fn = "document" /\ Top = frames[1]
  <2>1. In("document", "begin")
    BY DEF BeginFragment
  <2> QED
    BY <2>1, InDocument DEF ExecutorInv
<1>2. Reported
  <2>1. Reports
    BY ShortSequences DEF BeginFragment, Reports
  <2> QED
    BY <1>1, <2>1, ReportsAreReported
<1>3. /\ list_types' = list_types /\ flaws' = flaws
      /\ current_object_types' = current_object_types
  BY DEF BeginFragment, valueVars
<1>4. PICK callee : /\ callee = Frame("fragment", "name", Fragment("", ""))
                    /\ Call("begin", 0, callee)
  BY DEF BeginFragment
<1>5. callee.fn = "fragment" /\ callee.at = "name"
  BY <1>4 DEF Frame
<1>6. MayCall(1, "document", "begin", callee)
  BY <1>5 DEF MayCall, Counted
<1>7. FramesKept /\ Len(frames') = 2 /\ frames'[2] = callee
  <2>1. Call("begin", 0, callee)
    BY <1>4
  <2> QED
    BY <1>1, <1>2, <1>6, <2>1, StructureCall DEF StructureFns
<1>8. current_object_types' \in Seq(Symbols)
  BY <1>1, <1>3 DEF StackCoversSelections
<1>9. ~ Pushed(2)'
  BY <1>5, <1>7 DEF Pushed
<1>10. ASSUME diagnostics' = <<>>
       PROVE  DefinitionTypes'
  <2>1. current_object_types = <<>>
    BY <1>1, <1>2, <1>10 DEF Reported, NestingInv, DefinitionTypes
  <2> QED
    BY <1>3, <1>7, <1>9, <2>1 DEF DefinitionTypes
<1> QED
  BY <1>2, <1>3, <1>5, <1>7, <1>8, <1>9, <1>10, DefinitionStep

LEMMA EndDocumentSteps ==
    ASSUME ExecutorInv,
           RefuseDefinition \/ EndDefinitions \/ check_forward_fragment_references \/ EndDocument
    PROVE  ExecutorInv'
<1>1. /\ FramesInv /\ CountedInv /\ NestingInv /\ StackCoversSelections
      /\ Len(frames) = 1 /\ frames[1].fn = "document" /\ Top = frames[1]
  <2>1. In("document", "begin") \/ In("document", "references")
    BY DEF RefuseDefinition, EndDefinitions, check_forward_fragment_references, EndDocument
  <2> QED
    BY <2>1, InDocument DEF ExecutorInv
<1>2. /\ list_types' = list_types /\ flaws' = flaws
      /\ current_object_types' = current_object_types
  BY DEF RefuseDefinition, EndDefinitions, check_forward_fragment_references, EndDocument, valueVars
<1>3. Reported
  <2>1. CASE RefuseDefinition \/ EndDefinitions
    <3>1. Reports
      BY <2>1, ShortSequences DEF RefuseDefinition, EndDefinitions, Reports
    <3> QED
      BY <1>1, <3>1, ReportsAreReported
  <2>2. CASE check_forward_fragment_references
    <3>1. Reports \/ diagnostics' = diagnostics
      <4>1. \A object, current : IsSequence(Mismatch(object, current))
        BY ShortSequences DEF Mismatch, When
      <4> QED
        BY <2>2, <4>1, ShortSequences DEF check_forward_fragment_references, Reports, Undefined, Stop
    <3> QED
      BY <1>1, <3>1, ReportsAreReported DEF Reported, FramesInv
  <2>3. CASE EndDocument
    BY <1>1, <2>3 DEF EndDocument, Stop, Reported, FramesInv
  <2> QED
    BY <2>1, <2>2, <2>3
<1>4. frames' = frames \/ \E of : Goto("references", of)
  BY DEF RefuseDefinition, EndDefinitions, check_forward_fragment_references, EndDocument, Undefined, Stop
<1>5. CASE frames' = frames
  BY <1>2, <1>3, <1>5, StayStep
<1>6. CASE \E of : Goto("references", of)
  <2>1. FramesKept /\ Len(frames') = 1
    BY <1>1, <1>3, <1>6, StructureGoto DEF StructureFns
  <2>2. current_object_types' \in Seq(Symbols)
    BY <1>1, <1>2 DEF StackCoversSelections
  <2>3. ASSUME diagnostics' = <<>>
        PROVE  DefinitionTypes'
    <3>1. current_object_types = <<>>
      BY <1>1, <1>3, <2>3 DEF Reported, NestingInv, DefinitionTypes
    <3>2. 2 \notin DOMAIN frames'
      BY <2>1, SequenceLength DEF FramesKept, FramesInv
    <3> QED
      BY <1>2, <2>1, <3>1, <3>2 DEF DefinitionTypes
  <2> QED
    BY <1>2, <1>3, <2>1, <2>2, <2>3, DefinitionStep
<1> QED
  BY <1>4, <1>5, <1>6

\* An operation in front of its body.
LEMMA OperationGoesOn ==
    ASSUME ExecutorInv, FramesKept, Reported, list_types' = list_types, flaws' = flaws,
           current_object_types' = current_object_types,
           Len(frames) = 2, frames[2].fn = "operation", frames[2].at # "end",
           Len(frames') \in {2, 3}, Len(frames') = 3 => frames'[3].fn # "selection",
           frames'[2].fn = "operation", frames'[2].at # "end", frames'[2].of = frames[2].of
    PROVE  ExecutorInv'
<1>1. 2 \in DOMAIN frames
  BY SequenceLength DEF ExecutorInv, FramesInv
<1>2. Pushed(2) /\ Pushed(2)'
  BY DEF Pushed
<1>3. Len(current_object_types) > 0 /\ Root(frames[2].of) \in Symbols /\ current_object_types \in Seq(Symbols)
  BY <1>1, <1>2 DEF ExecutorInv, BodyInv, StackCoversSelections
<1>4. ASSUME diagnostics' = <<>>
      PROVE  DefinitionTypes'
  BY <1>1, <1>2, <1>4 DEF Reported, ExecutorInv, NestingInv, DefinitionTypes
<1> QED
  BY <1>2, <1>3, <1>4, DefinitionStep

LEMMA OperationHeadSteps ==
    ASSUME ExecutorInv, OperationName \/ CloseVariables \/ OperationDirectives
    PROVE  ExecutorInv'
<1>1. PICK at \in {"name", "close", "directives"} : In("operation", at)
  BY DEF OperationName, CloseVariables, OperationDirectives
<1>2. /\ FramesInv /\ CountedInv
      /\ Len(frames) = 2 /\ frames[2].fn = "operation" /\ frames[2].at # "end" /\ Top = frames[2]
  BY <1>1, InDefinition DEF ExecutorInv
<1>3. list_types' = list_types /\ flaws' = flaws /\ current_object_types' = current_object_types
  BY DEF OperationName, CloseVariables, OperationDirectives, valueVars
<1>4. Reported
  <2>1. Reports \/ diagnostics' = diagnostics
    BY ShortSequences DEF OperationName, CloseVariables, OperationDirectives, Reports, When
  <2> QED
    BY <1>2, <2>1, ReportsAreReported DEF Reported, FramesInv
<1>5. \/ Goto("directives", Top.of)
      \/ \E to \in {"close", "body"}, fn \in {"variables", "directives"} : \E what :
            Call(to, Top.of, Frame(fn, "begin", what))
  BY DEF OperationName, CloseVariables, OperationDirectives, CallDirectives
<1>6. CASE Goto("directives", Top.of)
  <2>1. FramesKept /\ Len(frames') = 2 /\ frames'[2] = Frame("operation", "directives", frames[2].of)
    BY <1>2, <1>4, <1>6, StructureGoto DEF StructureFns
  <2>2. frames'[2].fn = "operation" /\ frames'[2].at # "end" /\ frames'[2].of = frames[2].of
    BY <2>1 DEF Frame
  <2> QED
    BY <1>2, <1>3, <1>4, <2>1, <2>2, OperationGoesOn
<1>7. CASE \E to \in {"close", "body"}, fn \in {"variables", "directives"} : \E what :
             Call(to, Top.of, Frame(fn, "begin", what))
  <2>1. PICK to \in {"close", "body"}, fn \in {"variables", "directives"} :
          \E what : Call(to, Top.of, Frame(fn, "begin", what))
    BY <1>7
  <2>2. PICK what : Call(to, Top.of, Frame(fn, "begin", what))
    BY <2>1
  <2>3. MayCall(2, "operation", to, Frame(fn, "begin", what))
    BY DEF MayCall, Frame, Counted, CallFns
  <2>4. /\ FramesKept /\ Len(frames') = 3 /\ frames'[2] = Frame("operation", to, frames[2].of)
        /\ frames'[3] = Frame(fn, "begin", what)
    BY <1>2, <1>4, <2>2, <2>3, StructureCall DEF StructureFns
  <2>5. /\ frames'[2].fn = "operation" /\ frames'[2].at # "end" /\ frames'[2].of = frames[2].of
        /\ frames'[3].fn # "selection"
    BY <2>4 DEF Frame
  <2> QED
    BY <1>2, <1>3, <1>4, <2>4, <2>5, OperationGoesOn
<1> QED
  BY <1>5, <1>6, <1>7

\* A definition is left, with something reported or behind its body.
LEMMA DefinitionReturns ==
    ASSUME ExecutorInv, Reported, list_types' = list_types, flaws' = flaws,
           current_object_types' = current_object_types,
           Len(frames) = 2, frames[2].fn \in {"operation", "fragment"}, NEW value, Return(value),
           diagnostics' # <<>> \/ frames[2].at = "end"
    PROVE  ExecutorInv'
<1>1. FramesKept /\ Len(frames') = 1
  BY StructureReturn DEF ExecutorInv, StructureFns
<1>2. current_object_types' \in Seq(Symbols)
  BY DEF ExecutorInv, StackCoversSelections
<1>3. ASSUME diagnostics' = <<>>
      PROVE  DefinitionTypes'
  <2>1. ~ Pushed(2)
    BY <1>3 DEF Pushed
  <2>2. current_object_types = <<>>
    BY <1>3, <2>1 DEF Reported, ExecutorInv, NestingInv, DefinitionTypes
  <2>3. 2 \notin DOMAIN frames'
    BY <1>1, SequenceLength DEF FramesKept, FramesInv
  <2> QED
    BY <1>1, <2>2, <2>3 DEF DefinitionTypes
<1> QED
  BY <1>1, <1>2, <1>3, DefinitionStep

LEMMA EndDefinitionSteps ==
    ASSUME ExecutorInv, EndOperation \/ EndFragment
    PROVE  ExecutorInv'
<1>1. PICK fn \in {"operation", "fragment"} : In(fn, "end")
  BY DEF EndOperation, EndFragment
<1>2. FramesInv /\ Len(frames) = 2 /\ frames[2].fn = fn /\ frames[2].at = "end"
  BY <1>1, InDefinition DEF ExecutorInv
<1>3. list_types' = list_types /\ flaws' = flaws /\ current_object_types' = current_object_types
  BY DEF EndOperation, EndFragment, valueVars
<1>4. Reported
  <2>1. Reports \/ diagnostics' = diagnostics
    BY ShortSequences DEF EndOperation, EndFragment, Reports
  <2> QED
    BY <1>2, <2>1, ReportsAreReported DEF Reported, FramesInv
<1>5. Return(result)
  BY DEF EndOperation, EndFragment
<1> QED
  BY <1>2, <1>3, <1>4, <1>5, DefinitionReturns

LEMMA OneMessage ==
    ASSUME FramesInv, NEW p, NEW message, Report(p, <<message>>)
    PROVE  Reported /\ diagnostics' # <<>>
<1>1. IsSequence(<<message>>) /\ <<message>> # <<>>
  BY ShortSequences
<1> QED
  BY <1>1, ReportedMessages

LEMMA FragmentHeadSteps ==
    ASSUME ExecutorInv, FragmentName \/ FragmentOn
    PROVE  ExecutorInv'
<1>1. PICK at \in {"name", "on"} : In("fragment", at)
  BY DEF FragmentName, FragmentOn
<1>2. /\ FramesInv /\ CountedInv
      /\ Len(frames) = 2 /\ frames[2].fn = "fragment" /\ frames[2].at = at
  BY <1>1, InDefinition DEF ExecutorInv
<1>3. list_types' = list_types /\ flaws' = flaws /\ current_object_types' = current_object_types
  BY DEF FragmentName, FragmentOn, valueVars
<1>4. \/ Return("null") /\ \E p, message : Report(p, <<message>>)
      \/ Reports /\ \E to \in {"on", "type"} : \E of : Goto(to, of)
  <2>1. \A n \in {0, 2} : \A message : IsSequence(Times(n, message))
    BY TimesIsSequence
  <2>2. CASE FragmentName
    <3>1. CASE Kind(position) # "name"
      BY <2>2, <3>1 DEF FragmentName
    <3>2. CASE Kind(position) = "name"
      <4>1. Reports
        BY <2>1, <2>2, <3>2 DEF FragmentName, Reports
      <4>2. \E of : Goto("on", of)
        BY <2>2, <3>2 DEF FragmentName
      <4> QED
        BY <4>1, <4>2
    <3> QED
      BY <3>1, <3>2
  <2>3. CASE FragmentOn
    BY <2>3, ShortSequences DEF FragmentOn, Reports
  <2> QED
    BY <2>2, <2>3
<1>5. CASE Return("null") /\ \E p, message : Report(p, <<message>>)
  BY <1>2, <1>3, <1>5, OneMessage, DefinitionReturns
<1>6. CASE Reports /\ \E to \in {"on", "type"} : \E of : Goto(to, of)
  <2>1. Reported
    BY <1>2, <1>6, ReportsAreReported
  <2>2. PICK to \in {"on", "type"} : \E of : Goto(to, of)
    BY <1>6
  <2>3. PICK of : Goto(to, of)
    BY <2>2
  <2>4. FramesKept /\ Len(frames') = 2 /\ frames'[2] = Frame("fragment", to, of)
    BY <1>2, <2>1, <2>3, StructureGoto DEF StructureFns
  <2>5. frames'[2].fn = "fragment" /\ ~ Pushed(2) /\ ~ Pushed(2)'
    BY <1>2, <2>4 DEF Frame, Pushed
  <2>6. current_object_types' \in Seq(Symbols)
    BY <1>3 DEF ExecutorInv, StackCoversSelections
  <2>7. ASSUME diagnostics' = <<>>
        PROVE  DefinitionTypes'
    BY <1>2, <1>3, <2>1, <2>4, <2>5, <2>7 DEF Reported, ExecutorInv, NestingInv, DefinitionTypes
  <2> QED
    BY <1>3, <2>1, <2>4, <2>5, <2>6, <2>7, DefinitionStep
<1> QED
  BY <1>4, <1>5, <1>6

LEMMA FragmentTypeStep ==
    ASSUME ExecutorInv, FragmentType
    PROVE  ExecutorInv'
<1>1. In("fragment", "type")
  BY DEF FragmentType
<1>2. /\ FramesInv /\ CountedInv
      /\ Len(frames) = 2 /\ frames[2].fn = "fragment" /\ frames[2].at = "type"
  BY <1>1, InDefinition DEF ExecutorInv
<1>3. list_types' = list_types /\ flaws' = flaws
  BY DEF FragmentType, valueVars
<1>4. \/ /\ Return("null") /\ current_object_types' = current_object_types
         /\ \E p, message : Report(p, <<message>>)
      \/ /\ Reports
         /\ \E type \in Symbols :
               Push(type) /\ CallDirectives("body", Fragment(Top.of.name, type), "FRAGMENT_DEFINITION")
  BY ShortSequences DEF FragmentType, Reports, When
<1>5. CASE /\ Return("null") /\ current_object_types' = current_object_types
           /\ \E p, message : Report(p, <<message>>)
  BY <1>2, <1>3, <1>5, OneMessage, DefinitionReturns
<1>6. CASE /\ Reports
           /\ \E type \in Symbols :
                 Push(type) /\ CallDirectives("body", Fragment(Top.of.name, type), "FRAGMENT_DEFINITION")
  <2>1. Reported
    BY <1>2, <1>6, ReportsAreReported
  <2>2. PICK type \in Symbols :
          Push(type) /\ CallDirectives("body", Fragment(Top.of.name, type), "FRAGMENT_DEFINITION")
    BY <1>6
  <2>3. PICK of, what :
          /\ Push(type) /\ Call("body", of, Frame("directives", "begin", what))
          /\ of = Fragment(Top.of.name, type)
    BY <2>2 DEF CallDirectives
  <2>4. of.type = type
    BY <2>3 DEF Fragment
  <2>5. MayCall(2, "fragment", "body", Frame("directives", "begin", what))
    BY DEF MayCall, Frame, Counted, CallFns
  <2>6. Call("body", of, Frame("directives", "begin", what))
    BY <2>3
  <2>7. /\ FramesKept /\ Len(frames') = 3 /\ frames'[2] = Frame("fragment", "body", of)
        /\ frames'[3] = Frame("directives", "begin", what)
    BY <1>2, <2>1, <2>5, <2>6, StructureCall DEF StructureFns
  <2>8. /\ frames'[2].fn = "fragment" /\ frames'[2].of.type = type /\ Pushed(2)'
        /\ frames'[3].fn # "selection"
    BY <2>4, <2>7 DEF Frame, Pushed
  <2>9. /\ current_object_types \in Seq(Symbols)
        /\ current_object_types' = Append(current_object_types, type)
    BY <2>3 DEF ExecutorInv, StackCoversSelections, Push
  <2>10. current_object_types' \in Seq(Symbols) /\ Len(current_object_types') > 0
    BY <2>9, LenProperties, AppendProperties
  <2>11. ASSUME diagnostics' = <<>>
         PROVE  DefinitionTypes'
    <3>1. ~ Pushed(2)
      BY <1>2 DEF Pushed
    <3>2. current_object_types = <<>>
      BY <1>2, <2>1, <2>11, <3>1 DEF Reported, ExecutorInv, NestingInv, DefinitionTypes
    <3>3. Len(current_object_types') = 1 /\ current_object_types'[1] = type
      BY <2>9, <3>2
    <3> QED
      BY <2>7, <2>8, <3>3 DEF DefinitionTypes
  <2> QED
    BY <1>3, <2>1, <2>7, <2>8, <2>10, <2>11, DefinitionStep
<1> QED
  BY <1>4, <1>5, <1>6

-----------------------------------------------------------------------------
(* Selection sets *)

LEMMA SelectionFrameFields ==
    ASSUME NEW type, NEW base
    PROVE  /\ SelectionFrame(type, base).fn = "selection"
           /\ SelectionFrame(type, base).at = "begin"
           /\ SelectionFrame(type, base).of.base = base
           /\ SelectionFrame(type, base).of.type = type
BY DEF SelectionFrame, Frame, Selection

\* The selection set of a definition.
LEMMA FirstSelection ==
    ASSUME ExecutorInv, FramesKept, Reported, list_types' = list_types, flaws' = flaws,
           NEW type, Len(frames') = 3, frames'[3] = SelectionFrame(type, Len(current_object_types')),
           frames'[2].at = "end", frames'[2].fn = "operation" => Root(frames'[2].of) \in Symbols,
           current_object_types' \in Seq(Symbols), Len(current_object_types') > 0,
           diagnostics' = <<>> => Len(current_object_types') = 1 /\ current_object_types'[1] = type
    PROVE  ExecutorInv'
<1>1. ListsInv'
  BY ListsKept DEF ExecutorInv, FramesKept
<1>2. DOMAIN frames' = 1 .. 3
  BY SequenceLength DEF FramesKept, FramesInv
<1>3. \A i \in DOMAIN frames' : i = 1 \/ i = 2 \/ i = 3
  BY <1>2
<1>4. PICK h : h = Len(current_object_types') /\ h \in Nat /\ h > 0
  BY LenProperties
<1>5. /\ frames'[3].fn = "selection" /\ frames'[3].at = "begin"
      /\ frames'[3].of.base = h /\ frames'[3].of.type = type
  BY <1>4, SelectionFrameFields
<1>6. \A i \in DOMAIN frames' : frames'[i].fn = "selection" <=> i = 3
  BY <1>3, <1>5 DEF FramesKept, FramesInv
<1>7. SelectionFrames' = {3}
  BY <1>2, <1>6 DEF SelectionFrames
<1>8. StackCoversSelections'
  BY <1>4, <1>5, <1>7 DEF StackCoversSelections
<1>9. \A i \in DOMAIN frames' : ~ Pushed(i)'
  BY <1>3 DEF FramesKept, FramesInv, Pushed
<1>10. BodyInv'
  <2>1. \A i \in DOMAIN frames' : frames'[i].fn = "operation" => i = 2
    BY DEF FramesKept, FramesInv
  <2> QED
    BY <1>5, <1>7, <1>9, <2>1 DEF BodyInv
<1>11. NestingInv'
  <2>1. SUFFICES ASSUME diagnostics' = <<>>
                 PROVE  NestingInv'
    BY DEF NestingInv
  <2>2. "undefined_field" \notin flaws'
    BY <2>1 DEF Reported, ExecutorInv, NestingInv
  <2>3. h = 1 /\ current_object_types'[1] = type
    BY <1>4, <2>1
  <2>4. DefinitionTypes'
    BY <1>2, <1>9 DEF DefinitionTypes
  <2> QED
    BY <1>4, <1>5, <1>7, <2>2, <2>3, <2>4 DEF NestingInv
<1> QED
  BY <1>1, <1>8, <1>10, <1>11 DEF ExecutorInv, FramesKept

LEMMA BodySteps ==
    ASSUME ExecutorInv, OperationBody \/ FragmentBody
    PROVE  ExecutorInv'
<1>1. PICK fn \in {"operation", "fragment"} : In(fn, "body")
  BY DEF OperationBody, FragmentBody
<1>2. /\ FramesInv /\ CountedInv
      /\ Len(frames) = 2 /\ frames[2].fn = fn /\ frames[2].at = "body" /\ Top = frames[2] /\ 2 \in DOMAIN frames
  BY <1>1, InDefinition DEF ExecutorInv
<1>3. list_types' = list_types /\ flaws' = flaws /\ current_object_types' = current_object_types
  BY DEF OperationBody, FragmentBody, valueVars
<1>4. PICK type : type = IF fn = "operation" THEN Root(frames[2].of) ELSE frames[2].of.type
  OBVIOUS
<1>5. \/ Return("null") /\ \E p, message : Report(p, <<message>>)
      \/ Reports /\ Call("end", frames[2].of, SelectionFrame(type, Len(current_object_types)))
  <2>1. CASE OperationBody
    <3>1. In("operation", "body")
      BY <2>1 DEF OperationBody
    <3>2. fn = "operation"
      BY <1>2, <3>1, InDefinition
    <3> QED
      BY <1>2, <1>4, <2>1, <3>2, ShortSequences DEF OperationBody, Reports
  <2>2. CASE FragmentBody
    <3>1. In("fragment", "body")
      BY <2>2 DEF FragmentBody
    <3>2. fn = "fragment"
      BY <1>2, <3>1, InDefinition
    <3> QED
      BY <1>2, <1>4, <2>2, <3>2, ShortSequences DEF FragmentBody, Reports
  <2> QED
    BY <2>1, <2>2
<1>6. CASE Return("null") /\ \E p, message : Report(p, <<message>>)
  BY <1>2, <1>3, <1>6, OneMessage, DefinitionReturns
<1>7. CASE Reports /\ Call("end", frames[2].of, SelectionFrame(type, Len(current_object_types)))
  <2>1. Reported
    BY <1>2, <1>7, ReportsAreReported
  <2>2. PICK callee : /\ callee = SelectionFrame(type, Len(current_object_types))
                      /\ Call("end", frames[2].of, callee)
    BY <1>7
  <2>3. callee.fn = "selection" /\ callee.at = "begin"
    BY <2>2, SelectionFrameFields
  <2>4. MayCall(2, fn, "end", callee)
    BY <2>3 DEF MayCall, Counted
  <2>5. Call("end", frames[2].of, callee)
    BY <2>2
  <2>6. /\ FramesKept /\ Len(frames') = 3 /\ frames'[2] = Frame(fn, "end", frames[2].of)
        /\ frames'[3] = callee
    BY <1>2, <2>1, <2>4, <2>5, StructureCall DEF StructureFns
  <2>7. frames'[2].at = "end" /\ frames'[2].fn = fn /\ frames'[2].of = frames[2].of
    BY <2>6 DEF Frame
  <2>8. Pushed(2)
    BY <1>2 DEF Pushed
  <2>9. /\ current_object_types' \in Seq(Symbols) /\ Len(current_object_types') > 0
        /\ fn = "operation" => Root(frames[2].of) \in Symbols
    BY <1>2, <1>3, <2>8 DEF ExecutorInv, StackCoversSelections, BodyInv
  <2>10. diagnostics' = <<>> => Len(current_object_types') = 1 /\ current_object_types'[1] = type
    BY <1>2, <1>3, <1>4, <2>1, <2>8 DEF Reported, ExecutorInv, NestingInv, DefinitionTypes
  <2>11. frames'[3] = SelectionFrame(type, Len(current_object_types'))
    BY <1>3, <2>2, <2>6
  <2> QED
    BY <1>3, <2>1, <2>6, <2>7, <2>9, <2>10, <2>11, FirstSelection
<1> QED
  BY <1>5, <1>6, <1>7

LEMMA BeginQueryStep ==
    ASSUME ExecutorInv, BeginQuery
    PROVE  ExecutorInv'
<1>1. /\ FramesInv /\ CountedInv /\ NestingInv /\ StackCoversSelections
      /\ Len(frames) = 1 /\ DOMAIN frames = {1}
      /\ frames[1].fn = "document" /\ frames[1].at = "begin" /\ Top = frames[1]
  <2>1. In("document", "begin")
    BY DEF BeginQuery
  <2> QED
    BY <2>1, InDocument DEF ExecutorInv
<1>2. Reported
  <2>1. Reports
    BY ShortSequences DEF BeginQuery, Reports
  <2> QED
    BY <1>1, <2>1, ReportsAreReported
<1>3. list_types' = list_types /\ flaws' = flaws
  BY DEF BeginQuery, valueVars
<1>4. /\ current_object_types \in Seq(Symbols) /\ Schema.query \in Symbols
      /\ current_object_types' = Append(current_object_types, Schema.query)
  BY <1>1, ExecutorAssumption DEF BeginQuery, Push, StackCoversSelections
<1>5. current_object_types' \in Seq(Symbols) /\ Len(current_object_types') > 0
  BY <1>4, LenProperties, AppendProperties
<1>6. PICK a, b, c : /\ a = Frame("document", "begin", 0) /\ b = Frame("operation", "end", "query")
                     /\ c = SelectionFrame(Schema.query, Len(current_object_types'))
                     /\ frames' = <<a, b, c>>
  BY <1>1 DEF BeginQuery, Continued
<1>7. /\ a.fn = "document" /\ a.at = "begin" /\ b.fn = "operation" /\ b.at = "end" /\ b.of = "query"
      /\ c.fn = "selection" /\ c.at = "begin"
  BY <1>6, SelectionFrameFields DEF Frame
<1>8. /\ IsSequence(frames') /\ Len(frames') = 3 /\ DOMAIN frames' = {1, 2, 3}
      /\ frames'[1] = a /\ frames'[2] = b /\ frames'[3] = c
  <2>1. PICK t : t = <<a, b, c>>
    OBVIOUS
  <2>2. t \in Seq({a, b, c}) /\ Len(t) = 3 /\ DOMAIN t = {1, 2, 3} /\ t[1] = a /\ t[2] = b /\ t[3] = c
    BY <2>1
  <2>3. IsSequence(t)
    BY <2>2, ElementsMakeSequence
  <2> QED
    BY <1>6, <2>1, <2>2, <2>3
<1>9. FramesInv'
  <2>1. \A i \in DOMAIN frames' :
          /\ frames'[i].fn \in StructureFns \cup ValueFns
          /\ frames'[i].fn = "document" <=> i = 1
          /\ frames'[i].fn \in {"operation", "fragment"} <=> i = 2
          /\ frames'[i].fn = "variables" => i = 3
          /\ frames'[i].at = "next" => frames'[i].fn = "value"
    BY <1>7, <1>8 DEF StructureFns
  <2>2. \A i, j \in DOMAIN frames' : i < j /\ frames'[j].fn = "selection" => Encloses(i)'
    <3>1. \A i, j \in DOMAIN frames' : i < j /\ frames'[j].fn = "selection" => i = 1 \/ i = 2
      BY <1>8
    <3> QED
      BY <1>7, <1>8, <3>1 DEF Encloses
  <2> QED
    BY <1>2, <1>7, <1>8, <2>1, <2>2 DEF FramesInv, Reported
<1>10. CountedInv'
  BY <1>7, <1>8 DEF CountedInv, Counted
<1>11. KeepsNext
  BY <1>1, <1>7, <1>8 DEF KeepsNext
<1>12. Root("query") \in Symbols
  BY <1>4 DEF Root
<1>13. diagnostics' = <<>> => Len(current_object_types') = 1 /\ current_object_types'[1] = Schema.query
  <2>1. diagnostics' = <<>> => current_object_types = <<>>
    BY <1>1, <1>2 DEF Reported, NestingInv, DefinitionTypes
  <2> QED
    BY <1>4, <2>1
<1>14. FramesKept
  BY <1>9, <1>10, <1>11 DEF FramesKept
<1>15. frames'[3] = SelectionFrame(Schema.query, Len(current_object_types'))
  BY <1>6, <1>8
<1> QED
  BY <1>2, <1>3, <1>5, <1>7, <1>8, <1>12, <1>13, <1>14, <1>15, FirstSelection

\* The frame on top is a selection set: n - 2 of them are open.
Selecting(n) ==
    /\ n \in Nat /\ n > 2 /\ n = Len(frames) /\ DOMAIN frames = 1 .. n
    /\ frames[2].at = "end" /\ frames[2].fn \in {"operation", "fragment"}
    /\ SelectionFrames = 3 .. n
    /\ \A i \in 3 .. n : frames[i].fn = "selection" /\ (i < n => frames[i].at = "begin")
    /\ Top = frames[n]

LEMMA InSelection ==
    ASSUME FramesInv, NEW at, In("selection", at)
    PROVE  \E n : Selecting(n) /\ frames[n].at = at
<1>1. PICK n : n = Len(frames) /\ n \in Nat /\ n > 0 /\ DOMAIN frames = 1 .. n
  BY SequenceLength DEF FramesInv
<1>2. frames[n].fn = "selection" /\ n \in DOMAIN frames /\ frames[n].at = at /\ Top = frames[n]
  BY <1>1, OnTop
<1>3. n # 1 /\ n # 2
  BY <1>2 DEF FramesInv
<1>4. n > 2 /\ 1 \in DOMAIN frames /\ 2 \in DOMAIN frames
  BY <1>1, <1>3
<1>5. \A i \in DOMAIN frames : i < n => Encloses(i)
  BY <1>2 DEF FramesInv
<1>6. \A i \in 3 .. n : frames[i].fn = "selection" /\ (i < n => frames[i].at = "begin")
  <2>1. TAKE i \in 3 .. n
  <2>2. CASE i = n
    BY <1>2, <2>2
  <2>3. CASE i < n
    <3>1. i \in DOMAIN frames /\ i # 1 /\ i # 2
      BY <1>1, <2>3
    <3> QED
      BY <1>5, <2>3, <3>1 DEF Encloses
  <2> QED
    BY <1>1, <2>2, <2>3
<1>7. frames[2].at = "end" /\ frames[2].fn \in {"operation", "fragment"}
  BY <1>4, <1>5 DEF Encloses, FramesInv
<1>8. frames[1].fn # "selection"
  BY <1>4 DEF FramesInv
<1>9. \A i \in 1 .. n : i \in 3 .. n \/ i = 1 \/ i = 2
  BY <1>1
<1>10. SelectionFrames = 3 .. n
  <2>1. \A i \in 3 .. n : i \in DOMAIN frames
    BY <1>1
  <2> QED
    BY <1>1, <1>6, <1>7, <1>8, <1>9, <2>1 DEF SelectionFrames
<1> QED
  BY <1>1, <1>2, <1>4, <1>6, <1>7, <1>10 DEF Selecting

\* What a step of a selection set has to keep: m is the innermost set behind it,
\* or 2 when the definition has none any more.
LEMMA SelectionStep ==
    ASSUME ExecutorInv, FramesKept, Reported, list_types' = list_types,
           NEW m \in Nat, m >= 2, SelectionFrames' = 3 .. m,
           2 \in DOMAIN frames, frames[2].at = "end", frames'[2] = frames[2],
           IF m = 2 THEN Len(frames') = 2 ELSE Len(frames') >= m,
           StackCoversSelections',
           m > 2 /\ frames'[m].at \in {"directives", "body"} =>
              Defines(current_object_types'[Len(current_object_types')], frames'[m].of.field),
           diagnostics' = <<>> =>
              /\ \A i \in 3 .. m :
                    frames'[i].of.base = i - 2 /\ current_object_types'[i - 2] = frames'[i].of.type
              /\ IF m > 2 /\ frames'[m].at = "inline"
                 THEN /\ Len(current_object_types') = m - 1
                      /\ current_object_types'[m - 1] = frames'[m].of.field
                 ELSE Len(current_object_types') = m - 2
              /\ "undefined_field" \notin flaws'
    PROVE  ExecutorInv'
<1>1. ListsInv'
  BY ListsKept DEF ExecutorInv, FramesKept
<1>2. PICK l : l = Len(frames') /\ l \in Nat /\ l >= m /\ DOMAIN frames' = 1 .. l
  BY SequenceLength DEF FramesKept, FramesInv
<1>3. FramesInv' /\ CountedInv'
  BY DEF FramesKept
<1>4. \A i \in DOMAIN frames' : frames'[i].fn \in {"operation", "fragment"} => i = 2
  BY <1>3 DEF FramesInv
<1>5. \A i \in DOMAIN frames' : ~ Pushed(i)'
  BY <1>4 DEF Pushed
<1>6. \A i \in 3 .. m : i # m => frames'[i].at = "begin"
  <2>1. SUFFICES ASSUME NEW i \in 3 .. m, i # m
                 PROVE  frames'[i].at = "begin"
    OBVIOUS
  <2>2. i < m /\ i > 2 /\ m \in 3 .. m /\ i \in DOMAIN frames'
    BY <1>2, <2>1
  <2>3. m \in DOMAIN frames' /\ frames'[m].fn = "selection"
    BY <2>2 DEF SelectionFrames
  <2>4. Encloses(i)'
    BY <1>3, <2>2, <2>3 DEF FramesInv
  <2> QED
    BY <2>2, <2>4 DEF Encloses
<1>7. BodyInv'
  <2>1. \A i \in DOMAIN frames' : frames'[i].fn = "operation" => Root(frames'[i].of) \in Symbols
    BY <1>4 DEF ExecutorInv, BodyInv
  <2>2. \A i \in 3 .. m : i = m => m > 2
    OBVIOUS
  <2> QED
    BY <1>5, <1>6, <2>1, <2>2 DEF BodyInv
<1>8. NestingInv'
  <2>1. SUFFICES ASSUME diagnostics' = <<>>
                 PROVE  NestingInv'
    BY DEF NestingInv
  <2>2. DefinitionTypes'
    <3>1. l = 2 => m = 2 /\ Len(current_object_types') = 0
      BY <1>2, <2>1
    <3>2. l = 2 => current_object_types' = <<>>
      BY <3>1, EmptySeq DEF StackCoversSelections
    <3> QED
      BY <1>2, <1>5, <3>2 DEF DefinitionTypes
  <2>3. \A i \in 3 .. m : Innermost(i)' => i = m /\ m > 2
    <3>1. SUFFICES ASSUME NEW i \in 3 .. m, i # m, Innermost(i)'
                   PROVE  FALSE
      OBVIOUS
    <3>2. i < l /\ i + 1 \in 3 .. m
      BY <1>2, <3>1
    <3>3. frames'[i + 1].fn = "selection"
      BY <3>2 DEF SelectionFrames
    <3> QED
      BY <1>2, <3>1, <3>2, <3>3 DEF Innermost
  <2> QED
    BY <2>1, <2>2, <2>3 DEF NestingInv
<1> QED
  BY <1>1, <1>3, <1>7, <1>8 DEF ExecutorInv

\* What a selection set says of itself does not change while it is read.
SameSet(n) ==
    /\ frames'[n].fn = "selection"
    /\ frames'[n].of.base = frames[n].of.base /\ frames'[n].of.type = frames[n].of.type

\* The innermost selection set goes on, or calls something that is no selection set.
LEMMA SelectionsKept ==
    ASSUME NEW n, Selecting(n), FramesKept, Below, SameSet(n),
           Len(frames') = n \/ (Len(frames') = n + 1 /\ frames'[n + 1].fn # "selection")
    PROVE  /\ SelectionFrames' = 3 .. n /\ Len(frames') >= n /\ frames'[2] = frames[2]
           /\ \A i \in 3 .. n : /\ frames'[i].of.base = frames[i].of.base
                                /\ frames'[i].of.type = frames[i].of.type
                                /\ i < n => frames'[i].at = "begin"
<1>1. n \in Nat /\ n > 2 /\ n = Len(frames)
  BY DEF Selecting
<1>2. PICK l : l = Len(frames') /\ l \in Nat /\ DOMAIN frames' = 1 .. l /\ l \in {n, n + 1}
  BY <1>1, SequenceLength DEF FramesKept, FramesInv
<1>3. \A i \in 1 .. n - 1 : frames'[i] = frames[i]
  BY <1>1 DEF Below
<1>4. \A i \in 3 .. n : frames'[i].fn = "selection" /\ i \in DOMAIN frames'
  <2>1. \A i \in 3 .. n : i = n \/ i \in 1 .. n - 1
    BY <1>1
  <2> QED
    BY <1>1, <1>2, <1>3, <2>1 DEF Selecting, SameSet
<1>5. \A i \in DOMAIN frames' : i \in 3 .. n \/ frames'[i].fn # "selection"
  <2>1. \A i \in DOMAIN frames' : i \in 3 .. n \/ i = 1 \/ i = 2 \/ (i = n + 1 /\ l = n + 1)
    BY <1>1, <1>2
  <2>2. \A i \in DOMAIN frames' : i = 1 \/ i = 2 => frames'[i].fn # "selection"
    BY DEF FramesKept, FramesInv
  <2> QED
    BY <1>1, <1>2, <2>1, <2>2
<1>6. SelectionFrames' = 3 .. n
  BY <1>4, <1>5 DEF SelectionFrames
<1>7. \A i \in 3 .. n : /\ frames'[i].of.base = frames[i].of.base
                        /\ frames'[i].of.type = frames[i].of.type
                        /\ i < n => frames'[i].at = "begin"
  <2>1. \A i \in 3 .. n : i = n \/ (i < n /\ i \in 1 .. n - 1)
    BY <1>1
  <2> QED
    BY <1>1, <1>3, <2>1 DEF Selecting, SameSet
<1>8. 2 \in 1 .. n - 1
  BY <1>1
<1> QED
  BY <1>1, <1>2, <1>3, <1>6, <1>7, <1>8

LEMMA SelectionGoesOn ==
    ASSUME ExecutorInv, NEW n, Selecting(n), FramesKept, Reported, Below, SameSet(n),
           Len(frames') = n \/ (Len(frames') = n + 1 /\ frames'[n + 1].fn # "selection"),
           list_types' = list_types, current_object_types' = current_object_types,
           frames'[n].at # "inline",
           frames'[n].at \in {"directives", "body"} =>
              Defines(current_object_types[Len(current_object_types)], frames'[n].of.field),
           diagnostics' = <<>> => frames[n].at # "inline" /\ "undefined_field" \notin flaws'
    PROVE  ExecutorInv'
<1>1. n \in Nat /\ n > 2 /\ n = Len(frames) /\ SelectionFrames = 3 .. n /\ 2 \in DOMAIN frames
      /\ frames[2].at = "end" /\ n \in 3 .. n
  BY DEF Selecting
<1>2. /\ SelectionFrames' = 3 .. n /\ Len(frames') >= n /\ frames'[2] = frames[2]
      /\ \A i \in 3 .. n : /\ frames'[i].of.base = frames[i].of.base
                           /\ frames'[i].of.type = frames[i].of.type
                           /\ i < n => frames'[i].at = "begin"
  BY SelectionsKept
<1>3. StackCoversSelections'
  <2>1. \A i \in 3 .. n : frames'[i].at # "inline"
    BY <1>1, <1>2
  <2> QED
    BY <1>1, <1>2, <2>1 DEF ExecutorInv, StackCoversSelections
<1>4. ASSUME diagnostics' = <<>>
      PROVE  /\ \A i \in 3 .. n :
                   frames'[i].of.base = i - 2 /\ current_object_types'[i - 2] = frames'[i].of.type
             /\ Len(current_object_types') = n - 2
  <2>1. NestingInv /\ diagnostics = <<>> /\ frames[n].at # "inline"
    BY <1>4 DEF ExecutorInv, Reported
  <2>2. Innermost(n)
    BY <1>1 DEF Innermost
  <2> QED
    BY <1>1, <1>2, <2>1, <2>2 DEF NestingInv
<1> QED
  BY <1>1, <1>2, <1>3, <1>4, SelectionStep

\* An inline fragment pushes its type in front of its directives and its set.
LEMMA SelectionPushes ==
    ASSUME ExecutorInv, NEW n, Selecting(n), FramesKept, Reported, Below, SameSet(n),
           frames[n].at = "begin", frames'[n].at = "inline",
           Len(frames') = n + 1, frames'[n + 1].fn # "selection",
           list_types' = list_types, flaws' = flaws,
           Push(frames'[n].of.field), frames'[n].of.field \in Symbols
    PROVE  ExecutorInv'
<1>1. n \in Nat /\ n > 2 /\ n = Len(frames) /\ SelectionFrames = 3 .. n /\ 2 \in DOMAIN frames
      /\ frames[2].at = "end" /\ n \in 3 .. n
  BY DEF Selecting
<1>2. /\ SelectionFrames' = 3 .. n /\ Len(frames') >= n /\ frames'[2] = frames[2]
      /\ \A i \in 3 .. n : /\ frames'[i].of.base = frames[i].of.base
                           /\ frames'[i].of.type = frames[i].of.type
                           /\ i < n => frames'[i].at = "begin"
  BY SelectionsKept
<1>3. PICK h : h = Len(current_object_types) /\ h \in Nat
  BY LenProperties DEF ExecutorInv, StackCoversSelections
<1>4. /\ current_object_types \in Seq(Symbols) /\ current_object_types' \in Seq(Symbols)
      /\ Len(current_object_types') = h + 1
      /\ \A k \in 1 .. h : current_object_types'[k] = current_object_types[k]
      /\ current_object_types'[h + 1] = frames'[n].of.field
  BY <1>3, AppendProperties DEF ExecutorInv, StackCoversSelections, Push
<1>5. StackCoversSelections'
  <2>1. \A i \in 3 .. n : frames[i].of.base \in 1 .. h
    BY <1>1, <1>3 DEF ExecutorInv, StackCoversSelections
  <2>2. \A i \in 3 .. n : frames'[i].of.base \in 1 .. h + 1 /\ frames'[i].of.base < h + 1
    BY <1>2, <1>3, <2>1
  <2>3. \A i, j \in 3 .. n : i < j => frames'[i].of.base < frames'[j].of.base
    BY <1>1, <1>2 DEF ExecutorInv, StackCoversSelections
  <2> QED
    BY <1>2, <1>4, <2>2, <2>3 DEF StackCoversSelections
<1>6. ASSUME diagnostics' = <<>>
      PROVE  /\ \A i \in 3 .. n :
                   frames'[i].of.base = i - 2 /\ current_object_types'[i - 2] = frames'[i].of.type
             /\ Len(current_object_types') = n - 1
             /\ current_object_types'[n - 1] = frames'[n].of.field
             /\ "undefined_field" \notin flaws'
  <2>1. NestingInv /\ diagnostics = <<>> /\ frames[n].at # "inline"
    BY <1>6 DEF ExecutorInv, Reported
  <2>2. Innermost(n)
    BY <1>1 DEF Innermost
  <2>3. h = n - 2 /\ \A i \in 3 .. n : i - 2 \in 1 .. h
    BY <1>1, <1>3, <2>1, <2>2 DEF NestingInv
  <2>4. \A i \in 3 .. n : frames[i].of.base = i - 2 /\ current_object_types[i - 2] = frames[i].of.type
    BY <1>1, <2>1 DEF NestingInv
  <2>5. "undefined_field" \notin flaws'
    BY <2>1 DEF NestingInv
  <2>6. h + 1 = n - 1
    BY <1>1, <2>3
  <2>7. \A i \in 3 .. n : current_object_types'[i - 2] = current_object_types[i - 2]
    BY <1>4, <2>3
  <2> QED
    BY <1>2, <1>4, <2>4, <2>5, <2>6, <2>7
<1> QED
  BY <1>1, <1>2, <1>5, <1>6, SelectionStep

\* A selection set opens another one, about a type that is pushed for it or waits.
LEMMA SelectionOpens ==
    ASSUME ExecutorInv, NEW n, Selecting(n), FramesKept, Reported, Below, SameSet(n),
           NEW type, frames'[n].at = "begin",
           Len(frames') = n + 1, frames'[n + 1] = SelectionFrame(type, Len(current_object_types')),
           \/ frames[n].at # "inline" /\ Push(type) /\ type \in Symbols
           \/ /\ frames[n].at = "inline" /\ current_object_types' = current_object_types
              /\ frames[n].of.field = type,
           list_types' = list_types, flaws' = flaws
    PROVE  ExecutorInv'
<1>1. n \in Nat /\ n > 2 /\ n = Len(frames) /\ SelectionFrames = 3 .. n /\ 2 \in DOMAIN frames
      /\ frames[2].at = "end" /\ n \in 3 .. n
  BY DEF Selecting
<1>2. DOMAIN frames' = 1 .. n + 1 /\ \A i \in 1 .. n - 1 : frames'[i] = frames[i]
  BY <1>1, SequenceLength DEF FramesKept, FramesInv, Below
<1>3. PICK h : h = Len(current_object_types') - 1 /\ h \in Nat
             /\ current_object_types' \in Seq(Symbols) /\ Len(current_object_types') = h + 1
             /\ \A i \in 3 .. n : frames[i].of.base \in 1 .. h
             /\ \A k \in 1 .. h : current_object_types'[k] = current_object_types[k]
  <2>1. PICK g : /\ g = Len(current_object_types) /\ g \in Nat
                 /\ \A i \in 3 .. n : frames[i].of.base \in 1 .. g
    BY <1>1, LenProperties DEF ExecutorInv, StackCoversSelections
  <2>2. CASE Push(type) /\ type \in Symbols
    BY <2>1, <2>2, AppendProperties DEF ExecutorInv, StackCoversSelections, Push
  <2>3. CASE frames[n].at = "inline" /\ current_object_types' = current_object_types
    <3>1. frames[n].of.base < g /\ frames[n].of.base \in 1 .. g
      BY <1>1, <2>1, <2>3 DEF ExecutorInv, StackCoversSelections
    <3>2. \A i \in 3 .. n : i # n => frames[i].of.base < frames[n].of.base
      <4>1. \A i \in 3 .. n : i # n => i < n
        BY <1>1
      <4> QED
        BY <1>1, <4>1 DEF ExecutorInv, StackCoversSelections
    <3>3. \A i \in 3 .. n : frames[i].of.base \in 1 .. g - 1
      BY <2>1, <3>1, <3>2
    <3> QED
      BY <2>1, <2>3, <3>1, <3>3 DEF ExecutorInv, StackCoversSelections
  <2> QED
    BY <2>2, <2>3
<1>4. /\ frames'[n + 1].fn = "selection" /\ frames'[n + 1].at = "begin"
      /\ frames'[n + 1].of.base = h + 1 /\ frames'[n + 1].of.type = type
  BY <1>3, SelectionFrameFields
<1>5. \A i \in 3 .. n : /\ frames'[i].fn = "selection" /\ frames'[i].at = "begin"
                        /\ frames'[i].of.base = frames[i].of.base
                        /\ frames'[i].of.type = frames[i].of.type
  <2>1. \A i \in 3 .. n : i = n \/ (i < n /\ i \in 1 .. n - 1)
    BY <1>1
  <2> QED
    BY <1>1, <1>2, <2>1 DEF Selecting, SameSet
<1>6. \A i \in 3 .. n + 1 : i \in 3 .. n \/ i = n + 1
  BY <1>1
<1>7. SelectionFrames' = 3 .. n + 1
  <2>1. \A i \in DOMAIN frames' : i \in 3 .. n + 1 \/ i = 1 \/ i = 2
    BY <1>1, <1>2
  <2>2. \A i \in DOMAIN frames' : i = 1 \/ i = 2 => frames'[i].fn # "selection"
    BY DEF FramesKept, FramesInv
  <2>3. \A i \in 3 .. n + 1 : i \in DOMAIN frames' /\ frames'[i].fn = "selection"
    BY <1>1, <1>2, <1>4, <1>5, <1>6
  <2> QED
    BY <2>1, <2>2, <2>3 DEF SelectionFrames
<1>8. StackCoversSelections'
  <2>1. \A i \in 3 .. n + 1 : frames'[i].of.base \in 1 .. h + 1 /\ frames'[i].at # "inline"
    BY <1>3, <1>4, <1>5, <1>6
  <2>2. \A i, j \in 3 .. n + 1 : i < j => frames'[i].of.base < frames'[j].of.base
    <3>1. SUFFICES ASSUME NEW i \in 3 .. n + 1, NEW j \in 3 .. n + 1, i < j
                   PROVE  frames'[i].of.base < frames'[j].of.base
      OBVIOUS
    <3>2. i \in 3 .. n
      BY <1>1, <3>1
    <3>3. CASE j = n + 1
      BY <1>3, <1>4, <1>5, <3>2, <3>3
    <3>4. CASE j \in 3 .. n
      BY <1>1, <1>5, <3>1, <3>2, <3>4 DEF ExecutorInv, StackCoversSelections
    <3> QED
      BY <1>6, <3>3, <3>4
  <2> QED
    BY <1>3, <1>7, <2>1, <2>2 DEF StackCoversSelections
<1>9. ASSUME diagnostics' = <<>>
      PROVE  /\ \A i \in 3 .. n + 1 :
                   frames'[i].of.base = i - 2 /\ current_object_types'[i - 2] = frames'[i].of.type
             /\ Len(current_object_types') = (n + 1) - 2
             /\ "undefined_field" \notin flaws'
  <2>1. NestingInv /\ diagnostics = <<>>
    BY <1>9 DEF ExecutorInv, Reported
  <2>2. Innermost(n)
    BY <1>1 DEF Innermost
  <2>3. \A i \in 3 .. n : frames[i].of.base = i - 2 /\ current_object_types[i - 2] = frames[i].of.type
    BY <1>1, <2>1 DEF NestingInv
  <2>4. Len(current_object_types') = n - 1 /\ current_object_types'[n - 1] = type
    <3>1. CASE frames[n].at # "inline" /\ Push(type) /\ type \in Symbols
      <4>1. Len(current_object_types) = n - 2 /\ n - 2 \in Nat
        BY <1>1, <2>1, <2>2, <3>1 DEF NestingInv
      <4>2. (n - 2) + 1 = n - 1
        BY <1>1
      <4> QED
        BY <3>1, <4>1, <4>2, AppendProperties DEF ExecutorInv, StackCoversSelections, Push
    <3>2. CASE /\ frames[n].at = "inline" /\ current_object_types' = current_object_types
               /\ frames[n].of.field = type
      BY <1>1, <2>1, <2>2, <3>2 DEF NestingInv
    <3> QED
      BY <3>1, <3>2
  <2>5. "undefined_field" \notin flaws'
    BY <2>1 DEF NestingInv
  <2>6. h = n - 2 /\ (n + 1) - 2 = n - 1
    BY <1>1, <1>3, <2>4
  <2>7. \A i \in 3 .. n : i - 2 \in 1 .. h
    BY <1>1, <2>6
  <2>8. \A i \in 3 .. n :
           frames'[i].of.base = i - 2 /\ current_object_types'[i - 2] = frames'[i].of.type
    BY <1>3, <1>5, <2>3, <2>7
  <2>9. frames'[n + 1].of.base = n - 1
    BY <1>1, <1>4, <2>6
  <2> QED
    BY <1>4, <1>6, <2>4, <2>5, <2>6, <2>8, <2>9
<1>10. frames'[2] = frames[2]
  <2>1. 2 \in 1 .. n - 1
    BY <1>1
  <2> QED
    BY <1>2, <2>1
<1>11. n + 1 \in Nat /\ n + 1 >= 2 /\ n + 1 # 2
  BY <1>1
<1> QED
  BY <1>1, <1>4, <1>7, <1>8, <1>9, <1>10, <1>11, SelectionStep

\* A selection set is left: by its closing brace, or with something reported.
LEMMA SelectionReturns ==
    ASSUME ExecutorInv, NEW n, Selecting(n), Reported, NEW value, Return(value),
           list_types' = list_types, flaws' = flaws,
           \/ diagnostics' # <<>> /\ current_object_types' = current_object_types
           \/ frames[n].at = "begin" /\ current_object_types' = Front(current_object_types)
    PROVE  ExecutorInv'
<1>1. n \in Nat /\ n > 2 /\ n = Len(frames) /\ SelectionFrames = 3 .. n /\ 2 \in DOMAIN frames
      /\ frames[2].at = "end" /\ n \in 3 .. n /\ frames[n].fn = "selection"
  BY DEF Selecting
<1>2. FramesInv /\ CountedInv
  BY DEF ExecutorInv
<1>3. FramesKept /\ Len(frames') = n - 1 /\ Below
  BY <1>1, <1>2, StructureReturn DEF StructureFns
<1>4. DOMAIN frames' = 1 .. n - 1 /\ \A i \in 1 .. n - 1 : frames'[i] = frames[i]
  BY <1>1, <1>3, SequenceLength DEF FramesKept, FramesInv, Below
<1>5. \A i \in 3 .. n - 1 : i \in 3 .. n /\ i < n /\ i \in 1 .. n - 1
  BY <1>1
<1>6. \A i \in 3 .. n - 1 : frames'[i] = frames[i] /\ frames'[i].at = "begin" /\ frames'[i].fn = "selection"
  BY <1>4, <1>5 DEF Selecting
<1>7. SelectionFrames' = 3 .. n - 1
  <2>1. \A i \in DOMAIN frames' : i \in 3 .. n - 1 \/ i = 1 \/ i = 2
    BY <1>1, <1>4
  <2>2. \A i \in DOMAIN frames' : i = 1 \/ i = 2 => frames'[i].fn # "selection"
    BY <1>3 DEF FramesKept, FramesInv
  <2> QED
    BY <1>4, <1>5, <1>6, <2>1, <2>2 DEF SelectionFrames
<1>8. PICK h : /\ h = Len(current_object_types) /\ h \in Nat /\ h > 0
               /\ \A i \in 3 .. n : frames[i].of.base \in 1 .. h
  BY <1>1, LenProperties DEF ExecutorInv, StackCoversSelections
<1>9. \A i \in 3 .. n - 1 : frames[i].of.base < frames[n].of.base
  BY <1>1, <1>5 DEF ExecutorInv, StackCoversSelections
<1>10. \A i \in 3 .. n - 1 : frames[i].of.base \in 1 .. h - 1
  <2>1. TAKE i \in 3 .. n - 1
  <2>2. PICK b, c : b = frames[i].of.base /\ c = frames[n].of.base
    OBVIOUS
  <2>3. b \in 1 .. h /\ c \in 1 .. h /\ b < c
    BY <1>1, <1>5, <1>8, <1>9, <2>2
  <2>4. b \in 1 .. h - 1
    BY <1>8, <2>3
  <2> QED
    BY <2>2, <2>4
<1>11. ASSUME current_object_types' = Front(current_object_types)
       PROVE  /\ current_object_types' \in Seq(Symbols) /\ Len(current_object_types') = h - 1
              /\ \A k \in 1 .. h - 1 : current_object_types'[k] = current_object_types[k]
  BY <1>8, <1>11, FrontOfSeq DEF ExecutorInv, StackCoversSelections
<1>12. StackCoversSelections'
  <2>1. current_object_types' \in Seq(Symbols) /\ Len(current_object_types') \in {h - 1, h}
    BY <1>8, <1>11 DEF ExecutorInv, StackCoversSelections
  <2>2. \A i \in 3 .. n - 1 : frames'[i].of.base \in 1 .. Len(current_object_types')
    BY <1>6, <1>8, <1>10, <2>1
  <2>3. \A i, j \in 3 .. n - 1 : i < j => frames'[i].of.base < frames'[j].of.base
    BY <1>1, <1>5, <1>6 DEF ExecutorInv, StackCoversSelections
  <2> QED
    BY <1>6, <1>7, <2>1, <2>2, <2>3 DEF StackCoversSelections
<1>13. ASSUME diagnostics' = <<>>
       PROVE  /\ \A i \in 3 .. n - 1 :
                    frames'[i].of.base = i - 2 /\ current_object_types'[i - 2] = frames'[i].of.type
              /\ Len(current_object_types') = (n - 1) - 2
              /\ "undefined_field" \notin flaws'
  <2>1. NestingInv /\ diagnostics = <<>> /\ frames[n].at = "begin"
        /\ current_object_types' = Front(current_object_types)
    BY <1>13 DEF ExecutorInv, Reported
  <2>2. Innermost(n)
    BY <1>1 DEF Innermost
  <2>3. h = n - 2
    BY <1>1, <1>8, <2>1, <2>2 DEF NestingInv
  <2>4. \A i \in 3 .. n - 1 :
           frames'[i].of.base = i - 2 /\ current_object_types[i - 2] = frames'[i].of.type
    BY <1>1, <1>5, <1>6, <2>1 DEF NestingInv
  <2>5. \A i \in 3 .. n - 1 : i - 2 \in 1 .. h - 1
    BY <1>1, <2>3
  <2>6. "undefined_field" \notin flaws'
    BY <2>1 DEF NestingInv
  <2>7. h - 1 = (n - 1) - 2
    BY <1>1, <2>3
  <2> QED
    BY <1>11, <2>1, <2>4, <2>5, <2>6, <2>7
<1>14. n - 1 \in Nat /\ n - 1 >= 2 /\ frames'[2] = frames[2]
  <2>1. 2 \in 1 .. n - 1 /\ n - 1 \in Nat /\ n - 1 >= 2
    BY <1>1
  <2> QED
    BY <1>4, <2>1
<1>15. n - 1 > 2 => frames'[n - 1].at = "begin"
  <2>1. n - 1 > 2 => n - 1 \in 3 .. n - 1
    BY <1>1
  <2> QED
    BY <1>6, <2>1
<1> QED
  BY <1>1, <1>3, <1>7, <1>12, <1>13, <1>14, <1>15, SelectionStep

\* The record of a selection set with another field is that of the same set.
LEMMA SelectedFields ==
    ASSUME NEW field
    PROVE  /\ Selected(field).type = Top.of.type /\ Selected(field).base = Top.of.base
           /\ Selected(field).field = field
BY DEF Selected, Selection

\* The frames behind a step that stays in the selection set.
LEMMA SelectionFrameGoesOn ==
    ASSUME FramesInv, CountedInv, Reported, NEW n, Selecting(n),
           NEW at \in {"begin", "inline", "directives", "body"}, NEW of,
           of.type = frames[n].of.type, of.base = frames[n].of.base,
           \/ Goto(at, of)
           \/ \E callee : /\ Call(at, of, callee) /\ callee.fn \in {"arguments", "directives"}
                          /\ callee.at # "next" /\ Counted(callee)
    PROVE  /\ FramesKept /\ Below /\ SameSet(n)
           /\ Len(frames') = n \/ (Len(frames') = n + 1 /\ frames'[n + 1].fn # "selection")
           /\ frames'[n].at = at /\ frames'[n].of = of
<1>1. n \in Nat /\ n > 2 /\ n = Len(frames) /\ n \in 3 .. n /\ frames[n].fn = "selection"
  BY DEF Selecting
<1>2. CASE Goto(at, of)
  <2>1. FramesKept /\ Len(frames') = n /\ Below /\ frames'[n] = Frame("selection", at, of)
    BY <1>1, <1>2, StructureGoto DEF StructureFns
  <2> QED
    BY <2>1 DEF Frame, SameSet
<1>3. CASE \E callee : /\ Call(at, of, callee) /\ callee.fn \in {"arguments", "directives"}
                       /\ callee.at # "next" /\ Counted(callee)
  <2>1. PICK callee : /\ Call(at, of, callee) /\ callee.fn \in {"arguments", "directives"}
                      /\ callee.at # "next" /\ Counted(callee)
    BY <1>3
  <2>2. MayCall(n, "selection", at, callee)
    BY <1>1, <2>1 DEF MayCall, CallFns
  <2>3. Call(at, of, callee)
    BY <2>1
  <2>4. /\ FramesKept /\ Len(frames') = n + 1 /\ Below /\ frames'[n] = Frame("selection", at, of)
        /\ frames'[n + 1] = callee
    BY <1>1, <2>2, <2>3, StructureCall DEF StructureFns
  <2> QED
    BY <2>1, <2>4 DEF Frame, SameSet
<1> QED
  BY <1>2, <1>3

\* Directives are called with what they need.
LEMMA CalledDirectives ==
    ASSUME NEW at, NEW of, NEW location, CallDirectives(at, of, location)
    PROVE  \E callee : /\ Call(at, of, callee) /\ callee.fn \in {"arguments", "directives"}
                       /\ callee.at # "next" /\ Counted(callee)
<1>1. PICK callee : /\ callee = Frame("directives", "begin", Directives(location, {}, ""))
                    /\ Call(at, of, callee)
  BY DEF CallDirectives
<1>2. callee.fn = "directives" /\ callee.at = "begin"
  BY <1>1 DEF Frame
<1>3. Counted(callee)
  BY <1>2 DEF Counted
<1>4. Call(at, of, callee)
  BY <1>1
<1> QED
  BY <1>2, <1>3, <1>4

LEMMA FragmentSpreadStep ==
    ASSUME ExecutorInv, FragmentSpread
    PROVE  ExecutorInv'
<1>1. FramesInv /\ CountedInv /\ In("selection", "begin")
  BY DEF ExecutorInv, FragmentSpread
<1>2. PICK n : Selecting(n) /\ frames[n].at = "begin"
  BY <1>1, InSelection
<1>3. /\ list_types' = list_types /\ flaws' = flaws /\ current_object_types' = current_object_types
      /\ Top = frames[n]
  BY <1>2 DEF FragmentSpread, valueVars, Selecting
<1>4. \/ Reports /\ CallDirectives("begin", Selected(""), "FRAGMENT_SPREAD")
      \/ frames' = frames /\ \E p, message : Report(p, <<message>>)
  BY ShortSequences DEF FragmentSpread, Reports
<1>5. CASE Reports /\ CallDirectives("begin", Selected(""), "FRAGMENT_SPREAD")
  <2>1. Reported
    BY <1>1, <1>5, ReportsAreReported
  <2>2. PICK of : of = Selected("")
    OBVIOUS
  <2>3. of.type = frames[n].of.type /\ of.base = frames[n].of.base
    BY <1>3, <2>2, SelectedFields
  <2>4. CallDirectives("begin", of, "FRAGMENT_SPREAD")
    BY <1>5, <2>2
  <2>5. \E callee : /\ Call("begin", of, callee) /\ callee.fn \in {"arguments", "directives"}
                    /\ callee.at # "next" /\ Counted(callee)
    BY <2>4, CalledDirectives
  <2>6. /\ FramesKept /\ Below /\ SameSet(n)
        /\ Len(frames') = n \/ (Len(frames') = n + 1 /\ frames'[n + 1].fn # "selection")
        /\ frames'[n].at = "begin"
    BY <1>1, <1>2, <2>1, <2>3, <2>5, SelectionFrameGoesOn
  <2>7. diagnostics' = <<>> => "undefined_field" \notin flaws'
    BY <1>3, <2>1 DEF Reported, ExecutorInv, NestingInv
  <2> QED
    BY <1>2, <1>3, <2>1, <2>6, <2>7, SelectionGoesOn
<1>6. CASE frames' = frames /\ \E p, message : Report(p, <<message>>)
  BY <1>1, <1>3, <1>6, OneMessage, StayStep
<1> QED
  BY <1>4, <1>5, <1>6

\* The type on top, and that there is one.
LEMMA TopType ==
    ASSUME ExecutorInv, NEW n, Selecting(n)
    PROVE  /\ Last(current_object_types) = current_object_types[Len(current_object_types)]
           /\ Last(current_object_types) \in Symbols
           /\ diagnostics = <<>> /\ frames[n].at # "inline" => Last(current_object_types) = frames[n].of.type
<1>1. n \in Nat /\ n > 2 /\ n = Len(frames) /\ SelectionFrames = 3 .. n /\ n \in 3 .. n
  BY DEF Selecting
<1>2. PICK h : h = Len(current_object_types) /\ h \in Nat /\ frames[n].of.base \in 1 .. h
  BY <1>1, LenProperties DEF ExecutorInv, StackCoversSelections
<1>3. h \in 1 .. h
  BY <1>2
<1>4. current_object_types[h] \in Symbols
  BY <1>2, <1>3, ElementOfSeq DEF ExecutorInv, StackCoversSelections
<1>5. ASSUME diagnostics = <<>>, frames[n].at # "inline"
      PROVE  current_object_types[h] = frames[n].of.type
  <2>1. Innermost(n)
    BY <1>1 DEF Innermost
  <2>2. h = n - 2
    BY <1>1, <1>2, <1>5, <2>1 DEF ExecutorInv, NestingInv
  <2> QED
    BY <1>1, <1>5, <2>2 DEF ExecutorInv, NestingInv
<1> QED
  BY <1>2, <1>4, <1>5 DEF Last

LEMMA SelectFieldStep ==
    ASSUME ExecutorInv, SelectField
    PROVE  ExecutorInv'
<1>1. FramesInv /\ CountedInv /\ In("selection", "begin")
  BY DEF ExecutorInv, SelectField
<1>2. PICK n : Selecting(n) /\ frames[n].at = "begin"
  BY <1>1, InSelection
<1>3. /\ list_types' = list_types /\ current_object_types' = current_object_types
      /\ Top = frames[n]
  BY <1>2 DEF SelectField, Selecting
<1>4. PICK name, type : name = TokenAt(position) /\ type = Last(current_object_types)
  OBVIOUS
<1>5. Defines(type, name) /\ flaws' = flaws \cup FieldFlaws
  BY <1>4 DEF SelectField
<1>6. Reported
  <2>1. Reports
    BY ShortSequences DEF SelectField, Reports, When
  <2> QED
    BY <1>1, <2>1, ReportsAreReported
<1>7. /\ type = current_object_types[Len(current_object_types)] /\ type \in Symbols
      /\ diagnostics = <<>> => type = frames[n].of.type
  BY <1>2, <1>4, TopType
<1>8. PICK of : of = Selected(name)
  OBVIOUS
<1>9. of.type = frames[n].of.type /\ of.base = frames[n].of.base /\ of.field = name
  BY <1>3, <1>8, SelectedFields
<1>10. \/ Goto("directives", of)
       \/ CallArguments("directives", of, Schema.arguments[type][name])
  BY <1>4, <1>8 DEF SelectField
<1>11. \/ Goto("directives", of)
       \/ \E callee : /\ Call("directives", of, callee) /\ callee.fn \in {"arguments", "directives"}
                      /\ callee.at # "next" /\ Counted(callee)
  <2>1. SUFFICES ASSUME CallArguments("directives", of, Schema.arguments[type][name])
                 PROVE  \E callee : /\ Call("directives", of, callee)
                                    /\ callee.fn \in {"arguments", "directives"}
                                    /\ callee.at # "next" /\ Counted(callee)
    BY <1>10
  <2>2. PICK definitions, callee :
           /\ definitions = Schema.arguments[type][name]
           /\ callee = Frame("arguments", "begin", Arguments(definitions, {}, ""))
           /\ Call("directives", of, callee)
    BY <2>1 DEF CallArguments
  <2>3. IsFiniteSet(DOMAIN definitions)
    BY <1>5, <1>7, <2>2, ExecutorAssumption DEF SchemaComplete, Defines
  <2>4. callee.fn = "arguments" /\ callee.at = "begin" /\ callee.of.definitions = definitions
    BY <2>2 DEF Frame, Arguments
  <2>5. Counted(callee)
    BY <2>3, <2>4 DEF Counted
  <2>6. Call("directives", of, callee)
    BY <2>2
  <2> QED
    BY <2>4, <2>5, <2>6
<1>12. /\ FramesKept /\ Below /\ SameSet(n)
       /\ Len(frames') = n \/ (Len(frames') = n + 1 /\ frames'[n + 1].fn # "selection")
       /\ frames'[n].at = "directives" /\ frames'[n].of = of
  BY <1>1, <1>2, <1>6, <1>9, <1>11, SelectionFrameGoesOn
<1>13. ASSUME diagnostics' = <<>>
       PROVE  "undefined_field" \notin flaws'
  <2>1. diagnostics = <<>> /\ "undefined_field" \notin flaws
    BY <1>6, <1>13 DEF Reported, ExecutorInv, NestingInv
  <2>2. Defines(Top.of.type, TokenAt(position))
    BY <1>3, <1>4, <1>5, <1>7, <2>1
  <2>3. "undefined_field" \notin FieldFlaws
    BY <2>2 DEF FieldFlaws
  <2> QED
    BY <1>5, <2>1, <2>3
<1> QED
  BY <1>2, <1>3, <1>5, <1>6, <1>7, <1>9, <1>12, <1>13, SelectionGoesOn

LEMMA RefuseFieldSteps ==
    ASSUME ExecutorInv, RefuseField \/ UndefinedField
    PROVE  ExecutorInv'
<1>1. FramesInv
  BY DEF ExecutorInv
<1>2. CASE RefuseField
  <2>1. \E p, message : Report(p, <<message>>)
    BY <1>2 DEF RefuseField
  <2>2. Reported /\ diagnostics' # <<>>
    BY <1>1, <2>1, OneMessage
  <2>3. frames' = frames /\ current_object_types' = current_object_types /\ list_types' = list_types
    BY <1>2 DEF RefuseField
  <2> QED
    BY <2>2, <2>3, StayStep
<1>3. CASE UndefinedField
  <2>1. /\ frames' = frames /\ current_object_types' = current_object_types /\ list_types' = list_types
        /\ flaws' = flaws /\ diagnostics' = diagnostics
    BY <1>3 DEF UndefinedField, Undefined, Stop, valueVars
  <2>2. Reported
    BY <1>1, <2>1 DEF Reported, FramesInv
  <2> QED
    BY <2>1, <2>2, StayStep
<1> QED
  BY <1>2, <1>3

LEMMA FieldDirectivesStep ==
    ASSUME ExecutorInv, FieldDirectives
    PROVE  ExecutorInv'
<1>1. FramesInv /\ CountedInv /\ In("selection", "directives")
  BY DEF ExecutorInv, FieldDirectives
<1>2. PICK n : Selecting(n) /\ frames[n].at = "directives"
  BY <1>1, InSelection
<1>3. /\ list_types' = list_types /\ flaws' = flaws /\ current_object_types' = current_object_types
      /\ diagnostics' = diagnostics /\ Top = frames[n] /\ n \in SelectionFrames
  BY <1>2 DEF FieldDirectives, valueVars, Selecting
<1>4. Reported
  BY <1>1, <1>3 DEF Reported, FramesInv
<1>5. PICK of : of = frames[n].of
  OBVIOUS
<1>6. CallDirectives("body", of, "FIELD")
  BY <1>3, <1>5 DEF FieldDirectives
<1>7. \E callee : /\ Call("body", of, callee) /\ callee.fn \in {"arguments", "directives"}
                  /\ callee.at # "next" /\ Counted(callee)
  BY <1>6, CalledDirectives
<1>8. /\ FramesKept /\ Below /\ SameSet(n)
      /\ Len(frames') = n \/ (Len(frames') = n + 1 /\ frames'[n + 1].fn # "selection")
      /\ frames'[n].at = "body" /\ frames'[n].of = of
  BY <1>1, <1>2, <1>4, <1>5, <1>7, SelectionFrameGoesOn
<1>9. Defines(current_object_types[Len(current_object_types)], of.field)
  BY <1>2, <1>3, <1>5 DEF ExecutorInv, BodyInv
<1>10. diagnostics' = <<>> => "undefined_field" \notin flaws'
  BY <1>3 DEF ExecutorInv, NestingInv
<1> QED
  BY <1>2, <1>3, <1>4, <1>8, <1>9, <1>10, SelectionGoesOn

\* The frames behind a selection set that calls another one.
LEMMA SelectionFrameOpens ==
    ASSUME FramesInv, CountedInv, Reported, NEW n, Selecting(n), NEW type, NEW base,
           Call("begin", frames[n].of, SelectionFrame(type, base))
    PROVE  /\ FramesKept /\ Below /\ SameSet(n) /\ Len(frames') = n + 1
           /\ frames'[n].at = "begin" /\ frames'[n + 1] = SelectionFrame(type, base)
<1>1. n \in Nat /\ n > 2 /\ n = Len(frames) /\ n \in 3 .. n /\ frames[n].fn = "selection"
  BY DEF Selecting
<1>2. PICK callee : callee = SelectionFrame(type, base) /\ Call("begin", frames[n].of, callee)
  OBVIOUS
<1>3. callee.fn = "selection" /\ callee.at = "begin"
  BY <1>2, SelectionFrameFields
<1>4. MayCall(n, "selection", "begin", callee)
  BY <1>1, <1>3 DEF MayCall, Counted
<1>5. Call("begin", frames[n].of, callee)
  BY <1>2
<1>6. /\ FramesKept /\ Len(frames') = n + 1 /\ Below
      /\ frames'[n] = Frame("selection", "begin", frames[n].of) /\ frames'[n + 1] = callee
  BY <1>1, <1>4, <1>5, StructureCall DEF StructureFns
<1> QED
  BY <1>2, <1>6 DEF Frame, SameSet

LEMMA InlineFragmentStep ==
    ASSUME ExecutorInv, InlineFragment
    PROVE  ExecutorInv'
<1>1. FramesInv /\ CountedInv /\ In("selection", "begin")
  BY DEF ExecutorInv, InlineFragment
<1>2. PICK n : Selecting(n) /\ frames[n].at = "begin"
  BY <1>1, InSelection
<1>3. list_types' = list_types /\ flaws' = flaws /\ Top = frames[n]
  BY <1>2 DEF InlineFragment, valueVars, Selecting
<1>4. \/ /\ Return("null") /\ current_object_types' = current_object_types
         /\ \E p, q, message : Report(p, <<q, message>>)
      \/ /\ frames' = frames /\ current_object_types' = current_object_types
         /\ \E p, message : Report(p, <<message>>)
      \/ \E type \in Symbols :
            /\ \E p : Report(p, Mismatch(type, Last(current_object_types)))
            /\ Push(type) /\ CallDirectives("inline", Selected(type), "INLINE_FRAGMENT")
  BY DEF InlineFragment
<1>5. CASE /\ Return("null") /\ current_object_types' = current_object_types
           /\ \E p, q, message : Report(p, <<q, message>>)
  <2>1. PICK p, q, message : Report(p, <<q, message>>)
    BY <1>5
  <2>2. PICK messages : messages = <<q, message>>
    OBVIOUS
  <2>3. messages \in Seq({q, message}) /\ messages # <<>>
    BY <2>2
  <2>4. IsSequence(messages)
    BY <2>3, ElementsMakeSequence
  <2>5. Reported /\ diagnostics' # <<>>
    BY <1>1, <2>1, <2>2, <2>3, <2>4, ReportedMessages
  <2> QED
    BY <1>2, <1>3, <1>5, <2>5, SelectionReturns
<1>6. CASE /\ frames' = frames /\ current_object_types' = current_object_types
           /\ \E p, message : Report(p, <<message>>)
  BY <1>1, <1>3, <1>6, OneMessage, StayStep
<1>7. CASE \E type \in Symbols :
              /\ \E p : Report(p, Mismatch(type, Last(current_object_types)))
              /\ Push(type) /\ CallDirectives("inline", Selected(type), "INLINE_FRAGMENT")
  <2>1. PICK type \in Symbols :
          /\ \E p : Report(p, Mismatch(type, Last(current_object_types)))
          /\ Push(type) /\ CallDirectives("inline", Selected(type), "INLINE_FRAGMENT")
    BY <1>7
  <2>2. Reported
    <3>1. PICK messages : messages = Mismatch(type, Last(current_object_types))
      OBVIOUS
    <3>2. IsSequence(messages)
      BY <3>1, ShortSequences DEF Mismatch, When
    <3> QED
      BY <1>1, <2>1, <3>1, <3>2, ReportedMessages
  <2>3. PICK of : of = Selected(type)
    OBVIOUS
  <2>4. of.type = frames[n].of.type /\ of.base = frames[n].of.base /\ of.field = type
    BY <1>3, <2>3, SelectedFields
  <2>5. CallDirectives("inline", of, "INLINE_FRAGMENT")
    BY <2>1, <2>3
  <2>6. PICK callee : /\ Call("inline", of, callee) /\ callee.fn \in {"arguments", "directives"}
                      /\ callee.at # "next" /\ Counted(callee)
    BY <2>5, CalledDirectives
  <2>7. /\ FramesKept /\ Below /\ SameSet(n)
        /\ Len(frames') = n \/ (Len(frames') = n + 1 /\ frames'[n + 1].fn # "selection")
        /\ frames'[n].at = "inline" /\ frames'[n].of = of
    BY <1>1, <1>2, <2>2, <2>4, <2>6, SelectionFrameGoesOn
  <2>8. Len(frames') = n + 1
    <3>1. Call("inline", of, callee)
      BY <2>6
    <3>2. IsSequence(frames) /\ Len(frames) > 0 /\ Len(frames) = n
      BY <1>1, <1>2 DEF FramesInv, Selecting
    <3> QED
      BY <3>1, <3>2, AfterCall
  <2>9. frames'[n + 1].fn # "selection"
    <3>1. n \in Nat
      BY <1>2 DEF Selecting
    <3>2. n # n + 1
      BY <3>1
    <3> QED
      BY <2>7, <2>8, <3>2
  <2> QED
    BY <1>2, <1>3, <2>1, <2>2, <2>4, <2>7, <2>8, <2>9, SelectionPushes
<1> QED
  BY <1>4, <1>5, <1>6, <1>7

LEMMA InlineFragmentBodyStep ==
    ASSUME ExecutorInv, InlineFragmentBody
    PROVE  ExecutorInv'
<1>1. FramesInv /\ CountedInv /\ In("selection", "inline")
  BY DEF ExecutorInv, InlineFragmentBody
<1>2. PICK n : Selecting(n) /\ frames[n].at = "inline"
  BY <1>1, InSelection
<1>3. /\ list_types' = list_types /\ flaws' = flaws /\ current_object_types' = current_object_types
      /\ Top = frames[n]
  BY <1>2 DEF InlineFragmentBody, valueVars, Selecting
<1>4. PICK type : type = frames[n].of.field
  OBVIOUS
<1>5. \/ Reports /\ Call("begin", frames[n].of, SelectionFrame(type, Len(current_object_types)))
      \/ Goto("begin", frames[n].of) /\ \E p, message : Report(p, <<message>>)
  BY <1>3, <1>4, ShortSequences DEF InlineFragmentBody, Reports
<1>6. CASE Reports /\ Call("begin", frames[n].of, SelectionFrame(type, Len(current_object_types)))
  <2>1. Reported
    BY <1>1, <1>6, ReportsAreReported
  <2>2. /\ FramesKept /\ Below /\ SameSet(n) /\ Len(frames') = n + 1
        /\ frames'[n].at = "begin" /\ frames'[n + 1] = SelectionFrame(type, Len(current_object_types))
    BY <1>1, <1>2, <1>6, <2>1, SelectionFrameOpens
  <2> QED
    BY <1>2, <1>3, <1>4, <2>1, <2>2, SelectionOpens
<1>7. CASE Goto("begin", frames[n].of) /\ \E p, message : Report(p, <<message>>)
  <2>1. Reported /\ diagnostics' # <<>>
    BY <1>1, <1>7, OneMessage
  <2>2. /\ FramesKept /\ Below /\ SameSet(n)
        /\ Len(frames') = n \/ (Len(frames') = n + 1 /\ frames'[n + 1].fn # "selection")
        /\ frames'[n].at = "begin"
    BY <1>1, <1>2, <1>7, <2>1, SelectionFrameGoesOn
  <2> QED
    BY <1>2, <1>3, <2>1, <2>2, SelectionGoesOn
<1> QED
  BY <1>5, <1>6, <1>7

LEMMA FieldBodyStep ==
    ASSUME ExecutorInv, FieldBody
    PROVE  ExecutorInv'
<1>1. FramesInv /\ CountedInv /\ In("selection", "body")
  BY DEF ExecutorInv, FieldBody
<1>2. PICK n : Selecting(n) /\ frames[n].at = "body"
  BY <1>1, InSelection
<1>3. list_types' = list_types /\ flaws' = flaws /\ Top = frames[n] /\ n \in SelectionFrames
  <2>1. UNCHANGED valueVars
    BY DEF FieldBody
  <2> QED
    BY <1>2, <2>1 DEF valueVars, Selecting
<1>4. PICK type : type = Schema.fields[Last(current_object_types)][frames[n].of.field]
  OBVIOUS
<1>5. \/ Reports /\ Goto("begin", frames[n].of) /\ current_object_types' = current_object_types
      \/ Reports /\ type.kind = "Object" /\ EnterField(type.name)
      \/ /\ \E p, message : Report(p, <<message>>)
         /\ Return("null") /\ current_object_types' = current_object_types
  BY <1>3, <1>4, ShortSequences DEF FieldBody, Reports
<1>6. CASE Reports /\ Goto("begin", frames[n].of) /\ current_object_types' = current_object_types
  <2>1. Reported
    BY <1>1, <1>6, ReportsAreReported
  <2>2. /\ FramesKept /\ Below /\ SameSet(n)
        /\ Len(frames') = n \/ (Len(frames') = n + 1 /\ frames'[n + 1].fn # "selection")
        /\ frames'[n].at = "begin"
    BY <1>1, <1>2, <1>6, <2>1, SelectionFrameGoesOn
  <2>3. diagnostics' = <<>> => "undefined_field" \notin flaws'
    BY <1>3, <2>1 DEF Reported, ExecutorInv, NestingInv
  <2> QED
    BY <1>2, <1>3, <1>6, <2>1, <2>2, <2>3, SelectionGoesOn
<1>7. CASE Reports /\ type.kind = "Object" /\ EnterField(type.name)
  <2>1. Reported
    BY <1>1, <1>7, ReportsAreReported
  <2>2. /\ Push(type.name)
        /\ Call("begin", frames[n].of, SelectionFrame(type.name, Len(current_object_types')))
    BY <1>3, <1>7 DEF EnterField
  <2>3. type.name \in Symbols
    <3>1. /\ Last(current_object_types) \in Symbols
          /\ Last(current_object_types) = current_object_types[Len(current_object_types)]
      BY <1>2, TopType
    <3>2. Defines(Last(current_object_types), frames[n].of.field)
      BY <1>2, <1>3, <3>1 DEF ExecutorInv, BodyInv
    <3> QED
      BY <1>4, <1>7, <3>1, <3>2, ExecutorAssumption DEF SchemaComplete, Defines
  <2>4. /\ FramesKept /\ Below /\ SameSet(n) /\ Len(frames') = n + 1
        /\ frames'[n].at = "begin"
        /\ frames'[n + 1] = SelectionFrame(type.name, Len(current_object_types'))
    BY <1>1, <1>2, <2>1, <2>2, SelectionFrameOpens
  <2> QED
    BY <1>2, <1>3, <2>1, <2>2, <2>3, <2>4, SelectionOpens
<1>8. CASE /\ \E p, message : Report(p, <<message>>)
           /\ Return("null") /\ current_object_types' = current_object_types
  BY <1>1, <1>2, <1>3, <1>8, OneMessage, SelectionReturns
<1> QED
  BY <1>5, <1>6, <1>7, <1>8

LEMMA LeaveSelectionSteps ==
    ASSUME ExecutorInv, CloseSelectionSet \/ BreakSelectionSet
    PROVE  ExecutorInv'
<1>1. FramesInv /\ In("selection", "begin")
  BY DEF ExecutorInv, CloseSelectionSet, BreakSelectionSet
<1>2. PICK n : Selecting(n) /\ frames[n].at = "begin"
  BY <1>1, InSelection
<1>3. list_types' = list_types /\ flaws' = flaws
  BY DEF CloseSelectionSet, BreakSelectionSet, valueVars
<1>4. CASE CloseSelectionSet
  <2>1. Reports
    BY <1>4, ShortSequences DEF CloseSelectionSet, Reports
  <2>2. Reported
    BY <1>1, <2>1, ReportsAreReported
  <2>3. Return("selection_set") /\ current_object_types' = Front(current_object_types)
    BY <1>4 DEF CloseSelectionSet
  <2> QED
    BY <1>2, <1>3, <2>2, <2>3, SelectionReturns
<1>5. CASE BreakSelectionSet
  <2>1. \E p, message : Report(p, <<message>>)
    BY <1>5 DEF BreakSelectionSet
  <2>2. Reported /\ diagnostics' # <<>>
    BY <1>1, <2>1, OneMessage
  <2>3. PICK value : Return(value)
    BY <1>5 DEF BreakSelectionSet
  <2>4. current_object_types' = current_object_types
    BY <1>5 DEF BreakSelectionSet
  <2> QED
    BY <1>2, <1>3, <2>2, <2>3, <2>4, SelectionReturns
<1> QED
  BY <1>4, <1>5

-----------------------------------------------------------------------------
(* Theorems *)

LEMMA InitMakesInvariant ==
    ASSUME Init
    PROVE  ExecutorInv
<1>1. PICK frame : frame = Frame("document", "begin", 0) /\ frames = <<frame>>
  BY DEF Init
<1>2. frame.fn = "document" /\ frame.at = "begin"
  BY <1>1 DEF Frame
<1>3. IsSequence(frames) /\ Len(frames) = 1 /\ DOMAIN frames = {1} /\ frames[1] = frame
  <2>1. IsSequence(frames)
    BY <1>1, ShortSequences
  <2> QED
    BY <1>1, <2>1
<1>4. diagnostics = <<>> /\ IsSequence(diagnostics) /\ current_object_types = <<>>
      /\ flaws = {} /\ list_types = ListTypes
  BY ShortSequences DEF Init
<1>5. SelectionFrames = {}
  BY <1>2, <1>3 DEF SelectionFrames
<1>6. FramesInv
  <2>1. \A i, j \in DOMAIN frames : i < j /\ frames[j].fn = "selection" => Encloses(i)
    BY <1>2, <1>3
  <2> QED
    BY <1>2, <1>3, <1>4, <2>1 DEF FramesInv, StructureFns
<1>7. CountedInv
  BY <1>2, <1>3 DEF CountedInv, Counted
<1>8. StackCoversSelections
  BY <1>4, <1>5, EmptySeq DEF StackCoversSelections
<1>9. BodyInv
  BY <1>2, <1>3, <1>5 DEF BodyInv, Pushed
<1>10. NestingInv
  BY <1>2, <1>3, <1>4, <1>5 DEF NestingInv, DefinitionTypes, Innermost
<1>11. ListsInv
  BY <1>2, <1>3, <1>4 DEF ListsInv
<1> QED
  BY <1>6, <1>7, <1>8, <1>9, <1>10, <1>11 DEF ExecutorInv

LEMMA ValueActionsKeepInvariant ==
    ASSUME ExecutorInv, ValueActions
    PROVE  ExecutorInv'
<1>1. ValueStep /\ CountedInv'
  BY ValueSteps DEF ExecutorInv
<1> QED
  BY <1>1, ValueStepKeepsNesting, ValuesKeepLists DEF ExecutorInv

LEMMA StepsKeepInvariant ==
    ASSUME ExecutorInv, [Next]_vars
    PROVE  ExecutorInv'
<1>1. CASE Execute
  BY <1>1, BeginOperationStep, BeginQueryStep, BeginFragmentStep, EndDocumentSteps DEF Execute
<1>2. CASE ParseOperation
  BY <1>2, OperationHeadSteps, BodySteps, EndDefinitionSteps DEF ParseOperation
<1>3. CASE ParseFragment
  BY <1>3, FragmentHeadSteps, FragmentTypeStep, BodySteps, EndDefinitionSteps DEF ParseFragment
<1>4. CASE ParseSelectionSet
  BY <1>4, InlineFragmentStep, InlineFragmentBodyStep, FragmentSpreadStep, SelectFieldStep,
     RefuseFieldSteps, FieldDirectivesStep, FieldBodyStep, LeaveSelectionSteps DEF ParseSelectionSet
<1>5. CASE ParseValue \/ ParseArguments \/ ParseDirectives \/ ParseVariables
  BY <1>5, ValueActionsKeepInvariant DEF ValueActions
<1>6. CASE UNCHANGED vars
  <2>1. /\ frames' = frames /\ current_object_types' = current_object_types /\ list_types' = list_types
        /\ flaws' = flaws /\ diagnostics' = diagnostics
    BY <1>6 DEF vars, parserVars, valueVars
  <2>2. Reported
    BY <2>1 DEF Reported, ExecutorInv, FramesInv
  <2> QED
    BY <2>1, <2>2, StayStep
<1> QED
  BY <1>1, <1>2, <1>3, <1>4, <1>5, <1>6 DEF Next

\* The inductive invariant of the executor, for every document and every schema
\* that is complete (graphql_executor.cpp, Execute and the parse functions).
THEOREM ExecutorInvariant == Spec => []ExecutorInv
<1>1. Init => ExecutorInv
  BY InitMakesInvariant
<1>2. ExecutorInv /\ [Next]_vars => ExecutorInv'
  BY StepsKeepInvariant
<1> QED
  BY <1>1, <1>2, PTL DEF Spec

\* Every open selection set has an entry of its own on current_object_types,
\* whatever the document is: top and pop never meet an empty stack
\* (parse_selection_set_after_open_brace).
THEOREM StackCovered == Spec => []StackCoversSelections
<1>1. ExecutorInv => StackCoversSelections
  BY DEF ExecutorInv
<1> QED
  BY <1>1, ExecutorInvariant, PTL

\* As long as nothing was reported, the stack holds the types of the selection
\* sets around the token that is read, and nothing else
\* (current_object_types, pushed and popped by the parse functions).
THEOREM NestingFollowed == Spec => []TypesFollowNesting
<1>1. ASSUME ExecutorInv
      PROVE  TypesFollowNesting
  <2>1. SUFFICES ASSUME diagnostics = <<>>
                 PROVE  /\ \A i \in SelectionFrames :
                             current_object_types[frames[i].of.base] = frames[i].of.type
                        /\ In("selection", "begin") => Len(current_object_types) = Top.of.base
                        /\ In("document", "begin") => current_object_types = <<>>
    BY DEF TypesFollowNesting
  <2>2. FramesInv /\ NestingInv
    BY <1>1 DEF ExecutorInv
  <2>3. \A i \in SelectionFrames : current_object_types[frames[i].of.base] = frames[i].of.type
    BY <2>1, <2>2 DEF NestingInv
  <2>4. ASSUME In("selection", "begin")
        PROVE  Len(current_object_types) = Top.of.base
    <3>1. PICK n : Selecting(n) /\ frames[n].at = "begin"
      BY <2>2, <2>4, InSelection
    <3>2. n \in Nat /\ n = Len(frames) /\ n \in SelectionFrames /\ Top = frames[n]
      BY <3>1 DEF Selecting
    <3>3. Innermost(n)
      BY <3>2 DEF Innermost
    <3> QED
      BY <2>1, <2>2, <3>1, <3>2, <3>3 DEF NestingInv
  <2>5. ASSUME In("document", "begin")
        PROVE  current_object_types = <<>>
    BY <2>1, <2>2, <2>5, InDocument DEF NestingInv, DefinitionTypes
  <2> QED
    BY <2>3, <2>4, <2>5
<1> QED
  BY <1>1, ExecutorInvariant, PTL

\* A document of which nothing is reported selects only fields that the types of
\* its selection sets have, as far as the fields have no alias
\* (parse_selection_set_after_open_brace).
THEOREM AcceptedSelectsFields == Spec => []AcceptedFieldsExist
<1>1. ExecutorInv => AcceptedFieldsExist
  BY DEF ExecutorInv, NestingInv, AcceptedFieldsExist, Accepted
<1> QED
  BY <1>1, ExecutorInvariant, PTL

\* Reading a list leaves the types of the schema as they were, unless something
\* was reported (is_list_type in parse_value).
THEOREM ListsRestored == Spec => []SchemaRestored
<1>1. ASSUME ExecutorInv
      PROVE  SchemaRestored
  <2>1. SUFFICES ASSUME diagnostics = <<>>, \A i \in DOMAIN frames : frames[i].at # "next"
                 PROVE  list_types \ {"variable"} = ListTypes
    BY DEF SchemaRestored
  <2>2. list_types \subseteq ListTypes \cup {"variable"} /\ ListTypes \ list_types = {}
    BY <1>1, <2>1 DEF ExecutorInv, ListsInv
  <2> QED
    BY <2>2, ExecutorAssumption
<1> QED
  BY <1>1, ExecutorInvariant, PTL
=============================================================================
