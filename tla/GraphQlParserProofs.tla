------------------------- MODULE GraphQlParserProofs -------------------------
(***************************************************************************)
(* What the proofs about the executor and about the schema share: facts    *)
(* about sequences, least numbers and maps, what the calls of a function   *)
(* leave of the frames, and what reporting leaves of the diagnostics.      *)
(***************************************************************************)
EXTENDS GraphQlParser, FiniteSetTheorems, SequenceTheorems, WellFoundedInduction, TLAPS

-----------------------------------------------------------------------------
(* Sequences *)

\* A sequence of whatever it holds.
IsSequence(s) == s \in Seq({s[i] : i \in DOMAIN s})

LEMMA SequenceLength ==
    ASSUME NEW s, IsSequence(s)
    PROVE  /\ Len(s) \in Nat
           /\ DOMAIN s = 1 .. Len(s)
           /\ s = <<>> <=> Len(s) = 0
BY DEF IsSequence

LEMMA ElementsMakeSequence ==
    ASSUME NEW S, NEW s \in Seq(S)
    PROVE  IsSequence(s)
<1> DEFINE T == {s[i] : i \in DOMAIN s}
<1>1. \A i \in 1 .. Len(s) : s[i] \in T
  BY LenProperties
<1>2. s = [i \in 1 .. Len(s) |-> s[i]] /\ Len(s) \in Nat
  BY LenProperties
<1> HIDE DEF T
<1>3. s \in Seq(T)
  BY <1>1, <1>2, IsASeq
<1> QED
  BY <1>3 DEF T, IsSequence

LEMMA FrontOfSeq ==
    ASSUME NEW S, NEW s \in Seq(S), Len(s) > 0
    PROVE  /\ Front(s) \in Seq(S)
           /\ Len(Front(s)) = Len(s) - 1
           /\ \A i \in 1 .. Len(s) - 1 : Front(s)[i] = s[i]
<1>1. PICK n : n = Len(s) - 1
  OBVIOUS
<1>2. n \in Nat /\ n <= Len(s) /\ Len(s) \in Nat
  BY <1>1, LenProperties
<1>3. /\ SubSeq(s, 1, n) \in Seq(S)
      /\ Len(SubSeq(s, 1, n)) = n
      /\ \A i \in 1 .. n : SubSeq(s, 1, n)[i] = s[i]
  BY <1>2
<1> QED
  BY <1>1, <1>3 DEF Front

LEMMA FrontOfSequence ==
    ASSUME NEW s, IsSequence(s), Len(s) > 0
    PROVE  /\ IsSequence(Front(s))
           /\ Len(Front(s)) = Len(s) - 1
           /\ \A i \in 1 .. Len(s) - 1 : Front(s)[i] = s[i]
<1> DEFINE S == {s[i] : i \in DOMAIN s}
<1>1. s \in Seq(S)
  BY DEF IsSequence
<1> HIDE DEF S
<1> QED
  BY <1>1, FrontOfSeq, ElementsMakeSequence

LEMMA AppendToSequence ==
    ASSUME NEW s, IsSequence(s), NEW x
    PROVE  /\ IsSequence(Append(s, x))
           /\ Len(Append(s, x)) = Len(s) + 1
           /\ \A i \in 1 .. Len(s) : Append(s, x)[i] = s[i]
           /\ Append(s, x)[Len(s) + 1] = x
<1> DEFINE S == {s[i] : i \in DOMAIN s}
           T == S \cup {x}
<1>1. s \in Seq(S)
  BY DEF IsSequence
<1>2. S \subseteq T /\ x \in T
  OBVIOUS
<1> HIDE DEF S, T
<1>3. s \in Seq(T)
  BY <1>1, <1>2, SeqMonotonic
<1>4. /\ Append(s, x) \in Seq(T)
      /\ Len(Append(s, x)) = Len(s) + 1
      /\ \A i \in 1 .. Len(s) : Append(s, x)[i] = s[i]
      /\ Append(s, x)[Len(s) + 1] = x
  BY <1>2, <1>3, AppendProperties
<1> QED
  BY <1>4, ElementsMakeSequence

LEMMA ConcatSequences ==
    ASSUME NEW s, NEW t, IsSequence(s), IsSequence(t)
    PROVE  IsSequence(s \o t) /\ (s \o t = <<>> => s = <<>> /\ t = <<>>)
<1> DEFINE S == {s[i] : i \in DOMAIN s}
           T == {t[i] : i \in DOMAIN t}
<1>1. s \in Seq(S) /\ t \in Seq(T)
  BY DEF IsSequence
<1>2. S \subseteq S \cup T /\ T \subseteq S \cup T
  OBVIOUS
<1> HIDE DEF S, T
<1>3. s \in Seq(S \cup T) /\ t \in Seq(S \cup T)
  BY <1>1, <1>2, SeqMonotonic
<1>4. s \o t \in Seq(S \cup T) /\ Len(s \o t) = Len(s) + Len(t)
  BY <1>3, ConcatProperties
<1>5. Len(s) \in Nat /\ Len(t) \in Nat /\ (Len(s) = 0 => s = <<>>) /\ (Len(t) = 0 => t = <<>>)
  BY <1>3
<1>6. s \o t = <<>> => s = <<>> /\ t = <<>>
  BY <1>4, <1>5
<1> QED
  BY <1>4, <1>6, ElementsMakeSequence

LEMMA ShortSequences == IsSequence(<<>>) /\ \A x : IsSequence(<<x>>)
BY DEF IsSequence

-----------------------------------------------------------------------------
(* Least numbers *)

LEMMA LeastNumber ==
    ASSUME NEW T \in SUBSET Nat, T # {}
    PROVE  \E x \in T : \A y \in T : x <= y
<1>1. PICK R : R = OpToRel(<, Nat)
  OBVIOUS
<1>2. IsWellFoundedOn(R, Nat)
  BY <1>1, NatLessThanWellFounded
<1>3. PICK x \in T : \A y \in T : <<y, x>> \notin R
  BY <1>2, WFMin
<1>4. ASSUME NEW y \in T, y < x
      PROVE  FALSE
  <2>1. <<y, x>> \in Nat \X Nat /\ <<y, x>>[1] < <<y, x>>[2]
    BY <1>4
  <2>2. <<y, x>> \in R
    BY <1>1, <2>1 DEF OpToRel
  <2> QED
    BY <2>2, <1>3
<1> QED
  BY <1>3, <1>4

LEMMA MinIsLeast ==
    ASSUME NEW T \in SUBSET Nat, T # {}
    PROVE  Min(T) \in T /\ \A y \in T : Min(T) <= y
BY LeastNumber DEF Min

-----------------------------------------------------------------------------
(* What the calls of a function leave of the frames *)

\* The frames under the one on top stay.
Below == \A i \in 1 .. Len(frames) - 1 : frames'[i] = frames[i]

LEMMA TopIsLast == Top = frames[Len(frames)]
BY DEF Top, Last

LEMMA ContinuedFrames ==
    ASSUME IsSequence(frames), Len(frames) > 0, NEW at, NEW of,
           frames' = Append(Front(frames), Continued(at, of))
    PROVE  /\ IsSequence(frames') /\ Len(frames') = Len(frames) /\ Below
           /\ frames'[Len(frames)] = Frame(frames[Len(frames)].fn, at, of)
<1>1. frames' = Append(Front(frames), Frame(frames[Len(frames)].fn, at, of))
  BY TopIsLast DEF Continued
<1>2. Len(frames) \in Nat
  BY SequenceLength
<1> QED
  BY <1>1, <1>2, FrontOfSequence, AppendToSequence DEF Below

LEMMA AfterGoto ==
    ASSUME NEW at, NEW of, IsSequence(frames), Len(frames) > 0, Goto(at, of)
    PROVE  /\ IsSequence(frames') /\ Len(frames') = Len(frames) /\ Below
           /\ frames'[Len(frames)] = Frame(frames[Len(frames)].fn, at, of)
BY ContinuedFrames DEF Goto

LEMMA AfterCall ==
    ASSUME NEW at, NEW of, NEW callee, IsSequence(frames), Len(frames) > 0, Call(at, of, callee)
    PROVE  /\ IsSequence(frames') /\ Len(frames') = Len(frames) + 1 /\ Below
           /\ frames'[Len(frames)] = Frame(frames[Len(frames)].fn, at, of)
           /\ frames'[Len(frames) + 1] = callee
<1>1. frames' = Append(Append(Front(frames), Frame(frames[Len(frames)].fn, at, of)), callee)
  BY TopIsLast DEF Call, Continued
<1>2. Len(frames) \in Nat
  BY SequenceLength
<1>3. PICK s : s = Append(Front(frames), Frame(frames[Len(frames)].fn, at, of))
  OBVIOUS
<1>4. /\ IsSequence(s) /\ Len(s) = Len(frames)
      /\ \A i \in 1 .. Len(frames) - 1 : s[i] = frames[i]
      /\ s[Len(frames)] = Frame(frames[Len(frames)].fn, at, of)
  BY <1>2, <1>3, FrontOfSequence, AppendToSequence
<1> QED
  BY <1>1, <1>2, <1>3, <1>4, AppendToSequence DEF Below

LEMMA AfterReturn ==
    ASSUME NEW value, IsSequence(frames), Len(frames) > 0, Return(value)
    PROVE  /\ IsSequence(frames') /\ Len(frames') = Len(frames) - 1 /\ Below
BY FrontOfSequence DEF Return, Below

\* Messages are only added.
Reported == IsSequence(diagnostics') /\ (diagnostics' = <<>> => diagnostics = <<>>)

\* Some messages are reported, or none.
Reports == \E p : \E messages : IsSequence(messages) /\ Report(p, messages)

LEMMA MessagesReported ==
    ASSUME IsSequence(diagnostics), NEW p, NEW messages, IsSequence(messages), Report(p, messages)
    PROVE  Reported /\ (diagnostics' = <<>> => messages = <<>>)
BY ConcatSequences DEF Report, Reported

LEMMA TimesIsSequence ==
    ASSUME NEW n \in Nat, NEW message
    PROVE  IsSequence(Times(n, message))
<1>1. Times(n, message) \in [1 .. n -> {message}]
  BY DEF Times
<1> QED
  BY <1>1, SeqDef, ElementsMakeSequence
=============================================================================
