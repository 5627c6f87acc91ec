-------------------------- MODULE HttpWriterProofs --------------------------
(***************************************************************************)
(* What the backend receives, for every size of the buffer and any number  *)
(* of requests.  A request that fits is flushed once, by End, and its      *)
(* writer never touches its buffer again: what a queued write still has to *)
(* read is there, however late the socket takes it (BuffersInv).  The      *)
(* queued writes follow one another, and the first of them follows what    *)
(* was sent (QueueInv), up to the last request that was flushed (BackInv). *)
(***************************************************************************)
EXTENDS HttpWriter, SequenceTheorems, TLAPS

-----------------------------------------------------------------------------
(* The invariant *)

Bytes == [field : Nat, index : Nat]
Writes == [writer : Nat, length : Nat, sent : Nat]

\* Where OnClientConnect is in what it has to write.
PlaceInv ==
    /\ requests \in RequestLists
    /\ pc \in {"connecting", "write", "returned"} /\ connection \in {"open", "broken"}
    /\ pc = "connecting" => field = 1 /\ call = 1 /\ offset = 0
    /\ pc = "write" =>
          /\ field \in Fields /\ call \in 1 .. Len(requests[field]) + 1 /\ offset \in Nat
          /\ IF call <= Len(requests[field]) THEN offset <= TextLength(field, call) ELSE offset = 0

\* The buffers, the writes and the bytes, whatever the sizes are.
DataInv ==
    /\ write_buffer_ \in [Fields -> [0 .. BufferSize - 1 -> Bytes]]
    /\ position_ \in [Fields -> 0 .. BufferSize]
    /\ wire \in Seq(Bytes)
    /\ write_queue \in Seq(Writes)
    /\ \A i \in 1 .. Len(write_queue) :
          /\ write_queue[i].writer \in Fields
          /\ write_queue[i].sent <= write_queue[i].length /\ write_queue[i].length <= BufferSize
    /\ connection = "broken" \/ pc = "connecting" => Len(write_queue) = 0
    /\ pc = "connecting" => Len(wire) = 0

\* End has flushed the request of f.
Flushed(f) == pc = "returned" \/ f < field

\* The bytes of f that are in its buffer.
Held(f) ==
    IF Flushed(f) THEN Length(f) ELSE IF f = field THEN Begin(field, call) + offset ELSE 0

BuffersInv ==
    \A f \in Fields :
        /\ position_[f] = IF Flushed(f) THEN 0 ELSE Held(f)
        /\ \A i \in 0 .. BufferSize - 1 : i < Held(f) => write_buffer_[f][i] = Byte(f, i + 1)

\* The byte that was sent last, and the one that is sent last when the queue is done.
LastOf(bytes) == IF Len(bytes) = 0 THEN NoByte ELSE bytes[Len(bytes)]
LastByte == LastOf(wire)
LastQueued ==
    IF Len(write_queue) = 0 THEN LastByte
    ELSE Byte(write_queue[Len(write_queue)].writer, write_queue[Len(write_queue)].length)

QueueInv ==
    /\ \A i \in 1 .. Len(write_queue) :
          /\ Flushed(write_queue[i].writer)
          /\ write_queue[i].length = Length(write_queue[i].writer)
          /\ write_queue[i].sent < write_queue[i].length
          /\ i > 1 => write_queue[i].sent = 0
    /\ \A i \in 1 .. Len(write_queue) - 1 :
          Follows(Byte(write_queue[i].writer, write_queue[i].length), Byte(write_queue[i + 1].writer, 1))
    /\ Len(write_queue) > 0 =>
          Follows(LastByte, Byte(write_queue[1].writer, write_queue[1].sent + 1))

\* Nothing that was flushed is missing behind the last byte of the queue.
BackInv ==
    connection = "open" =>
        /\ LastQueued = NoByte \/ (LastQueued.field \in Fields /\ Flushed(LastQueued.field))
        /\ Finished(LastQueued)
        /\ \A g \in Fields : g > LastQueued.field /\ Flushed(g) => Length(g) = 0

WriterInv ==
    /\ PlaceInv /\ DataInv
    /\ RequestsFit => BuffersInv /\ QueueInv /\ BackInv /\ InOrder(wire)

-----------------------------------------------------------------------------
(* Requests *)

\* Where the texts of a request begin and end.
LEMMA Texts ==
    ASSUME requests \in RequestLists, NEW f \in Fields
    PROVE  /\ requests[f] \in Seq(Nat) /\ Length(f) \in Nat
           /\ \A c \in 1 .. Len(requests[f]) + 1 : Begin(f, c) \in 0 .. Length(f)
           /\ \A c \in 1 .. Len(requests[f]) :
                 TextLength(f, c) \in Nat /\ Begin(f, c + 1) = Begin(f, c) + TextLength(f, c)
<1>1. /\ requests \in Seq(Seq(Nat)) /\ f \in DOMAIN requests
      /\ \A c, d \in DOMAIN requests[f] : c <= d => requests[f][c] <= requests[f][d]
  BY WriterAssumption DEF Fields
<1>2. requests[f] \in Seq(Nat)
  BY <1>1
<1>3. PICK n : n = Len(requests[f]) /\ n \in Nat /\ DOMAIN requests[f] = 1 .. n
  BY <1>2
<1>4. \A c \in 1 .. n : requests[f][c] \in Nat
  BY <1>2, <1>3
<1>5. \A c, d \in 1 .. n : c <= d => requests[f][c] <= requests[f][d]
  BY <1>1, <1>3
<1>6. Length(f) = IF n = 0 THEN 0 ELSE requests[f][n]
  BY <1>3 DEF Length, Begin
<1>7. Length(f) \in Nat
  BY <1>3, <1>4, <1>6
<1>8. \A c \in 1 .. n : requests[f][c] <= Length(f)
  BY <1>3, <1>4, <1>5, <1>6
<1>9. \A c \in 1 .. n + 1 : Begin(f, c) \in 0 .. Length(f)
  <2>1. TAKE c \in 1 .. n + 1
  <2>2. CASE c = 1
    BY <1>7, <2>2 DEF Begin
  <2>3. CASE c # 1
    <3>1. c - 1 \in 1 .. n
      BY <1>3, <2>3
    <3> QED
      BY <1>4, <1>7, <1>8, <2>3, <3>1 DEF Begin
  <2> QED
    BY <2>2, <2>3
<1>10. ASSUME NEW c \in 1 .. n
       PROVE  TextLength(f, c) \in Nat /\ Begin(f, c + 1) = Begin(f, c) + TextLength(f, c)
  <2>1. Begin(f, c + 1) = requests[f][c] /\ requests[f][c] \in Nat
    BY <1>3, <1>4 DEF Begin
  <2>2. Begin(f, c) \in Nat /\ Begin(f, c) <= requests[f][c]
    <3>1. CASE c = 1
      BY <2>1, <3>1 DEF Begin
    <3>2. CASE c # 1
      <4>1. c - 1 \in 1 .. n /\ c - 1 <= c
        BY <1>3, <3>2
      <4> QED
        BY <1>4, <1>5, <3>2, <4>1 DEF Begin
    <3> QED
      BY <3>1, <3>2
  <2> QED
    BY <2>1, <2>2 DEF TextLength
<1> QED
  BY <1>2, <1>3, <1>7, <1>9, <1>10

\* What is said of the requests stays true of them.
LEMMA SameRequests ==
    ASSUME requests' = requests
    PROVE  /\ Fields' = Fields /\ (RequestsFit' <=> RequestsFit)
           /\ \A f : Length(f)' = Length(f)
           /\ \A f, c : Begin(f, c)' = Begin(f, c) /\ TextLength(f, c)' = TextLength(f, c)
           /\ \A a, b : (Follows(a, b)' <=> Follows(a, b)) /\ (Finished(a)' <=> Finished(a))
           /\ \A s : InOrder(s)' <=> InOrder(s)
BY DEF Fields, RequestsFit, Length, Begin, TextLength, Follows, Finished, InOrder

LEMMA FieldNumbers ==
    ASSUME requests \in RequestLists
    PROVE  \E m \in Nat : m = Len(requests) /\ Fields = 1 .. m
<1>1. requests \in Seq(Seq(Nat))
  BY WriterAssumption
<1>2. Len(requests) \in Nat
  BY <1>1, LenProperties
<1> QED
  BY <1>2 DEF Fields

LEMMA ByteFields ==
    ASSUME NEW f, NEW i
    PROVE  Byte(f, i).field = f /\ Byte(f, i).index = i
BY DEF Byte

LEMMA Joined ==
    ASSUME NEW S, NEW s \in Seq(S), NEW t \in Seq(S)
    PROVE  /\ \A i \in 1 .. Len(s) : (s \o t)[i] = s[i]
           /\ \A i \in 1 .. Len(t) : (s \o t)[Len(s) + i] = t[i]
<1>1. Len(s) \in Nat /\ Len(t) \in Nat
  OBVIOUS
<1>2. \A i \in 1 .. Len(s) : (s \o t)[i] = s[i]
  BY <1>1
<1>3. ASSUME NEW i \in 1 .. Len(t)
      PROVE  (s \o t)[Len(s) + i] = t[i]
  <2>1. PICK j : j = Len(s) + i /\ j \in 1 .. Len(s) + Len(t) /\ ~ j <= Len(s) /\ j - Len(s) = i
    BY <1>1
  <2>2. (s \o t)[j] = t[j - Len(s)]
    BY <1>1, <2>1
  <2> QED
    BY <2>1, <2>2
<1> QED
  BY <1>2, <1>3

\* The next bytes of a request behind what was sent.
LEMMA SendBytes ==
    ASSUME NEW s \in Seq(Bytes), NEW t \in Seq(Bytes), NEW f \in Fields, NEW n \in Nat, NEW k \in Nat,
           Len(t) = k, \A i \in 1 .. k : t[i] = Byte(f, n + i), n + k <= Length(f), Length(f) \in Nat,
           InOrder(s), Follows(LastOf(s), Byte(f, n + 1))
    PROVE  /\ s \o t \in Seq(Bytes) /\ InOrder(s \o t)
           /\ Follows(LastOf(s \o t), Byte(f, (n + k) + 1))
           /\ k > 0 => LastOf(s \o t) = Byte(f, n + k)
           /\ k = 0 => LastOf(s \o t) = LastOf(s)
<1>1. PICK l : l = Len(s) /\ l \in Nat /\ DOMAIN s = 1 .. l
  BY LenProperties
<1>2. PICK u : u = s \o t
  OBVIOUS
<1>3. u \in Seq(Bytes) /\ Len(u) = l + k /\ DOMAIN u = 1 .. l + k
  <2>1. u \in Seq(Bytes) /\ Len(u) = Len(s) + Len(t)
    BY <1>2, ConcatProperties
  <2> QED
    BY <1>1, <2>1, LenProperties
<1>4. \A i \in 1 .. l : u[i] = s[i]
  BY <1>1, <1>2, Joined
<1>5. \A i \in 1 .. k : u[l + i] = Byte(f, n + i)
  BY <1>1, <1>2, Joined
<1>6. ASSUME NEW i \in 1 .. l
      PROVE  /\ u[i].field \in Fields /\ u[i].index \in 1 .. Length(u[i].field)
             /\ Follows(IF i = 1 THEN NoByte ELSE u[i - 1], u[i])
  <2>1. i # 1 => i - 1 \in 1 .. l
    BY <1>1
  <2>2. u[i] = s[i] /\ (i # 1 => u[i - 1] = s[i - 1])
    BY <1>4, <2>1
  <2> QED
    BY <1>1, <2>2 DEF InOrder
<1>7. ASSUME NEW i \in l + 1 .. l + k
      PROVE  /\ u[i].field \in Fields /\ u[i].index \in 1 .. Length(u[i].field)
             /\ Follows(IF i = 1 THEN NoByte ELSE u[i - 1], u[i])
  <2>1. PICK j \in 1 .. k : i = l + j
    <3>1. i - l \in 1 .. k /\ i = l + (i - l)
      BY <1>1
    <3> QED
      BY <3>1
  <2>2. u[i] = Byte(f, n + j) /\ u[i].field = f /\ u[i].index = n + j /\ n + j \in 1 .. Length(f)
    BY <1>5, <2>1, ByteFields
  <2>3. Follows(IF i = 1 THEN NoByte ELSE u[i - 1], u[i])
    <3>1. CASE j = 1 /\ l = 0
      <4>1. i = 1 /\ Len(s) = 0
        BY <1>1, <2>1, <3>1
      <4> QED
        BY <2>2, <3>1, <4>1 DEF LastOf
    <3>2. CASE j = 1 /\ l # 0
      <4>1. i # 1 /\ i - 1 = l /\ l \in 1 .. l /\ Len(s) # 0
        BY <1>1, <2>1, <3>2
      <4>2. u[i - 1] = s[Len(s)]
        BY <1>1, <1>4, <4>1
      <4> QED
        BY <2>2, <3>2, <4>1, <4>2 DEF LastOf
    <3>3. CASE j # 1
      <4>1. PICK h \in 1 .. k : h = j - 1 /\ j = h + 1
        BY <3>3
      <4>2. i # 1 /\ i - 1 = l + h
        BY <1>1, <2>1, <4>1
      <4>3. u[i - 1] = Byte(f, n + h)
        BY <1>5, <4>2
      <4>4. n + j = (n + h) + 1
        BY <4>1
      <4>5. Follows(u[i - 1], u[i])
        <5>1. u[i - 1].field = f /\ u[i - 1].index = n + h
          BY <4>3, ByteFields
        <5>2. u[i].field = u[i - 1].field /\ u[i].index = u[i - 1].index + 1
          BY <2>2, <4>4, <5>1
        <5> QED
          BY <5>2 DEF Follows
      <4> QED
        BY <4>2, <4>5
    <3> QED
      BY <3>1, <3>2, <3>3
  <2> QED
    BY <2>2, <2>3
<1>8. \A i \in DOMAIN u : i \in 1 .. l \/ i \in l + 1 .. l + k
  BY <1>1, <1>3
<1>9. InOrder(u)
  BY <1>6, <1>7, <1>8 DEF InOrder
<1>10. k > 0 => LastOf(u) = Byte(f, n + k)
  <2>1. k > 0 => k \in 1 .. k /\ l + k # 0
    BY <1>1
  <2> QED
    BY <1>3, <1>5, <2>1 DEF LastOf
<1>11. k = 0 => LastOf(u) = LastOf(s)
  <2>1. l # 0 => l \in 1 .. l
    BY <1>1
  <2>2. k = 0 => l + k = l
    BY <1>1
  <2> QED
    BY <1>1, <1>3, <1>4, <2>1, <2>2 DEF LastOf
<1>12. Follows(LastOf(u), Byte(f, (n + k) + 1))
  <2>1. CASE k = 0
    <3>1. (n + k) + 1 = n + 1
      BY <2>1
    <3> QED
      BY <1>11, <2>1, <3>1
  <2>2. CASE k > 0
    <3>1. Follows(Byte(f, n + k), Byte(f, (n + k) + 1))
      BY ByteFields DEF Follows
    <3> QED
      BY <1>10, <2>2, <3>1
  <2> QED
    BY <2>1, <2>2
<1> QED
  BY <1>2, <1>3, <1>9, <1>10, <1>11, <1>12

-----------------------------------------------------------------------------
(* The socket *)

\* The bytes that the socket takes.
LEMMA TakenBytes ==
    ASSUME DataInv, NEW w, w.writer \in Fields, w.sent \in Nat, NEW k \in Nat, w.sent + k <= BufferSize
    PROVE  /\ Unsent(w, k, write_buffer_) \in Seq(Bytes) /\ Len(Unsent(w, k, write_buffer_)) = k
           /\ \A i \in 1 .. k : /\ Unsent(w, k, write_buffer_)[i] = write_buffer_[w.writer][w.sent + i - 1]
                                /\ w.sent + i - 1 \in 0 .. BufferSize - 1
<1>1. PICK u : u = Unsent(w, k, write_buffer_)
  OBVIOUS
<1>2. u = [i \in 1 .. k |-> write_buffer_[w.writer][w.sent + i - 1]]
  BY <1>1 DEF Unsent
<1>3. \A i \in 1 .. k : w.sent + i - 1 \in 0 .. BufferSize - 1
  BY WriterAssumption
<1>4. write_buffer_[w.writer] \in [0 .. BufferSize - 1 -> Bytes]
  BY DEF DataInv
<1>5. \A i \in 1 .. k : u[i] = write_buffer_[w.writer][w.sent + i - 1] /\ u[i] \in Bytes
  BY <1>2, <1>3, <1>4
<1>6. u \in [1 .. k -> Bytes]
  BY <1>2, <1>5
<1>7. u \in Seq(Bytes)
  BY <1>6, SeqDef
<1>8. Len(u) = k
  BY <1>6, <1>7, LenProperties
<1> QED
  BY <1>1, <1>3, <1>5, <1>7, <1>8

\* The entries of a queue are writes of the buffers.
QueueTyped(queue) ==
    /\ queue \in Seq(Writes)
    /\ \A i \in 1 .. Len(queue) :
          /\ queue[i].writer \in Fields
          /\ queue[i].sent <= queue[i].length /\ queue[i].length <= BufferSize

LEMMA QueuedFields ==
    ASSUME NEW f, NEW length, NEW sent
    PROVE  /\ Queued(f, length, sent).writer = f /\ Queued(f, length, sent).length = length
           /\ Queued(f, length, sent).sent = sent
BY DEF Queued

\* A queue of one write.
LEMMA OneWrite ==
    ASSUME NEW w \in Writes
    PROVE  <<w>> \in Seq(Writes) /\ Len(<<w>>) = 1 /\ <<w>>[1] = w
OBVIOUS

\* What uv_write does to the queue and to the wire.
LEMMA WriteTyped ==
    ASSUME DataInv, NEW f \in Fields, Fields \subseteq Nat, NEW n \in 0 .. BufferSize, uv_write(f, n),
           connection \in {"open", "broken"}
    PROVE  wire' \in Seq(Bytes) /\ QueueTyped(write_queue') /\ (connection = "broken" => Len(write_queue') = 0)
<1>1. BufferSize \in Nat /\ QueueTyped(write_queue) /\ wire \in Seq(Bytes)
  BY WriterAssumption DEF DataInv, QueueTyped
<1>2. CASE connection = "broken"
  BY <1>1, <1>2 DEF uv_write, DataInv
<1>3. CASE connection # "broken" /\ write_queue # <<>>
  <2>1. PICK w : w = Queued(f, n, 0)
    OBVIOUS
  <2>2. w \in Writes /\ w.writer = f /\ w.length = n /\ w.sent = 0
    BY <1>1, <2>1 DEF Queued, Writes
  <2>3. write_queue' = Append(write_queue, w) /\ wire' = wire
    BY <1>3, <2>1 DEF uv_write
  <2>4. PICK l : l = Len(write_queue) /\ l \in Nat
    BY <1>1, LenProperties DEF QueueTyped
  <2>5. /\ write_queue' \in Seq(Writes) /\ Len(write_queue') = l + 1 /\ write_queue'[l + 1] = w
        /\ \A i \in 1 .. l : write_queue'[i] = write_queue[i]
    BY <1>1, <2>2, <2>3, <2>4, AppendProperties DEF QueueTyped
  <2>6. \A i \in 1 .. l + 1 : i \in 1 .. l \/ i = l + 1
    BY <2>4
  <2> QED
    BY <1>1, <1>3, <2>2, <2>3, <2>4, <2>5, <2>6 DEF QueueTyped
<1>4. CASE connection # "broken" /\ write_queue = <<>>
  <2>1. PICK k \in 0 .. n :
          /\ wire' = wire \o Unsent(Queued(f, n, 0), k, write_buffer_)
          /\ write_queue' = IF k = n THEN <<>> ELSE <<Queued(f, n, k)>>
    BY <1>4 DEF uv_write
  <2>2. PICK w, v : w = Queued(f, n, 0) /\ v = Queued(f, n, k)
    OBVIOUS
  <2>3. w.writer = f /\ w.sent = 0 /\ v \in Writes /\ v.writer = f /\ v.length = n /\ v.sent = k
    BY <1>1, <2>2 DEF Queued, Writes
  <2>4. Unsent(w, k, write_buffer_) \in Seq(Bytes)
    <3>1. 0 + k <= BufferSize /\ k \in Nat
      BY <1>1
    <3> QED
      BY <2>3, <3>1, TakenBytes
  <2>5. wire' \in Seq(Bytes)
    BY <1>1, <2>1, <2>2, <2>4, ConcatProperties
  <2>6. QueueTyped(<<>>)
    BY EmptySeq DEF QueueTyped
  <2>7. QueueTyped(<<v>>)
    <3>1. \A i \in 1 .. 1 : i = 1
      OBVIOUS
    <3> QED
      BY <1>1, <2>3, <3>1, OneWrite DEF QueueTyped
  <2> QED
    BY <1>4, <2>1, <2>2, <2>5, <2>6, <2>7
<1> QED
  BY <1>2, <1>3, <1>4

\* The place behind the last byte that is queued is that of the first request
\* that was not flushed.
LEMMA NextWriter ==
    ASSUME PlaceInv, pc = "write", connection = "open", BackInv
    PROVE  Follows(LastQueued, Byte(field, 1))
<1>1. PICK f, a : f = field /\ a = LastQueued
  OBVIOUS
<1>2. f \in Fields /\ Fields \subseteq Nat \ {0} /\ \A g \in Fields : Flushed(g) <=> g < f
  BY <1>1 DEF PlaceInv, Fields, Flushed
<1>3. /\ Finished(a) /\ (a = NoByte \/ (a.field \in Fields /\ a.field < f))
      /\ \A g \in Fields : g > a.field /\ g < f => Length(g) = 0
  <2>1. /\ a = NoByte \/ (a.field \in Fields /\ Flushed(a.field))
        /\ Finished(a) /\ \A g \in Fields : g > a.field /\ Flushed(g) => Length(g) = 0
    BY <1>1 DEF BackInv
  <2> QED
    BY <1>2, <2>1
<1>4. a.field \in Nat /\ f > a.field
  <2>1. NoByte.field = 0
    BY ByteFields DEF NoByte
  <2>2. f \in Nat /\ f > 0
    BY <1>2
  <2>3. CASE a = NoByte
    BY <2>1, <2>2, <2>3
  <2>4. CASE a.field \in Fields /\ a.field < f
    BY <1>2, <2>2, <2>4
  <2> QED
    BY <1>3, <2>3, <2>4
<1>5. \A g \in a.field + 1 .. f - 1 : g \in Fields /\ g > a.field /\ g < f
  <2>1. PICK m \in Nat : Fields = 1 .. m
    BY FieldNumbers DEF PlaceInv
  <2> QED
    BY <1>2, <1>4, <2>1
<1>6. PICK b : b = Byte(f, 1) /\ b.field = f /\ b.index = 1
  BY ByteFields
<1>7. Follows(a, b)
  BY <1>3, <1>4, <1>5, <1>6 DEF Follows
<1> QED
  BY <1>1, <1>6, <1>7

\* End hands the whole request to uv_write.
LEMMA WriteOrdered ==
    ASSUME PlaceInv, DataInv, RequestsFit, BuffersInv, QueueInv, BackInv, InOrder(wire),
           pc = "write", position_[field] > 0, position_[field] = Length(field),
           uv_write(field, position_[field]), requests' = requests, connection' = connection,
           \A g \in Fields : Flushed(g)' <=> Flushed(g) \/ g = field
    PROVE  QueueInv' /\ BackInv' /\ InOrder(wire)'
<1>1. PICK f, n : f = field /\ n = Length(field)
  OBVIOUS
<1>2. /\ f \in Fields /\ n \in Nat /\ n > 0 /\ n <= BufferSize /\ BufferSize \in Nat
      /\ uv_write(f, n) /\ n = Length(f) /\ Fields \subseteq Nat
  BY <1>1, Texts, WriterAssumption DEF PlaceInv, RequestsFit, Fields
<1>3. \A g \in Fields : ~ (g > f /\ Flushed(g)')
  BY <1>1, <1>2 DEF Flushed
<1>4. /\ Fields' = Fields /\ (\A g : Length(g)' = Length(g))
      /\ \A a, b : (Follows(a, b)' <=> Follows(a, b)) /\ (Finished(a)' <=> Finished(a))
      /\ \A s : InOrder(s)' <=> InOrder(s)
  BY SameRequests
<1>5. CASE connection = "broken"
  <2>1. write_queue' = write_queue /\ wire' = wire /\ connection' # "open" /\ Len(write_queue) = 0
    BY <1>2, <1>5 DEF uv_write, DataInv
  <2>2. InOrder(wire)'
    BY <1>4, <2>1
  <2>3. QueueInv'
    BY <2>1 DEF QueueInv
  <2> QED
    BY <2>1, <2>2, <2>3 DEF BackInv
<1>6. CASE connection = "open" /\ write_queue # <<>>
  <2>1. PICK w : w = Queued(f, n, 0)
    OBVIOUS
  <2>2. w \in Writes /\ w.writer = f /\ w.length = n /\ w.sent = 0
    BY <1>2, <2>1 DEF Queued, Writes
  <2>3. write_queue' = Append(write_queue, w) /\ wire' = wire /\ connection' = "open"
    BY <1>2, <1>6, <2>1 DEF uv_write
  <2>4. PICK l : l = Len(write_queue) /\ l \in Nat /\ l > 0
    BY <1>6, LenProperties, EmptySeq DEF DataInv
  <2>5. /\ Len(write_queue') = l + 1 /\ write_queue'[l + 1] = w
        /\ \A i \in 1 .. l : write_queue'[i] = write_queue[i]
    BY <2>2, <2>3, <2>4, AppendProperties DEF DataInv
  <2>6. LastByte' = LastByte
    BY <2>3 DEF LastByte, LastOf
  <2>7. LastQueued' = Byte(f, n)
    <3>1. l + 1 # 0
      BY <2>4
    <3> QED
      BY <2>2, <2>5, <3>1 DEF LastQueued
  <2>8. InOrder(wire)'
    BY <1>4, <2>3
  <2>9. QueueInv'
    <3>1. ASSUME NEW i \in 1 .. l + 1
          PROVE  /\ pc' = "returned" \/ write_queue'[i].writer < field'
                 /\ write_queue'[i].length = Length(write_queue'[i].writer)
                 /\ write_queue'[i].sent < write_queue'[i].length
                 /\ i > 1 => write_queue'[i].sent = 0
      <4>1. CASE i = l + 1
        <5>1. Flushed(f)'
          BY <1>1, <1>2
        <5> QED
          BY <1>2, <2>2, <2>4, <2>5, <4>1, <5>1 DEF Flushed
      <4>2. CASE i \in 1 .. l
        <5>1. write_queue'[i] = write_queue[i] /\ write_queue[i].writer \in Fields
          BY <2>4, <2>5, <4>2 DEF DataInv
        <5>2. PICK g : g = write_queue[i].writer /\ Flushed(g) /\ g \in Fields
          BY <2>4, <4>2, <5>1 DEF QueueInv
        <5>3. Flushed(g)'
          BY <5>2
        <5>4. pc' = "returned" \/ write_queue'[i].writer < field'
          BY <5>1, <5>2, <5>3 DEF Flushed
        <5> QED
          BY <2>4, <4>2, <5>1, <5>4 DEF QueueInv
      <4> QED
        BY <2>4, <4>1, <4>2
    <3>2. ASSUME NEW i \in 1 .. l
          PROVE  Follows(Byte(write_queue'[i].writer, write_queue'[i].length),
                         Byte(write_queue'[i + 1].writer, 1))
      <4>1. CASE i = l
        <5>1. LastQueued = Byte(write_queue[i].writer, write_queue[i].length)
          BY <2>4, <4>1 DEF LastQueued
        <5>2. Follows(LastQueued, Byte(f, 1))
          BY <1>1, <1>6, NextWriter
        <5> QED
          BY <2>2, <2>5, <4>1, <5>1, <5>2
      <4>2. CASE i # l
        <5>1. i \in 1 .. l - 1 /\ i + 1 \in 1 .. l
          BY <2>4, <4>2
        <5> QED
          BY <2>4, <2>5, <5>1 DEF QueueInv
      <4> QED
        BY <4>1, <4>2
    <3>3. Follows(LastByte, Byte(write_queue'[1].writer, write_queue'[1].sent + 1))
      <4>1. 1 \in 1 .. l
        BY <2>4
      <4> QED
        BY <2>4, <2>5, <4>1 DEF QueueInv
    <3>4. (l + 1) - 1 = l
      BY <2>4
    <3> QED
      BY <1>4, <2>5, <2>6, <3>1, <3>2, <3>3, <3>4 DEF QueueInv, Flushed
  <2>10. BackInv'
    <3>1. Finished(Byte(f, n))
      BY <1>2, ByteFields DEF Finished
    <3>2. Byte(f, n).field = f /\ Flushed(f)'
      BY <1>1, <1>2, ByteFields
    <3> QED
      BY <1>2, <1>3, <1>4, <2>7, <3>1, <3>2 DEF BackInv
  <2> QED
    BY <2>8, <2>9, <2>10
<1>7. CASE connection = "open" /\ write_queue = <<>>
  <2>1. PICK k \in 0 .. n :
          /\ wire' = wire \o Unsent(Queued(f, n, 0), k, write_buffer_)
          /\ write_queue' = IF k = n THEN <<>> ELSE <<Queued(f, n, k)>>
    BY <1>2, <1>7 DEF uv_write
  <2>2. PICK w, v, t : /\ w = Queued(f, n, 0) /\ v = Queued(f, n, k)
                       /\ t = Unsent(w, k, write_buffer_)
    OBVIOUS
  <2>3. w.writer = f /\ w.sent = 0 /\ v \in Writes /\ v.writer = f /\ v.length = n /\ v.sent = k
    BY <1>2, <2>2 DEF Queued, Writes
  <2>4. /\ t \in Seq(Bytes) /\ Len(t) = k
        /\ \A i \in 1 .. k : t[i] = Byte(f, 0 + i)
    <3>1. k \in Nat /\ 0 + k <= BufferSize
      BY <1>2
    <3>2. /\ t \in Seq(Bytes) /\ Len(t) = k
          /\ \A i \in 1 .. k : t[i] = write_buffer_[f][0 + i - 1] /\ 0 + i - 1 \in 0 .. BufferSize - 1
      BY <1>2, <2>2, <2>3, <3>1, TakenBytes
    <3>3. Held(f) = n
      <4>1. ~ Flushed(f)
        BY <1>1, <1>2 DEF Flushed
      <4> QED
        BY <1>1, <1>2, <4>1 DEF BuffersInv
    <3>4. \A i \in 0 .. BufferSize - 1 : i < n => write_buffer_[f][i] = Byte(f, i + 1)
      BY <1>2, <3>3 DEF BuffersInv
    <3>5. ASSUME NEW i \in 1 .. k
          PROVE  t[i] = Byte(f, 0 + i)
      <4>1. PICK j : j = 0 + i - 1 /\ j \in 0 .. BufferSize - 1 /\ t[i] = write_buffer_[f][j]
        BY <3>2
      <4>2. j < n /\ j + 1 = 0 + i
        BY <1>2, <4>1
      <4> QED
        BY <3>4, <4>1, <4>2
    <3> QED
      BY <3>2, <3>5
  <2>5. Follows(LastByte, Byte(f, 1)) /\ LastQueued = LastByte
    <3>1. LastQueued = LastByte
      BY <1>7, EmptySeq DEF LastQueued
    <3> QED
      BY <1>1, <1>7, <3>1, NextWriter
  <2>6. /\ InOrder(wire \o t) /\ Follows(LastOf(wire \o t), Byte(f, (0 + k) + 1))
        /\ k > 0 => LastOf(wire \o t) = Byte(f, 0 + k)
    <3>1. k \in Nat /\ 0 + k <= Length(f) /\ 0 + 1 = 1
      BY <1>2
    <3>2. Follows(LastOf(wire), Byte(f, 0 + 1))
      BY <2>5, <3>1 DEF LastByte
    <3>3. wire \in Seq(Bytes)
      BY DEF DataInv
    <3>4. PICK z \in Nat : z = 0
      OBVIOUS
    <3>5. /\ Len(t) = k /\ (\A i \in 1 .. k : t[i] = Byte(f, z + i)) /\ z + k <= Length(f)
          /\ Length(f) \in Nat /\ InOrder(wire) /\ Follows(LastOf(wire), Byte(f, z + 1))
      BY <1>2, <2>4, <3>1, <3>2, <3>4
    <3>6. /\ InOrder(wire \o t) /\ Follows(LastOf(wire \o t), Byte(f, (z + k) + 1))
          /\ k > 0 => LastOf(wire \o t) = Byte(f, z + k)
      <4>1. f \in Fields /\ k \in Nat /\ t \in Seq(Bytes) /\ wire \in Seq(Bytes) /\ z \in Nat
        BY <1>2, <2>4, <3>1, <3>3
      <4> QED
        BY <3>5, <4>1, SendBytes
    <3> QED
      BY <3>4, <3>6
  <2>7. wire' = wire \o t /\ connection' = "open"
    BY <1>7, <2>1, <2>2
  <2>8. InOrder(wire)'
    BY <1>4, <2>6, <2>7
  <2>9. LastByte' = LastOf(wire \o t)
    BY <2>7 DEF LastByte, LastOf
  <2>10. QueueInv'
    <3>1. CASE k = n
      <4>1. Len(write_queue') = 0
        BY <2>1, <3>1, EmptySeq
      <4> QED
        BY <4>1 DEF QueueInv
    <3>2. CASE k # n
      <4>1. write_queue' = <<v>> /\ Len(write_queue') = 1 /\ write_queue'[1] = v
        BY <2>1, <2>2, <2>3, <3>2, OneWrite
      <4>2. \A i \in 1 .. 1 : i = 1
        OBVIOUS
      <4>3. Flushed(f)' /\ k < n /\ k + 1 = (0 + k) + 1
        BY <1>1, <1>2, <3>2
      <4>4. Follows(LastByte', Byte(f, k + 1))
        BY <2>6, <2>9, <4>3
      <4> QED
        BY <1>2, <1>4, <2>3, <4>1, <4>2, <4>3, <4>4 DEF QueueInv, Flushed
    <3> QED
      BY <3>1, <3>2
  <2>11. LastQueued' = Byte(f, n)
    <3>1. CASE k = n
      <4>1. Len(write_queue') = 0 /\ k > 0 /\ 0 + k = n
        BY <1>2, <2>1, <3>1, EmptySeq
      <4> QED
        BY <2>6, <2>9, <4>1 DEF LastQueued
    <3>2. CASE k # n
      <4>1. Len(write_queue') = 1 /\ write_queue'[1] = v
        BY <2>1, <2>2, <2>3, <3>2, OneWrite
      <4> QED
        BY <2>3, <4>1 DEF LastQueued
    <3> QED
      BY <3>1, <3>2
  <2>12. BackInv'
    <3>1. Finished(Byte(f, n))
      BY <1>2, ByteFields DEF Finished
    <3>2. Byte(f, n).field = f /\ Flushed(f)'
      BY <1>1, <1>2, ByteFields
    <3> QED
      BY <1>2, <1>3, <1>4, <2>11, <3>1, <3>2 DEF BackInv
  <2> QED
    BY <2>8, <2>10, <2>12
<1> QED
  BY <1>5, <1>6, <1>7 DEF PlaceInv

-----------------------------------------------------------------------------
(* What a step leaves alone *)

\* Nothing is handed to the socket: a request that End passes by is empty.
LEMMA SocketKept ==
    ASSUME PlaceInv, DataInv, QueueInv, BackInv, InOrder(wire), requests' = requests,
           write_queue' = write_queue, wire' = wire, connection' = connection,
           \A g \in Fields : Flushed(g) => Flushed(g)',
           \A g \in Fields : Flushed(g)' => Flushed(g) \/ Length(g) = 0
    PROVE  QueueInv' /\ BackInv' /\ InOrder(wire)'
<1>1. /\ Fields' = Fields /\ (\A g : Length(g)' = Length(g))
      /\ \A a, b : (Follows(a, b)' <=> Follows(a, b)) /\ (Finished(a)' <=> Finished(a))
      /\ \A s : InOrder(s)' <=> InOrder(s)
  BY SameRequests
<1>2. InOrder(wire)'
  BY <1>1
<1>3. LastByte' = LastByte /\ LastQueued' = LastQueued
  BY DEF LastByte, LastOf, LastQueued
<1>4. QueueInv'
  <2>1. ASSUME NEW i \in 1 .. Len(write_queue)
        PROVE  pc' = "returned" \/ write_queue[i].writer < field'
    <3>1. PICK g : g = write_queue[i].writer /\ Flushed(g) /\ g \in Fields
      BY DEF QueueInv, DataInv
    <3>2. Flushed(g)'
      BY <3>1
    <3> QED
      BY <3>1, <3>2 DEF Flushed
  <2> QED
    BY <1>1, <1>3, <2>1 DEF QueueInv, Flushed
<1>5. BackInv'
  <2>1. PICK a : a = LastQueued
    OBVIOUS
  <2>2. connection = "open" =>
          /\ a = NoByte \/ (a.field \in Fields /\ Flushed(a.field))
          /\ \A g \in Fields : g > a.field /\ Flushed(g) => Length(g) = 0
    BY <2>1 DEF BackInv
  <2>3. connection = "open" => a = NoByte \/ (a.field \in Fields /\ Flushed(a.field)')
    BY <2>2
  <2>4. connection = "open" => \A g \in Fields : g > a.field /\ Flushed(g)' => Length(g) = 0
    BY <2>2
  <2>5. LastQueued' = a /\ connection' = connection
    BY <1>3, <2>1
  <2>6. connection = "open" => Finished(a)'
    BY <1>1, <2>1 DEF BackInv
  <2> QED
    BY <1>1, <2>3, <2>4, <2>5, <2>6 DEF BackInv, Flushed
<1> QED
  BY <1>2, <1>4, <1>5

LEMMA BuffersKept ==
    ASSUME BuffersInv, requests' = requests, write_buffer_' = write_buffer_, position_' = position_,
           \A f \in Fields : Held(f)' = Held(f) /\ (Flushed(f)' <=> Flushed(f))
    PROVE  BuffersInv'
<1>1. Fields' = Fields
  BY SameRequests
<1> QED
  BY <1>1 DEF BuffersInv

-----------------------------------------------------------------------------
(* The steps *)

LEMMA StartInv ==
    ASSUME Init
    PROVE  WriterInv
<1>1. /\ requests \in RequestLists /\ pc = "connecting" /\ connection = "open"
      /\ field = 1 /\ call = 1 /\ offset = 0 /\ write_queue = <<>> /\ wire = <<>>
  BY DEF Init
<1>2. PICK m \in Nat : m = Len(requests) /\ Fields = 1 .. m
  BY <1>1, FieldNumbers
<1>3. NoByte \in Bytes /\ BufferSize \in Nat
  BY WriterAssumption DEF NoByte, Byte, Bytes
<1>4. Len(write_queue) = 0 /\ Len(wire) = 0 /\ wire \in Seq(Bytes) /\ write_queue \in Seq(Writes)
  BY <1>1, EmptySeq
<1>5. /\ write_buffer_ \in [Fields -> [0 .. BufferSize - 1 -> Bytes]]
      /\ position_ \in [Fields -> 0 .. BufferSize] /\ \A f \in Fields : position_[f] = 0
  <2>1. /\ write_buffer_ = [f \in Fields |-> [i \in 0 .. BufferSize - 1 |-> NoByte]]
        /\ position_ = [f \in Fields |-> 0]
    BY DEF Init
  <2>2. 0 \in 0 .. BufferSize
    BY <1>3
  <2> QED
    BY <1>3, <2>1, <2>2
<1>6. PlaceInv
  BY <1>1 DEF PlaceInv
<1>7. DataInv
  BY <1>4, <1>5 DEF DataInv
<1>8. \A f \in Fields : ~ Flushed(f)
  BY <1>1, <1>2 DEF Flushed
<1>9. \A f \in Fields : Held(f) = 0
  BY <1>1, <1>8 DEF Held, Begin
<1>10. BuffersInv
  BY <1>3, <1>5, <1>8, <1>9 DEF BuffersInv
<1>11. QueueInv
  BY <1>4 DEF QueueInv
<1>12. BackInv
  <2>1. LastQueued = NoByte
    BY <1>4 DEF LastQueued, LastByte, LastOf
  <2> QED
    BY <1>8, <2>1 DEF BackInv, Finished
<1>13. InOrder(wire)
  <2>1. DOMAIN wire = {}
    BY <1>4, LenProperties
  <2> QED
    BY <2>1 DEF InOrder
<1> QED
  BY <1>6, <1>7, <1>10, <1>11, <1>12, <1>13 DEF WriterInv

LEMMA ConnectStep ==
    ASSUME WriterInv, OnClientConnect
    PROVE  WriterInv'
<1>1. /\ pc = "connecting" /\ pc' = (IF requests = <<>> THEN "returned" ELSE "write")
      /\ connection' \in {"open", "broken"} /\ requests' = requests /\ field' = field
      /\ call' = call /\ offset' = offset /\ write_buffer_' = write_buffer_
      /\ position_' = position_ /\ write_queue' = write_queue /\ wire' = wire
  BY DEF OnClientConnect, writerVars
<1>2. PlaceInv /\ DataInv /\ requests \in RequestLists /\ field = 1 /\ call = 1 /\ offset = 0
  BY <1>1 DEF WriterInv, PlaceInv
<1>3. PICK m \in Nat : m = Len(requests) /\ Fields = 1 .. m
  BY <1>2, FieldNumbers
<1>4. m = 0 <=> requests = <<>>
  <2>1. requests \in Seq(Seq(Nat))
    BY <1>2, WriterAssumption
  <2> QED
    BY <1>3, <2>1, EmptySeq
<1>5. /\ Fields' = Fields /\ (RequestsFit' <=> RequestsFit) /\ (\A f : Length(f)' = Length(f))
      /\ \A f, c : Begin(f, c)' = Begin(f, c) /\ TextLength(f, c)' = TextLength(f, c)
      /\ \A s : InOrder(s)' <=> InOrder(s)
  BY <1>1, SameRequests
<1>6. PlaceInv'
  <2>1. CASE m = 0
    BY <1>1, <1>2, <1>4, <2>1 DEF PlaceInv
  <2>2. CASE m # 0
    <3>1. 1 \in Fields
      BY <1>3, <2>2
    <3>2. PICK n \in Nat : n = Len(requests[1])
      BY <1>2, <3>1, Texts, LenProperties
    <3>3. 1 \in 1 .. n + 1 /\ (1 <= n => 0 <= TextLength(1, 1))
      BY <1>2, <3>1, <3>2, Texts
    <3> QED
      BY <1>1, <1>2, <1>4, <1>5, <2>2, <3>1, <3>2, <3>3 DEF PlaceInv
  <2> QED
    BY <2>1, <2>2
<1>7. Len(write_queue) = 0 /\ Len(wire) = 0
  BY <1>1, <1>2 DEF DataInv
<1>8. DataInv'
  BY <1>1, <1>2, <1>5, <1>7 DEF DataInv
<1>9. \A f \in Fields : ~ Flushed(f) /\ ~ Flushed(f)'
  BY <1>1, <1>2, <1>3, <1>4 DEF Flushed
<1>10. ASSUME RequestsFit
       PROVE  BuffersInv' /\ QueueInv' /\ BackInv' /\ InOrder(wire)'
  <2>1. BuffersInv /\ InOrder(wire)
    BY <1>10 DEF WriterInv
  <2>2. \A f \in Fields : Held(f)' = Held(f)
    BY <1>1, <1>5, <1>9 DEF Held
  <2>3. BuffersInv'
    BY <1>1, <1>9, <2>1, <2>2, BuffersKept
  <2>4. QueueInv'
    BY <1>1, <1>7 DEF QueueInv
  <2>5. LastQueued' = NoByte
    BY <1>1, <1>7 DEF LastQueued, LastByte, LastOf
  <2>6. BackInv'
    BY <1>5, <1>9, <2>5 DEF BackInv, Finished
  <2> QED
    BY <1>1, <1>5, <2>1, <2>3, <2>4, <2>6
<1> QED
  BY <1>5, <1>6, <1>8, <1>10 DEF WriterInv

\* Where Write is, when the requests fit: the buffer holds all that was stored,
\* and there is room for what is left.
LEMMA Place ==
    ASSUME PlaceInv, DataInv, pc = "write"
    PROVE  /\ field \in Fields /\ Fields \subseteq Nat \ {0} /\ call \in Nat /\ offset \in Nat
           /\ Begin(field, call) \in Nat /\ Length(field) \in Nat /\ BufferSize \in Nat \ {0}
           /\ position_[field] \in 0 .. BufferSize /\ ~ Flushed(field)
           /\ Held(field) = Begin(field, call) + offset
           /\ call <= Len(requests[field]) =>
                 /\ TextLength(field, call) \in Nat
                 /\ Begin(field, call + 1) = Begin(field, call) + TextLength(field, call)
                 /\ Begin(field, call) + TextLength(field, call) <= Length(field)
           /\ call > Len(requests[field]) => Begin(field, call) = Length(field) /\ offset = 0
<1>1. requests \in RequestLists /\ field \in Fields /\ call \in 1 .. Len(requests[field]) + 1 /\ offset \in Nat
  BY DEF PlaceInv
<1>2. PICK n \in Nat : n = Len(requests[field])
  BY <1>1, Texts, LenProperties
<1>3. Fields \subseteq Nat \ {0}
  BY DEF Fields
<1>4. call \in Nat /\ call \in 1 .. n + 1
  BY <1>1, <1>2
<1>5. /\ Length(field) \in Nat /\ \A c \in 1 .. n + 1 : Begin(field, c) \in 0 .. Length(field)
      /\ \A c \in 1 .. n : /\ TextLength(field, c) \in Nat
                           /\ Begin(field, c + 1) = Begin(field, c) + TextLength(field, c)
  BY <1>1, <1>2, Texts
<1>6. Begin(field, call) \in 0 .. Length(field)
  BY <1>4, <1>5
<1>7. ~ Flushed(field)
  BY <1>1, <1>3 DEF Flushed
<1>8. Held(field) = Begin(field, call) + offset
  BY <1>7 DEF Held
<1>9. ASSUME call <= n
      PROVE  /\ TextLength(field, call) \in Nat
             /\ Begin(field, call + 1) = Begin(field, call) + TextLength(field, call)
             /\ Begin(field, call) + TextLength(field, call) <= Length(field)
  <2>1. call \in 1 .. n /\ call + 1 \in 1 .. n + 1
    BY <1>4, <1>9
  <2>2. Begin(field, call + 1) \in 0 .. Length(field)
    BY <1>5, <2>1
  <2>3. TextLength(field, call) \in Nat /\ Begin(field, call + 1) = Begin(field, call) + TextLength(field, call)
    BY <1>5, <2>1
  <2> QED
    BY <1>5, <1>6, <2>2, <2>3
<1>10. ASSUME call > n
       PROVE  Begin(field, call) = Length(field) /\ offset = 0
  <2>1. call = n + 1 /\ ~ call <= n
    BY <1>4, <1>10
  <2> QED
    BY <1>2, <2>1 DEF PlaceInv, Length
<1> QED
  BY <1>1, <1>2, <1>3, <1>4, <1>5, <1>6, <1>7, <1>8, <1>9, <1>10, WriterAssumption DEF DataInv

LEMMA StoreStep ==
    ASSUME WriterInv, Store
    PROVE  WriterInv'
<1>1. /\ pc = "write" /\ call <= Len(requests[field]) /\ offset < TextLength(field, call)
      /\ offset' = offset + 1 /\ pc' = pc /\ connection' = connection /\ requests' = requests
      /\ field' = field /\ call' = call
  BY DEF Store
<1>2. PlaceInv /\ DataInv
  BY DEF WriterInv
<1>3. /\ field \in Fields /\ Fields \subseteq Nat \ {0} /\ call \in Nat /\ offset \in Nat
      /\ Begin(field, call) \in Nat /\ Length(field) \in Nat /\ BufferSize \in Nat \ {0}
      /\ position_[field] \in 0 .. BufferSize /\ ~ Flushed(field)
      /\ Held(field) = Begin(field, call) + offset /\ TextLength(field, call) \in Nat
      /\ Begin(field, call) + TextLength(field, call) <= Length(field)
  BY <1>1, <1>2, Place
<1>4. PICK at, b : /\ at = (IF IsFull(field) THEN 0 ELSE position_[field])
                   /\ b = Byte(field, ByteIndex)
  OBVIOUS
<1>5. /\ write_buffer_' = [write_buffer_ EXCEPT ![field] = [@ EXCEPT ![at] = b]]
      /\ position_' = [position_ EXCEPT ![field] = at + 1]
      /\ IF IsFull(field) THEN uv_write(field, position_[field]) ELSE UNCHANGED <<write_queue, wire>>
  BY <1>4 DEF Store, WriteToSocket
<1>6. at \in 0 .. BufferSize - 1 /\ at + 1 \in 0 .. BufferSize
  BY <1>3, <1>4 DEF IsFull
<1>7. b \in Bytes /\ ByteIndex = Held(field) + 1
  <2>1. ByteIndex \in Nat /\ field \in Nat /\ ByteIndex = Held(field) + 1
    BY <1>3 DEF ByteIndex
  <2> QED
    BY <1>4, <2>1 DEF Byte, Bytes
<1>8. /\ Fields' = Fields /\ (RequestsFit' <=> RequestsFit) /\ (\A f : Length(f)' = Length(f))
      /\ \A f, c : Begin(f, c)' = Begin(f, c) /\ TextLength(f, c)' = TextLength(f, c)
  BY <1>1, SameRequests
<1>9. PlaceInv'
  <2>1. Begin(field, call)' = Begin(field, call) /\ TextLength(field, call)' = TextLength(field, call)
    BY <1>1 DEF Begin, TextLength
  <2>2. offset' \in Nat /\ offset' <= TextLength(field, call)
    BY <1>1, <1>3
  <2> QED
    BY <1>1, <1>2, <1>8, <2>1, <2>2 DEF PlaceInv
<1>10. wire' \in Seq(Bytes) /\ QueueTyped(write_queue') /\ (connection = "broken" => Len(write_queue') = 0)
  <2>1. CASE IsFull(field)
    <3>1. PICK f, n : f = field /\ n = position_[field]
      OBVIOUS
    <3>2. f \in Fields /\ Fields \subseteq Nat /\ n \in 0 .. BufferSize /\ uv_write(f, n)
      BY <1>3, <1>5, <2>1, <3>1
    <3>3. connection \in {"open", "broken"}
      BY <1>2 DEF PlaceInv
    <3> QED
      BY <1>2, <3>2, <3>3, WriteTyped
  <2>2. CASE ~ IsFull(field)
    BY <1>2, <1>5, <2>2 DEF DataInv, QueueTyped
  <2> QED
    BY <2>1, <2>2
<1>11. /\ write_buffer_' \in [Fields -> [0 .. BufferSize - 1 -> Bytes]]
       /\ position_' \in [Fields -> 0 .. BufferSize]
  BY <1>2, <1>3, <1>5, <1>6, <1>7 DEF DataInv
<1>12. DataInv'
  BY <1>1, <1>8, <1>10, <1>11 DEF DataInv, QueueTyped
<1>13. ASSUME RequestsFit
       PROVE  BuffersInv' /\ QueueInv' /\ BackInv' /\ InOrder(wire)'
  <2>1. BuffersInv /\ QueueInv /\ BackInv /\ InOrder(wire)
    BY <1>13 DEF WriterInv
  <2>2. position_[field] = Held(field) /\ Length(field) <= BufferSize
    BY <1>3, <1>13, <2>1 DEF BuffersInv, RequestsFit
  <2>3. ~ IsFull(field) /\ at = Held(field)
    BY <1>1, <1>3, <1>4, <2>2 DEF IsFull
  <2>4. \A f : Flushed(f)' <=> Flushed(f)
    BY <1>1 DEF Flushed
  <2>5. QueueInv' /\ BackInv' /\ InOrder(wire)'
    BY <1>1, <1>2, <1>5, <2>1, <2>3, <2>4, SocketKept
  <2>6. \A f \in Fields : Held(f)' = IF f = field THEN Held(f) + 1 ELSE Held(f)
    <3>1. Begin(field, call)' = Begin(field, call)
      BY <1>1 DEF Begin
    <3> QED
      BY <1>1, <1>3, <1>8, <2>4, <3>1 DEF Held
  <2>7. ASSUME NEW f \in Fields
        PROVE  /\ position_'[f] = IF Flushed(f)' THEN 0 ELSE Held(f)'
               /\ \A i \in 0 .. BufferSize - 1 : i < Held(f)' => write_buffer_'[f][i] = Byte(f, i + 1)
    <3>1. /\ position_[f] = IF Flushed(f) THEN 0 ELSE Held(f)
          /\ \A i \in 0 .. BufferSize - 1 : i < Held(f) => write_buffer_[f][i] = Byte(f, i + 1)
      BY <2>1 DEF BuffersInv
    <3>2. CASE f = field
      <4>1. position_'[f] = at + 1 /\ write_buffer_'[f] = [write_buffer_[f] EXCEPT ![at] = b]
        BY <1>2, <1>3, <1>5, <3>2 DEF DataInv
      <4>2. Held(f)' = at + 1 /\ ~ Flushed(f)'
        BY <1>3, <2>3, <2>4, <2>6, <3>2
      <4>3. \A i \in 0 .. BufferSize - 1 : i < at + 1 => i = at \/ i < Held(f)
        BY <1>6, <2>3, <3>2
      <4>4. write_buffer_[f] \in [0 .. BufferSize - 1 -> Bytes]
        BY <1>2 DEF DataInv
      <4>5. b = Byte(f, at + 1)
        BY <1>4, <1>7, <2>3, <3>2
      <4> QED
        BY <1>6, <3>1, <4>1, <4>2, <4>3, <4>4, <4>5
    <3>3. CASE f # field
      <4>1. position_'[f] = position_[f] /\ write_buffer_'[f] = write_buffer_[f]
        BY <1>2, <1>5, <3>3 DEF DataInv
      <4> QED
        BY <2>4, <2>6, <3>1, <3>3, <4>1
    <3> QED
      BY <3>2, <3>3
  <2>8. BuffersInv'
    BY <1>8, <2>7 DEF BuffersInv
  <2> QED
    BY <2>5, <2>8
<1> QED
  BY <1>8, <1>9, <1>12, <1>13 DEF WriterInv

LEMMA NextCallStep ==
    ASSUME WriterInv, NextCall
    PROVE  WriterInv'
<1>1. /\ pc = "write" /\ call <= Len(requests[field]) /\ offset = TextLength(field, call)
      /\ call' = call + 1 /\ offset' = 0 /\ pc' = pc /\ connection' = connection
      /\ requests' = requests /\ field' = field /\ write_buffer_' = write_buffer_
      /\ position_' = position_ /\ write_queue' = write_queue /\ wire' = wire
  BY DEF NextCall, writerVars
<1>2. PlaceInv /\ DataInv
  BY DEF WriterInv
<1>3. /\ field \in Fields /\ call \in Nat /\ Begin(field, call) \in Nat
      /\ Held(field) = Begin(field, call) + offset /\ TextLength(field, call) \in Nat
      /\ Begin(field, call + 1) = Begin(field, call) + TextLength(field, call)
  BY <1>1, <1>2, Place
<1>4. /\ Fields' = Fields /\ (RequestsFit' <=> RequestsFit) /\ (\A f : Length(f)' = Length(f))
      /\ \A f, c : Begin(f, c)' = Begin(f, c) /\ TextLength(f, c)' = TextLength(f, c)
  BY <1>1, SameRequests
<1>5. PlaceInv'
  <2>1. PICK n \in Nat : n = Len(requests[field])
    BY <1>2, <1>3, Texts, LenProperties DEF PlaceInv
  <2>2. call + 1 \in 1 .. n + 1
    BY <1>1, <1>2, <2>1 DEF PlaceInv
  <2>3. call + 1 <= n => TextLength(field, call + 1) \in Nat
    <3>1. call + 1 <= n => call + 1 \in 1 .. n
      BY <2>2
    <3> QED
      BY <1>2, <1>3, <2>1, <3>1, Texts DEF PlaceInv
  <2>4. TextLength(field, call)' = TextLength(field, call + 1)
    BY <1>1 DEF TextLength, Begin
  <2>5. 0 \in Nat /\ (call + 1 <= n => 0 <= TextLength(field, call + 1))
    BY <2>3
  <2> QED
    BY <1>1, <1>2, <1>3, <1>4, <2>1, <2>2, <2>4, <2>5 DEF PlaceInv
<1>6. DataInv'
  BY <1>1, <1>2, <1>4 DEF DataInv
<1>7. ASSUME RequestsFit
      PROVE  BuffersInv' /\ QueueInv' /\ BackInv' /\ InOrder(wire)'
  <2>1. BuffersInv /\ QueueInv /\ BackInv /\ InOrder(wire)
    BY <1>7 DEF WriterInv
  <2>2. \A f : Flushed(f)' <=> Flushed(f)
    BY <1>1 DEF Flushed
  <2>3. QueueInv' /\ BackInv' /\ InOrder(wire)'
    BY <1>1, <1>2, <2>1, <2>2, SocketKept
  <2>4. \A f \in Fields : Held(f)' = Held(f)
    <3>1. Begin(field, call)' = Begin(field, call + 1)
      BY <1>1 DEF Begin
    <3>2. Begin(field, call)' + 0 = Begin(field, call) + offset
      BY <1>1, <1>3, <3>1
    <3> QED
      BY <1>1, <1>3, <1>4, <2>2, <3>2 DEF Held
  <2> QED
    BY <1>1, <2>1, <2>2, <2>3, <2>4, BuffersKept
<1> QED
  BY <1>4, <1>5, <1>6, <1>7 DEF WriterInv

LEMMA EndStep ==
    ASSUME WriterInv, End
    PROVE  WriterInv'
<1>1. /\ pc = "write" /\ call > Len(requests[field]) /\ connection' = connection
      /\ requests' = requests /\ write_buffer_' = write_buffer_
  BY DEF End
<1>2. PlaceInv /\ DataInv
  BY DEF WriterInv
<1>3. /\ field \in Fields /\ Fields \subseteq Nat \ {0} /\ call \in Nat /\ offset = 0
      /\ Length(field) \in Nat /\ BufferSize \in Nat \ {0}
      /\ position_[field] \in 0 .. BufferSize /\ ~ Flushed(field)
      /\ Held(field) = Begin(field, call) + offset /\ Begin(field, call) = Length(field)
  BY <1>1, <1>2, Place
<1>4. PICK m \in Nat : m = Len(requests) /\ Fields = 1 .. m
  BY <1>2, FieldNumbers DEF PlaceInv
<1>5. \/ field = m /\ pc' = "returned" /\ field' = field /\ call' = call /\ offset' = offset
      \/ field # m /\ field' = field + 1 /\ call' = 1 /\ offset' = 0 /\ pc' = "write"
  BY <1>1, <1>4 DEF End
<1>6. IF position_[field] = 0 THEN UNCHANGED <<position_, write_queue, wire>>
      ELSE uv_write(field, position_[field]) /\ position_' = [position_ EXCEPT ![field] = 0]
  BY DEF End, FlushBuffer, WriteToSocket
<1>7. /\ Fields' = Fields /\ (RequestsFit' <=> RequestsFit) /\ (\A f : Length(f)' = Length(f))
      /\ \A f, c : Begin(f, c)' = Begin(f, c) /\ TextLength(f, c)' = TextLength(f, c)
  BY <1>1, SameRequests
<1>8. PlaceInv'
  <2>1. CASE field = m
    BY <1>1, <1>2, <1>5, <2>1 DEF PlaceInv
  <2>2. CASE field # m
    <3>1. PICK f : f = field + 1 /\ f \in Fields
      BY <1>3, <1>4, <2>2
    <3>2. PICK n \in Nat : n = Len(requests[f])
      BY <1>2, <3>1, Texts, LenProperties DEF PlaceInv
    <3>3. 1 \in 1 .. n + 1 /\ (1 <= n => 0 <= TextLength(f, 1))
      BY <1>2, <3>1, <3>2, Texts DEF PlaceInv
    <3>4. TextLength(field, call)' = TextLength(f, 1)
      BY <1>1, <1>5, <2>2, <3>1 DEF TextLength, Begin
    <3>5. /\ field' = f /\ call' = 1 /\ offset' = 0 /\ pc' = "write"
      BY <1>5, <2>2, <3>1
    <3> QED
      BY <1>1, <1>2, <1>7, <3>1, <3>2, <3>3, <3>4, <3>5 DEF PlaceInv
  <2> QED
    BY <2>1, <2>2
<1>9. wire' \in Seq(Bytes) /\ QueueTyped(write_queue') /\ (connection = "broken" => Len(write_queue') = 0)
  <2>1. CASE position_[field] # 0
    <3>1. PICK f, n : f = field /\ n = position_[field]
      OBVIOUS
    <3>2. f \in Fields /\ Fields \subseteq Nat /\ n \in 0 .. BufferSize /\ uv_write(f, n)
      BY <1>3, <1>6, <2>1, <3>1
    <3>3. connection \in {"open", "broken"}
      BY <1>2 DEF PlaceInv
    <3> QED
      BY <1>2, <3>2, <3>3, WriteTyped
  <2>2. CASE position_[field] = 0
    BY <1>2, <1>6, <2>2 DEF DataInv, QueueTyped
  <2> QED
    BY <2>1, <2>2
<1>10. /\ position_' \in [Fields -> 0 .. BufferSize]
       /\ \A f \in Fields : position_'[f] = IF f = field THEN 0 ELSE position_[f]
  BY <1>2, <1>3, <1>6 DEF DataInv
<1>11. DataInv'
  <2>1. pc' # "connecting"
    BY <1>5
  <2> QED
    BY <1>1, <1>2, <1>7, <1>9, <1>10, <2>1 DEF DataInv, QueueTyped
<1>12. \A g \in Fields : Flushed(g)' <=> Flushed(g) \/ g = field
  BY <1>1, <1>3, <1>4, <1>5 DEF Flushed
<1>13. ASSUME RequestsFit
       PROVE  BuffersInv' /\ QueueInv' /\ BackInv' /\ InOrder(wire)'
  <2>1. BuffersInv /\ QueueInv /\ BackInv /\ InOrder(wire)
    BY <1>13 DEF WriterInv
  <2>2. position_[field] = Length(field) /\ Held(field) = Length(field)
    BY <1>3, <2>1 DEF BuffersInv
  <2>3. QueueInv' /\ BackInv' /\ InOrder(wire)'
    <3>1. CASE position_[field] = 0
      <4>1. write_queue' = write_queue /\ wire' = wire
        BY <1>6, <3>1
      <4>2. /\ \A g \in Fields : Flushed(g) => Flushed(g)'
            /\ \A g \in Fields : Flushed(g)' => Flushed(g) \/ Length(g) = 0
        BY <1>12, <2>2, <3>1
      <4> QED
        BY <1>1, <1>2, <2>1, <4>1, <4>2, SocketKept
    <3>2. CASE position_[field] # 0
      <4>1. position_[field] > 0 /\ uv_write(field, position_[field])
        BY <1>3, <1>6, <3>2
      <4> QED
        BY <1>1, <1>2, <1>12, <1>13, <2>1, <2>2, <4>1, WriteOrdered
    <3> QED
      BY <3>1, <3>2
  <2>4. ASSUME NEW f \in Fields
        PROVE  /\ Held(f)' = Held(f)
               /\ position_'[f] = IF Flushed(f)' THEN 0 ELSE Held(f)'
    <3>1. CASE f = field
      BY <1>7, <1>10, <1>12, <2>2, <3>1 DEF Held
    <3>2. CASE f # field /\ Flushed(f)
      BY <1>7, <1>10, <1>12, <2>1, <3>2 DEF Held, BuffersInv
    <3>3. CASE f # field /\ ~ Flushed(f)
      <4>1. ~ Flushed(f)' /\ Held(f) = 0 /\ position_'[f] = 0
        BY <1>10, <1>12, <2>1, <3>3 DEF Held, BuffersInv
      <4>2. field # m
        BY <1>3, <1>4, <1>5, <4>1 DEF Flushed
      <4>3. Begin(field, call)' = 0 /\ offset' = 0
        BY <1>5, <4>2 DEF Begin
      <4> QED
        BY <4>1, <4>3 DEF Held
    <3> QED
      BY <3>1, <3>2, <3>3
  <2>5. BuffersInv'
    BY <1>1, <1>7, <2>1, <2>4 DEF BuffersInv
  <2> QED
    BY <2>3, <2>5
<1> QED
  BY <1>7, <1>8, <1>11, <1>13 DEF WriterInv

LEMMA BreakStep ==
    ASSUME WriterInv, Break
    PROVE  WriterInv'
<1>1. /\ pc = "returned" /\ connection' = "broken" /\ write_queue' = <<>> /\ pc' = pc
      /\ requests' = requests /\ field' = field /\ call' = call /\ offset' = offset
      /\ write_buffer_' = write_buffer_ /\ position_' = position_ /\ wire' = wire
  BY DEF Break, writerVars
<1>2. /\ Fields' = Fields /\ (RequestsFit' <=> RequestsFit) /\ (\A f : Length(f)' = Length(f))
      /\ \A s : InOrder(s)' <=> InOrder(s)
  BY <1>1, SameRequests
<1>3. write_queue' \in Seq(Writes) /\ Len(write_queue') = 0
  BY <1>1, EmptySeq
<1>4. PlaceInv' /\ DataInv'
  BY <1>1, <1>2, <1>3 DEF WriterInv, PlaceInv, DataInv
<1>5. \A f : (Flushed(f)' <=> Flushed(f)) /\ Held(f)' = Length(f) /\ Held(f) = Length(f)
  BY <1>1, <1>2 DEF Flushed, Held
<1>6. ASSUME RequestsFit
      PROVE  BuffersInv' /\ QueueInv' /\ BackInv' /\ InOrder(wire)'
  <2>1. BuffersInv /\ InOrder(wire)
    BY <1>6 DEF WriterInv
  <2>2. BuffersInv'
    BY <1>1, <1>5, <2>1, BuffersKept
  <2>3. QueueInv'
    BY <1>3 DEF QueueInv
  <2> QED
    BY <1>1, <1>2, <2>1, <2>2, <2>3 DEF BackInv
<1> QED
  BY <1>2, <1>4, <1>6 DEF WriterInv

LEMMA IdleStep ==
    ASSUME WriterInv, UNCHANGED vars
    PROVE  WriterInv'
<1>1. /\ pc' = pc /\ connection' = connection /\ requests' = requests /\ field' = field /\ call' = call
      /\ offset' = offset /\ write_buffer_' = write_buffer_ /\ position_' = position_
      /\ write_queue' = write_queue /\ wire' = wire
  BY DEF vars, writerVars
<1>2. /\ Fields' = Fields /\ (RequestsFit' <=> RequestsFit) /\ (\A f : Length(f)' = Length(f))
      /\ \A f, c : Begin(f, c)' = Begin(f, c) /\ TextLength(f, c)' = TextLength(f, c)
  BY <1>1, SameRequests
<1>3. PlaceInv /\ DataInv
  BY DEF WriterInv
<1>4. PlaceInv' /\ DataInv'
  <2>1. TextLength(field, call)' = TextLength(field, call)
    BY <1>1 DEF TextLength, Begin
  <2> QED
    BY <1>1, <1>2, <1>3, <2>1 DEF PlaceInv, DataInv
<1>5. \A f : (Flushed(f)' <=> Flushed(f)) /\ Held(f)' = Held(f)
  BY <1>1 DEF Flushed, Held, Length, Begin
<1> QED
  BY <1>1, <1>2, <1>3, <1>4, <1>5, SocketKept, BuffersKept DEF WriterInv

LEMMA PollOutStep ==
    ASSUME WriterInv, PollOut
    PROVE  WriterInv'
<1>1. /\ pc = "returned" /\ write_queue # <<>> /\ pc' = pc /\ connection' = connection
      /\ requests' = requests /\ field' = field /\ call' = call /\ offset' = offset
      /\ write_buffer_' = write_buffer_ /\ position_' = position_
  BY DEF PollOut, writerVars
<1>2. PlaceInv /\ DataInv
  BY DEF WriterInv
<1>3. PICK q, l : q = write_queue /\ l = Len(q) /\ l \in Nat /\ l > 0 /\ q \in Seq(Writes)
  BY <1>1, <1>2, LenProperties, EmptySeq DEF DataInv
<1>4. PICK w : w = q[1] /\ w = Head(q) /\ w \in Writes
  BY <1>3
<1>5. 1 \in 1 .. l
  BY <1>3
<1>6. /\ w.writer \in Fields /\ w.length \in Nat /\ w.sent \in Nat
      /\ w.sent <= w.length /\ w.length <= BufferSize
  BY <1>2, <1>3, <1>4, <1>5 DEF DataInv, Writes
<1>7. PICK k \in 1 .. w.length - w.sent :
        /\ wire' = wire \o Unsent(w, k, write_buffer_)
        /\ write_queue' = IF w.sent + k = w.length THEN Tail(q)
                          ELSE <<Queued(w.writer, w.length, w.sent + k)>> \o Tail(q)
  BY <1>3, <1>4 DEF PollOut
<1>8. PICK t : t = Unsent(w, k, write_buffer_)
  OBVIOUS
<1>9. k \in Nat /\ k > 0 /\ w.sent + k <= w.length /\ w.sent + k <= BufferSize /\ BufferSize \in Nat
  BY <1>6, WriterAssumption
<1>10. /\ t \in Seq(Bytes) /\ Len(t) = k
       /\ \A i \in 1 .. k : t[i] = write_buffer_[w.writer][w.sent + i - 1] /\ w.sent + i - 1 \in 0 .. BufferSize - 1
  BY <1>2, <1>6, <1>8, <1>9, TakenBytes
<1>11. /\ Fields' = Fields /\ (RequestsFit' <=> RequestsFit) /\ (\A f : Length(f)' = Length(f))
       /\ \A a, b : (Follows(a, b)' <=> Follows(a, b)) /\ (Finished(a)' <=> Finished(a))
       /\ \A s : InOrder(s)' <=> InOrder(s)
  BY <1>1, SameRequests
<1>12. wire' = wire \o t /\ wire \in Seq(Bytes) /\ wire' \in Seq(Bytes)
  BY <1>2, <1>7, <1>8, <1>10, ConcatProperties DEF DataInv
<1>13. PICK v : v = Queued(w.writer, w.length, w.sent + k)
  OBVIOUS
<1>14. v.writer = w.writer /\ v.length = w.length /\ v.sent = w.sent + k /\ v \in Writes
  <2>1. w.writer \in Nat /\ w.sent + k \in Nat
    BY <1>6, <1>9 DEF Fields
  <2> QED
    BY <1>6, <1>13, <2>1 DEF Queued, Writes
<1>15. PICK r : r = Tail(q) /\ r \in Seq(Writes) /\ Len(r) = l - 1 /\ \A i \in 1 .. l - 1 : r[i] = q[i + 1]
  <2>1. Tail(q) \in Seq(Writes) /\ Len(Tail(q)) = Len(q) - 1 /\ \A i \in 1 .. Len(q) - 1 : Tail(q)[i] = q[i + 1]
    BY <1>1, <1>3, HeadTailProperties
  <2> QED
    BY <1>3, <2>1
<1>16. /\ w.sent + k = w.length => /\ write_queue' = r /\ Len(write_queue') = l - 1
                                   /\ \A i \in 1 .. l - 1 : write_queue'[i] = q[i + 1]
       /\ w.sent + k # w.length => /\ write_queue' \in Seq(Writes) /\ Len(write_queue') = l
                                   /\ write_queue'[1] = v /\ \A i \in 2 .. l : write_queue'[i] = q[i]
  <2>1. CASE w.sent + k = w.length
    BY <1>7, <1>15, <2>1
  <2>2. CASE w.sent + k # w.length
    <3>1. PICK p : p = <<v>> /\ p \in Seq(Writes) /\ Len(p) = 1 /\ p[1] = v
      BY <1>14, OneWrite
    <3>2. write_queue' = p \o r
      BY <1>7, <1>13, <1>15, <2>2, <3>1
    <3>3. p \o r \in Seq(Writes) /\ Len(p \o r) = l
      <4>1. p \o r \in Seq(Writes) /\ Len(p \o r) = Len(p) + Len(r)
        BY <1>15, <3>1, ConcatProperties
      <4> QED
        BY <1>3, <1>15, <3>1, <4>1
    <3>4. /\ \A i \in 1 .. Len(p) : (p \o r)[i] = p[i]
          /\ \A i \in 1 .. Len(r) : (p \o r)[Len(p) + i] = r[i]
      BY <1>15, <3>1, Joined
    <3>5. ASSUME NEW i \in 2 .. l
          PROVE  (p \o r)[i] = q[i]
      <4>1. PICK j : j = i - 1 /\ j \in 1 .. l - 1 /\ 1 + j = i /\ j + 1 = i
        BY <1>3
      <4> QED
        BY <1>15, <3>1, <3>4, <4>1
    <3>6. (p \o r)[1] = v
      BY <3>1, <3>4
    <3> QED
      BY <2>2, <3>2, <3>3, <3>5, <3>6
  <2> QED
    BY <2>1, <2>2
<1>17. PlaceInv'
  <2>1. TextLength(field, call)' = TextLength(field, call)
    BY <1>1 DEF TextLength, Begin
  <2> QED
    BY <1>1, <1>2, <2>1 DEF PlaceInv
<1>18. DataInv'
  <2>1. connection # "broken"
    BY <1>2, <1>3 DEF DataInv
  <2>2. \A i \in 1 .. l : q[i].writer \in Fields /\ q[i].sent <= q[i].length /\ q[i].length <= BufferSize
    BY <1>2, <1>3 DEF DataInv
  <2>3. QueueTyped(write_queue')
    <3>1. CASE w.sent + k = w.length
      <4>1. \A i \in 1 .. l - 1 : i + 1 \in 1 .. l
        BY <1>3
      <4> QED
        BY <1>15, <1>16, <2>2, <3>1, <4>1 DEF QueueTyped
    <3>2. CASE w.sent + k # w.length
      <4>1. \A i \in 1 .. l : i = 1 \/ i \in 2 .. l
        BY <1>3
      <4> QED
        BY <1>6, <1>9, <1>14, <1>16, <2>2, <3>2, <4>1 DEF QueueTyped
    <3> QED
      BY <3>1, <3>2
  <2> QED
    BY <1>1, <1>2, <1>11, <1>12, <2>1, <2>3 DEF DataInv, QueueTyped
<1>19. ASSUME RequestsFit
       PROVE  BuffersInv' /\ QueueInv' /\ BackInv' /\ InOrder(wire)'
  <2>1. BuffersInv /\ QueueInv /\ BackInv /\ InOrder(wire)
    BY <1>19 DEF WriterInv
  <2>2. \A f : Flushed(f) /\ Flushed(f)' /\ Held(f) = Length(f) /\ Held(f)' = Length(f)
    BY <1>1, <1>11 DEF Flushed, Held
  <2>3. BuffersInv'
    BY <1>1, <2>1, <2>2, BuffersKept
  <2>4. /\ \A i \in 1 .. l : q[i].length = Length(q[i].writer) /\ q[i].sent < q[i].length /\ (i > 1 => q[i].sent = 0)
        /\ \A i \in 1 .. l - 1 : Follows(Byte(q[i].writer, q[i].length), Byte(q[i + 1].writer, 1))
        /\ Follows(LastByte, Byte(w.writer, w.sent + 1))
    BY <1>3, <1>4, <2>1 DEF QueueInv
  <2>5. w.length = Length(w.writer)
    BY <1>4, <1>5, <2>4
  <2>6. ASSUME NEW i \in 1 .. k
        PROVE  t[i] = Byte(w.writer, w.sent + i)
    <3>1. PICK j : j = w.sent + i - 1 /\ j \in 0 .. BufferSize - 1 /\ t[i] = write_buffer_[w.writer][j]
      BY <1>10
    <3>2. j < Held(w.writer) /\ j + 1 = w.sent + i
      BY <1>6, <1>9, <2>2, <2>5, <3>1
    <3> QED
      BY <1>6, <2>1, <3>1, <3>2 DEF BuffersInv
  <2>7. /\ InOrder(wire \o t) /\ Follows(LastOf(wire \o t), Byte(w.writer, (w.sent + k) + 1))
        /\ LastOf(wire \o t) = Byte(w.writer, w.sent + k)
    <3>1. PICK f, n, j : f = w.writer /\ n = w.sent /\ j = k
      OBVIOUS
    <3>2. /\ Len(t) = j /\ (\A i \in 1 .. j : t[i] = Byte(f, n + i)) /\ n + j <= Length(f)
          /\ Length(f) \in Nat /\ InOrder(wire) /\ Follows(LastOf(wire), Byte(f, n + 1))
      BY <1>6, <1>9, <1>10, <1>12, <2>1, <2>4, <2>5, <2>6, <3>1 DEF LastByte
    <3>3. /\ InOrder(wire \o t) /\ Follows(LastOf(wire \o t), Byte(f, (n + j) + 1))
          /\ j > 0 => LastOf(wire \o t) = Byte(f, n + j)
      <4>1. f \in Fields /\ j \in Nat /\ t \in Seq(Bytes) /\ wire \in Seq(Bytes) /\ n \in Nat
        BY <1>6, <1>9, <1>10, <1>12, <3>1
      <4> QED
        BY <3>2, <4>1, SendBytes
    <3> QED
      BY <1>9, <3>1, <3>3
  <2>8. InOrder(wire)'
    BY <1>11, <1>12, <2>7
  <2>9. /\ LastByte' = Byte(w.writer, w.sent + k)
        /\ Follows(LastByte', Byte(w.writer, (w.sent + k) + 1))
    BY <1>12, <2>7 DEF LastByte, LastOf
  <2>10. LastQueued = Byte(q[l].writer, q[l].length)
    BY <1>3 DEF LastQueued
  <2>11. ASSUME w.sent + k = w.length
         PROVE  QueueInv' /\ LastQueued' = LastQueued
    <3>1. Len(write_queue') = l - 1 /\ \A i \in 1 .. l - 1 : write_queue'[i] = q[i + 1]
      BY <1>16, <2>11
    <3>2. ASSUME NEW i \in 1 .. l - 1
          PROVE  /\ write_queue'[i].length = Length(write_queue'[i].writer)
                 /\ write_queue'[i].sent < write_queue'[i].length
                 /\ write_queue'[i].sent = 0
      <4>1. i + 1 \in 1 .. l /\ i + 1 > 1
        BY <1>3
      <4> QED
        BY <2>4, <3>1, <4>1
    <3>3. ASSUME NEW i \in 1 .. (l - 1) - 1
          PROVE  Follows(Byte(write_queue'[i].writer, write_queue'[i].length),
                         Byte(write_queue'[i + 1].writer, 1))
      <4>1. i \in 1 .. l - 1 /\ i + 1 \in 1 .. l - 1
        BY <1>3
      <4> QED
        BY <2>4, <3>1, <4>1
    <3>4. l - 1 > 0 => Follows(LastByte', Byte(write_queue'[1].writer, write_queue'[1].sent + 1))
      <4>1. HAVE l - 1 > 0
      <4>2. 1 \in 1 .. l - 1
        BY <1>3, <4>1
      <4>3. Follows(Byte(w.writer, w.length), Byte(write_queue'[1].writer, 1))
        BY <1>4, <2>4, <3>1, <4>2
      <4>4. write_queue'[1].sent + 1 = 1
        BY <3>2, <4>2
      <4> QED
        BY <2>9, <2>11, <4>3, <4>4
    <3>5. QueueInv'
      BY <1>1, <1>11, <3>1, <3>2, <3>3, <3>4 DEF QueueInv, Flushed
    <3>6. LastQueued' = LastQueued
      <4>1. CASE l = 1
        BY <1>4, <2>9, <2>10, <2>11, <3>1, <4>1 DEF LastQueued
      <4>2. CASE l # 1
        <5>1. l - 1 \in 1 .. l - 1 /\ l - 1 # 0 /\ (l - 1) + 1 = l
          BY <1>3, <4>2
        <5>2. write_queue'[l - 1] = q[l]
          BY <3>1, <5>1
        <5> QED
          BY <2>10, <3>1, <5>1, <5>2 DEF LastQueued
      <4> QED
        BY <4>1, <4>2
    <3> QED
      BY <3>5, <3>6
  <2>12. ASSUME w.sent + k # w.length
         PROVE  QueueInv' /\ LastQueued' = LastQueued
    <3>1. /\ Len(write_queue') = l /\ write_queue'[1] = v
          /\ \A i \in 2 .. l : write_queue'[i] = q[i]
      BY <1>16, <2>12
    <3>2. ASSUME NEW i \in 1 .. l
          PROVE  /\ write_queue'[i].writer = q[i].writer /\ write_queue'[i].length = q[i].length
                 /\ write_queue'[i].sent < write_queue'[i].length
                 /\ i > 1 => write_queue'[i].sent = 0
      <4>1. CASE i = 1
        BY <1>4, <1>6, <1>9, <1>14, <2>12, <3>1, <4>1
      <4>2. CASE i # 1
        <5>1. i \in 2 .. l
          BY <4>2
        <5> QED
          BY <2>4, <3>1, <5>1
      <4> QED
        BY <4>1, <4>2
    <3>3. \A i \in 1 .. l : write_queue'[i].length = Length(write_queue'[i].writer)
      BY <2>4, <3>2
    <3>4. ASSUME NEW i \in 1 .. l - 1
          PROVE  Follows(Byte(write_queue'[i].writer, write_queue'[i].length),
                         Byte(write_queue'[i + 1].writer, 1))
      <4>1. i \in 1 .. l /\ i + 1 \in 1 .. l
        BY <1>3
      <4> QED
        BY <2>4, <3>2, <4>1
    <3>5. Follows(LastByte', Byte(write_queue'[1].writer, write_queue'[1].sent + 1))
      BY <1>14, <2>9, <3>1
    <3>6. QueueInv'
      BY <1>1, <1>11, <3>1, <3>2, <3>3, <3>4, <3>5 DEF QueueInv, Flushed
    <3>7. LastQueued' = LastQueued
      <4>1. l \in 1 .. l /\ l # 0
        BY <1>3
      <4> QED
        BY <2>10, <3>1, <3>2, <4>1 DEF LastQueued
    <3> QED
      BY <3>6, <3>7
  <2>13. QueueInv' /\ LastQueued' = LastQueued
    BY <2>11, <2>12
  <2>14. BackInv'
    BY <1>1, <1>11, <2>1, <2>2, <2>13 DEF BackInv, Flushed
  <2> QED
    BY <2>3, <2>8, <2>13, <2>14
<1> QED
  BY <1>11, <1>17, <1>18, <1>19 DEF WriterInv

-----------------------------------------------------------------------------
(* The theorems *)

\* WriterInv holds of OnClientConnect, of the writers and of the socket (Write,
\* FlushBuffer, End), for every buffer size and any requests.
THEOREM WriterInvariant == Spec => []WriterInv
<1>1. Init => WriterInv
  BY StartInv
<1>2. WriterInv /\ [Next]_vars => WriterInv'
  BY ConnectStep, StoreStep, NextCallStep, EndStep, PollOutStep, BreakStep, IdleStep DEF Next
<1> QED
  BY <1>1, <1>2, PTL DEF Spec

\* No byte is stored behind the end of a buffer, and when the requests fit the
\* backend receives them whole and in their order, however the socket cuts them
\* (Write, FlushBuffer): for every buffer size and any number of requests.
THEOREM WireOrdered == Spec => []WireInOrder
<1>1. WriterInv => WireInOrder
  <2>1. ASSUME WriterInv
        PROVE  \A f \in Fields : position_[f] <= BufferSize
    BY <2>1, WriterAssumption DEF WriterInv, DataInv
  <2> QED
    BY <2>1 DEF WriterInv, WireInOrder
<1> QED
  BY <1>1, WriterInvariant, PTL
=============================================================================
