-------------------------- MODULE HttpServerProofs --------------------------
(***************************************************************************)
(* The gateway's safety properties for any number of connections, records, *)
(* chunks and pool blocks.  The argument is about the one session that all *)
(* connections feed.  It answers the hello of whoever comes first, but the *)
(* answer goes to the newest connection: the peer of a session that is not *)
(* its own never goes on (HelloInv), so loads come only from the connection*)
(* whose socket the client holds.  A unit of another connection, once in   *)
(* the input, stays there: records are taken from the front, and SSL_read  *)
(* fails on what it does not expect.  Hence either the input holds only the*)
(* units of that connection, exactly those that were delivered and not yet *)
(* taken (PureInv), or nothing more than what lies before the foreign unit *)
(* will ever come out.                                                     *)
(***************************************************************************)
EXTENDS HttpServer, FiniteSetTheorems, SequenceTheorems, TLAPS

\* The units of a client's stream, and the sessions.
Message == [from : Connections, unit : Nat]

Sessions == [peer : Connections \cup {NoConnection}, taken : Nat, pending : Nat,
             rbio : Seq(Message), failed : BOOLEAN]

\* The clients that may go on: their hello was answered, to them.
Begun == {c \in Connections : "hello" \in answers[c]}

\* There is a client once a connection was accepted, and a connection that was
\* not accepted has left no trace.
OwnerInv ==
    /\ IF tcp_handle \in Connections THEN conn[tcp_handle] # "idle" ELSE ~ ssl.failed
    /\ \A c \in Connections :
          /\ conn[c] # "idle" => tcp_handle \in Connections
          /\ conn[c] = "idle" => delivered[c] = 0

\* No unit of the session's input was invented.
Within(s, sent) ==
    \A i \in 1 .. Len(s.rbio) : 1 <= s.rbio[i].unit /\ s.rbio[i].unit <= sent[s.rbio[i].from]

\* What c may have sent: its hello, and all the rest once that was answered.
Limit(c, b) == IF c \in b THEN 2 * (2 + Len(records[c])) ELSE 2

\* The hello that a session has taken was sent.
Spoke(s, sent) == s.taken >= 1 => sent[s.peer] >= 2

StreamInv ==
    /\ \A c \in Connections : /\ delivered[c] <= Limit(c, Begun)
                              /\ c \in Begun => delivered[c] >= 2
    /\ Within(ssl, delivered) /\ Spoke(ssl, delivered)

\* The hello of a client that was answered is not in the input of any session
\* but the one that answered it.
Late(s, b) ==
    \A i \in 1 .. Len(s.rbio) :
        s.rbio[i].from \in b /\ ~ (s.taken >= 1 /\ s.peer = s.rbio[i].from) => s.rbio[i].unit >= 3

\* A session whose answer went to another client's socket is stuck.
Paired(s, b, h) ==
    s.taken >= 1 => /\ s.peer \in Connections
                    /\ IF s.peer = h THEN s.peer \in b ELSE s.peer \notin b /\ s.taken = 1

HelloInv == Paired(ssl, Begun, tcp_handle) /\ Late(ssl, Begun)

\* The session and its input are those of h alone.
Pure(s, h) ==
    /\ s.taken = 0 \/ s.peer = h
    /\ \A i \in 1 .. Len(s.rbio) : s.rbio[i].from = h

\* The session's input is what its client sent and the session did not take.
Faithful(s, sent) ==
    /\ ~ s.failed
    /\ 2 * s.taken + Len(s.rbio) = sent
    /\ \A i \in 1 .. Len(s.rbio) : s.rbio[i].unit = 2 * s.taken + i

\* As long as no other connection has put units there, the session is in step
\* with the connection it was made for.
PureInv ==
    tcp_handle \in Connections /\ Pure(ssl, tcp_handle) => Faithful(ssl, delivered[tcp_handle])

\* Less than a record is in the input, and no load waits.
Short(s, sent) ==
    /\ s.pending = 0 /\ Len(s.rbio) <= 1
    /\ \A i \in 1 .. Len(s.rbio) : s.rbio[i].from = Peer(s)
    /\ 2 * s.taken + Len(s.rbio) = sent[Peer(s)]

\* A session that works and that someone has spoken to.
Active(s) == ~ s.failed /\ (s.taken > 0 \/ Len(s.rbio) > 0)

\* Such a session is short if its peer's records were not glued and fit.
ShortInv ==
    Active(ssl) /\ Peer(ssl) \notin glued /\ FitsBuffer(Peer(ssl)) => Short(ssl, delivered)

\* The records that a session has taken exist, and it keeps less than one.
Rest(s) ==
    /\ s.taken >= 3 => s.taken - 2 \in 1 .. Len(records[s.peer])
    /\ s.pending > 0 => /\ s.taken >= 3 /\ ~ s.failed
                        /\ s.pending < records[s.peer][s.taken - 2]
PendingInv == Rest(ssl)

\* Nothing was parsed for c.
NoneFor(c) == \A i \in 1 .. Len(parsed) : parsed[i].sender # c

\* The i-th entry is the last one for c.
LastFor(i, c) ==
    /\ i \in 1 .. Len(parsed) /\ parsed[i].sender = c
    /\ \A k \in i + 1 .. Len(parsed) : parsed[k].sender # c

\* Only clients that were answered get that far, and the load that was parsed
\* last for the session's peer is the one that the session returned last.
RecordInv ==
    /\ \A i \in 1 .. Len(parsed) : parsed[i].sender \in Begun
    /\ ssl.taken = 1 \/ ssl.taken = 2 => NoneFor(ssl.peer)
    /\ ssl.taken >= 3 => \E i \in 1 .. Len(parsed) :
          /\ LastFor(i, ssl.peer)
          /\ parsed[i].record = ssl.taken - 2
          /\ parsed[i].load = records[ssl.peer][ssl.taken - 2] - ssl.pending

\* A ClientRequest exists only after a field was noted in the shared client.
FieldsInv == Len(forwards) > 0 => fields # {}

\* The blocks in use are paid for by the loads, at the price of the dearest.
PoolInv ==
    \/ Len(parsed) = 0 /\ pool = PoolBlocks
    \/ \E n \in {d.blocks : d \in Documents} : n * Len(parsed) >= PoolBlocks - pool

\* The inductive invariant.
ServerInv ==
    /\ TypeOK /\ OwnerInv /\ StreamInv /\ HelloInv /\ PureInv /\ ShortInv /\ PendingInv /\ RecordInv
    /\ FieldsInv /\ PoolInv
    /\ RequestsKeepTheirSender /\ ParsedInOrder /\ OneRequestPerForward /\ PoolLastsForItsBlocks

-----------------------------------------------------------------------------
(* What the operations on the session do to it *)

\* What \o does, in the form that the proofs below use.
LEMMA Joined ==
    ASSUME NEW T, NEW a \in Seq(T), NEW b \in Seq(T)
    PROVE  /\ a \o b \in Seq(T) /\ Len(a \o b) = Len(a) + Len(b)
           /\ \A i \in 1 .. Len(a) : (a \o b)[i] = a[i]
           /\ \A i \in Len(a) + 1 .. Len(a) + Len(b) : (a \o b)[i] = b[i - Len(a)]
<1>1. Len(a) \in Nat /\ Len(b) \in Nat
  OBVIOUS
<1>2. a \o b \in Seq(T) /\ Len(a \o b) = Len(a) + Len(b)
  BY ConcatProperties
<1>3. \A i \in 1 .. Len(a) : (a \o b)[i] = a[i]
  BY <1>1
<1>4. \A i \in Len(a) + 1 .. Len(a) + Len(b) : (a \o b)[i] = b[i - Len(a)]
  BY <1>1
<1> QED
  BY <1>2, <1>3, <1>4

\* The types of a session's fields.
LEMMA Fields ==
    ASSUME NEW s \in Sessions
    PROVE  /\ s.peer \in Connections \cup {NoConnection} /\ s.taken \in Nat /\ s.pending \in Nat
           /\ s.rbio \in Seq(Message) /\ Len(s.rbio) \in Nat /\ s.failed \in BOOLEAN
           /\ \A i \in 1 .. Len(s.rbio) : /\ s.rbio[i] \in Message /\ s.rbio[i].from \in Connections
                                          /\ s.rbio[i].unit \in Nat
<1>1. /\ s.peer \in Connections \cup {NoConnection} /\ s.taken \in Nat /\ s.pending \in Nat
      /\ s.rbio \in Seq(Message) /\ s.failed \in BOOLEAN
  BY DEF Sessions
<1>2. Len(s.rbio) \in Nat /\ \A i \in 1 .. Len(s.rbio) : s.rbio[i] \in Message
  BY <1>1
<1>3. \A m \in Message : m.from \in Connections /\ m.unit \in Nat
  BY DEF Message
<1> QED
  BY <1>1, <1>2, <1>3

\* BIO_write appends the chunk and leaves the rest of the session alone.
LEMMA FeedAppends ==
    ASSUME NEW s \in Sessions, NEW c \in Connections, NEW n \in Nat,
           delivered \in [Connections -> Nat]
    PROVE  LET t == FeedBytes(s, c, n)
           IN  /\ t \in Sessions
               /\ t.peer = s.peer /\ t.taken = s.taken /\ t.pending = s.pending
               /\ t.failed = s.failed
               /\ Len(t.rbio) = Len(s.rbio) + n
               /\ \A i \in 1 .. Len(s.rbio) : t.rbio[i] = s.rbio[i]
               /\ \A i \in Len(s.rbio) + 1 .. Len(s.rbio) + n :
                     /\ t.rbio[i].from = c
                     /\ t.rbio[i].unit = delivered[c] + (i - Len(s.rbio))
<1> DEFINE u == NextUnits(c, n)
<1>1. /\ u \in Seq(Message) /\ Len(u) = n
      /\ \A i \in 1 .. n : u[i].from = c /\ u[i].unit = delivered[c] + i
  BY DEF NextUnits, Message
<1>2. s.rbio \in Seq(Message) /\ Len(s.rbio) \in Nat
  BY Fields
<1> DEFINE r == s.rbio
<1> HIDE DEF u, r
<1>3. /\ r \o u \in Seq(Message) /\ Len(r \o u) = Len(r) + Len(u)
      /\ \A i \in 1 .. Len(r) : (r \o u)[i] = r[i]
      /\ \A i \in Len(r) + 1 .. Len(r) + Len(u) : (r \o u)[i] = u[i - Len(r)]
  <2>1. r \in Seq(Message) /\ u \in Seq(Message)
    BY <1>1, <1>2 DEF r
  <2> QED
    BY <2>1, Joined
<1>4. \A i \in Len(r) + 1 .. Len(r) + Len(u) : i - Len(r) \in 1 .. n
  BY <1>1, <1>2 DEF r
<1>5. FeedBytes(s, c, n) = [peer |-> s.peer, taken |-> s.taken, pending |-> s.pending,
                            rbio |-> r \o u, failed |-> s.failed]
  BY DEF FeedBytes, Session, u, r
<1>6. FeedBytes(s, c, n) \in Sessions
  BY <1>3, <1>5, Fields DEF Sessions
<1> QED
  BY <1>1, <1>3, <1>4, <1>5, <1>6 DEF r

\* What stands in front of a session that has a whole record.
LEMMA RecordInFront ==
    ASSUME NEW s \in Sessions, HasRecord(s)
    PROVE  /\ ~ HasGarbage(s) /\ Len(s.rbio) >= 2 /\ ~ s.failed
           /\ Peer(s) = s.rbio[1].from /\ Peer(s) \in Connections
           /\ s.taken >= 1 => Peer(s) = s.peer
           /\ \A i \in 1 .. 2 : s.rbio[i].from = Peer(s) /\ s.rbio[i].unit = 2 * s.taken + i
<1>1. ~ HasGarbage(s) /\ Len(s.rbio) >= 2
  BY DEF HasRecord
<1>2. /\ s.taken \in Nat /\ Len(s.rbio) \in Nat
      /\ \A i \in 1 .. Len(s.rbio) : s.rbio[i].from \in Connections
  BY Fields
<1>3. ~ s.failed /\ \A i \in 1 .. 2 : s.rbio[i] = Expected(s, i)
  BY <1>1, <1>2 DEF HasGarbage
<1>4. \A i \in 1 .. 2 : s.rbio[i].from = Peer(s) /\ s.rbio[i].unit = 2 * s.taken + i
  BY <1>3 DEF Expected
<1>5. 1 \in 1 .. 2 /\ 1 \in 1 .. Len(s.rbio)
  BY <1>1, <1>2
<1>6. s.taken >= 1 => Peer(s) = s.peer
  BY <1>2 DEF Peer
<1> QED
  BY <1>1, <1>2, <1>3, <1>4, <1>5, <1>6

\* A record that SSL_read takes must be one that its sender has.
Exists(s) ==
    HasRecord(s) /\ s.taken >= 2 =>
        s.peer \in Connections /\ s.taken - 1 \in 1 .. Len(records[s.peer])

\* A record is the two units in front.
LEMMA TakeShifts ==
    ASSUME NEW s \in Sessions, HasRecord(s), Exists(s), records \in [Connections -> Seq(Loads)]
    PROVE  LET t == TakeRecord(s)
           IN  /\ t \in Sessions
               /\ t.peer = Peer(s) /\ t.taken = s.taken + 1 /\ t.failed = s.failed
               /\ IF s.taken < 2 THEN t.pending = 0
                  ELSE /\ records[s.peer][s.taken - 1] \in Nat
                       /\ t.pending = records[s.peer][s.taken - 1] - 1
               /\ Len(t.rbio) = Len(s.rbio) - 2
               /\ \A i \in 1 .. Len(s.rbio) - 2 : t.rbio[i] = s.rbio[i + 2]
<1>1. /\ s.rbio \in Seq(Message) /\ s.taken \in Nat /\ s.failed \in BOOLEAN
      /\ Len(s.rbio) >= 2 /\ Peer(s) \in Connections
  BY Fields, RecordInFront
<1> DEFINE r == SubSeq(s.rbio, 3, Len(s.rbio))
           k == IF s.taken < 2 THEN 0 ELSE records[s.peer][s.taken - 1] - 1
<1>2. /\ r \in Seq(Message) /\ Len(r) = Len(s.rbio) - 2
      /\ \A i \in 1 .. Len(s.rbio) - 2 : r[i] = s.rbio[i + 2]
  BY <1>1
<1>3. TakeRecord(s) = [peer |-> Peer(s), taken |-> s.taken + 1, pending |-> k, rbio |-> r,
                       failed |-> s.failed]
  BY DEF TakeRecord, Session, r, k
<1>4. ASSUME ~ (s.taken < 2)
      PROVE  records[s.peer][s.taken - 1] \in Nat /\ records[s.peer][s.taken - 1] >= 1
  <2>1. s.peer \in Connections /\ s.taken - 1 \in 1 .. Len(records[s.peer])
    BY <1>4, <1>1 DEF Exists
  <2>2. records[s.peer] \in Seq(Loads)
    BY <2>1
  <2>3. records[s.peer][s.taken - 1] \in Loads
    BY <2>1, <2>2
  <2> QED
    BY <2>3 DEF Loads, ReadBuffer, RecordSize
<1>5. k \in Nat
  BY <1>1, <1>4
<1>6. IF s.taken < 2 THEN k = 0
      ELSE records[s.peer][s.taken - 1] \in Nat /\ k = records[s.peer][s.taken - 1] - 1
  BY <1>4
<1> HIDE DEF r, k
<1>7. TakeRecord(s) \in Sessions
  BY <1>1, <1>2, <1>3, <1>5 DEF Sessions
<1> QED
  BY <1>2, <1>3, <1>6, <1>7

\* SSL_accept and SSL_read return what is left of a record, fail, take a record,
\* or wait.
LEMMA ProgressCases ==
    ASSUME NEW s \in Sessions
    PROVE  \/ s.pending > 0 /\ Progress(s) = TakePending(s)
           \/ s.pending = 0 /\ HasGarbage(s) /\ Progress(s) = Fail(s)
           \/ s.pending = 0 /\ HasRecord(s) /\ Progress(s) = TakeRecord(s)
           \/ s.pending = 0 /\ ~ HasGarbage(s) /\ ~ HasRecord(s) /\ Progress(s) = s
<1>1. s.pending \in Nat
  BY Fields
<1>2. HasRecord(s) => ~ HasGarbage(s)
  BY DEF HasRecord
<1> QED
  BY <1>1, <1>2 DEF Progress

\* Only taking a record changes more than the count of what is left, and a
\* session fails only on garbage.
LEMMA ProgressQuiet ==
    ASSUME NEW s \in Sessions, s.pending > 0 \/ ~ HasRecord(s)
    PROVE  /\ Progress(s) \in Sessions
           /\ Progress(s).peer = s.peer /\ Progress(s).taken = s.taken
           /\ Progress(s).rbio = s.rbio
           /\ Progress(s).pending = IF s.pending > 0 THEN s.pending - 1 ELSE s.pending
           /\ ~ Progress(s).failed => ~ s.failed /\ (s.pending > 0 \/ ~ HasGarbage(s))
           /\ Progress(s).failed => s.failed \/ (s.pending = 0 /\ HasGarbage(s))
<1>1. /\ s.peer \in Connections \cup {NoConnection} /\ s.taken \in Nat /\ s.pending \in Nat
      /\ s.rbio \in Seq(Message) /\ s.failed \in BOOLEAN
  BY Fields
<1>2. CASE s.pending > 0
  <2>1. Progress(s) = [peer |-> s.peer, taken |-> s.taken, pending |-> s.pending - 1,
                       rbio |-> s.rbio, failed |-> s.failed]
    BY <1>2 DEF Progress, TakePending, Session
  <2>2. s.pending - 1 \in Nat
    BY <1>1, <1>2
  <2>3. Progress(s) \in Sessions
    BY <2>1, <2>2, <1>1 DEF Sessions
  <2> QED
    BY <2>1, <2>3, <1>2
<1>3. CASE ~ (s.pending > 0) /\ HasGarbage(s)
  <2>1. Progress(s) = [peer |-> s.peer, taken |-> s.taken, pending |-> s.pending,
                       rbio |-> s.rbio, failed |-> TRUE]
    BY <1>3 DEF Progress, Fail, Session
  <2>2. Progress(s) \in Sessions
    BY <2>1, <1>1 DEF Sessions
  <2>3. s.pending = 0
    BY <1>1, <1>3
  <2> QED
    BY <2>1, <2>2, <2>3, <1>3
<1>4. CASE ~ (s.pending > 0) /\ ~ HasGarbage(s)
  <2>1. Progress(s) = s
    BY <1>4 DEF Progress
  <2>2. ~ s.failed
    BY <1>4 DEF HasGarbage
  <2> QED
    BY <2>1, <2>2, <1>4
<1> QED
  BY <1>2, <1>3, <1>4

\* What is in the input after the call was there before.
LEMMA ProgressUnits ==
    ASSUME NEW s \in Sessions, Exists(s), records \in [Connections -> Seq(Loads)]
    PROVE  /\ Progress(s) \in Sessions
           /\ \A i \in 1 .. Len(Progress(s).rbio) :
                 \E j \in 1 .. Len(s.rbio) : Progress(s).rbio[i] = s.rbio[j]
<1>1. CASE s.pending = 0 /\ HasRecord(s)
  <2> DEFINE t == TakeRecord(s)
  <2>1. Progress(s) = t
    BY <1>1 DEF Progress, HasRecord
  <2>2. /\ t \in Sessions /\ Len(t.rbio) = Len(s.rbio) - 2
        /\ \A i \in 1 .. Len(s.rbio) - 2 : t.rbio[i] = s.rbio[i + 2]
    BY <1>1, TakeShifts
  <2> HIDE DEF t
  <2>3. Len(s.rbio) \in Nat /\ Len(s.rbio) >= 2
    BY <1>1, Fields, RecordInFront
  <2>4. ASSUME NEW i \in 1 .. Len(t.rbio) PROVE \E j \in 1 .. Len(s.rbio) : t.rbio[i] = s.rbio[j]
    <3>1. i \in 1 .. Len(s.rbio) - 2 /\ i + 2 \in 1 .. Len(s.rbio)
      BY <2>2, <2>3
    <3> QED
      BY <3>1, <2>2
  <2> QED
    BY <2>1, <2>2, <2>4
<1>2. CASE s.pending > 0 \/ ~ HasRecord(s)
  BY <1>2, ProgressQuiet
<1> QED
  BY <1>1, <1>2, Fields

\* The peer's units in their order are never garbage.
LEMMA FaithfulIsClean ==
    ASSUME NEW s \in Sessions, NEW h, NEW sent, Pure(s, h), Faithful(s, sent)
    PROVE  ~ HasGarbage(s)
<1>1. SUFFICES ASSUME NEW i \in 1 .. 2, i <= Len(s.rbio)
               PROVE  s.rbio[i] = Expected(s, i)
  BY DEF HasGarbage, Faithful
<1>2. /\ i \in 1 .. Len(s.rbio) /\ s.rbio[i] \in Message /\ s.taken \in Nat /\ Len(s.rbio) \in Nat
      /\ 1 \in 1 .. Len(s.rbio)
  BY <1>1, Fields
<1>3. s.rbio[i].from = h /\ s.rbio[1].from = h /\ s.rbio[i].unit = 2 * s.taken + i
  BY <1>2 DEF Pure, Faithful
<1>4. Peer(s) = h
  BY <1>2, <1>3 DEF Pure, Peer
<1> QED
  BY <1>2, <1>3, <1>4 DEF Message, Expected

\* Another connection's units stay in the input once they are there: records
\* are only taken from in front of them.
LEMMA ProgressIsPure ==
    ASSUME NEW s \in Sessions, NEW h, Pure(Progress(s), h), Exists(s),
           records \in [Connections -> Seq(Loads)]
    PROVE  Pure(s, h)
<1>1. CASE s.pending = 0 /\ HasRecord(s)
  <2> DEFINE t == TakeRecord(s)
  <2>1. Progress(s) = t /\ Len(s.rbio) >= 2 /\ Len(s.rbio) \in Nat /\ s.taken \in Nat
    BY <1>1, RecordInFront, Fields DEF Progress
  <2>2. /\ t.peer = Peer(s) /\ t.taken = s.taken + 1
        /\ Len(t.rbio) = Len(s.rbio) - 2
        /\ \A i \in 1 .. Len(s.rbio) - 2 : t.rbio[i] = s.rbio[i + 2]
    BY <1>1, TakeShifts
  <2>3. /\ s.taken >= 1 => Peer(s) = s.peer
        /\ \A i \in 1 .. 2 : s.rbio[i].from = Peer(s)
    BY <1>1, RecordInFront
  <2> HIDE DEF t
  <2>4. Peer(s) = h /\ (s.taken = 0 \/ s.peer = h)
    BY <2>1, <2>2, <2>3 DEF Pure
  <2>5. ASSUME NEW i \in 1 .. Len(s.rbio) PROVE s.rbio[i].from = h
    <3>1. CASE i <= 2
      BY <3>1, <2>3, <2>4
    <3>2. CASE i > 2
      <4>1. i - 2 \in 1 .. Len(s.rbio) - 2 /\ (i - 2) + 2 = i
        BY <3>2, <2>1
      <4>2. t.rbio[i - 2] = s.rbio[i] /\ i - 2 \in 1 .. Len(t.rbio)
        BY <2>2, <4>1
      <4> QED
        BY <4>2, <2>1 DEF Pure
    <3> QED
      BY <3>1, <3>2
  <2> QED
    BY <2>4, <2>5 DEF Pure
<1>2. CASE s.pending > 0 \/ ~ HasRecord(s)
  BY <1>2, ProgressQuiet DEF Pure
<1> QED
  BY <1>1, <1>2, Fields

\* Taking a record keeps the rest of the stream in step.
LEMMA ProgressIsFaithful ==
    ASSUME NEW s \in Sessions, NEW h, NEW sent \in Nat, Pure(s, h), Faithful(s, sent), Exists(s),
           records \in [Connections -> Seq(Loads)]
    PROVE  Faithful(Progress(s), sent)
<1>1. ~ HasGarbage(s)
  BY FaithfulIsClean
<1>2. CASE s.pending = 0 /\ HasRecord(s)
  <2> DEFINE t == TakeRecord(s)
  <2>1. Progress(s) = t /\ Len(s.rbio) >= 2 /\ s.taken \in Nat /\ Len(s.rbio) \in Nat
    BY <1>1, <1>2, RecordInFront, Fields DEF Progress
  <2>2. /\ t.taken = s.taken + 1 /\ t.failed = s.failed /\ Len(t.rbio) = Len(s.rbio) - 2
        /\ \A i \in 1 .. Len(s.rbio) - 2 : t.rbio[i] = s.rbio[i + 2]
    BY <1>2, TakeShifts
  <2>3. /\ ~ s.failed /\ 2 * s.taken + Len(s.rbio) = sent
        /\ \A i \in 1 .. Len(s.rbio) : s.rbio[i].unit = 2 * s.taken + i
    BY DEF Faithful
  <2> HIDE DEF t
  <2>4. \A i \in 1 .. Len(s.rbio) - 2 : t.rbio[i].unit = 2 * t.taken + i
    <3> TAKE i \in 1 .. Len(s.rbio) - 2
    <3>1. i + 2 \in 1 .. Len(s.rbio)
      BY <2>1
    <3>2. t.rbio[i].unit = 2 * s.taken + (i + 2)
      BY <2>2, <2>3, <3>1
    <3>3. 2 * (s.taken + 1) + i = 2 * s.taken + (i + 2)
      BY <2>1
    <3> QED
      BY <3>2, <3>3, <2>2
  <2>5. 2 * t.taken + Len(t.rbio) = sent
    BY <2>1, <2>2, <2>3
  <2>6. Faithful(t, sent)
    BY <2>2, <2>3, <2>4, <2>5 DEF Faithful
  <2> QED
    BY <2>1, <2>6
<1>3. CASE s.pending > 0 \/ ~ HasRecord(s)
  BY <1>1, <1>3, ProgressQuiet DEF Faithful
<1> QED
  BY <1>2, <1>3, Fields

-----------------------------------------------------------------------------
(* What a read callback does to the shared session *)

\* What is known of the session once there is a client.
SessionInv ==
    /\ ssl \in Sessions /\ delivered \in [Connections -> Nat]
    /\ records \in [Connections -> Seq(Loads)] /\ glued \subseteq Connections
    /\ tcp_handle \in Connections
    /\ StreamInv /\ HelloInv /\ PureInv /\ ShortInv /\ PendingInv

\* What the three ways through on_read have in common.
Reads(c, n) ==
    /\ delivered[c] + n <= Limit(c, Begun)
    /\ delivered' = [delivered EXCEPT ![c] = @ + n]
    /\ glued' = IF delivered'[c] \div 2 > delivered[c] \div 2 + 1 THEN glued \cup {c} ELSE glued
    /\ ssl' = Progress(FeedBytes(ssl, c, n))
    /\ Begun' = IF ssl.taken = 0 /\ ssl'.taken = 1 /\ ssl'.peer = tcp_handle
                THEN Begun \cup {tcp_handle} ELSE Begun
    /\ UNCHANGED <<tcp_handle, records>>

\* The chunk keeps every unit of the input within what was delivered, brings no
\* hello of a client that was answered before, and if nothing but the client's
\* own units is in the input then they are in step.
LEMMA FedSession ==
    ASSUME SessionInv, NEW c \in Connections, NEW n \in Nat, Reads(c, n)
    PROVE  LET s == FeedBytes(ssl, c, n)
           IN  /\ Within(s, delivered') /\ Late(s, Begun)
               /\ Pure(s, tcp_handle) => Faithful(s, delivered'[tcp_handle])
<1> DEFINE s == FeedBytes(ssl, c, n)
           l == Len(ssl.rbio)
<1>0. /\ ssl \in Sessions /\ delivered \in [Connections -> Nat] /\ tcp_handle \in Connections
      /\ delivered' = [delivered EXCEPT ![c] = @ + n]
      /\ Within(ssl, delivered) /\ Late(ssl, Begun) /\ (c \in Begun => delivered[c] >= 2)
      /\ Pure(ssl, tcp_handle) => Faithful(ssl, delivered[tcp_handle])
  BY DEF SessionInv, Reads, StreamInv, HelloInv, PureInv
<1>1. /\ s \in Sessions /\ s.peer = ssl.peer /\ s.taken = ssl.taken /\ s.failed = ssl.failed
      /\ Len(s.rbio) = l + n
      /\ \A i \in 1 .. l : s.rbio[i] = ssl.rbio[i]
      /\ \A i \in l + 1 .. l + n : s.rbio[i].from = c /\ s.rbio[i].unit = delivered[c] + (i - l)
  BY <1>0, FeedAppends
<1>2. /\ l \in Nat /\ ssl.taken \in Nat
      /\ \A i \in 1 .. l : ssl.rbio[i].unit \in Nat /\ ssl.rbio[i].from \in Connections
  BY <1>0, Fields
<1>4. /\ \A d \in Connections : delivered[d] \in Nat /\ delivered'[d] \in Nat /\ delivered[d] <= delivered'[d]
      /\ delivered'[c] = delivered[c] + n
      /\ c # tcp_handle => delivered'[tcp_handle] = delivered[tcp_handle]
  BY <1>0
<1> HIDE DEF s, l
<1>5. ASSUME NEW i \in 1 .. Len(s.rbio)
      PROVE  \/ i \in 1 .. l /\ s.rbio[i] = ssl.rbio[i]
             \/ /\ i \in l + 1 .. l + n /\ s.rbio[i].from = c
                /\ s.rbio[i].unit = delivered[c] + (i - l)
  <2>1. i \in 1 .. l \/ i \in l + 1 .. l + n
    BY <1>1, <1>2
  <2> QED
    BY <2>1, <1>1
<1>6. Within(s, delivered')
  <2> SUFFICES ASSUME NEW i \in 1 .. Len(s.rbio)
               PROVE  1 <= s.rbio[i].unit /\ s.rbio[i].unit <= delivered'[s.rbio[i].from]
    BY DEF Within
  <2>1. CASE i \in 1 .. l /\ s.rbio[i] = ssl.rbio[i]
    <3>2. PICK m : m = ssl.rbio[i]
      OBVIOUS
    <3>3. /\ s.rbio[i] = m /\ m.unit \in Nat /\ m.from \in Connections
          /\ 1 <= m.unit /\ m.unit <= delivered[m.from]
      BY <2>1, <3>2, <1>0, <1>2 DEF Within, l
    <3>4. m.unit <= delivered'[m.from]
      BY <3>3, <1>4
    <3> QED
      BY <3>3, <3>4
  <2>2. CASE /\ i \in l + 1 .. l + n /\ s.rbio[i].from = c
             /\ s.rbio[i].unit = delivered[c] + (i - l)
    BY <2>2, <1>2, <1>4
  <2> QED
    BY <2>1, <2>2, <1>5
<1>7. Late(s, Begun)
  <2> SUFFICES ASSUME NEW i \in 1 .. Len(s.rbio), s.rbio[i].from \in Begun,
                      ~ (s.taken >= 1 /\ s.peer = s.rbio[i].from)
               PROVE  s.rbio[i].unit >= 3
    BY DEF Late
  <2>1. CASE i \in 1 .. l /\ s.rbio[i] = ssl.rbio[i]
    BY <2>1, <1>0, <1>1 DEF Late, l
  <2>2. CASE /\ i \in l + 1 .. l + n /\ s.rbio[i].from = c
             /\ s.rbio[i].unit = delivered[c] + (i - l)
    <3>1. delivered[c] >= 2 /\ delivered[c] \in Nat
      BY <2>2, <1>0, <1>4
    <3> QED
      BY <3>1, <2>2, <1>2
  <2> QED
    BY <2>1, <2>2, <1>5
<1>8. ASSUME Pure(s, tcp_handle)
      PROVE  Faithful(s, delivered'[tcp_handle])
  <2>1. \A i \in 1 .. l : i \in 1 .. Len(s.rbio)
    BY <1>1, <1>2
  <2>2. Pure(ssl, tcp_handle)
    BY <1>8, <2>1, <1>1 DEF Pure, l
  <2>3. ASSUME n # 0 PROVE c = tcp_handle
    <3>1. l + 1 \in 1 .. Len(s.rbio) /\ l + 1 \in l + 1 .. l + n
      BY <2>3, <1>1, <1>2
    <3> QED
      BY <3>1, <1>8, <1>1 DEF Pure
  <2>4. /\ ~ ssl.failed /\ 2 * ssl.taken + l = delivered[tcp_handle]
        /\ \A i \in 1 .. l : ssl.rbio[i].unit = 2 * ssl.taken + i
    BY <2>2, <1>0 DEF Faithful, l
  <2>5. delivered'[tcp_handle] = 2 * ssl.taken + l + n
    BY <2>3, <2>4, <1>2, <1>4, <1>0
  <2>6. ASSUME NEW i \in 1 .. Len(s.rbio) PROVE s.rbio[i].unit = 2 * ssl.taken + i
    <3>1. CASE i \in 1 .. l /\ s.rbio[i] = ssl.rbio[i]
      BY <3>1, <2>4
    <3>2. CASE /\ i \in l + 1 .. l + n /\ s.rbio[i].from = c
               /\ s.rbio[i].unit = delivered[c] + (i - l)
      <4>1. n # 0
        BY <3>2, <1>2
      <4>2. c = tcp_handle
        BY <4>1, <2>3
      <4> QED
        BY <4>2, <3>2, <2>4, <1>2
    <3> QED
      BY <3>1, <3>2, <1>5
  <2>7. 2 * s.taken + Len(s.rbio) = delivered'[tcp_handle]
    BY <2>5, <1>1, <1>2
  <2> QED
    BY <2>4, <2>6, <2>7, <1>1 DEF Faithful
<1> QED
  BY <1>6, <1>7, <1>8 DEF s

\* No client gets ahead of the answer to its hello, so a second record is only
\* ever taken from the connection whose socket the client holds; and a record
\* that is taken is one that its sender has.
LEMMA TakenRecord ==
    ASSUME SessionInv, NEW c \in Connections, NEW n \in Nat, Reads(c, n),
           HasRecord(FeedBytes(ssl, c, n))
    PROVE  LET s == FeedBytes(ssl, c, n)
           IN  /\ 2 * ssl.taken + 2 <= delivered'[Peer(s)]
               /\ IF ssl.taken = 0 THEN Peer(s) \notin Begun
                  ELSE Peer(s) = tcp_handle /\ ssl.peer = tcp_handle /\ tcp_handle \in Begun
               /\ Exists(s)
<1> DEFINE s == FeedBytes(ssl, c, n)
           p == Peer(s)
<1>0. /\ ssl \in Sessions /\ delivered \in [Connections -> Nat] /\ tcp_handle \in Connections
      /\ records \in [Connections -> Seq(Loads)]
      /\ delivered' = [delivered EXCEPT ![c] = @ + n] /\ delivered[c] + n <= Limit(c, Begun)
      /\ \A d \in Connections : delivered[d] <= Limit(d, Begun)
      /\ Paired(ssl, Begun, tcp_handle)
  BY DEF SessionInv, Reads, StreamInv, HelloInv
<1>1. s \in Sessions /\ s.peer = ssl.peer /\ s.taken = ssl.taken
  BY <1>0, FeedAppends
<1>2. Within(s, delivered') /\ Late(s, Begun)
  BY FedSession
<1> HIDE DEF s
<1>3. /\ Len(s.rbio) >= 2 /\ Len(s.rbio) \in Nat /\ s.taken \in Nat /\ p \in Connections
      /\ s.taken >= 1 => p = s.peer
      /\ \A i \in 1 .. 2 : s.rbio[i].from = p /\ s.rbio[i].unit = 2 * s.taken + i
  BY <1>1, RecordInFront, Fields DEF s
<1> HIDE DEF p
<1>4. 1 \in 1 .. Len(s.rbio) /\ 2 \in 1 .. Len(s.rbio) /\ 1 \in 1 .. 2 /\ 2 \in 1 .. 2
  BY <1>3
<1>5. 2 * s.taken + 2 <= delivered'[p]
  BY <1>2, <1>3, <1>4 DEF Within
<1>6. delivered'[p] <= Limit(p, Begun) /\ delivered'[p] \in Nat
  BY <1>0, <1>3
<1>7. p \notin Begun => s.taken = 0
  <2>1. SUFFICES ASSUME p \notin Begun PROVE s.taken = 0
    OBVIOUS
  <2>2. Limit(p, Begun) = 2
    BY <2>1 DEF Limit
  <2> QED
    BY <2>2, <1>3, <1>5, <1>6
<1>8. s.taken = 0 => p \notin Begun
  <2>1. SUFFICES ASSUME s.taken = 0, p \in Begun PROVE FALSE
    OBVIOUS
  <2>2. s.rbio[1].from = p /\ s.rbio[1].unit = 1
    BY <2>1, <1>3, <1>4
  <2>3. s.rbio[1].unit >= 3
    BY <2>1, <2>2, <1>2, <1>4 DEF Late
  <2> QED
    BY <2>2, <2>3
<1>9. ASSUME s.taken # 0 PROVE p = tcp_handle /\ ssl.peer = tcp_handle /\ tcp_handle \in Begun
  <2>1. p = ssl.peer /\ ssl.taken >= 1
    BY <1>9, <1>1, <1>3
  <2>2. p \in Begun
    BY <1>7, <1>9
  <2> QED
    BY <2>1, <2>2, <1>0 DEF Paired
<1>10. ASSUME s.taken >= 2 PROVE s.taken - 1 \in 1 .. Len(records[p])
  <2>1. p \in Begun /\ records[p] \in Seq(Loads)
    BY <1>10, <1>0, <1>3, <1>7
  <2>2. delivered'[p] <= 2 * (2 + Len(records[p])) /\ Len(records[p]) \in Nat
    BY <2>1, <1>6 DEF Limit
  <2> QED
    BY <2>2, <1>10, <1>3, <1>5, <1>6
<1>11. Exists(s)
  <2>1. SUFFICES ASSUME s.taken >= 2
                 PROVE  s.peer \in Connections /\ s.taken - 1 \in 1 .. Len(records[s.peer])
    BY DEF Exists
  <2>2. s.peer = p
    BY <2>1, <1>3
  <2> QED
    BY <2>1, <2>2, <1>3, <1>10
<1> QED
  BY <1>1, <1>3, <1>5, <1>8, <1>9, <1>11 DEF s, p

\* When a read ends at most one record, at most three units wait.
LEMMA OneRecordEnds ==
    ASSUME NEW k \in Nat, NEW l \in Nat, l <= 1, NEW n \in Nat,
           ~ ((2 * k + l + n) \div 2 > (2 * k + l) \div 2 + 1)
    PROVE  l + n <= 3
<1>1. (2 * k + l) \div 2 = k
  BY SMT
<1>2. SUFFICES ASSUME l + n >= 4 PROVE FALSE
  OBVIOUS
<1>3. (2 * k + l + n) \div 2 >= k + 2
  BY <1>2, SMT
<1> QED
  BY <1>1, <1>3, SMT

\* A session that fails on nothing it was fed holds less than a record after
\* the call, if it did before and the read ended at most one.
LEMMA StaysShort ==
    ASSUME SessionInv, NEW c \in Connections, NEW n \in Nat, Reads(c, n),
           Active(ssl'), Peer(ssl') \notin glued', FitsBuffer(Peer(ssl'))
    PROVE  Short(ssl', delivered')
<1> DEFINE s == FeedBytes(ssl, c, n)
           l == Len(ssl.rbio)
<1>0. /\ ssl \in Sessions /\ delivered \in [Connections -> Nat] /\ ssl' = Progress(s)
      /\ records \in [Connections -> Seq(Loads)] /\ tcp_handle \in Connections
      /\ delivered' = [delivered EXCEPT ![c] = @ + n] /\ Rest(ssl)
      /\ glued' = IF delivered'[c] \div 2 > delivered[c] \div 2 + 1 THEN glued \cup {c} ELSE glued
      /\ ShortInv
  BY DEF SessionInv, Reads, PendingInv
<1>1. /\ s \in Sessions /\ s.peer = ssl.peer /\ s.taken = ssl.taken /\ s.failed = ssl.failed
      /\ s.pending = ssl.pending
      /\ Len(s.rbio) = l + n
      /\ \A i \in 1 .. l : s.rbio[i] = ssl.rbio[i]
      /\ \A i \in l + 1 .. l + n : s.rbio[i].from = c /\ s.rbio[i].unit = delivered[c] + (i - l)
  BY <1>0, FeedAppends
<1>2. Exists(s) /\ (HasRecord(s) /\ ssl.taken >= 1 => Peer(s) = ssl.peer)
  <2>1. HasRecord(s) => Exists(s)
    BY TakenRecord
  <2> QED
    BY <2>1, <1>1, RecordInFront DEF Exists
<1> HIDE DEF s
<1>3. /\ l \in Nat /\ ssl.taken \in Nat /\ ssl.pending \in Nat /\ Len(s.rbio) \in Nat
      /\ \A i \in 1 .. l : ssl.rbio[i].from \in Connections
      /\ delivered[c] \in Nat
  BY <1>0, <1>1, Fields DEF l
<1> HIDE DEF l
<1>4. /\ s.pending = 0 /\ HasRecord(s) => Peer(ssl') = Peer(s) /\ ssl'.failed = s.failed
      /\ s.pending > 0 \/ ~ HasRecord(s) => Peer(ssl') = Peer(s)
  <2>1. ASSUME s.pending = 0, HasRecord(s) PROVE Peer(ssl') = Peer(s) /\ ssl'.failed = s.failed
    <3>1. ssl' = TakeRecord(s)
      BY <2>1, <1>0 DEF Progress, HasRecord
    <3>2. ssl'.peer = Peer(s) /\ ssl'.taken = s.taken + 1 /\ ssl'.failed = s.failed
      BY <3>1, <2>1, <1>0, <1>1, <1>2, TakeShifts
    <3>3. ~ (ssl'.taken = 0)
      BY <3>2, <1>1, <1>3
    <3> QED
      BY <3>2, <3>3 DEF Peer
  <2>2. ASSUME s.pending > 0 \/ ~ HasRecord(s) PROVE Peer(ssl') = Peer(s)
    <3>1. ssl'.peer = s.peer /\ ssl'.taken = s.taken /\ ssl'.rbio = s.rbio
      BY <2>2, <1>0, <1>1, ProgressQuiet
    <3> QED
      BY <3>1 DEF Peer
  <2> QED
    BY <2>1, <2>2
<1>5. Peer(ssl') = Peer(s)
  BY <1>1, <1>3, <1>4
<1>6. ~ ssl'.failed /\ Peer(s) \notin glued' /\ FitsBuffer(Peer(s))
  BY <1>5 DEF Active
<1>7. Peer(s) \notin glued
  BY <1>0, <1>6
<1>8. ~ s.failed
  BY <1>0, <1>1, <1>3, <1>4, <1>6, ProgressQuiet
<1>9. ASSUME Active(ssl) PROVE Peer(s) = Peer(ssl) /\ Short(ssl, delivered)
  <2>1. Peer(s) = Peer(ssl)
    <3>1. CASE ssl.taken = 0
      <4>1. l > 0 /\ 1 \in 1 .. l /\ Len(s.rbio) > 0
        BY <3>1, <1>9, <1>1, <1>3 DEF Active, l
      <4>2. s.rbio[1] = ssl.rbio[1] /\ s.taken = 0
        BY <3>1, <4>1, <1>1
      <4>3. Peer(s) = s.rbio[1].from /\ Peer(ssl) = ssl.rbio[1].from
        BY <4>1, <4>2, <3>1 DEF Peer, l
      <4> QED
        BY <4>2, <4>3
    <3>2. CASE ssl.taken # 0
      BY <3>2, <1>1 DEF Peer
    <3> QED
      BY <3>1, <3>2
  <2> QED
    BY <2>1, <1>0, <1>6, <1>7, <1>9 DEF ShortInv
<1>10. ASSUME ~ Active(ssl) PROVE ssl.taken = 0 /\ l = 0
  BY <1>10, <1>1, <1>3, <1>8 DEF Active, l
<1>11. s.pending = 0 /\ l <= 1
  <2>1. CASE Active(ssl)
    BY <2>1, <1>1, <1>9 DEF Short, l
  <2>2. CASE ~ Active(ssl)
    BY <2>2, <1>0, <1>1, <1>3, <1>10 DEF Rest
  <2> QED
    BY <2>1, <2>2
<1>12. ~ HasGarbage(s)
  <2>1. CASE HasRecord(s)
    BY <2>1 DEF HasRecord
  <2>2. CASE ~ HasRecord(s)
    BY <2>2, <1>0, <1>1, <1>6, <1>11, ProgressQuiet
  <2> QED
    BY <2>1, <2>2
<1>13. ASSUME n # 0
       PROVE  c = Peer(s) /\ delivered[c] = 2 * ssl.taken + l
  <2>1. PICK j \in 1 .. 2 : j = l + 1
    BY <1>3, <1>11
  <2>2. j <= Len(s.rbio) /\ j \in l + 1 .. l + n
    BY <1>13, <2>1, <1>1, <1>3
  <2>3. s.rbio[j].from = c /\ s.rbio[j].unit = delivered[c] + (j - l)
    BY <2>2, <1>1
  <2>4. s.rbio[j] = Expected(s, j)
    BY <2>1, <2>2, <1>12 DEF HasGarbage
  <2>5. s.rbio[j].from = Peer(s) /\ s.rbio[j].unit = 2 * s.taken + j
    BY <2>4 DEF Expected
  <2>6. c = Peer(s)
    BY <2>3, <2>5
  <2>7. delivered[c] + (j - l) = 2 * ssl.taken + j
    BY <2>3, <2>5, <1>1
  <2> QED
    BY <2>1, <2>6, <2>7, <1>3
<1>14. l + n <= 3
  <2>1. CASE n = 0
    BY <2>1, <1>3, <1>11
  <2>2. CASE n # 0
    <3>1. c = Peer(s) /\ delivered[c] = 2 * ssl.taken + l /\ delivered'[c] = 2 * ssl.taken + l + n
      BY <2>2, <1>0, <1>3, <1>13
    <3>2. ~ (delivered'[c] \div 2 > delivered[c] \div 2 + 1)
      BY <3>1, <1>0, <1>6
    <3> QED
      BY <3>1, <3>2, <1>3, <1>11, OneRecordEnds
  <2> QED
    BY <2>1, <2>2
<1>15. \A i \in 1 .. Len(s.rbio) : s.rbio[i].from = Peer(s)
  <2> TAKE i \in 1 .. Len(s.rbio)
  <2>1. i \in 1 .. l \/ (i \in l + 1 .. l + n /\ n # 0)
    BY <1>1, <1>3
  <2>2. CASE i \in 1 .. l
    <3>1. l > 0
      BY <2>2, <1>3
    <3>2. Active(ssl)
      BY <3>1, <1>3, <1>10
    <3> QED
      BY <2>2, <3>2, <1>1, <1>9 DEF Short, l
  <2>3. CASE i \in l + 1 .. l + n /\ n # 0
    BY <2>3, <1>1, <1>13
  <2> QED
    BY <2>1, <2>2, <2>3
<1>16. ASSUME s.taken > 0 \/ Len(s.rbio) > 0
       PROVE  2 * s.taken + Len(s.rbio) = delivered'[Peer(s)]
  <2>1. CASE n # 0
    <3>1. delivered'[c] = delivered[c] + n
      BY <1>0
    <3> QED
      BY <3>1, <2>1, <1>1, <1>3, <1>13
  <2>2. CASE n = 0
    <3>1. Active(ssl)
      BY <2>2, <1>1, <1>3, <1>8, <1>16 DEF Active, l
    <3>2. delivered' = delivered
      BY <2>2, <1>0, <1>3
    <3>3. 2 * ssl.taken + l = delivered[Peer(s)]
      BY <3>1, <1>9 DEF Short, l
    <3> QED
      BY <3>2, <3>3, <2>2, <1>1, <1>3
  <2> QED
    BY <2>1, <2>2
<1>17. CASE HasRecord(s)
  <2> DEFINE t == TakeRecord(s)
  <2>1. ssl' = t
    BY <1>0, <1>11, <1>12, <1>17 DEF Progress
  <2>2. /\ t.peer = Peer(s) /\ t.taken = s.taken + 1
        /\ IF s.taken < 2 THEN t.pending = 0
           ELSE t.pending = records[s.peer][s.taken - 1] - 1
        /\ Len(t.rbio) = Len(s.rbio) - 2
        /\ \A i \in 1 .. Len(s.rbio) - 2 : t.rbio[i] = s.rbio[i + 2]
    BY <1>0, <1>1, <1>2, <1>17, TakeShifts
  <2>3. Len(s.rbio) >= 2
    BY <1>17 DEF HasRecord
  <2> HIDE DEF t
  <2>4. t.pending = 0
    <3>1. CASE s.taken < 2
      BY <3>1, <2>2
    <3>2. CASE ~ (s.taken < 2)
      <4>1. s.peer \in Connections /\ s.taken - 1 \in 1 .. Len(records[s.peer]) /\ Peer(s) = s.peer
        BY <3>2, <1>1, <1>2, <1>3, <1>17 DEF Exists
      <4>2. s.taken - 1 \in DOMAIN records[s.peer]
        BY <4>1, <1>0
      <4>3. records[s.peer][s.taken - 1] = 1
        BY <4>1, <4>2, <1>6 DEF FitsBuffer
      <4> QED
        BY <4>3, <3>2, <2>2
    <3> QED
      BY <3>1, <3>2
  <2>5. Len(t.rbio) <= 1
    BY <2>2, <2>3, <1>1, <1>3, <1>14
  <2>6. Peer(t) = Peer(s)
    BY <2>1, <1>5
  <2>7. ASSUME NEW i \in 1 .. Len(t.rbio) PROVE t.rbio[i].from = Peer(t)
    <3>1. i \in 1 .. Len(s.rbio) - 2 /\ i + 2 \in 1 .. Len(s.rbio)
      BY <2>2, <2>3, <1>3
    <3> QED
      BY <3>1, <2>2, <2>6, <1>15
  <2>8. 2 * t.taken + Len(t.rbio) = delivered'[Peer(t)]
    <3>1. 2 * s.taken + Len(s.rbio) = delivered'[Peer(s)]
      BY <2>3, <1>3, <1>16
    <3> QED
      BY <3>1, <2>2, <2>3, <2>6, <1>1, <1>3
  <2> QED
    BY <2>1, <2>4, <2>5, <2>7, <2>8 DEF Short
<1>18. CASE ~ HasRecord(s)
  <2>1. ssl' = s
    BY <1>0, <1>11, <1>12, <1>18 DEF Progress
  <2>2. Len(s.rbio) <= 1
    BY <1>3, <1>12, <1>18 DEF HasRecord
  <2>3. s.taken > 0 \/ Len(s.rbio) > 0
    BY <2>1 DEF Active
  <2> QED
    BY <2>1, <2>2, <2>3, <1>11, <1>15, <1>16 DEF Short
<1> QED
  BY <1>17, <1>18

\* SSL_accept or SSL_read on the chunk keeps what is known of the session.
LEMMA ReadSession ==
    ASSUME SessionInv, NEW c \in Connections, NEW n \in Nat, Reads(c, n)
    PROVE  ssl' \in Sessions /\ StreamInv' /\ HelloInv' /\ PureInv' /\ ShortInv' /\ PendingInv'
<1> DEFINE s == FeedBytes(ssl, c, n)
           t == Progress(s)
           h == tcp_handle
           b == Begun
<1>0. /\ ssl \in Sessions /\ delivered \in [Connections -> Nat] /\ ssl' = t
      /\ records \in [Connections -> Seq(Loads)] /\ h \in Connections
      /\ delivered' = [delivered EXCEPT ![c] = @ + n] /\ delivered[c] + n <= Limit(c, b)
      /\ Rest(ssl) /\ Paired(ssl, b, h) /\ Spoke(ssl, delivered) /\ tcp_handle' = h /\ records' = records
      /\ \A d \in Connections : delivered[d] <= Limit(d, b) /\ (d \in b => delivered[d] >= 2)
      /\ Begun' = IF ssl.taken = 0 /\ t.taken = 1 /\ t.peer = h THEN b \cup {h} ELSE b
  BY DEF SessionInv, Reads, PendingInv, StreamInv, HelloInv
<1>1. /\ s \in Sessions /\ s.peer = ssl.peer /\ s.taken = ssl.taken /\ s.failed = ssl.failed
      /\ s.pending = ssl.pending
  BY <1>0, FeedAppends
<1>2. /\ Within(s, delivered') /\ Late(s, b)
      /\ Pure(s, h) => Faithful(s, delivered'[h])
  BY FedSession
<1>3. HasRecord(s) => /\ Exists(s) /\ 2 * ssl.taken + 2 <= delivered'[Peer(s)]
                      /\ IF ssl.taken = 0 THEN Peer(s) \notin b
                         ELSE Peer(s) = h /\ ssl.peer = h /\ h \in b
  BY TakenRecord
<1>4. Exists(s)
  BY <1>3 DEF Exists
<1> HIDE DEF s, b, h
<1>5. /\ t \in Sessions
      /\ \A i \in 1 .. Len(t.rbio) : \E j \in 1 .. Len(s.rbio) : t.rbio[i] = s.rbio[j]
  BY <1>0, <1>1, <1>4, ProgressUnits
<1>6. Pure(t, h) => Faithful(t, delivered'[h])
  <2>1. delivered'[h] \in Nat
    BY <1>0
  <2>2. Pure(t, h) => Pure(s, h)
    BY <1>0, <1>1, <1>4, ProgressIsPure
  <2> QED
    BY <2>1, <2>2, <1>0, <1>1, <1>2, <1>4, ProgressIsFaithful
<1>7. \/ /\ s.pending = 0 /\ HasRecord(s) /\ t.peer = Peer(s) /\ t.taken = ssl.taken + 1
         /\ ~ t.failed /\ Peer(s) \in Connections
         /\ IF ssl.taken < 2 THEN t.pending = 0
            ELSE /\ records[ssl.peer][ssl.taken - 1] \in Nat
                 /\ t.pending = records[ssl.peer][ssl.taken - 1] - 1
      \/ /\ t.peer = ssl.peer /\ t.taken = ssl.taken
         /\ t.pending = IF ssl.pending > 0 THEN ssl.pending - 1 ELSE ssl.pending
         /\ t.failed => s.failed \/ ssl.pending = 0
  <2>1. CASE s.pending = 0 /\ HasRecord(s)
    <3>1. t = TakeRecord(s)
      BY <2>1 DEF Progress, HasRecord
    <3>2. ~ s.failed /\ Peer(s) \in Connections
      BY <2>1, <1>1, RecordInFront
    <3>3. /\ t.peer = Peer(s) /\ t.taken = s.taken + 1 /\ t.failed = s.failed
          /\ IF s.taken < 2 THEN t.pending = 0
             ELSE /\ records[s.peer][s.taken - 1] \in Nat
                  /\ t.pending = records[s.peer][s.taken - 1] - 1
      BY <3>1, <2>1, <1>0, <1>1, <1>4, TakeShifts
    <3>4. IF ssl.taken < 2 THEN t.pending = 0
          ELSE /\ records[ssl.peer][ssl.taken - 1] \in Nat
               /\ t.pending = records[ssl.peer][ssl.taken - 1] - 1
      BY <3>3, <1>1
    <3>5. t.taken = ssl.taken + 1 /\ ~ t.failed
      BY <3>2, <3>3, <1>1
    <3> QED
      BY <3>2, <3>3, <3>4, <3>5, <2>1
  <2>2. CASE s.pending > 0 \/ ~ HasRecord(s)
    BY <2>2, <1>1, ProgressQuiet
  <2>3. s.pending \in Nat
    BY <1>1, Fields
  <2> QED
    BY <2>1, <2>2, <2>3
<1>8. ssl.taken \in Nat /\ ssl.pending \in Nat
  BY <1>0, Fields
<1> HIDE DEF t
<1>9. Begun' = b \/ (Begun' = b \cup {h} /\ HasRecord(s) /\ Peer(s) = h /\ ssl.taken = 0)
  BY <1>0, <1>7, <1>8
<1>10. ASSUME NEW d \in Connections
       PROVE  delivered'[d] <= Limit(d, Begun') /\ (d \in Begun' => delivered'[d] >= 2)
  <2>1. delivered'[d] \in Nat /\ delivered[d] \in Nat /\ delivered[d] <= delivered'[d]
    BY <1>0
  <2>2. delivered'[d] <= Limit(d, b)
    BY <1>0
  <2>3. Len(records[d]) \in Nat
    BY <1>0
  <2>4. Limit(d, b) <= Limit(d, Begun')
    BY <2>3, <1>9 DEF Limit
  <2>5. Limit(d, b) \in Nat /\ Limit(d, Begun') \in Nat
    BY <2>3 DEF Limit
  <2>6. ASSUME d \in Begun' PROVE delivered'[d] >= 2
    <3>1. CASE d \in b
      <4>1. delivered[d] >= 2
        BY <3>1, <1>0
      <4> QED
        BY <4>1, <2>1
    <3>2. CASE d \notin b
      <4>1. HasRecord(s) /\ Peer(s) = d /\ ssl.taken = 0
        BY <3>2, <2>6, <1>9
      <4> QED
        BY <4>1, <1>3
    <3> QED
      BY <3>1, <3>2
  <2> QED
    BY <2>1, <2>2, <2>4, <2>5, <2>6
<1>11. Within(t, delivered')
  BY <1>2, <1>5 DEF Within
<1>12. StreamInv'
  <2>1. \A d \in Connections : Limit(d, Begun)' = Limit(d, Begun')
    BY <1>0 DEF Limit
  <2>2. Spoke(ssl, delivered)'
    <3>1. SUFFICES ASSUME t.taken >= 1 PROVE delivered'[t.peer] >= 2
      BY <1>0 DEF Spoke
    <3>2. CASE HasRecord(s) /\ t.peer = Peer(s) /\ Peer(s) \in Connections
      <4>1. 2 * ssl.taken + 2 <= delivered'[t.peer] /\ delivered'[t.peer] \in Nat
        BY <3>2, <1>0, <1>3
      <4> QED
        BY <4>1, <1>8
    <3>3. CASE t.peer = ssl.peer /\ t.taken = ssl.taken
      <4>1. ssl.peer \in Connections /\ delivered[ssl.peer] >= 2
        BY <3>1, <3>3, <1>0 DEF Paired, Spoke
      <4>2. delivered'[ssl.peer] >= delivered[ssl.peer] /\ delivered'[ssl.peer] \in Nat
            /\ delivered[ssl.peer] \in Nat
        BY <4>1, <1>0
      <4> QED
        BY <4>1, <4>2, <3>3
    <3> QED
      BY <3>2, <3>3, <1>7
  <2> QED
    BY <2>1, <2>2, <1>0, <1>10, <1>11 DEF StreamInv, Within
<1>13. Paired(t, Begun', h)
  <2>1. SUFFICES ASSUME t.taken >= 1
                 PROVE  /\ t.peer \in Connections
                        /\ IF t.peer = h THEN t.peer \in Begun' ELSE t.peer \notin Begun' /\ t.taken = 1
    BY DEF Paired
  <2>2. CASE HasRecord(s) /\ t.peer = Peer(s) /\ t.taken = ssl.taken + 1 /\ Peer(s) \in Connections
    <3>1. CASE ssl.taken = 0
      <4>1. Peer(s) \notin b /\ t.taken = 1
        BY <2>2, <3>1, <1>3
      <4> QED
        BY <4>1, <2>2, <3>1, <1>0
    <3>2. CASE ssl.taken # 0
      BY <2>2, <3>2, <1>0, <1>3
    <3> QED
      BY <3>1, <3>2
  <2>3. CASE t.peer = ssl.peer /\ t.taken = ssl.taken
    <3>1. Begun' = b
      BY <2>1, <2>3, <1>0
    <3> QED
      BY <2>1, <2>3, <3>1, <1>0 DEF Paired
  <2> QED
    BY <2>2, <2>3, <1>7
<1>14. Late(t, Begun')
  <2> SUFFICES ASSUME NEW i \in 1 .. Len(t.rbio), t.rbio[i].from \in Begun',
                      ~ (t.taken >= 1 /\ t.peer = t.rbio[i].from)
               PROVE  t.rbio[i].unit >= 3
    BY DEF Late
  <2>1. PICK j \in 1 .. Len(s.rbio) : t.rbio[i] = s.rbio[j]
    BY <1>5
  <2>2. t.rbio[i].from \in b /\ ~ (s.taken >= 1 /\ s.peer = t.rbio[i].from)
    <3>1. CASE HasRecord(s) /\ t.peer = Peer(s) /\ t.taken = ssl.taken + 1
      <4>1. t.rbio[i].from # Peer(s)
        BY <3>1, <1>8
      <4>2. s.taken >= 1 => Peer(s) = s.peer
        BY <3>1, <1>1, RecordInFront
      <4> QED
        BY <4>1, <4>2, <1>9
    <3>2. CASE t.peer = ssl.peer /\ t.taken = ssl.taken
      <4>1. Begun' = b
        BY <3>2, <1>0, <1>8
      <4> QED
        BY <3>2, <4>1, <1>1
    <3> QED
      BY <3>1, <3>2, <1>7
  <2> QED
    BY <2>1, <2>2, <1>2 DEF Late
<1>15. HelloInv'
  <2>1. Paired(ssl', Begun', tcp_handle') /\ Late(ssl', Begun')
    BY <1>0, <1>13, <1>14
  <2> QED
    BY <2>1 DEF HelloInv, Paired, Late
<1>16. PureInv'
  <2>1. Pure(ssl', tcp_handle') => Faithful(ssl', delivered'[tcp_handle'])
    BY <1>0, <1>6
  <2> QED
    BY <2>1 DEF PureInv, Pure, Faithful
<1>17. ShortInv'
  <2>1. Active(ssl') /\ Peer(ssl') \notin glued' /\ FitsBuffer(Peer(ssl')) => Short(ssl', delivered')
    BY StaysShort
  <2> QED
    BY <2>1, <1>0 DEF ShortInv, Active, Peer, FitsBuffer, Short
<1>18. Rest(t)
  <2>1. CASE /\ s.pending = 0 /\ HasRecord(s) /\ t.peer = Peer(s) /\ t.taken = ssl.taken + 1
             /\ ~ t.failed
             /\ IF ssl.taken < 2 THEN t.pending = 0
                ELSE /\ records[ssl.peer][ssl.taken - 1] \in Nat
                     /\ t.pending = records[ssl.peer][ssl.taken - 1] - 1
    <3>1. CASE ssl.taken < 2
      <4>1. ~ (t.taken >= 3) /\ ~ (t.pending > 0)
        BY <2>1, <3>1, <1>8
      <4> QED
        BY <4>1 DEF Rest
    <3>2. CASE ~ (ssl.taken < 2)
      <4>1. ssl.taken >= 2 /\ t.taken - 2 = ssl.taken - 1 /\ t.taken >= 3
        BY <2>1, <3>2, <1>8
      <4>2. t.peer = ssl.peer
        BY <2>1, <3>2, <1>3, <1>8
      <4>3. ssl.taken - 1 \in 1 .. Len(records[ssl.peer])
        BY <2>1, <4>1, <1>1, <1>4 DEF Exists
      <4>4. t.pending < records[ssl.peer][ssl.taken - 1]
        BY <2>1, <3>2
      <4> QED
        BY <2>1, <4>1, <4>2, <4>3, <4>4 DEF Rest
    <3> QED
      BY <3>1, <3>2
  <2>2. CASE /\ t.peer = ssl.peer /\ t.taken = ssl.taken
             /\ t.pending = IF ssl.pending > 0 THEN ssl.pending - 1 ELSE ssl.pending
             /\ t.failed => s.failed \/ ssl.pending = 0
    <3>1. ssl.taken >= 3 => ssl.taken - 2 \in 1 .. Len(records[ssl.peer])
      BY <1>0 DEF Rest
    <3>2. ASSUME t.pending > 0
          PROVE  /\ t.taken >= 3 /\ ~ t.failed
                 /\ t.pending < records[t.peer][t.taken - 2]
      <4>1. ssl.pending > 0 /\ t.pending = ssl.pending - 1
        BY <2>2, <3>2, <1>8
      <4>2. ssl.taken >= 3 /\ ~ ssl.failed /\ ssl.pending < records[ssl.peer][ssl.taken - 2]
        BY <4>1, <1>0 DEF Rest
      <4>3. records[ssl.peer][ssl.taken - 2] \in Nat
        <5>1. ssl.peer \in Connections
          BY <4>2, <1>0, <1>8 DEF Paired
        <5>2. records[ssl.peer] \in Seq(Loads) /\ ssl.taken - 2 \in 1 .. Len(records[ssl.peer])
          BY <5>1, <4>2, <3>1, <1>0
        <5>3. records[ssl.peer][ssl.taken - 2] \in Loads
          BY <5>2
        <5> QED
          BY <5>3 DEF Loads, ReadBuffer, RecordSize
      <4>4. ~ t.failed
        BY <2>2, <4>1, <4>2, <1>1, <1>8
      <4>5. t.pending < records[ssl.peer][ssl.taken - 2]
        BY <4>1, <4>2, <4>3, <1>8
      <4> QED
        BY <2>2, <4>2, <4>4, <4>5
    <3> QED
      BY <2>2, <3>1, <3>2 DEF Rest
  <2> QED
    BY <2>1, <2>2, <1>7
<1>19. PendingInv'
  BY <1>0, <1>18 DEF PendingInv, Rest
<1> QED
  BY <1>0, <1>5, <1>12, <1>15, <1>16, <1>17, <1>19

-----------------------------------------------------------------------------
(* The steps *)

\* TypeOK speaks of the session's record set.
LEMMA SessionTyped ==
    TypeOK => ssl \in Sessions
BY DEF TypeOK, Sessions, Message

\* The three ways through on_read do the same to the session, and no socket
\* becomes idle or stops being it.
LEMMA ReadStep ==
    ASSUME ServerInv, NEW c \in Connections, NEW n \in Nat, on_read(c, n)
    PROVE  /\ SessionInv /\ Reads(c, n)
           /\ ssl' \in Sessions /\ OwnerInv'
           /\ StreamInv' /\ HelloInv' /\ PureInv' /\ ShortInv' /\ PendingInv'
           /\ conn' = conn \/ conn' = [conn EXCEPT ![tcp_handle] = "closed"]
           /\ delivered' \in [Connections -> Nat] /\ glued' \subseteq Connections
<1>1. /\ ssl \in Sessions /\ delivered \in [Connections -> Nat] /\ glued \subseteq Connections
      /\ conn \in [Connections -> {"idle", "open", "closed"}]
      /\ records \in [Connections -> Seq(Loads)]
      /\ answers \in [Connections -> SUBSET {"hello", "finished", "stray", "response"}]
  BY SessionTyped DEF ServerInv, TypeOK
<1>2. OwnerInv /\ StreamInv /\ HelloInv /\ PureInv /\ ShortInv /\ PendingInv
  BY DEF ServerInv
<1>3. /\ conn[c] = "open" /\ n <= Sendable(c)
      /\ delivered' = [delivered EXCEPT ![c] = @ + n]
      /\ glued' = IF delivered'[c] \div 2 > delivered[c] \div 2 + 1 THEN glued \cup {c} ELSE glued
      /\ UNCHANGED <<records, tcp_handle>>
      /\ OnReadHandshake(c, n) \/ OnReadError(c, n) \/ OnReadRequest(c, n)
  BY DEF on_read
<1>4. tcp_handle \in Connections
  BY <1>2, <1>3 DEF OwnerInv
<1>5. ssl' = Progress(FeedBytes(ssl, c, n))
  BY <1>3 DEF OnReadHandshake, OnReadError, OnReadRequest
<1>6. conn' = conn \/ conn' = [conn EXCEPT ![tcp_handle] = "closed"]
  BY <1>3 DEF OnReadHandshake, OnReadError, OnReadRequest, ForwardRequests
<1>7. delivered[c] + n <= Limit(c, Begun)
  <2>1. Len(records[c]) \in Nat /\ delivered[c] \in Nat
    BY <1>1
  <2>2. c \in Begun <=> "hello" \in answers[c]
    BY DEF Begun
  <2>3. Sendable(c) = Limit(c, Begun) - delivered[c]
    BY <2>2 DEF Sendable, Limit
  <2>4. Limit(c, Begun) \in Nat
    BY <2>1 DEF Limit
  <2> QED
    BY <1>3, <2>1, <2>3, <2>4
<1>8. Begun' = IF ssl.taken = 0 /\ ssl'.taken = 1 /\ ssl'.peer = tcp_handle
               THEN Begun \cup {tcp_handle} ELSE Begun
  <2>1. ssl.taken \in Nat
    BY <1>1, Fields
  <2>2. ssl'.taken = ssl.taken \/ (ssl'.taken = ssl.taken + 1 /\ ssl'.taken > ssl.taken)
    <3> DEFINE s == FeedBytes(ssl, c, n)
    <3>1. s \in Sessions /\ s.taken = ssl.taken
      BY <1>1, FeedAppends
    <3> HIDE DEF s
    <3>2. \/ Progress(s) = TakePending(s) \/ Progress(s) = Fail(s) \/ Progress(s) = s
          \/ Progress(s) = TakeRecord(s)
      BY <3>1, ProgressCases
    <3>3. TakePending(s).taken = s.taken /\ Fail(s).taken = s.taken /\ TakeRecord(s).taken = s.taken + 1
      BY DEF TakePending, Fail, TakeRecord, Session
    <3> QED
      BY <3>1, <3>2, <3>3, <1>5, <2>1 DEF s
  <2>3. CASE ssl.taken = 0 /\ ssl'.taken = 1 /\ ssl'.peer = tcp_handle
    <3>1. ~ InitFinished(ssl) /\ ssl'.taken > ssl.taken
      BY <2>3 DEF InitFinished
    <3>2. answers' = [answers EXCEPT ![tcp_handle] = @ \cup {Answer(ssl', tcp_handle)}]
      BY <3>1, <1>3 DEF OnReadHandshake, OnReadError, OnReadRequest
    <3>3. Answer(ssl', tcp_handle) = "hello"
      BY <2>3 DEF Answer
    <3>4. \A d \in Connections : "hello" \in answers'[d] <=> d = tcp_handle \/ "hello" \in answers[d]
      BY <3>2, <3>3, <1>1, <1>4
    <3> QED
      BY <3>4, <2>3, <1>4 DEF Begun
  <2>4. CASE ~ (ssl.taken = 0 /\ ssl'.taken = 1 /\ ssl'.peer = tcp_handle)
    <3>1. \/ answers' = answers
          \/ /\ answers' = [answers EXCEPT ![tcp_handle] = @ \cup {Answer(ssl', tcp_handle)}]
             /\ ssl'.taken > ssl.taken
      BY <1>3 DEF OnReadHandshake, OnReadError, OnReadRequest
    <3>2. CASE answers' = answers
      BY <3>2, <2>4 DEF Begun
    <3>3. CASE /\ answers' = [answers EXCEPT ![tcp_handle] = @ \cup {Answer(ssl', tcp_handle)}]
               /\ ssl'.taken > ssl.taken
      <4>1. ssl'.taken = 1 => ssl.taken = 0
        BY <3>3, <2>1, <2>2
      <4>2. ~ (ssl'.peer = tcp_handle /\ ssl'.taken = 1)
        BY <4>1, <2>4
      <4>3. Answer(ssl', tcp_handle) # "hello"
        BY <4>2 DEF Answer
      <4>4. \A d \in Connections : "hello" \in answers'[d] <=> "hello" \in answers[d]
        BY <3>3, <4>3, <1>1, <1>4
      <4> QED
        BY <4>4, <2>4 DEF Begun
    <3> QED
      BY <3>1, <3>2, <3>3
  <2> QED
    BY <2>3, <2>4
<1>9. SessionInv
  BY <1>1, <1>2, <1>4 DEF SessionInv
<1>10. Reads(c, n)
  BY <1>3, <1>5, <1>7, <1>8 DEF Reads
<1>11. ssl' \in Sessions /\ StreamInv' /\ HelloInv' /\ PureInv' /\ ShortInv' /\ PendingInv'
  BY <1>9, <1>10, ReadSession
<1>12. OwnerInv'
  <2>1. \A d \in Connections : conn'[d] = "idle" <=> conn[d] = "idle"
    BY <1>1, <1>2, <1>4, <1>6 DEF OwnerInv
  <2>2. \A d \in Connections : conn[d] = "idle" => delivered'[d] = delivered[d]
    BY <1>1, <1>3
  <2> QED
    BY <2>1, <2>2, <1>2, <1>3, <1>4 DEF OwnerInv
<1>13. delivered' \in [Connections -> Nat] /\ glued' \subseteq Connections
  BY <1>1, <1>3
<1> QED
  BY <1>6, <1>9, <1>10, <1>11, <1>12, <1>13

\* A load that SSL_read returns is the next one of the connection whose socket
\* the client holds.
LEMMA LoadReturned ==
    ASSUME ServerInv, NEW c \in Connections, NEW n \in Nat, on_read(c, n), OnReadRequest(c, n)
    PROVE  /\ tcp_handle \in Begun /\ Begun' = Begun
           /\ ssl.peer = tcp_handle /\ ssl'.peer = tcp_handle
           /\ ssl.taken \in Nat /\ ssl.taken >= 2 /\ ssl.pending \in Nat /\ ssl'.pending \in Nat
           /\ ssl'.taken \in Nat /\ ssl'.taken >= 3
           /\ records[tcp_handle][ssl'.taken - 2] \in Nat
           /\ ssl'.pending < records[tcp_handle][ssl'.taken - 2]
           /\ \/ ssl.pending > 0 /\ ssl'.taken = ssl.taken /\ ssl'.pending = ssl.pending - 1
              \/ /\ ssl.pending = 0 /\ ssl'.taken = ssl.taken + 1
                 /\ ssl'.pending = records[tcp_handle][ssl.taken - 1] - 1
<1> DEFINE s == FeedBytes(ssl, c, n)
           h == tcp_handle
<1>1. /\ SessionInv /\ Reads(c, n) /\ ssl' \in Sessions /\ PendingInv'
  BY ReadStep
<1>2. /\ ssl \in Sessions /\ delivered \in [Connections -> Nat] /\ ssl' = Progress(s)
      /\ records \in [Connections -> Seq(Loads)] /\ records' = records /\ h \in Connections
      /\ Paired(ssl, Begun, h)
      /\ Begun' = IF ssl.taken = 0 /\ ssl'.taken = 1 /\ ssl'.peer = h THEN Begun \cup {h} ELSE Begun
  BY <1>1 DEF SessionInv, Reads, HelloInv
<1>3. InitFinished(ssl) /\ HasLoad(s)
  BY DEF OnReadRequest
<1>4. /\ ssl.taken \in Nat /\ ssl.pending \in Nat /\ ssl'.pending \in Nat /\ ssl'.taken \in Nat
      /\ ssl.taken >= 2
  BY <1>1, <1>2, <1>3, Fields DEF InitFinished
<1>5. ssl.peer = h /\ h \in Begun /\ Begun' = Begun
  BY <1>2, <1>4 DEF Paired
<1>6. s \in Sessions /\ s.peer = ssl.peer /\ s.taken = ssl.taken /\ s.pending = ssl.pending
  BY <1>2, FeedAppends
<1>7. HasRecord(s) => Exists(s)
  BY <1>1, TakenRecord
<1> HIDE DEF s
<1>8. /\ ssl'.peer = h /\ ssl'.taken >= 3
      /\ \/ ssl.pending > 0 /\ ssl'.taken = ssl.taken /\ ssl'.pending = ssl.pending - 1
         \/ /\ ssl.pending = 0 /\ ssl'.taken = ssl.taken + 1
            /\ ssl'.pending = records[h][ssl.taken - 1] - 1
  <2>1. CASE ssl.pending > 0
    <3>1. ssl'.peer = s.peer /\ ssl'.taken = s.taken /\ ssl'.pending = s.pending - 1
      BY <2>1, <1>2, <1>6, ProgressQuiet
    <3>2. ssl.taken >= 3
      BY <2>1, <1>1 DEF SessionInv, PendingInv, Rest
    <3> QED
      BY <2>1, <3>1, <3>2, <1>5, <1>6
  <2>2. CASE ~ (ssl.pending > 0)
    <3>1. HasRecord(s) /\ ssl.pending = 0
      BY <2>2, <1>3, <1>4, <1>6 DEF HasLoad
    <3>2. ssl' = TakeRecord(s) /\ Exists(s) /\ Peer(s) = s.peer
      BY <3>1, <1>2, <1>4, <1>6, <1>7, RecordInFront DEF Progress
    <3>3. /\ ssl'.peer = Peer(s) /\ ssl'.taken = s.taken + 1
          /\ IF s.taken < 2 THEN ssl'.pending = 0
             ELSE /\ records[s.peer][s.taken - 1] \in Nat
                  /\ ssl'.pending = records[s.peer][s.taken - 1] - 1
      <4>1. s \in Sessions /\ HasRecord(s) /\ Exists(s) /\ records \in [Connections -> Seq(Loads)]
        BY <3>1, <3>2, <1>2, <1>6
      <4> QED
        BY <4>1, <3>2, TakeShifts
    <3> QED
      BY <3>1, <3>2, <3>3, <1>4, <1>5, <1>6
  <2> QED
    BY <2>1, <2>2
<1>9. ssl'.taken - 2 \in 1 .. Len(records[h])
  BY <1>1, <1>2, <1>8 DEF PendingInv, Rest
<1>10. records[h][ssl'.taken - 2] \in Loads
  <2>1. records[h] \in Seq(Loads)
    BY <1>2
  <2> QED
    BY <2>1, <1>9
<1>11. records[h][ssl'.taken - 2] \in Nat /\ records[h][ssl'.taken - 2] >= 1
  BY <1>10 DEF Loads, ReadBuffer, RecordSize
<1>12. ssl'.pending < records[h][ssl'.taken - 2]
  <2>1. CASE ssl'.pending > 0
    BY <2>1, <1>1, <1>2, <1>8 DEF PendingInv, Rest
  <2>2. CASE ~ (ssl'.pending > 0)
    BY <2>2, <1>4, <1>11
  <2> QED
    BY <2>1, <2>2
<1> QED
  BY <1>4, <1>5, <1>8, <1>11, <1>12

\* ParseRequest goes on only where the pool has the blocks.
LEMMA ParseOutcome ==
    ASSUME NEW doc
    PROVE  /\ ParseRequest(doc) \in {"terminated", "undefined", "running"}
           /\ ParseRequest(doc) = "running" => ~ (pool < doc.blocks)
           /\ ParseRequest(doc) = "undefined" => pool < doc.blocks
BY DEF ParseRequest

\* The selections that are forwarded are finitely many.
LEMMA ForwardableFinite ==
    ASSUME NEW doc \in Documents
    PROVE  /\ doc.blocks \in Nat
           /\ IsFiniteSet(Forwardable(doc.selections))
           /\ \A i \in Forwardable(doc.selections) : doc.selections[i] \in Endpoints
<1>1. doc \in DocumentType
  BY ServerAssumption
<1>2. doc.blocks \in Nat /\ doc.selections \in Seq(Endpoints \cup {"other", "fragment"})
  BY <1>1 DEF DocumentType
<1> DEFINE sel == doc.selections
<1>3. DOMAIN sel = 1 .. Len(sel) /\ Len(sel) \in Nat
  BY <1>2
<1> HIDE DEF sel
<1>4. IsFiniteSet(1 .. Len(sel))
  BY <1>3, FS_Interval
<1>5. Forwardable(sel) \subseteq 1 .. Len(sel)
  BY <1>3 DEF Forwardable
<1>6. IsFiniteSet(Forwardable(sel))
  BY <1>4, <1>5, FS_Subset
<1>7. \A i \in Forwardable(sel) : sel[i] \in Endpoints
  <2> TAKE i \in Forwardable(sel)
  <2>1. i \in 1 .. i
    BY <1>3, <1>5
  <2> QED
    BY <2>1 DEF Forwardable
<1> QED
  BY <1>2, <1>6, <1>7 DEF sel

\* The new ClientRequests are resolving, and there are any only if a field was
\* noted.
LEMMA ForwardStep ==
    ASSUME TypeOK, NEW doc \in Documents, NEW refused, ForwardRequests(doc, refused),
           tcp_handle \in Connections
    PROVE  /\ fields' \subseteq Endpoints
           /\ forwards' \in Seq([state : ForwardStates, written : Nat])
           /\ conn' \in [Connections -> {"idle", "open", "closed"}]
           /\ process' \in {"terminated", process}
           /\ FieldsInv => FieldsInv'
           /\ OneRequestPerForward => OneRequestPerForward'
<1> DEFINE wanted == Forwardable(doc.selections)
           k == Cardinality(wanted \ refused)
           accepted == [i \in 1 .. k |-> Forward("resolving", 0)]
           F == [state : ForwardStates, written : Nat]
<1>1. /\ IsFiniteSet(wanted) /\ \A i \in wanted : doc.selections[i] \in Endpoints
  BY ForwardableFinite
<1>2. /\ refused \subseteq wanted
      /\ fields' = fields \cup {doc.selections[i] : i \in wanted}
      /\ forwards' = forwards \o accepted
      /\ conn' = IF refused = {} THEN conn ELSE [conn EXCEPT ![tcp_handle] = "closed"]
      /\ process' \in {"terminated", process}
  BY DEF ForwardRequests
<1>3. /\ fields \subseteq Endpoints /\ forwards \in Seq(F)
      /\ conn \in [Connections -> {"idle", "open", "closed"}]
  BY DEF TypeOK
<1> HIDE DEF wanted
<1>4. IsFiniteSet(wanted \ refused) /\ k \in Nat
  BY <1>1, FS_Difference, FS_CardinalityType
<1> HIDE DEF k
<1>5. accepted \in Seq(F) /\ Len(accepted) = k /\ \A i \in 1 .. k : accepted[i].state = "resolving"
  BY <1>4 DEF Forward, ForwardStates
<1> HIDE DEF accepted, F
<1>6. /\ forwards' \in Seq(F) /\ Len(forwards') = Len(forwards) + k
      /\ \A i \in 1 .. Len(forwards) : forwards'[i] = forwards[i]
      /\ \A i \in Len(forwards) + 1 .. Len(forwards) + k : forwards'[i] = accepted[i - Len(forwards)]
  BY <1>2, <1>3, <1>5, Joined
<1>7. Len(forwards) \in Nat
  BY <1>3
<1>8. ASSUME FieldsInv PROVE FieldsInv'
  <2>1. CASE k = 0
    BY <2>1, <1>2, <1>6, <1>7, <1>8 DEF FieldsInv
  <2>2. CASE k # 0
    <3>1. wanted \ refused # {}
      BY <2>2, FS_EmptySet DEF k
    <3>2. PICK i \in wanted : TRUE
      BY <3>1
    <3> QED
      BY <3>2, <1>2 DEF FieldsInv
  <2> QED
    BY <2>1, <2>2
<1>9. ASSUME OneRequestPerForward PROVE OneRequestPerForward'
  <2> SUFFICES ASSUME NEW i \in DOMAIN forwards', forwards'[i].state = "written"
               PROVE  forwards'[i].written = 1
    BY DEF OneRequestPerForward
  <2>1. i \in 1 .. Len(forwards) + k
    BY <1>6
  <2>2. CASE i <= Len(forwards)
    <3>1. i \in DOMAIN forwards /\ forwards'[i] = forwards[i]
      BY <2>1, <2>2, <1>3, <1>6, <1>7
    <3> QED
      BY <3>1, <1>9 DEF OneRequestPerForward
  <2>3. CASE i > Len(forwards)
    <3>1. i \in Len(forwards) + 1 .. Len(forwards) + k /\ i - Len(forwards) \in 1 .. k
      BY <2>1, <2>3, <1>4, <1>7
    <3> QED
      BY <3>1, <1>5, <1>6
  <2> QED
    BY <2>1, <2>2, <2>3, <1>7
<1> QED
  BY <1>1, <1>2, <1>3, <1>6, <1>8, <1>9 DEF F

\* The place of the j-th entry of a history p among those of its sender.
OrderedAt(p, j) ==
    LET earlier == {i \in 1 .. j - 1 : p[i].sender = p[j].sender}
    IN  IF earlier = {} THEN p[j].record = 1 /\ p[j].load = 1
        ELSE \E i \in earlier : (\A k \in earlier : k <= i) /\ Follows(p[j], p[i])

\* The entries of the history.
Parses == [sender : Connections, record : Nat, load : Nat, handle : Connections]

\* The history of parsed loads grows by the one that was expected.
LEMMA ParsedStep ==
    ASSUME ServerInv, NEW c \in Connections, NEW n \in Nat, on_read(c, n), OnReadRequest(c, n)
    PROVE  /\ parsed' \in Seq(Parses) /\ Len(parsed') = Len(parsed) + 1
           /\ RecordInv' /\ RequestsKeepTheirSender' /\ ParsedInOrder'
<1> DEFINE h == tcp_handle
           R == records[tcp_handle]
           q == LastLoad(ssl')
           l == Len(parsed)
<1>1. /\ h \in Begun /\ Begun' = Begun /\ ssl.peer = h /\ ssl'.peer = h
      /\ ssl.taken \in Nat /\ ssl.taken >= 2 /\ ssl.pending \in Nat /\ ssl'.pending \in Nat
      /\ ssl'.taken \in Nat /\ ssl'.taken >= 3
      /\ R[ssl'.taken - 2] \in Nat /\ ssl'.pending < R[ssl'.taken - 2]
      /\ \/ ssl.pending > 0 /\ ssl'.taken = ssl.taken /\ ssl'.pending = ssl.pending - 1
         \/ /\ ssl.pending = 0 /\ ssl'.taken = ssl.taken + 1
            /\ ssl'.pending = R[ssl.taken - 1] - 1
  BY LoadReturned
<1>2. h \in Connections /\ records' = records /\ tcp_handle' = h /\ parsed' = Append(parsed, q)
  BY <1>1 DEF OnReadRequest, on_read, Begun
<1>3. /\ q.sender = h /\ q.record = ssl'.taken - 2 /\ q.load = R[ssl'.taken - 2] - ssl'.pending
      /\ q.handle = h
      /\ q = [sender |-> h, record |-> ssl'.taken - 2, load |-> R[ssl'.taken - 2] - ssl'.pending,
              handle |-> h]
  BY <1>1 DEF LastLoad
<1> HIDE DEF q
<1>4. q \in Parses
  <2>1. R[ssl'.taken - 2] - ssl'.pending \in Nat /\ ssl'.taken - 2 \in Nat
    BY <1>1
  <2> QED
    BY <2>1, <1>2, <1>3 DEF Parses
<1>5. parsed \in Seq(Parses) /\ RecordInv /\ RequestsKeepTheirSender /\ ParsedInOrder
  BY DEF ServerInv, TypeOK, Parses
<1>6. /\ parsed' \in Seq(Parses) /\ Len(parsed') = l + 1 /\ l \in Nat
      /\ \A i \in 1 .. l : parsed'[i] = parsed[i]
      /\ parsed'[l + 1] = q /\ DOMAIN parsed = 1 .. l /\ DOMAIN parsed' = 1 .. l + 1
  BY <1>2, <1>4, <1>5
<1> HIDE DEF l
<1>7. \A i \in 1 .. l : parsed[i].sender \in Begun
  BY <1>5 DEF RecordInv, l
<1>8. RecordInv'
  <2>1. \A i \in 1 .. l + 1 : parsed'[i].sender \in Begun'
    <3> TAKE i \in 1 .. l + 1
    <3>1. i \in 1 .. l \/ i = l + 1
      BY <1>6
    <3> QED
      BY <3>1, <1>1, <1>3, <1>6, <1>7
  <2>2. ~ (ssl'.taken = 1 \/ ssl'.taken = 2)
    BY <1>1
  <2>3. PICK m \in Nat : m = Len(parsed')
    BY <1>6
  <2>4. /\ m \in 1 .. Len(parsed') /\ parsed'[m].sender = ssl'.peer
        /\ \A k \in m + 1 .. Len(parsed') : parsed'[k].sender # ssl'.peer
    BY <2>3, <1>1, <1>3, <1>6
  <2>5. /\ parsed'[m].record = ssl'.taken - 2
        /\ parsed'[m].load = records'[ssl'.peer][ssl'.taken - 2] - ssl'.pending
    BY <2>3, <1>1, <1>2, <1>3, <1>6
  <2>6. LastFor(m, ssl.peer)'
    BY <2>4 DEF LastFor
  <2> QED
    BY <2>1, <2>2, <2>4, <2>5, <2>6, <1>6 DEF RecordInv
<1>9. RequestsKeepTheirSender'
  <2> SUFFICES ASSUME NEW i \in 1 .. l + 1 PROVE parsed'[i].sender = parsed'[i].handle
    BY <1>6 DEF RequestsKeepTheirSender
  <2>1. CASE i = l + 1
    BY <2>1, <1>3, <1>6
  <2>2. CASE i # l + 1
    <3>1. i \in 1 .. l
      BY <2>2, <1>6
    <3> QED
      BY <3>1, <1>5, <1>6 DEF RequestsKeepTheirSender
  <2> QED
    BY <2>1, <2>2
<1>10. ASSUME NEW j \in 1 .. l PROVE OrderedAt(parsed', j)
  <2>1. /\ parsed'[j] = parsed[j] /\ \A i \in 1 .. j - 1 : i \in 1 .. l /\ parsed'[i] = parsed[i]
    BY <1>6
  <2> DEFINE e == {i \in 1 .. j - 1 : parsed[i].sender = parsed[j].sender}
  <2>2. {i \in 1 .. j - 1 : parsed'[i].sender = parsed'[j].sender} = e
    BY <2>1
  <2>3. IF e = {} THEN parsed[j].record = 1 /\ parsed[j].load = 1
        ELSE \E i \in e : (\A k \in e : k <= i) /\ Follows(parsed[j], parsed[i])
    BY <1>5, <1>6 DEF ParsedInOrder
  <2>4. \A i \in e : parsed'[i] = parsed[i]
    BY <2>1
  <2> HIDE DEF e
  <2>5. IF e = {} THEN parsed'[j].record = 1 /\ parsed'[j].load = 1
        ELSE \E i \in e : (\A k \in e : k <= i) /\ Follows(parsed'[j], parsed'[i])
    BY <2>1, <2>3, <2>4
  <2> QED
    BY <2>2, <2>5 DEF OrderedAt
<1>11. OrderedAt(parsed', l + 1)
  <2> DEFINE e == {i \in 1 .. (l + 1) - 1 : parsed'[i].sender = parsed'[l + 1].sender}
  <2>1. \A i : i \in e <=> i \in 1 .. l /\ parsed[i].sender = h
    BY <1>3, <1>6
  <2> HIDE DEF e
  <2>2. CASE ssl.taken = 2
    <3>1. NoneFor(h)
      BY <2>2, <1>1, <1>5 DEF RecordInv
    <3>2. e = {}
      BY <2>1, <3>1 DEF NoneFor, l
    <3>3. ssl.pending = 0
      <4>1. PendingInv
        BY DEF ServerInv
      <4> QED
        BY <2>2, <4>1, <1>1 DEF PendingInv, Rest
    <3>4. ssl'.taken = 3 /\ ssl'.pending = R[1] - 1
      BY <2>2, <3>3, <1>1
    <3>5. q.record = 1 /\ q.load = 1
      BY <3>4, <1>1, <1>3
    <3> QED
      BY <3>2, <3>5, <1>6 DEF OrderedAt, e
  <2>3. CASE ssl.taken # 2
    <3>1. ssl.taken >= 3
      BY <2>3, <1>1
    <3>2. PICK i \in 1 .. l : /\ LastFor(i, h) /\ parsed[i].record = ssl.taken - 2
                              /\ parsed[i].load = R[ssl.taken - 2] - ssl.pending
      BY <3>1, <1>1, <1>5 DEF RecordInv, l
    <3>3. i \in e /\ parsed'[i] = parsed[i] /\ parsed[i].sender = h
      BY <3>2, <2>1, <1>6 DEF LastFor
    <3>4. \A k \in e : k <= i
      <4> SUFFICES ASSUME NEW k \in e, ~ (k <= i) PROVE FALSE
        OBVIOUS
      <4>1. k \in 1 .. l /\ parsed[k].sender = h
        BY <2>1
      <4>2. k \in i + 1 .. l
        BY <4>1, <1>6
      <4> QED
        BY <4>1, <4>2, <3>2 DEF LastFor, l
    <3>5. R[ssl.taken - 2] \in Nat
      <4>1. SessionInv
        BY ReadStep
      <4>2. records \in [Connections -> Seq(Loads)] /\ Rest(ssl)
        BY <4>1 DEF SessionInv, PendingInv
      <4>3. R \in Seq(Loads) /\ ssl.taken - 2 \in 1 .. Len(R)
        BY <4>2, <3>1, <1>1, <1>2 DEF Rest
      <4>4. R[ssl.taken - 2] \in Loads
        BY <4>3
      <4> QED
        BY <4>4 DEF Loads, ReadBuffer, RecordSize
    <3>6. Follows(q, parsed[i])
      <4>1. CASE ssl.pending > 0 /\ ssl'.taken = ssl.taken /\ ssl'.pending = ssl.pending - 1
        <5>1. parsed[i].load < R[parsed[i].record]
          BY <4>1, <3>2, <3>5, <1>1
        <5>2. q.record = parsed[i].record /\ q.load = parsed[i].load + 1
          BY <4>1, <3>2, <3>5, <1>1, <1>3
        <5> QED
          BY <5>1, <5>2, <3>3 DEF Follows
      <4>2. CASE /\ ssl.pending = 0 /\ ssl'.taken = ssl.taken + 1
                 /\ ssl'.pending = R[ssl.taken - 1] - 1
        <5>1. ~ (parsed[i].load < R[parsed[i].record])
          BY <4>2, <3>2, <3>5, <1>1
        <5>2. ssl'.taken - 2 = ssl.taken - 1
          BY <4>2, <1>1
        <5>3. q.record = parsed[i].record + 1 /\ q.load = 1
          BY <4>2, <5>2, <3>2, <3>5, <1>1, <1>3
        <5> QED
          BY <5>1, <5>3, <3>3 DEF Follows
      <4> QED
        BY <4>1, <4>2, <1>1
    <3>7. e # {} /\ \E j \in e : (\A k \in e : k <= j) /\ Follows(parsed'[l + 1], parsed'[j])
      BY <3>3, <3>4, <3>6, <1>6
    <3> QED
      BY <3>7 DEF OrderedAt, e
  <2> QED
    BY <2>2, <2>3
<1>12. \A j \in 1 .. l + 1 : OrderedAt(parsed', j)
  <2> TAKE j \in 1 .. l + 1
  <2>1. j \in 1 .. l \/ j = l + 1
    BY <1>6
  <2> QED
    BY <2>1, <1>10, <1>11
<1>13. ParsedInOrder'
  BY <1>2, <1>6, <1>12 DEF ParsedInOrder, OrderedAt, Follows
<1> QED
  BY <1>6, <1>8, <1>9, <1>13 DEF l

\* One more load, at the price of the dearest so far.
LEMMA Dearest ==
    ASSUME NEW n \in Nat, NEW b \in Nat, NEW k \in Nat, NEW u \in Int, n * k >= u
    PROVE  n * (k + 1) >= u + b \/ b * (k + 1) >= u + b
<1>1. n * (k + 1) = n * k + n /\ b * (k + 1) = b * k + b /\ n * k \in Nat /\ b * k \in Nat
  OBVIOUS
<1>2. CASE b <= n
  BY <1>1, <1>2
<1>3. CASE b > n
  <2>1. PICK e \in Nat : b = n + e
    BY <1>3
  <2>2. b * k = n * k + e * k /\ e * k \in Nat
    BY <2>1
  <2> QED
    BY <1>1, <2>2
<1> QED
  BY <1>2, <1>3

\* What a load takes from the pool is accounted for.
LEMMA PoolStep ==
    ASSUME ServerInv, NEW c \in Connections, NEW n \in Nat, on_read(c, n), OnReadRequest(c, n)
    PROVE  pool' \in 0 .. PoolBlocks /\ PoolInv' /\ PoolLastsForItsBlocks'
<1> DEFINE B == {d.blocks : d \in Documents}
           k == Len(parsed)
<1>3. Len(parsed') = k + 1
  BY ParsedStep
<1>4. /\ process = "running" /\ pool \in 0 .. PoolBlocks /\ k \in Nat /\ PoolBlocks \in Nat /\ PoolInv
  BY ServerAssumption DEF ServerInv, TypeOK, on_read
<1>5. PICK doc \in Documents :
         \/ process' = ParseRequest(doc) /\ pool' = pool
         \/ /\ ParseRequest(doc) = "running" /\ pool' = pool - doc.blocks
            /\ process' \in {"running", "terminated"}
  BY <1>4 DEF OnReadRequest, ForwardRequests
<1>6. doc.blocks \in Nat /\ doc.blocks \in B /\ B \subseteq Nat
  BY ForwardableFinite
<1>7. /\ ParseRequest(doc) = "running" => ~ (pool < doc.blocks)
      /\ ParseRequest(doc) = "undefined" => pool < doc.blocks
  BY ParseOutcome
<1> HIDE DEF k, B
<1>8. \E m \in B : m * (k + 1) >= PoolBlocks - pool + doc.blocks
  <2>1. CASE k = 0 /\ pool = PoolBlocks
    BY <2>1, <1>6, <1>4
  <2>2. CASE \E m \in B : m * k >= PoolBlocks - pool
    <3>1. PICK m \in B : m * k >= PoolBlocks - pool
      BY <2>2
    <3>2. m \in Nat /\ PoolBlocks - pool \in Int
      BY <1>4, <1>6
    <3> QED
      BY <3>1, <3>2, <1>4, <1>6, Dearest
  <2> QED
    BY <2>1, <2>2, <1>4 DEF PoolInv, B, k
<1>9. PICK m \in B : m * (k + 1) >= PoolBlocks - pool + doc.blocks
  BY <1>8
<1>10. m * (k + 1) \in Nat
  BY <1>4, <1>6
<1>11. pool' \in 0 .. PoolBlocks
  BY <1>4, <1>5, <1>6, <1>7
<1>12. PoolInv'
  <2>1. m * (k + 1) >= PoolBlocks - pool'
    BY <1>4, <1>5, <1>6, <1>9, <1>10
  <2> QED
    BY <2>1, <1>3 DEF PoolInv, B
<1>13. PoolLastsForItsBlocks'
  <2>1. SUFFICES ASSUME process' = "undefined" PROVE m * (k + 1) > PoolBlocks
    BY <1>3 DEF PoolLastsForItsBlocks, B
  <2>2. pool < doc.blocks
    BY <2>1, <1>5, <1>7
  <2> QED
    BY <2>2, <1>4, <1>6, <1>9, <1>10
<1> QED
  BY <1>11, <1>12, <1>13

-----------------------------------------------------------------------------
(* The invariant *)

\* The initial state satisfies the invariant.
LEMMA InitInv == Init => ServerInv
<1> SUFFICES ASSUME Init PROVE ServerInv
  OBVIOUS
<1> USE ServerAssumption DEF Init
<1>1. TypeOK
  <2>1. /\ records \in [Connections -> Seq(Loads)]
        /\ answers \in [Connections -> SUBSET {"hello", "finished", "stray", "response"}]
        /\ conn \in [Connections -> {"idle", "open", "closed"}]
        /\ delivered \in [Connections -> Nat]
    OBVIOUS
  <2>2. ssl \in Sessions /\ tcp_handle \in Connections \cup {NoConnection}
    BY DEF Sessions, NewSession, Session
  <2>3. /\ forwards \in Seq([state : ForwardStates, written : Nat])
        /\ parsed \in Seq(Parses)
        /\ pool \in 0 .. PoolBlocks
    OBVIOUS
  <2> QED
    BY <2>1, <2>2, <2>3 DEF TypeOK, Sessions, Message, Parses
<1>2. Begun = {} /\ ssl.taken = 0 /\ ssl.pending = 0 /\ Len(ssl.rbio) = 0 /\ ~ ssl.failed
  BY DEF Begun, NewSession, Session
<1>3. OwnerInv /\ StreamInv /\ HelloInv
  BY <1>2 DEF OwnerInv, StreamInv, Limit, Within, Spoke, HelloInv, Paired, Late
<1>4. PureInv /\ ShortInv /\ PendingInv
  BY <1>2 DEF PureInv, ShortInv, Active, PendingInv, Rest
<1>5. RecordInv
  BY <1>2 DEF RecordInv
<1>6. FieldsInv /\ PoolInv /\ RequestsKeepTheirSender /\ ParsedInOrder /\ OneRequestPerForward
      /\ PoolLastsForItsBlocks
  BY DEF FieldsInv, PoolInv, RequestsKeepTheirSender, ParsedInOrder, OneRequestPerForward,
         PoolLastsForItsBlocks
<1> QED
  BY <1>1, <1>3, <1>4, <1>5, <1>6 DEF ServerInv

\* A step that leaves the shared client and the streams alone and accepts no
\* connection.
LEMMA QuietStep ==
    ASSUME ServerInv, TypeOK',
           UNCHANGED <<records, delivered, glued, answers, tcp_handle, ssl, fields, pool, parsed>>,
           \A c \in Connections : conn'[c] = "idle" <=> conn[c] = "idle",
           process' \in {process, "terminated", "killed"},
           Len(forwards') = Len(forwards), OneRequestPerForward'
    PROVE  ServerInv'
<1>1. OwnerInv' /\ StreamInv' /\ HelloInv'
  BY DEF ServerInv, OwnerInv, StreamInv, Within, Spoke, Limit, Begun, HelloInv, Paired, Late
<1>2. PureInv' /\ ShortInv' /\ PendingInv'
  BY DEF ServerInv, PureInv, Pure, Faithful, ShortInv, Active, Peer, FitsBuffer, Short, PendingInv, Rest
<1>3. RecordInv'
  BY DEF ServerInv, RecordInv, NoneFor, LastFor, Begun
<1>4. FieldsInv' /\ PoolInv' /\ RequestsKeepTheirSender' /\ ParsedInOrder' /\ PoolLastsForItsBlocks'
  BY DEF ServerInv, FieldsInv, PoolInv, RequestsKeepTheirSender, ParsedInOrder, Follows,
         PoolLastsForItsBlocks
<1> QED
  BY <1>1, <1>2, <1>3, <1>4 DEF ServerInv

\* A connection is accepted, or refused after the client was taken over.
LEMMA NewConnectionStep ==
    ASSUME ServerInv, NEW c \in Connections, OnNewConnection(c)
    PROVE  ServerInv'
<1>1. /\ conn[c] = "idle" /\ tcp_handle' = c /\ ssl' = NewSession
      /\ conn' = [conn EXCEPT ![c] = "open"] \/ conn' = [conn EXCEPT ![c] = "closed"]
      /\ UNCHANGED <<process, parent, timer, ended, delivered, glued, answers, fields, pool,
                     forwards, parsed>>
  BY DEF OnNewConnection, streamVars
<1>2. /\ conn \in [Connections -> {"idle", "open", "closed"}]
      /\ delivered \in [Connections -> Nat] /\ records \in [Connections -> Seq(Loads)]
      /\ OwnerInv /\ StreamInv /\ RecordInv
  BY DEF ServerInv, TypeOK
<1>3. PICK loads \in Seq(Loads) :
         records' = [records EXCEPT ![c] = loads] \/ records' = records
  <2>1. \A k \in 1 .. MaxRecords : \A loads \in [1 .. k -> Loads] : loads \in Seq(Loads)
    BY ServerAssumption
  <2>2. CASE records' = records
    <3>1. <<>> \in Seq(Loads)
      OBVIOUS
    <3> QED
      BY <2>2, <3>1
  <2>3. CASE \E loads \in UNION {[1 .. k -> Loads] : k \in 1 .. MaxRecords} :
                records' = [records EXCEPT ![c] = loads]
    BY <2>1, <2>3
  <2> QED
    BY <2>2, <2>3 DEF OnNewConnection
<1>4. /\ ssl' \in Sessions /\ ssl'.taken = 0 /\ ssl'.pending = 0 /\ ~ ssl'.failed
      /\ ssl'.rbio = <<>> /\ Len(ssl'.rbio) = 0
  BY <1>1 DEF NewSession, Session, Sessions
<1>5. /\ records' \in [Connections -> Seq(Loads)] /\ conn' \in [Connections -> {"idle", "open", "closed"}]
      /\ \A d \in Connections : d # c => records'[d] = records[d]
  BY <1>1, <1>2, <1>3
<1>6. TypeOK'
  BY <1>1, <1>4, <1>5 DEF ServerInv, TypeOK, Sessions, Message
<1>7. \A d \in Connections : conn'[d] = "idle" <=> d # c /\ conn[d] = "idle"
  BY <1>1, <1>2
<1>8. OwnerInv'
  BY <1>1, <1>2, <1>4, <1>7 DEF OwnerInv
<1>9. delivered[c] = 0 /\ Begun' = Begun /\ c \notin Begun
  <2>1. delivered[c] = 0
    BY <1>1, <1>2 DEF OwnerInv
  <2>2. c \notin Begun
    BY <2>1, <1>2 DEF StreamInv
  <2> QED
    BY <2>1, <2>2, <1>1 DEF Begun
<1>10. StreamInv'
  <2>1. ASSUME NEW d \in Connections PROVE Limit(d, Begun)' = Limit(d, Begun)
    BY <1>5, <1>9 DEF Limit
  <2>2. Within(ssl, delivered)' /\ Spoke(ssl, delivered)'
    BY <1>4 DEF Within, Spoke
  <2> QED
    BY <2>1, <2>2, <1>1, <1>2, <1>9 DEF StreamInv
<1>11. HelloInv'
  BY <1>4 DEF HelloInv, Paired, Late
<1>12. PureInv'
  BY <1>1, <1>4, <1>9 DEF PureInv, Faithful
<1>13. ShortInv' /\ PendingInv'
  BY <1>4 DEF ShortInv, Active, PendingInv, Rest
<1>14. \A i \in 1 .. Len(parsed) : parsed[i].sender \in Begun /\ parsed[i].sender # c
  BY <1>2, <1>9 DEF RecordInv
<1>15. RecordInv'
  BY <1>1, <1>4, <1>9, <1>14 DEF RecordInv
<1>16. ParsedInOrder'
  <2>1. parsed \in Seq(Parses) /\ ParsedInOrder /\ DOMAIN parsed = 1 .. Len(parsed)
    BY DEF ServerInv, TypeOK, Parses
  <2>2. ASSUME NEW i \in 1 .. Len(parsed) PROVE records'[parsed[i].sender] = records[parsed[i].sender]
    <3>1. parsed[i].sender \in Connections /\ parsed[i].sender # c
      BY <1>14 DEF Begun
    <3> QED
      BY <3>1, <1>5
  <2>3. ASSUME NEW j \in DOMAIN parsed, NEW i \in 1 .. j - 1, Follows(parsed[j], parsed[i])
        PROVE  Follows(parsed[j], parsed[i])'
    <3>1. i \in 1 .. Len(parsed)
      BY <2>1
    <3>2. records'[parsed[i].sender] = records[parsed[i].sender] /\ parsed' = parsed
      BY <3>1, <2>2, <1>1
    <3> QED
      BY <2>3, <3>2 DEF Follows
  <2>4. SUFFICES ASSUME NEW j \in DOMAIN parsed
                 PROVE  LET earlier == {i \in 1 .. j - 1 : parsed[i].sender = parsed[j].sender}
                        IN  IF earlier = {} THEN parsed[j].record = 1 /\ parsed[j].load = 1
                            ELSE \E i \in earlier : (\A k \in earlier : k <= i)
                                                      /\ Follows(parsed[j], parsed[i])'
    BY <1>1 DEF ParsedInOrder
  <2> DEFINE e == {i \in 1 .. j - 1 : parsed[i].sender = parsed[j].sender}
  <2>5. IF e = {} THEN parsed[j].record = 1 /\ parsed[j].load = 1
        ELSE \E i \in e : (\A k \in e : k <= i) /\ Follows(parsed[j], parsed[i])
    BY <2>1 DEF ParsedInOrder
  <2>6. \A i \in e : i \in 1 .. j - 1
    OBVIOUS
  <2> HIDE DEF e
  <2>7. IF e = {} THEN parsed[j].record = 1 /\ parsed[j].load = 1
        ELSE \E i \in e : (\A k \in e : k <= i) /\ Follows(parsed[j], parsed[i])'
    BY <2>3, <2>5, <2>6
  <2> QED
    BY <2>7 DEF e
<1>17. FieldsInv' /\ PoolInv' /\ RequestsKeepTheirSender' /\ OneRequestPerForward'
       /\ PoolLastsForItsBlocks'
  BY <1>1 DEF ServerInv, FieldsInv, PoolInv, RequestsKeepTheirSender,
              PoolLastsForItsBlocks, OneRequestPerForward
<1> QED
  BY <1>6, <1>8, <1>10, <1>11, <1>12, <1>13, <1>15, <1>16, <1>17 DEF ServerInv

\* on_read in the handshake, or without a load to return.
LEMMA NoRequestStep ==
    ASSUME ServerInv, NEW c \in Connections, NEW n \in Nat, on_read(c, n),
           OnReadHandshake(c, n) \/ OnReadError(c, n)
    PROVE  ServerInv'
<1> DEFINE s == FeedBytes(ssl, c, n)
<1>1. /\ SessionInv /\ Reads(c, n) /\ ssl' \in Sessions
      /\ OwnerInv' /\ StreamInv' /\ HelloInv' /\ PureInv' /\ ShortInv' /\ PendingInv'
      /\ delivered' \in [Connections -> Nat] /\ glued' \subseteq Connections
  BY ReadStep
<1>2. /\ UNCHANGED <<process, conn, fields, pool, forwards, parsed, parent, timer, records, tcp_handle>>
      /\ ended' \in {ended, ended \cup {c}}
  BY DEF OnReadHandshake, OnReadError, on_read
<1>3. /\ ssl \in Sessions /\ delivered \in [Connections -> Nat] /\ ssl.taken \in Nat
      /\ ssl.pending \in Nat /\ tcp_handle \in Connections /\ ssl' = Progress(s)
      /\ records \in [Connections -> Seq(Loads)] /\ Rest(ssl)
      /\ Begun' = Begun \/ Begun' = Begun \cup {tcp_handle}
  BY <1>1, Fields DEF SessionInv, Reads, PendingInv
<1>4. s \in Sessions /\ s.taken = ssl.taken /\ s.failed = ssl.failed /\ s.pending = ssl.pending
      /\ s.peer = ssl.peer
  BY <1>3, FeedAppends
<1>5. answers' \in [Connections -> SUBSET {"hello", "finished", "stray", "response"}]
  <2>1. answers \in [Connections -> SUBSET {"hello", "finished", "stray", "response"}]
    BY DEF ServerInv, TypeOK
  <2>2. \/ answers' = answers
        \/ \E a \in {"hello", "finished", "stray"} :
              answers' = [answers EXCEPT ![tcp_handle] = @ \cup {a}]
    BY DEF OnReadHandshake, OnReadError, Answer
  <2> QED
    BY <2>1, <2>2, <1>3
<1>6. TypeOK'
  BY <1>1, <1>2, <1>5 DEF ServerInv, TypeOK, Sessions, Message
<1>7. ssl.pending = 0
  <2>1. SUFFICES ASSUME ssl.pending > 0 PROVE FALSE
    BY <1>3
  <2>2. InitFinished(ssl) /\ HasLoad(s)
    BY <2>1, <1>3, <1>4 DEF Rest, InitFinished, HasLoad
  <2> QED
    BY <2>2 DEF OnReadHandshake, OnReadError
<1>8. HasRecord(s) => /\ Exists(s) /\ (ssl.taken = 0 => Peer(s) \notin Begun)
                      /\ ~ InitFinished(ssl)
  <2>1. ASSUME HasRecord(s) PROVE Exists(s) /\ (ssl.taken = 0 => Peer(s) \notin Begun)
    BY <2>1, <1>1, TakenRecord
  <2>2. ASSUME HasRecord(s) PROVE ~ InitFinished(ssl)
    BY <2>2 DEF OnReadHandshake, OnReadError, HasLoad
  <2> QED
    BY <2>1, <2>2
<1> HIDE DEF s
<1>9. \/ ssl'.taken = ssl.taken /\ ssl'.peer = ssl.peer /\ ssl'.pending = ssl.pending
      \/ /\ ssl.taken = 0 /\ ssl'.taken = 1 /\ ssl'.peer \notin Begun
      \/ /\ ssl.taken = 1 /\ ssl'.taken = 2 /\ ssl'.peer = ssl.peer
  <2>1. CASE HasRecord(s)
    <3>1. ssl' = TakeRecord(s) /\ ~ s.failed /\ (s.taken >= 1 => Peer(s) = s.peer)
      BY <2>1, <1>3, <1>4, <1>7, RecordInFront DEF Progress
    <3>2. ssl'.taken = ssl.taken + 1 /\ ssl'.peer = Peer(s)
      BY <2>1, <3>1, <1>3, <1>4, <1>8, TakeShifts
    <3>3. ~ (ssl.taken >= 2)
      BY <2>1, <3>1, <1>4, <1>8 DEF InitFinished
    <3>4. ssl.taken = 0 \/ ssl.taken = 1
      BY <3>3, <1>3
    <3> QED
      BY <2>1, <3>1, <3>2, <3>4, <1>4, <1>8
  <2>2. CASE ~ HasRecord(s)
    BY <2>2, <1>3, <1>4, <1>7, ProgressQuiet
  <2> QED
    BY <2>1, <2>2
<1>10. RecordInv'
  <2>1. RecordInv
    BY DEF ServerInv
  <2>2. \A i \in 1 .. Len(parsed) : parsed[i].sender \in Begun'
    BY <2>1, <1>3 DEF RecordInv
  <2>3. CASE ssl'.taken = ssl.taken /\ ssl'.peer = ssl.peer /\ ssl'.pending = ssl.pending
    BY <2>1, <2>2, <2>3, <1>2 DEF RecordInv, NoneFor, LastFor
  <2>4. CASE ssl.taken = 0 /\ ssl'.taken = 1 /\ ssl'.peer \notin Begun
    <3>1. \A i \in 1 .. Len(parsed) : parsed[i].sender # ssl'.peer
      BY <2>1, <2>4 DEF RecordInv
    <3> QED
      BY <2>2, <2>4, <3>1, <1>2 DEF RecordInv, NoneFor
  <2>5. CASE ssl.taken = 1 /\ ssl'.taken = 2 /\ ssl'.peer = ssl.peer
    BY <2>1, <2>2, <2>5, <1>2 DEF RecordInv, NoneFor
  <2> QED
    BY <2>3, <2>4, <2>5, <1>9
<1>11. FieldsInv' /\ PoolInv' /\ RequestsKeepTheirSender' /\ ParsedInOrder' /\ OneRequestPerForward'
      /\ PoolLastsForItsBlocks'
  BY <1>2 DEF ServerInv, FieldsInv, PoolInv, RequestsKeepTheirSender, ParsedInOrder, Follows,
              PoolLastsForItsBlocks, OneRequestPerForward
<1> QED
  BY <1>1, <1>6, <1>10, <1>11 DEF ServerInv

\* on_read with a load.
LEMMA RequestStep ==
    ASSUME ServerInv, NEW c \in Connections, NEW n \in Nat, on_read(c, n), OnReadRequest(c, n)
    PROVE  ServerInv'
<1>1. /\ Reads(c, n) /\ ssl' \in Sessions
      /\ OwnerInv' /\ StreamInv' /\ HelloInv' /\ PureInv' /\ ShortInv' /\ PendingInv'
      /\ delivered' \in [Connections -> Nat] /\ glued' \subseteq Connections
  BY ReadStep
<1>2. parsed' \in Seq(Parses) /\ RecordInv' /\ RequestsKeepTheirSender' /\ ParsedInOrder'
  BY ParsedStep
<1>3. pool' \in 0 .. PoolBlocks /\ PoolInv' /\ PoolLastsForItsBlocks'
  BY PoolStep
<1>4. tcp_handle \in Connections
  BY <1>1, ReadStep DEF SessionInv
<1>5. PICK doc \in Documents :
         \/ process' = ParseRequest(doc) /\ UNCHANGED <<conn, fields, forwards>>
         \/ UNCHANGED <<process, conn, fields, forwards>>
         \/ \E refused \in SUBSET DOMAIN doc.selections : ForwardRequests(doc, refused)
  BY DEF OnReadRequest
<1>6. /\ UNCHANGED <<answers, parent, timer, records, tcp_handle>> /\ process = "running"
      /\ ended' \in {ended, ended \cup {c}}
  BY DEF OnReadRequest, on_read
<1>7. TypeOK /\ FieldsInv /\ OneRequestPerForward
  BY DEF ServerInv
<1>8. /\ fields' \subseteq Endpoints
      /\ forwards' \in Seq([state : ForwardStates, written : Nat])
      /\ conn' \in [Connections -> {"idle", "open", "closed"}]
      /\ process' \in {"running", "killed", "terminated", "undefined"}
      /\ FieldsInv' /\ OneRequestPerForward'
  <2>1. CASE process' = ParseRequest(doc) /\ UNCHANGED <<conn, fields, forwards>>
    BY <2>1, <1>7, ParseOutcome DEF TypeOK, FieldsInv, OneRequestPerForward
  <2>2. CASE UNCHANGED <<process, conn, fields, forwards>>
    BY <2>2, <1>7 DEF TypeOK, FieldsInv, OneRequestPerForward
  <2>3. CASE \E refused \in SUBSET DOMAIN doc.selections : ForwardRequests(doc, refused)
    <3>1. PICK refused : ForwardRequests(doc, refused)
      BY <2>3
    <3> QED
      BY <3>1, <1>4, <1>5, <1>6, <1>7, ForwardStep
  <2> QED
    BY <1>5, <2>1, <2>2, <2>3
<1>9. TypeOK'
  BY <1>1, <1>2, <1>3, <1>6, <1>7, <1>8 DEF TypeOK, Sessions, Message, Parses
<1> QED
  BY <1>1, <1>2, <1>3, <1>8, <1>9 DEF ServerInv

\* The shared client has the one field that has a backend, once there is a
\* ClientRequest at all.
LEMMA OneField ==
    ASSUME ServerInv, Len(forwards) > 0
    PROVE  Cardinality(fields) = 1
<1>1. fields # {} /\ fields \subseteq Endpoints
  BY DEF ServerInv, FieldsInv, TypeOK
<1>2. PICK e : Endpoints = {e}
  BY OneEndpoint
<1>3. fields = {e}
  BY <1>1, <1>2
<1> QED
  BY <1>3, FS_Singleton

\* The callbacks of a ClientRequest change nothing but its own entry.
LEMMA ForwardCallbackStep ==
    ASSUME ServerInv, NEW i \in DOMAIN forwards,
           OnResolvedIpv4(i) \/ OnClientConnect(i) \/ OnForwardRequestRead(i)
    PROVE  ServerInv'
<1> DEFINE F == [state : ForwardStates, written : Nat]
<1>1. /\ UNCHANGED <<parent, timer, conn, ended, records, delivered, glued, answers, tcp_handle, ssl,
                     fields, pool, parsed>>
      /\ process' \in {process, "terminated"}
  BY DEF OnResolvedIpv4, OnClientConnect, OnForwardRequestRead, streamVars, clientVars
<1>2. forwards \in Seq(F) /\ OneRequestPerForward /\ TypeOK
  BY DEF ServerInv, TypeOK
<1>3. Cardinality(fields) = 1
  BY <1>2, OneField
<1>4. forwards[i] \in F /\ forwards[i].written \in Nat
  <2> HIDE DEF F
  <2>1. forwards[i] \in F
    BY <1>2
  <2> QED
    BY <2>1 DEF F
<1>5. \/ forwards' = forwards
      \/ \E f \in F : /\ forwards' = [forwards EXCEPT ![i] = f]
                      /\ f.state = "written" => f.written = 1
  BY <1>3, <1>4 DEF OnResolvedIpv4, OnClientConnect, OnForwardRequestRead, Forward, ForwardStates
<1> HIDE DEF F
<1>6. forwards' \in Seq(F) /\ Len(forwards') = Len(forwards)
  BY <1>2, <1>5
<1>7. OneRequestPerForward'
  <2>1. CASE forwards' = forwards
    BY <2>1, <1>2 DEF OneRequestPerForward
  <2>2. CASE \E f \in F : /\ forwards' = [forwards EXCEPT ![i] = f]
                          /\ f.state = "written" => f.written = 1
    BY <2>2, <1>2 DEF OneRequestPerForward
  <2> QED
    BY <1>5, <2>1, <2>2
<1>8. TypeOK'
  BY <1>1, <1>2, <1>6 DEF TypeOK, F
<1> QED
  BY <1>1, <1>6, <1>7, <1>8, QuietStep

\* Every step of the server keeps the invariant.
LEMMA NextInv == ServerInv /\ [Next]_vars => ServerInv'
<1> SUFFICES ASSUME ServerInv, [Next]_vars PROVE ServerInv'
  OBVIOUS
<1> USE DEF streamVars, clientVars
<1>1. ASSUME NEW c \in Connections, OnNewConnection(c) PROVE ServerInv'
  BY <1>1, NewConnectionStep
<1>2. ASSUME NEW c \in Connections, OnReadNothing(c) PROVE ServerInv'
  <2>1. /\ conn[c] = "open" /\ conn' = [conn EXCEPT ![c] = "closed"]
        /\ UNCHANGED <<process, parent, timer, ended, records, delivered, glued, answers, tcp_handle,
                       ssl, fields, pool, forwards, parsed>>
    BY <1>2 DEF OnReadNothing
  <2>2. TypeOK /\ OneRequestPerForward
    BY DEF ServerInv
  <2>3. \A d \in Connections : conn'[d] = "idle" <=> conn[d] = "idle"
    BY <2>1, <2>2 DEF TypeOK
  <2>4. TypeOK' /\ OneRequestPerForward'
    BY <2>1, <2>2 DEF TypeOK, OneRequestPerForward
  <2> QED
    BY <2>1, <2>3, <2>4, QuietStep
<1>3. ASSUME NEW c \in Connections, NEW n \in 0 .. MaxChunk, on_read(c, n) PROVE ServerInv'
  <2>1. n \in Nat
    BY ServerAssumption
  <2> QED
    BY <2>1, <1>3, NoRequestStep, RequestStep DEF on_read
<1>4. ASSUME NEW i \in DOMAIN forwards,
             OnResolvedIpv4(i) \/ OnClientConnect(i) \/ OnForwardRequestRead(i)
      PROVE  ServerInv'
  BY <1>4, ForwardCallbackStep
<1>5. CASE \/ OnInterval \/ ParentDies
           \/ \E signum \in {"SIGTERM", "SIGINT", "SIGHUP"} : Signal(signum)
  <2>1. /\ UNCHANGED <<conn, ended, records, delivered, glued, answers, tcp_handle, ssl, fields, pool,
                       forwards, parsed>>
        /\ process' \in {process, "killed"}
        /\ parent' \in {parent, "dead"} /\ timer' \in {timer, "fired"}
    BY <1>5 DEF OnInterval, ParentDies, Signal, Close
  <2>2. TypeOK /\ OneRequestPerForward
    BY DEF ServerInv
  <2>3. TypeOK' /\ OneRequestPerForward'
    BY <2>1, <2>2 DEF TypeOK, OneRequestPerForward
  <2> QED
    BY <2>1, <2>3, QuietStep
<1>6. CASE UNCHANGED vars
  <2>1. UNCHANGED <<process, parent, timer, conn, ended, records, delivered, glued, answers, tcp_handle,
                    ssl, fields, pool, forwards, parsed>>
    BY <1>6 DEF vars
  <2>2. TypeOK /\ OneRequestPerForward
    BY DEF ServerInv
  <2>3. TypeOK' /\ OneRequestPerForward'
    BY <2>1, <2>2 DEF TypeOK, OneRequestPerForward
  <2> QED
    BY <2>1, <2>3, QuietStep
<1> QED
  BY <1>1, <1>2, <1>3, <1>4, <1>5, <1>6 DEF Next

-----------------------------------------------------------------------------
(* The theorems *)

\* The invariant holds in every behaviour.
THEOREM ServerInvariant == Spec => []ServerInv
BY InitInv, NextInv, PTL DEF Spec

\* The variables of the event loop keep their types: above all, the pool never
\* counts below zero, and a load that is parsed is one that its sender sent.
THEOREM ServerTyped == Spec => []TypeOK
<1>1. ServerInv => TypeOK
  BY DEF ServerInv
<1> QED
  BY <1>1, ServerInvariant, PTL

\* Whatever connections are accepted between two reads, and whose hello the
\* shared session took, the socket that the shared client holds when a load is
\* parsed is the sender's.
THEOREM SendersKept == Spec => []RequestsKeepTheirSender
<1>1. ServerInv => RequestsKeepTheirSender
  BY DEF ServerInv
<1> QED
  BY <1>1, ServerInvariant, PTL

\* However TCP cuts and glues, and however many loads of read_buffer a record
\* fills, on_read parses the loads of each connection in the order in which they
\* were sent, none twice and none left out.
THEOREM OrderKept == Spec => []ParsedInOrder
<1>1. ServerInv => ParsedInOrder
  BY DEF ServerInv
<1> QED
  BY <1>1, ServerInvariant, PTL

\* As long as one connection is all there is, nothing makes its session fail.
THEOREM SoleClientSafe == Spec => []SoleClientKeepsSession
<1>1. ServerInv => SoleClientKeepsSession
  <2> SUFFICES ASSUME ServerInv, NEW c \in Connections,
                      \A d \in Connections \ {c} : conn[d] = "idle"
               PROVE  ~ ssl.failed
    BY DEF SoleClientKeepsSession
  <2>1. /\ ssl \in Sessions /\ delivered \in [Connections -> Nat] /\ ssl.taken \in Nat
        /\ tcp_handle \in Connections \cup {NoConnection}
    BY SessionTyped, Fields DEF ServerInv, TypeOK
  <2>2. /\ OwnerInv /\ PureInv /\ Within(ssl, delivered) /\ Spoke(ssl, delivered)
        /\ Paired(ssl, Begun, tcp_handle)
    BY DEF ServerInv, StreamInv, HelloInv
  <2>3. ASSUME NEW d \in Connections, delivered[d] >= 1 PROVE d = tcp_handle
    <3>1. conn[d] # "idle"
      BY <2>2, <2>3 DEF OwnerInv
    <3>2. tcp_handle \in Connections /\ conn[tcp_handle] # "idle"
      BY <3>1, <2>2 DEF OwnerInv
    <3> QED
      BY <3>1, <3>2
  <2>4. ASSUME NEW i \in 1 .. Len(ssl.rbio) PROVE ssl.rbio[i].from = tcp_handle
    <3>1. PICK m \in Message : m = ssl.rbio[i]
      BY <2>1, Fields
    <3>2. m.from \in Connections /\ m.unit \in Nat /\ 1 <= m.unit /\ m.unit <= delivered[m.from]
      BY <3>1, <2>2 DEF Within, Message
    <3>3. delivered[m.from] >= 1
      BY <3>2, <2>1
    <3> QED
      BY <3>1, <3>2, <3>3, <2>3
  <2>5. ssl.taken = 0 \/ ssl.peer = tcp_handle
    <3>1. SUFFICES ASSUME ssl.taken >= 1 PROVE ssl.peer = tcp_handle
      BY <2>1
    <3>2. ssl.peer \in Connections /\ delivered[ssl.peer] >= 2
      BY <3>1, <2>2 DEF Paired, Spoke
    <3>3. delivered[ssl.peer] >= 1
      BY <3>2, <2>1
    <3> QED
      BY <3>2, <3>3, <2>3
  <2>6. CASE tcp_handle \in Connections
    <3>1. Pure(ssl, tcp_handle)
      BY <2>4, <2>5 DEF Pure
    <3> QED
      BY <3>1, <2>2, <2>6 DEF PureInv, Faithful
  <2>7. CASE tcp_handle \notin Connections
    BY <2>2, <2>7 DEF OwnerInv
  <2> QED
    BY <2>6, <2>7
<1> QED
  BY <1>1, ServerInvariant, PTL

\* As long as no read ends two records of the session's peer and none of its
\* records is longer than read_buffer, SSL_read has returned every load that has
\* arrived whole.
THEOREM NoneStranded == Spec => []NothingStranded
<1>1. ServerInv => NothingStranded
  <2> SUFFICES ASSUME ServerInv, InitFinished(ssl), ssl.peer \notin glued, FitsBuffer(ssl.peer)
               PROVE  ~ HasLoad(ssl)
    BY DEF NothingStranded
  <2>1. /\ Len(ssl.rbio) \in Nat /\ ssl.taken \in Nat /\ ssl.pending \in Nat
        /\ ~ ssl.failed /\ ssl.taken >= 2
    BY SessionTyped, Fields DEF ServerInv, TypeOK, InitFinished
  <2>2. Peer(ssl) = ssl.peer /\ Active(ssl)
    BY <2>1 DEF Peer, Active
  <2>3. ssl.pending = 0 /\ Len(ssl.rbio) <= 1
    BY <2>2 DEF ServerInv, ShortInv, Short
  <2> QED
    BY <2>1, <2>3 DEF HasLoad, HasRecord
<1> QED
  BY <1>1, ServerInvariant, PTL

\* OnClientConnect writes one request, although it writes one for every field
\* that the shared client has collected from all connections.
THEOREM ForwardsCarryOne == Spec => []OneRequestPerForward
<1>1. ServerInv => OneRequestPerForward
  BY DEF ServerInv
<1> QED
  BY <1>1, ServerInvariant, PTL

\* Only loads use up the pool: it is not exhausted before as many were
\* parsed as its blocks serve.
THEOREM PoolAccounted == Spec => []PoolLastsForItsBlocks
<1>1. ServerInv => PoolLastsForItsBlocks
  BY DEF ServerInv
<1> QED
  BY <1>1, ServerInvariant, PTL
=============================================================================
