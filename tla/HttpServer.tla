----------------------------- MODULE HttpServer -----------------------------
(***************************************************************************)
(* The gateway's event loop, src/program/http_server.cpp.  One libuv       *)
(* thread runs every callback, one at a time, so a callback is an action.  *)
(* A client opens a TLS connection, its request is parsed, and for every   *)
(* selected field that has a backend a ClientRequest is resolved, connected*)
(* and written to.                                                         *)
(*                                                                         *)
(* All connections share the one GatewayClient that Listen creates:        *)
(* OnNewConnection replaces its socket and its TLS session, so the bytes of*)
(* every connection are fed to the session of the newest one.              *)
(*                                                                         *)
(* External parts, modelled from how they are used here: OpenSSL (a hello  *)
(* is plain text and opens a session whoever sent it, what follows must be *)
(* of the same sender, a failed session stays failed), libuv (uv_close of  *)
(* a closing handle aborts, uv_loop_close refuses while a handle is open), *)
(* and the clients.  A client's output is a stream of TLS records: its     *)
(* hello, its finished flight and then the records that carry its requests.*)
(* A record is two units long, so that TCP may cut it or glue it to the    *)
(* next one, and holds as many loads of on_read's buffer as its plain text *)
(* fills.  A request may be a load, fill several loads, or lie in several  *)
(* records: the server does not join them, it takes every load that        *)
(* SSL_read returns for a request.                                         *)
(***************************************************************************)
EXTENDS Integers, Sequences, FiniteSets

CONSTANTS
    Connections,   \* TCP connections that clients may open, each once
    NoConnection,
    Endpoints,     \* keys of field_to_endpoint
    Documents,     \* what a load can hold, see DocumentType
    MaxRecords,    \* bound: records that carry the requests of a connection
    MaxForwards,   \* bound: ClientRequests of a behaviour
    MaxChunk,      \* bound: units that one read callback is given
    PoolBlocks     \* blocks of the memory pool

\* What a load is when it is parsed as a request, a whole one or a piece: an
\* exception or null dereference before or after the ticket is taken, no
\* operation to run, or the selections of one.  A selection is the name of a
\* field, or "fragment".
DocumentType ==
    [kind : {"bad_http", "bad_body", "no_operation", "operation"},
     selections : Seq(Endpoints \cup {"other", "fragment"}), blocks : Nat]

ASSUME ServerAssumption ==
    /\ NoConnection \notin Connections
    /\ MaxRecords \in Nat /\ MaxForwards \in Nat /\ PoolBlocks \in Nat
    /\ MaxChunk \in Nat \ {0}
    /\ Documents \subseteq DocumentType

\* The size of on_read's read_buffer, and the most that a record carries.
ReadBuffer == 1024 * 10
RecordSize == 1024 * 16

\* How many calls of SSL_read a record takes.
Loads == 1 .. 1 + (RecordSize - 1) \div ReadBuffer

\* field_to_endpoint is defined with one entry, and nothing adds another.
ASSUME OneEndpoint == \E e \in Endpoints : Endpoints = {e}

VARIABLES
    process,      \* "running", "killed", "terminated" (abort, exception) or "undefined"
    parent,       \* "alive" or "dead"
    timer,        \* the timer of Listen: "armed" or "fired"
    conn,         \* the client sockets: "idle", "open" or "closed"
    ended,        \* connections whose end of stream was read
    records,      \* the loads of each record that a client is going to send
    delivered,    \* units of each client's stream that were read so far
    glued,        \* history: connections of which one read ended two records
    answers,      \* what was written to each client's socket
    tcp_handle,   \* GatewayClient.tcp_handle
    ssl,          \* GatewayClient.ssl_handle
    fields,       \* GatewayClient.fields
    pool,         \* free blocks of the memory pool
    forwards,     \* the ClientRequests, oldest first
    parsed        \* history: the loads that SSL_read returned

clientVars == <<tcp_handle, ssl>>
streamVars == <<delivered, glued>>
vars == <<process, parent, timer, conn, ended, records, streamVars, answers, clientVars, fields, pool,
          forwards, parsed>>

-----------------------------------------------------------------------------
(* The TLS session *)

\* A session: whose hello it took, records consumed, loads of the last one that
\* were decrypted and not returned, unread units, whether it failed.
Session(peer, taken, pending, rbio, failed) ==
    [peer |-> peer, taken |-> taken, pending |-> pending, rbio |-> rbio, failed |-> failed]

NewSession == Session(NoConnection, 0, 0, <<>>, FALSE)

\* The n units that c sends next.
NextUnits(c, n) == [i \in 1 .. n |-> [from |-> c, unit |-> delivered[c] + i]]

\* Variant: the chunk is written to the BIO twice.
FeedBytesTwice(s, c, n) ==
    Session(s.peer, s.taken, s.pending, s.rbio \o NextUnits(c, n) \o NextUnits(c, n), s.failed)

\* BIO_write of the chunk that was read.
FeedBytes(s, c, n) ==
    Session(s.peer, s.taken, s.pending, s.rbio \o NextUnits(c, n), s.failed)

\* A session that has taken nothing yet takes the hello of whoever comes first.
Peer(s) == IF s.taken = 0 /\ Len(s.rbio) > 0 THEN s.rbio[1].from ELSE s.peer

Expected(s, i) == [from |-> Peer(s), unit |-> 2 * s.taken + i]

\* What stands in front of the session's input.
HasGarbage(s) ==
    \/ s.failed
    \/ \E i \in 1 .. 2 : i <= Len(s.rbio) /\ s.rbio[i] # Expected(s, i)
HasRecord(s) == ~ HasGarbage(s) /\ Len(s.rbio) >= 2

\* What SSL_read can return.
HasLoad(s) == s.pending > 0 \/ HasRecord(s)

\* The flights of the handshake are used up whole, of a record one load.
TakeRecord(s) ==
    Session(Peer(s), s.taken + 1, IF s.taken < 2 THEN 0 ELSE records[s.peer][s.taken - 1] - 1,
            SubSeq(s.rbio, 3, Len(s.rbio)), s.failed)

TakePending(s) == Session(s.peer, s.taken, s.pending - 1, s.rbio, s.failed)

Fail(s) == Session(s.peer, s.taken, s.pending, s.rbio, TRUE)

\* Variant: a new record is looked for before the rest of the last is returned.
ProgressForgetsRest(s) ==
    IF HasGarbage(s) THEN Fail(s)
    ELSE IF HasRecord(s) THEN TakeRecord(s)
    ELSE IF s.pending > 0 THEN TakePending(s) ELSE s

\* SSL_accept and SSL_read consume at most one record: the client sends its
\* second flight only when it has the answer to the first.  SSL_read returns at
\* most what its buffer holds and at most what one record holds; the rest of a
\* record comes out of the following calls, before the input is looked at.
Progress(s) ==
    IF s.pending > 0 THEN TakePending(s)
    ELSE IF HasGarbage(s) THEN Fail(s)
    ELSE IF HasRecord(s) THEN TakeRecord(s) ELSE s

\* SSL_is_init_finished
InitFinished(s) == ~ s.failed /\ s.taken >= 2

-----------------------------------------------------------------------------
Init ==
    /\ process = "running"
    /\ parent = "alive"
    /\ timer = "armed"
    /\ conn = [c \in Connections |-> "idle"]
    /\ ended = {}
    /\ records = [c \in Connections |-> <<>>]
    /\ delivered = [c \in Connections |-> 0]
    /\ glued = {}
    /\ answers = [c \in Connections |-> {}]
    /\ tcp_handle = NoConnection
    /\ ssl = NewSession
    /\ fields = {}
    /\ pool = PoolBlocks
    /\ forwards = <<>>
    /\ parsed = <<>>

\* Variant: a session that exists is kept when a connection is accepted.
OnNewConnectionKeepsSession(c) ==
    /\ process = "running"
    /\ timer = "fired"
    /\ conn[c] = "idle"
    /\ tcp_handle' = c
    /\ ssl' = IF tcp_handle = NoConnection THEN NewSession ELSE ssl
    /\ conn' = [conn EXCEPT ![c] = "open"]
    /\ \E loads \in Loads : records' = [records EXCEPT ![c] = <<loads>>]
    /\ UNCHANGED <<process, parent, timer, ended, streamVars, answers, fields, pool, forwards, parsed>>

\* The shared client is taken over before uv_accept is tried; when that fails
\* the new socket is closed, and the client keeps it.
OnNewConnection(c) ==
    /\ process = "running"
    /\ timer = "fired"
    /\ conn[c] = "idle"
    /\ tcp_handle' = c
    /\ ssl' = NewSession
    /\ \/ /\ conn' = [conn EXCEPT ![c] = "open"]
          /\ \E loads \in UNION {[1 .. n -> Loads] : n \in 1 .. MaxRecords} :
                records' = [records EXCEPT ![c] = loads]
       \/ /\ conn' = [conn EXCEPT ![c] = "closed"]
          /\ UNCHANGED records
    /\ UNCHANGED <<process, parent, timer, ended, streamVars, answers, fields, pool, forwards, parsed>>

\* The read callback with length 0, which libuv makes when there was nothing
\* to read after all.
OnReadNothing(c) ==
    /\ process = "running"
    /\ conn[c] = "open" /\ c \notin ended
    /\ conn' = [conn EXCEPT ![c] = "closed"]
    /\ UNCHANGED <<process, parent, timer, ended, records, streamVars, answers, clientVars, fields, pool,
                   forwards, parsed>>

\* Units that c has to send and has not sent.
Sendable(c) ==
    (IF "hello" \in answers[c] THEN 2 * (2 + Len(records[c])) ELSE 2) - delivered[c]

\* What SSL_accept wants to say when a session took its n-th record; it is of
\* no use to any client but the session's peer.
Answer(s, h) ==
    IF s.peer # h THEN "stray" ELSE IF s.taken = 1 THEN "hello" ELSE "finished"

\* on_read before the handshake is over.  What SSL_accept wants to say goes to
\* the socket of the shared client, whoever it is for.
OnReadHandshake(c, n) ==
    /\ ~ InitFinished(ssl)
    /\ ssl' = Progress(FeedBytes(ssl, c, n))
    /\ answers' = IF ssl'.taken > ssl.taken
                  THEN [answers EXCEPT ![tcp_handle] = @ \cup {Answer(ssl', tcp_handle)}]
                  ELSE answers
    /\ UNCHANGED <<process, conn, fields, pool, forwards, parsed>>

\* Variant: a chunk that is shorter than a record is put aside unread.
OnReadErrorEarly(c, n) ==
    /\ InitFinished(ssl)
    /\ n = 1
    /\ ssl' = FeedBytes(ssl, c, n)
    /\ UNCHANGED <<process, conn, answers, fields, pool, forwards, parsed>>

\* on_read when SSL_read has nothing to return: the input holds no whole record,
\* or one that it cannot decrypt.
OnReadError(c, n) ==
    /\ InitFinished(ssl)
    /\ ~ HasLoad(FeedBytes(ssl, c, n))
    /\ ssl' = Progress(FeedBytes(ssl, c, n))
    /\ UNCHANGED <<process, conn, answers, fields, pool, forwards, parsed>>

\* The selections up to the first that is not a field with a backend.
Forwardable(selections) ==
    {i \in DOMAIN selections : \A j \in 1 .. i : selections[j] \in Endpoints}

\* Variant: the pool is not looked at.
ParseRequestUnchecked(doc) ==
    IF doc.kind \in {"bad_http", "bad_body"} THEN "terminated" ELSE "running"

\* Variant: the last block is not used.
ParseRequestOffByOne(doc) ==
    IF doc.kind = "bad_http" THEN "terminated"
    ELSE IF pool <= doc.blocks THEN "undefined"
    ELSE IF doc.kind = "bad_body" THEN "terminated" ELSE "running"

\* ParseRequest: the ticket is taken after the HTTP parser is done, and it is
\* never returned.
ParseRequest(doc) ==
    IF doc.kind = "bad_http" THEN "terminated"
    ELSE IF pool < doc.blocks THEN "undefined"
    ELSE IF doc.kind = "bad_body" THEN "terminated" ELSE "running"

\* "abandoned": without a callback to come, and nothing was written.
ForwardStates == {"resolving", "connecting", "written", "closed", "abandoned"}

\* A ClientRequest: how far it is and how many requests it wrote.
Forward(state, written) == [state |-> state, written |-> written]

\* Variant: the selected fields are not noted in the client.
ForwardRequestsForgetsFields(doc, refused) ==
    /\ refused = {}
    /\ Len(forwards) + Cardinality(Forwardable(doc.selections)) <= MaxForwards
    /\ forwards' = forwards \o [i \in 1 .. Cardinality(Forwardable(doc.selections)) |->
                                  Forward("resolving", 0)]
    /\ UNCHANGED <<process, conn, fields>>

\* ForwardRequest for every forwardable selection.  uv_getaddrinfo may refuse
\* some of them; each refusal closes the socket of the shared client.
ForwardRequests(doc, refused) ==
    LET wanted == Forwardable(doc.selections)
        accepted == [i \in 1 .. Cardinality(wanted \ refused) |->
                       Forward("resolving", 0)]
    IN  /\ refused \subseteq wanted
        /\ Len(forwards) + Cardinality(wanted) <= MaxForwards
        /\ fields' = fields \cup {doc.selections[i] : i \in wanted}
        /\ forwards' = forwards \o accepted
        /\ conn' = IF refused = {} THEN conn ELSE [conn EXCEPT ![tcp_handle] = "closed"]
        /\ process' = IF \/ Cardinality(refused) > 1
                         \/ refused # {} /\ conn[tcp_handle] = "closed"
                      THEN "terminated" ELSE process

\* The load that SSL_read returned last.
LastLoad(s) ==
    [sender |-> s.peer, record |-> s.taken - 2,
     load |-> records[s.peer][s.taken - 2] - s.pending, handle |-> tcp_handle]

\* on_read when SSL_read returns a load, which is parsed as a request.
OnReadRequest(c, n) ==
    /\ InitFinished(ssl)
    /\ HasLoad(FeedBytes(ssl, c, n))
    /\ ssl' = Progress(FeedBytes(ssl, c, n))
    /\ parsed' = Append(parsed, LastLoad(ssl'))
    /\ \E doc \in Documents :
          \/ /\ ParseRequest(doc) # "running"
             /\ process' = ParseRequest(doc)
             /\ UNCHANGED <<conn, fields, pool, forwards>>
          \/ /\ ParseRequest(doc) = "running"
             /\ doc.kind = "no_operation"
             /\ pool' = pool - doc.blocks
             /\ UNCHANGED <<process, conn, fields, forwards>>
          \/ /\ ParseRequest(doc) = "running"
             /\ doc.kind = "operation"
             /\ pool' = pool - doc.blocks
             /\ \E refused \in SUBSET DOMAIN doc.selections : ForwardRequests(doc, refused)
    /\ UNCHANGED answers

\* The read callback, with the next n units of c's stream.  The end of the
\* stream is a callback too, the last one and with a length below 0: no bytes
\* are added, the rest is done as usual and the socket is not closed.
on_read(c, n) ==
    /\ process = "running"
    /\ conn[c] = "open" /\ c \notin ended
    /\ n <= Sendable(c)
    /\ ended' = IF n = 0 THEN ended \cup {c} ELSE ended
    /\ delivered' = [delivered EXCEPT ![c] = @ + n]
    /\ glued' = IF delivered'[c] \div 2 > delivered[c] \div 2 + 1 THEN glued \cup {c} ELSE glued
    /\ OnReadHandshake(c, n) \/ OnReadError(c, n) \/ OnReadRequest(c, n)
    /\ UNCHANGED <<parent, timer, records, tcp_handle>>

\* Variant: the callback gives up when the client's socket is closed.
OnResolvedIpv4ChecksClient(i) ==
    /\ process = "running"
    /\ forwards[i].state = "resolving"
    /\ conn[tcp_handle] = "open"
    /\ forwards' = [forwards EXCEPT ![i] = Forward("connecting", forwards[i].written)]
    /\ UNCHANGED <<process, parent, timer, conn, ended, records, streamVars, answers, clientVars,
                   fields, pool, parsed>>

\* The answer of the resolver.  Its status is not looked at: after a failure
\* the result is null and is dereferenced.  When the address cannot be made out,
\* or uv_tcp_connect refuses, nothing follows: no callback will come.
OnResolvedIpv4(i) ==
    /\ process = "running"
    /\ forwards[i].state = "resolving"
    /\ \/ /\ \E state \in {"connecting", "abandoned"} :
                forwards' = [forwards EXCEPT ![i] = Forward(state, forwards[i].written)]
          /\ UNCHANGED process
       \/ /\ process' = "terminated"
          /\ UNCHANGED forwards
    /\ UNCHANGED <<parent, timer, conn, ended, records, streamVars, answers, clientVars, fields, pool,
                   parsed>>

\* The backend's socket is connected, or is not: the only status looked at is
\* one that libuv does not use.  One request is written for each field that
\* the shared client has collected by now; without a connection they are lost.
OnClientConnect(i) ==
    /\ process = "running"
    /\ forwards[i].state = "connecting"
    /\ \/ forwards' = [forwards EXCEPT ![i] = Forward("written", Cardinality(fields))]
       \/ forwards' = [forwards EXCEPT ![i] = Forward("closed", forwards[i].written)]
    /\ UNCHANGED <<process, parent, timer, conn, ended, records, streamVars, answers, clientVars, fields,
                   pool, parsed>>

\* The backend hangs up.  What it said before was printed.
OnForwardRequestRead(i) ==
    /\ process = "running"
    /\ forwards[i].state = "written"
    /\ forwards' = [forwards EXCEPT ![i] = Forward("closed", forwards[i].written)]
    /\ UNCHANGED <<process, parent, timer, conn, ended, records, streamVars, answers, clientVars, fields,
                   pool, parsed>>

\* HttpServer::Close and HandleSignal: uv_loop_close answers EBUSY, since the
\* listening socket is never closed.
Close == UNCHANGED process

\* The timer has no repeat interval: it fires once, in the loop's first round.
OnInterval ==
    /\ process = "running"
    /\ timer = "armed"
    /\ timer' = "fired"
    /\ IF parent = "dead" THEN Close ELSE UNCHANGED process
    /\ UNCHANGED <<parent, conn, ended, records, streamVars, answers, clientVars, fields, pool, forwards,
                   parsed>>

\* One uv_signal_t is started three times; the last start is the one that
\* counts, so SIGTERM and SIGINT have their default effect.
Signal(signum) ==
    /\ process = "running"
    /\ IF signum = "SIGHUP" THEN Close ELSE process' = "killed"
    /\ UNCHANGED <<parent, timer, conn, ended, records, streamVars, answers, clientVars, fields, pool,
                   forwards, parsed>>

ParentDies ==
    /\ parent = "alive"
    /\ parent' = "dead"
    /\ UNCHANGED <<process, timer, conn, ended, records, streamVars, answers, clientVars, fields, pool,
                   forwards, parsed>>

Next ==
    \/ \E c \in Connections :
          OnNewConnection(c) \/ OnReadNothing(c) \/ \E n \in 0 .. MaxChunk : on_read(c, n)
    \/ \E i \in DOMAIN forwards :
          OnResolvedIpv4(i) \/ OnClientConnect(i) \/ OnForwardRequestRead(i)
    \/ OnInterval
    \/ \E signum \in {"SIGTERM", "SIGINT", "SIGHUP"} : Signal(signum)
    \/ ParentDies

\* libuv makes every callback whose event has come; what clients, backends and
\* the parent do is theirs to decide, except that resolving and connecting end.
Fairness ==
    /\ WF_vars(OnInterval)
    /\ \A i \in 1 .. MaxForwards :
          /\ WF_vars(i \in DOMAIN forwards /\ OnResolvedIpv4(i))
          /\ WF_vars(i \in DOMAIN forwards /\ OnClientConnect(i))

Spec == Init /\ [][Next]_vars /\ Fairness

-----------------------------------------------------------------------------
(* Properties *)

TypeOK ==
    /\ process \in {"running", "killed", "terminated", "undefined"}
    /\ parent \in {"alive", "dead"}
    /\ timer \in {"armed", "fired"}
    /\ conn \in [Connections -> {"idle", "open", "closed"}]
    /\ ended \subseteq Connections
    /\ records \in [Connections -> Seq(Loads)]
    /\ delivered \in [Connections -> Nat] /\ glued \subseteq Connections
    /\ answers \in [Connections -> SUBSET {"hello", "finished", "stray", "response"}]
    /\ tcp_handle \in Connections \cup {NoConnection}
    /\ ssl \in [peer : Connections \cup {NoConnection}, taken : Nat, pending : Nat,
               rbio : Seq([from : Connections, unit : Nat]), failed : BOOLEAN]
    /\ fields \subseteq Endpoints
    /\ pool \in 0 .. PoolBlocks
    /\ forwards \in Seq([state : ForwardStates, written : Nat])
    /\ parsed \in Seq([sender : Connections, record : Nat, load : Nat, handle : Connections])

\* Although one GatewayClient serves every connection, and its session answers
\* the hello of any of them, a load that on_read parses was sent by the
\* connection whose socket the client holds at that moment: the socket that
\* ForwardRequest would close is the sender's.
RequestsKeepTheirSender ==
    \A i \in DOMAIN parsed : parsed[i].sender = parsed[i].handle

\* q is the load of its sender's stream that comes after p.
Follows(q, p) ==
    IF p.load < records[p.sender][p.record]
    THEN q.record = p.record /\ q.load = p.load + 1
    ELSE q.record = p.record + 1 /\ q.load = 1

\* The loads of a connection are parsed in the order it sent them, from the
\* first on, each at most once and none skipped, wherever TCP cuts the stream
\* and however many loads a record holds.  So a request that is one record and
\* fits read_buffer is parsed once and whole; any other is parsed in pieces.
ParsedInOrder ==
    \A j \in DOMAIN parsed :
        LET earlier == {i \in 1 .. j - 1 : parsed[i].sender = parsed[j].sender}
        IN  IF earlier = {} THEN parsed[j].record = 1 /\ parsed[j].load = 1
            ELSE \E i \in earlier : (\A k \in earlier : k <= i) /\ Follows(parsed[j], parsed[i])

\* A client that is alone never loses its session: only the bytes of another
\* connection make the shared session fail.
SoleClientKeepsSession ==
    \A c \in Connections : (\A d \in Connections \ {c} : conn[d] = "idle") => ~ ssl.failed

\* No record that c sends is longer than read_buffer.
FitsBuffer(c) == \A r \in DOMAIN records[c] : records[c][r] = 1

\* A load waits in the session for bytes that need not come only where TCP glued
\* records together or a record is longer than read_buffer: on_read calls
\* SSL_read once, and that is enough as long as no read ends two records and
\* each is a single load, wherever the records are cut.
NothingStranded ==
    InitFinished(ssl) /\ ssl.peer \notin glued /\ FitsBuffer(ssl.peer) => ~ HasLoad(ssl)

\* Every backend connection carries exactly one request, although what is
\* written is decided when the backend answers and from the fields that all
\* connections have collected until then.
OneRequestPerForward ==
    \A i \in DOMAIN forwards : forwards[i].state = "written" => forwards[i].written = 1

\* The pool is exhausted, with undefined effect, only by as many parsed loads as
\* its blocks can serve: nothing else uses it up.
PoolLastsForItsBlocks ==
    process = "undefined" =>
        \E n \in {d.blocks : d \in Documents} : n * Len(parsed) > PoolBlocks

\* A request that was accepted for resolving is written to its backend, its
\* connection fails, or OnResolvedIpv4 gives it up without a word: none stays
\* on its way for ever, whatever happens to the client's connection meanwhile.
ForwardsComplete ==
    \A i \in 1 .. MaxForwards :
        (i \in DOMAIN forwards /\ forwards[i].state = "resolving")
            ~> (process # "running"
                  \/ (i \in DOMAIN forwards /\ forwards[i].state \in {"written", "closed", "abandoned"}))

\* The HTTP test of the repository posts a query and takes an answer for
\* success: a parsed request is answered, unless its client hangs up before.
RequestIsAnswered ==
    \A c \in Connections :
        (\E i \in DOMAIN parsed : parsed[i].sender = c)
            ~> (process # "running" \/ c \in ended \/ conn[c] = "closed"
                  \/ "response" \in answers[c])

\* If the parent is dead, the server is killed.
ParentDeathStopsServer == (parent = "dead") ~> (process # "running")

=============================================================================
