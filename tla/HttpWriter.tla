----------------------------- MODULE HttpWriter -----------------------------
(***************************************************************************)
(* HttpWriter, src/program/http_response.cpp, as OnClientConnect uses it:  *)
(* one writer per selected field, all on the socket of one ClientRequest.  *)
(*                                                                         *)
(* uv_write keeps a pointer to the buffer, not its bytes: what the socket  *)
(* does not take at once is read from the writer's buffer later, as it is  *)
(* then.  A writer that flushes because its buffer is full fills the same  *)
(* buffer again.  Only a request that fits is therefore safe, and          *)
(* RequestsFit is what the gateway's one endpoint and its constant headers *)
(* give: well under the 4096 bytes of buffer_size_.                        *)
(*                                                                         *)
(* External: libuv and the backend.  uv_write tries to send at once unless *)
(* something is queued, the loop sends the rest, and a connection that     *)
(* breaks ends every queued write with an error.  The text of a call of    *)
(* Write is where it ends in all that its writer is given, a byte is its   *)
(* writer and its place there.                                             *)
(***************************************************************************)
EXTENDS Integers, Sequences, FiniteSetsExt

CONSTANTS
    BufferSize,   \* buffer_size_
    RequestLists  \* what a ClientRequest may have to write, see requests

ASSUME WriterAssumption ==
    /\ BufferSize \in Nat \ {0}
    /\ \A list \in RequestLists :
          /\ list \in Seq(Seq(Nat))
          /\ \A f \in DOMAIN list : \A c, d \in DOMAIN list[f] : c <= d => list[f][c] <= list[f][d]

VARIABLES
    pc,           \* "connecting", "write" or "returned": where OnClientConnect is
    connection,   \* "open" or "broken"
    requests,     \* for every field, where the texts given to Write end
    field,        \* the field whose request is written
    call, offset, \* the call of Write it is in, and i of its loop
    write_buffer_, position_, \* of the writer of each field
    write_queue,  \* libuv: the writes of the socket not yet done, oldest first
    wire          \* the bytes the socket has taken

writerVars == <<write_buffer_, position_>>
vars == <<pc, connection, requests, field, call, offset, writerVars, write_queue, wire>>

Fields == 1 .. Len(requests)

\* Where the text of call c begins, and how long it is.
Begin(f, c) == IF c = 1 THEN 0 ELSE requests[f][c - 1]
TextLength(f, c) == requests[f][c] - Begin(f, c)
Length(f) == Begin(f, Len(requests[f]) + 1)
RequestsFit == \A f \in Fields : Length(f) <= BufferSize

Byte(f, i) == [field |-> f, index |-> i]
NoByte == Byte(0, 0)

Init ==
    /\ pc = "connecting"
    /\ connection = "open"
    /\ requests \in RequestLists
    /\ field = 1 /\ call = 1 /\ offset = 0
    /\ write_buffer_ = [f \in Fields |-> [i \in 0 .. BufferSize - 1 |-> NoByte]]
    /\ position_ = [f \in Fields |-> 0]
    /\ write_queue = <<>>
    /\ wire = <<>>

-----------------------------------------------------------------------------
(* libuv *)

\* The first n bytes that a write has left, from the buffer as it is now.
Unsent(w, n, buffers) == [i \in 1 .. n |-> buffers[w.writer][w.sent + i - 1]]

\* A write of the first length bytes of f's buffer, of which some are sent.
Queued(f, length, sent) == [writer |-> f, length |-> length, sent |-> sent]

\* uv_write of the first n bytes of f's buffer.  On a broken connection it
\* fails, or the write is queued and fails when the loop runs.
uv_write(f, n) ==
    LET w == Queued(f, n, 0) IN
    IF connection = "broken" THEN UNCHANGED <<write_queue, wire>>
    ELSE IF write_queue # <<>>
    THEN write_queue' = Append(write_queue, w) /\ UNCHANGED wire
    ELSE \E k \in 0 .. n :
            /\ wire' = wire \o Unsent(w, k, write_buffer_)
            /\ write_queue' = IF k = n THEN <<>> ELSE <<Queued(f, n, k)>>

\* The loop finds the socket writable and it takes k more bytes.  A write that
\* is done is handed to OnWriteEnd, which only deletes the request.
PollOut ==
    /\ pc = "returned"
    /\ write_queue # <<>>
    /\ LET w == Head(write_queue) IN
       \E k \in 1 .. w.length - w.sent :
          /\ wire' = wire \o Unsent(w, k, write_buffer_)
          /\ write_queue' = IF w.sent + k = w.length THEN Tail(write_queue)
                            ELSE <<Queued(w.writer, w.length, w.sent + k)>> \o Tail(write_queue)
    /\ UNCHANGED <<pc, connection, requests, field, call, offset, writerVars>>

\* The backend goes away: OnWriteEnd runs with an error for every write.
Break ==
    /\ pc = "returned"
    /\ connection = "open"
    /\ connection' = "broken"
    /\ write_queue' = <<>>
    /\ UNCHANGED <<pc, requests, field, call, offset, writerVars, wire>>

-----------------------------------------------------------------------------
(* OnClientConnect and the writer *)

\* The connection is made, or was refused: the status of a refusal is not -1,
\* and even -1 is only printed, so the requests are written either way.
OnClientConnect ==
    /\ pc = "connecting"
    /\ pc' = IF requests = <<>> THEN "returned" ELSE "write"
    /\ connection' \in {"open", "broken"}
    /\ UNCHANGED <<requests, field, call, offset, writerVars, write_queue, wire>>

\* The number of the byte that Write is about to store, from the first one.
ByteIndex == Begin(field, call) + offset + 1

\* Variant: the buffer counts as full one byte early.
IsFullEarly(f) == position_[f] = BufferSize - 1

IsFull(f) == position_[f] = BufferSize

\* The write of what the buffer holds; its result is only printed.
WriteToSocket(f) == uv_write(f, position_[f])

\* One round of the loop of Write, which flushes a full buffer first.
Store ==
    /\ pc = "write"
    /\ call <= Len(requests[field])
    /\ offset < TextLength(field, call)
    /\ LET at == IF IsFull(field) THEN 0 ELSE position_[field] IN
       /\ write_buffer_' =
              [write_buffer_ EXCEPT ![field] = [@ EXCEPT ![at] = Byte(field, ByteIndex)]]
       /\ position_' = [position_ EXCEPT ![field] = at + 1]
    /\ IF IsFull(field) THEN WriteToSocket(field) ELSE UNCHANGED <<write_queue, wire>>
    /\ offset' = offset + 1
    /\ UNCHANGED <<pc, connection, requests, field, call>>

\* Write returns and the next call begins.
NextCall ==
    /\ pc = "write"
    /\ call <= Len(requests[field])
    /\ offset = TextLength(field, call)
    /\ call' = call + 1
    /\ offset' = 0
    /\ UNCHANGED <<pc, connection, requests, field, writerVars, write_queue, wire>>

\* Variant: End does not flush.
FlushBufferNever(f) == UNCHANGED <<position_, write_queue, wire>>

FlushBuffer(f) ==
    IF position_[f] = 0 THEN UNCHANGED <<position_, write_queue, wire>>
    ELSE /\ WriteToSocket(f)
         /\ position_' = [position_ EXCEPT ![f] = 0]

\* End, after the last call; the next field has a writer of its own.
End ==
    /\ pc = "write"
    /\ call > Len(requests[field])
    /\ FlushBuffer(field)
    /\ IF field = Len(requests)
       THEN pc' = "returned" /\ UNCHANGED <<field, call, offset>>
       ELSE field' = field + 1 /\ call' = 1 /\ offset' = 0 /\ UNCHANGED pc
    /\ UNCHANGED <<connection, requests, write_buffer_>>

Next == OnClientConnect \/ Store \/ NextCall \/ End \/ PollOut \/ Break

\* The callback is sequential code, and the loop waits for the socket as long
\* as a write is queued; that the backend reads, or goes away, is assumed of it.
Fairness ==
    /\ WF_vars(OnClientConnect) /\ WF_vars(Store \/ NextCall \/ End)
    /\ WF_vars(PollOut)

Spec == Init /\ [][Next]_vars /\ Fairness

-----------------------------------------------------------------------------
(* Properties *)

\* Byte b is to be received behind a, or first if a is NoByte: it is the next one
\* of the same request, or the first of the next request that has any.
Finished(a) == a = NoByte \/ a.index = Length(a.field)
Follows(a, b) ==
    \/ b.field = a.field /\ b.index = a.index + 1
    \/ /\ b.field > a.field /\ b.index = 1 /\ Finished(a)
       /\ \A g \in a.field + 1 .. b.field - 1 : Length(g) = 0

\* The bytes are those of the requests, from the first one on.
InOrder(bytes) ==
    \A i \in DOMAIN bytes :
        /\ bytes[i].field \in Fields /\ bytes[i].index \in 1 .. Length(bytes[i].field)
        /\ Follows(IF i = 1 THEN NoByte ELSE bytes[i - 1], bytes[i])

\* No byte is stored behind the end of a buffer.  When every request fits into
\* the buffer, the backend receives the requests whole and one after another, however the socket cuts them: nothing that a
\* queued write still has to read is overwritten (Write, FlushBuffer).
WireInOrder ==
    /\ \A f \in Fields : position_[f] <= BufferSize
    /\ RequestsFit => InOrder(wire)

\* Whatever the sizes, as many bytes as were written reach the backend and
\* stay the last ones, unless the connection breaks: a flush is neither lost nor
\* repeated, and End sends what the buffer still holds.
RequestsArrive == <>[](connection = "broken" \/ Len(wire) = MapThenSumSet(Length, Fields))
=============================================================================
