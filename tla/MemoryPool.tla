----------------------------- MODULE MemoryPool -----------------------------
(***************************************************************************)
(* The memory pool of src/lib/memory_pool.cpp.  The pool cuts one malloc'ed*)
(* area into blocks of equal size and keeps the numbers of the unused ones *)
(* on a stack.  A request takes a ticket: one block, whose first           *)
(* sizeof(MemoryPoolTicket) bytes hold the ticket itself.  Every syntax    *)
(* node of the request is carved out of the ticket's current block, and    *)
(* when it does not fit a further block is popped, the earlier one being   *)
(* forgotten by the ticket.  Returning a ticket pushes its current block   *)
(* only.                                                                   *)
(*                                                                         *)
(* AllocateBlock does not look whether the stack is empty: top() and pop() *)
(* of an empty std::stack are undefined.  From then on any outcome is      *)
(* possible, so the state "undefined" is final.                            *)
(*                                                                         *)
(* spans and forgotten are history: the code keeps no record of what it    *)
(* gave away.                                                              *)
(***************************************************************************)
EXTENDS Integers, Sequences

CONSTANTS
    Tickets,      \* identities of tickets, one for each concurrent request
    NumBlocks,    \* total_size / block_size
    BlockSize,    \* block_size
    TicketSize,   \* sizeof(MemoryPoolTicket)
    PoolAddress,  \* start_address_of_pool, what malloc returned
    Requests      \* the (sizeof, alignof) pairs the pool is asked for

ASSUME PoolAssumption ==
    /\ NumBlocks \in Nat \ {0}
    /\ BlockSize \in Nat \ {0}
    /\ TicketSize \in 1 .. BlockSize
    /\ PoolAddress \in Nat
    /\ Requests \subseteq [size : 1 .. BlockSize, alignment : Nat]

VARIABLES
    free_blocks,  \* the stack of unused blocks, its top last
    tickets,      \* the fields of every ticket
    live,         \* tickets taken and not returned
    spans,        \* what was given to live tickets, the ticket's own bytes included
    forgotten,    \* blocks that no live ticket points to and that are not free
    status        \* "running", or "undefined" after top() of the empty stack

vars == <<free_blocks, tickets, live, spans, forgotten, status>>

Blocks == 0 .. NumBlocks - 1

\* A ticket that was not taken, or was returned.
NoTicket == [block |-> 0, offset |-> 0]

Span == [session : Tickets, block : Blocks, start : 0 .. BlockSize, size : 1 .. BlockSize,
         alignment : Nat]

\* The bytes of t that begin at byte `start` of `block`.
SpanOf(t, block, start, size, alignment) ==
    [session |-> t, block |-> block, start |-> start, size |-> size, alignment |-> alignment]

-----------------------------------------------------------------------------
\* Reset, called by the constructor only: every block is pushed, 0 first.
Init ==
    /\ free_blocks = [i \in 1 .. NumBlocks |-> i - 1]
    /\ tickets = [t \in Tickets |-> NoTicket]
    /\ live = {}
    /\ spans = {}
    /\ forgotten = {}
    /\ status = "running"

\* The block that top() sees and pop() removes.
AllocateBlock(block) ==
    /\ free_blocks # <<>>
    /\ block = free_blocks[Len(free_blocks)]
    /\ free_blocks' = SubSeq(free_blocks, 1, Len(free_blocks) - 1)

\* top() and pop() of the empty stack.
AllocateBlockFromEmpty ==
    /\ free_blocks = <<>>
    /\ status' = "undefined"
    /\ UNCHANGED <<free_blocks, tickets, live, spans, forgotten>>

\* Variant: the ticket's own bytes are not set aside.
TakeTicketFromZero(t) ==
    /\ status = "running"
    /\ t \notin live
    /\ \E block \in Blocks :
         /\ AllocateBlock(block)
         /\ tickets' = [tickets EXCEPT ![t] = [block |-> block, offset |-> 0]]
         /\ live' = live \cup {t}
         /\ spans' = spans \cup {SpanOf(t, block, 0, TicketSize, 0)}
         /\ UNCHANGED <<forgotten, status>>

\* A new ticket in a block of its own, which it shares with the first nodes.
TakeTicket(t) ==
    /\ status = "running"
    /\ t \notin live
    /\ \/ AllocateBlockFromEmpty
       \/ \E block \in Blocks :
            /\ AllocateBlock(block)
            /\ tickets' = [tickets EXCEPT ![t] = [block |-> block, offset |-> TicketSize]]
            /\ live' = live \cup {t}
            /\ spans' = spans \cup {SpanOf(t, block, 0, TicketSize, 0)}
            /\ UNCHANGED <<forgotten, status>>

\* Variant: a ticket that was returned is still in use.
ReturnTicketKeepsUsing(t) ==
    /\ status = "running"
    /\ t \in live
    /\ free_blocks' = Append(free_blocks, tickets[t].block)
    /\ Len(free_blocks') <= NumBlocks
    /\ UNCHANGED <<tickets, live, spans, forgotten, status>>

\* The current block becomes free; blocks the ticket had filled before do not.
ReturnTicket(t) ==
    /\ status = "running"
    /\ t \in live
    /\ free_blocks' = Append(free_blocks, tickets[t].block)
    /\ tickets' = [tickets EXCEPT ![t] = NoTicket]
    /\ live' = live \ {t}
    /\ spans' = {s \in spans : s.session # t}
    /\ UNCHANGED <<forgotten, status>>

\* Variant: rounds up to one below the next multiple.
PaddingOffByOne(ticket, alignment) ==
    LET current_address == PoolAddress + ticket.block * BlockSize + ticket.offset
    IN  IF alignment # 0 THEN alignment - 1 - (current_address % alignment) ELSE 0

\* Bytes up to the next multiple of the alignment.  Whether any are needed is
\* decided on the offset, how many on the address.
Padding(ticket, alignment) ==
    LET current_address == PoolAddress + ticket.block * BlockSize + ticket.offset
    IN  IF alignment # 0 /\ ticket.offset % alignment # 0
        THEN (current_address \div alignment + 1) * alignment - current_address
        ELSE 0

\* Variant: the padding is forgotten.
FitsWithoutPadding(ticket, request) == ticket.offset + request.size <= BlockSize

\* The node and the padding still fit in the current block.
Fits(ticket, request) ==
    ticket.offset + Padding(ticket, request.alignment) + request.size <= BlockSize

\* The address returned is the one before the padding, which therefore lies
\* behind the node.
AllocateInBlock(t, request) ==
    /\ Fits(tickets[t], request)
    /\ tickets' = [tickets EXCEPT ![t].offset =
                     @ + Padding(tickets[t], request.alignment) + request.size]
    /\ spans' = spans \cup {SpanOf(t, tickets[t].block, tickets[t].offset,
                                   request.size, request.alignment)}
    /\ UNCHANGED <<free_blocks, live, forgotten, status>>

\* The node goes to the start of a fresh block.  The test `block == -1` behind
\* "Out of memory" is left out: no block of the stack has that number.
AllocateInNextBlock(t, request) ==
    /\ ~ Fits(tickets[t], request)
    /\ \/ AllocateBlockFromEmpty
       \/ \E block \in Blocks :
            /\ AllocateBlock(block)
            /\ tickets' = [tickets EXCEPT ![t] = [block |-> block, offset |-> request.size]]
            /\ spans' = spans \cup {SpanOf(t, block, 0, request.size, request.alignment)}
            /\ forgotten' = forgotten \cup {tickets[t].block}
            /\ UNCHANGED <<live, status>>

Allocate(t, request) ==
    /\ status = "running"
    /\ t \in live
    /\ AllocateInBlock(t, request) \/ AllocateInNextBlock(t, request)

Next ==
    \E t \in Tickets :
        \/ TakeTicket(t)
        \/ ReturnTicket(t)
        \/ \E request \in Requests : Allocate(t, request)

Spec == Init /\ [][Next]_vars

-----------------------------------------------------------------------------
(* Properties *)

\* Type invariant.  That the stack holds block numbers only is also why the
\* "Out of memory" test of Allocate can never succeed.
TypeOK ==
    /\ free_blocks \in Seq(Blocks)
    /\ tickets \in [Tickets -> [block : Blocks, offset : 0 .. BlockSize]]
    /\ live \subseteq Tickets
    /\ spans \subseteq Span
    /\ forgotten \subseteq Blocks
    /\ status \in {"running", "undefined"}

OnStack(block) == \E i \in 1 .. Len(free_blocks) : free_blocks[i] = block

Current(block) == \E t \in live : tickets[t].block = block

\* Every block is in exactly one place: once on the stack of AllocateBlock and
\* ReturnTicket, or current in exactly one live ticket, or forgotten by a
\* ticket that went on to a further block.
BlocksAccountedFor ==
    /\ \A i, j \in 1 .. Len(free_blocks) : free_blocks[i] = free_blocks[j] => i = j
    /\ \A t, u \in live : tickets[t].block = tickets[u].block => t = u
    /\ \A block \in Blocks :
          /\ OnStack(block) \/ Current(block) \/ block \in forgotten
          /\ ~ (OnStack(block) /\ Current(block))
          /\ ~ (OnStack(block) /\ block \in forgotten)
          /\ ~ (Current(block) /\ block \in forgotten)

\* What the arena of a request sees of the pool.
Regions == {[session |-> s.session, block |-> s.block, start |-> s.start, size |-> s.size]
              : s \in spans}

RequestArena == INSTANCE Arena WITH Sessions <- Tickets, regions <- Regions

\* Memory that Allocate or TakeTicket gave to a live ticket lies inside one
\* block and shares no byte with anything else given to a live ticket: nodes
\* of two requests never overlap, and no node overwrites a ticket's fields.
Isolation ==
    \A s \in spans :
        /\ s.start + s.size <= BlockSize
        /\ \A q \in spans : s # q => ~ RequestArena!Overlap(s, q)

\* Where the live memory of a request is: in a block it has filled, or below
\* the offset of its ticket.  ReturnTicket and AllocateBlock rely on it: no
\* block of the stack holds live memory.
SpansBelowOffset ==
    \A s \in spans :
        /\ s.session \in live
        /\ \/ s.block \in forgotten
           \/ /\ s.block = tickets[s.session].block
              /\ s.start + s.size <= tickets[s.session].offset

\* The pool with its tickets, stack and padding implements the arena.
ImplementsArena == RequestArena!Spec

\* In a block where one alignment is asked for, with sizes that are multiples of
\* it, as the syntax nodes do, every address that Allocate returns is aligned,
\* although it is taken before the padding is added.
AllocationsAligned ==
    \A s \in spans :
        /\ s.alignment # 0 /\ PoolAddress % s.alignment = 0 /\ BlockSize % s.alignment = 0
        /\ \A q \in spans : q.block = s.block =>
              q.alignment \in {0, s.alignment} /\ q.size % s.alignment = 0
        => (PoolAddress + s.block * BlockSize + s.start) % s.alignment = 0

\* Running out of blocks is always reported by the exception of Allocate and
\* never ends in top() of an empty stack.
OutOfMemoryReported == status # "undefined"

=============================================================================
