-------------------------- MODULE MemoryPoolProofs --------------------------
(***************************************************************************)
(* Proofs about the memory pool, for every number of tickets and blocks,   *)
(* every block size and every set of requests that fit a block.            *)
(***************************************************************************)
EXTENDS MemoryPool, SequenceTheorems, TLAPS

-----------------------------------------------------------------------------
(* The operators the pool is built from *)

\* top() and pop() of a std::stack that is not empty.
LEMMA StackPop ==
    ASSUME NEW S, NEW s \in Seq(S), s # <<>>
    PROVE  LET rest == SubSeq(s, 1, Len(s) - 1)
           IN  /\ Len(s) \in Nat \ {0}
               /\ s[Len(s)] \in S
               /\ rest \in Seq(S)
               /\ Len(rest) = Len(s) - 1
               /\ \A i \in 1 .. Len(rest) : rest[i] = s[i]
<1>. DEFINE n == Len(s)
            rest == SubSeq(s, 1, n - 1)
<1>1. n \in Nat \ {0} /\ n - 1 \in Int
  BY EmptySeq, LenProperties
<1>2. s[n] \in S /\ \A i \in 1 .. n - 1 : s[i] \in S
  BY <1>1, ElementOfSeq
<1>. HIDE DEF n
<1>3. /\ rest \in Seq(S)
      /\ Len(rest) = IF 1 <= n - 1 THEN n - 1 - 1 + 1 ELSE 0
      /\ \A i \in 1 .. n - 1 - 1 + 1 : rest[i] = s[1 + i - 1]
  BY <1>1, <1>2, SubSeqProperties
<1>. HIDE DEF rest
<1>4. Len(rest) = n - 1
  BY <1>1, <1>3
<1>5. \A i \in 1 .. Len(rest) : rest[i] = s[i]
  BY <1>1, <1>3, <1>4
<1>. QED
  BY <1>1, <1>2, <1>3, <1>4, <1>5 DEF rest, n

\* What AllocateBlock does to the stack.
LEMMA PopFacts ==
    ASSUME TypeOK, NEW block, AllocateBlock(block)
    PROVE  /\ block \in Blocks
           /\ Len(free_blocks) \in Nat \ {0}
           /\ free_blocks' \in Seq(Blocks)
           /\ Len(free_blocks') = Len(free_blocks) - 1
           /\ \A i \in 1 .. Len(free_blocks') : free_blocks'[i] = free_blocks[i]
           /\ block = free_blocks[Len(free_blocks)]
<1>1. free_blocks \in Seq(Blocks) /\ free_blocks # <<>>
  BY DEF TypeOK, AllocateBlock
<1>2. /\ block = free_blocks[Len(free_blocks)]
      /\ free_blocks' = SubSeq(free_blocks, 1, Len(free_blocks) - 1)
  BY DEF AllocateBlock
<1>. QED
  BY <1>1, <1>2, StackPop, Zenon

\* What ReturnTicket does to the stack.
LEMMA PushFacts ==
    ASSUME TypeOK, NEW t \in live, ReturnTicket(t)
    PROVE  /\ tickets[t].block \in Blocks
           /\ Len(free_blocks) \in Nat
           /\ free_blocks' \in Seq(Blocks)
           /\ Len(free_blocks') = Len(free_blocks) + 1
           /\ \A i \in 1 .. Len(free_blocks) : free_blocks'[i] = free_blocks[i]
           /\ free_blocks'[Len(free_blocks) + 1] = tickets[t].block
<1>1. free_blocks \in Seq(Blocks) /\ tickets[t].block \in Blocks
  BY DEF TypeOK
<1>2. free_blocks' = Append(free_blocks, tickets[t].block)
  BY DEF ReturnTicket
<1>. QED
  BY <1>1, <1>2, AppendProperties, LenProperties

\* Rounding up to the next multiple goes forward, by at most the alignment.
LEMMA RoundUp ==
    ASSUME NEW k \in Nat \ {0}, NEW a \in Nat
    PROVE  (a \div k + 1) * k - a \in 0 .. k
<1>1. ASSUME NEW d \in Int, NEW r \in 0 .. k - 1, a = k * d + r
      PROVE  (d + 1) * k - a \in 0 .. k
  <2>1. (d + 1) * k = k * d + k /\ k * d \in Int
    OBVIOUS
  <2>2. (d + 1) * k - a = k - r
    BY <1>1, <2>1
  <2>. QED
    BY <2>2
<1>2. /\ a \div k \in Int
      /\ a % k \in 0 .. k - 1
      /\ a = k * (a \div k) + (a % k)
  OBVIOUS
<1>. QED
  BY <1>1, <1>2

\* The padding that Allocate adds is never negative.
LEMMA PaddingIsNat ==
    ASSUME NEW ticket \in [block : Blocks, offset : 0 .. BlockSize], NEW alignment \in Nat
    PROVE  Padding(ticket, alignment) \in Nat
<1>. DEFINE a == PoolAddress + ticket.block * BlockSize + ticket.offset
<1>1. a \in Nat
  BY PoolAssumption DEF Blocks
<1>. HIDE DEF a
<1>2. CASE alignment # 0
  BY <1>1, <1>2, RoundUp DEF Padding, a
<1>3. CASE alignment = 0
  BY <1>3 DEF Padding
<1>. QED
  BY <1>2, <1>3

-----------------------------------------------------------------------------
(* Type correctness *)

\* A step that finds the stack empty changes nothing but the status.
LEMMA TypeEmpty ==
    ASSUME TypeOK, AllocateBlockFromEmpty
    PROVE  TypeOK'
BY DEF TypeOK, AllocateBlockFromEmpty

\* TakeTicket keeps the types.
LEMMA TypeTake ==
    ASSUME TypeOK, NEW t \in Tickets, TakeTicket(t)
    PROVE  TypeOK'
<1>1. CASE AllocateBlockFromEmpty
  BY <1>1, TypeEmpty
<1>2. ASSUME NEW block \in Blocks,
             AllocateBlock(block),
             tickets' = [tickets EXCEPT ![t] = [block |-> block, offset |-> TicketSize]],
             live' = live \cup {t},
             spans' = spans \cup {SpanOf(t, block, 0, TicketSize, 0)},
             UNCHANGED <<forgotten, status>>
      PROVE  TypeOK'
  <2>1. free_blocks' \in Seq(Blocks)
    BY <1>2, PopFacts
  <2>2. tickets' \in [Tickets -> [block : Blocks, offset : 0 .. BlockSize]]
    BY <1>2, PoolAssumption DEF TypeOK
  <2>3. SpanOf(t, block, 0, TicketSize, 0) \in Span
    BY PoolAssumption DEF SpanOf, Span
  <2>. QED
    BY <1>2, <2>1, <2>2, <2>3 DEF TypeOK
<1>. QED
  BY <1>1, <1>2 DEF TakeTicket

\* ReturnTicket keeps the types.
LEMMA TypeReturn ==
    ASSUME TypeOK, NEW t \in Tickets, ReturnTicket(t)
    PROVE  TypeOK'
<1>1. free_blocks' \in Seq(Blocks)
  BY PushFacts DEF ReturnTicket
<1>2. tickets' \in [Tickets -> [block : Blocks, offset : 0 .. BlockSize]]
  BY PoolAssumption DEF TypeOK, ReturnTicket, NoTicket, Blocks
<1>. QED
  BY <1>1, <1>2 DEF TypeOK, ReturnTicket

\* What an allocation in the current block does, without the padding's detail.
LEMMA InBlockFacts ==
    ASSUME TypeOK, NEW t \in Tickets, NEW request \in Requests, AllocateInBlock(t, request)
    PROVE  \E offset \in 0 .. BlockSize :
              /\ tickets[t].offset + request.size <= offset
              /\ tickets' = [tickets EXCEPT ![t].offset = offset]
<1>. DEFINE padding == Padding(tickets[t], request.alignment)
<1>1. tickets[t] \in [block : Blocks, offset : 0 .. BlockSize]
  BY DEF TypeOK
<1>2. request.size \in 1 .. BlockSize /\ request.alignment \in Nat
  BY PoolAssumption
<1>3. padding \in Nat
  BY <1>1, <1>2, PaddingIsNat
<1>4. /\ tickets[t].offset + padding + request.size <= BlockSize
      /\ tickets' = [tickets EXCEPT ![t].offset = @ + padding + request.size]
  BY DEF AllocateInBlock, Fits
<1>. HIDE DEF padding
<1>5. /\ tickets[t].offset + padding + request.size \in 0 .. BlockSize
      /\ tickets[t].offset + request.size <= tickets[t].offset + padding + request.size
  BY <1>1, <1>2, <1>3, <1>4, PoolAssumption
<1>. QED
  BY <1>1, <1>4, <1>5

\* Allocate keeps the types.
LEMMA TypeAllocate ==
    ASSUME TypeOK, NEW t \in Tickets, NEW request \in Requests, Allocate(t, request)
    PROVE  TypeOK'
<1>1. request.size \in 1 .. BlockSize /\ request.alignment \in Nat
  BY PoolAssumption
<1>2. CASE AllocateInBlock(t, request)
  <2>1. tickets' \in [Tickets -> [block : Blocks, offset : 0 .. BlockSize]]
    BY <1>2, InBlockFacts DEF TypeOK
  <2>2. SpanOf(t, tickets[t].block, tickets[t].offset, request.size, request.alignment) \in Span
    BY <1>1 DEF TypeOK, SpanOf, Span
  <2>. QED
    BY <1>2, <2>1, <2>2 DEF TypeOK, AllocateInBlock
<1>3. CASE AllocateBlockFromEmpty
  BY <1>3, TypeEmpty
<1>4. ASSUME NEW block \in Blocks,
             AllocateBlock(block),
             tickets' = [tickets EXCEPT ![t] = [block |-> block, offset |-> request.size]],
             spans' = spans \cup {SpanOf(t, block, 0, request.size, request.alignment)},
             forgotten' = forgotten \cup {tickets[t].block},
             UNCHANGED <<live, status>>
      PROVE  TypeOK'
  <2>1. free_blocks' \in Seq(Blocks)
    BY <1>4, PopFacts
  <2>2. tickets' \in [Tickets -> [block : Blocks, offset : 0 .. BlockSize]]
    BY <1>1, <1>4, PoolAssumption DEF TypeOK
  <2>3. SpanOf(t, block, 0, request.size, request.alignment) \in Span
    BY <1>1, PoolAssumption DEF SpanOf, Span
  <2>4. forgotten' \subseteq Blocks
    BY <1>4 DEF TypeOK
  <2>. QED
    BY <1>4, <2>1, <2>2, <2>3, <2>4 DEF TypeOK
<1>. QED
  BY <1>2, <1>3, <1>4 DEF Allocate, AllocateInNextBlock

\* The stack, the tickets and the spans always hold values of their types; in
\* particular no block number on the stack is the -1 that Allocate looks for.
THEOREM TypeCorrect == Spec => []TypeOK
<1>1. Init => TypeOK
  <2>1. [i \in 1 .. NumBlocks |-> i - 1] \in Seq(Blocks)
    BY PoolAssumption DEF Blocks
  <2>. QED
    BY <2>1, PoolAssumption DEF Init, TypeOK, NoTicket, Blocks
<1>2. TypeOK /\ [Next]_vars => TypeOK'
  <2>1. CASE UNCHANGED vars
    BY <2>1 DEF vars, TypeOK
  <2>. QED
    BY <2>1, TypeTake, TypeReturn, TypeAllocate DEF Next
<1>. QED
  BY <1>1, <1>2, PTL DEF Spec

-----------------------------------------------------------------------------
(* Where blocks and spans are *)

\* The inductive invariant.  Isolation alone is not inductive: a step that
\* takes memory must know that nothing live lies in a block of the stack, nor
\* above the offset of a ticket.
PoolInv == TypeOK /\ BlocksAccountedFor /\ SpansBelowOffset /\ Isolation

\* A block that AllocateBlock pops was nowhere else, and the others stay where
\* they are.
LEMMA PopMovesOneBlock ==
    ASSUME PoolInv, NEW block, AllocateBlock(block)
    PROVE  /\ OnStack(block) /\ ~ Current(block) /\ block \notin forgotten
           /\ \A b \in Blocks : OnStack(b)' <=> OnStack(b) /\ b # block
           /\ \A i, j \in 1 .. Len(free_blocks') : free_blocks'[i] = free_blocks'[j] => i = j
           /\ \A s \in spans : s.block # block
<1>1. /\ block \in Blocks
      /\ Len(free_blocks) \in Nat \ {0}
      /\ Len(free_blocks') = Len(free_blocks) - 1
      /\ \A i \in 1 .. Len(free_blocks') : free_blocks'[i] = free_blocks[i]
      /\ block = free_blocks[Len(free_blocks)]
  BY PopFacts DEF PoolInv
<1>2. \A i, j \in 1 .. Len(free_blocks) : free_blocks[i] = free_blocks[j] => i = j
  BY DEF PoolInv, BlocksAccountedFor
<1>3. OnStack(block)
  BY <1>1 DEF OnStack
<1>4. ~ Current(block) /\ block \notin forgotten
  BY <1>1, <1>3 DEF PoolInv, BlocksAccountedFor
<1>5. \A b \in Blocks : OnStack(b)' <=> OnStack(b) /\ b # block
  <2>. SUFFICES ASSUME NEW b \in Blocks
                PROVE  OnStack(b)' <=> OnStack(b) /\ b # block
    OBVIOUS
  <2>1. OnStack(b)' => OnStack(b) /\ b # block
    BY <1>1, <1>2 DEF OnStack
  <2>2. OnStack(b) /\ b # block => OnStack(b)'
    BY <1>1 DEF OnStack
  <2>. QED
    BY <2>1, <2>2
<1>6. \A i, j \in 1 .. Len(free_blocks') : free_blocks'[i] = free_blocks'[j] => i = j
  BY <1>1, <1>2
<1>7. \A s \in spans : s.block # block
  BY <1>4 DEF PoolInv, SpansBelowOffset, Current
<1>. QED
  BY <1>3, <1>4, <1>5, <1>6, <1>7

\* A span in a block that nothing live uses is clear of every other span.
LEMMA FreshSpanIsolated ==
    ASSUME PoolInv, NEW span \in Span, span.start + span.size <= BlockSize,
           \A s \in spans : s.block # span.block, spans' = spans \cup {span}
    PROVE  Isolation'
BY DEF PoolInv, Isolation, RequestArena!Overlap

\* TakeTicket keeps the invariant.
LEMMA InvTake ==
    ASSUME PoolInv, NEW t \in Tickets, TakeTicket(t)
    PROVE  PoolInv'
<1>1. TypeOK'
  BY TypeTake DEF PoolInv
<1>2. CASE AllocateBlockFromEmpty
  BY <1>1, <1>2 DEF PoolInv, AllocateBlockFromEmpty, BlocksAccountedFor, SpansBelowOffset,
                    Isolation, OnStack, Current
<1>3. ASSUME NEW block \in Blocks,
             t \notin live,
             AllocateBlock(block),
             tickets' = [tickets EXCEPT ![t] = [block |-> block, offset |-> TicketSize]],
             live' = live \cup {t},
             spans' = spans \cup {SpanOf(t, block, 0, TicketSize, 0)},
             UNCHANGED <<forgotten, status>>
      PROVE  PoolInv'
  <2>1. /\ tickets'[t] = [block |-> block, offset |-> TicketSize]
        /\ \A u \in live : u \in Tickets /\ tickets'[u] = tickets[u]
    BY <1>3 DEF PoolInv, TypeOK
  <2>2. \A b \in Blocks : Current(b)' <=> Current(b) \/ b = block
    BY <1>3, <2>1 DEF Current
  <2>3. BlocksAccountedFor'
    <3>1. \A u, v \in live' : tickets'[u].block = tickets'[v].block => u = v
      BY <1>3, <2>1, PopMovesOneBlock DEF PoolInv, BlocksAccountedFor, Current
    <3>. QED
      BY <1>3, <2>2, <3>1, PopMovesOneBlock DEF PoolInv, BlocksAccountedFor
  <2>4. SpansBelowOffset'
    BY <1>3, <2>1, PoolAssumption DEF PoolInv, SpansBelowOffset, SpanOf
  <2>5. Isolation'
    <3>1. SpanOf(t, block, 0, TicketSize, 0) \in Span
      BY PoolAssumption DEF SpanOf, Span
    <3>. QED
      BY <1>3, <3>1, PopMovesOneBlock, FreshSpanIsolated, PoolAssumption DEF SpanOf
  <2>. QED
    BY <1>1, <2>3, <2>4, <2>5 DEF PoolInv
<1>. QED
  BY <1>2, <1>3 DEF TakeTicket

\* ReturnTicket keeps the invariant: the block it pushes holds no live memory.
LEMMA InvReturn ==
    ASSUME PoolInv, NEW t \in Tickets, ReturnTicket(t)
    PROVE  PoolInv'
<1>1. TypeOK'
  BY TypeReturn DEF PoolInv
<1>2. t \in live /\ live' = live \ {t} /\ forgotten' = forgotten
  BY DEF ReturnTicket
<1>3. \A u \in live' : u \in live /\ u # t /\ tickets'[u] = tickets[u]
  BY <1>2 DEF ReturnTicket, PoolInv, TypeOK
<1>4. /\ tickets[t].block \in Blocks
      /\ Len(free_blocks) \in Nat
      /\ Len(free_blocks') = Len(free_blocks) + 1
      /\ \A i \in 1 .. Len(free_blocks) : free_blocks'[i] = free_blocks[i]
      /\ free_blocks'[Len(free_blocks) + 1] = tickets[t].block
  BY <1>2, PushFacts DEF PoolInv
<1>5. ~ OnStack(tickets[t].block) /\ tickets[t].block \notin forgotten
  BY <1>2, <1>4 DEF PoolInv, BlocksAccountedFor, Current
<1>6. \A b \in Blocks : OnStack(b)' <=> OnStack(b) \/ b = tickets[t].block
  BY <1>4 DEF OnStack
<1>7. \A b \in Blocks : Current(b)' <=> Current(b) /\ b # tickets[t].block
  BY <1>2, <1>3 DEF Current, PoolInv, BlocksAccountedFor
<1>8. BlocksAccountedFor'
  <2>1. \A i, j \in 1 .. Len(free_blocks') : free_blocks'[i] = free_blocks'[j] => i = j
    BY <1>4, <1>5 DEF PoolInv, BlocksAccountedFor, OnStack
  <2>2. \A u, v \in live' : tickets'[u].block = tickets'[v].block => u = v
    BY <1>3 DEF PoolInv, BlocksAccountedFor
  <2>. QED
    BY <1>2, <1>5, <1>6, <1>7, <2>1, <2>2 DEF PoolInv, BlocksAccountedFor
<1>9. SpansBelowOffset'
  BY <1>2, <1>3 DEF PoolInv, SpansBelowOffset, ReturnTicket
<1>10. Isolation'
  BY DEF PoolInv, Isolation, ReturnTicket
<1>. QED
  BY <1>1, <1>8, <1>9, <1>10 DEF PoolInv

\* Allocate keeps the invariant: above the offset of a ticket, and in a block
\* just popped, nothing is live.
LEMMA InvAllocate ==
    ASSUME PoolInv, NEW t \in Tickets, NEW request \in Requests, Allocate(t, request)
    PROVE  PoolInv'
<1>1. TypeOK'
  BY TypeAllocate DEF PoolInv
<1>2. request.size \in 1 .. BlockSize /\ request.alignment \in Nat /\ t \in live
  BY PoolAssumption DEF Allocate
<1>3. CASE AllocateInBlock(t, request)
  <2>. DEFINE span == SpanOf(t, tickets[t].block, tickets[t].offset, request.size,
                             request.alignment)
  <2>1. PICK offset \in 0 .. BlockSize :
           /\ tickets[t].offset + request.size <= offset
           /\ tickets' = [tickets EXCEPT ![t].offset = offset]
    BY <1>3, InBlockFacts DEF PoolInv
  <2>2. /\ UNCHANGED <<free_blocks, live, forgotten>>
        /\ spans' = spans \cup {span}
    BY <1>3 DEF AllocateInBlock
  <2>3. /\ \A u \in Tickets : tickets'[u].block = tickets[u].block
        /\ tickets'[t].offset = offset
        /\ \A u \in Tickets : u # t => tickets'[u].offset = tickets[u].offset
    BY <2>1 DEF PoolInv, TypeOK
  <2>4. BlocksAccountedFor'
    BY <2>2, <2>3 DEF PoolInv, TypeOK, BlocksAccountedFor, OnStack, Current
  <2>5. /\ span.session = t /\ span.block = tickets[t].block
        /\ span.start = tickets[t].offset /\ span.size = request.size
        /\ tickets[t].offset \in 0 .. BlockSize
    BY DEF SpanOf, PoolInv, TypeOK
  <2>6. \A s \in spans : s.block = tickets[t].block
                           => s.session = t /\ s.start + s.size <= tickets[t].offset
    BY <1>2 DEF PoolInv, TypeOK, SpansBelowOffset, BlocksAccountedFor, Current, Span
  <2>. HIDE DEF span
  <2>7. SpansBelowOffset'
    <3>. DEFINE Placed(s) == /\ s.session \in live'
                             /\ \/ s.block \in forgotten'
                                \/ /\ s.block = tickets'[s.session].block
                                   /\ s.start + s.size <= tickets'[s.session].offset
    <3>1. ASSUME NEW s \in spans PROVE Placed(s)
      <4>1. s.session \in live /\ s.session \in Tickets /\ s.start + s.size \in Int
        BY DEF PoolInv, TypeOK, SpansBelowOffset, Span
      <4>2. tickets[s.session].offset <= tickets'[s.session].offset
        BY <1>2, <2>1, <2>3, <2>5, <4>1 DEF PoolInv, TypeOK
      <4>3. tickets[s.session].offset \in Int /\ tickets'[s.session].offset \in Int
        BY <1>1, <4>1 DEF PoolInv, TypeOK
      <4>. QED
        BY <2>2, <2>3, <4>1, <4>2, <4>3 DEF PoolInv, SpansBelowOffset
    <3>2. Placed(span)
      BY <1>2, <2>1, <2>2, <2>3, <2>5
    <3>. QED
      BY <2>2, <3>1, <3>2 DEF SpansBelowOffset
  <2>8. Isolation'
    <3>1. span.start + span.size <= BlockSize
      BY <1>2, <2>1, <2>5, PoolAssumption
    <3>2. \A s \in spans : ~ RequestArena!Overlap(s, span) /\ ~ RequestArena!Overlap(span, s)
      BY <1>2, <2>5, <2>6 DEF RequestArena!Overlap, PoolInv, TypeOK, Span
    <3>. QED
      BY <2>2, <3>1, <3>2 DEF PoolInv, Isolation
  <2>. QED
    BY <1>1, <2>4, <2>7, <2>8 DEF PoolInv
<1>4. CASE AllocateBlockFromEmpty
  BY <1>1, <1>4 DEF PoolInv, AllocateBlockFromEmpty, BlocksAccountedFor, SpansBelowOffset,
                    Isolation, OnStack, Current
<1>5. ASSUME NEW block \in Blocks,
             AllocateBlock(block),
             tickets' = [tickets EXCEPT ![t] = [block |-> block, offset |-> request.size]],
             spans' = spans \cup {SpanOf(t, block, 0, request.size, request.alignment)},
             forgotten' = forgotten \cup {tickets[t].block},
             UNCHANGED <<live, status>>
      PROVE  PoolInv'
  <2>1. /\ tickets'[t] = [block |-> block, offset |-> request.size]
        /\ \A u \in live : u \in Tickets /\ (u # t => tickets'[u] = tickets[u])
        /\ tickets[t].block \in Blocks
    BY <1>5 DEF PoolInv, TypeOK
  <2>2. \A b \in Blocks : Current(b)' <=> (Current(b) /\ b # tickets[t].block) \/ b = block
    BY <1>2, <1>5, <2>1, PopMovesOneBlock DEF PoolInv, BlocksAccountedFor, Current
  <2>3. BlocksAccountedFor'
    <3>1. \A u, v \in live' : tickets'[u].block = tickets'[v].block => u = v
      BY <1>5, <2>1, PopMovesOneBlock DEF PoolInv, BlocksAccountedFor, Current
    <3>2. Current(tickets[t].block) /\ ~ OnStack(tickets[t].block)
      BY <1>2, <2>1 DEF Current, PoolInv, BlocksAccountedFor
    <3>. QED
      BY <1>5, <2>2, <3>1, <3>2, PopMovesOneBlock DEF PoolInv, BlocksAccountedFor
  <2>4. SpansBelowOffset'
    BY <1>2, <1>5, <2>1 DEF PoolInv, SpansBelowOffset, SpanOf
  <2>5. Isolation'
    <3>1. SpanOf(t, block, 0, request.size, request.alignment) \in Span
      BY <1>2, PoolAssumption DEF SpanOf, Span
    <3>. QED
      BY <1>2, <1>5, <3>1, PopMovesOneBlock, FreshSpanIsolated DEF SpanOf
  <2>. QED
    BY <1>1, <2>3, <2>4, <2>5 DEF PoolInv
<1>. QED
  BY <1>3, <1>4, <1>5 DEF Allocate, AllocateInNextBlock

\* The whole invariant holds in every state of the pool.
THEOREM PoolInvariant == Spec => []PoolInv
<1>1. Init => PoolInv
  <2>. SUFFICES ASSUME Init PROVE PoolInv
    OBVIOUS
  <2>1. TypeOK
    BY PoolAssumption DEF Init, TypeOK, NoTicket, Blocks
  <2>2. /\ Len(free_blocks) = NumBlocks
        /\ \A i \in 1 .. NumBlocks : free_blocks[i] = i - 1
    BY PoolAssumption DEF Init
  <2>3. \A block \in Blocks : OnStack(block)
    <3>. SUFFICES ASSUME NEW block \in Blocks PROVE OnStack(block)
      OBVIOUS
    <3>1. block + 1 \in 1 .. NumBlocks /\ free_blocks[block + 1] = block
      BY <2>2, PoolAssumption DEF Blocks
    <3>. QED
      BY <2>2, <3>1 DEF OnStack
  <2>4. BlocksAccountedFor
    BY <2>2, <2>3, PoolAssumption DEF Init, BlocksAccountedFor, Current
  <2>. QED
    BY <2>1, <2>4 DEF PoolInv, Init, SpansBelowOffset, Isolation
<1>2. PoolInv /\ [Next]_vars => PoolInv'
  <2>1. CASE UNCHANGED vars
    BY <2>1 DEF vars, PoolInv, TypeOK, BlocksAccountedFor, SpansBelowOffset, Isolation,
                OnStack, Current
  <2>. QED
    BY <2>1, InvTake, InvReturn, InvAllocate DEF Next
<1>. QED
  BY <1>1, <1>2, PTL DEF Spec

\* Memory of live tickets is never shared and never crosses a block's end.
THEOREM IsolationHolds == Spec => []Isolation
BY PoolInvariant, PTL DEF PoolInv

\* Every block is on the stack, current in one ticket or forgotten.
THEOREM BlocksAccountedForHolds == Spec => []BlocksAccountedFor
BY PoolInvariant, PTL DEF PoolInv

\* Live memory is in a filled block or below its ticket's offset.
THEOREM SpansBelowOffsetHolds == Spec => []SpansBelowOffset
BY PoolInvariant, PTL DEF PoolInv

-----------------------------------------------------------------------------
(* Alignment *)

\* What lies in the block was asked for with this alignment, in multiples of it.
Uniform(block, a) ==
    \A q \in spans : q.block = block => q.alignment \in {0, a} /\ q.size % a = 0

\* In a uniform block no padding is ever added.  To keep this when a ticket is
\* returned, a block must not hold memory of two requests.
AlignInv ==
    /\ \A s, q \in spans : s.block = q.block => s.session = q.session
    /\ \A a \in Nat \ {0}, t \in live : Uniform(tickets[t].block, a) => tickets[t].offset % a = 0
    /\ \A a \in Nat \ {0}, s \in spans : Uniform(s.block, a) => s.start % a = 0

\* Multiples of a.
LEMMA Multiple ==
    ASSUME NEW a \in Nat \ {0}, NEW x \in Nat
    PROVE  x % a = 0 <=> \E k \in Nat : x = k * a
<1>1. /\ x \div a \in Nat /\ x % a \in 0 .. a - 1
      /\ x = a * (x \div a) + (x % a)
  OBVIOUS
<1>2. x % a = 0 => \E k \in Nat : x = k * a
  <2> SUFFICES ASSUME x % a = 0 PROVE \E k \in Nat : x = k * a
    OBVIOUS
  <2>1. PICK d \in Nat : x = a * d + 0
    BY <1>1
  <2>2. x = d * a
    BY <2>1
  <2> QED
    BY <2>2
<1>3. ASSUME NEW k \in Nat, x = k * a PROVE x % a = 0
  <2>1. PICK d \in Nat, r \in 0 .. a - 1 : x = a * d + r /\ r = x % a
    BY <1>1
  <2>2. a * (k - d) = r
    <3>1. a * (k - d) = k * a - a * d /\ k * a \in Int /\ a * d \in Int
      OBVIOUS
    <3>2. k * a = a * d + r
      BY <1>3, <2>1
    <3> QED
      BY <3>1, <3>2
  <2>3. CASE k - d <= 0
    <3>1. a * (k - d) <= 0
      BY <2>3
    <3> QED
      BY <2>1, <2>2, <3>1
  <2>4. CASE k - d >= 1
    <3>1. a * (k - d) >= a
      BY <2>4
    <3> QED
      BY <2>1, <2>2, <3>1
  <2> QED
    BY <2>3, <2>4
<1> QED
  BY <1>2, <1>3

LEMMA SumOfMultiples ==
    ASSUME NEW a \in Nat \ {0}, NEW x \in Nat, NEW y \in Nat, x % a = 0, y % a = 0
    PROVE  (x + y) % a = 0
<1>1. PICK k \in Nat, m \in Nat : x = k * a /\ y = m * a
  BY Multiple
<1>2. x + y = (k + m) * a /\ k + m \in Nat /\ x + y \in Nat
  BY <1>1
<1> QED
  BY <1>2, Multiple

LEMMA ProductOfMultiple ==
    ASSUME NEW a \in Nat \ {0}, NEW x \in Nat, NEW y \in Nat, y % a = 0
    PROVE  (x * y) % a = 0
<1>1. PICK m \in Nat : y = m * a
  BY Multiple
<1>2. x * y = (x * m) * a /\ x * m \in Nat /\ x * y \in Nat
  BY <1>1
<1> QED
  BY <1>2, Multiple

\* A span is given out at a place that is aligned if its block is uniform.
LEMMA SpanAligned ==
    ASSUME PoolInv, AlignInv, NEW span \in Span, spans' = spans \cup {span},
           \A s \in spans : s.block = span.block => s.session = span.session,
           \A a \in Nat \ {0} : Uniform(span.block, a) => span.start % a = 0,
           \A a \in Nat \ {0}, u \in live' : Uniform(tickets[u].block, a)' => tickets'[u].offset % a = 0
    PROVE  AlignInv'
<1>1. \A b, a : Uniform(b, a)' => Uniform(b, a)
  BY DEF Uniform
<1>2. \A s, q \in spans' : s.block = q.block => s.session = q.session
  BY DEF AlignInv
<1>3. \A a \in Nat \ {0}, s \in spans' : Uniform(s.block, a)' => s.start % a = 0
  BY <1>1 DEF AlignInv
<1> QED
  BY <1>2, <1>3 DEF AlignInv

\* A span at the start of a block that nothing used.
LEMMA FreshAligned ==
    ASSUME PoolInv, AlignInv, NEW t \in Tickets, NEW block \in Blocks,
           NEW size \in 1 .. BlockSize, NEW alignment \in Nat,
           AllocateBlock(block), spans' = spans \cup {SpanOf(t, block, 0, size, alignment)},
           tickets' = [tickets EXCEPT ![t] = [block |-> block, offset |-> size]],
           live' \subseteq live \cup {t}
    PROVE  AlignInv'
<1>1. PICK span \in Span : span = SpanOf(t, block, 0, size, alignment)
  <2>1. SpanOf(t, block, 0, size, alignment) \in Span
    BY PoolAssumption DEF SpanOf, Span
  <2> QED
    BY <2>1
<1>2. span.session = t /\ span.block = block /\ span.start = 0 /\ span.size = size /\ spans' = spans \cup {span}
  BY <1>1 DEF SpanOf
<1>3. \A s \in spans : s.block # block
  BY PopMovesOneBlock
<1>4. \A a \in Nat \ {0} : 0 % a = 0
  OBVIOUS
<1>5. \A b, a : Uniform(b, a)' => Uniform(b, a)
  BY <1>2 DEF Uniform
<1>6. ASSUME NEW a \in Nat \ {0}, NEW u \in live', Uniform(tickets[u].block, a)'
      PROVE  tickets'[u].offset % a = 0
  <2>1. CASE u = t
    <3>1. tickets'[t].block = block /\ tickets'[t].offset = size
      BY DEF PoolInv, TypeOK
    <3>2. span \in spans' /\ span.block = tickets'[u].block
      BY <1>2, <2>1, <3>1
    <3>3. span.size % a = 0
      BY <1>6, <3>2 DEF Uniform
    <3> QED
      BY <1>2, <2>1, <3>1, <3>3
  <2>2. CASE u # t
    <3>1. u \in live /\ tickets'[u] = tickets[u]
      BY <2>2 DEF PoolInv, TypeOK
    <3>2. Uniform(tickets[u].block, a)
      BY <1>5, <1>6, <3>1
    <3> QED
      BY <3>1, <3>2 DEF AlignInv
  <2> QED
    BY <2>1, <2>2
<1> QED
  BY <1>2, <1>3, <1>4, <1>6, SpanAligned

\* In a uniform block the next node lies right behind the last.
LEMMA InBlockAligned ==
    ASSUME PoolInv, AlignInv, NEW t \in Tickets, NEW request \in Requests, t \in live,
           AllocateInBlock(t, request)
    PROVE  AlignInv'
<1>1. /\ tickets[t] \in [block : Blocks, offset : 0 .. BlockSize]
      /\ request.size \in 1 .. BlockSize /\ request.alignment \in Nat
  BY PoolAssumption DEF PoolInv, TypeOK
<1>2. PICK span \in Span : span = SpanOf(t, tickets[t].block, tickets[t].offset, request.size,
                                         request.alignment)
  BY <1>1 DEF SpanOf, Span
<1>3. /\ span.session = t /\ span.block = tickets[t].block /\ span.start = tickets[t].offset
      /\ span.size = request.size /\ span.alignment = request.alignment
      /\ spans' = spans \cup {span} /\ live' = live
  BY <1>2 DEF SpanOf, AllocateInBlock
<1>4. \A s \in spans : s.block = tickets[t].block => s.session = t
  BY DEF PoolInv, SpansBelowOffset, BlocksAccountedFor, Current, TypeOK
<1>5. \A b, a : Uniform(b, a)' => Uniform(b, a)
  BY <1>3 DEF Uniform
<1>6. PICK padding : padding = Padding(tickets[t], request.alignment)
  OBVIOUS
<1>7. /\ tickets'[t].offset = tickets[t].offset + padding + request.size
      /\ tickets'[t].block = tickets[t].block
      /\ \A u \in Tickets : u # t => tickets'[u] = tickets[u]
  BY <1>1, <1>6 DEF AllocateInBlock, PoolInv, TypeOK
<1>8. ASSUME NEW a \in Nat \ {0}, NEW u \in live', Uniform(tickets[u].block, a)'
      PROVE  tickets'[u].offset % a = 0
  <2>1. CASE u = t
    <3>1. span \in spans' /\ span.block = tickets'[u].block
      BY <1>3, <1>7, <2>1
    <3>2. request.alignment \in {0, a} /\ request.size % a = 0
      BY <1>3, <1>8, <3>1 DEF Uniform
    <3>3. tickets[t].offset % a = 0
      BY <1>5, <1>7, <1>8, <2>1 DEF AlignInv
    <3>4. padding = 0
      BY <1>6, <3>2, <3>3 DEF Padding
    <3>5. (tickets[t].offset + request.size) % a = 0
      BY <1>1, <3>2, <3>3, SumOfMultiples
    <3>6. tickets'[u].offset = tickets[t].offset + request.size
      BY <1>1, <1>7, <2>1, <3>4
    <3> QED
      BY <3>5, <3>6
  <2>2. CASE u # t
    <3>1. u \in live /\ tickets'[u] = tickets[u]
      BY <1>3, <1>7, <2>2 DEF PoolInv, TypeOK
    <3>2. Uniform(tickets[u].block, a)
      BY <1>5, <1>8, <3>1
    <3> QED
      BY <3>1, <3>2 DEF AlignInv
  <2> QED
    BY <2>1, <2>2
<1>9. \A a \in Nat \ {0} : Uniform(span.block, a) => span.start % a = 0
  BY <1>3 DEF AlignInv
<1> QED
  BY <1>3, <1>4, <1>8, <1>9, SpanAligned

\* What a returned ticket takes away lay in blocks that nobody else uses.
LEMMA ReturnAligned ==
    ASSUME PoolInv, AlignInv, NEW t \in Tickets, ReturnTicket(t)
    PROVE  AlignInv'
<1>1. /\ spans' = {s \in spans : s.session # t} /\ live' = live \ {t}
      /\ \A u \in live' : u \in live /\ u # t /\ tickets'[u] = tickets[u]
  BY DEF ReturnTicket, PoolInv, TypeOK
<1>2. ASSUME NEW u \in live', NEW a, Uniform(tickets[u].block, a)' PROVE Uniform(tickets[u].block, a)
  <2>1. \A q \in spans : q.block = tickets[u].block => q.session = u
    BY <1>1 DEF PoolInv, SpansBelowOffset, BlocksAccountedFor, Current, TypeOK
  <2> QED
    BY <1>1, <1>2, <2>1 DEF Uniform
<1>3. ASSUME NEW s \in spans', NEW a, Uniform(s.block, a)' PROVE Uniform(s.block, a)
  BY <1>1, <1>3 DEF Uniform, AlignInv
<1>4. \A s, q \in spans' : s.block = q.block => s.session = q.session
  BY <1>1 DEF AlignInv
<1>5. \A a \in Nat \ {0}, u \in live' : Uniform(tickets[u].block, a)' => tickets'[u].offset % a = 0
  BY <1>1, <1>2 DEF AlignInv
<1>6. \A a \in Nat \ {0}, s \in spans' : Uniform(s.block, a)' => s.start % a = 0
  BY <1>1, <1>3 DEF AlignInv
<1> QED
  BY <1>4, <1>5, <1>6 DEF AlignInv

LEMMA AlignStep ==
    ASSUME PoolInv, AlignInv, [Next]_vars
    PROVE  AlignInv'
<1>1. CASE UNCHANGED <<spans, tickets, live>>
  BY <1>1 DEF AlignInv, Uniform
<1>2. ASSUME NEW t \in Tickets, TakeTicket(t) PROVE AlignInv'
  <2>1. TicketSize \in 1 .. BlockSize /\ 0 \in Nat
    BY PoolAssumption
  <2> QED
    BY <1>1, <1>2, <2>1, FreshAligned DEF TakeTicket, AllocateBlockFromEmpty
<1>3. ASSUME NEW t \in Tickets, NEW request \in Requests, Allocate(t, request) PROVE AlignInv'
  <2>1. request.size \in 1 .. BlockSize /\ request.alignment \in Nat
    BY PoolAssumption
  <2> QED
    BY <1>1, <1>3, <2>1, FreshAligned, InBlockAligned
       DEF Allocate, AllocateInNextBlock, AllocateBlockFromEmpty
<1> QED
  BY <1>1, <1>2, <1>3, ReturnAligned DEF Next, vars

\* In a block where all requests have one alignment and sizes that are multiples
\* of it, every address that Allocate returns is aligned, although it is taken
\* before the padding is added.
THEOREM AllocationsAlignedHolds == Spec => []AllocationsAligned
<1>1. Init => AlignInv
  BY DEF Init, AlignInv
<1>2. PoolInv /\ AlignInv /\ [Next]_vars => AlignInv'
  BY AlignStep
<1>3. PoolInv /\ AlignInv => AllocationsAligned
  <2> SUFFICES ASSUME PoolInv, AlignInv, NEW s \in spans,
                      s.alignment # 0, PoolAddress % s.alignment = 0, BlockSize % s.alignment = 0,
                      Uniform(s.block, s.alignment)
               PROVE  (PoolAddress + s.block * BlockSize + s.start) % s.alignment = 0
    BY DEF AllocationsAligned, Uniform
  <2>1. s \in Span
    BY DEF PoolInv, TypeOK
  <2>2. PICK a \in Nat \ {0}, b \in Nat, start \in Nat : a = s.alignment /\ b = s.block /\ start = s.start
    BY <2>1, PoolAssumption DEF Span, Blocks
  <2>3. start % a = 0
    BY <2>2 DEF AlignInv
  <2>4. (b * BlockSize) % a = 0 /\ b * BlockSize \in Nat
    <3>1. BlockSize \in Nat /\ BlockSize % a = 0
      BY <2>2, PoolAssumption
    <3>2. (b * BlockSize) % a = 0
      BY <3>1, ProductOfMultiple
    <3> QED
      BY <3>1, <3>2
  <2>5. PICK x \in Nat : x = PoolAddress + b * BlockSize
    BY <2>4, PoolAssumption
  <2>6. x % a = 0
    <3>1. PoolAddress \in Nat /\ PoolAddress % a = 0
      BY <2>2, PoolAssumption
    <3> QED
      BY <2>4, <2>5, <3>1, SumOfMultiples
  <2>7. (x + start) % a = 0
    BY <2>3, <2>6, SumOfMultiples
  <2> QED
    BY <2>2, <2>5, <2>7
<1> QED
  BY <1>1, <1>2, <1>3, PoolInvariant, PTL DEF Spec

-----------------------------------------------------------------------------
(* The pool implements the arena *)

\* Giving one span away is carving one region, or nothing the arena sees.
LEMMA SpanIsCarved ==
    ASSUME PoolInv, Isolation', NEW span \in Span, spans' = spans \cup {span}
    PROVE  [RequestArena!Next]_Regions
<1>. DEFINE r == [session |-> span.session, block |-> span.block, start |-> span.start,
                  size |-> span.size]
<1>1. CASE span \in spans
  BY <1>1 DEF Regions
<1>2. CASE span \notin spans
  <2>1. span.start + span.size <= BlockSize /\ \A q \in spans : ~ RequestArena!Overlap(span, q)
    BY <1>2 DEF Isolation
  <2>2. r \in RequestArena!Region
    <3>1. /\ span.session \in Tickets /\ span.block \in 0 .. NumBlocks - 1
          /\ span.start \in 0 .. BlockSize /\ span.size \in 1 .. BlockSize
      BY DEF Span, Blocks
    <3>2. span.start \in 0 .. BlockSize - 1
      BY <2>1, <3>1, PoolAssumption
    <3>. QED
      BY <3>1, <3>2 DEF RequestArena!Region
  <2>3. r.start + r.size <= BlockSize /\ \A q \in Regions : ~ RequestArena!Overlap(r, q)
    BY <2>1 DEF Regions, RequestArena!Overlap
  <2>4. Regions' = Regions \cup {r}
    BY DEF Regions
  <2>. QED
    BY <2>2, <2>3, <2>4 DEF RequestArena!Next, RequestArena!Carve
<1>. QED
  BY <1>1, <1>2

\* Every step of the pool is a step of the arena or leaves its regions alone.
LEMMA PoolStepIsArenaStep ==
    ASSUME PoolInv, PoolInv', [Next]_vars
    PROVE  [RequestArena!Next]_Regions
<1>0. Isolation'
  BY DEF PoolInv
<1>1. CASE UNCHANGED spans
  BY <1>1 DEF Regions
<1>2. ASSUME NEW t \in Tickets, TakeTicket(t)
      PROVE  [RequestArena!Next]_Regions
  <2>1. ASSUME NEW block \in Blocks, spans' = spans \cup {SpanOf(t, block, 0, TicketSize, 0)}
        PROVE  [RequestArena!Next]_Regions
    <3>1. SpanOf(t, block, 0, TicketSize, 0) \in Span
      BY PoolAssumption DEF SpanOf, Span
    <3>. QED
      BY <1>0, <2>1, <3>1, SpanIsCarved
  <2>. QED
    BY <1>1, <1>2, <2>1 DEF TakeTicket, AllocateBlockFromEmpty
<1>3. ASSUME NEW t \in Tickets, ReturnTicket(t)
      PROVE  [RequestArena!Next]_Regions
  <2>1. Regions' = {r \in Regions : r.session # t}
    BY <1>3 DEF Regions, ReturnTicket
  <2>. QED
    BY <2>1 DEF RequestArena!Next, RequestArena!Close
<1>4. ASSUME NEW t \in Tickets, NEW request \in Requests, Allocate(t, request)
      PROVE  [RequestArena!Next]_Regions
  <2>1. request.size \in 1 .. BlockSize /\ request.alignment \in Nat
    BY PoolAssumption
  <2>2. CASE AllocateInBlock(t, request)
    <3>1. SpanOf(t, tickets[t].block, tickets[t].offset, request.size, request.alignment) \in Span
      BY <2>1 DEF PoolInv, TypeOK, SpanOf, Span
    <3>. QED
      BY <1>0, <2>2, <3>1, SpanIsCarved DEF AllocateInBlock
  <2>3. CASE AllocateBlockFromEmpty
    BY <1>1, <2>3 DEF AllocateBlockFromEmpty
  <2>4. ASSUME NEW block \in Blocks,
               spans' = spans \cup {SpanOf(t, block, 0, request.size, request.alignment)}
        PROVE  [RequestArena!Next]_Regions
    <3>1. SpanOf(t, block, 0, request.size, request.alignment) \in Span
      BY <2>1, PoolAssumption DEF SpanOf, Span
    <3>. QED
      BY <1>0, <2>4, <3>1, SpanIsCarved
  <2>. QED
    BY <1>4, <2>2, <2>3, <2>4 DEF Allocate, AllocateInNextBlock
<1>. QED
  BY <1>1, <1>2, <1>3, <1>4 DEF Next, vars

\* The tickets, the stack and the padding together implement the arena: a
\* region is given out only when it is free as a whole, and it is given up only
\* when its own request ends.
THEOREM PoolImplementsArena == Spec => ImplementsArena
<1>1. Init => RequestArena!Init
  BY DEF Init, RequestArena!Init, Regions
<1>2. PoolInv /\ PoolInv' /\ [Next]_vars => [RequestArena!Next]_Regions
  BY PoolStepIsArenaStep
<1>. QED
  BY <1>1, <1>2, PoolInvariant, PTL DEF Spec, ImplementsArena, RequestArena!Spec
=============================================================================
