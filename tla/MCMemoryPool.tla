---------------------------- MODULE MCMemoryPool ----------------------------
(* Small instances of the memory pool. *)
EXTENDS MemoryPool, TLC

\* What new_operator asks for: one alignment, and sizes that are multiples of it.
NodeRequests == {[size |-> n, alignment |-> 2] : n \in {2, 4, 6}}

\* Nodes of one alignment beside requests of other sizes and alignments, as the
\* interface of Allocate admits them.
MixedRequests ==
    {[size |-> 2, alignment |-> 2], [size |-> 4, alignment |-> 2],
     [size |-> 1, alignment |-> 4], [size |-> 5, alignment |-> 0]}

Symmetry == Permutations(Tickets)

=============================================================================
