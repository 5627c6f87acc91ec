-------------------------------- MODULE Arena --------------------------------
(***************************************************************************)
(* What a request arena promises its users, whatever the way it finds the  *)
(* memory.  A user opens a session, carves regions out of it one by one    *)
(* and closes it; a region belongs to its session until the session is     *)
(* closed, and until then nobody else is given any byte of it.             *)
(*                                                                         *)
(* A region is a run of bytes of one block: the bytes start ..             *)
(* start + size - 1 of block.                                              *)
(***************************************************************************)
EXTENDS Integers

CONSTANTS
    Sessions,    \* the users of the arena
    NumBlocks,   \* blocks of memory
    BlockSize    \* bytes of a block

VARIABLE
    regions      \* the regions that belong to the open sessions

Region == [session : Sessions, block : 0 .. NumBlocks - 1,
           start : 0 .. BlockSize - 1, size : 1 .. BlockSize]

\* Two regions share a byte.
Overlap(r, q) ==
    /\ r.block = q.block
    /\ r.start < q.start + q.size
    /\ q.start < r.start + r.size

-----------------------------------------------------------------------------
Init == regions = {}

\* A region that is free as a whole is given to a session.
Carve(r) ==
    /\ r.start + r.size <= BlockSize
    /\ \A q \in regions : ~ Overlap(r, q)
    /\ regions' = regions \cup {r}

\* Closing a session gives up all its regions, and only these.
Close(s) == regions' = {r \in regions : r.session # s}

Next ==
    \/ \E r \in Region : Carve(r)
    \/ \E s \in Sessions : Close(s)

Spec == Init /\ [][Next]_regions
=============================================================================
