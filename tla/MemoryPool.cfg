SPECIFICATION Spec
CONSTANTS
    Tickets = {t1, t2}
    NumBlocks = 3
    BlockSize = 8
    TicketSize = 2
    PoolAddress = 4
    Requests <- MixedRequests
SYMMETRY Symmetry
INVARIANTS
    TypeOK
    BlocksAccountedFor
    SpansBelowOffset
    Isolation
    AllocationsAligned
PROPERTY
    ImplementsArena
CHECK_DEADLOCK FALSE
