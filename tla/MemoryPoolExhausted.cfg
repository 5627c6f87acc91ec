SPECIFICATION Spec
CONSTANTS
    Tickets = {t1, t2}
    NumBlocks = 3
    BlockSize = 6
    TicketSize = 2
    PoolAddress = 4
    Requests <- NodeRequests
INVARIANTS
    OutOfMemoryReported
CHECK_DEADLOCK FALSE
