SPECIFICATION Spec
CONSTANTS
    Connections = {c1}
    NoConnection = none
    Endpoints = {"field"}
    Documents <- Queries
    MaxRecords = 2
    MaxForwards = 4
    MaxChunk = 6
    PoolBlocks = 4
INVARIANTS
    NothingStranded
    ParsedInOrder
PROPERTY
    ForwardsComplete
CHECK_DEADLOCK FALSE
