SPECIFICATION Spec
CONSTANTS
    Connections = {c1, c2}
    NoConnection = none
    Endpoints = {"field"}
    Documents <- AllDocuments
    MaxRecords = 1
    MaxForwards = 3
    MaxChunk = 3
    PoolBlocks = 2
SYMMETRY Symmetry
INVARIANTS
    TypeOK
    RequestsKeepTheirSender
    SoleClientKeepsSession
    OneRequestPerForward
    PoolLastsForItsBlocks
CHECK_DEADLOCK FALSE
