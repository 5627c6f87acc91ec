SPECIFICATION Spec
CONSTANTS
    Connections = {c1}
    NoConnection = none
    Endpoints = {"field"}
    Documents <- TheQuery
    MaxRecords = 1
    MaxForwards = 1
    MaxChunk = 2
    PoolBlocks = 2
PROPERTY
    ParentDeathStopsServer
CHECK_DEADLOCK FALSE
