SPECIFICATION Spec
CONSTANTS
    Documents <- SomeDocuments
    Names <- SomeNames
    Keywords <- SomeKeywords
    Locations <- SomeLocations
    Ordered <- SomeOrdered
    MaxDepth = 8
INVARIANTS
    AcceptedIsClosed
    RecursionSearched
    WellFormedAccepted
    ValuesFit
PROPERTIES
    ParseEnds
CHECK_DEADLOCK FALSE
