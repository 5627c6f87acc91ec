SPECIFICATION Spec
CONSTANTS
    Texts <- Requests
    HeaderNames <- Names
    ContentLength <- LengthName
    UIntMax = 15
INVARIANTS
    TypeOK
    ValuesInText
    HeadersAsWritten
    BodyAsDeclared
    WellFormedAccepted
PROPERTY
    ParseEnds
CHECK_DEADLOCK FALSE
