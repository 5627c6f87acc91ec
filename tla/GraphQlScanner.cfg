SPECIFICATION Spec
CONSTANTS
    Sources <- AllSources
    SkipWhiteSpace <- Skips
    MaxEntries = 3
    MaxSaves = 1
INVARIANTS
    TypeOK
    SearchSucceeds
    LineListParted
    LocationsAreRight
    LocationsAgree
    NumbersAsWritten
PROPERTY
    CallsReturn
CHECK_DEADLOCK FALSE
