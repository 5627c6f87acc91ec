SPECIFICATION Spec
CONSTANTS
    Documents <- SomeDocuments
    Names <- SomeNames
    Keywords <- SomeKeywords
    Schema <- SmallSchema
INVARIANTS
    StackCoversSelections
    TypesFollowNesting
    AcceptedFieldsExist
    SchemaRestored
    WellFormedAccepted
PROPERTIES
    ParseEnds
CHECK_DEADLOCK FALSE
