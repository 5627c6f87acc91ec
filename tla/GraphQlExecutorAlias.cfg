SPECIFICATION Spec
CONSTANTS
    Documents <- SomeDocuments
    Names <- SomeNames
    Keywords <- SomeKeywords
    Schema <- SmallSchema
INVARIANTS
    UndefinedFieldReported
CHECK_DEADLOCK FALSE
