SPECIFICATION Spec
CONSTANTS
    BufferSize = 3
    RequestLists <- SomeRequestLists
INVARIANTS
    WireInOrder
PROPERTIES
    RequestsArrive
CHECK_DEADLOCK FALSE
