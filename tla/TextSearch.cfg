\* Two searches of one window, a channel of one batch.
SPECIFICATION FairSpec
CONSTANTS
    Searches = {a, b}
    None = None
    Capacity = 1
    MaxBatches = 2
INVARIANTS
    TypeOK
    BatchesInOrder
    OneSearchAtWork
PROPERTIES
    StreamEnds
CHECK_DEADLOCK FALSE
