SPECIFICATION Spec
CONSTANTS
    Searches = {a}
    None = None
    Capacity = 1
    MaxBatches = 2
INVARIANT EveryBatchDelivered
CHECK_DEADLOCK FALSE
