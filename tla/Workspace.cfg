\* Every operation of one window: pickers, leases, local and remote
\* delete batches, against every change of the root set and the close.
SPECIFICATION Spec
SYMMETRY Symmetric
CONSTANTS
    Calls = {c1, c2}
    LocalRoots = {l1, l2}
    RemoteRoots = {s1}
    MaxRoots = 2
    MaxRevision = 3
    MaxToken = 1
    MaxConf = 2
    MaxEntries = 2
INVARIANTS
    TypeOK
    AuthorizedSideEffects
    DeletesInPlanOrder
    SlotsOwned
PROPERTIES
    ImplementsAuthority
CHECK_DEADLOCK FALSE
