SPECIFICATION Spec
CONSTANTS
    Calls = {c1, c2}
    LocalRoots = {l1, l2}
    RemoteRoots = {s1}
    MaxRoots = 2
    MaxRevision = 3
    MaxToken = 0
    MaxConf = 2
    MaxEntries = 1
INVARIANT RemoteDeleteAuthorized
CHECK_DEADLOCK FALSE
