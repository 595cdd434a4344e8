\* Two sessions and one folder; a window that holds one session.
SPECIFICATION FairSpec
CONSTANTS
    Attempts = {a, b}
    Keys = {k1, k2}
    Roots = {r}
    None = None
    MaxSessions = 1
INVARIANTS
    TypeOK
    KeyWasConfirmed
    
PROPERTIES
    RootLearnsOfTheEnd
CHECK_DEADLOCK FALSE
