\* One root that comes and goes, two subscriptions, a change, reloads of the page; generations saturate at 2.
SPECIFICATION FairSpec
CONSTANTS
    Roots = {r1}
    Subs = {s1, s2}
    NoRoot = NoRoot
    MaxGen = 2
    MaxChanges = 1
INVARIANTS
    TypeOK
    NothingForgotten
PROPERTIES
    ChangesReachListeners
    CloseEnds
CHECK_DEADLOCK FALSE
