\* A window closing, another being opened, and the user quitting, with
\* lost emissions, failed closes, busy pages and late answers.
SPECIFICATION Spec
SYMMETRY IdSymmetry
CONSTANTS
    Windows = {main, w2}
    Main = main
    Ids = {i1, i2, i3, i4}
    MaxPosted = 2
INVARIANTS
    TypeOK
    
    QuitWaitsOnOpenWindow

    
CHECK_DEADLOCK FALSE
