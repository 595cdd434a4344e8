\* A terminal opened by its pane, from its first byte to its teardown.
SPECIFICATION Spec
CONSTANTS
    High = 3
    Low = 1
    ChunkSizes = {1, 2}
    MaxChunks = 3
    PtyBuffer = 2
    MaxLayouts = 1
    MaxKeys = 1
    Attachments = {FALSE}
    ListenFirst = TRUE
INVARIANTS
    TypeOK
    FlowConserved
    ScreenIsWhole
    CreditAccounted
    KeyIsAnswered
CHECK_DEADLOCK FALSE
