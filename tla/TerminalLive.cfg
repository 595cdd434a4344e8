\* What happens in the end, in a pane that opens its session or attaches to one.
SPECIFICATION FairSpec
CONSTANTS
    High = 3
    Low = 1
    ChunkSizes = {2}
    MaxChunks = 2
    PtyBuffer = 1
    MaxLayouts = 0
    MaxKeys = 0
    Attachments = {TRUE, FALSE}
    ListenFirst = FALSE
PROPERTIES
    OutputIsShown
    TeardownEnds
CHECK_DEADLOCK FALSE
