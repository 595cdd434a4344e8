\* One rendered and one unrendered category; the second to be merged overflows.
SPECIFICATION FairSpec
CONSTANTS
    Categories = {"stdout", "telemetry"}
    Rendered = {"stdout"}
    High = 2
    MergeCap = 1
    MaxCategories = 2
    MaxOutputs = 5
    ConsoleOpen = {TRUE, FALSE}
INVARIANTS
    TypeOK
    GateKeepsOrder
    EveryPieceAccounted
    PageFollowsSession
PROPERTIES
    
    PageLearnsOfTheEnd
CHECK_DEADLOCK FALSE
