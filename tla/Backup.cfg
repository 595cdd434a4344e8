\* Two edits, saves between them, two attempts of a flush.
SPECIFICATION FairSpec
CONSTANTS
    MaxVersion = 2
    Attempts = 2
INVARIANTS
    TypeOK
    DurableUnlessOvertaken
PROPERTIES
    FlushCoversScreen
    FlushEnds
CHECK_DEADLOCK FALSE
