SPECIFICATION FeedSpec
CONSTANTS
    Buffer = 1
    Window = 1
INVARIANTS
    DrainedClientIsRight
PROPERTY ClientCatchesUp
