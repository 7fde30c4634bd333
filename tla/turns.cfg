SPECIFICATION FairSpec
CONSTANTS
    MaxBacklog = 2
    Kinds = {"beat", "data", "done", "error"}
    Failure = "error"
    MaxEvents = 4
    MaxQueue = 1
    DrainChunks = 2
    MaxChunks = 5
    Requests <- AllRequests
INVARIANTS
    OneOutcome
    RelayIsBounded
    CompletedIsSaved
PROPERTIES
    ChannelRefined
    NothingCutEarly
    EveryTurnEnds
CHECK_DEADLOCK FALSE
