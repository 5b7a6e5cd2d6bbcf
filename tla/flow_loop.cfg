CONSTANTS
    NoTimer = NoTimer
    NoBuf = NoBuf
    IRT = 2
    MRT = 4
    MRC = 2
    MaxLife = 2
    Flows <- MCFlows
    Contexts <- MCContexts
SPECIFICATION Spec
INVARIANTS
    ChainEnds
    AtMostTwoSends
    LoopLands
    SentHasTimer
    FailedIsClear
CHECK_DEADLOCK FALSE
