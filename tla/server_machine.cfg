CONSTANTS
    NoTimer = NoTimer
    NoBuf = NoBuf
    NoFlow = NoFlow
    NoEpoch = NoEpoch
    r1 = r1
    r2 = r2
    IRT = 1
    MRT = 1
    MRC = 2
    MaxLife = 2
    NServers = 1
    Request = {r1}
    Ann = {}
    OpOf <- MCOpOf
    Reaches <- MCReaches
    Pos <- MCPos
    Epoch = {1, 2}
    Answers <- AnyAnswers
    Lifetimes = {2}
    AddVersions = {2}
    Calls <- AllCalls
    Faults <- OneFault
    Rand = {1024}
    RetryDelay = 1
    MaxPing = 2
    LateAnswers = TRUE
    SlowPulse = TRUE
    Prompt = FALSE
SPECIFICATION Spec
INVARIANTS
    TransientIsServed
    RestartMarkIsLive
    PingFlowIsLive
    WaitingServerHasTimer
    UpdateIsScheduled
    NoFlowMidway
    BufferIsFreed
