CONSTANTS
    NoTimer = NoTimer
    NoBuf = NoBuf
    NoFlow = NoFlow
    NoEpoch = NoEpoch
    r1 = r1
    r2 = r2
    IRT = 1
    MRT = 1
    MRC = 2
    MaxLife = 3
    NServers = 1
    Request = {r1, r2}
    Ann = {}
    OpOf <- MCOpOf
    Reaches <- MCReaches
    Pos <- MCPos
    Epoch = {1}
    Answers <- GrantAnswers
    Lifetimes = {3}
    AddVersions = {2}
    Calls <- PlainCalls
    Faults <- OneFault
    Rand = {1024}
    RetryDelay = 1
    MaxPing = 2
    LateAnswers = FALSE
    SlowPulse = FALSE
    Prompt = TRUE
SPECIFICATION Spec
INVARIANTS
    TimerCoversFlows
    MappingIsAlive
