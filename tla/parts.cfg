CONSTANTS
    NoTimer = NoTimer
    NoBuf = NoBuf
    NoFlow = NoFlow
    NoEpoch = NoEpoch
    Zero = Zero
    Garbage = Garbage
    NatPmp = NatPmp
    r1 = r1
    r2 = r2
    a1 = a1
    LateReplies = FALSE
    N = 2
    MaxTimeout = 2
    PortCount = 7
    FirstPort = 5
    MsgLen = 3
    MaxEnd = 3
    MaxTime = 3
    MaxInbox = 3
    InitCount = 1
    MaxLength = 4
    Ips = {"v4", "link_local", "loopback", "::"}
    Scopes = {1, 2}
    AskedVersions = {2, 3}
    MaxFlows = 1
    Ipv6Socket = TRUE
    LinkSource = FALSE
    Steady = TRUE
    Options <- CommandLine
    MaxOptions = 3
    MaxDiscovered = 1
    BUFSIZE = 5
    RouteSize = 2
    Routes <- SomeRoutes
    MaxRoutes = 4
    Inet4 = {"0.0.0.0", "v4", "other_v4"}
    Inet6 = {"::", "global", "other_global", "link_local", "other_local"}
    LinkLocal = {"link_local", "other_local"}
    Interfaces = {1, 2}
SPECIFICATION PFairSpec
INVARIANTS
    VersionIsServed
    RequestIsAccepted
    AnswerIsUnderstood
    ResultIsTrue
    ExitCodeIsTrue
    ServersAreFound
    FlowKeepsServer
    EndsWhole
    AnswerFindsItsFlow
    MessageIsWhole
    LimitsAreKept
    CommandLineIsKept
PROPERTIES
    RequestIsMapped
    CallsReturn
CHECK_DEADLOCK FALSE
