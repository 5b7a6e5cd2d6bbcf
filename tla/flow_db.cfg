CONSTANTS
    Flow = {f1, f2, f3}
    Server = {1, 2}
    b1 = b1
    b2 = b2
    Body = {b1, b2}
    Nonce = {0, 1}
    Buckets = 1
    Hash <- MCHash
    MaxAdds = 3
    NoFlow = NoFlow
    EMPTY = EMPTY
    N = 4
    NoTimer = NoTimer
    Span <- MCSpan
SYMMETRY MCSymmetry
SPECIFICATION MCSpec
INVARIANTS
    ChainsMatchBuckets
    LookupIsOldest
    SearchIsClosedForm
    NearestIfNoneLate
PROPERTIES
    ImplementsFlowSet
