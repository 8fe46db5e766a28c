SPECIFICATION Spec
CONSTANTS
    a = a
    b = b
    iss1 = iss1
    Kids = {a, b}
    Documents <- MCDocuments
    Rotation <- MCRotation
    Start = 4
    MaxTime = 8
    MaxBack = 1
    Tokens <- MCTokens
    ExpectedIss = iss1
    Skew = 0
    NoToken = NoToken
    NoReply = NoReply
    Callers = {c1, c2}
    Nobody = Nobody
    TTL = 2
    FetchTimeout = 1
INVARIANTS
    TypeOK
    SingleFlight
    NobodyWaitsForNothing
    CacheVouched
    NoRedundantFetch
PROPERTIES
    CallsSettleIfFetchesEnd
    ImplementsPromise
