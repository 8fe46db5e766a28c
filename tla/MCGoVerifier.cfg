SPECIFICATION Spec
CONSTANTS
    a = a
    b = b
    iss1 = iss1
    Kids = {a, b}
    Documents <- MCDocuments
    Rotation <- MCRotation
    Start = 4
    MaxTime = 7
    MaxBack = 1
    Tokens <- MCTokens
    ExpectedIss = iss1
    Skew = 0
    NoToken = NoToken
    NoReply = NoReply
    Goroutines = {g1, g2}
    TTL = 2
    FetchTimeout = 1
INVARIANTS
    TypeOK
    CacheVouched
PROPERTIES
    EveryCallReturns
    ImplementsPromise
