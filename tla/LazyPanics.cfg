SPECIFICATION Spec
CONSTANTS
    a = a
    b = b
    iss1 = iss1
    Kids = {a, b}
    Documents <- MCDocuments
    Rotation <- MCRotation
    Start = 4
    MaxTime = 7
    MaxBack = 0
    Tokens <- MCTokens
    ExpectedIss = "no issuer"
    Skew = 0
    NoToken = NoToken
    NoReply = NoReply
    Nobody = Nobody
    Goroutines = {g1, g2}
    TTL = 2
    FetchTimeout = 1
INVARIANTS
    NeverPanics
