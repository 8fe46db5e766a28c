SPECIFICATION Spec
CONSTANTS
    Lifetime = 8
    Horizon = 12
    Interval = 2
    PollTimeout = 6
    RequestTimeout = 2
    Lag = 1
    LastBegin = 3
INVARIANTS
    BoundedByPollTimeout
