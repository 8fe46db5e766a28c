SPECIFICATION Spec
CONSTANTS
    Lifetime = 9
    Horizon = 13
    Interval = 2
    PollTimeout = 5
    RequestTimeout = 2
    Lag = 1
    MaxStep = 1
    LastBegin = 2
INVARIANTS
    TypeOK
    EndsInTime
    TimesOutBeforeExpiry
PROPERTIES
    AskingEndsIfRequestsEnd
    ImplementsPollPromise
