SPECIFICATION Spec
CONSTANTS
    Sdks = {"go", "node", "python"}
    Timeout = 2
    BodyIdle = 3
INVARIANTS
    TypeOK
    SdksAgreeOnErrors
    GoKeepsTheStatus
    NoErrorIsASuccess
    
    SignedAsRead
PROPERTIES
    GoCallsEnd
