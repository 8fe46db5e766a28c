SPECIFICATION Spec
CONSTANTS
    Programs = {p, q}
    Slots = {1, 2}
    None = None
INVARIANTS
    TypeOK
    OnePromptPerRun
    OrderIsEnough
    ClaimsAreOwn
PROPERTIES
    RecoversByRerunning
