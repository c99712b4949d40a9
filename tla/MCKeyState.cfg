SPECIFICATION FairKeySpec
CONSTANTS
    a = a
    b = b
    Sessions = {a, b}
    None = None
    Plans <- MCPlans
    Attempts = 2
    MaxSignals = 1
INVARIANTS
    NoSemanticLie
    SecretOpensRoot
    LockNotHeldIdle
PROPERTIES
    UnlockReleasesPrompts
CHECK_DEADLOCK FALSE
