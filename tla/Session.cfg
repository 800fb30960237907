SPECIFICATION FairSpec
CONSTANTS
    Tabs = {a}
    Others = {x}
    Lifetime = 2
    Window = 1
    MaxAttempts = 1
    MaxWrong = 3
    MaxRestarts = 1
INVARIANTS
    AttemptsBounded
    ExpiryNoticed
PROPERTIES
    GetsIn
CHECK_DEADLOCK FALSE
