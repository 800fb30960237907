SPECIFICATION FairSpec
CONSTANTS
    Chains = {p1, p2}
    Auditions = {a1}
    Others = Others
    Free = Free
    NoChain = NoChain
    Streams = TRUE
    Retries = 1
    MaxGates = 1
INVARIANTS
    DismissedStaysDismissed
    WaitIsLive
PROPERTIES
    RetrySendsPressed
    ControlComesBack
CHECK_DEADLOCK FALSE
