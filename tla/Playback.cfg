SPECIFICATION FairSpec
CONSTANTS
    Calls = {c1, c2, c3}
    Kinds = {"stream", "wav", "cached", "stop"}
    Nobody = Nobody
INVARIANTS
    OwnedUnlessRaced
    StoppedGraphSilent
PROPERTIES
    CallsSettle
CHECK_DEADLOCK FALSE
