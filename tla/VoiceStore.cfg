SPECIFICATION Spec
CONSTANTS
    VoiceIds = {v1, v2}
    Names = {ada}
    Said = {TRUE, FALSE}
    Window = 1
    MaxTime = 1
    Requests = {r1, r2}
    DiskFails = TRUE
    MaxCrashes = 1
    None = None
    Torn = Torn
SYMMETRY AnyHandler
CONSTRAINT OneDisturbed
INVARIANTS
    PairTogether
    RestartChangesNothing
PROPERTIES
    DeletedUntilRestored
CHECK_DEADLOCK FALSE
