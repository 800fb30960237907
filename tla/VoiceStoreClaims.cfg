SPECIFICATION Spec
CONSTANTS
    VoiceIds = {v1, v2}
    Names = {ada}
    Said = {TRUE, FALSE}
    Window = 1
    MaxTime = 2
    Requests = {r1}
    DiskFails = FALSE
    MaxCrashes = 1
    None = None
    Torn = Torn
INVARIANTS
    VoicesSurviveKill
    NamesUnique
PROPERTIES
    RestoreOnlyInWindow
CHECK_DEADLOCK FALSE
