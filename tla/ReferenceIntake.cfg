SPECIFICATION FairSpec
CONSTANTS
    Tasks = {t1, t2}
    MaxIds = 2
    MaxAge = 1
    MaxClock = 1
    MaxKills = 1
    MaxFaulty = 1
    Mics = {m1}
INVARIANTS
    NothingLeftBehind
    HeldIsServed
    MicrophoneOwned
PROPERTIES
    StagingEnds
CHECK_DEADLOCK FALSE
