SPECIFICATION Spec
CONSTANTS
    Scripts = {s1, s2}
    First = s1
    Size = 2
    Texts = {"line", "other"}
    Blank = "line"
    Voices = {"voice"}
    NoVoice = "described"
    MaxCalls = 2
    MaxRuns = 1
    NoDoc = NoDoc
INVARIANTS
    ScreenIsStored
    DoneRowPlays
CHECK_DEADLOCK FALSE
