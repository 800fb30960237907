SPECIFICATION Spec
CONSTANTS
    Texts = {"hi", "bye"}
    Overlong = {}
    Voices = {ada}
    NoVoice = NoVoice
    Size = 2
    MaxObjs = 2
    MaxClips = 1
    Runs = {r1, r2}
    Edits = {e1}
    Console = Console
    Abandoned = Abandoned
    NoOne = NoOne
    FirstText <- FirstHi
INVARIANTS
    CacheIsHonest
    RunsNeverContend
    VttTimesRealAudio
PROPERTIES
    PatchTouchesOneCue
CHECK_DEADLOCK FALSE
