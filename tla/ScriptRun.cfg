SPECIFICATION Spec
CONSTANTS
    Texts = {"hi"}
    Overlong = {}
    Voices = {ada}
    NoVoice = NoVoice
    Size = 1
    MaxObjs = 2
    MaxClips = 1
    Runs = {r1}
    Edits = {e1}
    Console = Console
    Abandoned = Abandoned
    NoOne = NoOne
    FirstText <- OneHi
INVARIANTS
    UnracedClipIsRight
    GeneratingHasRunner
    ListedCuesCurrent
CHECK_DEADLOCK FALSE
