SPECIFICATION FairSpec
CONSTANTS
    Texts = {"hi", "bye"}
    Overlong = {}
    Voices = {ada}
    NoVoice = NoVoice
    Size = 2
    MaxObjs = 2
    MaxClips = 2
    Runs = {r1, r2}
    Edits = {}
    Console = Console
    Abandoned = Abandoned
    NoOne = NoOne
    FirstText <- FirstBoth
PROPERTIES
    RunFinishes
CHECK_DEADLOCK FALSE
