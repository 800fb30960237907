SPECIFICATION LibrarySpec
CONSTANTS
    MaxVoices = 2
    Calls = {k1, k2}
    MaxOthers = 1
    NoVoice = NoVoice
INVARIANTS
    ListIsStored
    UndoIsHonest
    NeverSubstituted
CHECK_DEADLOCK FALSE
