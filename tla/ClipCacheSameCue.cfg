SPECIFICATION FairSpec
CONSTANTS
    c1 = c1
    c2 = c2
    c3 = c3
    Tees = {}
    Cues = {c1}
    Length <- ShortLong
    MaxBytes = 2
    Transports = {"streaming"}
    Writers = {w1, w2}
    Removers = {}
    Readers = {}
    Boot = Boot
    MaxCrashes = 0
    MaxRefused = 0
    None = None
    Torn = Torn
PROPERTIES
    WhenIdleReturns
CHECK_DEADLOCK FALSE
