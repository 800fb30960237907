SPECIFICATION Spec
CONSTANTS
    c1 = c1
    c2 = c2
    c3 = c3
    Tees = {c1}
    Cues = {c2}
    Length <- ShortLong
    MaxBytes = 2
    Transports = {"streaming", "buffered"}
    Writers = {w1, w2}
    Removers = {d1}
    Readers = {r1}
    Boot = Boot
    MaxCrashes = 1
    MaxRefused = 1
    None = None
    Torn = Torn
SYMMETRY AnyWriter
INVARIANTS
    IndexedOnDisk
    BudgetAtRest
    EveryWriteAwaited
CHECK_DEADLOCK FALSE
