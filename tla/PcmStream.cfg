SPECIFICATION FairStream
CONSTANTS
    Bytes = 11
    MaxChunk = 5
    Stops = TRUE
    Samples <- BytePairs
    Silence = Silence
    Capacity = 3
    Quantum = 2
    ReportEvery = 2
    Chunks <- NoChunks
INVARIANTS
    HeardInOrder
PROPERTIES
    FifoSpec
    PlayedOut
CHECK_DEADLOCK FALSE
