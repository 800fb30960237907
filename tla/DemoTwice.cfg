SPECIFICATION DemoFair
CONSTANTS
    Windows = {"300", "600"}
    FirstFile <- Twice
    MaxStops = 2
    MaxMeddling = 1
    WordShape <- Word
    Conservative = 250
    Uploads <- AllUploads
    Buckets = {1, 3, 7}
    Recordings <- SomeRecordings
    Targets = {0, 45, 100, 300}
    Corrections <- SomeCorrections
    SavedVoices <- SomeVoices
    Lines <- SomeLines
    Instructions <- SomeInstructions
    CeilingFiles <- SomeCeilings
    Sources <- SomeSources
    Layouts <- SomeLayouts
    References <- SomeReferences
    Timelines <- SomeTimelines
    Gaps = {0, 6000, 12011}
INVARIANTS
    ReadyIsRunnable
CHECK_DEADLOCK FALSE
