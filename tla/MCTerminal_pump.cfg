SPECIFICATION FairSpec
CONSTANTS
    w1 = w1
    Watchers <- OneWatcher
    isRecording = TRUE
    MaxRunes = 2
CHECK_DEADLOCK FALSE
INVARIANTS
    TerminalInv
    RecordingIsFaithful
    WatchersSeeARun
PROPERTIES
    PrintedIsSent
    WriterEnds
