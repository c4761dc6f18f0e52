CONSTANTS
    p1 = p1
    p2 = p2
    None = None
    Proc = {p1}
    CliProc = {p1}
    Notifications <- TurnNotes
    NativeIds = {"n"}
    Transcripts <- OneTurn
    TornAt = {1}
    MaxRecords = 2
    MaxRuns = 2
    MaxCrashes = 1
    MaxFaults = 1
SPECIFICATION RecoverySpec
PROPERTY EveryReceiptIsSettled
CHECK_DEADLOCK FALSE
