CONSTANTS
    p1 = p1
    p2 = p2
    None = None
    Proc = {p1, p2}
    CliProc = {p2}
    Notifications <- StopNotes
    NativeIds = {"n"}
    Transcripts <- OneTurn
    TornAt = {}
    MaxRecords = 2
    MaxRuns = 2
    MaxCrashes = 1
    MaxFaults = 0
SPECIFICATION Spec
INVARIANT SessionNamesNewestTrace
INVARIANT ProgressIsBacked
INVARIANT CommittedIsStored
INVARIANT FilesMirrorStore
PROPERTY StoreIsALog
CHECK_DEADLOCK FALSE
