CONSTANTS
    p1 = p1
    p2 = p2
    None = None
    Proc = {p1}
    CliProc = {}
    Notifications <- LifecycleNotes
    NativeIds = {"n"}
    Transcripts <- Varied
    TornAt = {1}
    MaxRecords = 3
    MaxRuns = 3
    MaxCrashes = 1
    MaxFaults = 0
SPECIFICATION Spec
INVARIANT AnsweredIsStored
INVARIANT ConsecutiveTracesDiffer
CHECK_DEADLOCK FALSE
