CONSTANTS
    p1 = p1
    p2 = p2
    None = None
    Proc = {p1, p2}
    CliProc = {}
    Notifications <- StopNotes
    NativeIds = {"n"}
    Transcripts <- OneTurn
    TornAt = {}
    MaxRecords = 2
    MaxRuns = 2
    MaxCrashes = 0
    MaxFaults = 0
SPECIFICATION Spec
INVARIANT AnsweredIsStored
CHECK_DEADLOCK FALSE
