CONSTANTS
    Thread = {1, 2, 3}
    Nested = {1}
    Rules <- BothRules
    Threshold = 2
    MaxLessons = 3
    MaxOps = 2
    MaxFaults = 1
    Task = {1, 2}
    PoolWorker = {w1}
    Tag = {"IF1", "P1"}
    FromMain = FALSE
    MaxPipelineRuns = 2
    MaxPipelineKills = 1
    NoFile = NoFile
    Case = {1, 2, 3}
    Code = {"a", "b"}
    MaxEvolvingRuns = 3
    MaxCrashes = 1
    e1 = e1
    e2 = e2
    e3 = e3
    None = None
    Proc = {p1, p2}
    Founder = {p1, p2}
    Writer = {p1, p2}
    Resetter = {p1}
    Record = {e1, e2, e3}
    Size <- Sizes
    MaxKills = 1
    Logger = {l1, l2}
    MaxMessages = 2
    MaxHandles = 2
    MaxEvents = 8
    Numberings <- Indices
    MaxFindings = 1
    Ensembles <- LineUps
    MaxScan = 3
    MaxCandidates = 2
    MaxBackends = 2
    TopK = 2
    LastPlace = 1000000000
    Confidence = {4, 9}
SPECIFICATION GuiSpec
INVARIANTS
    WriterIsAlone
    SleepersHaveAWaker
    AddedStaysReferred
    SummaryMatchesResults
    AnalysedIsRecorded
    TrailIsAChain
    AuditedHasResult
    AddedIsKept
    StoreIsExact
    ClosedLoggerLosesNothing
    BisectFindsRoot
    BisectIsLogarithmic
    AgreedIsFirst
PROPERTY ListIsComplete
CHECK_DEADLOCK FALSE
