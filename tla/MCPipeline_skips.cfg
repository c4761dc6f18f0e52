CONSTANTS
    Task = {1, 2}
    PoolWorker = {w1, w2}
    Tag = {"IF1", "P1"}
    FromMain = TRUE
    MaxPipelineRuns = 2
    MaxPipelineKills = 0
    NoFile = NoFile
SPECIFICATION PipelineSpec
INVARIANT SkippedWhenAsked
CHECK_DEADLOCK FALSE
