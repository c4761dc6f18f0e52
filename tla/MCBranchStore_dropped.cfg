CONSTANTS
    Handler = {h1, h2}
    TraceId = {x}
    Texts = {"plain"}
    MaxRecords = 2
    MaxKills = 0
SPECIFICATION BranchSpec
INVARIANT AppendedIsKept
CHECK_DEADLOCK FALSE
