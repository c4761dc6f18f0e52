CONSTANTS
    Run = {r1, r2}
    Key = {k1}
    Call = {c1, c2}
    Worker = {w1}
    None = None
    MaxRestarts = 0
SPECIFICATION FairSpec
PROPERTIES
    EveryJobEnds
    CancelledJobLeavesQueue
