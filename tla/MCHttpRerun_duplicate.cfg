CONSTANTS
    Run = {r1, r2}
    Key = {k1}
    Call = {c1, c2}
    Worker = {w1}
    None = None
    MaxRestarts = 0
    MaxRetries = 1
SPECIFICATION ClientSpec
INVARIANT OneRolloutPerSubmission
CHECK_DEADLOCK FALSE
