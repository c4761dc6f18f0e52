CONSTANTS
    Run = {r1, r2}
    Key = {k1}
    Call = {c1, c2}
    Worker = {w1}
    None = None
    MaxRestarts = 1
    MaxRetries = 1
SPECIFICATION ClientFairSpec
INVARIANTS
    SucceededIsFetchable
    ReturnedIsOwnResult
    RaisedIsCancelled
PROPERTIES
    ServiceSpec
    EveryClientEnds
CHECK_DEADLOCK FALSE
