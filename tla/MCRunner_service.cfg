CONSTANTS
    Run = {r1, r2}
    Key = {k1, k2}
    Call = {c1, c2}
    Worker = {w1, w2}
    None = None
    MaxRestarts = 1
SYMMETRY Symmetry
SPECIFICATION Spec
INVARIANTS
    QueuedIsPending
    CancelIsBinding
PROPERTY LifeSpec
