SPECIFICATION Spec
CONSTANTS
    None = None
    Place = {w1, w2}
    Transfer = {x1}
    Count = {c1}
    Txn = {t1, t2}
    Qty = {1, 50}
    Counted = {49}
    Stock = 50
    Drift = 1
SYMMETRY Rows
INVARIANTS
    LevelsMatch
    PostedAsAgreed
CHECK_DEADLOCK FALSE
