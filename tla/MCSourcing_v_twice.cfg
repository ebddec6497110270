SPECIFICATION Spec
CONSTANTS
    None = None
    Supplier = {s1}
    Resp = {r1}
    Award = {a1}
    Order = {o1, o2}
    Txn = {t1, t2}
    Need = 2
    Qty = {2}
    Threshold = 2
    Mode = "SPLIT"
SYMMETRY Rows
INVARIANTS
    OneOrderPerAward
CHECK_DEADLOCK FALSE
