SPECIFICATION Spec
CONSTANTS
    None = None
    Supplier = {s1, s2}
    Resp = {r1, r2}
    Award = {a1, a2}
    Order = {o1, o2}
    Txn = {t1, t2}
    Need = 3
    Qty = {1, 2}
    Threshold = 1
    Mode = "SPLIT"
SYMMETRY Rows
INVARIANTS
    QuotesInOrder
    ConvertedIsOrdered
    ClosedIsCovered
CHECK_DEADLOCK FALSE
