SPECIFICATION Spec
CONSTANTS
    None = None
    x1 = x1
    Grn = {g1}
    Item = {x1, x2}
    Ret = {r1, r2}
    Txn = {t1, t2}
    Qty = {1, 2}
    Confirmed = 3
    Stock = 1
    Clients = {}
    Position <- LinePosition
SYMMETRY Rows
CONSTRAINT OneReturnUnderOverlap
INVARIANTS
    StockAddsUp
    SentIsCharged
    ReturnedWithinReceived
CHECK_DEADLOCK FALSE
