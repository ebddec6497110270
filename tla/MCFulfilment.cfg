SPECIFICATION Spec
CONSTANTS
    None = None
    Line = {l1}
    Bin = {b1, b2}
    Res = {1, 2}
    Dn = {d1, d2}
    Bill = {v1, v2}
    Txn = {t1, t2}
    Mixes = {{"reserve", "deliver"}, {"reserve", "invoice", "adjust"}, {"invoice", "deliver", "ship"}, {"invoice", "ship", "overdue"}}
    Qty = {1, 2}
    OrderedQty = 2
    StockQty = 2
    Ordered <- MCOrdered
    Stock <- MCStock
SYMMETRY Interchangeable
INVARIANTS
    NoOversell
    WithinOrder
    StockConserved
    ReservedMatches
CHECK_DEADLOCK FALSE
