SPECIFICATION OrderingSpec
CONSTANTS
    Nothing = Nothing
    Line = {l1}
    Session = {t1, t2}
    Quantity = {1, 2}
    Price = {1, 2}
    Ordered = 2
    Quoted = 1
    Fields = {"QUANTITY_ORDERED", "UNIT_PRICE"}
    ValueThreshold = 0
    MaxAmend = 2
SYMMETRY Rows
INVARIANTS
    AmendmentsNumbered
    OrderAddsUp
    LimboHasExit
CHECK_DEADLOCK FALSE
