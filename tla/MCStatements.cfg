SPECIFICATION StatementsSpec
CONSTANTS
    Absent = Absent
    Bill = {b1}
    Pay = {p1, p2}
    Note = {n1}
    Amounts = {1, 2}
    Totals = {2}
    Terms = 0
    Band = 1
    LastDay = 3
    Mixes = {{"customer", "pay", "pdc", "credit", "debit", "void"}, {"customer", "pay", "backdate"}, {"supplier", "pay", "pdc", "credit", "void", "reverse"}, {"supplier", "pay", "credit", "backdate"}}
SYMMETRY Rows
INVARIANTS
    ClosingIsDueUndebited
    HistoryStands
    
CHECK_DEADLOCK FALSE
