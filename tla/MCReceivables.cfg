SPECIFICATION Spec
CONSTANTS
    None = None
    Same = Same
    Inv = {i1, i2}
    Pay = {p1, p2}
    Key = {k1}
    Note = {n1, n2}
    Txn = {t1, t2}
    Mixes = {{"pay", "pdc", "void", "expire"}, {"pay", "credit", "debit", "sweep", "delete", "age"}, {"pay", "credit", "debit", "edit"}}
    Amounts = {1, 2}
    Totals = {2}
    Limit = 2
    MaxAge = 1
    MaxExpiries = 1
SYMMETRY Rows
INVARIANTS
    NotOverpaid
    OncePerKey
    StatusMatchesBalance
    NotesAddUp
    ParkedUntilDebited
PROPERTIES
    HoldGate
CHECK_DEADLOCK FALSE
