SPECIFICATION Spec
CONSTANTS
    None = None
    Inv = {i1}
    Pay = {p1, p2}
    Key = {k1}
    Note = {n1}
    Txn = {t1, t2}
    Amounts = {1, 2}
    InvoiceTotal = 2
    Total <- MCTotal
    OrderLine = {l1}
    ItemLists <- MCItemLists
    MaxAccepted = 1
    MaxExpiries = 1
SYMMETRY Rows
INVARIANTS
    PaidAddsUp
    OncePerKey
    PaidOnlyReceived
PROPERTIES
    SettledAsPromised
CHECK_DEADLOCK FALSE
