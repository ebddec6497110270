SPECIFICATION Spec
CONSTANTS
    None = None
    Message = {m1, m2}
    Key = {k1}
    Fingerprint = {f1}
    ProviderId = {p1, p2}
    Inbound = {"i1"}
    Captioned = {"i1"}
    Txn = {t1, t2}
    Sender <- Phones
    Client <- Clients
SYMMETRY Rows
INVARIANTS
    OneRowEach
PROPERTIES
    SentRightly
    PromotionIsMonotonic
CHECK_DEADLOCK FALSE
