SPECIFICATION SalesSpec
CONSTANTS
    Absent = Absent
    c1 = c1
    p1 = p1
    Client = {c1}
    Product = {p1}
    Enquiry = {e1}
    Quotation = {q1}
    Order = {o1}
    Invoice = {i1, i2, i3}
    Session = {t1, t2}
    Category = {k1, k2, k3}
    Name = {n1, n2, n3}
    Unit = {u1, u2, u3}
    Price = {r1, r2}
    Qty = {3}
    Discount = {2}
    Factor = {2, 3}
    LastDay = 1
    PriceRows <- Rows
    Stock <- AtFirst
    Mixes = {{"enquiries", "quotations", "overlap"}, {"orders", "overlap"}, {"enquiries", "quotations"}, {"quotations", "orders"}, {"categories"}, {"units", "products", "prices"}}
SYMMETRY Ids
INVARIANTS
    ConvertedOnce
    SlicesAddUp
    CatalogueIsSound
PROPERTIES
    AnswersAreKept
CHECK_DEADLOCK FALSE
