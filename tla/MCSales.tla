------------------------------ MODULE MCSales ------------------------------
(* A product with a list price and a client's special one, which may end,  *)
(* while the list price rises and a price by volume is added.              *)
EXTENDS Sales, TLC

CONSTANTS c1, p1

Row(type, client, min, amount) ==
    [product |-> p1, type |-> type, client |-> client, min_quantity |-> min, price |-> amount]

AtFirst ==
    LET first == {Row("DEFAULT_SALES", Absent, 0, 3), Row("CUSTOMER_SPECIFIC", c1, 0, 1)}
    IN  CHOOSE f \in [Price -> first] : \A r \in first : \E i \in Price : f[i] = r

Rows ==
    {Row("DEFAULT_SALES", Absent, 0, 4), Row("TIER_1", Absent, 3, 2),
     Row("CUSTOMER_SPECIFIC", c1, 3, 1)}

Ids == Permutations(Quotation) \cup Permutations(Invoice) \cup Permutations(Session)

=============================================================================
