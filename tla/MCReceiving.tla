----------------------------- MODULE MCReceiving -----------------------------
(* Receipts, returns and requests are interchangeable; the lines of a       *)
(* return are processed in an order, so receipt lines are not.             *)
EXTENDS Receiving, TLC

CONSTANT x1    \* the receipt line whose goods are taken first

LinePosition ==
    [l \in Lines |-> (IF l[1] = x1 THEN 0 ELSE 2) + (IF l[2] = "DAMAGE" THEN 0 ELSE 1)]

\* Bound: requests that overlap share one return; requests that come one after
\* the other have them all.
OneReturnUnderOverlap ==
    workers = 1 \/ Cardinality({r \in Ret : ret[r] # None}) <= 1

Rows == Permutations(Grn) \cup Permutations(Ret) \cup Permutations(Txn)

=============================================================================
