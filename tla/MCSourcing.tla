----------------------------- MODULE MCSourcing -----------------------------
(* The rows of each kind, the suppliers and the requests are               *)
(* interchangeable.                                                        *)
EXTENDS Sourcing, TLC

Rows == Permutations(Supplier) \cup Permutations(Resp) \cup Permutations(Award)
          \cup Permutations(Order) \cup Permutations(Txn)

=============================================================================
