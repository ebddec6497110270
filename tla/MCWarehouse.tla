---------------------------- MODULE MCWarehouse ----------------------------
(* Warehouses, rows of a kind and requests are interchangeable.            *)
EXTENDS Warehouse, TLC

Rows == Permutations(Place) \cup Permutations(Transfer) \cup Permutations(Count)
          \cup Permutations(Txn)

=============================================================================
