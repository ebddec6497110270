---------------------------- MODULE MCFulfilment ----------------------------
(* Small orders from small bins; notes, invoices and requests are            *)
(* interchangeable, reservations are not (they are consumed in order).       *)
EXTENDS Fulfilment, TLC
CONSTANTS OrderedQty, StockQty

MCOrdered == [l \in Line |-> OrderedQty]
MCStock == [b \in Bin |-> StockQty]

Interchangeable == Permutations(Line) \cup Permutations(Bin) \cup Permutations(Dn)
                     \cup Permutations(Bill) \cup Permutations(Txn)

=============================================================================
