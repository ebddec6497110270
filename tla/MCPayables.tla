----------------------------- MODULE MCPayables -----------------------------
(* Invoices of the same small total, which may come without items, with    *)
(* two of one line, with one the line cannot cover and one for no line.    *)
(* The rows of each kind are interchangeable.                              *)
EXTENDS Payables, TLC
CONSTANT InvoiceTotal

MCTotal == [i \in Inv |-> InvoiceTotal]

Of(l, n) == [line |-> l, qty |-> n]
MCItemLists ==
    {<< >>} \cup UNION {{<<Of(l, 1), Of(l, 1)>>, <<Of(l, 2), Of(None, 1)>>} : l \in OrderLine}

Rows == Permutations(Inv) \cup Permutations(Pay) \cup Permutations(Key)
          \cup Permutations(Note) \cup Permutations(Txn)

=============================================================================
