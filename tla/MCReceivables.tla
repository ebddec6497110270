---------------------------- MODULE MCReceivables ----------------------------
(* The rows and the requests of each instance are interchangeable.           *)
EXTENDS Receivables, TLC

Rows == Permutations(Inv) \cup Permutations(Pay) \cup Permutations(Key)
          \cup Permutations(Note) \cup Permutations(Txn)

==============================================================================
