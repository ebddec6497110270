---------------------------- MODULE MCStatements ----------------------------
(* A few documents over a few days; rows of one kind are interchangeable.     *)
EXTENDS Statements, TLC

Rows == Permutations(Bill) \cup Permutations(Pay) \cup Permutations(Note)

=============================================================================
