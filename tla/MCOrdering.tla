----------------------------- MODULE MCOrdering -----------------------------
(* Lines and requests are interchangeable.                                 *)
EXTENDS Ordering, TLC

Rows == Permutations(Line) \cup Permutations(Session)

=============================================================================
