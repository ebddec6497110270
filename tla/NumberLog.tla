------------------------------ MODULE NumberLog ------------------------------
(* What a number service promises its workspace for a year: numbers are      *)
(* issued one after the other, starting with 1, each to a request that has   *)
(* none, and no number is ever taken back or changed.                        *)
EXTENDS Naturals

CONSTANT Request

VARIABLES
    count,   \* how many numbers have been issued
    number   \* the number of each request, 0 for none

Init ==
    /\ count = 0
    /\ number = [r \in Request |-> 0]

Issue(r) ==
    /\ number[r] = 0
    /\ count' = count + 1
    /\ number' = [number EXCEPT ![r] = count + 1]

Spec == Init /\ [][\E r \in Request : Issue(r)]_<<count, number>>

=============================================================================
