----------------------------- MODULE Settlement -----------------------------
(***************************************************************************)
(* What paying bills promises: entries (payments, applied debit notes)     *)
(* settle bills of fixed totals one at a time, none takes more than its    *)
(* bill still owes, an entry may be undone, and one that has been undone   *)
(* does not come back.  What a bill owes is at every moment its total less *)
(* the entries that stand.                                                 *)
(***************************************************************************)
EXTENDS Naturals

CONSTANTS Bill, Entry,  \* identities of bills and entries
          Total,        \* what each bill is for
          Amounts       \* amounts an entry may have

VARIABLES owed,    \* what is left to pay of each bill
          stands,  \* entries that count, each with its bill and amount
          undone   \* entries that no longer count

vars == <<owed, stands, undone>>

Init == owed = Total /\ stands = {} /\ undone = {}

Settle(b, e, a) ==
    /\ e \notin undone /\ \A s \in stands : s.id # e
    /\ a <= owed[b]
    /\ owed' = [owed EXCEPT ![b] = @ - a]
    /\ stands' = stands \cup {[id |-> e, bill |-> b, amount |-> a]}
    /\ UNCHANGED undone

Undo(s) ==
    /\ owed' = [owed EXCEPT ![s.bill] = @ + s.amount]
    /\ stands' = stands \ {s}
    /\ undone' = undone \cup {s.id}

Next == \/ \E b \in Bill, e \in Entry, a \in Amounts : Settle(b, e, a)
        \/ \E s \in stands : Undo(s)

Spec == Init /\ [][Next]_vars

=============================================================================
