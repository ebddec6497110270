----------------------------- MODULE Warehouse -----------------------------
(***************************************************************************)
(* Stock of one product that moves between warehouses by transfers         *)
(* (stock_transfer_service), is counted and corrected                      *)
(* (stock_count_service), and is adjusted by hand (inventory_ledger).      *)
(*                                                                         *)
(* The headers of transfers and counts are locked by nobody: a request is  *)
(* two steps, and txn[t] keeps what it has read until it commits.  Levels  *)
(* are locked and read behind the lock, in the second step; where it needs *)
(* two levels in opposite orders, the deadlock is one more Abort.          *)
(*                                                                         *)
(* Every warehouse has one bin, a transfer and a count have one line, and  *)
(* nothing is reserved or damaged.                                         *)
(***************************************************************************)
EXTENDS Integers, FiniteSets, Functions

CONSTANTS
    Place,                \* warehouses
    Transfer, Count,      \* row identities
    Txn,                  \* requests that may be open at the same time
    Qty,                  \* quantities transferred and adjusted
    Counted,              \* quantities counted
    Stock,                \* what each warehouse has to begin with
    Drift,                \* bound on what all adjustments add up to
    None

ASSUME QtyAssumption == Qty \subseteq Nat \ {0} /\ Counted \subseteq Nat
ASSUME StockAssumption == Stock \in Nat /\ Drift \in Nat
ASSUME RowsAssumption ==
    /\ IsFiniteSet(Transfer) /\ IsFiniteSet(Count) /\ IsFiniteSet(Txn)
    /\ Transfer \cap Count = {}

VARIABLES
    level,     \* inventory_levels
    transfer,  \* stock_transfers with their line, None while absent
    count,     \* stock_counts with their line, None while absent
    ledger,    \* what the inventory_transactions of a document sum up to in
               \* each warehouse; those of an adjustment have no document
    txn,       \* open requests, None while free
    workers    \* how many requests are served at a time

rows == <<level, transfer, count, ledger>>
vars == <<rows, txn, workers>>

TransferStatus == {"DRAFT", "APPROVED", "IN_TRANSIT", "RECEIVED", "CANCELLED"}
FAILING_STATES == {"RECEIVED", "CANCELLED"}
StockCountStatus == {"SCHEDULED", "IN_PROGRESS", "COMPLETED", "RECONCILED", "CANCELLED"}
Ended == {"COMPLETED", "RECONCILED", "CANCELLED"}

\* Rows, and what an open request has read.
LevelRow == [on_hand : Nat, in_transit : Nat]
TransferRow == [status : TransferStatus, from : Place, to : Place, qty : Qty, received : Nat]
CountRow == [status : StockCountStatus, place : Place, expected : Nat,
             counted : Counted \cup {None}, flagged : BOOLEAN, approved : BOOLEAN]
TransferOps == {"approve", "dispatch", "receive", "cancel"}
CountOps == {"record", "complete", "sign", "reconcile", "drop"}
Request == [op : TransferOps, transfer : Transfer, status : TransferStatus]
           \cup [op : CountOps, count : Count, row : CountRow]

ASSUME NoneAssumption ==
    None \notin Transfer \cup Count \cup Counted \cup TransferRow \cup CountRow \cup Request

Document == Transfer \cup Count \cup {None}

Init ==
    /\ level = [w \in Place |-> [on_hand |-> Stock, in_transit |-> 0]]
    /\ transfer = [x \in Transfer |-> None]
    /\ count = [c \in Count |-> None]
    /\ ledger = [d \in Document |-> [w \in Place |-> 0]]
    /\ txn = [t \in Txn |-> None]
    /\ workers \in 1..Cardinality(Txn)

Free == Cardinality({t \in Txn : txn[t] # None}) < workers

Begin(t, request) ==
    /\ txn[t] = None /\ Free
    /\ txn' = [txn EXCEPT ![t] = request]
    /\ UNCHANGED <<rows, workers>>

End(t) == txn' = [txn EXCEPT ![t] = None] /\ UNCHANGED workers

Is(t, op) == txn[t] # None /\ txn[t].op = op

\* A lost client, a crash, a deadlock, or a constraint that fails.
Abort(t) == txn[t] # None /\ End(t) /\ UNCHANGED rows

\* The CHECK constraints of inventory_levels.
Valid(l) == l.on_hand >= 0 /\ l.in_transit >= 0

\* Levels change, and the ledger of document d by the changes of what is on
\* hand: the rows an operation adds.
Post(d, on_hand, in_transit) ==
    /\ level' = [w \in Place |-> [on_hand |-> level[w].on_hand + on_hand[w],
                                  in_transit |-> level[w].in_transit + in_transit[w]]]
    /\ \A w \in Place : Valid(level'[w])
    /\ ledger' = [ledger EXCEPT ![d] = [w \in Place |-> ledger[d][w] + on_hand[w]]]

\* A change of q at warehouse p.
By(p, q) == [w \in Place |-> IF w = p THEN q ELSE 0]

Abs(n) == IF n < 0 THEN -n ELSE n

Adjust(w, q) ==
    /\ Free
    /\ Post(None, By(w, q), By(w, 0))
    /\ SumFunction([p \in Place |-> Abs(ledger'[None][p])]) <= Drift
    /\ UNCHANGED <<transfer, count, txn, workers>>

-----------------------------------------------------------------------------
(* Transfers.                                                              *)

CreateTransfer(x, from, to, q) ==
    /\ Free /\ transfer[x] = None /\ from # to
    /\ transfer' = [transfer EXCEPT ![x] =
         [status |-> "DRAFT", from |-> from, to |-> to, qty |-> q, received |-> 0]]
    /\ UNCHANGED <<level, count, ledger, txn, workers>>

Permits(op, status) ==
    \/ op = "approve" /\ status = "DRAFT"
    \/ op = "dispatch" /\ status = "APPROVED"
    \/ op = "receive" /\ status = "IN_TRANSIT"
    \/ op = "cancel" /\ status \notin FAILING_STATES

TransferRead(t, op, x) ==
    /\ transfer[x] # None /\ Permits(op, transfer[x].status)
    /\ Begin(t, [op |-> op, transfer |-> x, status |-> transfer[x].status])

Ends(t, status) ==
    transfer' = [transfer EXCEPT ![txn[t].transfer] = [@ EXCEPT !.status = status]]

ApproveDone(t) ==
    /\ Is(t, "approve")
    /\ Ends(t, "APPROVED") /\ End(t) /\ UNCHANGED <<level, count, ledger>>

DispatchDone(t) ==
    /\ Is(t, "dispatch")
    /\ LET x == txn[t].transfer
           q == transfer[x].qty
       IN  /\ level[transfer[x].from].on_hand >= q
           /\ Post(x, By(transfer[x].from, -q), By(transfer[x].from, q))
    /\ Ends(t, "IN_TRANSIT") /\ End(t) /\ UNCHANGED count

\* Faulty: what did not arrive stays in transit.
ArrivalPartial(row, q) == By(row.from, -q)

\* All that was sent is no longer in transit.
Arrival(row, q) == By(row.from, -row.qty)

\* What does not arrive is off the books of both warehouses.
ReceiveDone(t, q) ==
    /\ Is(t, "receive")
    /\ LET x == txn[t].transfer
       IN  /\ q \in 0..transfer[x].qty
           /\ Post(x, By(transfer[x].to, q), Arrival(transfer[x], q))
           /\ transfer' = [transfer EXCEPT ![x] =
                [@ EXCEPT !.status = "RECEIVED", !.received = q]]
    /\ End(t) /\ UNCHANGED count

\* Faulty: cancelling puts the goods back whether they had left or not.
CancelDoneReturns(t) ==
    /\ Is(t, "cancel")
    /\ LET x == txn[t].transfer
           q == transfer[x].qty
       IN  Post(x, By(transfer[x].from, q),
                   By(transfer[x].from, IF txn[t].status = "IN_TRANSIT" THEN -q ELSE 0))
    /\ Ends(t, "CANCELLED") /\ End(t) /\ UNCHANGED count

CancelDone(t) ==
    /\ Is(t, "cancel")
    /\ LET x == txn[t].transfer
           q == transfer[x].qty
       IN  IF txn[t].status = "IN_TRANSIT"
           THEN Post(x, By(transfer[x].from, q), By(transfer[x].from, -q))
           ELSE UNCHANGED <<level, ledger>>
    /\ Ends(t, "CANCELLED") /\ End(t) /\ UNCHANGED count

-----------------------------------------------------------------------------
(* Counts.                                                                 *)

\* The line expects what is on hand when the count is scheduled.
CreateCount(c, w) ==
    /\ Free /\ count[c] = None
    /\ count' = [count EXCEPT ![c] =
         [status |-> "SCHEDULED", place |-> w, expected |-> level[w].on_hand,
          counted |-> None, flagged |-> FALSE, approved |-> FALSE]]
    /\ UNCHANGED <<level, transfer, ledger, txn, workers>>

\* A variance of more than two per cent.
NeedsApproval(expected, counted) ==
    LET variance == Abs(counted - expected)
    IN  variance # 0 /\ (expected = 0 \/ variance * 100 > expected * 2)

CountPermits(op, row) ==
    \/ op = "record" /\ row.status \notin Ended
    \/ op = "complete" /\ row.status \notin Ended /\ row.counted # None
    \/ op = "sign" /\ row.status = "COMPLETED"
    \/ op = "reconcile" /\ row.status = "COMPLETED" /\ (row.flagged => row.approved)
    \/ op = "drop" /\ row.status \notin Ended

CountRead(t, op, c) ==
    /\ count[c] # None /\ CountPermits(op, count[c])
    /\ Begin(t, [op |-> op, count |-> c, row |-> count[c]])

\* A column is written if it differs from what was read.
Column(new, read, now) == IF new # read THEN new ELSE now

\* The columns of the line and its header; place and expectation stay.
WriteCount(t, new) ==
    LET c == txn[t].count
        read == txn[t].row
    IN  count' = [count EXCEPT ![c] =
          [@ EXCEPT !.status = Column(new.status, read.status, count[c].status),
                    !.counted = Column(new.counted, read.counted, count[c].counted),
                    !.flagged = Column(new.flagged, read.flagged, count[c].flagged),
                    !.approved = Column(new.approved, read.approved, count[c].approved)]]

RecordDone(t, n) ==
    /\ Is(t, "record")
    /\ WriteCount(t, [txn[t].row EXCEPT !.counted = n, !.status = "IN_PROGRESS"])
    /\ End(t) /\ UNCHANGED <<level, transfer, ledger>>

CompleteDone(t) ==
    /\ Is(t, "complete")
    /\ WriteCount(t, [txn[t].row EXCEPT !.status = "COMPLETED",
                        !.flagged = NeedsApproval(txn[t].row.expected, txn[t].row.counted)])
    /\ End(t) /\ UNCHANGED <<level, transfer, ledger>>

\* approve_count leaves the status as it is.
SignDone(t) ==
    /\ Is(t, "sign")
    /\ WriteCount(t, [txn[t].row EXCEPT !.approved = txn[t].row.approved \/ txn[t].row.flagged])
    /\ End(t) /\ UNCHANGED <<level, transfer, ledger>>

ReconcileDone(t) ==
    /\ Is(t, "reconcile")
    /\ LET row == txn[t].row
       IN  /\ Post(txn[t].count, By(row.place, row.counted - row.expected), By(row.place, 0))
           /\ WriteCount(t, [row EXCEPT !.status = "RECONCILED"])
    /\ End(t) /\ UNCHANGED transfer

DropDone(t) ==
    /\ Is(t, "drop")
    /\ WriteCount(t, [txn[t].row EXCEPT !.status = "CANCELLED"])
    /\ End(t) /\ UNCHANGED <<level, transfer, ledger>>

-----------------------------------------------------------------------------

\* The endpoints of transfers and of counts.
TransferRequests(t) ==
    \/ \E x \in Transfer :
        \/ \E op \in {"approve", "dispatch", "receive", "cancel"} : TransferRead(t, op, x)
        \/ \E from, to \in Place, q \in Qty : CreateTransfer(x, from, to, q)
    \/ ApproveDone(t) \/ DispatchDone(t) \/ CancelDone(t)
    \/ \E q \in Qty \cup {0} : ReceiveDone(t, q)

CountRequests(t) ==
    \/ \E c \in Count :
        \/ \E op \in {"record", "complete", "sign", "reconcile", "drop"} : CountRead(t, op, c)
        \/ \E w \in Place : CreateCount(c, w)
    \/ \E n \in Counted : RecordDone(t, n)
    \/ CompleteDone(t) \/ SignDone(t) \/ ReconcileDone(t) \/ DropDone(t)

Next ==
    \/ \E w \in Place, q \in Qty : Adjust(w, q) \/ Adjust(w, -q)
    \/ \E t \in Txn : TransferRequests(t) \/ CountRequests(t) \/ Abort(t)

Spec == Init /\ [][Next]_vars

-----------------------------------------------------------------------------
(* Properties.                                                             *)

TypeOK ==
    /\ level \in [Place -> LevelRow]
    /\ transfer \in [Transfer -> TransferRow \cup {None}]
    /\ count \in [Count -> CountRow \cup {None}]
    /\ ledger \in [Document -> [Place -> Int]]
    /\ txn \in [Txn -> Request \cup {None}]
    /\ workers \in 1..Cardinality(Txn)

\* What is on hand in a warehouse is what the ledger says, whatever overlaps:
\* requests that post twice post twice to both.
LedgerSum(w) == SumFunction([d \in Document |-> ledger[d][w]])
LedgerAgrees == \A w \in Place : level[w].on_hand = Stock + LedgerSum(w)

\* What is in transit from a warehouse are the transfers on their way, one
\* request at a time.
OnTheWay(row, w) ==
    IF row # None /\ row.status = "IN_TRANSIT" /\ row.from = w THEN row.qty ELSE 0
InTransit(w) == SumFunction([x \in Transfer |-> OnTheWay(transfer[x], w)])
InTransitMatches == workers = 1 => \A w \in Place : level[w].in_transit = InTransit(w)

\* Rows have their types; the ledger explains what is on hand, whatever
\* overlaps, and transfers what is in transit, one request at a time.
LevelsMatch == TypeOK /\ LedgerAgrees /\ InTransitMatches

\* What the ledger holds of a document is what its status says, one request at
\* a time: goods that left and did not come back, goods that arrived, the
\* variance of a reconciled count.
Due(row, w) ==
    IF row = None \/ row.status \notin {"IN_TRANSIT", "RECEIVED"} THEN 0
    ELSE IF w = row.from THEN -row.qty
    ELSE IF w = row.to THEN row.received ELSE 0
Variance(row, w) ==
    IF row # None /\ row.status = "RECONCILED" /\ row.place = w
    THEN row.counted - row.expected ELSE 0
PostedAsStated ==
    workers = 1 =>
        /\ \A x \in Transfer, w \in Place : ledger[x][w] = Due(transfer[x], w)
        /\ \A c \in Count, w \in Place : ledger[c][w] = Variance(count[c], w)

\* No variance of more than two per cent is posted without an approval, one
\* request at a time (wave-stock-counting-addendum.md:29).
LargeVarianceApproved ==
    workers = 1 => \A c \in Count :
        /\ count[c] # None /\ count[c].status = "RECONCILED"
        /\ Abs(count[c].counted - count[c].expected) * 100 > count[c].expected * 2
        => count[c].approved

\* Documents have posted what they say, and no more than was approved.
PostedAsAgreed == PostedAsStated /\ LargeVarianceApproved

=============================================================================
