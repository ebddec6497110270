------------------------------ MODULE Fulfilment ------------------------------
(***************************************************************************)
(* Delivery and invoicing of one customer LPO: stock reservations, the     *)
(* delivery notes that issue stock and consume them, and the quantities    *)
(* invoiced (stock_reservation_service, delivery_note_service,             *)
(* inventory_ledger, customer_po_service, the LPO hooks of                 *)
(* invoice_service, the OVERDUE flip of credit_control_service).           *)
(*                                                                         *)
(* Locks and transactions are as in Receivables: a handler whose reads are *)
(* all behind locks it holds is one step; where rows are read before or    *)
(* without their lock the request is split there, and txn[t] keeps what it *)
(* has read.  A query of a request never sees the status the request has   *)
(* assigned itself (autoflush=False).  Locks on stock levels are taken     *)
(* last and in the step that commits.                                      *)
(*                                                                         *)
(* All lines order one product, a delivery note has one line and the lines *)
(* of a reservation lie in one bin.  Prices, the customer's PO number,     *)
(* drafts of the LPO and the credit gates (an error here) are left out.    *)
(***************************************************************************)
EXTENDS Integers, FiniteSets, Functions

CONSTANTS
    Line, Bin,    \* lines of the LPO; stock levels of its product
    Res, Dn, Bill,\* reservations (in order of creation), delivery notes, invoices
    Txn,          \* requests that may be open at the same time
    Mixes,        \* sets of requests that clients make, one of them per behaviour
    Qty,          \* quantities of a request
    Ordered,      \* ordered quantity of each line
    Stock,        \* opening stock of each bin
    None          \* no row

OpNames == {"reserve", "deliver", "ship", "invoice", "adjust", "overdue"}

ASSUME MixesAssumption == Mixes \subseteq SUBSET OpNames
ASSUME QuantitiesAssumption == /\ Qty \subseteq Nat \ {0}
                               /\ Ordered \in [Line -> Nat] /\ Stock \in [Bin -> Nat]
ASSUME RowsAssumption == /\ Res \subseteq Nat /\ IsFiniteSet(Res)
                         /\ IsFiniteSet(Line) /\ IsFiniteSet(Dn) /\ IsFiniteSet(Bill)

VARIABLES
    ops,    \* the requests of this behaviour
    lpo,    \* status of the customer LPO
    line,   \* cached quantity_delivered and quantity_invoiced of its lines
    bill,   \* invoices made from the LPO, None while absent
    dn,     \* delivery notes, None while absent or deleted
    rsv,    \* reservations, None while absent
    due,    \* reservations past expires_at
    level,  \* inventory_levels: on_hand and reserved
    txn     \* open requests, None while free

vars == <<ops, lpo, line, bill, dn, rsv, due, level, txn>>

LpoStatus == {"DRAFT", "RECEIVED", "PARTIAL", "INVOICED", "CANCELLED"}
LPO_SHIPPABLE == {"RECEIVED", "PARTIAL", "INVOICED"}
DnStatus == {"DRAFT", "CONFIRMED", "CANCELLED"}
ReservationStatus == {"ACTIVE", "DISPATCHED", "CANCELLED", "EXPIRED"}

\* Rows, and what an open request has read.  LIVE is every status of an
\* invoice that counts, drafts included; `voided` says that its audit log has
\* an INVOICE_VOIDED event.
BillRow == [status : {"LIVE", "CANCELLED", "DELETED"}, voided : BOOLEAN, qty : [Line -> Nat]]
DnRow == [status : DnStatus, of : Bill \cup {None}, line : Line, bin : Bin, qty : Nat]
ItemRow == [qty : Nat, used : Nat, status : ReservationStatus]
Items == [Line -> ItemRow \cup {None}]
ResRow == [status : ReservationStatus, bin : Bin, items : Items]
Request ==
    [op : {"reserve"}, res : Res, bin : Bin, qty : [Line -> Nat]]
    \cup [op : {"release"}, to : {"CANCELLED", "EXPIRED"}, items : [Res -> Items \cup {None}]]
    \cup [op : {"confirm"}, dn : Dn, items : [Res -> ItemRow \cup {None}]]
    \cup [op : {"flip"}, bills : SUBSET Bill]

ASSUME NoneAssumption ==
    None \notin Bill \cup BillRow \cup DnRow \cup ItemRow \cup Items \cup ResRow \cup Request

Init ==
    /\ ops \in Mixes
    /\ lpo = "DRAFT"
    /\ line = [l \in Line |-> [delivered |-> 0, invoiced |-> 0]]
    /\ bill = [b \in Bill |-> None]
    /\ dn = [d \in Dn |-> None]
    /\ rsv = [r \in Res |-> None]
    /\ due = {}
    /\ level = [b \in Bin |-> [on_hand |-> Stock[b], reserved |-> 0]]
    /\ txn = [t \in Txn |-> None]

-----------------------------------------------------------------------------

Monus(a, b) == IF a > b THEN a - b ELSE 0
Least(a, b) == IF a < b THEN a ELSE b

Open(t) == txn[t] # None
Is(t, op) == Open(t) /\ txn[t].op = op
Confirming(of) == {t \in Txn : Is(t, "confirm") /\ dn[txn[t].dn].of = of}
LpoFree == Confirming(None) = {}
HeaderFree(t, r) == \A u \in Txn \ {t} : Is(u, "release") => txn[u].items[r] = None

Available(b) == level[b].on_hand - level[b].reserved
Remaining(item) == item.qty - item.used

\* ACTIVE remaining of a line of a reservation (None where it has no such line).
Active(item) == item # None /\ item.status = "ACTIVE"
Left(item) == IF Active(item) THEN Remaining(item) ELSE 0
Held(r, l) == IF rsv[r] = None THEN 0 ELSE Left(rsv[r].items[l])

\* active_remaining_by_cpo_item, confirmed_cpo_qty_map and invoiced_qty_map.
Already(l) == SumFunction([r \in Res |-> Held(r, l)])
Confirmed(note) == note # None /\ note.status = "CONFIRMED"
Delivers(note, of, l) ==
    IF Confirmed(note) /\ note.of = of /\ note.line = l THEN note.qty ELSE 0
ConfirmedOf(of, l) == SumFunction([d \in Dn |-> Delivers(dn[d], of, l)])
ConfirmedQty(l) == ConfirmedOf(None, l)

\* A note delivers the LPO (of = None) or an invoice: what its parent has of a
\* line, what remaining_of leaves of that, and whether the parent allows notes.
ParentQty(of, l) == IF of = None THEN Ordered[l] ELSE bill[of].qty[l]
Leftover(of, l) == Monus(ParentQty(of, l), ConfirmedOf(of, l))
ParentOpen(of) ==
    IF of = None THEN lpo \in LPO_SHIPPABLE
    ELSE bill[of] # None /\ bill[of].status = "LIVE"
Countable == {b \in Bill : bill[b] # None /\ bill[b].status = "LIVE"}
Void == {b \in Bill : bill[b] # None /\ bill[b].status = "CANCELLED"}
Bills(row, l) == IF row # None /\ row.status = "LIVE" THEN row.qty[l] ELSE 0
InvoicedQty(l) == SumFunction([b \in Bill |-> Bills(bill[b], l)])

-----------------------------------------------------------------------------
(* The LPO.                                                                *)

ReceiveLpo ==
    /\ lpo = "DRAFT"
    /\ lpo' = "RECEIVED"
    /\ UNCHANGED <<ops, line, bill, dn, rsv, due, level, txn>>

\* Reservations and delivery notes do not keep an LPO from being cancelled.
CancelLpo ==
    /\ lpo = "RECEIVED" /\ LpoFree
    /\ Countable = {}
    /\ lpo' = "CANCELLED"
    /\ UNCHANGED <<ops, line, bill, dn, rsv, due, level, txn>>

\* recalc_invoiced, with the quantities `map` of the countable invoices; a
\* cancelled LPO keeps its own.
RecalcInvoiced(map) ==
    IF lpo = "CANCELLED" THEN UNCHANGED <<line, lpo>>
    ELSE /\ line' = [l \in Line |-> [line[l] EXCEPT !.invoiced = Least(map[l], Ordered[l])]]
         /\ lpo' = IF \A l \in Line : map[l] >= Ordered[l] THEN "INVOICED"
                   ELSE IF \E l \in Line : map[l] > 0 THEN "PARTIAL"
                   ELSE "RECEIVED"

\* POST /customer-purchase-orders/{id}/invoices: the invoice is flushed before
\* the recalculation.
CreateBill(b, q) ==
    /\ "invoice" \in ops /\ bill[b] = None
    /\ lpo \in LPO_SHIPPABLE /\ LpoFree
    /\ (\E l \in Line : q[l] > 0) /\ \A l \in Line : q[l] <= Ordered[l] - InvoicedQty(l)
    /\ bill' = [bill EXCEPT ![b] = [status |-> "LIVE", voided |-> FALSE, qty |-> q]]
    /\ RecalcInvoiced([l \in Line |-> InvoicedQty(l) + q[l]])
    /\ UNCHANGED <<ops, dn, rsv, due, level, txn>>

\* Void, or soft delete of a draft, of an invoice of the LPO: its new status
\* has not been flushed when the invoiced quantities are summed.
EndBill(b, status) ==
    /\ b \in Countable /\ LpoFree /\ Confirming(b) = {}
    /\ status = "DELETED" => ~bill[b].voided
    /\ bill' = [bill EXCEPT ![b] = [@ EXCEPT !.status = status,
                                            !.voided = bill[b].voided \/ status = "CANCELLED"]]
    /\ RecalcInvoiced([l \in Line |-> InvoicedQty(l)])
    /\ UNCHANGED <<ops, dn, rsv, due, level, txn>>

\* A request that lists or shows invoices, or evaluates a client's credit,
\* reads the past-due ones without a lock ...
FlipRead(t, late) ==
    /\ "overdue" \in ops /\ ~Open(t)
    /\ late # {} /\ late \subseteq Countable
    /\ txn' = [txn EXCEPT ![t] = [op |-> "flip", bills |-> late]]
    /\ UNCHANGED <<ops, lpo, line, bill, dn, rsv, due, level>>

\* ... and writes OVERDUE over whatever status they have by then: an invoice
\* voided meanwhile counts again, and its LPO is not recalculated.
FlipDone(t) ==
    /\ Is(t, "flip") /\ \A b \in txn[t].bills : Confirming(b) = {}
    /\ bill' = [b \in Bill |->
                 IF b \in txn[t].bills \cap Void
                 THEN [bill[b] EXCEPT !.status = "LIVE"] ELSE bill[b]]
    /\ txn' = [txn EXCEPT ![t] = None]
    /\ UNCHANGED <<ops, lpo, line, dn, rsv, due, level>>

-----------------------------------------------------------------------------
(* Reservations.                                                           *)

\* create_reservation reads the LPO and what is reserved without a lock ...
ReserveRead(t, r, b, q) ==
    /\ "reserve" \in ops /\ ~Open(t)
    /\ lpo \in LPO_SHIPPABLE
    /\ rsv[r] = None /\ \A u \in Txn : Is(u, "reserve") => txn[u].res < r
    /\ \A s \in Res : rsv[s] # None => s < r
    /\ \E l \in Line : q[l] > 0
    /\ \A l \in Line : q[l] > 0 => q[l] + Already(l) <= Ordered[l] - line[l].delivered
    /\ txn' = [txn EXCEPT ![t] = [op |-> "reserve", res |-> r, bin |-> b, qty |-> q]]
    /\ UNCHANGED <<ops, lpo, line, bill, dn, rsv, due, level>>

\* ... inserts the header, whose foreign key waits for the lock of the LPO,
\* and then locks the stock levels and checks what is available.
ReserveDone(t) ==
    /\ Is(t, "reserve") /\ LpoFree
    /\ LET e == txn[t]
           total == SumFunction(e.qty)
       IN  /\ total <= Available(e.bin)
           /\ level' = [level EXCEPT ![e.bin] = [@ EXCEPT !.reserved = level[e.bin].reserved + total]]
           /\ rsv' = [rsv EXCEPT ![e.res] =
                [status |-> "ACTIVE", bin |-> e.bin,
                 items |-> [l \in Line |->
                              IF e.qty[l] = 0 THEN None
                              ELSE [qty |-> e.qty[l], used |-> 0, status |-> "ACTIVE"]]]]
    /\ txn' = [txn EXCEPT ![t] = None]
    /\ UNCHANGED <<ops, lpo, line, bill, dn, due>>

\* Faulty: cancel_reservation does not lock the header.
CancelReadUnlocked(t, r) ==
    /\ ~Open(t)
    /\ rsv[r] # None /\ rsv[r].status = "ACTIVE"
    /\ txn' = [txn EXCEPT ![t] = [op |-> "release", to |-> "CANCELLED",
                     items |-> [x \in Res |-> IF x = r THEN rsv[r].items ELSE None]]]
    /\ UNCHANGED <<ops, lpo, line, bill, dn, rsv, due, level>>

\* cancel_reservation locks the header and reads its lines.
CancelRead(t, r) ==
    /\ ~Open(t)
    /\ rsv[r] # None /\ rsv[r].status = "ACTIVE" /\ HeaderFree(t, r)
    /\ txn' = [txn EXCEPT ![t] = [op |-> "release", to |-> "CANCELLED",
                     items |-> [x \in Res |-> IF x = r THEN rsv[r].items ELSE None]]]
    /\ UNCHANGED <<ops, lpo, line, bill, dn, rsv, due, level>>

\* expire_due locks every ACTIVE header past its expiry.
ExpireRead(t) ==
    /\ ~Open(t)
    /\ LET late == {r \in due : rsv[r].status = "ACTIVE"}
       IN  /\ late # {} /\ \A r \in late : HeaderFree(t, r)
           /\ txn' = [txn EXCEPT ![t] = [op |-> "release", to |-> "EXPIRED",
                items |-> [x \in Res |-> IF x \in late THEN rsv[x].items ELSE None]]]
    /\ UNCHANGED <<ops, lpo, line, bill, dn, rsv, due, level>>

PassExpiry(r) ==
    /\ rsv[r] # None /\ r \notin due
    /\ due' = due \cup {r}
    /\ UNCHANGED <<ops, lpo, line, bill, dn, rsv, level, txn>>

\* What a release takes off bin b, by the lines as they were read.
ActiveLeft(items) == SumFunction([l \in Line |-> Left(items[l])])
Released(e, b) ==
    SumFunction([r \in Res |-> IF e.items[r] # None /\ rsv[r].bin = b
                               THEN ActiveLeft(e.items[r]) ELSE 0])

Ended(items, read, to) ==
    [l \in Line |-> IF Active(read[l]) THEN [items[l] EXCEPT !.status = to] ELSE items[l]]
Release(e) ==
    rsv' = [r \in Res |->
             IF e.items[r] = None THEN rsv[r]
             ELSE [rsv[r] EXCEPT !.status = e.to,
                                 !.items = Ended(rsv[r].items, e.items[r], e.to)]]

\* _release_items: each level is decremented by what the line had left.
ReleaseDone(t) ==
    /\ Is(t, "release")
    /\ Release(txn[t])
    /\ level' = [b \in Bin |->
                  [level[b] EXCEPT !.reserved = Monus(level[b].reserved, Released(txn[t], b))]]
    /\ txn' = [txn EXCEPT ![t] = None]
    /\ UNCHANGED <<ops, lpo, line, bill, dn, due>>

-----------------------------------------------------------------------------
(* Delivery notes.                                                         *)

\* The header's foreign key waits for the lock of the parent.
CreateDn(d, of, l, b, q) ==
    /\ (IF of = None THEN "deliver" ELSE "ship") \in ops /\ dn[d] = None
    /\ ParentOpen(of) /\ Confirming(of) = {}
    /\ q <= Leftover(of, l)
    /\ dn' = [dn EXCEPT ![d] = [status |-> "DRAFT", of |-> of, line |-> l, bin |-> b, qty |-> q]]
    /\ UNCHANGED <<ops, lpo, line, bill, rsv, due, level, txn>>

NoteFree(d) == \A t \in Txn : Is(t, "confirm") => txn[t].dn # d

\* Only new lines are checked against the parent; a new bin is not.
EditDn(d, l, b, q) ==
    /\ dn[d] # None /\ dn[d].status = "DRAFT" /\ NoteFree(d)
    /\ \/ l = dn[d].line /\ q = dn[d].qty
       \/ ParentOpen(dn[d].of) /\ q <= Leftover(dn[d].of, l)
    /\ dn' = [dn EXCEPT ![d] = [@ EXCEPT !.line = l, !.bin = b, !.qty = q]]
    /\ UNCHANGED <<ops, lpo, line, bill, rsv, due, level, txn>>

DeleteDn(d) ==
    /\ dn[d] # None /\ dn[d].status = "DRAFT" /\ NoteFree(d)
    /\ dn' = [dn EXCEPT ![d] = None]
    /\ UNCHANGED <<ops, lpo, line, bill, rsv, due, level, txn>>

\* What release_for_dispatch selects for a line: its ACTIVE reservations that
\* have something left.  It locks none of them.
Reserved(l) == {r \in Res : Held(r, l) > 0}

\* What a confirmation of d selects: invoices hold no reservations.
Selected(d) ==
    [r \in Res |-> IF dn[d].of = None /\ r \in Reserved(dn[d].line)
                   THEN rsv[r].items[dn[d].line] ELSE None]

\* Faulty: the note and its parent are read without a lock.
ConfirmReadUnlocked(t, d) ==
    /\ ~Open(t)
    /\ dn[d] # None /\ dn[d].status = "DRAFT"
    /\ ParentOpen(dn[d].of)
    /\ dn[d].qty <= Leftover(dn[d].of, dn[d].line)
    /\ txn' = [txn EXCEPT ![t] = [op |-> "confirm", dn |-> d, items |-> Selected(d)]]
    /\ UNCHANGED <<ops, lpo, line, bill, dn, rsv, due, level>>

\* confirm holds the note and its parent, checks what remains to be delivered
\* and selects the reservations ...
ConfirmRead(t, d) ==
    /\ ~Open(t)
    /\ dn[d] # None /\ dn[d].status = "DRAFT"
    /\ ParentOpen(dn[d].of) /\ Confirming(dn[d].of) = {}
    /\ dn[d].qty <= Leftover(dn[d].of, dn[d].line)
    /\ txn' = [txn EXCEPT ![t] = [op |-> "confirm", dn |-> d, items |-> Selected(d)]]
    /\ UNCHANGED <<ops, lpo, line, bill, dn, rsv, due, level>>

\* First come, first served: what a dispatch of q takes from reservation r.
Take(items, q, r) ==
    LET earlier == SumFunction([s \in Res |-> IF s < r /\ items[s] # None
                                             THEN Remaining(items[s]) ELSE 0])
    IN  IF items[r] = None THEN 0 ELSE Least(Remaining(items[r]), Monus(q, earlier))

\* What the dispatch takes off bin b.
Taken(items, q, b) ==
    SumFunction([r \in Res |-> IF items[r] # None /\ rsv[r].bin = b
                               THEN Take(items, q, r) ELSE 0])

\* The line l of r after the dispatch: quantity_consumed is written from what
\* was read, the status only when it changes.
Consumed(items, q, r, l) ==
    LET used == items[r].used + Take(items, q, r)
        item == rsv[r].items[l]
    IN  [item EXCEPT !.used = used,
                     !.status = IF used >= item.qty THEN "DISPATCHED" ELSE item.status]

\* Reservations whose last line the dispatch uses up: their header is written.
DispatchedHeaders(items, q, l) ==
    {r \in Res :
        /\ Take(items, q, r) > 0
        /\ items[r].used + Take(items, q, r) >= items[r].qty
        /\ \A m \in Line \ {l} :
              rsv[r].items[m] = None \/ rsv[r].items[m].status = "DISPATCHED"}

\* recalc_delivered, before the note's own status is flushed.
RecalcDelivered(of) ==
    line' = IF of # None THEN line
            ELSE [l \in Line |-> [line[l] EXCEPT !.delivered = ConfirmedQty(l)]]

\* The effect of a confirmation, given what must be available at the bin.
Dispatch(t, needed) ==
    LET d == txn[t].dn
        items == txn[t].items
        q == dn[d].qty
        l == dn[d].line
        full == DispatchedHeaders(items, q, l)
        reserved(b) == Monus(level[b].reserved, Taken(items, q, b))
    IN  /\ \A r \in full : HeaderFree(t, r)
        /\ level[dn[d].bin].on_hand - reserved(dn[d].bin) >= needed
        /\ level' = [b \in Bin |->
                      [on_hand |-> level[b].on_hand - IF b = dn[d].bin THEN q ELSE 0,
                       reserved |-> reserved(b)]]
        /\ rsv' = [r \in Res |->
                    IF Take(items, q, r) = 0 THEN rsv[r]
                    ELSE [rsv[r] EXCEPT
                            !.status = IF r \in full THEN "DISPATCHED" ELSE rsv[r].status,
                            !.items = [rsv[r].items EXCEPT ![l] = Consumed(items, q, r, l)]]]
        /\ dn' = [dn EXCEPT ![d] = [@ EXCEPT !.status = "CONFIRMED"]]
        /\ RecalcDelivered(dn[d].of)
        /\ txn' = [txn EXCEPT ![t] = None]

\* Faulty: stock is issued without looking at what is available.
ConfirmDoneUnchecked(t) ==
    /\ Is(t, "confirm")
    /\ Dispatch(t, 0)
    /\ UNCHANGED <<ops, lpo, bill, due>>

\* ... then locks the stock levels, consumes the reservations and issues.
ConfirmDone(t) ==
    /\ Is(t, "confirm")
    /\ Dispatch(t, dn[txn[t].dn].qty)
    /\ UNCHANGED <<ops, lpo, bill, due>>

\* Faulty: a cancelled note can be cancelled again.
CancelDnTwice(d) ==
    /\ dn[d] # None /\ dn[d].status # "DRAFT"
    /\ ParentOpen(dn[d].of) /\ Confirming(dn[d].of) = {}
    /\ level' = [level EXCEPT ![dn[d].bin] =
                    [@ EXCEPT !.on_hand = level[dn[d].bin].on_hand + dn[d].qty]]
    /\ dn' = [dn EXCEPT ![d] = [@ EXCEPT !.status = "CANCELLED"]]
    /\ RecalcDelivered(dn[d].of)
    /\ UNCHANGED <<ops, lpo, bill, rsv, due, txn>>

\* The stock comes back; the reservations stay DISPATCHED.
CancelDn(d) ==
    /\ dn[d] # None /\ dn[d].status = "CONFIRMED"
    /\ ParentOpen(dn[d].of) /\ Confirming(dn[d].of) = {}
    /\ level' = [level EXCEPT ![dn[d].bin] =
                    [@ EXCEPT !.on_hand = level[dn[d].bin].on_hand + dn[d].qty]]
    /\ dn' = [dn EXCEPT ![d] = [@ EXCEPT !.status = "CANCELLED"]]
    /\ RecalcDelivered(dn[d].of)
    /\ UNCHANGED <<ops, lpo, bill, rsv, due, txn>>

\* POST /inventory/adjust: only on_hand is kept from going below 0.  Stock[b]
\* bounds what is put back.
Adjust(b, delta) ==
    /\ "adjust" \in ops
    /\ level[b].on_hand + delta \in 0 .. Stock[b]
    /\ level' = [level EXCEPT ![b] = [@ EXCEPT !.on_hand = level[b].on_hand + delta]]
    /\ UNCHANGED <<ops, lpo, line, bill, dn, rsv, due, txn>>

-----------------------------------------------------------------------------

\* An error (a failed check, a credit HOLD), a lost client or a crash.
Abort(t) ==
    /\ Open(t)
    /\ txn' = [txn EXCEPT ![t] = None]
    /\ UNCHANGED <<ops, lpo, line, bill, dn, rsv, due, level>>

ReservationRequests(t) ==
    \/ \E r \in Res : CancelRead(t, r)
    \/ \E r \in Res, b \in Bin, q \in [Line -> Qty \cup {0}] : ReserveRead(t, r, b, q)
    \/ ExpireRead(t) \/ ReserveDone(t) \/ ReleaseDone(t)

NoteRequests(d) ==
    \/ \E l \in Line, b \in Bin, q \in Qty :
          \/ \E of \in Bill \cup {None} : CreateDn(d, of, l, b, q)
          \/ EditDn(d, l, b, q)
    \/ DeleteDn(d) \/ CancelDn(d)
    \/ \E t \in Txn : ConfirmRead(t, d)

Next ==
    \/ ReceiveLpo
    \/ CancelLpo
    \/ \E b \in Bill, q \in [Line -> Qty \cup {0}] : CreateBill(b, q)
    \/ \E b \in Bill, status \in {"CANCELLED", "DELETED"} : EndBill(b, status)
    \/ \E t \in Txn : ReservationRequests(t) \/ ConfirmDone(t) \/ Abort(t)
    \/ \E t \in Txn : FlipDone(t) \/ \E late \in SUBSET Bill : FlipRead(t, late)
    \/ \E r \in Res : PassExpiry(r)
    \/ \E d \in Dn : NoteRequests(d)
    \/ \E b \in Bin, q \in Qty : Adjust(b, q) \/ Adjust(b, -q)

Spec == Init /\ [][Next]_vars

-----------------------------------------------------------------------------
(* Properties.                                                             *)

TypeOK ==
    /\ ops \in Mixes
    /\ lpo \in LpoStatus
    /\ line \in [Line -> [delivered : Nat, invoiced : Nat]]
    /\ bill \in [Bill -> BillRow \cup {None}]
    /\ dn \in [Dn -> DnRow \cup {None}]
    /\ rsv \in [Res -> ResRow \cup {None}]
    /\ due \subseteq {r \in Res : rsv[r] # None}
    /\ level \in [Bin -> [on_hand : Nat, reserved : Nat]]
    /\ txn \in [Txn -> Request \cup {None}]

\* Stock that is promised is there: whatever reservations, cancellations,
\* expiries and deliveries overlap, no bin has less on hand than reserved
\* ("Prevents overselling", business-rules.md:68), if nobody adjusts stock.
StockCovered == \A b \in Bin : level[b].reserved <= level[b].on_hand
NoOversell == "adjust" \in ops \/ StockCovered

\* Confirmed notes never deliver more than their parent, the LPO or an
\* invoice, has of a line, however they are edited, confirmed and cancelled.
NotOverDelivered ==
    \A l \in Line, of \in {None} \cup {b \in Bill : bill[b] # None} :
        ConfirmedOf(of, l) <= ParentQty(of, l)

\* What confirmed notes have taken from bin b.
Issues(note, b) == IF Confirmed(note) /\ note.bin = b THEN note.qty ELSE 0
Delivered(b) == SumFunction([d \in Dn |-> Issues(dn[d], b)])

\* Without adjustments, what is missing from a bin is what confirmed notes
\* have taken from it: no confirmation or cancellation posts stock twice.
StockConserved ==
    "adjust" \in ops \/ \A b \in Bin : level[b].on_hand + Delivered(b) = Stock[b]

\* Invoices of the LPO that nobody has voided never bill more than was ordered.
Original(row, l) == IF row # None /\ ~row.voided THEN Bills(row, l) ELSE 0
OriginalQty(l) == SumFunction([b \in Bill |-> Original(bill[b], l)])
NotOverInvoiced == \A l \in Line : OriginalQty(l) <= Ordered[l]

\* All invoices of the LPO together never bill more than was ordered.  They
\* may: an OVERDUE flip that was read before a void and is written after it
\* brings the voided invoice back (MCFulfilment_v_revived.cfg).
BilledWithinOrder == \A l \in Line : InvoicedQty(l) <= Ordered[l]

\* Rows have their types, and neither deliveries nor the invoices that were
\* never voided exceed the line.
WithinOrder == TypeOK /\ NotOverDelivered /\ NotOverInvoiced

\* InventoryLevel.reserved is the sum of what ACTIVE reservation lines have
\* left (stock_reservation_service.py:7-8), where nothing is dispatched.
HoldsIn(row, b) == IF row # None /\ row.bin = b THEN ActiveLeft(row.items) ELSE 0
ReservedIn(b) == SumFunction([r \in Res |-> HoldsIn(rsv[r], b)])
ReservedSum == \A b \in Bin : level[b].reserved = ReservedIn(b)
ReservedMatches == "deliver" \in ops \/ ReservedSum

\* quantity_delivered is what confirmed notes have delivered.
DeliveredMatches == \A l \in Line : line[l].delivered = ConfirmedQty(l)

=============================================================================
