------------------------------ MODULE Ordering ------------------------------
(***************************************************************************)
(* One supplier purchase order from its draft to its end: approval and     *)
(* sending, what the supplier acknowledges, amendments and cancellation    *)
(* (spo_service), beside the receipts that count on its lines              *)
(* (grn_service).                                                          *)
(*                                                                         *)
(* The order's own operations read it without a lock and write, at their   *)
(* end, the columns they changed: two steps, with session[t] holding the   *)
(* changes that follow from what was read.  Numbering, approving and       *)
(* applying an amendment happen behind the lock on the order's row.  An    *)
(* amendment has one line here; dates, terms and taxes are left out, and a *)
(* user other than the proposer is there to approve.                       *)
(*                                                                         *)
(* The names are other than those of Sourcing, which ends where an order   *)
(* begins, so that one module can extend both.                             *)
(***************************************************************************)
EXTENDS Integers, FiniteSets, FiniteSetsExt, SequencesExt

CONSTANTS
    Line,                 \* lines of the order
    Session,              \* requests that may be open at the same time
    Quantity, Price,      \* quantities and unit prices
    Ordered, Quoted,      \* quantity and price of every line to begin with
    ValueThreshold,       \* amendment value above which a checker approves
    Fields,               \* what amendments may change
    MaxAmend,             \* bound on the amendments of the order
    Nothing

ASSUME FiniteAssumption == IsFiniteSet(Line) /\ IsFiniteSet(Session)
ASSUME QuantityAssumption == Quantity \subseteq Nat \ {0} /\ Ordered \in Quantity
ASSUME PriceAssumption == Price \subseteq Nat /\ Quoted \in Price
ASSUME BoundAssumption == ValueThreshold \in Nat /\ MaxAmend \in Nat
ASSUME FieldsAssumption == Fields \subseteq {"QUANTITY_ORDERED", "UNIT_PRICE", "OTHER"}

VARIABLES
    spo,      \* the supplier_purchase_orders row
    item,     \* its supplier_purchase_order_items
    amend,    \* spo_amendments in the order of their insertion
    receipt,  \* quantity of each line on a receipt that is not inspected yet
    session,  \* open requests, Nothing while free
    workers   \* how many requests are served at a time

rows == <<spo, item, amend, receipt>>
ordering == <<rows, session, workers>>

SPOStatus == {"DRAFT", "PENDING_APPROVAL", "APPROVED", "SENT", "PARTIALLY_ACKNOWLEDGED",
              "ACKNOWLEDGED", "REJECTED", "PARTIALLY_CANCELLED", "CANCELLED"}
TERMINAL_SPO_STATUSES == {"REJECTED", "CANCELLED", "PARTIALLY_CANCELLED"}
SPOAmendmentStatus == {"PENDING_APPROVAL", "APPROVED", "APPLIED"}
OPEN_AMENDMENT_STATUSES == {"PENDING_APPROVAL", "APPROVED"}
\* OTHER stands for every field that changes no quantity and no price.
SPOAmendmentField == {"QUANTITY_ORDERED", "UNIT_PRICE", "OTHER"}

SumOf(f(_)) == SumFunction([l \in Line |-> f(l)])

\* create_draft: a line is born as if all of it had been confirmed.
NewItem(q, p) == [ordered |-> q, confirmed |-> q, backordered |-> 0, received |-> 0,
                  open |-> q, cancelled |-> 0, price |-> p, pending |-> FALSE]

InitOrdering ==
    /\ item = [l \in Line |-> NewItem(Ordered, Quoted)]
    /\ spo = [status |-> "DRAFT", flag |-> FALSE, backordered |-> 0,
                ordered |-> SumOf(LAMBDA l : item[l].ordered),
                confirmed |-> SumOf(LAMBDA l : item[l].ordered)]
    /\ amend = <<>>
    /\ receipt = [l \in Line |-> 0]
    /\ session = [t \in Session |-> Nothing]
    /\ workers \in 1..Cardinality(Session)

Free == Cardinality({t \in Session : session[t] # Nothing}) < workers

Begins(t, request) ==
    /\ session[t] = Nothing /\ Free
    /\ session' = [session EXCEPT ![t] = request]
    /\ UNCHANGED <<rows, workers>>

Ends(t) == session' = [session EXCEPT ![t] = Nothing] /\ UNCHANGED workers

Runs(t, op) == session[t] # Nothing /\ session[t].op = op

\* A lost client, a crash, or a deadlock that the database breaks.
Abandon(t) == session[t] # Nothing /\ Ends(t) /\ UNCHANGED rows

\* The columns that a request changed of the row it had read.
Changed(read, new) == [c \in {d \in DOMAIN read : new[d] # read[d]} |-> new[c]]

\* Those columns written to the rows as they are now.
Overwritten(row, changes) ==
    [c \in DOMAIN row |-> IF c \in DOMAIN changes THEN changes[c] ELSE row[c]]
WriteBack(t) ==
    /\ spo' = Overwritten(spo, session[t].order)
    /\ item' = [l \in Line |-> Overwritten(item[l], session[t].items[l])]

-----------------------------------------------------------------------------
(* Approval and sending.                                                   *)

From == [submit |-> "DRAFT", approve |-> "PENDING_APPROVAL", send |-> "APPROVED"]
To == [submit |-> "PENDING_APPROVAL", approve |-> "APPROVED", send |-> "SENT"]

StatusRead(t, op) ==
    /\ spo.status = From[op]
    /\ Begins(t, [op |-> op])

StatusDone(t) ==
    /\ session[t] # Nothing /\ session[t].op \in DOMAIN From
    /\ spo' = [spo EXCEPT !.status = To[session[t].op]]
    /\ Ends(t) /\ UNCHANGED <<item, amend, receipt>>

-----------------------------------------------------------------------------
(* Amendments.                                                             *)

Open(rowset) == {i \in DOMAIN rowset : rowset[i].status \in OPEN_AMENDMENT_STATUSES}

\* Faulty: the number counts the open amendments only.
NextNumberOpen(rowset) == Cardinality(Open(rowset)) + 1

\* _next_amendment_number, behind the lock on the order.
NextNumber(rowset) == Max({0} \cup {rowset[i].no : i \in DOMAIN rowset}) + 1

Amendment(no, status, line, field, value) ==
    [no |-> no, status |-> status, line |-> line, field |-> field, value |-> value]

Inserted(rowset, status, line, field, value) ==
    Append(rowset, Amendment(NextNumber(rowset), status, line, field, value))

\* The open amendments among rowset that change the field of a line to value.
Same(rowset, line, field, value) ==
    {i \in Open(rowset) : /\ rowset[i].line = line /\ rowset[i].field = field
                          /\ rowset[i].value = value}

\* _refresh_header_totals
Totals(was, items) ==
    [was EXCEPT !.ordered = SumOf(LAMBDA l : items[l].ordered),
                !.confirmed = SumOf(LAMBDA l : items[l].confirmed),
                !.backordered = SumOf(LAMBDA l : items[l].backordered)]

Distance(a, b) == IF a > b THEN a - b ELSE b - a

\* _line_value_impact
Impact(row, field, value) ==
    CASE field = "QUANTITY_ORDERED" -> Distance(value, row.ordered) * row.price
      [] field = "UNIT_PRICE" -> Distance(value, row.price) * row.ordered
      [] OTHER -> 0

\* What may be proposed for a line: a change, and no less than was received
\* (SPO-013).
Proposals(row) ==
    {p \in {<<"QUANTITY_ORDERED", q>> : q \in {q \in Quantity :
                                            q # row.ordered /\ q >= row.received}}
             \cup {<<"UNIT_PRICE", p>> : p \in Price \ {row.price}} \cup {<<"OTHER", 0>>} :
        p[1] \in Fields}

ProposeRead(t, l, p) ==
    /\ spo.status \notin TERMINAL_SPO_STATUSES
    /\ p \in Proposals(item[l])
    /\ Begins(t, [op |-> "propose", line |-> l, field |-> p[1], value |-> p[2],
                  marked |-> spo.flag,
                  status |-> IF Impact(item[l], p[1], p[2]) > ValueThreshold
                             THEN "PENDING_APPROVAL" ELSE "APPROVED"])

\* Faulty: the amendment does not mark the order.
ProposeDoneUnmarked(t) ==
    /\ Runs(t, "propose")
    /\ amend' = Inserted(amend, session[t].status, session[t].line, session[t].field,
                         session[t].value)
    /\ Ends(t) /\ UNCHANGED <<spo, item, receipt>>

\* Behind the lock.  An identical open amendment is the answer; the mark is
\* written only when the order that was read did not carry it.
ProposeDone(t) ==
    /\ Runs(t, "propose")
    /\ IF Same(amend, session[t].line, session[t].field, session[t].value) # {}
       THEN UNCHANGED <<spo, amend>>
       ELSE /\ Len(amend) < MaxAmend
            /\ amend' = Inserted(amend, session[t].status, session[t].line,
                                 session[t].field, session[t].value)
            /\ spo' = [spo EXCEPT !.flag = @ \/ ~session[t].marked]
    /\ Ends(t) /\ UNCHANGED <<item, receipt>>

ApproveAmendment(i) ==
    /\ Free /\ i \in DOMAIN amend /\ amend[i].status = "PENDING_APPROVAL"
    /\ amend' = [amend EXCEPT ![i].status = "APPROVED"]
    /\ UNCHANGED <<spo, item, receipt, session, workers>>

\* Faulty: the line stays in limbo.
AmendedPending(row, a) ==
    CASE a.field = "QUANTITY_ORDERED" ->
           [row EXCEPT !.ordered = a.value, !.backordered = a.value - row.confirmed]
      [] a.field = "UNIT_PRICE" -> [row EXCEPT !.price = a.value]
      [] OTHER -> row

Amended(row, a) ==
    CASE a.field = "QUANTITY_ORDERED" ->
           [row EXCEPT !.ordered = a.value, !.backordered = a.value - row.confirmed]
      [] a.field = "UNIT_PRICE" -> [row EXCEPT !.price = a.value, !.pending = FALSE]
      [] OTHER -> row

\* Applied whatever has become of the order and of its receipts meanwhile.
ApplyAmendment(i) ==
    /\ Free /\ i \in DOMAIN amend /\ amend[i].status = "APPROVED"
    /\ LET l == amend[i].line
       IN  /\ item' = [item EXCEPT ![l] = Amended(@, amend[i])]
           /\ amend' = [amend EXCEPT ![i].status = "APPLIED"]
           /\ spo' = [Totals(spo, item') EXCEPT !.flag = Open(amend') # {}]
    /\ UNCHANGED <<receipt, session, workers>>

-----------------------------------------------------------------------------
(* Acknowledgement.                                                        *)

Answer == [confirmed : Quantity \cup {0}, price : Price]

Answered(row, a) ==
    IF a = Nothing THEN row
    ELSE [row EXCEPT !.confirmed = a.confirmed, !.backordered = row.ordered - a.confirmed,
                     !.open = a.confirmed, !.pending = @ \/ a.price # row.price]

AckStatus(items) ==
    IF \A l \in Line : items[l].confirmed = 0 THEN "REJECTED"
    ELSE IF \E l \in Line : items[l].pending THEN "PARTIALLY_ACKNOWLEDGED"
    ELSE "ACKNOWLEDGED"

AckRead(t, ack) ==
    /\ spo.status \in {"SENT", "PARTIALLY_ACKNOWLEDGED"} /\ ~spo.flag
    /\ LET items == [l \in Line |-> Answered(item[l], ack[l])]
           priced == {l \in Line : ack[l] # Nothing /\ ack[l].price # item[l].price}
           now == [Totals(spo, items) EXCEPT !.flag = priced # {}, !.status = AckStatus(items)]
       IN  Begins(t, [op |-> "ack", order |-> Changed(spo, now),
                      items |-> [l \in Line |-> Changed(item[l], items[l])],
                      prices |-> {<<l, ack[l].price>> : l \in {k \in priced :
                                    Same(amend, k, "UNIT_PRICE", ack[k].price) = {}}}])

\* _record_ack_price_amendment of each line with another price: one after the
\* other takes the next number.
AckAmends(prices) ==
    amend \o [k \in 1..Len(prices) |->
                 Amendment(NextNumber(amend) + k - 1, "PENDING_APPROVAL", prices[k][1],
                           "UNIT_PRICE", prices[k][2])]

AckDone(t) ==
    /\ Runs(t, "ack")
    /\ \E prices \in SetToSeqs(session[t].prices) : amend' = AckAmends(prices)
    /\ Len(amend') <= MaxAmend
    /\ WriteBack(t) /\ Ends(t) /\ UNCHANGED receipt

-----------------------------------------------------------------------------
(* Cancellation.                                                           *)

Cancelled(row, partial) ==
    IF ~partial THEN [row EXCEPT !.cancelled = row.confirmed, !.open = 0]
    ELSE IF row.open > 0 THEN [row EXCEPT !.cancelled = row.open, !.open = 0]
    ELSE row

CancelRead(t) ==
    /\ spo.status # "CANCELLED"
    /\ LET partial == \E l \in Line : item[l].received > 0
           now == [spo EXCEPT !.status =
                     IF partial THEN "PARTIALLY_CANCELLED" ELSE "CANCELLED"]
       IN  Begins(t, [op |-> "cancel", order |-> Changed(spo, now),
                      items |-> [l \in Line |-> Changed(item[l], Cancelled(item[l], partial))]])

CancelDone(t) ==
    /\ Runs(t, "cancel")
    /\ WriteBack(t) /\ Ends(t) /\ UNCHANGED <<amend, receipt>>

-----------------------------------------------------------------------------
(* Receipts, as far as they touch the order.                               *)

\* create_draft_grn of one line: only an open amendment stands in its way
\* (SPO-014).
CreateReceipt(l, q) ==
    /\ Free /\ ~spo.flag /\ receipt[l] = 0
    /\ receipt' = [receipt EXCEPT ![l] = q]
    /\ UNCHANGED <<spo, item, amend, session, workers>>

\* record_disposition within the tolerance of zero.
DisposeRead(t, l) ==
    /\ receipt[l] > 0 /\ item[l].received + receipt[l] <= item[l].confirmed
    /\ Begins(t, [op |-> "dispose", line |-> l, total |-> item[l].received + receipt[l]])

DisposeDone(t) ==
    /\ Runs(t, "dispose")
    /\ item' = [item EXCEPT ![session[t].line].received = session[t].total]
    /\ receipt' = [receipt EXCEPT ![session[t].line] = 0]
    /\ Ends(t) /\ UNCHANGED <<spo, amend>>

-----------------------------------------------------------------------------

\* The endpoints of the order and of its amendments.
OrderRequests(t) ==
    \/ \E op \in DOMAIN From : StatusRead(t, op)
    \/ \E ack \in [Line -> Answer \cup {Nothing}] : AckRead(t, ack)
    \/ StatusDone(t) \/ AckDone(t) \/ CancelRead(t) \/ CancelDone(t)

AmendmentRequests(t) ==
    \/ \E l \in Line : \E p \in Proposals(item[l]) : ProposeRead(t, l, p)
    \/ ProposeDone(t)
    \/ \E i \in 1..MaxAmend : ApproveAmendment(i) \/ ApplyAmendment(i)

OrderingNext ==
    \/ \E l \in Line, q \in Quantity : CreateReceipt(l, q)
    \/ \E t \in Session :
        \/ OrderRequests(t) \/ AmendmentRequests(t)
        \/ \E l \in Line : DisposeRead(t, l)
        \/ DisposeDone(t) \/ Abandon(t)

OrderingSpec == InitOrdering /\ [][OrderingNext]_ordering

-----------------------------------------------------------------------------
(* Properties.                                                             *)

OrderRow == [status : SPOStatus, flag : BOOLEAN, ordered : Nat, confirmed : Nat,
             backordered : Int]
ItemRow == [ordered : Nat, confirmed : Nat, backordered : Int, received : Nat, open : Nat,
            cancelled : Nat, price : Price, pending : BOOLEAN]
AmendmentRow == [no : Nat, status : SPOAmendmentStatus, line : Line,
                 field : SPOAmendmentField, value : Nat]

OrderingTypeOK ==
    /\ spo \in OrderRow
    /\ item \in [Line -> ItemRow]
    /\ amend \in Seq(AmendmentRow)
    /\ receipt \in [Line -> Nat]
    /\ workers \in 1..Cardinality(Session)

\* The amendments of an order are numbered 1, 2, 3... in the order of their
\* insertion, whatever proposals and acknowledgements overlap.
AmendmentsNumbered == \A i \in DOMAIN amend : amend[i].no = i

\* has_open_amendment, which keeps receipts and acknowledgements out
\* (SPO-014), says whether an amendment is unresolved, one request at a time.
FlagIsOpen == workers = 1 => (spo.flag <=> Open(amend) # {})

\* Lines and header agree (SPO-007), one request at a time: what is ordered is
\* confirmed or backordered, and the totals are those of the lines.
TotalsMatch ==
    workers = 1 =>
        /\ \A l \in Line : item[l].ordered = item[l].confirmed + item[l].backordered
        /\ spo = Totals(spo, item)

\* A line in limbo because of its price (SPO-005) has an open amendment that
\* can get it out, one request at a time.
LimboHasExit ==
    workers = 1 => \A l \in Line : item[l].pending =>
        \E i \in Open(amend) : amend[i].line = l /\ amend[i].field = "UNIT_PRICE"

\* Nothing stays open of an order that was cancelled, one request at a time.
CancelledIsClosed ==
    workers = 1 /\ spo.status \in {"CANCELLED", "PARTIALLY_CANCELLED"} =>
        \A l \in Line : item[l].open = 0

\* Rows have their types, and mark, lines and totals of an order say the same.
OrderAddsUp == OrderingTypeOK /\ FlagIsOpen /\ TotalsMatch /\ CancelledIsClosed

\* What was received and what was cancelled of a line are within what the
\* supplier confirmed (open = confirmed - received - cancelled,
\* spo-architecture.md:154).
CancelledWithinConfirmed ==
    workers = 1 => \A l \in Line : item[l].received + item[l].cancelled <= item[l].confirmed

\* No amendment leaves less on order than was received (SPO-013).
OrderedCoversReceived ==
    [][\A i \in DOMAIN amend :
          amend[i].status = "APPROVED" /\ amend'[i].status = "APPLIED" =>
              item'[amend[i].line].ordered >= item'[amend[i].line].received]_ordering

=============================================================================
