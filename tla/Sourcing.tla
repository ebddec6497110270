------------------------------ MODULE Sourcing ------------------------------
(***************************************************************************)
(* One line of a request for quotation: supplier quotes and their          *)
(* revisions, awards with their approval, and the supplier purchase orders *)
(* generated from them (award_service, spo_service.create_draft).          *)
(*                                                                         *)
(* Every request is two steps: what it reads is kept in txn[t] until it    *)
(* commits, and only the columns it changed are written.  An award that is *)
(* being approved or converted is locked (FOR UPDATE) in between; the RFQ, *)
(* its line and the quotes are locked by nobody.                           *)
(*                                                                         *)
(* Prices, units and supplier eligibility only decide whether a quote may  *)
(* be awarded at all; every quote here may.  An award has one line and its *)
(* value is its quantity.                                                  *)
(***************************************************************************)
EXTENDS Naturals, FiniteSets, FiniteSetsExt, Functions

CONSTANTS
    Supplier,
    Resp, Award, Order,   \* row identities
    Txn,                  \* requests that may be open at the same time
    Need,                 \* quantity of the RFQ line
    Qty,                  \* quantities offered and awarded
    Threshold,            \* award value above which a checker approves
    Mode,                 \* award_mode: "SINGLE" or "SPLIT"
    None

ASSUME NeedAssumption == Need \in Nat \ {0} /\ Qty \subseteq Nat \ {0}
ASSUME ThresholdAssumption == Threshold \in Nat
ASSUME ModeAssumption == Mode \in {"SINGLE", "SPLIT"}
ASSUME RowsAssumption == IsFiniteSet(Resp) /\ IsFiniteSet(Award)

VARIABLES
    rfq,      \* status of the request, awarded_quantity of its line
    resp,     \* supplier_rfq_responses, None while absent
    award,    \* rfq_awards, None while absent
    order,    \* supplier_purchase_orders by their award, None while absent
    txn       \* open requests, None while free

vars == <<rfq, resp, award, order, txn>>

RFQStatus == {"DRAFT", "SENT", "UNDER_EVALUATION", "PARTIALLY_AWARDED", "AWARDED"}
CLOSED_RFQ_STATUSES == {"AWARDED"}
QuoteStatus == {"RECEIVED", "SELECTED", "PARTIALLY_SELECTED", "NOT_SELECTED"}
COMMITTED_AWARD_STATUSES == {"APPROVED", "CONVERTED"}
AwardStatus == COMMITTED_AWARD_STATUSES \cup {"PENDING_APPROVAL"}

ResponseRow == [supplier : Supplier, rev : 1..Cardinality(Resp), available : Qty,
                status : QuoteStatus]
AwardRow == [resp : Resp, qty : Qty, status : AwardStatus]

ASSUME NoneAssumption == None \notin Award /\ None \notin ResponseRow /\ None \notin AwardRow

Init ==
    /\ rfq = [status |-> "DRAFT", awarded |-> 0]
    /\ resp = [r \in Resp |-> None]
    /\ award = [a \in Award |-> None]
    /\ order = [o \in Order |-> None]
    /\ txn = [t \in Txn |-> None]

Begin(t, request) ==
    /\ txn[t] = None
    /\ txn' = [txn EXCEPT ![t] = request]
    /\ UNCHANGED <<rfq, resp, award, order>>

End(t) == txn' = [txn EXCEPT ![t] = None]

Is(t, op) == txn[t] # None /\ txn[t].op = op

\* A lost client or a crash; nothing that is uncommitted is kept.
Abort(t) ==
    /\ txn[t] # None
    /\ End(t)
    /\ UNCHANGED <<rfq, resp, award, order>>

-----------------------------------------------------------------------------
(* The request and its quotes.                                             *)

SendRead(t) ==
    /\ rfq.status = "DRAFT"
    /\ Begin(t, [op |-> "send"])

SendDone(t) ==
    /\ Is(t, "send")
    /\ rfq' = [rfq EXCEPT !.status = "SENT"]
    /\ End(t) /\ UNCHANGED <<resp, award, order>>

Quotes(s) == {r \in Resp : resp[r] # None /\ resp[r].supplier = s}
Revisions(s) == {resp[r].rev : r \in Quotes(s)}
NextRevision(s) == IF Revisions(s) = {} THEN 1 ELSE Max(Revisions(s)) + 1

\* _latest_responses: the latest revision of each supplier that is RECEIVED.
LatestResponses ==
    {r \in Resp : /\ resp[r] # None /\ resp[r].status = "RECEIVED"
                  /\ \A q \in Resp : (/\ resp[q] # None /\ resp[q].status = "RECEIVED"
                                      /\ resp[q].supplier = resp[r].supplier)
                                     => resp[q].rev <= resp[r].rev}

QuoteRead(t, s, available) ==
    /\ rfq.status \notin CLOSED_RFQ_STATUSES \cup {"DRAFT"}
    /\ Begin(t, [op |-> "quote", supplier |-> s, available |-> available,
                 rev |-> NextRevision(s), seen |-> rfq.status])

QuoteInserted(t, r) ==
    /\ resp' = [resp EXCEPT ![r] =
         [supplier |-> txn[t].supplier, rev |-> txn[t].rev,
          available |-> txn[t].available, status |-> "RECEIVED"]]
    /\ rfq' = IF txn[t].seen = "SENT" THEN [rfq EXCEPT !.status = "UNDER_EVALUATION"] ELSE rfq
    /\ End(t) /\ UNCHANGED <<award, order>>

\* Faulty: uq_rfq_supplier_revision is missing.
QuoteDoneTwice(t, r) ==
    /\ Is(t, "quote") /\ resp[r] = None
    /\ QuoteInserted(t, r)

\* The lock on the supplier's revisions does not cover one that is being
\* inserted; the unique constraint does, and the request fails (Abort).
QuoteDone(t, r) ==
    /\ Is(t, "quote") /\ resp[r] = None
    /\ txn[t].rev \notin Revisions(txn[t].supplier)
    /\ QuoteInserted(t, r)

-----------------------------------------------------------------------------
(* Awards.                                                                 *)

\* Awards in one of the statuses S.
In(S) == {a \in Award : award[a] # None /\ award[a].status \in S}
QtySum(awards) == SumFunction([a \in awards |-> award[a].qty])
Committed == QtySum(In(COMMITTED_AWARD_STATUSES))
Remainder == Need - Committed

DraftRead(t, r, q) ==
    /\ rfq.status \notin CLOSED_RFQ_STATUSES
    /\ Mode = "SINGLE" => \A a \in Award : award[a] = None
    /\ r \in LatestResponses
    /\ q <= resp[r].available /\ q <= Remainder
    /\ Begin(t, [op |-> "draft", resp |-> r, qty |-> q])

\* An award within the threshold is born APPROVED.
DraftDone(t, a) ==
    /\ Is(t, "draft") /\ award[a] = None
    /\ award' = [award EXCEPT ![a] =
         [resp |-> txn[t].resp, qty |-> txn[t].qty,
          status |-> IF txn[t].qty > Threshold THEN "PENDING_APPROVAL" ELSE "APPROVED"]]
    /\ End(t) /\ UNCHANGED <<rfq, resp, order>>

Locked(a) == \E t \in Txn : /\ txn[t] # None /\ txn[t].op \in {"approve", "order"}
                            /\ txn[t].award = a

\* _refresh_contention_statuses of the latest responses, once a is APPROVED:
\* the new status of response r.
Selected(latest, a, r) ==
    LET awards == {b \in In(COMMITTED_AWARD_STATUSES) \cup {a} : award[b].resp = r}
    IN  IF QtySum(awards) >= resp[r].available THEN "SELECTED"
        ELSE IF awards # {} THEN "PARTIALLY_SELECTED"
        ELSE IF Committed + award[a].qty >= Need THEN "NOT_SELECTED"
        ELSE resp[r].status

\* Faulty: pending awards count as covered quantity.
RfqStatusPending(latest, a) ==
    IF latest = {} THEN rfq.status
    ELSE IF QtySum(In(AwardStatus)) >= Need THEN "AWARDED"
    ELSE "PARTIALLY_AWARDED"

\* Without a response left that is RECEIVED nothing is refreshed.
RfqStatusAfter(latest, a) ==
    IF latest = {} THEN rfq.status
    ELSE IF Committed + award[a].qty >= Need THEN "AWARDED"
    ELSE "PARTIALLY_AWARDED"

ApproveRead(t, a) ==
    /\ award[a] # None /\ award[a].status = "PENDING_APPROVAL" /\ ~Locked(a)
    /\ award[a].qty <= Remainder
    /\ LET latest == LatestResponses
       IN  Begin(t, [op |-> "approve", award |-> a, total |-> rfq.awarded + award[a].qty,
             selected |-> [r \in latest |-> Selected(latest, a, r)],
             from |-> rfq.status, status |-> RfqStatusAfter(latest, a)])

ApproveDone(t) ==
    /\ Is(t, "approve")
    /\ award' = [award EXCEPT ![txn[t].award].status = "APPROVED"]
    /\ rfq' = [status |-> IF txn[t].status # txn[t].from THEN txn[t].status ELSE rfq.status,
               awarded |-> txn[t].total]
    /\ resp' = [r \in Resp |->
         IF r \in DOMAIN txn[t].selected /\ txn[t].selected[r] # "RECEIVED"
         THEN [resp[r] EXCEPT !.status = txn[t].selected[r]] ELSE resp[r]]
    /\ End(t) /\ UNCHANGED order

-----------------------------------------------------------------------------
(* Conversion.                                                             *)

\* generate_spos; a CONVERTED award is answered with its orders.
OrderRead(t, a) ==
    /\ award[a] # None /\ award[a].status = "APPROVED" /\ ~Locked(a)
    /\ Begin(t, [op |-> "order", award |-> a])

\* Faulty: the award is CONVERTED before its order is created.
OrderDoneConverted(t, o) ==
    /\ Is(t, "order") /\ order[o] = None
    /\ award' = [award EXCEPT ![txn[t].award].status = "CONVERTED"]
    /\ txn' = [txn EXCEPT ![t] = [op |-> "convert", award |-> txn[t].award]]
    /\ UNCHANGED <<rfq, resp, order>>

\* create_draft commits, which ends the lock on the award.
OrderDone(t, o) ==
    /\ Is(t, "order") /\ order[o] = None
    /\ order' = [order EXCEPT ![o] = txn[t].award]
    /\ txn' = [txn EXCEPT ![t] = [op |-> "convert", award |-> txn[t].award]]
    /\ UNCHANGED <<rfq, resp, award>>

ConvertDone(t) ==
    /\ Is(t, "convert")
    /\ award' = [award EXCEPT ![txn[t].award].status = "CONVERTED"]
    /\ End(t) /\ UNCHANGED <<rfq, resp, order>>

-----------------------------------------------------------------------------

QuoteRequests(t) ==
    \/ SendRead(t) \/ SendDone(t)
    \/ \E s \in Supplier, q \in Qty : QuoteRead(t, s, q)
    \/ \E r \in Resp : QuoteDone(t, r)

AwardRequests(t) ==
    \/ \E r \in Resp, q \in Qty : DraftRead(t, r, q)
    \/ \E a \in Award : DraftDone(t, a) \/ ApproveRead(t, a) \/ OrderRead(t, a)
    \/ ApproveDone(t)
    \/ \E o \in Order : OrderDone(t, o)
    \/ ConvertDone(t)

Next == \E t \in Txn : QuoteRequests(t) \/ AwardRequests(t) \/ Abort(t)

Spec == Init /\ [][Next]_vars

-----------------------------------------------------------------------------
(* Properties.                                                             *)

Requests ==
    [op : {"send"}]
      \cup [op : {"quote"}, supplier : Supplier, available : Qty, rev : 1..Cardinality(Resp) + 1,
            seen : RFQStatus]
      \cup [op : {"draft"}, resp : Resp, qty : Qty]
      \cup [op : {"approve"}, award : Award, total : Nat, from : RFQStatus, status : RFQStatus,
            selected : UNION {[R -> QuoteStatus] : R \in SUBSET Resp}]
      \cup [op : {"order", "convert"}, award : Award]

TypeOK ==
    /\ rfq \in [status : RFQStatus, awarded : Nat]
    /\ resp \in [Resp -> ResponseRow \cup {None}]
    /\ award \in [Award -> AwardRow \cup {None}]
    /\ order \in [Order -> Award \cup {None}]
    /\ txn \in [Txn -> Requests \cup {None}]

\* The revisions of a supplier's quote are numbered from 1 without a gap and
\* without a double, however its submissions overlap (RFQ-016).
RevisionsInOrder == \A s \in Supplier : Revisions(s) = 1..Cardinality(Quotes(s))

\* Rows have their types, and the revisions of a quote their order.
QuotesInOrder == TypeOK /\ RevisionsInOrder

\* A converted award has an order, wherever the conversion crashed: the award
\* is never lost between the two commits.
ConvertedIsOrdered ==
    \A a \in In({"CONVERTED"}) : \E o \in Order : order[o] = a

\* A request that has been closed is covered by approved awards, and a quote
\* that was selected is awarded for all it offers.
ClosedIsCovered ==
    /\ rfq.status = "AWARDED" => Committed >= Need
    /\ \A r \in Resp : resp[r] # None /\ resp[r].status = "SELECTED" =>
         QtySum({a \in In(COMMITTED_AWARD_STATUSES) : award[a].resp = r}) >= resp[r].available

\* Approved awards together stay within the request.
AwardedWithinNeed == Committed <= Need

\* An award is turned into one order ("SPO generation from an award is
\* idempotent", rfq-architecture.md:70).
OneOrderPerAward ==
    \A a \in Award : Cardinality({o \in Order : order[o] = a}) <= 1

=============================================================================
