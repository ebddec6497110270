------------------------------- MODULE Sales -------------------------------
(***************************************************************************)
(* From an enquiry to invoices: enquiries (enquiry_service), quotations    *)
(* (quotation_service), customer LPOs and the invoices made from either    *)
(* (customer_po_service), at the prices of Catalogue.                      *)
(*                                                                         *)
(* Every request locks its document first and is one step, except those    *)
(* that look at the calendar or at the document earlier than they write:   *)
(* an acceptance, which may commit after midnight, and the reads that      *)
(* expire a quotation or mark invoices OVERDUE.                            *)
(*                                                                         *)
(* Documents have one line of one product; amounts are in fils; the        *)
(* discount is an amount.  Tax, credit holds, and what Fulfilment and      *)
(* Receivables say of LPOs and invoices are left out.                      *)
(***************************************************************************)
EXTENDS Catalogue

CONSTANTS
    Enquiry, Quotation, Order, Invoice,   \* row identities
    Qty, Discount,        \* quantities and discounts of a line
    LastDay               \* bound on the calendar

DocumentOps == {"enquiries", "quotations", "orders"}
OpNames == DocumentOps \cup {"categories", "units", "products", "prices", "overlap"}

ASSUME MixesAssumption == \A mix \in Mixes : mix \subseteq OpNames
ASSUME LineAssumption == Qty \subseteq Nat \ {0} /\ Discount \subseteq Nat /\ LastDay \in Nat

VARIABLES
    today,
    enquiry, quotation, order, invoice   \* rows, Absent while absent

rows == <<enquiry, quotation, order, invoice>>
sales == <<ops, session, catalogue, today, rows>>

EnquiryStatus == {"NEW", "IN_PROGRESS", "QUOTED", "CLOSED"}
QuotationStatus ==
    {"DRAFT", "SENT", "ACCEPTED", "REJECTED", "EXPIRED", "CONVERTED", "DELETED"}
OrderStatus == {"DRAFT", "RECEIVED", "PARTIAL", "INVOICED", "CANCELLED", "DELETED"}

LineRow == [qty : Nat \ {0}, price : Nat, discount : Nat]
EnquiryRow == [status : EnquiryStatus, client : Client \cup {Absent}]
QuotationRow == [status : QuotationStatus, client : Client, until : 0..LastDay, line : LineRow]
OrderRow == [status : OrderStatus, quotation : Quotation \cup {Absent}, client : Client,
             line : LineRow]
\* `voided` says that the audit log has an INVOICE_VOIDED event.
InvoiceRow == [source : Quotation \cup Order, line : LineRow, live : BOOLEAN, voided : BOOLEAN]

ASSUME InvoiceAssumption == IsFiniteSet(Invoice)
ASSUME DocumentsAssumption ==
    /\ Quotation \cap Order = {}
    /\ Absent \notin Quotation \cup Order \cup QuotationRow \cup OrderRow \cup InvoiceRow

InitSales ==
    /\ InitCatalogue
    /\ today = 0
    /\ enquiry = [e \in Enquiry |-> Absent]
    /\ quotation = [q \in Quotation |-> Absent]
    /\ order = [o \in Order |-> Absent]
    /\ invoice = [i \in Invoice |-> Absent]

Documents == ops \cap DocumentOps # {}

Begin(t, request) == Documents /\ Reads(t, request) /\ UNCHANGED <<today, rows>>

End(t) == Ends(t) /\ UNCHANGED <<ops, catalogue, today>>

\* The row lock of a quotation that is being accepted.
Locked(q) == \E t \in Session : Is(t, "accept") /\ session[t].quotation = q

\* A request of one step.
Atomic == Documents /\ Free /\ UNCHANGED <<ops, session, catalogue, today>>

QuotationIs(q, status) == quotation[q] # Absent /\ quotation[q].status = status /\ ~Locked(q)
OrderIs(o, statuses) == order[o] # Absent /\ order[o].status \in statuses

SetQuotation(q, row) == quotation' = [quotation EXCEPT ![q] = row]
SetStatus(q, status) == SetQuotation(q, [quotation[q] EXCEPT !.status = status])
SetOrder(o, row) == order' = [order EXCEPT ![o] = row]

NewDay ==
    /\ Documents /\ today < LastDay /\ today' = today + 1
    /\ UNCHANGED <<ops, session, catalogue, rows>>

\* A discount that exceeds the extended amount is refused.
LineOK(n, price_, d) == d <= n * price_

Line(n, price_, d) == [qty |-> n, price |-> price_, discount |-> d]

\* What a line without a price of its own may come to.
Lines(c) ==
    UNION {{Line(n, price[i].price, d) : i \in Resolved(p, c, n)} :
             p \in {p \in Product : LiveProduct(p)}, n \in Qty, d \in Discount}

-----------------------------------------------------------------------------
(* Enquiries.                                                              *)

CreateEnquiry(e, c) ==
    /\ Atomic /\ enquiry[e] = Absent
    /\ enquiry' = [enquiry EXCEPT ![e] = [status |-> "NEW", client |-> c]]
    /\ UNCHANGED <<quotation, order, invoice>>

UpdateEnquiry(e, c) ==
    /\ Atomic /\ enquiry[e] # Absent
    /\ enquiry' = [enquiry EXCEPT ![e].client = c]
    /\ UNCHANGED <<quotation, order, invoice>>

\* Any status may be set from any other.
MoveEnquiry(e, status) ==
    /\ Atomic /\ enquiry[e] # Absent
    /\ enquiry' = [enquiry EXCEPT ![e].status = status]
    /\ UNCHANGED <<quotation, order, invoice>>

NewQuotation(c, line, until) ==
    [status |-> "DRAFT", client |-> c, until |-> until, line |-> line]

\* The lines wait for their prices.  An enquiry may be converted again.
ConvertEnquiry(e, q, n) ==
    /\ Atomic /\ enquiry[e] # Absent /\ quotation[q] = Absent
    /\ enquiry[e].status # "CLOSED" /\ enquiry[e].client # Absent
    /\ SetQuotation(q, NewQuotation(enquiry[e].client, Line(n, 0, 0), LastDay))
    /\ enquiry' = [enquiry EXCEPT ![e].status = "QUOTED"]
    /\ UNCHANGED <<order, invoice>>

-----------------------------------------------------------------------------
(* Quotations.                                                             *)

CreateQuotation(q, c, line, until) ==
    /\ Atomic /\ quotation[q] = Absent
    /\ until >= today /\ LineOK(line.qty, line.price, line.discount)
    /\ SetQuotation(q, NewQuotation(c, line, until))
    /\ UNCHANGED <<enquiry, order, invoice>>

UpdateQuotation(q, line) ==
    /\ Atomic /\ QuotationIs(q, "DRAFT")
    /\ LineOK(line.qty, line.price, line.discount)
    /\ SetQuotation(q, [quotation[q] EXCEPT !.line = line])
    /\ UNCHANGED <<enquiry, order, invoice>>

Moves(q, from, to) ==
    /\ Atomic /\ QuotationIs(q, from)
    /\ SetStatus(q, to)
    /\ UNCHANGED <<enquiry, order, invoice>>

DeleteQuotation(q) == Moves(q, "DRAFT", "DELETED")
SendQuotation(q) == Moves(q, "DRAFT", "SENT")

\* Faulty: whatever its status.
OverdueAnyhow(q) == quotation[q] # Absent /\ quotation[q].until < today

Overdue(q) == quotation[q] # Absent /\ quotation[q].status = "SENT" /\ quotation[q].until < today

\* An acceptance, a rejection or a conversion that comes too late expires the
\* quotation, commits that, and is refused.
ExpireQuotation(q) == Overdue(q) /\ Moves(q, "SENT", "EXPIRED")

RejectQuotation(q) == ~Overdue(q) /\ Moves(q, "SENT", "REJECTED")

AcceptRead(t, q) ==
    /\ QuotationIs(q, "SENT") /\ ~Overdue(q)
    /\ Begin(t, [op |-> "accept", quotation |-> q])

AcceptDone(t) ==
    /\ Is(t, "accept")
    /\ SetStatus(session[t].quotation, "ACCEPTED")
    /\ End(t) /\ UNCHANGED <<enquiry, order, invoice>>

\* The list of quotations expires what is overdue, behind locks.
SweepQuotations ==
    LET overdue == {q \in Quotation : Overdue(q)}
    IN  /\ Atomic /\ overdue # {} /\ \A q \in overdue : ~Locked(q)
        /\ quotation' = [q \in Quotation |->
             IF q \in overdue THEN [quotation[q] EXCEPT !.status = "EXPIRED"] ELSE quotation[q]]
        /\ UNCHANGED <<enquiry, order, invoice>>

ShowRead(t, q) == Overdue(q) /\ Begin(t, [op |-> "show", quotation |-> q])

\* The lock comes after the look, and the second SELECT does not refresh the
\* object the session already has: what it holds is SENT.
ShowDone(t) ==
    /\ Is(t, "show") /\ ~Locked(session[t].quotation)
    /\ SetStatus(session[t].quotation, "EXPIRED")
    /\ End(t) /\ UNCHANGED <<enquiry, order, invoice>>

MakeInvoice(i, source, line) ==
    invoice' = [invoice EXCEPT ![i] = [source |-> source, line |-> line,
                                          live |-> TRUE, voided |-> FALSE]]

\* The line of a quotation as it is billed.
Billed(q) == quotation[q].line

\* Faulty: an expired quotation, or one converted before, is converted.
ConvertibleLate(q) == QuotationIs(q, "ACCEPTED") \/ QuotationIs(q, "CONVERTED")

Convertible(q) == QuotationIs(q, "ACCEPTED")

\* What is converted already answers with what was made, or with a conflict.
ConvertToInvoice(q, i) ==
    /\ Atomic /\ Convertible(q) /\ invoice[i] = Absent
    /\ MakeInvoice(i, q, Billed(q))
    /\ SetStatus(q, "CONVERTED")
    /\ UNCHANGED <<enquiry, order>>

NewOrder(q, c, line) == [status |-> "DRAFT", quotation |-> q, client |-> c, line |-> line]

ConvertToOrder(q, o) ==
    /\ Atomic /\ Convertible(q) /\ order[o] = Absent
    /\ SetOrder(o, NewOrder(q, quotation[q].client, quotation[q].line))
    /\ SetStatus(q, "CONVERTED")
    /\ UNCHANGED <<enquiry, invoice>>

-----------------------------------------------------------------------------
(* LPOs and the slices of them that are invoiced.                          *)

CreateOrder(o, c, line) ==
    /\ Atomic /\ order[o] = Absent
    /\ LineOK(line.qty, line.price, line.discount)
    /\ SetOrder(o, NewOrder(Absent, c, line))
    /\ UNCHANGED <<enquiry, quotation, invoice>>

UpdateOrder(o, line) ==
    /\ Atomic /\ OrderIs(o, {"DRAFT"})
    /\ LineOK(line.qty, line.price, line.discount)
    /\ SetOrder(o, [order[o] EXCEPT !.line = line])
    /\ UNCHANGED <<enquiry, quotation, invoice>>

Countable(o) ==
    {i \in Invoice : invoice[i] # Absent /\ invoice[i].source = o /\ invoice[i].live}

Slices(o, field) == SumFunction([i \in Countable(o) |-> invoice[i].line[field]])

OrderMoves(o, from, to) ==
    /\ Atomic /\ OrderIs(o, {from})
    /\ SetOrder(o, [order[o] EXCEPT !.status = to])
    /\ UNCHANGED <<enquiry, quotation, invoice>>

DeleteOrder(o) == OrderMoves(o, "DRAFT", "DELETED")
ReceiveOrder(o) == OrderMoves(o, "DRAFT", "RECEIVED")
CancelOrder(o) == Countable(o) = {} /\ OrderMoves(o, "RECEIVED", "CANCELLED")

\* Half fils are rounded up.
Money(n, d) == (2 * n + d) \div (2 * d)

Smaller(a, b) == IF a < b THEN a ELSE b

\* Faulty: every slice is rounded by itself.
SliceDiscountAlone(line, n, remaining, already) == Money(line.discount * n, line.qty)

\* The last slice takes what is left of the discount.
SliceDiscount(line, n, remaining, already) ==
    LET left == line.discount - already
    IN  IF left <= 0 THEN 0
        ELSE IF n >= remaining THEN left
        ELSE Smaller(Money(line.discount * n, line.qty), left)

\* The status recalc_invoiced gives an LPO of which it finds n invoiced.
Recalculated(o, n) ==
    [order[o] EXCEPT !.status =
        IF order[o].status \in {"CANCELLED", "DELETED"} THEN @
        ELSE IF n >= order[o].line.qty THEN "INVOICED" ELSE IF n > 0 THEN "PARTIAL" ELSE "RECEIVED"]

InvoiceOrder(o, i, n) ==
    /\ Atomic /\ OrderIs(o, {"RECEIVED", "PARTIAL", "INVOICED"}) /\ invoice[i] = Absent
    /\ LET line == order[o].line
           remaining == line.qty - Slices(o, "qty")
           d == SliceDiscount(line, n, remaining, Slices(o, "discount"))
       IN  /\ n \in 1..remaining /\ LineOK(n, line.price, d)
           /\ MakeInvoice(i, o, Line(n, line.price, d))
           /\ SetOrder(o, Recalculated(o, line.qty - remaining + n))
    /\ UNCHANGED <<enquiry, quotation>>

\* The end of an invoice is not flushed yet when the slices of its LPO are summed.
EndInvoice(i, voids) ==
    /\ Atomic /\ invoice[i] # Absent /\ invoice[i].live
    /\ invoice' = [invoice EXCEPT ![i].live = FALSE, ![i].voided = voids]
    /\ LET o == invoice[i].source
       IN  order' = IF o \notin Order THEN order
                    ELSE [order EXCEPT ![o] = Recalculated(o, Slices(o, "qty"))]
    /\ UNCHANGED <<enquiry, quotation>>

VoidInvoice(i) == EndInvoice(i, TRUE)
DeleteInvoice(i) == EndInvoice(i, FALSE) /\ ~invoice[i].voided

Void == {i \in Invoice : invoice[i] # Absent /\ invoice[i].voided}

\* A request that lists or shows invoices reads the past-due ones ...
FlipRead(t, late) ==
    /\ late # {} /\ \A i \in late : invoice[i] # Absent /\ invoice[i].live
    /\ Begin(t, [op |-> "flip", invoices |-> late])

\* ... and writes OVERDUE over what they have become: a void is undone, and no
\* LPO is recalculated.
FlipDone(t) ==
    /\ Is(t, "flip")
    /\ invoice' = [i \in Invoice |->
                    IF i \in session[t].invoices \cap Void
                    THEN [invoice[i] EXCEPT !.live = TRUE] ELSE invoice[i]]
    /\ End(t) /\ UNCHANGED <<enquiry, quotation, order>>

-----------------------------------------------------------------------------
EnquiryRequests(e) == "enquiries" \in ops /\
    \/ \E c \in Client \cup {Absent} : CreateEnquiry(e, c) \/ UpdateEnquiry(e, c)
    \/ \E status \in EnquiryStatus : MoveEnquiry(e, status)
    \/ \E q \in Quotation, n \in Qty : ConvertEnquiry(e, q, n)

QuotationRequests(q) == "quotations" \in ops /\
    \/ \E c \in Client : \E line \in Lines(c), until \in 0..LastDay :
          CreateQuotation(q, c, line, until)
    \/ quotation[q] # Absent /\ \E line \in Lines(quotation[q].client) : UpdateQuotation(q, line)
    \/ DeleteQuotation(q) \/ SendQuotation(q)
    \/ ExpireQuotation(q) \/ RejectQuotation(q)
    \/ \E i \in Invoice : ConvertToInvoice(q, i)
    \/ \E o \in Order : ConvertToOrder(q, o)
    \/ \E t \in Session : AcceptRead(t, q) \/ ShowRead(t, q)

OrderRequests(o) == "orders" \in ops /\
    \/ \E c \in Client : \E line \in Lines(c) : CreateOrder(o, c, line)
    \/ order[o] # Absent /\ \E line \in Lines(order[o].client) : UpdateOrder(o, line)
    \/ DeleteOrder(o) \/ ReceiveOrder(o) \/ CancelOrder(o)
    \/ \E i \in Invoice, n \in 1..Max(Qty) : InvoiceOrder(o, i, n)

SalesNext ==
    \/ CatalogueNext /\ UNCHANGED <<today, rows>>
    \/ NewDay \/ SweepQuotations
    \/ \E e \in Enquiry : EnquiryRequests(e)
    \/ \E q \in Quotation : QuotationRequests(q)
    \/ \E o \in Order : OrderRequests(o)
    \/ \E i \in Invoice : VoidInvoice(i) \/ DeleteInvoice(i)
    \/ \E t \in Session, late \in SUBSET Invoice : FlipRead(t, late)
    \/ \E t \in Session :
          \/ AcceptDone(t) \/ ShowDone(t) \/ FlipDone(t)
          \/ Abandon(t) /\ UNCHANGED <<today, rows>>

SalesSpec == InitSales /\ [][SalesNext]_sales

-----------------------------------------------------------------------------
(* Properties.                                                             *)

DocumentsTypeOK ==
    /\ ops \in Mixes /\ today \in 0..LastDay
    /\ \A e \in Enquiry : enquiry[e] = Absent \/ enquiry[e] \in EnquiryRow
    /\ \A q \in Quotation : quotation[q] = Absent \/ quotation[q] \in QuotationRow
    /\ \A o \in Order : order[o] = Absent \/ order[o] \in OrderRow
    /\ \A i \in Invoice : invoice[i] = Absent \/ invoice[i] \in InvoiceRow

\* What was made from a quotation, what was deleted since included.
Descendants(q) ==
    {i \in Invoice : invoice[i] # Absent /\ invoice[i].source = q}
      \cup {o \in Order : order[o] # Absent /\ order[o].quotation = q}

\* A quotation becomes one invoice or one LPO, whatever overlaps, and says so,
\* one request at a time.
ConvertedOnce ==
    \A q \in Quotation :
        /\ Cardinality(Descendants(q)) <= 1
        /\ ~Overlap => (Descendants(q) # {} <=>
                           quotation[q] # Absent /\ quotation[q].status = "CONVERTED")

\* Only what waits for an answer expires (wave-quotations-addendum.md); one
\* request at a time.
Final == {"ACCEPTED", "REJECTED", "CONVERTED"}
OnlySentExpires ==
    \A q \in Quotation :
        quotation[q] # Absent /\ quotation[q].status \in Final => quotation'[q].status # "EXPIRED"
AnswersAreKept == [][~Overlap => OnlySentExpires]_sales

\* The slices of an LPO that nobody has voided.
Standing(o) == Countable(o) \ Void
Stands(o, field) == SumFunction([i \in Standing(o) |-> invoice[i].line[field]])

\* They never take more than the line's quantity and discount, and all of its
\* discount once they take all of it (wave-customer-lpo-addendum.md:185): a
\* slice that a flip brings back only leaves them less.
DiscountsAddUp ==
    \A o \in Order : order[o] # Absent =>
        /\ Stands(o, "qty") <= order[o].line.qty
        /\ Stands(o, "discount") <= order[o].line.discount
        /\ Stands(o, "qty") = order[o].line.qty => Stands(o, "discount") = order[o].line.discount

\* All slices together do not keep within the line: those that were voided and
\* brought back count again.
AllSlicesFit ==
    \A o \in Order : order[o] # Absent =>
        /\ Slices(o, "qty") <= order[o].line.qty
        /\ Slices(o, "discount") <= order[o].line.discount

\* Rows have their types, and slices that stand add up to their line.
SlicesAddUp == DocumentsTypeOK /\ CatalogueTypeOK /\ DiscountsAddUp

=============================================================================
