------------------------------ MODULE Statements ------------------------------
(***************************************************************************)
(* What the reports say about the documents of one customer or one         *)
(* supplier: the statements of account, the ageing reports (live and       *)
(* reconstructed), the VAT pack and the cash-flow report                   *)
(* (ar_statement_service, supplier_statement_service, ar_aging,            *)
(* supplier_payment_service.ap_aging, vat_compliance_service,              *)
(* analytics_service).                                                     *)
(*                                                                         *)
(* Each document bears a date, which its author chooses, and takes effect  *)
(* on the day a request books it.  Requests are one step here; how they    *)
(* overlap is the subject of Receivables and Payables.  Reports write      *)
(* nothing: they are operators over the state, asked for any period.       *)
(*                                                                         *)
(* Days are those of UTC.  A supplier's invoice and the application of a   *)
(* supplier debit note bear a time, too: `late` ones fall in the last four *)
(* hours of their day, when it is the next day in the Gulf.  A payment is  *)
(* stored as midnight, UTC, of its day; customers' invoices, credit notes  *)
(* and tax debit notes have a date alone.                                  *)
(*                                                                         *)
(* SENT, PARTIALLY_PAID and OVERDUE, and APPROVED and PARTIALLY_PAID, are  *)
(* one status OPEN, since every report treats them alike; DRAFT stands for *)
(* a supplier's invoice before its approval, too.  There is one VAT rate,  *)
(* so that an amount stands for its taxable value and its tax.  Currencies,*)
(* the order of lines, names and formats are left out.                     *)
(***************************************************************************)
EXTENDS Integers, FiniteSets, Functions

CONSTANTS
    Bill, Pay, Note, \* row identities: invoices, payments, notes
    Amounts,         \* amounts of payments and notes
    Totals,          \* invoice totals
    Terms,           \* days from an invoice's date to its due date
    Band,            \* days in an ageing band, 30 in the code
    LastDay,         \* bound on the calendar, which starts on day 1
    Mixes,           \* sets of requests, one of which is made in a behaviour
    Absent           \* no row

OpNames == {"customer", "supplier", "pay", "pdc", "credit", "debit", "backdate",
            "void", "reverse"}

ASSUME MixesAssumption ==
    \A ops \in Mixes : ops \subseteq OpNames /\ ("customer" \in ops) # ("supplier" \in ops)
ASSUME AmountsAssumption ==
    /\ Amounts \subseteq Nat \ {0} /\ Totals \subseteq Nat
    /\ Terms \in Nat /\ Band \in Nat \ {0} /\ LastDay \in Nat \ {0}
ASSUME RowsAssumption ==
    /\ IsFiniteSet(Bill) /\ IsFiniteSet(Pay) /\ IsFiniteSet(Note)
    /\ Bill \cap Pay = {} /\ Bill \cap Note = {} /\ Pay \cap Note = {}

VARIABLES
    ops,     \* the requests of this behaviour, and whose documents they make
    today,   \* the calendar day
    bill,    \* invoices of the customer or the supplier, Absent while absent
    pay,     \* their payments, Absent while absent
    note,    \* credit, tax debit and supplier debit notes, Absent while absent
    balance, \* the client's credit_balance
    stood    \* stood[d][b]: what b owed when day d ended

docs == <<bill, pay, note, balance>>
reporting == <<ops, today, docs, stood>>

Days == 1 .. LastDay
INCLUDE_STATUSES == {"OPEN", "PAID"}
Customer == "customer" \in ops

\* Credit notes and applied supplier debit notes take off a balance, tax debit
\* notes add to it.
Less == {"CN", "SDN"}
More == {"TDN"}

BillRow == [status : {"DRAFT", "CANCELLED"} \cup INCLUDE_STATUSES, total : Totals, date : Days,
            late : BOOLEAN, booked : Days \cup {Absent}]
PayRow == [bill : Bill, amount : Amounts, date : Days, late : BOOLEAN, booked : Days,
           cheque : BOOLEAN, status : {"SUCCESS", "PENDING", "FAILED"}]
NoteRow == [kind : Less \cup More, bill : Bill, amount : Amounts, date : Days,
            late : BOOLEAN, booked : Days \cup {Absent}, status : {"DRAFT", "ISSUED"}]
ASSUME AbsentAssumption == Absent \notin BillRow \cup PayRow \cup NoteRow \cup Days

InitStatements ==
    /\ ops \in Mixes
    /\ today = 1
    /\ bill = [b \in Bill |-> Absent]
    /\ pay = [p \in Pay |-> Absent]
    /\ note = [n \in Note |-> Absent]
    /\ balance = 0
    /\ stood = [d \in Days |-> [b \in Bill |-> 0]]

-----------------------------------------------------------------------------
(* Balances.                                                               *)

Monus(a, b) == IF a > b THEN a - b ELSE 0
Least(a, b) == IF a < b THEN a ELSE b
Billed(bills) == SumFunction([b \in bills |-> bill[b].total])
Paid(payments) == SumFunction([p \in payments |-> pay[p].amount])
Written(notes) == SumFunction([n \in notes |-> note[n].amount])

Has(b, statuses) == bill[b] # Absent /\ bill[b].status \in statuses
PaymentsOf(b, status) ==
    {p \in Pay : pay[p] # Absent /\ pay[p].bill = b /\ pay[p].status = status}
NotesOf(b, kinds) ==
    {n \in Note : /\ note[n] # Absent /\ note[n].bill = b
                  /\ note[n].kind \in kinds /\ note[n].status = "ISSUED"}
PaidFor(b) == Paid(PaymentsOf(b, "SUCCESS"))
Noted(b, kinds) == Written(NotesOf(b, kinds))

Owed(b) == bill[b].total + Noted(b, More)
BalanceDue(b) == Monus(Owed(b), PaidFor(b) + Noted(b, Less))
CreditOwing(b) == Monus(PaidFor(b) + Noted(b, Less), Owed(b))

\* The status of an OPEN or PAID invoice whose balance is now `due`.  Applying
\* a supplier debit note leaves it as it is.
StatusFor(due) == IF due = 0 THEN "PAID" ELSE "OPEN"

-----------------------------------------------------------------------------
(* Documents.                                                              *)

\* Days a document may be dated today.
Dates == IF "backdate" \in ops THEN Days ELSE {today}
PastDates == {d \in Dates : d <= today}

\* A supplier's invoice bears the time its client sends.
Enter(b, total, d, late) ==
    /\ bill[b] = Absent /\ (late => ~Customer)
    /\ bill' = [bill EXCEPT ![b] = [status |-> "DRAFT", total |-> total, date |-> d,
                                    late |-> late, booked |-> Absent]]
    /\ UNCHANGED <<ops, today, pay, note, balance, stood>>

\* Send or approval: the date stays what the draft says.
Book(b) ==
    /\ Has(b, {"DRAFT"})
    /\ bill' = [bill EXCEPT ![b].status = "OPEN", ![b].booked = today]
    /\ UNCHANGED <<ops, today, pay, note, balance, stood>>

\* A customer's invoice may be voided at any time, a supplier's cancelled
\* before it is approved.
Void(b) ==
    /\ "void" \in ops
    /\ Has(b, IF Customer THEN {"DRAFT"} \cup INCLUDE_STATUSES ELSE {"DRAFT"})
    /\ bill' = [bill EXCEPT ![b].status = "CANCELLED"]
    /\ UNCHANGED <<ops, today, pay, note, balance, stood>>

\* A post-dated cheque is PENDING and keeps the day it was received.  Whatever
\* the hour, the day is stored as its midnight.
RecordPayment(p, b, a, method, d) ==
    /\ "pay" \in ops /\ (method = "PDC" => "pdc" \in ops)
    /\ pay[p] = Absent /\ Has(b, INCLUDE_STATUSES)
    /\ a <= BalanceDue(b)
    /\ pay' = [pay EXCEPT ![p] =
         [bill |-> b, amount |-> a, date |-> d, late |-> FALSE, booked |-> today,
          cheque |-> method = "PDC", status |-> IF method = "PDC" THEN "PENDING" ELSE "SUCCESS"]]
    /\ bill' = IF method = "PDC" THEN bill
               ELSE [bill EXCEPT ![b].status = StatusFor(BalanceDue(b) - a)]
    /\ UNCHANGED <<ops, today, note, balance, stood>>

ClearCheque(p) ==
    /\ pay[p] # Absent /\ pay[p].status = "PENDING"
    /\ pay[p].amount <= BalanceDue(pay[p].bill)
    /\ pay' = [pay EXCEPT ![p].status = "SUCCESS", ![p].booked = today]
    /\ bill' = IF Has(pay[p].bill, {"CANCELLED"}) THEN bill
               ELSE [bill EXCEPT ![pay[p].bill].status =
                       StatusFor(BalanceDue(pay[p].bill) - pay[p].amount)]
    /\ UNCHANGED <<ops, today, note, balance, stood>>

BounceCheque(p) ==
    /\ pay[p] # Absent /\ pay[p].status = "PENDING"
    /\ pay' = [pay EXCEPT ![p].status = "FAILED"]
    /\ UNCHANGED <<ops, today, bill, note, balance, stood>>

\* reverse_payment, of a supplier's payment that was no cheque.
ReversePayment(p) ==
    /\ "reverse" \in ops /\ ~Customer
    /\ pay[p] # Absent /\ pay[p].status = "SUCCESS" /\ ~pay[p].cheque
    /\ pay' = [pay EXCEPT ![p].status = "FAILED"]
    /\ bill' = [bill EXCEPT ![pay[p].bill].status = "OPEN"]
    /\ UNCHANGED <<ops, today, note, balance, stood>>

\* Kinds of notes that are made in this behaviour.
Kinds == {k \in Less \cup More :
            (k = "SDN") # Customer /\ (IF k = "TDN" THEN "debit" ELSE "credit") \in ops}

DraftNote(n, kind, b, a, d) ==
    /\ note[n] = Absent /\ Has(b, INCLUDE_STATUSES)
    /\ note' = [note EXCEPT ![n] = [kind |-> kind, bill |-> b, amount |-> a, date |-> d,
                                    late |-> FALSE, booked |-> Absent, status |-> "DRAFT"]]
    /\ UNCHANGED <<ops, today, bill, pay, balance, stood>>

Issued(n) == [note[n] EXCEPT !.status = "ISSUED", !.booked = today]

\* Faulty: what the credit leaves over is not parked on the client.
IssueCreditNoteLost(n) ==
    /\ note[n] # Absent /\ note[n].status = "DRAFT" /\ note[n].kind = "CN"
    /\ LET b == note[n].bill
       IN  /\ Has(b, INCLUDE_STATUSES)
           /\ note[n].amount <= Monus(Owed(b), Noted(b, {"CN"}))
           /\ bill' = [bill EXCEPT ![b].status =
                         StatusFor(Monus(BalanceDue(b), note[n].amount))]
    /\ note' = [note EXCEPT ![n] = Issued(n)]
    /\ UNCHANGED <<ops, today, pay, balance, stood>>

\* A credit note may exceed what is due; what is left over is parked on the
\* client, with tax debit notes left out of the comparison.
IssueCreditNote(n) ==
    /\ note[n] # Absent /\ note[n].status = "DRAFT" /\ note[n].kind = "CN"
    /\ LET b == note[n].bill
           unpaid == Monus(bill[b].total, Noted(b, {"CN"}) + PaidFor(b))
       IN  /\ Has(b, INCLUDE_STATUSES)
           /\ note[n].amount <= Monus(Owed(b), Noted(b, {"CN"}))
           /\ bill' = [bill EXCEPT ![b].status =
                         StatusFor(Monus(BalanceDue(b), note[n].amount))]
           /\ balance' = balance + Monus(note[n].amount, unpaid)
    /\ note' = [note EXCEPT ![n] = Issued(n)]
    /\ UNCHANGED <<ops, today, pay, stood>>

\* A tax debit note takes parked credit back first.
IssueDebitNote(n) ==
    /\ note[n] # Absent /\ note[n].status = "DRAFT" /\ note[n].kind = "TDN"
    /\ LET b == note[n].bill
           unpark == Least(note[n].amount, CreditOwing(b))
       IN  /\ Has(b, INCLUDE_STATUSES)
           /\ bill' = [bill EXCEPT ![b].status = StatusFor(
                         Monus(Owed(b) + note[n].amount, PaidFor(b) + Noted(b, Less)))]
           /\ balance' = Monus(balance, unpark)
    /\ note' = [note EXCEPT ![n] = Issued(n)]
    /\ UNCHANGED <<ops, today, pay, stood>>

\* A supplier debit note bears the time at which it is applied.  The order of
\* the hours of one day is left open.
ApplyNote(n, late) ==
    /\ note[n] # Absent /\ note[n].status = "DRAFT" /\ note[n].kind = "SDN"
    /\ Has(note[n].bill, {"OPEN"}) /\ note[n].amount <= BalanceDue(note[n].bill)
    /\ note' = [note EXCEPT ![n] = [Issued(n) EXCEPT !.date = today, !.late = late]]
    /\ UNCHANGED <<ops, today, bill, pay, balance, stood>>

-----------------------------------------------------------------------------
(* The statement of account.                                               *)

In(d, from, to) == from <= d /\ d <= to

Included == {b \in Bill : Has(b, INCLUDE_STATUSES)}
StatedPayments(status) == UNION {PaymentsOf(b, status) : b \in Included}
StatedNotes(kinds) == UNION {NotesOf(b, kinds) : b \in Included}

BilledIn(from, to) == Billed({b \in Included : In(bill[b].date, from, to)})
PaidIn(status, from, to) ==
    Paid({p \in StatedPayments(status) : In(pay[p].date, from, to)})
NotedIn(kinds, from, to) ==
    Written({n \in StatedNotes(kinds) : In(note[n].date, from, to)})

\* period_totals.
PeriodTotals(from, to) ==
    [billed |-> BilledIn(from, to), paid |-> PaidIn("SUCCESS", from, to),
     credited |-> NotedIn(Less, from, to), debited |-> NotedIn(More, from, to),
     pending |-> PaidIn("PENDING", from, to)]

\* reconstruct_opening: what was dated before the period.
Opening(from) ==
    BilledIn(1, from - 1) - PaidIn("SUCCESS", 1, from - 1)
        - NotedIn(Less, 1, from - 1) + NotedIn(More, 1, from - 1)

\* collect_activity: the lines of the period; a pending cheque is a memo.
Line(doc, debit, credit) == [doc |-> doc, debit |-> debit, credit |-> credit]
Activity(from, to) ==
    {Line(b, bill[b].total, 0) : b \in {b \in Included : In(bill[b].date, from, to)}}
    \cup {Line(p, 0, pay[p].amount) :
            p \in {p \in StatedPayments("SUCCESS") : In(pay[p].date, from, to)}}
    \cup {Line(p, 0, 0) : p \in {p \in StatedPayments("PENDING") : In(pay[p].date, from, to)}}
    \cup {Line(n, 0, note[n].amount) :
            n \in {n \in StatedNotes(Less) : In(note[n].date, from, to)}}
    \cup {Line(n, note[n].amount, 0) :
            n \in {n \in StatedNotes(More) : In(note[n].date, from, to)}}

\* assemble_lines: the balance that runs from the opening over the lines.
ClosingRunning(from, to) ==
    Opening(from) + SumFunction([r \in Activity(from, to) |-> r.debit - r.credit])

\* open_ar_invoices and open_ap_invoices, and what the footer says of them.
OpenBills == {b \in Bill : Has(b, {"OPEN"})}
AmountDueNow == SumFunction([b \in OpenBills |-> BalanceDue(b)])

-----------------------------------------------------------------------------
(* Ageing.                                                                 *)

Buckets == 0 .. 4
BucketKey(days_overdue) ==
    IF days_overdue <= 0 THEN 0
    ELSE IF days_overdue <= Band THEN 1
    ELSE IF days_overdue <= 2 * Band THEN 2
    ELSE IF days_overdue <= 3 * Band THEN 3 ELSE 4

\* aging_buckets of the bills in DOMAIN owed, which owe owed[b], on the day as_of.
AgingBuckets(owed, as_of) ==
    [k \in Buckets |->
        LET aged == {b \in DOMAIN owed : BucketKey(as_of - (bill[b].date + Terms)) = k}
        IN  SumFunction([b \in aged |-> owed[b]])]

\* Cheques that are neither cleared nor bounced, of the bills S.
PdcOutstanding(bills) == Paid(UNION {PaymentsOf(b, "PENDING") : b \in bills})

Aging(owed, as_of) ==
    [outstanding |-> SumFunction(owed),
     buckets |-> AgingBuckets(owed, as_of), pdc |-> PdcOutstanding(DOMAIN owed)]

LiveBalances == [b \in OpenBills |-> BalanceDue(b)]

ApAging(as_of) == Aging(LiveBalances, as_of)

\* Faulty: invoices that have been paid since are not looked at.
ReconstructedOpen(b, as_of) ==
    IF ~Has(b, {"OPEN"}) \/ bill[b].date > as_of THEN 0
    ELSE Monus(bill[b].total
                 + Written({n \in NotesOf(b, More) : note[n].date <= as_of}),
               Written({n \in NotesOf(b, Less) : note[n].date <= as_of})
                 + Paid({p \in PaymentsOf(b, "SUCCESS") : pay[p].date <= as_of}))

\* _reconstruct_open_invoices: what b owed on a past day, by today's status
\* and the dates of its documents.
Reconstructed(b, as_of) ==
    IF ~Has(b, INCLUDE_STATUSES) \/ bill[b].date > as_of THEN 0
    ELSE Monus(bill[b].total
                 + Written({n \in NotesOf(b, More) : note[n].date <= as_of}),
               Written({n \in NotesOf(b, Less) : note[n].date <= as_of})
                 + Paid({p \in PaymentsOf(b, "SUCCESS") : pay[p].date <= as_of}))

\* The ageing report of customers, of live balances or of reconstructed ones.
ArAging(as_of, historical) ==
    LET owing == {b \in Bill : Reconstructed(b, as_of) > 0}
    IN  Aging(IF historical THEN [b \in owing |-> Reconstructed(b, as_of)] ELSE LiveBalances, as_of)

-----------------------------------------------------------------------------
(* The VAT pack and the analytics.                                         *)

\* business_date: the day a document has in the Gulf.
BusinessDate(row) == row.date + IF row.late THEN 1 ELSE 0

AllNotes(kinds, from, to) ==
    Written({n \in Note : /\ note[n] # Absent /\ note[n].status = "ISSUED"
                          /\ note[n].kind \in kinds /\ In(BusinessDate(note[n]), from, to)})

\* Faulty: tax debit notes are left out.
OutputTaxUndebited(from, to) == BilledIn(from, to) - AllNotes({"CN"}, from, to)

\* Notes count whatever has become of their invoice.
OutputTax(from, to) ==
    BilledIn(from, to) - AllNotes({"CN"}, from, to) + AllNotes({"TDN"}, from, to)

\* Every supplier's invoice that is not cancelled counts, and applied debit
\* notes are added to it.
InputTax(from, to) ==
    Billed({b \in Bill : /\ Has(b, {"DRAFT"} \cup INCLUDE_STATUSES)
                         /\ In(BusinessDate(bill[b]), from, to)})
      + AllNotes({"SDN"}, from, to)

\* The revenue and sales reports have the invoices alone, the cash-flow report
\* every payment that succeeded.
Revenue(from, to) == BilledIn(from, to)
Cashflow(from, to) ==
    Paid({p \in Pay : /\ pay[p] # Absent /\ pay[p].status = "SUCCESS"
                      /\ In(BusinessDate(pay[p]), from, to)})

-----------------------------------------------------------------------------

\* Midnight, after which what is owed is history.
NextDay ==
    /\ today < LastDay
    /\ stood' = [stood EXCEPT ![today] =
                   [b \in Bill |-> IF b \in OpenBills THEN BalanceDue(b) ELSE 0]]
    /\ today' = today + 1
    /\ UNCHANGED <<ops, docs>>

StatementsNext ==
    \/ \E b \in Bill, total \in Totals, d \in Dates, late \in BOOLEAN : Enter(b, total, d, late)
    \/ \E b \in Bill : Book(b) \/ Void(b)
    \/ \E p \in Pay, b \in Bill, a \in Amounts, m \in {"PDC", "CASH"}, d \in PastDates :
         RecordPayment(p, b, a, m, d)
    \/ \E p \in Pay : ClearCheque(p) \/ BounceCheque(p) \/ ReversePayment(p)
    \/ \E n \in Note, k \in Kinds, b \in Bill, a \in Amounts, d \in Dates :
         DraftNote(n, k, b, a, d)
    \/ \E n \in Note : IssueCreditNote(n) \/ IssueDebitNote(n)
    \/ \E n \in Note, late \in BOOLEAN : ApplyNote(n, late)
    \/ NextDay

StatementsSpec == InitStatements /\ [][StatementsNext]_reporting

-----------------------------------------------------------------------------
(* Properties.                                                             *)

StatementsTypeOK ==
    /\ ops \in Mixes /\ today \in Days /\ balance \in Nat
    /\ bill \in [Bill -> BillRow \cup {Absent}]
    /\ pay \in [Pay -> PayRow \cup {Absent}]
    /\ note \in [Note -> NoteRow \cup {Absent}]
    /\ stood \in [Days -> [Bill -> Nat]]

Periods == {x \in Days \X Days : x[1] <= x[2]}
Voided == {b \in Bill : Has(b, {"CANCELLED"})}

\* What one statement closes with the next one opens with, wherever the line
\* between two periods is drawn: no document is stated twice or not at all.
StatementsJoin ==
    \A d \in Days : \A e \in d .. LastDay : ClosingRunning(d, e) = Opening(e + 1)

\* A statement over the whole calendar closes with what is due now, less the
\* credit parked on the client ("closing_running = exposure - credit_balance",
\* wave-ar-statement-addendum.md:97).
ClosingIsDue == ClosingRunning(1, LastDay) = AmountDueNow - balance

\* It does for suppliers, and for customers as long as there is no tax debit
\* note and no invoice has been voided that was credited.
ClosingIsDueUndebited ==
    (/\ \A n \in Note : note[n] # Absent => note[n].kind # "TDN"
     /\ \A b \in Voided : NotesOf(b, Less) = {}) => ClosingIsDue

\* What an ageing report reconstructs of a past day is what stood that day, for
\* every invoice whose documents were booked by that day exactly if they are
\* dated by that day, and that has not been voided.
HistoryStands ==
    Customer => \A d \in 1 .. today - 1 : \A b \in Included :
        (/\ bill[b].date <= d <=> bill[b].booked <= d
         /\ \A p \in PaymentsOf(b, "SUCCESS") : pay[p].date <= d <=> pay[p].booked <= d
         /\ \A n \in NotesOf(b, Less \cup More) : note[n].date <= d <=> note[n].booked <= d)
        => Reconstructed(b, d) = stood[d][b]

\* "a past as_of shows the exposure exactly as it stood then"
\* (ar_aging.py:295-296), for invoices dated the day they were booked.
HistoryIsExact ==
    \A d \in 1 .. today - 1 : \A b \in Included :
        bill[b].date = bill[b].booked => Reconstructed(b, d) = stood[d][b]

\* What a supplier's statement dates on day d and the VAT pack on the day after.
EveningOf(d) ==
    Billed({b \in Included : bill[b].date = d /\ bill[b].late})
      + Written({n \in StatedNotes(Less) : note[n].date = d /\ note[n].late})

\* The reports agree about the invoices nobody has voided.  On every period the
\* VAT pack's output is what the statement bills, credits and debits, the
\* revenue what is billed and the cash flow what is paid.  Its input is what
\* suppliers bill plus, as the code has it, their debit notes, except that the
\* pack goes by days of the Gulf and the statement by those of UTC
\* (vat_compliance_service.py:83-92, supplier_statement_service.py:120): it has
\* the evening before the period and lacks the evening of its last day.  The
\* ageing report adds up to what its footer says is due; and reconstructed for
\* today it is the live one, where nothing is dated later.
ReportsAgree ==
    LET aging == IF Customer THEN ArAging(today, FALSE) ELSE ApAging(today)
        dated == {bill[b].date : b \in Included}
                   \cup {pay[p].date : p \in StatedPayments("SUCCESS")}
                   \cup {note[n].date : n \in StatedNotes(Less \cup More)}
    IN  /\ Voided = {} => \A x \in Periods :
             LET totals == PeriodTotals(x[1], x[2])
             IN  /\ Customer =>
                      OutputTax(x[1], x[2]) = totals.billed - totals.credited + totals.debited
                 /\ (Customer \/ \E b \in Bill : Has(b, {"DRAFT"})) \/
                      InputTax(x[1], x[2]) + EveningOf(x[2]) =
                        totals.billed + totals.credited + EveningOf(x[1] - 1)
                 /\ Revenue(x[1], x[2]) = totals.billed
                 /\ Cashflow(x[1], x[2]) = totals.paid
        /\ aging.outstanding = AmountDueNow
        /\ SumFunction(aging.buckets) = AmountDueNow
        /\ aging.pdc <= PeriodTotals(1, LastDay).pending
        /\ (Customer /\ \A d \in dated : d <= today) => ArAging(today, TRUE) = aging

\* The VAT pack's input is what the supplier's statement of the period says.  It
\* is not: an invoice of half past eight in the evening, UTC, falls on the next
\* day in one of them (test_13_gst_business_date).
InputIsStated ==
    ~Customer /\ (\A b \in Bill : bill[b] # Absent => Has(b, INCLUDE_STATUSES)) =>
        \A x \in Periods :
            LET totals == PeriodTotals(x[1], x[2])
            IN  InputTax(x[1], x[2]) = totals.billed + totals.credited

\* Rows have their types, statements join, and reports agree.
ReportsAddUp == StatementsTypeOK /\ StatementsJoin /\ ReportsAgree

=============================================================================
