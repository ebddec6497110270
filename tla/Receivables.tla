----------------------------- MODULE Receivables -----------------------------
(***************************************************************************)
(* Accounts receivable of one client: invoices, payments with idempotency  *)
(* keys, post-dated cheques, credit notes, tax debit notes, the overdue    *)
(* flip on read and the credit HOLD gate (invoice_service, payment_service,*)
(* pdc_service, credit_note_service, tax_debit_note_service,               *)
(* credit_control_service and their routers).                              *)
(*                                                                         *)
(* A request is a database transaction in READ COMMITTED: it takes row     *)
(* locks and reads the committed rows in one step, keeps what it will      *)
(* write in txn[t], and a later Commit writes it, waiting for the rows     *)
(* others have locked; Abort drops it.  A handler whose reads are all      *)
(* protected by locks it takes first and that evaluates nothing else is    *)
(* one step.  Reads of rows that nobody locked may be stale by the commit. *)
(* The session never flushes before a SELECT (autoflush=False), so a query *)
(* inside a request filters on the status the row had when the request     *)
(* began, while the rows it returns carry the request's own changes.       *)
(*                                                                         *)
(* Amounts are small naturals; line items, VAT, rounding, the FTA field    *)
(* checks, PDFs and audit events are left out, and the invoices are not    *)
(* linked to a customer LPO.  Days overdue are the bands the code compares *)
(* with: 0 not due, 1 past due, 2 past credit_warning_days, 3 past         *)
(* credit_hold_days.                                                       *)
(***************************************************************************)
EXTENDS Naturals, FiniteSets, FiniteSetsExt

CONSTANTS
    Inv, Pay, Key, Note,  \* row identities: invoices, payments, keys, CN/TDN
    Txn,                  \* requests that may be open at the same time
    Mixes,                \* sets of requests, one of which clients make
    Amounts,              \* amounts of payments and notes
    Totals,               \* invoice totals
    Limit,                \* the client's effective credit limit
    MaxAge,               \* bound on the days-overdue band (at most 3)
    MaxExpiries,          \* bound on how often a key outlives its 48 hours
    None, Same            \* no row; column not written

OpNames == {"pay", "payDraft", "pdc", "expire", "edit", "delete", "void",
            "credit", "debit", "sweep", "age"}

ASSUME MixesAssumption == Mixes \subseteq SUBSET OpNames
ASSUME RowsAssumption == IsFiniteSet(Inv) /\ IsFiniteSet(Pay) /\ IsFiniteSet(Note)
ASSUME AmountsAssumption == /\ Amounts \subseteq Nat \ {0}
                            /\ Totals \subseteq Nat
                            /\ Limit \in Nat /\ MaxAge \in 0..3 /\ MaxExpiries \in Nat

Client == "client"   \* the client's row, among the rows that can be locked

VARIABLES
    ops,     \* the requests of this behaviour; the passage of time among them
    inv,     \* invoice rows
    pay,     \* payment rows, None while absent
    key,     \* idempotency_keys rows: the payment, None while absent
    expired, \* keys whose row is past expires_at
    expiries,\* how often each key has expired, bounded by MaxExpiries
    note,    \* credit notes and tax debit notes, None while absent
    client,  \* credit_status and credit_balance
    age,     \* days-overdue band of each invoice
    txn      \* open requests, None while free

rows == <<ops, inv, pay, key, expired, expiries, note, client>>
vars == <<rows, age, txn>>

InvStatus == {"NONE", "DRAFT", "SENT", "PARTIALLY_PAID", "PAID", "OVERDUE", "CANCELLED"}
AR_STATUSES == {"SENT", "PARTIALLY_PAID", "OVERDUE"}
FLIP_STATUSES == {"SENT", "PARTIALLY_PAID"}
ALLOWED_PARENT == {"SENT", "PARTIALLY_PAID", "PAID", "OVERDUE"}
CreditStatus == {"ACTIVE", "WARNING", "HOLD"}
PayStatus == {"SUCCESS", "PENDING", "FAILED", "CANCELLED"}
PdcStatus == {"RECEIVED", "DEPOSITED", "CLEARED", "BOUNCED", "RETURNED"}

InvRow == [status : InvStatus, deleted : BOOLEAN, total : Nat, credited : Nat, debited : Nat]
PayRow == [inv : Inv, amount : Amounts, key : Key, status : PayStatus,
           pdc : PdcStatus \cup {None}]
NoteRow == [kind : {"CN", "TDN"}, inv : Inv, amount : Amounts, status : {"DRAFT", "ISSUED"}]

\* An open request: what it will write (Same for a column it leaves alone).
\* `flips` are the invoices it marks OVERDUE on the way, `locks` the rows it
\* holds; `seen` is the client's credit_status as the request loaded it.
RequestRow ==
    [op : {"send", "checked", "edit", "delete", "void", "sweep", "pay", "bounce", "issue"},
     inv : Inv \cup {None}, locks : SUBSET (Inv \cup Note \cup {Client}), flips : SUBSET Inv,
     seen : CreditStatus,
     status : InvStatus \cup {Same}, deleted : BOOLEAN \cup {Same}, total : Nat \cup {Same},
     credited : Nat \cup {Same}, debited : Nat \cup {Same},
     credit : CreditStatus \cup {Same}, balance : Nat \cup {Same},
     pay : Pay \cup {None}, row : PayRow \cup {None}, key : Key \cup {None},
     old : Pay \cup {None}, note : Note \cup {None}]

ASSUME NoneAssumption ==
    /\ None \notin PayRow \cup NoteRow \cup RequestRow
    /\ None \notin Inv \cup Pay \cup Key \cup Note \cup PdcStatus \cup {Client}
    /\ Same \notin InvStatus \cup CreditStatus /\ Same \notin BOOLEAN /\ Same \notin Nat
    /\ Client \notin Inv \cup Note /\ Inv \cap Note = {}

Init ==
    /\ ops \in Mixes
    /\ inv = [i \in Inv |-> [status |-> "NONE", deleted |-> FALSE,
                             total |-> 0, credited |-> 0, debited |-> 0]]
    /\ pay = [p \in Pay |-> None]
    /\ key = [k \in Key |-> None]
    /\ expired = {}
    /\ expiries = [k \in Key |-> 0]
    /\ note = [n \in Note |-> None]
    /\ client = [credit |-> "ACTIVE", balance |-> 0]
    /\ age = [i \in Inv |-> 0]
    /\ txn = [t \in Txn |-> None]

-----------------------------------------------------------------------------
(* Money.                                                                  *)

Monus(a, b) == IF a > b THEN a - b ELSE 0

Payments(i) == {p \in Pay : pay[p] # None /\ pay[p].inv = i}
Successful(i) == {p \in Payments(i) : pay[p].status = "SUCCESS"}
AmountPaid(i) == SumFunction([p \in Successful(i) |-> pay[p].amount])

\* balance_due and calculate_credit_owing of an invoice row and what was paid.
BalanceDue(row, paid)  == Monus(row.total + row.debited, paid + row.credited)
CreditOwing(row, paid) == Monus(paid + row.credited, row.total + row.debited)

Issued(i, kind) == {n \in Note : /\ note[n] # None
                                 /\ note[n].inv = i
                                 /\ note[n].kind = kind
                                 /\ note[n].status = "ISSUED"}
IssuedTotal(i, kind) == SumFunction([n \in Issued(i, kind) |-> note[n].amount])

ShouldMarkOverdue(i, row, paid) ==
    /\ ~row.deleted
    /\ row.status \in AR_STATUSES
    /\ age[i] > 0
    /\ BalanceDue(row, paid) > 0

DetermineStatus(i, row, paid) ==
    IF row.status \in {"CANCELLED", "DRAFT"} THEN row.status
    ELSE IF BalanceDue(row, paid) = 0 THEN "PAID"
    ELSE IF ShouldMarkOverdue(i, row, paid) THEN "OVERDUE"
    ELSE IF paid > 0 THEN "PARTIALLY_PAID"
    ELSE "SENT"

-----------------------------------------------------------------------------
(* Open requests.                                                          *)

Request(op, i, locked) ==
    [op |-> op, inv |-> i, locks |-> locked, flips |-> {}, seen |-> client.credit,
     status |-> Same, deleted |-> Same, total |-> Same,
     credited |-> Same, debited |-> Same,
     credit |-> Same, balance |-> Same,
     pay |-> None, row |-> None, key |-> None, old |-> None, note |-> None]

Open(t) == txn[t] # None
LockedByOthers(t) == UNION {txn[u].locks : u \in {v \in Txn \ {t} : Open(v)}}
Free(t, S) == S \cap LockedByOthers(t) = {}

\* Rows the request updates at its commit.
Written(e) ==
    e.flips
    \cup {i \in {e.inv} : \E c \in {"status", "deleted", "total", "credited", "debited"} :
                              e[c] # Same}
    \cup {r \in {Client} : e.credit # Same \/ e.balance # Same}

-----------------------------------------------------------------------------
(* Credit control.                                                         *)

\* _past_due_select and _flip_past_due: the query sees the committed statuses,
\* the objects of invoice i what the request has made of them.
PastDue(i, row, paid) ==
    {j \in Inv : /\ inv[j].status \in FLIP_STATUSES
                 /\ ~inv[j].deleted
                 /\ age[j] > 0
                 /\ 0 < IF j = i THEN BalanceDue(row, paid)
                                 ELSE BalanceDue(inv[j], AmountPaid(j))}

\* open_ar_invoices, again by the committed statuses.
OpenAR == {j \in Inv : inv[j].status \in AR_STATUSES /\ ~inv[j].deleted}

Exposure(i, row, paid) ==
    SumFunction([j \in OpenAR |-> IF j = i THEN BalanceDue(row, paid)
                                           ELSE BalanceDue(inv[j], AmountPaid(j))])

OldestOverdue(i, row, paid) ==
    LET late == {j \in OpenAR : /\ age[j] > 0
                                /\ 0 < IF j = i THEN BalanceDue(row, paid)
                                                ELSE BalanceDue(inv[j], AmountPaid(j))}
    IN  IF late = {} THEN 0 ELSE Max({age[j] : j \in late})

DecideStatus(exposure, oldest) ==
    IF exposure > Limit \/ oldest = 3 THEN "HOLD"
    ELSE IF oldest = 2 THEN "WARNING"
    ELSE "ACTIVE"

\* evaluate: the request e, whose invoice now reads `row` with `paid` paid,
\* flips what is past due and stores a changed credit_status.
Evaluate(e, row, paid) ==
    LET snap == DecideStatus(Exposure(e.inv, row, paid), OldestOverdue(e.inv, row, paid))
    IN  [e EXCEPT !.flips = PastDue(e.inv, row, paid),
                  !.credit = IF snap = e.seen THEN Same ELSE snap]

-----------------------------------------------------------------------------
(* Invoices.                                                               *)

\* POST /invoices: a new DRAFT.
CreateInvoice(i, total) ==
    /\ inv[i].status = "NONE"
    /\ inv' = [inv EXCEPT ![i] = [@ EXCEPT !.status = "DRAFT", !.total = total]]
    /\ UNCHANGED <<ops, pay, key, expired, expiries, note, client, age, txn>>

\* POST /invoices/{id}/send locks the invoice, checks it is a DRAFT and loads
\* the client ...
SendLoad(t, i) ==
    /\ ~Open(t)
    /\ inv[i].status = "DRAFT" /\ ~inv[i].deleted
    /\ Free(t, {i})
    /\ txn' = [txn EXCEPT ![t] = Request("send", i, {i})]
    /\ UNCHANGED <<rows, age>>

\* Faulty: the gate reads the client without locking it.
SendCheckUnlocked(t) ==
    /\ Open(t) /\ txn[t].op = "send"
    /\ LET i == txn[t].inv
           paid == AmountPaid(i)
           sent == [inv[i] EXCEPT !.status = "SENT"]
       IN  /\ DecideStatus(Exposure(None, inv[i], 0), OldestOverdue(None, inv[i], 0)) # "HOLD"
           /\ txn' = [txn EXCEPT ![t] =
                [Evaluate(txn[t], inv[i], paid) EXCEPT
                   !.op = "checked",
                   !.status = IF ShouldMarkOverdue(i, sent, paid) THEN "OVERDUE" ELSE "SENT"]]
    /\ UNCHANGED <<rows, age>>

\* ... then assert_not_hold locks the client and evaluates; on HOLD the request
\* fails, otherwise the invoice becomes SENT, or OVERDUE if already past due.
SendCheck(t) ==
    /\ Open(t) /\ txn[t].op = "send"
    /\ Free(t, {Client})
    /\ LET i == txn[t].inv
           paid == AmountPaid(i)
           sent == [inv[i] EXCEPT !.status = "SENT"]
       IN  IF DecideStatus(Exposure(i, inv[i], paid), OldestOverdue(i, inv[i], paid)) = "HOLD"
             THEN txn' = [txn EXCEPT ![t] = None]
             ELSE txn' = [txn EXCEPT ![t] =
                    [Evaluate(txn[t], inv[i], paid) EXCEPT
                       !.op = "checked",
                       !.locks = {i, Client},
                       !.status = IF ShouldMarkOverdue(i, sent, paid)
                                    THEN "OVERDUE" ELSE "SENT"]]
    /\ UNCHANGED <<rows, age>>

\* PUT /invoices/{id}: checks a DRAFT it has not locked, and rewrites it.
EditInvoice(t, i, total) ==
    /\ "edit" \in ops
    /\ ~Open(t)
    /\ inv[i].status = "DRAFT" /\ ~inv[i].deleted
    /\ txn' = [txn EXCEPT ![t] = [Request("edit", i, {}) EXCEPT !.total = total]]
    /\ UNCHANGED <<rows, age>>

\* DELETE /invoices/{id}: soft delete of a DRAFT it has not locked.
DeleteInvoice(t, i) ==
    /\ "delete" \in ops
    /\ ~Open(t)
    /\ inv[i].status = "DRAFT" /\ ~inv[i].deleted
    /\ txn' = [txn EXCEPT ![t] = [Request("delete", i, {}) EXCEPT !.deleted = TRUE]]
    /\ UNCHANGED <<rows, age>>

\* POST /invoices/{id}/void: from any status but CANCELLED, not locked either.
VoidInvoice(t, i) ==
    /\ "void" \in ops
    /\ ~Open(t)
    /\ inv[i].status \notin {"NONE", "CANCELLED"} /\ ~inv[i].deleted
    /\ txn' = [txn EXCEPT ![t] = [Request("void", i, {}) EXCEPT !.status = "CANCELLED"]]
    /\ UNCHANGED <<rows, age>>

\* GET /invoices flips every past-due invoice of the workspace, GET
\* /invoices/{id} the one it returns; neither locks what it has read.
SweepOverdue(t, S) ==
    /\ "sweep" \in ops
    /\ ~Open(t)
    /\ LET late == PastDue(None, None, 0) \cap S
       IN  /\ late # {}
           /\ txn' = [txn EXCEPT ![t] = [Request("sweep", None, {}) EXCEPT !.flips = late]]
    /\ UNCHANGED <<rows, age>>

-----------------------------------------------------------------------------
(* Payments and post-dated cheques.                                        *)

\* record_payment holds the invoice from the start.  An unexpired key returns
\* the payment it names, which changes nothing; an expired one is deleted.
\* The invoice's status is not looked at: "payDraft" lets clients of this
\* instance pay an invoice that was never sent.
RecordPayment(t, i, k, a, method, p) ==
    /\ "pay" \in ops /\ (method = "PDC" => "pdc" \in ops)
    /\ ~Open(t)
    /\ inv[i].status # "NONE" /\ (inv[i].status = "DRAFT" => "payDraft" \in ops)
    /\ Free(t, {i})
    /\ key[k] = None \/ k \in expired
    /\ pay[p] = None /\ \A u \in Txn : Open(u) => txn[u].pay # p
    /\ a <= BalanceDue(inv[i], AmountPaid(i))
    /\ LET new == [inv |-> i, amount |-> a, key |-> k,
                   status |-> IF method = "PDC" THEN "PENDING" ELSE "SUCCESS",
                   pdc |-> IF method = "PDC" THEN "RECEIVED" ELSE None]
           paid == AmountPaid(i) + IF method = "PDC" THEN 0 ELSE a
           st == DetermineStatus(i, inv[i], paid)
           e == [Request("pay", i, {i}) EXCEPT
                   !.status = IF st = inv[i].status THEN Same ELSE st,
                   !.pay = p, !.row = new, !.key = k, !.old = key[k]]
       IN  txn' = [txn EXCEPT ![t] = Evaluate(e, [inv[i] EXCEPT !.status = st], paid)]
    /\ UNCHANGED <<rows, age>>

\* 48 hours later; no request is open that long.
ExpireKey(k) ==
    /\ "expire" \in ops
    /\ key[k] # None /\ k \notin expired
    /\ expiries[k] < MaxExpiries
    /\ \A t \in Txn : ~Open(t)
    /\ expired' = expired \cup {k}
    /\ expiries' = [expiries EXCEPT ![k] = @ + 1]
    /\ UNCHANGED <<ops, inv, pay, key, note, client, age, txn>>

\* A PDC action locks the invoice, then the payment.
PdcReady(p, status) ==
    /\ pay[p] # None
    /\ pay[p].pdc = status /\ pay[p].status = "PENDING"
    /\ \A t \in Txn : Open(t) => pay[p].inv \notin txn[t].locks

\* On or after the cheque's date.
DepositPdc(p) ==
    /\ PdcReady(p, "RECEIVED")
    /\ pay' = [pay EXCEPT ![p].pdc = "DEPOSITED"]
    /\ UNCHANGED <<ops, inv, key, expired, expiries, note, client, age, txn>>

ReturnPdc(p) ==
    /\ PdcReady(p, "RECEIVED")
    /\ pay' = [pay EXCEPT ![p] = [@ EXCEPT !.pdc = "RETURNED", !.status = "CANCELLED"]]
    /\ UNCHANGED <<ops, inv, key, expired, expiries, note, client, age, txn>>

\* Faulty: the balance is not checked again when the cheque clears.
ClearPdcUnchecked(p) ==
    /\ PdcReady(p, "DEPOSITED")
    /\ LET i == pay[p].inv
       IN  /\ pay' = [pay EXCEPT ![p] = [@ EXCEPT !.pdc = "CLEARED", !.status = "SUCCESS"]]
           /\ inv' = [inv EXCEPT ![i].status =
                        DetermineStatus(i, inv[i], AmountPaid(i) + pay[p].amount)]
    /\ UNCHANGED <<ops, key, expired, expiries, note, client, age, txn>>

\* Faulty: the invoice's status is left as it was.
ClearPdcStale(p) ==
    /\ PdcReady(p, "DEPOSITED")
    /\ pay[p].amount <= BalanceDue(inv[pay[p].inv], AmountPaid(pay[p].inv))
    /\ pay' = [pay EXCEPT ![p] = [@ EXCEPT !.pdc = "CLEARED", !.status = "SUCCESS"]]
    /\ UNCHANGED <<ops, inv, key, expired, expiries, note, client, age, txn>>

\* The cheque counts from now on, if it still fits the balance; the credit
\* status is not evaluated.
ClearPdc(p) ==
    /\ PdcReady(p, "DEPOSITED")
    /\ LET i == pay[p].inv
       IN  /\ pay[p].amount <= BalanceDue(inv[i], AmountPaid(i))
           /\ pay' = [pay EXCEPT ![p] = [@ EXCEPT !.pdc = "CLEARED", !.status = "SUCCESS"]]
           /\ inv' = [inv EXCEPT ![i].status =
                        DetermineStatus(i, inv[i], AmountPaid(i) + pay[p].amount)]
    /\ UNCHANGED <<ops, key, expired, expiries, note, client, age, txn>>

\* A bounce evaluates the client before it commits.
BouncePdc(t, p) ==
    /\ ~Open(t)
    /\ PdcReady(p, "DEPOSITED")
    /\ LET i == pay[p].inv
           row == [pay[p] EXCEPT !.pdc = "BOUNCED", !.status = "FAILED"]
           e == [Request("bounce", i, {i}) EXCEPT !.pay = p, !.row = row]
       IN  txn' = [txn EXCEPT ![t] = Evaluate(e, inv[i], AmountPaid(i))]
    /\ UNCHANGED <<rows, age>>

-----------------------------------------------------------------------------
(* Credit notes (kind "CN") and tax debit notes ("TDN").                   *)

CreditRemaining(i) == Monus(inv[i].total + IssuedTotal(i, "TDN"), IssuedTotal(i, "CN"))

ParentReady(t, i) ==
    /\ ~inv[i].deleted
    /\ inv[i].status \in ALLOWED_PARENT
    /\ Free(t, {i})

\* A DRAFT note; only a credit note is capped.
CreateNote(n, kind, i, a) ==
    /\ (IF kind = "CN" THEN "credit" ELSE "debit") \in ops
    /\ note[n] = None
    /\ ParentReady(None, i)
    /\ kind = "CN" => a <= CreditRemaining(i)
    /\ note' = [note EXCEPT ![n] = [kind |-> kind, inv |-> i, amount |-> a,
                                    status |-> "DRAFT"]]
    /\ UNCHANGED <<ops, inv, pay, key, expired, expiries, client, age, txn>>

DeleteNote(n) ==
    /\ note[n] # None /\ note[n].status = "DRAFT"
    /\ \A t \in Txn : Open(t) => n \notin txn[t].locks
    /\ note' = [note EXCEPT ![n] = None]
    /\ UNCHANGED <<ops, inv, pay, key, expired, expiries, client, age, txn>>

\* Locks taken by an issue: the note, its invoice, the client.
IssueReady(t, n, kind) ==
    /\ ~Open(t)
    /\ note[n] # None /\ note[n].kind = kind /\ note[n].status = "DRAFT"
    /\ ParentReady(t, note[n].inv)
    /\ Free(t, {n, Client})

\* The credited or debited total, the client's balance and the invoice's
\* status that an issue leaves, and the evaluation that ends it.
PostAr(e, i, row, balance) ==
    LET paid == AmountPaid(i)
        st == DetermineStatus(i, row, paid)
    IN  Evaluate([e EXCEPT !.status = IF st = row.status THEN Same ELSE st,
                           !.credited = row.credited,
                           !.debited = row.debited,
                           !.balance = balance],
                 [row EXCEPT !.status = st], paid)

\* Faulty: the issue does not take the parent invoice FOR UPDATE.
IssueCreditNoteUnlocked(t, n) ==
    /\ ~Open(t)
    /\ note[n] # None /\ note[n].kind = "CN" /\ note[n].status = "DRAFT"
    /\ note[n].amount <= CreditRemaining(note[n].inv)
    /\ Free(t, {n})
    /\ LET i == note[n].inv
           row == [inv[i] EXCEPT !.credited = IssuedTotal(i, "CN") + note[n].amount]
       IN  txn' = [txn EXCEPT ![t] =
             PostAr([Request("issue", i, {n}) EXCEPT !.note = n], i, row, client.balance)]
    /\ UNCHANGED <<rows, age>>

\* Faulty: what has been paid is left out of the unpaid amount.
IssueCreditNoteNet(t, n) ==
    /\ IssueReady(t, n, "CN")
    /\ note[n].amount <= CreditRemaining(note[n].inv)
    /\ LET i == note[n].inv
           unpaid == Monus(inv[i].total, inv[i].credited)
           row == [inv[i] EXCEPT !.credited = IssuedTotal(i, "CN") + note[n].amount]
       IN  txn' = [txn EXCEPT ![t] =
             PostAr([Request("issue", i, {n, i, Client}) EXCEPT !.note = n],
                    i, row, client.balance + Monus(note[n].amount, unpaid))]
    /\ UNCHANGED <<rows, age>>

\* What the credit leaves over is parked on the client.  The unpaid amount it
\* is compared with leaves earlier tax debit notes out (net_before).
IssueCreditNote(t, n) ==
    /\ IssueReady(t, n, "CN")
    /\ note[n].amount <= CreditRemaining(note[n].inv)
    /\ LET i == note[n].inv
           unpaid == Monus(inv[i].total, inv[i].credited + AmountPaid(i))
           increment == Monus(note[n].amount, unpaid)
           row == [inv[i] EXCEPT !.credited = IssuedTotal(i, "CN") + note[n].amount]
       IN  txn' = [txn EXCEPT ![t] =
             PostAr([Request("issue", i, {n, i, Client}) EXCEPT !.note = n],
                    i, row, client.balance + increment)]
    /\ UNCHANGED <<rows, age>>

\* Credit parked from this invoice is taken back first.
IssueDebitNote(t, n) ==
    /\ IssueReady(t, n, "TDN")
    /\ LET i == note[n].inv
           paid == AmountPaid(i)
           more == [inv[i] EXCEPT !.debited = inv[i].debited + note[n].amount]
           unpark == Monus(CreditOwing(inv[i], paid), CreditOwing(more, paid))
           row == [inv[i] EXCEPT !.debited = IssuedTotal(i, "TDN") + note[n].amount]
       IN  txn' = [txn EXCEPT ![t] =
             PostAr([Request("issue", i, {n, i, Client}) EXCEPT !.note = n],
                    i, row, Monus(client.balance, unpark))]
    /\ UNCHANGED <<rows, age>>

-----------------------------------------------------------------------------
(* The end of a request.                                                   *)

Put(old, new) == IF new = Same THEN old ELSE new

\* The row of invoice i after the request's UPDATEs: the columns it changed.
Updated(i, e) ==
    [status   |-> IF i \in e.flips THEN "OVERDUE"
                  ELSE IF i = e.inv THEN Put(inv[i].status, e.status)
                  ELSE inv[i].status,
     deleted  |-> IF i = e.inv THEN Put(inv[i].deleted, e.deleted) ELSE inv[i].deleted,
     total    |-> IF i = e.inv THEN Put(inv[i].total, e.total) ELSE inv[i].total,
     credited |-> IF i = e.inv THEN Put(inv[i].credited, e.credited) ELSE inv[i].credited,
     debited  |-> IF i = e.inv THEN Put(inv[i].debited, e.debited) ELSE inv[i].debited]

\* Somebody else has stored the key meanwhile: the INSERT violates its
\* uniqueness and the request fails.
KeyConflict(e) == e.key # None /\ key[e.key] # e.old

Write(e) ==
    /\ inv' = [i \in Inv |-> Updated(i, e)]
    /\ pay' = [p \in Pay |-> IF p = e.pay THEN e.row ELSE pay[p]]
    /\ key' = [k \in Key |-> IF k = e.key THEN e.pay ELSE key[k]]
    /\ expired' = expired \ {e.key}
    /\ note' = [n \in Note |-> IF n = e.note THEN [note[n] EXCEPT !.status = "ISSUED"]
                                             ELSE note[n]]
    /\ client' = [credit |-> Put(client.credit, e.credit),
                  balance |-> Put(client.balance, e.balance)]

\* Faulty: the key is stored without regard to its uniqueness.
CommitAnyKey(t) ==
    /\ Open(t) /\ txn[t].op # "send"
    /\ Free(t, Written(txn[t]))
    /\ Write(txn[t])
    /\ txn' = [txn EXCEPT ![t] = None]
    /\ UNCHANGED <<ops, expiries, age>>

Commit(t) ==
    /\ Open(t) /\ txn[t].op # "send"
    /\ Free(t, Written(txn[t]))
    /\ IF KeyConflict(txn[t])
         THEN UNCHANGED <<inv, pay, key, expired, note, client>>
         ELSE Write(txn[t])
    /\ txn' = [txn EXCEPT ![t] = None]
    /\ UNCHANGED <<ops, expiries, age>>

\* An error, a lost client, a crash, or the victim of a database deadlock.
Abort(t) ==
    /\ Open(t)
    /\ txn' = [txn EXCEPT ![t] = None]
    /\ UNCHANGED <<rows, age>>

\* The due date passes and the invoice grows older.
GrowOlder(i) ==
    /\ "age" \in ops /\ age[i] < MaxAge
    /\ age' = [age EXCEPT ![i] = @ + 1]
    /\ UNCHANGED <<rows, txn>>

\* Looking at a client looks at all its invoices.
ReadClient(t) == SweepOverdue(t, Inv)

Begin(t) ==
    \/ \E i \in Inv :
         \/ SendLoad(t, i)
         \/ \E total \in Totals : EditInvoice(t, i, total)
         \/ DeleteInvoice(t, i)
         \/ VoidInvoice(t, i)
         \/ SweepOverdue(t, {i})
         \/ \E k \in Key, a \in Amounts, m \in {"PDC", "CHEQUE"}, p \in Pay :
              RecordPayment(t, i, k, a, m, p)
    \/ ReadClient(t)
    \/ \E p \in Pay : BouncePdc(t, p)
    \/ \E n \in Note : IssueCreditNote(t, n) \/ IssueDebitNote(t, n)

Next ==
    \/ \E t \in Txn : Begin(t) \/ SendCheck(t) \/ Commit(t) \/ Abort(t)
    \/ \E i \in Inv, total \in Totals : CreateInvoice(i, total)
    \/ \E p \in Pay : DepositPdc(p) \/ ReturnPdc(p) \/ ClearPdc(p)
    \/ \E k \in Key : ExpireKey(k)
    \/ \E n \in Note, kind \in {"CN", "TDN"}, i \in Inv, a \in Amounts :
         CreateNote(n, kind, i, a)
    \/ \E n \in Note : DeleteNote(n)
    \/ \E i \in Inv : GrowOlder(i)

Spec == Init /\ [][Next]_vars

-----------------------------------------------------------------------------
(* Properties.                                                             *)

TypeOK ==
    /\ ops \in Mixes
    /\ inv \in [Inv -> InvRow]
    /\ pay \in [Pay -> PayRow \cup {None}]
    /\ key \in [Key -> Pay \cup {None}]
    /\ expired \subseteq Key
    /\ expiries \in [Key -> 0..MaxExpiries]
    /\ note \in [Note -> NoteRow \cup {None}]
    /\ client \in [credit : CreditStatus, balance : Nat]
    /\ age \in [Inv -> 0..MaxAge]
    /\ txn \in [Txn -> RequestRow \cup {None}]

\* An edit writes the total of an invoice that may have been sent since it was
\* read (SentIsImmutable).  What is stated of totals is stated for behaviours
\* in which no edit can change one.
TotalsStand == "edit" \in ops => \A x, y \in Totals : x = y

\* No payments beyond what was billed, whatever cheques clear late and
\* whatever is credited or debited meanwhile ("Overpayments are not allowed").
NotOverpaid ==
    TotalsStand => \A i \in Inv : AmountPaid(i) <= inv[i].total + inv[i].debited

\* A key stands for one payment as long as its row has not expired, however
\* often and for whichever invoice it is sent ("Same key within 48 hours
\* returns the same payment", routers/payments.py:90-91).
PaymentsFor(k) == {p \in Pay : pay[p] # None /\ pay[p].key = k}
OncePerKey == \A k \in Key : Cardinality(PaymentsFor(k)) <= 1 + expiries[k]

\* The status of a sent invoice never drifts from its payments and notes,
\* where no overdue flip races with them and no DRAFT is paid.  An invoice of
\* nothing stays SENT.
StatusAgrees ==
    \A i \in Inv : inv[i].status \in ALLOWED_PARENT =>
        /\ inv[i].status = "PAID" => BalanceDue(inv[i], AmountPaid(i)) = 0
        /\ BalanceDue(inv[i], AmountPaid(i)) = 0 => inv[i].status = "PAID" \/ inv[i].total = 0
        /\ inv[i].status = "SENT" => AmountPaid(i) = 0
        /\ inv[i].status = "PARTIALLY_PAID" => AmountPaid(i) > 0
StatusMatchesBalance ==
    TotalsStand /\ ops \cap {"age", "payDraft"} = {} => StatusAgrees

\* The cached totals on the invoice are the sums of its issued notes, which
\* concurrent issues of two notes of one invoice must not lose.
CachedTotals ==
    \A i \in Inv : /\ inv[i].credited = IssuedTotal(i, "CN")
                   /\ inv[i].debited = IssuedTotal(i, "TDN")

\* Issued credit notes never take an invoice below zero, however many of them
\* were drafted against the same remainder.
NotOvercredited ==
    TotalsStand => \A i \in Inv : IssuedTotal(i, "CN") <= inv[i].total + IssuedTotal(i, "TDN")

\* Rows have their types, and notes add up on their invoice.
NotesAddUp == TypeOK /\ CachedTotals /\ NotOvercredited

\* The client's parked credit is what its invoices owe it back
\* (closing_running = exposure - credit_balance).
CreditBalanceIsOwed ==
    client.balance = SumFunction([i \in Inv |-> CreditOwing(inv[i], AmountPaid(i))])

\* It is, at least, as long as none of its invoices has been debited, however
\* payments, clearing cheques and credit notes overlap.
ParkedUntilDebited ==
    TotalsStand /\ (\A i \in Inv : Issued(i, "TDN") = {}) => CreditBalanceIsOwed

\* An invoice that has been sent is neither rewritten nor deleted.
SentIsImmutable ==
    [][\A i \in Inv : inv[i].status \in ALLOWED_PARENT =>
          inv'[i].total = inv[i].total /\ inv'[i].deleted = inv[i].deleted]_vars

\* An overdue flip that was read before a void, and is written after it, makes
\* the voided invoice one that is owed again.
VoidsStand == ~({"void", "age"} \subseteq ops)

\* The credit HOLD gates new exposure: when an invoice leaves DRAFT for SENT,
\* what the client already owes is within the limit, sends and debit notes of
\* the client's other invoices notwithstanding.
HoldGate ==
    [][TotalsStand /\ VoidsStand =>
         \A i \in Inv : inv[i].status = "DRAFT" /\ inv'[i].status \in AR_STATUSES =>
           Exposure(None, inv[i], 0) <= Limit]_vars

=============================================================================
