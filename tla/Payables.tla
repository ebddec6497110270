------------------------------ MODULE Payables ------------------------------
(***************************************************************************)
(* Accounts payable: supplier invoices and their three-way match with the  *)
(* lines of supplier purchase orders, payments with idempotency keys,      *)
(* post-dated cheques, reversals and supplier debit notes                  *)
(* (supplier_invoice_service, supplier_payment_service,                    *)
(* supplier_payment_reversal_service, supplier_pdc_service,                *)
(* supplier_debit_note_service).                                           *)
(*                                                                         *)
(* Everything that moves money locks the invoice first and reads behind    *)
(* the lock: one step.  Match, resolution and approval read the invoice    *)
(* without a lock and write it when they commit: two steps, with the       *)
(* request kept in txn[t] between them.                                    *)
(*                                                                         *)
(* The client sends an invoice's total and its items: the total need not   *)
(* be that of the items, an invoice may have no items, several for one     *)
(* line, or items for no line.  The comparisons other than the quantity    *)
(* (price, tax, currency, landed cost) come down to `agrees`, which an     *)
(* amendment of the order may change.                                      *)
(***************************************************************************)
EXTENDS Naturals, FiniteSets, Functions

CONSTANTS
    Inv, Pay, Key, Note,  \* row identities
    Txn,                  \* requests that may be open at the same time
    OrderLine,            \* lines of supplier purchase orders
    ItemLists,            \* what an invoice may come with: sequences of items
    Total,                \* total of each invoice
    Amounts,              \* amounts of payments and notes
    MaxAccepted,          \* bound on what is accepted of a line
    MaxExpiries,          \* bound on how often a key outlives its 48 hours
    None                  \* no row

Item == [line : OrderLine \cup {None}, qty : Nat]

ASSUME TotalAssumption == Total \in [Inv -> Nat]
ASSUME ItemsAssumption == \A list \in ItemLists : \A k \in DOMAIN list : list[k] \in Item
ASSUME AmountsAssumption == Amounts \subseteq Nat \ {0}
ASSUME RowsAssumption == IsFiniteSet(Pay) /\ Pay \cap Note = {}
ASSUME BoundsAssumption == MaxAccepted \in Nat /\ MaxExpiries \in Nat

VARIABLES
    inv,      \* supplier_invoices, None while absent
    pay,      \* supplier_payments, None while absent
    key,      \* supplier_payment_idempotency_keys: the payment, or None
    expired,  \* keys whose row is past expires_at
    expiries, \* how often each key has expired, bounded by MaxExpiries
    note,     \* supplier_debit_notes, None while absent
    items,    \* supplier_invoice_items of each invoice, also of one to come
    accepted, \* accepted quantity of each line's goods receipts
    most,     \* the most that was ever accepted of each line
    agrees,   \* whether the items agree with the order
    txn       \* open requests, None while free

money == <<pay, key, expired, expiries, note>>
goods == <<items, accepted, most, agrees>>
vars == <<inv, money, goods, txn>>

MatchStatuses == {"RECEIVED", "MATCHED", "DISCREPANCY"}
PAYABLE_STATUSES == {"APPROVED", "PARTIALLY_PAID"}
REVERSIBLE_INVOICE_STATUSES == PAYABLE_STATUSES \cup {"PAID"}
MatchResult == {"NOT_CHECKED", "PASSED", "FAILED_QTY", "FAILED_PRICE", "UNRECEIVED_ITEMS"}
PayStatus == {"SUCCESS", "PENDING", "FAILED", "CANCELLED"}
PdcStatus == {"RECEIVED", "DEPOSITED", "CLEARED", "BOUNCED", "RETURNED"}
NoteStatus == {"DRAFT", "ISSUED", "APPLIED", "CANCELLED"}

InvRow == [status : MatchStatuses \cup REVERSIBLE_INVOICE_STATUSES, match : MatchResult,
           approved : BOOLEAN, resolved : BOOLEAN, paid : Nat, balance : Nat]
PayRow == [inv : Inv, amount : Amounts, key : Key, status : PayStatus,
           pdc : PdcStatus \cup {None}]
NoteRow == [status : NoteStatus, amount : Amounts, inv : Inv \cup {None}]
Request == [op : {"submit", "resolve", "approve"}, inv : Inv]

ASSUME NoneAssumption ==
    None \notin InvRow \cup PayRow \cup NoteRow \cup Request \cup Pay \cup PdcStatus

Init ==
    /\ inv = [i \in Inv |-> None]
    /\ pay = [p \in Pay |-> None]
    /\ key = [k \in Key |-> None]
    /\ expired = {}
    /\ expiries = [k \in Key |-> 0]
    /\ note = [n \in Note |-> None]
    /\ items \in [Inv -> ItemLists]
    /\ accepted = [l \in OrderLine |-> 0] /\ most = accepted /\ agrees = TRUE
    /\ txn = [t \in Txn |-> None]

-----------------------------------------------------------------------------
(* The invoice and its three-way match.                                    *)

\* POST /supplier-invoices.
CreateInvoice(i) ==
    /\ inv[i] = None
    /\ inv' = [inv EXCEPT ![i] =
         [status |-> "RECEIVED", match |-> "NOT_CHECKED", approved |-> FALSE,
          resolved |-> FALSE, paid |-> 0, balance |-> Total[i]]]
    /\ UNCHANGED <<money, goods, txn>>

\* Goods of a line are accepted; inspections that overlap, and the cancellation
\* of a receipt under inspection, may take back what was.
Accept(l, n) ==
    /\ accepted' = [accepted EXCEPT ![l] = n]
    /\ most' = [most EXCEPT ![l] = IF n > @ THEN n ELSE @]
    /\ UNCHANGED <<inv, money, items, agrees, txn>>

\* The order is amended.
Amend ==
    /\ agrees' = ~agrees
    /\ UNCHANGED <<inv, money, items, accepted, most, txn>>

\* Faulty: what has not been received is not asked for.
MatchItemUnreceived(item) ==
    IF item.line = None THEN "UNRECEIVED_ITEMS"
    ELSE IF item.qty > accepted[item.line] /\ accepted[item.line] > 0 THEN "FAILED_QTY"
    ELSE IF ~agrees THEN "FAILED_PRICE"
    ELSE "PASSED"

\* _match_item: each item is compared with all that is accepted of its line.
MatchItem(item) ==
    IF item.line = None \/ accepted[item.line] = 0 THEN "UNRECEIVED_ITEMS"
    ELSE IF item.qty > accepted[item.line] THEN "FAILED_QTY"
    ELSE IF ~agrees THEN "FAILED_PRICE"
    ELSE "PASSED"

\* The statuses from which a request is accepted; none of them is locked.
Accepts(op, i) ==
    \/ op = "submit" /\ inv[i].status \in {"RECEIVED", "DISCREPANCY"}
    \/ op = "resolve" /\ inv[i].status = "DISCREPANCY"
    \/ op = "approve" /\ inv[i].status = "MATCHED" /\ inv[i].match = "PASSED"

Read(t, op, i) ==
    /\ txn[t] = None
    /\ inv[i] # None /\ Accepts(op, i)
    /\ txn' = [txn EXCEPT ![t] = [op |-> op, inv |-> i]]
    /\ UNCHANGED <<inv, money, goods>>

\* The last item that fails decides, in an order the query leaves open; an
\* invoice without items passes.
Results(list) ==
    LET failed == {MatchItem(list[k]) : k \in DOMAIN list} \ {"PASSED"}
    IN  IF failed = {} THEN {"PASSED"} ELSE failed

\* submit_matching, whose PENDING_MATCHING is never committed, but locks the
\* row before the items are matched.
SubmitMatching(t) ==
    /\ txn[t] # None /\ txn[t].op = "submit"
    /\ LET i == txn[t].inv
       IN  \E result \in Results(items[i]) :
             inv' = [inv EXCEPT ![i] = [@ EXCEPT !.match = result,
               !.status = IF result = "PASSED" THEN "MATCHED" ELSE "DISCREPANCY"]]
    /\ txn' = [txn EXCEPT ![t] = None]
    /\ UNCHANGED <<money, goods>>

\* resolve_discrepancy and approve_invoice.
Approve(t) ==
    /\ txn[t] # None /\ txn[t].op \in {"resolve", "approve"}
    /\ LET i == txn[t].inv
           resolved == inv[i].resolved \/ txn[t].op = "resolve"
       IN  inv' = [inv EXCEPT ![i] =
             [@ EXCEPT !.status = "APPROVED", !.approved = TRUE, !.resolved = resolved]]
    /\ txn' = [txn EXCEPT ![t] = None]
    /\ UNCHANGED <<money, goods>>

\* A lost client, a crash.
Abort(t) ==
    /\ txn[t] # None
    /\ txn' = [txn EXCEPT ![t] = None]
    /\ UNCHANGED <<inv, money, goods>>

-----------------------------------------------------------------------------
(* Payments.                                                               *)

Monus(a, b) == IF a > b THEN a - b ELSE 0

\* _settle_invoice.
Settled(row, a) ==
    LET left == Monus(row.balance, a)
    IN  [row EXCEPT !.paid = @ + a,
                    !.balance = left,
                    !.status = IF left = 0 THEN "PAID"
                               ELSE IF @ = "APPROVED" THEN "PARTIALLY_PAID" ELSE @]

\* _reverse_settlement.
Reversed(row, a) ==
    [row EXCEPT !.paid = @ - a,
                !.balance = @ + a,
                !.status = IF @ \in {"PAID", "PARTIALLY_PAID"}
                           THEN IF row.paid = a THEN "APPROVED" ELSE "PARTIALLY_PAID"
                           ELSE @]

\* Faulty: a known key does not keep a payment from being recorded.
RecordPaymentAgain(i, k, a, method, p) ==
    /\ inv[i] # None /\ pay[p] = None
    /\ inv[i].status \in PAYABLE_STATUSES
    /\ a <= inv[i].balance
    /\ pay' = [pay EXCEPT ![p] =
         [inv |-> i, amount |-> a, key |-> k,
          status |-> IF method = "PDC" THEN "PENDING" ELSE "SUCCESS",
          pdc |-> IF method = "PDC" THEN "RECEIVED" ELSE None]]
    /\ key' = [key EXCEPT ![k] = p] /\ expired' = expired \ {k}
    /\ inv' = IF method = "PDC" THEN inv ELSE [inv EXCEPT ![i] = Settled(@, a)]
    /\ UNCHANGED <<expiries, note, goods, txn>>

\* record_payment.  An unexpired key returns the payment it names and changes
\* nothing; two requests with one key conflict when they insert it.
RecordPayment(i, k, a, method, p) ==
    /\ inv[i] # None /\ pay[p] = None
    /\ key[k] = None \/ k \in expired
    /\ inv[i].status \in PAYABLE_STATUSES
    /\ a <= inv[i].balance
    /\ pay' = [pay EXCEPT ![p] =
         [inv |-> i, amount |-> a, key |-> k,
          status |-> IF method = "PDC" THEN "PENDING" ELSE "SUCCESS",
          pdc |-> IF method = "PDC" THEN "RECEIVED" ELSE None]]
    /\ key' = [key EXCEPT ![k] = p] /\ expired' = expired \ {k}
    /\ inv' = IF method = "PDC" THEN inv ELSE [inv EXCEPT ![i] = Settled(@, a)]
    /\ UNCHANGED <<expiries, note, goods, txn>>

ExpireKey(k) ==
    /\ key[k] # None /\ k \notin expired /\ expiries[k] < MaxExpiries
    /\ expired' = expired \cup {k}
    /\ expiries' = [expiries EXCEPT ![k] = @ + 1]
    /\ UNCHANGED <<inv, pay, key, note, goods, txn>>

\* A cheque moves on, without an effect on the invoice: deposit (on or after
\* its date), return, bounce.
MovePdc(p, from, pdc, status) ==
    /\ pay[p] # None /\ pay[p].pdc = from /\ pay[p].status = "PENDING"
    /\ pay' = [pay EXCEPT ![p] = [@ EXCEPT !.pdc = pdc, !.status = status]]
    /\ UNCHANGED <<inv, key, expired, expiries, note, goods, txn>>

DepositPdc(p) == MovePdc(p, "RECEIVED", "DEPOSITED", "PENDING")

ReturnPdc(p) == MovePdc(p, "RECEIVED", "RETURNED", "CANCELLED")
BouncePdc(p) == MovePdc(p, "DEPOSITED", "BOUNCED", "FAILED")

\* Faulty: a cheque clears whatever is left to pay.
ClearPdcUnchecked(p) ==
    /\ pay[p] # None /\ pay[p].pdc = "DEPOSITED"
    /\ pay' = [pay EXCEPT ![p] = [@ EXCEPT !.pdc = "CLEARED", !.status = "SUCCESS"]]
    /\ inv' = [inv EXCEPT ![pay[p].inv] = Settled(@, pay[p].amount)]
    /\ UNCHANGED <<key, expired, expiries, note, goods, txn>>

\* The balance is checked again, the invoice's status is not.
ClearPdc(p) ==
    /\ pay[p] # None /\ pay[p].pdc = "DEPOSITED"
    /\ pay[p].amount <= inv[pay[p].inv].balance
    /\ pay' = [pay EXCEPT ![p] = [@ EXCEPT !.pdc = "CLEARED", !.status = "SUCCESS"]]
    /\ inv' = [inv EXCEPT ![pay[p].inv] = Settled(@, pay[p].amount)]
    /\ UNCHANGED <<key, expired, expiries, note, goods, txn>>

\* Faulty: a reversed payment can be reversed again.
ReversePaymentTwice(p) ==
    /\ pay[p] # None /\ pay[p].pdc = None
    /\ LET i == pay[p].inv
       IN  /\ inv[i].status \in REVERSIBLE_INVOICE_STATUSES
           /\ pay[p].amount <= inv[i].paid
           /\ inv' = [inv EXCEPT ![i] = Reversed(@, pay[p].amount)]
    /\ pay' = [pay EXCEPT ![p].status = "FAILED"]
    /\ UNCHANGED <<key, expired, expiries, note, goods, txn>>

\* reverse_payment; a second reversal answers with the first.
ReversePayment(p) ==
    /\ pay[p] # None /\ pay[p].pdc = None /\ pay[p].status = "SUCCESS"
    /\ LET i == pay[p].inv
       IN  /\ inv[i].status \in REVERSIBLE_INVOICE_STATUSES
           /\ pay[p].amount <= inv[i].paid
           /\ inv' = [inv EXCEPT ![i] = Reversed(@, pay[p].amount)]
    /\ pay' = [pay EXCEPT ![p].status = "FAILED"]
    /\ UNCHANGED <<key, expired, expiries, note, goods, txn>>

-----------------------------------------------------------------------------
(* Supplier debit notes.                                                   *)

\* A note made by hand is a DRAFT, the one a purchase return makes is ISSUED.
CreateNote(n, a, status) ==
    /\ note[n] = None
    /\ note' = [note EXCEPT ![n] = [status |-> status, amount |-> a, inv |-> None]]
    /\ UNCHANGED <<inv, pay, key, expired, expiries, goods, txn>>

EndNote(n, from, to) ==
    /\ note[n] # None /\ note[n].status \in from
    /\ note' = [note EXCEPT ![n].status = to]
    /\ UNCHANGED <<inv, pay, key, expired, expiries, goods, txn>>

IssueNote(n) == EndNote(n, {"DRAFT"}, "ISSUED")
CancelNote(n) == EndNote(n, {"DRAFT", "ISSUED"}, "CANCELLED")

\* apply: the status of the invoice stays, even when nothing is left to pay.
ApplyNote(n, i) ==
    /\ note[n] # None /\ note[n].status = "ISSUED"
    /\ inv[i] # None /\ inv[i].status \in PAYABLE_STATUSES
    /\ note[n].amount <= inv[i].balance
    /\ inv' = [inv EXCEPT ![i].balance = @ - note[n].amount]
    /\ note' = [note EXCEPT ![n] = [@ EXCEPT !.status = "APPLIED", !.inv = i]]
    /\ UNCHANGED <<pay, key, expired, expiries, goods, txn>>

-----------------------------------------------------------------------------

InvoiceRequests(t) ==
    \/ \E op \in {"submit", "resolve", "approve"}, i \in Inv : Read(t, op, i)
    \/ SubmitMatching(t) \/ Approve(t)

PaymentRequests(p) ==
    DepositPdc(p) \/ ReturnPdc(p) \/ BouncePdc(p) \/ ClearPdc(p) \/ ReversePayment(p)

NoteRequests(n) ==
    \/ \E a \in Amounts, s \in {"DRAFT", "ISSUED"} : CreateNote(n, a, s)
    \/ IssueNote(n) \/ CancelNote(n)
    \/ \E i \in Inv : ApplyNote(n, i)

Next ==
    \/ \E l \in OrderLine, n \in 0..MaxAccepted : Accept(l, n)
    \/ Amend
    \/ \E t \in Txn : InvoiceRequests(t) \/ Abort(t)
    \/ \E i \in Inv, k \in Key, a \in Amounts, m \in {"PDC", "CHEQUE"}, p \in Pay :
         RecordPayment(i, k, a, m, p)
    \/ \E k \in Key : ExpireKey(k)
    \/ \E p \in Pay : PaymentRequests(p)
    \/ \E n \in Note : NoteRequests(n)
    \/ \E i \in Inv : CreateInvoice(i)

Spec == Init /\ [][Next]_vars

-----------------------------------------------------------------------------
(* Properties.                                                             *)

TypeOK ==
    /\ inv \in [Inv -> InvRow \cup {None}]
    /\ pay \in [Pay -> PayRow \cup {None}]
    /\ key \in [Key -> Pay \cup {None}]
    /\ expired \subseteq Key
    /\ expiries \in [Key -> 0..MaxExpiries]
    /\ note \in [Note -> NoteRow \cup {None}]
    /\ items \in [Inv -> ItemLists]
    /\ accepted \in [OrderLine -> Nat] /\ most \in [OrderLine -> 0..MaxAccepted]
    /\ \A l \in OrderLine : accepted[l] <= most[l]
    /\ agrees \in BOOLEAN
    /\ txn \in [Txn -> Request \cup {None}]

\* The payments that stand, the notes that are applied, those of one invoice.
Successful == {p \in Pay : pay[p] # None /\ pay[p].status = "SUCCESS"}
Applied == {n \in Note : note[n] # None /\ note[n].status = "APPLIED"}
PaymentsOf(i) == {p \in Successful : pay[p].inv = i}
PaymentsFor(k) == {p \in Pay : pay[p] # None /\ pay[p].key = k}

\* amount_paid is the sum of the SUCCESS payments, cleared cheques included
\* ("amount_paid is exactly Σ SUCCESS payment amounts",
\* wave-ap-payment-reversal-addendum.md:46).
PaidIsSuccessful ==
    \A i \in Inv : inv[i] # None =>
        inv[i].paid = SumFunction([p \in PaymentsOf(i) |-> pay[p].amount])

\* Payments, cheques, reversals and debit notes settle the invoices as
\* Settlement says: one at a time, never beyond what is owed, each once.
Entries ==
    {[id |-> p, bill |-> pay[p].inv, amount |-> pay[p].amount] : p \in Successful}
      \cup {[id |-> n, bill |-> note[n].inv, amount |-> note[n].amount] : n \in Applied}
Undone == {p \in Pay : pay[p] # None /\ pay[p].pdc = None /\ pay[p].status = "FAILED"}
Owed == [i \in Inv |-> IF inv[i] = None THEN Total[i] ELSE inv[i].balance]
Bills == INSTANCE Settlement WITH
    Bill <- Inv, Entry <- Pay \cup Note,
    owed <- Owed,
    stands <- Entries, undone <- Undone
SettledAsPromised == Bills!Spec

\* A key stands for one payment as long as its row has not expired, however
\* often and for whichever invoice it is sent.
OncePerKey ==
    \A k \in Key : Cardinality(PaymentsFor(k)) <= 1 + expiries[k]

\* Every item of a list names a line of which a table has as much.
Within(list, table) ==
    \A k \in DOMAIN list : list[k].line # None /\ list[k].qty <= table[list[k].line]

\* Nothing is paid or offset before an approval, and what is approved without
\* a resolved discrepancy bills, item by item, no more than was accepted of
\* the item's line at some time (D-29, supplier-invoice-architecture.md:151).
\* It says nothing of the total, nor of the items of one line together.
PaidOnlyReceived ==
    \A i \in Inv : inv[i] # None =>
        /\ PaymentsOf(i) # {} \/ (\E n \in Applied : note[n].inv = i) => inv[i].approved
        /\ inv[i].approved /\ ~inv[i].resolved => Within(items[i], most)

\* An invoice that reads PAID has nothing left to pay.
PaidOwesNothing ==
    \A i \in Inv : inv[i] # None /\ inv[i].status = "PAID" => inv[i].balance = 0

\* Rows have their types; the amount paid is that of the payments that stand,
\* and PAID means that nothing is left.
PaidAddsUp == TypeOK /\ PaidIsSuccessful /\ PaidOwesNothing

\* The items of one line on all invoices approved without a resolved
\* discrepancy bill no more of it than was ever accepted ("Invoice matching
\* must be line-level and cumulative", supplier-invoice-architecture.md:31).
Released == {i \in Inv : inv[i] # None /\ inv[i].approved /\ ~inv[i].resolved}
Billing(l) ==
    {x \in UNION {{i} \X DOMAIN items[i] : i \in Released} : items[x[1]][x[2]].line = l}
CumulativeMatch ==
    \A l \in OrderLine : SumFunction([x \in Billing(l) |-> items[x[1]][x[2]].qty]) <= most[l]

\* An approved invoice does not go back to matching (state list of
\* wave-ap-payments-addendum.md:19).
ApprovalStands ==
    [][\A i \in Inv : inv[i] # None /\ inv[i].status \in REVERSIBLE_INVOICE_STATUSES =>
          inv'[i].status \in REVERSIBLE_INVOICE_STATUSES]_vars

=============================================================================
