--------------------------- MODULE Payables_proof ---------------------------
(***************************************************************************)
(* What is bought is paid for, what is sold is invoiced once.              *)
(*                                                                         *)
(* Supplier payments (Payables), for every set of invoices, keys and       *)
(* requests, every finite set of payments and all totals and amounts: what *)
(* is paid adds up, is due and is approved, and settles the invoices as    *)
(* Settlement promises.                                                    *)
(*                                                                         *)
(* The product master and the documents of sales (Catalogue, Sales), for   *)
(* finitely many categories, requests and invoices, any number of other    *)
(* rows and all factors, prices, quantities and discounts: the master data *)
(* stays sound, a quotation becomes one document and stays answered, and   *)
(* the slices of an LPO add up to it.                                      *)
(***************************************************************************)
EXTENDS Payables, Sales, SumTheorems

\* Payments and notes are made out to invoices that exist; a cheque that has
\* not cleared does not count, one that is no cheque counts until it is
\* reversed.
RowsFit ==
    /\ \A p \in Pay : pay[p] # None =>
         /\ inv[pay[p].inv] # None
         /\ pay[p].pdc \in {"RECEIVED", "DEPOSITED"} => pay[p].status = "PENDING"
         /\ pay[p].pdc = None => pay[p].status \in {"SUCCESS", "FAILED"}
    /\ \A n \in Applied : note[n].inv \in Inv /\ inv[note[n].inv] # None

\* A key whose row has not expired names one payment that no expiry accounts
\* for, any other key none.
KeyInUse(k) == key[k] # None /\ k \notin expired
KeysCount ==
    \A k \in Key : Cardinality(PaymentsFor(k))
                     <= expiries[k] + (IF KeyInUse(k) THEN 1 ELSE 0)

\* What an open request read is there, and still enough to approve.
RequestsFit ==
    \A t \in Txn : txn[t] # None =>
        /\ inv[txn[t].inv] # None
        /\ txn[t].op = "approve" => Within(items[txn[t].inv], most)

\* An invoice that can be paid has been approved, and so has one with a
\* payment or a note; a match that PASSED stays right, and so does an approval.
ApprovedFirst ==
    /\ \A i \in Inv : inv[i] # None =>
         /\ inv[i].status \in REVERSIBLE_INVOICE_STATUSES => inv[i].approved
         /\ inv[i].match = "PASSED" => Within(items[i], most)
         /\ inv[i].approved /\ ~inv[i].resolved => Within(items[i], most)
    /\ \A p \in Pay : pay[p] # None => inv[pay[p].inv].approved
    /\ \A n \in Applied : inv[note[n].inv].approved

IInv ==
    /\ TypeOK
    /\ RowsFit
    /\ KeysCount
    /\ RequestsFit
    /\ ApprovedFirst
    /\ PaidIsSuccessful
    /\ PaidOwesNothing

USE TotalAssumption, AmountsAssumption, BoundsAssumption, RowsAssumption, NoneAssumption
USE DEF goods

-----------------------------------------------------------------------------
(* Rows.                                                                   *)

\* A row that is there has its fields.
LEMMA RowTypes ==
  ASSUME TypeOK
  PROVE  /\ \A i \in Inv : inv[i] # None => inv[i] \in InvRow
         /\ \A p \in Pay : pay[p] # None => pay[p] \in PayRow
         /\ \A n \in Note : note[n] # None => note[n] \in NoteRow
         /\ \A t \in Txn : txn[t] # None => txn[t] \in Request
BY DEF TypeOK

LEMMA AmountTypes == \A a \in Amounts : a \in Nat /\ a \in Int /\ a # 0
OBVIOUS

\* A payment that fits takes its amount from the balance, and nothing is left
\* exactly when the invoice reads PAID.
LEMMA SettledRow ==
  ASSUME NEW row \in InvRow, NEW a \in Amounts, a <= row.balance
  PROVE  /\ Settled(row, a) \in InvRow
         /\ Settled(row, a).balance = row.balance - a
         /\ Settled(row, a).paid = row.paid + a
         /\ Settled(row, a).match = row.match
         /\ Settled(row, a).approved = row.approved
         /\ Settled(row, a).resolved = row.resolved
         /\ Settled(row, a).status = "PAID" /\ row.status # "PAID"
              => Settled(row, a).balance = 0
<1> DEFINE left == Monus(row.balance, a)
           status == IF left = 0 THEN "PAID"
                     ELSE IF row.status = "APPROVED" THEN "PARTIALLY_PAID" ELSE row.status
<1>1. a \in Nat /\ row.balance \in Nat /\ row.paid \in Nat
  BY DEF InvRow
<1>2. left = row.balance - a /\ left \in Nat /\ row.paid + a \in Nat
  BY <1>1 DEF Monus
<1>3. Settled(row, a) = [row EXCEPT !.paid = row.paid + a, !.balance = left, !.status = status]
  BY DEF Settled, InvRow
<1>4. status \in MatchStatuses \cup REVERSIBLE_INVOICE_STATUSES
  BY DEF InvRow, MatchStatuses, REVERSIBLE_INVOICE_STATUSES, PAYABLE_STATUSES
<1>5. status = "PAID" /\ row.status # "PAID" => left = 0
  OBVIOUS
<1> HIDE DEF left, status
<1> QED
  BY <1>1, <1>2, <1>3, <1>4, <1>5 DEF InvRow

\* A reversal gives it back, and the invoice does not read PAID.
LEMMA ReversedRow ==
  ASSUME NEW row \in InvRow, NEW a \in Amounts, a <= row.paid,
         row.status \in REVERSIBLE_INVOICE_STATUSES
  PROVE  /\ Reversed(row, a) \in InvRow
         /\ Reversed(row, a).balance = row.balance + a
         /\ Reversed(row, a).paid = row.paid - a
         /\ Reversed(row, a).match = row.match
         /\ Reversed(row, a).approved = row.approved
         /\ Reversed(row, a).resolved = row.resolved
         /\ Reversed(row, a).status \in PAYABLE_STATUSES
<1> DEFINE status == IF row.status \in {"PAID", "PARTIALLY_PAID"}
                     THEN IF row.paid = a THEN "APPROVED" ELSE "PARTIALLY_PAID"
                     ELSE row.status
<1>1. a \in Nat /\ row.balance \in Nat /\ row.paid \in Nat
  BY DEF InvRow
<1>2. row.paid - a \in Nat /\ row.balance + a \in Nat
  BY <1>1
<1>3. Reversed(row, a) = [row EXCEPT !.paid = row.paid - a, !.balance = row.balance + a,
                                     !.status = status]
  BY DEF Reversed, InvRow
<1>4. status \in PAYABLE_STATUSES
  BY DEF REVERSIBLE_INVOICE_STATUSES, PAYABLE_STATUSES
<1> HIDE DEF status
<1> QED
  BY <1>1, <1>2, <1>3, <1>4 DEF InvRow, REVERSIBLE_INVOICE_STATUSES

-----------------------------------------------------------------------------
(* Sums.                                                                   *)

\* What the payments of a table take from an invoice, and one of them.
SucceededFor(table, i) ==
    {p \in Pay : table[p] # None /\ table[p].status = "SUCCESS" /\ table[p].inv = i}
PaidIn(table, i) == SumFunction([p \in SucceededFor(table, i) |-> table[p].amount])
Takes(table, i, p) == IF p \in SucceededFor(table, i) THEN table[p].amount ELSE 0

LEMMA PaidInOne ==
  ASSUME NEW f \in [Pay -> PayRow \cup {None}], NEW g \in [Pay -> PayRow \cup {None}],
         NEW p \in Pay, \A q \in Pay \ {p} : g[q] = f[q], NEW i
  PROVE  PaidIn(g, i) = PaidIn(f, i) - Takes(f, i, p) + Takes(g, i, p)
<1> DEFINE F == [q \in SucceededFor(f, i) |-> f[q].amount]
           G == [q \in SucceededFor(g, i) |-> g[q].amount]
<1>1. SucceededFor(f, i) \in SUBSET Pay /\ SucceededFor(g, i) \in SUBSET Pay
  BY DEF SucceededFor
<1>2. IsFiniteSet(DOMAIN F) /\ IsFiniteSet(DOMAIN G)
  BY <1>1, FS_Subset
<1>3. (\A q \in DOMAIN F : F[q] \in Int) /\ (\A q \in DOMAIN G : G[q] \in Int)
  <2>1. ASSUME NEW table \in [Pay -> PayRow \cup {None}], NEW q \in SucceededFor(table, i)
        PROVE  table[q].amount \in Int
    <3>1. table[q] \in PayRow
      BY DEF SucceededFor
    <3>2. table[q].amount \in Amounts
      BY <3>1 DEF PayRow
    <3> QED
      BY <3>2, AmountTypes
  <2> QED
    BY <2>1
<1>4. DOMAIN F \ {p} = DOMAIN G \ {p}
  BY DEF SucceededFor
<1>5. \A q \in DOMAIN F \ {p} : G[q] = F[q]
  BY <1>1, <1>4
<1>6. At(F, p) = Takes(f, i, p) /\ At(G, p) = Takes(g, i, p)
  BY DEF At, Takes
<1>7. SumFunction(F) = PaidIn(f, i) /\ SumFunction(G) = PaidIn(g, i)
  BY DEF PaidIn
<1> HIDE DEF F, G
<1>8. SumFunction(G) = SumFunction(F) - At(F, p) + At(G, p)
  BY <1>2, <1>3, <1>4, <1>5, SumDiffers
<1> QED
  BY <1>6, <1>7, <1>8

\* It is the sum in PaidIsSuccessful.
LEMMA PaidIsPaidIn ==
  /\ PaidIsSuccessful <=> \A i \in Inv : inv[i] # None => inv[i].paid = PaidIn(pay, i)
  /\ PaidIsSuccessful' <=> \A i \in Inv : inv'[i] # None => inv'[i].paid = PaidIn(pay', i)
<1>1. \A i : PaymentsOf(i) = SucceededFor(pay, i)
  BY DEF PaymentsOf, Successful, SucceededFor
<1>2. \A i : PaymentsOf(i)' = SucceededFor(pay', i)
  BY DEF PaymentsOf, Successful, SucceededFor
<1> QED
  BY <1>1, <1>2 DEF PaidIsSuccessful, PaidIn

-----------------------------------------------------------------------------
(* The initial states.                                                     *)

LEMMA InitIInv == Init => IInv
<1> SUFFICES ASSUME Init PROVE IInv
  OBVIOUS
<1>1. TypeOK
  BY DEF Init, TypeOK
<1>2. RowsFit /\ RequestsFit /\ ApprovedFirst
  BY DEF Init, RowsFit, RequestsFit, ApprovedFirst, Applied
<1>3. KeysCount
  <2> SUFFICES ASSUME NEW k \in Key
               PROVE  Cardinality(PaymentsFor(k))
                        <= expiries[k] + (IF KeyInUse(k) THEN 1 ELSE 0)
    BY DEF KeysCount
  <2>1. PaymentsFor(k) = {}
    BY DEF Init, PaymentsFor
  <2>2. expiries[k] = 0 /\ ~KeyInUse(k)
    BY DEF Init, KeyInUse
  <2> QED
    BY <2>1, <2>2, FS_EmptySet
<1>4. PaidIsSuccessful /\ PaidOwesNothing
  BY DEF Init, PaidIsSuccessful, PaidOwesNothing
<1> QED
  BY <1>1, <1>2, <1>3, <1>4 DEF IInv

-----------------------------------------------------------------------------
(* The steps: for each action, the parts of IInv it can disturb.           *)

\* A step that leaves the payments, keys and notes as they are.
LEMMA MoneyStays ==
  ASSUME IInv, TypeOK', UNCHANGED money,
         \A i \in Inv : inv[i] # None =>
           /\ inv'[i] # None
           /\ inv'[i].paid = inv[i].paid
           /\ inv[i].approved => inv'[i].approved,
         \A i \in Inv : inv[i] = None /\ inv'[i] # None => inv'[i].paid = 0
  PROVE  /\ RowsFit' /\ KeysCount' /\ PaidIsSuccessful'
         /\ \A p \in Pay : pay'[p] # None => inv'[pay'[p].inv].approved
         /\ \A n \in Applied' : inv'[note'[n].inv].approved
<1>1. Applied' = Applied /\ \A k : PaymentsFor(k)' = PaymentsFor(k) /\ KeyInUse(k)' = KeyInUse(k)
  BY DEF money, Applied, PaymentsFor, KeyInUse
<1>2. \A p \in Pay : pay[p] # None => pay[p].inv \in Inv
  BY DEF IInv, TypeOK, PayRow
<1>3. RowsFit'
  BY <1>1, <1>2 DEF money, IInv, RowsFit
<1>4. KeysCount'
  BY <1>1 DEF money, IInv, KeysCount
<1>5. PaidIsSuccessful'
  <2>1. ASSUME NEW i \in Inv, inv[i] = None PROVE PaidIn(pay, i) = 0
    <3>1. SucceededFor(pay, i) = {}
      BY <2>1 DEF SucceededFor, IInv, RowsFit
    <3> QED
      BY <3>1, SumEmpty DEF PaidIn
  <2>2. pay' = pay
    BY DEF money
  <2> QED
    BY <2>1, <2>2, PaidIsPaidIn DEF IInv
<1>6. \A p \in Pay : pay'[p] # None => inv'[pay'[p].inv].approved
  BY <1>2 DEF money, IInv, RowsFit, ApprovedFirst
<1>7. \A n \in Applied' : inv'[note'[n].inv].approved
  BY <1>1 DEF money, IInv, RowsFit, ApprovedFirst
<1> QED
  BY <1>3, <1>4, <1>5, <1>6, <1>7

LEMMA CreateInvoiceIInv == ASSUME IInv, NEW i \in Inv, CreateInvoice(i) PROVE IInv'
<1> DEFINE row == [status |-> "RECEIVED", match |-> "NOT_CHECKED", approved |-> FALSE,
                   resolved |-> FALSE, paid |-> 0, balance |-> Total[i]]
<1>1. row \in InvRow
  BY DEF InvRow, MatchStatuses, MatchResult
<1>2. inv[i] = None /\ inv' = [inv EXCEPT ![i] = row] /\ UNCHANGED <<money, items, accepted, most, agrees, txn>>
  BY DEF CreateInvoice
<1>3. TypeOK'
  BY <1>1, <1>2 DEF IInv, TypeOK, money
<1>4. inv'[i] = row /\ \A j \in Inv \ {i} : inv'[j] = inv[j]
  BY <1>2 DEF IInv, TypeOK
<1>5. /\ RowsFit' /\ KeysCount' /\ PaidIsSuccessful'
      /\ \A p \in Pay : pay'[p] # None => inv'[pay'[p].inv].approved
      /\ \A n \in Applied' : inv'[note'[n].inv].approved
  BY <1>2, <1>3, <1>4, MoneyStays
<1>6. RequestsFit'
  BY <1>1, <1>2, <1>4, RowTypes DEF IInv, RequestsFit, Request
<1>7. ApprovedFirst'
  BY <1>2, <1>4, <1>5 DEF IInv, ApprovedFirst, REVERSIBLE_INVOICE_STATUSES, PAYABLE_STATUSES
<1>8. PaidOwesNothing'
  BY <1>4 DEF IInv, PaidOwesNothing
<1> QED
  BY <1>3, <1>5, <1>6, <1>7, <1>8 DEF IInv

\* What is accepted may fall, the most that was accepted only grows.
LEMMA AcceptIInv ==
  ASSUME IInv, NEW l \in OrderLine, NEW n \in 0..MaxAccepted, Accept(l, n)
  PROVE  IInv'
<1>1. /\ accepted' = [accepted EXCEPT ![l] = n]
      /\ most' = [most EXCEPT ![l] = IF n > most[l] THEN n ELSE most[l]]
      /\ UNCHANGED <<inv, money, items, agrees, txn>>
      /\ accepted \in [OrderLine -> Nat] /\ most \in [OrderLine -> 0..MaxAccepted]
      /\ \A m \in OrderLine : accepted[m] <= most[m]
  BY DEF Accept, IInv, TypeOK
<1>2. /\ accepted' \in [OrderLine -> Nat] /\ most' \in [OrderLine -> 0..MaxAccepted]
      /\ \A m \in OrderLine : accepted'[m] <= most'[m] /\ most[m] <= most'[m]
  BY <1>1
<1>3. TypeOK'
  BY <1>1, <1>2 DEF IInv, TypeOK, money
<1>4. /\ RowsFit' /\ KeysCount' /\ PaidIsSuccessful'
      /\ \A p \in Pay : pay'[p] # None => inv'[pay'[p].inv].approved
      /\ \A m \in Applied' : inv'[note'[m].inv].approved
  BY <1>1, <1>3, MoneyStays
<1>5. ASSUME NEW i \in Inv, Within(items[i], most) PROVE Within(items'[i], most')
  <2>1. items'[i] = items[i] /\ items[i] \in ItemLists
    BY <1>1 DEF IInv, TypeOK
  <2>2. ASSUME NEW k \in DOMAIN items[i]
        PROVE  items[i][k].line # None /\ items[i][k].qty <= most'[items[i][k].line]
    <3>1. items[i][k] \in Item /\ items[i][k].line # None
          /\ items[i][k].qty <= most[items[i][k].line]
      BY <1>5, <2>1, <2>2, ItemsAssumption DEF Within
    <3>2. items[i][k].line \in OrderLine /\ items[i][k].qty \in Nat
      BY <3>1 DEF Item
    <3> QED
      BY <1>1, <1>2, <3>1, <3>2
  <2> QED
    BY <2>1, <2>2 DEF Within
<1>6. RequestsFit'
  BY <1>1, <1>5 DEF IInv, RequestsFit, TypeOK, Request
<1>7. ApprovedFirst'
  BY <1>1, <1>4, <1>5 DEF IInv, ApprovedFirst
<1>8. PaidOwesNothing'
  BY <1>1 DEF IInv, PaidOwesNothing
<1> QED
  BY <1>3, <1>4, <1>6, <1>7, <1>8 DEF IInv

\* A first read and an abandoned request change no row.
LEMMA QuietIInv ==
  ASSUME IInv, UNCHANGED <<inv, money, items, accepted, most>>, agrees' \in BOOLEAN,
         NEW t \in Txn, NEW request \in Request \cup {None},
         txn' = [txn EXCEPT ![t] = request],
         request # None => /\ inv[request.inv] # None
                           /\ request.op = "approve" => Within(items[request.inv], most)
  PROVE  IInv'
<1>1. TypeOK'
  BY DEF IInv, TypeOK, money
<1>2. /\ RowsFit' /\ KeysCount' /\ PaidIsSuccessful'
      /\ \A p \in Pay : pay'[p] # None => inv'[pay'[p].inv].approved
      /\ \A n \in Applied' : inv'[note'[n].inv].approved
  BY <1>1, MoneyStays
<1>3. RequestsFit'
  BY DEF IInv, RequestsFit, TypeOK
<1>4. ApprovedFirst' /\ PaidOwesNothing'
  BY <1>2 DEF IInv, ApprovedFirst, PaidOwesNothing
<1> QED
  BY <1>1, <1>2, <1>3, <1>4 DEF IInv

LEMMA AmendIInv == ASSUME IInv, Amend PROVE IInv'
<1>1. TypeOK'
  BY DEF IInv, TypeOK, Amend, money
<1>2. UNCHANGED <<inv, money, items, accepted, most, txn>>
  BY DEF Amend
<1>3. /\ RowsFit' /\ KeysCount' /\ PaidIsSuccessful'
      /\ \A p \in Pay : pay'[p] # None => inv'[pay'[p].inv].approved
      /\ \A n \in Applied' : inv'[note'[n].inv].approved
  BY <1>1, <1>2, MoneyStays
<1>4. RequestsFit' /\ ApprovedFirst' /\ PaidOwesNothing'
  BY <1>2, <1>3 DEF IInv, RequestsFit, ApprovedFirst, PaidOwesNothing
<1> QED
  BY <1>1, <1>3, <1>4 DEF IInv

\* A request is only read as one to approve when its invoice PASSED.
LEMMA ReadIInv ==
  ASSUME IInv, NEW t \in Txn, NEW op \in {"submit", "resolve", "approve"}, NEW i \in Inv,
         Read(t, op, i)
  PROVE  IInv'
<1> DEFINE request == [op |-> op, inv |-> i]
<1>1. request \in Request /\ request.inv = i /\ request.op = op
  BY DEF Request
<1>2. inv[i] # None /\ op = "approve" => Within(items[i], most)
  BY DEF Read, Accepts, IInv, ApprovedFirst
<1>3. inv[i] # None /\ txn' = [txn EXCEPT ![t] = request]
      /\ UNCHANGED <<inv, money, items, accepted, most, agrees>>
  BY DEF Read
<1>4. agrees' \in BOOLEAN
  BY <1>3 DEF IInv, TypeOK
<1> HIDE DEF request
<1> QED
  BY <1>1, <1>2, <1>3, <1>4, QuietIInv

LEMMA AbortIInv == ASSUME IInv, NEW t \in Txn, Abort(t) PROVE IInv'
<1>1. txn' = [txn EXCEPT ![t] = None] /\ UNCHANGED <<inv, money, items, accepted, most, agrees>>
  BY DEF Abort
<1>2. agrees' \in BOOLEAN
  BY <1>1 DEF IInv, TypeOK
<1> QED
  BY <1>1, <1>2, QuietIInv

\* What passes bills no more than is accepted.
LEMMA ResultsAre ==
  ASSUME TypeOK, NEW list \in ItemLists, NEW result \in Results(list)
  PROVE  result \in MatchResult /\ (result = "PASSED" => Within(list, most))
<1>1. ASSUME NEW k \in DOMAIN list
      PROVE  /\ MatchItem(list[k]) \in MatchResult
             /\ MatchItem(list[k]) = "PASSED" =>
                  list[k].line # None /\ list[k].qty <= most[list[k].line]
  <2>1. list[k].line \in OrderLine \cup {None} /\ list[k].qty \in Nat
    BY ItemsAssumption DEF Item
  <2>2. ASSUME list[k].line # None
        PROVE  /\ accepted[list[k].line] \in Nat /\ most[list[k].line] \in Nat
               /\ accepted[list[k].line] <= most[list[k].line]
    BY <2>1, <2>2 DEF TypeOK
  <2> QED
    BY <2>1, <2>2 DEF MatchItem, MatchResult
<1>2. \/ result = "PASSED" /\ \A k \in DOMAIN list : MatchItem(list[k]) = "PASSED"
      \/ result # "PASSED" /\ \E k \in DOMAIN list : result = MatchItem(list[k])
  BY DEF Results
<1> QED
  BY <1>1, <1>2 DEF Within, MatchResult

\* The match of an invoice is that of the moment, its amounts stay.
LEMMA SubmitMatchingIInv == ASSUME IInv, NEW t \in Txn, SubmitMatching(t) PROVE IInv'
<1> DEFINE i == txn[t].inv
<1>0. PICK result \in Results(items[i]) :
        inv' = [inv EXCEPT ![i] = [inv[i] EXCEPT !.match = result,
                  !.status = IF result = "PASSED" THEN "MATCHED" ELSE "DISCREPANCY"]]
  BY DEF SubmitMatching, IInv, TypeOK
<1> DEFINE status == IF result = "PASSED" THEN "MATCHED" ELSE "DISCREPANCY"
           row == [inv[i] EXCEPT !.match = result, !.status = status]
<1>1. i \in Inv /\ inv[i] # None /\ inv[i] \in InvRow /\ None \notin InvRow
  BY RowTypes DEF SubmitMatching, IInv, RequestsFit, Request
<1>2. result \in MatchResult /\ (result = "PASSED" => Within(items[i], most))
  BY <1>0, <1>1, ResultsAre DEF IInv, TypeOK
<1>3. /\ inv' = [inv EXCEPT ![i] = row] /\ txn' = [txn EXCEPT ![t] = None]
      /\ UNCHANGED <<money, items, accepted, most, agrees>>
  BY <1>0 DEF SubmitMatching
<1>4. status \in {"MATCHED", "DISCREPANCY"}
  OBVIOUS
<1>5. /\ row \in InvRow /\ row.match = result /\ row.status = status
      /\ row.approved = inv[i].approved /\ row.resolved = inv[i].resolved
      /\ row.paid = inv[i].paid /\ row.balance = inv[i].balance
  <2> HIDE DEF status, i
  <2> QED
    BY <1>1, <1>2, <1>4 DEF InvRow, MatchStatuses
<1> HIDE DEF i, status, row
<1>6. TypeOK'
  BY <1>1, <1>3, <1>5 DEF IInv, TypeOK, money
<1>7. inv'[i] = row /\ \A j \in Inv \ {i} : inv'[j] = inv[j]
  BY <1>1, <1>3 DEF IInv, TypeOK
<1>8. /\ RowsFit' /\ KeysCount' /\ PaidIsSuccessful'
      /\ \A p \in Pay : pay'[p] # None => inv'[pay'[p].inv].approved
      /\ \A n \in Applied' : inv'[note'[n].inv].approved
  BY <1>1, <1>3, <1>5, <1>6, <1>7, MoneyStays
<1>9. RequestsFit'
  BY <1>1, <1>3, <1>5, <1>7, RowTypes DEF IInv, RequestsFit, TypeOK, Request
<1>10. ApprovedFirst'
  <2>1. ASSUME NEW j \in Inv, inv'[j] # None
        PROVE  /\ inv'[j].status \in REVERSIBLE_INVOICE_STATUSES => inv'[j].approved
               /\ inv'[j].match = "PASSED" => Within(items'[j], most')
               /\ inv'[j].approved /\ ~inv'[j].resolved => Within(items'[j], most')
    BY <1>1, <1>2, <1>3, <1>4, <1>5, <1>7, <2>1
       DEF IInv, ApprovedFirst, REVERSIBLE_INVOICE_STATUSES, PAYABLE_STATUSES
  <2> QED
    BY <1>8, <2>1 DEF ApprovedFirst
<1>11. PaidOwesNothing'
  BY <1>1, <1>4, <1>5, <1>7 DEF IInv, PaidOwesNothing
<1> QED
  BY <1>6, <1>8, <1>9, <1>10, <1>11 DEF IInv

\* An approval after a resolution needs no match; any other was read as PASSED.
LEMMA ApproveIInv == ASSUME IInv, NEW t \in Txn, Approve(t) PROVE IInv'
<1> DEFINE i == txn[t].inv
           resolved == inv[i].resolved \/ txn[t].op = "resolve"
           row == [inv[i] EXCEPT !.status = "APPROVED", !.approved = TRUE,
                                 !.resolved = resolved]
<1>1. i \in Inv /\ inv[i] # None /\ inv[i] \in InvRow /\ None \notin InvRow
  BY RowTypes DEF Approve, IInv, RequestsFit, Request
<1>2. /\ inv' = [inv EXCEPT ![i] = row] /\ txn' = [txn EXCEPT ![t] = None]
      /\ UNCHANGED <<money, items, accepted, most, agrees>>
  BY DEF Approve, IInv, TypeOK
<1>3. /\ row \in InvRow /\ row.status = "APPROVED" /\ row.approved
      /\ row.match = inv[i].match
      /\ row.resolved = resolved
      /\ row.paid = inv[i].paid /\ row.balance = inv[i].balance
  <2>1. resolved \in BOOLEAN
    BY <1>1 DEF InvRow
  <2> HIDE DEF i, resolved
  <2> QED
    BY <1>1, <2>1 DEF InvRow, REVERSIBLE_INVOICE_STATUSES, PAYABLE_STATUSES
<1>4. ~row.resolved => Within(items[i], most)
  BY <1>3 DEF Approve, IInv, RequestsFit
<1> HIDE DEF i, row
<1>6. TypeOK'
  BY <1>1, <1>2, <1>3 DEF IInv, TypeOK, money
<1>7. inv'[i] = row /\ \A j \in Inv \ {i} : inv'[j] = inv[j]
  BY <1>1, <1>2 DEF IInv, TypeOK
<1>8. /\ RowsFit' /\ KeysCount' /\ PaidIsSuccessful'
      /\ \A p \in Pay : pay'[p] # None => inv'[pay'[p].inv].approved
      /\ \A n \in Applied' : inv'[note'[n].inv].approved
  BY <1>1, <1>2, <1>3, <1>6, <1>7, MoneyStays
<1>9. RequestsFit'
  BY <1>1, <1>2, <1>3, <1>7, RowTypes DEF IInv, RequestsFit, TypeOK, Request
<1>10. ApprovedFirst'
  <2>1. ASSUME NEW j \in Inv, inv'[j] # None
        PROVE  /\ inv'[j].status \in REVERSIBLE_INVOICE_STATUSES => inv'[j].approved
               /\ inv'[j].match = "PASSED" => Within(items'[j], most')
               /\ inv'[j].approved /\ ~inv'[j].resolved => Within(items'[j], most')
    BY <1>1, <1>2, <1>3, <1>4, <1>7, <2>1 DEF IInv, ApprovedFirst
  <2> QED
    BY <1>8, <2>1 DEF ApprovedFirst
<1>11. PaidOwesNothing'
  BY <1>1, <1>3, <1>7 DEF IInv, PaidOwesNothing
<1> QED
  BY <1>6, <1>8, <1>9, <1>10, <1>11 DEF IInv

\* A payment row that is new or changes, and the invoice it is made out to: the
\* invoice's amount_paid moves by what the payment takes.
LEMMA PaymentMoves ==
  ASSUME IInv, NEW p \in Pay, NEW new \in PayRow, NEW row \in InvRow, NEW i \in Inv,
         pay' = [pay EXCEPT ![p] = new], inv' = [inv EXCEPT ![i] = row],
         UNCHANGED <<note, items, accepted, most, agrees, txn>>,
         new.inv = i, pay[p] # None => pay[p].inv = i,
         new.pdc \in {"RECEIVED", "DEPOSITED"} => new.status = "PENDING",
         new.pdc = None => new.status \in {"SUCCESS", "FAILED"},
         inv[i] # None, inv[i].approved,
         row.paid = inv[i].paid - Takes(pay, i, p) + Takes(pay', i, p),
         row.match = inv[i].match, row.approved = inv[i].approved,
         row.resolved = inv[i].resolved,
         row.status = "PAID" => row.balance = 0
  PROVE  /\ inv' \in [Inv -> InvRow \cup {None}] /\ pay' \in [Pay -> PayRow \cup {None}]
         /\ RowsFit' /\ RequestsFit' /\ ApprovedFirst'
         /\ PaidIsSuccessful' /\ PaidOwesNothing'
<1>1. inv' \in [Inv -> InvRow \cup {None}] /\ pay' \in [Pay -> PayRow \cup {None}]
  BY DEF IInv, TypeOK
<1>2. inv'[i] = row /\ \A j \in Inv \ {i} : inv'[j] = inv[j]
  BY DEF IInv, TypeOK
<1>3. pay'[p] = new /\ \A q \in Pay \ {p} : pay'[q] = pay[q]
  BY DEF IInv, TypeOK
<1>4. \A j \in Inv : inv[j] # None => inv'[j] # None /\ (inv[j].approved => inv'[j].approved)
  <2>1. row # None /\ row.approved
    OBVIOUS
  <2> QED
    BY <1>2, <2>1
<1>5. \A q \in Pay : pay[q] # None => pay[q].inv \in Inv
  BY DEF IInv, TypeOK, PayRow
<1>6. Applied' = Applied /\ note' = note
  BY DEF Applied
<1>7. RowsFit'
  BY <1>2, <1>3, <1>4, <1>5, <1>6 DEF IInv, RowsFit
<1>8. RequestsFit'
  BY <1>4, RowTypes DEF IInv, RequestsFit, Request
<1>9. ApprovedFirst'
  <2>1. ASSUME NEW j \in Inv, inv'[j] # None
        PROVE  /\ inv'[j].status \in REVERSIBLE_INVOICE_STATUSES => inv'[j].approved
               /\ inv'[j].match = "PASSED" => Within(items'[j], most')
               /\ inv'[j].approved /\ ~inv'[j].resolved => Within(items'[j], most')
    <3>1. CASE j = i
      <4>1. inv'[j] = row /\ row.approved /\ accepted' = accepted
        BY <1>2, <3>1
      <4>2. /\ row.match = "PASSED" => Within(items[j], most)
            /\ row.approved /\ ~row.resolved => Within(items[j], most)
        BY <3>1 DEF IInv, ApprovedFirst
      <4> QED
        BY <4>1, <4>2
    <3>2. CASE j # i
      BY <1>2, <2>1, <3>2 DEF IInv, ApprovedFirst
    <3> QED
      BY <3>1, <3>2
  <2>2. \A q \in Pay : pay'[q] # None => inv'[pay'[q].inv].approved
    BY <1>2, <1>3, <1>4, <1>5 DEF IInv, RowsFit, ApprovedFirst
  <2>3. \A n \in Applied' : inv'[note'[n].inv].approved
    BY <1>4, <1>6 DEF IInv, RowsFit, ApprovedFirst
  <2> QED
    BY <2>1, <2>2, <2>3 DEF ApprovedFirst
<1>10. PaidIsSuccessful'
  <2>1. pay \in [Pay -> PayRow \cup {None}]
    BY DEF IInv, TypeOK
  <2>2. ASSUME NEW j \in Inv
        PROVE  PaidIn(pay', j) = PaidIn(pay, j) - Takes(pay, j, p) + Takes(pay', j, p)
    <3>1. \A q \in Pay \ {p} : pay'[q] = pay[q]
      BY <1>3
    <3>2. pay' \in [Pay -> PayRow \cup {None}]
      BY <1>1
    <3> QED
      BY ONLY <2>1, <3>1, <3>2, PaidInOne, p \in Pay
  <2>3. ASSUME NEW j \in Inv, inv'[j] # None PROVE inv'[j].paid = PaidIn(pay', j)
    <3>1. CASE j = i
      <4>1. inv[i].paid = PaidIn(pay, i)
        BY PaidIsPaidIn DEF IInv
      <4> QED
        BY <1>2, <2>2, <3>1, <4>1
    <3>2. CASE j # i
      <4>1. inv[j].paid = PaidIn(pay, j) /\ inv[j].paid \in Int
        BY <1>2, <2>3, <3>2, RowTypes, PaidIsPaidIn DEF IInv, InvRow
      <4>2. Takes(pay, j, p) = 0 /\ Takes(pay', j, p) = 0
        BY <1>3, <3>2 DEF Takes, SucceededFor
      <4>3. PaidIn(pay', j) = PaidIn(pay, j) - 0 + 0
        BY <2>2, <4>2
      <4> QED
        BY <1>2, <3>2, <4>1, <4>3
    <3> QED
      BY <3>1, <3>2
  <2> QED
    BY <2>3, PaidIsPaidIn
<1>11. PaidOwesNothing'
  BY <1>2 DEF IInv, PaidOwesNothing
<1> QED
  BY <1>1, <1>7, <1>8, <1>9, <1>10, <1>11

\* What one payment takes, before and after its row is written.
LEMMA TakesIs ==
  ASSUME NEW table, NEW p \in Pay, NEW i, table[p] # None => table[p].inv = i
  PROVE  Takes(table, i, p) =
           IF table[p] # None /\ table[p].status = "SUCCESS" THEN table[p].amount ELSE 0
BY DEF Takes, SucceededFor

\* A row that changes and keeps its key leaves the keys' payments the same.
LEMMA KeysStay ==
  ASSUME IInv, NEW p \in Pay, pay[p] # None, NEW new \in PayRow,
         pay' = [pay EXCEPT ![p] = new], new.key = pay[p].key,
         UNCHANGED <<key, expired, expiries>>
  PROVE  KeysCount'
<1>1. new # None
  OBVIOUS
<1>2. pay'[p] = new /\ \A q \in Pay \ {p} : pay'[q] = pay[q]
  BY DEF IInv, TypeOK
<1>3. \A k : PaymentsFor(k)' = PaymentsFor(k) /\ KeyInUse(k)' = KeyInUse(k)
  BY <1>1, <1>2 DEF PaymentsFor, KeyInUse
<1> QED
  BY <1>3 DEF IInv, KeysCount

\* A key takes a payment only when it names none, or its row has expired.
LEMMA RecordPaymentIInv ==
  ASSUME IInv, NEW i \in Inv, NEW k \in Key, NEW a \in Amounts,
         NEW method \in {"PDC", "CHEQUE"}, NEW p \in Pay, RecordPayment(i, k, a, method, p)
  PROVE  IInv'
<1> DEFINE new == [inv |-> i, amount |-> a, key |-> k,
                   status |-> IF method = "PDC" THEN "PENDING" ELSE "SUCCESS",
                   pdc |-> IF method = "PDC" THEN "RECEIVED" ELSE None]
           row == IF method = "PDC" THEN inv[i] ELSE Settled(inv[i], a)
<1>1. new \in PayRow /\ new # None
  BY DEF PayRow, PayStatus, PdcStatus
<1>2. /\ inv[i] # None /\ pay[p] = None
      /\ key[k] = None \/ k \in expired
      /\ inv[i].status \in PAYABLE_STATUSES
      /\ a <= inv[i].balance
      /\ pay' = [pay EXCEPT ![p] = new]
      /\ key' = [key EXCEPT ![k] = p] /\ expired' = expired \ {k}
      /\ UNCHANGED <<expiries, note, items, accepted, most, agrees, txn>>
  BY DEF RecordPayment
<1>3. inv[i] \in InvRow
  BY <1>2, RowTypes DEF IInv
<1>4. inv' = [inv EXCEPT ![i] = row]
  BY DEF RecordPayment, IInv, TypeOK
<1>5. /\ row \in InvRow
      /\ row.paid = inv[i].paid + (IF method = "PDC" THEN 0 ELSE a)
      /\ row.match = inv[i].match /\ row.approved = inv[i].approved
      /\ row.resolved = inv[i].resolved
      /\ row.status = "PAID" => row.balance = 0
  <2>1. inv[i].status # "PAID" /\ inv[i].paid \in Nat
    BY <1>2, <1>3 DEF PAYABLE_STATUSES, InvRow
  <2>2. CASE method = "PDC"
    BY <1>3, <2>1, <2>2
  <2>3. CASE method # "PDC"
    <3>1. row = Settled(inv[i], a)
      BY <2>3
    <3> HIDE DEF row
    <3>2. /\ row \in InvRow /\ row.paid = inv[i].paid + a
          /\ row.match = inv[i].match /\ row.approved = inv[i].approved
          /\ row.resolved = inv[i].resolved /\ row.balance = inv[i].balance - a
          /\ row.status = "PAID" /\ inv[i].status # "PAID" => row.balance = 0
      BY <1>2, <1>3, <3>1, SettledRow
    <3> QED
      BY <2>1, <2>3, <3>2
  <2> QED
    BY <2>2, <2>3
<1>6. pay'[p] = new /\ \A q \in Pay \ {p} : pay'[q] = pay[q]
  BY <1>2 DEF IInv, TypeOK
<1>7. new.inv = i /\ new.key = k /\ new.amount = a
      /\ new.status = (IF method = "PDC" THEN "PENDING" ELSE "SUCCESS")
      /\ new.pdc = (IF method = "PDC" THEN "RECEIVED" ELSE None)
  OBVIOUS
<1> HIDE DEF new, row
<1>8. row.paid = inv[i].paid - Takes(pay, i, p) + Takes(pay', i, p)
  <2>1. Takes(pay, i, p) = 0
    BY <1>2 DEF Takes, SucceededFor
  <2>2. Takes(pay', i, p) = IF method = "PDC" THEN 0 ELSE a
    BY <1>1, <1>6, <1>7 DEF Takes, SucceededFor
  <2>3. inv[i].paid \in Int /\ a \in Int
    BY <1>3, AmountTypes DEF InvRow
  <2> QED
    BY <1>5, <2>1, <2>2, <2>3
<1>9. inv[i].approved
  BY <1>2 DEF IInv, ApprovedFirst, REVERSIBLE_INVOICE_STATUSES
<1>10. /\ new.pdc \in {"RECEIVED", "DEPOSITED"} => new.status = "PENDING"
       /\ new.pdc = None => new.status \in {"SUCCESS", "FAILED"}
  BY <1>7 DEF PdcStatus
<1>11. /\ inv' \in [Inv -> InvRow \cup {None}] /\ pay' \in [Pay -> PayRow \cup {None}]
       /\ RowsFit' /\ RequestsFit' /\ ApprovedFirst'
       /\ PaidIsSuccessful' /\ PaidOwesNothing'
  BY <1>1, <1>2, <1>4, <1>5, <1>7, <1>8, <1>9, <1>10, PaymentMoves
<1>12. TypeOK'
  BY <1>2, <1>11 DEF IInv, TypeOK
<1>13. KeysCount'
  <2> SUFFICES ASSUME NEW c \in Key
               PROVE  Cardinality(PaymentsFor(c)')
                        <= expiries'[c] + (IF KeyInUse(c)' THEN 1 ELSE 0)
    BY DEF KeysCount
  <2>1. /\ Cardinality(PaymentsFor(c))
                <= expiries[c] + (IF KeyInUse(c) THEN 1 ELSE 0)
        /\ expiries' = expiries /\ expiries[c] \in Nat
    BY <1>2 DEF IInv, KeysCount, TypeOK
  <2>2. PaymentsFor(c) \in SUBSET Pay /\ IsFiniteSet(PaymentsFor(c))
    BY FS_Subset DEF PaymentsFor
  <2>3. CASE c = k
    <3>1. PaymentsFor(c)' = PaymentsFor(c) \cup {p} /\ p \notin PaymentsFor(c)
      BY <1>1, <1>2, <1>6, <1>7, <2>3 DEF PaymentsFor
    <3>2. /\ Cardinality(PaymentsFor(c)') = Cardinality(PaymentsFor(c)) + 1
          /\ Cardinality(PaymentsFor(c)) \in Nat
      BY <2>2, <3>1, FS_AddElement, FS_CardinalityType
    <3>3. ~KeyInUse(c) /\ KeyInUse(c)'
      BY <1>2, <2>3 DEF KeyInUse, IInv, TypeOK
    <3> QED
      BY <2>1, <3>2, <3>3
  <2>4. CASE c # k
    <3>1. PaymentsFor(c)' = PaymentsFor(c)
      BY <1>1, <1>2, <1>6, <1>7, <2>4 DEF PaymentsFor
    <3>2. KeyInUse(c)' = KeyInUse(c)
      BY <1>2, <2>4 DEF KeyInUse, IInv, TypeOK
    <3> QED
      BY <2>1, <3>1, <3>2
  <2> QED
    BY <2>3, <2>4
<1> QED
  BY <1>11, <1>12, <1>13 DEF IInv

\* Two payments can stand for one key only after its row has expired.
LEMMA ExpireKeyIInv == ASSUME IInv, NEW k \in Key, ExpireKey(k) PROVE IInv'
<1>1. /\ k \notin expired /\ key[k] # None /\ expiries[k] < MaxExpiries
      /\ expired' = expired \cup {k}
      /\ expiries' = [expiries EXCEPT ![k] = @ + 1]
      /\ UNCHANGED <<inv, pay, key, note, items, accepted, most, agrees, txn>>
  BY DEF ExpireKey
<1>2. TypeOK'
  BY <1>1 DEF IInv, TypeOK
<1>3. Applied' = Applied /\ \A i : PaymentsOf(i)' = PaymentsOf(i)
  BY <1>1 DEF Applied, PaymentsOf, Successful
<1>4. RowsFit' /\ RequestsFit' /\ ApprovedFirst' /\ PaidIsSuccessful' /\ PaidOwesNothing'
  BY <1>1, <1>3 DEF IInv, RowsFit, RequestsFit, ApprovedFirst, PaidIsSuccessful, PaidOwesNothing
<1>5. KeysCount'
  <2> SUFFICES ASSUME NEW c \in Key
               PROVE  Cardinality(PaymentsFor(c)')
                        <= expiries'[c] + (IF KeyInUse(c)' THEN 1 ELSE 0)
    BY DEF KeysCount
  <2>1. Cardinality(PaymentsFor(c)) <= expiries[c] + (IF KeyInUse(c) THEN 1 ELSE 0)
    BY DEF IInv, KeysCount
  <2>2. PaymentsFor(c)' = PaymentsFor(c)
    BY <1>1 DEF PaymentsFor
  <2>3. expiries[c] \in Nat /\ Cardinality(PaymentsFor(c)) \in Nat
    <3>1. PaymentsFor(c) \in SUBSET Pay
      BY DEF PaymentsFor
    <3> QED
      BY <3>1, FS_Subset, FS_CardinalityType DEF IInv, TypeOK
  <2>4. CASE c = k
    <3>1. expiries'[c] = expiries[c] + 1 /\ ~KeyInUse(c)'
      BY <1>1, <2>4 DEF IInv, TypeOK, KeyInUse
    <3> QED
      BY <2>1, <2>2, <2>3, <3>1
  <2>5. CASE c # k
    <3>1. expiries'[c] = expiries[c] /\ KeyInUse(c)' = KeyInUse(c)
      BY <1>1, <2>5 DEF IInv, TypeOK, KeyInUse
    <3> QED
      BY <2>1, <2>2, <3>1
  <2> QED
    BY <2>4, <2>5
<1> QED
  BY <1>2, <1>4, <1>5 DEF IInv

\* A cheque that moves without clearing does not count before or after.
LEMMA MovePdcIInv ==
  ASSUME IInv, NEW p \in Pay, NEW from \in {"RECEIVED", "DEPOSITED"},
         NEW pdc \in PdcStatus, NEW status \in PayStatus \ {"SUCCESS"},
         pdc \in {"RECEIVED", "DEPOSITED"} => status = "PENDING",
         MovePdc(p, from, pdc, status)
  PROVE  IInv'
<1> DEFINE i == pay[p].inv
           new == [pay[p] EXCEPT !.pdc = pdc, !.status = status]
<1>1. /\ pay[p] # None /\ pay[p].status = "PENDING" /\ pay' = [pay EXCEPT ![p] = new]
      /\ UNCHANGED <<inv, key, expired, expiries, note, items, accepted, most, agrees, txn>>
  BY DEF MovePdc, IInv, TypeOK
<1>2. pay[p] \in PayRow /\ i \in Inv /\ inv[i] # None /\ inv[i] \in InvRow
  BY <1>1, RowTypes DEF IInv, RowsFit, PayRow
<1>3. new \in PayRow /\ new.inv = i /\ new.key = pay[p].key /\ new.status = status
      /\ new.pdc = pdc /\ new # None
  BY <1>2 DEF PayRow
<1> HIDE DEF new, i
<1>4. pay'[p] = new
  BY <1>1 DEF IInv, TypeOK
<1>5. Takes(pay, i, p) = 0 /\ Takes(pay', i, p) = 0
  BY <1>1, <1>3, <1>4 DEF Takes, SucceededFor
<1>6. inv[i].paid = inv[i].paid - Takes(pay, i, p) + Takes(pay', i, p)
  BY <1>2, <1>5 DEF InvRow
<1>7. inv' = [inv EXCEPT ![i] = inv[i]]
  BY <1>1 DEF IInv, TypeOK
<1>8. inv[i].approved /\ (inv[i].status = "PAID" => inv[i].balance = 0)
  BY <1>1, <1>2 DEF IInv, ApprovedFirst, PaidOwesNothing, i
<1>9. pay[p].inv = i
  BY DEF i
<1>10. /\ new.pdc \in {"RECEIVED", "DEPOSITED"} => new.status = "PENDING"
       /\ new.pdc # None
  BY <1>3
<1>11. /\ inv' \in [Inv -> InvRow \cup {None}] /\ pay' \in [Pay -> PayRow \cup {None}]
       /\ RowsFit' /\ RequestsFit' /\ ApprovedFirst'
       /\ PaidIsSuccessful' /\ PaidOwesNothing'
  BY <1>1, <1>2, <1>3, <1>6, <1>7, <1>8, <1>9, <1>10, PaymentMoves
<1>12. KeysCount'
  BY <1>1, <1>3, KeysStay
<1>13. TypeOK'
  BY <1>1, <1>11 DEF IInv, TypeOK
<1> QED
  BY <1>11, <1>12, <1>13 DEF IInv

\* A cheque that clears counts from then on, and its invoice has been approved.
LEMMA ClearPdcIInv == ASSUME IInv, NEW p \in Pay, ClearPdc(p) PROVE IInv'
<1> DEFINE i == pay[p].inv
           a == pay[p].amount
           new == [pay[p] EXCEPT !.pdc = "CLEARED", !.status = "SUCCESS"]
           row == Settled(inv[i], a)
<1>1. /\ pay[p] # None /\ pay[p].pdc = "DEPOSITED" /\ a <= inv[i].balance
      /\ pay' = [pay EXCEPT ![p] = new] /\ inv' = [inv EXCEPT ![i] = row]
      /\ UNCHANGED <<key, expired, expiries, note, items, accepted, most, agrees, txn>>
  <2>1. pay[p].inv \in Inv
    BY RowTypes DEF ClearPdc, IInv, PayRow
  <2> QED
    BY <2>1 DEF ClearPdc, IInv, TypeOK
<1>2. pay[p] \in PayRow /\ i \in Inv /\ inv[i] # None /\ inv[i] \in InvRow /\ a \in Amounts
  BY <1>1, RowTypes DEF IInv, RowsFit, PayRow
<1>3. new \in PayRow /\ new.inv = i /\ new.key = pay[p].key /\ new.status = "SUCCESS"
      /\ new.pdc = "CLEARED" /\ new.amount = a /\ new # None
  BY <1>2 DEF PayRow, PdcStatus, PayStatus
<1>4. inv[i].approved /\ (inv[i].status = "PAID" => inv[i].balance = 0)
  BY <1>1, <1>2 DEF IInv, ApprovedFirst, PaidOwesNothing
<1>5. /\ row \in InvRow /\ row.paid = inv[i].paid + a
      /\ row.match = inv[i].match /\ row.approved = inv[i].approved
      /\ row.resolved = inv[i].resolved
      /\ row.status = "PAID" => row.balance = 0
  <2>1. inv[i].status # "PAID"
    BY <1>1, <1>2, <1>4, AmountTypes
  <2> HIDE DEF i, a
  <2> QED
    BY <1>1, <1>2, <2>1, SettledRow
<1>6. pay[p].status = "PENDING"
  BY <1>1 DEF IInv, RowsFit
<1>7. pay[p].inv = i
  OBVIOUS
<1> HIDE DEF new, i, a, row
<1>8. pay'[p] = new
  BY <1>1 DEF IInv, TypeOK
<1>9. row.paid = inv[i].paid - Takes(pay, i, p) + Takes(pay', i, p)
  <2>1. Takes(pay, i, p) = 0 /\ Takes(pay', i, p) = a
    BY <1>3, <1>6, <1>8 DEF Takes, SucceededFor
  <2>2. inv[i].paid \in Int
    BY <1>2 DEF InvRow
  <2>3. a \in Int
    BY <1>2, AmountTypes
  <2> QED
    BY <1>5, <2>1, <2>2, <2>3
<1>10. new.pdc # None /\ new.pdc \notin {"RECEIVED", "DEPOSITED"}
  BY <1>3 DEF PdcStatus
<1>11. /\ inv' \in [Inv -> InvRow \cup {None}] /\ pay' \in [Pay -> PayRow \cup {None}]
       /\ RowsFit' /\ RequestsFit' /\ ApprovedFirst'
       /\ PaidIsSuccessful' /\ PaidOwesNothing'
  BY <1>1, <1>2, <1>3, <1>4, <1>5, <1>7, <1>9, <1>10, PaymentMoves
<1>12. KeysCount'
  BY <1>1, <1>3, KeysStay
<1>13. TypeOK'
  BY <1>1, <1>11 DEF IInv, TypeOK
<1> QED
  BY <1>11, <1>12, <1>13 DEF IInv

\* A reversed payment no longer counts.
LEMMA ReversePaymentIInv == ASSUME IInv, NEW p \in Pay, ReversePayment(p) PROVE IInv'
<1> DEFINE i == pay[p].inv
           a == pay[p].amount
           new == [pay[p] EXCEPT !.status = "FAILED"]
           row == Reversed(inv[i], a)
<1>1. /\ pay[p] # None /\ pay[p].pdc = None /\ pay[p].status = "SUCCESS"
      /\ inv[i].status \in REVERSIBLE_INVOICE_STATUSES /\ a <= inv[i].paid
      /\ pay' = [pay EXCEPT ![p] = new] /\ inv' = [inv EXCEPT ![i] = row]
      /\ UNCHANGED <<key, expired, expiries, note, items, accepted, most, agrees, txn>>
  <2>1. pay[p].inv \in Inv
    BY RowTypes DEF ReversePayment, IInv, PayRow
  <2> QED
    BY <2>1 DEF ReversePayment, IInv, TypeOK
<1>2. pay[p] \in PayRow /\ i \in Inv /\ inv[i] # None /\ inv[i] \in InvRow /\ a \in Amounts
  BY <1>1, RowTypes DEF IInv, RowsFit, PayRow
<1>3. new \in PayRow /\ new.inv = i /\ new.key = pay[p].key /\ new.status = "FAILED"
      /\ new.pdc = None /\ new # None
  BY <1>1, <1>2 DEF PayRow, PdcStatus, PayStatus
<1>4. inv[i].approved
  BY <1>1, <1>2 DEF IInv, ApprovedFirst
<1>5. /\ row \in InvRow /\ row.paid = inv[i].paid - a
      /\ row.match = inv[i].match /\ row.approved = inv[i].approved
      /\ row.resolved = inv[i].resolved /\ row.status # "PAID"
  <2> HIDE DEF i, a
  <2>1. row.status \in PAYABLE_STATUSES
    BY <1>1, <1>2, ReversedRow
  <2> QED
    BY <1>1, <1>2, <2>1, ReversedRow DEF PAYABLE_STATUSES
<1>7. pay[p].inv = i /\ pay[p].amount = a
  OBVIOUS
<1> HIDE DEF new, i, a, row
<1>8. pay'[p] = new
  BY <1>1 DEF IInv, TypeOK
<1>9. row.paid = inv[i].paid - Takes(pay, i, p) + Takes(pay', i, p)
  <2>1. Takes(pay, i, p) = a /\ Takes(pay', i, p) = 0
    BY <1>1, <1>3, <1>7, <1>8 DEF Takes, SucceededFor
  <2>2. inv[i].paid \in Int
    BY <1>2 DEF InvRow
  <2>3. a \in Int
    BY <1>2, AmountTypes
  <2> QED
    BY <1>5, <2>1, <2>2, <2>3
<1>10. new.pdc \notin {"RECEIVED", "DEPOSITED"}
  BY <1>3 DEF PdcStatus
<1>11. /\ inv' \in [Inv -> InvRow \cup {None}] /\ pay' \in [Pay -> PayRow \cup {None}]
       /\ RowsFit' /\ RequestsFit' /\ ApprovedFirst'
       /\ PaidIsSuccessful' /\ PaidOwesNothing'
  BY <1>1, <1>2, <1>3, <1>4, <1>5, <1>7, <1>9, <1>10, PaymentMoves
<1>12. KeysCount'
  BY <1>1, <1>3, KeysStay
<1>13. TypeOK'
  BY <1>1, <1>11 DEF IInv, TypeOK
<1> QED
  BY <1>11, <1>12, <1>13 DEF IInv

\* A note that is not applied, before or after, touches no invoice.
LEMMA NoteIInv ==
  ASSUME IInv, NEW n \in Note, NEW new \in NoteRow, note' = [note EXCEPT ![n] = new],
         note[n] # None => note[n].status # "APPLIED", new.status # "APPLIED",
         UNCHANGED <<inv, pay, key, expired, expiries, items, accepted, most, agrees, txn>>
  PROVE  IInv'
<1>1. TypeOK'
  BY DEF IInv, TypeOK
<1>2. Applied' = Applied /\ \A m \in Applied : note'[m] = note[m]
  BY DEF Applied, IInv, TypeOK
<1>3. RowsFit'
  BY <1>2 DEF IInv, RowsFit
<1>4. KeysCount' /\ PaidIsSuccessful' /\ PaidOwesNothing' /\ RequestsFit'
  <2>1. \A x : PaymentsFor(x)' = PaymentsFor(x) /\ KeyInUse(x)' = KeyInUse(x)
               /\ PaymentsOf(x)' = PaymentsOf(x)
    BY DEF PaymentsFor, KeyInUse, PaymentsOf, Successful
  <2> QED
    BY <2>1 DEF IInv, KeysCount, PaidIsSuccessful, PaidOwesNothing, RequestsFit
<1>5. ApprovedFirst'
  BY <1>2 DEF IInv, ApprovedFirst
<1> QED
  BY <1>1, <1>3, <1>4, <1>5 DEF IInv

LEMMA CreateNoteIInv ==
  ASSUME IInv, NEW n \in Note, NEW a \in Amounts, NEW s \in {"DRAFT", "ISSUED"},
         CreateNote(n, a, s)
  PROVE  IInv'
<1> DEFINE new == [status |-> s, amount |-> a, inv |-> None]
<1>1. new \in NoteRow /\ new.status # "APPLIED"
  BY DEF NoteRow, NoteStatus
<1>2. /\ note' = [note EXCEPT ![n] = new] /\ note[n] = None
      /\ UNCHANGED <<inv, pay, key, expired, expiries, items, accepted, most, agrees, txn>>
  BY DEF CreateNote
<1> HIDE DEF new
<1> QED
  BY <1>1, <1>2, NoteIInv

LEMMA EndNoteIInv ==
  ASSUME IInv, NEW n \in Note, NEW from \in SUBSET {"DRAFT", "ISSUED"},
         NEW to \in {"ISSUED", "CANCELLED"}, EndNote(n, from, to)
  PROVE  IInv'
<1> DEFINE new == [note[n] EXCEPT !.status = to]
<1>1. note[n] # None /\ note[n] \in NoteRow /\ note[n].status # "APPLIED"
  BY RowTypes DEF EndNote, IInv
<1>2. new \in NoteRow /\ new.status # "APPLIED"
  BY <1>1 DEF NoteRow, NoteStatus
<1>3. /\ note' = [note EXCEPT ![n] = new]
      /\ UNCHANGED <<inv, pay, key, expired, expiries, items, accepted, most, agrees, txn>>
  BY DEF EndNote
<1> HIDE DEF new
<1> QED
  BY <1>1, <1>2, <1>3, NoteIInv

\* A note is applied to an invoice that has been approved and takes its amount
\* from the balance only.
LEMMA ApplyNoteIInv == ASSUME IInv, NEW n \in Note, NEW i \in Inv, ApplyNote(n, i) PROVE IInv'
<1> DEFINE a == note[n].amount
           new == [note[n] EXCEPT !.status = "APPLIED", !.inv = i]
           left == inv[i].balance - a
           row == [inv[i] EXCEPT !.balance = left]
<1>1. /\ note[n] # None /\ inv[i] # None /\ inv[i].status \in PAYABLE_STATUSES
      /\ a <= inv[i].balance
      /\ inv' = [inv EXCEPT ![i] = row] /\ note' = [note EXCEPT ![n] = new]
      /\ UNCHANGED <<pay, key, expired, expiries, items, accepted, most, agrees, txn>>
  BY DEF ApplyNote, IInv, TypeOK
<1>2. note[n] \in NoteRow /\ inv[i] \in InvRow
  BY <1>1, RowTypes DEF IInv
<1>3. left \in Nat
  <2>1. inv[i].balance \in Nat
    BY <1>2 DEF InvRow
  <2>2. a \in Nat
    BY <1>2, AmountTypes DEF NoteRow
  <2> HIDE DEF a
  <2> QED
    BY <1>1, <2>1, <2>2
<1>4. new \in NoteRow /\ new.inv = i /\ new # None
  BY <1>2 DEF NoteRow, NoteStatus
<1> HIDE DEF a, new, left
<1>5. /\ row \in InvRow /\ row # None /\ row.status = inv[i].status
      /\ row.paid = inv[i].paid /\ row.match = inv[i].match
      /\ row.approved = inv[i].approved /\ row.resolved = inv[i].resolved
  BY <1>2, <1>3 DEF InvRow
<1> HIDE DEF row
<1>6. inv'[i] = row /\ (\A j \in Inv \ {i} : inv'[j] = inv[j])
      /\ note'[n] = new /\ (\A m \in Note \ {n} : note'[m] = note[m])
  BY <1>1 DEF IInv, TypeOK
<1>7. TypeOK'
  BY <1>1, <1>4, <1>5 DEF IInv, TypeOK
<1>8. Applied' \subseteq Applied \cup {n} /\ \A m \in Applied \ {n} : note'[m] = note[m]
  BY <1>6 DEF Applied
<1>9. \A j \in Inv : inv[j] # None => inv'[j] # None /\ inv'[j].paid = inv[j].paid
  BY <1>5, <1>6
<1>10. \A p \in Pay : pay[p] # None => pay[p].inv \in Inv
  BY DEF IInv, TypeOK, PayRow
<1>11. RowsFit'
  BY <1>1, <1>4, <1>5, <1>6, <1>8, <1>9, <1>10 DEF IInv, RowsFit
<1>12. KeysCount' /\ PaidIsSuccessful'
  <2>1. \A x : PaymentsFor(x)' = PaymentsFor(x) /\ KeyInUse(x)' = KeyInUse(x)
               /\ PaymentsOf(x)' = PaymentsOf(x)
    BY <1>1 DEF PaymentsFor, KeyInUse, PaymentsOf, Successful
  <2>2. KeysCount'
    BY <1>1, <2>1 DEF IInv, KeysCount
  <2>3. \A j \in Inv : inv'[j] # None => inv[j] # None
    BY <1>1, <1>6
  <2>4. PaidIsSuccessful'
    BY <1>1, <1>9, <2>1, <2>3 DEF IInv, PaidIsSuccessful
  <2> QED
    BY <2>2, <2>4
<1>13. RequestsFit'
  BY <1>1, <1>9, RowTypes DEF IInv, RequestsFit, Request
<1>14. inv[i].approved
  BY <1>1 DEF IInv, ApprovedFirst, REVERSIBLE_INVOICE_STATUSES
<1>15. ApprovedFirst'
  <2>1. \A j \in Inv : inv[j] # None /\ inv[j].approved => inv'[j].approved
    BY <1>5, <1>6
  <2>2. ASSUME NEW j \in Inv, inv'[j] # None
        PROVE  /\ inv'[j].status \in REVERSIBLE_INVOICE_STATUSES => inv'[j].approved
               /\ inv'[j].match = "PASSED" => Within(items'[j], most')
               /\ inv'[j].approved /\ ~inv'[j].resolved => Within(items'[j], most')
    BY <1>1, <1>5, <1>6, <2>2 DEF IInv, ApprovedFirst
  <2>3. \A p \in Pay : pay'[p] # None => inv'[pay'[p].inv].approved
    BY <1>1, <1>10, <2>1 DEF IInv, RowsFit, ApprovedFirst
  <2>4. \A m \in Applied' : inv'[note'[m].inv].approved
    BY <1>4, <1>6, <1>8, <1>14, <2>1, <1>1 DEF IInv, RowsFit, ApprovedFirst
  <2> QED
    BY <2>2, <2>3, <2>4 DEF ApprovedFirst
<1>16. PaidOwesNothing'
  BY <1>1, <1>5, <1>6 DEF IInv, PaidOwesNothing, PAYABLE_STATUSES
<1> QED
  BY <1>7, <1>11, <1>12, <1>13, <1>15, <1>16 DEF IInv

-----------------------------------------------------------------------------
(* Every step preserves the invariant.                                     *)

LEMMA StepIInv == IInv /\ [Next]_vars => IInv'
<1> SUFFICES ASSUME IInv, [Next]_vars PROVE IInv'
  OBVIOUS
<1>1. CASE (\E l \in OrderLine, n \in 0..MaxAccepted : Accept(l, n)) \/ Amend
  BY <1>1, AcceptIInv, AmendIInv
<1>2. ASSUME NEW t \in Txn, InvoiceRequests(t) \/ Abort(t) PROVE IInv'
  BY <1>2, ReadIInv, SubmitMatchingIInv, ApproveIInv, AbortIInv DEF InvoiceRequests
<1>3. ASSUME NEW i \in Inv, NEW k \in Key, NEW a \in Amounts,
             NEW m \in {"PDC", "CHEQUE"}, NEW p \in Pay, RecordPayment(i, k, a, m, p)
      PROVE  IInv'
  BY <1>3, RecordPaymentIInv
<1>4. ASSUME NEW k \in Key, ExpireKey(k) PROVE IInv'
  BY <1>4, ExpireKeyIInv
<1>5. ASSUME NEW p \in Pay, PaymentRequests(p) PROVE IInv'
  <2>1. CASE DepositPdc(p)
    BY <2>1, MovePdcIInv DEF DepositPdc, PdcStatus, PayStatus
  <2>2. CASE ReturnPdc(p)
    BY <2>2, MovePdcIInv DEF ReturnPdc, PdcStatus, PayStatus
  <2>3. CASE BouncePdc(p)
    BY <2>3, MovePdcIInv DEF BouncePdc, PdcStatus, PayStatus
  <2>4. CASE ClearPdc(p) \/ ReversePayment(p)
    BY <2>4, ClearPdcIInv, ReversePaymentIInv
  <2> QED
    BY <1>5, <2>1, <2>2, <2>3, <2>4 DEF PaymentRequests
<1>6. ASSUME NEW n \in Note, NoteRequests(n) PROVE IInv'
  <2>1. CASE IssueNote(n) \/ CancelNote(n)
    BY <2>1, EndNoteIInv DEF IssueNote, CancelNote
  <2> QED
    BY <1>6, <2>1, CreateNoteIInv, ApplyNoteIInv DEF NoteRequests
<1>7. ASSUME NEW i \in Inv, CreateInvoice(i) PROVE IInv'
  BY <1>7, CreateInvoiceIInv
<1>8. CASE UNCHANGED vars
  <2>1. UNCHANGED <<inv, pay, key, expired, expiries, note, items, accepted, most, agrees, txn>>
    BY <1>8 DEF vars, money
  <2>2. Applied' = Applied
        /\ \A x : PaymentsFor(x)' = PaymentsFor(x) /\ KeyInUse(x)' = KeyInUse(x)
               /\ PaymentsOf(x)' = PaymentsOf(x)
    BY <2>1 DEF Applied, PaymentsFor, KeyInUse, PaymentsOf, Successful
  <2> QED
    BY <2>1, <2>2 DEF IInv, TypeOK, RowsFit, KeysCount, RequestsFit, ApprovedFirst,
                      PaidIsSuccessful, PaidOwesNothing
<1> QED
  BY <1>1, <1>2, <1>3, <1>4, <1>5, <1>6, <1>7, <1>8 DEF Next

\* The inductive invariant holds in every reachable state.
THEOREM Invariance == Spec => []IInv
<1> QED
  BY InitIInv, StepIInv, PTL DEF Spec

\* Rows keep their types, amount_paid is at all times the sum of the SUCCESS
\* payments, and a PAID invoice has nothing left to pay, whatever the order of
\* payments, cheques, reversals and debit notes.
THEOREM PaymentsAddUp == Spec => []PaidAddsUp
<1>1. IInv => PaidAddsUp
  BY DEF IInv, PaidAddsUp
<1> QED
  BY <1>1, Invariance, PTL

\* A key names one payment for as long as its row has not expired.
THEOREM OnePaymentPerKey == Spec => []OncePerKey
<1>1. IInv => OncePerKey
  <2> SUFFICES ASSUME IInv, NEW k \in Key PROVE Cardinality(PaymentsFor(k)) <= 1 + expiries[k]
    BY DEF OncePerKey
  <2>1. PaymentsFor(k) \in SUBSET Pay
    BY DEF PaymentsFor
  <2>2. Cardinality(PaymentsFor(k)) \in Nat /\ expiries[k] \in Nat
    BY <2>1, FS_Subset, FS_CardinalityType DEF IInv, TypeOK
  <2> QED
    BY <2>2 DEF IInv, KeysCount
<1> QED
  BY <1>1, Invariance, PTL

\* Nothing is paid or offset before an approval, and only a resolved
\* discrepancy approves an item of more than was ever accepted of its line,
\* whatever items an invoice has and however acceptance rises and falls
\* (supplier_invoice_service).
THEOREM OnlyReceivedIsPaid == Spec => []PaidOnlyReceived
<1>1. IInv => PaidOnlyReceived
  BY DEF IInv, ApprovedFirst, PaidOnlyReceived, PaymentsOf, Successful, Applied
<1> QED
  BY <1>1, Invariance, PTL

-----------------------------------------------------------------------------
(* The refinement of Settlement.                                           *)

LEMMA InitBills == Init => Bills!Init
<1> SUFFICES ASSUME Init PROVE Bills!Init
  OBVIOUS
<1>1. Owed = Total
  BY DEF Init, Owed
<1>2. Successful = {} /\ Applied = {}
  BY DEF Init, Successful, Applied
<1>3. Entries = {}
  BY <1>2 DEF Entries
<1>4. Undone = {}
  BY DEF Init, Undone
<1> QED
  BY <1>1, <1>3, <1>4 DEF Bills!Init

\* The entry a payment or a note makes.
PayEntry(p) == [id |-> p, bill |-> pay[p].inv, amount |-> pay[p].amount]
NoteEntry(n) == [id |-> n, bill |-> note[n].inv, amount |-> note[n].amount]

LEMMA EntriesAre ==
  /\ Entries = {PayEntry(p) : p \in Successful} \cup {NoteEntry(n) : n \in Applied}
  /\ Entries' = {PayEntry(p)' : p \in Successful'} \cup {NoteEntry(n)' : n \in Applied'}
BY DEF Entries, PayEntry, NoteEntry

\* Steps that leave what is owed, the payments and the notes as they count.
LEMMA Stutters ==
  ASSUME IInv,
         \A i \in Inv : inv[i] # None => inv'[i] # None /\ inv'[i].balance = inv[i].balance,
         \A i \in Inv : inv[i] = None /\ inv'[i] # None => inv'[i].balance = Total[i],
         UNCHANGED <<Entries, Undone>>
  PROVE  UNCHANGED Bills!vars
<1>1. \A i \in Inv : (IF inv'[i] = None THEN Total[i] ELSE inv'[i].balance)
                      = (IF inv[i] = None THEN Total[i] ELSE inv[i].balance)
  OBVIOUS
<1>2. Owed' = Owed
  BY <1>1 DEF Owed
<1> QED
  BY <1>2 DEF Bills!vars

LEMMA SameMoney ==
  ASSUME UNCHANGED <<pay, note>>
  PROVE  UNCHANGED <<Entries, Undone>>
<1>1. Successful' = Successful /\ Applied' = Applied /\ Undone' = Undone
  BY DEF Successful, Applied, Undone
<1>2. Entries' = Entries
  BY <1>1 DEF Entries
<1> QED
  BY <1>1, <1>2

\* An entry that takes what it is for from an invoice.
LEMMA Settles ==
  ASSUME IInv, NEW i \in Inv, NEW e \in Pay \cup Note, NEW a \in Amounts,
         NEW row \in InvRow,
         inv[i] # None, a <= inv[i].balance,
         inv' = [inv EXCEPT ![i] = row], row.balance = inv[i].balance - a,
         e \notin Undone, \A s \in Entries : s.id # e, Undone' = Undone,
         Entries' = Entries \cup {[id |-> e, bill |-> i, amount |-> a]}
  PROVE  Bills!Next
<1>1. inv'[i] = row /\ row # None /\ \A j \in Inv \ {i} : inv'[j] = inv[j]
  BY DEF IInv, TypeOK
<1>2. Owed[i] = inv[i].balance
  BY DEF Owed
<1>3. Owed' = [Owed EXCEPT ![i] = Owed[i] - a]
  <2>1. Owed \in [Inv -> {Owed[j] : j \in Inv}]
    BY DEF Owed
  <2>2. Owed' = [j \in Inv |-> IF inv'[j] = None THEN Total[j] ELSE inv'[j].balance]
    BY DEF Owed
  <2>3. \A j \in Inv \ {i} : (IF inv'[j] = None THEN Total[j] ELSE inv'[j].balance) = Owed[j]
    BY <1>1 DEF Owed
  <2>4. (IF inv'[i] = None THEN Total[i] ELSE inv'[i].balance) = Owed[i] - a
    BY <1>1, <1>2
  <2> HIDE DEF Owed
  <2> QED
    BY ONLY <2>1, <2>2, <2>3, <2>4
<1>4. Bills!Settle(i, e, a)
  BY <1>2, <1>3 DEF Bills!Settle
<1> QED
  BY <1>4 DEF Bills!Next

LEMMA RecordPaymentBills ==
  ASSUME IInv, NEW i \in Inv, NEW k \in Key, NEW a \in Amounts,
         NEW method \in {"PDC", "CHEQUE"}, NEW p \in Pay, RecordPayment(i, k, a, method, p)
  PROVE  [Bills!Next]_(Bills!vars)
<1>1. /\ inv[i] # None /\ pay[p] = None /\ a <= inv[i].balance /\ note' = note
      /\ pay'[p] # None /\ pay'[p].inv = i /\ pay'[p].amount = a
      /\ pay'[p].status = (IF method = "PDC" THEN "PENDING" ELSE "SUCCESS")
      /\ \A q \in Pay \ {p} : pay'[q] = pay[q]
  <2> DEFINE new == [inv |-> i, amount |-> a, key |-> k,
                     status |-> IF method = "PDC" THEN "PENDING" ELSE "SUCCESS",
                     pdc |-> IF method = "PDC" THEN "RECEIVED" ELSE None]
  <2>1. new \in PayRow
    BY DEF PayRow, PayStatus, PdcStatus
  <2>2. new # None
    BY <2>1
  <2>3. pay'[p] = new /\ \A q \in Pay \ {p} : pay'[q] = pay[q]
    BY DEF RecordPayment, IInv, TypeOK
  <2> QED
    BY <2>2, <2>3 DEF RecordPayment
<1>2. Applied' = Applied /\ \A n \in Applied : NoteEntry(n)' = NoteEntry(n)
  BY <1>1 DEF Applied, NoteEntry
<1>3. \A q \in Successful : q # p /\ PayEntry(q)' = PayEntry(q)
  BY <1>1 DEF Successful, PayEntry
<1>4. Undone' = Undone /\ p \notin Undone
  BY <1>1 DEF Undone, RecordPayment, IInv, TypeOK
<1>5. CASE method = "PDC"
  <2>1. Successful' = Successful
    BY <1>1, <1>5 DEF Successful
  <2>2. Entries' = Entries
    BY <1>2, <1>3, <2>1, EntriesAre
  <2>3. inv' = inv
    BY <1>5 DEF RecordPayment
  <2> QED
    BY <1>4, <2>2, <2>3, Stutters
<1>6. CASE method # "PDC"
  <2>1. Successful' = Successful \cup {p}
    BY <1>1, <1>6 DEF Successful
  <2>2. PayEntry(p)' = [id |-> p, bill |-> i, amount |-> a]
    BY <1>1 DEF PayEntry
  <2>3. Entries' = Entries \cup {[id |-> p, bill |-> i, amount |-> a]}
    BY <1>2, <1>3, <2>1, <2>2, EntriesAre
  <2>4. \A s \in Entries : s.id # p
    <3>1. \A q \in Successful : PayEntry(q).id # p
      BY <1>3 DEF PayEntry
    <3>2. \A n \in Applied : NoteEntry(n).id # p
      BY DEF NoteEntry, Applied
    <3> QED
      BY <3>1, <3>2, EntriesAre
  <2>5. inv[i] \in InvRow
    BY <1>1, RowTypes DEF IInv
  <2>6. inv' = [inv EXCEPT ![i] = Settled(inv[i], a)]
    BY <1>6 DEF RecordPayment
  <2>7. Settled(inv[i], a) \in InvRow /\ Settled(inv[i], a).balance = inv[i].balance - a
    BY <1>1, <2>5, SettledRow
  <2> QED
    BY <1>1, <1>4, <2>3, <2>4, <2>6, <2>7, Settles
<1> QED
  BY <1>5, <1>6

\* A cheque that moves counts neither before nor after, and its payment has not
\* been undone.
LEMMA MovePdcBills ==
  ASSUME IInv, NEW p \in Pay, NEW from \in {"RECEIVED", "DEPOSITED"},
         NEW pdc \in PdcStatus, NEW status \in PayStatus \ {"SUCCESS"},
         MovePdc(p, from, pdc, status)
  PROVE  UNCHANGED Bills!vars
<1> DEFINE new == [pay[p] EXCEPT !.pdc = pdc, !.status = status]
<1>1. /\ pay[p] # None /\ pay[p].status = "PENDING" /\ pay' = [pay EXCEPT ![p] = new]
      /\ UNCHANGED <<inv, note>> /\ pay[p].pdc \in {"RECEIVED", "DEPOSITED"}
  BY DEF MovePdc, IInv, TypeOK
<1>2. new.status = status /\ new.pdc = pdc
  BY <1>1, RowTypes DEF IInv, PayRow
<1> HIDE DEF new
<1>3. pay'[p] = new /\ \A q \in Pay \ {p} : pay'[q] = pay[q]
  BY <1>1 DEF IInv, TypeOK
<1>4. Successful' = Successful /\ p \notin Successful
  BY <1>1, <1>2, <1>3 DEF Successful
<1>5. Undone' = Undone
  BY <1>1, <1>2, <1>3 DEF Undone, PdcStatus
<1>6. Applied' = Applied /\ \A n \in Applied : NoteEntry(n)' = NoteEntry(n)
  BY <1>1 DEF Applied, NoteEntry
<1>7. \A q \in Successful : PayEntry(q)' = PayEntry(q)
  BY <1>3, <1>4 DEF PayEntry, Successful
<1>8. Entries' = Entries
  BY <1>4, <1>6, <1>7, EntriesAre
<1> QED
  BY <1>1, <1>5, <1>8, Stutters

LEMMA ClearPdcBills == ASSUME IInv, NEW p \in Pay, ClearPdc(p) PROVE Bills!Next
<1> DEFINE i == pay[p].inv
           a == pay[p].amount
           new == [pay[p] EXCEPT !.pdc = "CLEARED", !.status = "SUCCESS"]
<1>1. pay[p] # None /\ pay[p] \in PayRow /\ i \in Inv /\ a \in Amounts
  BY RowTypes DEF ClearPdc, IInv, PayRow
<1>2. /\ pay[p].pdc = "DEPOSITED" /\ pay[p].status = "PENDING" /\ a <= inv[i].balance
      /\ inv[i] # None /\ inv[i] \in InvRow
      /\ pay' = [pay EXCEPT ![p] = new] /\ inv' = [inv EXCEPT ![i] = Settled(inv[i], a)]
      /\ note' = note
  BY <1>1, RowTypes DEF ClearPdc, IInv, TypeOK, RowsFit
<1>3. new.status = "SUCCESS" /\ new.pdc = "CLEARED" /\ new.inv = i /\ new.amount = a
      /\ new # None /\ new.pdc # None
  <2>1. new \in PayRow
    BY <1>1 DEF PayRow, PdcStatus, PayStatus
  <2> QED
    BY <1>1, <2>1 DEF PayRow, PdcStatus
<1>4. pay'[p] = new /\ \A q \in Pay \ {p} : pay'[q] = pay[q]
  BY <1>2 DEF IInv, TypeOK
<1> HIDE DEF new
<1>5. Successful' = Successful \cup {p} /\ p \notin Successful
  BY <1>2, <1>3, <1>4 DEF Successful
<1>6. Undone' = Undone /\ p \notin Undone
  <2>1. pay[p].pdc # None
    BY <1>2 DEF PdcStatus
  <2> QED
    BY <1>3, <1>4, <2>1 DEF Undone
<1>7. Applied' = Applied /\ \A n \in Applied : NoteEntry(n)' = NoteEntry(n) /\ NoteEntry(n).id # p
  BY <1>2 DEF Applied, NoteEntry
<1>8. PayEntry(p)' = [id |-> p, bill |-> i, amount |-> a]
  BY <1>3, <1>4 DEF PayEntry
<1>9. \A q \in Successful : PayEntry(q)' = PayEntry(q) /\ PayEntry(q).id # p
  BY <1>4, <1>5 DEF PayEntry, Successful
<1> HIDE DEF i, a
<1>10. Entries' = Entries \cup {[id |-> p, bill |-> i, amount |-> a]}
  BY <1>5, <1>7, <1>8, <1>9, EntriesAre
<1>11. \A s \in Entries : s.id # p
  BY <1>7, <1>9, EntriesAre
<1>12. Settled(inv[i], a) \in InvRow /\ Settled(inv[i], a).balance = inv[i].balance - a
  BY <1>1, <1>2, SettledRow
<1> QED
  BY <1>1, <1>2, <1>6, <1>10, <1>11, <1>12, Settles

\* A reversal undoes the entry of its payment.
LEMMA ReversePaymentBills == ASSUME IInv, NEW p \in Pay, ReversePayment(p) PROVE Bills!Next
<1> DEFINE i == pay[p].inv
           a == pay[p].amount
           new == [pay[p] EXCEPT !.status = "FAILED"]
<1>1. pay[p] # None /\ pay[p] \in PayRow /\ i \in Inv /\ a \in Amounts
  BY RowTypes DEF ReversePayment, IInv, PayRow
<1>2. /\ pay[p].pdc = None /\ pay[p].status = "SUCCESS"
      /\ inv[i].status \in REVERSIBLE_INVOICE_STATUSES /\ a <= inv[i].paid
      /\ inv[i] # None /\ inv[i] \in InvRow
      /\ pay' = [pay EXCEPT ![p] = new] /\ inv' = [inv EXCEPT ![i] = Reversed(inv[i], a)]
      /\ note' = note
  BY <1>1, RowTypes DEF ReversePayment, IInv, TypeOK, RowsFit
<1>3. new.status = "FAILED" /\ new.pdc = None /\ new # None
  <2>1. new \in PayRow
    BY <1>1 DEF PayRow, PayStatus
  <2> QED
    BY <1>1, <1>2, <2>1 DEF PayRow
<1>4. pay'[p] = new /\ \A q \in Pay \ {p} : pay'[q] = pay[q]
  BY <1>2 DEF IInv, TypeOK
<1> HIDE DEF new
<1>5. Successful' = Successful \ {p} /\ p \in Successful
  BY <1>1, <1>2, <1>3, <1>4 DEF Successful
<1>6. Undone' = Undone \cup {p}
  BY <1>1, <1>2, <1>3, <1>4 DEF Undone
<1>7. Applied' = Applied /\ \A n \in Applied : NoteEntry(n)' = NoteEntry(n) /\ NoteEntry(n).id # p
  BY <1>2 DEF Applied, NoteEntry
<1>8. \A q \in Successful \ {p} : PayEntry(q)' = PayEntry(q) /\ PayEntry(q).id # p
  BY <1>4, <1>5 DEF PayEntry, Successful
<1>9. PayEntry(p).id = p /\ PayEntry(p).bill = i /\ PayEntry(p).amount = a
  BY DEF PayEntry
<1> HIDE DEF i, a
<1>10. PayEntry(p) \in Entries /\ Entries' = Entries \ {PayEntry(p)}
  BY <1>5, <1>7, <1>8, <1>9, EntriesAre
<1>11. Reversed(inv[i], a) \in InvRow /\ Reversed(inv[i], a).balance = inv[i].balance + a
  BY <1>1, <1>2, ReversedRow
<1>12. Owed' = [Owed EXCEPT ![i] = Owed[i] + a]
  <2>1. Owed \in [Inv -> {Owed[j] : j \in Inv}]
    BY DEF Owed
  <2>2. Owed' = [j \in Inv |-> IF inv'[j] = None THEN Total[j] ELSE inv'[j].balance]
    BY DEF Owed
  <2>3. inv'[i] = Reversed(inv[i], a) /\ \A j \in Inv \ {i} : inv'[j] = inv[j]
    BY <1>1, <1>2 DEF IInv, TypeOK
  <2>4. \A j \in Inv \ {i} : (IF inv'[j] = None THEN Total[j] ELSE inv'[j].balance) = Owed[j]
    BY <2>3 DEF Owed
  <2>5. Owed[i] = inv[i].balance /\ inv'[i] # None
    BY <1>1, <1>2, <1>11, <2>3 DEF Owed
  <2>6. (IF inv'[i] = None THEN Total[i] ELSE inv'[i].balance) = Owed[i] + a
    BY <1>11, <2>3, <2>5
  <2> HIDE DEF Owed
  <2> QED
    BY ONLY <2>1, <2>2, <2>4, <2>6
<1>13. Bills!Undo(PayEntry(p))
  BY <1>6, <1>9, <1>10, <1>12 DEF Bills!Undo
<1> QED
  BY <1>10, <1>13 DEF Bills!Next

LEMMA NoteBills ==
  ASSUME IInv, NEW n \in Note, note' = [note EXCEPT ![n] = note'[n]], UNCHANGED <<inv, pay>>,
         n \notin Applied, n \notin Applied'
  PROVE  UNCHANGED Bills!vars
<1>1. Successful' = Successful /\ Undone' = Undone /\ \A q \in Successful : PayEntry(q)' = PayEntry(q)
  BY DEF Successful, Undone, PayEntry
<1>2. \A m \in Note \ {n} : note'[m] = note[m]
  BY DEF IInv, TypeOK
<1>3. Applied' = Applied /\ \A m \in Applied : NoteEntry(m)' = NoteEntry(m)
  BY <1>2 DEF Applied, NoteEntry
<1>4. Entries' = Entries
  BY <1>1, <1>3, EntriesAre
<1> QED
  BY <1>1, <1>4, Stutters

LEMMA ApplyNoteBills ==
  ASSUME IInv, NEW n \in Note, NEW i \in Inv, ApplyNote(n, i)
  PROVE  Bills!Next
<1> DEFINE a == note[n].amount
           new == [note[n] EXCEPT !.status = "APPLIED", !.inv = i]
           left == inv[i].balance - a
           row == [inv[i] EXCEPT !.balance = left]
<1>1. /\ note[n] # None /\ inv[i] # None /\ a <= inv[i].balance /\ note[n].status = "ISSUED"
      /\ inv' = [inv EXCEPT ![i] = row] /\ note' = [note EXCEPT ![n] = new]
      /\ pay' = pay
  BY DEF ApplyNote, IInv, TypeOK
<1>2. note[n] \in NoteRow /\ inv[i] \in InvRow /\ a \in Amounts
  BY <1>1, RowTypes DEF IInv, NoteRow
<1>3. left \in Nat
  <2>1. inv[i].balance \in Nat
    BY <1>2 DEF InvRow
  <2>2. a \in Nat
    BY <1>2, AmountTypes
  <2> HIDE DEF a
  <2> QED
    BY <1>1, <2>1, <2>2
<1>4. new # None /\ new.status = "APPLIED" /\ new.inv = i /\ new.amount = a
  <2>1. new \in NoteRow
    BY <1>2 DEF NoteRow, NoteStatus
  <2> QED
    BY <1>2, <2>1 DEF NoteRow
<1>5. row \in InvRow /\ row.balance = left
  <2> HIDE DEF left
  <2> QED
    BY <1>2, <1>3 DEF InvRow
<1>6. note'[n] = new /\ \A m \in Note \ {n} : note'[m] = note[m]
  BY <1>1 DEF IInv, TypeOK
<1> HIDE DEF new
<1>7. Applied' = Applied \cup {n} /\ n \notin Applied
  BY <1>1, <1>4, <1>6 DEF Applied
<1>8. Successful' = Successful /\ Undone' = Undone
      /\ \A q \in Successful : PayEntry(q)' = PayEntry(q) /\ PayEntry(q).id # n
  BY <1>1 DEF Successful, Undone, PayEntry
<1>9. NoteEntry(n)' = [id |-> n, bill |-> i, amount |-> a]
  BY <1>4, <1>6 DEF NoteEntry
<1>10. \A m \in Applied : NoteEntry(m)' = NoteEntry(m) /\ NoteEntry(m).id # n
  BY <1>6, <1>7 DEF NoteEntry, Applied
<1> HIDE DEF a, row
<1>11. Entries' = Entries \cup {[id |-> n, bill |-> i, amount |-> a]}
  BY <1>7, <1>8, <1>9, <1>10, EntriesAre
<1>12. \A s \in Entries : s.id # n
  BY <1>8, <1>10, EntriesAre
<1>13. n \notin Undone
  BY DEF Undone
<1> QED
  BY <1>1, <1>2, <1>5, <1>8, <1>11, <1>12, <1>13, Settles

\* Matching, resolving and approving leave the amounts of every invoice alone.
LEMMA RequestBills ==
  ASSUME IInv, NEW t \in Txn, SubmitMatching(t) \/ Approve(t)
  PROVE  UNCHANGED Bills!vars
<1> DEFINE i == txn[t].inv
<1>1. i \in Inv /\ inv[i] # None /\ inv[i] \in InvRow
  BY RowTypes DEF SubmitMatching, Approve, IInv, RequestsFit, Request
<1>2. PICK row \in InvRow : inv' = [inv EXCEPT ![i] = row] /\ row.balance = inv[i].balance
  <2>1. CASE SubmitMatching(t)
    <3>0. PICK result \in Results(items[i]) :
            inv' = [inv EXCEPT ![i] = [inv[i] EXCEPT !.match = result,
                      !.status = IF result = "PASSED" THEN "MATCHED" ELSE "DISCREPANCY"]]
      BY <2>1 DEF SubmitMatching, IInv, TypeOK
    <3> DEFINE status == IF result = "PASSED" THEN "MATCHED" ELSE "DISCREPANCY"
               new == [inv[i] EXCEPT !.match = result, !.status = status]
    <3>1. inv' = [inv EXCEPT ![i] = new]
      BY <3>0
    <3>2. result \in MatchResult /\ status \in MatchStatuses
      BY <1>1, ResultsAre DEF MatchStatuses, IInv, TypeOK
    <3> HIDE DEF status, i
    <3>3. new \in InvRow /\ new.balance = inv[i].balance
      BY <1>1, <3>2 DEF InvRow
    <3> HIDE DEF new
    <3> QED
      BY <3>1, <3>3
  <2>2. CASE Approve(t)
    <3> DEFINE resolved == inv[i].resolved \/ txn[t].op = "resolve"
           new == [inv[i] EXCEPT !.status = "APPROVED", !.approved = TRUE,
                                 !.resolved = resolved]
    <3>1. inv' = [inv EXCEPT ![i] = new]
      BY <2>2 DEF Approve, IInv, TypeOK
    <3>2. resolved \in BOOLEAN
      BY <1>1 DEF InvRow
    <3> HIDE DEF resolved, i
    <3>3. new \in InvRow /\ new.balance = inv[i].balance
      BY <1>1, <3>2 DEF InvRow, REVERSIBLE_INVOICE_STATUSES, PAYABLE_STATUSES
    <3> HIDE DEF new
    <3> QED
      BY <3>1, <3>3
  <2> QED
    BY <2>1, <2>2
<1>3. row # None
  OBVIOUS
<1> HIDE DEF i
<1>4. inv'[i] = row /\ \A j \in Inv \ {i} : inv'[j] = inv[j]
  BY <1>1, <1>2 DEF IInv, TypeOK
<1>5. UNCHANGED <<pay, note>>
  BY DEF SubmitMatching, Approve, money
<1> QED
  BY <1>1, <1>2, <1>3, <1>4, <1>5, SameMoney, Stutters

LEMMA StepBills == IInv /\ [Next]_vars => [Bills!Next]_(Bills!vars)
<1> SUFFICES ASSUME IInv, [Next]_vars PROVE [Bills!Next]_(Bills!vars)
  OBVIOUS
<1>1. CASE UNCHANGED <<inv, pay, note>>
  BY <1>1, SameMoney, Stutters
<1>2. CASE \/ (\E l \in OrderLine, n \in 0..MaxAccepted : Accept(l, n)) \/ Amend
          \/ \E k \in Key : ExpireKey(k)
  BY <1>1, <1>2 DEF Accept, Amend, ExpireKey, money
<1>3. ASSUME NEW t \in Txn, InvoiceRequests(t) \/ Abort(t) PROVE [Bills!Next]_(Bills!vars)
  BY <1>1, <1>3, RequestBills DEF InvoiceRequests, Read, Abort, money
<1>4. ASSUME NEW p \in Pay, PaymentRequests(p) PROVE [Bills!Next]_(Bills!vars)
  <2>1. CASE DepositPdc(p) \/ ReturnPdc(p) \/ BouncePdc(p)
    BY <2>1, MovePdcBills DEF DepositPdc, ReturnPdc, BouncePdc, PdcStatus, PayStatus
  <2>2. CASE ClearPdc(p) \/ ReversePayment(p)
    BY <2>2, ClearPdcBills, ReversePaymentBills
  <2> QED
    BY <1>4, <2>1, <2>2 DEF PaymentRequests
<1>5. ASSUME NEW n \in Note, NoteRequests(n) PROVE [Bills!Next]_(Bills!vars)
  <2>1. ASSUME NEW a \in Amounts, NEW s \in {"DRAFT", "ISSUED"}, CreateNote(n, a, s)
        PROVE  UNCHANGED Bills!vars
    <3> DEFINE new == [status |-> s, amount |-> a, inv |-> None]
    <3>1. note[n] = None /\ note' = [note EXCEPT ![n] = new] /\ UNCHANGED <<inv, pay>>
      BY <2>1 DEF CreateNote
    <3>2. note'[n] = new
      BY <3>1 DEF IInv, TypeOK
    <3>3. n \notin Applied /\ n \notin Applied'
      BY <3>1, <3>2 DEF Applied
    <3> QED
      BY <3>1, <3>2, <3>3, NoteBills
  <2>2. ASSUME NEW from \in SUBSET {"DRAFT", "ISSUED"}, NEW to \in {"ISSUED", "CANCELLED"},
               EndNote(n, from, to)
        PROVE  UNCHANGED Bills!vars
    <3> DEFINE new == [note[n] EXCEPT !.status = to]
    <3>1. /\ note[n] # None /\ note[n] \in NoteRow /\ note[n].status # "APPLIED"
          /\ note' = [note EXCEPT ![n] = new] /\ UNCHANGED <<inv, pay>>
      BY <2>2, RowTypes DEF EndNote, IInv
    <3>2. note'[n] = new /\ new.status = to
      BY <3>1 DEF IInv, TypeOK, NoteRow
    <3>3. n \notin Applied /\ n \notin Applied'
      BY <3>1, <3>2 DEF Applied
    <3> QED
      BY <3>1, <3>2, <3>3, NoteBills
  <2>3. CASE IssueNote(n) \/ CancelNote(n)
    BY <2>2, <2>3 DEF IssueNote, CancelNote
  <2> QED
    BY <1>5, <2>1, <2>3, ApplyNoteBills DEF NoteRequests
<1>6. ASSUME NEW i \in Inv, CreateInvoice(i) PROVE [Bills!Next]_(Bills!vars)
  <2> DEFINE row == [status |-> "RECEIVED", match |-> "NOT_CHECKED", approved |-> FALSE,
                     resolved |-> FALSE, paid |-> 0, balance |-> Total[i]]
  <2>1. row \in InvRow /\ row.balance = Total[i]
    BY DEF InvRow, MatchStatuses, MatchResult
  <2>2. inv[i] = None /\ inv' = [inv EXCEPT ![i] = row] /\ UNCHANGED <<pay, note>>
    BY <1>6 DEF CreateInvoice, money
  <2> HIDE DEF row
  <2>3. inv'[i] = row /\ \A j \in Inv \ {i} : inv'[j] = inv[j]
    BY <2>2 DEF IInv, TypeOK
  <2> QED
    BY <2>1, <2>2, <2>3, SameMoney, Stutters
<1>7. CASE UNCHANGED vars
  BY <1>1, <1>7 DEF vars, money
<1> QED
  BY <1>2, <1>3, <1>4, <1>5, <1>6, <1>7, RecordPaymentBills DEF Next

\* Payments, cheques, reversals and debit notes implement Settlement: they settle
\* the invoices one at a time, never beyond what is owed, each once.
THEOREM PaymentsSettle == Spec => SettledAsPromised
<1> QED
  BY InitBills, StepBills, Invariance, PTL DEF Spec, SettledAsPromised, Bills!Spec

-----------------------------------------------------------------------------
(* The way up through live categories.                                     *)

\* Walk, of any table of categories.
Path(cat, k) ==
    LET step[n \in 0..Cardinality(Category)] ==
          IF n = 0 THEN k
          ELSE IF step[n-1] # Absent /\ (cat[step[n-1]] # Absent /\ cat[step[n-1]].live)
               THEN cat[step[n-1]].parent
          ELSE Absent
    IN  step

\* One step up.
Up(cat, c) == IF c # Absent /\ (cat[c] # Absent /\ cat[c].live) THEN cat[c].parent ELSE Absent

Tables == [Category -> CategoryRow \cup {Absent}]

LEMMA WalkIsPath ==
  ASSUME NEW k
  PROVE  Walk(k) = Path(category, k) /\ Walk(k)' = Path(category', k)
BY DEF Walk, Path, LiveCategory

\* The least of a set of numbers.
LEMMA LeastNumber ==
  ASSUME NEW S \in SUBSET Nat, S # {}
  PROVE  \E n \in S : \A m \in S : n <= m
<1>1. PICK top \in S : TRUE
  OBVIOUS
<1> DEFINE R == 0..top
           Q == {0..n : n \in S \cap (0..top)}
<1>2. Q # {} /\ Q \in SUBSET SUBSET R
  <2>1. 0..top \in Q
    OBVIOUS
  <2>2. ASSUME NEW U \in Q PROVE U \subseteq R
    OBVIOUS
  <2> QED
    BY <2>1, <2>2
<1>3. IsFiniteSet(R)
  BY FS_Interval
<1> HIDE DEF Q, R
<1>4. PICK T \in Q : \A U \in Q : ~(U \subseteq T /\ U # T)
  BY <1>2, <1>3, SmallestSubset
<1> USE DEF Q
<1>5. PICK n \in S \cap (0..top) : T = 0..n
  BY <1>4
<1>6. ASSUME NEW m \in S, m < n PROVE FALSE
  <2>1. 0..m \in Q /\ 0..m \subseteq 0..n /\ n \notin 0..m /\ n \in 0..n
    BY <1>6
  <2> QED
    BY <1>4, <1>5, <2>1
<1> QED
  BY <1>5, <1>6

LEMMA PathExists ==
  ASSUME NEW cat, NEW k, NEW N \in Nat
  PROVE  \E h : h = [n \in 0..N |-> IF n = 0 THEN k ELSE Up(cat, h[n-1])]
<1> DEFINE Has(m) == \E h : h = [n \in 0..m |-> IF n = 0 THEN k ELSE Up(cat, h[n-1])]
           S == {m \in Nat : ~Has(m)}
<1>1. SUFFICES ASSUME S # {} PROVE FALSE
  OBVIOUS
<1>2. PICK m \in S : \A i \in S : m <= i
  BY <1>1, LeastNumber
<1>3. CASE m = 0
  <2>1. [n \in 0..0 |-> k] = [n \in 0..0 |-> IF n = 0 THEN k
                                              ELSE Up(cat, [i \in 0..0 |-> k][n-1])]
    OBVIOUS
  <2> QED
    BY <1>2, <1>3, <2>1
<1>4. CASE m # 0
  <2>1. m - 1 \in Nat /\ m - 1 \notin S
    <3>1. m \in Nat /\ m # 0
      BY <1>2, <1>4
    <3>2. m - 1 \in Nat /\ ~(m <= m - 1)
      BY <3>1
    <3> HIDE DEF S
    <3> QED
      BY <1>2, <3>2
  <2>2. PICK h : h = [n \in 0..m-1 |-> IF n = 0 THEN k ELSE Up(cat, h[n-1])]
    BY <2>1
  <2> DEFINE g == [n \in 0..m |-> IF n = 0 THEN k ELSE Up(cat, h[n-1])]
  <2>3. \A n \in 0..m-1 : g[n] = h[n]
    BY <2>1, <2>2
  <2>4. \A n \in 0..m : n # 0 => g[n-1] = h[n-1]
    <3>1. \A n \in 0..m : n # 0 => n - 1 \in 0..m-1
      BY <2>1
    <3> QED
      BY <2>3, <3>1
  <2>5. g = [n \in 0..m |-> IF n = 0 THEN k ELSE Up(cat, g[n-1])]
    BY <2>4
  <2> HIDE DEF g
  <2> QED
    BY <1>2, <2>5
<1> QED
  BY <1>3, <1>4

LEMMA Height == Cardinality(Category) \in Nat
BY FiniteAssumption, FS_CardinalityType

LEMMA PathStep ==
  ASSUME NEW cat, NEW k
  PROVE  /\ Path(cat, k)[0] = k
         /\ \A n \in 1..Cardinality(Category) : Path(cat, k)[n] = Up(cat, Path(cat, k)[n-1])
<1> DEFINE N == Cardinality(Category)
<1>1. N \in Nat
  BY Height
<1>2. Path(cat, k) = CHOOSE h : h = [n \in 0..N |-> IF n = 0 THEN k ELSE Up(cat, h[n-1])]
  BY DEF Path, Up
<1>3. Path(cat, k) = [n \in 0..N |-> IF n = 0 THEN k ELSE Up(cat, Path(cat, k)[n-1])]
  BY <1>1, <1>2, PathExists
<1> HIDE DEF N
<1> QED
  BY <1>1, <1>3 DEF N

LEMMA PathIn ==
  ASSUME NEW cat \in Tables, NEW k \in Category \cup {Absent}
  PROVE  \A n \in 0..Cardinality(Category) : Path(cat, k)[n] \in Category \cup {Absent}
<1> DEFINE N == Cardinality(Category)
           S == {n \in 0..N : Path(cat, k)[n] \notin Category \cup {Absent}}
<1>1. N \in Nat
  BY Height
<1>2. SUFFICES ASSUME S # {} PROVE FALSE
  OBVIOUS
<1>3. S \in SUBSET Nat
  BY <1>1
<1>4. PICK n \in S : \A i \in S : n <= i
  BY <1>2, <1>3, LeastNumber
<1>5. n # 0 /\ n \in 1..N /\ n-1 \in 0..N
  BY <1>1, <1>4, PathStep
<1>6. Path(cat, k)[n-1] \in Category \cup {Absent}
  BY <1>1, <1>4, <1>5
<1>7. Path(cat, k)[n] = Up(cat, Path(cat, k)[n-1])
  BY <1>5, PathStep
<1> QED
  BY <1>4, <1>6, <1>7 DEF Up, Tables, CategoryRow

\* What lies below a place that is reached is live.
LEMMA PathLive ==
  ASSUME NEW cat, NEW k, NEW n \in 0..Cardinality(Category), Path(cat, k)[n] # Absent
  PROVE  \A i \in 0..n-1 : LET c == Path(cat, k)[i]
                           IN  c # Absent /\ cat[c] # Absent /\ cat[c].live
<1> DEFINE N == Cardinality(Category)
           Fine(i) == LET c == Path(cat, k)[i] IN c # Absent /\ cat[c] # Absent /\ cat[c].live
           S == {m \in 0..N : Path(cat, k)[m] # Absent /\ \E i \in 0..m-1 : ~Fine(i)}
<1>1. N \in Nat
  BY Height
<1>2. SUFFICES ASSUME S # {} PROVE FALSE
  OBVIOUS
<1>3. S \in SUBSET Nat
  BY <1>1
<1>4. PICK m \in S : \A i \in S : m <= i
  BY <1>2, <1>3, LeastNumber
<1>5. m \in 1..N /\ m-1 \in 0..N
  BY <1>1, <1>4
<1>6. Path(cat, k)[m] = Up(cat, Path(cat, k)[m-1])
  BY <1>5, PathStep
<1>7. Fine(m-1)
  BY <1>4, <1>6 DEF Up
<1>8. m-1 \notin S
  BY <1>4, <1>5
<1>9. \A i \in 0..m-2 : Fine(i)
  BY <1>5, <1>7, <1>8
<1>10. \A i \in 0..m-1 : i = m-1 \/ i \in 0..m-2
  BY <1>5
<1> QED
  BY <1>4, <1>7, <1>9, <1>10

LEMMA PathJoin ==
  ASSUME NEW cat, NEW k, NEW m \in Nat, NEW n \in Nat, m + n <= Cardinality(Category)
  PROVE  Path(cat, k)[m+n] = Path(cat, Path(cat, k)[m])[n]
<1> DEFINE N == Cardinality(Category)
           j == Path(cat, k)[m]
           S == {i \in 0..n : Path(cat, k)[m+i] # Path(cat, j)[i]}
<1>1. N \in Nat
  BY Height
<1>2. SUFFICES ASSUME S # {} PROVE FALSE
  <2>1. n \in 0..n
    OBVIOUS
  <2> QED
    BY <2>1
<1>3. S \in SUBSET Nat
  OBVIOUS
<1>4. PICK i \in S : \A l \in S : i <= l
  BY <1>2, <1>3, LeastNumber
<1>5. i # 0
  BY <1>4, PathStep
<1>6. i \in 1..N /\ m+i \in 1..N /\ i-1 \in 0..n /\ (m+i)-1 = m+(i-1)
  BY <1>1, <1>4, <1>5
<1>7. Path(cat, k)[m+(i-1)] = Path(cat, j)[i-1]
  BY <1>4, <1>6
<1>8. /\ Path(cat, k)[m+i] = Up(cat, Path(cat, k)[m+(i-1)])
      /\ Path(cat, j)[i] = Up(cat, Path(cat, j)[i-1])
  BY <1>6, PathStep
<1> QED
  BY <1>4, <1>7, <1>8

\* A change of one row leaves the paths alone that do not come by it.
LEMMA PathSame ==
  ASSUME NEW cat \in Tables, NEW new \in Tables, NEW k \in Category,
         \A c \in Category \ {k} : new[c] = cat[c],
         NEW j \in Category \cup {Absent}, NEW n \in 0..Cardinality(Category),
         \A i \in 0..n-1 : Path(new, j)[i] # k
  PROVE  Path(new, j)[n] = Path(cat, j)[n]
<1> DEFINE N == Cardinality(Category)
           S == {i \in 0..n : Path(new, j)[i] # Path(cat, j)[i]}
<1>1. N \in Nat
  BY Height
<1>2. SUFFICES ASSUME S # {} PROVE FALSE
  <2>1. n \in 0..n
    BY <1>1
  <2> QED
    BY <2>1
<1>3. S \in SUBSET Nat
  BY <1>1
<1>4. PICK i \in S : \A l \in S : i <= l
  BY <1>2, <1>3, LeastNumber
<1>5. i # 0
  BY <1>4, PathStep
<1>6. i \in 1..N /\ i-1 \in 0..n /\ i-1 \in 0..n-1 /\ i-1 \in 0..N
  BY <1>1, <1>4, <1>5
<1>7. Path(new, j)[i-1] = Path(cat, j)[i-1]
  BY <1>4, <1>6
<1>8. Path(new, j)[i] = Up(new, Path(new, j)[i-1]) /\ Path(cat, j)[i] = Up(cat, Path(cat, j)[i-1])
  BY <1>6, PathStep
<1>9. Path(new, j)[i-1] \in (Category \ {k}) \cup {Absent}
  BY <1>6, PathIn
<1>10. \A c \in (Category \ {k}) \cup {Absent} : Up(new, c) = Up(cat, c)
  BY DEF Up
<1> QED
  BY <1>4, <1>7, <1>8, <1>9, <1>10

Lives(cat, k) == cat[k] # Absent /\ cat[k].live

\* No live category is above itself, and no two have one name.
Tree(cat) ==
    \A k \in Category : Lives(cat, k) =>
        /\ \A j \in Category \ {k} : Lives(cat, j) => cat[j].name # cat[k].name
        /\ \A n \in 1..Cardinality(Category) : Path(cat, k)[n] # k

LEMMA TreeIs == CategoryTree <=> Tree(category)
BY WalkIsPath DEF CategoryTree, Tree, Lives, LiveCategory, NameTaken

\* A deleted category is on no path any more.
LEMMA DeleteKeepsTree ==
  ASSUME NEW cat \in Tables, NEW new \in Tables, NEW k \in Category,
         \A c \in Category \ {k} : new[c] = cat[c], ~Lives(new, k), Tree(cat)
  PROVE  Tree(new)
<1> DEFINE N == Cardinality(Category)
<1>1. ASSUME NEW j \in Category, Lives(new, j), NEW n \in 1..N, Path(new, j)[n] = j PROVE FALSE
  <2>1. n \in 0..N /\ j # k /\ j # Absent /\ Lives(cat, j)
    BY <1>1, Height, AbsentAssumption DEF Lives
  <2>2. \A i \in 0..n-1 : Path(new, j)[i] # k
    BY <1>1, <2>1, PathLive DEF Lives
  <2>3. Path(cat, j)[n] = j
    BY <1>1, <2>1, <2>2, PathSame
  <2> QED
    BY <1>1, <2>1, <2>3 DEF Tree
<1>2. ASSUME NEW j \in Category, Lives(new, j), NEW i \in Category \ {j}, Lives(new, i)
      PROVE  new[i].name # new[j].name
  BY <1>2 DEF Tree, Lives
<1> QED
  BY <1>1, <1>2 DEF Tree

\* A category that keeps its parent may have another name.
LEMMA RenameKeepsTree ==
  ASSUME NEW cat \in Tables, NEW new \in Tables, NEW k \in Category,
         \A c \in Category \ {k} : new[c] = cat[c], Lives(cat, k), Lives(new, k),
         new[k].parent = cat[k].parent,
         \A j \in Category \ {k} : Lives(cat, j) => cat[j].name # new[k].name,
         Tree(cat)
  PROVE  Tree(new)
<1> DEFINE N == Cardinality(Category)
<1>1. N \in Nat
  BY Height
<1>2. \A c \in Category \cup {Absent} : Up(new, c) = Up(cat, c)
  BY DEF Up, Lives
<1>3. ASSUME NEW j \in Category, NEW n \in 0..N PROVE Path(new, j)[n] = Path(cat, j)[n]
  <2> DEFINE S == {i \in 0..N : Path(new, j)[i] # Path(cat, j)[i]}
  <2>1. SUFFICES ASSUME S # {} PROVE FALSE
    OBVIOUS
  <2>2. S \in SUBSET Nat
    BY <1>1
  <2>3. PICK i \in S : \A l \in S : i <= l
    BY <2>1, <2>2, LeastNumber
  <2>4. i # 0
    BY <2>3, PathStep
  <2>5. i \in 1..N /\ i-1 \in 0..N
    BY <1>1, <2>3, <2>4
  <2>6. Path(new, j)[i-1] = Path(cat, j)[i-1]
    BY <2>3, <2>5
  <2>7. Path(new, j)[i] = Up(new, Path(new, j)[i-1]) /\ Path(cat, j)[i] = Up(cat, Path(cat, j)[i-1])
    BY <2>5, PathStep
  <2>8. Path(new, j)[i-1] \in Category \cup {Absent}
    BY <2>5, PathIn
  <2> QED
    BY <1>2, <2>3, <2>6, <2>7, <2>8
<1>4. \A j \in Category : Lives(new, j) => Lives(cat, j)
  BY DEF Lives
<1>5. ASSUME NEW j \in Category, Lives(new, j), NEW n \in 1..N, Path(new, j)[n] = j PROVE FALSE
  <2>1. n \in 0..N
    BY <1>1
  <2> QED
    BY <1>3, <1>4, <1>5, <2>1 DEF Tree
<1>6. ASSUME NEW j \in Category, Lives(new, j), NEW i \in Category \ {j}, Lives(new, i)
      PROVE  new[i].name # new[j].name
  BY <1>6 DEF Tree, Lives
<1> QED
  BY <1>5, <1>6 DEF Tree

\* A category may go below another that is not below it.
LEMMA MoveKeepsTree ==
  ASSUME NEW cat \in Tables, NEW new \in Tables, NEW k \in Category, NEW parent,
         \A c \in Category \ {k} : new[c] = cat[c], Lives(new, k), new[k].parent = parent,
         \A j \in Category \ {k} : Lives(cat, j) => cat[j].name # new[k].name,
         \/ parent = Absent
         \/ /\ parent \in Category /\ parent # k
            /\ \A n \in 1..Cardinality(Category) :
                 Path(cat, parent)[n] # Absent => Path(cat, parent)[n] # k,
         Tree(cat)
  PROVE  Tree(new)
<1> DEFINE N == Cardinality(Category)
<1>1. N \in Nat /\ Absent \notin Category
  BY Height, AbsentAssumption
<1>2. ASSUME NEW n \in 1..N, Path(new, k)[n] = k PROVE FALSE
  <2>1. Path(new, k)[1] = parent
    BY <1>1, <1>2, PathStep DEF Up, Lives
  <2>2. Path(new, parent)[n-1] = k
    <3>1. n-1 \in Nat /\ 1 + (n-1) <= N /\ 1 + (n-1) = n
      BY <1>1
    <3> QED
      BY <1>2, <2>1, <3>1, PathJoin
  <2> DEFINE S == {i \in 0..n-1 : Path(new, parent)[i] = k}
  <2>3. S # {} /\ S \in SUBSET Nat
    <3>1. n-1 \in 0..n-1
      BY <1>1
    <3> QED
      BY <2>2, <3>1
  <2>4. PICK r \in S : \A i \in S : r <= i
    BY <2>3, LeastNumber
  <2>5. /\ r \in 0..N /\ parent \in Category \cup {Absent}
        /\ \A i \in 0..r-1 : Path(new, parent)[i] # k
    BY <1>1, <2>4
  <2>6. Path(cat, parent)[r] = k
    BY <2>4, <2>5, PathSame
  <2>7. r # 0
    BY <1>1, <2>6, PathStep
  <2>8. parent # Absent
    <3>1. 0 \in 0..r-1
      BY <2>5, <2>7, <1>1
    <3> QED
      BY <1>1, <2>5, <2>6, <3>1, PathLive, PathStep
  <2> QED
    BY <1>1, <2>5, <2>6, <2>7, <2>8
<1>3. ASSUME NEW j \in Category, Lives(new, j), NEW n \in 1..N, Path(new, j)[n] = j PROVE FALSE
  <2>1. CASE \A i \in 0..n-1 : Path(new, j)[i] # k
    <3>1. n \in 0..N /\ 0 \in 0..n-1 /\ j # k
      BY <1>1, <2>1, PathStep
    <3>2. Path(cat, j)[n] = j
      BY <1>3, <2>1, <3>1, PathSame
    <3> QED
      BY <1>3, <3>1, <3>2 DEF Tree, Lives
  <2>2. CASE \E i \in 0..n-1 : Path(new, j)[i] = k
    <3>1. PICK m \in 0..n-1 : Path(new, j)[m] = k
      BY <2>2
    <3>2. /\ m \in Nat /\ n-m \in Nat /\ m + (n-m) = n /\ (n-m) + m = n /\ n <= N
      BY <1>1
    <3>3. Path(new, k)[n-m] = j
      BY <1>3, <3>1, <3>2, PathJoin
    <3>4. Path(new, k)[n] = k
      <4>1. Path(new, k)[(n-m) + m] = Path(new, Path(new, k)[n-m])[m]
        BY <3>2, PathJoin
      <4> QED
        BY <3>1, <3>2, <3>3, <4>1
    <3> QED
      BY <1>2, <3>4
  <2> QED
    BY <2>1, <2>2
<1>4. ASSUME NEW j \in Category, Lives(new, j), NEW i \in Category \ {j}, Lives(new, i)
      PROVE  new[i].name # new[j].name
  BY <1>4 DEF Tree, Lives
<1> QED
  BY <1>3, <1>4 DEF Tree

-----------------------------------------------------------------------------
(* The product master: its inductive invariant.                            *)

MasterRows ==
    /\ ops \in Mixes /\ DOMAIN session = Session
    /\ category \in Tables
    /\ unit \in [Unit -> UnitRow \cup {Absent}]
    /\ product \in [Product -> ProductRow \cup {Absent}]
    /\ conversion \in [Product -> [Unit -> ConversionRow \cup {Absent}]]
    /\ price \in [Price -> PriceRow \cup {Absent}]

\* What the open requests of the product master have asked for.
Asked(t) ==
    /\ Is(t, "category") => /\ session[t].id \in Category /\ session[t].row \in CategoryRow
                            /\ session[t].was \in CategoryRow \cup {Absent}
                            /\ session[t].row.live
    /\ Is(t, "delete_unit") => session[t].unit \in Unit
    /\ Is(t, "create_product") => session[t].id \in Product /\ session[t].row \in ProductRow
    /\ Is(t, "update_product") =>
         /\ session[t].id \in Product /\ product[session[t].id] # Absent
         /\ session[t].base \in Unit /\ session[t].category \in Category \cup {Absent}
    /\ Is(t, "delete_product") => session[t].id \in Product /\ product[session[t].id] # Absent
    /\ Is(t, "conversion") => /\ session[t].id \in Product /\ session[t].unit \in Unit
                              /\ session[t].row \in ConversionRow
    /\ Is(t, "price") => session[t].row \in PriceRow

\* What they have read is still so while they are alone.
StillSo(t) ==
    /\ Is(t, "category") =>
         LET k == session[t].id  row == session[t].row
         IN  /\ session[t].was = category[k] /\ (category[k] = Absent \/ LiveCategory(k))
             /\ NameOK(k, row.name) /\ ParentOK(k, row.parent)
    /\ Is(t, "delete_unit") => ~UnitInUse(session[t].unit)
    /\ Is(t, "create_product") => session[t].row.live /\ unit[session[t].row.base] = "live"
    /\ Is(t, "update_product") =>
         LET p == session[t].id
         IN  /\ LiveProduct(p) /\ session[t].was = product[p]
             /\ BaseMayChange(p, session[t].base) /\ unit[session[t].base] = "live"
    /\ Is(t, "delete_product") =>
         /\ LiveProduct(session[t].id)
         /\ session[t].units = {u \in Unit : conversion[session[t].id][u] # Absent}
    /\ Is(t, "conversion") =>
         LET p == session[t].id  u == session[t].unit
         IN  /\ LiveProduct(p) /\ u # product[p].base /\ unit[u] = "live"
             /\ session[t].row.of = product[p].base
    /\ Is(t, "price") => ~\E i \in Price : price[i] # Absent /\ SameKey(price[i], session[t].row)

\* The factors of a product that is for sale count its base unit.
FactorsCount ==
    \A p \in Product :
        IF ~LiveProduct(p) THEN \A u \in Unit : conversion[p][u] = Absent
        ELSE /\ unit[product[p].base] = "live"
             /\ \A u \in Unit : conversion[p][u] # Absent =>
                  unit[u] = "live" /\ conversion[p][u].of = product[p].base

\* No two prices compete.
PricesDiffer ==
    \A i, j \in Price :
        price[i] # Absent /\ price[j] # Absent /\ SameKey(price[i], price[j]) => i = j

Fit == Tree(category) /\ FactorsCount /\ PricesDiffer

OneAtATime == \A t, u \in Session : session[t] # Absent /\ session[u] # Absent => t = u

MasterInv ==
    /\ MasterRows
    /\ \A t \in Session : Asked(t)
    /\ ~Overlap => OneAtATime /\ Fit /\ \A t \in Session : StillSo(t)

-----------------------------------------------------------------------------
(* Steps of any request.                                                   *)

LEMMA NobodyOpen ==
  ASSUME DOMAIN session = Session, ~Overlap, Free
  PROVE  \A t \in Session : session[t] = Absent
<1> DEFINE S == {t \in Session : session[t] # Absent}
<1>1. IsFiniteSet(S)
  BY FiniteAssumption, FS_Subset
<1>2. Cardinality(S) \in Nat /\ Cardinality(S) < 1
  BY <1>1, FS_CardinalityType DEF Free
<1>3. S = {}
  BY <1>1, <1>2, FS_EmptySet
<1> QED
  BY <1>3

LEMMA ReadKeeps ==
  ASSUME MasterInv, NEW t \in Session, NEW r, Reads(t, r), Asked(t)', ~Overlap => StillSo(t)'
  PROVE  MasterInv'
<1>1. /\ UNCHANGED <<ops, category, unit, product, conversion, price>>
      /\ session' = [session EXCEPT ![t] = r] /\ Free
      /\ DOMAIN session = Session
  BY DEF Reads, Begins, catalogue, MasterInv, MasterRows
<1>2. MasterRows'
  BY <1>1 DEF MasterInv, MasterRows
<1>3. \A u \in Session \ {t} : session'[u] = session[u]
  BY <1>1
<1>4. ASSUME NEW u \in Session PROVE Asked(u)'
  <2>1. CASE u = t
    BY <2>1
  <2>2. CASE u # t
    <3>1. session'[u] = session[u] /\ Asked(u)
      BY <1>3, <2>2 DEF MasterInv
    <3> QED
      BY <1>1, <3>1 DEF Asked, Is
  <2> QED
    BY <2>1, <2>2
<1>5. ASSUME ~Overlap' PROVE OneAtATime' /\ Fit' /\ \A u \in Session : StillSo(u)'
  <2>1. ~Overlap
    BY <1>1, <1>5 DEF Overlap
  <2>2. \A u \in Session \ {t} : session'[u] = Absent
    BY <1>1, <1>3, <2>1, NobodyOpen
  <2>3. Fit'
    BY <1>1, <2>1 DEF MasterInv, Fit, Tree, Lives, FactorsCount, LiveProduct, PricesDiffer
  <2>4. ASSUME NEW u \in Session PROVE StillSo(u)'
    <3>1. CASE u = t
      BY <2>1, <3>1
    <3>2. CASE u # t
      BY <2>2, <3>2 DEF StillSo, Is
    <3> QED
      BY <3>1, <3>2
  <2> QED
    BY <2>2, <2>3, <2>4 DEF OneAtATime
<1> QED
  BY <1>2, <1>4, <1>5 DEF MasterInv

\* The last step of a request, or the only one.
LEMMA WriteKeeps ==
  ASSUME MasterInv, MasterRows', ops' = ops,
         \/ \E t \in Session : session[t] # Absent /\ Ends(t)
         \/ Free /\ UNCHANGED session,
         \A p \in Product : product[p] # Absent => product'[p] # Absent,
         ~Overlap => Fit'
  PROVE  MasterInv'
<1>1. DOMAIN session = Session
  BY DEF MasterInv, MasterRows
<1>2. \A u \in Session : session'[u] = session[u] \/ session'[u] = Absent
  BY <1>1 DEF Ends
<1>3. ASSUME NEW u \in Session PROVE Asked(u)'
  <2>1. CASE session'[u] = session[u]
    <3>1. Asked(u)
      BY DEF MasterInv
    <3> QED
      BY <2>1, <3>1 DEF Asked, Is
  <2>2. CASE session'[u] = Absent
    BY <2>2 DEF Asked, Is
  <2> QED
    BY <1>2, <2>1, <2>2
<1>4. ASSUME ~Overlap' PROVE OneAtATime' /\ Fit' /\ \A u \in Session : StillSo(u)'
  <2>1. ~Overlap
    BY <1>4 DEF Overlap
  <2>2. \A u \in Session : session'[u] = Absent
    <3>1. ASSUME NEW t \in Session, session[t] # Absent, Ends(t), NEW u \in Session
          PROVE  session'[u] = Absent
      BY <1>1, <2>1, <3>1 DEF MasterInv, OneAtATime, Ends
    <3>2. ASSUME Free, UNCHANGED session PROVE \A u \in Session : session'[u] = Absent
      BY <1>1, <2>1, <3>2, NobodyOpen
    <3> QED
      BY <3>1, <3>2
  <2> QED
    BY <2>1, <2>2 DEF OneAtATime, StillSo, Is
<1> QED
  BY <1>3, <1>4 DEF MasterInv

\* A step of the documents that may begin or end a request.
LEMMA MasterUnchanged ==
  ASSUME MasterInv, UNCHANGED <<ops, session, catalogue>>
  PROVE  MasterInv'
<1>1. UNCHANGED <<ops, session, category, unit, product, conversion, price>>
  BY DEF catalogue
<1>2. MasterRows'
  BY <1>1 DEF MasterInv, MasterRows
<1>3. \A t \in Session : Asked(t)'
  BY <1>1 DEF MasterInv, Asked, Is
<1>4. ASSUME ~Overlap' PROVE OneAtATime' /\ Fit' /\ \A u \in Session : StillSo(u)'
  <2>1. OneAtATime /\ Fit /\ \A u \in Session : StillSo(u)
    BY <1>1, <1>4 DEF MasterInv, Overlap
  <2>2. OneAtATime' /\ Fit'
    BY <1>1, <2>1 DEF OneAtATime, Fit, Tree, Lives, FactorsCount, LiveProduct, PricesDiffer
  <2>3. ASSUME NEW u \in Session PROVE StillSo(u)'
    <3>1. StillSo(u)
      BY <2>1
    <3>2. \A k \in Category, parent \in Category \cup {Absent} :
            ParentOK(k, parent)' <=> ParentOK(k, parent)
      BY <1>1 DEF ParentOK, AcyclicParent, Walk, LiveCategory
    <3>3. Is(u, "category") => session[u].id \in Category /\ session[u].row \in CategoryRow
      BY DEF MasterInv, Asked
    <3>4. Is(u, "category") => session[u].row.parent \in Category \cup {Absent}
      BY <3>3 DEF CategoryRow
    <3> QED
      BY <1>1, <3>1, <3>2, <3>3, <3>4
      DEF StillSo, Is, LiveCategory, NameOK, NameTaken, UnitInUse, LiveProduct, BaseMayChange
  <2> QED
    BY <2>2, <2>3
<1> QED
  BY <1>2, <1>3, <1>4 DEF MasterInv

-----------------------------------------------------------------------------
(* The requests of the product master.                                     *)

LEMMA InitMaster == InitCatalogue => MasterInv
<1> SUFFICES ASSUME InitCatalogue PROVE MasterInv
  OBVIOUS
<1>1. PICK u \in Unit :
        /\ unit = [v \in Unit |-> IF v = u THEN "live" ELSE Absent]
        /\ product = [p \in Product |->
             IF "products" \in ops THEN Absent
             ELSE [base |-> u, category |-> Absent, live |-> TRUE]]
  BY DEF InitCatalogue
<1>2. /\ ops \in Mixes /\ session = [t \in Session |-> Absent]
      /\ category = [k \in Category |-> Absent]
      /\ conversion = [p \in Product |-> [v \in Unit |-> Absent]] /\ price = Stock
  BY DEF InitCatalogue
<1>3. product \in [Product -> ProductRow \cup {Absent}]
  <2>1. [base |-> u, category |-> Absent, live |-> TRUE] \in ProductRow
    BY DEF ProductRow
  <2> QED
    BY <1>1, <2>1
<1>4. MasterRows
  <2>1. unit \in [Unit -> UnitRow \cup {Absent}]
    BY <1>1 DEF UnitRow
  <2>2. category \in Tables /\ DOMAIN session = Session
        /\ conversion \in [Product -> [Unit -> ConversionRow \cup {Absent}]]
    BY <1>2 DEF Tables
  <2>3. price \in [Price -> PriceRow \cup {Absent}]
    BY <1>2, StockAssumption
  <2> QED
    BY <1>2, <1>3, <2>1, <2>2, <2>3 DEF MasterRows
<1>5. OneAtATime /\ \A t \in Session : Asked(t) /\ StillSo(t)
  BY <1>2 DEF OneAtATime, Asked, StillSo, Is
<1>6. Fit
  <2>1. Tree(category)
    BY <1>2 DEF Tree, Lives
  <2>2. FactorsCount
    BY <1>1, <1>2 DEF FactorsCount, LiveProduct
  <2>3. PricesDiffer
    BY <1>2, StockAssumption DEF PricesDiffer
  <2> QED
    BY <2>1, <2>2, <2>3 DEF Fit
<1> QED
  BY <1>4, <1>5, <1>6 DEF MasterInv

LEMMA CategorySteps ==
  ASSUME MasterInv
  PROVE  /\ \A t \in Session : CategoryRequests(t) \/ CategoryDone(t) => MasterInv'
         /\ \A k \in Category : DeleteCategory(k) => MasterInv'
<1>1. ASSUME NEW t \in Session, NEW k \in Category, NEW name \in Name,
             NEW parent \in Category \cup {Absent},
             CategoryRead(t, k, name, parent)
      PROVE  MasterInv'
  <2> DEFINE row == [name |-> name, parent |-> parent, live |-> TRUE]
             r == [op |-> "category", id |-> k, was |-> category[k], row |-> row]
  <2>1. /\ Reads(t, r) /\ (category[k] = Absent \/ LiveCategory(k))
        /\ NameOK(k, name) /\ ParentOK(k, parent)
    BY <1>1 DEF CategoryRead
  <2> HIDE DEF r
  <2>2. /\ session'[t] = r /\ UNCHANGED <<category, unit, product, conversion, price>>
        /\ category[k] \in CategoryRow \cup {Absent}
    BY <2>1 DEF Reads, Begins, catalogue, MasterInv, MasterRows, Tables
  <2> USE DEF r
  <2>3. Asked(t)'
    <3>1. row \in CategoryRow /\ row.live
      BY DEF CategoryRow
    <3> HIDE DEF row
    <3> QED
      BY <2>2, <3>1 DEF Asked, Is
  <2>4. StillSo(t)'
    <3>1. NameOK(k, name)' <=> NameOK(k, name)
      BY <2>2 DEF NameOK, NameTaken, LiveCategory
    <3>2. ParentOK(k, parent)' <=> ParentOK(k, parent)
      BY <2>2 DEF ParentOK, AcyclicParent, Walk, LiveCategory
    <3>3. category'[k] = category[k] /\ (LiveCategory(k)' <=> LiveCategory(k))
      BY <2>2 DEF LiveCategory
    <3> QED
      BY <2>1, <2>2, <3>1, <3>2, <3>3 DEF StillSo, Is
  <2> HIDE DEF r
  <2> QED
    BY <2>1, <2>3, <2>4, ReadKeeps
<1>2. ASSUME NEW t \in Session, CategoryDone(t) PROVE MasterInv'
  <2> DEFINE k == session[t].id
             row == session[t].row
             was == session[t].was
             new == IF was = Absent THEN row
                    ELSE [category[k] EXCEPT
                            !.name = IF row.name = was.name THEN category[k].name ELSE row.name,
                            !.parent = IF row.parent = was.parent THEN category[k].parent
                                       ELSE row.parent]
  <2>1. /\ Is(t, "category") /\ Ends(t) /\ ops' = ops
        /\ (was = Absent) = (category[k] = Absent)
        /\ category' = [category EXCEPT ![k] = new]
        /\ UNCHANGED <<unit, product, conversion, price>>
    BY <1>2 DEF CategoryDone, Writes
  <2>2. /\ k \in Category /\ row \in CategoryRow /\ was \in CategoryRow \cup {Absent} /\ row.live
        /\ category \in Tables /\ category[k] \in CategoryRow \cup {Absent}
    BY <2>1 DEF MasterInv, MasterRows, Asked, Tables
  <2>3. new \in CategoryRow
    BY <2>1, <2>2 DEF CategoryRow
  <2>4. category' \in Tables /\ category'[k] = new
        /\ \A c \in Category \ {k} : category'[c] = category[c]
    BY <2>1, <2>2, <2>3 DEF Tables
  <2>5. MasterRows'
    BY <2>1, <2>4 DEF MasterInv, MasterRows, Ends
  <2>6. ASSUME ~Overlap PROVE Fit'
    <3>1. /\ was = category[k] /\ (category[k] = Absent \/ LiveCategory(k))
          /\ NameOK(k, row.name) /\ ParentOK(k, row.parent) /\ Fit
      BY <2>1, <2>6 DEF MasterInv, StillSo
    <3>2. new.live /\ new.name = row.name /\ new.parent = row.parent
      <4>1. CASE was = Absent
        BY <2>2, <4>1
      <4>2. CASE was # Absent
        <5>1. was \in CategoryRow /\ was = category[k] /\ category[k].live
          BY <2>2, <3>1, <4>2 DEF LiveCategory
        <5> QED
          BY <2>2, <4>2, <5>1 DEF CategoryRow
      <4> QED
        BY <4>1, <4>2
    <3>3. Lives(category', k) /\ category'[k].name = row.name /\ category'[k].parent = row.parent
      <4>1. new # Absent
        BY <2>3, AbsentAssumption
      <4> QED
        BY <2>4, <3>2, <4>1 DEF Lives
    <3>4. \A j \in Category \ {k} : Lives(category, j) => category[j].name # row.name
      <4>1. CASE ~NameTaken(k, row.name)
        BY <4>1 DEF NameTaken, Lives, LiveCategory
      <4>2. CASE category[k] # Absent /\ row.name = category[k].name
        BY <2>2, <3>1, <4>2 DEF Fit, Tree, Lives, LiveCategory
      <4> QED
        BY <3>1, <4>1, <4>2 DEF NameOK
    <3>5. \/ Lives(category, k) /\ row.parent = category[k].parent
          \/ row.parent = Absent
          \/ /\ row.parent \in Category /\ row.parent # k
             /\ \A n \in 1..Cardinality(Category) :
                  Path(category, row.parent)[n] # Absent => Path(category, row.parent)[n] # k
      BY <3>1, WalkIsPath DEF ParentOK, AcyclicParent, Lives, LiveCategory
    <3>6. Tree(category)
      BY <3>1 DEF Fit
    <3> HIDE DEF k, row, was, new
    <3>7. Tree(category')
      <4>1. CASE Lives(category, k) /\ row.parent = category[k].parent
        BY <2>2, <2>4, <3>3, <3>4, <3>6, <4>1, RenameKeepsTree
      <4>2. CASE ~(Lives(category, k) /\ row.parent = category[k].parent)
        BY <2>2, <2>4, <3>3, <3>4, <3>5, <3>6, <4>2, MoveKeepsTree
      <4> QED
        BY <4>1, <4>2
    <3> QED
      BY <2>1, <3>1, <3>7 DEF Fit, FactorsCount, LiveProduct, PricesDiffer
  <2> QED
    BY <2>1, <2>5, <2>6, WriteKeeps DEF Is
<1>3. ASSUME NEW k \in Category, DeleteCategory(k) PROVE MasterInv'
  <2>1. /\ Free /\ UNCHANGED <<ops, session, unit, product, conversion, price>>
        /\ LiveCategory(k) /\ category' = [category EXCEPT ![k].live = FALSE]
        /\ category \in Tables /\ category[k] \in CategoryRow
    BY <1>3 DEF DeleteCategory, OneStep, MasterInv, MasterRows, Tables, LiveCategory
  <2>2. /\ category' \in Tables /\ ~Lives(category', k)
        /\ \A c \in Category \ {k} : category'[c] = category[c]
    <3>1. /\ [category[k] EXCEPT !.live = FALSE] \in CategoryRow
          /\ [category[k] EXCEPT !.live = FALSE].live = FALSE
      BY <2>1 DEF CategoryRow
    <3> QED
      BY <2>1, <3>1 DEF Tables, Lives
  <2>3. MasterRows'
    BY <2>1, <2>2 DEF MasterInv, MasterRows
  <2>4. ASSUME ~Overlap PROVE Fit'
    <3>1. Fit /\ Tree(category)
      BY <2>4 DEF MasterInv, Fit
    <3> DEFINE cat == category
               new == category'
    <3>2. cat \in Tables /\ new \in Tables /\ ~Lives(new, k) /\ Tree(cat)
          /\ \A c \in Category \ {k} : new[c] = cat[c]
      BY <2>1, <2>2, <3>1
    <3> HIDE DEF cat, new
    <3>3. Tree(new)
      BY <3>2, DeleteKeepsTree
    <3> QED
      BY <2>1, <3>1, <3>3 DEF Fit, FactorsCount, LiveProduct, PricesDiffer, new
  <2> QED
    BY <2>1, <2>3, <2>4, WriteKeeps
<1> QED
  BY <1>1, <1>2, <1>3 DEF CategoryRequests

LEMMA UnitSteps ==
  ASSUME MasterInv
  PROVE  /\ \A t \in Session : UnitRequests(t) \/ DeleteUnitDone(t) => MasterInv'
         /\ \A u \in Unit : CreateUnit(u) => MasterInv'
<1>1. ASSUME NEW t \in Session, NEW u \in Unit, DeleteUnitRead(t, u) PROVE MasterInv'
  <2>1. Reads(t, [op |-> "delete_unit", unit |-> u]) /\ ~UnitInUse(u)
    BY <1>1 DEF DeleteUnitRead
  <2>2. /\ session'[t] = [op |-> "delete_unit", unit |-> u]
        /\ UNCHANGED <<category, unit, product, conversion, price>>
    BY <2>1 DEF Reads, Begins, catalogue, MasterInv, MasterRows
  <2>3. UnitInUse(u)' <=> UnitInUse(u)
    BY <2>2 DEF UnitInUse, LiveProduct
  <2>4. Asked(t)' /\ StillSo(t)'
    <3>1. session'[t].op = "delete_unit" /\ session'[t].unit = u
      BY <2>2
    <3>2. ~UnitInUse(session[t].unit)'
      BY <2>1, <2>3, <3>1 DEF UnitInUse
    <3> QED
      BY <3>1, <3>2 DEF Asked, StillSo, Is
  <2> QED
    BY <2>1, <2>4, ReadKeeps
<1>2. ASSUME NEW t \in Session, DeleteUnitDone(t) PROVE MasterInv'
  <2> DEFINE u == session[t].unit
  <2>1. /\ Is(t, "delete_unit") /\ Ends(t) /\ unit' = [unit EXCEPT ![u] = "deleted"]
        /\ UNCHANGED <<ops, category, product, conversion, price>> /\ u \in Unit
    BY <1>2 DEF DeleteUnitDone, Writes, MasterInv, Asked
  <2>2. MasterRows'
    BY <2>1 DEF MasterInv, MasterRows, UnitRow, Ends
  <2>3. ASSUME ~Overlap PROVE Fit'
    <3>1. ~UnitInUse(u) /\ Fit /\ unit \in [Unit -> UnitRow \cup {Absent}]
          /\ product \in [Product -> ProductRow \cup {Absent}]
      BY <2>1, <2>3 DEF MasterInv, MasterRows, StillSo
    <3> HIDE DEF u
    <3>2. \A p \in Product : LiveProduct(p)' <=> LiveProduct(p)
      BY <2>1 DEF LiveProduct
    <3>3. \A v \in Unit \ {u} : unit'[v] = unit[v]
      BY <2>1, <3>1
    <3>4. ASSUME NEW p \in Product, LiveProduct(p)
          PROVE  product[p].base \in Unit \ {u} /\ conversion[p][u] = Absent
      BY <2>1, <3>1, <3>4 DEF LiveProduct, ProductRow, UnitInUse
    <3>5. FactorsCount'
      BY <2>1, <3>1, <3>2, <3>3, <3>4 DEF Fit, FactorsCount
    <3> QED
      BY <2>1, <3>1, <3>5 DEF Fit, PricesDiffer
  <2> QED
    BY <2>1, <2>2, <2>3, WriteKeeps DEF Is
<1>3. ASSUME NEW u \in Unit, CreateUnit(u) PROVE MasterInv'
  <2>1. /\ Free /\ UNCHANGED <<ops, session, category, product, conversion, price>>
        /\ unit[u] = Absent /\ unit' = [unit EXCEPT ![u] = "live"]
    BY <1>3 DEF CreateUnit, OneStep
  <2>2. MasterRows'
    BY <2>1 DEF MasterInv, MasterRows, UnitRow
  <2>3. ASSUME ~Overlap PROVE Fit'
    <3>1. Fit /\ unit \in [Unit -> UnitRow \cup {Absent}]
      BY <2>3 DEF MasterInv, MasterRows
    <3>2. FactorsCount'
      BY <2>1, <3>1 DEF Fit, FactorsCount, LiveProduct
    <3> QED
      BY <2>1, <3>1, <3>2 DEF Fit, PricesDiffer
  <2> QED
    BY <2>1, <2>2, <2>3, WriteKeeps
<1> QED
  BY <1>1, <1>2, <1>3 DEF UnitRequests

LEMMA PriceSteps ==
  ASSUME MasterInv
  PROVE  /\ \A t \in Session : PriceRequests(t) \/ CreatePriceDone(t) => MasterInv'
         /\ \A i \in Price : DeletePrice(i) => MasterInv'
<1>1. ASSUME NEW t \in Session, NEW row \in PriceRows, CreatePriceRead(t, row) PROVE MasterInv'
  <2>1. /\ Reads(t, [op |-> "price", row |-> row])
        /\ ~\E i \in Price : price[i] # Absent /\ SameKey(price[i], row)
    BY <1>1 DEF CreatePriceRead
  <2>2. /\ session'[t] = [op |-> "price", row |-> row] /\ row \in PriceRow
        /\ UNCHANGED <<category, unit, product, conversion, price>>
    BY <2>1, StockAssumption DEF Reads, Begins, catalogue, MasterInv, MasterRows
  <2>3. Asked(t)' /\ StillSo(t)'
    BY <2>1, <2>2 DEF Asked, StillSo, Is
  <2> QED
    BY <2>1, <2>3, ReadKeeps
<1>2. ASSUME NEW t \in Session, CreatePriceDone(t) PROVE MasterInv'
  <2> DEFINE row == session[t].row
  <2>1. /\ Is(t, "price") /\ Ends(t) /\ UNCHANGED <<ops, category, unit, product, conversion>>
        /\ row \in PriceRow
    BY <1>2 DEF CreatePriceDone, Writes, MasterInv, Asked
  <2>2. PICK i \in Price : price[i] = Absent /\ price' = [price EXCEPT ![i] = row]
    BY <1>2 DEF CreatePriceDone
  <2>3. MasterRows'
    BY <2>1, <2>2 DEF MasterInv, MasterRows, Ends
  <2>4. ASSUME ~Overlap PROVE Fit'
    <3>1. /\ \A j \in Price : price[j] # Absent => ~SameKey(price[j], row)
          /\ Fit /\ price \in [Price -> PriceRow \cup {Absent}]
      BY <2>1, <2>4 DEF MasterInv, MasterRows, StillSo
    <3>2. PricesDiffer'
      BY <2>2, <3>1 DEF Fit, PricesDiffer, SameKey
    <3> QED
      BY <2>1, <3>1, <3>2 DEF Fit, FactorsCount, LiveProduct
  <2> QED
    BY <2>1, <2>3, <2>4, WriteKeeps DEF Is
<1>3. ASSUME NEW i \in Price, DeletePrice(i) PROVE MasterInv'
  <2>1. /\ Free /\ UNCHANGED <<ops, session, category, unit, product, conversion>>
        /\ price' = [price EXCEPT ![i] = Absent]
    BY <1>3 DEF DeletePrice, OneStep
  <2>2. MasterRows'
    BY <2>1 DEF MasterInv, MasterRows
  <2>3. ASSUME ~Overlap PROVE Fit'
    <3>1. Fit /\ price \in [Price -> PriceRow \cup {Absent}]
      BY <2>3 DEF MasterInv, MasterRows
    <3>2. PricesDiffer'
      BY <2>1, <3>1 DEF Fit, PricesDiffer
    <3> QED
      BY <2>1, <3>1, <3>2 DEF Fit, FactorsCount, LiveProduct
  <2> QED
    BY <2>1, <2>2, <2>3, WriteKeeps
<1> QED
  BY <1>1, <1>2, <1>3 DEF PriceRequests

LEMMA CreateProductSteps ==
  ASSUME MasterInv, NEW t \in Session, NEW p \in Product
  PROVE  /\ \A u \in Unit, k \in Category \cup {Absent} :
              CreateProductRead(t, p, u, k) => MasterInv'
         /\ CreateProductDone(t) => MasterInv'
<1>1. ASSUME NEW u \in Unit, NEW k \in Category \cup {Absent}, CreateProductRead(t, p, u, k)
      PROVE  MasterInv'
  <2> DEFINE row == [base |-> u, category |-> k, live |-> TRUE]
             r == [op |-> "create_product", id |-> p, row |-> row]
  <2>1. Reads(t, r) /\ unit[u] = "live"
    BY <1>1 DEF CreateProductRead, RefsOK
  <2>2. row \in ProductRow /\ row.base = u /\ row.live
    BY DEF ProductRow
  <2> HIDE DEF row
  <2>3. session'[t] = r /\ UNCHANGED <<category, unit, product, conversion, price>>
    BY <2>1 DEF Reads, Begins, catalogue, MasterInv, MasterRows
  <2>4. Asked(t)' /\ StillSo(t)'
    BY <2>1, <2>2, <2>3 DEF Asked, StillSo, Is
  <2> HIDE DEF r
  <2> QED
    BY <2>1, <2>4, ReadKeeps
<1>2. ASSUME CreateProductDone(t) PROVE MasterInv'
  <2> DEFINE q == session[t].id
             row == session[t].row
  <2>1. /\ Is(t, "create_product") /\ Ends(t) /\ product[q] = Absent
        /\ product' = [product EXCEPT ![q] = row] /\ q \in Product /\ row \in ProductRow
        /\ UNCHANGED <<ops, category, unit, conversion, price>>
        /\ product \in [Product -> ProductRow \cup {Absent}]
    BY <1>2 DEF CreateProductDone, Writes, MasterInv, MasterRows, Asked
  <2> HIDE DEF q, row
  <2>2. /\ product'[q] = row /\ row # Absent /\ \A o \in Product \ {q} : product'[o] = product[o]
        /\ product' \in [Product -> ProductRow \cup {Absent}]
    BY <2>1, AbsentAssumption
  <2>3. MasterRows'
    BY <2>1, <2>2 DEF MasterInv, MasterRows, Ends
  <2>4. ASSUME ~Overlap PROVE Fit'
    <3>1. row.live /\ unit[row.base] = "live" /\ Fit
      BY <2>1, <2>4 DEF MasterInv, StillSo, row
    <3>2. \A u \in Unit : conversion[q][u] = Absent
      BY <2>1, <3>1 DEF Fit, FactorsCount, LiveProduct
    <3>3. ASSUME NEW o \in Product
          PROVE  (IF ~LiveProduct(o) THEN \A u \in Unit : conversion[o][u] = Absent
                  ELSE /\ unit[product[o].base] = "live"
                       /\ \A u \in Unit : conversion[o][u] # Absent =>
                            unit[u] = "live" /\ conversion[o][u].of = product[o].base)'
      <4>1. CASE o = q
        BY <2>1, <2>2, <3>1, <3>2, <4>1 DEF LiveProduct
      <4>2. CASE o # q
        BY <2>1, <2>2, <3>1, <4>2 DEF Fit, FactorsCount, LiveProduct
      <4> QED
        BY <4>1, <4>2
    <3>4. FactorsCount'
      BY <3>3 DEF FactorsCount
    <3> QED
      BY <2>1, <3>1, <3>4 DEF Fit, PricesDiffer
  <2>5. \A o \in Product : product[o] # Absent => product'[o] # Absent
    BY <2>1, <2>2
  <2> QED
    BY <2>1, <2>3, <2>4, <2>5, WriteKeeps DEF Is
<1> QED
  BY <1>1, <1>2

LEMMA UpdateProductSteps ==
  ASSUME MasterInv, NEW t \in Session, NEW p \in Product
  PROVE  /\ \A u \in Unit, k \in Category \cup {Absent} :
              UpdateProductRead(t, p, u, k) => MasterInv'
         /\ UpdateProductDone(t) => MasterInv'
<1>1. ASSUME NEW u \in Unit, NEW k \in Category \cup {Absent}, UpdateProductRead(t, p, u, k)
      PROVE  MasterInv'
  <2> DEFINE r == [op |-> "update_product", id |-> p, was |-> product[p], base |-> u,
                   category |-> k]
  <2>1. Reads(t, r) /\ LiveProduct(p) /\ BaseMayChange(p, u) /\ unit[u] = "live"
    BY <1>1 DEF UpdateProductRead, RefsOK
  <2>2. session'[t] = r /\ UNCHANGED <<category, unit, product, conversion, price>>
    BY <2>1 DEF Reads, Begins, catalogue, MasterInv, MasterRows
  <2>3. Asked(t)'
    BY <2>1, <2>2 DEF Asked, Is, LiveProduct
  <2>4. StillSo(t)'
    BY <2>1, <2>2 DEF StillSo, Is, LiveProduct, BaseMayChange
  <2> HIDE DEF r
  <2> QED
    BY <2>1, <2>3, <2>4, ReadKeeps
<1>2. ASSUME UpdateProductDone(t) PROVE MasterInv'
  <2> DEFINE q == session[t].id
             was == session[t].was
             base == IF session[t].base = was.base THEN product[q].base ELSE session[t].base
             cat == IF session[t].category = was.category THEN product[q].category
                    ELSE session[t].category
  <2>1. /\ Is(t, "update_product") /\ Ends(t) /\ q \in Product /\ product[q] # Absent
        /\ product' = [product EXCEPT ![q] = [product[q] EXCEPT !.base = base, !.category = cat]]
        /\ UNCHANGED <<ops, category, unit, conversion, price>>
        /\ product \in [Product -> ProductRow \cup {Absent}]
        /\ session[t].base \in Unit /\ session[t].category \in Category \cup {Absent}
    BY <1>2 DEF UpdateProductDone, Writes, MasterInv, MasterRows, Asked
  <2>2. product[q] \in ProductRow /\ base \in Unit /\ cat \in Category \cup {Absent}
    BY <2>1 DEF ProductRow
  <2>3. \/ base = session[t].base
        \/ base = product[q].base /\ session[t].base = was.base
    OBVIOUS
  <2> HIDE DEF q, base, cat, was
  <2> DEFINE new == [product[q] EXCEPT !.base = base, !.category = cat]
  <2>4. new \in ProductRow /\ new.base = base /\ new.live = product[q].live /\ new # Absent
    BY <2>2, AbsentAssumption DEF ProductRow
  <2>5. product' = [product EXCEPT ![q] = new]
    BY <2>1
  <2> HIDE DEF new
  <2>6. /\ product'[q] = new /\ \A o \in Product \ {q} : product'[o] = product[o]
        /\ product' \in [Product -> ProductRow \cup {Absent}]
    BY <2>1, <2>4, <2>5
  <2>7. MasterRows'
    BY <2>1, <2>6 DEF MasterInv, MasterRows, Ends
  <2>8. ASSUME ~Overlap PROVE Fit'
    <3>1. /\ was = product[q] /\ LiveProduct(q) /\ BaseMayChange(q, session[t].base)
          /\ unit[session[t].base] = "live" /\ Fit
      BY <2>1, <2>8 DEF MasterInv, StillSo, q, was
    <3>2. base = session[t].base
      BY <2>3, <3>1
    <3>3. ASSUME NEW o \in Product
          PROVE  (IF ~LiveProduct(o) THEN \A u \in Unit : conversion[o][u] = Absent
                  ELSE /\ unit[product[o].base] = "live"
                       /\ \A u \in Unit : conversion[o][u] # Absent =>
                            unit[u] = "live" /\ conversion[o][u].of = product[o].base)'
      <4>1. CASE o = q
        BY <2>1, <2>4, <2>6, <3>1, <3>2, <4>1 DEF Fit, FactorsCount, LiveProduct, BaseMayChange
      <4>2. CASE o # q
        BY <2>1, <2>6, <3>1, <4>2 DEF Fit, FactorsCount, LiveProduct
      <4> QED
        BY <4>1, <4>2
    <3>4. FactorsCount'
      BY <3>3 DEF FactorsCount
    <3> QED
      BY <2>1, <3>1, <3>4 DEF Fit, PricesDiffer
  <2>9. \A o \in Product : product[o] # Absent => product'[o] # Absent
    BY <2>4, <2>6
  <2> QED
    BY <2>1, <2>7, <2>8, <2>9, WriteKeeps DEF Is
<1> QED
  BY <1>1, <1>2

LEMMA DeleteProductSteps ==
  ASSUME MasterInv, NEW t \in Session, NEW p \in Product
  PROVE  /\ DeleteProductRead(t, p) => MasterInv'
         /\ DeleteProductDone(t) => MasterInv'
<1>1. ASSUME DeleteProductRead(t, p) PROVE MasterInv'
  <2> DEFINE units == {u \in Unit : conversion[p][u] # Absent}
             prices == {i \in Price : price[i] # Absent /\ price[i].product = p}
             r == [op |-> "delete_product", id |-> p, units |-> units, prices |-> prices]
  <2>1. Reads(t, r) /\ LiveProduct(p)
    BY <1>1 DEF DeleteProductRead
  <2> HIDE DEF prices
  <2>2. session'[t] = r /\ UNCHANGED <<category, unit, product, conversion, price>>
    BY <2>1 DEF Reads, Begins, catalogue, MasterInv, MasterRows
  <2>3. Asked(t)'
    BY <2>1, <2>2 DEF Asked, Is, LiveProduct
  <2>4. StillSo(t)'
    BY <2>1, <2>2 DEF StillSo, Is, LiveProduct
  <2> HIDE DEF r
  <2> QED
    BY <2>1, <2>3, <2>4, ReadKeeps
<1>2. ASSUME DeleteProductDone(t) PROVE MasterInv'
  <2> DEFINE q == session[t].id
             gone == session[t].units
             kept == [u \in Unit |-> IF u \in gone THEN Absent ELSE conversion[q][u]]
             dead == [product[q] EXCEPT !.live = FALSE]
  <2>1. /\ Is(t, "delete_product") /\ Ends(t) /\ q \in Product /\ product[q] # Absent
        /\ product' = [product EXCEPT ![q] = dead]
        /\ conversion' = [conversion EXCEPT ![q] = kept]
        /\ price' = [i \in Price |-> IF i \in session[t].prices THEN Absent ELSE price[i]]
        /\ UNCHANGED <<ops, category, unit>>
        /\ product \in [Product -> ProductRow \cup {Absent}]
        /\ conversion \in [Product -> [Unit -> ConversionRow \cup {Absent}]]
        /\ price \in [Price -> PriceRow \cup {Absent}]
    BY <1>2 DEF DeleteProductDone, Writes, MasterInv, MasterRows, Asked
  <2>2. dead \in ProductRow /\ dead.live = FALSE /\ dead # Absent
    BY <2>1, AbsentAssumption DEF ProductRow
  <2>3. kept \in [Unit -> ConversionRow \cup {Absent}]
    BY <2>1
  <2>4. \A u \in gone \cap Unit : kept[u] = Absent
    OBVIOUS
  <2>5. \A u \in Unit \ gone : kept[u] = conversion[q][u]
    OBVIOUS
  <2> HIDE DEF q, gone, kept, dead
  <2>6. /\ product'[q] = dead /\ \A o \in Product \ {q} : product'[o] = product[o]
        /\ product' \in [Product -> ProductRow \cup {Absent}]
        /\ conversion'[q] = kept /\ \A o \in Product \ {q} : conversion'[o] = conversion[o]
        /\ conversion' \in [Product -> [Unit -> ConversionRow \cup {Absent}]]
        /\ price' \in [Price -> PriceRow \cup {Absent}]
        /\ \A i \in Price : price'[i] # Absent => price'[i] = price[i]
    BY <2>1, <2>2, <2>3
  <2>7. MasterRows'
    BY <2>1, <2>6 DEF MasterInv, MasterRows, Ends
  <2>8. ASSUME ~Overlap PROVE Fit'
    <3>1. gone = {u \in Unit : conversion[q][u] # Absent} /\ Fit
      BY <2>1, <2>8 DEF MasterInv, StillSo, q, gone
    <3>2. ASSUME NEW o \in Product
          PROVE  (IF ~LiveProduct(o) THEN \A u \in Unit : conversion[o][u] = Absent
                  ELSE /\ unit[product[o].base] = "live"
                       /\ \A u \in Unit : conversion[o][u] # Absent =>
                            unit[u] = "live" /\ conversion[o][u].of = product[o].base)'
      <4>1. CASE o = q
        BY <2>2, <2>4, <2>5, <2>6, <3>1, <4>1 DEF LiveProduct
      <4>2. CASE o # q
        BY <2>1, <2>6, <3>1, <4>2 DEF Fit, FactorsCount, LiveProduct
      <4> QED
        BY <4>1, <4>2
    <3>3. FactorsCount'
      BY <3>2 DEF FactorsCount
    <3>4. PricesDiffer'
      BY <2>6, <3>1 DEF Fit, PricesDiffer
    <3> QED
      BY <2>1, <3>1, <3>3, <3>4 DEF Fit
  <2>9. \A o \in Product : product[o] # Absent => product'[o] # Absent
    BY <2>2, <2>6
  <2> QED
    BY <2>1, <2>7, <2>8, <2>9, WriteKeeps DEF Is
<1> QED
  BY <1>1, <1>2

LEMMA ConversionSteps ==
  ASSUME MasterInv
  PROVE  /\ \A t \in Session : ConversionRequests(t) \/ CreateConversionDone(t) => MasterInv'
         /\ \A p \in Product, u \in Unit : DeleteConversion(p, u) => MasterInv'
<1>1. ASSUME NEW t \in Session, NEW p \in Product, NEW u \in Unit, NEW f \in Factor,
             CreateConversionRead(t, p, u, f)
      PROVE  MasterInv'
  <2> DEFINE row == [factor |-> f, of |-> product[p].base]
             r == [op |-> "conversion", id |-> p, unit |-> u, row |-> row]
  <2>1. Reads(t, r) /\ LiveProduct(p) /\ u # product[p].base /\ unit[u] = "live"
    BY <1>1 DEF CreateConversionRead
  <2>2. row \in ConversionRow /\ row.of = product[p].base
    BY <2>1 DEF MasterInv, MasterRows, LiveProduct, ProductRow, ConversionRow
  <2> HIDE DEF row
  <2>3. session'[t] = r /\ UNCHANGED <<category, unit, product, conversion, price>>
    BY <2>1 DEF Reads, Begins, catalogue, MasterInv, MasterRows
  <2>4. Asked(t)' /\ StillSo(t)'
    BY <2>1, <2>2, <2>3 DEF Asked, StillSo, Is, LiveProduct
  <2> HIDE DEF r
  <2> QED
    BY <2>1, <2>4, ReadKeeps
<1>2. ASSUME NEW t \in Session, CreateConversionDone(t) PROVE MasterInv'
  <2> DEFINE q == session[t].id
             v == session[t].unit
             row == session[t].row
  <2>1. /\ Is(t, "conversion") /\ Ends(t) /\ q \in Product /\ v \in Unit /\ row \in ConversionRow
        /\ conversion' = [conversion EXCEPT ![q][v] = row]
        /\ UNCHANGED <<ops, category, unit, product, price>>
        /\ conversion \in [Product -> [Unit -> ConversionRow \cup {Absent}]]
    BY <1>2 DEF CreateConversionDone, Writes, MasterInv, MasterRows, Asked
  <2> HIDE DEF q, v, row
  <2>2. /\ conversion' \in [Product -> [Unit -> ConversionRow \cup {Absent}]]
        /\ conversion'[q][v] = row
        /\ \A o \in Product, u \in Unit : o # q \/ u # v => conversion'[o][u] = conversion[o][u]
    BY <2>1
  <2>3. MasterRows'
    BY <2>1, <2>2 DEF MasterInv, MasterRows, Ends
  <2>4. ASSUME ~Overlap PROVE Fit'
    <3>1. LiveProduct(q) /\ unit[v] = "live" /\ row.of = product[q].base /\ Fit
      BY <2>1, <2>4 DEF MasterInv, StillSo, q, v, row
    <3>2. \A o \in Product : LiveProduct(o)' <=> LiveProduct(o)
      BY <2>1 DEF LiveProduct
    <3>3. FactorsCount'
      BY <2>1, <2>2, <3>1, <3>2 DEF Fit, FactorsCount
    <3> QED
      BY <2>1, <3>1, <3>3 DEF Fit, PricesDiffer
  <2> QED
    BY <2>1, <2>3, <2>4, WriteKeeps DEF Is
<1>3. ASSUME NEW p \in Product, NEW u \in Unit, DeleteConversion(p, u) PROVE MasterInv'
  <2>1. /\ Free /\ UNCHANGED <<ops, session, category, unit, product, price>>
        /\ conversion' = [conversion EXCEPT ![p][u] = Absent]
        /\ conversion \in [Product -> [Unit -> ConversionRow \cup {Absent}]]
    BY <1>3 DEF DeleteConversion, OneStep, MasterInv, MasterRows
  <2>2. /\ conversion' \in [Product -> [Unit -> ConversionRow \cup {Absent}]]
        /\ \A o \in Product, v \in Unit :
             conversion'[o][v] = Absent \/ conversion'[o][v] = conversion[o][v]
    BY <2>1
  <2>3. MasterRows'
    BY <2>1, <2>2 DEF MasterInv, MasterRows
  <2>4. ASSUME ~Overlap PROVE Fit'
    <3>1. Fit
      BY <2>4 DEF MasterInv
    <3>2. \A o \in Product : LiveProduct(o)' <=> LiveProduct(o)
      BY <2>1 DEF LiveProduct
    <3>3. FactorsCount'
      BY <2>1, <2>2, <3>1, <3>2 DEF Fit, FactorsCount
    <3> QED
      BY <2>1, <3>1, <3>3 DEF Fit, PricesDiffer
  <2> QED
    BY <2>1, <2>3, <2>4, WriteKeeps
<1> QED
  BY <1>1, <1>2, <1>3 DEF ConversionRequests

\* A request that is lost ends.
LEMMA AbandonMaster ==
  ASSUME MasterInv, NEW t \in Session, session[t] # Absent, Ends(t), UNCHANGED <<ops, catalogue>>
  PROVE  MasterInv'
<1>1. UNCHANGED <<ops, category, unit, product, conversion, price>>
  BY DEF catalogue
<1>2. MasterRows'
  BY <1>1 DEF MasterInv, MasterRows, Ends
<1>3. ~Overlap => Fit'
  BY <1>1 DEF MasterInv, Fit, Tree, Lives, FactorsCount, LiveProduct, PricesDiffer
<1> QED
  BY <1>1, <1>2, <1>3, WriteKeeps

\* A request that is none of the product master's begins.
LEMMA DocumentBegins ==
  ASSUME MasterInv, NEW t \in Session, NEW r, Reads(t, r), r.op \in {"accept", "show", "flip"}
  PROVE  MasterInv'
<1>1. session'[t] = r
  BY DEF Reads, Begins, MasterInv, MasterRows
<1>2. Asked(t)' /\ StillSo(t)'
  BY <1>1 DEF Asked, StillSo, Is
<1> QED
  BY <1>2, ReadKeeps

LEMMA MasterSteps ==
  ASSUME MasterInv, CatalogueNext
  PROVE  MasterInv'
<1>1. ASSUME NEW t \in Session,
             \/ CategoryRequests(t) \/ UnitRequests(t) \/ ConversionRequests(t) \/ PriceRequests(t)
             \/ CategoryDone(t) \/ DeleteUnitDone(t) \/ CreateConversionDone(t)
             \/ CreatePriceDone(t)
      PROVE  MasterInv'
  BY <1>1, CategorySteps, UnitSteps, ConversionSteps, PriceSteps
<1>2. ASSUME NEW t \in Session,
             \/ ProductRequests(t) \/ CreateProductDone(t)
             \/ UpdateProductDone(t) \/ DeleteProductDone(t)
      PROVE  MasterInv'
  <2>1. ASSUME NEW p \in Product, NEW u \in Unit, NEW k \in Category \cup {Absent},
               CreateProductRead(t, p, u, k) \/ UpdateProductRead(t, p, u, k)
        PROVE  MasterInv'
    BY <2>1, CreateProductSteps, UpdateProductSteps
  <2>2. ASSUME NEW p \in Product, DeleteProductRead(t, p) PROVE MasterInv'
    BY <2>2, DeleteProductSteps
  <2>3. ASSUME CreateProductDone(t) \/ UpdateProductDone(t) \/ DeleteProductDone(t) PROVE MasterInv'
    <3>1. session[t].id \in Product
      BY <2>3 DEF CreateProductDone, UpdateProductDone, DeleteProductDone, Writes, MasterInv, Asked
    <3> QED
      BY <2>3, <3>1, CreateProductSteps, UpdateProductSteps, DeleteProductSteps
  <2> QED
    BY <1>2, <2>1, <2>2, <2>3 DEF ProductRequests
<1> QED
  BY <1>1, <1>2, CategorySteps, UnitSteps, ConversionSteps, PriceSteps DEF CatalogueNext

-----------------------------------------------------------------------------
(* What follows of the product master.                                     *)

LEMMA FactorsAgree ==
  ASSUME MasterRows, FactorsCount, NEW p \in Product, LiveProduct(p),
         NEW u \in Known(p), NEW v \in Known(p), NEW w \in Known(p)
  PROVE  Same(Times(ResolveFactor(p, u, v), ResolveFactor(p, v, w)), ResolveFactor(p, u, w))
<1>1. ASSUME NEW x \in Known(p)
      PROVE  ToBase(p, x)[1] \in Nat \ {0} /\ ToBase(p, x)[2] = 1
  <2>1. CASE x = product[p].base
    BY <2>1 DEF ToBase
  <2>2. CASE x # product[p].base
    <3>1. conversion[p][x] \in ConversionRow
      BY <2>2 DEF Known, MasterRows
    <3> QED
      BY <2>2, <3>1, FactorAssumption DEF ToBase, ConversionRow
  <2> QED
    BY <2>1, <2>2
<1> DEFINE a == ToBase(p, u)[1]
           b == ToBase(p, v)[1]
           c == ToBase(p, w)[1]
<1>2. a \in Nat \ {0} /\ b \in Nat \ {0} /\ c \in Nat \ {0}
  BY <1>1
<1>3. /\ ToBase(p, u)[2] = 1 /\ ToBase(p, v)[2] = 1 /\ ToBase(p, w)[2] = 1
  BY <1>1
<1> DEFINE F(x, y, f, g) == IF x = y THEN <<1, 1>> ELSE <<f, g>>
<1>4. /\ ResolveFactor(p, u, v) = F(u, v, a, b)
      /\ ResolveFactor(p, v, w) = F(v, w, b, c)
      /\ ResolveFactor(p, u, w) = F(u, w, a, c)
  BY <1>2, <1>3 DEF ResolveFactor
<1>5. /\ u = v => a = b
      /\ v = w => b = c
      /\ u = w => a = c
  OBVIOUS
<1> HIDE DEF a, b, c
<1>6. (a * b) * c = (b * c) * a /\ (a * b) * c = (c * b) * a /\ a * c = c * a /\ a * b = b * a
  BY <1>2
<1>7. Same(Times(F(u, v, a, b), F(v, w, b, c)), F(u, w, a, c))
  BY <1>2, <1>5, <1>6 DEF Same, Times
<1> QED
  BY <1>4, <1>7

LEMMA OneIsBest ==
  ASSUME MasterRows, PricesDiffer, NEW p, NEW type, NEW c, NEW n \in Nat
  PROVE  \A i, j \in Best(RowsOf(p, type, c), n) : i = j
<1> SUFFICES ASSUME NEW i \in Best(RowsOf(p, type, c), n), NEW j \in Best(RowsOf(p, type, c), n)
             PROVE  i = j
  OBVIOUS
<1>1. /\ i \in Price /\ price[i] # Absent /\ price[i].product = p /\ price[i].type = type
      /\ price[i].client = c
      /\ j \in Price /\ price[j] # Absent /\ price[j].product = p /\ price[j].type = type
      /\ price[j].client = c
  BY DEF Best, RowsOf
<1>2. price[i].min_quantity \in Nat /\ price[j].min_quantity \in Nat
  BY <1>1 DEF MasterRows, PriceRow
<1>3. /\ price[i].min_quantity <= price[j].min_quantity
      /\ price[j].min_quantity <= price[i].min_quantity
  BY DEF Best
<1>4. price[i].min_quantity = price[j].min_quantity
  BY <1>2, <1>3
<1> QED
  BY <1>1, <1>4 DEF PricesDiffer, SameKey

LEMMA AtMostOne ==
  ASSUME NEW S, \A x, y \in S : x = y
  PROVE  Cardinality(S) <= 1
<1>1. CASE S = {}
  <2>1. Cardinality({}) = 0
    BY FS_EmptySet
  <2> QED
    BY <1>1, <2>1
<1>2. CASE S # {}
  <2>1. PICK x : x \in S
    BY <1>2
  <2>2. S = {x}
    BY <2>1
  <2>3. Cardinality({x}) = 1
    BY FS_Singleton
  <2> QED
    BY <2>2, <2>3
<1> QED
  BY <1>1, <1>2

LEMMA MasterIsSound == MasterInv => CatalogueIsSound /\ CatalogueTypeOK
<1> SUFFICES ASSUME MasterInv PROVE CatalogueIsSound /\ CatalogueTypeOK
  OBVIOUS
<1>1. CatalogueTypeOK
  BY DEF MasterInv, MasterRows, CatalogueTypeOK, Tables
<1>2. CategoriesAreATree
  BY TreeIs DEF MasterInv, Fit, CategoriesAreATree
<1>3. FactorsFitBase
  <2> SUFFICES ASSUME ~Overlap, NEW p \in Product, product[p] # Absent
               PROVE  IF ~product[p].live THEN \A u \in Unit : conversion[p][u] = Absent
                      ELSE /\ unit[product[p].base] = "live"
                           /\ \A u \in Unit : conversion[p][u] # Absent =>
                                unit[u] = "live" /\ conversion[p][u].of = product[p].base
                           /\ \A u, v, w \in Known(p) :
                                Same(Times(ResolveFactor(p, u, v), ResolveFactor(p, v, w)),
                                     ResolveFactor(p, u, w))
    BY DEF FactorsFitBase, FactorsFit
  <2>1. MasterRows /\ FactorsCount
    BY DEF MasterInv, Fit
  <2> QED
    BY <2>1, FactorsAgree DEF FactorsCount, LiveProduct
<1>4. PriceIsUnambiguous
  <2> SUFFICES ASSUME ~Overlap, NEW p \in Product, NEW c \in Client \cup {Absent}, NEW n \in 0..3
               PROVE  Cardinality(Resolved(p, c, n)) <= 1
    BY DEF PriceIsUnambiguous, OnePrice
  <2>1. MasterRows /\ PricesDiffer /\ n \in Nat
    BY DEF MasterInv, Fit
  <2>2. \A i, j \in Resolved(p, c, n) : i = j
    BY <2>1, OneIsBest DEF Resolved
  <2> QED
    BY <2>2, AtMostOne
<1> QED
  BY <1>1, <1>2, <1>3, <1>4 DEF CatalogueIsSound

-----------------------------------------------------------------------------
(* The documents: their inductive invariant.                               *)

QuotationTables == [Quotation -> QuotationRow \cup {Absent}]
OrderTables == [Order -> OrderRow \cup {Absent}]
InvoiceTables == [Invoice -> InvoiceRow \cup {Absent}]

DocumentRows ==
    /\ today \in 0..LastDay
    /\ enquiry \in [Enquiry -> EnquiryRow \cup {Absent}]
    /\ quotation \in QuotationTables
    /\ order \in OrderTables
    /\ invoice \in InvoiceTables

\* Who accepts a quotation holds it, SENT, behind a lock; who expires what was
\* overdue holds it too while alone.
Answers(t) ==
    /\ Is(t, "accept") \/ Is(t, "show") =>
         session[t].quotation \in Quotation /\ quotation[session[t].quotation] # Absent
    /\ Is(t, "accept") => quotation[session[t].quotation].status = "SENT"
    /\ Is(t, "show") /\ ~Overlap => quotation[session[t].quotation].status = "SENT"

AnswerInv ==
    /\ \A t \in Session : Answers(t)
    /\ \A t, u \in Session :
         Is(t, "accept") /\ Is(u, "accept") =>
           (session[t].quotation = session[u].quotation => t = u)

\* Documents are made from documents that exist.
Sourced ==
    /\ \A i \in Invoice : invoice[i] # Absent =>
         /\ invoice[i].source \in Order => order[invoice[i].source] # Absent
         /\ invoice[i].source \in Quotation => quotation[invoice[i].source] # Absent
    /\ \A o \in Order : order[o] # Absent /\ order[o].quotation # Absent =>
         quotation[order[o].quotation] # Absent

\* What was made from a quotation is one, and what it was made from says so.
Made(q) ==
    /\ \A x, y \in Descendants(q) : x = y
    /\ Descendants(q) # {} =>
         quotation[q] # Absent /\ quotation[q].status \in {"CONVERTED", "EXPIRED"}
    /\ ~Overlap => (Descendants(q) # {} <=>
                      quotation[q] # Absent /\ quotation[q].status = "CONVERTED")

\* Standing and Stands, of any table of invoices.
CountIn(table, o) ==
    {i \in Invoice : /\ table[i] # Absent /\ table[i].source = o
                     /\ table[i].live /\ ~table[i].voided}
SlicesIn(table, o, field) == SumFunction([i \in CountIn(table, o) |-> table[i].line[field]])

\* The slices of an LPO that stand keep within its line, and take all of its discount when
\* they take all of it.
Sliced(table, o, line) ==
    /\ SlicesIn(table, o, "qty") <= line.qty
    /\ SlicesIn(table, o, "discount") <= line.discount
    /\ SlicesIn(table, o, "qty") = line.qty => SlicesIn(table, o, "discount") = line.discount

OrderFits(o) ==
    order[o] # Absent => /\ Sliced(invoice, o, order[o].line)
                         /\ order[o].status = "DRAFT" => CountIn(invoice, o) = {}

DocumentInv ==
    /\ DocumentRows
    /\ AnswerInv
    /\ Sourced
    /\ \A q \in Quotation : Made(q)
    /\ \A o \in Order : OrderFits(o)

\* What a step may do to a quotation: what is converted or has expired stays
\* so, and nothing but SENT expires, unless requests overlap.
Moved(q) ==
    quotation[q] # Absent =>
        /\ quotation'[q] # Absent
        /\ \/ quotation'[q].status = quotation[q].status
           \/ /\ quotation[q].status \notin {"CONVERTED", "EXPIRED"}
              /\ quotation'[q].status = "EXPIRED" => quotation[q].status = "SENT"
           \/ (Overlap /\ quotation'[q].status = "EXPIRED")

-----------------------------------------------------------------------------
(* Slices.                                                                 *)

LEMMA StandingIs ==
  ASSUME NEW o, NEW field
  PROVE  Standing(o) = CountIn(invoice, o) /\ Stands(o, field) = SlicesIn(invoice, o, field)
<1>1. Standing(o) = CountIn(invoice, o)
  BY DEF Standing, Countable, CountIn, Void
<1> QED
  BY <1>1 DEF Stands, SlicesIn

LEMMA SlicesNat ==
  ASSUME NEW table \in InvoiceTables, NEW o, NEW field \in {"qty", "discount"}
  PROVE  /\ SlicesIn(table, o, field) \in Nat
         /\ CountIn(table, o) = {} => SlicesIn(table, o, field) = 0
<1> DEFINE S == CountIn(table, o)
           f == [i \in S |-> table[i].line[field]]
<1>1. IsFiniteSet(S)
  BY InvoiceAssumption, FS_Subset DEF CountIn
<1>2. \A i \in S : f[i] \in Nat
  BY DEF CountIn, InvoiceTables, InvoiceRow, LineRow
<1>3. DOMAIN f = S
  OBVIOUS
<1> HIDE DEF f, S
<1>4. SumFunction(f) \in Nat /\ (S = {} => SumFunction(f) = 0)
  BY <1>1, <1>2, <1>3, SumNat, SumEmpty
<1> QED
  BY <1>4 DEF SlicesIn, f, S

\* Those that stand are among those that count, and all of them when their
\* quantities are the same.
LEMMA AllSlices ==
  ASSUME invoice \in InvoiceTables, NEW o
  PROVE  /\ Slices(o, "qty") \in Nat /\ Slices(o, "discount") \in Nat
         /\ SlicesIn(invoice, o, "qty") <= Slices(o, "qty")
         /\ SlicesIn(invoice, o, "discount") <= Slices(o, "discount")
         /\ SlicesIn(invoice, o, "qty") = Slices(o, "qty") =>
              SlicesIn(invoice, o, "discount") = Slices(o, "discount")
<1> DEFINE S == CountIn(invoice, o)
           T == Countable(o)
           f == [i \in S |-> invoice[i].line["qty"]]
           g == [i \in T |-> invoice[i].line["qty"]]
           h == [i \in T |-> invoice[i].line["discount"]]
           e == [i \in S |-> invoice[i].line["discount"]]
<1>1. IsFiniteSet(S) /\ IsFiniteSet(T) /\ S \subseteq T
  BY InvoiceAssumption, FS_Subset DEF CountIn, Countable
<1>2. /\ DOMAIN f = S /\ DOMAIN g = T /\ DOMAIN h = T /\ DOMAIN e = S
      /\ \A i \in S : f[i] \in Nat /\ f[i] = g[i] /\ e[i] \in Nat /\ e[i] = h[i]
      /\ \A i \in T : g[i] \in Nat \ {0} /\ h[i] \in Nat
  BY <1>1 DEF CountIn, Countable, InvoiceTables, InvoiceRow, LineRow
<1>3. /\ SlicesIn(invoice, o, "qty") = SumFunction(f)
      /\ Slices(o, "qty") = SumFunction(g) /\ Slices(o, "discount") = SumFunction(h)
  BY DEF SlicesIn, Slices
<1>4. /\ SlicesIn(invoice, o, "discount") = SumFunction(e)
      /\ S = T => SumFunction(e) = SumFunction(h)
  BY DEF SlicesIn
<1> HIDE DEF S, T, f, g, h, e
<1>5. SumFunction(f) \in Nat /\ SumFunction(g) \in Nat /\ SumFunction(h) \in Nat
  BY <1>1, <1>2, SumNat
<1>6. SumFunction(f) <= SumFunction(g) /\ SumFunction(e) <= SumFunction(h)
  BY <1>1, <1>2, SumMonotone
<1>7. ASSUME S # T PROVE SumFunction(f) < SumFunction(g)
  <2>1. PICK i \in T : i \notin S
    BY <1>1, <1>7
  <2> DEFINE k == [j \in T \ {i} |-> g[j]]
  <2>2. /\ DOMAIN k = T \ {i} /\ \A j \in T \ {i} : k[j] = g[j] /\ k[j] \in Nat
        /\ IsFiniteSet(T \ {i}) /\ S \subseteq T \ {i}
    BY <1>1, <1>2, <2>1, FS_Subset
  <2> HIDE DEF k
  <2>3. SumFunction(f) <= SumFunction(k) /\ SumFunction(k) \in Nat
    <3>1. \A j \in S : f[j] \in Nat /\ f[j] <= k[j]
      BY <1>1, <1>2, <2>2
    <3> QED
      BY <1>1, <1>2, <2>2, <3>1, SumMonotone, SumNat
  <2>4. SumFunction(g) = SumFunction(k) - At(k, i) + At(g, i)
    BY <1>1, <1>2, <2>2, SumDiffers
  <2>5. At(k, i) = 0 /\ At(g, i) \in Nat \ {0}
    BY <1>2, <2>1, <2>2 DEF At
  <2> QED
    BY <1>5, <2>3, <2>4, <2>5
<1> QED
  BY <1>3, <1>4, <1>5, <1>6, <1>7

\* What one invoice adds to the slices of an LPO.
Part(table, i, o, field) == IF i \in CountIn(table, o) THEN table[i].line[field] ELSE 0

LEMMA OneSlice ==
  ASSUME NEW table \in InvoiceTables, NEW new \in InvoiceTables, NEW i \in Invoice,
         \A j \in Invoice \ {i} : new[j] = table[j], NEW o, NEW field \in {"qty", "discount"}
  PROVE  SlicesIn(new, o, field) =
           SlicesIn(table, o, field) - Part(table, i, o, field) + Part(new, i, o, field)
<1> DEFINE f == [j \in CountIn(table, o) |-> table[j].line[field]]
           g == [j \in CountIn(new, o) |-> new[j].line[field]]
<1>1. DOMAIN f = CountIn(table, o) /\ DOMAIN g = CountIn(new, o)
  OBVIOUS
<1>2. IsFiniteSet(CountIn(table, o)) /\ IsFiniteSet(CountIn(new, o))
  BY InvoiceAssumption, FS_Subset DEF CountIn
<1>3. /\ \A j \in CountIn(table, o) : f[j] \in Int
      /\ \A j \in CountIn(new, o) : g[j] \in Int
  BY DEF CountIn, InvoiceTables, InvoiceRow, LineRow
<1>4. CountIn(table, o) \ {i} = CountIn(new, o) \ {i}
  BY DEF CountIn
<1>5. \A j \in CountIn(table, o) \ {i} : g[j] = f[j]
  BY <1>4 DEF CountIn
<1>6. At(f, i) = Part(table, i, o, field) /\ At(g, i) = Part(new, i, o, field)
  BY <1>1 DEF At, Part
<1> HIDE DEF f, g
<1>7. SumFunction(g) = SumFunction(f) - At(f, i) + At(g, i)
  BY <1>1, <1>2, <1>3, <1>4, <1>5, SumDiffers
<1> QED
  BY <1>6, <1>7 DEF SlicesIn, f, g

\* An invoice of something else changes no slices.
LEMMA OtherSlices ==
  ASSUME NEW table \in InvoiceTables, NEW new \in InvoiceTables, NEW i \in Invoice,
         \A j \in Invoice \ {i} : new[j] = table[j], NEW o,
         i \notin CountIn(table, o), i \notin CountIn(new, o), NEW line, Sliced(table, o, line)
  PROVE  CountIn(new, o) = CountIn(table, o) /\ Sliced(new, o, line)
<1>1. CountIn(new, o) = CountIn(table, o)
  BY DEF CountIn
<1>2. SlicesIn(new, o, "qty") = SlicesIn(table, o, "qty")
      /\ SlicesIn(new, o, "discount") = SlicesIn(table, o, "discount")
  BY OneSlice, SlicesNat DEF Part
<1> QED
  BY <1>1, <1>2 DEF Sliced

LEMMA MoneyNat ==
  ASSUME NEW n \in Nat, NEW d \in Nat \ {0}
  PROVE  Money(n, d) \in Nat
<1>1. 2 * n + d \in Nat /\ 2 * d \in Nat \ {0}
  OBVIOUS
<1>2. ASSUME NEW x \in Nat, NEW y \in Nat \ {0} PROVE x \div y \in Nat
  OBVIOUS
<1> QED
  BY <1>1, <1>2 DEF Money

\* A slice's discount is at most what is left, and all of it in the last slice.
LEMMA SliceFits ==
  ASSUME NEW line \in LineRow, NEW remaining \in Nat, NEW n \in 1..remaining, NEW already \in Nat
  PROVE  LET d == SliceDiscount(line, n, remaining, already)
         IN  /\ d \in Nat
             /\ already > line.discount => d = 0
             /\ already <= line.discount => already + d <= line.discount
             /\ n = remaining /\ already <= line.discount => already + d = line.discount
<1> DEFINE left == line.discount - already
           some == Money(line.discount * n, line.qty)
<1>1. line.discount \in Nat /\ line.qty \in Nat \ {0} /\ n \in Nat
  BY DEF LineRow
<1>2. line.discount * n \in Nat
  BY <1>1
<1>3. some \in Nat
  BY <1>1, <1>2, MoneyNat
<1>4. left \in Int
  BY <1>1
<1> HIDE DEF some
<1>5. SliceDiscount(line, n, remaining, already) =
        IF left <= 0 THEN 0 ELSE IF n >= remaining THEN left ELSE Smaller(some, left)
  BY DEF SliceDiscount, some
<1>6. left > 0 => Smaller(some, left) \in Nat /\ Smaller(some, left) <= left
  BY <1>3, <1>4 DEF Smaller
<1> QED
  BY <1>1, <1>4, <1>5, <1>6

-----------------------------------------------------------------------------
(* Steps of the documents.                                                 *)

LEMMA AnswersKept ==
  ASSUME AnswerInv, ops' = ops,
         \A t \in Session : session'[t] = session[t] \/ ~(Is(t, "accept")' \/ Is(t, "show")'),
         \A q \in Quotation : quotation[q] # Absent => quotation'[q] # Absent,
         \A t \in Session : Is(t, "accept")' \/ (Is(t, "show")' /\ ~Overlap) =>
           quotation'[session'[t].quotation] = quotation[session'[t].quotation]
  PROVE  AnswerInv'
<1>1. \A t \in Session : Is(t, "accept")' \/ Is(t, "show")' =>
        session'[t] = session[t] /\ (Is(t, "accept")' <=> Is(t, "accept"))
        /\ (Is(t, "show")' <=> Is(t, "show"))
  BY DEF Is
<1>2. Overlap' <=> Overlap
  BY DEF Overlap
<1>3. ASSUME NEW t \in Session PROVE Answers(t)'
  BY <1>1, <1>2 DEF AnswerInv, Answers
<1>4. \A t, u \in Session :
        Is(t, "accept")' /\ Is(u, "accept")' =>
          (session'[t].quotation = session'[u].quotation => t = u)
  <2>1. ASSUME NEW t \in Session, NEW u \in Session, Is(t, "accept")', Is(u, "accept")',
               session'[t].quotation = session'[u].quotation
        PROVE  t = u
    <3>1. /\ Is(t, "accept") /\ Is(u, "accept")
          /\ session'[t] = session[t] /\ session'[u] = session[u]
      BY <1>1, <2>1
    <3> QED
      BY <2>1, <3>1 DEF AnswerInv
  <2> QED
    BY <2>1
<1> QED
  BY <1>3, <1>4 DEF AnswerInv

LEMMA MadeKept ==
  ASSUME ops' = ops, NEW q \in Quotation, Made(q), Moved(q), Descendants(q)' = Descendants(q),
         quotation'[q] # Absent /\ quotation'[q].status = "CONVERTED" =>
           quotation[q] # Absent /\ quotation[q].status = "CONVERTED"
  PROVE  Made(q)'
<1>1. Overlap' <=> Overlap
  BY DEF Overlap
<1>2. Descendants(q) # {} => /\ quotation[q] # Absent /\ quotation'[q] # Absent
                             /\ quotation[q].status \in {"CONVERTED", "EXPIRED"}
                             /\ \/ quotation'[q].status = quotation[q].status
                                \/ (Overlap /\ quotation'[q].status = "EXPIRED")
  BY DEF Made, Moved
<1>3. /\ \A x, y \in Descendants(q)' : x = y
      /\ Descendants(q)' # {} =>
           quotation'[q] # Absent /\ quotation'[q].status \in {"CONVERTED", "EXPIRED"}
  BY <1>2 DEF Made
<1>4. ~Overlap => (Descendants(q)' # {} <=>
                     quotation'[q] # Absent /\ quotation'[q].status = "CONVERTED")
  BY <1>2 DEF Made
<1> QED
  BY <1>1, <1>3, <1>4 DEF Made

\* Steps that leave LPOs and invoices alone and convert nothing.
LEMMA QuotationStep ==
  ASSUME DocumentInv, DocumentRows', UNCHANGED <<ops, order, invoice>>, AnswerInv',
         \A q \in Quotation : Moved(q),
         \A q \in Quotation : quotation'[q] # Absent /\ quotation'[q].status = "CONVERTED" =>
                                quotation[q] # Absent /\ quotation[q].status = "CONVERTED"
  PROVE  DocumentInv'
<1>1. Sourced'
  BY DEF DocumentInv, DocumentRows, OrderTables, OrderRow, InvoiceTables, InvoiceRow, Sourced, Moved
<1>2. ASSUME NEW q \in Quotation PROVE Made(q)'
  <2>1. Descendants(q)' = Descendants(q)
    BY DEF Descendants
  <2> QED
    BY <2>1, MadeKept DEF DocumentInv
<1>3. ASSUME NEW o \in Order PROVE OrderFits(o)'
  BY DEF DocumentInv, OrderFits, Sliced, SlicesIn, CountIn
<1> QED
  BY <1>1, <1>2, <1>3 DEF DocumentInv

\* Steps that leave all three alone.
LEMMA NoDocument ==
  ASSUME DocumentInv, DocumentRows', UNCHANGED <<ops, quotation, order, invoice>>,
         \A t \in Session : session'[t] = session[t] \/ ~(Is(t, "accept")' \/ Is(t, "show")')
  PROVE  DocumentInv' /\ \A q \in Quotation : Moved(q)
<1>1. \A q \in Quotation : Moved(q)
  BY DEF Moved
<1>2. AnswerInv'
  BY AnswersKept DEF DocumentInv
<1> QED
  BY <1>1, <1>2, QuotationStep

\* A request of one step that writes one quotation that nobody has locked.
LEMMA OneQuotation ==
  ASSUME MasterInv, DocumentInv, Free, UNCHANGED <<ops, session, today, order, invoice>>,
         enquiry' \in [Enquiry -> EnquiryRow \cup {Absent}],
         NEW q \in Quotation, ~Locked(q), NEW row \in QuotationRow, SetQuotation(q, row),
         row.status # "CONVERTED",
         quotation[q] # Absent =>
           \/ row.status = quotation[q].status
           \/ /\ quotation[q].status \notin {"CONVERTED", "EXPIRED"}
              /\ row.status = "EXPIRED" => quotation[q].status = "SENT"
  PROVE  DocumentInv' /\ \A p \in Quotation : Moved(p)
<1>1. /\ quotation' = [quotation EXCEPT ![q] = row] /\ quotation \in QuotationTables
      /\ row # Absent /\ DOMAIN session = Session
  BY DocumentsAssumption DEF SetQuotation, DocumentInv, DocumentRows, MasterInv, MasterRows
<1>2. /\ quotation'[q] = row /\ \A p \in Quotation \ {q} : quotation'[p] = quotation[p]
      /\ quotation' \in QuotationTables
  BY <1>1 DEF QuotationTables
<1>3. \A p \in Quotation : Moved(p)
  BY <1>1, <1>2 DEF Moved
<1>4. DocumentRows'
  BY <1>2 DEF DocumentInv, DocumentRows
<1>5. AnswerInv'
  <2>1. \A t \in Session : Is(t, "accept") =>
          session[t].quotation \in Quotation /\ session[t].quotation # q
    BY DEF Locked, DocumentInv, AnswerInv, Answers
  <2>2. ~Overlap => \A t \in Session : ~Is(t, "show")
    BY <1>1, NobodyOpen DEF Is
  <2>3. \A t \in Session :
          (Is(t, "accept")' <=> Is(t, "accept")) /\ (Is(t, "show")' <=> Is(t, "show"))
    BY DEF Is
  <2>4. \A p \in Quotation : quotation[p] # Absent => quotation'[p] # Absent
    BY <1>1, <1>2
  <2>5. \A t \in Session : Is(t, "accept")' \/ (Is(t, "show")' /\ ~Overlap) =>
          quotation'[session'[t].quotation] = quotation[session'[t].quotation]
    BY <1>2, <2>1, <2>2, <2>3
  <2> QED
    BY <2>4, <2>5, AnswersKept DEF DocumentInv
<1> QED
  BY <1>1, <1>2, <1>3, <1>4, <1>5, QuotationStep

LEMMA LinesAre ==
  ASSUME MasterInv, NEW c, NEW line \in Lines(c)
  PROVE  line \in LineRow
<1>9. PICK p \in Product, n \in Qty, d \in Discount :
        line \in {Line(n, price[i].price, d) : i \in Resolved(p, c, n)}
  BY DEF Lines
<1>1. PICK i \in Resolved(p, c, n) : line = Line(n, price[i].price, d)
  BY <1>9
<1>2. i \in Price /\ price[i] # Absent
  BY DEF Resolved, Best, RowsOf
<1>3. price[i].price \in Nat
  BY <1>2 DEF MasterInv, MasterRows, PriceRow
<1> QED
  BY <1>1, <1>3, LineAssumption DEF Line, LineRow

LEMMA EnquirySteps ==
  ASSUME MasterInv, DocumentInv, NEW e \in Enquiry, EnquiryRequests(e)
  PROVE  DocumentInv' /\ \A q \in Quotation : Moved(q)
<1>1. enquiry \in [Enquiry -> EnquiryRow \cup {Absent}] /\ DocumentRows /\ LastDay \in Nat
  BY LineAssumption DEF DocumentInv, DocumentRows
<1>2. ASSUME NEW row \in EnquiryRow, enquiry' = [enquiry EXCEPT ![e] = row], Atomic,
             UNCHANGED <<quotation, order, invoice>>
      PROVE  DocumentInv' /\ \A q \in Quotation : Moved(q)
  <2>1. UNCHANGED <<ops, session, today>> /\ DocumentRows'
    BY <1>1, <1>2 DEF Atomic, DocumentRows
  <2> QED
    BY <1>2, <2>1, NoDocument
<1>3. ASSUME NEW c \in Client \cup {Absent}, CreateEnquiry(e, c)
      PROVE  DocumentInv' /\ \A q \in Quotation : Moved(q)
  <2>1. [status |-> "NEW", client |-> c] \in EnquiryRow
    BY DEF EnquiryRow, EnquiryStatus
  <2> QED
    BY <1>2, <1>3, <2>1 DEF CreateEnquiry
<1>4. ASSUME NEW c \in Client \cup {Absent}, UpdateEnquiry(e, c)
      PROVE  DocumentInv' /\ \A q \in Quotation : Moved(q)
  <2>1. [enquiry[e] EXCEPT !.client = c] \in EnquiryRow
    BY <1>1, <1>4 DEF UpdateEnquiry, EnquiryRow
  <2>2. enquiry' = [enquiry EXCEPT ![e] = [enquiry[e] EXCEPT !.client = c]]
    BY <1>1, <1>4 DEF UpdateEnquiry
  <2> QED
    BY <1>2, <1>4, <2>1, <2>2 DEF UpdateEnquiry
<1>5. ASSUME NEW s \in EnquiryStatus, MoveEnquiry(e, s)
      PROVE  DocumentInv' /\ \A q \in Quotation : Moved(q)
  <2>1. [enquiry[e] EXCEPT !.status = s] \in EnquiryRow
    BY <1>1, <1>5 DEF MoveEnquiry, EnquiryRow
  <2>2. enquiry' = [enquiry EXCEPT ![e] = [enquiry[e] EXCEPT !.status = s]]
    BY <1>1, <1>5 DEF MoveEnquiry
  <2> QED
    BY <1>2, <1>5, <2>1, <2>2 DEF MoveEnquiry
<1>6. ASSUME NEW q \in Quotation, NEW n \in Qty, ConvertEnquiry(e, q, n)
      PROVE  DocumentInv' /\ \A p \in Quotation : Moved(p)
  <2> DEFINE row == NewQuotation(enquiry[e].client, Line(n, 0, 0), LastDay)
  <2>1. /\ Free /\ UNCHANGED <<ops, session, today, order, invoice>>
        /\ enquiry[e] # Absent /\ quotation[q] = Absent /\ enquiry[e].client # Absent
        /\ SetQuotation(q, row) /\ enquiry' = [enquiry EXCEPT ![e].status = "QUOTED"]
    BY <1>6 DEF ConvertEnquiry, Atomic
  <2>2. enquiry[e].client \in Client /\ [enquiry[e] EXCEPT !.status = "QUOTED"] \in EnquiryRow
    BY <1>1, <2>1 DEF EnquiryRow, EnquiryStatus
  <2>3. enquiry' \in [Enquiry -> EnquiryRow \cup {Absent}]
    BY <1>1, <2>1, <2>2
  <2>4. Line(n, 0, 0) \in LineRow
    BY LineAssumption DEF Line, LineRow
  <2>5. row \in QuotationRow /\ row.status = "DRAFT"
    BY <1>1, <2>2, <2>4 DEF NewQuotation, QuotationRow, QuotationStatus
  <2>6. ~Locked(q)
    BY <2>1 DEF Locked, DocumentInv, AnswerInv, Answers
  <2> HIDE DEF row
  <2> QED
    BY <2>1, <2>3, <2>5, <2>6, OneQuotation
<1> QED
  BY <1>3, <1>4, <1>5, <1>6 DEF EnquiryRequests

LEMMA QuotationWrites ==
  ASSUME MasterInv, DocumentInv, NEW q \in Quotation
  PROVE  /\ \A c \in Client : \A line \in Lines(c), until \in 0..LastDay :
              CreateQuotation(q, c, line, until) => DocumentInv' /\ \A p \in Quotation : Moved(p)
         /\ \A line \in LineRow :
              UpdateQuotation(q, line) => DocumentInv' /\ \A p \in Quotation : Moved(p)
         /\ \A from \in {"DRAFT", "SENT"}, to \in {"DELETED", "SENT", "EXPIRED", "REJECTED"} :
              Moves(q, from, to) /\ (to = "EXPIRED" => from = "SENT") =>
                DocumentInv' /\ \A p \in Quotation : Moved(p)
<1>1. enquiry \in [Enquiry -> EnquiryRow \cup {Absent}] /\ quotation \in QuotationTables
  BY DEF DocumentInv, DocumentRows
<1>2. ASSUME NEW c \in Client, NEW line \in Lines(c), NEW until \in 0..LastDay,
             CreateQuotation(q, c, line, until)
      PROVE  DocumentInv' /\ \A p \in Quotation : Moved(p)
  <2> DEFINE row == NewQuotation(c, line, until)
  <2>1. /\ Free /\ UNCHANGED <<ops, session, today, enquiry, order, invoice>>
        /\ quotation[q] = Absent /\ SetQuotation(q, row)
    BY <1>2 DEF CreateQuotation, Atomic
  <2>2. line \in LineRow
    BY LinesAre
  <2>3. row \in QuotationRow /\ row.status = "DRAFT"
    BY <2>2 DEF NewQuotation, QuotationRow, QuotationStatus
  <2>4. ~Locked(q)
    BY <2>1 DEF Locked, DocumentInv, AnswerInv, Answers
  <2> HIDE DEF row
  <2> QED
    BY <1>1, <2>1, <2>3, <2>4, OneQuotation
<1>3. ASSUME NEW line \in LineRow, UpdateQuotation(q, line)
      PROVE  DocumentInv' /\ \A p \in Quotation : Moved(p)
  <2> DEFINE row == [quotation[q] EXCEPT !.line = line]
  <2>1. /\ Free /\ UNCHANGED <<ops, session, today, enquiry, order, invoice>>
        /\ QuotationIs(q, "DRAFT") /\ SetQuotation(q, row)
    BY <1>3 DEF UpdateQuotation, Atomic
  <2>2. quotation[q] \in QuotationRow /\ quotation[q].status = "DRAFT" /\ ~Locked(q)
    BY <1>1, <2>1 DEF QuotationIs, QuotationTables
  <2>3. row \in QuotationRow /\ row.status = "DRAFT"
    BY <2>2 DEF QuotationRow
  <2> HIDE DEF row
  <2> QED
    BY <1>1, <2>1, <2>2, <2>3, OneQuotation
<1>4. ASSUME NEW from \in {"DRAFT", "SENT"}, NEW to \in {"DELETED", "SENT", "EXPIRED", "REJECTED"},
             Moves(q, from, to), to = "EXPIRED" => from = "SENT"
      PROVE  DocumentInv' /\ \A p \in Quotation : Moved(p)
  <2> DEFINE row == [quotation[q] EXCEPT !.status = to]
  <2>1. /\ Free /\ UNCHANGED <<ops, session, today, enquiry, order, invoice>>
        /\ QuotationIs(q, from) /\ SetQuotation(q, row)
    BY <1>4 DEF Moves, SetStatus, Atomic
  <2>2. quotation[q] \in QuotationRow /\ quotation[q].status = from /\ ~Locked(q)
    BY <1>1, <2>1 DEF QuotationIs, QuotationTables
  <2>3. row \in QuotationRow /\ row.status = to
    BY <2>2 DEF QuotationRow, QuotationStatus
  <2> HIDE DEF row
  <2> QED
    BY <1>1, <1>4, <2>1, <2>2, <2>3, OneQuotation
<1> QED
  BY <1>2, <1>3, <1>4

\* A request that reads a quotation begins.
LEMMA AnswerBegins ==
  ASSUME MasterInv, DocumentInv, NEW q \in Quotation, NEW t \in Session,
         AcceptRead(t, q) \/ ShowRead(t, q)
  PROVE  MasterInv' /\ DocumentInv' /\ \A p \in Quotation : Moved(p)
<1> DEFINE accept == [op |-> "accept", quotation |-> q]
           show == [op |-> "show", quotation |-> q]
<1>1. /\ Reads(t, accept) \/ Reads(t, show)
      /\ UNCHANGED <<today, enquiry, quotation, order, invoice>>
      /\ quotation[q] # Absent /\ quotation[q].status = "SENT"
      /\ Reads(t, accept) => ~Locked(q) \/ Reads(t, show)
  BY DEF AcceptRead, ShowRead, Begin, rows, QuotationIs, Overdue
<1>2. MasterInv'
  BY <1>1, DocumentBegins
<1>3. /\ UNCHANGED ops
      /\ session' \in {[session EXCEPT ![t] = accept], [session EXCEPT ![t] = show]}
      /\ DOMAIN session = Session
  BY <1>1 DEF Reads, Begins, MasterInv, MasterRows
<1>4. \A u \in Session \ {t} : session'[u] = session[u]
  BY <1>3
<1>5. (session'[t] = accept /\ ~Locked(q)) \/ session'[t] = show
  BY <1>1, <1>3 DEF Reads, Begins
<1>6. AnswerInv'
  <2>1. Overlap' <=> Overlap
    BY <1>3 DEF Overlap
  <2>2. ASSUME NEW u \in Session PROVE Answers(u)'
    <3>1. CASE u = t
      BY <1>1, <1>5, <3>1 DEF Answers, Is
    <3>2. CASE u # t
      <4>1. session'[u] = session[u] /\ Answers(u)
        BY <1>4, <3>2 DEF DocumentInv, AnswerInv
      <4> QED
        BY <1>1, <2>1, <4>1 DEF Answers, Is
    <3> QED
      BY <3>1, <3>2
  <2>3. ASSUME NEW u \in Session, NEW v \in Session, Is(u, "accept")', Is(v, "accept")',
               session'[u].quotation = session'[v].quotation
        PROVE  u = v
    <3>1. ASSUME NEW w \in Session, w # t, Is(w, "accept")'
          PROVE  session'[w] = session[w] /\ Is(w, "accept")
      BY <1>4, <3>1 DEF Is
    <3>2. ASSUME NEW w \in Session, w # t, Is(w, "accept")', Is(t, "accept")'
          PROVE  session'[w].quotation # session'[t].quotation
      <4>1. session'[t] = accept /\ ~Locked(q)
        BY <1>5, <3>2 DEF Is
      <4> QED
        BY <3>1, <3>2, <4>1 DEF Locked
    <3>3. CASE u # t /\ v # t
      BY <2>3, <3>1, <3>3 DEF DocumentInv, AnswerInv
    <3> QED
      BY <2>3, <3>2, <3>3
  <2> QED
    BY <2>2, <2>3 DEF AnswerInv
<1>7. DocumentRows' /\ \A p \in Quotation : Moved(p)
  BY <1>1 DEF DocumentInv, DocumentRows, Moved
<1> QED
  BY <1>1, <1>2, <1>3, <1>6, <1>7, QuotationStep

\* A request that has read a quotation writes it.
LEMMA AnswerEnds ==
  ASSUME MasterInv, DocumentInv, NEW t \in Session, Ends(t), session[t] # Absent,
         UNCHANGED <<ops, catalogue, today, enquiry, order, invoice>>,
         NEW q \in Quotation, quotation[q] # Absent,
         \A u \in Session \ {t} : ~(Is(u, "accept") /\ session[u].quotation = q),
         NEW to \in {"ACCEPTED", "EXPIRED"}, SetStatus(q, to),
         quotation[q].status = "SENT" \/ (Overlap /\ to = "EXPIRED")
  PROVE  MasterInv' /\ DocumentInv' /\ \A p \in Quotation : Moved(p)
<1> DEFINE row == [quotation[q] EXCEPT !.status = to]
<1>1. MasterInv' /\ DOMAIN session = Session /\ quotation \in QuotationTables
  BY AbandonMaster DEF MasterInv, MasterRows, DocumentInv, DocumentRows
<1>2. /\ quotation[q] \in QuotationRow /\ row \in QuotationRow /\ row.status = to
      /\ quotation' = [quotation EXCEPT ![q] = row]
  BY <1>1 DEF QuotationTables, QuotationRow, QuotationStatus, SetStatus, SetQuotation
<1> HIDE DEF row
<1>3. /\ quotation'[q] = row /\ row # Absent
      /\ \A p \in Quotation \ {q} : quotation'[p] = quotation[p]
      /\ quotation' \in QuotationTables
  BY <1>1, <1>2, DocumentsAssumption DEF QuotationTables
<1>4. \A p \in Quotation : Moved(p)
  BY <1>2, <1>3 DEF Moved
<1>5. DocumentRows'
  BY <1>3 DEF DocumentInv, DocumentRows
<1>6. session'[t] = Absent /\ \A u \in Session \ {t} : session'[u] = session[u]
  BY <1>1 DEF Ends
<1>7. AnswerInv'
  <2>1. \A u \in Session : session'[u] = session[u] \/ ~(Is(u, "accept")' \/ Is(u, "show")')
    BY <1>6 DEF Is
  <2>2. \A p \in Quotation : quotation[p] # Absent => quotation'[p] # Absent
    BY <1>3
  <2>3. ASSUME NEW u \in Session, Is(u, "accept")' \/ (Is(u, "show")' /\ ~Overlap)
        PROVE  quotation'[session'[u].quotation] = quotation[session'[u].quotation]
    <3>1. u # t /\ session'[u] = session[u] /\ session[u] # Absent
      BY <1>6, <2>3 DEF Is
    <3>2. Overlap
      BY <3>1 DEF MasterInv, OneAtATime
    <3>3. Is(u, "accept") /\ session[u].quotation \in Quotation /\ session[u].quotation # q
      BY <2>3, <3>1, <3>2 DEF Is, DocumentInv, AnswerInv, Answers
    <3> QED
      BY <1>3, <3>1, <3>3
  <2> QED
    BY <2>1, <2>2, <2>3, AnswersKept DEF DocumentInv
<1> QED
  BY <1>1, <1>2, <1>3, <1>4, <1>5, <1>7, QuotationStep

LEMMA AnswerDone ==
  ASSUME MasterInv, DocumentInv, NEW t \in Session, AcceptDone(t) \/ ShowDone(t)
  PROVE  MasterInv' /\ DocumentInv' /\ \A p \in Quotation : Moved(p)
<1> DEFINE q == session[t].quotation
<1>1. /\ Ends(t) /\ session[t] # Absent
      /\ UNCHANGED <<ops, catalogue, today, enquiry, order, invoice>>
      /\ q \in Quotation /\ quotation[q] # Absent
  BY DEF AcceptDone, ShowDone, End, Is, DocumentInv, AnswerInv, Answers
<1>2. CASE AcceptDone(t)
  <2>1. SetStatus(q, "ACCEPTED") /\ quotation[q].status = "SENT"
    BY <1>2 DEF AcceptDone, DocumentInv, AnswerInv, Answers
  <2>2. \A u \in Session \ {t} : ~(Is(u, "accept") /\ session[u].quotation = q)
    BY <1>2 DEF AcceptDone, DocumentInv, AnswerInv
  <2> HIDE DEF q
  <2> QED
    BY <1>1, <2>1, <2>2, AnswerEnds
<1>3. CASE ShowDone(t)
  <2>1. SetStatus(q, "EXPIRED") /\ (quotation[q].status = "SENT" \/ Overlap) /\ ~Locked(q)
    BY <1>3 DEF ShowDone, DocumentInv, AnswerInv, Answers
  <2>2. \A u \in Session \ {t} : ~(Is(u, "accept") /\ session[u].quotation = q)
    BY <2>1 DEF Locked
  <2> HIDE DEF q
  <2> QED
    BY <1>1, <2>1, <2>2, AnswerEnds
<1> QED
  BY <1>2, <1>3

LEMMA SweepStep ==
  ASSUME MasterInv, DocumentInv, SweepQuotations
  PROVE  DocumentInv' /\ \A p \in Quotation : Moved(p)
<1>1. /\ Free /\ UNCHANGED <<ops, session, today, enquiry, order, invoice>>
      /\ quotation \in QuotationTables /\ DOMAIN session = Session
      /\ \A p \in Quotation : Overdue(p) => ~Locked(p)
      /\ quotation' = [p \in Quotation |->
           IF Overdue(p) THEN [quotation[p] EXCEPT !.status = "EXPIRED"] ELSE quotation[p]]
  BY DEF SweepQuotations, Atomic, DocumentInv, DocumentRows, MasterInv, MasterRows
<1>2. ASSUME NEW p \in Quotation
      PROVE  IF Overdue(p) THEN /\ quotation[p] # Absent /\ quotation[p].status = "SENT"
                                /\ quotation'[p] \in QuotationRow
                                /\ quotation'[p].status = "EXPIRED"
             ELSE quotation'[p] = quotation[p]
  BY <1>1 DEF Overdue, QuotationTables, QuotationRow, QuotationStatus
<1>3. ASSUME NEW p \in Quotation PROVE Moved(p) /\ (quotation[p] # Absent => quotation'[p] # Absent)
  BY <1>2, DocumentsAssumption DEF Moved
<1>4. DocumentRows'
  <2>1. \A p \in Quotation : quotation'[p] \in QuotationRow \cup {Absent}
    BY <1>1, <1>2 DEF QuotationTables
  <2>2. quotation' \in QuotationTables
    BY <1>1, <2>1 DEF QuotationTables
  <2> QED
    BY <1>1, <2>2 DEF DocumentInv, DocumentRows
<1>5. AnswerInv'
  <2>1. ~Overlap => \A t \in Session : ~Is(t, "show")
    BY <1>1, NobodyOpen DEF Is
  <2>2. ASSUME NEW t \in Session, Is(t, "accept")
        PROVE  session[t].quotation \in Quotation /\ ~Overdue(session[t].quotation)
    BY <1>1, <2>2 DEF Locked, DocumentInv, AnswerInv, Answers
  <2>3. \A t \in Session :
          (Is(t, "accept")' <=> Is(t, "accept")) /\ (Is(t, "show")' <=> Is(t, "show"))
    BY <1>1 DEF Is
  <2>4. \A t \in Session : Is(t, "accept")' \/ (Is(t, "show")' /\ ~Overlap) =>
          quotation'[session'[t].quotation] = quotation[session'[t].quotation]
    BY <1>1, <1>2, <2>1, <2>2, <2>3
  <2> QED
    BY <1>1, <1>3, <2>4, AnswersKept DEF DocumentInv
<1>6. \A p \in Quotation : quotation'[p] # Absent /\ quotation'[p].status = "CONVERTED" =>
                             quotation[p] # Absent /\ quotation[p].status = "CONVERTED"
  BY <1>2
<1> QED
  BY <1>1, <1>3, <1>4, <1>5, <1>6, QuotationStep

\* A quotation that waits to be converted becomes a document.
LEMMA Converted ==
  ASSUME MasterInv, DocumentInv, Free, UNCHANGED <<ops, session, today, enquiry>>,
         NEW q \in Quotation, Convertible(q), SetStatus(q, "CONVERTED"),
         order' \in OrderTables, invoice' \in InvoiceTables,
         \E x : Descendants(q)' = Descendants(q) \cup {x},
         \A p \in Quotation \ {q} : Descendants(p)' = Descendants(p),
         Sourced', \A o \in Order : OrderFits(o)'
  PROVE  DocumentInv' /\ \A p \in Quotation : Moved(p)
<1> DEFINE row == [quotation[q] EXCEPT !.status = "CONVERTED"]
<1>1. /\ quotation[q] # Absent /\ quotation[q].status = "ACCEPTED" /\ ~Locked(q)
      /\ quotation \in QuotationTables /\ DOMAIN session = Session
  BY DEF Convertible, QuotationIs, DocumentInv, DocumentRows, MasterInv, MasterRows
<1>2. /\ row \in QuotationRow /\ row.status = "CONVERTED"
      /\ quotation' = [quotation EXCEPT ![q] = row]
  BY <1>1 DEF QuotationTables, QuotationRow, QuotationStatus, SetStatus, SetQuotation
<1> HIDE DEF row
<1>3. /\ quotation'[q] = row /\ row # Absent
      /\ \A p \in Quotation \ {q} : quotation'[p] = quotation[p]
      /\ quotation' \in QuotationTables
  BY <1>1, <1>2, DocumentsAssumption DEF QuotationTables
<1>4. \A p \in Quotation : Moved(p)
  BY <1>1, <1>2, <1>3 DEF Moved
<1>5. DocumentRows'
  BY <1>3 DEF DocumentInv, DocumentRows
<1>6. AnswerInv'
  <2>1. ~Overlap => \A t \in Session : ~Is(t, "show")
    BY <1>1, NobodyOpen DEF Is
  <2>2. \A t \in Session :
          (Is(t, "accept")' <=> Is(t, "accept")) /\ (Is(t, "show")' <=> Is(t, "show"))
    BY DEF Is
  <2>3. \A t \in Session : Is(t, "accept") =>
          session[t].quotation \in Quotation /\ session[t].quotation # q
    BY <1>1 DEF Locked, DocumentInv, AnswerInv, Answers
  <2>4. \A p \in Quotation : quotation[p] # Absent => quotation'[p] # Absent
    BY <1>3
  <2>5. \A t \in Session : Is(t, "accept")' \/ (Is(t, "show")' /\ ~Overlap) =>
          quotation'[session'[t].quotation] = quotation[session'[t].quotation]
    BY <1>3, <2>1, <2>2, <2>3
  <2> QED
    BY <2>4, <2>5, AnswersKept DEF DocumentInv
<1>7. ASSUME NEW p \in Quotation PROVE Made(p)'
  <2>1. CASE p = q
    <3>1. Descendants(q) = {}
      BY <1>1 DEF DocumentInv, Made
    <3>2. PICK x : Descendants(q)' = {x}
      BY <3>1
    <3> QED
      BY <1>2, <1>3, <2>1, <3>2 DEF Made
  <2>2. CASE p # q
    BY <1>3, <1>4, <2>2, MadeKept DEF DocumentInv
  <2> QED
    BY <2>1, <2>2
<1> QED
  BY <1>4, <1>5, <1>6, <1>7 DEF DocumentInv

LEMMA ConvertSteps ==
  ASSUME MasterInv, DocumentInv, NEW q \in Quotation
  PROVE  /\ \A i \in Invoice :
              ConvertToInvoice(q, i) => DocumentInv' /\ \A p \in Quotation : Moved(p)
         /\ \A o \in Order :
              ConvertToOrder(q, o) => DocumentInv' /\ \A p \in Quotation : Moved(p)
<1>1. /\ quotation \in QuotationTables /\ order \in OrderTables /\ invoice \in InvoiceTables
      /\ Sourced /\ \A o \in Order : OrderFits(o)
      /\ Convertible(q) => quotation[q] \in QuotationRow
  BY DEF DocumentInv, DocumentRows, Convertible, QuotationIs, QuotationTables
<1>2. ASSUME Convertible(q), SetStatus(q, "CONVERTED")
      PROVE  \A p \in Quotation : quotation[p] # Absent => quotation'[p] # Absent
  <2>1. [quotation[q] EXCEPT !.status = "CONVERTED"] \in QuotationRow
    BY <1>1, <1>2 DEF QuotationRow, QuotationStatus
  <2> QED
    BY <1>1, <1>2, <2>1, DocumentsAssumption DEF SetStatus, SetQuotation, QuotationTables
<1>3. ASSUME NEW i \in Invoice, ConvertToInvoice(q, i)
      PROVE  DocumentInv' /\ \A p \in Quotation : Moved(p)
  <2> DEFINE row == [source |-> q, line |-> Billed(q), live |-> TRUE, voided |-> FALSE]
  <2>1. /\ Free /\ UNCHANGED <<ops, session, today, enquiry, order>> /\ Convertible(q)
        /\ invoice[i] = Absent /\ SetStatus(q, "CONVERTED")
        /\ invoice' = [invoice EXCEPT ![i] = row]
    BY <1>3 DEF ConvertToInvoice, Atomic, MakeInvoice
  <2>2. row \in InvoiceRow /\ row # Absent /\ row.source = q
    <3>1. Billed(q) \in LineRow
      BY <1>1, <2>1 DEF Billed, QuotationRow
    <3>2. row \in InvoiceRow
      BY <3>1 DEF InvoiceRow
    <3> QED
      BY <3>2, DocumentsAssumption
  <2> HIDE DEF row
  <2>3. /\ invoice'[i] = row /\ \A j \in Invoice \ {i} : invoice'[j] = invoice[j]
        /\ invoice' \in InvoiceTables
    BY <1>1, <2>1, <2>2 DEF InvoiceTables
  <2>4. Descendants(q)' = Descendants(q) \cup {i}
    BY <2>1, <2>2, <2>3 DEF Descendants
  <2>5. ASSUME NEW p \in Quotation, p # q PROVE Descendants(p)' = Descendants(p)
    BY <2>1, <2>2, <2>3, <2>5 DEF Descendants
  <2>6. Sourced'
    <3>1. \A p \in Quotation : quotation[p] # Absent => quotation'[p] # Absent
      BY <1>2, <2>1
    <3>2. quotation[q] # Absent /\ q \notin Order
      BY <2>1, DocumentsAssumption DEF Convertible, QuotationIs
    <3>3. ASSUME NEW o \in Order, order[o] # Absent, order[o].quotation # Absent
          PROVE  quotation'[order[o].quotation] # Absent
      BY <1>1, <3>1, <3>3 DEF Sourced, OrderTables, OrderRow
    <3>4. ASSUME NEW j \in Invoice, invoice'[j] # Absent
          PROVE  /\ invoice'[j].source \in Order => order[invoice'[j].source] # Absent
                 /\ invoice'[j].source \in Quotation => quotation'[invoice'[j].source] # Absent
      BY <1>1, <2>2, <2>3, <3>1, <3>2, <3>4 DEF Sourced
    <3> QED
      BY <2>1, <3>3, <3>4 DEF Sourced
  <2>7. ASSUME NEW o \in Order PROVE OrderFits(o)'
    <3>1. i \notin CountIn(invoice, o) /\ i \notin CountIn(invoice', o)
      BY <2>1, <2>2, <2>3, DocumentsAssumption DEF CountIn
    <3>2. ASSUME order[o] # Absent
          PROVE  CountIn(invoice', o) = CountIn(invoice, o) /\ Sliced(invoice', o, order[o].line)
      BY <1>1, <2>3, <3>1, <3>2, OtherSlices DEF OrderFits
    <3> QED
      BY <1>1, <2>1, <3>2 DEF OrderFits
  <2> QED
    BY <1>1, <2>1, <2>3, <2>4, <2>5, <2>6, <2>7, Converted
<1>4. ASSUME NEW o \in Order, ConvertToOrder(q, o)
      PROVE  DocumentInv' /\ \A p \in Quotation : Moved(p)
  <2> DEFINE row == NewOrder(q, quotation[q].client, quotation[q].line)
  <2>1. /\ Free /\ UNCHANGED <<ops, session, today, enquiry, invoice>> /\ Convertible(q)
        /\ order[o] = Absent /\ SetStatus(q, "CONVERTED") /\ order' = [order EXCEPT ![o] = row]
    BY <1>4 DEF ConvertToOrder, Atomic, SetOrder
  <2>2. /\ row \in OrderRow /\ row # Absent /\ row.quotation = q /\ row.line \in LineRow
        /\ q # Absent
    BY <1>1, <2>1, DocumentsAssumption DEF NewOrder, QuotationRow, OrderRow, OrderStatus
  <2> HIDE DEF row
  <2>3. /\ order'[o] = row /\ \A x \in Order \ {o} : order'[x] = order[x]
        /\ order' \in OrderTables
    BY <1>1, <2>1, <2>2 DEF OrderTables
  <2>4. Descendants(q)' = Descendants(q) \cup {o}
    BY <2>1, <2>2, <2>3 DEF Descendants
  <2>5. ASSUME NEW p \in Quotation, p # q PROVE Descendants(p)' = Descendants(p)
    BY <2>1, <2>2, <2>3, <2>5 DEF Descendants
  <2>6. Sourced'
    <3>1. \A p \in Quotation : quotation[p] # Absent => quotation'[p] # Absent
      BY <1>2, <2>1
    <3>2. quotation[q] # Absent
      BY <2>1 DEF Convertible, QuotationIs
    <3>3. ASSUME NEW x \in Order, order'[x] # Absent, order'[x].quotation # Absent
          PROVE  quotation'[order'[x].quotation] # Absent
      <4>1. CASE x = o
        BY <2>2, <2>3, <3>1, <3>2, <4>1
      <4>2. CASE x # o
        BY <1>1, <2>3, <3>1, <3>3, <4>2 DEF Sourced, OrderTables, OrderRow
      <4> QED
        BY <4>1, <4>2
    <3>4. ASSUME NEW j \in Invoice, invoice[j] # Absent
          PROVE  /\ invoice[j].source \in Order => order'[invoice[j].source] # Absent
                 /\ invoice[j].source \in Quotation => quotation'[invoice[j].source] # Absent
      BY <1>1, <2>2, <2>3, <3>1, <3>4 DEF Sourced
    <3> QED
      BY <2>1, <3>3, <3>4 DEF Sourced
  <2>7. ASSUME NEW x \in Order PROVE OrderFits(x)'
    <3>1. CASE x = o
      <4>1. CountIn(invoice, o) = {}
        BY <1>1, <2>1 DEF CountIn, Sourced
      <4>2. SlicesIn(invoice, o, "qty") = 0 /\ SlicesIn(invoice, o, "discount") = 0
        BY <1>1, <4>1, SlicesNat
      <4>3. Sliced(invoice, o, row.line)
        BY <2>2, <4>2 DEF Sliced, LineRow
      <4> QED
        BY <2>1, <2>3, <3>1, <4>1, <4>3 DEF OrderFits
    <3>2. CASE x # o
      BY <1>1, <2>1, <2>3, <3>2 DEF OrderFits
    <3> QED
      BY <3>1, <3>2
  <2> QED
    BY <1>1, <2>1, <2>3, <2>4, <2>5, <2>6, <2>7, Converted
<1> QED
  BY <1>3, <1>4

\* A step that writes one LPO, and with it invoices of that LPO only.
LEMMA OrderStep ==
  ASSUME MasterInv, DocumentInv, UNCHANGED <<ops, session, today, enquiry, quotation>>,
         NEW o \in Order, NEW row \in OrderRow, order' = [order EXCEPT ![o] = row],
         row.quotation = IF order[o] = Absent THEN Absent ELSE order[o].quotation,
         invoice' \in InvoiceTables,
         \A i \in Invoice : \/ invoice'[i] = invoice[i]
                            \/ /\ invoice'[i] # Absent /\ invoice'[i].source = o
                               /\ invoice[i] # Absent => invoice[i].source = o,
         OrderFits(o)'
  PROVE  DocumentInv' /\ \A q \in Quotation : Moved(q)
<1>1. /\ quotation \in QuotationTables /\ order \in OrderTables /\ invoice \in InvoiceTables
      /\ Sourced /\ \A x \in Order : OrderFits(x)
  BY DEF DocumentInv, DocumentRows
<1>2. row # Absent /\ o \notin Quotation
  BY DocumentsAssumption
<1>3. /\ order'[o] = row /\ \A x \in Order \ {o} : order'[x] = order[x]
      /\ order' \in OrderTables
  BY <1>1 DEF OrderTables
<1>4. DocumentRows'
  BY <1>3 DEF DocumentInv, DocumentRows
<1>5. \A q \in Quotation : Moved(q)
  BY DEF Moved
<1>6. AnswerInv'
  BY AnswersKept DEF DocumentInv
<1>7. Sourced'
  <2>1. ASSUME NEW x \in Order, order'[x] # Absent, order'[x].quotation # Absent
        PROVE  quotation'[order'[x].quotation] # Absent
    <3>1. CASE x = o
      BY <1>1, <1>3, <2>1, <3>1 DEF Sourced
    <3>2. CASE x # o
      BY <1>1, <1>3, <2>1, <3>2 DEF Sourced
    <3> QED
      BY <3>1, <3>2
  <2>2. ASSUME NEW j \in Invoice, invoice'[j] # Absent
        PROVE  /\ invoice'[j].source \in Order => order'[invoice'[j].source] # Absent
               /\ invoice'[j].source \in Quotation => quotation'[invoice'[j].source] # Absent
    <3>1. CASE invoice'[j] = invoice[j]
      BY <1>1, <1>2, <1>3, <2>2, <3>1 DEF Sourced
    <3>2. CASE invoice'[j] # invoice[j]
      BY <1>2, <1>3, <3>2
    <3> QED
      BY <3>1, <3>2
  <2> QED
    BY <2>1, <2>2 DEF Sourced
<1>8. ASSUME NEW q \in Quotation PROVE Made(q)'
  <2>1. {i \in Invoice : invoice'[i] # Absent /\ invoice'[i].source = q}
        = {i \in Invoice : invoice[i] # Absent /\ invoice[i].source = q}
    <3>1. ASSUME NEW i \in Invoice
          PROVE  (invoice'[i] # Absent /\ invoice'[i].source = q)
                   <=> (invoice[i] # Absent /\ invoice[i].source = q)
      BY <1>2
    <3> QED
      BY <3>1
  <2>2. {x \in Order : order'[x] # Absent /\ order'[x].quotation = q}
        = {x \in Order : order[x] # Absent /\ order[x].quotation = q}
    <3>1. q # Absent
      BY DocumentsAssumption
    <3>2. ASSUME NEW x \in Order
          PROVE  (order'[x] # Absent /\ order'[x].quotation = q)
                   <=> (order[x] # Absent /\ order[x].quotation = q)
      BY <1>2, <1>3, <3>1
    <3> QED
      BY <3>2
  <2>3. Descendants(q)' = Descendants(q)
    BY <2>1, <2>2 DEF Descendants
  <2> QED
    BY <1>5, <2>3, MadeKept DEF DocumentInv
<1>9. ASSUME NEW x \in Order PROVE OrderFits(x)'
  <2>1. CASE x = o
    BY <2>1
  <2>2. CASE x # o
    <3>1. \A i \in Invoice : i \in CountIn(invoice, x) \/ i \in CountIn(invoice', x) =>
            invoice'[i] = invoice[i]
      BY <2>2 DEF CountIn
    <3>2. CountIn(invoice', x) = CountIn(invoice, x)
      BY <3>1 DEF CountIn
    <3>3. ASSUME NEW field PROVE SlicesIn(invoice', x, field) = SlicesIn(invoice, x, field)
      <4> DEFINE f == [i \in CountIn(invoice, x) |-> invoice[i].line[field]]
                 g == [i \in CountIn(invoice', x) |-> invoice'[i].line[field]]
      <4>1. f = g
        BY <3>1, <3>2 DEF CountIn
      <4> QED
        BY <4>1 DEF SlicesIn
    <3>4. order'[x] = order[x]
      BY <1>3, <2>2
    <3> QED
      BY <1>1, <3>2, <3>3, <3>4 DEF OrderFits, Sliced
  <2> QED
    BY <2>1, <2>2
<1> QED
  BY <1>4, <1>5, <1>6, <1>7, <1>8, <1>9 DEF DocumentInv

\* Of an LPO that is not invoiced, anything may change.
LEMMA Uninvoiced ==
  ASSUME invoice \in InvoiceTables, NEW o \in Order, CountIn(invoice, o) = {}, NEW row \in OrderRow
  PROVE  Sliced(invoice, o, row.line)
<1>1. SlicesIn(invoice, o, "qty") = 0 /\ SlicesIn(invoice, o, "discount") = 0
  BY SlicesNat
<1>2. row.line.qty \in Nat \ {0} /\ row.line.discount \in Nat
  BY DEF OrderRow, LineRow
<1> QED
  BY <1>1, <1>2 DEF Sliced

LEMMA OrderSteps ==
  ASSUME MasterInv, DocumentInv, NEW o \in Order
  PROVE  /\ \A c \in Client, line \in LineRow :
              CreateOrder(o, c, line) => DocumentInv' /\ \A q \in Quotation : Moved(q)
         /\ \A line \in LineRow :
              UpdateOrder(o, line) => DocumentInv' /\ \A q \in Quotation : Moved(q)
         /\ \A from, to \in OrderStatus :
              OrderMoves(o, from, to) /\ to # "DRAFT" =>
                DocumentInv' /\ \A q \in Quotation : Moved(q)
<1>1. /\ order \in OrderTables /\ invoice \in InvoiceTables
      /\ Sourced /\ OrderFits(o) /\ (order[o] # Absent => order[o] \in OrderRow)
  BY DEF DocumentInv, DocumentRows, OrderTables
<1>2. ASSUME NEW row \in OrderRow, order' = [order EXCEPT ![o] = row],
             UNCHANGED <<ops, session, today, enquiry, quotation, invoice>>,
             row.quotation = IF order[o] = Absent THEN Absent ELSE order[o].quotation,
             \/ CountIn(invoice, o) = {}
             \/ order[o] # Absent /\ row.line = order[o].line /\ row.status # "DRAFT"
      PROVE  DocumentInv' /\ \A q \in Quotation : Moved(q)
  <2>1. order'[o] = row
    BY <1>1, <1>2 DEF OrderTables
  <2>2. CASE CountIn(invoice, o) = {}
    <3>1. Sliced(invoice, o, row.line)
      BY <1>1, <2>2, Uninvoiced
    <3>2. OrderFits(o)'
      BY <1>2, <2>1, <2>2, <3>1 DEF OrderFits
    <3> QED
      BY <1>1, <1>2, <3>2, OrderStep
  <2>3. CASE order[o] # Absent /\ row.line = order[o].line /\ row.status # "DRAFT"
    <3>1. OrderFits(o)'
      BY <1>1, <1>2, <2>1, <2>3 DEF OrderFits
    <3> QED
      BY <1>1, <1>2, <3>1, OrderStep
  <2> QED
    BY <1>2, <2>2, <2>3
<1>3. ASSUME NEW c \in Client, NEW line \in LineRow, CreateOrder(o, c, line)
      PROVE  DocumentInv' /\ \A q \in Quotation : Moved(q)
  <2>1. NewOrder(Absent, c, line) \in OrderRow /\ NewOrder(Absent, c, line).quotation = Absent
    BY DEF NewOrder, OrderRow, OrderStatus
  <2>2. CountIn(invoice, o) = {}
    BY <1>1, <1>3 DEF CreateOrder, CountIn, Sourced
  <2> QED
    BY <1>2, <1>3, <2>1, <2>2 DEF CreateOrder, Atomic, SetOrder
<1>4. ASSUME NEW line \in LineRow, UpdateOrder(o, line)
      PROVE  DocumentInv' /\ \A q \in Quotation : Moved(q)
  <2> DEFINE row == [order[o] EXCEPT !.line = line]
  <2>1. /\ order[o] # Absent /\ order[o].status = "DRAFT" /\ order' = [order EXCEPT ![o] = row]
        /\ UNCHANGED <<ops, session, today, enquiry, quotation, invoice>>
    BY <1>4 DEF UpdateOrder, OrderIs, Atomic, SetOrder
  <2>2. row \in OrderRow /\ row.quotation = order[o].quotation
    BY <1>1, <2>1 DEF OrderRow
  <2>3. CountIn(invoice, o) = {}
    BY <1>1, <2>1 DEF OrderFits
  <2> HIDE DEF row
  <2> QED
    BY <1>2, <2>1, <2>2, <2>3
<1>5. ASSUME NEW from \in OrderStatus, NEW to \in OrderStatus, OrderMoves(o, from, to), to # "DRAFT"
      PROVE  DocumentInv' /\ \A q \in Quotation : Moved(q)
  <2> DEFINE row == [order[o] EXCEPT !.status = to]
  <2>1. /\ order[o] # Absent /\ order' = [order EXCEPT ![o] = row]
        /\ UNCHANGED <<ops, session, today, enquiry, quotation, invoice>>
    BY <1>5 DEF OrderMoves, OrderIs, Atomic, SetOrder
  <2>2. /\ row \in OrderRow /\ row.quotation = order[o].quotation
        /\ row.line = order[o].line /\ row.status = to
    BY <1>1, <2>1 DEF OrderRow
  <2> HIDE DEF row
  <2> QED
    BY <1>2, <1>5, <2>1, <2>2
<1> QED
  BY <1>3, <1>4, <1>5

LEMMA RecalculatedIs ==
  ASSUME NEW o \in Order, order[o] \in OrderRow, NEW n
  PROVE  LET row == Recalculated(o, n)
         IN  /\ row \in OrderRow /\ row.status # "DRAFT" /\ row.quotation = order[o].quotation
             /\ row.line = order[o].line
<1> DEFINE s == IF order[o].status \in {"CANCELLED", "DELETED"} THEN order[o].status
                ELSE IF n >= order[o].line.qty THEN "INVOICED"
                ELSE IF n > 0 THEN "PARTIAL" ELSE "RECEIVED"
<1>1. s \in OrderStatus /\ s # "DRAFT" /\ Recalculated(o, n) = [order[o] EXCEPT !.status = s]
  BY DEF Recalculated, OrderStatus
<1> HIDE DEF s
<1> QED
  BY <1>1 DEF OrderRow

LEMMA InvoiceOrderStep ==
  ASSUME MasterInv, DocumentInv, NEW o \in Order, NEW i \in Invoice, NEW n, InvoiceOrder(o, i, n)
  PROVE  DocumentInv' /\ \A q \in Quotation : Moved(q)
<1> DEFINE line == order[o].line
           had == Slices(o, "qty")
           already == Slices(o, "discount")
           remaining == line.qty - had
           d == SliceDiscount(line, n, remaining, already)
           bill == [source |-> o, line |-> Line(n, line.price, d), live |-> TRUE,
                    voided |-> FALSE]
           row == Recalculated(o, line.qty - remaining + n)
<1>1. /\ order \in OrderTables /\ invoice \in InvoiceTables /\ OrderFits(o)
  BY DEF DocumentInv, DocumentRows
<1>2. /\ UNCHANGED <<ops, session, today, enquiry, quotation>>
      /\ order[o] # Absent /\ invoice[i] = Absent /\ n \in 1..remaining
      /\ invoice' = [invoice EXCEPT ![i] = bill] /\ order' = [order EXCEPT ![o] = row]
  BY DEF InvoiceOrder, Atomic, OrderIs, MakeInvoice, SetOrder
<1>3. order[o] \in OrderRow /\ line \in LineRow
  BY <1>1, <1>2 DEF OrderTables, OrderRow
<1> DEFINE stood == SlicesIn(invoice, o, "qty")
           spent == SlicesIn(invoice, o, "discount")
<1>4. /\ had \in Nat /\ already \in Nat /\ stood \in Nat /\ spent \in Nat
      /\ line.qty \in Nat /\ line.price \in Nat /\ line.discount \in Nat
      /\ stood <= had /\ spent <= already /\ (stood = had => spent = already)
      /\ stood <= line.qty /\ spent <= line.discount
  BY <1>1, <1>2, <1>3, AllSlices, SlicesNat DEF OrderFits, Sliced, LineRow
<1>5. /\ row \in OrderRow /\ row.status # "DRAFT" /\ row.quotation = order[o].quotation
      /\ row.line = line
  BY <1>3, RecalculatedIs
<1> HIDE DEF row, had, already, line, stood, spent
<1>6. remaining \in Nat /\ n \in Nat \ {0} /\ n <= remaining
  BY <1>2, <1>4
<1>7. /\ d \in Nat /\ spent + d <= line.discount
      /\ n = remaining /\ stood = had => spent + d = line.discount
  <2> HIDE DEF remaining
  <2>1. /\ d \in Nat
        /\ already > line.discount => d = 0
        /\ already <= line.discount => already + d <= line.discount
        /\ n = remaining /\ already <= line.discount => already + d = line.discount
    BY <1>2, <1>3, <1>4, <1>6, SliceFits
  <2> HIDE DEF d
  <2> QED
    BY <1>4, <2>1 DEF remaining
<1> HIDE DEF d
<1>8. /\ bill \in InvoiceRow /\ bill # Absent /\ bill.source = o /\ bill.live /\ ~bill.voided
      /\ bill.line["qty"] = n /\ bill.line["discount"] = d
  <2>1. Line(n, line.price, d) \in LineRow
    BY <1>4, <1>6, <1>7 DEF Line, LineRow
  <2>2. bill \in InvoiceRow
    BY <2>1 DEF InvoiceRow
  <2> QED
    BY <2>2, DocumentsAssumption DEF Line
<1> HIDE DEF bill
<1>9. /\ invoice'[i] = bill /\ invoice' \in InvoiceTables
      /\ \A j \in Invoice \ {i} : invoice'[j] = invoice[j]
      /\ order'[o] = row
  BY <1>1, <1>2, <1>8 DEF InvoiceTables, OrderTables
<1>10. /\ SlicesIn(invoice', o, "qty") = stood + n
       /\ SlicesIn(invoice', o, "discount") = spent + d
  <2>1. i \notin CountIn(invoice, o) /\ i \in CountIn(invoice', o)
    BY <1>2, <1>8, <1>9 DEF CountIn
  <2>2. /\ SlicesIn(invoice', o, "qty") = SlicesIn(invoice, o, "qty") - 0 + n
        /\ SlicesIn(invoice', o, "discount") = SlicesIn(invoice, o, "discount") - 0 + d
    BY <1>1, <1>8, <1>9, <2>1, OneSlice DEF Part
  <2> QED
    BY <1>4, <1>6, <1>7, <2>2 DEF stood, spent
<1>11. OrderFits(o)'
  <2>1. Sliced(invoice', o, row.line)
    BY <1>4, <1>5, <1>6, <1>7, <1>10 DEF Sliced
  <2> QED
    BY <1>5, <1>9, <2>1 DEF OrderFits
<1> QED
  BY <1>1, <1>2, <1>5, <1>8, <1>9, <1>11, OrderStep

LEMMA EndInvoiceStep ==
  ASSUME MasterInv, DocumentInv, NEW i \in Invoice, NEW voids \in BOOLEAN, EndInvoice(i, voids)
  PROVE  DocumentInv' /\ \A q \in Quotation : Moved(q)
<1> DEFINE bill == [invoice[i] EXCEPT !.live = FALSE, !.voided = voids]
           source == invoice[i].source
<1>1. /\ order \in OrderTables /\ invoice \in InvoiceTables /\ Sourced
      /\ \A x \in Order : OrderFits(x)
  BY DEF DocumentInv, DocumentRows
<1>2. /\ UNCHANGED <<ops, session, today, enquiry, quotation>>
      /\ invoice[i] # Absent /\ invoice[i].live /\ invoice' = [invoice EXCEPT ![i] = bill]
      /\ IF source \notin Order THEN order' = order
         ELSE order' = [order EXCEPT ![source] =
                          Recalculated(source, Slices(source, "qty"))]
  BY DEF EndInvoice, Atomic
<1>3. invoice[i] \in InvoiceRow /\ source \in Quotation \cup Order
  BY <1>1, <1>2 DEF InvoiceTables, InvoiceRow
<1>4. bill \in InvoiceRow /\ bill # Absent /\ bill.source = source /\ bill.live = FALSE
  BY <1>3, DocumentsAssumption DEF InvoiceRow
<1> HIDE DEF bill
<1>5. /\ invoice'[i] = bill /\ invoice' \in InvoiceTables
      /\ \A j \in Invoice \ {i} : invoice'[j] = invoice[j]
  BY <1>1, <1>2, <1>4 DEF InvoiceTables
<1>6. ASSUME NEW o \in Order, source = o
      PROVE  DocumentInv' /\ \A q \in Quotation : Moved(q)
  <2> DEFINE row == Recalculated(o, Slices(o, "qty"))
  <2>1. order[o] \in OrderRow
    BY <1>1, <1>2, <1>6 DEF Sourced, OrderTables
  <2>2. /\ row \in OrderRow /\ row.status # "DRAFT" /\ row.quotation = order[o].quotation
        /\ row.line = order[o].line
    BY <1>6, <2>1, RecalculatedIs
  <2>3. order' = [order EXCEPT ![o] = row]
    BY <1>2, <1>6
  <2> HIDE DEF row
  <2>4. order'[o] = row
    BY <1>1, <1>6, <2>3 DEF OrderTables
  <2>5. i \notin CountIn(invoice', o)
    BY <1>4, <1>5 DEF CountIn
  <2>6. ASSUME i \in CountIn(invoice, o)
        PROVE  /\ SlicesIn(invoice', o, "qty") =
                    SlicesIn(invoice, o, "qty") - invoice[i].line["qty"] + 0
               /\ SlicesIn(invoice', o, "discount") =
                    SlicesIn(invoice, o, "discount") - invoice[i].line["discount"] + 0
    BY <1>1, <1>5, <2>5, <2>6, OneSlice DEF Part
  <2>7. /\ SlicesIn(invoice, o, "qty") \in Nat /\ SlicesIn(invoice, o, "discount") \in Nat
        /\ invoice[i].line["qty"] \in Nat \ {0} /\ invoice[i].line["discount"] \in Nat
        /\ row.line.qty \in Nat /\ row.line.discount \in Nat
    BY <1>1, <1>3, <2>2, SlicesNat DEF InvoiceRow, OrderRow, LineRow
  <2>8. Sliced(invoice, o, row.line)
    BY <1>1, <1>6, <2>1, <2>2, DocumentsAssumption DEF OrderFits
  <2>9. Sliced(invoice', o, row.line)
    <3>1. CASE i \in CountIn(invoice, o)
      BY <2>6, <2>7, <2>8, <3>1 DEF Sliced
    <3>2. CASE i \notin CountIn(invoice, o)
      BY <1>1, <1>5, <2>5, <2>8, <3>2, OtherSlices
    <3> QED
      BY <3>1, <3>2
  <2>10. OrderFits(o)'
    BY <2>2, <2>4, <2>9 DEF OrderFits
  <2>11. order[o] # Absent
    BY <2>1, DocumentsAssumption
  <2>12. \A j \in Invoice : \/ invoice'[j] = invoice[j]
                            \/ /\ invoice'[j] # Absent /\ invoice'[j].source = o
                               /\ invoice[j] # Absent => invoice[j].source = o
    BY <1>4, <1>5, <1>6
  <2> QED
    BY <1>2, <1>5, <1>6, <2>2, <2>3, <2>10, <2>11, <2>12, OrderStep
<1>7. CASE source \notin Order
  <2>1. order' = order /\ source \in Quotation
    BY <1>2, <1>3, <1>7
  <2>2. \A j \in Invoice : /\ invoice'[j] # Absent <=> invoice[j] # Absent
                           /\ invoice[j] # Absent => invoice'[j].source = invoice[j].source
    BY <1>2, <1>4, <1>5
  <2>3. DocumentRows' /\ \A q \in Quotation : Moved(q)
    BY <1>2, <1>5, <2>1 DEF DocumentInv, DocumentRows, Moved
  <2>4. AnswerInv'
    BY <1>2, AnswersKept DEF DocumentInv
  <2>5. Sourced'
    BY <1>1, <1>2, <2>1, <2>2 DEF Sourced
  <2>6. ASSUME NEW q \in Quotation PROVE Made(q)'
    <3>1. Descendants(q)' = Descendants(q)
      BY <2>1, <2>2 DEF Descendants
    <3> QED
      BY <1>2, <2>3, <3>1, MadeKept DEF DocumentInv
  <2>7. ASSUME NEW x \in Order PROVE OrderFits(x)'
    <3>1. i \notin CountIn(invoice, x) /\ i \notin CountIn(invoice', x)
      BY <1>4, <1>5, <1>7 DEF CountIn
    <3>2. ASSUME order[x] # Absent
          PROVE  CountIn(invoice', x) = CountIn(invoice, x) /\ Sliced(invoice', x, order[x].line)
      BY <1>1, <1>5, <3>1, <3>2, OtherSlices DEF OrderFits
    <3> QED
      BY <1>1, <2>1, <3>2 DEF OrderFits
  <2> QED
    BY <2>3, <2>4, <2>5, <2>6, <2>7 DEF DocumentInv
<1> QED
  BY <1>6, <1>7

\* A request reads past-due invoices ...
LEMMA FlipBegins ==
  ASSUME MasterInv, DocumentInv, NEW t \in Session, NEW late, FlipRead(t, late)
  PROVE  MasterInv' /\ DocumentInv' /\ \A q \in Quotation : Moved(q)
<1> DEFINE r == [op |-> "flip", invoices |-> late]
<1>1. Reads(t, r) /\ r.op = "flip" /\ UNCHANGED <<today, enquiry, quotation, order, invoice>>
  BY DEF FlipRead, Begin, rows
<1> HIDE DEF r
<1>2. MasterInv'
  BY <1>1, DocumentBegins
<1>3. /\ UNCHANGED ops
      /\ \A u \in Session : session'[u] = session[u] \/ ~(Is(u, "accept")' \/ Is(u, "show")')
  BY <1>1 DEF Reads, Begins, MasterInv, MasterRows, Is
<1>4. DocumentRows'
  BY <1>1 DEF DocumentInv, DocumentRows
<1> QED
  BY <1>1, <1>2, <1>3, <1>4, NoDocument

\* ... and brings back those that were voided since: they do not stand.
LEMMA FlipEnds ==
  ASSUME MasterInv, DocumentInv, NEW t \in Session, FlipDone(t)
  PROVE  MasterInv' /\ DocumentInv' /\ \A q \in Quotation : Moved(q)
<1>1. /\ Ends(t) /\ session[t] # Absent
      /\ UNCHANGED <<ops, catalogue, today, enquiry, quotation, order>>
      /\ invoice' = [i \in Invoice |->
                      IF i \in session[t].invoices \cap Void
                      THEN [invoice[i] EXCEPT !.live = TRUE] ELSE invoice[i]]
      /\ invoice \in InvoiceTables /\ Sourced /\ \A x \in Order : OrderFits(x)
  BY DEF FlipDone, End, Is, DocumentInv, DocumentRows
<1>2. MasterInv'
  BY <1>1, AbandonMaster
<1>3. ASSUME NEW i \in Invoice
      PROVE  \/ invoice'[i] = invoice[i]
             \/ /\ invoice[i] \in InvoiceRow /\ invoice[i] # Absent /\ invoice[i].voided
                /\ invoice'[i] \in InvoiceRow /\ invoice'[i] # Absent /\ invoice'[i].voided
                /\ invoice'[i].source = invoice[i].source
  <2>1. CASE i \in Void
    <3>1. invoice[i] \in InvoiceRow /\ invoice[i] # Absent /\ invoice[i].voided
      BY <1>1, <2>1 DEF Void, InvoiceTables
    <3>2. /\ [invoice[i] EXCEPT !.live = TRUE] \in InvoiceRow
          /\ [invoice[i] EXCEPT !.live = TRUE].voided = invoice[i].voided
          /\ [invoice[i] EXCEPT !.live = TRUE].source = invoice[i].source
      BY <3>1 DEF InvoiceRow
    <3> QED
      BY <1>1, <3>1, <3>2, DocumentsAssumption
  <2>2. CASE i \notin Void
    BY <1>1, <2>2
  <2> QED
    BY <2>1, <2>2
<1>4. invoice' \in InvoiceTables
  BY <1>1, <1>3 DEF InvoiceTables
<1>5. ASSUME NEW o \in Order PROVE OrderFits(o)'
  <2>1. \A i \in Invoice : i \in CountIn(invoice, o) => invoice'[i] = invoice[i]
    BY <1>3 DEF CountIn
  <2>2. CountIn(invoice', o) = CountIn(invoice, o)
    BY <1>3 DEF CountIn
  <2>3. ASSUME NEW field PROVE SlicesIn(invoice', o, field) = SlicesIn(invoice, o, field)
    <3> DEFINE f == [i \in CountIn(invoice, o) |-> invoice[i].line[field]]
               g == [i \in CountIn(invoice', o) |-> invoice'[i].line[field]]
    <3>1. f = g
      BY <2>1, <2>2 DEF CountIn
    <3> QED
      BY <3>1 DEF SlicesIn
  <2> QED
    BY <1>1, <2>2, <2>3 DEF OrderFits, Sliced
<1>6. DocumentRows' /\ \A q \in Quotation : Moved(q)
  BY <1>1, <1>4 DEF DocumentInv, DocumentRows, Moved
<1>7. AnswerInv'
  <2>1. \A u \in Session : session'[u] = session[u] \/ ~(Is(u, "accept")' \/ Is(u, "show")')
    BY <1>1 DEF Ends, Is, MasterInv, MasterRows
  <2> QED
    BY <1>1, <2>1, AnswersKept DEF DocumentInv
<1>8. \A i \in Invoice : /\ invoice'[i] # Absent <=> invoice[i] # Absent
                         /\ invoice[i] # Absent => invoice'[i].source = invoice[i].source
  BY <1>3
<1>9. Sourced'
  BY <1>1, <1>8 DEF Sourced
<1>10. ASSUME NEW q \in Quotation PROVE Made(q)'
  <2>1. Descendants(q)' = Descendants(q)
    BY <1>1, <1>8 DEF Descendants
  <2> QED
    BY <1>1, <1>6, <2>1, MadeKept DEF DocumentInv
<1> QED
  BY <1>2, <1>5, <1>6, <1>7, <1>9, <1>10 DEF DocumentInv

\* The requests of the product master leave the documents alone.
LEMMA MasterLeavesDocuments ==
  ASSUME MasterInv, DocumentInv, CatalogueNext, UNCHANGED <<today, rows>>
  PROVE  DocumentInv' /\ \A q \in Quotation : Moved(q)
<1> DEFINE Other(t) == session'[t] = session[t] \/ ~(Is(t, "accept")' \/ Is(t, "show")')
<1>1. DOMAIN session = Session
  BY DEF MasterInv, MasterRows
<1>2. ASSUME NEW t \in Session, NEW r, Reads(t, r), r.op \notin {"accept", "show"}
      PROVE  UNCHANGED ops /\ \A u \in Session : Other(u)
  BY <1>1, <1>2 DEF Reads, Begins, Is
<1>3. ASSUME NEW t \in Session, Ends(t) PROVE \A u \in Session : Other(u)
  BY <1>1, <1>3 DEF Ends, Is
<1>4. ASSUME NEW t \in Session, NEW op, Writes(t, op)
      PROVE  UNCHANGED ops /\ \A u \in Session : Other(u)
  BY <1>3, <1>4 DEF Writes
<1>5. ASSUME NEW op, OneStep(op)
      PROVE  UNCHANGED ops /\ \A u \in Session : Other(u)
  BY <1>5 DEF OneStep
<1> HIDE DEF Other
<1>6. UNCHANGED ops /\ \A u \in Session : Other(u)
  <2>1. ASSUME NEW t \in Session, CategoryRequests(t)
        PROVE  UNCHANGED ops /\ \A u \in Session : Other(u)
    BY <1>2, <2>1 DEF CategoryRequests, CategoryRead
  <2>2. ASSUME NEW t \in Session, UnitRequests(t)
        PROVE  UNCHANGED ops /\ \A u \in Session : Other(u)
    BY <1>2, <2>2 DEF UnitRequests, DeleteUnitRead
  <2>3. ASSUME NEW t \in Session, ProductRequests(t)
        PROVE  UNCHANGED ops /\ \A u \in Session : Other(u)
    BY <1>2, <2>3 DEF ProductRequests, DeleteProductRead, CreateProductRead, UpdateProductRead
  <2>4. ASSUME NEW t \in Session, ConversionRequests(t)
        PROVE  UNCHANGED ops /\ \A u \in Session : Other(u)
    BY <1>2, <2>4 DEF ConversionRequests, CreateConversionRead
  <2>5. ASSUME NEW t \in Session, PriceRequests(t)
        PROVE  UNCHANGED ops /\ \A u \in Session : Other(u)
    BY <1>2, <2>5 DEF PriceRequests, CreatePriceRead
  <2>6. ASSUME NEW t \in Session,
               \/ CategoryDone(t) \/ DeleteUnitDone(t)
               \/ CreateProductDone(t) \/ UpdateProductDone(t) \/ DeleteProductDone(t)
               \/ CreateConversionDone(t) \/ CreatePriceDone(t)
        PROVE  UNCHANGED ops /\ \A u \in Session : Other(u)
    BY <1>4, <2>6
    DEF CategoryDone, DeleteUnitDone, CreateProductDone, UpdateProductDone, DeleteProductDone,
        CreateConversionDone, CreatePriceDone
  <2>7. ASSUME NEW k \in Category, DeleteCategory(k)
        PROVE  UNCHANGED ops /\ \A u \in Session : Other(u)
    BY <1>5, <2>7 DEF DeleteCategory
  <2>8. ASSUME NEW u \in Unit, CreateUnit(u)
        PROVE  UNCHANGED ops /\ \A v \in Session : Other(v)
    BY <1>5, <2>8 DEF CreateUnit
  <2>9. ASSUME NEW p \in Product, NEW u \in Unit, DeleteConversion(p, u)
        PROVE  UNCHANGED ops /\ \A v \in Session : Other(v)
    BY <1>5, <2>9 DEF DeleteConversion
  <2>10. ASSUME NEW i \in Price, DeletePrice(i)
        PROVE  UNCHANGED ops /\ \A v \in Session : Other(v)
    BY <1>5, <2>10 DEF DeletePrice
  <2> QED
    BY <2>1, <2>2, <2>3, <2>4, <2>5, <2>6, <2>7, <2>8, <2>9, <2>10 DEF CatalogueNext
<1>7. UNCHANGED <<today, enquiry, quotation, order, invoice>> /\ DocumentRows'
  BY DEF rows, DocumentInv, DocumentRows
<1> QED
  BY <1>6, <1>7, NoDocument DEF Other

LEMMA InitDocuments == InitSales => MasterInv /\ DocumentInv
<1> SUFFICES ASSUME InitSales PROVE MasterInv /\ DocumentInv
  OBVIOUS
<1>1. /\ session = [t \in Session |-> Absent] /\ today = 0
      /\ enquiry = [e \in Enquiry |-> Absent] /\ quotation = [q \in Quotation |-> Absent]
      /\ order = [o \in Order |-> Absent] /\ invoice = [i \in Invoice |-> Absent]
  BY DEF InitSales, InitCatalogue
<1>2. MasterInv
  BY InitMaster DEF InitSales
<1>3. DocumentRows
  BY <1>1, LineAssumption DEF DocumentRows, QuotationTables, OrderTables, InvoiceTables
<1>4. AnswerInv /\ Sourced
  BY <1>1 DEF AnswerInv, Answers, Is, Sourced
<1>5. \A q \in Quotation : Made(q)
  BY <1>1 DEF Made, Descendants
<1>6. \A o \in Order : OrderFits(o)
  BY <1>1 DEF OrderFits
<1> QED
  BY <1>2, <1>3, <1>4, <1>5, <1>6 DEF DocumentInv

LEMMA QuotationSteps ==
  ASSUME MasterInv, DocumentInv, NEW q \in Quotation, QuotationRequests(q)
  PROVE  MasterInv' /\ DocumentInv' /\ \A p \in Quotation : Moved(p)
<1> DEFINE Good == DocumentInv' /\ \A p \in Quotation : Moved(p)
<1>1. ASSUME Atomic PROVE MasterInv'
  BY <1>1, MasterUnchanged DEF Atomic
<1>2. ASSUME NEW c \in Client, NEW line \in Lines(c), NEW until \in 0..LastDay,
             CreateQuotation(q, c, line, until)
      PROVE  MasterInv' /\ Good
  BY <1>1, <1>2, QuotationWrites DEF CreateQuotation
<1>3. ASSUME NEW line \in Lines(quotation[q].client), UpdateQuotation(q, line)
      PROVE  MasterInv' /\ Good
  <2>1. line \in LineRow
    BY LinesAre
  <2> QED
    BY <1>1, <1>3, <2>1, QuotationWrites DEF UpdateQuotation
<1>4. ASSUME DeleteQuotation(q) \/ SendQuotation(q) \/ ExpireQuotation(q) \/ RejectQuotation(q)
      PROVE  MasterInv' /\ Good
  <2>1. PICK from \in {"DRAFT", "SENT"}, to \in {"DELETED", "SENT", "EXPIRED", "REJECTED"} :
          Moves(q, from, to) /\ (to = "EXPIRED" => from = "SENT")
    BY <1>4 DEF DeleteQuotation, SendQuotation, ExpireQuotation, RejectQuotation
  <2>2. Good
    BY <2>1, QuotationWrites
  <2> QED
    BY <1>1, <2>1, <2>2 DEF Moves
<1>5. ASSUME NEW i \in Invoice, ConvertToInvoice(q, i) PROVE MasterInv' /\ Good
  BY <1>1, <1>5, ConvertSteps DEF ConvertToInvoice
<1>6. ASSUME NEW o \in Order, ConvertToOrder(q, o) PROVE MasterInv' /\ Good
  BY <1>1, <1>6, ConvertSteps DEF ConvertToOrder
<1>7. ASSUME NEW t \in Session, AcceptRead(t, q) \/ ShowRead(t, q) PROVE MasterInv' /\ Good
  BY <1>7, AnswerBegins
<1> QED
  BY <1>2, <1>3, <1>4, <1>5, <1>6, <1>7 DEF QuotationRequests

LEMMA OrderRequestSteps ==
  ASSUME MasterInv, DocumentInv, NEW o \in Order, OrderRequests(o)
  PROVE  MasterInv' /\ DocumentInv' /\ \A p \in Quotation : Moved(p)
<1> DEFINE Good == DocumentInv' /\ \A p \in Quotation : Moved(p)
<1>1. ASSUME Atomic PROVE MasterInv'
  BY <1>1, MasterUnchanged DEF Atomic
<1>2. ASSUME NEW c \in Client, NEW line \in Lines(c), CreateOrder(o, c, line)
      PROVE  MasterInv' /\ Good
  <2>1. line \in LineRow
    BY LinesAre
  <2> QED
    BY <1>1, <1>2, <2>1, OrderSteps DEF CreateOrder
<1>3. ASSUME NEW line \in Lines(order[o].client), UpdateOrder(o, line) PROVE MasterInv' /\ Good
  <2>1. line \in LineRow
    BY LinesAre
  <2> QED
    BY <1>1, <1>3, <2>1, OrderSteps DEF UpdateOrder
<1>4. ASSUME DeleteOrder(o) \/ ReceiveOrder(o) \/ CancelOrder(o) PROVE MasterInv' /\ Good
  <2>1. PICK from \in OrderStatus, to \in OrderStatus : OrderMoves(o, from, to) /\ to # "DRAFT"
    BY <1>4 DEF DeleteOrder, ReceiveOrder, CancelOrder, OrderStatus
  <2>2. Good
    BY <2>1, OrderSteps
  <2> QED
    BY <1>1, <2>1, <2>2 DEF OrderMoves
<1>5. ASSUME NEW i \in Invoice, NEW n, InvoiceOrder(o, i, n) PROVE MasterInv' /\ Good
  BY <1>1, <1>5, InvoiceOrderStep DEF InvoiceOrder
<1> QED
  BY <1>2, <1>3, <1>4, <1>5 DEF OrderRequests

LEMMA SalesSteps ==
  ASSUME MasterInv, DocumentInv, SalesNext
  PROVE  MasterInv' /\ DocumentInv' /\ \A q \in Quotation : Moved(q)
<1> DEFINE Good == DocumentInv' /\ \A q \in Quotation : Moved(q)
<1>1. ASSUME Atomic PROVE MasterInv'
  BY <1>1, MasterUnchanged DEF Atomic
<1>2. CASE CatalogueNext /\ UNCHANGED <<today, rows>>
  BY <1>2, MasterSteps, MasterLeavesDocuments
<1>3. CASE NewDay
  <2>1. /\ UNCHANGED <<ops, session, catalogue, enquiry, quotation, order, invoice>>
        /\ today < LastDay /\ today' = today + 1
    BY <1>3 DEF NewDay, rows
  <2>2. DocumentRows'
    BY <2>1, LineAssumption DEF DocumentInv, DocumentRows
  <2> QED
    BY <2>1, <2>2, MasterUnchanged, NoDocument
<1>4. CASE SweepQuotations
  BY <1>1, <1>4, SweepStep DEF SweepQuotations
<1>5. ASSUME NEW e \in Enquiry, EnquiryRequests(e) PROVE MasterInv' /\ Good
  <2>1. Atomic
    BY <1>5 DEF EnquiryRequests, CreateEnquiry, UpdateEnquiry, MoveEnquiry, ConvertEnquiry
  <2> QED
    BY <1>1, <1>5, <2>1, EnquirySteps
<1>6. ASSUME NEW q \in Quotation, QuotationRequests(q) PROVE MasterInv' /\ Good
  BY <1>6, QuotationSteps
<1>7. ASSUME NEW o \in Order, OrderRequests(o) PROVE MasterInv' /\ Good
  BY <1>7, OrderRequestSteps
<1>8. ASSUME NEW i \in Invoice, VoidInvoice(i) \/ DeleteInvoice(i) PROVE MasterInv' /\ Good
  <2>1. PICK voids \in BOOLEAN : EndInvoice(i, voids)
    BY <1>8 DEF VoidInvoice, DeleteInvoice
  <2>2. Atomic
    BY <2>1 DEF EndInvoice
  <2> QED
    BY <1>1, <2>1, <2>2, EndInvoiceStep
<1>9. ASSUME NEW t \in Session, AcceptDone(t) \/ ShowDone(t) PROVE MasterInv' /\ Good
  BY <1>9, AnswerDone
<1>10. ASSUME NEW t \in Session, NEW late, FlipRead(t, late) PROVE MasterInv' /\ Good
  BY <1>10, FlipBegins
<1>11. ASSUME NEW t \in Session, FlipDone(t) PROVE MasterInv' /\ Good
  BY <1>11, FlipEnds
<1>12. ASSUME NEW t \in Session, Abandon(t), UNCHANGED <<today, rows>> PROVE MasterInv' /\ Good
  <2>1. /\ session[t] # Absent /\ Ends(t) /\ UNCHANGED <<ops, catalogue>>
        /\ UNCHANGED <<today, enquiry, quotation, order, invoice>> /\ DOMAIN session = Session
    BY <1>12 DEF Abandon, rows, MasterInv, MasterRows
  <2>2. \A u \in Session : session'[u] = session[u] \/ ~(Is(u, "accept")' \/ Is(u, "show")')
    BY <2>1 DEF Ends, Is
  <2>3. DocumentRows'
    BY <2>1 DEF DocumentInv, DocumentRows
  <2> QED
    BY <2>1, <2>2, <2>3, AbandonMaster, NoDocument
<1> QED
  BY <1>2, <1>3, <1>4, <1>5, <1>6, <1>7, <1>8, <1>9, <1>10, <1>11, <1>12 DEF SalesNext

LEMMA SalesStutter ==
  ASSUME MasterInv, DocumentInv, UNCHANGED sales
  PROVE  MasterInv' /\ DocumentInv' /\ \A q \in Quotation : Moved(q)
<1>1. UNCHANGED <<ops, session, catalogue, today, enquiry, quotation, order, invoice>>
  BY DEF sales, rows
<1>2. DocumentRows'
  BY <1>1 DEF DocumentInv, DocumentRows
<1> QED
  BY <1>1, <1>2, MasterUnchanged, NoDocument

-----------------------------------------------------------------------------
(* What the invariants say.                                                *)

LEMMA OnceOnly ==
  ASSUME DocumentInv
  PROVE  ConvertedOnce
<1> SUFFICES ASSUME NEW q \in Quotation
             PROVE  /\ Cardinality(Descendants(q)) <= 1
                    /\ ~Overlap => (Descendants(q) # {} <=>
                                      quotation[q] # Absent /\ quotation[q].status = "CONVERTED")
  BY DEF ConvertedOnce
<1>1. Made(q)
  BY DEF DocumentInv
<1>2. Cardinality(Descendants(q)) <= 1
  BY <1>1, AtMostOne DEF Made
<1> QED
  BY <1>1, <1>2 DEF Made

LEMMA SlicesFit ==
  ASSUME MasterInv, DocumentInv
  PROVE  SlicesAddUp
<1>1. DocumentsTypeOK
  BY DEF MasterInv, MasterRows, DocumentInv, DocumentRows, DocumentsTypeOK, QuotationTables,
         OrderTables, InvoiceTables
<1>2. CatalogueTypeOK
  BY MasterIsSound
<1>3. DiscountsAddUp
  BY StandingIs DEF DocumentInv, OrderFits, Sliced, DiscountsAddUp
<1> QED
  BY <1>1, <1>2, <1>3 DEF SlicesAddUp

LEMMA OnlySent ==
  ASSUME \A q \in Quotation : Moved(q)
  PROVE  ~Overlap => OnlySentExpires
BY DEF Moved, OnlySentExpires, Final

\* The product master and the documents stay as described above.
THEOREM SalesInvariance == SalesSpec => [](MasterInv /\ DocumentInv)
<1>1. InitSales => MasterInv /\ DocumentInv
  BY InitDocuments
<1>2. MasterInv /\ DocumentInv /\ [SalesNext]_sales => (MasterInv /\ DocumentInv)'
  BY SalesSteps, SalesStutter
<1> QED
  BY <1>1, <1>2, PTL DEF SalesSpec

\* A quotation becomes one invoice or one LPO, whatever overlaps, and says so
\* while requests do not (quotation_service.convert_to_invoice,
\* customer_po_service.convert_quotation).
THEOREM QuotationsConvertOnce == SalesSpec => []ConvertedOnce
<1>1. MasterInv /\ DocumentInv => ConvertedOnce
  BY OnceOnly
<1> QED
  BY <1>1, SalesInvariance, PTL

\* However an LPO is sliced and its invoices are voided or brought back as
\* OVERDUE, the slices nobody has voided take no more than its quantity and
\* discount, and all of the discount with the last (customer_po_service).
THEOREM SlicesKeepTheDiscount == SalesSpec => []SlicesAddUp
<1>1. MasterInv /\ DocumentInv => SlicesAddUp
  BY SlicesFit
<1> QED
  BY <1>1, SalesInvariance, PTL

\* One request at a time keeps the categories a tree, the factors of a product
\* those of its base unit, and its prices unambiguous (product_service,
\* uom_conversion_service, pricing_service).
THEOREM MasterDataIsSound == SalesSpec => []CatalogueIsSound
<1>1. MasterInv /\ DocumentInv => CatalogueIsSound
  BY MasterIsSound
<1> QED
  BY <1>1, SalesInvariance, PTL

\* One request at a time, what was accepted, rejected or converted never
\* expires (quotation_service.expire_overdue).
THEOREM AnswersStand == SalesSpec => AnswersAreKept
<1>1. MasterInv /\ DocumentInv /\ [SalesNext]_sales => [~Overlap => OnlySentExpires]_sales
  BY SalesSteps, OnlySent
<1> QED
  BY <1>1, SalesInvariance, PTL DEF SalesSpec, AnswersAreKept

=============================================================================
