------------------------- MODULE Receivables_proof --------------------------
(***************************************************************************)
(* Receivables of a client, for every set of keys, requests and amounts    *)
(* and all finite sets of invoices, payments and notes: nothing is         *)
(* overpaid or overcredited, a key makes one payment, the cached totals    *)
(* and statuses are those of the payments and notes, the credit parked on  *)
(* the client is what it is owed, and no send passes the credit limit.     *)
(***************************************************************************)
EXTENDS Receivables, SumTheorems

\* What has been paid or noted has been created and, unless clients pay
\* drafts, sent; a stored key names a payment.
RowsFit ==
    /\ \A i \in Inv : inv[i].status # "NONE" => inv[i].total \in Totals
    /\ \A p \in Pay : pay[p] # None =>
         /\ inv[pay[p].inv].status # "NONE"
         /\ "payDraft" \notin ops => inv[pay[p].inv].status # "DRAFT"
    /\ \A n \in Note : note[n] # None => inv[note[n].inv].status \notin {"NONE", "DRAFT"}
    /\ \A k \in Key : key[k] # None => pay[key[k]] # None
    /\ "age" \notin ops => \A i \in Inv : age[i] = 0

\* A key whose row has not expired names one payment that no expiry accounts
\* for, any other key none.
KeyInUse(k) == key[k] # None /\ k \notin expired
KeysCount ==
    \A k \in Key : Cardinality(PaymentsFor(k))
                     <= expiries[k] + (IF KeyInUse(k) THEN 1 ELSE 0)

\* No two open requests hold the same row or make the same payment.
Apart ==
    \A t, u \in Txn : t # u /\ Open(t) /\ Open(u) =>
        /\ txn[t].locks \cap txn[u].locks = {}
        /\ txn[t].op = "pay" /\ txn[u].op = "pay" => txn[t].pay # txn[u].pay

\* The rows and columns a request of each kind writes, and what it holds.
Shape(e) ==
    /\ e.status \notin {"NONE", "DRAFT"}
    /\ e.op = "sweep" <=> e.inv = None
    /\ e.op \in {"send", "checked", "pay", "bounce", "issue"} => e.inv \in e.locks
    /\ e.op = "edit" => e.total \in Totals
    /\ e.op # "edit" => e.total = Same
    /\ e.op = "issue" => /\ e.note \in Note /\ {e.note, Client} \subseteq e.locks
                         /\ Same \notin {e.credited, e.debited, e.balance}
    /\ e.op # "issue" => /\ e.note = None
                         /\ e.credited = Same /\ e.debited = Same /\ e.balance = Same
    /\ e.op \in {"pay", "bounce"} => e.pay \in Pay /\ e.row \in PayRow /\ e.row.inv = e.inv
    /\ e.op = "pay" => e.key \in Key /\ e.row.key = e.key
    /\ e.op \notin {"pay", "bounce"} => e.pay = None
    /\ e.op # "pay" => e.key = None
    /\ e.op = "bounce" => e.row.status = "FAILED"
    /\ e.op = "void" <=> e.status = "CANCELLED"
    /\ e.op = "checked" => Client \in e.locks /\ e.status \in AR_STATUSES
    /\ e.op \notin {"void", "checked", "pay", "issue"} => e.status = Same
    /\ e.deleted \in {Same, TRUE}

\* Where no overdue flip races with the payments and no DRAFT is paid, the
\* status is that of the amounts.
Calm == TotalsStand /\ ops \cap {"age", "payDraft"} = {}
StatusRight(row, paid) ==
    row.status \in ALLOWED_PARENT =>
        /\ row.status = "PAID" => BalanceDue(row, paid) = 0
        /\ BalanceDue(row, paid) = 0 => row.status = "PAID" \/ row.total = 0
        /\ row.status = "SENT" => paid = 0
        /\ row.status = "PARTIALLY_PAID" => paid > 0

\* What an open request read of the rows it holds is still so: its payment
\* fits the balance, its note the remainder, and what it will store adds up.
PayFits(e) ==
    /\ pay[e.pay] = None
    /\ "payDraft" \notin ops => inv[e.inv].status # "DRAFT"
    /\ e.old # None => pay[e.old] # None
    /\ key[e.key] = e.old => e.old = None \/ e.key \in expired
    /\ e.row.status = "SUCCESS" =>
         AmountPaid(e.inv) + e.row.amount + inv[e.inv].credited
           <= inv[e.inv].total + inv[e.inv].debited

BounceFits(e) ==
    /\ pay[e.pay] # None /\ pay[e.pay].status = "PENDING"
    /\ pay[e.pay].inv = e.inv /\ pay[e.pay].key = e.row.key

IssueFits(e) ==
    LET row == inv[e.inv]
        amount == note[e.note].amount
        credits == IssuedTotal(e.inv, "CN")
        debits == IssuedTotal(e.inv, "TDN")
    IN  /\ note[e.note] # None
        /\ note[e.note].status = "DRAFT" /\ note[e.note].inv = e.inv
        /\ note[e.note].kind = "CN" =>
             /\ e.credited = credits + amount /\ e.debited = row.debited
             /\ e.credited <= row.total + debits
             /\ e.balance = client.balance
                  + Monus(amount, Monus(row.total, row.credited + AmountPaid(e.inv)))
        /\ note[e.note].kind = "TDN" =>
             e.credited = row.credited /\ e.debited = debits + amount

\* What a request that makes a payment adds to what its invoice was paid.
PaidBy(e) == IF e.op = "pay" /\ e.row.status = "SUCCESS" THEN e.row.amount ELSE 0

\* It leaves a row PAID only with nothing due, and keeps a DRAFT or a void one.
Leaves(e) ==
    /\ Updated(e.inv, e).status = "PAID" =>
         BalanceDue(Updated(e.inv, e), AmountPaid(e.inv) + PaidBy(e)) = 0
    /\ inv[e.inv].status \in {"DRAFT", "CANCELLED"} => e.status = Same

Fits(e) ==
    /\ e.inv # None => inv[e.inv].status # "NONE"
    /\ \A j \in e.flips : inv[j].status \notin {"NONE", "DRAFT"}
    /\ "age" \notin ops => e.flips = {}
    /\ e.op = "edit" => "edit" \in ops
    /\ e.op = "void" => "void" \in ops
    /\ e.op \in {"send", "checked"} => inv[e.inv].status = "DRAFT"
    /\ e.op = "pay" => PayFits(e)
    /\ e.op = "bounce" => BounceFits(e)
    /\ e.op = "issue" => IssueFits(e)
    /\ e.op \in {"pay", "issue"} => Leaves(e)
    /\ Calm /\ e.op \in {"checked", "pay", "issue"} =>
         StatusRight(Updated(e.inv, e), AmountPaid(e.inv) + PaidBy(e))

RequestsFit == \A t \in Txn : Open(t) => Shape(txn[t]) /\ Fits(txn[t])

IInv ==
    /\ TypeOK
    /\ RowsFit
    /\ KeysCount
    /\ Apart
    /\ RequestsFit
    /\ NotOverpaid
    /\ CachedTotals
    /\ NotOvercredited
    /\ StatusMatchesBalance
    /\ ParkedUntilDebited

USE MixesAssumption, RowsAssumption, AmountsAssumption, NoneAssumption

-----------------------------------------------------------------------------
(* Rows and amounts.                                                       *)

\* A row that is there has its fields.
LEMMA RowTypes ==
  ASSUME TypeOK
  PROVE  /\ \A i \in Inv : inv[i] \in InvRow
         /\ \A p \in Pay : pay[p] # None => pay[p] \in PayRow
         /\ \A n \in Note : note[n] # None => note[n] \in NoteRow
         /\ \A t \in Txn : Open(t) => txn[t] \in RequestRow
         /\ client.balance \in Nat /\ client.credit \in CreditStatus
BY DEF TypeOK, Open

LEMMA AmountTypes ==
  /\ \A a \in Amounts : a \in Nat /\ a \in Int /\ a # 0
  /\ \A x \in Totals : x \in Nat
OBVIOUS

\* The fields of a request that a handler starts from.
LEMMA RequestType ==
  ASSUME TypeOK, NEW i \in Inv \cup {None}, NEW S \in SUBSET (Inv \cup Note \cup {Client}),
         NEW op \in {"send", "checked", "edit", "delete", "void", "sweep", "pay", "bounce",
                     "issue"}
  PROVE  Request(op, i, S) \in RequestRow
BY DEF TypeOK, Request, RequestRow

\* An evaluation changes the flips and the credit status, and nothing else.
LEMMA Evaluated ==
  ASSUME TypeOK, NEW e \in RequestRow, NEW row, NEW paid
  PROVE  LET r == Evaluate(e, row, paid)
         IN  /\ r \in RequestRow
             /\ r.op = e.op /\ r.inv = e.inv /\ r.locks = e.locks
             /\ r.status = e.status /\ r.deleted = e.deleted /\ r.total = e.total
             /\ r.credited = e.credited /\ r.debited = e.debited /\ r.balance = e.balance
             /\ r.pay = e.pay /\ r.row = e.row /\ r.key = e.key /\ r.old = e.old
             /\ r.note = e.note
             /\ \A j \in r.flips : inv[j].status \in FLIP_STATUSES /\ age[j] > 0
<1> DEFINE snap == DecideStatus(Exposure(e.inv, row, paid), OldestOverdue(e.inv, row, paid))
           flips == PastDue(e.inv, row, paid)
           credit == IF snap = e.seen THEN Same ELSE snap
<1>1. Evaluate(e, row, paid) = [e EXCEPT !.flips = flips, !.credit = credit]
  BY DEF Evaluate
<1>2. credit \in CreditStatus \cup {Same}
  BY DEF DecideStatus, CreditStatus
<1>3. flips \in SUBSET Inv /\ \A j \in flips : inv[j].status \in FLIP_STATUSES /\ age[j] > 0
  BY DEF PastDue
<1> HIDE DEF flips, credit
<1> DEFINE r == [e EXCEPT !.flips = flips, !.credit = credit]
<1>4. r \in RequestRow
  <2> DEFINE once == [e EXCEPT !.flips = flips]
  <2>1. once \in RequestRow
    BY <1>3 DEF RequestRow
  <2>2. r = [once EXCEPT !.credit = credit]
    BY DEF RequestRow
  <2> HIDE DEF once, r
  <2> QED
    BY <1>2, <2>1, <2>2 DEF RequestRow
<1>5. r.flips = flips
  BY DEF RequestRow
<1>6. /\ r.op = e.op /\ r.inv = e.inv /\ r.locks = e.locks
      /\ r.status = e.status /\ r.deleted = e.deleted /\ r.total = e.total
      /\ r.credited = e.credited /\ r.debited = e.debited /\ r.balance = e.balance
      /\ r.pay = e.pay /\ r.row = e.row /\ r.key = e.key /\ r.old = e.old
      /\ r.note = e.note
  BY DEF RequestRow
<1> HIDE DEF r
<1> QED
  BY <1>1, <1>3, <1>4, <1>5, <1>6 DEF r

\* Whatever the age of an invoice, a status is determined that a sent one has.
LEMMA Determined ==
  ASSUME NEW i \in Inv, NEW row \in InvRow, NEW paid \in Nat
  PROVE  LET st == DetermineStatus(i, row, paid)
         IN  /\ st \in InvStatus /\ st # "NONE"
             /\ st = "DRAFT" => row.status = "DRAFT"
             /\ age[i] = 0 => StatusRight([row EXCEPT !.status = st], paid)
<1>1. BalanceDue(row, paid) \in Nat
  BY DEF InvRow, BalanceDue, Monus
<1> QED
  BY <1>1 DEF DetermineStatus, StatusRight, InvRow, InvStatus, ALLOWED_PARENT, ShouldMarkOverdue,
              BalanceDue

-----------------------------------------------------------------------------
(* Sums.                                                                   *)

\* What the payments of a table bring in for an invoice, and one of them.
Standing(table, i) ==
    {p \in Pay : table[p] # None /\ table[p].inv = i /\ table[p].status = "SUCCESS"}
PaidIn(table, i) == SumFunction([p \in Standing(table, i) |-> table[p].amount])
Brings(row, i) ==
    IF row # None /\ row.inv = i /\ row.status = "SUCCESS" THEN row.amount ELSE 0

LEMMA PaidInOne ==
  ASSUME NEW f \in [Pay -> PayRow \cup {None}], NEW g \in [Pay -> PayRow \cup {None}],
         NEW p \in Pay, \A q \in Pay \ {p} : g[q] = f[q], NEW i
  PROVE  /\ PaidIn(g, i) = PaidIn(f, i) - Brings(f[p], i) + Brings(g[p], i)
         /\ PaidIn(f, i) \in Nat
<1> DEFINE F == [q \in Standing(f, i) |-> f[q].amount]
           G == [q \in Standing(g, i) |-> g[q].amount]
<1>1. Standing(f, i) \in SUBSET Pay /\ Standing(g, i) \in SUBSET Pay
  BY DEF Standing
<1>2. IsFiniteSet(DOMAIN F) /\ IsFiniteSet(DOMAIN G)
  BY <1>1, FS_Subset
<1>3. /\ \A q \in DOMAIN F : F[q] \in Int /\ F[q] \in Nat
      /\ \A q \in DOMAIN G : G[q] \in Int
  <2>1. ASSUME NEW table \in [Pay -> PayRow \cup {None}], NEW q \in Standing(table, i)
        PROVE  table[q].amount \in Int /\ table[q].amount \in Nat
    <3>1. table[q] \in PayRow
      BY DEF Standing
    <3>2. table[q].amount \in Amounts
      BY <3>1 DEF PayRow
    <3> QED
      BY <3>2, AmountTypes
  <2> QED
    BY <2>1
<1>4. DOMAIN F \ {p} = DOMAIN G \ {p}
  BY DEF Standing
<1>5. \A q \in DOMAIN F \ {p} : G[q] = F[q]
  BY <1>1, <1>4
<1>6. At(F, p) = Brings(f[p], i) /\ At(G, p) = Brings(g[p], i)
  BY DEF At, Brings, Standing
<1>7. SumFunction(F) = PaidIn(f, i) /\ SumFunction(G) = PaidIn(g, i)
  BY DEF PaidIn
<1> HIDE DEF F, G
<1>8. SumFunction(G) = SumFunction(F) - At(F, p) + At(G, p)
  BY <1>2, <1>3, <1>4, <1>5, SumDiffers
<1>9. SumFunction(F) \in Nat
  BY <1>2, <1>3, SumNat
<1> QED
  BY <1>6, <1>7, <1>8, <1>9

\* The same for the issued notes of one kind.
Noted(table, i, kind) ==
    {n \in Note : table[n] # None /\ table[n].inv = i /\ table[n].kind = kind
                                  /\ table[n].status = "ISSUED"}
NotedIn(table, i, kind) == SumFunction([n \in Noted(table, i, kind) |-> table[n].amount])
Notes(row, i, kind) ==
    IF row # None /\ row.inv = i /\ row.kind = kind /\ row.status = "ISSUED"
    THEN row.amount ELSE 0

LEMMA NotedInOne ==
  ASSUME NEW f \in [Note -> NoteRow \cup {None}], NEW g \in [Note -> NoteRow \cup {None}],
         NEW p \in Note, \A q \in Note \ {p} : g[q] = f[q], NEW i, NEW kind
  PROVE  /\ NotedIn(g, i, kind) = NotedIn(f, i, kind) - Notes(f[p], i, kind)
                                    + Notes(g[p], i, kind)
         /\ NotedIn(f, i, kind) \in Nat
<1> DEFINE F == [q \in Noted(f, i, kind) |-> f[q].amount]
           G == [q \in Noted(g, i, kind) |-> g[q].amount]
<1>1. Noted(f, i, kind) \in SUBSET Note /\ Noted(g, i, kind) \in SUBSET Note
  BY DEF Noted
<1>2. IsFiniteSet(DOMAIN F) /\ IsFiniteSet(DOMAIN G)
  BY <1>1, FS_Subset
<1>3. /\ \A q \in DOMAIN F : F[q] \in Int /\ F[q] \in Nat
      /\ \A q \in DOMAIN G : G[q] \in Int
  <2>1. ASSUME NEW table \in [Note -> NoteRow \cup {None}], NEW q \in Noted(table, i, kind)
        PROVE  table[q].amount \in Int /\ table[q].amount \in Nat
    <3>1. table[q] \in NoteRow
      BY DEF Noted
    <3>2. table[q].amount \in Amounts
      BY <3>1 DEF NoteRow
    <3> QED
      BY <3>2, AmountTypes
  <2> QED
    BY <2>1
<1>4. DOMAIN F \ {p} = DOMAIN G \ {p}
  BY DEF Noted
<1>5. \A q \in DOMAIN F \ {p} : G[q] = F[q]
  BY <1>1, <1>4
<1>6. At(F, p) = Notes(f[p], i, kind) /\ At(G, p) = Notes(g[p], i, kind)
  BY DEF At, Notes, Noted
<1>7. SumFunction(F) = NotedIn(f, i, kind) /\ SumFunction(G) = NotedIn(g, i, kind)
  BY DEF NotedIn
<1> HIDE DEF F, G
<1>8. SumFunction(G) = SumFunction(F) - At(F, p) + At(G, p)
  BY <1>2, <1>3, <1>4, <1>5, SumDiffers
<1>9. SumFunction(F) \in Nat
  BY <1>2, <1>3, SumNat
<1> QED
  BY <1>6, <1>7, <1>8, <1>9

\* What a set of invoice rows owes its client back.
OwedBack(table, payments) ==
    SumFunction([i \in Inv |-> CreditOwing(table[i], PaidIn(payments, i))])

\* These are the sums of the model, now and after a step.
LEMMA SumsRead ==
  /\ \A i : AmountPaid(i) = PaidIn(pay, i) /\ AmountPaid(i)' = PaidIn(pay', i)
  /\ \A i, kind : /\ IssuedTotal(i, kind) = NotedIn(note, i, kind)
                  /\ IssuedTotal(i, kind)' = NotedIn(note', i, kind)
  /\ CreditBalanceIsOwed <=> client.balance = OwedBack(inv, pay)
  /\ CreditBalanceIsOwed' <=> client'.balance = OwedBack(inv', pay')
<1>1. \A i : AmountPaid(i) = PaidIn(pay, i)
  <2>1. \A i : Successful(i) = Standing(pay, i)
    BY DEF Successful, Payments, Standing
  <2> QED
    BY <2>1 DEF AmountPaid, PaidIn
<1>2. \A i : AmountPaid(i)' = PaidIn(pay', i)
  <2>1. \A i : Successful(i)' = Standing(pay', i)
    BY DEF Successful, Payments, Standing
  <2> QED
    BY <2>1 DEF AmountPaid, PaidIn
<1>3. \A i, kind : IssuedTotal(i, kind) = NotedIn(note, i, kind)
  <2>1. \A i, kind : Issued(i, kind) = Noted(note, i, kind)
    BY DEF Issued, Noted
  <2> QED
    BY <2>1 DEF IssuedTotal, NotedIn
<1>4. \A i, kind : IssuedTotal(i, kind)' = NotedIn(note', i, kind)
  <2>1. \A i, kind : Issued(i, kind)' = Noted(note', i, kind)
    BY DEF Issued, Noted
  <2> QED
    BY <2>1 DEF IssuedTotal, NotedIn
<1>5. CreditBalanceIsOwed <=> client.balance = OwedBack(inv, pay)
  BY <1>1 DEF CreditBalanceIsOwed, OwedBack
<1>6. CreditBalanceIsOwed' <=> client'.balance = OwedBack(inv', pay')
  <2>1. CreditBalanceIsOwed' <=>
          client'.balance = SumFunction([i \in Inv |-> CreditOwing(inv'[i], AmountPaid(i)')])
    BY DEF CreditBalanceIsOwed
  <2> QED
    BY <1>2, <2>1 DEF OwedBack
<1> QED
  BY <1>1, <1>2, <1>3, <1>4, <1>5, <1>6

\* Sums of amounts are natural numbers.
LEMMA TableSums ==
  ASSUME NEW f \in [Pay -> PayRow \cup {None}], NEW g \in [Note -> NoteRow \cup {None}], NEW i
  PROVE  PaidIn(f, i) \in Nat /\ \A kind : NotedIn(g, i, kind) \in Nat
<1>1. PaidIn(f, i) \in Nat
  <2>1. ASSUME NEW p \in Pay PROVE PaidIn(f, i) \in Nat
    BY PaidInOne
  <2>2. ASSUME Pay = {} PROVE PaidIn(f, i) = 0
    <3>1. Standing(f, i) = {}
      BY <2>2 DEF Standing
    <3> QED
      BY <3>1, SumEmpty DEF PaidIn
  <2> QED
    BY <2>1, <2>2
<1>2. ASSUME NEW kind PROVE NotedIn(g, i, kind) \in Nat
  <2>1. ASSUME NEW n \in Note PROVE NotedIn(g, i, kind) \in Nat
    BY NotedInOne
  <2>2. ASSUME Note = {} PROVE NotedIn(g, i, kind) = 0
    <3>1. Noted(g, i, kind) = {}
      BY <2>2 DEF Noted
    <3> QED
      BY <3>1, SumEmpty DEF NotedIn
  <2> QED
    BY <2>1, <2>2
<1> QED
  BY <1>1, <1>2

LEMMA SumTypes ==
  ASSUME NEW i
  PROVE  /\ TypeOK => AmountPaid(i) \in Nat /\ \A kind : IssuedTotal(i, kind) \in Nat
         /\ TypeOK' => AmountPaid(i)' \in Nat /\ \A kind : IssuedTotal(i, kind)' \in Nat
<1>1. TypeOK => PaidIn(pay, i) \in Nat /\ \A kind : NotedIn(note, i, kind) \in Nat
  BY TableSums DEF TypeOK
<1>2. TypeOK' => PaidIn(pay', i) \in Nat /\ \A kind : NotedIn(note', i, kind) \in Nat
  BY TableSums DEF TypeOK
<1> QED
  BY <1>1, <1>2, SumsRead

\* The sums after a step that changes at most one payment or one note.
LEMMA PaidAfter ==
  ASSUME TypeOK, TypeOK', NEW p \in Pay, \A q \in Pay \ {p} : pay'[q] = pay[q], NEW i
  PROVE  AmountPaid(i)' = AmountPaid(i) - Brings(pay[p], i) + Brings(pay'[p], i)
<1>1. pay \in [Pay -> PayRow \cup {None}] /\ pay' \in [Pay -> PayRow \cup {None}]
  BY DEF TypeOK
<1>2. PaidIn(pay', i) = PaidIn(pay, i) - Brings(pay[p], i) + Brings(pay'[p], i)
  BY ONLY <1>1, \A q \in Pay \ {p} : pay'[q] = pay[q], p \in Pay, PaidInOne
<1> QED
  BY <1>2, SumsRead

LEMMA NotedAfter ==
  ASSUME TypeOK, TypeOK', NEW n \in Note, \A q \in Note \ {n} : note'[q] = note[q],
         NEW i, NEW kind
  PROVE  IssuedTotal(i, kind)' = IssuedTotal(i, kind) - Notes(note[n], i, kind)
                                   + Notes(note'[n], i, kind)
<1>1. note \in [Note -> NoteRow \cup {None}] /\ note' \in [Note -> NoteRow \cup {None}]
  BY DEF TypeOK
<1>2. NotedIn(note', i, kind) = NotedIn(note, i, kind) - Notes(note[n], i, kind)
                                  + Notes(note'[n], i, kind)
  BY ONLY <1>1, \A q \in Note \ {n} : note'[q] = note[q], n \in Note, NotedInOne
<1> QED
  BY <1>2, SumsRead

-----------------------------------------------------------------------------
(* What steps leave alone.                                                 *)

\* What the invoices owe back, when that changes for one of them at most.
LEMMA OwedOne ==
  ASSUME TypeOK, TypeOK', NEW j \in Inv,
         \A i \in Inv \ {j} :
           CreditOwing(inv[i], AmountPaid(i))' = CreditOwing(inv[i], AmountPaid(i))
  PROVE  OwedBack(inv', pay') = OwedBack(inv, pay) - CreditOwing(inv[j], AmountPaid(j))
                                  + CreditOwing(inv[j], AmountPaid(j))'
<1> DEFINE F == [i \in Inv |-> CreditOwing(inv[i], PaidIn(pay, i))]
           G == [i \in Inv |-> CreditOwing(inv'[i], PaidIn(pay', i))]
<1>1. \A i \in Inv : F[i] = CreditOwing(inv[i], AmountPaid(i))
                     /\ G[i] = CreditOwing(inv[i], AmountPaid(i))'
  BY SumsRead DEF CreditOwing
<1>2. \A i \in Inv : F[i] \in Int /\ G[i] \in Int
  <2>1. ASSUME NEW i \in Inv PROVE F[i] \in Int /\ G[i] \in Int
    <3>1. AmountPaid(i) \in Nat
      BY SumTypes
    <3>2. AmountPaid(i)' \in Nat
      BY SumTypes
    <3>3. inv[i] \in InvRow /\ inv'[i] \in InvRow
      BY DEF TypeOK
    <3> QED
      BY <1>1, <3>1, <3>2, <3>3 DEF CreditOwing, Monus, InvRow
  <2> QED
    BY <2>1
<1>3. DOMAIN F = Inv /\ DOMAIN G = Inv /\ IsFiniteSet(Inv)
  OBVIOUS
<1>4. OwedBack(inv, pay) = SumFunction(F) /\ OwedBack(inv', pay') = SumFunction(G)
  BY DEF OwedBack
<1>5. At(F, j) = CreditOwing(inv[j], AmountPaid(j))
      /\ At(G, j) = CreditOwing(inv[j], AmountPaid(j))'
  BY <1>1, <1>3 DEF At
<1>6. \A i \in Inv \ {j} : G[i] = F[i]
  BY <1>1
<1> HIDE DEF F, G
<1>7. SumFunction(G) = SumFunction(F) - At(F, j) + At(G, j)
  BY <1>2, <1>3, <1>6, SumDiffers
<1> QED
  BY <1>4, <1>5, <1>7

\* A step that leaves the rows an open request has locked as they are, and
\* takes no sent invoice back.
Undisturbed(e) ==
    /\ e.inv \in e.locks => /\ inv'[e.inv] = inv[e.inv]
                            /\ AmountPaid(e.inv)' = AmountPaid(e.inv)
                            /\ \A kind : IssuedTotal(e.inv, kind)' = IssuedTotal(e.inv, kind)
    /\ e.op = "issue" => note'[e.note] = note[e.note] /\ client'.balance = client.balance
    /\ e.op = "pay" => /\ pay'[e.pay] = None
                       /\ e.old # None => pay'[e.old] # None
                       /\ key'[e.key] = e.old => e.old = None \/ e.key \in expired'
    /\ e.op = "bounce" => /\ pay'[e.pay] # None /\ pay'[e.pay].status = pay[e.pay].status
                          /\ pay'[e.pay].inv = pay[e.pay].inv
                          /\ pay'[e.pay].key = pay[e.pay].key

Onward ==
    \A j \in Inv : /\ inv[j].status # "NONE" => inv'[j].status # "NONE"
                   /\ inv[j].status \notin {"NONE", "DRAFT"} =>
                         inv'[j].status \notin {"NONE", "DRAFT"}

\* What it read is then still so.
LEMMA FitsStays ==
  ASSUME NEW e \in RequestRow, Shape(e), Fits(e), ops' = ops, Onward, Undisturbed(e)
  PROVE  Fits(e)'
<1>1. e.inv # None => e.inv \in Inv
  BY DEF RequestRow
<1>2. e.flips \in SUBSET Inv
  BY DEF RequestRow
<1>3. /\ (e.inv # None => inv[e.inv].status # "NONE")'
      /\ (\A j \in e.flips : inv[j].status \notin {"NONE", "DRAFT"})'
      /\ ("age" \notin ops => e.flips = {})'
      /\ (e.op = "edit" => "edit" \in ops)'
      /\ (e.op = "void" => "void" \in ops)'
  <2>1. /\ e.inv # None => inv[e.inv].status # "NONE"
        /\ \A j \in e.flips : inv[j].status \notin {"NONE", "DRAFT"}
        /\ "age" \notin ops => e.flips = {}
        /\ e.op = "edit" => "edit" \in ops
        /\ e.op = "void" => "void" \in ops
    BY DEF Fits
  <2>2. e.inv # None => inv'[e.inv].status # "NONE"
    BY <1>1, <2>1 DEF Onward
  <2>3. \A j \in e.flips : inv'[j].status \notin {"NONE", "DRAFT"}
    BY <1>2, <2>1 DEF Onward
  <2> QED
    BY <2>1, <2>2, <2>3
<1>4. (e.op \in {"send", "checked"} => inv[e.inv].status = "DRAFT")'
  BY DEF Fits, Shape, Undisturbed
<1>5. (e.op = "pay" => PayFits(e))'
  BY DEF Fits, Shape, PayFits, Undisturbed
<1>6. (e.op = "bounce" => BounceFits(e))'
  BY DEF Fits, Shape, BounceFits, Undisturbed
<1>7. (e.op = "issue" => IssueFits(e))'
  <2> SUFFICES ASSUME e.op = "issue" PROVE IssueFits(e)'
    OBVIOUS
  <2>1. /\ inv'[e.inv] = inv[e.inv] /\ AmountPaid(e.inv)' = AmountPaid(e.inv)
        /\ IssuedTotal(e.inv, "CN")' = IssuedTotal(e.inv, "CN")
        /\ IssuedTotal(e.inv, "TDN")' = IssuedTotal(e.inv, "TDN")
    BY DEF Shape, Undisturbed
  <2>2. IssueFits(e)
    BY DEF Fits
  <2>3. note'[e.note] = note[e.note] /\ client'.balance = client.balance
    BY DEF Undisturbed
  <2> QED
    BY <2>1, <2>2, <2>3 DEF IssueFits
<1>8. (Calm /\ e.op \in {"checked", "pay", "issue"} =>
         StatusRight(Updated(e.inv, e), AmountPaid(e.inv) + PaidBy(e)))'
  <2> SUFFICES ASSUME Calm', e.op \in {"checked", "pay", "issue"}
               PROVE  StatusRight(Updated(e.inv, e), AmountPaid(e.inv) + PaidBy(e))'
    OBVIOUS
  <2>1. inv'[e.inv] = inv[e.inv] /\ AmountPaid(e.inv)' = AmountPaid(e.inv)
    BY DEF Shape, Undisturbed
  <2>2. StatusRight(Updated(e.inv, e), AmountPaid(e.inv) + PaidBy(e))
    BY DEF Calm, TotalsStand, Fits
  <2>3. Updated(e.inv, e)' = Updated(e.inv, e)
    BY <2>1 DEF Updated, Put
  <2> QED
    BY <2>1, <2>2, <2>3 DEF StatusRight, BalanceDue, PaidBy
<1>9. (e.op \in {"pay", "issue"} => Leaves(e))'
  <2> SUFFICES ASSUME e.op \in {"pay", "issue"} PROVE Leaves(e)'
    OBVIOUS
  <2>1. inv'[e.inv] = inv[e.inv] /\ AmountPaid(e.inv)' = AmountPaid(e.inv)
    BY DEF Shape, Undisturbed
  <2>2. Leaves(e)
    BY DEF Fits
  <2>3. Updated(e.inv, e)' = Updated(e.inv, e)
    BY <2>1 DEF Updated, Put
  <2> QED
    BY <2>1, <2>2, <2>3 DEF Leaves, BalanceDue, PaidBy
<1> QED
  BY <1>3, <1>4, <1>5, <1>6, <1>7, <1>8, <1>9 DEF Fits

\* A step that ends requests or leaves them open, disturbing none of these.
LEMMA RequestsStay ==
  ASSUME IInv, TypeOK', ops' = ops, Onward,
         \A u \in Txn, e \in RequestRow : txn'[u] = e => txn[u] = e /\ Undisturbed(e)
  PROVE  Apart' /\ RequestsFit'
<1>1. Apart'
  <2> SUFFICES ASSUME NEW u \in Txn, NEW v \in Txn, u # v, txn'[u] # None, txn'[v] # None
               PROVE  /\ txn'[u].locks \cap txn'[v].locks = {}
                      /\ txn'[u].op = "pay" /\ txn'[v].op = "pay" => txn'[u].pay # txn'[v].pay
    BY DEF Apart, Open
  <2>1. txn'[u] = txn[u] /\ txn'[v] = txn[v]
    BY DEF TypeOK
  <2> QED
    BY <2>1 DEF IInv, Apart, Open
<1>2. RequestsFit'
  <2> SUFFICES ASSUME NEW u \in Txn, txn'[u] # None
               PROVE  Shape(txn'[u]) /\ Fits(txn[u])'
    BY DEF RequestsFit, Open, Shape
  <2>1. PICK f \in RequestRow : f = txn'[u]
    BY DEF TypeOK
  <2>2. f = txn[u] /\ Undisturbed(f)
    BY <2>1
  <2>3. Shape(f) /\ Fits(f)
    BY <2>2, RowTypes DEF IInv, RequestsFit, Open
  <2>4. Fits(f)'
    BY <2>2, <2>3, FitsStays
  <2> QED
    BY <2>1, <2>3, <2>4
<1> QED
  BY <1>1, <1>2

\* A step that writes no row leaves what is stated of the rows, and of every
\* request it does not open.
LEMMA RestIInv ==
  ASSUME IInv, UNCHANGED <<rows, age>>, TypeOK', Apart',
         \A u \in Txn : txn'[u] = None \/ txn'[u] = txn[u] \/ (Shape(txn'[u]) /\ Fits(txn'[u]))
  PROVE  IInv'
<1>1. RowsFit' /\ KeysCount'
  BY DEF IInv, RowsFit, KeysCount, KeyInUse, PaymentsFor, rows
<1>2. /\ \A i : AmountPaid(i)' = AmountPaid(i)
      /\ \A i, kind : IssuedTotal(i, kind)' = IssuedTotal(i, kind)
      /\ CreditBalanceIsOwed' <=> CreditBalanceIsOwed
  <2>1. pay' = pay /\ note' = note /\ inv' = inv /\ client' = client
    BY DEF rows
  <2> QED
    BY <2>1, SumsRead
<1>3. RequestsFit'
  <2> SUFFICES ASSUME NEW u \in Txn, txn'[u] # None
               PROVE  Shape(txn'[u]) /\ Fits(txn[u])'
    BY DEF RequestsFit, Open, Shape
  <2>1. PICK f \in RequestRow : f = txn'[u]
    BY DEF TypeOK
  <2>2. Shape(f) /\ Fits(f)
    BY <2>1 DEF IInv, RequestsFit, Open
  <2>3. Fits(f)'
    <3>1. f.op = "pay" => PayFits(f)
      BY <2>2 DEF Fits
    <3>2. f.op = "bounce" => BounceFits(f)
      BY <2>2 DEF Fits
    <3>3. Onward /\ Undisturbed(f)
      BY <1>2, <3>1, <3>2 DEF rows, PayFits, BounceFits, Undisturbed, Onward
    <3>4. ops' = ops
      BY DEF rows
    <3> QED
      BY <2>2, <3>3, <3>4, FitsStays
  <2> QED
    BY <2>1, <2>2, <2>3
<1>4. NotOverpaid' /\ CachedTotals' /\ NotOvercredited'
  BY <1>2 DEF IInv, NotOverpaid, CachedTotals, NotOvercredited, TotalsStand, rows
<1>5. StatusMatchesBalance'
  BY <1>2 DEF IInv, StatusMatchesBalance, StatusAgrees, TotalsStand, BalanceDue, rows
<1>6. ParkedUntilDebited'
  BY <1>2 DEF IInv, ParkedUntilDebited, TotalsStand, Issued, rows
<1> QED
  BY <1>1, <1>3, <1>4, <1>5, <1>6 DEF IInv

\* A step that opens or ends a request and writes nothing.
LEMMA QuietIInv ==
  ASSUME IInv, UNCHANGED <<rows, age>>,
         NEW t \in Txn, NEW e \in RequestRow \cup {None}, txn' = [txn EXCEPT ![t] = e],
         e # None => /\ Shape(e) /\ Fits(e)
                     /\ \A u \in Txn \ {t} : Open(u) =>
                          /\ txn[u].locks \cap e.locks = {}
                          /\ e.op = "pay" /\ txn[u].op = "pay" => txn[u].pay # e.pay
  PROVE  IInv'
<1>1. TypeOK'
  BY DEF IInv, TypeOK, rows
<1>2. txn'[t] = e /\ \A u \in Txn \ {t} : txn'[u] = txn[u]
  BY DEF IInv, TypeOK
<1>3. Apart'
  <2> SUFFICES ASSUME NEW u \in Txn, NEW v \in Txn, u # v, txn'[u] # None, txn'[v] # None
               PROVE  /\ txn'[u].locks \cap txn'[v].locks = {}
                      /\ txn'[u].op = "pay" /\ txn'[v].op = "pay" => txn'[u].pay # txn'[v].pay
    BY DEF Apart, Open
  <2> QED
    BY <1>2 DEF IInv, Apart, Open
<1>4. \A u \in Txn : txn'[u] = None \/ txn'[u] = txn[u] \/ (Shape(txn'[u]) /\ Fits(txn'[u]))
  BY <1>2
<1> QED
  BY <1>1, <1>3, <1>4, RestIInv

-----------------------------------------------------------------------------
(* The initial states.                                                     *)

\* An invoice that no payment, or no note, is made out to.
LEMMA Nothing ==
  ASSUME NEW i
  PROVE  /\ (\A p \in Pay : pay[p] # None => pay[p].inv # i) => AmountPaid(i) = 0
         /\ (\A n \in Note : note[n] # None => note[n].inv # i)
              => \A kind : IssuedTotal(i, kind) = 0
<1>1. ASSUME \A p \in Pay : pay[p] # None => pay[p].inv # i PROVE AmountPaid(i) = 0
  <2>1. Standing(pay, i) = {}
    BY <1>1 DEF Standing
  <2> QED
    BY <2>1, SumEmpty, SumsRead DEF PaidIn
<1>2. ASSUME \A n \in Note : note[n] # None => note[n].inv # i, NEW kind
      PROVE  IssuedTotal(i, kind) = 0
  <2>1. Noted(note, i, kind) = {}
    BY <1>2 DEF Noted
  <2> QED
    BY <2>1, SumEmpty, SumsRead DEF NotedIn
<1> QED
  BY <1>1, <1>2

LEMMA InitIInv == Init => IInv
<1> SUFFICES ASSUME Init PROVE IInv
  OBVIOUS
<1>1. TypeOK
  BY DEF Init, TypeOK, InvRow, InvStatus, CreditStatus
<1>2. RowsFit /\ Apart /\ RequestsFit
  BY DEF Init, RowsFit, Apart, RequestsFit, Open
<1>3. KeysCount
  <2> SUFFICES ASSUME NEW k \in Key
               PROVE  Cardinality(PaymentsFor(k))
                        <= expiries[k] + (IF KeyInUse(k) THEN 1 ELSE 0)
    BY DEF KeysCount
  <2>1. PaymentsFor(k) = {}
    BY DEF Init, PaymentsFor
  <2>2. expiries[k] = 0 /\ ~KeyInUse(k)
    BY DEF Init, KeyInUse
  <2> QED
    BY <2>1, <2>2, FS_EmptySet
<1>4. \A i : AmountPaid(i) = 0 /\ \A kind : IssuedTotal(i, kind) = 0
  BY Nothing DEF Init
<1>5. \A i \in Inv : inv[i].status = "NONE" /\ inv[i].total = 0
                     /\ inv[i].credited = 0 /\ inv[i].debited = 0
  BY DEF Init
<1>6. NotOverpaid /\ CachedTotals /\ NotOvercredited
  BY <1>4, <1>5 DEF NotOverpaid, CachedTotals, NotOvercredited
<1>7. StatusMatchesBalance
  BY <1>5 DEF StatusMatchesBalance, StatusAgrees, ALLOWED_PARENT
<1>8. ParkedUntilDebited
  <2> DEFINE F == [i \in Inv |-> CreditOwing(inv[i], AmountPaid(i))]
  <2>1. \A i \in Inv : F[i] = 0
    BY <1>4, <1>5 DEF CreditOwing, Monus
  <2>2. DOMAIN F = Inv
    OBVIOUS
  <2> HIDE DEF F
  <2>3. SumFunction(F) = 0
    BY <2>1, <2>2, SumZero
  <2>4. client.balance = 0
    BY DEF Init
  <2> QED
    BY <2>3, <2>4 DEF ParkedUntilDebited, CreditBalanceIsOwed, F
<1> QED
  BY <1>1, <1>2, <1>3, <1>6, <1>7, <1>8 DEF IInv

-----------------------------------------------------------------------------
(* Steps that are no commit: for each, the parts of IInv it can disturb.   *)

\* A step that keeps the keys, and the payments made with each.
LEMMA KeysStay ==
  ASSUME IInv, UNCHANGED <<key, expired, expiries>>,
         \A p \in Pay : /\ pay'[p] # None <=> pay[p] # None
                        /\ pay[p] # None => pay'[p].key = pay[p].key
  PROVE  KeysCount' /\ \A k \in Key : key'[k] # None => pay'[key'[k]] # None
<1>1. \A k : PaymentsFor(k)' = PaymentsFor(k) /\ KeyInUse(k)' = KeyInUse(k)
  BY DEF PaymentsFor, KeyInUse
<1>2. KeysCount'
  BY <1>1 DEF IInv, KeysCount
<1>3. \A k \in Key : key'[k] # None => pay'[key'[k]] # None
  BY DEF IInv, RowsFit, TypeOK
<1> QED
  BY <1>2, <1>3

\* A step that leaves what every invoice owes back, and what is parked.
LEMMA ParkedStays ==
  ASSUME IInv, TypeOK', ops' = ops, client'.balance = client.balance,
         TotalsStand => \A i \in Inv : CreditOwing(inv[i], AmountPaid(i))'
                                         = CreditOwing(inv[i], AmountPaid(i)),
         \A i \in Inv : Issued(i, "TDN")' = {} => Issued(i, "TDN") = {}
  PROVE  ParkedUntilDebited'
<1> SUFFICES ASSUME TotalsStand, \A i \in Inv : Issued(i, "TDN") = {}
             PROVE  CreditBalanceIsOwed'
  BY DEF ParkedUntilDebited, TotalsStand
<1> DEFINE F == [i \in Inv |-> CreditOwing(inv[i], PaidIn(pay, i))]
           G == [i \in Inv |-> CreditOwing(inv'[i], PaidIn(pay', i))]
<1>1. \A i \in Inv : G[i] = F[i]
  BY SumsRead DEF CreditOwing
<1>2. DOMAIN F = Inv /\ DOMAIN G = Inv
  OBVIOUS
<1>3. OwedBack(inv, pay) = SumFunction(F) /\ OwedBack(inv', pay') = SumFunction(G)
  BY DEF OwedBack
<1> HIDE DEF F, G
<1>4. SumFunction(G) = SumFunction(F)
  BY <1>1, <1>2, SumSame
<1>5. CreditBalanceIsOwed
  BY DEF IInv, ParkedUntilDebited
<1> QED
  BY <1>3, <1>4, <1>5, SumsRead

LEMMA CreateInvoiceIInv ==
  ASSUME IInv, NEW i \in Inv, NEW total \in Totals, CreateInvoice(i, total)
  PROVE  IInv'
<1> DEFINE row == [inv[i] EXCEPT !.status = "DRAFT", !.total = total]
<1>1. inv[i] \in InvRow /\ total \in Nat /\ inv[i].status = "NONE"
  BY AmountTypes DEF CreateInvoice, IInv, TypeOK
<1>2. /\ inv' = [inv EXCEPT ![i] = row]
      /\ UNCHANGED <<ops, pay, key, expired, expiries, note, client, age, txn>>
  BY DEF CreateInvoice, IInv, TypeOK
<1>3. row \in InvRow /\ row.status = "DRAFT" /\ row.total = total
      /\ row.credited = inv[i].credited /\ row.debited = inv[i].debited
  BY <1>1 DEF InvRow, InvStatus
<1> HIDE DEF row
<1>4. TypeOK'
  BY <1>2, <1>3 DEF IInv, TypeOK
<1>5. inv'[i] = row /\ \A j \in Inv \ {i} : inv'[j] = inv[j]
  BY <1>2 DEF IInv, TypeOK
<1>6. /\ \A j : AmountPaid(j)' = AmountPaid(j)
      /\ \A j, kind : IssuedTotal(j, kind)' = IssuedTotal(j, kind)
  BY <1>2, SumsRead
<1>7. AmountPaid(i) = 0 /\ \A kind : IssuedTotal(i, kind) = 0
  BY <1>1, Nothing DEF IInv, RowsFit
<1>8. inv[i].credited = 0 /\ inv[i].debited = 0
  BY <1>7 DEF IInv, CachedTotals
<1>9. RowsFit' /\ KeysCount'
  <2>1. KeysCount'
    BY <1>2, KeysStay
  <2>2. \A p \in Pay : pay[p] # None => pay[p].inv \in Inv \ {i}
    BY <1>1, RowTypes DEF IInv, RowsFit, PayRow
  <2>3. \A n \in Note : note[n] # None => note[n].inv \in Inv \ {i}
    BY <1>1, RowTypes DEF IInv, RowsFit, NoteRow
  <2> QED
    BY <1>2, <1>3, <1>5, <2>1, <2>2, <2>3 DEF IInv, RowsFit
<1>10. Apart' /\ RequestsFit'
  <2>1. Onward
    BY <1>1, <1>3, <1>5 DEF Onward
  <2>2. ASSUME NEW u \in Txn, NEW e \in RequestRow, txn[u] = e PROVE Undisturbed(e)
    <3>1. Shape(e) /\ Fits(e)
      BY <2>2 DEF IInv, RequestsFit, Open
    <3>2. e.inv \in e.locks => e.inv \in Inv \ {i}
      BY <1>1, <3>1 DEF Shape, Fits, RequestRow
    <3>3. /\ e.op = "pay" => PayFits(e)
          /\ e.op = "bounce" => BounceFits(e)
      BY <3>1 DEF Fits
    <3> QED
      BY <1>2, <1>5, <1>6, <3>2, <3>3 DEF Undisturbed, PayFits, BounceFits
  <2> QED
    BY <1>2, <1>4, <2>1, <2>2, RequestsStay
<1>11. NotOverpaid' /\ CachedTotals' /\ NotOvercredited'
  <2>1. CachedTotals'
    BY <1>3, <1>5, <1>6 DEF IInv, CachedTotals
  <2>2. total + 0 \in Nat /\ 0 <= total + 0
    BY <1>1
  <2>3. ASSUME TotalsStand', NEW j \in Inv
        PROVE  /\ AmountPaid(j)' <= inv'[j].total + inv'[j].debited
               /\ IssuedTotal(j, "CN")' <= inv'[j].total + IssuedTotal(j, "TDN")'
    <3>1. TotalsStand
      BY <1>2, <2>3 DEF TotalsStand
    <3>2. CASE j = i
      BY <1>3, <1>5, <1>6, <1>7, <1>8, <2>2, <3>2
    <3>3. CASE j # i
      BY <1>5, <1>6, <3>1, <3>3 DEF IInv, NotOverpaid, NotOvercredited
    <3> QED
      BY <3>2, <3>3
  <2> QED
    BY <2>1, <2>3 DEF NotOverpaid, NotOvercredited
<1>12. StatusMatchesBalance'
  BY <1>2, <1>3, <1>5, <1>6
     DEF IInv, StatusMatchesBalance, StatusAgrees, TotalsStand, BalanceDue, ALLOWED_PARENT
<1>13. ParkedUntilDebited'
  <2>1. \A j \in Inv : CreditOwing(inv[j], AmountPaid(j))' = CreditOwing(inv[j], AmountPaid(j))
    <3>1. ASSUME NEW j \in Inv \ {i}
          PROVE  CreditOwing(inv[j], AmountPaid(j))' = CreditOwing(inv[j], AmountPaid(j))
      BY <1>5, <1>6 DEF CreditOwing
    <3>2. CreditOwing(inv[i], AmountPaid(i))' = CreditOwing(inv[i], AmountPaid(i))
      BY <1>1, <1>3, <1>5, <1>6, <1>7, <1>8 DEF CreditOwing, Monus, InvRow
    <3> QED
      BY <3>1, <3>2
  <2>2. \A j \in Inv : Issued(j, "TDN")' = Issued(j, "TDN")
    BY <1>2 DEF Issued
  <2> QED
    BY <1>2, <1>4, <2>1, <2>2, ParkedStays
<1> QED
  BY <1>4, <1>9, <1>10, <1>11, <1>12, <1>13 DEF IInv

\* A step that leaves the invoices, and what was paid and noted for each.
LEMMA MoneyStays ==
  ASSUME IInv, TypeOK', UNCHANGED <<ops, inv, client>>,
         \A i \in Inv : /\ AmountPaid(i)' = AmountPaid(i)
                        /\ \A kind : IssuedTotal(i, kind)' = IssuedTotal(i, kind)
                        /\ Issued(i, "TDN")' = Issued(i, "TDN")
  PROVE  /\ NotOverpaid' /\ CachedTotals' /\ NotOvercredited'
         /\ StatusMatchesBalance' /\ ParkedUntilDebited'
<1>1. NotOverpaid' /\ CachedTotals' /\ NotOvercredited'
  BY DEF IInv, NotOverpaid, CachedTotals, NotOvercredited, TotalsStand
<1>2. StatusMatchesBalance'
  BY DEF IInv, StatusMatchesBalance, StatusAgrees, TotalsStand, BalanceDue
<1>3. \A i \in Inv : CreditOwing(inv[i], AmountPaid(i))' = CreditOwing(inv[i], AmountPaid(i))
  BY DEF CreditOwing
<1>4. ParkedUntilDebited'
  BY <1>3, ParkedStays
<1> QED
  BY <1>1, <1>2, <1>4

\* Nothing is open while a key expires.
LEMMA ExpireKeyIInv == ASSUME IInv, NEW k \in Key, ExpireKey(k) PROVE IInv'
<1>1. /\ k \notin expired /\ key[k] # None /\ expiries[k] < MaxExpiries
      /\ expired' = expired \cup {k}
      /\ expiries' = [expiries EXCEPT ![k] = @ + 1]
      /\ \A t \in Txn : txn[t] = None
      /\ UNCHANGED <<ops, inv, pay, key, note, client, age, txn>>
  BY DEF ExpireKey, Open
<1>2. TypeOK'
  BY <1>1 DEF IInv, TypeOK
<1>3. RowsFit' /\ Apart' /\ RequestsFit'
  BY <1>1 DEF IInv, RowsFit, Apart, RequestsFit, Open
<1>4. KeysCount'
  <2> SUFFICES ASSUME NEW c \in Key
               PROVE  Cardinality(PaymentsFor(c)')
                        <= expiries'[c] + (IF KeyInUse(c)' THEN 1 ELSE 0)
    BY DEF KeysCount
  <2>1. Cardinality(PaymentsFor(c)) <= expiries[c] + (IF KeyInUse(c) THEN 1 ELSE 0)
    BY DEF IInv, KeysCount
  <2>2. PaymentsFor(c)' = PaymentsFor(c)
    BY <1>1 DEF PaymentsFor
  <2>3. expiries[c] \in Nat /\ Cardinality(PaymentsFor(c)) \in Nat
    <3>1. PaymentsFor(c) \in SUBSET Pay
      BY DEF PaymentsFor
    <3> QED
      BY <3>1, FS_Subset, FS_CardinalityType DEF IInv, TypeOK
  <2>4. CASE c = k
    <3>1. expiries'[c] = expiries[c] + 1 /\ ~KeyInUse(c)'
      BY <1>1, <2>4 DEF IInv, TypeOK, KeyInUse
    <3> QED
      BY <2>1, <2>2, <2>3, <3>1
  <2>5. CASE c # k
    <3>1. expiries'[c] = expiries[c] /\ KeyInUse(c)' = KeyInUse(c)
      BY <1>1, <2>5 DEF IInv, TypeOK, KeyInUse
    <3> QED
      BY <2>1, <2>2, <3>1
  <2> QED
    BY <2>4, <2>5
<1>5. \A i \in Inv : /\ AmountPaid(i)' = AmountPaid(i)
                     /\ \A kind : IssuedTotal(i, kind)' = IssuedTotal(i, kind)
                     /\ Issued(i, "TDN")' = Issued(i, "TDN")
  BY <1>1, SumsRead DEF Issued
<1> QED
  BY <1>1, <1>2, <1>3, <1>4, <1>5, MoneyStays DEF IInv

\* The age of an invoice only counts where it may change.
LEMMA GrowOlderIInv == ASSUME IInv, NEW i \in Inv, GrowOlder(i) PROVE IInv'
<1>1. /\ "age" \in ops /\ age[i] < MaxAge /\ age' = [age EXCEPT ![i] = @ + 1]
      /\ UNCHANGED <<ops, inv, pay, key, expired, expiries, note, client, txn>>
  BY DEF GrowOlder, rows
<1>2. TypeOK'
  BY <1>1 DEF IInv, TypeOK
<1>3. RowsFit' /\ KeysCount'
  BY <1>1 DEF IInv, RowsFit, KeysCount, KeyInUse, PaymentsFor
<1>4. \A j : /\ AmountPaid(j)' = AmountPaid(j)
             /\ \A kind : IssuedTotal(j, kind)' = IssuedTotal(j, kind)
             /\ Issued(j, "TDN")' = Issued(j, "TDN")
  BY <1>1, SumsRead DEF Issued
<1>5. Apart' /\ RequestsFit'
  <2>1. Onward
    BY <1>1 DEF Onward
  <2>2. ASSUME NEW u \in Txn, NEW e \in RequestRow, txn[u] = e PROVE Undisturbed(e)
    <3>1. Shape(e) /\ Fits(e)
      BY <2>2 DEF IInv, RequestsFit, Open
    <3>2. /\ e.op = "pay" => PayFits(e)
          /\ e.op = "bounce" => BounceFits(e)
      BY <3>1 DEF Fits
    <3> QED
      BY <1>1, <1>4, <3>2 DEF Undisturbed, PayFits, BounceFits
  <2> QED
    BY <1>1, <1>2, <2>1, <2>2, RequestsStay
<1> QED
  BY <1>1, <1>2, <1>3, <1>4, <1>5, MoneyStays DEF IInv

\* Drafts of notes count for nothing, and an issue holds its own.
LEMMA DraftsIInv ==
  ASSUME IInv, NEW n \in Note, NEW row \in NoteRow \cup {None}, note' = [note EXCEPT ![n] = row],
         note[n] # None => note[n].status = "DRAFT",
         row # None => row.status = "DRAFT" /\ inv[row.inv].status \notin {"NONE", "DRAFT"},
         \A u \in Txn : Open(u) /\ txn[u].op = "issue" => txn[u].note # n,
         UNCHANGED <<ops, inv, pay, key, expired, expiries, client, age, txn>>
  PROVE  IInv'
<1>1. TypeOK'
  BY DEF IInv, TypeOK
<1>2. note'[n] = row /\ \A m \in Note \ {n} : note'[m] = note[m]
  BY DEF IInv, TypeOK
<1>3. RowsFit' /\ KeysCount'
  BY <1>2 DEF IInv, RowsFit, KeysCount, KeyInUse, PaymentsFor
<1>4. \A j, kind : Noted(note', j, kind) = Noted(note, j, kind)
  BY <1>2 DEF Noted
<1>5. \A j : /\ AmountPaid(j)' = AmountPaid(j)
             /\ \A kind : IssuedTotal(j, kind)' = IssuedTotal(j, kind)
             /\ Issued(j, "TDN")' = Issued(j, "TDN")
  <2>1. ASSUME NEW j, NEW kind PROVE IssuedTotal(j, kind)' = IssuedTotal(j, kind)
    <3>1. IssuedTotal(j, kind)' = IssuedTotal(j, kind) - Notes(note[n], j, kind)
                                    + Notes(note'[n], j, kind)
      BY <1>1, <1>2, NotedAfter DEF IInv
    <3>2. Notes(note[n], j, kind) = 0 /\ Notes(note'[n], j, kind) = 0
      BY <1>2 DEF Notes
    <3>3. IssuedTotal(j, kind) \in Nat
      BY SumTypes DEF IInv
    <3> QED
      BY <3>1, <3>2, <3>3
  <2>2. \A j : Issued(j, "TDN")' = Issued(j, "TDN")
    BY <1>4 DEF Issued, Noted
  <2>3. \A j : AmountPaid(j)' = AmountPaid(j)
    BY SumsRead
  <2> QED
    BY <2>1, <2>2, <2>3
<1>6. Apart' /\ RequestsFit'
  <2>1. Onward
    BY DEF Onward
  <2>2. ASSUME NEW u \in Txn, NEW e \in RequestRow, txn[u] = e PROVE Undisturbed(e)
    <3>1. Shape(e) /\ Fits(e)
      BY <2>2 DEF IInv, RequestsFit, Open
    <3>2. /\ e.op = "pay" => PayFits(e)
          /\ e.op = "bounce" => BounceFits(e)
      BY <3>1 DEF Fits
    <3>3. e.op = "issue" => e.note \in Note \ {n}
      BY <2>2, <3>1 DEF Shape, Open
    <3> QED
      BY <1>2, <1>5, <3>2, <3>3 DEF Undisturbed, PayFits, BounceFits
  <2> QED
    BY <1>1, <2>1, <2>2, RequestsStay
<1> QED
  BY <1>1, <1>3, <1>5, <1>6, MoneyStays DEF IInv

LEMMA CreateNoteIInv ==
  ASSUME IInv, NEW n \in Note, NEW kind \in {"CN", "TDN"}, NEW i \in Inv, NEW a \in Amounts,
         CreateNote(n, kind, i, a)
  PROVE  IInv'
<1> DEFINE row == [kind |-> kind, inv |-> i, amount |-> a, status |-> "DRAFT"]
<1>1. row \in NoteRow /\ row.status = "DRAFT" /\ row.inv = i
  BY DEF NoteRow
<1>2. /\ note[n] = None /\ note' = [note EXCEPT ![n] = row]
      /\ UNCHANGED <<ops, inv, pay, key, expired, expiries, client, age, txn>>
  BY DEF CreateNote
<1>3. inv[i].status \notin {"NONE", "DRAFT"}
  BY DEF CreateNote, ParentReady, ALLOWED_PARENT
<1>4. \A u \in Txn : Open(u) /\ txn[u].op = "issue" => txn[u].note # n
  <2> SUFFICES ASSUME NEW u \in Txn, Open(u), txn[u].op = "issue" PROVE txn[u].note # n
    OBVIOUS
  <2>1. Fits(txn[u])
    BY DEF IInv, RequestsFit
  <2>2. IssueFits(txn[u])
    BY <2>1 DEF Fits
  <2>3. note[txn[u].note] # None
    BY <2>2 DEF IssueFits
  <2> QED
    BY <1>2, <2>3
<1> HIDE DEF row
<1> QED
  BY <1>1, <1>2, <1>3, <1>4, DraftsIInv

LEMMA DeleteNoteIInv == ASSUME IInv, NEW n \in Note, DeleteNote(n) PROVE IInv'
<1>1. /\ note[n].status = "DRAFT" /\ note' = [note EXCEPT ![n] = None]
      /\ UNCHANGED <<ops, inv, pay, key, expired, expiries, client, age, txn>>
  BY DEF DeleteNote
<1>2. \A u \in Txn : Open(u) /\ txn[u].op = "issue" => txn[u].note # n
  <2>1. \A u \in Txn : Open(u) /\ txn[u].op = "issue" => txn[u].note \in txn[u].locks
    BY DEF IInv, RequestsFit, Shape
  <2> QED
    BY <2>1 DEF DeleteNote
<1> QED
  BY <1>1, <1>2, DraftsIInv

\* A cheque moves while nobody holds its invoice.  One that clears fits the
\* balance, and the invoice's status follows.
LEMMA ChequeIInv ==
  ASSUME IInv, NEW p \in Pay, pay[p] # None, pay[p].status = "PENDING",
         \A t \in Txn : Open(t) => pay[p].inv \notin txn[t].locks,
         NEW row \in PayRow, pay' = [pay EXCEPT ![p] = row],
         row.inv = pay[p].inv, row.amount = pay[p].amount, row.key = pay[p].key,
         NEW st \in InvStatus,
         inv' = [inv EXCEPT ![row.inv] = [inv[row.inv] EXCEPT !.status = st]],
         row.status # "SUCCESS" => st = inv[row.inv].status,
         row.status = "SUCCESS" =>
           /\ row.amount <= BalanceDue(inv[row.inv], AmountPaid(row.inv))
           /\ st = DetermineStatus(row.inv, inv[row.inv], AmountPaid(row.inv) + row.amount),
         UNCHANGED <<ops, key, expired, expiries, note, client, age, txn>>
  PROVE  IInv'
<1> DEFINE i == row.inv
           new == [inv[i] EXCEPT !.status = st]
           added == IF row.status = "SUCCESS" THEN row.amount ELSE 0
<1>1. i \in Inv /\ inv[i] \in InvRow /\ row.amount \in Nat /\ row.amount \in Int
  BY AmountTypes DEF PayRow, IInv, TypeOK
<1>2. /\ new \in InvRow /\ new.status = st /\ new.total = inv[i].total
      /\ new.credited = inv[i].credited /\ new.debited = inv[i].debited
  BY <1>1 DEF InvRow
<1>3. inv'[i] = new /\ \A j \in Inv \ {i} : inv'[j] = inv[j]
  BY <1>1 DEF IInv, TypeOK
<1>4. pay'[p] = row /\ row # None /\ \A q \in Pay \ {p} : pay'[q] = pay[q]
  BY DEF IInv, TypeOK
<1>5. TypeOK'
  BY <1>1, <1>2 DEF IInv, TypeOK
<1>6. \A j \in Inv : AmountPaid(j) \in Nat /\ \A kind : IssuedTotal(j, kind) \in Nat
  BY SumTypes DEF IInv
<1>7. \A j \in Inv : AmountPaid(j)' = AmountPaid(j) + (IF j = i THEN added ELSE 0)
  <2> SUFFICES ASSUME NEW j \in Inv
               PROVE  AmountPaid(j)' = AmountPaid(j) + (IF j = i THEN added ELSE 0)
    OBVIOUS
  <2>1. AmountPaid(j)' = AmountPaid(j) - Brings(pay[p], j) + Brings(pay'[p], j)
    BY <1>4, <1>5, PaidAfter DEF IInv
  <2>2. Brings(pay[p], j) = 0 /\ Brings(pay'[p], j) = IF j = i THEN added ELSE 0
    BY <1>4 DEF Brings
  <2> QED
    BY <1>1, <1>6, <2>1, <2>2
<1>8. \A j : /\ \A kind : IssuedTotal(j, kind)' = IssuedTotal(j, kind)
             /\ Issued(j, "TDN")' = Issued(j, "TDN")
  BY SumsRead DEF Issued
<1>9. /\ st # "NONE" \/ inv[i].status = "NONE"
      /\ st = "DRAFT" => inv[i].status = "DRAFT"
      /\ added > 0 => (age[i] = 0 => StatusRight(new, AmountPaid(i) + added))
  <2>1. CASE row.status = "SUCCESS"
    <3>1. AmountPaid(i) + row.amount \in Nat
      BY <1>1, <1>6
    <3> QED
      BY <1>1, <2>1, <3>1, Determined
  <2>2. CASE row.status # "SUCCESS"
    BY <2>2
  <2> QED
    BY <2>1, <2>2
<1>10. inv[i].total + inv[i].debited \in Nat /\ inv[i].credited \in Nat
       /\ inv[i].total \in Nat /\ inv[i].debited \in Nat
  BY <1>1 DEF InvRow
<1>11. added # 0 => AmountPaid(i) + added + inv[i].credited <= inv[i].total + inv[i].debited
  BY <1>1, <1>6, <1>10 DEF BalanceDue, Monus
<1>12. added \in Nat /\ (added = 0 => new.status = inv[i].status)
  BY <1>1, <1>2, AmountTypes DEF PayRow
<1>13. inv[i].status # "NONE"
  BY DEF IInv, RowsFit
<1> HIDE DEF i, new, added
<1>14. RowsFit' /\ KeysCount'
  <2>1. KeysCount' /\ \A k \in Key : key'[k] # None => pay'[key'[k]] # None
    BY <1>4, KeysStay
  <2>2. \A q \in Pay : pay'[q] # None => pay[q] # None /\ pay'[q].inv = pay[q].inv
    BY <1>4
  <2>3. \A j \in Inv : /\ inv'[j].status = "NONE" => inv[j].status = "NONE"
                       /\ inv'[j].status = "DRAFT" => inv[j].status = "DRAFT"
                       /\ inv'[j].total = inv[j].total
    BY <1>2, <1>3, <1>9
  <2>4. /\ \A q \in Pay : pay[q] # None => pay[q].inv \in Inv
        /\ \A n \in Note : note[n] # None => note[n].inv \in Inv
    BY DEF IInv, TypeOK, PayRow, NoteRow
  <2> QED
    BY <2>1, <2>2, <2>3, <2>4 DEF IInv, RowsFit
<1>15. Apart' /\ RequestsFit'
  <2>1. Onward
    BY <1>2, <1>3, <1>9 DEF Onward
  <2>2. ASSUME NEW u \in Txn, NEW e \in RequestRow, txn[u] = e PROVE Undisturbed(e)
    <3>1. Shape(e) /\ Fits(e)
      BY <2>2 DEF IInv, RequestsFit, Open
    <3>2. e.inv \in e.locks => e.inv \in Inv \ {i}
      BY <2>2 DEF Open, RequestRow, i
    <3>3. /\ e.op = "pay" => PayFits(e) /\ e.pay \in Pay
          /\ e.op = "bounce" => BounceFits(e) /\ e.pay \in Pay
      BY <3>1 DEF Fits, Shape
    <3>4. e.op \in {"pay", "bounce"} => e.pay # p
      BY <3>1, <3>2, <3>3 DEF Shape, PayFits, BounceFits, i
    <3>5. e.inv \in e.locks => AmountPaid(e.inv)' = AmountPaid(e.inv)
      BY <1>6, <1>7, <3>2
    <3> QED
      BY <1>3, <1>4, <1>8, <3>2, <3>3, <3>4, <3>5 DEF Undisturbed, PayFits, BounceFits
  <2> QED
    BY <1>5, <2>1, <2>2, RequestsStay
<1>16. NotOverpaid' /\ CachedTotals' /\ NotOvercredited'
  <2>1. CachedTotals'
    BY <1>2, <1>3, <1>8 DEF IInv, CachedTotals
  <2>2. ASSUME TotalsStand', NEW j \in Inv
        PROVE  /\ AmountPaid(j)' <= inv'[j].total + inv'[j].debited
               /\ IssuedTotal(j, "CN")' <= inv'[j].total + IssuedTotal(j, "TDN")'
    <3>1. TotalsStand
      BY <2>2 DEF TotalsStand
    <3>2. /\ AmountPaid(j) <= inv[j].total + inv[j].debited
          /\ IssuedTotal(j, "CN") <= inv[j].total + IssuedTotal(j, "TDN")
      BY <3>1 DEF IInv, NotOverpaid, NotOvercredited
    <3>3. CASE j = i
      <4>1. AmountPaid(i)' <= inv[i].total + inv[i].debited
        BY <1>1, <1>6, <1>7, <1>10, <1>11, <1>12, <3>2, <3>3
      <4> QED
        BY <1>2, <1>3, <1>8, <3>2, <3>3, <4>1
    <3>4. CASE j # i
      <4>1. AmountPaid(j)' = AmountPaid(j)
        BY <1>6, <1>7, <3>4
      <4> QED
        BY <1>3, <1>8, <3>2, <3>4, <4>1
    <3> QED
      BY <3>3, <3>4
  <2> QED
    BY <2>1, <2>2 DEF NotOverpaid, NotOvercredited
<1>17. StatusMatchesBalance'
  <2> SUFFICES ASSUME Calm', NEW j \in Inv PROVE StatusRight(inv[j], AmountPaid(j))'
    BY DEF StatusMatchesBalance, StatusAgrees, Calm, StatusRight
  <2>1. Calm /\ \A l \in Inv : age[l] = 0
    BY DEF Calm, TotalsStand, IInv, RowsFit
  <2>2. StatusRight(inv[j], AmountPaid(j))
    BY <2>1 DEF IInv, StatusMatchesBalance, StatusAgrees, Calm, StatusRight
  <2>3. CASE j # i
    <3>1. AmountPaid(j)' = AmountPaid(j)
      BY <1>6, <1>7, <2>3
    <3> QED
      BY <1>3, <2>2, <2>3, <3>1 DEF StatusRight, BalanceDue
  <2>4. CASE j = i /\ added = 0
    <3>1. AmountPaid(j)' = AmountPaid(j)
      BY <1>6, <1>7, <2>4
    <3>2. inv'[j].status = inv[j].status /\ inv'[j].total = inv[j].total
          /\ inv'[j].debited = inv[j].debited /\ inv'[j].credited = inv[j].credited
      BY <1>2, <1>3, <1>12, <2>4
    <3> QED
      BY <2>2, <3>1, <3>2 DEF StatusRight, BalanceDue
  <2>5. CASE j = i /\ added # 0
    <3>1. AmountPaid(j)' = AmountPaid(j) + added /\ inv'[j] = new
      BY <1>3, <1>7, <2>5
    <3>2. StatusRight(new, AmountPaid(j) + added)
      BY <1>1, <1>9, <1>12, <2>1, <2>5
    <3> QED
      BY <3>1, <3>2 DEF StatusRight, BalanceDue
  <2> QED
    BY <2>3, <2>4, <2>5
<1>18. ParkedUntilDebited'
  <2>1. ASSUME NEW j \in Inv
        PROVE  CreditOwing(inv[j], AmountPaid(j))' = CreditOwing(inv[j], AmountPaid(j))
    <3>1. inv'[j].total = inv[j].total
          /\ inv'[j].debited = inv[j].debited /\ inv'[j].credited = inv[j].credited
      BY <1>2, <1>3
    <3>2. CASE j = i /\ added # 0
      <4>1. AmountPaid(j)' = AmountPaid(j) + added
        BY <1>7, <3>2
      <4> QED
        BY <1>6, <1>10, <1>11, <1>12, <3>1, <3>2, <4>1 DEF CreditOwing, Monus
    <3>3. CASE ~(j = i /\ added # 0)
      <4>1. AmountPaid(j)' = AmountPaid(j)
        BY <1>6, <1>7, <3>3
      <4> QED
        BY <3>1, <4>1 DEF CreditOwing
    <3> QED
      BY <3>2, <3>3
  <2> QED
    BY <1>5, <1>8, <2>1, ParkedStays
<1> QED
  BY <1>5, <1>14, <1>15, <1>16, <1>17, <1>18 DEF IInv

LEMMA DepositReturnIInv == ASSUME IInv, NEW p \in Pay, DepositPdc(p) \/ ReturnPdc(p) PROVE IInv'
<1> DEFINE deposited == [pay[p] EXCEPT !.pdc = "DEPOSITED"]
           returned == [pay[p] EXCEPT !.pdc = "RETURNED", !.status = "CANCELLED"]
<1>1. /\ pay[p] # None /\ pay[p] \in PayRow /\ pay[p].status = "PENDING"
      /\ \A t \in Txn : Open(t) => pay[p].inv \notin txn[t].locks
      /\ UNCHANGED <<ops, inv, key, expired, expiries, note, client, age, txn>>
  BY RowTypes DEF DepositPdc, ReturnPdc, PdcReady, IInv
<1>2. \A row \in {deposited, returned} :
        /\ row \in PayRow /\ row.inv = pay[p].inv /\ row.amount = pay[p].amount
        /\ row.key = pay[p].key /\ row.status # "SUCCESS"
  BY <1>1 DEF PayRow, PayStatus, PdcStatus
<1>3. pay' = [pay EXCEPT ![p] = deposited] \/ pay' = [pay EXCEPT ![p] = returned]
  BY DEF DepositPdc, ReturnPdc, IInv, TypeOK
<1> HIDE DEF deposited, returned
<1>4. PICK row \in {deposited, returned} : pay' = [pay EXCEPT ![p] = row]
  BY <1>3
<1>5. inv[row.inv] \in InvRow /\ row.inv \in Inv
  BY <1>2 DEF IInv, TypeOK, PayRow
<1>6. inv' = [inv EXCEPT ![row.inv] = [inv[row.inv] EXCEPT !.status = inv[row.inv].status]]
      /\ inv[row.inv].status \in InvStatus
  BY <1>1, <1>5 DEF InvRow, IInv, TypeOK
<1> QED
  BY <1>1, <1>2, <1>4, <1>6, ChequeIInv

LEMMA ClearPdcIInv == ASSUME IInv, NEW p \in Pay, ClearPdc(p) PROVE IInv'
<1> DEFINE row == [pay[p] EXCEPT !.pdc = "CLEARED", !.status = "SUCCESS"]
           i == pay[p].inv
           st == DetermineStatus(i, inv[i], AmountPaid(i) + pay[p].amount)
<1>1. /\ pay[p] # None /\ pay[p] \in PayRow /\ pay[p].status = "PENDING"
      /\ \A t \in Txn : Open(t) => i \notin txn[t].locks
      /\ pay[p].amount <= BalanceDue(inv[i], AmountPaid(i))
      /\ UNCHANGED <<ops, key, expired, expiries, note, client, age, txn>>
  BY RowTypes DEF ClearPdc, PdcReady, IInv
<1>2. /\ row \in PayRow /\ row.inv = i /\ row.inv = pay[p].inv
      /\ row.amount = pay[p].amount /\ row.key = pay[p].key /\ row.status = "SUCCESS"
  BY <1>1 DEF PayRow, PayStatus, PdcStatus
<1>3. i \in Inv /\ inv[i] \in InvRow /\ pay[p].amount \in Nat
  BY <1>1, AmountTypes DEF PayRow, IInv, TypeOK
<1>4. AmountPaid(i) + pay[p].amount \in Nat
  BY <1>3, SumTypes DEF IInv
<1>5. st \in InvStatus
  BY <1>3, <1>4, Determined
<1>6. pay' = [pay EXCEPT ![p] = row] /\ inv' = [inv EXCEPT ![i] = [inv[i] EXCEPT !.status = st]]
  BY DEF ClearPdc, IInv, TypeOK
<1> HIDE DEF row, st
<1>7. /\ inv' = [inv EXCEPT ![row.inv] = [inv[row.inv] EXCEPT !.status = st]]
      /\ row.amount <= BalanceDue(inv[row.inv], AmountPaid(row.inv))
      /\ \A t \in Txn : Open(t) => pay[p].inv \notin txn[t].locks
  BY <1>1, <1>2, <1>6
<1>8. st = DetermineStatus(row.inv, inv[row.inv], AmountPaid(row.inv) + row.amount)
  BY <1>2 DEF st
<1> HIDE DEF i
<1> QED
  BY <1>1, <1>2, <1>5, <1>6, <1>7, <1>8, ChequeIInv

-----------------------------------------------------------------------------
(* Steps that open a request.                                              *)

\* An abandoned request, and one that fails, writes nothing.
LEMMA EndIInv ==
  ASSUME IInv, NEW t \in Txn, txn' = [txn EXCEPT ![t] = None], UNCHANGED <<rows, age>>
  PROVE  IInv'
BY QuietIInv

\* A request on an invoice that is there, which holds nothing or a free row,
\* and may write its status, its deletion or, of a draft, its total.
LEMMA PlainIInv ==
  ASSUME IInv, UNCHANGED <<rows, age>>, NEW t \in Txn, ~Open(t),
         NEW e \in RequestRow, txn' = [txn EXCEPT ![t] = e],
         Shape(e), e.op \in {"send", "edit", "delete", "void"}, e.flips = {},
         inv[e.inv].status # "NONE",
         e.op = "send" => inv[e.inv].status = "DRAFT",
         e.op = "edit" => "edit" \in ops,
         e.op = "void" => "void" \in ops,
         Free(t, e.locks)
  PROVE  IInv'
<1>1. Fits(e)
  BY DEF Fits, Calm
<1>2. \A u \in Txn \ {t} : Open(u) =>
        /\ txn[u].locks \cap e.locks = {}
        /\ e.op = "pay" /\ txn[u].op = "pay" => txn[u].pay # e.pay
  BY DEF Free, LockedByOthers
<1> QED
  BY <1>1, <1>2, QuietIInv

LEMMA SendLoadIInv == ASSUME IInv, NEW t \in Txn, NEW i \in Inv, SendLoad(t, i) PROVE IInv'
<1> DEFINE e == Request("send", i, {i})
<1>1. e \in RequestRow
  BY RequestType DEF IInv
<1>2. Shape(e) /\ e.op = "send" /\ e.flips = {} /\ e.inv = i /\ e.locks = {i}
  BY DEF Request, Shape, InvStatus
<1>3. /\ inv[i].status = "DRAFT" /\ ~Open(t) /\ Free(t, {i}) /\ txn' = [txn EXCEPT ![t] = e]
      /\ UNCHANGED <<rows, age>>
  BY DEF SendLoad
<1> HIDE DEF e
<1> QED
  BY <1>1, <1>2, <1>3, PlainIInv

LEMMA EditInvoiceIInv ==
  ASSUME IInv, NEW t \in Txn, NEW i \in Inv, NEW total \in Totals, EditInvoice(t, i, total)
  PROVE  IInv'
<1> DEFINE r == Request("edit", i, {})
           e == [r EXCEPT !.total = total]
<1>1. r \in RequestRow
  BY RequestType DEF IInv
<1>2. e \in RequestRow
  BY <1>1, AmountTypes DEF RequestRow
<1>3. Shape(e) /\ e.op = "edit" /\ e.flips = {} /\ e.inv = i /\ e.locks = {}
  BY DEF Request, Shape, InvStatus
<1>4. /\ "edit" \in ops /\ inv[i].status = "DRAFT" /\ ~Open(t) /\ txn' = [txn EXCEPT ![t] = e]
      /\ UNCHANGED <<rows, age>>
  BY DEF EditInvoice
<1>5. Free(t, {})
  BY DEF Free
<1> HIDE DEF e
<1> QED
  BY <1>2, <1>3, <1>4, <1>5, PlainIInv

LEMMA Deleting ==
  ASSUME NEW r \in RequestRow, NEW d \in BOOLEAN
  PROVE  [r EXCEPT !.deleted = d] \in RequestRow
BY DEF RequestRow

LEMMA DeleteInvoiceIInv == ASSUME IInv, NEW t \in Txn, NEW i \in Inv, DeleteInvoice(t, i) PROVE IInv'
<1> DEFINE r == Request("delete", i, {})
           e == [r EXCEPT !.deleted = TRUE]
<1>1. r \in RequestRow
  BY RequestType DEF IInv
<1>2. e \in RequestRow
  BY <1>1, Deleting
<1>3. Shape(e) /\ e.op = "delete" /\ e.flips = {} /\ e.inv = i /\ e.locks = {}
  BY DEF Request, Shape, InvStatus
<1>4. /\ inv[i].status = "DRAFT" /\ ~Open(t) /\ txn' = [txn EXCEPT ![t] = e]
      /\ UNCHANGED <<rows, age>>
  BY DEF DeleteInvoice
<1>5. Free(t, {})
  BY DEF Free
<1> HIDE DEF e
<1> QED
  BY <1>2, <1>3, <1>4, <1>5, PlainIInv

LEMMA VoidInvoiceIInv == ASSUME IInv, NEW t \in Txn, NEW i \in Inv, VoidInvoice(t, i) PROVE IInv'
<1> DEFINE r == Request("void", i, {})
           e == [r EXCEPT !.status = "CANCELLED"]
<1>1. r \in RequestRow
  BY RequestType DEF IInv
<1>2. e \in RequestRow
  BY <1>1 DEF RequestRow, InvStatus
<1>3. Shape(e) /\ e.op = "void" /\ e.flips = {} /\ e.inv = i /\ e.locks = {}
  BY DEF Request, Shape, InvStatus
<1>4. /\ inv[i].status # "NONE" /\ "void" \in ops /\ ~Open(t)
      /\ txn' = [txn EXCEPT ![t] = e] /\ UNCHANGED <<rows, age>>
  BY DEF VoidInvoice
<1>5. Free(t, {})
  BY DEF Free
<1> HIDE DEF e
<1> QED
  BY <1>2, <1>3, <1>4, <1>5, PlainIInv

\* What is swept has been sent, and is old.
LEMMA SweepIInv ==
  ASSUME IInv, NEW t \in Txn, NEW S, SweepOverdue(t, S)
  PROVE  IInv'
<1> DEFINE late == PastDue(None, None, 0) \cap S
           r == Request("sweep", None, {})
           e == [r EXCEPT !.flips = late]
<1>1. /\ late \in SUBSET Inv
      /\ \A j \in late : inv[j].status \in FLIP_STATUSES /\ age[j] > 0
  BY DEF PastDue
<1>2. txn' = [txn EXCEPT ![t] = e] /\ UNCHANGED <<rows, age>>
  BY DEF SweepOverdue
<1> HIDE DEF late
<1>3. r \in RequestRow
  BY RequestType DEF IInv
<1>4. e \in RequestRow
  BY <1>1, <1>3 DEF RequestRow
<1>5. Shape(e) /\ e.op = "sweep" /\ e.flips = late /\ e.inv = None /\ e.locks = {}
  BY DEF Request, Shape, InvStatus
<1> HIDE DEF e
<1>6. Fits(e)
  <2>1. \A j \in late : inv[j].status \notin {"NONE", "DRAFT"}
    BY <1>1 DEF FLIP_STATUSES
  <2>2. "age" \notin ops => late = {}
    BY <1>1 DEF IInv, RowsFit
  <2> QED
    BY <1>5, <2>1, <2>2 DEF Fits
<1>7. \A u \in Txn \ {t} : Open(u) =>
        /\ txn[u].locks \cap e.locks = {}
        /\ e.op = "pay" /\ txn[u].op = "pay" => txn[u].pay # e.pay
  BY <1>5
<1> QED
  BY <1>2, <1>4, <1>5, <1>6, <1>7, QuietIInv

\* A request that has been evaluated marks only old and sent invoices.
LEMMA FlipsFit ==
  ASSUME IInv, NEW e, \A j \in e.flips : j \in Inv /\ inv[j].status \in FLIP_STATUSES /\ age[j] > 0
  PROVE  /\ \A j \in e.flips : inv[j].status \notin {"NONE", "DRAFT"}
         /\ "age" \notin ops => e.flips = {}
<1>1. \A j \in e.flips : inv[j].status \notin {"NONE", "DRAFT"}
  BY DEF FLIP_STATUSES
<1>2. "age" \notin ops => e.flips = {}
  <2> SUFFICES ASSUME "age" \notin ops, NEW j \in e.flips PROVE FALSE
    OBVIOUS
  <2>1. age[j] = 0
    BY DEF IInv, RowsFit
  <2> QED
    BY <2>1
<1> QED
  BY <1>1, <1>2

\* The invoice is a DRAFT, so nothing has been paid or noted on it.
LEMMA SendCheckIInv == ASSUME IInv, NEW t \in Txn, SendCheck(t) PROVE IInv'
<1> DEFINE i == txn[t].inv
           paid == AmountPaid(i)
           sent == [inv[i] EXCEPT !.status = "SENT"]
           st == IF ShouldMarkOverdue(i, sent, paid) THEN "OVERDUE" ELSE "SENT"
           r == Evaluate(txn[t], inv[i], paid)
           e == [r EXCEPT !.op = "checked", !.locks = {i, Client}, !.status = st]
<1>1. /\ Open(t) /\ txn[t] \in RequestRow /\ txn[t].op = "send"
      /\ Shape(txn[t]) /\ Fits(txn[t])
  BY RowTypes DEF SendCheck, IInv, RequestsFit
<1>2. /\ i \in Inv /\ txn[t].locks \subseteq Inv \cup Note \cup {Client} /\ i \in txn[t].locks
      /\ inv[i].status = "DRAFT" /\ inv[i] \in InvRow
  BY <1>1, RowTypes DEF Shape, RequestRow, Fits, IInv
<1>3. UNCHANGED <<rows, age>> /\ (txn' = [txn EXCEPT ![t] = None] \/ txn' = [txn EXCEPT ![t] = e])
  BY DEF SendCheck
<1>4. CASE txn' = [txn EXCEPT ![t] = None]
  BY <1>3, <1>4, EndIInv
<1>5. CASE txn' = [txn EXCEPT ![t] = e]
  <2>1. r.deleted \in {Same, TRUE}
    <3>1. r.deleted = txn[t].deleted
      BY <1>1, Evaluated DEF IInv
    <3>2. txn[t].deleted \in {Same, TRUE}
      BY <1>1 DEF Shape
    <3> QED
      BY ONLY <3>1, <3>2
  <2>2. /\ r \in RequestRow /\ r.inv = i /\ r.total = Same
        /\ r.credited = Same /\ r.debited = Same /\ r.balance = Same
        /\ r.pay = None /\ r.key = None /\ r.note = None
        /\ \A j \in r.flips : j \in Inv /\ inv[j].status \in FLIP_STATUSES /\ age[j] > 0
    BY <1>1, Evaluated DEF Shape, IInv, RequestRow
  <2>3. st \in {"SENT", "OVERDUE"} /\ (age[i] = 0 => st = "SENT")
    <3>1. age[i] = 0 => ~(age[i] > 0)
      OBVIOUS
    <3> QED
      BY <3>1 DEF ShouldMarkOverdue
  <2> HIDE DEF r, st, sent
  <2>4. e \in RequestRow
    <3> DEFINE e1 == [r EXCEPT !.op = "checked"]
               e2 == [e1 EXCEPT !.locks = {i, Client}]
    <3>1. e1 \in RequestRow
      BY <2>2 DEF RequestRow
    <3>2. e2 \in RequestRow
      <4> HIDE DEF e1
      <4> QED
        BY <1>2, <3>1 DEF RequestRow
    <3>3. e = [e2 EXCEPT !.status = st]
      BY <2>2 DEF RequestRow
    <3> HIDE DEF e, e2
    <3> QED
      BY <2>3, <3>2, <3>3 DEF RequestRow, InvStatus
  <2>5. /\ e.op = "checked" /\ e.inv = i /\ e.locks = {i, Client} /\ e.status = st
        /\ e.flips = r.flips /\ e.total = Same
        /\ e.credited = Same /\ e.debited = Same /\ e.balance = Same
        /\ e.pay = None /\ e.key = None /\ e.note = None
    BY <2>2 DEF RequestRow
  <2>6. e.deleted \in {Same, TRUE}
    <3>1. e.deleted = r.deleted
      BY <2>2 DEF RequestRow
    <3> QED
      BY ONLY <2>1, <3>1
  <2> HIDE DEF e
  <2>7. Shape(e)
    BY <1>2, <2>3, <2>5, <2>6 DEF Shape, AR_STATUSES
  <2>8. Fits(e)
    <3>1. /\ \A j \in e.flips : inv[j].status \notin {"NONE", "DRAFT"}
          /\ "age" \notin ops => e.flips = {}
      BY <2>2, <2>5, FlipsFit
    <3>2. ASSUME Calm PROVE StatusRight(Updated(e.inv, e), AmountPaid(e.inv) + PaidBy(e))
      <4>1. age[i] = 0 /\ "age" \notin ops /\ "payDraft" \notin ops
        BY <1>2, <3>2 DEF Calm, IInv, RowsFit
      <4>2. AmountPaid(i) = 0 /\ \A kind : IssuedTotal(i, kind) = 0
        BY <1>2, <4>1, Nothing DEF IInv, RowsFit
      <4>3. inv[i].credited = 0 /\ inv[i].debited = 0 /\ inv[i].total \in Nat
        BY <1>2, <4>2 DEF IInv, CachedTotals, InvRow
      <4>4. Updated(i, e).status = "SENT" /\ Updated(i, e).total = inv[i].total
            /\ Updated(i, e).credited = 0 /\ Updated(i, e).debited = 0
        BY <2>3, <2>5, <3>1, <4>1, <4>3 DEF Updated, Put, InvStatus
      <4>5. PaidBy(e) = 0
        BY <2>5 DEF PaidBy
      <4> QED
        BY <2>5, <4>2, <4>3, <4>4, <4>5 DEF StatusRight, BalanceDue, Monus
    <3> QED
      BY <1>2, <2>5, <3>1, <3>2 DEF Fits
  <2>9. \A u \in Txn \ {t} : Open(u) =>
          /\ txn[u].locks \cap e.locks = {}
          /\ e.op = "pay" /\ txn[u].op = "pay" => txn[u].pay # e.pay
    <3> SUFFICES ASSUME NEW u \in Txn \ {t}, Open(u)
                 PROVE  txn[u].locks \cap {i, Client} = {}
      BY <2>5
    <3>1. i \notin txn[u].locks
      BY <1>1, <1>2 DEF IInv, Apart
    <3>2. Client \notin txn[u].locks
      BY DEF SendCheck, Free, LockedByOthers
    <3> QED
      BY <3>1, <3>2
  <2> QED
    BY <1>3, <1>5, <2>4, <2>7, <2>8, <2>9, QuietIInv
<1> QED
  BY <1>3, <1>4, <1>5

\* The status a request leaves is that of the row it writes.
LEMMA StatusLeft ==
  ASSUME TypeOK, NEW e \in RequestRow, NEW i \in Inv, e.inv = i, e.flips = {}, e.deleted = Same,
         e.total = Same, NEW row \in InvRow, row.total = inv[i].total,
         row.deleted = inv[i].deleted, row.status = inv[i].status,
         Put(inv[i].credited, e.credited) = row.credited,
         Put(inv[i].debited, e.debited) = row.debited,
         NEW paid \in Nat, age[i] = 0, NEW st, st = DetermineStatus(i, row, paid),
         e.status = IF st = inv[i].status THEN Same ELSE st
  PROVE  StatusRight(Updated(i, e), paid)
<1>1. StatusRight([row EXCEPT !.status = st], paid) /\ st \in InvStatus
  BY Determined
<1>2. st # Same
  BY <1>1
<1>3. Put(inv[i].status, e.status) = st
  BY <1>2 DEF Put
<1>4. Updated(i, e) = [row EXCEPT !.status = st]
  BY <1>3 DEF Updated, Put, InvRow
<1> QED
  BY <1>1, <1>4

\* It is PAID only if nothing is due, and that of a DRAFT or a void row is kept.
LEMMA PaidLeft ==
  ASSUME TypeOK, NEW e \in RequestRow, NEW i \in Inv, e.inv = i, e.deleted = Same,
         e.total = Same, NEW row \in InvRow, row.total = inv[i].total,
         row.status = inv[i].status,
         Put(inv[i].credited, e.credited) = row.credited,
         Put(inv[i].debited, e.debited) = row.debited,
         NEW paid \in Nat, NEW st, st = DetermineStatus(i, row, paid),
         e.status = IF st = inv[i].status THEN Same ELSE st
  PROVE  /\ Updated(i, e).status = "PAID" => BalanceDue(Updated(i, e), paid) = 0
         /\ inv[i].status \in {"DRAFT", "CANCELLED"} => e.status = Same
<1>1. st \in InvStatus
  BY Determined
<1>2. st # Same
  BY <1>1
<1>3. Put(inv[i].status, e.status) = st
  BY <1>2 DEF Put
<1>4. /\ Updated(i, e).status \in {"OVERDUE", st}
      /\ Updated(i, e).total = row.total
      /\ Updated(i, e).credited = row.credited /\ Updated(i, e).debited = row.debited
  BY <1>3 DEF Updated, Put
<1>5. st = "PAID" => BalanceDue(row, paid) = 0
  BY DEF DetermineStatus
<1> QED
  BY <1>4, <1>5 DEF DetermineStatus, BalanceDue

\* The payment fits the balance, and is nobody else's.
LEMMA RecordPaymentIInv ==
  ASSUME IInv, NEW t \in Txn, NEW i \in Inv, NEW k \in Key, NEW a \in Amounts,
         NEW method \in {"PDC", "CHEQUE"}, NEW p \in Pay,
         RecordPayment(t, i, k, a, method, p)
  PROVE  IInv'
<1> DEFINE new == [inv |-> i, amount |-> a, key |-> k,
                   status |-> IF method = "PDC" THEN "PENDING" ELSE "SUCCESS",
                   pdc |-> IF method = "PDC" THEN "RECEIVED" ELSE None]
           paid == AmountPaid(i) + IF method = "PDC" THEN 0 ELSE a
           st == DetermineStatus(i, inv[i], paid)
           put == IF st = inv[i].status THEN Same ELSE st
           r == Request("pay", i, {i})
           made == [r EXCEPT !.status = put, !.pay = p, !.row = new, !.key = k, !.old = key[k]]
           e == Evaluate(made, [inv[i] EXCEPT !.status = st], paid)
<1>1. /\ ~Open(t) /\ inv[i].status # "NONE" /\ (inv[i].status = "DRAFT" => "payDraft" \in ops)
      /\ Free(t, {i}) /\ (key[k] = None \/ k \in expired)
      /\ pay[p] = None /\ (\A u \in Txn : Open(u) => txn[u].pay # p)
      /\ a <= BalanceDue(inv[i], AmountPaid(i))
      /\ txn' = [txn EXCEPT ![t] = e]
      /\ UNCHANGED <<rows, age>>
  BY DEF RecordPayment
<1>2. new \in PayRow /\ new.inv = i /\ new.amount = a /\ new.key = k
      /\ new.status \in {"SUCCESS", "PENDING"}
  BY DEF PayRow, PayStatus, PdcStatus
<1>3. a \in Nat /\ a # 0 /\ inv[i] \in InvRow /\ AmountPaid(i) \in Nat /\ paid \in Nat
  <2>1. a \in Nat /\ a # 0 /\ inv[i] \in InvRow
    BY AmountTypes DEF IInv, TypeOK
  <2>2. AmountPaid(i) \in Nat
    BY SumTypes DEF IInv
  <2> QED
    BY <2>1, <2>2
<1>4. /\ st \in InvStatus /\ st # "NONE" /\ (st = "DRAFT" => inv[i].status = "DRAFT")
      /\ st = "CANCELLED" => inv[i].status = "CANCELLED"
  BY <1>3, Determined DEF DetermineStatus
<1>5. put \in InvStatus \cup {Same} /\ put \notin {"NONE", "DRAFT", "CANCELLED"}
  BY <1>4 DEF InvStatus
<1>6. paid = AmountPaid(i) + IF new.status = "SUCCESS" THEN a ELSE 0
  OBVIOUS
<1>7. key[k] \in Pay \cup {None} /\ (key[k] # None => pay[key[k]] # None)
  BY DEF IInv, TypeOK, RowsFit
<1> HIDE DEF new, paid
<1>8. r \in RequestRow
  BY RequestType DEF IInv
<1>9. /\ made.op = "pay" /\ made.inv = i /\ made.locks = {i} /\ made.status = put
      /\ made.deleted = Same /\ made.total = Same
      /\ made.credited = Same /\ made.debited = Same /\ made.balance = Same
      /\ made.pay = p /\ made.row = new /\ made.key = k /\ made.old = key[k] /\ made.note = None
  BY DEF Request
<1>10. made \in RequestRow
  <2> DEFINE r1 == [r EXCEPT !.status = put]
             r2 == [r1 EXCEPT !.pay = p]
             r3 == [r2 EXCEPT !.row = new]
             r4 == [r3 EXCEPT !.key = k]
  <2>1. made = [r4 EXCEPT !.old = key[k]]
    BY <1>8 DEF RequestRow
  <2> HIDE DEF r, put
  <2>2. r1 \in RequestRow
    BY <1>5, <1>8 DEF RequestRow
  <2> HIDE DEF r1
  <2>3. r2 \in RequestRow
    BY <2>2 DEF RequestRow
  <2> HIDE DEF r2
  <2>4. r3 \in RequestRow
    BY <1>2, <2>3 DEF RequestRow
  <2> HIDE DEF r3
  <2>5. r4 \in RequestRow
    BY <2>4 DEF RequestRow
  <2> HIDE DEF r4, made
  <2> QED
    BY <1>7, <2>1, <2>5 DEF RequestRow
<1> HIDE DEF made
<1>11. /\ e \in RequestRow /\ e.op = "pay" /\ e.inv = i /\ e.locks = {i} /\ e.status = put
       /\ e.deleted = Same /\ e.total = Same
       /\ e.credited = Same /\ e.debited = Same /\ e.balance = Same
       /\ e.pay = p /\ e.row = new /\ e.key = k /\ e.old = key[k] /\ e.note = None
       /\ \A j \in e.flips : j \in Inv /\ inv[j].status \in FLIP_STATUSES /\ age[j] > 0
  BY <1>9, <1>10, Evaluated DEF IInv, RequestRow
<1> HIDE DEF e
<1>12. Shape(e)
  BY <1>2, <1>5, <1>11 DEF Shape
<1>13. PayFits(e)
  <2>1. AmountPaid(i) + a + inv[i].credited <= inv[i].total + inv[i].debited
    BY <1>1, <1>3 DEF BalanceDue, Monus, InvRow
  <2> QED
    BY <1>1, <1>2, <1>7, <1>11, <2>1 DEF PayFits
<1>14. Fits(e)
  <2>1. /\ \A j \in e.flips : inv[j].status \notin {"NONE", "DRAFT"}
        /\ "age" \notin ops => e.flips = {}
    BY <1>11, FlipsFit
  <2>2. ASSUME Calm PROVE StatusRight(Updated(e.inv, e), AmountPaid(e.inv) + PaidBy(e))
    <3>1. age[i] = 0 /\ e.flips = {}
      BY <2>1, <2>2 DEF Calm, IInv, RowsFit
    <3>2. Put(inv[i].credited, e.credited) = inv[i].credited
          /\ Put(inv[i].debited, e.debited) = inv[i].debited
      BY <1>11 DEF Put
    <3>3. AmountPaid(e.inv) + PaidBy(e) = paid
      BY <1>2, <1>6, <1>11 DEF PaidBy
    <3> HIDE DEF st
    <3>4. e.status = IF st = inv[i].status THEN Same ELSE st
      BY <1>11
    <3>5. StatusRight(Updated(i, e), paid)
      BY <1>3, <1>11, <3>1, <3>2, <3>4, StatusLeft DEF IInv, st
    <3> QED
      BY <1>11, <3>3, <3>5
  <2>3. Leaves(e)
    <3>1. Put(inv[i].credited, e.credited) = inv[i].credited
          /\ Put(inv[i].debited, e.debited) = inv[i].debited
      BY <1>11 DEF Put
    <3>2. AmountPaid(e.inv) + PaidBy(e) = paid
      BY <1>2, <1>6, <1>11 DEF PaidBy
    <3> HIDE DEF st
    <3>3. e.status = IF st = inv[i].status THEN Same ELSE st
      BY <1>11
    <3>4. /\ Updated(i, e).status = "PAID" => BalanceDue(Updated(i, e), paid) = 0
          /\ inv[i].status \in {"DRAFT", "CANCELLED"} => e.status = Same
      BY <1>3, <1>11, <3>1, <3>3, PaidLeft DEF IInv, st
    <3> QED
      BY <1>11, <3>2, <3>4 DEF Leaves
  <2> QED
    BY <1>1, <1>11, <1>13, <2>1, <2>2, <2>3 DEF Fits
<1>15. \A u \in Txn \ {t} : Open(u) =>
         /\ txn[u].locks \cap e.locks = {}
         /\ e.op = "pay" /\ txn[u].op = "pay" => txn[u].pay # e.pay
  BY <1>1, <1>11 DEF Free, LockedByOthers
<1> QED
  BY <1>1, <1>11, <1>12, <1>14, <1>15, QuietIInv

LEMMA BouncePdcIInv == ASSUME IInv, NEW t \in Txn, NEW p \in Pay, BouncePdc(t, p) PROVE IInv'
<1> DEFINE i == pay[p].inv
           row == [pay[p] EXCEPT !.pdc = "BOUNCED", !.status = "FAILED"]
           r == Request("bounce", i, {i})
           made == [r EXCEPT !.pay = p, !.row = row]
           e == Evaluate(made, inv[i], AmountPaid(i))
<1>1. /\ pay[p] # None /\ pay[p] \in PayRow /\ pay[p].status = "PENDING"
      /\ \A u \in Txn : Open(u) => i \notin txn[u].locks
      /\ txn' = [txn EXCEPT ![t] = e]
      /\ UNCHANGED <<rows, age>>
  BY RowTypes DEF BouncePdc, PdcReady, IInv
<1>2. row \in PayRow /\ row.inv = i /\ row.key = pay[p].key /\ row.status = "FAILED"
  BY <1>1 DEF PayRow, PayStatus, PdcStatus
<1>3. i \in Inv /\ inv[i].status # "NONE"
  BY <1>1 DEF IInv, RowsFit, PayRow
<1> HIDE DEF row, i
<1>4. r \in RequestRow
  BY <1>3, RequestType DEF IInv
<1>5. /\ made.op = "bounce" /\ made.inv = i /\ made.locks = {i} /\ made.status = Same
      /\ made.total = Same /\ made.deleted = Same
      /\ made.credited = Same /\ made.debited = Same /\ made.balance = Same
      /\ made.pay = p /\ made.row = row /\ made.key = None /\ made.note = None
  BY DEF Request
<1>6. made \in RequestRow
  <2> DEFINE r1 == [r EXCEPT !.pay = p]
  <2>1. made = [r1 EXCEPT !.row = row]
    BY <1>4 DEF RequestRow
  <2> HIDE DEF r
  <2>2. r1 \in RequestRow
    BY <1>4 DEF RequestRow
  <2> HIDE DEF r1, made
  <2> QED
    BY <1>2, <2>1, <2>2 DEF RequestRow
<1> HIDE DEF made
<1>7. /\ e \in RequestRow /\ e.op = "bounce" /\ e.inv = i /\ e.locks = {i} /\ e.status = Same
      /\ e.total = Same /\ e.deleted = Same
      /\ e.credited = Same /\ e.debited = Same /\ e.balance = Same
      /\ e.pay = p /\ e.row = row /\ e.key = None /\ e.note = None
      /\ \A j \in e.flips : j \in Inv /\ inv[j].status \in FLIP_STATUSES /\ age[j] > 0
  BY <1>5, <1>6, Evaluated DEF IInv, RequestRow
<1> HIDE DEF e
<1>8. Shape(e)
  BY <1>2, <1>3, <1>7 DEF Shape, InvStatus
<1>9. Fits(e)
  <2>1. /\ \A j \in e.flips : inv[j].status \notin {"NONE", "DRAFT"}
        /\ "age" \notin ops => e.flips = {}
    BY <1>7, FlipsFit
  <2>2. BounceFits(e)
    BY <1>1, <1>2, <1>7 DEF BounceFits, i
  <2> QED
    BY <1>3, <1>7, <2>1, <2>2 DEF Fits
<1>10. \A u \in Txn \ {t} : Open(u) =>
         /\ txn[u].locks \cap e.locks = {}
         /\ e.op = "pay" /\ txn[u].op = "pay" => txn[u].pay # e.pay
  BY <1>1, <1>7
<1> QED
  BY <1>1, <1>7, <1>8, <1>9, <1>10, QuietIInv

\* An issue writes the notes of its kind, this one among them, and what the
\* client is owed.
LEMMA IssueIInv ==
  ASSUME IInv, NEW t \in Txn, NEW n \in Note, NEW kind \in {"CN", "TDN"}, NEW i \in Inv,
         i = note[n].inv, IssueReady(t, n, kind),
         NEW row, NEW balance \in Nat, NEW credited \in Nat, NEW debited \in Nat,
         row = [inv[i] EXCEPT !.credited = credited, !.debited = debited],
         UNCHANGED <<rows, age>>,
         txn' = [txn EXCEPT ![t] =
                   PostAr([Request("issue", i, {n, i, Client}) EXCEPT !.note = n],
                          i, row, balance)],
         kind = "CN" =>
           /\ credited = IssuedTotal(i, "CN") + note[n].amount /\ debited = inv[i].debited
           /\ credited <= inv[i].total + IssuedTotal(i, "TDN")
           /\ balance = client.balance
                + Monus(note[n].amount, Monus(inv[i].total, inv[i].credited + AmountPaid(i))),
         kind = "TDN" =>
           credited = inv[i].credited /\ debited = IssuedTotal(i, "TDN") + note[n].amount
  PROVE  IInv'
<1> DEFINE paid == AmountPaid(i)
           st == DetermineStatus(i, row, paid)
           put == IF st = row.status THEN Same ELSE st
           r == Request("issue", i, {n, i, Client})
           named == [r EXCEPT !.note = n]
           made == [named EXCEPT !.status = put, !.credited = row.credited,
                                 !.debited = row.debited, !.balance = balance]
           e == Evaluate(made, [row EXCEPT !.status = st], paid)
<1>1. /\ ~Open(t) /\ note[n] # None /\ note[n].kind = kind /\ note[n].status = "DRAFT"
      /\ inv[i].status \in ALLOWED_PARENT /\ Free(t, {i}) /\ Free(t, {n, Client})
  BY DEF IssueReady, ParentReady
<1>2. txn' = [txn EXCEPT ![t] = e]
  BY DEF PostAr
<1>3. inv[i] \in InvRow /\ paid \in Nat
  BY SumTypes DEF IInv, TypeOK
<1>4. /\ row \in InvRow /\ row.credited = credited /\ row.debited = debited
      /\ row.total = inv[i].total /\ row.deleted = inv[i].deleted /\ row.status = inv[i].status
  BY <1>3 DEF InvRow
<1>5. st \in InvStatus /\ st \notin {"NONE", "DRAFT", "CANCELLED"}
  BY <1>1, <1>3, <1>4, Determined DEF ALLOWED_PARENT, DetermineStatus
<1>6. put \in InvStatus \cup {Same} /\ put \notin {"NONE", "DRAFT", "CANCELLED"}
  BY <1>5 DEF InvStatus
<1>7. r \in RequestRow
  BY RequestType DEF IInv
<1>8. /\ made.op = "issue" /\ made.inv = i /\ made.locks = {n, i, Client} /\ made.status = put
      /\ made.deleted = Same /\ made.total = Same
      /\ made.credited = credited /\ made.debited = debited /\ made.balance = balance
      /\ made.pay = None /\ made.key = None /\ made.note = n
  BY <1>4 DEF Request
<1>9. made \in RequestRow
  <2> HIDE DEF r, put, st
  <2> DEFINE r1 == [named EXCEPT !.status = put]
             r2 == [r1 EXCEPT !.credited = row.credited]
             r3 == [r2 EXCEPT !.debited = row.debited]
  <2>1. named \in RequestRow
    BY <1>7 DEF RequestRow
  <2>2. made = [r3 EXCEPT !.balance = balance]
    BY <2>1 DEF RequestRow
  <2> HIDE DEF named
  <2>3. r1 \in RequestRow
    BY <1>6, <2>1 DEF RequestRow
  <2> HIDE DEF r1
  <2>4. r2 \in RequestRow
    BY <1>4, <2>3 DEF RequestRow
  <2> HIDE DEF r2
  <2>5. r3 \in RequestRow
    BY <1>4, <2>4 DEF RequestRow
  <2> HIDE DEF r3, made
  <2> QED
    BY <2>2, <2>5 DEF RequestRow
<1> HIDE DEF made
<1>10. /\ e \in RequestRow /\ e.op = "issue" /\ e.inv = i /\ e.locks = {n, i, Client}
       /\ e.status = put /\ e.deleted = Same /\ e.total = Same
       /\ e.credited = credited /\ e.debited = debited /\ e.balance = balance
       /\ e.pay = None /\ e.key = None /\ e.note = n
       /\ \A j \in e.flips : j \in Inv /\ inv[j].status \in FLIP_STATUSES /\ age[j] > 0
  BY <1>8, <1>9, Evaluated DEF IInv, RequestRow
<1> HIDE DEF e
<1>11. Shape(e)
  BY <1>6, <1>10 DEF Shape
<1>12. IssueFits(e)
  BY <1>1, <1>10 DEF IssueFits
<1>13. Fits(e)
  <2>1. /\ \A j \in e.flips : inv[j].status \notin {"NONE", "DRAFT"}
        /\ "age" \notin ops => e.flips = {}
    BY <1>10, FlipsFit
  <2>2. ASSUME Calm PROVE StatusRight(Updated(e.inv, e), AmountPaid(e.inv) + PaidBy(e))
    <3>1. age[i] = 0 /\ e.flips = {}
      BY <2>1, <2>2 DEF Calm, IInv, RowsFit
    <3>2. Put(inv[i].credited, e.credited) = row.credited
          /\ Put(inv[i].debited, e.debited) = row.debited
      BY <1>4, <1>10 DEF Put
    <3>3. AmountPaid(e.inv) + PaidBy(e) = paid
      BY <1>3, <1>10 DEF PaidBy
    <3> HIDE DEF st, paid
    <3>4. e.status = IF st = inv[i].status THEN Same ELSE st
      BY <1>4, <1>10
    <3>5. st = DetermineStatus(i, row, paid)
      BY DEF st
    <3>6. TypeOK /\ e \in RequestRow /\ e.inv = i /\ e.deleted = Same /\ e.total = Same
      BY <1>10 DEF IInv
    <3>7. StatusRight(Updated(i, e), paid)
      BY ONLY <1>3, <1>4, <3>1, <3>2, <3>4, <3>5, <3>6, i \in Inv, StatusLeft
    <3> QED
      BY <1>10, <3>3, <3>7
  <2>3. inv[i].status \in ALLOWED_PARENT => inv[i].status # "NONE"
    BY DEF ALLOWED_PARENT
  <2>4. Leaves(e)
    <3>1. Put(inv[i].credited, e.credited) = row.credited
          /\ Put(inv[i].debited, e.debited) = row.debited
      BY <1>4, <1>10 DEF Put
    <3>2. AmountPaid(e.inv) + PaidBy(e) = paid
      BY <1>3, <1>10 DEF PaidBy
    <3> HIDE DEF st, paid
    <3>3. e.status = IF st = inv[i].status THEN Same ELSE st
      BY <1>4, <1>10
    <3>4. st = DetermineStatus(i, row, paid)
      BY DEF st
    <3>5. TypeOK /\ e \in RequestRow /\ e.inv = i /\ e.deleted = Same /\ e.total = Same
      BY <1>10 DEF IInv
    <3>6. /\ Updated(i, e).status = "PAID" => BalanceDue(Updated(i, e), paid) = 0
          /\ inv[i].status \in {"DRAFT", "CANCELLED"} => e.status = Same
      BY ONLY <1>3, <1>4, <3>1, <3>3, <3>4, <3>5, i \in Inv, PaidLeft
    <3> QED
      BY <1>10, <3>2, <3>6 DEF Leaves
  <2> QED
    BY <1>1, <1>10, <1>12, <2>1, <2>2, <2>3, <2>4 DEF Fits
<1>14. \A u \in Txn \ {t} : Open(u) =>
         /\ txn[u].locks \cap e.locks = {}
         /\ e.op = "pay" /\ txn[u].op = "pay" => txn[u].pay # e.pay
  BY <1>1, <1>10 DEF Free, LockedByOthers
<1> QED
  BY <1>2, <1>10, <1>11, <1>13, <1>14, QuietIInv

LEMMA IssueCreditNoteIInv ==
  ASSUME IInv, NEW t \in Txn, NEW n \in Note, IssueCreditNote(t, n) PROVE IInv'
<1> DEFINE i == note[n].inv
           amount == note[n].amount
           credited == IssuedTotal(i, "CN") + amount
           debited == inv[i].debited
           increment == Monus(amount, Monus(inv[i].total, inv[i].credited + AmountPaid(i)))
           balance == client.balance + increment
           row == [inv[i] EXCEPT !.credited = credited, !.debited = debited]
<1>1. IssueReady(t, n, "CN") /\ amount <= CreditRemaining(i) /\ UNCHANGED <<rows, age>>
  BY DEF IssueCreditNote
<1>2. note[n] \in NoteRow /\ i \in Inv /\ inv[i] \in InvRow
  BY <1>1, RowTypes DEF IssueReady, NoteRow, IInv
<1>3. /\ amount \in Nat /\ amount # 0 /\ AmountPaid(i) \in Nat /\ client.balance \in Nat
      /\ IssuedTotal(i, "CN") \in Nat /\ IssuedTotal(i, "TDN") \in Nat
      /\ inv[i].total \in Nat /\ inv[i].credited \in Nat /\ inv[i].debited \in Nat
  <2>1. amount \in Nat /\ amount # 0
    BY <1>2, AmountTypes DEF NoteRow
  <2>2. /\ AmountPaid(i) \in Nat /\ client.balance \in Nat
        /\ IssuedTotal(i, "CN") \in Nat /\ IssuedTotal(i, "TDN") \in Nat
    BY SumTypes, RowTypes DEF IInv
  <2>3. inv[i].total \in Nat /\ inv[i].credited \in Nat /\ inv[i].debited \in Nat
    BY <1>2 DEF InvRow
  <2> QED
    BY <2>1, <2>2, <2>3
<1>4. credited \in Nat /\ debited \in Nat
      /\ credited <= inv[i].total + IssuedTotal(i, "TDN")
  BY <1>1, <1>3 DEF CreditRemaining, Monus
<1>5. increment \in Nat
  BY <1>3 DEF Monus
<1>6. balance \in Nat
  BY <1>3, <1>5
<1>7. row = [inv[i] EXCEPT !.credited = credited]
  BY <1>2 DEF InvRow
<1>8. txn' = [txn EXCEPT ![t] =
                PostAr([Request("issue", i, {n, i, Client}) EXCEPT !.note = n], i, row, balance)]
  BY <1>7 DEF IssueCreditNote
<1>9. /\ credited = IssuedTotal(i, "CN") + amount /\ debited = inv[i].debited
      /\ balance = client.balance
           + Monus(amount, Monus(inv[i].total, inv[i].credited + AmountPaid(i)))
      /\ i = note[n].inv
      /\ row = [inv[i] EXCEPT !.credited = credited, !.debited = debited]
  OBVIOUS
<1> HIDE DEF i, credited, debited, increment, balance, row
<1> QED
  BY <1>1, <1>2, <1>4, <1>6, <1>8, <1>9, IssueIInv

LEMMA IssueDebitNoteIInv ==
  ASSUME IInv, NEW t \in Txn, NEW n \in Note, IssueDebitNote(t, n) PROVE IInv'
<1> DEFINE i == note[n].inv
           amount == note[n].amount
           more == [inv[i] EXCEPT !.debited = inv[i].debited + amount]
           unpark == Monus(CreditOwing(inv[i], AmountPaid(i)), CreditOwing(more, AmountPaid(i)))
           credited == inv[i].credited
           debited == IssuedTotal(i, "TDN") + amount
           balance == Monus(client.balance, unpark)
           row == [inv[i] EXCEPT !.credited = credited, !.debited = debited]
<1>1. IssueReady(t, n, "TDN") /\ UNCHANGED <<rows, age>>
  BY DEF IssueDebitNote
<1>2. note[n] \in NoteRow /\ i \in Inv /\ inv[i] \in InvRow
  BY <1>1, RowTypes DEF IssueReady, NoteRow, IInv
<1>3. amount \in Nat
  BY <1>2, AmountTypes DEF NoteRow
<1>4. /\ AmountPaid(i) \in Nat /\ client.balance \in Nat /\ IssuedTotal(i, "TDN") \in Nat
  BY SumTypes, RowTypes DEF IInv
<1>5. credited \in Nat /\ debited \in Nat
  BY <1>2, <1>3, <1>4 DEF InvRow
<1>6. CreditOwing(inv[i], AmountPaid(i)) \in Nat /\ CreditOwing(more, AmountPaid(i)) \in Nat
  <2>1. more \in InvRow
    BY <1>2, <1>3 DEF InvRow
  <2> HIDE DEF more
  <2> QED
    BY <1>2, <1>4, <2>1 DEF InvRow, CreditOwing, Monus
<1>7. balance \in Nat
  <2> HIDE DEF more, i
  <2>1. unpark \in Nat
    BY <1>6 DEF Monus
  <2> HIDE DEF unpark
  <2> QED
    BY <1>4, <2>1 DEF Monus
<1>8. row = [inv[i] EXCEPT !.debited = debited]
  BY <1>2 DEF InvRow
<1>9. txn' = [txn EXCEPT ![t] =
                PostAr([Request("issue", i, {n, i, Client}) EXCEPT !.note = n], i, row, balance)]
  BY <1>8 DEF IssueDebitNote
<1>10. /\ credited = inv[i].credited /\ debited = IssuedTotal(i, "TDN") + amount
       /\ i = note[n].inv
       /\ row = [inv[i] EXCEPT !.credited = credited, !.debited = debited]
  OBVIOUS
<1> HIDE DEF i, credited, debited, balance, row
<1> QED
  BY <1>1, <1>2, <1>5, <1>7, <1>9, <1>10, IssueIInv

-----------------------------------------------------------------------------
(* Commits.                                                                *)

\* The commit of request e that writes.
Writes(t, e) ==
    /\ txn[t] = e /\ e.op # "send"
    /\ Free(t, Written(e)) /\ ~KeyConflict(e)
    /\ Write(e)
    /\ txn' = [txn EXCEPT ![t] = None]
    /\ UNCHANGED <<ops, expiries, age>>

\* The invoice rows it leaves.
LEMMA WrittenRows ==
  ASSUME IInv, NEW t \in Txn, NEW e \in RequestRow, Writes(t, e)
  PROVE  /\ Shape(e) /\ Fits(e)
         /\ Onward
         /\ \A i \in Inv :
              /\ inv'[i] = Updated(i, e) /\ inv'[i] \in InvRow
              /\ i \notin Written(e) => inv'[i] = inv[i]
              /\ inv'[i].status = "DRAFT" => inv[i].status = "DRAFT"
              /\ inv'[i].status = "NONE" => inv[i].status = "NONE"
              /\ inv[i].total \in Totals => inv'[i].total \in Totals
              /\ TotalsStand => inv'[i].total = inv[i].total
              /\ inv'[i].credited = IF i = e.inv /\ e.op = "issue" THEN e.credited
                                                                    ELSE inv[i].credited
              /\ inv'[i].debited = IF i = e.inv /\ e.op = "issue" THEN e.debited
                                                                   ELSE inv[i].debited
<1>1. Shape(e) /\ Fits(e)
  BY DEF Writes, IInv, RequestsFit, Open
<1>2. \A i \in Inv : inv'[i] = Updated(i, e)
  BY DEF Writes, Write
<1>3. /\ e.flips \in SUBSET Inv /\ e.inv \in Inv \cup {None}
      /\ e.status \in InvStatus \cup {Same} /\ e.deleted \in BOOLEAN \cup {Same}
      /\ e.total \in Nat \cup {Same}
      /\ e.credited \in Nat \cup {Same} /\ e.debited \in Nat \cup {Same}
  BY DEF RequestRow
<1>4. ASSUME NEW i \in Inv
      PROVE  /\ inv'[i] \in InvRow
             /\ i \notin Written(e) => inv'[i] = inv[i]
             /\ inv'[i].status = "DRAFT" => inv[i].status = "DRAFT"
             /\ inv'[i].status = "NONE" => inv[i].status = "NONE"
             /\ inv[i].total \in Totals => inv'[i].total \in Totals
             /\ TotalsStand => inv'[i].total = inv[i].total
             /\ inv'[i].credited = IF i = e.inv /\ e.op = "issue" THEN e.credited
                                                                   ELSE inv[i].credited
             /\ inv'[i].debited = IF i = e.inv /\ e.op = "issue" THEN e.debited
                                                                  ELSE inv[i].debited
  <2> DEFINE row == inv[i]
  <2>1. row \in InvRow
    BY RowTypes DEF IInv
  <2>2. /\ row.status \in InvStatus /\ row.deleted \in BOOLEAN /\ row.total \in Nat
        /\ row.credited \in Nat /\ row.debited \in Nat
    BY <2>1 DEF InvRow
  <2>3. Updated(i, e) = [status |-> Updated(i, e).status, deleted |-> Updated(i, e).deleted,
                         total |-> Updated(i, e).total, credited |-> Updated(i, e).credited,
                         debited |-> Updated(i, e).debited]
    BY DEF Updated
  <2>4. /\ Updated(i, e).status = (IF i \in e.flips THEN "OVERDUE"
                                   ELSE IF i = e.inv THEN Put(row.status, e.status)
                                   ELSE row.status)
        /\ Updated(i, e).deleted = (IF i = e.inv THEN Put(row.deleted, e.deleted) ELSE row.deleted)
        /\ Updated(i, e).total = (IF i = e.inv THEN Put(row.total, e.total) ELSE row.total)
        /\ Updated(i, e).credited = (IF i = e.inv THEN Put(row.credited, e.credited)
                                                  ELSE row.credited)
        /\ Updated(i, e).debited = (IF i = e.inv THEN Put(row.debited, e.debited)
                                                 ELSE row.debited)
    BY DEF Updated
  <2>5. /\ Updated(i, e).status \in InvStatus /\ Updated(i, e).total \in Nat
        /\ Updated(i, e).credited \in Nat /\ Updated(i, e).debited \in Nat
    BY <1>3, <2>2, <2>4 DEF Put, InvStatus
  <2>6. Updated(i, e).deleted \in BOOLEAN
    BY <1>3, <2>2, <2>4 DEF Put
  <2>7. Updated(i, e) \in InvRow
    BY <2>3, <2>5, <2>6 DEF InvRow
  <2>8. i \notin Written(e) => Updated(i, e) = row
    <3> SUFFICES ASSUME i \notin Written(e) PROVE Updated(i, e) = row
      OBVIOUS
    <3>1. i \notin e.flips
      BY DEF Written
    <3>2. i = e.inv => /\ e.status = Same /\ e.deleted = Same /\ e.total = Same
                       /\ e.credited = Same /\ e.debited = Same
      BY DEF Written
    <3>3. /\ Updated(i, e).status = row.status /\ Updated(i, e).deleted = row.deleted
          /\ Updated(i, e).total = row.total /\ Updated(i, e).credited = row.credited
          /\ Updated(i, e).debited = row.debited
      BY <2>4, <3>1, <3>2 DEF Put
    <3> QED
      BY <2>1, <2>7, <3>3 DEF InvRow
  <2>9. /\ Updated(i, e).status = "DRAFT" => row.status = "DRAFT"
        /\ Updated(i, e).status = "NONE" => row.status = "NONE"
    BY <1>1, <2>4 DEF Put, Shape
  <2>10. row.total \in Totals => Updated(i, e).total \in Totals
    BY <1>1, <2>4 DEF Put, Shape
  <2>11. TotalsStand => Updated(i, e).total = row.total
    <3>1. CASE i = e.inv /\ e.op = "edit"
      <4>1. row.total \in Totals /\ e.total \in Totals /\ "edit" \in ops
        BY <1>1, <1>3, <3>1 DEF Shape, Fits, IInv, RowsFit
      <4> QED
        BY <2>4, <3>1, <4>1 DEF TotalsStand, Put
    <3>2. CASE ~(i = e.inv /\ e.op = "edit")
      BY <1>1, <2>4, <3>2 DEF Shape, Put
    <3> QED
      BY <3>1, <3>2
  <2>12. /\ Updated(i, e).credited = (IF i = e.inv /\ e.op = "issue" THEN e.credited
                                                                     ELSE row.credited)
         /\ Updated(i, e).debited = (IF i = e.inv /\ e.op = "issue" THEN e.debited
                                                                    ELSE row.debited)
    BY <1>1, <2>4 DEF Shape, Put
  <2>13. inv'[i] = Updated(i, e)
    BY <1>2
  <2> QED
    BY <2>7, <2>8, <2>9, <2>10, <2>11, <2>12, <2>13
<1>5. Onward
  <2> SUFFICES ASSUME NEW i \in Inv
               PROVE  /\ inv[i].status # "NONE" => inv'[i].status # "NONE"
                      /\ inv[i].status \notin {"NONE", "DRAFT"} =>
                           inv'[i].status \notin {"NONE", "DRAFT"}
    BY DEF Onward
  <2> QED
    BY <1>4
<1> QED
  BY <1>1, <1>2, <1>4, <1>5

LEMMA WrittenType ==
  ASSUME IInv, NEW t \in Txn, NEW e \in RequestRow, Writes(t, e)
  PROVE  TypeOK'
<1>1. inv' \in [Inv -> InvRow]
  BY WrittenRows DEF Writes, Write
<1>2. Shape(e) /\ Fits(e)
  BY WrittenRows
<1>3. pay' \in [Pay -> PayRow \cup {None}]
  BY <1>2 DEF Writes, Write, IInv, TypeOK, Shape
<1>4. key' \in [Key -> Pay \cup {None}] /\ expired' \subseteq Key
  BY <1>2 DEF Writes, Write, IInv, TypeOK, Shape
<1>5. note' \in [Note -> NoteRow \cup {None}]
  <2>1. ASSUME NEW n \in Note, n = e.note PROVE [note[n] EXCEPT !.status = "ISSUED"] \in NoteRow
    <3>1. note[n] # None
      BY <1>2, <2>1 DEF Shape, Fits, IssueFits
    <3>2. note[n] \in NoteRow
      BY <3>1, RowTypes DEF IInv
    <3> QED
      BY <3>2 DEF NoteRow
  <2> QED
    BY <2>1 DEF Writes, Write, IInv, TypeOK
<1>6. client' \in [credit : CreditStatus, balance : Nat]
  <2>1. e.credit \in CreditStatus \cup {Same} /\ e.balance \in Nat \cup {Same}
    BY DEF RequestRow
  <2> QED
    BY <2>1 DEF Writes, Write, IInv, TypeOK, Put
<1>7. txn' \in [Txn -> RequestRow \cup {None}]
  BY DEF Writes, IInv, TypeOK
<1> QED
  BY <1>1, <1>3, <1>4, <1>5, <1>6, <1>7 DEF Writes, IInv, TypeOK

\* The one payment it writes, and the one note.
LEMMA WrittenTables ==
  ASSUME IInv, NEW t \in Txn, NEW e \in RequestRow, Writes(t, e)
  PROVE  /\ \A q \in Pay : pay'[q] = IF q = e.pay THEN e.row ELSE pay[q]
         /\ \A q \in Pay : pay[q] # None => pay'[q] # None
         /\ \A m \in Note : m # e.note => note'[m] = note[m]
         /\ \A m \in Note : /\ note'[m] # None <=> note[m] # None
                            /\ note[m] # None => note'[m].inv = note[m].inv
         /\ e.op = "issue" => /\ note[e.note] \in NoteRow /\ note[e.note].status = "DRAFT"
                              /\ note[e.note].inv = e.inv
                              /\ note'[e.note] = [note[e.note] EXCEPT !.status = "ISSUED"]
         /\ client'.balance = IF e.op = "issue" THEN e.balance ELSE client.balance
<1>1. Shape(e) /\ Fits(e)
  BY WrittenRows
<1>2. \A q \in Pay : pay'[q] = IF q = e.pay THEN e.row ELSE pay[q]
  BY DEF Writes, Write
<1>3. \A m \in Note : note'[m] = IF m = e.note THEN [note[m] EXCEPT !.status = "ISSUED"] ELSE note[m]
  BY DEF Writes, Write
<1>4. \A q \in Pay : pay[q] # None => pay'[q] # None
  BY <1>1, <1>2 DEF Shape
<1>5. e.op = "issue" => /\ note[e.note] \in NoteRow /\ note[e.note].status = "DRAFT"
                        /\ note[e.note].inv = e.inv
                        /\ note'[e.note] = [note[e.note] EXCEPT !.status = "ISSUED"]
  BY <1>1, <1>3, RowTypes DEF Shape, Fits, IssueFits, IInv
<1>6. \A m \in Note : /\ note'[m] # None <=> note[m] # None
                      /\ note[m] # None => note'[m].inv = note[m].inv
  <2>1. ASSUME NEW m \in Note, m = e.note
        PROVE  note[m] # None /\ note'[m] # None /\ note'[m].inv = note[m].inv
    <3>1. e.op = "issue"
      BY <1>1, <2>1 DEF Shape
    <3>2. note[m] \in NoteRow /\ note'[m] = [note[m] EXCEPT !.status = "ISSUED"]
      BY <1>5, <2>1, <3>1
    <3>3. note'[m] \in NoteRow /\ note'[m].inv = note[m].inv
      BY <3>2 DEF NoteRow
    <3> QED
      BY <3>2, <3>3
  <2> QED
    BY <1>3, <2>1
<1>7. client'.balance = IF e.op = "issue" THEN e.balance ELSE client.balance
  BY <1>1 DEF Writes, Write, Put, Shape
<1> QED
  BY <1>2, <1>3, <1>4, <1>5, <1>6, <1>7

\* What it adds to what was paid and noted: for its own invoice, its payment
\* if that counts, and its note.
LEMMA WrittenSums ==
  ASSUME IInv, NEW t \in Txn, NEW e \in RequestRow, Writes(t, e)
  PROVE  /\ PaidBy(e) \in Nat
         /\ \A i \in Inv :
              AmountPaid(i)' = AmountPaid(i) + (IF i = e.inv THEN PaidBy(e) ELSE 0)
         /\ \A i \in Inv : \A kind :
              IssuedTotal(i, kind)' =
                IssuedTotal(i, kind) + (IF e.op = "issue" /\ i = e.inv /\ note[e.note].kind = kind
                                        THEN note[e.note].amount ELSE 0)
         /\ \A i \in Inv : AmountPaid(i) \in Nat /\ \A kind : IssuedTotal(i, kind) \in Nat
<1>1. Shape(e) /\ Fits(e) /\ TypeOK'
  BY WrittenRows, WrittenType
<1>2. \A i \in Inv : AmountPaid(i) \in Nat /\ \A kind : IssuedTotal(i, kind) \in Nat
  BY SumTypes DEF IInv
<1>3. PaidBy(e) \in Nat
  <2>1. e.op = "pay" => e.row.amount \in Nat
    BY <1>1, AmountTypes DEF Shape, PayRow
  <2> QED
    BY <2>1 DEF PaidBy
<1>4. ASSUME NEW i \in Inv
      PROVE  AmountPaid(i)' = AmountPaid(i) + (IF i = e.inv THEN PaidBy(e) ELSE 0)
  <2>1. CASE e.op \in {"pay", "bounce"}
    <3>1. e.pay \in Pay /\ e.row \in PayRow /\ e.row.inv = e.inv
      BY <1>1, <2>1 DEF Shape
    <3>2. pay'[e.pay] = e.row /\ \A q \in Pay \ {e.pay} : pay'[q] = pay[q]
      BY <3>1, WrittenTables
    <3>3. AmountPaid(i)' = AmountPaid(i) - Brings(pay[e.pay], i) + Brings(pay'[e.pay], i)
      BY <1>1, <3>1, <3>2, PaidAfter DEF IInv
    <3>4. Brings(pay[e.pay], i) = 0
      BY <1>1, <2>1 DEF Fits, PayFits, BounceFits, Brings
    <3>5. Brings(pay'[e.pay], i) = IF i = e.inv THEN PaidBy(e) ELSE 0
      BY <1>1, <2>1, <3>1, <3>2 DEF Brings, PaidBy, Shape
    <3> QED
      BY <1>2, <1>3, <3>3, <3>4, <3>5
  <2>2. CASE e.op \notin {"pay", "bounce"}
    <3>1. PaidBy(e) = 0 /\ pay' = pay
      BY <1>1, <2>2 DEF PaidBy, Shape, Writes, Write, IInv, TypeOK
    <3>2. AmountPaid(i)' = AmountPaid(i)
      BY <3>1, SumsRead
    <3> QED
      BY <1>2, <3>1, <3>2
  <2> QED
    BY <2>1, <2>2
<1>5. ASSUME NEW i \in Inv, NEW kind
      PROVE  IssuedTotal(i, kind)' =
               IssuedTotal(i, kind) + (IF e.op = "issue" /\ i = e.inv /\ note[e.note].kind = kind
                                       THEN note[e.note].amount ELSE 0)
  <2>1. CASE e.op = "issue"
    <3> DEFINE n == e.note
    <3>1. n \in Note /\ note[n] \in NoteRow /\ note[n].status = "DRAFT" /\ note[n].inv = e.inv
          /\ note'[n] = [note[n] EXCEPT !.status = "ISSUED"]
          /\ \A m \in Note \ {n} : note'[m] = note[m]
      BY <1>1, <2>1, WrittenTables DEF Shape
    <3> HIDE DEF n
    <3>2. IssuedTotal(i, kind)' = IssuedTotal(i, kind) - Notes(note[n], i, kind)
                                    + Notes(note'[n], i, kind)
      BY <1>1, <3>1, NotedAfter DEF IInv
    <3>3. Notes(note[n], i, kind) = 0
      BY <3>1 DEF Notes
    <3>4. /\ note'[n] \in NoteRow /\ note'[n].status = "ISSUED" /\ note'[n].inv = e.inv
          /\ note'[n].kind = note[n].kind /\ note'[n].amount = note[n].amount
      BY <3>1 DEF NoteRow
    <3>5. Notes(note'[n], i, kind) = IF i = e.inv /\ note[n].kind = kind THEN note[n].amount ELSE 0
      BY <3>4 DEF Notes
    <3>6. note[n].amount \in Nat
      BY <3>1, AmountTypes DEF NoteRow
    <3> QED
      BY <1>2, <2>1, <3>2, <3>3, <3>5, <3>6 DEF n
  <2>2. CASE e.op # "issue"
    <3>1. note' = note
      BY <1>1, <2>2 DEF Shape, Writes, Write, IInv, TypeOK
    <3>2. IssuedTotal(i, kind)' = IssuedTotal(i, kind)
      BY <3>1, SumsRead
    <3> QED
      BY <1>2, <2>2, <3>2
  <2> QED
    BY <2>1, <2>2
<1> QED
  BY <1>2, <1>3, <1>4, <1>5

\* No other open request is disturbed: the commit has waited for the rows it
\* updates, and holds the invoice whose payments or notes it changes.
LEMMA WrittenRequests ==
  ASSUME IInv, NEW t \in Txn, NEW e \in RequestRow, Writes(t, e)
  PROVE  Apart' /\ RequestsFit'
<1>1. Shape(e) /\ Fits(e) /\ TypeOK' /\ Onward /\ Open(t)
  BY WrittenRows, WrittenType DEF Writes, Open
<1>2. \A u \in Txn, f \in RequestRow : txn'[u] = f => u # t /\ txn[u] = f
  BY DEF Writes, IInv, TypeOK
<1>3. ASSUME NEW u \in Txn, NEW f \in RequestRow, u # t, txn[u] = f PROVE Undisturbed(f)
  <2>1. Shape(f) /\ Fits(f) /\ Open(u)
    BY <1>3 DEF IInv, RequestsFit, Open
  <2>2. f.locks \cap e.locks = {} /\ (f.op = "pay" /\ e.op = "pay" => f.pay # e.pay)
    BY <1>1, <1>3, <2>1 DEF IInv, Apart, Writes
  <2>3. f.locks \cap Written(e) = {}
    BY <1>3, <2>1 DEF Writes, Free, LockedByOthers
  <2>4. e.op \in {"pay", "bounce", "issue"} => e.inv \in e.locks
    BY <1>1 DEF Shape
  <2>5. /\ \A q \in Pay : pay'[q] = IF q = e.pay THEN e.row ELSE pay[q]
        /\ \A m \in Note : m # e.note => note'[m] = note[m]
        /\ client'.balance = IF e.op = "issue" THEN e.balance ELSE client.balance
    BY WrittenTables
  <2>6. f.inv \in f.locks => /\ inv'[f.inv] = inv[f.inv]
                             /\ AmountPaid(f.inv)' = AmountPaid(f.inv)
                             /\ \A kind : IssuedTotal(f.inv, kind)' = IssuedTotal(f.inv, kind)
    <3> SUFFICES ASSUME f.inv \in f.locks
                 PROVE  /\ inv'[f.inv] = inv[f.inv]
                        /\ AmountPaid(f.inv)' = AmountPaid(f.inv)
                        /\ \A kind : IssuedTotal(f.inv, kind)' = IssuedTotal(f.inv, kind)
      OBVIOUS
    <3>1. f.inv \in Inv
      BY DEF RequestRow
    <3>2. inv'[f.inv] = inv[f.inv]
      BY <2>3, <3>1, WrittenRows
    <3>3. e.op \in {"pay", "bounce", "issue"} => f.inv # e.inv
      BY <2>2, <2>4
    <3>4. PaidBy(e) = 0 \/ f.inv # e.inv
      BY <3>3 DEF PaidBy
    <3>5. AmountPaid(f.inv)' = AmountPaid(f.inv)
      BY <3>1, <3>4, WrittenSums
    <3>6. \A kind : IssuedTotal(f.inv, kind)' = IssuedTotal(f.inv, kind)
      BY <3>1, <3>3, WrittenSums
    <3> QED
      BY <3>2, <3>5, <3>6
  <2>7. f.op = "issue" => note'[f.note] = note[f.note] /\ client'.balance = client.balance
    <3> SUFFICES ASSUME f.op = "issue"
                 PROVE  note'[f.note] = note[f.note] /\ client'.balance = client.balance
      OBVIOUS
    <3>1. f.note \in Note /\ f.note \in f.locks /\ Client \in f.locks
      BY <2>1 DEF Shape
    <3>2. e.op # "issue"
      BY <1>1, <2>2, <3>1 DEF Shape
    <3>3. e.note = None
      BY <1>1, <3>2 DEF Shape
    <3> QED
      BY <2>5, <3>1, <3>2, <3>3
  <2>8. f.op = "pay" => /\ pay'[f.pay] = None
                        /\ f.old # None => pay'[f.old] # None
                        /\ key'[f.key] = f.old => f.old = None \/ f.key \in expired'
    <3> SUFFICES ASSUME f.op = "pay"
                 PROVE  /\ pay'[f.pay] = None
                        /\ f.old # None => pay'[f.old] # None
                        /\ key'[f.key] = f.old => f.old = None \/ f.key \in expired'
      OBVIOUS
    <3>1. PayFits(f) /\ f.pay \in Pay /\ f.key \in Key /\ f.old \in Pay \cup {None}
      BY <2>1 DEF Fits, Shape, RequestRow
    <3>2. f.pay # e.pay
      <4>1. e.op = "bounce" => pay[e.pay] # None
        BY <1>1 DEF Fits, BounceFits
      <4> QED
        BY <1>1, <2>2, <3>1, <4>1 DEF Shape, PayFits
    <3>3. pay'[f.pay] = None
      BY <2>5, <3>1, <3>2 DEF PayFits
    <3>4. f.old # None => pay'[f.old] # None
      BY <3>1, WrittenTables DEF PayFits
    <3>5. key'[f.key] = f.old => f.old = None \/ f.key \in expired'
      <4>1. key'[f.key] = IF f.key = e.key THEN e.pay ELSE key[f.key]
        BY <3>1 DEF Writes, Write
      <4>2. expired' = expired \ {e.key}
        BY DEF Writes, Write
      <4>3. CASE f.key = e.key
        <5>1. e.op = "pay" /\ e.pay \in Pay /\ pay[e.pay] = None
          BY <1>1, <3>1, <4>3 DEF Shape, Fits, PayFits
        <5>2. f.old # e.pay
          BY <3>1, <5>1 DEF PayFits
        <5> QED
          BY <4>1, <4>3, <5>2
      <4>4. CASE f.key # e.key
        BY <3>1, <4>1, <4>2, <4>4 DEF PayFits
      <4> QED
        BY <4>3, <4>4
    <3> QED
      BY <3>3, <3>4, <3>5
  <2>9. f.op = "bounce" => /\ pay'[f.pay] # None /\ pay'[f.pay].status = pay[f.pay].status
                           /\ pay'[f.pay].inv = pay[f.pay].inv
                           /\ pay'[f.pay].key = pay[f.pay].key
    <3> SUFFICES ASSUME f.op = "bounce" PROVE pay'[f.pay] = pay[f.pay] /\ pay[f.pay] # None
      OBVIOUS
    <3>1. BounceFits(f) /\ f.pay \in Pay /\ f.inv \in f.locks
      BY <2>1 DEF Fits, Shape
    <3>2. f.pay # e.pay
      <4>1. CASE e.op = "pay"
        BY <1>1, <3>1, <4>1 DEF Fits, PayFits, BounceFits
      <4>2. CASE e.op = "bounce"
        BY <1>1, <2>2, <2>4, <3>1, <4>2 DEF Fits, BounceFits
      <4>3. CASE e.op \notin {"pay", "bounce"}
        BY <1>1, <3>1, <4>3 DEF Shape
      <4> QED
        BY <4>1, <4>2, <4>3
    <3> QED
      BY <2>5, <3>1, <3>2 DEF BounceFits
  <2> QED
    BY <2>6, <2>7, <2>8, <2>9 DEF Undisturbed
<1>4. ops' = ops
  BY DEF Writes
<1> QED
  BY <1>1, <1>2, <1>3, <1>4, RequestsStay

LEMMA WrittenRowsFit ==
  ASSUME IInv, NEW t \in Txn, NEW e \in RequestRow, Writes(t, e)
  PROVE  RowsFit'
<1>1. Shape(e) /\ Fits(e) /\ TypeOK'
  BY WrittenRows, WrittenType
<1>2. \A i \in Inv : /\ inv'[i].status = "DRAFT" => inv[i].status = "DRAFT"
                     /\ inv'[i].status = "NONE" => inv[i].status = "NONE"
                     /\ inv[i].total \in Totals => inv'[i].total \in Totals
  BY WrittenRows
<1>3. \A i \in Inv : inv'[i].status # "NONE" => inv'[i].total \in Totals
  <2> SUFFICES ASSUME NEW i \in Inv, inv'[i].status # "NONE" PROVE inv'[i].total \in Totals
    OBVIOUS
  <2>1. CASE inv[i].status # "NONE"
    BY <1>2, <2>1 DEF IInv, RowsFit
  <2>2. CASE inv[i].status = "NONE"
    <3>1. i \notin e.flips /\ i # e.inv
      BY <1>1, <2>2 DEF Fits
    <3>2. inv'[i] = inv[i]
      <4>1. i \notin Written(e)
        <5>1. i # Client
          OBVIOUS
        <5> QED
          BY <3>1, <5>1 DEF Written
      <4> QED
        BY <4>1, WrittenRows
    <3> QED
      BY <2>2, <3>2
  <2> QED
    BY <2>1, <2>2
<1>4. ASSUME NEW p \in Pay, pay'[p] # None
      PROVE  /\ inv'[pay'[p].inv].status # "NONE"
             /\ "payDraft" \notin ops' => inv'[pay'[p].inv].status # "DRAFT"
  <2>1. pay'[p].inv \in Inv
    BY <1>1, <1>4 DEF TypeOK, PayRow
  <2>2. /\ inv[pay'[p].inv].status # "NONE"
        /\ "payDraft" \notin ops => inv[pay'[p].inv].status # "DRAFT"
    <3>1. CASE p = e.pay
      <4>1. pay'[p] = e.row /\ e.row.inv = e.inv /\ e.op \in {"pay", "bounce"}
        <5>1. e.op \in {"pay", "bounce"} /\ e.row.inv = e.inv
          BY <1>1, <3>1 DEF Shape
        <5> QED
          BY <3>1, <5>1, WrittenTables
      <4>2. CASE e.op = "pay"
        BY <1>1, <2>1, <4>1, <4>2 DEF Fits, PayFits
      <4>3. CASE e.op = "bounce"
        <5>1. pay[p] # None /\ pay[p].inv = e.inv
          BY <1>1, <3>1, <4>3 DEF Fits, BounceFits
        <5> QED
          BY <4>1, <5>1 DEF IInv, RowsFit
      <4> QED
        BY <4>1, <4>2, <4>3
    <3>2. CASE p # e.pay
      <4>1. pay'[p] = pay[p]
        BY <3>2, WrittenTables
      <4> QED
        BY <1>4, <4>1 DEF IInv, RowsFit
    <3> QED
      BY <3>1, <3>2
  <2>3. ops' = ops
    BY DEF Writes
  <2> QED
    BY <1>2, <2>1, <2>2, <2>3
<1>5. ASSUME NEW n \in Note, note'[n] # None
      PROVE  inv'[note'[n].inv].status \notin {"NONE", "DRAFT"}
  <2>1. note[n] # None /\ note'[n].inv = note[n].inv
    BY <1>5, WrittenTables
  <2>2. note[n].inv \in Inv /\ inv[note[n].inv].status \notin {"NONE", "DRAFT"}
    BY <2>1 DEF IInv, RowsFit, TypeOK, NoteRow
  <2> QED
    BY <1>2, <2>1, <2>2
<1>6. ASSUME NEW k \in Key, key'[k] # None PROVE pay'[key'[k]] # None
  <2>1. key'[k] = IF k = e.key THEN e.pay ELSE key[k]
    BY DEF Writes, Write
  <2>2. CASE k = e.key
    <3>1. e.pay \in Pay /\ e.row # None
      BY <1>1, <2>2 DEF Shape
    <3> QED
      BY <2>1, <2>2, <3>1, WrittenTables
  <2>3. CASE k # e.key
    <3>1. key[k] \in Pay /\ pay[key[k]] # None
      BY <1>6, <2>1, <2>3 DEF IInv, TypeOK, RowsFit
    <3> QED
      BY <2>1, <2>3, <3>1, WrittenTables
  <2> QED
    BY <2>2, <2>3
<1>7. "age" \notin ops' => \A i \in Inv : age'[i] = 0
  BY DEF Writes, IInv, RowsFit
<1> QED
  BY <1>3, <1>4, <1>5, <1>6, <1>7 DEF RowsFit

\* A payment is stored with a key that is not in use: one that is has been
\* stored since the payment was begun, which is a conflict.
LEMMA WrittenKeys ==
  ASSUME IInv, NEW t \in Txn, NEW e \in RequestRow, Writes(t, e)
  PROVE  KeysCount'
<1>1. Shape(e) /\ Fits(e)
  BY WrittenRows
<1>2. /\ \A k \in Key : key'[k] = IF k = e.key THEN e.pay ELSE key[k]
      /\ expired' = expired \ {e.key} /\ expiries' = expiries
  BY DEF Writes, Write
<1>3. \A q \in Pay : pay'[q] = IF q = e.pay THEN e.row ELSE pay[q]
  BY WrittenTables
<1> SUFFICES ASSUME NEW k \in Key
             PROVE  Cardinality(PaymentsFor(k)')
                      <= expiries'[k] + (IF KeyInUse(k)' THEN 1 ELSE 0)
  BY DEF KeysCount
<1>4. Cardinality(PaymentsFor(k)) <= expiries[k] + (IF KeyInUse(k) THEN 1 ELSE 0)
  BY DEF IInv, KeysCount
<1>5. /\ PaymentsFor(k) \in SUBSET Pay /\ IsFiniteSet(PaymentsFor(k))
      /\ expiries[k] \in Nat /\ Cardinality(PaymentsFor(k)) \in Nat
  <2>1. PaymentsFor(k) \in SUBSET Pay
    BY DEF PaymentsFor
  <2> QED
    BY <2>1, FS_Subset, FS_CardinalityType DEF IInv, TypeOK
<1>6. CASE k = e.key
  <2>1. /\ e.op = "pay" /\ e.pay \in Pay /\ e.row \in PayRow /\ e.row.key = k
        /\ PayFits(e) /\ key[k] = e.old
    BY <1>1, <1>6 DEF Shape, Fits, Writes, KeyConflict
  <2>2. ~KeyInUse(k)
    BY <1>6, <2>1 DEF PayFits, KeyInUse
  <2>3. KeyInUse(k)'
    BY <1>2, <1>6, <2>1 DEF KeyInUse
  <2>4. PaymentsFor(k)' = PaymentsFor(k) \cup {e.pay} /\ e.pay \notin PaymentsFor(k)
    BY <1>3, <2>1 DEF PaymentsFor, PayFits
  <2>5. Cardinality(PaymentsFor(k)') = Cardinality(PaymentsFor(k)) + 1
    BY <1>5, <2>4, FS_AddElement
  <2> QED
    BY <1>2, <1>4, <1>5, <2>2, <2>3, <2>5
<1>7. CASE k # e.key
  <2>1. KeyInUse(k)' = KeyInUse(k)
    BY <1>2, <1>7 DEF KeyInUse
  <2>2. PaymentsFor(k)' = PaymentsFor(k)
    <3>1. e.pay \in Pay => (e.pay \in PaymentsFor(k)' <=> e.pay \in PaymentsFor(k))
      <4>1. CASE e.op = "pay"
        <5>1. e.row.key # k /\ pay[e.pay] = None
          BY <1>1, <1>7, <4>1 DEF Shape, Fits, PayFits
        <5> QED
          BY <1>3, <5>1 DEF PaymentsFor
      <4>2. CASE e.op = "bounce"
        <5>1. e.row # None /\ pay[e.pay] # None /\ pay[e.pay].key = e.row.key
          BY <1>1, <4>2 DEF Shape, Fits, BounceFits
        <5> QED
          BY <1>3, <5>1 DEF PaymentsFor
      <4>3. CASE e.op \notin {"pay", "bounce"}
        BY <1>1, <4>3 DEF Shape
      <4> QED
        BY <4>1, <4>2, <4>3
    <3> QED
      BY <1>3, <3>1 DEF PaymentsFor
  <2> QED
    BY <1>2, <1>4, <2>1, <2>2
<1> QED
  BY <1>6, <1>7

LEMMA WrittenTotals ==
  ASSUME IInv, NEW t \in Txn, NEW e \in RequestRow, Writes(t, e)
  PROVE  NotOverpaid' /\ CachedTotals' /\ NotOvercredited'
<1>1. Fits(e)
  BY WrittenRows
<1>2. ASSUME NEW i \in Inv
      PROVE  /\ inv'[i].credited = IssuedTotal(i, "CN")'
             /\ inv'[i].debited = IssuedTotal(i, "TDN")'
             /\ TotalsStand => /\ AmountPaid(i)' <= inv'[i].total + inv'[i].debited
                               /\ IssuedTotal(i, "CN")' <= inv'[i].total + IssuedTotal(i, "TDN")'
  <2>1. /\ AmountPaid(i) \in Nat /\ IssuedTotal(i, "CN") \in Nat /\ IssuedTotal(i, "TDN") \in Nat
        /\ AmountPaid(i)' = AmountPaid(i) + (IF i = e.inv THEN PaidBy(e) ELSE 0)
        /\ IssuedTotal(i, "CN")' =
             IssuedTotal(i, "CN") + (IF e.op = "issue" /\ i = e.inv /\ note[e.note].kind = "CN"
                                     THEN note[e.note].amount ELSE 0)
        /\ IssuedTotal(i, "TDN")' =
             IssuedTotal(i, "TDN") + (IF e.op = "issue" /\ i = e.inv /\ note[e.note].kind = "TDN"
                                      THEN note[e.note].amount ELSE 0)
    BY WrittenSums
  <2>2. /\ inv'[i].credited = IF i = e.inv /\ e.op = "issue" THEN e.credited ELSE inv[i].credited
        /\ inv'[i].debited = IF i = e.inv /\ e.op = "issue" THEN e.debited ELSE inv[i].debited
        /\ TotalsStand => inv'[i].total = inv[i].total
    BY WrittenRows
  <2>3. /\ inv[i].credited = IssuedTotal(i, "CN") /\ inv[i].debited = IssuedTotal(i, "TDN")
        /\ TotalsStand => /\ AmountPaid(i) <= inv[i].total + inv[i].debited
                          /\ IssuedTotal(i, "CN") <= inv[i].total + IssuedTotal(i, "TDN")
    BY DEF IInv, CachedTotals, NotOverpaid, NotOvercredited
  <2>4. inv[i].total \in Nat
    BY RowTypes DEF IInv, InvRow
  <2>5. CASE i = e.inv /\ e.op = "issue"
    <3> DEFINE amount == note[e.note].amount
    <3>1. IssueFits(e) /\ PaidBy(e) = 0
      BY <1>1, <2>5 DEF Fits, PaidBy
    <3>2. amount \in Nat /\ note[e.note].kind \in {"CN", "TDN"}
      BY <2>5, AmountTypes, WrittenTables DEF NoteRow
    <3>3. CASE note[e.note].kind = "CN"
      <4>1. /\ e.credited = IssuedTotal(i, "CN") + amount /\ e.debited = inv[i].debited
            /\ e.credited <= inv[i].total + IssuedTotal(i, "TDN")
        BY <2>5, <3>1, <3>3 DEF IssueFits
      <4> HIDE DEF amount
      <4>2. /\ IssuedTotal(i, "CN")' = IssuedTotal(i, "CN") + amount
            /\ IssuedTotal(i, "TDN")' = IssuedTotal(i, "TDN")
            /\ AmountPaid(i)' = AmountPaid(i)
        BY <2>1, <2>5, <3>1, <3>3 DEF amount
      <4> QED
        BY <2>1, <2>2, <2>3, <2>4, <2>5, <3>2, <4>1, <4>2
    <3>4. CASE note[e.note].kind = "TDN"
      <4>1. e.credited = inv[i].credited /\ e.debited = IssuedTotal(i, "TDN") + amount
        BY <2>5, <3>1, <3>4 DEF IssueFits
      <4> HIDE DEF amount
      <4>2. /\ IssuedTotal(i, "CN")' = IssuedTotal(i, "CN")
            /\ IssuedTotal(i, "TDN")' = IssuedTotal(i, "TDN") + amount
            /\ AmountPaid(i)' = AmountPaid(i)
        BY <2>1, <2>5, <3>1, <3>4 DEF amount
      <4>3. inv'[i].credited = inv[i].credited /\ inv'[i].debited = inv[i].debited + amount
        BY <2>2, <2>3, <2>5, <4>1
      <4> QED
        BY <2>1, <2>2, <2>3, <2>4, <3>2, <4>2, <4>3
    <3> QED
      BY <3>2, <3>3, <3>4
  <2>6. CASE ~(i = e.inv /\ e.op = "issue")
    <3>1. /\ IssuedTotal(i, "CN")' = IssuedTotal(i, "CN")
          /\ IssuedTotal(i, "TDN")' = IssuedTotal(i, "TDN")
      BY <2>1, <2>6
    <3>2. inv'[i].credited = inv[i].credited /\ inv'[i].debited = inv[i].debited
      BY <2>2, <2>6
    <3>3. TotalsStand => AmountPaid(i)' <= inv[i].total + inv[i].debited
      <4>1. CASE i = e.inv /\ PaidBy(e) # 0
        <5>1. e.op = "pay" /\ e.row.status = "SUCCESS" /\ PaidBy(e) = e.row.amount
          BY <4>1 DEF PaidBy
        <5>2. AmountPaid(i) + PaidBy(e) + inv[i].credited <= inv[i].total + inv[i].debited
          BY <1>1, <4>1, <5>1 DEF Fits, PayFits
        <5>3. AmountPaid(i)' = AmountPaid(i) + PaidBy(e) /\ PaidBy(e) \in Nat
          BY <2>1, <4>1, WrittenSums
        <5> QED
          BY <2>1, <2>3, <2>4, <5>2, <5>3
      <4>2. CASE ~(i = e.inv /\ PaidBy(e) # 0)
        BY <2>1, <2>3, <4>2
      <4> QED
        BY <4>1, <4>2
    <3> QED
      BY <2>2, <2>3, <3>1, <3>2, <3>3
  <2> QED
    BY <2>5, <2>6
<1>3. TotalsStand' => TotalsStand
  BY DEF Writes, TotalsStand
<1> QED
  BY <1>2, <1>3 DEF NotOverpaid, CachedTotals, NotOvercredited

LEMMA WrittenStatus ==
  ASSUME IInv, NEW t \in Txn, NEW e \in RequestRow, Writes(t, e)
  PROVE  StatusMatchesBalance'
<1> SUFFICES ASSUME Calm', NEW i \in Inv PROVE StatusRight(inv[i], AmountPaid(i))'
  BY DEF StatusMatchesBalance, StatusAgrees, Calm, StatusRight
<1>1. Calm
  BY DEF Calm, TotalsStand, Writes
<1>2. Shape(e) /\ Fits(e) /\ e.flips = {}
  BY <1>1, WrittenRows DEF Fits, Calm
<1>3. StatusRight(inv[i], AmountPaid(i))
  BY <1>1 DEF IInv, StatusMatchesBalance, StatusAgrees, Calm, StatusRight
<1>4. /\ inv'[i] = Updated(i, e)
      /\ inv'[i].total = inv[i].total
      /\ inv'[i].credited = IF i = e.inv /\ e.op = "issue" THEN e.credited ELSE inv[i].credited
      /\ inv'[i].debited = IF i = e.inv /\ e.op = "issue" THEN e.debited ELSE inv[i].debited
  BY <1>1, WrittenRows DEF Calm
<1>5. /\ AmountPaid(i)' = AmountPaid(i) + (IF i = e.inv THEN PaidBy(e) ELSE 0)
      /\ AmountPaid(i) \in Nat
  BY WrittenSums
<1>6. CASE i = e.inv /\ e.op \in {"checked", "pay", "issue"}
  <2>1. StatusRight(Updated(i, e), AmountPaid(i) + PaidBy(e))
    BY <1>1, <1>2, <1>6 DEF Fits
  <2>2. AmountPaid(i)' = AmountPaid(i) + PaidBy(e)
    BY <1>5, <1>6
  <2> QED
    BY <1>4, <2>1, <2>2 DEF StatusRight, BalanceDue
<1>7. CASE i = e.inv /\ e.op = "void"
  <2>1. inv'[i].status = "CANCELLED"
    BY <1>2, <1>4, <1>7, NoneAssumption DEF Updated, Put, Shape, InvStatus
  <2> QED
    BY <2>1 DEF StatusRight, ALLOWED_PARENT
<1>8. CASE i # e.inv \/ e.op \notin {"checked", "pay", "issue", "void"}
  <2>1. inv'[i].status = inv[i].status
    BY <1>2, <1>4, <1>8 DEF Updated, Put, Shape
  <2>2. inv'[i].credited = inv[i].credited /\ inv'[i].debited = inv[i].debited
    BY <1>4, <1>8
  <2>3. AmountPaid(i)' = AmountPaid(i)
    BY <1>5, <1>8 DEF PaidBy
  <2> QED
    BY <1>3, <1>4, <2>1, <2>2, <2>3 DEF StatusRight, BalanceDue
<1> QED
  BY <1>6, <1>7, <1>8

\* A credit note adds to what its invoice owes back exactly what it parks.
LEMMA WrittenParked ==
  ASSUME IInv, NEW t \in Txn, NEW e \in RequestRow, Writes(t, e)
  PROVE  ParkedUntilDebited'
<1>1. Shape(e) /\ Fits(e) /\ TypeOK' /\ ops' = ops
  BY WrittenRows, WrittenType DEF Writes
<1>2. ASSUME NEW i \in Inv
      PROVE  /\ AmountPaid(i) \in Nat /\ inv[i].total \in Nat
             /\ inv[i].credited \in Nat /\ inv[i].debited \in Nat
             /\ TotalsStand => inv'[i].total = inv[i].total
             /\ ~(i = e.inv /\ e.op = "issue") => inv'[i].credited = inv[i].credited
                                                  /\ inv'[i].debited = inv[i].debited
             /\ AmountPaid(i)' = AmountPaid(i) + (IF i = e.inv THEN PaidBy(e) ELSE 0)
             /\ PaidBy(e) \in Nat
  <2>1. /\ inv[i].total \in Nat /\ inv[i].credited \in Nat /\ inv[i].debited \in Nat
    BY RowTypes DEF IInv, InvRow
  <2>2. /\ TotalsStand => inv'[i].total = inv[i].total
        /\ ~(i = e.inv /\ e.op = "issue") => inv'[i].credited = inv[i].credited
                                             /\ inv'[i].debited = inv[i].debited
    BY WrittenRows
  <2>3. /\ AmountPaid(i) \in Nat /\ PaidBy(e) \in Nat
        /\ AmountPaid(i)' = AmountPaid(i) + (IF i = e.inv THEN PaidBy(e) ELSE 0)
    BY WrittenSums
  <2> QED
    BY <2>1, <2>2, <2>3
<1>3. ASSUME TotalsStand, NEW i \in Inv, ~(i = e.inv /\ e.op = "issue")
      PROVE  CreditOwing(inv[i], AmountPaid(i))' = CreditOwing(inv[i], AmountPaid(i))
  <2>1. /\ inv'[i].total = inv[i].total
        /\ inv'[i].credited = inv[i].credited /\ inv'[i].debited = inv[i].debited
    BY <1>2, <1>3
  <2>2. CASE i = e.inv /\ PaidBy(e) # 0
    <3>1. AmountPaid(i) + PaidBy(e) + inv[i].credited <= inv[i].total + inv[i].debited
      BY <1>1, <2>2 DEF Fits, PayFits, PaidBy
    <3>2. AmountPaid(i)' = AmountPaid(i) + PaidBy(e)
      BY <1>2, <2>2
    <3> QED
      BY <1>2, <2>1, <3>1, <3>2 DEF CreditOwing, Monus
  <2>3. CASE ~(i = e.inv /\ PaidBy(e) # 0)
    <3>1. AmountPaid(i)' = AmountPaid(i)
      BY <1>2, <2>3
    <3> QED
      BY <2>1, <3>1 DEF CreditOwing
  <2> QED
    BY <2>2, <2>3
<1>4. CASE e.op # "issue"
  <2>1. client'.balance = client.balance
    BY <1>4, WrittenTables
  <2>2. note' = note
    BY <1>1, <1>4 DEF Shape, Writes, Write, IInv, TypeOK
  <2>3. \A i \in Inv : Issued(i, "TDN")' = Issued(i, "TDN")
    BY <2>2 DEF Issued
  <2> QED
    BY <1>1, <1>3, <1>4, <2>1, <2>3, ParkedStays
<1>5. CASE e.op = "issue"
  <2> DEFINE i == e.inv
             n == e.note
             amount == note[n].amount
  <2>1. /\ n \in Note /\ i \in Inv /\ note[n] \in NoteRow /\ note[n].inv = i
        /\ note'[n] = [note[n] EXCEPT !.status = "ISSUED"]
        /\ \A m \in Note : m # n => note'[m] = note[m]
        /\ note[n].status = "DRAFT"
        /\ client'.balance = e.balance
    BY <1>1, <1>5, WrittenTables DEF Shape, RequestRow
  <2>2. /\ note'[n] # None /\ note'[n].inv = i /\ note'[n].status = "ISSUED"
        /\ note'[n].kind = note[n].kind
    BY <2>1 DEF NoteRow
  <2> SUFFICES ASSUME TotalsStand', \A j \in Inv : Issued(j, "TDN")' = {}
               PROVE  CreditBalanceIsOwed'
    BY DEF ParkedUntilDebited
  <2>3. note[n].kind = "CN"
    <3>1. note[n].kind = "TDN" => n \in Issued(i, "TDN")'
      BY <2>1, <2>2 DEF Issued
    <3> QED
      BY <2>1, <3>1 DEF NoteRow
  <2>4. \A j \in Inv : Issued(j, "TDN") = {}
    <3> SUFFICES ASSUME NEW j \in Inv, NEW m \in Issued(j, "TDN") PROVE m \in Issued(j, "TDN")'
      OBVIOUS
    <3> QED
      BY <2>1 DEF Issued
  <2>5. TotalsStand
    BY <1>1 DEF TotalsStand
  <2>6. CreditBalanceIsOwed
    BY <2>4, <2>5 DEF IInv, ParkedUntilDebited
  <2>7. inv[i].debited = 0 /\ inv[i].credited = IssuedTotal(i, "CN")
    <3>1. IssuedTotal(i, "TDN") = 0
      <4>1. [m \in Issued(i, "TDN") |-> note[m].amount] = [m \in {} |-> note[m].amount]
        BY <2>1, <2>4
      <4>2. SumFunction([m \in {} |-> note[m].amount]) = 0
        BY SumEmpty
      <4> QED
        BY <4>1, <4>2 DEF IssuedTotal
    <3> QED
      BY <2>1, <3>1 DEF IInv, CachedTotals
  <2>8. /\ e.credited = inv[i].credited + amount /\ e.debited = 0
        /\ e.balance = client.balance
             + Monus(amount, Monus(inv[i].total, inv[i].credited + AmountPaid(i)))
    BY <1>1, <1>5, <2>3, <2>7 DEF Fits, IssueFits
  <2>9. /\ inv'[i].total = inv[i].total /\ inv'[i].credited = inv[i].credited + amount
        /\ inv'[i].debited = 0 /\ AmountPaid(i)' = AmountPaid(i)
    <3>1. PaidBy(e) = 0
      BY <1>5 DEF PaidBy
    <3>2. inv'[i].credited = e.credited /\ inv'[i].debited = e.debited
      BY <1>5, <2>1, WrittenRows
    <3> QED
      BY <1>2, <2>1, <2>5, <2>8, <3>1, <3>2
  <2>10. amount \in Nat /\ client.balance \in Nat
    BY <2>1, AmountTypes, RowTypes DEF NoteRow, IInv
  <2> HIDE DEF amount, n, i
  <2>11. CreditOwing(inv[i], AmountPaid(i))' - CreditOwing(inv[i], AmountPaid(i))
           = Monus(amount, Monus(inv[i].total, inv[i].credited + AmountPaid(i)))
    BY <1>2, <2>1, <2>7, <2>9, <2>10 DEF CreditOwing, Monus
  <2>12. OwedBack(inv', pay') = OwedBack(inv, pay) - CreditOwing(inv[i], AmountPaid(i))
                                  + CreditOwing(inv[i], AmountPaid(i))'
    <3>1. \A j \in Inv \ {i} :
            CreditOwing(inv[j], AmountPaid(j))' = CreditOwing(inv[j], AmountPaid(j))
      BY <1>3, <2>5 DEF i
    <3> QED
      BY <1>1, <2>1, <3>1, OwedOne DEF IInv
  <2>13. CreditOwing(inv[i], AmountPaid(i)) \in Nat /\ CreditOwing(inv[i], AmountPaid(i))' \in Nat
    BY <1>2, <2>1, <2>7, <2>9, <2>10 DEF CreditOwing, Monus
  <2>14. client.balance = OwedBack(inv, pay)
    BY <2>6, SumsRead
  <2>15. client'.balance = OwedBack(inv', pay')
    BY <2>1, <2>8, <2>10, <2>11, <2>12, <2>13, <2>14
  <2> QED
    BY <2>15, SumsRead
<1> QED
  BY <1>4, <1>5

LEMMA CommitIInv == ASSUME IInv, NEW t \in Txn, Commit(t) PROVE IInv'
<1>1. PICK e \in RequestRow : txn[t] = e /\ e.op # "send"
  BY RowTypes DEF Commit, IInv
<1>2. CASE KeyConflict(e)
  <2>1. UNCHANGED <<rows, age>> /\ txn' = [txn EXCEPT ![t] = None]
    BY <1>1, <1>2 DEF Commit, rows
  <2> QED
    BY <2>1, EndIInv
<1>3. CASE ~KeyConflict(e)
  <2>1. Writes(t, e)
    BY <1>1, <1>3 DEF Commit, Writes
  <2> QED
    BY <2>1, WrittenType, WrittenRowsFit, WrittenKeys, WrittenRequests, WrittenTotals,
       WrittenStatus, WrittenParked DEF IInv
<1> QED
  BY <1>2, <1>3

-----------------------------------------------------------------------------
(* Every step, and the theorems.                                           *)

LEMMA BeginIInv == ASSUME IInv, NEW t \in Txn, Begin(t) PROVE IInv'
<1>1. ASSUME NEW i \in Inv, SendLoad(t, i) \/ DeleteInvoice(t, i) \/ VoidInvoice(t, i)
      PROVE  IInv'
  BY <1>1, SendLoadIInv, DeleteInvoiceIInv, VoidInvoiceIInv
<1>2. ASSUME NEW i \in Inv, NEW total \in Totals, EditInvoice(t, i, total) PROVE IInv'
  BY <1>2, EditInvoiceIInv
<1>3. ASSUME NEW S, SweepOverdue(t, S) PROVE IInv'
  BY <1>3, SweepIInv
<1>4. ASSUME NEW i \in Inv, NEW k \in Key, NEW a \in Amounts, NEW m \in {"PDC", "CHEQUE"},
             NEW p \in Pay, RecordPayment(t, i, k, a, m, p)
      PROVE  IInv'
  BY ONLY IInv, <1>4, RecordPaymentIInv
<1>5. ASSUME NEW p \in Pay, BouncePdc(t, p) PROVE IInv'
  BY <1>5, BouncePdcIInv
<1>6. ASSUME NEW n \in Note, IssueCreditNote(t, n) \/ IssueDebitNote(t, n) PROVE IInv'
  BY <1>6, IssueCreditNoteIInv, IssueDebitNoteIInv
<1>7. CASE \E i \in Inv :
             \/ SendLoad(t, i)
             \/ \E total \in Totals : EditInvoice(t, i, total)
             \/ DeleteInvoice(t, i) \/ VoidInvoice(t, i) \/ SweepOverdue(t, {i})
             \/ \E k \in Key, a \in Amounts, m \in {"PDC", "CHEQUE"}, p \in Pay :
                  RecordPayment(t, i, k, a, m, p)
  BY ONLY <1>1, <1>2, <1>3, <1>4, <1>7
<1>8. CASE ReadClient(t) \/ (\E p \in Pay : BouncePdc(t, p))
             \/ (\E n \in Note : IssueCreditNote(t, n) \/ IssueDebitNote(t, n))
  BY ONLY <1>3, <1>5, <1>6, <1>8 DEF ReadClient
<1> QED
  BY ONLY Begin(t), <1>7, <1>8 DEF Begin

LEMMA StepIInv == IInv /\ [Next]_vars => IInv'
<1> SUFFICES ASSUME IInv, [Next]_vars PROVE IInv'
  OBVIOUS
<1>1. ASSUME NEW t \in Txn, Begin(t) \/ SendCheck(t) \/ Commit(t) PROVE IInv'
  BY <1>1, BeginIInv, SendCheckIInv, CommitIInv
<1>2. ASSUME NEW t \in Txn, Abort(t) PROVE IInv'
  BY <1>2, EndIInv DEF Abort
<1>3. ASSUME NEW i \in Inv, NEW total \in Totals, CreateInvoice(i, total) PROVE IInv'
  BY <1>3, CreateInvoiceIInv
<1>4. ASSUME NEW p \in Pay, DepositPdc(p) \/ ReturnPdc(p) \/ ClearPdc(p) PROVE IInv'
  <2>1. DepositPdc(p) \/ ReturnPdc(p) => IInv'
    BY DepositReturnIInv
  <2>2. ClearPdc(p) => IInv'
    BY ClearPdcIInv
  <2> QED
    BY <1>4, <2>1, <2>2
<1>5. ASSUME NEW k \in Key, ExpireKey(k) PROVE IInv'
  BY <1>5, ExpireKeyIInv
<1>6. ASSUME NEW n \in Note, NEW kind \in {"CN", "TDN"}, NEW i \in Inv, NEW a \in Amounts,
             CreateNote(n, kind, i, a)
      PROVE  IInv'
  BY <1>6, CreateNoteIInv
<1>7. ASSUME NEW n \in Note, DeleteNote(n) PROVE IInv'
  BY <1>7, DeleteNoteIInv
<1>8. ASSUME NEW i \in Inv, GrowOlder(i) PROVE IInv'
  BY <1>8, GrowOlderIInv
<1>9. CASE UNCHANGED vars
  <2>1. UNCHANGED <<rows, age>> /\ txn' = txn /\ ops' = ops
    BY <1>9 DEF vars, rows
  <2>2. UNCHANGED <<ops, inv, pay, key, expired, expiries, note, client, age, txn>>
    BY <2>1 DEF rows
  <2>3. TypeOK'
    BY <2>2 DEF IInv, TypeOK
  <2>4. Apart'
    BY <2>2 DEF IInv, Apart, Open
  <2> QED
    BY <2>1, <2>3, <2>4, RestIInv
<1> QED
  BY <1>1, <1>2, <1>3, <1>4, <1>5, <1>6, <1>7, <1>8, <1>9 DEF Next

\* The inductive invariant holds of every reachable state.
THEOREM Invariance == Spec => []IInv
<1> QED
  BY InitIInv, StepIInv, PTL DEF Spec

\* Whatever cheques clear late and whatever is credited or debited meanwhile, no
\* invoice is paid beyond what was billed.
THEOREM NothingOverpaid == Spec => []NotOverpaid
<1>1. IInv => NotOverpaid
  BY DEF IInv
<1> QED
  BY <1>1, Invariance, PTL

\* A key names one payment for as long as its row has not expired.
THEOREM OnePaymentPerKey == Spec => []OncePerKey
<1>1. IInv => OncePerKey
  <2> SUFFICES ASSUME IInv, NEW k \in Key PROVE Cardinality(PaymentsFor(k)) <= 1 + expiries[k]
    BY DEF OncePerKey
  <2>1. PaymentsFor(k) \in SUBSET Pay
    BY DEF PaymentsFor
  <2>2. Cardinality(PaymentsFor(k)) \in Nat /\ expiries[k] \in Nat
    BY <2>1, RowsAssumption, FS_Subset, FS_CardinalityType DEF IInv, TypeOK
  <2> QED
    BY <2>2 DEF IInv, KeysCount
<1> QED
  BY <1>1, Invariance, PTL

\* Rows keep their types, the totals cached on an invoice are the sums of its
\* issued notes, and those never credit it below zero.
THEOREM NotesSumUp == Spec => []NotesAddUp
<1>1. IInv => NotesAddUp
  BY DEF IInv, NotesAddUp
<1> QED
  BY <1>1, Invariance, PTL

\* Where no overdue flip races and no DRAFT is paid, the status of a sent
\* invoice is that of its payments and notes.
THEOREM StatusFollowsBalance == Spec => []StatusMatchesBalance
<1>1. IInv => StatusMatchesBalance
  BY DEF IInv
<1> QED
  BY <1>1, Invariance, PTL

\* The credit parked on a client is what its invoices owe it back, for as long
\* as none of them has been debited.
THEOREM ParkedIsOwed == Spec => []ParkedUntilDebited
<1>1. IInv => ParkedUntilDebited
  BY DEF IInv
<1> QED
  BY <1>1, Invariance, PTL

-----------------------------------------------------------------------------
(* The credit gate.                                                        *)

\* What a set of invoice rows owes, as the gate adds it up.
Owes(row, paid) ==
    IF row.status \in AR_STATUSES /\ row.deleted = FALSE THEN BalanceDue(row, paid) ELSE 0
Owing(table, payments) == SumFunction([i \in Inv |-> Owes(table[i], PaidIn(payments, i))])

\* Nothing is due on a PAID invoice, none is void where nobody voids, and what
\* is owed stays within the limit from the check of a send to its commit.
Settled == \A i \in Inv : inv[i].status = "PAID" => BalanceDue(inv[i], AmountPaid(i)) = 0
NeverVoided == "void" \notin ops => \A i \in Inv : inv[i].status # "CANCELLED"
Admitted == \A t \in Txn : Open(t) /\ txn[t].op = "checked" => Owing(inv, pay) <= Limit
GInv == TotalsStand /\ VoidsStand => Settled /\ NeverVoided /\ Admitted

LEMMA OwesType ==
  ASSUME NEW row \in InvRow, NEW paid \in Nat
  PROVE  BalanceDue(row, paid) \in Nat /\ Owes(row, paid) \in Nat
BY DEF InvRow, Owes, BalanceDue, Monus

\* It is the exposure that the model's gate reads.
LEMMA ExposureRead ==
  ASSUME TypeOK
  PROVE  /\ Owing(inv, pay) \in Int
         /\ \A row, paid : Exposure(None, row, paid) = Owing(inv, pay)
         /\ \A i \in Inv : Exposure(i, inv[i], AmountPaid(i)) = Owing(inv, pay)
<1> DEFINE F == [j \in OpenAR |-> BalanceDue(inv[j], AmountPaid(j))]
           G == [j \in Inv |-> Owes(inv[j], PaidIn(pay, j))]
<1>1. OpenAR \in SUBSET Inv
  BY DEF OpenAR
<1>2. \A j \in Inv : BalanceDue(inv[j], AmountPaid(j)) \in Nat
  BY OwesType, SumTypes, RowTypes
<1>3. \A j \in Inv : G[j] = IF j \in OpenAR THEN BalanceDue(inv[j], AmountPaid(j)) ELSE 0
  <2> SUFFICES ASSUME NEW j \in Inv
               PROVE  Owes(inv[j], PaidIn(pay, j))
                        = IF j \in OpenAR THEN BalanceDue(inv[j], AmountPaid(j)) ELSE 0
    OBVIOUS
  <2>1. inv[j].deleted \in BOOLEAN
    BY DEF TypeOK, InvRow
  <2>2. PaidIn(pay, j) = AmountPaid(j)
    BY SumsRead
  <2> QED
    BY <2>1, <2>2 DEF Owes, OpenAR
<1>4. DOMAIN F = OpenAR /\ DOMAIN G = Inv
      /\ \A j \in OpenAR : F[j] = BalanceDue(inv[j], AmountPaid(j))
  OBVIOUS
<1>5. SumFunction(F) = Owing(inv, pay) /\ Owing(inv, pay) \in Int
  <2>1. Owing(inv, pay) = SumFunction(G)
    BY DEF Owing
  <2>2. /\ \A j \in OpenAR : F[j] \in Int /\ G[j] = F[j]
        /\ \A j \in Inv \ OpenAR : G[j] = 0
    BY <1>1, <1>2, <1>3, <1>4
  <2> HIDE DEF F, G
  <2>3. SumFunction(G) = SumFunction(F)
    BY <1>1, <1>4, <2>2, SumSupport
  <2>4. SumFunction(G) \in Int
    BY <1>1, <1>4, <2>2, SumType
  <2> QED
    BY <2>1, <2>3, <2>4
<1>6. ASSUME NEW row, NEW paid PROVE Exposure(None, row, paid) = Owing(inv, pay)
  <2>1. \A j \in OpenAR : j # None
    BY <1>1
  <2>2. [j \in OpenAR |-> IF j = None THEN BalanceDue(row, paid)
                                      ELSE BalanceDue(inv[j], AmountPaid(j))] = F
    BY <2>1
  <2> QED
    BY <1>5, <2>2 DEF Exposure
<1>7. ASSUME NEW i \in Inv PROVE Exposure(i, inv[i], AmountPaid(i)) = Owing(inv, pay)
  <2>1. [j \in OpenAR |-> IF j = i THEN BalanceDue(inv[i], AmountPaid(i))
                                   ELSE BalanceDue(inv[j], AmountPaid(j))] = F
    OBVIOUS
  <2> QED
    BY <1>5, <2>1 DEF Exposure
<1> QED
  BY <1>5, <1>6, <1>7

\* Where no invoice owes more than before, neither do they together.
LEMMA OwingFalls ==
  ASSUME TypeOK, TypeOK',
         \A i \in Inv : Owes(inv[i], AmountPaid(i))' <= Owes(inv[i], AmountPaid(i))
  PROVE  /\ Owing(inv', pay') <= Owing(inv, pay)
         /\ Owing(inv', pay') \in Int /\ Owing(inv, pay) \in Int
<1> DEFINE F == [i \in Inv |-> Owes(inv[i], PaidIn(pay, i))]
           G == [i \in Inv |-> Owes(inv'[i], PaidIn(pay', i))]
<1>1. \A i \in Inv : /\ F[i] = Owes(inv[i], AmountPaid(i))
                     /\ G[i] = Owes(inv[i], AmountPaid(i))'
  BY SumsRead DEF Owes, BalanceDue
<1>2. \A i \in Inv : F[i] \in Nat /\ G[i] \in Nat
  <2> SUFFICES ASSUME NEW i \in Inv PROVE F[i] \in Nat /\ G[i] \in Nat
    OBVIOUS
  <2>1. /\ inv[i] \in InvRow /\ inv'[i] \in InvRow
        /\ PaidIn(pay, i) \in Nat /\ PaidIn(pay', i) \in Nat
    BY TableSums DEF TypeOK
  <2> QED
    BY <2>1, OwesType
<1>3. DOMAIN F = Inv /\ DOMAIN G = Inv /\ Inv \in SUBSET Inv
  OBVIOUS
<1>4. Owing(inv, pay) = SumFunction(F) /\ Owing(inv', pay') = SumFunction(G)
  BY DEF Owing
<1>5. \A i \in Inv : G[i] <= F[i]
  BY <1>1
<1> HIDE DEF F, G
<1>6. SumFunction(G) <= SumFunction(F)
  BY <1>2, <1>3, <1>5, SumMonotone
<1>7. SumFunction(G) \in Int /\ SumFunction(F) \in Int
  BY <1>2, <1>3, SumType
<1> QED
  BY <1>4, <1>6, <1>7

\* A step by which no invoice comes to owe more, and that checks no send.
LEMMA FallGate ==
  ASSUME TypeOK, TypeOK', GInv, ops' = ops,
         \A t \in Txn : txn'[t] # None => txn'[t] = txn[t],
         TotalsStand /\ VoidsStand /\ Settled /\ NeverVoided =>
           /\ Settled' /\ NeverVoided'
           /\ \A i \in Inv : Owes(inv[i], AmountPaid(i))' <= Owes(inv[i], AmountPaid(i))
  PROVE  GInv'
<1> SUFFICES ASSUME TotalsStand, VoidsStand PROVE Settled' /\ NeverVoided' /\ Admitted'
  BY DEF GInv, TotalsStand, VoidsStand
<1>1. Settled' /\ NeverVoided'
      /\ \A i \in Inv : Owes(inv[i], AmountPaid(i))' <= Owes(inv[i], AmountPaid(i))
  BY DEF GInv
<1>2. Admitted'
  <2> SUFFICES ASSUME NEW t \in Txn, txn'[t] # None, txn'[t].op = "checked"
               PROVE  Owing(inv', pay') <= Limit
    BY DEF Admitted, Open
  <2>1. Owing(inv, pay) <= Limit
    BY DEF GInv, Admitted, Open
  <2> QED
    BY <1>1, <2>1, OwingFalls
<1> QED
  BY <1>1, <1>2

\* A step that writes no row, and checks a send only within the limit.
LEMMA RestGate ==
  ASSUME GInv, UNCHANGED <<ops, inv, pay>>,
         \A t \in Txn : txn'[t] # None /\ txn'[t].op = "checked" =>
                          txn'[t] = txn[t] \/ Owing(inv, pay) <= Limit
  PROVE  GInv'
<1> SUFFICES ASSUME TotalsStand, VoidsStand PROVE Settled' /\ NeverVoided' /\ Admitted'
  BY DEF GInv, TotalsStand, VoidsStand
<1>1. \A i : AmountPaid(i)' = AmountPaid(i)
  BY SumsRead
<1>2. Settled' /\ NeverVoided'
  BY <1>1 DEF GInv, Settled, NeverVoided, BalanceDue
<1>3. Admitted'
  <2> SUFFICES ASSUME NEW t \in Txn, txn'[t] # None, txn'[t].op = "checked"
               PROVE  Owing(inv, pay) <= Limit
    BY DEF Admitted, Open
  <2> QED
    BY DEF GInv, Admitted, Open
<1> QED
  BY <1>2, <1>3

\* A request keeps its kind when it is evaluated and posted.
LEMMA KindKept ==
  ASSUME NEW e, "op" \in DOMAIN e, NEW i, NEW row, NEW paid, NEW balance
  PROVE  Evaluate(e, row, paid).op = e.op /\ PostAr(e, i, row, balance).op = e.op
<1>1. \A f, r, p : "op" \in DOMAIN f => Evaluate(f, r, p).op = f.op
  BY DEF Evaluate
<1>2. PostAr(e, i, row, balance).op = e.op
  <2> DEFINE st == DetermineStatus(i, row, AmountPaid(i))
             put == IF st = row.status THEN Same ELSE st
             f == [e EXCEPT !.status = put, !.credited = row.credited,
                            !.debited = row.debited, !.balance = balance]
  <2>1. PostAr(e, i, row, balance) = Evaluate(f, [row EXCEPT !.status = st], AmountPaid(i))
    BY DEF PostAr
  <2>2. "op" \in DOMAIN f /\ f.op = e.op
    OBVIOUS
  <2> HIDE DEF f, st
  <2> QED
    BY <1>1, <2>1, <2>2
<1> QED
  BY <1>1, <1>2

\* No request begins as a send that has been checked.
LEMMA BeginGate == ASSUME IInv, GInv, NEW t \in Txn, Begin(t) PROVE GInv'
<1>1. ASSUME NEW e, txn' = [txn EXCEPT ![t] = e], e.op # "checked", UNCHANGED <<rows, age>>
      PROVE  GInv'
  <2>1. \A u \in Txn : txn'[u] # None /\ txn'[u].op = "checked" => txn'[u] = txn[u]
    BY <1>1 DEF IInv, TypeOK
  <2>2. UNCHANGED <<ops, inv, pay>>
    BY <1>1 DEF rows
  <2> QED
    BY <2>1, <2>2, RestGate
<1>2. ASSUME NEW op, NEW i, NEW S
      PROVE  Request(op, i, S).op = op /\ "op" \in DOMAIN Request(op, i, S)
  BY DEF Request
<1>3. ASSUME NEW i \in Inv, SendLoad(t, i) PROVE GInv'
  <2>1. Request("send", i, {i}).op # "checked"
    BY <1>2
  <2> QED
    BY <1>1, <1>3, <2>1 DEF SendLoad
<1>4. ASSUME NEW i \in Inv, NEW total \in Totals, EditInvoice(t, i, total) PROVE GInv'
  <2>1. [Request("edit", i, {}) EXCEPT !.total = total].op # "checked"
    BY <1>2
  <2> QED
    BY <1>1, <1>4, <2>1 DEF EditInvoice
<1>5. ASSUME NEW i \in Inv, DeleteInvoice(t, i) PROVE GInv'
  <2>1. [Request("delete", i, {}) EXCEPT !.deleted = TRUE].op # "checked"
    BY <1>2
  <2> QED
    BY <1>1, <1>5, <2>1 DEF DeleteInvoice
<1>6. ASSUME NEW i \in Inv, VoidInvoice(t, i) PROVE GInv'
  <2>1. [Request("void", i, {}) EXCEPT !.status = "CANCELLED"].op # "checked"
    BY <1>2
  <2> QED
    BY <1>1, <1>6, <2>1 DEF VoidInvoice
<1>7. ASSUME NEW S, SweepOverdue(t, S) PROVE GInv'
  <2> DEFINE late == PastDue(None, None, 0) \cap S
  <2>1. [Request("sweep", None, {}) EXCEPT !.flips = late].op # "checked"
    BY <1>2
  <2> QED
    BY <1>1, <1>7, <2>1 DEF SweepOverdue
<1>8. ASSUME NEW i \in Inv, NEW k \in Key, NEW a \in Amounts, NEW m \in {"PDC", "CHEQUE"},
             NEW p \in Pay, RecordPayment(t, i, k, a, m, p)
      PROVE  GInv'
  <2> DEFINE new == [inv |-> i, amount |-> a, key |-> k,
                     status |-> IF m = "PDC" THEN "PENDING" ELSE "SUCCESS",
                     pdc |-> IF m = "PDC" THEN "RECEIVED" ELSE None]
             paid == AmountPaid(i) + IF m = "PDC" THEN 0 ELSE a
             st == DetermineStatus(i, inv[i], paid)
             e == [Request("pay", i, {i}) EXCEPT
                     !.status = IF st = inv[i].status THEN Same ELSE st,
                     !.pay = p, !.row = new, !.key = k, !.old = key[k]]
  <2>1. "op" \in DOMAIN e /\ e.op = "pay"
    BY <1>2
  <2>2. /\ txn' = [txn EXCEPT ![t] = Evaluate(e, [inv[i] EXCEPT !.status = st], paid)]
        /\ UNCHANGED <<rows, age>>
    BY <1>8 DEF RecordPayment
  <2> HIDE DEF e, st, paid
  <2>3. Evaluate(e, [inv[i] EXCEPT !.status = st], paid).op # "checked"
    BY ONLY <2>1, KindKept
  <2> QED
    BY ONLY <1>1, <2>2, <2>3
<1>9. ASSUME NEW p \in Pay, BouncePdc(t, p) PROVE GInv'
  <2> DEFINE i == pay[p].inv
             row == [pay[p] EXCEPT !.pdc = "BOUNCED", !.status = "FAILED"]
             e == [Request("bounce", i, {i}) EXCEPT !.pay = p, !.row = row]
  <2>1. "op" \in DOMAIN e /\ e.op = "bounce"
    BY <1>2
  <2>2. /\ txn' = [txn EXCEPT ![t] = Evaluate(e, inv[i], AmountPaid(i))]
        /\ UNCHANGED <<rows, age>>
    BY <1>9 DEF BouncePdc
  <2> HIDE DEF e, i
  <2>3. Evaluate(e, inv[i], AmountPaid(i)).op # "checked"
    BY ONLY <2>1, KindKept
  <2> QED
    BY ONLY <1>1, <2>2, <2>3
<1>10. ASSUME NEW n \in Note, IssueCreditNote(t, n) \/ IssueDebitNote(t, n) PROVE GInv'
  <2> DEFINE i == note[n].inv
             e == [Request("issue", i, {n, i, Client}) EXCEPT !.note = n]
  <2>1. "op" \in DOMAIN e /\ e.op = "issue"
    BY <1>2
  <2>2. /\ \E row, balance : txn' = [txn EXCEPT ![t] = PostAr(e, i, row, balance)]
        /\ UNCHANGED <<rows, age>>
    BY <1>10 DEF IssueCreditNote, IssueDebitNote
  <2> HIDE DEF e, i
  <2>3. PICK row, balance : txn' = [txn EXCEPT ![t] = PostAr(e, i, row, balance)]
    BY <2>2
  <2>4. PostAr(e, i, row, balance).op # "checked"
    BY ONLY <2>1, KindKept
  <2> QED
    BY ONLY <1>1, <2>2, <2>3, <2>4
<1>11. CASE \E i \in Inv :
              \/ SendLoad(t, i)
              \/ \E total \in Totals : EditInvoice(t, i, total)
              \/ DeleteInvoice(t, i) \/ VoidInvoice(t, i) \/ SweepOverdue(t, {i})
              \/ \E k \in Key, a \in Amounts, m \in {"PDC", "CHEQUE"}, p \in Pay :
                   RecordPayment(t, i, k, a, m, p)
  BY ONLY <1>3, <1>4, <1>5, <1>6, <1>7, <1>8, <1>11
<1>12. CASE ReadClient(t) \/ (\E p \in Pay : BouncePdc(t, p))
              \/ (\E n \in Note : IssueCreditNote(t, n) \/ IssueDebitNote(t, n))
  BY ONLY <1>7, <1>9, <1>10, <1>12 DEF ReadClient
<1> QED
  BY ONLY Begin(t), <1>11, <1>12 DEF Begin

\* The check lets a send through only within the limit.
LEMMA SendCheckGate == ASSUME IInv, GInv, NEW t \in Txn, SendCheck(t) PROVE GInv'
<1> DEFINE i == txn[t].inv
           exposure == Exposure(i, inv[i], AmountPaid(i))
           held == DecideStatus(exposure, OldestOverdue(i, inv[i], AmountPaid(i))) = "HOLD"
<1>1. UNCHANGED <<rows, age>> /\ (\E e : txn' = [txn EXCEPT ![t] = e])
      /\ (held => txn' = [txn EXCEPT ![t] = None])
  BY DEF SendCheck
<1>2. i \in Inv
  BY RowTypes DEF SendCheck, IInv, RequestsFit, Shape, RequestRow
<1>3. exposure = Owing(inv, pay) /\ Owing(inv, pay) \in Int
  BY <1>2, ExposureRead DEF IInv
<1>4. ~held => Owing(inv, pay) <= Limit
  BY <1>3 DEF DecideStatus
<1>5. \A u \in Txn : txn'[u] # None => txn'[u] = txn[u] \/ Owing(inv, pay) <= Limit
  <2> HIDE DEF held
  <2> QED
    BY <1>1, <1>4 DEF IInv, TypeOK
<1> QED
  BY <1>1, <1>5, RestGate DEF rows

\* A new invoice is a DRAFT, which owes nothing yet.
LEMMA CreateInvoiceGate ==
  ASSUME IInv, GInv, NEW i \in Inv, NEW total \in Totals, CreateInvoice(i, total), TypeOK'
  PROVE  GInv'
<1>1. /\ inv[i].status = "NONE" /\ inv'[i].status = "DRAFT"
      /\ \A j \in Inv \ {i} : inv'[j] = inv[j]
      /\ UNCHANGED <<ops, pay, txn>>
  BY RowTypes DEF CreateInvoice, IInv, TypeOK, InvRow
<1>2. \A j \in Inv : AmountPaid(j)' = AmountPaid(j) /\ AmountPaid(j) \in Nat
  BY <1>1, SumsRead, SumTypes DEF IInv
<1>3. Settled => Settled'
  BY <1>1, <1>2 DEF Settled, BalanceDue
<1>4. NeverVoided => NeverVoided'
  BY <1>1 DEF NeverVoided
<1>5. \A j \in Inv : Owes(inv[j], AmountPaid(j))' <= Owes(inv[j], AmountPaid(j))
  <2> SUFFICES ASSUME NEW j \in Inv
               PROVE  Owes(inv[j], AmountPaid(j))' <= Owes(inv[j], AmountPaid(j))
    OBVIOUS
  <2>1. Owes(inv[j], AmountPaid(j)) \in Nat
    BY <1>2, OwesType, RowTypes DEF IInv
  <2>2. CASE j = i
    <3>1. Owes(inv[j], AmountPaid(j))' = 0
      BY <1>1, <2>2 DEF Owes, AR_STATUSES
    <3> QED
      BY <2>1, <3>1
  <2>3. CASE j # i
    <3>1. Owes(inv[j], AmountPaid(j))' = Owes(inv[j], AmountPaid(j))
      BY <1>1, <1>2, <2>3 DEF Owes, BalanceDue
    <3> QED
      BY <2>1, <3>1
  <2> QED
    BY <2>2, <2>3
<1> QED
  BY <1>1, <1>3, <1>4, <1>5, FallGate DEF IInv

\* A cheque that clears lowers what its invoice owes, and leaves it PAID only
\* with nothing due.
LEMMA ChequeGate ==
  ASSUME IInv, GInv, TypeOK', NEW p \in Pay, pay[p] # None, pay[p].status = "PENDING",
         NEW row \in PayRow, pay' = [pay EXCEPT ![p] = row], row.inv = pay[p].inv,
         inv' = [inv EXCEPT ![row.inv] = [inv[row.inv] EXCEPT !.status =
                   IF row.status = "SUCCESS"
                   THEN DetermineStatus(row.inv, inv[row.inv], AmountPaid(row.inv) + row.amount)
                   ELSE inv[row.inv].status]],
         row.status = "SUCCESS" => row.amount <= BalanceDue(inv[row.inv], AmountPaid(row.inv)),
         UNCHANGED <<ops, txn>>
  PROVE  GInv'
<1> DEFINE i == row.inv
           added == IF row.status = "SUCCESS" THEN row.amount ELSE 0
           st == IF row.status = "SUCCESS"
                 THEN DetermineStatus(i, inv[i], AmountPaid(i) + row.amount)
                 ELSE inv[i].status
           new == [inv[i] EXCEPT !.status = st]
<1>1. i \in Inv /\ inv[i] \in InvRow /\ row.amount \in Nat /\ row.amount # 0
  BY AmountTypes, RowTypes DEF PayRow, IInv
<1>2. /\ new.status = st /\ new.total = inv[i].total /\ new.deleted = inv[i].deleted
      /\ new.credited = inv[i].credited /\ new.debited = inv[i].debited
  BY <1>1 DEF InvRow
<1>3. inv'[i] = new /\ \A j \in Inv \ {i} : inv'[j] = inv[j]
  BY <1>1 DEF IInv, TypeOK
<1>4. \A j \in Inv : AmountPaid(j) \in Nat
  BY SumTypes DEF IInv
<1>5. \A j \in Inv : AmountPaid(j)' = AmountPaid(j) + (IF j = i THEN added ELSE 0)
  <2> SUFFICES ASSUME NEW j \in Inv
               PROVE  AmountPaid(j)' = AmountPaid(j) + (IF j = i THEN added ELSE 0)
    OBVIOUS
  <2>1. pay'[p] = row /\ row # None /\ \A q \in Pay \ {p} : pay'[q] = pay[q]
    BY DEF IInv, TypeOK
  <2>2. AmountPaid(j)' = AmountPaid(j) - Brings(pay[p], j) + Brings(pay'[p], j)
    BY <2>1, PaidAfter DEF IInv
  <2>3. Brings(pay[p], j) = 0 /\ Brings(pay'[p], j) = IF j = i THEN added ELSE 0
    BY <2>1 DEF Brings
  <2> QED
    BY <1>1, <1>4, <2>2, <2>3
<1>6. added \in Nat /\ (added # 0 => BalanceDue(inv[i], AmountPaid(i)) > 0)
  <2>1. BalanceDue(inv[i], AmountPaid(i)) \in Nat
    BY <1>1, <1>4, OwesType
  <2> QED
    BY <1>1, <2>1
<1>7. /\ BalanceDue(inv[i], AmountPaid(i))' = BalanceDue(inv[i], AmountPaid(i) + added)
      /\ BalanceDue(inv[i], AmountPaid(i) + added) <= BalanceDue(inv[i], AmountPaid(i))
  <2>1. AmountPaid(i)' = AmountPaid(i) + added
    BY <1>1, <1>5
  <2>2. BalanceDue(inv[i], AmountPaid(i))' = BalanceDue(inv[i], AmountPaid(i) + added)
    BY <1>2, <1>3, <2>1 DEF BalanceDue
  <2>3. BalanceDue(inv[i], AmountPaid(i) + added) <= BalanceDue(inv[i], AmountPaid(i))
    <3>1. /\ inv[i].total \in Nat /\ inv[i].debited \in Nat /\ inv[i].credited \in Nat
          /\ AmountPaid(i) \in Nat
      BY <1>1, <1>4 DEF InvRow
    <3> HIDE DEF added, i
    <3> QED
      BY <1>6, <3>1 DEF BalanceDue, Monus
  <2> QED
    BY <2>2, <2>3
<1>8. /\ st = "PAID" => \/ inv[i].status = "PAID" /\ added = 0
                        \/ BalanceDue(inv[i], AmountPaid(i) + added) = 0
      /\ st = "CANCELLED" => inv[i].status = "CANCELLED"
      /\ st \in AR_STATUSES => inv[i].status \notin {"DRAFT", "CANCELLED"}
  BY <1>1 DEF DetermineStatus, AR_STATUSES
<1>9. inv[i].status # "NONE"
  BY DEF IInv, RowsFit
<1> HIDE DEF added, st, new, i
<1>10. \A j \in Inv \ {i} : AmountPaid(j)' = AmountPaid(j)
  BY <1>4, <1>5
<1>11. AmountPaid(i) + 0 = AmountPaid(i)
  BY <1>1, <1>4
<1>12. Settled => Settled'
  <2> SUFFICES ASSUME Settled, NEW j \in Inv, inv'[j].status = "PAID"
               PROVE  BalanceDue(inv[j], AmountPaid(j))' = 0
    BY DEF Settled
  <2>1. CASE j = i
    BY <1>1, <1>2, <1>3, <1>7, <1>8, <1>11, <2>1 DEF Settled
  <2>2. CASE j # i
    BY <1>3, <1>10, <2>2 DEF Settled, BalanceDue
  <2> QED
    BY <2>1, <2>2
<1>13. NeverVoided => NeverVoided'
  BY <1>2, <1>3, <1>8 DEF NeverVoided
<1>14. ASSUME Settled, NEW j \in Inv
       PROVE  Owes(inv[j], AmountPaid(j))' <= Owes(inv[j], AmountPaid(j))
  <2>1. Owes(inv[j], AmountPaid(j)) \in Nat /\ BalanceDue(inv[j], AmountPaid(j)) \in Nat
    BY <1>4, OwesType, RowTypes DEF IInv
  <2>2. CASE j # i
    <3>1. inv'[j] = inv[j] /\ AmountPaid(j)' = AmountPaid(j)
      BY <1>3, <1>10, <2>2
    <3>2. Owes(inv[j], AmountPaid(j))' = Owes(inv[j], AmountPaid(j))
      BY ONLY <3>1 DEF Owes, BalanceDue
    <3> QED
      BY <2>1, <3>2
  <2>3. CASE j = i /\ inv'[i].status \in AR_STATUSES /\ inv'[i].deleted = FALSE
    <3>1. Owes(inv[i], AmountPaid(i))' = BalanceDue(inv[i], AmountPaid(i) + added)
      BY <1>7, <2>3 DEF Owes
    <3>2. inv[i].status \in AR_STATUSES \cup {"PAID"}
      BY <1>1, <1>2, <1>3, <1>8, <1>9, <2>3 DEF InvRow, InvStatus, AR_STATUSES
    <3>3. inv[i].deleted = FALSE
      BY <1>2, <1>3, <2>3
    <3>4. BalanceDue(inv[i], AmountPaid(i)) = Owes(inv[i], AmountPaid(i))
      BY <1>1, <3>2, <3>3, <1>14 DEF Owes, Settled, AR_STATUSES
    <3> QED
      BY <1>7, <2>3, <3>1, <3>4
  <2>4. CASE j = i /\ ~(inv'[i].status \in AR_STATUSES /\ inv'[i].deleted = FALSE)
    <3>1. Owes(inv[i], AmountPaid(i))' = 0
      BY <2>4 DEF Owes
    <3> QED
      BY <2>1, <2>4, <3>1
  <2> QED
    BY <2>2, <2>3, <2>4
<1> QED
  BY <1>12, <1>13, <1>14, FallGate DEF IInv

\* The actions on cheques.
LEMMA PdcGate ==
  ASSUME IInv, GInv, TypeOK', NEW p \in Pay, DepositPdc(p) \/ ReturnPdc(p) \/ ClearPdc(p)
  PROVE  GInv'
<1> DEFINE deposited == [pay[p] EXCEPT !.pdc = "DEPOSITED"]
           returned == [pay[p] EXCEPT !.pdc = "RETURNED", !.status = "CANCELLED"]
           cleared == [pay[p] EXCEPT !.pdc = "CLEARED", !.status = "SUCCESS"]
           i == pay[p].inv
<1>1. /\ pay[p] # None /\ pay[p] \in PayRow /\ pay[p].status = "PENDING"
      /\ UNCHANGED <<ops, txn>>
  BY RowTypes DEF DepositPdc, ReturnPdc, ClearPdc, PdcReady, IInv
<1>2. \A row \in {deposited, returned, cleared} :
        row \in PayRow /\ row.inv = i /\ row.amount = pay[p].amount
  BY <1>1 DEF PayRow, PayStatus, PdcStatus
<1>3. deposited.status = "PENDING" /\ returned.status = "CANCELLED" /\ cleared.status = "SUCCESS"
  BY <1>1 DEF PayRow
<1>4. i \in Inv /\ inv[i] \in InvRow
  BY <1>1, RowTypes DEF PayRow, IInv
<1>5. CASE DepositPdc(p) \/ ReturnPdc(p)
  <2>1. /\ pay' = [pay EXCEPT ![p] = deposited] \/ pay' = [pay EXCEPT ![p] = returned]
        /\ inv' = inv
    BY <1>5 DEF DepositPdc, ReturnPdc, IInv, TypeOK
  <2> HIDE DEF deposited, returned, cleared
  <2>2. PICK row \in {deposited, returned} : pay' = [pay EXCEPT ![p] = row]
    BY <2>1
  <2>3. row \in PayRow /\ row.inv = i /\ row.status # "SUCCESS"
    BY <1>2, <1>3
  <2>4. inv' = [inv EXCEPT ![row.inv] = [inv[row.inv] EXCEPT !.status = inv[row.inv].status]]
    BY <1>4, <2>1, <2>3 DEF IInv, TypeOK, InvRow
  <2> QED
    BY <1>1, <2>2, <2>3, <2>4, ChequeGate
<1>6. CASE ClearPdc(p)
  <2>1. /\ pay' = [pay EXCEPT ![p] = cleared]
        /\ inv' = [inv EXCEPT ![i] = [inv[i] EXCEPT !.status =
                     DetermineStatus(i, inv[i], AmountPaid(i) + pay[p].amount)]]
        /\ pay[p].amount <= BalanceDue(inv[i], AmountPaid(i))
    BY <1>6 DEF ClearPdc, IInv, TypeOK
  <2> HIDE DEF deposited, returned, cleared
  <2>2. /\ cleared \in PayRow /\ cleared.inv = i /\ cleared.amount = pay[p].amount
        /\ cleared.status = "SUCCESS"
    BY <1>2, <1>3
  <2> QED
    BY <1>1, <2>1, <2>2, ChequeGate
<1> QED
  BY <1>5, <1>6

\* The rows a commit leaves are settled, and void only where it voids.
LEMMA WrittenSettled ==
  ASSUME IInv, TotalsStand, Settled, NEW t \in Txn, NEW e \in RequestRow, Writes(t, e)
  PROVE  Settled' /\ (NeverVoided => NeverVoided')
<1>1. Shape(e) /\ Fits(e) /\ ops' = ops
  BY WrittenRows DEF Writes
<1>2. \A i \in Inv :
        inv'[i].status = IF i \in e.flips THEN "OVERDUE"
                         ELSE IF i = e.inv THEN Put(inv[i].status, e.status)
                         ELSE inv[i].status
  <2> SUFFICES ASSUME NEW i \in Inv
               PROVE  inv'[i].status = IF i \in e.flips THEN "OVERDUE"
                                       ELSE IF i = e.inv THEN Put(inv[i].status, e.status)
                                       ELSE inv[i].status
    OBVIOUS
  <2>1. inv'[i] = Updated(i, e)
    BY WrittenRows
  <2> QED
    BY ONLY <2>1 DEF Updated
<1>3. ASSUME NEW i \in Inv, inv'[i].status = "PAID" PROVE BalanceDue(inv[i], AmountPaid(i))' = 0
  <2>1. AmountPaid(i)' = AmountPaid(i) + (IF i = e.inv THEN PaidBy(e) ELSE 0)
        /\ AmountPaid(i) \in Nat
    BY WrittenSums
  <2>2. CASE i = e.inv /\ e.op \in {"pay", "issue"}
    <3>1. BalanceDue(Updated(i, e), AmountPaid(i) + PaidBy(e)) = 0
      <4>1. Leaves(e) /\ inv'[i] = Updated(i, e)
        BY <1>1, <2>2, WrittenRows DEF Fits
      <4> QED
        BY <1>3, <2>2, <4>1 DEF Leaves
    <3>2. inv'[i] = Updated(i, e) /\ AmountPaid(i)' = AmountPaid(i) + PaidBy(e)
      BY <2>1, <2>2, WrittenRows
    <3> QED
      BY <3>1, <3>2 DEF BalanceDue
  <2>3. CASE ~(i = e.inv /\ e.op \in {"pay", "issue"})
    <3>1. i = e.inv => e.status = Same
      BY <1>1, <1>2, <1>3, <2>3 DEF Shape, Put, AR_STATUSES
    <3>2. inv[i].status = "PAID"
      BY <1>2, <1>3, <3>1 DEF Put
    <3>3. /\ inv'[i].total = inv[i].total
          /\ inv'[i].credited = inv[i].credited /\ inv'[i].debited = inv[i].debited
      BY <2>3, WrittenRows
    <3>4. AmountPaid(i)' = AmountPaid(i)
      BY <2>1, <2>3 DEF PaidBy
    <3> QED
      BY <3>2, <3>3, <3>4 DEF Settled, BalanceDue
  <2> QED
    BY <2>2, <2>3
<1>4. ASSUME NeverVoided, "void" \notin ops, NEW i \in Inv PROVE inv'[i].status # "CANCELLED"
  <2>1. e.status # "CANCELLED"
    BY <1>1, <1>4 DEF Shape, Fits
  <2>2. inv[i].status # "CANCELLED"
    BY <1>4 DEF NeverVoided
  <2> QED
    BY <1>2, <2>1, <2>2 DEF Put
<1> QED
  BY <1>1, <1>3, <1>4 DEF Settled, NeverVoided

\* A commit that neither sends nor issues makes no invoice owe more: what it
\* marks OVERDUE was owed already, or settled.
LEMMA WrittenOwes ==
  ASSUME IInv, TotalsStand, VoidsStand, Settled, NeverVoided,
         NEW t \in Txn, NEW e \in RequestRow, Writes(t, e), e.op \notin {"checked", "issue"},
         NEW i \in Inv
  PROVE  Owes(inv[i], AmountPaid(i))' <= Owes(inv[i], AmountPaid(i))
<1>1. Shape(e) /\ Fits(e)
  BY WrittenRows
<1>2. /\ AmountPaid(i)' = AmountPaid(i) + (IF i = e.inv THEN PaidBy(e) ELSE 0)
      /\ AmountPaid(i) \in Nat /\ PaidBy(e) \in Nat
  BY WrittenSums
<1>3. /\ inv'[i].total = inv[i].total
      /\ inv'[i].credited = inv[i].credited /\ inv'[i].debited = inv[i].debited
  BY WrittenRows
<1>4. inv[i] \in InvRow
  BY RowTypes DEF IInv
<1>5. Owes(inv[i], AmountPaid(i)) \in Nat /\ BalanceDue(inv[i], AmountPaid(i)) \in Nat
  BY <1>2, <1>4, OwesType
<1>6. BalanceDue(inv[i], AmountPaid(i))' <= BalanceDue(inv[i], AmountPaid(i))
  <2>1. AmountPaid(i)' \in Nat /\ AmountPaid(i)' >= AmountPaid(i)
    BY <1>2
  <2>2. inv[i].total \in Nat /\ inv[i].debited \in Nat /\ inv[i].credited \in Nat
    BY <1>4 DEF InvRow
  <2> QED
    BY <1>2, <1>3, <2>1, <2>2 DEF BalanceDue, Monus
<1>7. /\ inv'[i].status = IF i \in e.flips THEN "OVERDUE"
                          ELSE IF i = e.inv THEN Put(inv[i].status, e.status)
                          ELSE inv[i].status
      /\ inv'[i].deleted = IF i = e.inv THEN Put(inv[i].deleted, e.deleted) ELSE inv[i].deleted
  <2>1. inv'[i] = Updated(i, e)
    BY WrittenRows
  <2> QED
    BY ONLY <2>1 DEF Updated
<1>8. CASE inv'[i].status \in AR_STATUSES /\ inv'[i].deleted = FALSE
  <2>1. inv[i].deleted = FALSE
    <3>1. e.deleted \in {Same, TRUE}
      BY <1>1 DEF Shape
    <3> QED
      BY ONLY <1>7, <1>8, <3>1 DEF Put
  <2>2. inv[i].status \in AR_STATUSES \cup {"PAID"}
    <3>1. CASE i \in e.flips
      <4>1. "age" \in ops /\ inv[i].status \notin {"NONE", "DRAFT"}
        BY <1>1, <3>1 DEF Fits
      <4>2. inv[i].status # "CANCELLED"
        BY <4>1 DEF VoidsStand, NeverVoided
      <4> QED
        BY <1>4, <4>1, <4>2 DEF InvRow, InvStatus, AR_STATUSES
    <3>2. CASE i \notin e.flips /\ i = e.inv /\ e.op = "pay"
      <4>1. Leaves(e) /\ inv[i].status # "NONE"
        BY <1>1, <3>2 DEF Fits
      <4>2. inv[i].status \notin {"DRAFT", "CANCELLED"}
        BY <1>7, <1>8, <3>2, <4>1 DEF Leaves, Put, AR_STATUSES
      <4> QED
        BY <1>4, <4>1, <4>2 DEF InvRow, InvStatus, AR_STATUSES
    <3>3. CASE i \notin e.flips /\ ~(i = e.inv /\ e.op = "pay")
      <4>1. i = e.inv => e.status \in {Same, "CANCELLED"}
        BY <1>1, <3>3 DEF Shape
      <4>2. inv'[i].status = inv[i].status
        BY <1>7, <1>8, <3>3, <4>1 DEF Put, AR_STATUSES
      <4> QED
        BY <1>8, <4>2
    <3> QED
      BY <3>1, <3>2, <3>3
  <2>3. Owes(inv[i], AmountPaid(i))' = BalanceDue(inv[i], AmountPaid(i))'
    BY <1>8 DEF Owes
  <2>4. Owes(inv[i], AmountPaid(i)) = BalanceDue(inv[i], AmountPaid(i))
    BY <2>1, <2>2 DEF Owes, Settled, AR_STATUSES
  <2> QED
    BY <1>6, <2>3, <2>4
<1>9. CASE ~(inv'[i].status \in AR_STATUSES /\ inv'[i].deleted = FALSE)
  <2>1. Owes(inv[i], AmountPaid(i))' = 0
    BY <1>9 DEF Owes
  <2> QED
    BY <1>5, <2>1
<1> QED
  BY <1>8, <1>9

\* The commit of a send or an issue, which may raise what is owed, holds the
\* client: no other send has been checked meanwhile.
LEMMA CommitGate == ASSUME IInv, GInv, NEW t \in Txn, Commit(t) PROVE GInv'
<1>1. PICK e \in RequestRow : txn[t] = e /\ e.op # "send"
  BY RowTypes DEF Commit, IInv
<1>2. txn' = [txn EXCEPT ![t] = None] /\ ops' = ops
  BY DEF Commit
<1>3. \A u \in Txn : txn'[u] # None => u # t /\ txn'[u] = txn[u]
  BY <1>2 DEF IInv, TypeOK
<1>4. CASE KeyConflict(e)
  <2>1. UNCHANGED <<ops, inv, pay>>
    BY <1>1, <1>4 DEF Commit
  <2> QED
    BY <1>3, <2>1, RestGate
<1>5. CASE ~KeyConflict(e)
  <2>1. Writes(t, e)
    BY <1>1, <1>5 DEF Commit, Writes
  <2>2. TypeOK /\ TypeOK' /\ Shape(e)
    BY <2>1, WrittenType, WrittenRows DEF IInv
  <2>3. CASE e.op \notin {"checked", "issue"}
    BY <1>2, <1>3, <2>1, <2>2, <2>3, FallGate, WrittenSettled, WrittenOwes
  <2>4. CASE e.op \in {"checked", "issue"}
    <3>1. \A u \in Txn : ~(txn'[u] # None /\ txn'[u].op = "checked")
      <4> SUFFICES ASSUME NEW u \in Txn, txn'[u] # None, txn'[u].op = "checked" PROVE FALSE
        OBVIOUS
      <4>1. u # t /\ Open(u) /\ txn[u].op = "checked"
        BY <1>3 DEF Open
      <4>2. Client \in txn[u].locks
        BY <4>1 DEF IInv, RequestsFit, Shape
      <4>3. Client \in e.locks
        BY <2>2, <2>4 DEF Shape
      <4>4. txn[u].locks \cap txn[t].locks = {}
        BY <1>1, <4>1 DEF IInv, Apart, Open
      <4> QED
        BY <1>1, <4>2, <4>3, <4>4
    <3>2. Admitted'
      BY <3>1 DEF Admitted, Open
    <3>3. TotalsStand' /\ VoidsStand' => TotalsStand /\ VoidsStand
      BY <1>2 DEF TotalsStand, VoidsStand
    <3> QED
      BY <2>1, <3>2, <3>3, WrittenSettled DEF GInv
  <2> QED
    BY <2>3, <2>4
<1> QED
  BY <1>4, <1>5

\* The gate holds at first, and after every step.
LEMMA InitGate == Init => GInv
BY DEF Init, GInv, Settled, NeverVoided, Admitted, Open

LEMMA StepGate == IInv /\ IInv' /\ GInv /\ [Next]_vars => GInv'
<1> SUFFICES ASSUME IInv, IInv', GInv, [Next]_vars PROVE GInv'
  OBVIOUS
<1>1. TypeOK /\ TypeOK'
  BY DEF IInv
<1>2. ASSUME UNCHANGED <<ops, inv, pay, txn>> PROVE GInv'
  BY <1>2, RestGate
<1>3. ASSUME NEW t \in Txn, Begin(t) \/ SendCheck(t) \/ Commit(t) PROVE GInv'
  BY ONLY <1>3, IInv, GInv, BeginGate, SendCheckGate, CommitGate
<1>4. ASSUME NEW t \in Txn, Abort(t) PROVE GInv'
  <2>1. txn' = [txn EXCEPT ![t] = None] /\ UNCHANGED <<ops, inv, pay>>
    BY <1>4 DEF Abort, rows
  <2>2. \A u \in Txn : txn'[u] # None => txn'[u] = txn[u]
    BY <1>1, <2>1 DEF TypeOK
  <2> QED
    BY <2>1, <2>2, RestGate
<1>5. ASSUME NEW i \in Inv, NEW total \in Totals, CreateInvoice(i, total) PROVE GInv'
  BY <1>1, <1>5, CreateInvoiceGate
<1>6. ASSUME NEW p \in Pay, DepositPdc(p) \/ ReturnPdc(p) \/ ClearPdc(p) PROVE GInv'
  BY <1>1, <1>6, PdcGate
<1>7. ASSUME NEW k \in Key, ExpireKey(k) PROVE GInv'
  BY <1>2, <1>7 DEF ExpireKey
<1>8. ASSUME NEW n \in Note, NEW kind \in {"CN", "TDN"}, NEW i \in Inv, NEW a \in Amounts,
             CreateNote(n, kind, i, a)
      PROVE  GInv'
  BY <1>2, <1>8 DEF CreateNote
<1>9. ASSUME NEW n \in Note, DeleteNote(n) PROVE GInv'
  BY <1>2, <1>9 DEF DeleteNote
<1>10. ASSUME NEW i \in Inv, GrowOlder(i) PROVE GInv'
  BY <1>2, <1>10 DEF GrowOlder, rows
<1>11. CASE UNCHANGED vars
  BY <1>2, <1>11 DEF vars, rows
<1> QED
  BY <1>3, <1>4, <1>5, <1>6, <1>7, <1>8, <1>9, <1>10, <1>11 DEF Next

\* An invoice leaves DRAFT for good with the commit of a checked send only.
LEMMA SentByCheck ==
  ASSUME IInv, [Next]_vars, NEW i \in Inv, inv[i].status = "DRAFT", inv'[i].status \in AR_STATUSES
  PROVE  \E t \in Txn : Open(t) /\ txn[t].op = "checked"
<1>1. inv' # inv
  BY DEF AR_STATUSES
<1>2. ASSUME NEW t \in Txn, Commit(t) PROVE Open(t) /\ txn[t].op = "checked"
  <2>1. PICK e \in RequestRow : txn[t] = e /\ e.op # "send"
    BY <1>2, RowTypes DEF Commit, IInv
  <2>2. Writes(t, e)
    BY <1>1, <1>2, <2>1 DEF Commit, Writes
  <2>3. Shape(e) /\ Fits(e) /\ inv'[i] = Updated(i, e)
    BY <2>2, WrittenRows
  <2>4. i \notin e.flips
    BY <2>3 DEF Fits
  <2>5. i = e.inv /\ e.status \in AR_STATUSES
    BY <2>3, <2>4 DEF Updated, Put, AR_STATUSES
  <2>6. e.status # Same
    BY <2>5 DEF AR_STATUSES, InvStatus
  <2>7. e.op \notin {"pay", "issue"}
    BY <2>3, <2>5, <2>6 DEF Fits, Leaves
  <2>8. e.op = "checked"
    BY <2>3, <2>5, <2>6, <2>7 DEF Shape, AR_STATUSES
  <2> QED
    BY <1>2, <2>1, <2>8 DEF Commit
<1>3. ASSUME NEW p \in Pay, DepositPdc(p) \/ ReturnPdc(p) \/ ClearPdc(p) PROVE FALSE
  <2>1. ClearPdc(p)
    BY <1>1, <1>3 DEF DepositPdc, ReturnPdc
  <2> DEFINE j == pay[p].inv
             st == DetermineStatus(j, inv[j], AmountPaid(j) + pay[p].amount)
  <2>2. inv' = [inv EXCEPT ![j].status = st]
    BY <2>1 DEF ClearPdc
  <2>3. inv[i] \in InvRow /\ i \in DOMAIN inv
    BY DEF IInv, TypeOK
  <2>4. inv[j].status = "DRAFT" => st = "DRAFT"
    BY DEF DetermineStatus
  <2> HIDE DEF st, j
  <2> QED
    BY <2>2, <2>3, <2>4 DEF InvRow, AR_STATUSES
<1>4. ASSUME NEW j \in Inv, NEW total \in Totals, CreateInvoice(j, total) PROVE FALSE
  BY <1>4, RowTypes DEF CreateInvoice, IInv, TypeOK, InvRow, AR_STATUSES
<1>5. ASSUME NEW t \in Txn, Begin(t) PROVE inv' = inv
  <2>1. ASSUME NEW j \in Inv,
               \/ SendLoad(t, j) \/ DeleteInvoice(t, j) \/ VoidInvoice(t, j)
               \/ \E total \in Totals : EditInvoice(t, j, total)
        PROVE  inv' = inv
    BY <2>1 DEF SendLoad, DeleteInvoice, VoidInvoice, EditInvoice, rows
  <2>2. ASSUME NEW S, SweepOverdue(t, S) PROVE inv' = inv
    BY <2>2 DEF SweepOverdue, rows
  <2>3. ASSUME NEW j, NEW k, NEW a, NEW m, NEW p, RecordPayment(t, j, k, a, m, p) PROVE inv' = inv
    BY <2>3 DEF RecordPayment, rows
  <2>4. ASSUME NEW p, BouncePdc(t, p) PROVE inv' = inv
    BY <2>4 DEF BouncePdc, rows
  <2>5. ASSUME NEW n, IssueCreditNote(t, n) \/ IssueDebitNote(t, n) PROVE inv' = inv
    BY <2>5 DEF IssueCreditNote, IssueDebitNote, rows
  <2> QED
    BY ONLY <1>5, <2>1, <2>2, <2>3, <2>4, <2>5 DEF Begin, ReadClient
<1>6. ASSUME NEW t \in Txn, SendCheck(t) \/ Abort(t) PROVE inv' = inv
  BY <1>6 DEF SendCheck, Abort, rows
<1>7. ASSUME \/ \E k \in Key : ExpireKey(k)
             \/ \E n \in Note, kind \in {"CN", "TDN"}, j \in Inv, a \in Amounts :
                  CreateNote(n, kind, j, a)
             \/ \E n \in Note : DeleteNote(n)
             \/ \E j \in Inv : GrowOlder(j)
             \/ UNCHANGED vars
      PROVE  inv' = inv
  BY <1>7 DEF ExpireKey, CreateNote, DeleteNote, GrowOlder, vars, rows
<1> QED
  BY ONLY [Next]_vars, <1>1, <1>2, <1>3, <1>4, <1>5, <1>6, <1>7 DEF Next

\* The credit HOLD is a gate: whatever happens between the check of a send and
\* its commit, what the client then owes is within the limit, unless an edit
\* changes a total or a stale overdue flip undoes a void.
THEOREM HoldIsAGate == Spec => HoldGate
<1> DEFINE Gate == TotalsStand /\ VoidsStand =>
                     \A i \in Inv : inv[i].status = "DRAFT" /\ inv'[i].status \in AR_STATUSES =>
                       Exposure(None, inv[i], 0) <= Limit
<1>1. Init => IInv /\ GInv
  BY InitIInv, InitGate
<1>2. IInv /\ GInv /\ [Next]_vars => IInv' /\ GInv'
  BY StepIInv, StepGate
<1>3. IInv /\ GInv /\ [Next]_vars => Gate
  <2> SUFFICES ASSUME IInv, GInv, [Next]_vars, TotalsStand, VoidsStand, NEW i \in Inv,
                      inv[i].status = "DRAFT", inv'[i].status \in AR_STATUSES
               PROVE  Exposure(None, inv[i], 0) <= Limit
    OBVIOUS
  <2>1. Owing(inv, pay) <= Limit
    BY SentByCheck DEF GInv, Admitted
  <2>2. Exposure(None, inv[i], 0) = Owing(inv, pay)
    BY ExposureRead DEF IInv
  <2> QED
    BY <2>1, <2>2
<1>4. IInv /\ GInv /\ [Next]_vars => [Gate]_vars
  BY <1>3
<1> QED
  BY <1>1, <1>2, <1>4, PTL DEF Spec, HoldGate

=============================================================================
