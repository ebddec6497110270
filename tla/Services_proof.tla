--------------------------- MODULE Services_proof ---------------------------
(***************************************************************************)
(* The services that the documents share, for every set of requests: the   *)
(* statements and reports made from invoices, payments and notes, for      *)
(* every set of documents, both parties and every day; the numbers that    *)
(* DocumentNumber issues, in every family and for every retry limit of two *)
(* or more; and what Messaging sends and receives, for all messages, keys  *)
(* and clients.                                                            *)
(***************************************************************************)
EXTENDS DocumentNumber, Messaging, Statements, SumTheorems

-----------------------------------------------------------------------------
(* Statements and reports: the inductive invariant of the documents.       *)

NoDebitNote == \A n \in Note : note[n] # Absent => note[n].kind # "TDN"
VoidedUncredited == \A b \in Voided : NotesOf(b, Less) = {}

\* Payments and notes are made out to invoices that were booked; a supplier's
\* stand.  Each took effect on a day that has come.
BooksFit ==
    /\ \A b \in Bill : Has(b, INCLUDE_STATUSES) => bill[b].booked \in 1 .. today
    /\ \A p \in Pay : pay[p] # Absent =>
         /\ Has(pay[p].bill, INCLUDE_STATUSES \cup {"CANCELLED"})
         /\ ~Customer => Has(pay[p].bill, INCLUDE_STATUSES)
         /\ pay[p].booked \in 1 .. today
    /\ \A n \in Note : note[n] # Absent =>
         /\ Has(note[n].bill, INCLUDE_STATUSES \cup {"CANCELLED"})
         /\ ~Customer => Has(note[n].bill, INCLUDE_STATUSES)
         /\ note[n].kind = "SDN" <=> ~Customer
         /\ note[n].status = "ISSUED" => note[n].booked \in 1 .. today

\* PAID owes nothing, and what owes nothing waits for no cheque.
PaidIsSettled ==
    \A b \in Bill :
        /\ Has(b, {"PAID"}) => BalanceDue(b) = 0
        /\ Customer /\ Has(b, {"OPEN"}) /\ BalanceDue(b) = 0 => PaymentsOf(b, "PENDING") = {}

\* What is parked on the client is what its invoices were overpaid by, and only
\* credit notes overpay one.
Surplus(b) == IF bill[b] = Absent THEN 0 ELSE CreditOwing(b)
ParkedIsSurplus ==
    NoDebitNote =>
        /\ \A b \in Bill : bill[b] # Absent =>
              PaidFor(b) + (IF Customer THEN 0 ELSE Noted(b, Less)) <= bill[b].total
        /\ VoidedUncredited => balance = SumFunction([b \in Bill |-> Surplus(b)])

\* What an invoice owed after day d, by the days its documents were booked.
BookedBy(d, entries, table) == {r \in entries : table[r].booked <= d}
AsBooked(b, d) ==
    IF bill[b].booked > d THEN 0
    ELSE Monus(bill[b].total + Written(BookedBy(d, NotesOf(b, More), note)),
               Written(BookedBy(d, NotesOf(b, Less), note))
                 + Paid(BookedBy(d, PaymentsOf(b, "SUCCESS"), pay)))

\* The past is what was booked by then.
PastIsBooked ==
    Customer => \A d \in 1 .. today - 1 : \A b \in Bill :
        /\ bill[b] = Absent \/ Has(b, {"DRAFT"}) => stood[d][b] = 0
        /\ Has(b, INCLUDE_STATUSES) => stood[d][b] = AsBooked(b, d)

BooksInv ==
    StatementsTypeOK /\ BooksFit /\ PaidIsSettled /\ ParkedIsSurplus /\ PastIsBooked

-----------------------------------------------------------------------------
(* Sums of payments and notes.                                             *)

\* Paid and Written, of any table.
Amount(table, entries) == SumFunction([r \in entries |-> table[r].amount])

\* The sums of the model as sums over a table.
LEMMA AmountsAre ==
  ASSUME NEW b, NEW s, NEW kinds
  PROVE  /\ PaidFor(b) = Amount(pay, PaymentsOf(b, "SUCCESS"))
         /\ PaidFor(b)' = Amount(pay', PaymentsOf(b, "SUCCESS")')
         /\ Noted(b, kinds) = Amount(note, NotesOf(b, kinds))
         /\ Noted(b, kinds)' = Amount(note', NotesOf(b, kinds)')
BY DEF PaidFor, Noted, Paid, Written, Amount

\* A sum of amounts is a natural, and nothing adds up to 0.
LEMMA AmountNat ==
  ASSUME NEW table, NEW S, IsFiniteSet(S), \A r \in S : table[r].amount \in Nat
  PROVE  Amount(table, S) \in Nat /\ (S = {} => Amount(table, S) = 0)
<1> DEFINE f == [r \in S |-> table[r].amount]
<1>1. DOMAIN f = S /\ \A r \in S : f[r] \in Nat
  OBVIOUS
<1> HIDE DEF f
<1>2. SumFunction(f) \in Nat /\ (S = {} => SumFunction(f) = 0)
  BY <1>1, SumNat, SumEmpty
<1> QED
  BY <1>2 DEF Amount, f

\* One row changes.
LEMMA OneAmount ==
  ASSUME NEW table, NEW new, NEW S, IsFiniteSet(S), NEW T, IsFiniteSet(T), NEW x,
         S \ {x} = T \ {x}, \A r \in S \ {x} : new[r] = table[r],
         \A r \in S : table[r].amount \in Nat, \A r \in T : new[r].amount \in Nat
  PROVE  Amount(new, T) = Amount(table, S) - (IF x \in S THEN table[x].amount ELSE 0)
                                           + (IF x \in T THEN new[x].amount ELSE 0)
<1> DEFINE f == [r \in S |-> table[r].amount]
           g == [r \in T |-> new[r].amount]
<1>1. DOMAIN f = S /\ DOMAIN g = T
  OBVIOUS
<1>2. (\A r \in S : f[r] \in Int) /\ (\A r \in T : g[r] \in Int)
  OBVIOUS
<1>3. \A r \in S \ {x} : g[r] = f[r]
  OBVIOUS
<1>4. /\ At(f, x) = (IF x \in S THEN table[x].amount ELSE 0)
      /\ At(g, x) = (IF x \in T THEN new[x].amount ELSE 0)
  BY DEF At
<1> HIDE DEF f, g
<1>5. SumFunction(g) = SumFunction(f) - At(f, x) + At(g, x)
  BY <1>1, <1>2, <1>3, SumDiffers
<1> QED
  BY <1>4, <1>5 DEF Amount, f, g

\* Rows that do not change.
LEMMA SameAmount ==
  ASSUME NEW table, NEW new, NEW S, IsFiniteSet(S), \A r \in S : new[r] = table[r]
  PROVE  Amount(new, S) = Amount(table, S)
<1> DEFINE f == [r \in S |-> table[r].amount]
           g == [r \in S |-> new[r].amount]
<1>1. DOMAIN f = S /\ DOMAIN g = S /\ \A r \in S : g[r] = f[r]
  OBVIOUS
<1> HIDE DEF f, g
<1>2. SumFunction(g) = SumFunction(f)
  BY <1>1, SumSame
<1> QED
  BY <1>2 DEF Amount, f, g

PayTables == [Pay -> PayRow \cup {Absent}]
NoteTables == [Note -> NoteRow \cup {Absent}]

\* The rows that count, of any table.
PaidRows(table, b, s) == {p \in Pay : table[p] # Absent /\ table[p].bill = b /\ table[p].status = s}
NoteRows(table, b, kinds) ==
    {n \in Note : /\ table[n] # Absent /\ table[n].bill = b
                  /\ table[n].kind \in kinds /\ table[n].status = "ISSUED"}

\* The rows of an invoice, as those of a table.
LEMMA RowsAre ==
  ASSUME NEW b, NEW s, NEW kinds
  PROVE  /\ PaymentsOf(b, s) = PaidRows(pay, b, s) /\ PaymentsOf(b, s)' = PaidRows(pay', b, s)
         /\ NotesOf(b, kinds) = NoteRows(note, b, kinds)
         /\ NotesOf(b, kinds)' = NoteRows(note', b, kinds)
BY DEF PaymentsOf, PaidRows, NotesOf, NoteRows

\* Amounts are positive.
LEMMA AmountIsNat == \A a \in Amounts : a \in Nat /\ a > 0
BY AmountsAssumption

\* An invoice has finitely many rows, each with its amount.
LEMMA RowsFinite ==
  ASSUME NEW table, NEW b, NEW s, NEW kinds
  PROVE  /\ table \in PayTables => /\ IsFiniteSet(PaidRows(table, b, s))
                                   /\ \A p \in PaidRows(table, b, s) : table[p].amount \in Nat
         /\ table \in NoteTables => /\ IsFiniteSet(NoteRows(table, b, kinds))
                                    /\ \A n \in NoteRows(table, b, kinds) : table[n].amount \in Nat
<1>1. IsFiniteSet(PaidRows(table, b, s)) /\ IsFiniteSet(NoteRows(table, b, kinds))
  <2>1. PaidRows(table, b, s) \in SUBSET Pay /\ NoteRows(table, b, kinds) \in SUBSET Note
    BY DEF PaidRows, NoteRows
  <2> QED
    BY <2>1, RowsAssumption, FS_Subset
<1>2. table \in PayTables => \A p \in PaidRows(table, b, s) : table[p].amount \in Nat
  BY AmountIsNat DEF PaidRows, PayTables, PayRow
<1>3. table \in NoteTables => \A n \in NoteRows(table, b, kinds) : table[n].amount \in Nat
  BY AmountIsNat DEF NoteRows, NoteTables, NoteRow
<1> QED
  BY <1>1, <1>2, <1>3

\* What a payment or a note of these kinds counts.
Successful(row) == IF row # Absent /\ row.status = "SUCCESS" THEN row.amount ELSE 0
Effective(row, kinds) ==
    IF row # Absent /\ row.status = "ISSUED" /\ row.kind \in kinds THEN row.amount ELSE 0

\* A step of one payment of the invoice b.
LEMMA PaymentStep ==
  ASSUME StatementsTypeOK, StatementsTypeOK', NEW p \in Pay, NEW b \in Bill,
         \A q \in Pay \ {p} : pay'[q] = pay[q],
         pay[p] = Absent \/ pay[p].bill = b, pay'[p] # Absent, pay'[p].bill = b, UNCHANGED note
  PROVE  /\ \A c \in Bill \ {b} : /\ PaidFor(c)' = PaidFor(c)
                                  /\ PaymentsOf(c, "PENDING")' = PaymentsOf(c, "PENDING")
         /\ PaidFor(b)' = PaidFor(b) - Successful(pay[p]) + Successful(pay'[p])
         /\ PaymentsOf(b, "PENDING")' \subseteq PaymentsOf(b, "PENDING") \cup {p}
         /\ pay'[p].status # "PENDING" =>
              PaymentsOf(b, "PENDING")' \subseteq PaymentsOf(b, "PENDING")
         /\ \A c \in Bill : \A kinds : Noted(c, kinds)' = Noted(c, kinds)
<1>1. pay \in PayTables /\ pay' \in PayTables
  BY DEF StatementsTypeOK, PayTables
<1>2. ASSUME NEW c \in Bill \ {b}
      PROVE  PaidFor(c)' = PaidFor(c) /\ PaymentsOf(c, "PENDING")' = PaymentsOf(c, "PENDING")
  <2>1. \A s : PaidRows(pay', c, s) = PaidRows(pay, c, s) /\ p \notin PaidRows(pay, c, s)
    BY DEF PaidRows
  <2>2. \A q \in PaidRows(pay, c, "SUCCESS") : pay'[q] = pay[q]
    BY <2>1 DEF PaidRows
  <2>3. Amount(pay', PaidRows(pay, c, "SUCCESS")) = Amount(pay, PaidRows(pay, c, "SUCCESS"))
    BY <1>1, <2>2, RowsFinite, SameAmount
  <2> QED
    BY <2>1, <2>3, RowsAre, AmountsAre
<1>3. PaidFor(b)' = PaidFor(b) - Successful(pay[p]) + Successful(pay'[p])
  <2> DEFINE S == PaidRows(pay, b, "SUCCESS")
             T == PaidRows(pay', b, "SUCCESS")
  <2>1. S \ {p} = T \ {p} /\ \A q \in S \ {p} : pay'[q] = pay[q]
    BY DEF PaidRows
  <2>2. /\ Successful(pay[p]) = IF p \in S THEN pay[p].amount ELSE 0
        /\ Successful(pay'[p]) = IF p \in T THEN pay'[p].amount ELSE 0
    BY DEF PaidRows, Successful
  <2>3. /\ IsFiniteSet(S) /\ IsFiniteSet(T)
        /\ \A q \in S : pay[q].amount \in Nat
        /\ \A q \in T : pay'[q].amount \in Nat
    BY <1>1, RowsFinite
  <2>4. PaidFor(b) = Amount(pay, S) /\ PaidFor(b)' = Amount(pay', T)
    BY RowsAre, AmountsAre
  <2> HIDE DEF S, T
  <2> QED
    BY <2>1, <2>2, <2>3, <2>4, OneAmount
<1>4. /\ PaymentsOf(b, "PENDING")' \subseteq PaymentsOf(b, "PENDING") \cup {p}
      /\ pay'[p].status # "PENDING" => PaymentsOf(b, "PENDING")' \subseteq PaymentsOf(b, "PENDING")
  BY DEF PaymentsOf
<1>5. \A c \in Bill : \A kinds : Noted(c, kinds)' = Noted(c, kinds)
  BY DEF Noted, NotesOf, Written
<1> QED
  BY <1>2, <1>3, <1>4, <1>5

\* A step of one note of the invoice b.
LEMMA NoteStep ==
  ASSUME StatementsTypeOK, StatementsTypeOK', NEW n \in Note, NEW b \in Bill,
         \A q \in Note \ {n} : note'[q] = note[q],
         note[n] = Absent \/ note[n].bill = b, note'[n] # Absent, note'[n].bill = b,
         UNCHANGED pay
  PROVE  /\ \A c \in Bill \ {b} : \A kinds : Noted(c, kinds)' = Noted(c, kinds)
         /\ \A kinds : Noted(b, kinds)' = Noted(b, kinds) - Effective(note[n], kinds)
                                                          + Effective(note'[n], kinds)
         /\ \A c \in Bill : /\ PaidFor(c)' = PaidFor(c)
                            /\ PaymentsOf(c, "PENDING")' = PaymentsOf(c, "PENDING")
<1>1. note \in NoteTables /\ note' \in NoteTables
  BY DEF StatementsTypeOK, NoteTables
<1>2. ASSUME NEW c \in Bill \ {b}, NEW kinds
      PROVE  Noted(c, kinds)' = Noted(c, kinds)
  <2>1. NoteRows(note', c, kinds) = NoteRows(note, c, kinds) /\ n \notin NoteRows(note, c, kinds)
    BY DEF NoteRows
  <2>2. \A q \in NoteRows(note, c, kinds) : note'[q] = note[q]
    BY <2>1 DEF NoteRows
  <2>3. Amount(note', NoteRows(note, c, kinds)) = Amount(note, NoteRows(note, c, kinds))
    BY <1>1, <2>2, RowsFinite, SameAmount
  <2> QED
    BY <2>1, <2>3, RowsAre, AmountsAre
<1>3. ASSUME NEW kinds
      PROVE  Noted(b, kinds)' = Noted(b, kinds) - Effective(note[n], kinds)
                                                + Effective(note'[n], kinds)
  <2> DEFINE S == NoteRows(note, b, kinds)
             T == NoteRows(note', b, kinds)
  <2>1. S \ {n} = T \ {n} /\ \A q \in S \ {n} : note'[q] = note[q]
    BY DEF NoteRows
  <2>2. /\ Effective(note[n], kinds) = IF n \in S THEN note[n].amount ELSE 0
        /\ Effective(note'[n], kinds) = IF n \in T THEN note'[n].amount ELSE 0
    BY DEF NoteRows, Effective
  <2>3. /\ IsFiniteSet(S) /\ IsFiniteSet(T)
        /\ \A q \in S : note[q].amount \in Nat
        /\ \A q \in T : note'[q].amount \in Nat
    BY <1>1, RowsFinite
  <2>4. Noted(b, kinds) = Amount(note, S) /\ Noted(b, kinds)' = Amount(note', T)
    BY RowsAre, AmountsAre
  <2> HIDE DEF S, T
  <2> QED
    BY <2>1, <2>2, <2>3, <2>4, OneAmount
<1>4. \A c \in Bill : /\ PaidFor(c)' = PaidFor(c)
                      /\ PaymentsOf(c, "PENDING")' = PaymentsOf(c, "PENDING")
  BY DEF PaidFor, PaymentsOf, Paid
<1> QED
  BY <1>2, <1>3, <1>4

-----------------------------------------------------------------------------
(* Any step of the documents.                                              *)

\* An invoice has a total and dates of the calendar.
LEMMA BillFits ==
  ASSUME NEW row \in BillRow
  PROVE  /\ row.total \in Nat /\ row.date \in Days /\ row # Absent
         /\ row.status \in {"DRAFT", "CANCELLED", "OPEN", "PAID"}
BY AmountsAssumption, AbsentAssumption DEF BillRow, INCLUDE_STATUSES

\* Documents that are there are rows of their types,
LEMMA DocFits ==
  ASSUME StatementsTypeOK
  PROVE  /\ \A b \in Bill : bill[b] # Absent => bill[b] \in BillRow
         /\ \A p \in Pay : pay[p] # Absent => pay[p] \in PayRow
         /\ \A n \in Note : note[n] # Absent => note[n] \in NoteRow
         /\ today \in Nat /\ \A d \in 1 .. today - 1 : d \in Days
BY AmountsAssumption DEF StatementsTypeOK, Days

\* and so they are after a step.
LEMMA DocFitsThen ==
  ASSUME StatementsTypeOK'
  PROVE  /\ \A b \in Bill : bill'[b] # Absent => bill'[b] \in BillRow
         /\ \A p \in Pay : pay'[p] # Absent => pay'[p] \in PayRow
         /\ \A n \in Note : note'[n] # Absent => note'[n] \in NoteRow
BY DEF StatementsTypeOK

\* What is counted is natural.
LEMMA Naturals ==
  /\ StatementsTypeOK => \A b \in Bill :
        PaidFor(b) \in Nat /\ Surplus(b) \in Nat /\ \A kinds : Noted(b, kinds) \in Nat
  /\ StatementsTypeOK' => \A b \in Bill :
        PaidFor(b)' \in Nat /\ Surplus(b)' \in Nat /\ \A kinds : Noted(b, kinds)' \in Nat
<1>1. ASSUME StatementsTypeOK, NEW b \in Bill
      PROVE  PaidFor(b) \in Nat /\ Surplus(b) \in Nat /\ \A kinds : Noted(b, kinds) \in Nat
  <2>1. pay \in PayTables /\ note \in NoteTables
    BY <1>1 DEF StatementsTypeOK, PayTables, NoteTables
  <2>2. PaidFor(b) \in Nat /\ \A kinds : Noted(b, kinds) \in Nat
    <3>1. PaidFor(b) = Amount(pay, PaidRows(pay, b, "SUCCESS"))
      BY RowsAre, AmountsAre
    <3>2. \A kinds : Noted(b, kinds) = Amount(note, NoteRows(note, b, kinds))
      BY RowsAre, AmountsAre
    <3> QED
      BY <2>1, <3>1, <3>2, RowsFinite, AmountNat
  <2>3. bill[b] # Absent => bill[b].total \in Nat
    BY <1>1, DocFits, BillFits
  <2> QED
    BY <2>2, <2>3 DEF Surplus, CreditOwing, Owed, Monus
<1>2. ASSUME StatementsTypeOK', NEW b \in Bill
      PROVE  PaidFor(b)' \in Nat /\ Surplus(b)' \in Nat /\ \A kinds : Noted(b, kinds)' \in Nat
  <2>1. pay' \in PayTables /\ note' \in NoteTables
    BY <1>2 DEF StatementsTypeOK, PayTables, NoteTables
  <2>2. PaidFor(b)' \in Nat /\ \A kinds : Noted(b, kinds)' \in Nat
    <3>1. PaidFor(b)' = Amount(pay', PaidRows(pay', b, "SUCCESS"))
      BY RowsAre, AmountsAre
    <3>2. \A kinds : Noted(b, kinds)' = Amount(note', NoteRows(note', b, kinds))
      BY RowsAre, AmountsAre
    <3> QED
      BY <2>1, <3>1, <3>2, RowsFinite, AmountNat
  <2>3. bill'[b] # Absent => bill'[b].total \in Nat
    BY <1>2, DocFitsThen, BillFits
  <2> QED
    BY <2>2, <2>3 DEF Surplus, CreditOwing, Owed, Monus
<1> QED
  BY <1>1, <1>2

\* An invoice that was not booked has no payments and no notes.
LEMMA NoDocuments ==
  ASSUME StatementsTypeOK, BooksFit, NEW b \in Bill, bill[b] = Absent \/ Has(b, {"DRAFT"})
  PROVE  /\ \A s : PaymentsOf(b, s) = {}
         /\ \A kinds : NotesOf(b, kinds) = {} /\ Noted(b, kinds) = 0
         /\ PaidFor(b) = 0
         /\ \A p \in Pay : pay[p] # Absent => pay[p].bill # b
         /\ \A n \in Note : note[n] # Absent => note[n].bill # b
<1>1. /\ \A p \in Pay : pay[p] # Absent => pay[p].bill # b
      /\ \A n \in Note : note[n] # Absent => note[n].bill # b
  BY DEF BooksFit, Has, INCLUDE_STATUSES
<1>2. (\A s : PaymentsOf(b, s) = {}) /\ (\A kinds : NotesOf(b, kinds) = {})
  BY <1>1 DEF PaymentsOf, NotesOf
<1>3. PaidFor(b) = 0 /\ \A kinds : Noted(b, kinds) = 0
  <2>1. \A table : Amount(table, {}) = 0
    BY AmountNat, FS_EmptySet
  <2> QED
    BY <1>2, <2>1, AmountsAre
<1> QED
  BY <1>1, <1>2, <1>3

\* A step of one invoice.
LEMMA OneInvoice ==
  ASSUME BooksInv, StatementsTypeOK', ops' = ops, NEW b \in Bill,
         \A c \in Bill \ {b} : /\ bill'[c] = bill[c] /\ PaidFor(c)' = PaidFor(c)
                               /\ PaymentsOf(c, "PENDING")' = PaymentsOf(c, "PENDING")
                               /\ \A kinds : Noted(c, kinds)' = Noted(c, kinds),
         Has(b, {"PAID"})' => BalanceDue(b)' = 0,
         Customer /\ Has(b, {"OPEN"})' /\ BalanceDue(b)' = 0 => PaymentsOf(b, "PENDING")' = {},
         NoDebitNote' =>
           /\ NoDebitNote
           /\ bill'[b] # Absent =>
                PaidFor(b)' + (IF Customer THEN 0 ELSE Noted(b, Less)') <= bill'[b].total
           /\ VoidedUncredited' =>
                VoidedUncredited /\ balance' = balance - Surplus(b) + Surplus(b)'
  PROVE  PaidIsSettled' /\ ParkedIsSurplus'
<1>1. Customer' = Customer
  BY DEF Customer
<1>2. ASSUME NEW c \in Bill \ {b}
      PROVE  /\ BalanceDue(c)' = BalanceDue(c) /\ Surplus(c)' = Surplus(c)
             /\ \A s : Has(c, s)' <=> Has(c, s)
  BY DEF BalanceDue, Surplus, CreditOwing, Owed, Has
<1>3. PaidIsSettled'
  <2>1. SUFFICES ASSUME NEW c \in Bill
        PROVE  /\ Has(c, {"PAID"})' => BalanceDue(c)' = 0
               /\ Customer /\ Has(c, {"OPEN"})' /\ BalanceDue(c)' = 0 =>
                    PaymentsOf(c, "PENDING")' = {}
    BY <1>1 DEF PaidIsSettled
  <2>2. CASE c = b
    BY <2>2
  <2>3. CASE c # b
    BY <1>2, <2>3 DEF BooksInv, PaidIsSettled
  <2> QED
    BY <2>2, <2>3
<1>4. ASSUME NoDebitNote'
      PROVE  \A c \in Bill : bill'[c] # Absent =>
               PaidFor(c)' + (IF Customer THEN 0 ELSE Noted(c, Less)') <= bill'[c].total
  <2>1. SUFFICES ASSUME NEW c \in Bill, bill'[c] # Absent
        PROVE  PaidFor(c)' + (IF Customer THEN 0 ELSE Noted(c, Less)') <= bill'[c].total
    OBVIOUS
  <2>2. CASE c = b
    BY <1>4, <2>1, <2>2
  <2>3. CASE c # b
    BY <1>4, <2>1, <2>3 DEF BooksInv, ParkedIsSurplus
  <2> QED
    BY <2>2, <2>3
<1>5. ASSUME NoDebitNote', VoidedUncredited'
      PROVE  balance' = SumFunction([c \in Bill |-> Surplus(c)'])
  <2> DEFINE f == [c \in Bill |-> Surplus(c)]
             g == [c \in Bill |-> Surplus(c)']
  <2>1. DOMAIN f = Bill /\ DOMAIN g = Bill
    OBVIOUS
  <2>2. \A c \in Bill : f[c] \in Int /\ g[c] \in Int
    BY Naturals DEF BooksInv
  <2>3. \A c \in Bill \ {b} : g[c] = f[c]
    BY <1>2
  <2>4. f[b] = Surplus(b) /\ g[b] = Surplus(b)'
    OBVIOUS
  <2>5. balance = SumFunction(f) /\ balance' = balance - Surplus(b) + Surplus(b)'
    BY <1>5 DEF BooksInv, ParkedIsSurplus
  <2> HIDE DEF f, g
  <2>6. SumFunction(g) = SumFunction(f) - f[b] + g[b]
    BY <2>1, <2>2, <2>3, RowsAssumption, SumChanges
  <2>7. balance' = SumFunction(g)
    BY <2>4, <2>5, <2>6
  <2> QED
    BY <2>7 DEF g
<1>6. ParkedIsSurplus'
  BY <1>1, <1>4, <1>5 DEF ParkedIsSurplus
<1> QED
  BY <1>3, <1>6

\* Whether a row counted before the day.
Settles(row) == row # Absent /\ row.status = "SUCCESS"
Counts(row) == row # Absent /\ row.status = "ISSUED"

\* What is booked today leaves the past as it was.
LEMMA PastStays ==
  ASSUME BooksInv, StatementsTypeOK', UNCHANGED <<ops, today, stood>>,
         \A b \in Bill :
           \/ (bill'[b] = Absent \/ Has(b, {"DRAFT"})') /\ (bill[b] = Absent \/ Has(b, {"DRAFT"}))
           \/ /\ Has(b, INCLUDE_STATUSES)' /\ Has(b, INCLUDE_STATUSES)
              /\ bill'[b].total = bill[b].total /\ bill'[b].booked = bill[b].booked
           \/ Has(b, INCLUDE_STATUSES)' /\ Has(b, {"DRAFT"}) /\ bill'[b].booked = today
           \/ Has(b, {"CANCELLED"})',
         Customer => \A p \in Pay :
           \/ pay'[p] = pay[p]
           \/ ~Settles(pay[p]) /\ (Settles(pay'[p]) => pay'[p].booked = today),
         \A n \in Note :
           \/ note'[n] = note[n]
           \/ ~Counts(note[n]) /\ (Counts(note'[n]) => note'[n].booked = today)
  PROVE  PastIsBooked'
<1>1. SUFFICES ASSUME Customer, NEW d \in 1 .. today - 1, NEW b \in Bill
      PROVE  /\ bill'[b] = Absent \/ Has(b, {"DRAFT"})' => stood[d][b] = 0
             /\ Has(b, INCLUDE_STATUSES)' => stood[d][b] = AsBooked(b, d)'
  BY DEF PastIsBooked, Customer
<1>2. d < today /\ today \in Nat /\ d \in Nat
  BY DocFits DEF BooksInv
<1>3. bill'[b] = Absent \/ Has(b, {"DRAFT"})' => stood[d][b] = 0
  <2>1. Has(b, {"DRAFT"})' \/ bill'[b] = Absent =>
           ~Has(b, INCLUDE_STATUSES)' /\ ~Has(b, {"CANCELLED"})'
    BY DEF Has, INCLUDE_STATUSES
  <2> QED
    BY <1>1, <2>1 DEF BooksInv, PastIsBooked
<1>4. ASSUME Has(b, INCLUDE_STATUSES)' PROVE stood[d][b] = AsBooked(b, d)'
  <2>1. ~(bill'[b] = Absent \/ Has(b, {"DRAFT"})') /\ ~Has(b, {"CANCELLED"})'
    BY <1>4 DEF Has, INCLUDE_STATUSES
  <2>2. CASE Has(b, {"DRAFT"}) /\ bill'[b].booked = today
    <3>1. stood[d][b] = 0
      BY <1>1, <2>2 DEF BooksInv, PastIsBooked
    <3> QED
      BY <1>2, <2>2, <3>1 DEF AsBooked
  <2>3. CASE /\ Has(b, INCLUDE_STATUSES)
             /\ bill'[b].total = bill[b].total /\ bill'[b].booked = bill[b].booked
    <3>1. stood[d][b] = AsBooked(b, d)
      BY <1>1, <2>3 DEF BooksInv, PastIsBooked
    <3>2. /\ BookedBy(d, PaymentsOf(b, "SUCCESS"), pay)' =
               BookedBy(d, PaymentsOf(b, "SUCCESS"), pay)
          /\ \A p \in BookedBy(d, PaymentsOf(b, "SUCCESS"), pay) : pay'[p] = pay[p]
      BY <1>1, <1>2 DEF BookedBy, PaymentsOf, Settles
    <3>3. ASSUME NEW kinds
          PROVE  /\ BookedBy(d, NotesOf(b, kinds), note)' = BookedBy(d, NotesOf(b, kinds), note)
                 /\ \A n \in BookedBy(d, NotesOf(b, kinds), note) : note'[n] = note[n]
      BY <1>2 DEF BookedBy, NotesOf, Counts
    <3>4. /\ IsFiniteSet(BookedBy(d, PaymentsOf(b, "SUCCESS"), pay))
          /\ \A kinds : IsFiniteSet(BookedBy(d, NotesOf(b, kinds), note))
      <4>1. /\ BookedBy(d, PaymentsOf(b, "SUCCESS"), pay) \in SUBSET Pay
            /\ \A kinds : BookedBy(d, NotesOf(b, kinds), note) \in SUBSET Note
        BY DEF BookedBy, PaymentsOf, NotesOf
      <4> QED
        BY <4>1, RowsAssumption, FS_Subset
    <3>5. Paid(BookedBy(d, PaymentsOf(b, "SUCCESS"), pay))' =
            Paid(BookedBy(d, PaymentsOf(b, "SUCCESS"), pay))
      BY <3>2, <3>4, SameAmount DEF Paid, Amount
    <3>6. \A kinds : Written(BookedBy(d, NotesOf(b, kinds), note))' =
            Written(BookedBy(d, NotesOf(b, kinds), note))
      BY <3>3, <3>4, SameAmount DEF Written, Amount
    <3>7. AsBooked(b, d)' = AsBooked(b, d)
      BY <2>3, <3>5, <3>6 DEF AsBooked
    <3> QED
      BY <3>1, <3>7
  <2> QED
    BY <1>4, <2>1, <2>2, <2>3
<1> QED
  BY <1>3, <1>4

-----------------------------------------------------------------------------
(* Steps of an invoice.                                                    *)

\* Where payments and notes stay, so do the sums over them.
LEMMA SameDocs ==
  ASSUME UNCHANGED <<pay, note>>
  PROVE  \A c : /\ PaidFor(c)' = PaidFor(c)
                /\ \A s : PaymentsOf(c, s)' = PaymentsOf(c, s)
                /\ \A kinds : NotesOf(c, kinds)' = NotesOf(c, kinds)
                              /\ Noted(c, kinds)' = Noted(c, kinds)
BY DEF PaidFor, Paid, PaymentsOf, NotesOf, Noted, Written

\* An invoice is entered, booked, or voided: by a supplier only as a draft.
LEMMA InvoiceStep ==
  ASSUME BooksInv, StatementsTypeOK', UNCHANGED <<ops, today, pay, note, balance, stood>>,
         NEW b \in Bill, \A c \in Bill \ {b} : bill'[c] = bill[c],
         \/ bill[b] = Absent /\ Has(b, {"DRAFT"})'
         \/ /\ bill[b] # Absent /\ bill'[b].total = bill[b].total
            /\ \/ Has(b, {"DRAFT"}) /\ Has(b, {"OPEN"})' /\ bill'[b].booked = today
               \/ Has(b, {"CANCELLED"})' /\ (Customer \/ Has(b, {"DRAFT"}))
  PROVE  BooksInv'
<1>1. /\ PaidFor(b)' = PaidFor(b) /\ \A kinds : Noted(b, kinds)' = Noted(b, kinds)
      /\ \A s : PaymentsOf(b, s)' = PaymentsOf(b, s)
      /\ Customer' = Customer /\ bill'[b] # Absent
  BY SameDocs DEF Customer, Has
<1>2. \A c \in Bill \ {b} : \A s : Has(c, s)' <=> Has(c, s)
  BY DEF Has
<1>3. PaidFor(b) \in Nat /\ \A kinds : Noted(b, kinds) \in Nat
  BY Naturals DEF BooksInv
<1>4. bill'[b].total \in Nat
  BY <1>1, DocFitsThen, BillFits
<1>5. bill[b] = Absent \/ Has(b, {"DRAFT"}) =>
        /\ PaidFor(b) = 0 /\ \A kinds : Noted(b, kinds) = 0
        /\ \A s : PaymentsOf(b, s) = {}
        /\ \A p \in Pay : pay[p] # Absent => pay[p].bill # b
        /\ \A n \in Note : note[n] # Absent => note[n].bill # b
  BY NoDocuments DEF BooksInv
<1>6. BooksFit'
  <2>1. today \in 1 .. today
    BY AmountsAssumption DEF BooksInv, StatementsTypeOK, Days
  <2>2. ASSUME NEW c \in Bill, Has(c, INCLUDE_STATUSES)' PROVE bill'[c].booked \in 1 .. today
    <3>1. CASE c = b
      BY <2>1, <2>2, <3>1 DEF Has, INCLUDE_STATUSES
    <3>2. CASE c # b
      BY <1>2, <2>2, <3>2 DEF BooksInv, BooksFit
    <3> QED
      BY <3>1, <3>2
  <2>3. ASSUME NEW c \in Bill,
               Has(c, INCLUDE_STATUSES \cup {"CANCELLED"}), ~Customer => Has(c, INCLUDE_STATUSES),
               c # b \/ ~(bill[b] = Absent \/ Has(b, {"DRAFT"}))
        PROVE  /\ Has(c, INCLUDE_STATUSES \cup {"CANCELLED"})'
               /\ ~Customer => Has(c, INCLUDE_STATUSES)'
    <3>1. CASE c = b
      BY <2>3, <3>1 DEF Has
    <3>2. CASE c # b
      BY <1>2, <2>3, <3>2
    <3> QED
      BY <3>1, <3>2
  <2>4. /\ \A p \in Pay : pay[p] # Absent => pay[p].bill \in Bill
        /\ \A n \in Note : note[n] # Absent => note[n].bill \in Bill
    BY DocFits DEF BooksInv, PayRow, NoteRow
  <2> QED
    BY <1>1, <1>5, <2>2, <2>3, <2>4 DEF BooksInv, BooksFit
<1>7. PaidIsSettled' /\ ParkedIsSurplus'
  <2>1. \A c \in Bill \ {b} : /\ bill'[c] = bill[c] /\ PaidFor(c)' = PaidFor(c)
                              /\ PaymentsOf(c, "PENDING")' = PaymentsOf(c, "PENDING")
                              /\ \A kinds : Noted(c, kinds)' = Noted(c, kinds)
    BY SameDocs
  <2>2. /\ ~Has(b, {"PAID"})'
        /\ Has(b, {"OPEN"})' => PaymentsOf(b, "PENDING")' = {}
    BY <1>1, <1>5 DEF Has
  <2>3. NoDebitNote' => NoDebitNote
    BY DEF NoDebitNote
  <2>4. Surplus(b)' = Surplus(b)
    <3>1. CASE bill[b] = Absent
      BY <1>1, <1>3, <1>4, <1>5, <3>1 DEF Surplus, CreditOwing, Owed, Monus
    <3>2. CASE bill[b] # Absent
      BY <1>1, <3>2 DEF Surplus, CreditOwing, Owed
    <3> QED
      BY <3>1, <3>2
  <2>5. NoDebitNote =>
          PaidFor(b)' + (IF Customer THEN 0 ELSE Noted(b, Less)') <= bill'[b].total
    <3>1. CASE bill[b] = Absent
      BY <1>1, <1>4, <1>5, <3>1
    <3>2. CASE bill[b] # Absent
      BY <1>1, <3>2 DEF BooksInv, ParkedIsSurplus
    <3> QED
      BY <3>1, <3>2
  <2>6. VoidedUncredited' => VoidedUncredited
    <3>1. \A c \in Voided : c \in Voided'
      BY <1>2 DEF Voided, Has
    <3> QED
      BY <3>1, SameDocs DEF VoidedUncredited
  <2>7. balance' = balance - Surplus(b) + Surplus(b)'
    <3>1. Surplus(b) \in Nat /\ balance \in Nat
      BY Naturals DEF BooksInv, StatementsTypeOK
    <3> QED
      BY <2>4, <3>1
  <2> QED
    BY <2>1, <2>2, <2>3, <2>5, <2>6, <2>7, OneInvoice
<1>8. PastIsBooked'
  <2>1. ASSUME NEW c \in Bill
        PROVE  \/ /\ bill'[c] = Absent \/ Has(c, {"DRAFT"})'
                  /\ bill[c] = Absent \/ Has(c, {"DRAFT"})
               \/ /\ Has(c, INCLUDE_STATUSES)' /\ Has(c, INCLUDE_STATUSES)
                  /\ bill'[c].total = bill[c].total /\ bill'[c].booked = bill[c].booked
               \/ Has(c, INCLUDE_STATUSES)' /\ Has(c, {"DRAFT"}) /\ bill'[c].booked = today
               \/ Has(c, {"CANCELLED"})'
    <3>1. CASE c = b
      BY <3>1 DEF Has, INCLUDE_STATUSES
    <3>2. CASE c # b
      <4>1. bill[c] = Absent \/ bill[c].status \in {"DRAFT", "CANCELLED", "OPEN", "PAID"}
        BY DocFits, BillFits DEF BooksInv
      <4> QED
        BY <3>2, <4>1 DEF Has, INCLUDE_STATUSES
    <3> QED
      BY <3>1, <3>2
  <2> QED
    BY <2>1, PastStays
<1> QED
  BY <1>6, <1>7, <1>8 DEF BooksInv

\* A draft has no documents and parks nothing.
LEMMA EnterBooks ==
  ASSUME BooksInv, NEW b \in Bill, NEW total \in Totals, NEW d \in Dates,
         NEW late \in BOOLEAN, Enter(b, total, d, late)
  PROVE  BooksInv'
<1> DEFINE row == [status |-> "DRAFT", total |-> total, date |-> d, late |-> late,
                   booked |-> Absent]
<1>1. row \in BillRow /\ row.status = "DRAFT"
  BY DEF BooksInv, StatementsTypeOK, Dates, BillRow
<1>2. bill' = [bill EXCEPT ![b] = row] /\ bill[b] = Absent
      /\ UNCHANGED <<ops, today, pay, note, balance, stood>>
  BY DEF Enter
<1> HIDE DEF row
<1>3. StatementsTypeOK' /\ bill'[b] = row /\ \A c \in Bill \ {b} : bill'[c] = bill[c]
  BY <1>1, <1>2 DEF BooksInv, StatementsTypeOK
<1>4. Has(b, {"DRAFT"})'
  BY <1>1, <1>3, BillFits DEF Has
<1> QED
  BY <1>2, <1>3, <1>4, InvoiceStep

\* An invoice is booked today, and thus changes no past day.
LEMMA BookBooks == ASSUME BooksInv, NEW b \in Bill, Book(b) PROVE BooksInv'
<1> DEFINE row == [bill[b] EXCEPT !.status = "OPEN", !.booked = today]
<1>1. bill[b] \in BillRow /\ bill[b] # Absent /\ Has(b, {"DRAFT"}) /\ today \in Days
  BY DocFits DEF Book, Has, BooksInv, StatementsTypeOK
<1>2. row \in BillRow /\ row.status = "OPEN" /\ row.booked = today /\ row.total = bill[b].total
  BY <1>1 DEF BillRow, INCLUDE_STATUSES
<1>3. bill' = [bill EXCEPT ![b] = row] /\ UNCHANGED <<ops, today, pay, note, balance, stood>>
  BY <1>1 DEF Book, BooksInv, StatementsTypeOK
<1> HIDE DEF row
<1>4. StatementsTypeOK' /\ bill'[b] = row /\ \A c \in Bill \ {b} : bill'[c] = bill[c]
  BY <1>2, <1>3 DEF BooksInv, StatementsTypeOK
<1>5. Has(b, {"OPEN"})'
  BY <1>2, <1>4, BillFits DEF Has
<1> QED
  BY <1>1, <1>2, <1>3, <1>4, <1>5, InvoiceStep

\* A voided invoice leaves what is stated; what it parked stays parked.
LEMMA VoidBooks == ASSUME BooksInv, NEW b \in Bill, Void(b) PROVE BooksInv'
<1> DEFINE row == [bill[b] EXCEPT !.status = "CANCELLED"]
<1>1. bill[b] \in BillRow /\ bill[b] # Absent /\ (Customer \/ Has(b, {"DRAFT"}))
  BY DocFits DEF Void, Has, BooksInv
<1>2. row \in BillRow /\ row.status = "CANCELLED" /\ row.total = bill[b].total
  BY <1>1 DEF BillRow
<1>3. bill' = [bill EXCEPT ![b] = row] /\ UNCHANGED <<ops, today, pay, note, balance, stood>>
  BY <1>1 DEF Void, BooksInv, StatementsTypeOK
<1> HIDE DEF row
<1>4. StatementsTypeOK' /\ bill'[b] = row /\ \A c \in Bill \ {b} : bill'[c] = bill[c]
  BY <1>2, <1>3 DEF BooksInv, StatementsTypeOK
<1>5. Has(b, {"CANCELLED"})'
  BY <1>2, <1>4, BillFits DEF Has
<1> QED
  BY <1>1, <1>2, <1>3, <1>4, <1>5, InvoiceStep

-----------------------------------------------------------------------------
(* Steps of a payment.                                                     *)

\* Without tax debit notes nothing is added to an invoice.
LEMMA NotDebited ==
  ASSUME NoDebitNote
  PROVE  \A b \in Bill : Noted(b, More) = 0
<1>1. \A b : NotesOf(b, More) = {}
  BY DEF NoDebitNote, NotesOf, More
<1>2. \A table : Amount(table, {}) = 0
  BY AmountNat, FS_EmptySet
<1> QED
  BY <1>1, <1>2, AmountsAre

\* A payment p of the invoice b that moves by what was paid, where the invoice
\* keeps in step.
LEMMA PaymentBooks ==
  ASSUME BooksInv, StatementsTypeOK', UNCHANGED <<ops, today, note, balance, stood>>,
         NEW p \in Pay, NEW b \in Bill, \A q \in Pay \ {p} : pay'[q] = pay[q],
         \A c \in Bill \ {b} : bill'[c] = bill[c],
         Has(b, INCLUDE_STATUSES \cup {"CANCELLED"}), ~Customer => Has(b, INCLUDE_STATUSES),
         pay[p] = Absent \/ pay[p].bill = b, pay'[p] # Absent, pay'[p].bill = b,
         pay'[p].booked \in 1 .. today,
         pay'[p].status = "PENDING" => BalanceDue(b) > 0 /\ Successful(pay[p]) = 0,
         \/ Successful(pay'[p]) = Successful(pay[p]) /\ bill' = bill
         \/ /\ Successful(pay[p]) = 0 /\ Successful(pay'[p]) <= BalanceDue(b)
            /\ pay'[p].booked = today /\ pay'[p].status = "SUCCESS"
            /\ \/ Has(b, {"CANCELLED"}) /\ bill' = bill
               \/ /\ Has(b, INCLUDE_STATUSES)
                  /\ bill'[b] = [bill[b] EXCEPT !.status =
                                   StatusFor(BalanceDue(b) - Successful(pay'[p]))]
         \/ /\ ~Customer /\ Successful(pay'[p]) = 0
            /\ bill'[b] = [bill[b] EXCEPT !.status = "OPEN"],
         Customer => ~Settles(pay[p]) /\ (Settles(pay'[p]) => pay'[p].booked = today)
  PROVE  BooksInv'
<1> DEFINE P == PaidFor(b)
           C == Noted(b, Less)
           D == Noted(b, More)
           T == bill[b].total
           x == Successful(pay[p])
           y == Successful(pay'[p])
<1>1. bill[b] # Absent /\ bill[b] \in BillRow /\ T \in Nat
  BY DocFits, BillFits DEF Has, BooksInv
<1>2. P \in Nat /\ C \in Nat /\ D \in Nat /\ Surplus(b) \in Nat /\ balance \in Nat
  BY Naturals DEF BooksInv, StatementsTypeOK
<1>3. x \in Nat /\ y \in Nat
  <2>1. /\ pay[p] # Absent => pay[p].amount \in Nat
        /\ pay'[p].amount \in Nat
    BY DocFits, DocFitsThen, AmountIsNat DEF BooksInv, PayRow
  <2> QED
    BY <2>1 DEF Successful
<1>4. /\ \A c \in Bill \ {b} : /\ PaidFor(c)' = PaidFor(c)
                               /\ PaymentsOf(c, "PENDING")' = PaymentsOf(c, "PENDING")
      /\ PaidFor(b)' = P - x + y
      /\ PaymentsOf(b, "PENDING")' \subseteq PaymentsOf(b, "PENDING") \cup {p}
      /\ pay'[p].status # "PENDING" => PaymentsOf(b, "PENDING")' \subseteq PaymentsOf(b, "PENDING")
      /\ \A c \in Bill : \A kinds : Noted(c, kinds)' = Noted(c, kinds)
  BY PaymentStep DEF BooksInv
<1>5. bill'[b] # Absent /\ bill'[b].total = T /\ bill'[b].booked = bill[b].booked
      /\ Customer' = Customer
  <2>1. bill' = bill \/ \E s : bill'[b] = [bill[b] EXCEPT !.status = s]
    OBVIOUS
  <2>2. bill'[b].total = T /\ bill'[b].booked = bill[b].booked
    BY <1>1, <2>1 DEF BillRow
  <2>3. bill'[b] # Absent
    <3>1. CASE bill' = bill
      BY <1>1, <3>1
    <3>2. CASE \E s \in {"OPEN", "PAID"} : bill'[b] = [bill[b] EXCEPT !.status = s]
      <4>1. bill'[b] \in BillRow
        BY <1>1, <3>2 DEF BillRow, INCLUDE_STATUSES
      <4> QED
        BY <4>1, BillFits
    <3> QED
      BY <3>1, <3>2 DEF StatusFor
  <2> QED
    BY <2>2, <2>3 DEF Customer
<1>6. BalanceDue(b) = Monus(T + D, P + C) /\ BalanceDue(b)' = Monus(T + D, (P - x + y) + C)
  BY <1>4, <1>5 DEF BalanceDue, Owed
<1>7. /\ Surplus(b) = Monus(P + C, T + D)
      /\ Surplus(b)' = Monus((P - x + y) + C, T + D)
  BY <1>1, <1>4, <1>5 DEF Surplus, CreditOwing, Owed
<1>8. /\ bill[b].status \in INCLUDE_STATUSES \cup {"CANCELLED"}
      /\ \/ bill' = bill
         \/ bill'[b].status \in INCLUDE_STATUSES /\ bill[b].status \in INCLUDE_STATUSES
  BY <1>1, <1>5 DEF Has, StatusFor, INCLUDE_STATUSES, BillRow
<1>9. \A c \in Bill : /\ Has(c, INCLUDE_STATUSES)' <=> Has(c, INCLUDE_STATUSES)
                      /\ Has(c, {"CANCELLED"})' <=> Has(c, {"CANCELLED"})
                      /\ bill[c] # Absent => bill'[c] # Absent /\ bill'[c].booked = bill[c].booked
                                             /\ bill'[c].total = bill[c].total
                      /\ (bill[c] = Absent \/ Has(c, {"DRAFT"})) <=>
                         (bill'[c] = Absent \/ Has(c, {"DRAFT"})')
  <2>1. SUFFICES ASSUME NEW c \in Bill
        PROVE  /\ Has(c, INCLUDE_STATUSES)' <=> Has(c, INCLUDE_STATUSES)
               /\ Has(c, {"CANCELLED"})' <=> Has(c, {"CANCELLED"})
               /\ bill[c] # Absent => bill'[c] # Absent /\ bill'[c].booked = bill[c].booked
                                      /\ bill'[c].total = bill[c].total
               /\ (bill[c] = Absent \/ Has(c, {"DRAFT"})) <=>
                  (bill'[c] = Absent \/ Has(c, {"DRAFT"})')
    OBVIOUS
  <2>2. CASE c = b
    BY <1>1, <1>5, <1>8, <2>2 DEF Has, INCLUDE_STATUSES
  <2>3. CASE c # b
    BY <2>3 DEF Has
  <2> QED
    BY <2>2, <2>3
<1>10. BooksFit'
  <2>1. ASSUME NEW c \in Bill,
               Has(c, INCLUDE_STATUSES \cup {"CANCELLED"}), ~Customer => Has(c, INCLUDE_STATUSES)
        PROVE  /\ bill'[c] # Absent /\ bill'[c].status \in INCLUDE_STATUSES \cup {"CANCELLED"}
               /\ ~Customer => bill'[c].status \in INCLUDE_STATUSES
    <3>1. CASE c = b
      BY <1>5, <1>8, <2>1, <3>1 DEF Has
    <3>2. CASE c # b
      BY <2>1, <3>2 DEF Has
    <3> QED
      BY <3>1, <3>2
  <2>2. ASSUME NEW q \in Pay, pay'[q] # Absent
        PROVE  /\ bill'[pay'[q].bill] # Absent
               /\ bill'[pay'[q].bill].status \in INCLUDE_STATUSES \cup {"CANCELLED"}
               /\ ~Customer => bill'[pay'[q].bill].status \in INCLUDE_STATUSES
               /\ pay'[q].booked \in 1 .. today
    <3>1. CASE q = p
      <4>1. pay'[q].bill = b /\ pay'[q].booked \in 1 .. today
        BY <3>1
      <4> QED
        BY <2>1, <4>1
    <3>2. CASE q # p
      <4>1. pay'[q] = pay[q] /\ pay[q].bill \in Bill
        BY <2>2, <3>2, DocFits DEF BooksInv, PayRow
      <4>2. /\ Has(pay[q].bill, INCLUDE_STATUSES \cup {"CANCELLED"})
            /\ ~Customer => Has(pay[q].bill, INCLUDE_STATUSES)
            /\ pay[q].booked \in 1 .. today
        BY <2>2, <4>1 DEF BooksInv, BooksFit
      <4> QED
        BY <2>1, <4>1, <4>2
    <3> QED
      BY <3>1, <3>2
  <2>3. ASSUME NEW n \in Note, note[n] # Absent
        PROVE  /\ bill'[note[n].bill] # Absent
               /\ bill'[note[n].bill].status \in INCLUDE_STATUSES \cup {"CANCELLED"}
               /\ ~Customer => bill'[note[n].bill].status \in INCLUDE_STATUSES
    <3>1. note[n].bill \in Bill
      BY <2>3, DocFits DEF BooksInv, NoteRow
    <3>2. /\ Has(note[n].bill, INCLUDE_STATUSES \cup {"CANCELLED"})
          /\ ~Customer => Has(note[n].bill, INCLUDE_STATUSES)
      BY <2>3 DEF BooksInv, BooksFit
    <3> QED
      BY <2>1, <3>1, <3>2
  <2>4. \A c \in Bill : Has(c, INCLUDE_STATUSES)' => bill'[c].booked \in 1 .. today
    BY <1>9 DEF BooksInv, BooksFit, Has
  <2> QED
    BY <1>5, <2>2, <2>3, <2>4 DEF BooksInv, BooksFit, Has
<1>11. NoDebitNote' <=> NoDebitNote
  BY DEF NoDebitNote
<1>12. VoidedUncredited' => VoidedUncredited
  <2>1. \A c : NotesOf(c, Less)' = NotesOf(c, Less)
    BY DEF NotesOf
  <2> QED
    BY <1>9, <2>1 DEF VoidedUncredited, Voided
<1>13. NoDebitNote => D = 0 /\ P + (IF Customer THEN 0 ELSE C) <= T
  BY <1>1, NotDebited DEF BooksInv, ParkedIsSurplus
<1>14. /\ Has(b, {"PAID"}) => Monus(T + D, P + C) = 0
       /\ Customer /\ Has(b, {"OPEN"}) /\ Monus(T + D, P + C) = 0 => PaymentsOf(b, "PENDING") = {}
  BY <1>6 DEF BooksInv, PaidIsSettled
<1>15. /\ x = 0 => P - x + y = P + y
       /\ P - x + y \in Nat
  <2>1. PaidFor(b)' \in Nat
    BY Naturals
  <2> QED
    BY <1>2, <1>3, <1>4, <2>1
<1> HIDE DEF P, C, D, T, x, y
<1>16. /\ Has(b, {"PAID"})' => BalanceDue(b)' = 0
       /\ Customer /\ Has(b, {"OPEN"})' /\ BalanceDue(b)' = 0 => PaymentsOf(b, "PENDING")' = {}
       /\ NoDebitNote =>
            /\ PaidFor(b)' + (IF Customer THEN 0 ELSE Noted(b, Less)') <= bill'[b].total
            /\ balance' = balance - Surplus(b) + Surplus(b)'
  <2>1. CASE y = x /\ bill' = bill
    <3>1. BalanceDue(b)' = BalanceDue(b) /\ Surplus(b)' = Surplus(b) /\ PaidFor(b)' = PaidFor(b)
      BY <1>2, <1>3, <1>4, <1>6, <1>7, <2>1 DEF P
    <3>2. Has(b, {"PAID"})' => BalanceDue(b)' = 0
      BY <1>6, <1>14, <2>1, <3>1 DEF Has
    <3>3. Customer /\ Has(b, {"OPEN"})' /\ BalanceDue(b)' = 0 => PaymentsOf(b, "PENDING")' = {}
      <4>1. CASE pay'[p].status = "PENDING"
        BY <3>1, <4>1
      <4>2. CASE pay'[p].status # "PENDING"
        BY <1>4, <1>6, <1>14, <2>1, <3>1, <4>2 DEF Has
      <4> QED
        BY <4>1, <4>2
    <3>4. balance' = balance - Surplus(b) + Surplus(b)'
      BY <1>2, <3>1
    <3> QED
      BY <1>4, <1>5, <1>13, <3>1, <3>2, <3>3, <3>4 DEF P, C, T
  <2>2. CASE /\ x = 0 /\ y <= BalanceDue(b) /\ pay'[p].status = "SUCCESS"
             /\ \/ Has(b, {"CANCELLED"}) /\ bill' = bill
                \/ bill'[b] = [bill[b] EXCEPT !.status = StatusFor(BalanceDue(b) - y)]
    <3>1. y > 0
      <4>1. pay'[p].amount \in Nat /\ pay'[p].amount > 0
        BY DocFitsThen, AmountIsNat DEF PayRow
      <4> QED
        BY <2>2, <4>1 DEF y, Successful
    <3>2. /\ P + y + C <= T + D
          /\ BalanceDue(b)' = BalanceDue(b) - y /\ Surplus(b) = 0 /\ Surplus(b)' = 0
      BY <1>1, <1>2, <1>3, <1>6, <1>7, <1>15, <2>2, <3>1 DEF Monus
    <3>3. NoDebitNote => P + y + (IF Customer THEN 0 ELSE C) <= T
      BY <1>1, <1>2, <1>3, <1>13, <3>2
    <3>4. CASE Has(b, {"CANCELLED"}) /\ bill' = bill
      <4>1. ~Has(b, {"PAID"})' /\ ~Has(b, {"OPEN"})'
        BY <3>4 DEF Has
      <4> QED
        BY <1>2, <1>4, <1>5, <1>15, <2>2, <3>2, <3>3, <4>1 DEF P, C, T
    <3>5. CASE bill'[b] = [bill[b] EXCEPT !.status = StatusFor(BalanceDue(b) - y)]
      <4>1. bill'[b].status = StatusFor(BalanceDue(b)')
        BY <1>1, <3>2, <3>5 DEF BillRow
      <4>2. /\ Has(b, {"PAID"})' => BalanceDue(b)' = 0
            /\ Has(b, {"OPEN"})' => BalanceDue(b)' # 0
        BY <4>1 DEF StatusFor, Has
      <4> QED
        BY <1>2, <1>4, <1>5, <1>15, <2>2, <3>2, <3>3, <4>2 DEF P, C, T
    <3> QED
      BY <2>2, <3>4, <3>5
  <2>3. CASE ~Customer /\ y = 0 /\ bill'[b] = [bill[b] EXCEPT !.status = "OPEN"]
    <3>1. bill'[b].status = "OPEN"
      BY <1>1, <2>3 DEF BillRow
    <3>2. ~Has(b, {"PAID"})'
      BY <3>1 DEF Has
    <3>3. NoDebitNote => /\ (P - x + y) + C <= T
                         /\ Surplus(b)' = 0 /\ Surplus(b) = 0
      BY <1>1, <1>2, <1>3, <1>7, <1>13, <1>15, <2>3 DEF Monus
    <3> QED
      BY <1>2, <1>4, <1>5, <2>3, <3>2, <3>3 DEF C, T
  <2> QED
    BY <2>1, <2>2, <2>3 DEF x, y
<1>17. PaidIsSettled' /\ ParkedIsSurplus'
  <2>1. \A c \in Bill \ {b} : /\ bill'[c] = bill[c] /\ PaidFor(c)' = PaidFor(c)
                              /\ PaymentsOf(c, "PENDING")' = PaymentsOf(c, "PENDING")
                              /\ \A kinds : Noted(c, kinds)' = Noted(c, kinds)
    BY <1>4
  <2> QED
    BY <1>11, <1>12, <1>16, <2>1, OneInvoice
<1>18. PastIsBooked'
  <2>1. ASSUME NEW c \in Bill
        PROVE  \/ /\ bill'[c] = Absent \/ Has(c, {"DRAFT"})'
                  /\ bill[c] = Absent \/ Has(c, {"DRAFT"})
               \/ /\ Has(c, INCLUDE_STATUSES)' /\ Has(c, INCLUDE_STATUSES)
                  /\ bill'[c].total = bill[c].total /\ bill'[c].booked = bill[c].booked
               \/ Has(c, INCLUDE_STATUSES)' /\ Has(c, {"DRAFT"}) /\ bill'[c].booked = today
               \/ Has(c, {"CANCELLED"})'
    <3>1. bill[c] = Absent \/ bill[c].status \in {"DRAFT", "CANCELLED", "OPEN", "PAID"}
      BY DocFits, BillFits DEF BooksInv
    <3> QED
      BY <1>9, <3>1 DEF Has, INCLUDE_STATUSES
  <2>2. Customer => \A q \in Pay :
           \/ pay'[q] = pay[q]
           \/ ~Settles(pay[q]) /\ (Settles(pay'[q]) => pay'[q].booked = today)
    OBVIOUS
  <2> QED
    BY <2>1, <2>2, PastStays
<1> QED
  BY <1>10, <1>17, <1>18 DEF BooksInv

\* Only one row of a table changes.
LEMMA TypesAfterPayment ==
  ASSUME BooksInv, NEW p \in Pay, NEW row \in PayRow, pay' = [pay EXCEPT ![p] = row],
         NEW b \in Bill, Has(b, INCLUDE_STATUSES \cup {"CANCELLED"}),
         bill' = bill \/ \E s \in INCLUDE_STATUSES : bill' = [bill EXCEPT ![b].status = s],
         UNCHANGED <<ops, today, note, balance, stood>>
  PROVE  /\ StatementsTypeOK' /\ pay'[p] = row /\ row # Absent
         /\ \A q \in Pay \ {p} : pay'[q] = pay[q]
         /\ \A c \in Bill \ {b} : bill'[c] = bill[c]
<1>1. pay' \in [Pay -> PayRow \cup {Absent}] /\ pay'[p] = row
      /\ \A q \in Pay \ {p} : pay'[q] = pay[q]
  BY DEF BooksInv, StatementsTypeOK
<1>2. bill' \in [Bill -> BillRow \cup {Absent}] /\ \A c \in Bill \ {b} : bill'[c] = bill[c]
  <2>1. bill[b] \in BillRow /\ bill \in [Bill -> BillRow \cup {Absent}]
    BY DocFits DEF Has, BooksInv, StatementsTypeOK
  <2>2. ASSUME NEW s \in INCLUDE_STATUSES, bill' = [bill EXCEPT ![b].status = s]
        PROVE  bill' \in [Bill -> BillRow \cup {Absent}] /\ \A c \in Bill \ {b} : bill'[c] = bill[c]
    <3>1. [bill[b] EXCEPT !.status = s] \in BillRow
      BY <2>1 DEF BillRow
    <3>2. bill' = [bill EXCEPT ![b] = [bill[b] EXCEPT !.status = s]]
      BY <2>1, <2>2
    <3> QED
      BY <2>1, <3>1, <3>2
  <2> QED
    BY <2>1, <2>2
<1>3. row # Absent
  BY AbsentAssumption
<1> QED
  BY <1>1, <1>2, <1>3 DEF BooksInv, StatementsTypeOK

\* A balance gives one of the statuses that are stated.
LEMMA StatusesAre == \A due : StatusFor(due) \in INCLUDE_STATUSES
BY DEF StatusFor, INCLUDE_STATUSES

\* A payment is at most what is due; a cheque moves nothing yet.
LEMMA RecordPaymentBooks ==
  ASSUME BooksInv, NEW p \in Pay, NEW b \in Bill, NEW a \in Amounts, NEW m \in {"PDC", "CASH"},
         NEW d \in PastDates, RecordPayment(p, b, a, m, d)
  PROVE  BooksInv'
<1> DEFINE row == [bill |-> b, amount |-> a, date |-> d, late |-> FALSE, booked |-> today,
                   cheque |-> m = "PDC", status |-> IF m = "PDC" THEN "PENDING" ELSE "SUCCESS"]
<1>1. row \in PayRow
  BY DEF BooksInv, StatementsTypeOK, PastDates, Dates, PayRow
<1>2. pay' = [pay EXCEPT ![p] = row] /\ UNCHANGED <<ops, today, note, balance, stood>>
      /\ pay[p] = Absent /\ a <= BalanceDue(b) /\ a > 0 /\ a \in Nat
  BY AmountIsNat DEF RecordPayment
<1>3. Has(b, INCLUDE_STATUSES) /\ Has(b, INCLUDE_STATUSES \cup {"CANCELLED"})
  BY DEF RecordPayment, Has
<1>4. bill[b] \in BillRow
  BY <1>3, DocFits DEF Has, BooksInv
<1>5. \/ m = "PDC" /\ bill' = bill
      \/ m # "PDC" /\ bill' = [bill EXCEPT ![b].status = StatusFor(BalanceDue(b) - a)]
  BY DEF RecordPayment
<1>6. bill' = bill \/ \E s \in INCLUDE_STATUSES : bill' = [bill EXCEPT ![b].status = s]
  BY <1>5, StatusesAre
<1>7. row.bill = b /\ row.booked = today /\ row.amount = a
      /\ row.status = IF m = "PDC" THEN "PENDING" ELSE "SUCCESS"
  OBVIOUS
<1> HIDE DEF row
<1>8. /\ StatementsTypeOK' /\ pay'[p] = row /\ row # Absent
      /\ \A q \in Pay \ {p} : pay'[q] = pay[q]
      /\ \A c \in Bill \ {b} : bill'[c] = bill[c]
  BY <1>1, <1>2, <1>3, <1>6, TypesAfterPayment
<1>9. /\ Successful(pay[p]) = 0 /\ Successful(row) = (IF m = "PDC" THEN 0 ELSE a)
      /\ ~Settles(pay[p])
  BY <1>2, <1>7, <1>8 DEF Successful, Settles
<1>10. BalanceDue(b) > 0
  <2>1. BalanceDue(b) \in Int
    BY <1>4, Naturals, BillFits DEF BooksInv, BalanceDue, Owed, Monus
  <2> QED
    BY <1>2, <2>1
<1>11. today \in 1 .. today
  BY AmountsAssumption DEF BooksInv, StatementsTypeOK, Days
<1>12. \/ Successful(row) = 0 /\ bill' = bill
       \/ /\ Successful(row) <= BalanceDue(b) /\ row.status = "SUCCESS"
          /\ bill'[b] = [bill[b] EXCEPT !.status = StatusFor(BalanceDue(b) - Successful(row))]
  <2>1. CASE m = "PDC"
    BY <1>5, <1>9, <2>1
  <2>2. CASE m # "PDC"
    <3>1. bill' = [bill EXCEPT ![b].status = StatusFor(BalanceDue(b) - a)]
      BY <1>5, <2>2
    <3>2. bill'[b] = [bill[b] EXCEPT !.status = StatusFor(BalanceDue(b) - a)]
      BY <3>1 DEF BooksInv, StatementsTypeOK
    <3> QED
      BY <1>2, <1>7, <1>9, <2>2, <3>2
  <2> QED
    BY <2>1, <2>2
<1> QED
  BY <1>2, <1>3, <1>7, <1>8, <1>9, <1>10, <1>11, <1>12, PaymentBooks

\* The payment that a step is about.
LEMMA PaymentHere ==
  ASSUME BooksInv, NEW p \in Pay, pay[p] # Absent
  PROVE  /\ pay[p] \in PayRow /\ pay[p].bill \in Bill /\ pay[p].amount \in Nat
         /\ pay[p].booked \in 1 .. today /\ today \in 1 .. today /\ today \in Days
         /\ Has(pay[p].bill, INCLUDE_STATUSES \cup {"CANCELLED"})
         /\ ~Customer => Has(pay[p].bill, INCLUDE_STATUSES)
         /\ bill[pay[p].bill] \in BillRow
<1>1. pay[p] \in PayRow /\ pay[p].bill \in Bill /\ pay[p].amount \in Nat
  BY DocFits, AmountIsNat DEF BooksInv, PayRow
<1>2. /\ pay[p].booked \in 1 .. today
      /\ Has(pay[p].bill, INCLUDE_STATUSES \cup {"CANCELLED"})
      /\ ~Customer => Has(pay[p].bill, INCLUDE_STATUSES)
  BY DEF BooksInv, BooksFit
<1>3. today \in 1 .. today /\ today \in Days
  BY AmountsAssumption DEF BooksInv, StatementsTypeOK, Days
<1>4. bill[pay[p].bill] \in BillRow
  BY <1>1, <1>2, DocFits DEF BooksInv, Has
<1> QED
  BY <1>1, <1>2, <1>3, <1>4

\* A cheque clears for at most what is due, today.
LEMMA ClearChequeBooks == ASSUME BooksInv, NEW p \in Pay, ClearCheque(p) PROVE BooksInv'
<1> DEFINE b == pay[p].bill
           row == [pay[p] EXCEPT !.status = "SUCCESS", !.booked = today]
           a == pay[p].amount
<1>1. /\ pay[p] # Absent /\ pay[p].status = "PENDING" /\ a <= BalanceDue(b)
      /\ UNCHANGED <<ops, today, note, balance, stood>>
      /\ IF Has(b, {"CANCELLED"}) THEN bill' = bill
         ELSE bill' = [bill EXCEPT ![b].status = StatusFor(BalanceDue(b) - a)]
  BY DEF ClearCheque
<1>2. /\ pay[p] \in PayRow /\ b \in Bill /\ a \in Nat
      /\ pay[p].booked \in 1 .. today /\ today \in 1 .. today /\ today \in Days
      /\ Has(b, INCLUDE_STATUSES \cup {"CANCELLED"})
      /\ ~Customer => Has(b, INCLUDE_STATUSES)
      /\ bill[b] \in BillRow
  BY <1>1, PaymentHere
<1>3. /\ row \in PayRow /\ row.bill = b /\ row.booked = today /\ row.amount = a
      /\ row.status = "SUCCESS"
  BY <1>2 DEF PayRow
<1>4. pay' = [pay EXCEPT ![p] = row]
  BY <1>2 DEF ClearCheque, BooksInv, StatementsTypeOK
<1> HIDE DEF row, b, a
<1>5. bill' = bill \/ \E s \in INCLUDE_STATUSES : bill' = [bill EXCEPT ![b].status = s]
  BY <1>1, StatusesAre
<1>6. /\ StatementsTypeOK' /\ pay'[p] = row /\ row # Absent
      /\ \A q \in Pay \ {p} : pay'[q] = pay[q]
      /\ \A c \in Bill \ {b} : bill'[c] = bill[c]
  <2>1. /\ row \in PayRow /\ b \in Bill /\ Has(b, INCLUDE_STATUSES \cup {"CANCELLED"})
        /\ UNCHANGED <<ops, today, note, balance, stood>>
    BY <1>1, <1>2, <1>3
  <2> QED
    BY <1>4, <1>5, <2>1, TypesAfterPayment
<1>7. Successful(pay[p]) = 0 /\ Successful(row) = a /\ ~Settles(pay[p])
  BY <1>1, <1>3, <1>6 DEF Successful, Settles
<1>8. \/ Has(b, {"CANCELLED"}) /\ bill' = bill
      \/ /\ Has(b, INCLUDE_STATUSES)
         /\ bill'[b] = [bill[b] EXCEPT !.status = StatusFor(BalanceDue(b) - Successful(row))]
  <2>1. CASE Has(b, {"CANCELLED"})
    BY <1>1, <2>1
  <2>2. CASE ~Has(b, {"CANCELLED"})
    <3>1. Has(b, INCLUDE_STATUSES)
      BY <1>2, <2>2 DEF Has
    <3>2. bill'[b] = [bill[b] EXCEPT !.status = StatusFor(BalanceDue(b) - a)]
      BY <1>1, <1>2, <2>2 DEF BooksInv, StatementsTypeOK
    <3> QED
      BY <1>7, <3>1, <3>2
  <2> QED
    BY <2>1, <2>2
<1>9. pay[p].bill = b
  BY DEF b
<1> QED
  BY <1>1, <1>2, <1>3, <1>6, <1>7, <1>8, <1>9, PaymentBooks

\* A cheque that bounces has never counted.
LEMMA BounceChequeBooks == ASSUME BooksInv, NEW p \in Pay, BounceCheque(p) PROVE BooksInv'
<1> DEFINE b == pay[p].bill
           row == [pay[p] EXCEPT !.status = "FAILED"]
<1>1. /\ pay[p] # Absent /\ pay[p].status = "PENDING" /\ bill' = bill
      /\ UNCHANGED <<ops, today, note, balance, stood>>
  BY DEF BounceCheque
<1>2. /\ pay[p] \in PayRow /\ b \in Bill
      /\ pay[p].booked \in 1 .. today
      /\ Has(b, INCLUDE_STATUSES \cup {"CANCELLED"})
      /\ ~Customer => Has(b, INCLUDE_STATUSES)
  BY <1>1, PaymentHere
<1>3. row \in PayRow /\ row.bill = b /\ row.booked = pay[p].booked /\ row.status = "FAILED"
  BY <1>2 DEF PayRow
<1>4. pay' = [pay EXCEPT ![p] = row]
  BY <1>2 DEF BounceCheque, BooksInv, StatementsTypeOK
<1>5. pay[p].bill = b
  OBVIOUS
<1> HIDE DEF row, b
<1>6. /\ StatementsTypeOK' /\ pay'[p] = row /\ row # Absent
      /\ \A q \in Pay \ {p} : pay'[q] = pay[q]
      /\ \A c \in Bill \ {b} : bill'[c] = bill[c]
  BY <1>1, <1>2, <1>3, <1>4, TypesAfterPayment
<1>7. Successful(pay[p]) = 0 /\ Successful(row) = 0 /\ ~Settles(pay[p]) /\ ~Settles(row)
  BY <1>1, <1>3, <1>6 DEF Successful, Settles
<1> QED
  BY <1>1, <1>2, <1>3, <1>5, <1>6, <1>7, PaymentBooks

\* A reversed payment counts no more, and its invoice is open again.
LEMMA ReversePaymentBooks == ASSUME BooksInv, NEW p \in Pay, ReversePayment(p) PROVE BooksInv'
<1> DEFINE b == pay[p].bill
           row == [pay[p] EXCEPT !.status = "FAILED"]
<1>1. /\ ~Customer /\ pay[p] # Absent /\ bill' = [bill EXCEPT ![b].status = "OPEN"]
      /\ UNCHANGED <<ops, today, note, balance, stood>>
  BY DEF ReversePayment
<1>2. /\ pay[p] \in PayRow /\ b \in Bill
      /\ pay[p].booked \in 1 .. today
      /\ Has(b, INCLUDE_STATUSES \cup {"CANCELLED"})
      /\ ~Customer => Has(b, INCLUDE_STATUSES)
  BY <1>1, PaymentHere
<1>3. row \in PayRow /\ row.bill = b /\ row.booked = pay[p].booked /\ row.status = "FAILED"
  BY <1>2 DEF PayRow
<1>4. pay' = [pay EXCEPT ![p] = row]
  BY <1>2 DEF ReversePayment, BooksInv, StatementsTypeOK
<1>5. pay[p].bill = b
  OBVIOUS
<1> HIDE DEF row, b
<1>6. /\ StatementsTypeOK' /\ pay'[p] = row /\ row # Absent
      /\ \A q \in Pay \ {p} : pay'[q] = pay[q]
      /\ \A c \in Bill \ {b} : bill'[c] = bill[c]
  <2>1. \E s \in INCLUDE_STATUSES : bill' = [bill EXCEPT ![b].status = s]
    BY <1>1 DEF INCLUDE_STATUSES
  <2>2. UNCHANGED <<ops, today, note, balance, stood>>
    BY <1>1
  <2> QED
    BY <1>2, <1>3, <1>4, <2>1, <2>2, TypesAfterPayment
<1>7. Successful(row) = 0 /\ ~Settles(row)
  BY <1>3 DEF Successful, Settles
<1>8. bill'[b] = [bill[b] EXCEPT !.status = "OPEN"]
  BY <1>1, <1>2 DEF BooksInv, StatementsTypeOK
<1> QED
  BY <1>1, <1>2, <1>3, <1>5, <1>6, <1>7, <1>8, PaymentBooks

-----------------------------------------------------------------------------
(* Steps of a note.                                                        *)

\* The types, after a step of a note and the status of its invoice.
LEMMA TypesAfterNote ==
  ASSUME BooksInv, NEW n \in Note, NEW row \in NoteRow, note' = [note EXCEPT ![n] = row],
         NEW b \in Bill, Has(b, INCLUDE_STATUSES), balance' \in Nat,
         bill' = bill \/ \E s \in INCLUDE_STATUSES : bill' = [bill EXCEPT ![b].status = s],
         UNCHANGED <<ops, today, pay, stood>>
  PROVE  /\ StatementsTypeOK' /\ note'[n] = row /\ row # Absent
         /\ \A q \in Note \ {n} : note'[q] = note[q]
         /\ \A c \in Bill \ {b} : bill'[c] = bill[c]
         /\ bill' = bill \/ \E s \in INCLUDE_STATUSES : bill'[b] = [bill[b] EXCEPT !.status = s]
         /\ bill[b] \in BillRow /\ bill'[b] \in BillRow
         /\ bill'[b].total = bill[b].total /\ bill'[b].booked = bill[b].booked
         /\ Has(b, INCLUDE_STATUSES)'
<1>1. note' \in [Note -> NoteRow \cup {Absent}] /\ note'[n] = row
      /\ \A q \in Note \ {n} : note'[q] = note[q]
  BY DEF BooksInv, StatementsTypeOK
<1>2. bill[b] \in BillRow /\ bill[b] # Absent /\ bill \in [Bill -> BillRow \cup {Absent}]
  BY DocFits DEF Has, BooksInv, StatementsTypeOK
<1>3. /\ bill' \in [Bill -> BillRow \cup {Absent}] /\ \A c \in Bill \ {b} : bill'[c] = bill[c]
      /\ bill' = bill \/ \E s \in INCLUDE_STATUSES : bill'[b] = [bill[b] EXCEPT !.status = s]
      /\ bill'[b] \in BillRow /\ bill'[b].total = bill[b].total /\ bill'[b].booked = bill[b].booked
      /\ bill'[b].status \in INCLUDE_STATUSES
  <2>1. ASSUME NEW s \in INCLUDE_STATUSES, bill' = [bill EXCEPT ![b].status = s]
        PROVE  /\ bill' \in [Bill -> BillRow \cup {Absent}]
               /\ \A c \in Bill \ {b} : bill'[c] = bill[c]
               /\ bill'[b] = [bill[b] EXCEPT !.status = s]
               /\ bill'[b] \in BillRow /\ bill'[b].total = bill[b].total
               /\ bill'[b].booked = bill[b].booked /\ bill'[b].status \in INCLUDE_STATUSES
    <3> DEFINE r == [bill[b] EXCEPT !.status = s]
    <3>1. /\ r \in BillRow /\ r.total = bill[b].total /\ r.booked = bill[b].booked
          /\ r.status = s
      BY <1>2 DEF BillRow
    <3>2. bill' = [bill EXCEPT ![b] = r]
      BY <1>2, <2>1
    <3> HIDE DEF r
    <3>3. bill'[b] = r /\ bill' \in [Bill -> BillRow \cup {Absent}]
          /\ \A c \in Bill \ {b} : bill'[c] = bill[c]
      BY <1>2, <3>1, <3>2
    <3> QED
      BY <3>1, <3>3 DEF r
  <2>2. bill[b].status \in INCLUDE_STATUSES
    BY DEF Has
  <2> QED
    BY <1>2, <2>1, <2>2
<1>4. row # Absent /\ bill'[b] # Absent
  BY <1>3, AbsentAssumption
<1>5. Has(b, INCLUDE_STATUSES)'
  BY <1>3, <1>4 DEF Has
<1> QED
  BY <1>1, <1>2, <1>3, <1>4, <1>5 DEF BooksInv, StatementsTypeOK

\* What an invoice owes after a step of a note that did not count before.
LEMMA AfterNote ==
  ASSUME StatementsTypeOK, StatementsTypeOK', NEW n \in Note, NEW b \in Bill,
         \A q \in Note \ {n} : note'[q] = note[q], UNCHANGED pay,
         note[n] = Absent \/ note[n].bill = b, ~Counts(note[n]),
         note'[n] # Absent, note'[n].bill = b,
         bill[b] \in BillRow, bill'[b] \in BillRow, bill'[b].total = bill[b].total
  PROVE  LET C == Noted(b, Less)
             D == Noted(b, More)
             P == PaidFor(b)
             T == bill[b].total
             y == Effective(note'[n], Less)
             z == Effective(note'[n], More)
         IN  /\ C \in Nat /\ D \in Nat /\ P \in Nat /\ T \in Nat /\ y \in Nat /\ z \in Nat
             /\ PaidFor(b)' = P /\ Noted(b, Less)' = C + y /\ Noted(b, More)' = D + z
             /\ BalanceDue(b) = Monus(T + D, P + C)
             /\ BalanceDue(b)' = Monus(T + D + z, P + C + y)
             /\ Surplus(b) = Monus(P + C, T + D)
             /\ Surplus(b)' = Monus(P + C + y, T + D + z)
             /\ Owed(b) = T + D
<1> DEFINE C == Noted(b, Less)
           D == Noted(b, More)
           P == PaidFor(b)
           T == bill[b].total
           y == Effective(note'[n], Less)
           z == Effective(note'[n], More)
<1>1. C \in Nat /\ D \in Nat /\ P \in Nat /\ T \in Nat
  BY Naturals, BillFits
<1>2. y \in Nat /\ z \in Nat
  <2>1. note'[n].amount \in Nat
    BY DocFitsThen, AmountIsNat DEF NoteRow
  <2> QED
    BY <2>1 DEF Effective
<1>3. \A kinds : Effective(note[n], kinds) = 0
  BY DEF Effective, Counts
<1>4. PaidFor(b)' = P /\ Noted(b, Less)' = C - 0 + y /\ Noted(b, More)' = D - 0 + z
  BY <1>3, NoteStep
<1>5. Noted(b, Less)' = C + y /\ Noted(b, More)' = D + z
  BY <1>1, <1>2, <1>4
<1>6. bill[b] # Absent /\ bill'[b] # Absent
  BY AbsentAssumption
<1>7. T + (D + z) = T + D + z /\ P + (C + y) = P + C + y
  BY <1>1, <1>2
<1>8. /\ BalanceDue(b) = Monus(T + D, P + C) /\ BalanceDue(b)' = Monus(T + (D + z), P + (C + y))
      /\ Surplus(b) = Monus(P + C, T + D) /\ Surplus(b)' = Monus(P + (C + y), T + (D + z))
      /\ Owed(b) = T + D
  BY <1>4, <1>5, <1>6 DEF BalanceDue, Surplus, CreditOwing, Owed
<1> QED
  BY <1>1, <1>2, <1>4, <1>5, <1>7, <1>8

\* A note n of the invoice b that comes to count, where the invoice keeps in step.
LEMMA NoteBooks ==
  ASSUME BooksInv, NEW n \in Note, NEW row \in NoteRow, note' = [note EXCEPT ![n] = row],
         NEW b \in Bill, Has(b, INCLUDE_STATUSES), balance' \in Nat,
         bill' = bill \/ \E s \in INCLUDE_STATUSES : bill' = [bill EXCEPT ![b].status = s],
         UNCHANGED <<ops, today, pay, stood>>,
         note[n] = Absent \/ (note[n].bill = b /\ note[n].kind = row.kind), ~Counts(note[n]),
         row.bill = b, row.kind = "SDN" <=> ~Customer, Counts(row) => row.booked = today,
         Has(b, {"PAID"})' => BalanceDue(b)' = 0,
         Customer /\ Has(b, {"OPEN"})' /\ BalanceDue(b)' = 0 => PaymentsOf(b, "PENDING") = {},
         NoDebitNote' =>
           /\ PaidFor(b)' + (IF Customer THEN 0 ELSE Noted(b, Less)') <= bill[b].total
           /\ balance' = balance - Surplus(b) + Surplus(b)'
  PROVE  BooksInv'
<1>1. /\ StatementsTypeOK' /\ note'[n] = row /\ row # Absent
      /\ \A q \in Note \ {n} : note'[q] = note[q]
      /\ \A c \in Bill \ {b} : bill'[c] = bill[c]
      /\ bill[b] \in BillRow /\ bill'[b] \in BillRow
      /\ bill'[b].total = bill[b].total /\ bill'[b].booked = bill[b].booked
      /\ Has(b, INCLUDE_STATUSES)'
  BY TypesAfterNote
<1>2. /\ \A c \in Bill \ {b} : \A kinds : Noted(c, kinds)' = Noted(c, kinds)
      /\ \A c \in Bill : /\ PaidFor(c)' = PaidFor(c)
                         /\ PaymentsOf(c, "PENDING")' = PaymentsOf(c, "PENDING")
  <2>1. note[n] = Absent \/ note[n].bill = b
    OBVIOUS
  <2> QED
    BY <1>1, <2>1, NoteStep DEF BooksInv
<1>3. \A c \in Bill : \A s \in {INCLUDE_STATUSES, {"CANCELLED"}} : Has(c, s)' <=> Has(c, s)
  <2>1. SUFFICES ASSUME NEW c \in Bill, NEW s \in {INCLUDE_STATUSES, {"CANCELLED"}}
        PROVE  Has(c, s)' <=> Has(c, s)
    OBVIOUS
  <2>2. CASE c = b
    BY <1>1, <2>2 DEF Has, INCLUDE_STATUSES
  <2>3. CASE c # b
    BY <1>1, <2>3 DEF Has
  <2> QED
    BY <2>2, <2>3
<1>4. Customer' = Customer
  BY DEF Customer
<1>5. BooksFit'
  <2>1. \A c \in Bill : /\ Has(c, INCLUDE_STATUSES) =>
                             bill'[c] # Absent /\ bill'[c].status \in INCLUDE_STATUSES
                        /\ Has(c, INCLUDE_STATUSES \cup {"CANCELLED"}) =>
                             /\ bill'[c] # Absent
                             /\ bill'[c].status \in INCLUDE_STATUSES \cup {"CANCELLED"}
    BY <1>3 DEF Has
  <2>2. ASSUME NEW c \in Bill, Has(c, INCLUDE_STATUSES)' PROVE bill'[c].booked \in 1 .. today
    <3>1. Has(c, INCLUDE_STATUSES) /\ bill'[c].booked = bill[c].booked
      BY <1>1, <1>3, <2>2
    <3> QED
      BY <3>1 DEF BooksInv, BooksFit
  <2>3. ASSUME NEW p \in Pay, pay[p] # Absent
        PROVE  /\ bill'[pay[p].bill] # Absent
               /\ bill'[pay[p].bill].status \in INCLUDE_STATUSES \cup {"CANCELLED"}
               /\ ~Customer => bill'[pay[p].bill].status \in INCLUDE_STATUSES
               /\ pay[p].booked \in 1 .. today
    <3>1. pay[p].bill \in Bill
      BY <2>3, DocFits DEF BooksInv, PayRow
    <3> QED
      BY <2>1, <2>3, <3>1 DEF BooksInv, BooksFit
  <2>4. ASSUME NEW q \in Note, note'[q] # Absent
        PROVE  /\ bill'[note'[q].bill] # Absent
               /\ bill'[note'[q].bill].status \in INCLUDE_STATUSES \cup {"CANCELLED"}
               /\ ~Customer => bill'[note'[q].bill].status \in INCLUDE_STATUSES
               /\ note'[q].kind = "SDN" <=> ~Customer
               /\ note'[q].status = "ISSUED" => note'[q].booked \in 1 .. today
    <3>1. CASE q = n
      <4>1. /\ note'[q].bill = b /\ note'[q].kind = row.kind
            /\ note'[q].status = "ISSUED" => note'[q].booked = today
        BY <1>1, <3>1 DEF Counts
      <4>2. today \in 1 .. today
        BY AmountsAssumption DEF BooksInv, StatementsTypeOK, Days
      <4> QED
        BY <2>1, <4>1, <4>2
    <3>2. CASE q # n
      <4>1. note'[q] = note[q] /\ note[q] # Absent /\ note[q].bill \in Bill
        BY <1>1, <2>4, <3>2, DocFits DEF BooksInv, NoteRow
      <4>2. /\ Has(note[q].bill, INCLUDE_STATUSES \cup {"CANCELLED"})
            /\ ~Customer => Has(note[q].bill, INCLUDE_STATUSES)
            /\ note[q].kind = "SDN" <=> ~Customer
            /\ note[q].status = "ISSUED" => note[q].booked \in 1 .. today
        BY <4>1 DEF BooksInv, BooksFit
      <4> QED
        BY <2>1, <4>1, <4>2
    <3> QED
      BY <3>1, <3>2
  <2> QED
    BY <1>4, <2>2, <2>3, <2>4 DEF BooksFit, Has
<1>6. NoDebitNote' => NoDebitNote
  <2>1. ASSUME NoDebitNote', NEW q \in Note, note[q] # Absent PROVE note[q].kind # "TDN"
    <3>1. CASE q = n
      BY <1>1, <2>1, <3>1 DEF NoDebitNote
    <3>2. CASE q # n
      BY <1>1, <2>1, <3>2 DEF NoDebitNote
    <3> QED
      BY <3>1, <3>2
  <2> QED
    BY <2>1 DEF NoDebitNote
<1>7. VoidedUncredited' => VoidedUncredited
  <2>1. Voided' = Voided
    BY <1>3 DEF Voided
  <2>2. \A c : NotesOf(c, Less) \subseteq NotesOf(c, Less)'
    <3>1. SUFFICES ASSUME NEW c, NEW q \in NotesOf(c, Less) PROVE q \in NotesOf(c, Less)'
      OBVIOUS
    <3>2. q \in Note /\ Counts(note[q])
      BY <3>1 DEF NotesOf, Counts
    <3>3. note'[q] = note[q]
      BY <1>1, <3>2
    <3> QED
      BY <3>1, <3>3 DEF NotesOf
  <2> QED
    BY <2>1, <2>2 DEF VoidedUncredited
<1>8. PaidIsSettled' /\ ParkedIsSurplus'
  <2>1. NoDebitNote' =>
           /\ NoDebitNote
           /\ bill'[b] # Absent =>
                PaidFor(b)' + (IF Customer THEN 0 ELSE Noted(b, Less)') <= bill'[b].total
           /\ VoidedUncredited' =>
                VoidedUncredited /\ balance' = balance - Surplus(b) + Surplus(b)'
    BY <1>1, <1>6, <1>7
  <2>2. Customer /\ Has(b, {"OPEN"})' /\ BalanceDue(b)' = 0 => PaymentsOf(b, "PENDING")' = {}
    BY <1>2
  <2> QED
    BY <1>1, <1>2, <2>1, <2>2, OneInvoice
<1>9. PastIsBooked'
  <2>1. ASSUME NEW c \in Bill
        PROVE  \/ /\ bill'[c] = Absent \/ Has(c, {"DRAFT"})'
                  /\ bill[c] = Absent \/ Has(c, {"DRAFT"})
               \/ /\ Has(c, INCLUDE_STATUSES)' /\ Has(c, INCLUDE_STATUSES)
                  /\ bill'[c].total = bill[c].total /\ bill'[c].booked = bill[c].booked
               \/ Has(c, INCLUDE_STATUSES)' /\ Has(c, {"DRAFT"}) /\ bill'[c].booked = today
               \/ Has(c, {"CANCELLED"})'
    <3>1. CASE c = b
      BY <1>1, <3>1
    <3>2. CASE c # b
      <4>1. bill[c] = Absent \/ bill[c].status \in {"DRAFT", "CANCELLED", "OPEN", "PAID"}
        BY DocFits, BillFits DEF BooksInv
      <4> QED
        BY <1>1, <3>2, <4>1 DEF Has, INCLUDE_STATUSES
    <3> QED
      BY <3>1, <3>2
  <2>2. \A q \in Note : \/ note'[q] = note[q]
                        \/ ~Counts(note[q]) /\ (Counts(note'[q]) => note'[q].booked = today)
    BY <1>1
  <2> QED
    BY <1>1, <2>1, <2>2, PastStays
<1> QED
  BY <1>1, <1>5, <1>8, <1>9 DEF BooksInv

\* The note that a step is about.
LEMMA NoteHere ==
  ASSUME BooksInv, NEW n \in Note, note[n] # Absent
  PROVE  /\ note[n] \in NoteRow /\ note[n].bill \in Bill
         /\ note[n].amount \in Nat /\ note[n].amount > 0
         /\ note[n].kind = "SDN" <=> ~Customer
         /\ today \in Days
<1>1. note[n] \in NoteRow /\ note[n].bill \in Bill /\ note[n].amount \in Nat /\ note[n].amount > 0
  BY DocFits, AmountIsNat DEF BooksInv, NoteRow
<1>2. (note[n].kind = "SDN" <=> ~Customer) /\ today \in Days
  BY DEF BooksInv, BooksFit, StatementsTypeOK
<1> QED
  BY <1>1, <1>2

\* A draft of a note does not count.
LEMMA DraftNoteBooks ==
  ASSUME BooksInv, NEW n \in Note, NEW k \in Kinds, NEW b \in Bill, NEW a \in Amounts,
         NEW d \in Dates, DraftNote(n, k, b, a, d)
  PROVE  BooksInv'
<1> DEFINE row == [kind |-> k, bill |-> b, amount |-> a, date |-> d,
                   late |-> FALSE, booked |-> Absent, status |-> "DRAFT"]
<1>1. row \in NoteRow /\ (k = "SDN" <=> ~Customer)
  <2>1. k \in Less \cup More /\ (k = "SDN") # Customer
    BY DEF Kinds
  <2>2. (k = "SDN") \in BOOLEAN /\ Customer \in BOOLEAN
    BY DEF Customer
  <2>3. d \in Days
    BY DEF BooksInv, StatementsTypeOK, Dates
  <2>4. row \in NoteRow
    BY <2>1, <2>3 DEF NoteRow
  <2> QED
    BY <2>1, <2>2, <2>4
<1>2. /\ note' = [note EXCEPT ![n] = row] /\ note[n] = Absent /\ Has(b, INCLUDE_STATUSES)
      /\ UNCHANGED <<ops, today, bill, pay, balance, stood>>
  BY DEF DraftNote
<1>3. row.bill = b /\ row.kind = k /\ ~Counts(row) /\ \A kinds : Effective(row, kinds) = 0
  BY DEF Counts, Effective
<1> HIDE DEF row
<1>4. balance \in Nat /\ balance' \in Nat
  BY <1>2 DEF BooksInv, StatementsTypeOK
<1>5. /\ StatementsTypeOK' /\ note'[n] = row /\ row # Absent
      /\ \A q \in Note \ {n} : note'[q] = note[q] 
      /\ bill[b] \in BillRow /\ bill'[b] \in BillRow
      /\ bill'[b].total = bill[b].total
  BY <1>1, <1>2, <1>4, TypesAfterNote
<1>6. ~Counts(note[n])
  BY <1>2 DEF Counts
<1>7. /\ PaidFor(b)' = PaidFor(b) /\ Noted(b, Less)' = Noted(b, Less)
      /\ BalanceDue(b)' = BalanceDue(b) /\ Surplus(b)' = Surplus(b)
      /\ Surplus(b) \in Nat
  <2> DEFINE C == Noted(b, Less)
             D == Noted(b, More)
             P == PaidFor(b)
             T == bill[b].total
  <2>1. /\ C \in Nat /\ D \in Nat /\ P \in Nat /\ T \in Nat
        /\ PaidFor(b)' = P /\ Noted(b, Less)' = C + 0
        /\ BalanceDue(b) = Monus(T + D, P + C)
        /\ BalanceDue(b)' = Monus(T + D + 0, P + C + 0)
        /\ Surplus(b) = Monus(P + C, T + D)
        /\ Surplus(b)' = Monus(P + C + 0, T + D + 0)
    BY <1>2, <1>3, <1>5, <1>6, AfterNote DEF BooksInv
  <2> HIDE DEF C, D, P, T
  <2>2. C + 0 = C /\ T + D + 0 = T + D /\ P + C + 0 = P + C
    BY <2>1
  <2>3. Surplus(b) \in Nat
    BY <2>1 DEF Monus
  <2> QED
    BY <2>1, <2>2, <2>3 DEF C, P
<1>8. /\ Has(b, {"PAID"})' => BalanceDue(b)' = 0
      /\ Customer /\ Has(b, {"OPEN"})' /\ BalanceDue(b)' = 0 => PaymentsOf(b, "PENDING") = {}
  BY <1>2, <1>7 DEF BooksInv, PaidIsSettled, Has
<1>9. ASSUME NoDebitNote'
      PROVE  /\ PaidFor(b)' + (IF Customer THEN 0 ELSE Noted(b, Less)') <= bill[b].total
             /\ balance' = balance - Surplus(b) + Surplus(b)'
  <2>1. NoDebitNote
    BY <1>2, <1>5, <1>9 DEF NoDebitNote
  <2>2. bill[b] # Absent
    BY <1>2 DEF Has
  <2> QED
    BY <1>2, <1>4, <1>7, <2>1, <2>2 DEF BooksInv, ParkedIsSurplus
<1>10. row.kind = "SDN" <=> ~Customer
  BY <1>1, <1>3
<1>11. /\ bill' = bill \/ \E s \in INCLUDE_STATUSES : bill' = [bill EXCEPT ![b].status = s]
       /\ note[n] = Absent \/ (note[n].bill = b /\ note[n].kind = row.kind)
       /\ Counts(row) => row.booked = today
  BY <1>2, <1>3
<1>12. row \in NoteRow
  BY <1>1
<1> QED
  BY <1>2, <1>3, <1>4, <1>6, <1>8, <1>9, <1>10, <1>11, <1>12, NoteBooks

\* What a note that is issued or applied adds up to.
Applied(n, late) == [Issued(n) EXCEPT !.date = today, !.late = late]

\* What a note is once it has been issued.
LEMMA IssuedIs ==
  ASSUME BooksInv, NEW n \in Note, note[n] # Absent, note[n].status = "DRAFT",
         NEW row, row = Issued(n) \/ \E late \in BOOLEAN : row = Applied(n, late)
  PROVE  /\ row \in NoteRow /\ row.kind = note[n].kind /\ row.bill = note[n].bill
         /\ row.booked = today /\ row.status = "ISSUED" /\ row.amount = note[n].amount
         /\ row # Absent /\ ~Counts(note[n])
         /\ \A kinds : Effective(row, kinds) =
                         IF note[n].kind \in kinds THEN note[n].amount ELSE 0
<1>1. note[n] \in NoteRow /\ today \in Days
  BY NoteHere
<1>2. /\ row \in NoteRow /\ row.kind = note[n].kind /\ row.bill = note[n].bill
      /\ row.booked = today /\ row.status = "ISSUED" /\ row.amount = note[n].amount
  <2>1. CASE row = Issued(n)
    BY <1>1, <2>1 DEF Issued, NoteRow
  <2>2. ASSUME NEW late \in BOOLEAN, row = Applied(n, late)
        PROVE  /\ row \in NoteRow /\ row.kind = note[n].kind /\ row.bill = note[n].bill
               /\ row.booked = today /\ row.status = "ISSUED" /\ row.amount = note[n].amount
    BY <1>1, <2>2 DEF Issued, Applied, NoteRow
  <2> QED
    BY <2>1, <2>2
<1>3. row # Absent
  BY <1>2, AbsentAssumption
<1> QED
  BY <1>2, <1>3 DEF Effective, Counts

\* A credit note parks what its amount adds to what the invoice is overpaid by.
LEMMA IssueCreditNoteBooks == ASSUME BooksInv, NEW n \in Note, IssueCreditNote(n) PROVE BooksInv'
<1>0. PICK b \in Bill : b = note[n].bill
  BY NoteHere DEF IssueCreditNote, IssueDebitNote, ApplyNote
<1> DEFINE row == Issued(n)
           a == note[n].amount
           C == Noted(b, Less)
           D == Noted(b, More)
           P == PaidFor(b)
           T == bill[b].total
           due == Monus(BalanceDue(b), a)
<1>1. /\ note[n] # Absent /\ note[n].status = "DRAFT" /\ note[n].kind = "CN"
      /\ Has(b, INCLUDE_STATUSES)
      /\ bill' = [bill EXCEPT ![b].status = StatusFor(due)]
      /\ balance' = balance + Monus(a, Monus(T, Noted(b, {"CN"}) + P))
      /\ note' = [note EXCEPT ![n] = row] /\ UNCHANGED <<ops, today, pay, stood>>
  BY <1>0 DEF IssueCreditNote
<1>2. /\ note[n] \in NoteRow /\ b \in Bill /\ a \in Nat /\ a > 0
      /\ Customer
  BY <1>0, <1>1, NoteHere
<1>3. /\ row \in NoteRow /\ row.kind = "CN" /\ row.bill = b
      /\ row.booked = today /\ row # Absent /\ ~Counts(note[n])
      /\ Effective(row, Less) = a /\ Effective(row, More) = 0
  BY <1>0, <1>1, IssuedIs DEF Less, More
<1>4. Noted(b, {"CN"}) = C
  <2>1. NotesOf(b, {"CN"}) = NotesOf(b, Less)
    BY <1>2 DEF BooksInv, BooksFit, NotesOf, Less
  <2> QED
    BY <2>1 DEF Noted
<1>5. balance \in Nat /\ C \in Nat /\ P \in Nat /\ D \in Nat /\ T \in Nat
  <2>1. bill[b] \in BillRow
    BY <1>1, <1>2, DocFits DEF BooksInv, Has
  <2> QED
    BY <1>2, <2>1, Naturals, BillFits DEF BooksInv, StatementsTypeOK
<1>6. balance' = balance + Monus(a, Monus(T, C + P))
  BY <1>1, <1>4
<1>7. note[n].bill = b
  BY <1>0
<1> HIDE DEF row, a, C, D, P, T, due
<1>8. balance' \in Nat
  BY <1>2, <1>5, <1>6 DEF Monus
<1>9. \E s \in INCLUDE_STATUSES : bill' = [bill EXCEPT ![b].status = s]
  BY <1>1, StatusesAre
<1>10. /\ StatementsTypeOK' /\ note'[n] = row
       /\ \A q \in Note \ {n} : note'[q] = note[q]
       /\ bill[b] \in BillRow /\ bill'[b] \in BillRow
       /\ bill'[b].total = bill[b].total
  <2>1. note' = [note EXCEPT ![n] = row] /\ UNCHANGED <<ops, today, pay, stood>>
    BY <1>1
  <2>2. Has(b, INCLUDE_STATUSES)
    BY <1>1
  <2> QED
    BY <1>2, <1>3, <1>8, <1>9, <2>1, <2>2, TypesAfterNote
<1>11. /\ PaidFor(b)' = P
       /\ BalanceDue(b) = Monus(T + D, P + C) /\ BalanceDue(b)' = Monus(T + D + 0, P + C + a)
       /\ Surplus(b) = Monus(P + C, T + D) /\ Surplus(b)' = Monus(P + C + a, T + D + 0)
  BY <1>1, <1>2, <1>3, <1>7, <1>10, AfterNote DEF BooksInv, C, D, P, T
<1>12. BalanceDue(b)' = due
  BY <1>2, <1>5, <1>11 DEF Monus, due
<1>13. /\ Has(b, {"PAID"})' => BalanceDue(b)' = 0
       /\ Has(b, {"OPEN"})' => BalanceDue(b)' # 0
  <2>1. bill'[b].status = StatusFor(due)
    BY <1>1, <1>2, <1>10 DEF BooksInv, StatementsTypeOK, BillRow
  <2> QED
    BY <1>12, <2>1 DEF Has, StatusFor
<1>14. ASSUME NoDebitNote'
       PROVE  /\ PaidFor(b)' + (IF Customer THEN 0 ELSE Noted(b, Less)') <= bill[b].total
              /\ balance' = balance - Surplus(b) + Surplus(b)'
  <2>1. NoDebitNote
    <3>1. ASSUME NEW q \in Note, note[q] # Absent PROVE note[q].kind # "TDN"
      <4>1. CASE q = n
        BY <1>1, <4>1
      <4>2. CASE q # n
        BY <1>10, <1>14, <3>1, <4>2 DEF NoDebitNote
      <4> QED
        BY <4>1, <4>2
    <3> QED
      BY <3>1 DEF NoDebitNote
  <2>2. bill[b] # Absent
    BY <1>1 DEF Has
  <2>3. D = 0
    BY <1>2, <2>1, NotDebited DEF D
  <2>4. PaidFor(b) + 0 <= bill[b].total
    BY <1>2, <2>1, <2>2 DEF BooksInv, ParkedIsSurplus
  <2>5. P + 0 <= T
    BY <2>4 DEF P, T
  <2>6. balance' = balance - Surplus(b) + Surplus(b)'
    BY <1>2, <1>5, <1>6, <1>11, <2>3, <2>5 DEF Monus
  <2> QED
    BY <1>2, <1>11, <2>5, <2>6 DEF T
<1>15. note[n].kind = row.kind
  BY <1>1, <1>3
<1>16. row.kind = "SDN" <=> ~Customer
  BY <1>2, <1>3
<1> QED
  BY <1>1, <1>2, <1>3, <1>7, <1>8, <1>9, <1>13, <1>14, <1>15, <1>16, NoteBooks

\* A tax debit note ends what is said of parked credit, and adds to what is due.
LEMMA IssueDebitNoteBooks == ASSUME BooksInv, NEW n \in Note, IssueDebitNote(n) PROVE BooksInv'
<1>0. PICK b \in Bill : b = note[n].bill
  BY NoteHere DEF IssueCreditNote, IssueDebitNote, ApplyNote
<1> DEFINE row == Issued(n)
           a == note[n].amount
           C == Noted(b, Less)
           D == Noted(b, More)
           P == PaidFor(b)
           T == bill[b].total
           due == Monus(Owed(b) + a, P + C)
<1>1. /\ note[n] # Absent /\ note[n].status = "DRAFT" /\ note[n].kind = "TDN"
      /\ Has(b, INCLUDE_STATUSES)
      /\ bill' = [bill EXCEPT ![b].status = StatusFor(due)]
      /\ balance' = Monus(balance, Least(a, CreditOwing(b)))
      /\ note' = [note EXCEPT ![n] = row] /\ UNCHANGED <<ops, today, pay, stood>>
  BY <1>0 DEF IssueDebitNote
<1>2. /\ note[n] \in NoteRow /\ b \in Bill /\ a \in Nat /\ a > 0
      /\ Customer
  BY <1>0, <1>1, NoteHere
<1>3. /\ row \in NoteRow /\ row.kind = "TDN" /\ row.bill = b
      /\ row.booked = today /\ row # Absent /\ ~Counts(note[n])
      /\ Effective(row, Less) = 0 /\ Effective(row, More) = a
  BY <1>0, <1>1, IssuedIs DEF Less, More
<1>4. bill[b] # Absent /\ Surplus(b) \in Nat /\ balance \in Nat /\ CreditOwing(b) = Surplus(b)
  BY <1>1, <1>2, Naturals DEF Has, BooksInv, StatementsTypeOK, Surplus
<1>5. balance' \in Nat
  <2> HIDE DEF a
  <2> QED
    BY <1>1, <1>2, <1>4 DEF Monus, Least
<1>6. note[n].bill = b
  BY <1>0
<1> HIDE DEF row, a, C, D, P, T, due
<1>7. \E s \in INCLUDE_STATUSES : bill' = [bill EXCEPT ![b].status = s]
  BY <1>1, StatusesAre
<1>8. /\ StatementsTypeOK' /\ note'[n] = row
      /\ bill[b] \in BillRow /\ bill'[b] \in BillRow
      /\ \A q \in Note \ {n} : note'[q] = note[q]
      /\ bill'[b].total = bill[b].total
  BY <1>1, <1>2, <1>3, <1>5, <1>7, TypesAfterNote
<1>9. /\ C \in Nat /\ D \in Nat /\ P \in Nat /\ T \in Nat
      /\ BalanceDue(b)' = Monus(T + D + a, P + C + 0) /\ Owed(b) = T + D
  BY <1>1, <1>2, <1>3, <1>6, <1>8, AfterNote DEF BooksInv, C, D, P, T
<1>10. BalanceDue(b)' = due
  BY <1>2, <1>9 DEF Monus, due
<1>11. /\ Has(b, {"PAID"})' => BalanceDue(b)' = 0
       /\ Has(b, {"OPEN"})' => BalanceDue(b)' # 0
  <2>1. bill'[b].status = StatusFor(due)
    BY <1>1, <1>2, <1>8 DEF BooksInv, StatementsTypeOK, BillRow
  <2> QED
    BY <1>10, <2>1 DEF Has, StatusFor
<1>12. ~NoDebitNote'
  BY <1>3, <1>8 DEF NoDebitNote
<1>13. note[n].kind = row.kind /\ (row.kind = "SDN" <=> ~Customer)
  BY <1>1, <1>2, <1>3
<1> QED
  BY <1>1, <1>2, <1>3, <1>5, <1>6, <1>7, <1>11, <1>12, <1>13, NoteBooks

\* A supplier debit note is at most what is due, today.
LEMMA ApplyNoteBooks ==
  ASSUME BooksInv, NEW n \in Note, NEW late \in BOOLEAN, ApplyNote(n, late)
  PROVE  BooksInv'
<1>0. PICK b \in Bill : b = note[n].bill
  BY NoteHere DEF IssueCreditNote, IssueDebitNote, ApplyNote
<1> DEFINE row == Applied(n, late)
           a == note[n].amount
           C == Noted(b, Less)
           D == Noted(b, More)
           P == PaidFor(b)
           T == bill[b].total
<1>1. /\ note[n] # Absent /\ note[n].status = "DRAFT" /\ note[n].kind = "SDN"
      /\ Has(b, {"OPEN"}) /\ a <= BalanceDue(b)
      /\ note' = [note EXCEPT ![n] = row] /\ UNCHANGED <<ops, today, bill, pay, balance, stood>>
  BY <1>0 DEF ApplyNote, Applied
<1>2. /\ note[n] \in NoteRow /\ b \in Bill /\ a \in Nat /\ a > 0 /\ ~Customer /\ today \in Days
  BY <1>0, <1>1, NoteHere
<1>3. /\ row \in NoteRow /\ row.kind = "SDN" /\ row.bill = b
      /\ row.booked = today /\ row # Absent /\ ~Counts(note[n])
      /\ Effective(row, Less) = a /\ Effective(row, More) = 0
  BY <1>0, <1>1, IssuedIs DEF Less, More
<1>4. note[n].bill = b
  BY <1>0
<1> HIDE DEF row, a, C, D, P, T
<1>5. Has(b, INCLUDE_STATUSES) /\ balance' = balance /\ balance \in Nat
  BY <1>1 DEF Has, INCLUDE_STATUSES, BooksInv, StatementsTypeOK
<1>6. /\ StatementsTypeOK' /\ note'[n] = row
      /\ bill[b] \in BillRow /\ bill'[b] \in BillRow
      /\ \A q \in Note \ {n} : note'[q] = note[q]
      /\ bill'[b].total = bill[b].total
  BY <1>1, <1>2, <1>3, <1>5, TypesAfterNote
<1>7. /\ C \in Nat /\ D \in Nat /\ P \in Nat /\ T \in Nat
      /\ PaidFor(b)' = P /\ Noted(b, Less)' = C + a
      /\ BalanceDue(b) = Monus(T + D, P + C)
      /\ Surplus(b) = Monus(P + C, T + D) /\ Surplus(b)' = Monus(P + C + a, T + D + 0)
  BY <1>1, <1>2, <1>3, <1>4, <1>6, AfterNote DEF BooksInv, C, D, P, T
<1>8. ~Has(b, {"PAID"})'
  BY <1>1 DEF Has
<1>9. P + C + a <= T + D
  BY <1>1, <1>2, <1>7 DEF Monus
<1>10. ASSUME NoDebitNote'
       PROVE  /\ PaidFor(b)' + (IF Customer THEN 0 ELSE Noted(b, Less)') <= bill[b].total
              /\ balance' = balance - Surplus(b) + Surplus(b)'
  <2>1. NoDebitNote
    <3>1. ASSUME NEW q \in Note, note[q] # Absent PROVE note[q].kind # "TDN"
      <4>1. CASE q = n
        BY <1>1, <4>1
      <4>2. CASE q # n
        BY <1>6, <1>10, <3>1, <4>2 DEF NoDebitNote
      <4> QED
        BY <4>1, <4>2
    <3> QED
      BY <3>1 DEF NoDebitNote
  <2>2. D = 0
    BY <1>2, <2>1, NotDebited DEF D
  <2>3. P + (C + a) <= T
    BY <1>2, <1>7, <1>9, <2>2
  <2>4. Surplus(b) = 0 /\ Surplus(b)' = 0
    BY <1>2, <1>7, <1>9 DEF Monus
  <2> QED
    BY <1>2, <1>5, <1>7, <2>3, <2>4 DEF T
<1>11. note[n].kind = row.kind /\ (row.kind = "SDN" <=> ~Customer)
  BY <1>1, <1>2, <1>3
<1> QED
  BY <1>1, <1>2, <1>3, <1>4, <1>5, <1>8, <1>10, <1>11, NoteBooks

-----------------------------------------------------------------------------
(* Midnight, and the invariance.                                           *)

\* Balances are naturals.
LEMMA DueNat ==
  ASSUME StatementsTypeOK, NEW b \in Bill, bill[b] # Absent
  PROVE  /\ BalanceDue(b) \in Nat /\ PaidFor(b) \in Nat /\ Noted(b, Less) \in Nat
         /\ Noted(b, More) \in Nat /\ bill[b].total \in Nat /\ Owed(b) \in Nat
<1>1. /\ PaidFor(b) \in Nat /\ Noted(b, Less) \in Nat /\ Noted(b, More) \in Nat
      /\ bill[b].total \in Nat
  BY Naturals, DocFits, BillFits
<1> QED
  BY <1>1 DEF BalanceDue, Owed, Monus

\* By the end of today everything that counts has been booked.
LEMMA AllBooked ==
  ASSUME StatementsTypeOK, BooksFit, NEW b \in Bill, Has(b, INCLUDE_STATUSES)
  PROVE  AsBooked(b, today) = BalanceDue(b)
<1>1. today \in Nat /\ bill[b].booked \in 1 .. today
  BY DocFits DEF BooksFit
<1>2. BookedBy(today, PaymentsOf(b, "SUCCESS"), pay) = PaymentsOf(b, "SUCCESS")
  BY <1>1 DEF BookedBy, PaymentsOf, BooksFit
<1>3. \A kinds : BookedBy(today, NotesOf(b, kinds), note) = NotesOf(b, kinds)
  BY <1>1 DEF BookedBy, NotesOf, BooksFit
<1>4. AsBooked(b, today) = Monus(bill[b].total + Noted(b, More), Noted(b, Less) + PaidFor(b))
  BY <1>1, <1>2, <1>3 DEF AsBooked, Noted, PaidFor
<1>5. PaidFor(b) \in Nat /\ Noted(b, Less) \in Nat
  BY DueNat DEF Has
<1>6. Noted(b, Less) + PaidFor(b) = PaidFor(b) + Noted(b, Less)
  BY <1>5
<1> QED
  BY <1>4, <1>6 DEF BalanceDue, Owed

\* The day that ends keeps what all that has been booked so far makes of it.
LEMMA NextDayBooks == ASSUME BooksInv, NextDay PROVE BooksInv'
<1> DEFINE ended == [b \in Bill |-> IF b \in OpenBills THEN BalanceDue(b) ELSE 0]
<1>1. /\ today < LastDay /\ today' = today + 1 /\ stood' = [stood EXCEPT ![today] = ended]
      /\ UNCHANGED <<ops, bill, pay, note, balance>>
  BY DEF NextDay, docs
<1>2. today \in Nat /\ today \in Days /\ today' \in Days
  BY <1>1, AmountsAssumption DEF BooksInv, StatementsTypeOK, Days
<1>3. ended \in [Bill -> Nat]
  <2>1. \A b \in OpenBills : BalanceDue(b) \in Nat
    BY DueNat DEF OpenBills, Has, BooksInv
  <2> QED
    BY <2>1
<1>4. \A b \in Bill : ended[b] = IF b \in OpenBills THEN BalanceDue(b) ELSE 0
  OBVIOUS
<1> HIDE DEF ended
<1>5. StatementsTypeOK'
  BY <1>1, <1>2, <1>3 DEF BooksInv, StatementsTypeOK
<1>6. BooksFit'
  BY <1>1, <1>2 DEF BooksInv, BooksFit, Has, Customer
<1>7. /\ Customer' = Customer /\ \A b : \A s : Has(b, s)' <=> Has(b, s)
      /\ \A b : /\ PaidFor(b)' = PaidFor(b)
                /\ \A s : PaymentsOf(b, s)' = PaymentsOf(b, s)
                /\ \A kinds : NotesOf(b, kinds)' = NotesOf(b, kinds)
                              /\ Noted(b, kinds)' = Noted(b, kinds)
  BY <1>1, SameDocs DEF Customer, Has
<1>8. \A b : BalanceDue(b)' = BalanceDue(b) /\ Surplus(b)' = Surplus(b)
  BY <1>1, <1>7 DEF BalanceDue, Surplus, CreditOwing, Owed
<1>9. PaidIsSettled'
  BY <1>7, <1>8 DEF BooksInv, PaidIsSettled
<1>10. ParkedIsSurplus'
  <2>1. (NoDebitNote' <=> NoDebitNote) /\ (VoidedUncredited' <=> VoidedUncredited)
    BY <1>1, <1>7 DEF NoDebitNote, VoidedUncredited, Voided
  <2>2. [b \in Bill |-> Surplus(b)]' = [b \in Bill |-> Surplus(b)]
    BY <1>8
  <2>3. SumFunction([b \in Bill |-> Surplus(b)])' = SumFunction([b \in Bill |-> Surplus(b)])
    BY <2>2
  <2> QED
    BY <1>1, <1>7, <2>1, <2>3 DEF BooksInv, ParkedIsSurplus
<1>11. PastIsBooked'
  <2>1. SUFFICES ASSUME Customer, NEW d \in 1 .. today, NEW b \in Bill
        PROVE  /\ bill[b] = Absent \/ Has(b, {"DRAFT"}) => stood'[d][b] = 0
               /\ Has(b, INCLUDE_STATUSES) => stood'[d][b] = AsBooked(b, d)
    <3>1. \A d : \A b : AsBooked(b, d)' = AsBooked(b, d)
      BY <1>1, <1>7 DEF AsBooked, BookedBy, Written, Paid
    <3>2. today' - 1 = today
      BY <1>1, <1>2
    <3> QED
      BY <1>1, <1>7, <3>1, <3>2 DEF PastIsBooked
  <2>2. CASE d # today
    <3>1. d \in 1 .. today - 1 /\ stood'[d] = stood[d]
      BY <1>1, <1>2, <2>2 DEF BooksInv, StatementsTypeOK, Days
    <3> QED
      BY <2>1, <3>1 DEF BooksInv, PastIsBooked
  <2>3. CASE d = today
    <3>1. stood'[d][b] = IF b \in OpenBills THEN BalanceDue(b) ELSE 0
      BY <1>1, <1>2, <1>4, <2>3 DEF BooksInv, StatementsTypeOK
    <3>2. bill[b] = Absent \/ Has(b, {"DRAFT"}) => b \notin OpenBills
      BY DEF OpenBills, Has
    <3>3. ASSUME Has(b, INCLUDE_STATUSES) PROVE stood'[d][b] = AsBooked(b, d)
      <4>1. AsBooked(b, d) = BalanceDue(b)
        BY <2>3, <3>3, AllBooked DEF BooksInv
      <4>2. b \notin OpenBills => BalanceDue(b) = 0
        <5>1. b \notin OpenBills => Has(b, {"PAID"})
          BY <3>3 DEF OpenBills, Has, INCLUDE_STATUSES
        <5> QED
          BY <5>1 DEF BooksInv, PaidIsSettled
      <4> QED
        BY <3>1, <4>1, <4>2
    <3> QED
      BY <3>1, <3>2, <3>3
  <2> QED
    BY <2>2, <2>3
<1> QED
  BY <1>5, <1>6, <1>9, <1>10, <1>11 DEF BooksInv

\* Nothing is there at first, and nothing parked.
LEMMA InitBooks == ASSUME InitStatements PROVE BooksInv
<1>1. StatementsTypeOK
  BY AmountsAssumption DEF InitStatements, StatementsTypeOK, Days
<1>2. /\ \A b \in Bill : bill[b] = Absent
      /\ \A p \in Pay : pay[p] = Absent
      /\ \A n \in Note : note[n] = Absent
      /\ balance = 0 /\ today = 1
  BY DEF InitStatements
<1>3. BooksFit /\ PaidIsSettled
  BY <1>2 DEF BooksFit, PaidIsSettled, Has
<1>4. ParkedIsSurplus
  <2> DEFINE f == [b \in Bill |-> Surplus(b)]
  <2>1. DOMAIN f = Bill /\ \A b \in Bill : f[b] = 0
    BY <1>2 DEF Surplus
  <2> HIDE DEF f
  <2>2. SumFunction(f) = 0
    BY <2>1, RowsAssumption, SumZero
  <2> QED
    BY <1>2, <2>2 DEF ParkedIsSurplus, f
<1>5. PastIsBooked
  BY <1>2 DEF PastIsBooked
<1> QED
  BY <1>1, <1>3, <1>4, <1>5 DEF BooksInv

\* Every step keeps the invariant.
LEMMA StepBooks == ASSUME BooksInv, [StatementsNext]_reporting PROVE BooksInv'
<1>1. ASSUME NEW b \in Bill, NEW total \in Totals, NEW d \in Dates, NEW late \in BOOLEAN,
             Enter(b, total, d, late)
      PROVE  BooksInv'
  BY <1>1, EnterBooks
<1>2. ASSUME NEW b \in Bill, Book(b) \/ Void(b) PROVE BooksInv'
  BY <1>2, BookBooks, VoidBooks
<1>3. ASSUME NEW p \in Pay, NEW b \in Bill, NEW a \in Amounts, NEW m \in {"PDC", "CASH"},
             NEW d \in PastDates, RecordPayment(p, b, a, m, d)
      PROVE  BooksInv'
  BY <1>3, RecordPaymentBooks
<1>4. ASSUME NEW p \in Pay, ClearCheque(p) \/ BounceCheque(p) \/ ReversePayment(p)
      PROVE  BooksInv'
  BY <1>4, ClearChequeBooks, BounceChequeBooks, ReversePaymentBooks
<1>5. ASSUME NEW n \in Note, NEW k \in Kinds, NEW b \in Bill, NEW a \in Amounts,
             NEW d \in Dates, DraftNote(n, k, b, a, d)
      PROVE  BooksInv'
  BY <1>5, DraftNoteBooks
<1>6. ASSUME NEW n \in Note,
             IssueCreditNote(n) \/ IssueDebitNote(n) \/ \E late \in BOOLEAN : ApplyNote(n, late)
      PROVE  BooksInv'
  BY <1>6, IssueCreditNoteBooks, IssueDebitNoteBooks, ApplyNoteBooks
<1>7. CASE NextDay
  BY <1>7, NextDayBooks
<1>8. CASE UNCHANGED reporting
  <2>1. UNCHANGED <<ops, today, bill, pay, note, balance, stood>>
    BY <1>8 DEF reporting, docs
  <2>2. StatementsTypeOK'
    BY <2>1 DEF BooksInv, StatementsTypeOK
  <2>3. BooksFit'
    BY <2>1 DEF BooksInv, BooksFit, Has, Customer
  <2>4. /\ Customer' = Customer /\ \A b : \A s : Has(b, s)' <=> Has(b, s)
        /\ \A b : /\ PaidFor(b)' = PaidFor(b)
                  /\ \A s : PaymentsOf(b, s)' = PaymentsOf(b, s)
                  /\ \A kinds : NotesOf(b, kinds)' = NotesOf(b, kinds)
                                /\ Noted(b, kinds)' = Noted(b, kinds)
    BY <2>1, SameDocs DEF Customer, Has
  <2>5. \A b : BalanceDue(b)' = BalanceDue(b) /\ Surplus(b)' = Surplus(b)
    BY <2>1, <2>4 DEF BalanceDue, Surplus, CreditOwing, Owed
  <2>6. PaidIsSettled'
    BY <2>4, <2>5 DEF BooksInv, PaidIsSettled
  <2>7. ParkedIsSurplus'
    <3>1. (NoDebitNote' <=> NoDebitNote) /\ (VoidedUncredited' <=> VoidedUncredited)
      BY <2>1, <2>4 DEF NoDebitNote, VoidedUncredited, Voided
    <3>2. [b \in Bill |-> Surplus(b)]' = [b \in Bill |-> Surplus(b)]
      BY <2>5
    <3>3. SumFunction([b \in Bill |-> Surplus(b)])' = SumFunction([b \in Bill |-> Surplus(b)])
      BY <3>2
    <3> QED
      BY <2>1, <2>4, <3>1, <3>3 DEF BooksInv, ParkedIsSurplus
  <2>8. PastIsBooked'
    <3>1. \A d : \A b : AsBooked(b, d)' = AsBooked(b, d)
      BY <2>1, <2>4 DEF AsBooked, BookedBy, Written, Paid
    <3> QED
      BY <2>1, <2>4, <3>1 DEF BooksInv, PastIsBooked
  <2> QED
    BY <2>2, <2>3, <2>6, <2>7, <2>8 DEF BooksInv
<1> QED
  BY <1>1, <1>2, <1>3, <1>4, <1>5, <1>6, <1>7, <1>8 DEF StatementsNext

\* Payments and notes fit invoices that were booked, PAID owes nothing, what is
\* parked on the client is what its invoices were overpaid by, and the past is
\* what was booked by then.
THEOREM BooksInvariance == StatementsSpec => []BooksInv
<1>1. InitStatements => BooksInv
  BY InitBooks
<1>2. BooksInv /\ [StatementsNext]_reporting => BooksInv'
  BY StepBooks
<1> QED
  BY <1>1, <1>2, PTL DEF StatementsSpec

-----------------------------------------------------------------------------
(* What was owed on a past day.                                            *)

\* Where the same documents are dated as were booked by a day, their sums agree.
LEMMA BooksHistory == BooksInv => HistoryStands
<1>1. SUFFICES ASSUME BooksInv, Customer, NEW d \in 1 .. today - 1, NEW b \in Included,
                      bill[b].date <= d <=> bill[b].booked <= d,
                      \A p \in PaymentsOf(b, "SUCCESS") : pay[p].date <= d <=> pay[p].booked <= d,
                      \A n \in NotesOf(b, Less \cup More) :
                        note[n].date <= d <=> note[n].booked <= d
      PROVE  Reconstructed(b, d) = stood[d][b]
  BY DEF HistoryStands
<1>2. b \in Bill /\ Has(b, INCLUDE_STATUSES)
  BY DEF Included
<1>3. stood[d][b] = AsBooked(b, d)
  BY <1>1, <1>2 DEF BooksInv, PastIsBooked
<1>4. bill[b].date \in Nat /\ bill[b].booked \in Nat /\ d \in Nat
  <2>1. bill[b] \in BillRow
    BY <1>1, <1>2, DocFits DEF BooksInv, Has
  <2>2. bill[b].booked \in 1 .. today /\ today \in Nat
    BY <1>1, <1>2, DocFits DEF BooksInv, BooksFit
  <2> QED
    BY <2>1, <2>2, BillFits DEF Days
<1>5. {p \in PaymentsOf(b, "SUCCESS") : pay[p].date <= d} =
        BookedBy(d, PaymentsOf(b, "SUCCESS"), pay)
  BY <1>1 DEF BookedBy
<1>6. ASSUME NEW kinds \in SUBSET (Less \cup More)
      PROVE  {n \in NotesOf(b, kinds) : note[n].date <= d} = BookedBy(d, NotesOf(b, kinds), note)
  <2>1. NotesOf(b, kinds) \subseteq NotesOf(b, Less \cup More)
    BY DEF NotesOf
  <2> QED
    BY <1>1, <2>1 DEF BookedBy
<1>7. /\ {n \in NotesOf(b, Less) : note[n].date <= d} = BookedBy(d, NotesOf(b, Less), note)
      /\ {n \in NotesOf(b, More) : note[n].date <= d} = BookedBy(d, NotesOf(b, More), note)
  BY <1>6
<1>8. bill[b].date > d <=> bill[b].booked > d
  BY <1>1, <1>4
<1> QED
  BY <1>2, <1>3, <1>5, <1>7, <1>8 DEF Reconstructed, AsBooked

\* What an ageing report reconstructs of a past day is what stood that day, of
\* invoices whose documents were booked by then exactly if dated by then.
THEOREM PastStands == StatementsSpec => []HistoryStands
BY BooksInvariance, BooksHistory, PTL

-----------------------------------------------------------------------------
(* Statements: sums over the days of a period.                             *)

\* The sum of the values of f dated between two days.
Over(f, date, from, to) == SumFunction([x \in {y \in DOMAIN f : In(date[y], from, to)} |-> f[x]])

\* What falls in a period adds up to a number.
LEMMA OverInt ==
  ASSUME NEW f, IsFiniteSet(DOMAIN f), \A x \in DOMAIN f : f[x] \in Int, NEW date,
         NEW from, NEW to
  PROVE  Over(f, date, from, to) \in Int
<1> DEFINE T == {y \in DOMAIN f : In(date[y], from, to)}
           g == [x \in T |-> f[x]]
<1>1. T \in SUBSET DOMAIN f /\ DOMAIN g = T /\ \A x \in T : g[x] \in Int
  OBVIOUS
<1>2. IsFiniteSet(T)
  BY <1>1, FS_Subset
<1> HIDE DEF g
<1>3. SumFunction(g) \in Int
  BY <1>1, <1>2, SumType
<1> QED
  BY <1>3 DEF Over, g

\* A period is split wherever one likes.
LEMMA OverSplit ==
  ASSUME NEW f, IsFiniteSet(DOMAIN f), \A x \in DOMAIN f : f[x] \in Int,
         NEW date, \A x \in DOMAIN f : date[x] \in Nat,
         NEW d \in Nat, NEW e \in Nat, 1 <= d, d <= e
  PROVE  Over(f, date, 1, e) = Over(f, date, 1, d - 1) + Over(f, date, d, e)
<1> DEFINE A == {y \in DOMAIN f : In(date[y], 1, d - 1)}
           B == {y \in DOMAIN f : In(date[y], d, e)}
           C == {y \in DOMAIN f : In(date[y], 1, e)}
           g == [x \in A |-> f[x]]
           h == [x \in B |-> f[x]]
           k == [x \in C |-> f[x]]
<1>1. \A x \in DOMAIN f : /\ In(date[x], 1, e) <=> In(date[x], 1, d - 1) \/ In(date[x], d, e)
                          /\ ~(In(date[x], 1, d - 1) /\ In(date[x], d, e))
  BY DEF In
<1>2. /\ C = A \cup B /\ A \cap B = {} /\ A \in SUBSET DOMAIN f /\ B \in SUBSET DOMAIN f
  BY <1>1
<1>3. IsFiniteSet(A) /\ IsFiniteSet(B)
  BY <1>2, FS_Subset
<1>4. /\ DOMAIN g = A /\ DOMAIN h = B /\ DOMAIN k = C
      /\ \A x \in A : g[x] = f[x] /\ f[x] \in Int
      /\ \A x \in B : h[x] = f[x] /\ f[x] \in Int
      /\ \A x \in C : k[x] = f[x]
  OBVIOUS
<1>5. SumFunction(g) = Over(f, date, 1, d - 1) /\ SumFunction(h) = Over(f, date, d, e)
      /\ SumFunction(k) = Over(f, date, 1, e)
  BY DEF Over
<1> HIDE DEF g, h, k, A, B, C
<1>6. /\ DOMAIN k = A \cup B /\ \A x \in A : k[x] = g[x] /\ g[x] \in Int
      /\ \A x \in B : k[x] = h[x] /\ h[x] \in Int
  BY <1>2, <1>4
<1>7. SumFunction(k) = SumFunction(g) + SumFunction(h)
  BY <1>2, <1>3, <1>4, <1>6, SumUnion
<1> QED
  BY <1>5, <1>7

\* Totals and amounts, and dates, of rows of a table.
TotalOf(entries) == [b \in entries |-> bill[b].total]
AmountOf(entries, table) == [r \in entries |-> table[r].amount]
DateOf(entries, table) == [r \in entries |-> table[r].date]

\* The sums of a statement, as sums over what falls in a period.
LEMMA OverIs ==
  ASSUME NEW from, NEW to, NEW status, NEW kinds
  PROVE  /\ BilledIn(from, to) = Over(TotalOf(Included), DateOf(Included, bill), from, to)
         /\ PaidIn(status, from, to) =
              Over(AmountOf(StatedPayments(status), pay), DateOf(StatedPayments(status), pay),
                   from, to)
         /\ NotedIn(kinds, from, to) =
              Over(AmountOf(StatedNotes(kinds), note), DateOf(StatedNotes(kinds), note), from, to)
<1>1. BilledIn(from, to) = Over(TotalOf(Included), DateOf(Included, bill), from, to)
  <2> DEFINE f == TotalOf(Included)
             date == DateOf(Included, bill)
             T == {b \in Included : In(bill[b].date, from, to)}
  <2>1. T = {y \in DOMAIN f : In(date[y], from, to)}
    BY DEF TotalOf, DateOf
  <2>2. [b \in T |-> bill[b].total] = [x \in T |-> f[x]]
    BY DEF TotalOf
  <2> QED
    BY <2>1, <2>2 DEF BilledIn, Billed, Over
<1>2. ASSUME NEW table, NEW entries
      PROVE  Amount(table, {r \in entries : In(table[r].date, from, to)}) =
               Over(AmountOf(entries, table), DateOf(entries, table), from, to)
  <2> DEFINE f == AmountOf(entries, table)
             date == DateOf(entries, table)
             T == {r \in entries : In(table[r].date, from, to)}
  <2>1. T = {y \in DOMAIN f : In(date[y], from, to)}
    BY DEF AmountOf, DateOf
  <2>2. [r \in T |-> table[r].amount] = [x \in T |-> f[x]]
    BY DEF AmountOf
  <2> QED
    BY <2>1, <2>2 DEF Amount, Over
<1>3. /\ PaidIn(status, from, to) =
           Amount(pay, {p \in StatedPayments(status) : In(pay[p].date, from, to)})
      /\ NotedIn(kinds, from, to) =
           Amount(note, {n \in StatedNotes(kinds) : In(note[n].date, from, to)})
  BY DEF PaidIn, NotedIn, Paid, Written, Amount
<1> QED
  BY <1>1, <1>2, <1>3

\* The rows of a statement.
LEMMA StatedFit ==
  ASSUME StatementsTypeOK
  PROVE  /\ IsFiniteSet(Included) /\ Included \subseteq Bill
         /\ \A b \in Included :
              bill[b] \in BillRow /\ bill[b].total \in Nat /\ bill[b].date \in Days
         /\ \A s : /\ IsFiniteSet(StatedPayments(s)) /\ StatedPayments(s) \subseteq Pay
                   /\ \A p \in StatedPayments(s) : /\ pay[p] \in PayRow /\ pay[p].amount \in Nat
                                                   /\ pay[p].date \in Days /\ pay[p].status = s
                                                   /\ pay[p].bill \in Included
         /\ \A k : /\ IsFiniteSet(StatedNotes(k)) /\ StatedNotes(k) \subseteq Note
                   /\ \A n \in StatedNotes(k) : /\ note[n] \in NoteRow /\ note[n].amount \in Nat
                                                /\ note[n].date \in Days /\ note[n].kind \in k
                                                /\ note[n].bill \in Included
<1>1. IsFiniteSet(Included) /\ Included \subseteq Bill
  <2>1. Included \in SUBSET Bill
    BY DEF Included
  <2> QED
    BY <2>1, RowsAssumption, FS_Subset
<1>2. \A b \in Included : bill[b] \in BillRow /\ bill[b].total \in Nat /\ bill[b].date \in Days
  BY DocFits, BillFits DEF Included, Has
<1>3. ASSUME NEW s
      PROVE  /\ IsFiniteSet(StatedPayments(s)) /\ StatedPayments(s) \subseteq Pay
             /\ \A p \in StatedPayments(s) : /\ pay[p] \in PayRow /\ pay[p].amount \in Nat
                                             /\ pay[p].date \in Days /\ pay[p].status = s
                                             /\ pay[p].bill \in Included
  <2>1. StatedPayments(s) \in SUBSET Pay
    BY DEF StatedPayments, PaymentsOf
  <2>2. \A p \in StatedPayments(s) : /\ p \in Pay /\ pay[p] # Absent /\ pay[p].status = s
                                     /\ pay[p].bill \in Included
    BY DEF StatedPayments, PaymentsOf
  <2>3. \A p \in StatedPayments(s) : pay[p] \in PayRow
    BY <2>2, DocFits
  <2>4. \A row \in PayRow : row.amount \in Nat /\ row.date \in Days
    BY AmountIsNat DEF PayRow
  <2> QED
    BY <2>1, <2>2, <2>3, <2>4, RowsAssumption, FS_Subset
<1>4. ASSUME NEW k
      PROVE  /\ IsFiniteSet(StatedNotes(k)) /\ StatedNotes(k) \subseteq Note
             /\ \A n \in StatedNotes(k) : /\ note[n] \in NoteRow /\ note[n].amount \in Nat
                                          /\ note[n].date \in Days /\ note[n].kind \in k
                                          /\ note[n].bill \in Included
  <2>1. StatedNotes(k) \in SUBSET Note
    BY DEF StatedNotes, NotesOf
  <2>2. \A n \in StatedNotes(k) : /\ n \in Note /\ note[n] # Absent /\ note[n].kind \in k
                                  /\ note[n].bill \in Included
    BY DEF StatedNotes, NotesOf
  <2>3. \A n \in StatedNotes(k) : note[n] \in NoteRow
    BY <2>2, DocFits
  <2>4. \A row \in NoteRow : row.amount \in Nat /\ row.date \in Days
    BY AmountIsNat DEF NoteRow
  <2> QED
    BY <2>1, <2>2, <2>3, <2>4, RowsAssumption, FS_Subset
<1> QED
  BY <1>1, <1>2, <1>3, <1>4

\* The tables over which the sums go.
LEMMA SumsFit ==
  ASSUME StatementsTypeOK
  PROVE  /\ LET f == TotalOf(Included)
                date == DateOf(Included, bill)
            IN  IsFiniteSet(DOMAIN f) /\ \A x \in DOMAIN f : f[x] \in Int /\ date[x] \in Nat
         /\ \A s : LET f == AmountOf(StatedPayments(s), pay)
                       date == DateOf(StatedPayments(s), pay)
                   IN  IsFiniteSet(DOMAIN f) /\ \A x \in DOMAIN f : f[x] \in Int /\ date[x] \in Nat
         /\ \A k : LET f == AmountOf(StatedNotes(k), note)
                       date == DateOf(StatedNotes(k), note)
                   IN  IsFiniteSet(DOMAIN f) /\ \A x \in DOMAIN f : f[x] \in Int /\ date[x] \in Nat
<1>1. \A d \in Days : d \in Nat
  BY DEF Days
<1> QED
  BY <1>1, StatedFit DEF TotalOf, AmountOf, DateOf

\* What a period adds to what is owed.
Net(from, to) ==
    BilledIn(from, to) - PaidIn("SUCCESS", from, to) - NotedIn(Less, from, to)
        + NotedIn(More, from, to)

\* The moves of a period add up to a number.
LEMMA NetInt ==
  ASSUME StatementsTypeOK, NEW from, NEW to
  PROVE  /\ BilledIn(from, to) \in Int /\ PaidIn("SUCCESS", from, to) \in Int
         /\ NotedIn(Less, from, to) \in Int /\ NotedIn(More, from, to) \in Int
         /\ Net(from, to) \in Int
<1>1. /\ BilledIn(from, to) \in Int /\ PaidIn("SUCCESS", from, to) \in Int
      /\ NotedIn(Less, from, to) \in Int /\ NotedIn(More, from, to) \in Int
  BY OverIs, SumsFit, OverInt
<1> QED
  BY <1>1 DEF Net

\* What moves until the end of a period moves before it or in it.
LEMMA NetSplit ==
  ASSUME StatementsTypeOK, NEW d \in Nat, NEW e \in Nat, 1 <= d, d <= e
  PROVE  Net(1, e) = Net(1, d - 1) + Net(d, e)
<1>1. /\ BilledIn(1, e) = BilledIn(1, d - 1) + BilledIn(d, e)
      /\ PaidIn("SUCCESS", 1, e) = PaidIn("SUCCESS", 1, d - 1) + PaidIn("SUCCESS", d, e)
      /\ NotedIn(Less, 1, e) = NotedIn(Less, 1, d - 1) + NotedIn(Less, d, e)
      /\ NotedIn(More, 1, e) = NotedIn(More, 1, d - 1) + NotedIn(More, d, e)
  <2>1. BilledIn(1, e) = BilledIn(1, d - 1) + BilledIn(d, e)
    <3> DEFINE f == TotalOf(Included)
               date == DateOf(Included, bill)
    <3>1. IsFiniteSet(DOMAIN f) /\ \A x \in DOMAIN f : f[x] \in Int /\ date[x] \in Nat
      BY SumsFit
    <3>2. \A from, to : BilledIn(from, to) = Over(f, date, from, to)
      BY OverIs
    <3> HIDE DEF f, date
    <3> QED
      BY <3>1, <3>2, OverSplit
  <2>2. ASSUME NEW s
        PROVE  PaidIn(s, 1, e) = PaidIn(s, 1, d - 1) + PaidIn(s, d, e)
    <3> DEFINE f == AmountOf(StatedPayments(s), pay)
               date == DateOf(StatedPayments(s), pay)
    <3>1. IsFiniteSet(DOMAIN f) /\ \A x \in DOMAIN f : f[x] \in Int /\ date[x] \in Nat
      BY SumsFit
    <3>2. \A from, to : PaidIn(s, from, to) = Over(f, date, from, to)
      BY OverIs
    <3> HIDE DEF f, date
    <3> QED
      BY <3>1, <3>2, OverSplit
  <2>3. ASSUME NEW k
        PROVE  NotedIn(k, 1, e) = NotedIn(k, 1, d - 1) + NotedIn(k, d, e)
    <3> DEFINE f == AmountOf(StatedNotes(k), note)
               date == DateOf(StatedNotes(k), note)
    <3>1. IsFiniteSet(DOMAIN f) /\ \A x \in DOMAIN f : f[x] \in Int /\ date[x] \in Nat
      BY SumsFit
    <3>2. \A from, to : NotedIn(k, from, to) = Over(f, date, from, to)
      BY OverIs
    <3> HIDE DEF f, date
    <3> QED
      BY <3>1, <3>2, OverSplit
  <2> QED
    BY <2>1, <2>2, <2>3
<1>2. /\ BilledIn(1, d - 1) \in Int /\ BilledIn(d, e) \in Int
      /\ PaidIn("SUCCESS", 1, d - 1) \in Int /\ PaidIn("SUCCESS", d, e) \in Int
      /\ NotedIn(Less, 1, d - 1) \in Int /\ NotedIn(Less, d, e) \in Int
      /\ NotedIn(More, 1, d - 1) \in Int /\ NotedIn(More, d, e) \in Int
  BY NetInt
<1> QED
  BY <1>1, <1>2 DEF Net

-----------------------------------------------------------------------------
(* Statements: the lines of a period.                                      *)

\* What lines add to the running balance.
Moves(lines) == SumFunction([r \in lines |-> r.debit - r.credit])

\* Lines about documents of the set.
LinesOf(lines, entries) ==
    /\ IsFiniteSet(lines)
    /\ \A r \in lines : r.doc \in entries /\ r.debit - r.credit \in Int

\* The lines of the documents S.
Lines(S, debit, credit) == {Line(x, debit[x], credit[x]) : x \in S}

\* The lines of some documents move as much as the documents say.
LEMMA LinesSum ==
  ASSUME NEW S, IsFiniteSet(S), NEW f, DOMAIN f = S, NEW debit, NEW credit,
         \A x \in S : debit[x] \in Int /\ credit[x] \in Int /\ f[x] = debit[x] - credit[x],
         NEW L, L = Lines(S, debit, credit)
  PROVE  LinesOf(L, S) /\ Moves(L) = SumFunction(f)
<1> DEFINE h == [x \in S |-> Line(x, debit[x], credit[x])]
           g == [r \in L |-> r.debit - r.credit]
<1>1. /\ \A x \in S : h[x] \in L /\ h[x] = Line(x, debit[x], credit[x])
      /\ \A r \in L : \E x \in S : h[x] = r
      /\ h \in Surjection(S, L) /\ DOMAIN g = L
  BY DEF Lines, Surjection
<1>2. \A x \in S : h[x].doc = x /\ h[x].debit = debit[x] /\ h[x].credit = credit[x]
  BY <1>1 DEF Line
<1>3. \A x \in S : g[h[x]] = f[x] /\ f[x] \in Int
  BY <1>1, <1>2
<1>4. IsFiniteSet(L)
  BY <1>1, FS_Surjection
<1>5. \A r \in L : r.doc \in S /\ r.debit - r.credit \in Int
  BY <1>1, <1>2
<1>6. Moves(L) = SumFunction(g)
  BY DEF Moves
<1> HIDE DEF g, h
<1>7. \A x, y \in S : h[x] = h[y] => x = y
  BY <1>2
<1>8. SumFunction(g) = SumFunction(f)
  <2>1. \A x \in S : h[x] \in L
    BY <1>1
  <2>2. (\A r \in L : \E x \in S : h[x] = r) /\ DOMAIN g = L
    BY <1>1
  <2>3. \A x \in S : f[x] \in Int
    BY <1>3
  <2>4. \A x \in S : g[h[x]] = f[x]
    BY <1>3
  <2>5. IsFiniteSet(S) /\ DOMAIN f = S /\ DOMAIN g = L
    BY <1>1
  <2>6. \A r \in L : \E x \in S : h[x] = r
    BY <1>1
  <2> QED
    BY <1>7, <2>1, <2>3, <2>4, <2>5, <2>6, SumImage
<1> QED
  BY <1>4, <1>5, <1>6, <1>8 DEF LinesOf

\* Lines of disjoint sets of documents.
Both(A, B) == A \cup B
Apart(A, B) == A \cap B = {}

\* Lines of disjoint sets of documents move the sum of both,
LEMMA MovesUnion ==
  ASSUME NEW R, NEW S, Apart(R, S), NEW L, LinesOf(L, R), NEW M, LinesOf(M, S)
  PROVE  /\ LinesOf(Both(L, M), Both(R, S)) /\ Moves(L) \in Int /\ Moves(M) \in Int
         /\ Moves(Both(L, M)) = Moves(L) + Moves(M)
<1> DEFINE g == [r \in L |-> r.debit - r.credit]
           h == [r \in M |-> r.debit - r.credit]
           f == [r \in L \cup M |-> r.debit - r.credit]
<1>1. /\ DOMAIN g = L /\ DOMAIN h = M /\ DOMAIN f = L \cup M
      /\ \A r \in L : f[r] = g[r] /\ g[r] \in Int
      /\ \A r \in M : f[r] = h[r] /\ h[r] \in Int
  BY DEF LinesOf
<1>2. IsFiniteSet(L) /\ IsFiniteSet(M) /\ L \cap M = {}
  BY DEF LinesOf, Apart
<1>3. LinesOf(Both(L, M), Both(R, S))
  BY FS_Union DEF LinesOf, Both
<1>4. Moves(L) = SumFunction(g) /\ Moves(M) = SumFunction(h) /\ Moves(Both(L, M)) = SumFunction(f)
  BY DEF Moves, Both
<1> HIDE DEF f, g, h
<1>5. SumFunction(f) = SumFunction(g) + SumFunction(h)
  <2>1. L \cap M = {}
    BY <1>2
  <2>2. IsFiniteSet(L) /\ IsFiniteSet(M)
    BY <1>2
  <2>3. DOMAIN g = L /\ DOMAIN h = M /\ DOMAIN f = L \cup M
    BY <1>1
  <2>4. (\A r \in L : f[r] = g[r]) /\ (\A r \in L : g[r] \in Int)
    BY <1>1
  <2>5. (\A r \in M : f[r] = h[r]) /\ (\A r \in M : h[r] \in Int)
    BY <1>1
  <2> QED
    BY <2>1, <2>2, <2>3, <2>4, <2>5, SumUnion
<1>6. SumFunction(g) \in Int /\ SumFunction(h) \in Int
  BY <1>1, <1>2, SumType
<1> QED
  BY <1>3, <1>4, <1>5, <1>6

\* Lines that credit the amounts of rows, or debit them.
LEMMA AmountLines ==
  ASSUME NEW table, NEW entries, IsFiniteSet(entries), \A r \in entries : table[r].amount \in Nat
  PROVE  LET credits == {Line(r, 0, table[r].amount) : r \in entries}
             debits == {Line(r, table[r].amount, 0) : r \in entries}
             memos == {Line(r, 0, 0) : r \in entries}
         IN  /\ LinesOf(credits, entries) /\ Moves(credits) = 0 - Amount(table, entries)
             /\ LinesOf(debits, entries) /\ Moves(debits) = Amount(table, entries)
             /\ LinesOf(memos, entries) /\ Moves(memos) = 0
<1> DEFINE credits == {Line(r, 0, table[r].amount) : r \in entries}
           debits == {Line(r, table[r].amount, 0) : r \in entries}
           memos == {Line(r, 0, 0) : r \in entries}
           am == [r \in entries |-> table[r].amount]
           neg == [r \in entries |-> 0 - table[r].amount]
           zero == [r \in entries |-> 0]
<1>1. /\ DOMAIN am = entries /\ DOMAIN neg = entries /\ DOMAIN zero = entries
      /\ \A r \in entries : /\ am[r] \in Int /\ zero[r] = 0 /\ neg[r] = 0 - am[r]
                         /\ neg[r] = zero[r] - am[r] /\ am[r] = am[r] - zero[r]
                         /\ zero[r] = zero[r] - zero[r]
  OBVIOUS
<1>2. /\ credits = Lines(entries, zero, am)
      /\ debits = Lines(entries, am, zero)
      /\ memos = Lines(entries, zero, zero)
  BY DEF Lines
<1>3. Amount(table, entries) = SumFunction(am)
  BY DEF Amount
<1> HIDE DEF credits, debits, memos, am, neg, zero
<1>4. LinesOf(credits, entries) /\ Moves(credits) = SumFunction(neg)
  BY <1>1, <1>2, LinesSum
<1>5. LinesOf(debits, entries) /\ Moves(debits) = SumFunction(am)
  BY <1>1, <1>2, LinesSum
<1>6. LinesOf(memos, entries) /\ Moves(memos) = SumFunction(zero)
  BY <1>1, <1>2, LinesSum
<1>7. SumFunction(neg) = 0 - SumFunction(am) /\ SumFunction(zero) = 0
  BY <1>1, SumMinus, SumZero
<1> QED
  BY <1>3, <1>4, <1>5, <1>6, <1>7 DEF credits, debits, memos

\* and those of five kinds the sum of the five.
LEMMA FiveMoves ==
  ASSUME NEW R1, NEW R2, NEW R3, NEW R4, NEW R5, NEW L1, NEW L2, NEW L3, NEW L4, NEW L5,
         LinesOf(L1, R1), LinesOf(L2, R2), LinesOf(L3, R3), LinesOf(L4, R4), LinesOf(L5, R5),
         R1 \cap R2 = {}, R1 \cap R3 = {}, R1 \cap R4 = {}, R1 \cap R5 = {}, R2 \cap R3 = {},
         R2 \cap R4 = {}, R2 \cap R5 = {}, R3 \cap R4 = {}, R3 \cap R5 = {}, R4 \cap R5 = {}
  PROVE  Moves(L1 \cup L2 \cup L3 \cup L4 \cup L5)
           = Moves(L1) + Moves(L2) + Moves(L3) + Moves(L4) + Moves(L5)
<1>1. /\ Apart(R1, R2) /\ Apart(Both(R1, R2), R3) /\ Apart(Both(Both(R1, R2), R3), R4)
      /\ Apart(Both(Both(Both(R1, R2), R3), R4), R5)
  BY DEF Apart, Both
<1>2. /\ LinesOf(Both(L1, L2), Both(R1, R2)) /\ Moves(L1) \in Int /\ Moves(L2) \in Int
      /\ Moves(Both(L1, L2)) = Moves(L1) + Moves(L2)
  BY <1>1, MovesUnion
<1>3. /\ LinesOf(Both(Both(L1, L2), L3), Both(Both(R1, R2), R3)) /\ Moves(L3) \in Int
      /\ Moves(Both(Both(L1, L2), L3)) = Moves(Both(L1, L2)) + Moves(L3)
  BY <1>1, <1>2, MovesUnion
<1>4. /\ LinesOf(Both(Both(Both(L1, L2), L3), L4), Both(Both(Both(R1, R2), R3), R4))
      /\ Moves(L4) \in Int
      /\ Moves(Both(Both(Both(L1, L2), L3), L4)) = Moves(Both(Both(L1, L2), L3)) + Moves(L4)
  BY <1>1, <1>3, MovesUnion
<1>5. /\ Moves(L5) \in Int
      /\ Moves(Both(Both(Both(Both(L1, L2), L3), L4), L5))
           = Moves(Both(Both(Both(L1, L2), L3), L4)) + Moves(L5)
  BY <1>1, <1>4, MovesUnion
<1>6. Both(Both(Both(Both(L1, L2), L3), L4), L5) = L1 \cup L2 \cup L3 \cup L4 \cup L5
  BY DEF Both
<1> QED
  BY <1>2, <1>3, <1>4, <1>5, <1>6

\* The lines of a period add up to what it adds to what is owed.
LEMMA ActivityMoves ==
  ASSUME StatementsTypeOK, NEW from, NEW to
  PROVE  Moves(Activity(from, to)) = Net(from, to)
<1> DEFINE bills == {b \in Included : In(bill[b].date, from, to)}
           paid == {p \in StatedPayments("SUCCESS") : In(pay[p].date, from, to)}
           memo == {p \in StatedPayments("PENDING") : In(pay[p].date, from, to)}
           less == {n \in StatedNotes(Less) : In(note[n].date, from, to)}
           more == {n \in StatedNotes(More) : In(note[n].date, from, to)}
           L1 == {Line(b, bill[b].total, 0) : b \in bills}
           L2 == {Line(p, 0, pay[p].amount) : p \in paid}
           L3 == {Line(p, 0, 0) : p \in memo}
           L4 == {Line(n, 0, note[n].amount) : n \in less}
           L5 == {Line(n, note[n].amount, 0) : n \in more}
<1>1. Activity(from, to) = L1 \cup L2 \cup L3 \cup L4 \cup L5
  BY DEF Activity
<1>2. /\ bills \subseteq Included /\ paid \subseteq StatedPayments("SUCCESS")
      /\ memo \subseteq StatedPayments("PENDING")
      /\ less \subseteq StatedNotes(Less) /\ more \subseteq StatedNotes(More)
  OBVIOUS
<1>3. /\ BilledIn(from, to) = SumFunction([b \in bills |-> bill[b].total])
      /\ PaidIn("SUCCESS", from, to) = Amount(pay, paid)
      /\ NotedIn(Less, from, to) = Amount(note, less)
      /\ NotedIn(More, from, to) = Amount(note, more)
  BY DEF BilledIn, PaidIn, NotedIn, Billed, Paid, Written, Amount
<1> HIDE DEF bills, paid, memo, less, more
<1>4. /\ IsFiniteSet(bills) /\ \A b \in bills : bill[b].total \in Nat
      /\ IsFiniteSet(paid) /\ \A p \in paid : pay[p].amount \in Nat
      /\ IsFiniteSet(memo) /\ \A p \in memo : pay[p].amount \in Nat
      /\ IsFiniteSet(less) /\ \A n \in less : note[n].amount \in Nat
      /\ IsFiniteSet(more) /\ \A n \in more : note[n].amount \in Nat
  BY <1>2, StatedFit, FS_Subset
<1>5. /\ bills \cap paid = {} /\ bills \cap memo = {}
      /\ bills \cap less = {} /\ bills \cap more = {}
      /\ paid \cap memo = {} /\ paid \cap less = {} /\ paid \cap more = {}
      /\ memo \cap less = {} /\ memo \cap more = {} /\ less \cap more = {}
  <2>1. /\ bills \subseteq Bill /\ paid \subseteq Pay /\ memo \subseteq Pay
        /\ less \subseteq Note /\ more \subseteq Note
    BY <1>2, StatedFit
  <2>2. /\ \A p \in paid : pay[p].status = "SUCCESS"
        /\ \A p \in memo : pay[p].status = "PENDING"
        /\ \A n \in less : note[n].kind \in Less
        /\ \A n \in more : note[n].kind \in More
    BY <1>2, StatedFit
  <2>3. Less \cap More = {}
    BY DEF Less, More
  <2>4. paid \cap memo = {} /\ less \cap more = {}
    BY <2>2, <2>3
  <2> QED
    BY <2>1, <2>4, RowsAssumption
<1>6. LinesOf(L1, bills) /\ Moves(L1) = BilledIn(from, to)
  <2> DEFINE am == [b \in bills |-> bill[b].total]
             zero == [b \in bills |-> 0]
  <2>1. /\ DOMAIN am = bills
        /\ \A b \in bills : /\ am[b] \in Int /\ zero[b] \in Int /\ am[b] = am[b] - zero[b]
    BY <1>4
  <2>2. L1 = Lines(bills, am, zero)
    BY DEF Lines
  <2>3. BilledIn(from, to) = SumFunction(am)
    BY <1>3
  <2> HIDE DEF am, zero, L1
  <2> QED
    BY <1>4, <2>1, <2>2, <2>3, LinesSum
<1>7. /\ LinesOf(L2, paid) /\ Moves(L2) = 0 - PaidIn("SUCCESS", from, to)
      /\ LinesOf(L3, memo) /\ Moves(L3) = 0
      /\ LinesOf(L4, less) /\ Moves(L4) = 0 - NotedIn(Less, from, to)
      /\ LinesOf(L5, more) /\ Moves(L5) = NotedIn(More, from, to)
  BY <1>3, <1>4, AmountLines
<1> HIDE DEF L1, L2, L3, L4, L5
<1>8. Moves(L1 \cup L2 \cup L3 \cup L4 \cup L5)
        = Moves(L1) + Moves(L2) + Moves(L3) + Moves(L4) + Moves(L5)
  BY <1>5, <1>6, <1>7, FiveMoves
<1>13. /\ BilledIn(from, to) \in Int /\ PaidIn("SUCCESS", from, to) \in Int
       /\ NotedIn(Less, from, to) \in Int /\ NotedIn(More, from, to) \in Int
  BY NetInt
<1> QED
  BY <1>1, <1>6, <1>7, <1>8, <1>13 DEF Net

\* A statement opens with what moved before its period, and closes with what has
\* moved by its end.
LEMMA StatementsAddUp ==
  ASSUME StatementsTypeOK, NEW d \in Days, NEW e \in d .. LastDay
  PROVE  ClosingRunning(d, e) = Net(1, e) /\ Opening(e + 1) = Net(1, e)
<1>1. d \in Nat /\ e \in Nat /\ 1 <= d /\ d <= e /\ (e + 1) - 1 = e
  BY AmountsAssumption DEF Days
<1>2. Opening(d) = Net(1, d - 1) /\ Opening(e + 1) = Net(1, e)
  BY <1>1 DEF Opening, Net
<1>3. ClosingRunning(d, e) = Opening(d) + Moves(Activity(d, e))
  BY DEF ClosingRunning, Moves
<1>4. Net(1, e) = Net(1, d - 1) + Net(d, e)
  BY <1>1, NetSplit
<1> QED
  BY <1>2, <1>3, <1>4, ActivityMoves

\* Thus statements join.
LEMMA BooksJoin == StatementsTypeOK => StatementsJoin
BY StatementsAddUp DEF StatementsJoin

-----------------------------------------------------------------------------
(* What a statement over the whole calendar closes with.                   *)

\* The sums of payments and notes, invoice by invoice.
LEMMA PaidByBill ==
  ASSUME StatementsTypeOK
  PROVE  PaidIn("SUCCESS", 1, LastDay) = SumFunction([b \in Included |-> PaidFor(b)])
<1> DEFINE S == StatedPayments("SUCCESS")
           f == [p \in S |-> pay[p].amount]
           h == [p \in S |-> pay[p].bill]
           g == [b \in Included |-> PaidFor(b)]
<1>1. /\ IsFiniteSet(S) /\ IsFiniteSet(Included)
      /\ \A p \in S : pay[p].amount \in Int /\ pay[p].bill \in Included /\ pay[p].date \in Days
  BY StatedFit
<1>2. {p \in S : In(pay[p].date, 1, LastDay)} = S
  BY <1>1 DEF In, Days
<1>3. PaidIn("SUCCESS", 1, LastDay) = SumFunction(f)
  BY <1>2 DEF PaidIn, Paid
<1>4. ASSUME NEW b \in Included
      PROVE  g[b] = SumFunction([p \in {q \in S : h[q] = b} |-> f[p]])
  <2>1. {q \in S : h[q] = b} = PaymentsOf(b, "SUCCESS")
    BY <1>4 DEF StatedPayments, PaymentsOf
  <2>2. PaymentsOf(b, "SUCCESS") \subseteq S
    BY <1>4 DEF StatedPayments
  <2>3. [p \in {q \in S : h[q] = b} |-> f[p]] = [p \in PaymentsOf(b, "SUCCESS") |-> pay[p].amount]
    BY <2>1, <2>2
  <2>4. g[b] = SumFunction([p \in PaymentsOf(b, "SUCCESS") |-> pay[p].amount])
    BY DEF PaidFor, Paid
  <2> QED
    BY <2>3, <2>4
<1>5. /\ DOMAIN f = S /\ DOMAIN g = Included
      /\ \A p \in S : f[p] \in Int
      /\ \A p \in S : h[p] \in Included
  BY <1>1
<1> HIDE DEF S, f, g, h
<1>6. SumFunction(g) = SumFunction(f)
  BY <1>1, <1>4, <1>5, SumClasses
<1> QED
  BY <1>3, <1>6 DEF g

\* And those of notes,
LEMMA NotedByBill ==
  ASSUME StatementsTypeOK, NEW kinds
  PROVE  NotedIn(kinds, 1, LastDay) = SumFunction([b \in Included |-> Noted(b, kinds)])
<1> DEFINE S == StatedNotes(kinds)
           f == [n \in S |-> note[n].amount]
           h == [n \in S |-> note[n].bill]
           g == [b \in Included |-> Noted(b, kinds)]
<1>1. /\ IsFiniteSet(S) /\ IsFiniteSet(Included)
      /\ \A n \in S : note[n].amount \in Int /\ note[n].bill \in Included /\ note[n].date \in Days
  BY StatedFit
<1>2. {n \in S : In(note[n].date, 1, LastDay)} = S
  BY <1>1 DEF In, Days
<1>3. NotedIn(kinds, 1, LastDay) = SumFunction(f)
  BY <1>2 DEF NotedIn, Written
<1>4. ASSUME NEW b \in Included
      PROVE  g[b] = SumFunction([n \in {q \in S : h[q] = b} |-> f[n]])
  <2>1. {q \in S : h[q] = b} = NotesOf(b, kinds)
    BY <1>4 DEF StatedNotes, NotesOf
  <2>2. NotesOf(b, kinds) \subseteq S
    BY <1>4 DEF StatedNotes
  <2>3. [n \in {q \in S : h[q] = b} |-> f[n]] = [n \in NotesOf(b, kinds) |-> note[n].amount]
    BY <2>1, <2>2
  <2>4. g[b] = SumFunction([n \in NotesOf(b, kinds) |-> note[n].amount])
    BY DEF Noted, Written
  <2> QED
    BY <2>3, <2>4
<1>5. /\ DOMAIN f = S /\ DOMAIN g = Included
      /\ \A n \in S : f[n] \in Int
      /\ \A n \in S : h[n] \in Included
  BY <1>1
<1> HIDE DEF S, f, g, h
<1>6. SumFunction(g) = SumFunction(f)
  BY <1>1, <1>4, <1>5, SumClasses
<1> QED
  BY <1>3, <1>6 DEF g

\* and the totals.
LEMMA BilledByBill ==
  ASSUME StatementsTypeOK
  PROVE  BilledIn(1, LastDay) = SumFunction([b \in Included |-> bill[b].total])
<1>1. {b \in Included : In(bill[b].date, 1, LastDay)} = Included
  BY StatedFit DEF In, Days
<1> QED
  BY <1>1 DEF BilledIn, Billed

\* Everything that was ever stated is what is due, less what is overpaid.
LEMMA NetIsDue ==
  ASSUME StatementsTypeOK
  PROVE  /\ Net(1, LastDay) = SumFunction([b \in Included |-> BalanceDue(b)])
                                - SumFunction([b \in Included |-> Surplus(b)])
         /\ SumFunction([b \in Included |-> BalanceDue(b)]) \in Int
         /\ SumFunction([b \in Included |-> Surplus(b)]) \in Int
<1> DEFINE total == [b \in Included |-> bill[b].total]
           paid == [b \in Included |-> PaidFor(b)]
           less == [b \in Included |-> Noted(b, Less)]
           more == [b \in Included |-> Noted(b, More)]
           due == [b \in Included |-> BalanceDue(b)]
           over == [b \in Included |-> Surplus(b)]
           credit == [b \in Included |-> PaidFor(b) + Noted(b, Less)]
           debit == [b \in Included |-> Noted(b, More) + Surplus(b)]
           all == [b \in Included |-> bill[b].total + (Noted(b, More) + Surplus(b))]
<1>1. ASSUME NEW b \in Included
      PROVE  /\ bill[b].total \in Int /\ PaidFor(b) \in Int /\ Noted(b, Less) \in Int
             /\ Noted(b, More) \in Int /\ BalanceDue(b) \in Int /\ Surplus(b) \in Int
             /\ bill[b].total + (Noted(b, More) + Surplus(b))
                  = BalanceDue(b) + (PaidFor(b) + Noted(b, Less))
  <2>1. b \in Bill /\ bill[b] # Absent
    BY DEF Included, Has
  <2>2. /\ BalanceDue(b) \in Nat /\ PaidFor(b) \in Nat /\ Noted(b, Less) \in Nat
        /\ Noted(b, More) \in Nat /\ bill[b].total \in Nat
    BY <2>1, DueNat
  <2>3. /\ BalanceDue(b) = Monus(bill[b].total + Noted(b, More), PaidFor(b) + Noted(b, Less))
        /\ Surplus(b) = Monus(PaidFor(b) + Noted(b, Less), bill[b].total + Noted(b, More))
    BY <2>1 DEF BalanceDue, Surplus, CreditOwing, Owed
  <2> QED
    BY <2>2, <2>3 DEF Monus
<1>2. /\ DOMAIN total = Included /\ DOMAIN paid = Included /\ DOMAIN less = Included
      /\ DOMAIN more = Included /\ DOMAIN due = Included /\ DOMAIN over = Included
      /\ DOMAIN credit = Included /\ DOMAIN debit = Included /\ DOMAIN all = Included
  OBVIOUS
<1>3. \A b \in Included :
        /\ total[b] \in Int /\ paid[b] \in Int /\ less[b] \in Int /\ more[b] \in Int
        /\ due[b] \in Int /\ over[b] \in Int /\ credit[b] \in Int /\ debit[b] \in Int
        /\ credit[b] = paid[b] + less[b] /\ debit[b] = more[b] + over[b]
        /\ all[b] = total[b] + debit[b] /\ all[b] = due[b] + credit[b]
  BY <1>1
<1>4. IsFiniteSet(Included)
  BY StatedFit
<1>5. Net(1, LastDay) = SumFunction(total) - SumFunction(paid) - SumFunction(less)
                          + SumFunction(more)
  BY PaidByBill, NotedByBill, BilledByBill DEF Net
<1> HIDE DEF total, paid, less, more, due, over, credit, debit, all
<1>6. /\ SumFunction(total) \in Int /\ SumFunction(paid) \in Int /\ SumFunction(less) \in Int
      /\ SumFunction(more) \in Int /\ SumFunction(due) \in Int /\ SumFunction(over) \in Int
  BY <1>2, <1>3, <1>4, SumType
<1>7. SumFunction(credit) = SumFunction(paid) + SumFunction(less)
  BY <1>2, <1>3, <1>4, SumPlus
<1>8. SumFunction(debit) = SumFunction(more) + SumFunction(over)
  BY <1>2, <1>3, <1>4, SumPlus
<1>9. SumFunction(all) = SumFunction(total) + SumFunction(debit)
  BY <1>2, <1>3, <1>4, SumPlus
<1>10. SumFunction(all) = SumFunction(due) + SumFunction(credit)
  BY <1>2, <1>3, <1>4, SumPlus
<1>11. Net(1, LastDay) = SumFunction(due) - SumFunction(over)
  BY <1>5, <1>6, <1>7, <1>8, <1>9, <1>10
<1> QED
  BY <1>6, <1>11 DEF due, over

\* PAID owes nothing, so that what is open is all that is due.
LEMMA OpenIsDue ==
  ASSUME StatementsTypeOK, PaidIsSettled
  PROVE  AmountDueNow = SumFunction([b \in Included |-> BalanceDue(b)])
<1> DEFINE f == [b \in OpenBills |-> BalanceDue(b)]
           g == [b \in Included |-> BalanceDue(b)]
<1>1. OpenBills \in SUBSET Included
  BY DEF OpenBills, Included, Has, INCLUDE_STATUSES
<1>2. \A b \in Included \ OpenBills : BalanceDue(b) = 0
  BY DEF PaidIsSettled, OpenBills, Included, Has, INCLUDE_STATUSES
<1>3. \A b \in Included : BalanceDue(b) \in Int
  BY DueNat DEF Included, Has
<1>4. /\ DOMAIN f = OpenBills /\ DOMAIN g = Included
      /\ \A b \in OpenBills : f[b] \in Int /\ g[b] = f[b]
      /\ \A b \in Included \ OpenBills : g[b] = 0
  BY <1>1, <1>2, <1>3
<1>5. AmountDueNow = SumFunction(f)
  BY DEF AmountDueNow
<1> HIDE DEF f, g
<1>6. SumFunction(g) = SumFunction(f)
  BY <1>1, <1>4, StatedFit, SumSupport
<1> QED
  BY <1>5, <1>6 DEF g

\* A statement of everything closes with what is due less what is parked.
LEMMA BooksClose == BooksInv => ClosingIsDueUndebited
<1>1. SUFFICES ASSUME BooksInv, NoDebitNote, VoidedUncredited PROVE ClosingIsDue
  BY DEF ClosingIsDueUndebited, NoDebitNote, VoidedUncredited
<1>2. StatementsTypeOK /\ PaidIsSettled /\ BooksFit
  BY <1>1 DEF BooksInv
<1>3. ClosingRunning(1, LastDay) = Net(1, LastDay)
  <2>1. 1 \in Days /\ LastDay \in 1 .. LastDay
    BY AmountsAssumption DEF Days
  <2> QED
    BY <1>2, <2>1, StatementsAddUp
<1>4. balance = SumFunction([b \in Included |-> Surplus(b)])
  <2> DEFINE f == [b \in Included |-> Surplus(b)]
             g == [b \in Bill |-> Surplus(b)]
  <2>1. balance = SumFunction(g)
    BY <1>1 DEF BooksInv, ParkedIsSurplus
  <2>2. Included \in SUBSET Bill
    BY DEF Included
  <2>3. \A b \in Bill : Surplus(b) \in Int
    BY <1>2, Naturals
  <2>4. ASSUME NEW b \in Bill \ Included PROVE Surplus(b) = 0
    <3>1. CASE bill[b] = Absent
      BY <3>1 DEF Surplus
    <3>2. CASE Has(b, {"DRAFT"})
      <4>1. PaidFor(b) = 0 /\ Noted(b, Less) = 0 /\ Noted(b, More) = 0
        BY <1>2, <3>2, NoDocuments
      <4>2. bill[b].total \in Nat /\ bill[b] # Absent
        BY <1>2, <3>2, DueNat DEF Has
      <4> QED
        BY <4>1, <4>2 DEF Surplus, CreditOwing, Owed, Monus
    <3>3. CASE Has(b, {"CANCELLED"})
      <4>1. bill[b] # Absent /\ NotesOf(b, Less) = {}
        BY <1>1, <3>3 DEF VoidedUncredited, Voided, Has
      <4>2. Noted(b, Less) = 0 /\ Noted(b, More) = 0
        <5>1. \A table : Amount(table, {}) = 0
          BY AmountNat, FS_EmptySet
        <5>2. Noted(b, Less) = Amount(note, NotesOf(b, Less))
          BY AmountsAre
        <5> QED
          BY <1>1, <4>1, <5>1, <5>2, NotDebited
      <4>3. PaidFor(b) + (IF Customer THEN 0 ELSE Noted(b, Less)) <= bill[b].total
        BY <1>1, <4>1 DEF BooksInv, ParkedIsSurplus
      <4>4. PaidFor(b) \in Nat /\ bill[b].total \in Nat
        BY <1>2, <4>1, DueNat
      <4> QED
        BY <4>1, <4>2, <4>3, <4>4 DEF Surplus, CreditOwing, Owed, Monus
    <3>4. bill[b] # Absent => bill[b].status \in {"DRAFT", "CANCELLED", "OPEN", "PAID"}
      BY <1>2, DocFits, BillFits
    <3> QED
      BY <2>4, <3>1, <3>2, <3>3, <3>4 DEF Included, Has, INCLUDE_STATUSES
  <2>5. /\ DOMAIN f = Included /\ DOMAIN g = Bill
        /\ \A b \in Included : f[b] \in Int /\ g[b] = f[b]
        /\ \A b \in Bill \ Included : g[b] = 0
    BY <2>2, <2>3, <2>4
  <2> HIDE DEF f, g
  <2>6. SumFunction(g) = SumFunction(f)
    BY <2>2, <2>5, RowsAssumption, SumSupport
  <2> QED
    BY <2>1, <2>6 DEF f
<1>5. AmountDueNow = SumFunction([b \in Included |-> BalanceDue(b)])
  BY <1>2, OpenIsDue
<1>6. Net(1, LastDay) = SumFunction([b \in Included |-> BalanceDue(b)])
                          - SumFunction([b \in Included |-> Surplus(b)])
  BY <1>2, NetIsDue
<1> QED
  BY <1>3, <1>4, <1>5, <1>6 DEF ClosingIsDue

\* A statement over the whole calendar closes with what is due less what is
\* parked, as long as there is no tax debit note and what was voided was not
\* credited.
THEOREM StatementsClose == StatementsSpec => []ClosingIsDueUndebited
BY BooksInvariance, BooksClose, PTL

-----------------------------------------------------------------------------
(* What the reports say of the same documents.                             *)

\* A payment is dated by the day alone, and so is a customer's note: only what a
\* supplier sends or is sent has an hour.
HoursFit ==
    /\ \A p \in Pay : pay[p] # Absent => pay[p].late = FALSE
    /\ \A n \in Note : note[n] # Absent /\ note[n].kind # "SDN" => note[n].late = FALSE

\* Only applying a supplier debit note sets an hour.
LEMMA StepHours ==
  ASSUME BooksInv, HoursFit, [StatementsNext]_reporting
  PROVE  HoursFit'
<1>1. /\ pay \in [Pay -> PayRow \cup {Absent}] /\ note \in [Note -> NoteRow \cup {Absent}]
      /\ Absent \notin PayRow /\ Absent \notin NoteRow
  BY AbsentAssumption DEF BooksInv, StatementsTypeOK
<1>2. ASSUME pay' = pay, note' = note PROVE HoursFit'
  BY <1>2 DEF HoursFit
<1>3. ASSUME NEW p \in Pay, NEW row, row.late = FALSE, pay' = [pay EXCEPT ![p] = row], note' = note
      PROVE  HoursFit'
  BY <1>1, <1>3 DEF HoursFit
<1>4. ASSUME NEW p \in Pay, pay[p] # Absent, NEW row, row.late = pay[p].late,
             pay' = [pay EXCEPT ![p] = row], note' = note
      PROVE  HoursFit'
  BY <1>1, <1>4 DEF HoursFit
<1>5. ASSUME NEW n \in Note, NEW row, row.late = FALSE \/ row.kind = "SDN",
             note' = [note EXCEPT ![n] = row], pay' = pay
      PROVE  HoursFit'
  BY <1>1, <1>5 DEF HoursFit
<1>6. ASSUME NEW n \in Note, note[n] # Absent, note[n].kind # "SDN",
             note' = [note EXCEPT ![n] = Issued(n)], pay' = pay
      PROVE  HoursFit'
  <2>1. note[n].late = FALSE
    BY <1>6 DEF HoursFit
  <2>2. Issued(n).late = FALSE
    BY <1>1, <1>6, <2>1 DEF Issued, NoteRow
  <2> QED
    BY <1>5, <1>6, <2>2
<1>7. CASE \/ \E b \in Bill, total \in Totals, d \in Dates, late \in BOOLEAN :
                  Enter(b, total, d, late)
           \/ \E b \in Bill : Book(b) \/ Void(b)
           \/ NextDay \/ UNCHANGED reporting
  <2>1. pay' = pay /\ note' = note
    BY <1>7 DEF Enter, Book, Void, NextDay, reporting, docs
  <2> QED
    BY <1>2, <2>1
<1>8. ASSUME NEW p \in Pay, NEW b \in Bill, NEW a \in Amounts, NEW m \in {"PDC", "CASH"},
             NEW d \in PastDates, RecordPayment(p, b, a, m, d)
      PROVE  HoursFit'
  <2> DEFINE row == [bill |-> b, amount |-> a, date |-> d, late |-> FALSE, booked |-> today,
                     cheque |-> m = "PDC", status |-> IF m = "PDC" THEN "PENDING" ELSE "SUCCESS"]
  <2>1. pay' = [pay EXCEPT ![p] = row] /\ note' = note
    BY <1>8 DEF RecordPayment
  <2>2. row.late = FALSE
    OBVIOUS
  <2> HIDE DEF row
  <2> QED
    BY <1>3, <2>1, <2>2
<1>9. ASSUME NEW p \in Pay, ClearCheque(p) \/ BounceCheque(p) \/ ReversePayment(p)
      PROVE  HoursFit'
  <2>1. pay[p] # Absent /\ note' = note
    BY <1>9 DEF ClearCheque, BounceCheque, ReversePayment
  <2>2. PICK row : row.late = pay[p].late /\ pay' = [pay EXCEPT ![p] = row]
    <3>1. \/ pay' = [pay EXCEPT ![p] = [pay[p] EXCEPT !.status = "SUCCESS", !.booked = today]]
          \/ pay' = [pay EXCEPT ![p] = [pay[p] EXCEPT !.status = "FAILED"]]
      BY <1>1, <1>9 DEF ClearCheque, BounceCheque, ReversePayment
    <3>2. /\ [pay[p] EXCEPT !.status = "SUCCESS", !.booked = today].late = pay[p].late
          /\ [pay[p] EXCEPT !.status = "FAILED"].late = pay[p].late
      BY <1>1, <2>1 DEF PayRow
    <3> QED
      BY <3>1, <3>2
  <2> QED
    BY <1>4, <2>1, <2>2
<1>10. ASSUME NEW n \in Note, NEW k \in Kinds, NEW b \in Bill, NEW a \in Amounts,
              NEW d \in Dates, DraftNote(n, k, b, a, d)
       PROVE  HoursFit'
  BY <1>5, <1>10 DEF DraftNote
<1>11. ASSUME NEW n \in Note, IssueCreditNote(n) \/ IssueDebitNote(n) PROVE HoursFit'
  <2>1. /\ note[n] # Absent /\ note[n].kind # "SDN"
        /\ note' = [note EXCEPT ![n] = Issued(n)] /\ pay' = pay
    BY <1>11 DEF IssueCreditNote, IssueDebitNote
  <2> QED
    BY <1>6, <2>1
<1>12. ASSUME NEW n \in Note, NEW late \in BOOLEAN, ApplyNote(n, late) PROVE HoursFit'
  <2>1. /\ note[n] # Absent /\ note[n].kind = "SDN" /\ pay' = pay
        /\ note' = [note EXCEPT ![n] = Applied(n, late)]
    BY <1>12 DEF ApplyNote, Applied
  <2>2. Applied(n, late).kind = "SDN"
    BY <1>1, <2>1 DEF Applied, Issued, NoteRow
  <2> QED
    BY <1>5, <2>1, <2>2
<1> QED
  BY <1>7, <1>8, <1>9, <1>10, <1>11, <1>12 DEF StatementsNext

\* No payment has an hour, and no note but a supplier debit note.
LEMMA HoursInvariance == StatementsSpec => []HoursFit
<1>1. InitStatements => HoursFit
  BY DEF InitStatements, HoursFit
<1>2. BooksInv /\ HoursFit /\ [StatementsNext]_reporting => HoursFit'
  BY StepHours
<1> QED
  BY <1>1, <1>2, BooksInvariance, PTL DEF StatementsSpec

\* What took effect does so for an invoice that is stated or was voided.
LEMMA WhatCounts ==
  ASSUME BooksInv, Voided = {}
  PROVE  /\ \A p \in Pay : pay[p] # Absent =>
              (pay[p].status = "SUCCESS" <=> p \in StatedPayments("SUCCESS"))
         /\ \A n \in Note : \A kinds : note[n] # Absent =>
              (note[n].status = "ISSUED" /\ note[n].kind \in kinds <=> n \in StatedNotes(kinds))
<1>1. \A b \in Bill : Has(b, INCLUDE_STATUSES \cup {"CANCELLED"}) => b \in Included
  BY DEF Voided, Included, Has
<1>2. /\ \A p \in Pay : pay[p] # Absent => pay[p].bill \in Included
      /\ \A n \in Note : note[n] # Absent => note[n].bill \in Included
  <2>1. /\ \A p \in Pay : pay[p] # Absent => pay[p].bill \in Bill
        /\ \A n \in Note : note[n] # Absent => note[n].bill \in Bill
    BY DocFits DEF BooksInv, PayRow, NoteRow
  <2> QED
    BY <1>1, <2>1 DEF BooksInv, BooksFit
<1> QED
  BY <1>2 DEF StatedPayments, StatedNotes, PaymentsOf, NotesOf

\* Where nothing is voided, the notes a customer's VAT pack nets off are those of
\* the statement.
LEMMA NotesAre ==
  ASSUME BooksInv, HoursFit, Voided = {}, Customer, NEW from, NEW to
  PROVE  /\ AllNotes({"CN"}, from, to) = NotedIn(Less, from, to)
         /\ AllNotes({"TDN"}, from, to) = NotedIn(More, from, to)
<1>1. \A n \in Note : note[n] # Absent => note[n].kind # "SDN" /\ note[n].kind \in Less \cup More
  BY DocFits DEF BooksInv, BooksFit, NoteRow
<1>2. \A n \in Note : note[n] # Absent => BusinessDate(note[n]) = note[n].date
  <2>1. ASSUME NEW n \in Note, note[n] # Absent PROVE BusinessDate(note[n]) = note[n].date
    <3>1. note[n].late = FALSE
      BY <1>1, <2>1 DEF HoursFit
    <3>2. note[n].date \in Int
      BY <2>1, DocFits DEF BooksInv, NoteRow, Days
    <3> QED
      BY <3>1, <3>2 DEF BusinessDate
  <2> QED
    BY <2>1
<1>3. ASSUME NEW kinds, NEW others,
             \A n \in Note :
               note[n] # Absent => (note[n].kind \in kinds <=> note[n].kind \in others)
      PROVE  AllNotes(kinds, from, to) = NotedIn(others, from, to)
  <2>1. {n \in Note : /\ note[n] # Absent /\ note[n].status = "ISSUED"
                      /\ note[n].kind \in kinds /\ In(BusinessDate(note[n]), from, to)}
          = {n \in StatedNotes(others) : In(note[n].date, from, to)}
    <3>1. \A n \in StatedNotes(others) : n \in Note /\ note[n] # Absent
      BY DEF StatedNotes, NotesOf
    <3>2. \A n \in Note : note[n] # Absent =>
            (note[n].status = "ISSUED" /\ note[n].kind \in kinds <=> n \in StatedNotes(others))
      BY <1>3, WhatCounts
    <3> QED
      BY <1>2, <3>1, <3>2
  <2> QED
    BY <2>1 DEF AllNotes, NotedIn
<1>4. /\ \A n \in Note : note[n] # Absent => (note[n].kind \in {"CN"} <=> note[n].kind \in Less)
      /\ \A n \in Note : note[n] # Absent => (note[n].kind \in {"TDN"} <=> note[n].kind \in More)
  BY <1>1 DEF Less, More
<1> QED
  BY <1>3, <1>4

PartSum(f, S) == SumFunction([x \in S |-> f[x]])

\* The sum over two disjoint sets of rows.
LEMMA PartSumBoth ==
  ASSUME NEW f, IsFiniteSet(DOMAIN f), \A x \in DOMAIN f : f[x] \in Int,
         NEW S \in SUBSET DOMAIN f, NEW T \in SUBSET DOMAIN f, S \cap T = {}
  PROVE  /\ PartSum(f, S \cup T) = PartSum(f, S) + PartSum(f, T)
         /\ PartSum(f, S) \in Int
<1> DEFINE g == [x \in S |-> f[x]]
           h == [x \in T |-> f[x]]
           k == [x \in S \cup T |-> f[x]]
<1>1. IsFiniteSet(S) /\ IsFiniteSet(T)
  BY FS_Subset
<1>2. /\ DOMAIN g = S /\ DOMAIN h = T /\ DOMAIN k = S \cup T
      /\ \A x \in S : k[x] = g[x] /\ g[x] \in Int
      /\ \A x \in T : k[x] = h[x] /\ h[x] \in Int
  OBVIOUS
<1>3. PartSum(f, S) = SumFunction(g) /\ PartSum(f, T) = SumFunction(h)
      /\ PartSum(f, S \cup T) = SumFunction(k)
  <2>1. PartSum(f, S) = SumFunction(g)
    BY DEF PartSum
  <2>2. PartSum(f, T) = SumFunction(h)
    BY DEF PartSum
  <2>3. PartSum(f, S \cup T) = SumFunction(k)
    BY DEF PartSum
  <2> QED
    BY <2>1, <2>2, <2>3
<1> HIDE DEF g, h, k
<1>4. SumFunction(k) = SumFunction(g) + SumFunction(h)
  <2>1. DOMAIN g = S /\ DOMAIN h = T /\ DOMAIN k = S \cup T
    BY <1>2
  <2>2. (\A x \in S : k[x] = g[x]) /\ (\A x \in S : g[x] \in Int)
    BY <1>2
  <2>3. (\A x \in T : k[x] = h[x]) /\ (\A x \in T : h[x] \in Int)
    BY <1>2
  <2> QED
    BY <1>1, <2>1, <2>2, <2>3, SumUnion, Z3T(30)
<1>5. SumFunction(g) \in Int
  BY <1>1, <1>2, SumType
<1> QED
  BY <1>3, <1>4, <1>5

\* The same rows in two ways.
LEMMA TwoSplits ==
  ASSUME NEW f, IsFiniteSet(DOMAIN f), \A x \in DOMAIN f : f[x] \in Int,
         NEW A \in SUBSET DOMAIN f, NEW B \in SUBSET DOMAIN f,
         NEW C \in SUBSET DOMAIN f, NEW D \in SUBSET DOMAIN f,
         A \cap B = {}, C \cap D = {}, A \cup B = C \cup D
  PROVE  PartSum(f, A) + PartSum(f, B) = PartSum(f, C) + PartSum(f, D)
<1>1. /\ PartSum(f, A \cup B) = PartSum(f, A) + PartSum(f, B)
      /\ PartSum(f, C \cup D) = PartSum(f, C) + PartSum(f, D)
  BY PartSumBoth
<1> QED
  BY <1>1

\* The evening of a day, of rows that have a date and may be late.
Evening(entries, table, d) == {x \in entries : table[x].date = d /\ table[x].late}
DatedIn(entries, table, from, to) == {x \in entries : In(table[x].date, from, to)}
BusinessIn(entries, table, from, to) == {x \in entries : In(BusinessDate(table[x]), from, to)}

\* A period of the Gulf has the evening before it and lacks its last evening.
LEMMA EveningsMove ==
  ASSUME NEW f, IsFiniteSet(DOMAIN f), \A x \in DOMAIN f : f[x] \in Int,
         NEW table, \A x \in DOMAIN f : table[x].date \in Nat /\ table[x].late \in BOOLEAN,
         NEW from \in Nat, NEW to \in Nat, from <= to
  PROVE  PartSum(f, BusinessIn(DOMAIN f, table, from, to))
           + PartSum(f, Evening(DOMAIN f, table, to)) =
         PartSum(f, DatedIn(DOMAIN f, table, from, to))
           + PartSum(f, Evening(DOMAIN f, table, from - 1))
<1> DEFINE A == BusinessIn(DOMAIN f, table, from, to)
           B == Evening(DOMAIN f, table, to)
           C == DatedIn(DOMAIN f, table, from, to)
           E == Evening(DOMAIN f, table, from - 1)
<1>1. ASSUME NEW x \in DOMAIN f
      PROVE  /\ ~(x \in A /\ x \in B) /\ ~(x \in C /\ x \in E)
             /\ x \in A \/ x \in B <=> x \in C \/ x \in E
  <2>1. table[x].date \in Nat /\ table[x].late \in BOOLEAN
    OBVIOUS
  <2>2. CASE table[x].late
    <3>1. BusinessDate(table[x]) = table[x].date + 1
      BY <2>2 DEF BusinessDate
    <3>2. /\ x \in A <=> from <= table[x].date + 1 /\ table[x].date + 1 <= to
          /\ x \in B <=> table[x].date = to
          /\ x \in C <=> from <= table[x].date /\ table[x].date <= to
          /\ x \in E <=> table[x].date = from - 1
      BY <2>2, <3>1 DEF BusinessIn, Evening, DatedIn, In
    <3> QED
      BY <2>1, <3>2
  <2>3. CASE ~table[x].late
    <3>1. BusinessDate(table[x]) = table[x].date
      BY <2>1, <2>3 DEF BusinessDate
    <3> QED
      BY <2>3, <3>1 DEF BusinessIn, Evening, DatedIn, In
  <2> QED
    BY <2>2, <2>3
<1>2. /\ A \in SUBSET DOMAIN f /\ B \in SUBSET DOMAIN f
      /\ C \in SUBSET DOMAIN f /\ E \in SUBSET DOMAIN f
  BY DEF BusinessIn, Evening, DatedIn
<1>3. A \cap B = {} /\ C \cap E = {} /\ A \cup B = C \cup E
  BY <1>1, <1>2
<1> HIDE DEF A, B, C, E
<1>4. PartSum(f, A) + PartSum(f, B) = PartSum(f, C) + PartSum(f, E)
  BY <1>2, <1>3, TwoSplits
<1> QED
  BY <1>4 DEF A, B, C, E

\* The VAT pack's input against the supplier's statement.
LEMMA InputAgrees ==
  ASSUME BooksInv, Voided = {}, ~Customer, ~ \E b \in Bill : Has(b, {"DRAFT"}),
         NEW from \in Nat, NEW to \in Nat, from <= to
  PROVE  InputTax(from, to) + EveningOf(to) =
           BilledIn(from, to) + NotedIn(Less, from, to) + EveningOf(from - 1)
<1> DEFINE f == TotalOf(Included)
           g == AmountOf(StatedNotes(Less), note)
<1>1. /\ DOMAIN f = Included /\ DOMAIN g = StatedNotes(Less)
      /\ \A b \in Included : f[b] = bill[b].total
      /\ \A n \in StatedNotes(Less) : g[n] = note[n].amount
  BY DEF TotalOf, AmountOf
<1>2. /\ IsFiniteSet(Included) /\ IsFiniteSet(StatedNotes(Less))
      /\ \A b \in Included : /\ f[b] \in Int
                             /\ bill[b].date \in Nat /\ bill[b].late \in BOOLEAN
      /\ \A n \in StatedNotes(Less) : /\ g[n] \in Int
                                      /\ note[n].date \in Nat /\ note[n].late \in BOOLEAN
  BY <1>1, StatedFit DEF BooksInv, Days, BillRow, NoteRow
<1>3. ASSUME NEW S \in SUBSET Included PROVE Billed(S) = PartSum(f, S)
  <2>1. [x \in S |-> f[x]] = [b \in S |-> bill[b].total]
    BY <1>1
  <2> HIDE DEF f
  <2> QED
    BY <2>1 DEF Billed, PartSum
<1>4. ASSUME NEW S \in SUBSET StatedNotes(Less) PROVE Written(S) = PartSum(g, S)
  <2>1. [x \in S |-> g[x]] = [n \in S |-> note[n].amount]
    BY <1>1
  <2> HIDE DEF g
  <2> QED
    BY <2>1 DEF Written, PartSum
<1> HIDE DEF f, g
<1>5. /\ \A S \in SUBSET Included : Billed(S) \in Int
      /\ \A S \in SUBSET StatedNotes(Less) : Written(S) \in Int
  <2>1. \A S \in SUBSET Included : PartSum(f, S) \in Int
    <3>1. ASSUME NEW S \in SUBSET Included PROVE PartSum(f, S) \in Int
      <4>1. S \in SUBSET DOMAIN f /\ {} \in SUBSET DOMAIN f /\ S \cap {} = {}
        BY <1>1
      <4> QED
        BY <1>1, <1>2, <4>1, PartSumBoth
    <3> QED
      BY <3>1
  <2>2. \A S \in SUBSET StatedNotes(Less) : PartSum(g, S) \in Int
    <3>1. ASSUME NEW S \in SUBSET StatedNotes(Less) PROVE PartSum(g, S) \in Int
      <4>1. S \in SUBSET DOMAIN g /\ {} \in SUBSET DOMAIN g /\ S \cap {} = {}
        BY <1>1
      <4> QED
        BY <1>1, <1>2, <4>1, PartSumBoth
    <3> QED
      BY <3>1
  <2> QED
    BY <1>3, <1>4, <2>1, <2>2
<1>6. /\ \A d : Evening(Included, bill, d) \in SUBSET Included
      /\ \A d : Evening(StatedNotes(Less), note, d) \in SUBSET StatedNotes(Less)
      /\ DatedIn(Included, bill, from, to) \in SUBSET Included
      /\ DatedIn(StatedNotes(Less), note, from, to) \in SUBSET StatedNotes(Less)
      /\ BusinessIn(Included, bill, from, to) \in SUBSET Included
      /\ BusinessIn(StatedNotes(Less), note, from, to) \in SUBSET StatedNotes(Less)
  BY DEF Evening, DatedIn, BusinessIn
<1>7. Billed(BusinessIn(Included, bill, from, to)) + Billed(Evening(Included, bill, to)) =
        Billed(DatedIn(Included, bill, from, to)) + Billed(Evening(Included, bill, from - 1))
  <2>1. PartSum(f, BusinessIn(Included, bill, from, to)) + PartSum(f, Evening(Included, bill, to)) =
          PartSum(f, DatedIn(Included, bill, from, to))
            + PartSum(f, Evening(Included, bill, from - 1))
    BY <1>1, <1>2, EveningsMove
  <2> QED
    BY <1>3, <1>6, <2>1
<1>8. Written(BusinessIn(StatedNotes(Less), note, from, to))
        + Written(Evening(StatedNotes(Less), note, to)) =
      Written(DatedIn(StatedNotes(Less), note, from, to))
        + Written(Evening(StatedNotes(Less), note, from - 1))
  <2>1. PartSum(g, BusinessIn(StatedNotes(Less), note, from, to))
          + PartSum(g, Evening(StatedNotes(Less), note, to)) =
        PartSum(g, DatedIn(StatedNotes(Less), note, from, to))
          + PartSum(g, Evening(StatedNotes(Less), note, from - 1))
    BY <1>1, <1>2, EveningsMove
  <2> QED
    BY <1>4, <1>6, <2>1
<1>9. {b \in Bill : Has(b, {"DRAFT"} \cup INCLUDE_STATUSES) /\ In(BusinessDate(bill[b]), from, to)}
        = BusinessIn(Included, bill, from, to)
  BY DEF Included, Has, BusinessIn
<1>10. {n \in Note : /\ note[n] # Absent /\ note[n].status = "ISSUED"
                     /\ note[n].kind \in {"SDN"} /\ In(BusinessDate(note[n]), from, to)}
         = BusinessIn(StatedNotes(Less), note, from, to)
  <2>1. \A n \in Note : note[n] # Absent => note[n].kind = "SDN"
    BY DEF BooksInv, BooksFit
  <2>2. \A n \in Note : note[n] # Absent =>
          (note[n].status = "ISSUED" /\ note[n].kind \in Less <=> n \in StatedNotes(Less))
    BY WhatCounts
  <2>3. \A n \in StatedNotes(Less) : n \in Note /\ note[n] # Absent
    BY DEF StatedNotes, NotesOf
  <2> QED
    BY <2>1, <2>2, <2>3 DEF BusinessIn, Less
<1>11. /\ InputTax(from, to) = Billed(BusinessIn(Included, bill, from, to))
                                 + Written(BusinessIn(StatedNotes(Less), note, from, to))
       /\ BilledIn(from, to) = Billed(DatedIn(Included, bill, from, to))
       /\ NotedIn(Less, from, to) = Written(DatedIn(StatedNotes(Less), note, from, to))
       /\ \A d : EveningOf(d) = Billed(Evening(Included, bill, d))
                                  + Written(Evening(StatedNotes(Less), note, d))
  BY <1>9, <1>10 DEF InputTax, AllNotes, BilledIn, NotedIn, EveningOf, Evening, DatedIn
<1>12. ASSUME NEW a1 \in Int, NEW a2 \in Int, NEW b1 \in Int, NEW b2 \in Int, NEW c1 \in Int,
              NEW c2 \in Int, NEW e1 \in Int, NEW e2 \in Int,
              a1 + b1 = c1 + e1, a2 + b2 = c2 + e2
       PROVE  (a1 + a2) + (b1 + b2) = c1 + c2 + (e1 + e2)
  BY <1>12
<1> QED
  BY <1>5, <1>6, <1>7, <1>8, <1>11, <1>12

\* The VAT pack, the revenue and the cash flow are what the statement says, the
\* evenings of the VAT pack's input apart.
LEMMA TaxAgrees ==
  ASSUME BooksInv, HoursFit, Voided = {}, NEW from \in Nat, NEW to \in Nat, from <= to
  PROVE  LET totals == PeriodTotals(from, to)
         IN  /\ Customer => OutputTax(from, to) = totals.billed - totals.credited + totals.debited
             /\ (Customer \/ \E b \in Bill : Has(b, {"DRAFT"})) \/
                  InputTax(from, to) + EveningOf(to) =
                    totals.billed + totals.credited + EveningOf(from - 1)
             /\ Revenue(from, to) = totals.billed
             /\ Cashflow(from, to) = totals.paid
<1>1. /\ PeriodTotals(from, to).billed = BilledIn(from, to)
      /\ PeriodTotals(from, to).paid = PaidIn("SUCCESS", from, to)
      /\ PeriodTotals(from, to).credited = NotedIn(Less, from, to)
      /\ PeriodTotals(from, to).debited = NotedIn(More, from, to)
  BY DEF PeriodTotals
<1>2. Customer => OutputTax(from, to)
                    = BilledIn(from, to) - NotedIn(Less, from, to) + NotedIn(More, from, to)
  BY NotesAre DEF OutputTax
<1>3. (Customer \/ \E b \in Bill : Has(b, {"DRAFT"})) \/
        InputTax(from, to) + EveningOf(to) =
          BilledIn(from, to) + NotedIn(Less, from, to) + EveningOf(from - 1)
  BY InputAgrees
<1>4. Cashflow(from, to) = PaidIn("SUCCESS", from, to)
  <2>1. \A p \in Pay : pay[p] # Absent => BusinessDate(pay[p]) = pay[p].date
    <3>1. ASSUME NEW p \in Pay, pay[p] # Absent PROVE BusinessDate(pay[p]) = pay[p].date
      <4>1. pay[p].late = FALSE /\ pay[p].date \in Int
        BY <3>1, DocFits DEF HoursFit, BooksInv, PayRow, Days
      <4> QED
        BY <4>1 DEF BusinessDate
    <3> QED
      BY <3>1
  <2>2. {p \in Pay : /\ pay[p] # Absent /\ pay[p].status = "SUCCESS"
                     /\ In(BusinessDate(pay[p]), from, to)}
          = {p \in StatedPayments("SUCCESS") : In(pay[p].date, from, to)}
    <3>1. \A p \in StatedPayments("SUCCESS") : p \in Pay /\ pay[p] # Absent
      BY DEF StatedPayments, PaymentsOf
    <3> QED
      BY <2>1, <3>1, WhatCounts
  <2> QED
    BY <2>2 DEF Cashflow, PaidIn
<1> QED
  BY <1>1, <1>2, <1>3, <1>4 DEF Revenue

\* The buckets of an ageing report add up.
LEMMA KeysAre == \A d : BucketKey(d) \in Buckets
BY DEF BucketKey, Buckets

\* The invoices that are due fall into the bands of the ageing report, and their
\* cheques are among those that are pending.
LEMMA BucketsAddUp ==
  ASSUME StatementsTypeOK, NEW as_of
  PROVE  /\ Aging(LiveBalances, as_of).outstanding = AmountDueNow
         /\ SumFunction(Aging(LiveBalances, as_of).buckets) = AmountDueNow
         /\ Aging(LiveBalances, as_of).pdc <= PeriodTotals(1, LastDay).pending
<1>1. /\ Aging(LiveBalances, as_of).outstanding = SumFunction(LiveBalances)
      /\ Aging(LiveBalances, as_of).buckets = AgingBuckets(LiveBalances, as_of)
      /\ Aging(LiveBalances, as_of).pdc = PdcOutstanding(DOMAIN LiveBalances)
  BY DEF Aging
<1>2. AmountDueNow = SumFunction(LiveBalances)
  BY DEF AmountDueNow, LiveBalances
<1>3. /\ DOMAIN LiveBalances = OpenBills /\ IsFiniteSet(OpenBills)
      /\ \A b \in OpenBills : LiveBalances[b] \in Int
      /\ OpenBills \subseteq Included
  <2>1. OpenBills \in SUBSET Bill /\ OpenBills \subseteq Included
    BY DEF OpenBills, Included, Has, INCLUDE_STATUSES
  <2>2. IsFiniteSet(OpenBills)
    BY <2>1, RowsAssumption, FS_Subset
  <2>3. \A b \in OpenBills : BalanceDue(b) \in Int
    BY DueNat DEF OpenBills, Has
  <2> QED
    BY <2>1, <2>2, <2>3 DEF LiveBalances
<1>4. SumFunction(AgingBuckets(LiveBalances, as_of)) = SumFunction(LiveBalances)
  <2> DEFINE h == [b \in OpenBills |-> BucketKey(as_of - (bill[b].date + Terms))]
             f == LiveBalances
             g == AgingBuckets(LiveBalances, as_of)
  <2>1. \A b \in OpenBills : h[b] \in Buckets
    BY KeysAre
  <2>2. ASSUME NEW k \in Buckets
        PROVE  g[k] = SumFunction([b \in {c \in OpenBills : h[c] = k} |-> f[b]])
    <3>1. {c \in OpenBills : h[c] = k}
            = {b \in DOMAIN f : BucketKey(as_of - (bill[b].date + Terms)) = k}
      BY <1>3
    <3>2. g[k] = LET aged == {b \in DOMAIN f : BucketKey(as_of - (bill[b].date + Terms)) = k}
                 IN  SumFunction([b \in aged |-> f[b]])
      BY DEF AgingBuckets
    <3> QED
      BY <3>1, <3>2
  <2>3. DOMAIN g = Buckets /\ IsFiniteSet(Buckets)
    <3>1. IsFiniteSet(Buckets)
      <4>1. \A m, n \in Int : IsFiniteSet(m .. n)
        BY FS_Interval
      <4>2. 0 \in Int /\ 4 \in Int
        OBVIOUS
      <4>3. IsFiniteSet(0 .. 4)
        BY <4>1, <4>2
      <4> QED
        BY <4>3 DEF Buckets
    <3> QED
      BY <3>1 DEF AgingBuckets
  <2>4. DOMAIN f = OpenBills /\ \A b \in OpenBills : f[b] \in Int
    BY <1>3
  <2> HIDE DEF f, g, h
  <2>5. SumFunction(g) = SumFunction(f)
    BY <1>3, <2>1, <2>2, <2>3, <2>4, SumClasses
  <2> QED
    BY <2>5 DEF f, g
<1>5. PdcOutstanding(OpenBills) <= PeriodTotals(1, LastDay).pending
  <2> DEFINE S == UNION {PaymentsOf(b, "PENDING") : b \in OpenBills}
             T == {p \in StatedPayments("PENDING") : In(pay[p].date, 1, LastDay)}
             f == [p \in S |-> pay[p].amount]
             g == [p \in T |-> pay[p].amount]
  <2>1. T = StatedPayments("PENDING")
    BY StatedFit DEF In, Days
  <2>2. S \in SUBSET T
    BY <1>3, <2>1 DEF StatedPayments
  <2>3. PdcOutstanding(OpenBills) = SumFunction(f)
    BY DEF PdcOutstanding, Paid
  <2>4. PeriodTotals(1, LastDay).pending = SumFunction(g)
    BY DEF PeriodTotals, PaidIn, Paid
  <2>5. IsFiniteSet(T) /\ \A p \in T : pay[p].amount \in Nat
    <3> HIDE DEF T, S, f, g
    <3>1. IsFiniteSet(T)
      BY <2>1, StatedFit
    <3>2. \A p \in T : pay[p].amount \in Nat
      BY <2>1, StatedFit
    <3> QED
      BY <3>1, <3>2
  <2> HIDE DEF S, T
  <2>6. /\ DOMAIN f = S /\ DOMAIN g = T /\ \A p \in T : g[p] \in Nat
        /\ \A p \in S : f[p] \in Nat /\ f[p] <= g[p]
    BY <2>2, <2>5
  <2> HIDE DEF f, g
  <2>7. SumFunction(f) <= SumFunction(g)
    BY <2>2, <2>5, <2>6, SumMonotone
  <2> QED
    BY <2>3, <2>4, <2>7
<1> QED
  BY <1>1, <1>2, <1>3, <1>4, <1>5

\* Reconstructed for today, an invoice owes what it owes, where nothing is dated
\* later.
LEMMA OwesNow ==
  ASSUME BooksInv, NEW b \in Included, bill[b].date <= today,
         \A p \in StatedPayments("SUCCESS") : pay[p].date <= today,
         \A n \in StatedNotes(Less \cup More) : note[n].date <= today
  PROVE  Reconstructed(b, today) = BalanceDue(b)
<1>1. b \in Bill /\ Has(b, INCLUDE_STATUSES) /\ bill[b] # Absent
  BY DEF Included, Has
<1>2. ~(bill[b].date > today)
  <2>1. bill[b].date \in Nat /\ today \in Nat
    BY StatedFit, DocFits DEF BooksInv, Days
  <2> QED
    BY <2>1
<1>3. {p \in PaymentsOf(b, "SUCCESS") : pay[p].date <= today} = PaymentsOf(b, "SUCCESS")
  BY DEF StatedPayments
<1>4. ASSUME NEW kinds \in SUBSET (Less \cup More)
      PROVE  {n \in NotesOf(b, kinds) : note[n].date <= today} = NotesOf(b, kinds)
  <2>1. \A n \in NotesOf(b, kinds) : n \in StatedNotes(Less \cup More)
    BY <1>1 DEF StatedNotes, NotesOf
  <2> QED
    BY <2>1
<1>5. /\ {n \in NotesOf(b, Less) : note[n].date <= today} = NotesOf(b, Less)
      /\ {n \in NotesOf(b, More) : note[n].date <= today} = NotesOf(b, More)
  BY <1>4
<1>6. Reconstructed(b, today) = Monus(bill[b].total + Noted(b, More), Noted(b, Less) + PaidFor(b))
  BY <1>1, <1>2, <1>3, <1>5 DEF Reconstructed, Noted, PaidFor
<1>7. PaidFor(b) \in Nat /\ Noted(b, Less) \in Nat
  BY <1>1, DueNat DEF BooksInv
<1>8. Noted(b, Less) + PaidFor(b) = PaidFor(b) + Noted(b, Less)
  BY <1>7
<1> QED
  BY <1>6, <1>8 DEF BalanceDue, Owed

\* The ageing report of customers, reconstructed for today, is the live one.
LEMMA AgingAgrees ==
  ASSUME BooksInv, Customer, \A b \in Included : bill[b].date <= today,
         \A p \in StatedPayments("SUCCESS") : pay[p].date <= today,
         \A n \in StatedNotes(Less \cup More) : note[n].date <= today
  PROVE  ArAging(today, TRUE) = Aging(LiveBalances, today)
<1> DEFINE owing == {b \in Bill : Reconstructed(b, today) > 0}
           past == [b \in owing |-> Reconstructed(b, today)]
<1>1. ArAging(today, TRUE) = Aging(past, today)
  BY DEF ArAging
<1>2. owing = {b \in OpenBills : BalanceDue(b) > 0}
  <2>1. \A b \in Bill \ Included : Reconstructed(b, today) = 0
    BY DEF Included, Reconstructed
  <2>2. \A b \in Included : Reconstructed(b, today) = BalanceDue(b)
    BY OwesNow
  <2>3. \A b \in Included \ OpenBills : BalanceDue(b) = 0
    BY DEF BooksInv, PaidIsSettled, OpenBills, Included, Has, INCLUDE_STATUSES
  <2>4. OpenBills \subseteq Included /\ Included \subseteq Bill
    BY DEF OpenBills, Included, Has, INCLUDE_STATUSES
  <2> QED
    BY <2>1, <2>2, <2>3, <2>4
<1>3. \A b \in OpenBills : BalanceDue(b) \in Nat
  BY DueNat DEF BooksInv, OpenBills, Has
<1>4. /\ DOMAIN past = owing /\ DOMAIN LiveBalances = OpenBills
      /\ \A b \in OpenBills : LiveBalances[b] = BalanceDue(b)
      /\ \A b \in owing : past[b] = BalanceDue(b) /\ b \in OpenBills
      /\ \A b \in OpenBills \ owing : BalanceDue(b) = 0
  <2>1. DOMAIN past = owing /\ \A b \in owing : past[b] = Reconstructed(b, today)
    OBVIOUS
  <2> HIDE DEF past, owing
  <2>2. \A b \in owing : b \in OpenBills /\ b \in Included
    BY <1>2 DEF OpenBills, Included, Has, INCLUDE_STATUSES
  <2>3. \A b \in owing : past[b] = BalanceDue(b)
    BY <2>1, <2>2, OwesNow
  <2>4. \A b \in OpenBills \ owing : BalanceDue(b) = 0
    BY <1>2, <1>3
  <2> QED
    BY <2>1, <2>2, <2>3, <2>4 DEF LiveBalances
<1>5. IsFiniteSet(OpenBills)
  <2>1. OpenBills \in SUBSET Bill
    BY DEF OpenBills
  <2> QED
    BY <2>1, RowsAssumption, FS_Subset
<1> HIDE DEF past, owing
<1>6. ASSUME NEW S \in SUBSET OpenBills, NEW T, T = {b \in S : b \in owing}
      PROVE  SumFunction([b \in T |-> past[b]]) = SumFunction([b \in S |-> LiveBalances[b]])
  <2> DEFINE f == [b \in T |-> past[b]]
             g == [b \in S |-> LiveBalances[b]]
  <2>1. IsFiniteSet(S) /\ T \in SUBSET S
    BY <1>5, <1>6, FS_Subset
  <2>2. /\ DOMAIN f = T /\ DOMAIN g = S
        /\ \A b \in T : f[b] \in Int /\ g[b] = f[b]
        /\ \A b \in S \ T : g[b] = 0
    BY <1>3, <1>4, <1>6
  <2> HIDE DEF f, g
  <2>3. SumFunction(g) = SumFunction(f)
    BY <2>1, <2>2, SumSupport
  <2> QED
    BY <2>3 DEF f, g
<1>7. SumFunction(past) = SumFunction(LiveBalances)
  <2>1. owing = {b \in OpenBills : b \in owing}
    BY <1>4
  <2>2. past = [b \in owing |-> past[b]] /\ LiveBalances = [b \in OpenBills |-> LiveBalances[b]]
    BY DEF past, LiveBalances
  <2>3. SumFunction([b \in owing |-> past[b]]) = SumFunction([b \in OpenBills |-> LiveBalances[b]])
    BY <1>6, <2>1
  <2> QED
    BY <2>2, <2>3
<1>8. AgingBuckets(past, today) = AgingBuckets(LiveBalances, today)
  <2> DEFINE aged(owed, k) ==
               {b \in DOMAIN owed : BucketKey(today - (bill[b].date + Terms)) = k}
             sum(owed, k) == SumFunction([b \in aged(owed, k) |-> owed[b]])
  <2>1. ASSUME NEW k \in Buckets PROVE sum(past, k) = sum(LiveBalances, k)
    <3>1. aged(LiveBalances, k) \in SUBSET OpenBills
      BY <1>4
    <3>2. aged(past, k) = {b \in aged(LiveBalances, k) : b \in owing}
      BY <1>4
    <3> HIDE DEF aged
    <3> QED
      BY <1>6, <3>1, <3>2
  <2>2. /\ AgingBuckets(past, today) = [k \in Buckets |-> sum(past, k)]
        /\ AgingBuckets(LiveBalances, today) = [k \in Buckets |-> sum(LiveBalances, k)]
    BY DEF AgingBuckets
  <2> HIDE DEF sum
  <2> QED
    BY <2>1, <2>2
<1>9. PdcOutstanding(DOMAIN past) = PdcOutstanding(DOMAIN LiveBalances)
  <2>1. \A b \in OpenBills \ owing : PaymentsOf(b, "PENDING") = {}
    <3>1. \A b \in OpenBills : b \in Bill /\ Has(b, {"OPEN"})
      BY DEF OpenBills
    <3> QED
      BY <1>4, <3>1 DEF BooksInv, PaidIsSettled
  <2>2. UNION {PaymentsOf(b, "PENDING") : b \in owing}
          = UNION {PaymentsOf(b, "PENDING") : b \in OpenBills}
    BY <1>4, <2>1
  <2> QED
    BY <1>4, <2>2 DEF PdcOutstanding
<1>10. Aging(past, today) = Aging(LiveBalances, today)
  BY <1>7, <1>8, <1>9 DEF Aging
<1> QED
  BY <1>1, <1>10

\* The reports agree.
LEMMA BooksAgree == BooksInv /\ HoursFit => ReportsAgree
<1> SUFFICES ASSUME BooksInv, HoursFit PROVE ReportsAgree
  OBVIOUS
<1> DEFINE aging == IF Customer THEN ArAging(today, FALSE) ELSE ApAging(today)
           dated == {bill[b].date : b \in Included}
                      \cup {pay[p].date : p \in StatedPayments("SUCCESS")}
                      \cup {note[n].date : n \in StatedNotes(Less \cup More)}
<1>1. aging = Aging(LiveBalances, today)
  BY DEF ArAging, ApAging
<1>2. Voided = {} => \A x \in Periods :
         LET totals == PeriodTotals(x[1], x[2])
         IN  /\ Customer =>
                  OutputTax(x[1], x[2]) = totals.billed - totals.credited + totals.debited
             /\ (Customer \/ \E b \in Bill : Has(b, {"DRAFT"})) \/
                  InputTax(x[1], x[2]) + EveningOf(x[2]) =
                    totals.billed + totals.credited + EveningOf(x[1] - 1)
             /\ Revenue(x[1], x[2]) = totals.billed
             /\ Cashflow(x[1], x[2]) = totals.paid
  <2>1. \A x \in Periods : x[1] \in Nat /\ x[2] \in Nat /\ x[1] <= x[2]
    BY DEF Periods, Days
  <2> QED
    BY <2>1, TaxAgrees
<1>3. /\ aging.outstanding = AmountDueNow
      /\ SumFunction(aging.buckets) = AmountDueNow
      /\ aging.pdc <= PeriodTotals(1, LastDay).pending
  BY <1>1, BucketsAddUp DEF BooksInv
<1>4. ASSUME Customer, \A d \in dated : d <= today PROVE ArAging(today, TRUE) = aging
  <2>1. /\ \A b \in Included : bill[b].date <= today
        /\ \A p \in StatedPayments("SUCCESS") : pay[p].date <= today
        /\ \A n \in StatedNotes(Less \cup More) : note[n].date <= today
    BY <1>4
  <2> HIDE DEF aging
  <2> QED
    BY <1>1, <1>4, <2>1, AgingAgrees
<1> QED
  BY <1>2, <1>3, <1>4 DEF ReportsAgree

\* Statements join, wherever the line between two periods is drawn, and the
\* reports agree about the invoices nobody has voided: where the VAT pack goes by
\* the days of the Gulf it differs from a supplier's statement by the evening
\* before the period and the evening of its last day, and by nothing else.
THEOREM ReportsInvariance == StatementsSpec => []ReportsAddUp
<1>1. BooksInv /\ HoursFit => ReportsAddUp
  BY BooksJoin, BooksAgree DEF BooksInv, ReportsAddUp
<1> QED
  BY <1>1, BooksInvariance, HoursInvariance, PTL

-----------------------------------------------------------------------------
(* Document numbers.                                                       *)

\* A request with a number in hand is the one that has the counter row, and
\* its number is the next one.
NumberInHand ==
    \A t \in Caller : pc[t] \in {"numbered", "written"} => owner = t /\ num[t] = last + 1

\* The committed numbers lie in 1..last, each of them is taken, and by one.
NumbersTaken ==
    /\ \A t \in Saved : num[t] \in 1..last
    /\ \A n \in 1..last : \E t \in Saved : num[t] = n

\* A request that has met an IntegrityError knows that the row is committed.
RowKnown ==
    \A t \in Caller :
        /\ pc[t] = "reselect" => exists
        /\ attempt[t] > 0 => exists /\ pc[t] # "insert"

NumbersInv ==
    /\ NumbersTypeOK
    /\ ~exists => last = 0
    /\ NumberInHand
    /\ NumbersTaken
    /\ Unique
    /\ RowKnown
    /\ RaceLostOnce
    /\ ParentStillLocked

USE CallersAssumption, RetriesAssumption

\* No document is numbered at first.
LEMMA InitNumbersInv == InitNumbers => NumbersInv
<1> SUFFICES ASSUME InitNumbers PROVE NumbersInv
  OBVIOUS
<1>1. NumbersTypeOK
  BY DEF InitNumbers, NumbersTypeOK
<1>2. Saved = {}
  BY DEF InitNumbers, Saved
<1>3. NumbersTaken /\ Unique
  BY <1>2 DEF InitNumbers, NumbersTaken, Unique
<1>4. NumberInHand /\ RowKnown /\ RaceLostOnce /\ ParentStillLocked
  BY DEF InitNumbers, NumberInHand, RowKnown, RaceLostOnce, ParentStillLocked
<1> QED
  BY <1>1, <1>3, <1>4 DEF NumbersInv, InitNumbers

\* Every step keeps the types.
LEMMA TypeStep == NumbersTypeOK /\ [NumbersNext]_numbering => NumbersTypeOK'
<1> SUFFICES ASSUME NumbersTypeOK, [NumbersNext]_numbering PROVE NumbersTypeOK'
  OBVIOUS
<1> USE DEF NumbersTypeOK, Active, Ended, Failed
<1>1. ASSUME NEW t \in Caller, Call(t) PROVE NumbersTypeOK'
  BY <1>1 DEF Call, Goto
<1>2. ASSUME NEW t \in Caller, TakeRow(t) PROVE NumbersTypeOK'
  BY <1>2 DEF TakeRow, Goto
<1>3. ASSUME NEW t \in Caller, SelectRow(t) PROVE NumbersTypeOK'
  BY <1>2, <1>3 DEF SelectRow, Goto
<1>4. ASSUME NEW t \in Caller, InsertRow(t) PROVE NumbersTypeOK'
  BY <1>4 DEF InsertRow, Goto
<1>5. ASSUME NEW t \in Caller, InsertConflict(t) PROVE NumbersTypeOK'
  <2>1. CASE strategy = "retry"
    BY <1>5, <2>1 DEF InsertConflict, HandleConflict, ReleaseLocks, Goto
  <2>2. CASE strategy = "fallback"
    BY <1>5, <2>2 DEF InsertConflict, HandleConflict, ReleaseLocks, Goto
  <2>3. CASE strategy = "savepoint"
    BY <1>5, <2>3 DEF InsertConflict, HandleConflict, Goto
  <2>4. CASE strategy = "bare"
    BY <1>5, <2>4 DEF InsertConflict, HandleConflict, ReleaseLocks, Goto
  <2> QED BY <2>1, <2>2, <2>3, <2>4 DEF Strategies
<1>6. ASSUME NEW t \in Caller, Reselect(t) PROVE NumbersTypeOK'
  BY <1>2, <1>6 DEF Reselect, ReleaseLocks, Goto
<1>7. ASSUME NEW t \in Caller, WriteDocument(t) PROVE NumbersTypeOK'
  BY <1>7 DEF WriteDocument, ReleaseLocks, Goto
<1>8. ASSUME NEW t \in Caller, Commit(t) PROVE NumbersTypeOK'
  BY <1>8 DEF Commit, ReleaseLocks, Goto
<1>9. ASSUME NEW t \in Caller, RollBack(t) PROVE NumbersTypeOK'
  BY <1>9 DEF RollBack, ReleaseLocks, Goto
<1>10. CASE UNCHANGED numbering
  BY <1>10 DEF numbering
<1> QED
  BY <1>1, <1>3, <1>4, <1>5, <1>6, <1>7, <1>8, <1>9, <1>10 DEF NumbersNext, Advance

\* Every step but a commit leaves the saved documents and the counter alone.
LEMMA SavedUnchanged ==
  ASSUME NumbersTypeOK, NumbersTaken, Unique, last' = last,
         \A u \in Caller : pc'[u] = "committed" <=> pc[u] = "committed",
         \A u \in Caller : pc[u] = "committed" => num'[u] = num[u]
  PROVE  NumbersTaken' /\ Unique'
<1>1. Saved' = Saved
  BY DEF Saved
<1> QED
  BY <1>1 DEF NumbersTaken, Unique, Saved

\* The steps that give a request its number.
LEMMA NumberStep ==
  ASSUME NumbersInv, NumbersTypeOK', NEW t \in Caller,
         pc[t] \in {"select", "insert", "reselect"}, owner = Nobody, owner' = t,
         num' = [num EXCEPT ![t] = last + 1], Goto(t, "numbered"),
         UNCHANGED <<strategy, exists, last, parent, attempt>>
  PROVE  NumbersInv'
<1> USE DEF NumbersInv, NumbersTypeOK, Goto
<1>1. NumbersTaken' /\ Unique'
  BY SavedUnchanged
<1>2. NumberInHand'
  BY DEF NumberInHand
<1>3. RowKnown' /\ RaceLostOnce' /\ ParentStillLocked'
  BY DEF RowKnown, RaceLostOnce, ParentStillLocked
<1> QED
  BY <1>1, <1>2, <1>3

\* The steps that end a request without a document, or send it back: its
\* locks are released.
LEMMA ReleaseStep ==
  ASSUME NumbersInv, NumbersTypeOK', NEW t \in Caller, NEW label,
         pc[t] \in Active, Goto(t, label), ReleaseLocks(t),
         label \in {"select", "reselect"} \cup (Failed \ {"exhausted", "missing"}),
         label \in {"select", "reselect"} => exists,
         attempt' = attempt \/ (exists /\ attempt[t] = 0
                                 /\ attempt' = [attempt EXCEPT ![t] = 1]),
         UNCHANGED <<strategy, exists, last, num>>
  PROVE  NumbersInv'
<1> USE DEF NumbersInv, NumbersTypeOK, Goto, Active, Failed, ReleaseLocks
<1>1. NumbersTaken' /\ Unique'
  BY SavedUnchanged
<1>2. NumberInHand'
  BY DEF NumberInHand
<1>3. RowKnown' /\ RaceLostOnce'
  BY DEF RowKnown, RaceLostOnce
<1>4. ParentStillLocked'
  BY DEF ParentStillLocked
<1> QED
  BY <1>1, <1>2, <1>3, <1>4

\* A commit saves exactly the next number.
LEMMA CommitStep ==
  ASSUME NumbersInv, NumbersTypeOK', NEW t \in Caller, Commit(t)
  PROVE  NumbersInv'
<1> USE DEF NumbersInv, NumbersTypeOK, Goto, ReleaseLocks
<1>1. owner = t /\ num[t] = last + 1 /\ pc[t] = "written"
  BY DEF Commit, NumberInHand
<1>2. Saved' = Saved \cup {t} /\ t \notin Saved
  BY <1>1 DEF Commit, Saved
<1>3. last' = last + 1 /\ num' = num
  BY <1>1 DEF Commit
<1>4. NumbersTaken'
  <2>1. \A u \in Saved' : num'[u] \in 1..last'
    BY <1>1, <1>2, <1>3 DEF NumbersTaken, Saved
  <2>2. ASSUME NEW n \in 1..last' PROVE \E u \in Saved' : num'[u] = n
    <3>1. CASE n = last + 1
      BY <3>1, <1>1, <1>2, <1>3
    <3>2. CASE n # last + 1
      <4>1. n \in 1..last
        BY <3>2, <1>3
      <4> QED
        BY <4>1, <1>2, <1>3 DEF NumbersTaken
    <3> QED
      BY <3>1, <3>2
  <2> QED
    BY <2>1, <2>2 DEF NumbersTaken
<1>5. Unique'
  <2>1. \A u \in Saved : num[u] < last + 1
    BY DEF NumbersTaken, Saved
  <2> QED
    BY <2>1, <1>1, <1>2, <1>3 DEF Unique, Saved
<1>6. NumberInHand'
  BY <1>1 DEF Commit, NumberInHand
<1>7. RowKnown' /\ RaceLostOnce'
  BY DEF Commit, RowKnown, RaceLostOnce
<1>8. ParentStillLocked'
  BY DEF Commit, ParentStillLocked
<1> QED
  BY <1>3, <1>4, <1>5, <1>6, <1>7, <1>8 DEF Commit

\* Every step keeps the invariant.
LEMMA StepNumbersInv == NumbersInv /\ [NumbersNext]_numbering => NumbersInv'
<1> SUFFICES ASSUME NumbersInv, [NumbersNext]_numbering PROVE NumbersInv'
  OBVIOUS
<1>0. NumbersTypeOK'
  BY TypeStep DEF NumbersInv
<1>1. ASSUME NEW t \in Caller, Call(t) PROVE NumbersInv'
  <2> USE DEF NumbersInv, NumbersTypeOK, Call, Goto
  <2>1. NumbersTaken' /\ Unique'
    BY <1>1, SavedUnchanged
  <2>2. NumberInHand' /\ RowKnown' /\ RaceLostOnce'
    BY <1>1 DEF NumberInHand, RowKnown, RaceLostOnce
  <2>3. ParentStillLocked'
    BY <1>1 DEF ParentStillLocked
  <2> QED
    BY <1>0, <1>1, <2>1, <2>2, <2>3
<1>2. ASSUME NEW t \in Caller, TakeRow(t), pc[t] \in {"select", "reselect"} PROVE NumbersInv'
  BY <1>0, <1>2, NumberStep DEF TakeRow
<1>3. ASSUME NEW t \in Caller, SelectRow(t) PROVE NumbersInv'
  <2>1. CASE TakeRow(t)
    BY <1>2, <1>3, <2>1 DEF SelectRow
  <2>2. CASE ~TakeRow(t)
    <3> USE DEF NumbersInv, NumbersTypeOK, SelectRow, Goto
    <3>1. NumbersTaken' /\ Unique'
      BY <1>3, <2>2, SavedUnchanged
    <3>2. NumberInHand' /\ ParentStillLocked'
      BY <1>3, <2>2 DEF NumberInHand, ParentStillLocked
    <3>3. RowKnown' /\ RaceLostOnce'
      BY <1>3, <2>2 DEF RowKnown, RaceLostOnce
    <3> QED
      BY <1>0, <1>3, <2>2, <3>1, <3>2, <3>3
  <2> QED
    BY <2>1, <2>2
<1>4. ASSUME NEW t \in Caller, InsertRow(t) PROVE NumbersInv'
  <2>1. num' = [num EXCEPT ![t] = last + 1]
    BY <1>4 DEF InsertRow, NumbersInv
  <2> QED
    BY <1>0, <1>4, <2>1, NumberStep DEF InsertRow
<1>5. ASSUME NEW t \in Caller, InsertConflict(t) PROVE NumbersInv'
  <2>0. /\ pc[t] \in Active /\ exists /\ attempt[t] = 0
        /\ UNCHANGED <<strategy, exists, last, num>>
    BY <1>5 DEF InsertConflict, NumbersInv, RowKnown, NumbersTypeOK, Active
  <2>1. CASE strategy = "retry"
    <3>1. Goto(t, "select") /\ ReleaseLocks(t) /\ attempt' = [attempt EXCEPT ![t] = 1]
      BY <1>5, <2>0, <2>1 DEF InsertConflict, HandleConflict, NumbersInv, NumbersTypeOK
    <3> QED
      BY <1>0, <2>0, <3>1, ReleaseStep
  <2>2. CASE strategy = "fallback"
    <3>1. Goto(t, "reselect") /\ ReleaseLocks(t) /\ attempt' = attempt
      BY <1>5, <2>2 DEF InsertConflict, HandleConflict
    <3> QED
      BY <1>0, <2>0, <3>1, ReleaseStep
  <2>3. CASE strategy = "savepoint"
    <3>1. Goto(t, "reselect") /\ UNCHANGED <<owner, parent, attempt>>
      BY <1>5, <2>3 DEF InsertConflict, HandleConflict
    <3> USE DEF NumbersInv, NumbersTypeOK, Goto
    <3>2. NumbersTaken' /\ Unique'
      BY <1>5, <2>0, <3>1, SavedUnchanged DEF InsertConflict
    <3>3. NumberInHand' /\ RowKnown' /\ RaceLostOnce' /\ ParentStillLocked'
      BY <1>5, <2>0, <3>1
         DEF InsertConflict, NumberInHand, RowKnown, RaceLostOnce, ParentStillLocked
    <3> QED
      BY <1>0, <2>0, <3>1, <3>2, <3>3
  <2>4. CASE strategy = "bare"
    <3>1. Goto(t, "conflict") /\ ReleaseLocks(t) /\ attempt' = attempt
      BY <1>5, <2>4 DEF InsertConflict, HandleConflict
    <3> QED
      BY <1>0, <2>0, <3>1, ReleaseStep DEF Failed
  <2> QED
    BY <2>1, <2>2, <2>3, <2>4 DEF NumbersInv, NumbersTypeOK, Strategies
<1>6. ASSUME NEW t \in Caller, Reselect(t) PROVE NumbersInv'
  <2>1. exists
    BY <1>6 DEF Reselect, NumbersInv, RowKnown
  <2> QED
    BY <1>2, <1>6, <2>1 DEF Reselect
<1>7. ASSUME NEW t \in Caller, WriteDocument(t) PROVE NumbersInv'
  <2>1. CASE t \in Holder /\ parent # t
    BY <1>0, <1>7, <2>1, ReleaseStep DEF WriteDocument, Active, Failed
  <2>2. CASE ~(t \in Holder /\ parent # t)
    <3> USE DEF NumbersInv, NumbersTypeOK, WriteDocument, Goto
    <3>1. NumbersTaken' /\ Unique'
      BY <1>7, <2>2, SavedUnchanged
    <3>2. NumberInHand' /\ RowKnown' /\ RaceLostOnce'
      BY <1>7, <2>2 DEF NumberInHand, RowKnown, RaceLostOnce
    <3>3. ParentStillLocked'
      BY <1>7, <2>2 DEF ParentStillLocked
    <3> QED
      BY <1>0, <1>7, <2>2, <3>1, <3>2, <3>3
  <2> QED
    BY <2>1, <2>2
<1>8. ASSUME NEW t \in Caller, Commit(t) PROVE NumbersInv'
  BY <1>0, <1>8, CommitStep
<1>9. ASSUME NEW t \in Caller, RollBack(t) PROVE NumbersInv'
  BY <1>0, <1>9, ReleaseStep DEF RollBack, Failed
<1>10. CASE UNCHANGED numbering
  BY <1>10 DEF numbering, NumbersInv, NumbersTypeOK, NumberInHand, NumbersTaken, Unique, RowKnown,
               RaceLostOnce, ParentStillLocked, Saved
<1> QED
  BY <1>1, <1>3, <1>4, <1>5, <1>6, <1>7, <1>8, <1>9, <1>10 DEF NumbersNext, Advance

\* The inductive invariant of the number service holds in every reachable state.
THEOREM Invariance == NumbersSpec => []NumbersInv
  BY InitNumbersInv, StepNumbersInv, PTL DEF NumbersSpec

\* Whatever requests run, fail or race, the committed documents are numbered
\* 1..last without a gap (the "No Gaps" guarantee of invoice_number.py:24-28).
THEOREM NoGaps == NumbersSpec => []Gapless
<1>1. NumbersInv => Gapless
  BY DEF NumbersInv, NumbersTaken, Gapless
<1> QED
  BY <1>1, Invariance, PTL

\* No two committed documents of a workspace and year share a number.
THEOREM NoDuplicates == NumbersSpec => []Unique
<1>1. NumbersInv => Unique
  BY DEF NumbersInv
<1> QED
  BY <1>1, Invariance, PTL

\* Both, with the types of the variables.
THEOREM NumbersAreSound == NumbersSpec => []Numbered
<1>1. NumbersInv => NumbersTypeOK
  BY DEF NumbersInv
<1> QED
  BY <1>1, Invariance, NoGaps, NoDuplicates, PTL DEF Numbered

\* The retry limit is never reached and the fallback SELECT always finds the
\* row: losing the race for the first number happens to a request only once.
THEOREM OneLostRace == NumbersSpec => []RaceLostOnce
<1>1. NumbersInv => RaceLostOnce
  BY DEF NumbersInv
<1> QED
  BY <1>1, Invariance, PTL

\* A document is written under the lock of its parent row, rollbacks inside the
\* number service notwithstanding.
THEOREM UnderParentLock == NumbersSpec => []ParentStillLocked
<1>1. NumbersInv => ParentStillLocked
  BY DEF NumbersInv
<1> QED
  BY <1>1, Invariance, PTL

-----------------------------------------------------------------------------
(* The service implements NumberLog.                                       *)

\* A step other than a commit shows no new number and moves no counter.
LEMMA QuietStep ==
  ASSUME NumbersTypeOK, NumbersTypeOK', NEW t \in Caller,
         Call(t) \/ Advance(t) \/ RollBack(t), ~Commit(t)
  PROVE  last' = last /\ Shown' = Shown
<1> USE DEF NumbersTypeOK, Goto, Active, Shown, Saved
<1>1. CASE Call(t)
  BY <1>1 DEF Call
<1>2. CASE SelectRow(t)
  BY <1>2 DEF SelectRow, TakeRow
<1>3. CASE InsertRow(t)
  BY <1>3 DEF InsertRow
<1>4. CASE InsertConflict(t)
  BY <1>4 DEF InsertConflict, HandleConflict
<1>5. CASE Reselect(t)
  BY <1>5 DEF Reselect, TakeRow
<1>6. CASE WriteDocument(t)
  BY <1>6 DEF WriteDocument
<1>7. CASE RollBack(t)
  BY <1>7 DEF RollBack
<1> QED
  BY <1>1, <1>2, <1>3, <1>4, <1>5, <1>6, <1>7 DEF Advance

\* A commit is the step that issues the next number to the request.
LEMMA CommitIssues ==
  ASSUME NumbersInv, NEW t \in Caller, Commit(t)
  PROVE  Log!Issue(t)
<1> USE DEF NumbersInv, NumbersTypeOK, Goto
<1>1. pc[t] = "written" /\ num[t] = last + 1
  BY DEF Commit, NumberInHand
<1>2. Saved' = Saved \cup {t} /\ t \notin Saved
  BY <1>1 DEF Commit, Saved
<1>3. last' = last + 1 /\ num' = num
  BY <1>1 DEF Commit
<1>4. Shown[t] = 0
  BY <1>2 DEF Shown
<1>5. Shown' = [Shown EXCEPT ![t] = last + 1]
  BY <1>1, <1>2, <1>3 DEF Shown
<1> QED
  BY <1>3, <1>4, <1>5 DEF Log!Issue

\* Every step issues the next number or shows nothing new.
LEMMA StepImplements ==
  NumbersInv /\ NumbersTypeOK' /\ [NumbersNext]_numbering =>
      [\E r \in Caller : Log!Issue(r)]_<<last, Shown>>
<1> SUFFICES ASSUME NumbersInv, NumbersTypeOK', [NumbersNext]_numbering
             PROVE  [\E r \in Caller : Log!Issue(r)]_<<last, Shown>>
  OBVIOUS
<1>1. ASSUME NEW t \in Caller, Commit(t) PROVE \E r \in Caller : Log!Issue(r)
  BY <1>1, CommitIssues
<1>2. ASSUME NEW t \in Caller, Call(t) \/ Advance(t) \/ RollBack(t), ~Commit(t)
      PROVE  UNCHANGED <<last, Shown>>
  BY <1>2, QuietStep DEF NumbersInv
<1>3. CASE UNCHANGED numbering
  BY <1>3 DEF numbering, Shown, Saved
<1> QED
  BY <1>1, <1>2, <1>3 DEF NumbersNext

\* Every behaviour of the service, with its races, rollbacks and retries, is one
\* in which numbers are issued one after the other and never taken back.
THEOREM IssuesInOrder == NumbersSpec => IssuedInOrder
<1>1. InitNumbers => Log!Init
  BY DEF InitNumbers, Log!Init, Shown, Saved
<1>2. NumbersInv /\ NumbersInv' /\ [NumbersNext]_numbering =>
        [\E r \in Caller : Log!Issue(r)]_<<last, Shown>>
  BY StepImplements DEF NumbersInv
<1> QED
  BY <1>1, <1>2, Invariance, PTL DEF NumbersSpec, IssuedInOrder, Log!Spec

-----------------------------------------------------------------------------
(* Messages.                                                               *)

\* A status that counts as sent is followed by a later one or by a failure.
RisesTo(was, now) == was \in Arrived /\ now # "FAILED" => Rank[now] >= Rank[was]

\* A request that has made up its message and not inserted it yet.
Making(t) == Is(t, IF channel = "whatsapp" THEN "reserve" ELSE "send")

\* Only WhatsApp keys grow old; of a key, only a live row stands for a message.
KeysFit ==
    \A k \in Key :
        /\ key[k] # None /\ key[k].old => channel = "whatsapp" /\ k \in expired
        /\ workers = 1 \/ k \notin expired =>
             uses[k] <= IF key[k] # None /\ ~key[k].old THEN 1 ELSE 0

\* Whatever overlaps: who makes a message is the only one to know of it, who
\* works on one finds it, and a resend holds the row it has read.
Fresh(t) ==
    Making(t) =>
        /\ message[txn[t].message] = None
        /\ channel = "email" => txn[t].type = "TEXT"
        /\ txn[t].seen # None => channel = "whatsapp" /\ txn[t].key \in expired
        /\ \A u \in Txn \ {t} : txn[u] # None => txn[u].message # txn[t].message
Found(t) ==
    /\ Is(t, "reserve") => channel = "whatsapp"
    /\ txn[t] # None /\ txn[t].op \in {"send", "resend", "report"} /\ ~Making(t) =>
         message[txn[t].message] # None
    /\ Is(t, "report") =>
         txn[t].status \in IF channel = "whatsapp" THEN WhatsAppMessageStatus ELSE EmailStatus
    /\ Is(t, "resend") /\ channel = "whatsapp" =>
         message[txn[t].message].status \in {"FAILED", "QUEUED"}

\* What the only open request has read is what there is.
Alone(t) ==
    workers = 1 /\ txn[t] # None =>
        /\ \A u \in Txn : txn[u] # None => u = t
        /\ Making(t) => txn[t].seen = key[txn[t].key] /\ ~Answers(txn[t].key)
        /\ Is(t, "reserve") => Sendable(txn[t].type)
        /\ txn[t].op \in {"send", "resend"} /\ ~Making(t) =>
             /\ message[txn[t].message].status \notin Arrived
             /\ channel = "whatsapp" => Sendable(message[txn[t].message].type)
        /\ Is(t, "report") /\ channel = "whatsapp" =>
             RisesTo(message[txn[t].message].status, txn[t].status)

\* The inductive invariant.
MInv ==
    /\ TypeOK /\ KeysFit
    /\ \A t \in Txn : Fresh(t) /\ Found(t) /\ Alone(t)
    /\ OneEnquiryPerInbound

USE NoneAssumption

\* The rows of open requests.
LEMMA MOpen ==
  ASSUME TypeOK, NEW t \in Txn, txn[t] # None
  PROVE  /\ txn[t] \in Request
         /\ txn[t].op \in {"reserve", "send"} => txn[t] \in SendRow
         /\ txn[t].op = "resend" => txn[t] \in ResendRow
         /\ txn[t].op = "report" => txn[t] \in ReportRow
         /\ txn[t].op = "inbound" => txn[t] \in InboundRow
<1>1. txn[t] \in Request
  BY DEF TypeOK
<1> QED
  BY <1>1 DEF Request, SendRow, ResendRow, ReportRow, InboundRow

\* Nobody is open when the only request begins.
LEMMA NobodyOpen ==
  ASSUME MInv, Free, workers = 1
  PROVE  \A t \in Txn : txn[t] = None
<1> DEFINE S == {t \in Txn : txn[t] # None}
<1>1. IsFiniteSet(S)
  BY TxnAssumption, FS_Subset
<1>2. Cardinality(S) \in Nat /\ Cardinality(S) < 1
  BY <1>1, FS_CardinalityType DEF Free
<1>3. S = {}
  BY <1>1, <1>2, FS_EmptySet
<1> QED
  BY <1>3

\* Nothing is open at first.
LEMMA InitMInv ==
  ASSUME Init
  PROVE  MInv
<1>1. TypeOK
  BY DEF Init, TypeOK
<1>2. KeysFit
  BY DEF Init, KeysFit
<1>3. \A t \in Txn : Fresh(t) /\ Found(t) /\ Alone(t)
  BY DEF Init, Fresh, Found, Alone, Making, Is
<1>4. OneEnquiryPerInbound
  BY DEF Init, OneEnquiryPerInbound
<1> QED
  BY <1>1, <1>2, <1>3, <1>4 DEF MInv

\* A first step opens a request r and changes no row.
LEMMA BeginMInv ==
  ASSUME MInv, NEW t \in Txn, NEW r \in Request, Begin(t, r),
         \/ r.message = None
         \/ r.message \in Message /\ message[r.message] # None
         \/ Unused(r.message) /\ r.message \in Message,
         Making(t)' =>
           /\ message[r.message] = None /\ Unused(r.message)
           /\ channel = "email" => r.type = "TEXT"
           /\ r.seen # None => channel = "whatsapp" /\ r.key \in expired
           /\ r.seen = key[r.key] /\ ~Answers(r.key)
           /\ r.op = "reserve" => Sendable(r.type),
         ~Making(t)' => r.op \notin {"reserve", "send"},
         r.op \in {"resend", "report"} => message[r.message] # None,
         r.op = "resend" =>
           /\ message[r.message].status \notin Arrived
           /\ channel = "whatsapp" => /\ message[r.message].status \in {"FAILED", "QUEUED"}
                                      /\ Sendable(message[r.message].type),
         r.op = "report" =>
           /\ r.status \in IF channel = "whatsapp" THEN WhatsAppMessageStatus ELSE EmailStatus
           /\ channel = "whatsapp" => RisesTo(message[r.message].status, r.status)
  PROVE  MInv'
<1>1. /\ txn[t] = None /\ txn' = [txn EXCEPT ![t] = r]
      /\ UNCHANGED <<channel, message, key, uses, expired, document, received, enquiry, taken,
                     workers>>
  BY DEF Begin, rows
<1>2. txn'[t] = r /\ r # None /\ \A u \in Txn \ {t} : txn'[u] = txn[u]
  BY <1>1 DEF MInv, TypeOK
<1>3. TypeOK'
  BY <1>1 DEF MInv, TypeOK
<1>4. KeysFit' /\ OneEnquiryPerInbound'
  BY <1>1 DEF MInv, KeysFit, OneEnquiryPerInbound
<1>5. workers = 1 => \A u \in Txn : txn[u] = None
  BY NobodyOpen DEF Begin
<1>6. Fresh(t)' /\ Found(t)' /\ Alone(t)'
  <2>1. ASSUME Making(t)', NEW u \in Txn \ {t}, txn'[u] # None
        PROVE  txn'[u].message # txn'[t].message
    BY <1>2, <2>1 DEF Unused
  <2>2. Fresh(t)'
    BY <1>1, <1>2, <2>1 DEF Fresh
  <2>3. Found(t)'
    BY <1>1, <1>2 DEF Found, Is, Making
  <2>4. Alone(t)'
    <3>1. workers' = 1 => \A u \in Txn : txn'[u] # None => u = t
      BY <1>1, <1>2, <1>5
    <3>2. (Making(t) => txn[t].seen = key[txn[t].key] /\ ~Answers(txn[t].key))'
      BY <1>1, <1>2 DEF Answers
    <3>3. (Is(t, "reserve") => Sendable(txn[t].type))'
      BY <1>1, <1>2 DEF Sendable, Is
    <3>4. (txn[t].op \in {"send", "resend"} /\ ~Making(t) =>
             /\ message[txn[t].message].status \notin Arrived
             /\ channel = "whatsapp" => Sendable(message[txn[t].message].type))'
      BY <1>1, <1>2 DEF Sendable
    <3>5. (Is(t, "report") /\ channel = "whatsapp" =>
             RisesTo(message[txn[t].message].status, txn[t].status))'
      BY <1>1, <1>2 DEF Is
    <3> QED
      BY <3>1, <3>2, <3>3, <3>4, <3>5 DEF Alone
  <2> QED
    BY <2>2, <2>3, <2>4
<1>7. ASSUME NEW u \in Txn \ {t} PROVE Fresh(u)' /\ Found(u)' /\ Alone(u)'
  <2>1. Fresh(u) /\ Found(u)
    BY DEF MInv
  <2>2. Making(u)' <=> Making(u)
    BY <1>1, <1>2 DEF Making, Is
  <2>3. Making(u) => r.message # txn[u].message
    <3> SUFFICES ASSUME Making(u) PROVE r.message # txn[u].message
      OBVIOUS
    <3>1. txn[u] # None /\ message[txn[u].message] = None /\ txn[u].message \in Message
      BY <2>1, MOpen DEF Making, Is, Fresh, MInv, SendRow
    <3> QED
      BY <3>1 DEF Unused
  <2>4. Fresh(u)'
    BY <1>1, <1>2, <2>1, <2>2, <2>3 DEF Fresh
  <2>5. Found(u)'
    BY <1>1, <1>2, <2>1, <2>2 DEF Found, Is
  <2>6. Alone(u)'
    BY <1>1, <1>2, <1>5 DEF Alone
  <2> QED
    BY <2>4, <2>5, <2>6
<1> QED
  BY <1>3, <1>4, <1>6, <1>7 DEF MInv

\* A send reads its key and its document.
LEMMA SendReadMInv ==
  ASSUME MInv, NEW t \in Txn, NEW k \in Key, NEW f \in Fingerprint, NEW m \in Message,
         NEW type \in WhatsAppMessageType, SendRead(t, k, f, m, type)
  PROVE  MInv'
<1> DEFINE r == [op |-> IF channel = "whatsapp" THEN "reserve" ELSE "send", key |-> k,
                 fingerprint |-> f, seen |-> key[k], type |-> type, message |-> m,
                 was |-> "QUEUED", answer |-> None]
<1>1. /\ Begin(t, r) /\ Unused(m) /\ ~Answers(k)
      /\ (IF channel = "whatsapp" THEN Sendable(type) ELSE type = "TEXT")
  BY DEF SendRead
<1>2. r \in Request
  BY DEF Request, SendRow, MInv, TypeOK
<1>3. txn'[t] = r /\ channel' = channel
  BY <1>1 DEF Begin, MInv, TypeOK
<1>4. Making(t)'
  BY <1>2, <1>3 DEF Making, Is
<1>5. message[m] = None
  BY <1>1 DEF Unused
<1>6. r.seen # None => channel = "whatsapp" /\ r.key \in expired
  BY <1>1 DEF Answers, MInv, KeysFit, TypeOK
<1>7. r.op = "reserve" => Sendable(r.type)
  BY <1>1
<1>8. channel = "email" => r.type = "TEXT"
  BY <1>1
<1>9. r.op \in {"reserve", "send"} /\ r.message = m /\ r.seen = key[k] /\ r.key = k
  OBVIOUS
<1> HIDE DEF r
<1> QED
  BY <1>1, <1>2, <1>4, <1>5, <1>6, <1>7, <1>8, <1>9, BeginMInv

\* A resend reads the message it repeats.
LEMMA ResendReadMInv ==
  ASSUME MInv, NEW t \in Txn, NEW m \in Message, ResendRead(t, m)
  PROVE  MInv'
<1> DEFINE r == [op |-> "resend", message |-> m, was |-> message[m].status, answer |-> None]
<1>1. /\ Begin(t, r) /\ message[m] # None /\ Resendable(m) /\ Sendable(message[m].type)
  BY DEF ResendRead
<1>2. /\ message[m].status \in {"FAILED", "BOUNCED", "QUEUED"}
      /\ channel = "whatsapp" => message[m].status \in {"FAILED", "QUEUED"}
  BY <1>1 DEF Resendable
<1>3. r \in Request
  BY <1>2 DEF Request, ResendRow
<1>4. txn'[t] = r
  BY <1>1 DEF Begin, MInv, TypeOK
<1>5. ~Making(t)'
  BY <1>4 DEF Making, Is
<1>6. r.op = "resend" /\ r.message = m /\ message[m].status \notin Arrived
  BY <1>2 DEF Arrived
<1> HIDE DEF r
<1> QED
  BY <1>1, <1>2, <1>3, <1>5, <1>6, BeginMInv

\* What a WhatsApp report makes of a status.
LEMMA ReportedRises ==
  ASSUME NEW was \in WhatsAppMessageStatus, NEW target \in {"SENT", "DELIVERED", "READ", "FAILED"}
  PROVE  /\ Reported(was, target) \in WhatsAppMessageStatus
         /\ RisesTo(was, Reported(was, target))
BY DEF WhatsAppMessageStatus, Reported, RisesTo, Rank, Arrived

\* A report finds the message it is about.
LEMMA ReportReadMInv ==
  ASSUME MInv, NEW t \in Txn, NEW i \in ProviderId, NEW target \in Reports,
         ReportRead(t, i, target)
  PROVE  MInv'
<1>1. PICK m \in Message :
        /\ message[m] # None
        /\ Begin(t, [op |-> "report", message |-> m,
                     status |-> IF channel = "whatsapp" THEN Reported(message[m].status, target)
                                ELSE target])
  BY DEF ReportRead
<1> DEFINE status == IF channel = "whatsapp" THEN Reported(message[m].status, target) ELSE target
           r == [op |-> "report", message |-> m, status |-> status]
<1>2. /\ status \in IF channel = "whatsapp" THEN WhatsAppMessageStatus ELSE EmailStatus
      /\ channel = "whatsapp" => RisesTo(message[m].status, status)
  <2>1. CASE channel = "whatsapp"
    <3>1. message[m].status \in WhatsAppMessageStatus
      BY <1>1, <2>1 DEF MInv, TypeOK, MessageRow
    <3>2. target \in {"SENT", "DELIVERED", "READ", "FAILED"}
      BY <2>1 DEF Reports
    <3> QED
      BY <2>1, <3>1, <3>2, ReportedRises
  <2>2. CASE channel # "whatsapp"
    BY <2>2 DEF Reports, EmailStatus
  <2> QED
    BY <2>1, <2>2
<1>3. r \in Request
  BY <1>2 DEF Request, ReportRow
<1>4. Begin(t, r) /\ txn'[t] = r
  BY <1>1 DEF Begin, MInv, TypeOK
<1>5. ~Making(t)'
  BY <1>4 DEF Making, Is
<1>6. r.op = "report" /\ r.message = m /\ r.status = status
  OBVIOUS
<1> HIDE DEF r, status
<1> QED
  BY <1>1, <1>2, <1>3, <1>4, <1>5, <1>6, BeginMInv

\* A message received is looked up by its provider id.
LEMMA InboundReadMInv ==
  ASSUME MInv, NEW t \in Txn, NEW i \in Inbound, InboundRead(t, i)
  PROVE  MInv'
<1> DEFINE r == [op |-> "inbound", id |-> i, message |-> None]
<1>1. Begin(t, r)
  BY DEF InboundRead
<1>2. r \in Request
  BY DEF Request, InboundRow
<1>3. txn'[t] = r
  BY <1>1 DEF Begin, MInv, TypeOK
<1>4. ~Making(t)'
  BY <1>3 DEF Making, Is
<1>5. r.op = "inbound" /\ r.message = None
  OBVIOUS
<1> HIDE DEF r
<1> QED
  BY <1>1, <1>2, <1>4, <1>5, BeginMInv

\* A request that ends leaves the others what they have read: it takes no
\* message away, makes none but its own, and keeps off the rows they hold.
LEMMA EndMInv ==
  ASSUME MInv, NEW t \in Txn, txn[t] # None, End(t), expired' = expired, document' = document,
         TypeOK', KeysFit', OneEnquiryPerInbound',
         \A m \in Message : message[m] # None => message'[m] # None,
         \A m \in Message : message'[m] # message[m] => m = txn[t].message /\ ~Locked(m, t)
  PROVE  MInv'
<1>1. /\ txn'[t] = None /\ \A u \in Txn \ {t} : txn'[u] = txn[u]
      /\ channel' = channel /\ workers' = workers
  BY DEF End, MInv, TypeOK
<1>2. Fresh(t)' /\ Found(t)' /\ Alone(t)'
  BY <1>1 DEF Fresh, Found, Alone, Making, Is
<1>3. ASSUME NEW u \in Txn \ {t} PROVE Fresh(u)' /\ Found(u)' /\ Alone(u)'
  <2>1. Fresh(u) /\ Found(u) /\ Alone(t)
    BY DEF MInv
  <2>2. Making(u)' <=> Making(u)
    BY <1>1 DEF Making, Is
  <2>3. Fresh(u)'
    <3> SUFFICES ASSUME Making(u) PROVE Fresh(u)'
      BY <2>2 DEF Fresh
    <3>1. txn[u] # None /\ txn[u].message \in Message
      BY MOpen DEF Making, Is, MInv, SendRow
    <3>2. txn[t].message # txn[u].message
      BY <2>1 DEF Fresh
    <3>3. message'[txn[u].message] = message[txn[u].message]
      BY <3>1, <3>2
    <3> QED
      BY <1>1, <2>1, <3>3 DEF Fresh
  <2>4. Found(u)'
    <3>1. CASE txn[u] = None
      BY <1>1, <3>1 DEF Found, Is
    <3>2. CASE txn[u] # None
      <4>1. txn[u].op \in {"send", "resend", "report"} => txn[u].message \in Message
        BY <3>2, MOpen DEF MInv, SendRow, ResendRow, ReportRow
      <4>2. Is(u, "resend") /\ channel = "whatsapp" =>
              message'[txn[u].message] = message[txn[u].message]
        BY <3>2, <4>1 DEF Is, Locked
      <4> QED
        BY <1>1, <2>1, <2>2, <3>2, <4>1, <4>2 DEF Found, Is
    <3> QED
      BY <3>1, <3>2
  <2>5. Alone(u)'
    BY <1>1, <2>1 DEF Alone
  <2> QED
    BY <2>3, <2>4, <2>5
<1> QED
  BY <1>2, <1>3 DEF MInv

\* Inserting a message and its key: the key was free, so it stands for this
\* message alone.
LEMMA InsertRows ==
  ASSUME MInv, NEW t \in Txn, Making(t), NEW status, NEW id \in ProviderId \cup {None},
         status \in IF channel = "whatsapp" THEN WhatsAppMessageStatus ELSE EmailStatus,
         KeyIsFree(t), Insert(t, status, id), channel' = channel, workers' = workers
  PROVE  /\ message' \in [Message -> (IF channel = "whatsapp" THEN MessageRow ELSE EmailRow)
                                        \cup {None}]
         /\ key' \in [Key -> KeyRow \cup {None}] /\ uses' \in [Key -> Nat]
         /\ KeysFit'
         /\ message[txn[t].message] = None
         /\ message'[txn[t].message] =
              [type |-> txn[t].type, status |-> status, provider_id |-> id]
         /\ message'[txn[t].message] # None
         /\ \A m \in Message : m # txn[t].message => message'[m] = message[m]
<1> DEFINE k == txn[t].key
           m == txn[t].message
           row == [type |-> txn[t].type, status |-> status, provider_id |-> id]
           krow == [fingerprint |-> txn[t].fingerprint, message |-> m, old |-> FALSE]
<1>1. /\ k \in Key /\ m \in Message /\ txn[t].type \in WhatsAppMessageType
      /\ txn[t].fingerprint \in Fingerprint /\ txn[t].seen \in KeyRow \cup {None}
      /\ txn[t] # None
  BY MOpen DEF Making, Is, MInv, SendRow
<1>2. Fresh(t) /\ Alone(t) /\ KeysFit /\ TypeOK
  BY DEF MInv
<1>3. row \in IF channel = "whatsapp" THEN MessageRow ELSE EmailRow
  <2>1. channel # "whatsapp" => txn[t].type = "TEXT"
    BY <1>2 DEF Fresh, TypeOK
  <2> QED
    BY <1>1, <2>1 DEF MessageRow, EmailRow
<1>4. row # None
  BY <1>3
<1>5. krow \in KeyRow /\ krow # None
  <2>1. krow \in KeyRow
    BY <1>1 DEF KeyRow
  <2> QED
    BY <2>1
<1>6. message' = [message EXCEPT ![m] = row] /\ key' = [key EXCEPT ![k] = krow]
      /\ uses' = [uses EXCEPT ![k] = @ + 1] /\ expired' = expired
  BY DEF Insert
<1>7. /\ message' \in [Message -> (IF channel = "whatsapp" THEN MessageRow ELSE EmailRow)
                                     \cup {None}]
      /\ key' \in [Key -> KeyRow \cup {None}] /\ uses' \in [Key -> Nat]
  BY <1>1, <1>2, <1>3, <1>5, <1>6 DEF TypeOK
<1>8. message[m] = None /\ message'[m] = row /\ \A n \in Message : n # m => message'[n] = message[n]
  BY <1>1, <1>2, <1>6 DEF Fresh, TypeOK
<1>9. workers = 1 \/ k \notin expired => uses[k] = 0
  <2> SUFFICES ASSUME workers = 1 \/ k \notin expired PROVE uses[k] = 0
    OBVIOUS
  <2>1. uses[k] \in Nat /\ uses[k] <= IF key[k] # None /\ ~key[k].old THEN 1 ELSE 0
    BY <1>1, <1>2 DEF KeysFit, TypeOK
  <2>2. ~(key[k] # None /\ ~key[k].old)
    <3>1. CASE workers = 1
      BY <1>1, <1>2, <3>1 DEF Alone, Answers
    <3>2. CASE k \notin expired
      BY <1>2, <3>2 DEF Fresh, KeyIsFree
    <3> QED
      BY <3>1, <3>2
  <2> QED
    BY ONLY <2>1, <2>2
<1>10. KeysFit'
  <2> SUFFICES ASSUME NEW j \in Key
               PROVE  /\ key'[j] # None /\ key'[j].old => channel' = "whatsapp" /\ j \in expired'
                      /\ workers' = 1 \/ j \notin expired' =>
                           uses'[j] <= IF key'[j] # None /\ ~key'[j].old THEN 1 ELSE 0
    BY DEF KeysFit
  <2>1. CASE j # k
    BY <1>2, <1>6, <2>1 DEF KeysFit, TypeOK
  <2>2. CASE j = k
    <3>1. key'[k] = krow /\ uses'[k] = uses[k] + 1
      BY <1>1, <1>2, <1>6 DEF TypeOK
    <3>2. ~krow.old
      OBVIOUS
    <3> QED
      BY <1>5, <1>6, <1>9, <2>2, <3>1, <3>2
  <2> QED
    BY <2>1, <2>2
<1> QED
  BY <1>4, <1>7, <1>8, <1>10

\* A key and the message it stands for are committed together.
LEMMA ReserveMInv ==
  ASSUME MInv, NEW t \in Txn, Reserve(t)
  PROVE  MInv'
<1>1. /\ txn[t] # None /\ txn[t].op = "reserve" /\ KeyIsFree(t) /\ Insert(t, "QUEUED", None)
      /\ txn' = [txn EXCEPT ![t].op = "send"] /\ UNCHANGED <<channel, taken, workers>>
  BY DEF Reserve, Is
<1>2. TypeOK /\ Found(t) /\ Fresh(t) /\ Alone(t) /\ channel = "whatsapp"
  BY <1>1 DEF MInv, Found, Is
<1>3. Making(t)
  BY <1>1, <1>2 DEF Making, Is
<1>4. txn[t] \in SendRow /\ txn[t].message \in Message /\ txn[t].type \in WhatsAppMessageType
  BY <1>1, <1>2, MOpen DEF SendRow
<1>5. /\ message' \in [Message -> (IF channel = "whatsapp" THEN MessageRow ELSE EmailRow)
                                     \cup {None}]
      /\ key' \in [Key -> KeyRow \cup {None}] /\ uses' \in [Key -> Nat]
      /\ KeysFit'
      /\ message'[txn[t].message] =
           [type |-> txn[t].type, status |-> "QUEUED", provider_id |-> None]
      /\ message'[txn[t].message] # None
      /\ \A m \in Message : m # txn[t].message => message'[m] = message[m]
  <2>1. "QUEUED" \in IF channel = "whatsapp" THEN WhatsAppMessageStatus ELSE EmailStatus
    BY DEF WhatsAppMessageStatus, EmailStatus
  <2> QED
    BY <1>1, <1>3, <2>1, InsertRows
<1>6. /\ txn'[t] \in SendRow /\ txn'[t].op = "send" /\ txn'[t].message = txn[t].message
      /\ txn'[t] # None
      /\ \A u \in Txn \ {t} : txn'[u] = txn[u]
      /\ txn' \in [Txn -> Request \cup {None}]
  <2>1. [txn[t] EXCEPT !.op = "send"] \in SendRow
    BY <1>4 DEF SendRow
  <2>2. txn'[t] = [txn[t] EXCEPT !.op = "send"] /\ \A u \in Txn \ {t} : txn'[u] = txn[u]
    BY <1>1, <1>2 DEF TypeOK
  <2>3. txn' \in [Txn -> Request \cup {None}]
    BY <1>1, <1>2, <2>1 DEF TypeOK, Request
  <2> QED
    BY <1>4, <2>1, <2>2, <2>3 DEF Request, SendRow
<1>7. TypeOK'
  BY <1>1, <1>2, <1>5, <1>6 DEF TypeOK, Insert
<1>8. OneEnquiryPerInbound'
  BY <1>1 DEF MInv, OneEnquiryPerInbound, Insert
<1>9. Fresh(t)' /\ Found(t)' /\ Alone(t)'
  <2>1. ~Making(t)' /\ ~Is(t, "reserve")' /\ ~Is(t, "report")' /\ ~Is(t, "resend")'
    BY <1>1, <1>2, <1>6 DEF Making, Is
  <2>2. message'[txn'[t].message].status = "QUEUED" /\ message'[txn'[t].message].type = txn[t].type
    BY <1>5, <1>6
  <2>3. workers' = 1 => \A u \in Txn : txn'[u] # None => u = t
    BY <1>1, <1>2, <1>6 DEF Alone
  <2>4. (channel = "whatsapp" => Sendable(message[txn[t].message].type))' \/ workers # 1
    <3>1. workers = 1 => Sendable(txn[t].type)
      BY <1>1, <1>2 DEF Alone, Is
    <3> QED
      BY <1>1, <2>2, <3>1 DEF Sendable, Insert
  <2> QED
    BY <1>1, <1>5, <1>6, <2>1, <2>2, <2>3, <2>4 DEF Fresh, Found, Alone, Arrived
<1>10. ASSUME NEW u \in Txn \ {t} PROVE Fresh(u)' /\ Found(u)' /\ Alone(u)'
  <2>1. Fresh(u) /\ Found(u)
    BY DEF MInv
  <2>2. Making(u)' <=> Making(u)
    BY <1>1, <1>6 DEF Making, Is
  <2>3. txn[u] # None => txn[u].message # txn[t].message
    BY <1>2, <1>3 DEF Fresh
  <2>4. txn[u] # None /\ txn[u].op \in {"reserve", "send", "resend", "report"} =>
          message'[txn[u].message] = message[txn[u].message]
    BY <1>2, <1>5, <2>3, MOpen DEF SendRow, ResendRow, ReportRow
  <2>5. Fresh(u)'
    BY <1>1, <1>6, <2>1, <2>2, <2>4 DEF Fresh, Making, Is, Insert
  <2>6. Found(u)'
    BY <1>1, <1>6, <2>1, <2>2, <2>4 DEF Found, Is
  <2>7. Alone(u)'
    BY <1>1, <1>2, <1>6 DEF Alone
  <2> QED
    BY <2>5, <2>6, <2>7
<1> QED
  BY <1>5, <1>7, <1>8, <1>9, <1>10 DEF MInv

\* An e-mail that was handed over is recorded.
LEMMA RecordEmailMInv ==
  ASSUME MInv, NEW t \in Txn, RecordEmail(t)
  PROVE  MInv'
<1>1. /\ txn[t] # None /\ txn[t].op = "send" /\ channel = "email" /\ txn[t].answer # None
      /\ KeyIsFree(t) /\ End(t)
      /\ Insert(t, Outcome(t), IF Outcome(t) = "SENT" THEN txn[t].answer ELSE None)
  BY DEF RecordEmail, Is
<1>2. /\ TypeOK /\ Making(t) /\ txn[t].message \in Message
      /\ txn[t].answer \in ProviderId \cup {"failure", None}
  BY <1>1, MOpen DEF MInv, Making, Is, SendRow
<1> DEFINE id == IF Outcome(t) = "SENT" THEN txn[t].answer ELSE None
<1>3. id \in ProviderId \cup {None} /\ Outcome(t) \in EmailStatus
  BY <1>2 DEF Outcome, EmailStatus
<1>4. channel' = channel /\ workers' = workers /\ taken' = taken /\ txn' = [txn EXCEPT ![t] = None]
  BY <1>1 DEF End
<1>5. /\ message' \in [Message -> (IF channel = "whatsapp" THEN MessageRow ELSE EmailRow)
                                     \cup {None}]
      /\ key' \in [Key -> KeyRow \cup {None}] /\ uses' \in [Key -> Nat]
      /\ KeysFit'
      /\ message'[txn[t].message] # None
      /\ \A m \in Message : m # txn[t].message => message'[m] = message[m]
  <2> HIDE DEF id
  <2>1. Insert(t, Outcome(t), id)
    BY <1>1 DEF id
  <2>2. Outcome(t) \in IF channel = "whatsapp" THEN WhatsAppMessageStatus ELSE EmailStatus
    BY <1>1, <1>3
  <2> QED
    BY <1>1, <1>2, <1>3, <1>4, <2>1, <2>2, InsertRows
<1>6. UNCHANGED <<expired, document, received, enquiry>>
  BY <1>1 DEF Insert
<1>7. TypeOK'
  BY <1>2, <1>4, <1>5, <1>6 DEF TypeOK
<1>8. OneEnquiryPerInbound'
  BY <1>6 DEF MInv, OneEnquiryPerInbound
<1>9. \A m \in Message : ~Locked(m, t)
  BY <1>1 DEF Locked
<1> QED
  BY <1>1, <1>2, <1>5, <1>6, <1>7, <1>8, <1>9, EndMInv

\* A request that ends without changing a row.
LEMMA LeaveMInv ==
  ASSUME MInv, NEW t \in Txn, txn[t] # None, End(t), UNCHANGED rows
  PROVE  MInv'
<1>1. /\ txn' = [txn EXCEPT ![t] = None] /\ UNCHANGED <<channel, taken, workers>>
      /\ UNCHANGED <<message, key, uses, expired, document, received, enquiry>>
  BY DEF End, rows
<1>2. TypeOK' /\ KeysFit' /\ OneEnquiryPerInbound'
  BY <1>1 DEF MInv, TypeOK, KeysFit, OneEnquiryPerInbound
<1> QED
  BY <1>1, <1>2, EndMInv

\* A request that ends with a message whose row it has found and changed.
LEMMA MessageMInv ==
  ASSUME MInv, NEW t \in Txn, txn[t] # None, End(t), NEW m \in Message, m = txn[t].message,
         message[m] # None, ~Locked(m, t),
         NEW row \in IF channel = "whatsapp" THEN MessageRow ELSE EmailRow,
         message' = [message EXCEPT ![m] = row],
         UNCHANGED <<key, uses, expired, document, received, enquiry>>
  PROVE  MInv'
<1>1. txn' = [txn EXCEPT ![t] = None] /\ UNCHANGED <<channel, taken, workers>>
  BY DEF End
<1>2. row # None
  OBVIOUS
<1>3. TypeOK'
  BY <1>1 DEF MInv, TypeOK
<1>4. KeysFit' /\ OneEnquiryPerInbound'
  BY <1>1 DEF MInv, KeysFit, OneEnquiryPerInbound
<1>5. message'[m] = row /\ \A n \in Message : n # m => message'[n] = message[n]
  BY DEF MInv, TypeOK
<1> QED
  BY <1>2, <1>3, <1>4, <1>5, EndMInv

\* The answer of the provider is recorded in the message.
LEMMA RecordMInv ==
  ASSUME MInv, NEW t \in Txn, Record(t)
  PROVE  MInv'
<1> DEFINE m == txn[t].message
<1>1. /\ txn[t] # None /\ txn[t].op \in {"send", "resend"} /\ ~Making(t)
      /\ txn[t].answer # None /\ ~Locked(m, t)
      /\ message' = [message EXCEPT ![m] = Recorded(t, message[m])]
      /\ End(t) /\ UNCHANGED <<key, uses, expired, document, received, enquiry>>
  BY DEF Record, Is, Making
<1>2. m \in Message /\ txn[t].answer \in ProviderId \cup {"failure"}
  BY <1>1, MOpen DEF MInv, SendRow, ResendRow
<1>3. message[m] # None
  BY <1>1 DEF MInv, Found
<1>4. Recorded(t, message[m]) \in IF channel = "whatsapp" THEN MessageRow ELSE EmailRow
  <2> DEFINE row == message[m]
  <2>1. /\ Outcome(t) \in {"FAILED", "SENT"}
        /\ Outcome(t) = "SENT" => txn[t].answer \in ProviderId
    BY <1>2 DEF Outcome
  <2>2. CASE channel = "whatsapp"
    <3>1. row \in MessageRow
      BY <1>2, <1>3, <2>2 DEF MInv, TypeOK
    <3> HIDE DEF row
    <3> QED
      BY <2>1, <2>2, <3>1 DEF Recorded, MessageRow, WhatsAppMessageStatus, row
  <2>3. CASE channel # "whatsapp"
    <3>1. row \in EmailRow
      BY <1>2, <1>3, <2>3 DEF MInv, TypeOK
    <3> HIDE DEF row
    <3> QED
      BY <2>1, <2>3, <3>1 DEF Recorded, EmailRow, EmailStatus, row
  <2> QED
    BY <2>2, <2>3
<1> QED
  BY <1>1, <1>2, <1>3, <1>4, MessageMInv

\* A report is recorded in its message.
LEMMA ReportMInv ==
  ASSUME MInv, NEW t \in Txn, Report(t)
  PROVE  MInv'
<1> DEFINE m == txn[t].message
<1>1. /\ txn[t] # None /\ txn[t].op = "report" /\ ~Making(t) /\ ~Locked(m, t)
      /\ message' = [message EXCEPT ![m] = [message[m] EXCEPT !.status = txn[t].status]]
      /\ End(t) /\ UNCHANGED <<key, uses, expired, document, received, enquiry>>
  BY DEF Report, Is, Making
<1>2. m \in Message
  BY <1>1, MOpen DEF MInv, ReportRow
<1>3. /\ message[m] # None
      /\ txn[t].status \in IF channel = "whatsapp" THEN WhatsAppMessageStatus ELSE EmailStatus
  BY <1>1 DEF MInv, Found, Is
<1>4. [message[m] EXCEPT !.status = txn[t].status] \in
        IF channel = "whatsapp" THEN MessageRow ELSE EmailRow
  <2> DEFINE row == message[m]
  <2>1. row \in IF channel = "whatsapp" THEN MessageRow ELSE EmailRow
    BY <1>2, <1>3 DEF MInv, TypeOK
  <2> HIDE DEF row
  <2>2. CASE channel = "whatsapp"
    BY <1>3, <2>1, <2>2 DEF MessageRow, row
  <2>3. CASE channel # "whatsapp"
    BY <1>3, <2>1, <2>3 DEF EmailRow, row
  <2> QED
    BY <2>2, <2>3
<1> QED
  BY <1>1, <1>2, <1>3, <1>4, MessageMInv

\* The enquiry of a message received is of one client or of none known.
LEMMA Matched ==
  ASSUME NEW i
  PROVE  MatchedClient(i) \in SUBSET (DOMAIN Client \cup {None}) /\ MatchedClient(i) # {}
<1> DEFINE matches == {c \in DOMAIN Client : Client[c] = Sender[i]}
<1>1. Cardinality(matches) = 1 => matches # {}
  BY FS_EmptySet
<1> HIDE DEF matches
<1>2. MatchedClient(i) = IF Cardinality(matches) = 1 THEN matches ELSE {None}
  BY DEF MatchedClient, matches
<1>3. matches \subseteq DOMAIN Client
  BY DEF matches
<1> QED
  BY <1>1, <1>2, <1>3

\* A message received is inserted with its enquiry, or is there already.
LEMMA InboundDoneMInv ==
  ASSUME MInv, NEW t \in Txn, InboundDone(t)
  PROVE  MInv'
<1> DEFINE i == txn[t].id
<1>1. /\ txn[t] # None /\ txn[t].op = "inbound" /\ End(t)
      /\ UNCHANGED <<message, key, uses, expired, document>>
      /\ IF received[i] = 0
         THEN /\ received' = [received EXCEPT ![i] = 1]
              /\ enquiry' = [enquiry EXCEPT ![i] =
                             IF i \in Captioned THEN MatchedClient(i) ELSE @]
         ELSE UNCHANGED <<received, enquiry>>
  BY DEF InboundDone, Is
<1>2. i \in Inbound /\ TypeOK
  BY <1>1, MOpen DEF MInv, InboundRow
<1>3. txn' = [txn EXCEPT ![t] = None] /\ UNCHANGED <<channel, taken, workers>>
  BY <1>1 DEF End
<1>4. received' \in [Inbound -> Nat] /\ enquiry' \in [Inbound -> SUBSET (DOMAIN Client \cup {None})]
  <2>1. MatchedClient(i) \in SUBSET (DOMAIN Client \cup {None})
    BY Matched
  <2> QED
    BY <1>1, <1>2, <2>1 DEF TypeOK
<1>5. TypeOK'
  BY <1>1, <1>2, <1>3, <1>4 DEF TypeOK
<1>6. KeysFit'
  BY <1>1, <1>3 DEF MInv, KeysFit
<1>7. OneEnquiryPerInbound'
  <2> SUFFICES ASSUME NEW j \in Inbound
               PROVE  /\ received'[j] <= 1
                      /\ enquiry'[j] # {} <=> received'[j] = 1 /\ j \in Captioned
    BY DEF OneEnquiryPerInbound
  <2>1. received[j] <= 1 /\ (enquiry[j] # {} <=> received[j] = 1 /\ j \in Captioned)
    BY DEF MInv, OneEnquiryPerInbound
  <2>2. CASE received[i] = 0 /\ i = j
    <3>1. /\ received'[j] = 1
          /\ enquiry'[j] = IF j \in Captioned THEN MatchedClient(j) ELSE enquiry[j]
      BY <1>1, <1>2, <2>2 DEF TypeOK
    <3> QED
      BY <2>1, <2>2, <3>1, Matched
  <2>3. CASE received[i] # 0 \/ i # j
    <3>1. received'[j] = received[j] /\ enquiry'[j] = enquiry[j]
      BY <1>1, <1>2, <2>3 DEF TypeOK
    <3> QED
      BY <2>1, <3>1
  <2> QED
    BY <2>2, <2>3
<1> QED
  BY <1>1, <1>3, <1>5, <1>6, <1>7, EndMInv

\* Whoever calls the provider knows what it did before, and that it has called.
LEMMA DispatchMInv ==
  ASSUME MInv, NEW t \in Txn, NEW i \in ProviderId \cup {None}, NEW heard \in BOOLEAN,
         Dispatch(t, i, heard)
  PROVE  MInv'
<1> DEFINE answer == Answer(i, heard)
<1>1. /\ txn[t] # None /\ txn[t].op \in {"send", "resend"}
      /\ taken' = IF i = None THEN taken ELSE [taken EXCEPT ![i] = txn[t].message]
      /\ txn' = [txn EXCEPT ![t].answer = answer]
      /\ UNCHANGED <<channel, message, key, uses, expired, document, received, enquiry, workers>>
  BY DEF Dispatch, Is, rows
<1>2. TypeOK
  BY DEF MInv
<1>3. answer \in ProviderId \cup {"failure", None}
  BY DEF Answer
<1>4. /\ [txn[t] EXCEPT !.answer = answer] \in Request
      /\ [txn[t] EXCEPT !.answer = answer].op = txn[t].op
      /\ [txn[t] EXCEPT !.answer = answer].message = txn[t].message
      /\ txn[t].op = "send" => \A c \in {"key", "seen", "type"} :
           [txn[t] EXCEPT !.answer = answer][c] = txn[t][c]
      /\ txn[t].message \in Message
  <2>1. CASE txn[t].op = "send"
    <3>1. txn[t] \in SendRow
      BY <1>1, <1>2, <2>1, MOpen
    <3>2. [txn[t] EXCEPT !.answer = answer] \in SendRow /\ txn[t].message \in Message
      BY <1>3, <3>1 DEF SendRow
    <3> QED
      BY <3>1, <3>2 DEF Request, SendRow
  <2>2. CASE txn[t].op = "resend"
    <3>1. txn[t] \in ResendRow
      BY <1>1, <1>2, <2>2, MOpen
    <3>2. [txn[t] EXCEPT !.answer = answer] \in ResendRow /\ txn[t].message \in Message
      BY <1>3, <3>1 DEF ResendRow
    <3> QED
      BY <2>2, <3>1, <3>2 DEF Request, ResendRow
  <2> QED
    BY <1>1, <2>1, <2>2
<1>5. /\ txn' \in [Txn -> Request \cup {None}]
      /\ \A u \in Txn : /\ txn'[u] # None <=> txn[u] # None
                        /\ txn'[u].op = txn[u].op
                        /\ txn'[u].message = txn[u].message
                        /\ txn[u].op \notin {"send", "resend"} => txn'[u] = txn[u]
                        /\ txn[u].op = "send" => /\ txn'[u].key = txn[u].key
                                                /\ txn'[u].seen = txn[u].seen
                                                /\ txn'[u].type = txn[u].type
  <2>1. txn'[t] = [txn[t] EXCEPT !.answer = answer] /\ \A u \in Txn \ {t} : txn'[u] = txn[u]
    BY <1>1, <1>2 DEF TypeOK
  <2>2. txn' \in [Txn -> Request \cup {None}]
    BY <1>1, <1>2, <1>4 DEF TypeOK
  <2>3. txn'[t] # None
    BY <1>4, <2>1
  <2> QED
    <3>1. ASSUME NEW u \in Txn \ {t} PROVE txn'[u] = txn[u]
      BY <2>1
    <3> QED
      BY <1>1, <1>4, <2>1, <2>2, <2>3, <3>1
<1>6. TypeOK'
  BY <1>1, <1>2, <1>4, <1>5 DEF TypeOK
<1>7. KeysFit' /\ OneEnquiryPerInbound'
  BY <1>1 DEF MInv, KeysFit, OneEnquiryPerInbound
<1>8. ASSUME NEW u \in Txn PROVE Fresh(u)' /\ Found(u)' /\ Alone(u)'
  <2>1. Fresh(u) /\ Found(u) /\ Alone(u)
    BY DEF MInv
  <2>2. (Making(u)' <=> Making(u)) /\ \A op : Is(u, op)' <=> Is(u, op)
    BY <1>1, <1>5 DEF Making, Is
  <2>3. Fresh(u)'
    BY <1>1, <1>5, <2>1, <2>2 DEF Fresh, Making, Is
  <2>4. Found(u)'
    BY <1>1, <1>5, <2>1, <2>2 DEF Found, Is
  <2>5. Alone(u)'
    BY <1>1, <1>5, <2>1, <2>2 DEF Alone, Answers, Sendable, Making, Is
  <2> QED
    BY <2>3, <2>4, <2>5
<1> QED
  BY <1>6, <1>7, <1>8 DEF MInv

\* A key outlives its hours and may be used again.
LEMMA ExpireMInv ==
  ASSUME MInv, NEW k \in Key, Expire(k)
  PROVE  MInv'
<1>1. /\ channel = "whatsapp" /\ key[k] # None
      /\ key' = [key EXCEPT ![k].old = TRUE] /\ uses' = [uses EXCEPT ![k] = 0]
      /\ expired' = expired \cup {k}
      /\ UNCHANGED <<channel, message, taken, document, received, enquiry, txn, workers>>
  BY DEF Expire
<1>2. workers = 1 => \A t \in Txn : txn[t] = None
  BY NobodyOpen DEF Expire
<1>3. key' \in [Key -> KeyRow \cup {None}]
  <2>1. key[k] \in KeyRow
    BY <1>1 DEF MInv, TypeOK
  <2>2. [key[k] EXCEPT !.old = TRUE] \in KeyRow
    BY <2>1 DEF KeyRow
  <2> QED
    BY <1>1, <2>2 DEF MInv, TypeOK
<1>4. TypeOK'
  BY <1>1, <1>3 DEF MInv, TypeOK
<1>5. KeysFit'
  <2> SUFFICES ASSUME NEW j \in Key
               PROVE  /\ key'[j] # None /\ key'[j].old => channel' = "whatsapp" /\ j \in expired'
                      /\ workers' = 1 \/ j \notin expired' =>
                           uses'[j] <= IF key'[j] # None /\ ~key'[j].old THEN 1 ELSE 0
    BY DEF KeysFit
  <2>1. CASE j = k
    BY <1>1, <2>1 DEF MInv, TypeOK
  <2>2. CASE j # k
    BY <1>1, <2>2 DEF MInv, TypeOK, KeysFit
  <2> QED
    BY <2>1, <2>2
<1>6. OneEnquiryPerInbound'
  BY <1>1 DEF MInv, OneEnquiryPerInbound
<1>7. ASSUME NEW t \in Txn PROVE Fresh(t)' /\ Found(t)' /\ Alone(t)'
  <2>1. Fresh(t) /\ Found(t)
    BY DEF MInv
  <2>2. Fresh(t)' /\ Found(t)'
    BY <1>1, <2>1 DEF Fresh, Found, Making, Is
  <2>3. Alone(t)'
    BY <1>1, <1>2 DEF Alone
  <2> QED
    BY <2>2, <2>3
<1> QED
  BY <1>4, <1>5, <1>6, <1>7 DEF MInv

\* Documents move on whatever is sent of them.
LEMMA DocumentMovesMInv ==
  ASSUME MInv, NEW from, NEW to \in {"SENT", "CANCELLED"}, DocumentMoves(from, to)
  PROVE  MInv'
<1>1. /\ document' = to
      /\ UNCHANGED <<channel, message, key, uses, expired, taken, received, enquiry, txn, workers>>
  BY DEF DocumentMoves
<1>2. workers = 1 => \A t \in Txn : txn[t] = None
  BY NobodyOpen DEF DocumentMoves
<1>3. TypeOK' /\ KeysFit' /\ OneEnquiryPerInbound'
  BY <1>1 DEF MInv, TypeOK, KeysFit, OneEnquiryPerInbound
<1>4. ASSUME NEW t \in Txn PROVE Fresh(t)' /\ Found(t)' /\ Alone(t)'
  <2>1. Fresh(t) /\ Found(t)
    BY DEF MInv
  <2>2. Fresh(t)' /\ Found(t)'
    BY <1>1, <2>1 DEF Fresh, Found, Making, Is
  <2>3. Alone(t)'
    BY <1>1, <1>2 DEF Alone
  <2> QED
    BY <2>2, <2>3
<1> QED
  BY <1>3, <1>4 DEF MInv

\* Every step keeps the invariant.
LEMMA StepMInv == MInv /\ [Next]_vars => MInv'
<1> SUFFICES ASSUME MInv, [Next]_vars PROVE MInv'
  OBVIOUS
<1>1. ASSUME NEW t \in Txn, SendRequests(t) PROVE MInv'
  <2>1. ASSUME NEW k \in Key, NEW f \in Fingerprint, NEW m \in Message,
               NEW type \in WhatsAppMessageType, SendRead(t, k, f, m, type)
        PROVE  MInv'
    BY <2>1, SendReadMInv
  <2>2. CASE Reserve(t)
    BY <2>2, ReserveMInv
  <2>3. CASE ReserveLost(t)
    BY <2>3, LeaveMInv DEF ReserveLost, Is
  <2>4. CASE Record(t)
    BY <2>4, RecordMInv
  <2>5. CASE RecordEmail(t)
    BY <2>5, RecordEmailMInv
  <2>6. ASSUME NEW m \in Message, ResendRead(t, m) PROVE MInv'
    BY <2>6, ResendReadMInv
  <2>7. ASSUME NEW i \in ProviderId \cup {None}, NEW heard \in BOOLEAN, Dispatch(t, i, heard)
        PROVE  MInv'
    BY <2>7, DispatchMInv
  <2> QED
    BY <1>1, <2>1, <2>2, <2>3, <2>4, <2>5, <2>6, <2>7 DEF SendRequests
<1>2. ASSUME NEW t \in Txn, Webhooks(t) PROVE MInv'
  BY <1>2, ReportReadMInv, ReportMInv, InboundReadMInv, InboundDoneMInv DEF Webhooks
<1>3. ASSUME NEW t \in Txn, Abort(t) PROVE MInv'
  BY <1>3, LeaveMInv DEF Abort
<1>4. ASSUME NEW k \in Key, Expire(k) PROVE MInv'
  BY <1>4, ExpireMInv
<1>5. CASE DocumentMoves("DRAFT", "SENT") \/ DocumentMoves("SENT", "CANCELLED")
  BY <1>5, DocumentMovesMInv
<1>6. CASE UNCHANGED vars
  <2>1. UNCHANGED <<channel, message, key, uses, expired, taken, document, received, enquiry,
                   txn, workers>>
    BY <1>6 DEF vars, rows
  <2>2. TypeOK' /\ KeysFit' /\ OneEnquiryPerInbound'
    BY <2>1 DEF MInv, TypeOK, KeysFit, OneEnquiryPerInbound
  <2>3. ASSUME NEW t \in Txn PROVE Fresh(t)' /\ Found(t)' /\ Alone(t)'
    BY <2>1 DEF MInv, Fresh, Found, Alone, Making, Is, Answers, Sendable
  <2> QED
    BY <2>2, <2>3 DEF MInv
<1> QED
  BY <1>1, <1>2, <1>3, <1>4, <1>5, <1>6 DEF Next

-----------------------------------------------------------------------------
(* What a step does to messages, and what the provider takes in it.        *)

\* Only a request that calls the provider gives it a message.
LEMMA TakenByDispatch ==
  ASSUME MInv, [Next]_vars, taken' # taken
  PROVE  \E t \in Txn : \E i \in ProviderId, heard \in BOOLEAN : Dispatch(t, i, heard)
<1>1. ASSUME NEW t \in Txn, SendRequests(t)
      PROVE  \E i \in ProviderId, heard \in BOOLEAN : Dispatch(t, i, heard)
  <2>1. ~Dispatch(t, None, TRUE)
    BY DEF Dispatch
  <2> QED
    BY <1>1, <2>1 DEF SendRequests, SendRead, Begin, Reserve, ReserveLost, End,
                      Record, RecordEmail,
                      ResendRead
<1>2. ASSUME NEW t \in Txn, Webhooks(t) \/ Abort(t) PROVE FALSE
  BY <1>2 DEF Webhooks, ReportRead, Report, InboundRead, InboundDone, Abort, Begin,
              End
<1>3. ~(\E k \in Key : Expire(k)) /\ \A from, to : ~DocumentMoves(from, to)
  BY DEF Expire, DocumentMoves
<1>4. ~UNCHANGED vars
  BY DEF vars
<1> QED
  BY <1>1, <1>2, <1>3, <1>4 DEF Next

\* A step changes the row of a message that was there only to record what the
\* provider answered or what it reports.
LEMMA ChangedByRecord ==
  ASSUME MInv, [Next]_vars, NEW m \in Message, message[m] # None, message'[m] # message[m]
  PROVE  \E t \in Txn : txn[t] # None /\ txn[t].message = m /\ (Record(t) \/ Report(t))
<1>1. ASSUME NEW t \in Txn, SendRequests(t)
      PROVE  Record(t) /\ txn[t] # None /\ txn[t].message = m
  <2>1. ASSUME Making(t), NEW status, NEW id, Insert(t, status, id) PROVE FALSE
    <3>1. message[txn[t].message] = None
      BY <2>1 DEF MInv, Fresh
    <3>2. message'[m] = message[m]
      BY <2>1, <3>1 DEF Insert, MInv, TypeOK
    <3> QED
      BY <3>2
  <2>2. ~Reserve(t)
    <3> SUFFICES ASSUME Reserve(t) PROVE FALSE
      OBVIOUS
    <3>1. Making(t)
      BY DEF Reserve, MInv, Found, Making
    <3> QED
      BY <2>1, <3>1 DEF Reserve
  <2>3. ~RecordEmail(t)
    BY <2>1 DEF RecordEmail, Making
  <2>4. Record(t)
    BY <1>1, <2>2, <2>3 DEF SendRequests, SendRead, Begin, ReserveLost, ResendRead,
                            Dispatch, rows
  <2> QED
    BY <2>4 DEF Record, Is, MInv, TypeOK
<1>2. ASSUME NEW t \in Txn, Webhooks(t) \/ Abort(t)
      PROVE  Report(t) /\ txn[t] # None /\ txn[t].message = m
  <2>1. Report(t)
    BY <1>2 DEF Webhooks, ReportRead, InboundRead, InboundDone, Abort, Begin, rows
  <2> QED
    BY <2>1 DEF Report, Is, MInv, TypeOK
<1>3. ~(\E k \in Key : Expire(k)) /\ \A from, to : ~DocumentMoves(from, to)
  BY DEF Expire, DocumentMoves
<1>4. ~UNCHANGED vars
  BY DEF vars, rows
<1> QED
  BY <1>1, <1>2, <1>3, <1>4 DEF Next

\* The inductive invariant of messages, keys and webhooks.
THEOREM MessagingInvariance == Spec => []MInv
<1>1. Init => MInv
  BY InitMInv
<1>2. MInv /\ [Next]_vars => MInv'
  BY StepMInv
<1> QED
  BY <1>1, <1>2, PTL DEF Spec

\* Under a key one message is made until it expires, whatever overlaps, and of
\* a message received one row, with its enquiry (idempotency keys of
\* whatsapp_service and email_service, and the inbound webhook).
THEOREM KeysMakeOneMessage == Spec => []OneRowEach
<1>1. MInv => OneMessagePerKey
  <2> SUFFICES ASSUME MInv, NEW k \in Key, workers = 1 \/ k \notin expired PROVE uses[k] <= 1
    BY DEF OneMessagePerKey
  <2>1. uses[k] \in Nat /\ uses[k] <= IF key[k] # None /\ ~key[k].old THEN 1 ELSE 0
    BY DEF MInv, KeysFit, TypeOK
  <2> QED
    BY ONLY <2>1
<1>2. MInv => OneRowEach
  BY <1>1 DEF MInv, OneRowEach
<1> QED
  BY <1>2, MessagingInvariance, PTL

\* One request at a time, a report of the WhatsApp webhook moves a message that
\* counts as sent forward or fails it, in whatever order the reports arrive.
THEOREM ReportsMoveForward == Spec => PromotionIsMonotonic
<1> DEFINE Promoted == workers = 1 /\ channel = "whatsapp" => Rising
<1>1. ASSUME MInv, [Next]_vars PROVE Promoted
  <2> SUFFICES ASSUME workers = 1, channel = "whatsapp", NEW m \in Message, message[m] # None,
                      message[m].status \in Arrived, message'[m].status # "FAILED"
               PROVE  Rank[message'[m].status] >= Rank[message[m].status]
    BY DEF Rising
  <2>1. CASE message'[m] = message[m]
    BY <2>1 DEF Rank, Arrived
  <2>2. CASE message'[m] # message[m]
    <3>1. PICK t \in Txn : txn[t] # None /\ txn[t].message = m /\ (Record(t) \/ Report(t))
      BY <1>1, <2>2, ChangedByRecord
    <3>2. Alone(t)
      BY <1>1 DEF MInv
    <3>3. ~Record(t)
      <4> SUFFICES ASSUME Record(t) PROVE FALSE
        OBVIOUS
      <4>1. txn[t].op \in {"send", "resend"} /\ ~Making(t)
        BY DEF Record, Is, Making
      <4> QED
        BY <3>1, <3>2, <4>1 DEF Alone
    <3>4. Is(t, "report") /\ message'[m].status = txn[t].status
      BY <1>1, <3>1, <3>3 DEF Report, MInv, TypeOK, MessageRow
    <3> QED
      BY <3>1, <3>2, <3>4 DEF Alone, RisesTo
  <2> QED
    BY <2>1, <2>2
<1>2. MInv /\ [Next]_vars => [Promoted]_vars
  BY <1>1
<1> QED
  BY <1>2, MessagingInvariance, PTL DEF Spec, PromotionIsMonotonic

\* A resend never repeats what counts as sent, since it holds the row from the
\* look at its status to the provider's answer (an e-mail: one request at a
\* time), and nothing of a draft or a cancelled document is sent.
THEOREM NothingIsSentTwice == Spec => SentRightly
<1> DEFINE Again == \A t \in Txn : taken' # taken /\ txn'[t] # txn[t] /\ Is(t, "resend")
                        /\ (channel = "whatsapp" \/ workers = 1)
             => message[txn[t].message].status \notin Arrived
           Closed == workers = 1 /\ channel = "whatsapp" /\ document # "SENT" =>
             \A i \in ProviderId : taken'[i] # taken[i] => message[taken'[i]].type = "TEXT"
<1>1. ASSUME MInv, [Next]_vars PROVE Again
  <2> SUFFICES ASSUME NEW t \in Txn, taken' # taken, txn'[t] # txn[t], Is(t, "resend"),
                      channel = "whatsapp" \/ workers = 1
               PROVE  message[txn[t].message].status \notin Arrived
    OBVIOUS
  <2>1. Found(t) /\ Alone(t) /\ ~Making(t)
    BY <1>1 DEF MInv, Making, Is
  <2> QED
    BY <2>1 DEF Found, Alone, Is, Arrived
<1>2. ASSUME MInv, [Next]_vars PROVE Closed
  <2> SUFFICES ASSUME workers = 1, channel = "whatsapp", document # "SENT",
                      NEW i \in ProviderId, taken'[i] # taken[i]
               PROVE  message[taken'[i]].type = "TEXT"
    OBVIOUS
  <2>1. PICK t \in Txn : \E j \in ProviderId, heard \in BOOLEAN : Dispatch(t, j, heard)
    BY <1>2, TakenByDispatch
  <2>2. taken'[i] = txn[t].message
    BY <1>2, <2>1 DEF Dispatch, MInv, TypeOK
  <2>3. txn[t] # None /\ txn[t].op \in {"send", "resend"} /\ ~Making(t)
    BY <2>1 DEF Dispatch, Is, Making
  <2>4. Found(t) /\ Alone(t)
    BY <1>2 DEF MInv
  <2>5. Sendable(message[txn[t].message].type)
    BY <2>3, <2>4 DEF Alone
  <2>6. txn[t].message \in Message /\ message[txn[t].message] \in MessageRow
    BY <1>2, <2>3, <2>4, MOpen DEF MInv, TypeOK, Found, SendRow, ResendRow
  <2> QED
    BY <2>2, <2>5, <2>6 DEF Sendable, MessageRow, WhatsAppMessageType
<1>3. MInv /\ [Next]_vars => [Again]_vars /\ [Closed]_vars
  BY <1>1, <1>2
<1> QED
  BY <1>3, MessagingInvariance, PTL DEF Spec, SentRightly, NotSentAgain,
                                        OnlyOpenDocumentsSent

=============================================================================
