-------------------------- MODULE Fulfilment_proof --------------------------
(***************************************************************************)
(* Delivery and invoicing of an LPO, for all finite sets of lines, notes,  *)
(* invoices and reservations, any bins and requests and all quantities:    *)
(* stock is not oversold, notes and invoices stay within what was ordered, *)
(* stock is conserved, and what is reserved is what reservations hold.     *)
(***************************************************************************)
EXTENDS Fulfilment, SumTheorems

\* No line of a reservation is consumed beyond its quantity.
Sound(item) == item = None \/ item.used <= item.qty

\* A note is made out to the LPO, where clients deliver it, or to an invoice
\* that is there.
RowsFit ==
    /\ \A d \in Dn : dn[d] # None =>
         /\ dn[d].of = None => "deliver" \in ops
         /\ dn[d].of # None => bill[dn[d].of] # None
    /\ \A r \in Res : rsv[r] # None => \A l \in Line : Sound(rsv[r].items[l])
    /\ \A b \in Bill : bill[b] # None /\ bill[b].status = "CANCELLED" => bill[b].voided

\* What an open request has read still fits: the reservation to be made is not
\* there; those to be released are, and unless dispatches race, as they were
\* read; the note to be confirmed is a draft within what its parent has left.
ReleaseFits(e) ==
    \A r \in Res : e.items[r] # None =>
        /\ rsv[r] # None
        /\ \A l \in Line : /\ Sound(e.items[r][l])
                           /\ e.items[r][l] # None => rsv[r].items[l] # None
        /\ "deliver" \notin ops => e.items[r] = rsv[r].items

ConfirmFits(e) ==
    /\ dn[e.dn] # None /\ dn[e.dn].status = "DRAFT"
    /\ ConfirmedOf(dn[e.dn].of, dn[e.dn].line) + dn[e.dn].qty
         <= ParentQty(dn[e.dn].of, dn[e.dn].line)
    /\ \A r \in Res : e.items[r] # None =>
         /\ dn[e.dn].of = None
         /\ rsv[r] # None /\ rsv[r].items[dn[e.dn].line] # None
         /\ Sound(e.items[r]) /\ e.items[r].qty = rsv[r].items[dn[e.dn].line].qty

Fits(e) ==
    /\ e.op = "reserve" => rsv[e.res] = None
    /\ e.op = "release" => ReleaseFits(e)
    /\ e.op = "confirm" => ConfirmFits(e)

RequestsFit == \A t \in Txn : Open(t) => Fits(txn[t])

\* Open requests make different reservations, release different ones and
\* confirm notes of different parents.
Separate(e, f) ==
    /\ e.op = "reserve" /\ f.op = "reserve" => e.res # f.res
    /\ e.op = "release" /\ f.op = "release" =>
         \A r \in Res : e.items[r] = None \/ f.items[r] = None
    /\ e.op = "confirm" /\ f.op = "confirm" => dn[e.dn].of # dn[f.dn].of
Apart == \A t, u \in Txn : t # u /\ Open(t) /\ Open(u) => Separate(txn[t], txn[u])

IInv ==
    /\ TypeOK
    /\ RowsFit
    /\ RequestsFit
    /\ Apart
    /\ NoOversell
    /\ NotOverDelivered
    /\ StockConserved
    /\ NotOverInvoiced
    /\ ReservedMatches

USE MixesAssumption, QuantitiesAssumption, RowsAssumption, NoneAssumption

-----------------------------------------------------------------------------
(* Rows and sums.                                                          *)

\* A row that is there has its fields.
LEMMA RowTypes ==
  ASSUME TypeOK
  PROVE  /\ \A b \in Bill : bill[b] # None => bill[b] \in BillRow
         /\ \A d \in Dn : dn[d] # None => dn[d] \in DnRow
         /\ \A r \in Res : rsv[r] # None => rsv[r] \in ResRow
         /\ \A t \in Txn : Open(t) => txn[t] \in Request
BY DEF TypeOK, Open

\* The fields of a request are those of its kind.
LEMMA RequestTypes ==
  ASSUME NEW e \in Request
  PROVE  /\ e.op \in {"reserve", "release", "confirm", "flip"}
         /\ e.op = "reserve" => e.res \in Res /\ e.bin \in Bin /\ e.qty \in [Line -> Nat]
         /\ e.op = "release" => /\ e.to \in {"CANCELLED", "EXPIRED"}
                                /\ e.items \in [Res -> Items \cup {None}]
         /\ e.op = "confirm" => e.dn \in Dn /\ e.items \in [Res -> ItemRow \cup {None}]
BY DEF Request

\* A sum of naturals, and what it becomes when one of them changes.
LEMMA NatSumChanges ==
  ASSUME NEW S, IsFiniteSet(S), NEW f, DOMAIN f = S, \A y \in S : f[y] \in Nat,
         NEW g, DOMAIN g = S, \A y \in S : g[y] \in Nat,
         NEW x \in S, \A y \in S \ {x} : g[y] = f[y]
  PROVE  /\ SumFunction(f) \in Nat /\ SumFunction(g) \in Nat
         /\ SumFunction(g) = SumFunction(f) - f[x] + g[x]
<1>1. SumFunction(f) \in Nat /\ SumFunction(g) \in Nat
  BY SumNat
<1>2. \A y \in S : f[y] \in Int /\ g[y] \in Int
  OBVIOUS
<1>3. SumFunction(g) = SumFunction(f) - f[x] + g[x]
  BY ONLY <1>2, IsFiniteSet(S), DOMAIN f = S, DOMAIN g = S, x \in S,
          \A y \in S \ {x} : g[y] = f[y], SumChanges
<1> QED
  BY <1>1, <1>3

\* What a line and a reservation still hold is a natural number.
LEMMA LeftType ==
  ASSUME NEW item \in ItemRow \cup {None}, Sound(item)
  PROVE  /\ Left(item) \in Nat
         /\ item # None => Remaining(item) \in Nat /\ item.qty \in Nat /\ item.used \in Nat
BY DEF ItemRow, Left, Active, Remaining, Sound

LEMMA ActiveLeftType ==
  ASSUME NEW items \in Items, \A l \in Line : Sound(items[l])
  PROVE  ActiveLeft(items) \in Nat
<1> DEFINE f == [l \in Line |-> Left(items[l])]
<1>1. \A l \in Line : f[l] \in Nat
  BY LeftType DEF Items
<1>2. DOMAIN f = Line
  OBVIOUS
<1> HIDE DEF f
<1>3. SumFunction(f) \in Nat
  BY <1>1, <1>2, SumNat
<1> QED
  BY <1>3 DEF f, ActiveLeft

\* What the notes and invoices in a table deliver, issue and bill.
DeliveredIn(notes, of, l) == SumFunction([d \in Dn |-> Delivers(notes[d], of, l)])
IssuedIn(notes, b) == SumFunction([d \in Dn |-> Issues(notes[d], b)])
BilledIn(bills, l) == SumFunction([b \in Bill |-> Bills(bills[b], l)])
OriginalIn(bills, l) == SumFunction([b \in Bill |-> Original(bills[b], l)])
HeldIn(table, b) == SumFunction([r \in Res |-> HoldsIn(table[r], b)])

\* These are the sums of the model, now and after a step.
LEMMA SumsRead ==
  /\ \A of, l : /\ ConfirmedOf(of, l) = DeliveredIn(dn, of, l)
                /\ ConfirmedOf(of, l)' = DeliveredIn(dn', of, l)
  /\ \A b : Delivered(b) = IssuedIn(dn, b) /\ Delivered(b)' = IssuedIn(dn', b)
  /\ \A l : InvoicedQty(l) = BilledIn(bill, l)
  /\ \A l : OriginalQty(l) = OriginalIn(bill, l) /\ OriginalQty(l)' = OriginalIn(bill', l)
  /\ \A b : ReservedIn(b) = HeldIn(rsv, b) /\ ReservedIn(b)' = HeldIn(rsv', b)
BY DEF ConfirmedOf, DeliveredIn, Delivered, IssuedIn, InvoicedQty, BilledIn, OriginalQty,
       OriginalIn, ReservedIn, HeldIn

\* One note delivers and issues what it says.
LEMMA DeliversType ==
  ASSUME NEW note \in DnRow \cup {None}, NEW of, NEW l, NEW b
  PROVE  Delivers(note, of, l) \in Nat /\ Issues(note, b) \in Nat
BY DEF DnRow, Delivers, Issues, Confirmed

\* What notes have delivered, and how one note changes it.
LEMMA DeliveredSums ==
  ASSUME NEW f \in [Dn -> DnRow \cup {None}], NEW of, NEW l, NEW b
  PROVE  /\ DeliveredIn(f, of, l) \in Nat /\ IssuedIn(f, b) \in Nat
         /\ \A g \in [Dn -> DnRow \cup {None}], d \in Dn :
              (\A c \in Dn \ {d} : g[c] = f[c]) =>
                /\ DeliveredIn(g, of, l) = DeliveredIn(f, of, l) - Delivers(f[d], of, l)
                                              + Delivers(g[d], of, l)
                /\ IssuedIn(g, b) = IssuedIn(f, b) - Issues(f[d], b) + Issues(g[d], b)
<1> DEFINE D(h) == [d \in Dn |-> Delivers(h[d], of, l)]
           I(h) == [d \in Dn |-> Issues(h[d], b)]
<1>1. ASSUME NEW h \in [Dn -> DnRow \cup {None}]
      PROVE  /\ DOMAIN D(h) = Dn /\ DOMAIN I(h) = Dn
             /\ \A d \in Dn : D(h)[d] \in Nat /\ I(h)[d] \in Nat
             /\ \A d \in Dn : D(h)[d] = Delivers(h[d], of, l) /\ I(h)[d] = Issues(h[d], b)
             /\ DeliveredIn(h, of, l) = SumFunction(D(h)) /\ IssuedIn(h, b) = SumFunction(I(h))
  BY DeliversType DEF DeliveredIn, IssuedIn
<1>2. ASSUME NEW g \in [Dn -> DnRow \cup {None}], NEW d \in Dn, \A c \in Dn \ {d} : g[c] = f[c]
      PROVE  \A c \in Dn \ {d} : D(g)[c] = D(f)[c] /\ I(g)[c] = I(f)[c]
  BY <1>2
<1> HIDE DEF D, I
<1>3. DeliveredIn(f, of, l) \in Nat /\ IssuedIn(f, b) \in Nat
  BY <1>1, SumNat
<1>4. ASSUME NEW g \in [Dn -> DnRow \cup {None}], NEW d \in Dn, \A c \in Dn \ {d} : g[c] = f[c]
      PROVE  /\ SumFunction(D(g)) = SumFunction(D(f)) - D(f)[d] + D(g)[d]
             /\ SumFunction(I(g)) = SumFunction(I(f)) - I(f)[d] + I(g)[d]
  BY <1>1, <1>2, <1>4, NatSumChanges
<1> QED
  BY <1>1, <1>3, <1>4

\* What invoices have billed of a line, and how one invoice changes what those
\* that were never voided have.
LEMMA BilledSums ==
  ASSUME NEW f \in [Bill -> BillRow \cup {None}], NEW l \in Line
  PROVE  /\ BilledIn(f, l) \in Nat /\ OriginalIn(f, l) \in Nat
         /\ OriginalIn(f, l) <= BilledIn(f, l)
         /\ \A g \in [Bill -> BillRow \cup {None}], b \in Bill :
              (\A c \in Bill \ {b} : g[c] = f[c]) =>
                OriginalIn(g, l) = OriginalIn(f, l) - Original(f[b], l) + Original(g[b], l)
<1> DEFINE B(h) == [b \in Bill |-> Bills(h[b], l)]
           O(h) == [b \in Bill |-> Original(h[b], l)]
<1>1. ASSUME NEW h \in [Bill -> BillRow \cup {None}]
      PROVE  /\ DOMAIN B(h) = Bill /\ DOMAIN O(h) = Bill
             /\ \A b \in Bill : B(h)[b] \in Nat
             /\ \A b \in Bill : O(h)[b] \in Nat /\ O(h)[b] <= B(h)[b]
             /\ \A b \in Bill : O(h)[b] = Original(h[b], l)
             /\ BilledIn(h, l) = SumFunction(B(h)) /\ OriginalIn(h, l) = SumFunction(O(h))
  <2>1. ASSUME NEW row \in BillRow \cup {None}
        PROVE  Bills(row, l) \in Nat /\ Original(row, l) \in Nat /\ Original(row, l) <= Bills(row, l)
    BY DEF Original, Bills, BillRow
  <2> QED
    BY <2>1 DEF BilledIn, OriginalIn
<1>2. ASSUME NEW g \in [Bill -> BillRow \cup {None}], NEW b \in Bill, \A c \in Bill \ {b} : g[c] = f[c]
      PROVE  \A c \in Bill \ {b} : O(g)[c] = O(f)[c]
  BY <1>2
<1> HIDE DEF B, O
<1>3. BilledIn(f, l) \in Nat /\ OriginalIn(f, l) \in Nat
  BY <1>1, SumNat
<1>4. ASSUME NEW g \in [Bill -> BillRow \cup {None}], NEW b \in Bill, \A c \in Bill \ {b} : g[c] = f[c]
      PROVE  SumFunction(O(g)) = SumFunction(O(f)) - O(f)[b] + O(g)[b]
  BY <1>1, <1>2, <1>4, NatSumChanges
<1>5. SumFunction(O(f)) <= SumFunction(B(f))
  BY <1>1, SumMonotone
<1> QED
  BY <1>1, <1>3, <1>4, <1>5

\* What reservations hold in a bin.
LEMMA HoldsType ==
  ASSUME NEW row \in ResRow \cup {None}, row # None => \A l \in Line : Sound(row.items[l]), NEW b
  PROVE  HoldsIn(row, b) \in Nat
<1>1. row # None => row.items \in Items
  BY DEF ResRow
<1>2. row # None => ActiveLeft(row.items) \in Nat
  BY <1>1, ActiveLeftType
<1> QED
  BY <1>2 DEF HoldsIn

LEMMA HeldSums ==
  ASSUME NEW f \in [Res -> ResRow \cup {None}], NEW g \in [Res -> ResRow \cup {None}], NEW b,
         \A r \in Res : f[r] # None => \A l \in Line : Sound(f[r].items[l]),
         \A r \in Res : g[r] # None => \A l \in Line : Sound(g[r].items[l]),
         NEW x \in Res, \A r \in Res \ {x} : g[r] = f[r]
  PROVE  HeldIn(g, b) = HeldIn(f, b) - HoldsIn(f[x], b) + HoldsIn(g[x], b)
<1> DEFINE F == [r \in Res |-> HoldsIn(f[r], b)]
           G == [r \in Res |-> HoldsIn(g[r], b)]
<1>1. ASSUME NEW r \in Res
      PROVE  F[r] = HoldsIn(f[r], b) /\ F[r] \in Nat /\ G[r] = HoldsIn(g[r], b) /\ G[r] \in Nat
  <2>1. HoldsIn(f[r], b) \in Nat
    BY HoldsType
  <2>2. HoldsIn(g[r], b) \in Nat
    BY HoldsType
  <2> QED
    BY <2>1, <2>2
<1>2. \A r \in Res \ {x} : G[r] = F[r]
  OBVIOUS
<1>3. DOMAIN F = Res /\ DOMAIN G = Res /\ HeldIn(f, b) = SumFunction(F) /\ HeldIn(g, b) = SumFunction(G)
  BY DEF HeldIn
<1> HIDE DEF F, G
<1>4. SumFunction(G) = SumFunction(F) - F[x] + G[x]
  BY <1>1, <1>2, <1>3, NatSumChanges
<1> QED
  BY <1>1, <1>3, <1>4

-----------------------------------------------------------------------------
(* Sums of the model, now and after a step.                                *)

LEMMA SumTypes ==
  ASSUME TypeOK
  PROVE  /\ \A of, l : ConfirmedOf(of, l) \in Nat
         /\ \A b : Delivered(b) \in Nat
         /\ \A l \in Line : /\ InvoicedQty(l) \in Nat /\ OriginalQty(l) \in Nat
                            /\ OriginalQty(l) <= InvoicedQty(l)
<1>1. ASSUME NEW of, NEW l, NEW b PROVE DeliveredIn(dn, of, l) \in Nat /\ IssuedIn(dn, b) \in Nat
  BY DeliveredSums DEF TypeOK
<1>2. ASSUME NEW l \in Line
      PROVE  /\ BilledIn(bill, l) \in Nat /\ OriginalIn(bill, l) \in Nat
             /\ OriginalIn(bill, l) <= BilledIn(bill, l)
  BY BilledSums DEF TypeOK
<1> QED
  BY <1>1, <1>2, SumsRead

\* One note is created, changed or deleted.
LEMMA NoteAfter ==
  ASSUME TypeOK, NEW d \in Dn, NEW new \in DnRow \cup {None}, dn' = [dn EXCEPT ![d] = new]
  PROVE  /\ dn' \in [Dn -> DnRow \cup {None}] /\ dn'[d] = new
         /\ \A c \in Dn \ {d} : dn'[c] = dn[c]
         /\ \A of, l : ConfirmedOf(of, l)' = ConfirmedOf(of, l) - Delivers(dn[d], of, l)
                                               + Delivers(new, of, l)
         /\ \A b : Delivered(b)' = Delivered(b) - Issues(dn[d], b) + Issues(new, b)
<1>1. /\ dn \in [Dn -> DnRow \cup {None}] /\ dn' \in [Dn -> DnRow \cup {None}] /\ dn'[d] = new
      /\ \A c \in Dn \ {d} : dn'[c] = dn[c]
  BY DEF TypeOK
<1>2. ASSUME NEW of, NEW l, NEW b
      PROVE  /\ DeliveredIn(dn', of, l) = DeliveredIn(dn, of, l) - Delivers(dn[d], of, l)
                                             + Delivers(dn'[d], of, l)
             /\ IssuedIn(dn', b) = IssuedIn(dn, b) - Issues(dn[d], b) + Issues(dn'[d], b)
  BY ONLY <1>1, d \in Dn, DeliveredSums
<1> QED
  BY <1>1, <1>2, SumsRead

\* One invoice is created or ended.
LEMMA BillAfter ==
  ASSUME TypeOK, NEW b \in Bill, NEW new \in BillRow, bill' = [bill EXCEPT ![b] = new]
  PROVE  /\ bill' \in [Bill -> BillRow \cup {None}] /\ bill'[b] = new
         /\ \A c \in Bill \ {b} : bill'[c] = bill[c]
         /\ \A l \in Line : OriginalQty(l)' = OriginalQty(l) - Original(bill[b], l) + Original(new, l)
<1>1. /\ bill \in [Bill -> BillRow \cup {None}] /\ bill' \in [Bill -> BillRow \cup {None}]
      /\ bill'[b] = new /\ \A c \in Bill \ {b} : bill'[c] = bill[c]
  BY DEF TypeOK
<1>2. ASSUME NEW l \in Line
      PROVE  OriginalIn(bill', l) = OriginalIn(bill, l) - Original(bill[b], l) + Original(bill'[b], l)
  BY ONLY <1>1, <1>2, b \in Bill, BilledSums
<1> QED
  BY <1>1, <1>2, SumsRead

-----------------------------------------------------------------------------
(* What steps leave alone.                                                 *)

\* Reservations and their lines do not go away, and keep their quantities.
Onward ==
    \A r \in Res : rsv[r] # None =>
        /\ rsv'[r] # None
        /\ \A l \in Line : rsv[r].items[l] # None =>
             rsv'[r].items[l] # None /\ rsv'[r].items[l].qty = rsv[r].items[l].qty

\* A step leaves alone what an open request has read.
Undisturbed(e) ==
    /\ e.op = "reserve" => rsv'[e.res] = None
    /\ e.op = "release" /\ "deliver" \notin ops =>
         \A r \in Res : e.items[r] # None => rsv'[r].items = rsv[r].items
    /\ e.op = "confirm" =>
         /\ dn'[e.dn] = dn[e.dn]
         /\ \A of, l : of = dn[e.dn].of /\ l = dn[e.dn].line =>
              ConfirmedOf(of, l)' = ConfirmedOf(of, l) /\ ParentQty(of, l)' = ParentQty(of, l)

\* What it has read then still fits.
LEMMA FitsStays ==
  ASSUME TypeOK, NEW e \in Request, Fits(e), ops' = ops, Onward, Undisturbed(e)
  PROVE  Fits(e)'
<1>1. e.op = "reserve" => rsv'[e.res] = None
  BY DEF Undisturbed
<1>2. ASSUME e.op = "release", NEW r \in Res, e.items[r] # None
      PROVE  /\ rsv'[r] # None
             /\ \A l \in Line : /\ Sound(e.items[r][l])
                                /\ e.items[r][l] # None => rsv'[r].items[l] # None
             /\ "deliver" \notin ops => e.items[r] = rsv'[r].items
  <2>1. /\ rsv[r] # None
        /\ \A l \in Line : /\ Sound(e.items[r][l])
                           /\ e.items[r][l] # None => rsv[r].items[l] # None
        /\ "deliver" \notin ops => e.items[r] = rsv[r].items
    BY <1>2 DEF Fits, ReleaseFits
  <2>2. "deliver" \notin ops => rsv'[r].items = rsv[r].items
    BY <1>2 DEF Undisturbed
  <2> QED
    BY <2>1, <2>2 DEF Onward
<1>3. ASSUME e.op = "confirm"
      PROVE  /\ dn'[e.dn] = dn[e.dn] /\ dn[e.dn] # None /\ dn[e.dn].status = "DRAFT"
             /\ ConfirmedOf(dn[e.dn].of, dn[e.dn].line)' + dn[e.dn].qty
                  <= ParentQty(dn[e.dn].of, dn[e.dn].line)'
             /\ \A r \in Res : e.items[r] # None =>
                  /\ dn[e.dn].of = None
                  /\ rsv'[r] # None /\ rsv'[r].items[dn[e.dn].line] # None
                  /\ Sound(e.items[r]) /\ e.items[r].qty = rsv'[r].items[dn[e.dn].line].qty
  <2>1. ConfirmFits(e)
    BY <1>3 DEF Fits
  <2>2. PICK of, l : of = dn[e.dn].of /\ l = dn[e.dn].line
    OBVIOUS
  <2>3. dn'[e.dn] = dn[e.dn] /\ ConfirmedOf(of, l)' = ConfirmedOf(of, l)
        /\ ParentQty(of, l)' = ParentQty(of, l)
    BY <1>3, <2>2 DEF Undisturbed
  <2>4. ConfirmedOf(of, l)' + dn[e.dn].qty <= ParentQty(of, l)'
    BY <2>1, <2>2, <2>3 DEF ConfirmFits
  <2>5. /\ ConfirmedOf(dn[e.dn].of, dn[e.dn].line)' = ConfirmedOf(of, l)'
        /\ ParentQty(dn[e.dn].of, dn[e.dn].line)' = ParentQty(of, l)'
    BY <2>2, <2>3 DEF ConfirmedOf, Delivers, ParentQty
  <2>6. e.dn \in Dn
    BY <1>3, RequestTypes
  <2>7. l \in Line
    BY <2>1, <2>2, <2>6, RowTypes DEF ConfirmFits, DnRow
  <2>8. ASSUME NEW r \in Res, e.items[r] # None
        PROVE  /\ dn[e.dn].of = None
               /\ rsv'[r] # None /\ rsv'[r].items[l] # None
               /\ Sound(e.items[r]) /\ e.items[r].qty = rsv'[r].items[l].qty
    BY <2>1, <2>2, <2>7, <2>8 DEF ConfirmFits, Onward
  <2>9. dn[e.dn] # None /\ dn[e.dn].status = "DRAFT"
    BY <2>1 DEF ConfirmFits
  <2> QED
    BY <2>2, <2>3, <2>4, <2>5, <2>8, <2>9
<1>4. e.op = "confirm" => ConfirmFits(e)'
  BY <1>3 DEF ConfirmFits
<1>5. e.op = "release" => ReleaseFits(e)'
  BY <1>2 DEF ReleaseFits
<1> QED
  BY <1>1, <1>4, <1>5 DEF Fits

\* Requests that stay open stay apart.
LEMMA RequestsStay ==
  ASSUME IInv, TypeOK', ops' = ops, Onward,
         \A u \in Txn : txn'[u] = None \/ txn'[u] = txn[u],
         \A u \in Txn, e \in Request : e = txn[u] /\ txn'[u] = e /\ Fits(e) => Undisturbed(e)
  PROVE  RequestsFit' /\ Apart'
<1>1. ASSUME NEW u \in Txn, txn'[u] # None
      PROVE  \E e \in Request : /\ e = txn'[u] /\ e = txn[u] /\ Fits(e) /\ Undisturbed(e)
                                /\ Fits(e)'
  <2>1. PICK e \in Request : e = txn'[u] /\ e = txn[u]
    BY <1>1 DEF TypeOK
  <2>2. Fits(e) /\ Undisturbed(e)
    BY <1>1, <2>1 DEF IInv, RequestsFit, Open
  <2> QED
    BY <2>1, <2>2, FitsStays DEF IInv
<1>2. RequestsFit'
  <2> SUFFICES ASSUME NEW u \in Txn, txn'[u] # None PROVE Fits(txn[u])'
    BY DEF RequestsFit, Open
  <2> QED
    BY <1>1
<1>3. Apart'
  <2> SUFFICES ASSUME NEW t \in Txn, NEW u \in Txn, t # u, txn'[t] # None, txn'[u] # None
               PROVE  Separate(txn[t], txn[u])'
    BY DEF Apart, Open
  <2>1. PICK e \in Request : e = txn'[t] /\ e = txn[t] /\ Undisturbed(e)
    BY <1>1
  <2>2. PICK f \in Request : f = txn'[u] /\ f = txn[u] /\ Undisturbed(f)
    BY <1>1
  <2>3. Separate(e, f)
    BY <2>1, <2>2 DEF IInv, Apart, Open
  <2>4. Separate(e, f)'
    BY <2>1, <2>2, <2>3 DEF Separate, Undisturbed
  <2> QED
    BY <2>1, <2>2, <2>4
<1> QED
  BY <1>2, <1>3

\* A step that changes no invoice, note, reservation or stock level.
LEMMA RestIInv ==
  ASSUME IInv, UNCHANGED <<ops, bill, dn, rsv, level>>, TypeOK', Apart',
         \A u \in Txn : txn'[u] = None \/ txn'[u] = txn[u] \/ Fits(txn'[u])
  PROVE  IInv'
<1>1. /\ \A of, l : ConfirmedOf(of, l)' = ConfirmedOf(of, l)
      /\ \A b : Delivered(b)' = Delivered(b) /\ ReservedIn(b)' = ReservedIn(b)
      /\ \A l : OriginalQty(l)' = OriginalQty(l)
      /\ \A of, l : ParentQty(of, l)' = ParentQty(of, l)
  BY SumsRead DEF ParentQty
<1>2. RequestsFit'
  <2> SUFFICES ASSUME NEW u \in Txn, txn'[u] # None PROVE Fits(txn[u])'
    BY DEF RequestsFit, Open
  <2>1. PICK e \in Request : e = txn'[u]
    BY DEF TypeOK
  <2>2. Fits(e)
    BY <2>1 DEF IInv, RequestsFit, Open
  <2>3. Onward /\ Undisturbed(e)
    BY <1>1, <2>2 DEF Onward, Undisturbed, Fits
  <2> QED
    BY <2>1, <2>2, <2>3, FitsStays DEF IInv
<1>3. RowsFit'
  BY DEF IInv, RowsFit
<1>4. NoOversell' /\ StockConserved' /\ ReservedMatches'
  BY <1>1 DEF IInv, NoOversell, StockCovered, StockConserved, ReservedMatches, ReservedSum
<1>5. NotOverDelivered' /\ NotOverInvoiced'
  BY <1>1 DEF IInv, NotOverDelivered, NotOverInvoiced
<1> QED
  BY <1>2, <1>3, <1>4, <1>5 DEF IInv

\* A step that opens or ends a request and writes nothing.
LEMMA QuietIInv ==
  ASSUME IInv, UNCHANGED <<ops, lpo, line, bill, dn, rsv, due, level>>,
         NEW t \in Txn, NEW e \in Request \cup {None}, txn' = [txn EXCEPT ![t] = e],
         e # None => /\ Fits(e)
                     /\ \A u \in Txn \ {t} : Open(u) => Separate(e, txn[u])
  PROVE  IInv'
<1>1. TypeOK'
  BY DEF IInv, TypeOK
<1>2. txn'[t] = e /\ \A u \in Txn \ {t} : txn'[u] = txn[u]
  BY DEF IInv, TypeOK
<1>3. Apart'
  <2> SUFFICES ASSUME NEW u \in Txn, NEW v \in Txn, u # v, txn'[u] # None, txn'[v] # None
               PROVE  Separate(txn[u], txn[v])'
    BY DEF Apart, Open
  <2>1. \A f, g : Separate(f, g)' <=> Separate(f, g)
    BY DEF Separate
  <2>2. \A f, g : Separate(f, g) <=> Separate(g, f)
    BY DEF Separate
  <2>3. Separate(txn'[u], txn'[v])
    BY <1>2, <2>2 DEF IInv, Apart, Open
  <2>4. PICK f, g : f = txn'[u] /\ g = txn'[v]
    OBVIOUS
  <2> QED
    BY <2>1, <2>3, <2>4
<1>4. \A u \in Txn : txn'[u] = None \/ txn'[u] = txn[u] \/ Fits(txn'[u])
  BY <1>2
<1> QED
  BY <1>1, <1>3, <1>4, RestIInv

-----------------------------------------------------------------------------
(* The initial states, and steps that write no note, invoice, reservation  *)
(* or stock level.                                                         *)

LEMMA InitIInv == Init => IInv
<1> SUFFICES ASSUME Init PROVE IInv
  OBVIOUS
<1>1. TypeOK
  BY DEF Init, TypeOK, LpoStatus
<1>2. \A of, l : ConfirmedOf(of, l) = 0
  <2> SUFFICES ASSUME NEW of, NEW l PROVE ConfirmedOf(of, l) = 0
    OBVIOUS
  <2> DEFINE f == [d \in Dn |-> Delivers(dn[d], of, l)]
  <2>1. DOMAIN f = Dn /\ \A d \in Dn : f[d] = 0
    BY DEF Init, Delivers, Confirmed
  <2> HIDE DEF f
  <2>2. SumFunction(f) = 0
    BY <2>1, SumZero
  <2> QED
    BY <2>2 DEF f, ConfirmedOf
<1>3. \A b : Delivered(b) = 0
  <2> SUFFICES ASSUME NEW b PROVE Delivered(b) = 0
    OBVIOUS
  <2> DEFINE f == [d \in Dn |-> Issues(dn[d], b)]
  <2>1. DOMAIN f = Dn /\ \A d \in Dn : f[d] = 0
    BY DEF Init, Issues, Confirmed
  <2> HIDE DEF f
  <2>2. SumFunction(f) = 0
    BY <2>1, SumZero
  <2> QED
    BY <2>2 DEF f, Delivered
<1>4. \A l : OriginalQty(l) = 0
  <2> SUFFICES ASSUME NEW l PROVE OriginalQty(l) = 0
    OBVIOUS
  <2> DEFINE f == [b \in Bill |-> Original(bill[b], l)]
  <2>1. DOMAIN f = Bill /\ \A b \in Bill : f[b] = 0
    BY DEF Init, Original
  <2> HIDE DEF f
  <2>2. SumFunction(f) = 0
    BY <2>1, SumZero
  <2> QED
    BY <2>2 DEF f, OriginalQty
<1>5. \A b : ReservedIn(b) = 0
  <2> SUFFICES ASSUME NEW b PROVE ReservedIn(b) = 0
    OBVIOUS
  <2> DEFINE f == [r \in Res |-> HoldsIn(rsv[r], b)]
  <2>1. DOMAIN f = Res /\ \A r \in Res : f[r] = 0
    BY DEF Init, HoldsIn
  <2> HIDE DEF f
  <2>2. SumFunction(f) = 0
    BY <2>1, SumZero
  <2> QED
    BY <2>2 DEF f, ReservedIn
<1>6. RowsFit /\ RequestsFit /\ Apart
  BY DEF Init, RowsFit, RequestsFit, Apart, Open
<1>7. NoOversell /\ StockConserved /\ ReservedMatches
  BY <1>3, <1>5 DEF Init, NoOversell, StockCovered, StockConserved, ReservedMatches, ReservedSum
<1>8. NotOverDelivered /\ NotOverInvoiced
  BY <1>2, <1>4 DEF Init, NotOverDelivered, NotOverInvoiced, ParentQty
<1> QED
  BY <1>1, <1>6, <1>7, <1>8 DEF IInv

\* The LPO's own status, and the time that passes.
LEMMA LpoIInv ==
  ASSUME IInv, ReceiveLpo \/ CancelLpo \/ \E r \in Res : PassExpiry(r)
  PROVE  IInv'
<1>1. UNCHANGED <<ops, bill, dn, rsv, level, line, txn>>
  BY DEF ReceiveLpo, CancelLpo, PassExpiry
<1>2. lpo' \in LpoStatus /\ due' \subseteq {r \in Res : rsv'[r] # None}
  BY <1>1 DEF IInv, TypeOK, ReceiveLpo, CancelLpo, PassExpiry, LpoStatus
<1>3. TypeOK'
  BY <1>1, <1>2 DEF IInv, TypeOK
<1>4. Apart'
  BY <1>1 DEF IInv, Apart, Open, Separate
<1> QED
  BY <1>1, <1>3, <1>4, RestIInv

LEMMA AbortIInv == ASSUME IInv, NEW t \in Txn, Abort(t) PROVE IInv'
BY QuietIInv DEF Abort

LEMMA ReserveReadIInv ==
  ASSUME IInv, NEW t \in Txn, NEW r \in Res, NEW b \in Bin, NEW q \in [Line -> Qty \cup {0}],
         ReserveRead(t, r, b, q)
  PROVE  IInv'
<1> DEFINE e == [op |-> "reserve", res |-> r, bin |-> b, qty |-> q]
<1>1. e \in Request /\ e.op = "reserve" /\ e.res = r
  <2>1. Qty \cup {0} \subseteq Nat
    BY QuantitiesAssumption
  <2>2. q \in [Line -> Nat]
    BY ONLY <2>1, q \in [Line -> Qty \cup {0}]
  <2> QED
    BY <2>2 DEF Request
<1>2. /\ ~Open(t) /\ rsv[r] = None /\ \A u \in Txn : Is(u, "reserve") => txn[u].res < r
      /\ txn' = [txn EXCEPT ![t] = e]
      /\ UNCHANGED <<ops, lpo, line, bill, dn, rsv, due, level>>
  BY DEF ReserveRead
<1> HIDE DEF e
<1>3. Fits(e)
  BY <1>1, <1>2 DEF Fits
<1>4. \A u \in Txn \ {t} : Open(u) => Separate(e, txn[u])
  <2> SUFFICES ASSUME NEW u \in Txn, Open(u) PROVE Separate(e, txn[u])
    OBVIOUS
  <2>1. txn[u].op = "reserve" => txn[u].res < r
    BY <1>2 DEF Is
  <2>2. txn[u].op = "reserve" => txn[u].res \in Nat
    BY RowTypes, RequestTypes DEF IInv
  <2> QED
    BY <1>1, <2>1, <2>2 DEF Separate
<1> QED
  BY <1>1, <1>2, <1>3, <1>4, QuietIInv

\* Both kinds of release lock the headers of what they will release.
LEMMA ReleaseReadIInv ==
  ASSUME IInv, NEW t \in Txn, ~Open(t), NEW to \in {"CANCELLED", "EXPIRED"},
         NEW R \in SUBSET Res, \A r \in R : rsv[r] # None /\ HeaderFree(t, r),
         NEW e, e = [op |-> "release", to |-> to,
                     items |-> [x \in Res |-> IF x \in R THEN rsv[x].items ELSE None]],
         txn' = [txn EXCEPT ![t] = e], UNCHANGED <<ops, lpo, line, bill, dn, rsv, due, level>>
  PROVE  IInv'
<1>1. \A r \in R : rsv[r].items \in Items /\ rsv[r].items # None
  BY RowTypes DEF IInv, ResRow
<1>2. e.items \in [Res -> Items \cup {None}]
  BY <1>1
<1>3. e \in Request /\ e.op = "release"
  BY <1>2 DEF Request
<1>4. \A r \in Res : (e.items[r] # None <=> r \in R) /\ (r \in R => e.items[r] = rsv[r].items)
  BY <1>1
<1>5. ReleaseFits(e)
  BY <1>4 DEF ReleaseFits, IInv, RowsFit
<1>6. Fits(e)
  BY <1>3, <1>5 DEF Fits
<1>7. \A u \in Txn \ {t} : Open(u) => Separate(e, txn[u])
  BY <1>3, <1>4 DEF HeaderFree, Is, Separate
<1> QED
  BY <1>3, <1>6, <1>7, QuietIInv

LEMMA CancelReadIInv == ASSUME IInv, NEW t \in Txn, NEW r \in Res, CancelRead(t, r) PROVE IInv'
<1> DEFINE e == [op |-> "release", to |-> "CANCELLED",
                 items |-> [x \in Res |-> IF x \in {r} THEN rsv[x].items ELSE None]]
<1>1. /\ ~Open(t) /\ rsv[r] # None /\ HeaderFree(t, r)
      /\ UNCHANGED <<ops, lpo, line, bill, dn, rsv, due, level>>
  BY DEF CancelRead
<1>2. txn' = [txn EXCEPT ![t] = e]
  BY DEF CancelRead
<1>3. {r} \in SUBSET Res /\ \A x \in {r} : rsv[x] # None /\ HeaderFree(t, x)
  BY <1>1
<1> QED
  BY ONLY IInv, <1>1, <1>2, <1>3, ReleaseReadIInv

LEMMA ExpireReadIInv == ASSUME IInv, NEW t \in Txn, ExpireRead(t) PROVE IInv'
<1> DEFINE late == {r \in due : rsv[r].status = "ACTIVE"}
<1>1. late \in SUBSET Res /\ \A r \in late : rsv[r] # None
  BY DEF IInv, TypeOK
<1>2. /\ ~Open(t) /\ \A r \in late : HeaderFree(t, r)
      /\ txn' = [txn EXCEPT ![t] = [op |-> "release", to |-> "EXPIRED",
             items |-> [x \in Res |-> IF x \in late THEN rsv[x].items ELSE None]]]
      /\ UNCHANGED <<ops, lpo, line, bill, dn, rsv, due, level>>
  BY DEF ExpireRead
<1> HIDE DEF late
<1> QED
  BY <1>1, <1>2, ReleaseReadIInv

LEMMA ConfirmReadIInv == ASSUME IInv, NEW t \in Txn, NEW d \in Dn, ConfirmRead(t, d) PROVE IInv'
<1> DEFINE e == [op |-> "confirm", dn |-> d, items |-> Selected(d)]
           l == dn[d].line
<1>1. /\ ~Open(t) /\ dn[d] # None /\ dn[d].status = "DRAFT" /\ Confirming(dn[d].of) = {}
      /\ dn[d].qty <= Leftover(dn[d].of, dn[d].line)
      /\ txn' = [txn EXCEPT ![t] = e]
      /\ UNCHANGED <<ops, lpo, line, bill, dn, rsv, due, level>>
  BY DEF ConfirmRead
<1>2. dn[d] \in DnRow /\ l \in Line /\ dn[d].qty \in Nat
  BY <1>1, RowTypes DEF IInv, DnRow
<1>3. ASSUME NEW r \in Res, Selected(d)[r] # None
      PROVE  /\ dn[d].of = None /\ rsv[r] # None /\ rsv[r].items[l] # None
             /\ Selected(d)[r] = rsv[r].items[l] /\ rsv[r].items[l] \in ItemRow
             /\ Sound(rsv[r].items[l])
  <2>1. dn[d].of = None /\ Held(r, l) > 0 /\ Selected(d)[r] = rsv[r].items[l]
    BY <1>3 DEF Selected, Reserved
  <2>2. rsv[r] # None
    BY <2>1 DEF Held
  <2>3. rsv[r].items \in Items /\ Sound(rsv[r].items[l])
    BY <1>2, <2>2, RowTypes DEF IInv, RowsFit, ResRow
  <2> QED
    BY <1>2, <1>3, <2>1, <2>2, <2>3 DEF Items
<1>4. Selected(d) \in [Res -> ItemRow \cup {None}]
  BY <1>3 DEF Selected
<1>5. e \in Request /\ e.op = "confirm" /\ e.dn = d /\ e.items = Selected(d)
  BY <1>4 DEF Request
<1> HIDE DEF e
<1>6. ConfirmedOf(dn[d].of, l) + dn[d].qty <= ParentQty(dn[d].of, l)
  <2>1. ConfirmedOf(dn[d].of, l) \in Nat
    BY SumTypes DEF IInv
  <2>2. ParentQty(dn[d].of, l) \in Nat
    <3>1. dn[d].of = None => Ordered[l] \in Nat
      BY <1>2
    <3>2. dn[d].of # None => bill[dn[d].of] \in BillRow
      BY <1>1, <1>2, RowTypes DEF IInv, RowsFit, DnRow
    <3> QED
      BY <1>2, <3>1, <3>2 DEF ParentQty, BillRow
  <2>3. ConfirmedOf(dn[d].of, l) <= ParentQty(dn[d].of, l)
    <3>1. dn[d].of # None => dn[d].of \in {b \in Bill : bill[b] # None}
      BY <1>1, <1>2 DEF IInv, RowsFit, DnRow
    <3> QED
      BY <1>2, <3>1 DEF IInv, NotOverDelivered
  <2> QED
    BY <1>1, <1>2, <2>1, <2>2, <2>3 DEF Leftover, Monus
<1>7. ConfirmFits(e)
  BY <1>1, <1>3, <1>5, <1>6 DEF ConfirmFits
<1>8. \A u \in Txn \ {t} : Open(u) => Separate(e, txn[u])
  BY <1>1, <1>5 DEF Confirming, Is, Separate
<1>9. Fits(e)
  BY <1>5, <1>7 DEF Fits
<1> QED
  BY <1>1, <1>5, <1>8, <1>9, QuietIInv

-----------------------------------------------------------------------------
(* Drafts, invoices, and steps on stock alone.                             *)

\* A draft comes, changes or goes.
LEMMA DraftIInv ==
  ASSUME IInv, NEW d \in Dn, NEW new \in DnRow \cup {None}, dn' = [dn EXCEPT ![d] = new],
         dn[d] # None => dn[d].status = "DRAFT",
         new # None => /\ new.status = "DRAFT"
                       /\ new.of = None => "deliver" \in ops
                       /\ new.of # None => bill[new.of] # None,
         \A u \in Txn : Open(u) /\ txn[u].op = "confirm" => txn[u].dn # d,
         UNCHANGED <<ops, lpo, line, bill, rsv, due, level, txn>>
  PROVE  IInv'
<1>1. /\ dn' \in [Dn -> DnRow \cup {None}] /\ dn'[d] = new
      /\ \A c \in Dn \ {d} : dn'[c] = dn[c]
  BY NoteAfter DEF IInv
<1>2. TypeOK'
  BY <1>1 DEF IInv, TypeOK
<1>3. /\ \A of, l : ConfirmedOf(of, l)' = ConfirmedOf(of, l)
      /\ \A b : Delivered(b)' = Delivered(b)
  <2>1. /\ \A of, l : Delivers(dn[d], of, l) = 0 /\ Delivers(new, of, l) = 0
        /\ \A b : Issues(dn[d], b) = 0 /\ Issues(new, b) = 0
    BY DEF Delivers, Issues, Confirmed
  <2>2. TypeOK
    BY DEF IInv
  <2>3. /\ \A of, l : ConfirmedOf(of, l)' = ConfirmedOf(of, l) - Delivers(dn[d], of, l)
                                               + Delivers(new, of, l)
        /\ \A b : Delivered(b)' = Delivered(b) - Issues(dn[d], b) + Issues(new, b)
    BY ONLY <2>2, d \in Dn, new \in DnRow \cup {None}, dn' = [dn EXCEPT ![d] = new], NoteAfter
  <2>4. /\ \A of, l : ConfirmedOf(of, l)' = ConfirmedOf(of, l) - 0 + 0
        /\ \A b : Delivered(b)' = Delivered(b) - 0 + 0
    BY ONLY <2>1, <2>3
  <2>5. /\ \A of, l : ConfirmedOf(of, l) \in Nat
        /\ \A b : Delivered(b) \in Nat
    BY SumTypes DEF IInv
  <2> QED
    BY ONLY <2>4, <2>5
<1>4. /\ \A b : ReservedIn(b)' = ReservedIn(b)
      /\ \A l : OriginalQty(l)' = OriginalQty(l)
      /\ \A of, l : ParentQty(of, l)' = ParentQty(of, l)
  BY SumsRead DEF ParentQty
<1>5. RowsFit'
  BY <1>1 DEF IInv, RowsFit
<1>6. RequestsFit' /\ Apart'
  <2>1. Onward
    BY DEF Onward
  <2>2. ASSUME NEW u \in Txn, NEW e \in Request, e = txn[u], txn'[u] = e, Fits(e)
        PROVE  Undisturbed(e)
    <3>1. e.op = "reserve" => rsv'[e.res] = None
      BY <2>2 DEF Fits
    <3>2. e.op = "confirm" => e.dn \in Dn \ {d}
      BY <2>2, RequestTypes DEF Open
    <3> QED
      BY <1>1, <1>3, <1>4, <3>1, <3>2 DEF Undisturbed
  <2>3. \A u \in Txn : txn'[u] = None \/ txn'[u] = txn[u]
    OBVIOUS
  <2> QED
    BY <1>2, <2>1, <2>2, <2>3, RequestsStay
<1>7. NoOversell' /\ StockConserved' /\ ReservedMatches'
  BY <1>3, <1>4 DEF IInv, NoOversell, StockCovered, StockConserved, ReservedMatches, ReservedSum
<1>8. NotOverDelivered' /\ NotOverInvoiced'
  BY <1>3, <1>4 DEF IInv, NotOverDelivered, NotOverInvoiced
<1> QED
  BY <1>2, <1>5, <1>6, <1>7, <1>8 DEF IInv

LEMMA CreateDnIInv ==
  ASSUME IInv, NEW d \in Dn, NEW of \in Bill \cup {None}, NEW l \in Line, NEW b \in Bin, NEW q \in Qty,
         CreateDn(d, of, l, b, q)
  PROVE  IInv'
<1> DEFINE new == [status |-> "DRAFT", of |-> of, line |-> l, bin |-> b, qty |-> q]
<1>1. new \in DnRow /\ new.status = "DRAFT" /\ new.of = of
  BY DEF DnRow, DnStatus
<1>2. /\ dn[d] = None /\ dn' = [dn EXCEPT ![d] = new]
      /\ of = None => "deliver" \in ops
      /\ of # None => bill[of] # None
      /\ UNCHANGED <<ops, lpo, line, bill, rsv, due, level, txn>>
  BY DEF CreateDn, ParentOpen
<1> HIDE DEF new
<1>3. \A u \in Txn : Open(u) /\ txn[u].op = "confirm" => txn[u].dn # d
  BY <1>2 DEF IInv, RequestsFit, Fits, ConfirmFits
<1> QED
  BY <1>1, <1>2, <1>3, DraftIInv

LEMMA EditDnIInv ==
  ASSUME IInv, NEW d \in Dn, NEW l \in Line, NEW b \in Bin, NEW q \in Qty, EditDn(d, l, b, q)
  PROVE  IInv'
<1> DEFINE new == [dn[d] EXCEPT !.line = l, !.bin = b, !.qty = q]
<1>1. /\ dn[d] # None /\ dn[d].status = "DRAFT" /\ NoteFree(d)
      /\ dn' = [dn EXCEPT ![d] = new]
      /\ UNCHANGED <<ops, lpo, line, bill, rsv, due, level, txn>>
  BY DEF EditDn
<1>2. dn[d] \in DnRow
  BY <1>1, RowTypes DEF IInv
<1>3. new \in DnRow /\ new.status = dn[d].status /\ new.of = dn[d].of
  BY <1>2 DEF DnRow
<1> HIDE DEF new
<1>4. \A u \in Txn : Open(u) /\ txn[u].op = "confirm" => txn[u].dn # d
  BY <1>1 DEF NoteFree, Is
<1>5. /\ dn[d].of = None => "deliver" \in ops
      /\ dn[d].of # None => bill[dn[d].of] # None
  BY <1>1 DEF IInv, RowsFit
<1> QED
  BY <1>1, <1>3, <1>4, <1>5, DraftIInv

LEMMA DeleteDnIInv == ASSUME IInv, NEW d \in Dn, DeleteDn(d) PROVE IInv'
<1>1. \A u \in Txn : Open(u) /\ txn[u].op = "confirm" => txn[u].dn # d
  BY DEF DeleteDn, NoteFree, Is
<1>2. /\ dn[d] # None => dn[d].status = "DRAFT"
      /\ dn' = [dn EXCEPT ![d] = None]
      /\ UNCHANGED <<ops, lpo, line, bill, rsv, due, level, txn>>
  BY DEF DeleteDn
<1> QED
  BY ONLY IInv, <1>1, <1>2, d \in Dn, DraftIInv

\* Invoices come, end or are brought back: what those that were never voided
\* bill stays within the order, and what notes may deliver does not change.
LEMMA BillIInv ==
  ASSUME IInv, bill' \in [Bill -> BillRow \cup {None}],
         \A b \in Bill : bill[b] # None => bill'[b] # None /\ bill'[b].qty = bill[b].qty,
         \A b \in Bill : bill'[b] # None /\ bill'[b].status = "CANCELLED" => bill'[b].voided,
         \A l \in Line : OriginalQty(l)' <= Ordered[l],
         lpo' \in LpoStatus, line' \in [Line -> [delivered : Nat, invoiced : Nat]],
         txn' \in [Txn -> Request \cup {None}],
         \A u \in Txn : txn'[u] = None \/ txn'[u] = txn[u],
         UNCHANGED <<ops, dn, rsv, due, level>>
  PROVE  IInv'
<1>1. TypeOK'
  BY DEF IInv, TypeOK
<1>2. \A b \in Bill : bill'[b] # None => bill'[b] \in BillRow
  OBVIOUS
<1>3. /\ \A of, l : ConfirmedOf(of, l)' = ConfirmedOf(of, l)
      /\ \A c : Delivered(c)' = Delivered(c) /\ ReservedIn(c)' = ReservedIn(c)
  BY SumsRead
<1>4. \A of, l : of = None \/ (of \in Bill /\ bill[of] # None)
                  => ParentQty(of, l)' = ParentQty(of, l)
  BY DEF ParentQty
<1>5. RowsFit'
  <2>1. ASSUME NEW d \in Dn, dn[d] # None, dn[d].of # None PROVE bill'[dn[d].of] # None
    <3>1. dn[d].of \in Bill /\ bill[dn[d].of] # None
      BY <2>1, RowTypes DEF IInv, RowsFit, DnRow
    <3> QED
      BY <3>1
  <2> QED
    BY <2>1 DEF IInv, RowsFit
<1>6. RequestsFit' /\ Apart'
  <2>1. Onward
    BY DEF Onward
  <2>2. ASSUME NEW u \in Txn, NEW e \in Request, e = txn[u], txn'[u] = e, Fits(e)
        PROVE  Undisturbed(e)
    <3>1. e.op = "reserve" => rsv'[e.res] = None
      BY <2>2 DEF Fits
    <3>2. ASSUME e.op = "confirm"
          PROVE  dn[e.dn].of = None \/ (dn[e.dn].of \in Bill /\ bill[dn[e.dn].of] # None)
      <4>1. e.dn \in Dn /\ dn[e.dn] # None
        BY <2>2, <3>2, RequestTypes DEF Fits, ConfirmFits
      <4> QED
        BY <4>1, RowTypes DEF IInv, RowsFit, DnRow
    <3> QED
      BY <1>3, <1>4, <3>1, <3>2 DEF Undisturbed
  <2> QED
    BY <1>1, <2>1, <2>2, RequestsStay
<1>7. NoOversell' /\ StockConserved' /\ ReservedMatches'
  BY <1>3 DEF IInv, NoOversell, StockCovered, StockConserved, ReservedMatches, ReservedSum
<1>8. NotOverInvoiced'
  BY DEF NotOverInvoiced
<1>9. NotOverDelivered'
  <2> SUFFICES ASSUME NEW l \in Line, NEW of \in {None} \cup {c \in Bill : bill'[c] # None}
               PROVE  ConfirmedOf(of, l)' <= ParentQty(of, l)'
    BY DEF NotOverDelivered
  <2>1. CASE of = None \/ bill[of] # None
    <3>1. ConfirmedOf(of, l) <= ParentQty(of, l)
      BY <2>1 DEF IInv, NotOverDelivered
    <3> QED
      BY <1>3, <1>4, <2>1, <3>1
  <2>2. CASE of # None /\ bill[of] = None
    <3> DEFINE f == [d \in Dn |-> Delivers(dn[d], of, l)]
    <3>1. \A d \in Dn : f[d] = 0
      BY <2>2 DEF IInv, RowsFit, Delivers, Confirmed
    <3>2. DOMAIN f = Dn
      OBVIOUS
    <3> HIDE DEF f
    <3>3. SumFunction(f) = 0
      BY <3>1, <3>2, SumZero
    <3>4. ConfirmedOf(of, l) = 0
      BY <3>3 DEF f, ConfirmedOf
    <3>5. bill'[of] \in BillRow
      BY <1>2, <2>2
    <3>6. ParentQty(of, l)' = bill'[of].qty[l] /\ bill'[of].qty[l] \in Nat
      BY <2>2, <3>5 DEF ParentQty, BillRow
    <3> QED
      BY <1>3, <3>4, <3>6
  <2> QED
    BY <2>1, <2>2
<1> QED
  BY <1>1, <1>5, <1>6, <1>7, <1>8, <1>9 DEF IInv

\* One of them: the request was not open before.
LEMMA OneBillIInv ==
  ASSUME IInv, NEW b \in Bill, NEW new \in BillRow, bill' = [bill EXCEPT ![b] = new],
         bill[b] # None => new.qty = bill[b].qty,
         new.status = "CANCELLED" => new.voided,
         \A l \in Line : OriginalQty(l) - Original(bill[b], l) + Original(new, l) <= Ordered[l],
         lpo' \in LpoStatus, line' \in [Line -> [delivered : Nat, invoiced : Nat]],
         UNCHANGED <<ops, dn, rsv, due, level, txn>>
  PROVE  IInv'
<1>1. /\ bill' \in [Bill -> BillRow \cup {None}] /\ bill'[b] = new
      /\ \A c \in Bill \ {b} : bill'[c] = bill[c]
      /\ \A l \in Line : OriginalQty(l)' = OriginalQty(l) - Original(bill[b], l) + Original(new, l)
  BY BillAfter DEF IInv
<1>2. \A c \in Bill : bill[c] # None => bill'[c] # None /\ bill'[c].qty = bill[c].qty
  BY <1>1
<1>3. \A c \in Bill : bill'[c] # None /\ bill'[c].status = "CANCELLED" => bill'[c].voided
  BY <1>1 DEF IInv, RowsFit
<1>4. txn' \in [Txn -> Request \cup {None}] /\ \A u \in Txn : txn'[u] = None \/ txn'[u] = txn[u]
  BY DEF IInv, TypeOK
<1>5. \A l \in Line : OriginalQty(l)' <= Ordered[l]
  BY <1>1
<1> QED
  BY <1>1, <1>2, <1>3, <1>4, <1>5, BillIInv

\* What the recalculation writes.
LEMMA RecalcTypes ==
  ASSUME TypeOK, NEW map, \A l \in Line : map[l] \in Nat, RecalcInvoiced(map)
  PROVE  lpo' \in LpoStatus /\ line' \in [Line -> [delivered : Nat, invoiced : Nat]]
<1>1. lpo' \in LpoStatus
  BY DEF RecalcInvoiced, LpoStatus, TypeOK
<1>2. \A l \in Line : Least(map[l], Ordered[l]) \in Nat
  BY DEF Least
<1>3. \A l \in Line : line[l] \in [delivered : Nat, invoiced : Nat]
  BY DEF TypeOK
<1>4. \A l \in Line : [line[l] EXCEPT !.invoiced = Least(map[l], Ordered[l])]
                         \in [delivered : Nat, invoiced : Nat]
  BY <1>2, <1>3
<1> QED
  BY <1>1, <1>4 DEF RecalcInvoiced, TypeOK

LEMMA CreateBillIInv ==
  ASSUME IInv, NEW b \in Bill, NEW q \in [Line -> Qty \cup {0}], CreateBill(b, q)
  PROVE  IInv'
<1> DEFINE new == [status |-> "LIVE", voided |-> FALSE, qty |-> q]
           map == [l \in Line |-> InvoicedQty(l) + q[l]]
<1>1. \A l \in Line : /\ InvoicedQty(l) \in Nat /\ q[l] \in Nat /\ Ordered[l] \in Nat
                     /\ OriginalQty(l) \in Nat /\ OriginalQty(l) <= InvoicedQty(l)
  <2>1. \A l \in Line : /\ InvoicedQty(l) \in Nat /\ OriginalQty(l) \in Nat
                       /\ OriginalQty(l) <= InvoicedQty(l)
    BY SumTypes DEF IInv
  <2>2. Qty \cup {0} \subseteq Nat /\ \A l \in Line : Ordered[l] \in Nat
    BY QuantitiesAssumption
  <2>3. \A l \in Line : q[l] \in Nat
    BY ONLY <2>2, q \in [Line -> Qty \cup {0}]
  <2> QED
    BY <2>1, <2>2, <2>3
<1>2. new \in BillRow /\ new.status # "CANCELLED" /\ \A l \in Line : Original(new, l) = q[l]
  <2>1. q \in [Line -> Nat]
    BY <1>1
  <2>2. new \in BillRow
    BY ONLY <2>1 DEF BillRow
  <2>3. new # None
    BY <2>2
  <2> QED
    BY <2>2, <2>3 DEF Bills, Original
<1>3. /\ bill[b] = None /\ bill' = [bill EXCEPT ![b] = new]
      /\ \A l \in Line : q[l] <= Ordered[l] - InvoicedQty(l)
      /\ RecalcInvoiced(map)
      /\ UNCHANGED <<ops, dn, rsv, due, level, txn>>
  BY DEF CreateBill
<1>4. \A l \in Line : map[l] \in Nat
  BY <1>1
<1> HIDE DEF new, map
<1>5. lpo' \in LpoStatus /\ line' \in [Line -> [delivered : Nat, invoiced : Nat]]
  BY <1>3, <1>4, RecalcTypes DEF IInv
<1>6. \A l \in Line : OriginalQty(l) - Original(bill[b], l) + Original(new, l) <= Ordered[l]
  BY <1>1, <1>2, <1>3 DEF Original
<1> QED
  BY <1>2, <1>3, <1>5, <1>6, OneBillIInv

LEMMA EndBillIInv ==
  ASSUME IInv, NEW b \in Bill, NEW status \in {"CANCELLED", "DELETED"}, EndBill(b, status)
  PROVE  IInv'
<1> DEFINE new == [bill[b] EXCEPT !.status = status,
                              !.voided = bill[b].voided \/ status = "CANCELLED"]
           map == [l \in Line |-> InvoicedQty(l)]
<1>1. /\ bill[b] # None /\ bill' = [bill EXCEPT ![b] = new] /\ RecalcInvoiced(map)
      /\ UNCHANGED <<ops, dn, rsv, due, level, txn>>
  BY DEF EndBill, Countable
<1>2. bill[b] \in BillRow
  BY <1>1, RowTypes DEF IInv
<1>3. /\ new \in BillRow /\ new.qty = bill[b].qty
      /\ new.status = "CANCELLED" => new.voided
      /\ \A l \in Line : Original(new, l) = 0
  BY <1>2 DEF BillRow, Original, Bills
<1>4. \A l \in Line : map[l] \in Nat /\ OriginalQty(l) \in Nat
  BY SumTypes DEF IInv
<1> HIDE DEF new, map
<1>5. lpo' \in LpoStatus /\ line' \in [Line -> [delivered : Nat, invoiced : Nat]]
  BY <1>1, <1>4, RecalcTypes DEF IInv
<1>6. \A l \in Line : OriginalQty(l) - Original(bill[b], l) + Original(new, l) <= Ordered[l]
  <2> SUFFICES ASSUME NEW l \in Line
               PROVE  OriginalQty(l) - Original(bill[b], l) + Original(new, l) <= Ordered[l]
    OBVIOUS
  <2>1. Original(bill[b], l) \in Nat /\ Ordered[l] \in Nat
    BY <1>1, <1>2 DEF Original, Bills, BillRow
  <2>2. OriginalQty(l) <= Ordered[l]
    BY DEF IInv, NotOverInvoiced
  <2> QED
    BY <1>3, <1>4, <2>1, <2>2
<1> QED
  BY <1>1, <1>3, <1>5, <1>6, OneBillIInv

\* A flip writes no quantity, and brings back only what was voided.
LEMMA FlipReadIInv ==
  ASSUME IInv, NEW t \in Txn, NEW late \in SUBSET Bill, FlipRead(t, late)
  PROVE  IInv'
<1> DEFINE e == [op |-> "flip", bills |-> late]
<1>1. /\ txn' = [txn EXCEPT ![t] = e]
      /\ UNCHANGED <<ops, lpo, line, bill, dn, rsv, due, level>>
  BY DEF FlipRead
<1>2. e \in Request /\ e.op = "flip"
  BY DEF Request
<1> HIDE DEF e
<1>3. Fits(e) /\ \A u \in Txn \ {t} : Open(u) => Separate(e, txn[u])
  BY <1>2 DEF Fits, Separate
<1> QED
  BY <1>1, <1>2, <1>3, QuietIInv

LEMMA FlipDoneIInv == ASSUME IInv, NEW t \in Txn, FlipDone(t) PROVE IInv'
<1> DEFINE back == txn[t].bills \cap Void
<1>1. /\ bill' = [b \in Bill |-> IF b \in back THEN [bill[b] EXCEPT !.status = "LIVE"] ELSE bill[b]]
      /\ txn' = [txn EXCEPT ![t] = None]
      /\ UNCHANGED <<ops, lpo, line, dn, rsv, due, level>>
  BY DEF FlipDone
<1>2. \A b \in back : /\ b \in Bill /\ bill[b] # None /\ bill[b] \in BillRow
                     /\ bill[b].status = "CANCELLED" /\ bill[b].voided
  BY RowTypes DEF Void, IInv, RowsFit
<1> HIDE DEF back
<1>3. ASSUME NEW b \in Bill
      PROVE  /\ bill'[b] \in BillRow \cup {None}
             /\ bill[b] # None => bill'[b] # None /\ bill'[b].qty = bill[b].qty
             /\ bill'[b] # None /\ bill'[b].status = "CANCELLED" => bill'[b].voided
             /\ \A l : Original(bill'[b], l) = Original(bill[b], l)
  <2>1. CASE b \in back
    <3>1. bill'[b] = [bill[b] EXCEPT !.status = "LIVE"]
      BY <1>1, <2>1
    <3>2. bill'[b] \in BillRow /\ bill'[b].qty = bill[b].qty /\ bill'[b].voided = bill[b].voided
      BY <1>2, <2>1, <3>1 DEF BillRow
    <3> QED
      BY <1>2, <2>1, <3>2 DEF Original
  <2>2. CASE b \notin back
    <3>1. bill'[b] = bill[b]
      BY <1>1, <2>2
    <3> QED
      BY <3>1 DEF IInv, TypeOK, RowsFit
  <2> QED
    BY <2>1, <2>2
<1>4. bill' \in [Bill -> BillRow \cup {None}]
  BY <1>1, <1>3
<1>5. \A l \in Line : OriginalQty(l)' <= Ordered[l]
  <2> SUFFICES ASSUME NEW l \in Line PROVE OriginalIn(bill', l) = OriginalIn(bill, l)
    BY SumsRead DEF IInv, NotOverInvoiced
  <2> DEFINE f == [b \in Bill |-> Original(bill[b], l)]
             g == [b \in Bill |-> Original(bill'[b], l)]
  <2>1. DOMAIN f = Bill /\ DOMAIN g = Bill /\ \A b \in Bill : g[b] = f[b]
    BY <1>3
  <2>2. SumFunction(f) = OriginalIn(bill, l) /\ SumFunction(g) = OriginalIn(bill', l)
    BY DEF OriginalIn
  <2> HIDE DEF f, g
  <2> QED
    BY <2>1, <2>2, SumSame
<1>6. txn' \in [Txn -> Request \cup {None}] /\ \A u \in Txn : txn'[u] = None \/ txn'[u] = txn[u]
  BY <1>1 DEF IInv, TypeOK
<1>7. lpo' \in LpoStatus /\ line' \in [Line -> [delivered : Nat, invoiced : Nat]]
  BY <1>1 DEF IInv, TypeOK
<1> QED
  BY <1>1, <1>3, <1>4, <1>5, <1>6, <1>7, BillIInv

\* POST /inventory/adjust concerns what is on hand alone.
LEMMA AdjustIInv == ASSUME IInv, NEW b \in Bin, NEW delta \in Int, Adjust(b, delta) PROVE IInv'
<1> DEFINE new == [level[b] EXCEPT !.on_hand = level[b].on_hand + delta]
<1>1. /\ "adjust" \in ops /\ level[b].on_hand + delta \in 0 .. Stock[b]
      /\ level' = [level EXCEPT ![b] = new]
      /\ UNCHANGED <<ops, lpo, line, bill, dn, rsv, due, txn>>
  BY DEF Adjust
<1>2. level[b] \in [on_hand : Nat, reserved : Nat] /\ level[b].on_hand + delta \in Nat
  BY <1>1 DEF IInv, TypeOK
<1>3. new \in [on_hand : Nat, reserved : Nat] /\ new.reserved = level[b].reserved
  BY <1>2
<1> HIDE DEF new
<1>4. TypeOK'
  BY <1>1, <1>3 DEF IInv, TypeOK
<1>5. \A c \in Bin : level'[c].reserved = level[c].reserved
  BY <1>1, <1>3 DEF IInv, TypeOK
<1>6. /\ \A of, l : ConfirmedOf(of, l)' = ConfirmedOf(of, l)
      /\ \A c : ReservedIn(c)' = ReservedIn(c)
      /\ \A l : OriginalQty(l)' = OriginalQty(l)
      /\ \A of, l : ParentQty(of, l)' = ParentQty(of, l)
  BY <1>1, SumsRead DEF ParentQty
<1>7. RowsFit'
  BY <1>1 DEF IInv, RowsFit
<1>8. RequestsFit' /\ Apart'
  <2>1. Onward
    BY <1>1 DEF Onward
  <2>2. \A u \in Txn, e \in Request : e = txn[u] /\ txn'[u] = e /\ Fits(e) => Undisturbed(e)
    BY <1>1, <1>6 DEF Undisturbed, Fits
  <2> QED
    BY <1>1, <1>4, <2>1, <2>2, RequestsStay
<1>9. NoOversell' /\ StockConserved' /\ ReservedMatches'
  BY <1>1, <1>5, <1>6 DEF IInv, NoOversell, StockConserved, ReservedMatches, ReservedSum
<1>10. NotOverDelivered' /\ NotOverInvoiced'
  BY <1>1, <1>6 DEF IInv, NotOverDelivered, NotOverInvoiced
<1> QED
  BY <1>4, <1>7, <1>8, <1>9, <1>10 DEF IInv

-----------------------------------------------------------------------------
(* A delivery that is cancelled.                                           *)

\* What the delivered quantities are recalculated to.
LEMMA DeliveredTypes ==
  ASSUME TypeOK, NEW of, RecalcDelivered(of)
  PROVE  line' \in [Line -> [delivered : Nat, invoiced : Nat]]
<1>1. \A l \in Line : line[l] \in [delivered : Nat, invoiced : Nat] /\ ConfirmedQty(l) \in Nat
  BY SumTypes DEF TypeOK, ConfirmedQty
<1>2. \A l \in Line : [line[l] EXCEPT !.delivered = ConfirmedQty(l)]
                         \in [delivered : Nat, invoiced : Nat]
  BY <1>1
<1> QED
  BY <1>2 DEF RecalcDelivered, TypeOK

\* A cancelled note delivers nothing and gives back what it had issued; no
\* confirmation is open on its parent.
LEMMA CancelDnIInv == ASSUME IInv, NEW d \in Dn, CancelDn(d) PROVE IInv'
<1> DEFINE new == [dn[d] EXCEPT !.status = "CANCELLED"]
           bin == dn[d].bin
           q == dn[d].qty
           back == [level[bin] EXCEPT !.on_hand = level[bin].on_hand + q]
<1>1. /\ dn[d] # None /\ dn[d].status = "CONFIRMED" /\ Confirming(dn[d].of) = {}
      /\ level' = [level EXCEPT ![bin] = back]
      /\ dn' = [dn EXCEPT ![d] = new]
      /\ RecalcDelivered(dn[d].of)
      /\ UNCHANGED <<ops, lpo, bill, rsv, due, txn>>
  BY DEF CancelDn
<1>2. dn[d] \in DnRow /\ bin \in Bin /\ q \in Nat
  BY <1>1, RowTypes DEF IInv, DnRow
<1>3. new \in DnRow /\ new.status = "CANCELLED" /\ new.of = dn[d].of
  BY <1>2 DEF DnRow, DnStatus
<1>4. level[bin] \in [on_hand : Nat, reserved : Nat]
  BY <1>2 DEF IInv, TypeOK
<1>5. /\ back \in [on_hand : Nat, reserved : Nat]
      /\ back.reserved = level[bin].reserved /\ back.on_hand = level[bin].on_hand + q
  BY <1>2, <1>4
<1> HIDE DEF new, back
<1>6. TypeOK
  BY DEF IInv
<1>7. /\ dn' \in [Dn -> DnRow \cup {None}] /\ dn'[d] = new
      /\ \A c \in Dn \ {d} : dn'[c] = dn[c]
      /\ \A of, l : ConfirmedOf(of, l)' = ConfirmedOf(of, l) - Delivers(dn[d], of, l)
                                            + Delivers(new, of, l)
      /\ \A b : Delivered(b)' = Delivered(b) - Issues(dn[d], b) + Issues(new, b)
  BY ONLY <1>1, <1>3, <1>6, d \in Dn, NoteAfter
<1>8. \A of, l, b : Delivers(new, of, l) = 0 /\ Issues(new, b) = 0
  BY <1>3 DEF Delivers, Issues, Confirmed
<1>9. \A of, l : ConfirmedOf(of, l) \in Nat /\ Delivers(dn[d], of, l) \in Nat
  <2>1. \A of, l : ConfirmedOf(of, l) \in Nat
    BY <1>6, SumTypes
  <2>2. \A of, l : Delivers(dn[d], of, l) \in Nat
    BY <1>2, DeliversType
  <2> QED
    BY <2>1, <2>2
<1>10. \A of, l : /\ ConfirmedOf(of, l)' <= ConfirmedOf(of, l)
                  /\ of # dn[d].of => ConfirmedOf(of, l)' = ConfirmedOf(of, l)
  <2> SUFFICES ASSUME NEW of, NEW l
               PROVE  /\ ConfirmedOf(of, l)' <= ConfirmedOf(of, l)
                      /\ of # dn[d].of => ConfirmedOf(of, l)' = ConfirmedOf(of, l)
    OBVIOUS
  <2>1. ConfirmedOf(of, l)' = ConfirmedOf(of, l) - Delivers(dn[d], of, l) + 0
    BY <1>7, <1>8
  <2>2. of # dn[d].of => Delivers(dn[d], of, l) = 0
    BY DEF Delivers
  <2> QED
    BY ONLY <1>9, <2>1, <2>2
<1>11. line' \in [Line -> [delivered : Nat, invoiced : Nat]]
  BY <1>1, <1>6, DeliveredTypes
<1>12. TypeOK'
  BY <1>1, <1>5, <1>7, <1>11 DEF IInv, TypeOK
<1>13. /\ \A b : ReservedIn(b)' = ReservedIn(b)
       /\ \A l : OriginalQty(l)' = OriginalQty(l)
       /\ \A of, l : ParentQty(of, l)' = ParentQty(of, l)
  BY <1>1, SumsRead DEF ParentQty
<1>14. RowsFit'
  BY <1>1, <1>3, <1>7 DEF IInv, RowsFit
<1>15. RequestsFit' /\ Apart'
  <2>1. Onward
    BY <1>1 DEF Onward
  <2>2. ASSUME NEW u \in Txn, NEW e \in Request, e = txn[u], txn'[u] = e, Fits(e)
        PROVE  Undisturbed(e)
    <3>1. e.op = "reserve" => rsv'[e.res] = None
      BY <1>1, <2>2 DEF Fits
    <3>2. ASSUME e.op = "confirm" PROVE e.dn \in Dn \ {d} /\ dn[e.dn].of # dn[d].of
      <4>1. e.dn \in Dn /\ dn[e.dn].status = "DRAFT"
        BY <2>2, <3>2, RequestTypes DEF Fits, ConfirmFits
      <4> QED
        BY <1>1, <2>2, <3>2, <4>1 DEF Confirming, Is, Open
    <3> QED
      BY <1>1, <1>7, <1>10, <1>13, <3>1, <3>2 DEF Undisturbed
  <2> QED
    BY <1>1, <1>12, <2>1, <2>2, RequestsStay
<1>16. \A b \in Bin : /\ level'[b].reserved = level[b].reserved
                      /\ level'[b].on_hand = level[b].on_hand + Issues(dn[d], b)
                      /\ level[b].on_hand \in Nat /\ level[b].reserved \in Nat
                      /\ Issues(dn[d], b) \in Nat
  <2> SUFFICES ASSUME NEW b \in Bin
               PROVE  /\ level'[b].reserved = level[b].reserved
                      /\ level'[b].on_hand = level[b].on_hand + Issues(dn[d], b)
                      /\ level[b].on_hand \in Nat /\ level[b].reserved \in Nat
                      /\ Issues(dn[d], b) \in Nat
    OBVIOUS
  <2>1. level[b] \in [on_hand : Nat, reserved : Nat] /\ level' [b] = IF b = bin THEN back ELSE level[b]
    BY <1>1 DEF IInv, TypeOK
  <2>2. Issues(dn[d], b) = IF b = bin THEN q ELSE 0
    BY <1>1 DEF Issues, Confirmed
  <2> QED
    BY <1>2, <1>5, <2>1, <2>2
<1>17. NoOversell' /\ ReservedMatches'
  <2>1. StockCovered => StockCovered'
    BY <1>16 DEF StockCovered
  <2>2. ReservedSum => ReservedSum'
    BY <1>13, <1>16 DEF ReservedSum
  <2> QED
    BY <1>1, <2>1, <2>2 DEF IInv, NoOversell, ReservedMatches
<1>18. StockConserved'
  <2> SUFFICES ASSUME "adjust" \notin ops, NEW b \in Bin
               PROVE  level'[b].on_hand + Delivered(b)' = Stock[b]
    BY <1>1 DEF StockConserved
  <2>1. level[b].on_hand + Delivered(b) = Stock[b]
    BY DEF IInv, StockConserved
  <2>2. Delivered(b) \in Nat
    BY <1>6, SumTypes
  <2>3. Delivered(b)' = Delivered(b) - Issues(dn[d], b) + 0
    BY <1>7, <1>8
  <2> QED
    BY <1>16, <2>1, <2>2, <2>3
<1>19. NotOverDelivered' /\ NotOverInvoiced'
  <2>1. NotOverInvoiced'
    BY <1>13 DEF IInv, NotOverInvoiced
  <2>2. ASSUME NEW l \in Line, NEW of \in {None} \cup {b \in Bill : bill[b] # None}
        PROVE  ConfirmedOf(of, l)' <= ParentQty(of, l)
    <3>1. ConfirmedOf(of, l) <= ParentQty(of, l)
      BY DEF IInv, NotOverDelivered
    <3>2. ParentQty(of, l) \in Nat
      <4>1. of # None => of \in Bill /\ bill[of] \in BillRow
        BY <1>6, RowTypes
      <4> QED
        BY <4>1 DEF ParentQty, BillRow
    <3>3. ConfirmedOf(of, l)' = ConfirmedOf(of, l) - Delivers(dn[d], of, l) + 0
      BY <1>7, <1>8
    <3> QED
      BY <1>9, <3>1, <3>2, <3>3
  <2> QED
    BY <1>1, <1>13, <2>1, <2>2 DEF NotOverDelivered
<1> QED
  BY <1>12, <1>14, <1>15, <1>17, <1>18, <1>19 DEF IInv

-----------------------------------------------------------------------------
(* Steps that write reservations.                                          *)

\* A new reservation holds what is available.
LEMMA ReserveDoneIInv == ASSUME IInv, NEW t \in Txn, ReserveDone(t) PROVE IInv'
<1> DEFINE e == txn[t]
           total == SumFunction(e.qty)
           items == [l \in Line |-> IF e.qty[l] = 0 THEN None
                                    ELSE [qty |-> e.qty[l], used |-> 0, status |-> "ACTIVE"]]
           new == [status |-> "ACTIVE", bin |-> e.bin, items |-> items]
           more == [level[e.bin] EXCEPT !.reserved = level[e.bin].reserved + total]
<1>1. /\ Open(t) /\ e.op = "reserve" /\ total <= Available(e.bin)
      /\ level' = [level EXCEPT ![e.bin] = more]
      /\ rsv' = [rsv EXCEPT ![e.res] = new]
      /\ txn' = [txn EXCEPT ![t] = None]
      /\ UNCHANGED <<ops, lpo, line, bill, dn, due>>
  BY DEF ReserveDone, Is
<1>2. e \in Request /\ e.res \in Res /\ e.bin \in Bin /\ e.qty \in [Line -> Nat]
  BY <1>1, RowTypes, RequestTypes DEF IInv
<1>3. rsv[e.res] = None
  BY <1>1 DEF IInv, RequestsFit, Fits
<1>4. total \in Nat
  BY <1>2, SumNat
<1>5. items \in Items /\ \A l \in Line : Sound(items[l]) /\ Left(items[l]) = e.qty[l]
  <2>1. ASSUME NEW l \in Line, e.qty[l] # 0
        PROVE  items[l] \in ItemRow /\ items[l].used = 0 /\ items[l].qty = e.qty[l]
               /\ items[l].status = "ACTIVE"
    BY <1>2, <2>1 DEF ItemRow, ReservationStatus
  <2>2. ASSUME NEW l \in Line, e.qty[l] = 0 PROVE items[l] = None
    BY <2>2
  <2>3. items \in Items
    BY <2>1 DEF Items
  <2> HIDE DEF items
  <2>4. ASSUME NEW l \in Line PROVE Sound(items[l]) /\ Left(items[l]) = e.qty[l]
    <3>1. CASE e.qty[l] = 0
      BY <2>2, <3>1 DEF Sound, Left, Active
    <3>2. CASE e.qty[l] # 0
      BY <1>2, <2>1, <3>2 DEF Sound, Left, Active, Remaining
    <3> QED
      BY <3>1, <3>2
  <2> QED
    BY <2>3, <2>4
<1> HIDE DEF items
<1>6. new \in ResRow /\ new.items = items /\ new.bin = e.bin /\ new # None
  BY <1>2, <1>5 DEF ResRow, ReservationStatus
<1>7. ActiveLeft(items) = total
  <2> DEFINE f == [l \in Line |-> Left(items[l])]
  <2>1. DOMAIN f = Line /\ \A l \in Line : f[l] = e.qty[l]
    BY <1>5
  <2>2. DOMAIN e.qty = Line
    BY <1>2
  <2> HIDE DEF f
  <2>3. SumFunction(f) = SumFunction(e.qty)
    BY <2>1, <2>2, SumSame
  <2> QED
    BY <2>3 DEF f, ActiveLeft
<1>8. level[e.bin] \in [on_hand : Nat, reserved : Nat]
  BY <1>2 DEF IInv, TypeOK
<1>9. /\ more \in [on_hand : Nat, reserved : Nat] /\ more.on_hand = level[e.bin].on_hand
      /\ more.reserved = level[e.bin].reserved + total
  BY <1>4, <1>8
<1> HIDE DEF new, more, total
<1>10. /\ rsv \in [Res -> ResRow \cup {None}] /\ rsv' \in [Res -> ResRow \cup {None}]
       /\ rsv'[e.res] = new /\ \A r \in Res \ {e.res} : rsv'[r] = rsv[r]
  BY <1>1, <1>2, <1>6 DEF IInv, TypeOK
<1>11. /\ txn' \in [Txn -> Request \cup {None}]
       /\ level' \in [Bin -> [on_hand : Nat, reserved : Nat]]
       /\ due' \subseteq {r \in Res : rsv'[r] # None}
  BY <1>1, <1>2, <1>6, <1>9, <1>10 DEF IInv, TypeOK
<1>12. TypeOK'
  BY <1>1, <1>10, <1>11 DEF IInv, TypeOK
<1>13. RowsFit'
  BY <1>1, <1>5, <1>6, <1>10 DEF IInv, RowsFit
<1>14. /\ \A of, l : ConfirmedOf(of, l)' = ConfirmedOf(of, l)
       /\ \A b : Delivered(b)' = Delivered(b)
       /\ \A l : OriginalQty(l)' = OriginalQty(l)
       /\ \A of, l : ParentQty(of, l)' = ParentQty(of, l)
  BY <1>1, SumsRead DEF ParentQty
<1>15. RequestsFit' /\ Apart'
  <2>1. Onward
    BY <1>3, <1>10 DEF Onward
  <2>2. txn'[t] = None /\ \A u \in Txn \ {t} : txn'[u] = txn[u]
    BY <1>1 DEF IInv, TypeOK
  <2>3. ASSUME NEW u \in Txn, NEW f \in Request, f = txn[u], txn'[u] = f, Fits(f)
        PROVE  Undisturbed(f)
    <3>1. u # t
      BY <2>2, <2>3
    <3>2. ASSUME f.op = "reserve" PROVE rsv'[f.res] = None
      <4>1. f.res \in Res /\ rsv[f.res] = None
        BY <2>3, <3>2, RequestTypes DEF Fits
      <4>2. f.res # e.res
        BY <1>1, <2>3, <3>1, <3>2 DEF IInv, Apart, Separate, Open
      <4> QED
        BY <1>10, <4>1, <4>2
    <3>3. ASSUME f.op = "release", NEW r \in Res, f.items[r] # None
          PROVE  rsv'[r].items = rsv[r].items
      <4>1. rsv[r] # None
        BY <2>3, <3>3 DEF Fits, ReleaseFits
      <4> QED
        BY <1>3, <1>10, <4>1
    <3> QED
      BY <1>1, <1>14, <3>2, <3>3 DEF Undisturbed
  <2>4. \A u \in Txn : txn'[u] = None \/ txn'[u] = txn[u]
    BY <2>2
  <2> QED
    BY <1>1, <1>12, <2>1, <2>3, <2>4, RequestsStay
<1>16. \A b \in Bin : /\ level'[b].on_hand = level[b].on_hand
                      /\ level'[b].reserved = level[b].reserved + IF b = e.bin THEN total ELSE 0
                      /\ level[b].reserved \in Nat /\ level[b].on_hand \in Nat
  <2>1. \A b \in Bin : level'[b] = IF b = e.bin THEN more ELSE level[b]
    BY <1>1 DEF IInv, TypeOK
  <2>2. \A b \in Bin : level[b] \in [on_hand : Nat, reserved : Nat]
    BY DEF IInv, TypeOK
  <2> QED
    BY <1>9, <2>1, <2>2
<1>17. StockConserved'
  BY <1>1, <1>14, <1>16 DEF IInv, StockConserved
<1>18. NoOversell'
  <2>1. ASSUME StockCovered, NEW b \in Bin PROVE level'[b].reserved <= level'[b].on_hand
    <3>1. level[b].reserved <= level[b].on_hand
      BY <2>1 DEF StockCovered
    <3>2. total <= level[e.bin].on_hand - level[e.bin].reserved
      BY <1>1 DEF Available
    <3> QED
      BY <1>2, <1>4, <1>16, <3>1, <3>2
  <2> QED
    BY <1>1, <2>1 DEF IInv, NoOversell, StockCovered
<1>19. ReservedMatches'
  <2>1. ASSUME ReservedSum, NEW b \in Bin PROVE level'[b].reserved = ReservedIn(b)'
    <3>1. level[b].reserved = ReservedIn(b)
      BY <2>1 DEF ReservedSum
    <3>2. \A r \in Res : rsv[r] # None => \A l \in Line : Sound(rsv[r].items[l])
      BY DEF IInv, RowsFit
    <3>3. \A r \in Res : rsv'[r] # None => \A l \in Line : Sound(rsv'[r].items[l])
      BY <1>13 DEF RowsFit
    <3>4. HeldIn(rsv', b) = HeldIn(rsv, b) - HoldsIn(rsv[e.res], b) + HoldsIn(rsv'[e.res], b)
      BY ONLY <1>2, <1>10, <3>2, <3>3, HeldSums
    <3>5. HoldsIn(rsv[e.res], b) = 0 /\ HoldsIn(rsv'[e.res], b) = IF b = e.bin THEN total ELSE 0
      BY <1>3, <1>6, <1>7, <1>10 DEF HoldsIn
    <3>6. ReservedIn(b) = HeldIn(rsv, b) /\ ReservedIn(b)' = HeldIn(rsv', b)
      BY SumsRead
    <3> QED
      BY <1>4, <1>16, <3>1, <3>4, <3>5, <3>6
  <2> QED
    BY <1>1, <2>1 DEF IInv, ReservedMatches, ReservedSum
<1>20. NotOverDelivered' /\ NotOverInvoiced'
  BY <1>1, <1>14 DEF IInv, NotOverDelivered, NotOverInvoiced
<1> QED
  BY <1>12, <1>13, <1>15, <1>17, <1>18, <1>19, <1>20 DEF IInv

\* The lines of a reservation after it has been released, by the lines read.
LEMMA EndedLines ==
  ASSUME NEW items \in Items, NEW read \in Items, NEW to \in {"CANCELLED", "EXPIRED"},
         \A l \in Line : Sound(items[l]) /\ (read[l] # None => items[l] # None)
  PROVE  /\ Ended(items, read, to) \in Items
         /\ \A l \in Line : /\ Sound(Ended(items, read, to)[l])
                            /\ items[l] # None => /\ Ended(items, read, to)[l] # None
                                                  /\ Ended(items, read, to)[l].qty = items[l].qty
         /\ read = items => ActiveLeft(Ended(items, read, to)) = 0
<1> DEFINE after == Ended(items, read, to)
<1>1. ASSUME NEW l \in Line
      PROVE  /\ after[l] = IF Active(read[l]) THEN [items[l] EXCEPT !.status = to] ELSE items[l]
             /\ items[l] \in ItemRow \cup {None}
             /\ Active(read[l]) => items[l] \in ItemRow
  BY DEF Ended, Items, Active
<1>2. DOMAIN after = Line
  BY DEF Ended
<1>3. after \in [Line -> ItemRow \cup {None}]
  <2>1. ASSUME NEW l \in Line PROVE after[l] \in ItemRow \cup {None}
    <3>1. Active(read[l]) => [items[l] EXCEPT !.status = to] \in ItemRow
      BY <1>1 DEF ItemRow, ReservationStatus
    <3> QED
      BY <1>1, <3>1
  <2>2. after = [l \in Line |-> after[l]]
    BY DEF Ended
  <2> HIDE DEF after
  <2> QED
    BY <2>1, <2>2
<1> HIDE DEF after
<1>4. ASSUME NEW l \in Line
      PROVE  Sound(after[l]) /\ (items[l] # None => after[l] # None /\ after[l].qty = items[l].qty)
  <2>1. CASE Active(read[l])
    <3>1. after[l] = [items[l] EXCEPT !.status = to] /\ items[l] \in ItemRow
      BY <1>1, <2>1
    <3>2. after[l].qty = items[l].qty /\ after[l].used = items[l].used /\ after[l] \in ItemRow
      BY <3>1 DEF ItemRow, ReservationStatus
    <3>3. after[l] # None /\ items[l] # None
      BY <3>1, <3>2
    <3> QED
      BY <3>2, <3>3 DEF Sound
  <2>2. CASE ~Active(read[l])
    BY <1>1, <2>2
  <2> QED
    BY <2>1, <2>2
<1>5. ASSUME read = items PROVE ActiveLeft(after) = 0
  <2>1. ASSUME NEW l \in Line PROVE Left(after[l]) = 0
    <3>1. CASE Active(items[l])
      <4>1. after[l] = [items[l] EXCEPT !.status = to] /\ items[l] \in ItemRow
        BY <1>1, <1>5, <3>1
      <4>2. after[l].status = to
        BY <4>1 DEF ItemRow
      <4> QED
        BY <4>2 DEF Left, Active
    <3>2. CASE ~Active(items[l])
      BY <1>1, <1>5, <3>2 DEF Left
    <3> QED
      BY <3>1, <3>2
  <2> DEFINE f == [l \in Line |-> Left(after[l])]
  <2>2. DOMAIN f = Line /\ \A l \in Line : f[l] = 0
    BY <2>1
  <2> HIDE DEF f
  <2>3. SumFunction(f) = 0
    BY <2>2, SumZero
  <2> QED
    BY <2>3 DEF f, ActiveLeft
<1> QED
  BY <1>3, <1>4, <1>5 DEF after, Items

\* A release takes off what the lines it has read had left.
LEMMA ReleaseDoneIInv == ASSUME IInv, NEW t \in Txn, ReleaseDone(t) PROVE IInv'
<1> DEFINE e == txn[t]
           F(b) == [r \in Res |-> IF e.items[r] # None /\ rsv[r].bin = b
                                  THEN ActiveLeft(e.items[r]) ELSE 0]
<1>1. /\ Open(t) /\ e.op = "release" /\ Release(e)
      /\ level' = [b \in Bin |-> [level[b] EXCEPT
                                    !.reserved = Monus(level[b].reserved, Released(e, b))]]
      /\ txn' = [txn EXCEPT ![t] = None]
      /\ UNCHANGED <<ops, lpo, line, bill, dn, due>>
  BY DEF ReleaseDone, Is
<1>2. e \in Request /\ e.to \in {"CANCELLED", "EXPIRED"} /\ e.items \in [Res -> Items \cup {None}]
  BY <1>1, RowTypes, RequestTypes DEF IInv
<1>3. ReleaseFits(e)
  BY <1>1 DEF IInv, RequestsFit, Fits
<1>4. ASSUME NEW r \in Res, e.items[r] # None
      PROVE  /\ rsv[r] \in ResRow /\ rsv[r] # None /\ e.items[r] \in Items /\ rsv[r].items \in Items
             /\ \A l \in Line : /\ Sound(rsv[r].items[l]) /\ Sound(e.items[r][l])
                                /\ e.items[r][l] # None => rsv[r].items[l] # None
             /\ "deliver" \notin ops => e.items[r] = rsv[r].items
  <2>1. /\ rsv[r] # None
        /\ \A l \in Line : /\ Sound(e.items[r][l])
                           /\ e.items[r][l] # None => rsv[r].items[l] # None
        /\ "deliver" \notin ops => e.items[r] = rsv[r].items
    BY <1>3, <1>4 DEF ReleaseFits
  <2>2. rsv[r] \in ResRow /\ e.items[r] \in Items
    BY <1>2, <1>4, <2>1, RowTypes DEF IInv
  <2>3. rsv[r].items \in Items /\ \A l \in Line : Sound(rsv[r].items[l])
    BY <2>1, <2>2 DEF IInv, RowsFit, ResRow
  <2> QED
    BY <2>1, <2>2, <2>3
<1>5. ASSUME NEW r \in Res, e.items[r] # None
      PROVE  /\ rsv'[r] \in ResRow /\ rsv'[r] # None /\ rsv'[r].bin = rsv[r].bin
             /\ \A l \in Line : /\ Sound(rsv'[r].items[l])
                                /\ rsv[r].items[l] # None =>
                                     /\ rsv'[r].items[l] # None
                                     /\ rsv'[r].items[l].qty = rsv[r].items[l].qty
             /\ "deliver" \notin ops => ActiveLeft(rsv'[r].items) = 0
  <2> DEFINE after == Ended(rsv[r].items, e.items[r], e.to)
  <2>1. rsv'[r] = [rsv[r] EXCEPT !.status = e.to, !.items = after]
    BY <1>1, <1>5 DEF Release
  <2>2. /\ rsv[r] \in ResRow /\ e.items[r] \in Items /\ rsv[r].items \in Items
        /\ \A l \in Line : /\ Sound(rsv[r].items[l])
                           /\ e.items[r][l] # None => rsv[r].items[l] # None
        /\ "deliver" \notin ops => e.items[r] = rsv[r].items
    BY <1>4, <1>5
  <2>3. /\ after \in Items
        /\ \A l \in Line : /\ Sound(after[l])
                           /\ rsv[r].items[l] # None => /\ after[l] # None
                                                        /\ after[l].qty = rsv[r].items[l].qty
        /\ e.items[r] = rsv[r].items => ActiveLeft(after) = 0
    BY ONLY <1>2, <2>2, EndedLines
  <2> HIDE DEF after
  <2>4. /\ rsv'[r] \in ResRow /\ rsv'[r].bin = rsv[r].bin /\ rsv'[r].items = after
    BY <1>2, <2>1, <2>2, <2>3 DEF ResRow, ReservationStatus
  <2> QED
    BY <2>2, <2>3, <2>4
<1>6. \A r \in Res : e.items[r] = None => rsv'[r] = rsv[r]
  BY <1>1 DEF Release
<1>7. rsv' \in [Res -> ResRow \cup {None}]
  <2>1. ASSUME NEW r \in Res PROVE rsv'[r] \in ResRow \cup {None}
    BY <1>5, <1>6 DEF IInv, TypeOK
  <2>2. rsv' = [r \in Res |-> rsv'[r]]
    BY <1>1 DEF Release
  <2> QED
    BY <2>1, <2>2
<1>8. ASSUME NEW b
      PROVE  /\ DOMAIN F(b) = Res /\ SumFunction(F(b)) = Released(e, b)
             /\ \A r \in Res : /\ F(b)[r] \in Nat
                               /\ F(b)[r] = IF e.items[r] # None /\ rsv[r].bin = b
                                            THEN ActiveLeft(e.items[r]) ELSE 0
  <2>1. \A r \in Res : e.items[r] # None => ActiveLeft(e.items[r]) \in Nat
    BY <1>4, ActiveLeftType
  <2> QED
    BY <2>1 DEF Released
<1> HIDE DEF F
<1>9. \A b : Released(e, b) \in Nat
  BY <1>8, SumNat
<1>10. \A b \in Bin : /\ level[b] \in [on_hand : Nat, reserved : Nat]
                      /\ level'[b] \in [on_hand : Nat, reserved : Nat]
                      /\ level'[b].on_hand = level[b].on_hand
                      /\ level'[b].reserved = Monus(level[b].reserved, Released(e, b))
                      /\ level'[b].reserved <= level[b].reserved
  <2> SUFFICES ASSUME NEW b \in Bin
               PROVE  /\ level[b] \in [on_hand : Nat, reserved : Nat]
                      /\ level'[b] \in [on_hand : Nat, reserved : Nat]
                      /\ level'[b].on_hand = level[b].on_hand
                      /\ level'[b].reserved = Monus(level[b].reserved, Released(e, b))
                      /\ level'[b].reserved <= level[b].reserved
    OBVIOUS
  <2> DEFINE left == Monus(level[b].reserved, Released(e, b))
  <2>1. level[b] \in [on_hand : Nat, reserved : Nat] /\ Released(e, b) \in Nat
    BY <1>9 DEF IInv, TypeOK
  <2>2. left \in Nat /\ left <= level[b].reserved
    BY <2>1 DEF Monus
  <2>3. level'[b] = [level[b] EXCEPT !.reserved = left]
    BY <1>1
  <2> HIDE DEF left
  <2>4. level'[b] \in [on_hand : Nat, reserved : Nat] /\ level'[b].on_hand = level[b].on_hand
        /\ level'[b].reserved = left
    BY <2>1, <2>2, <2>3
  <2> QED
    BY <2>1, <2>2, <2>4 DEF left
<1>11. level' \in [Bin -> [on_hand : Nat, reserved : Nat]]
  <2>1. level' = [b \in Bin |-> level'[b]]
    BY <1>1
  <2> QED
    BY <1>10, <2>1
<1>12. txn'[t] = None /\ (\A u \in Txn \ {t} : txn'[u] = txn[u]) /\ txn' \in [Txn -> Request \cup {None}]
  BY <1>1 DEF IInv, TypeOK
<1>13. Onward
  BY <1>5, <1>6 DEF Onward
<1>14. due' \subseteq {r \in Res : rsv'[r] # None}
  BY <1>1, <1>13 DEF IInv, TypeOK, Onward
<1>15. TypeOK'
  BY <1>1, <1>7, <1>11, <1>12, <1>14 DEF IInv, TypeOK
<1>16. RowsFit'
  BY <1>1, <1>5, <1>6 DEF IInv, RowsFit
<1>17. /\ \A of, l : ConfirmedOf(of, l)' = ConfirmedOf(of, l)
       /\ \A b : Delivered(b)' = Delivered(b)
       /\ \A l : OriginalQty(l)' = OriginalQty(l)
       /\ \A of, l : ParentQty(of, l)' = ParentQty(of, l)
  BY <1>1, SumsRead DEF ParentQty
<1>18. RequestsFit' /\ Apart'
  <2>1. ASSUME NEW u \in Txn, NEW f \in Request, f = txn[u], txn'[u] = f, Fits(f)
        PROVE  Undisturbed(f)
    <3>1. u # t
      BY <1>12, <2>1
    <3>2. ASSUME f.op = "reserve" PROVE rsv'[f.res] = None
      <4>1. f.res \in Res /\ rsv[f.res] = None
        BY <2>1, <3>2, RequestTypes DEF Fits
      <4> QED
        BY <1>4, <1>6, <4>1
    <3>3. ASSUME f.op = "release", NEW r \in Res, f.items[r] # None
          PROVE  rsv'[r].items = rsv[r].items
      <4>1. e.items[r] = None
        BY <1>1, <2>1, <3>1, <3>3 DEF IInv, Apart, Separate, Open
      <4> QED
        BY <1>6, <4>1
    <3> QED
      BY <1>1, <1>17, <3>2, <3>3 DEF Undisturbed
  <2>2. \A u \in Txn : txn'[u] = None \/ txn'[u] = txn[u]
    BY <1>12
  <2> QED
    BY <1>1, <1>13, <1>15, <2>1, <2>2, RequestsStay
<1>19. StockConserved'
  BY <1>1, <1>10, <1>17 DEF IInv, StockConserved
<1>20. NoOversell'
  <2>1. ASSUME StockCovered, NEW b \in Bin PROVE level'[b].reserved <= level'[b].on_hand
    <3>1. level[b].reserved <= level[b].on_hand
      BY <2>1 DEF StockCovered
    <3> QED
      BY <1>10, <3>1
  <2> QED
    BY <1>1, <2>1 DEF IInv, NoOversell, StockCovered
<1>21. ReservedMatches'
  <2>1. ASSUME "deliver" \notin ops, ReservedSum, NEW b \in Bin
        PROVE  level'[b].reserved = ReservedIn(b)'
    <3> DEFINE old == [r \in Res |-> HoldsIn(rsv[r], b)]
               new == [r \in Res |-> HoldsIn(rsv'[r], b)]
    <3>1. ASSUME NEW r \in Res
          PROVE  old[r] = new[r] + F(b)[r] /\ new[r] \in Nat /\ F(b)[r] \in Nat
      <4>1. HoldsIn(rsv'[r], b) \in Nat
        <5>1. rsv'[r] \in ResRow \cup {None}
              /\ (rsv'[r] # None => \A l \in Line : Sound(rsv'[r].items[l]))
          BY <1>7, <1>16 DEF RowsFit
        <5> QED
          BY <5>1, HoldsType
      <4>2. CASE e.items[r] = None
        BY <1>6, <1>8, <4>1, <4>2
      <4>3. CASE e.items[r] # None
        <5>1. /\ rsv[r] # None /\ e.items[r] = rsv[r].items /\ rsv'[r] # None
              /\ rsv'[r].bin = rsv[r].bin /\ ActiveLeft(rsv'[r].items) = 0
          BY <1>4, <1>5, <2>1, <4>3
        <5>2. HoldsIn(rsv'[r], b) = 0 /\ HoldsIn(rsv[r], b) = F(b)[r]
          BY <1>8, <4>3, <5>1 DEF HoldsIn
        <5> QED
          BY <1>8, <5>2
      <4> QED
        BY <4>2, <4>3
    <3>2. DOMAIN old = Res /\ DOMAIN new = Res
          /\ ReservedIn(b) = SumFunction(old) /\ ReservedIn(b)' = SumFunction(new)
      BY DEF ReservedIn
    <3> HIDE DEF old, new
    <3>3. DOMAIN F(b) = Res /\ SumFunction(F(b)) = Released(e, b)
      BY <1>8
    <3>4. \A r \in Res : new[r] \in Int /\ F(b)[r] \in Int /\ old[r] = new[r] + F(b)[r]
      BY <3>1
    <3>5. SumFunction(old) = SumFunction(new) + SumFunction(F(b))
      <4>1. IsFiniteSet(Res)
        OBVIOUS
      <4> QED
        BY ONLY <3>2, <3>3, <3>4, <4>1, SumPlus
    <3>6. SumFunction(new) \in Nat
      BY <3>1, <3>2, SumNat
    <3>7. level[b].reserved = ReservedIn(b)
      BY <2>1 DEF ReservedSum
    <3>8. level'[b].reserved = Monus(level[b].reserved, Released(e, b))
      BY <1>10
    <3> QED
      BY <1>9, <3>2, <3>3, <3>5, <3>6, <3>7, <3>8 DEF Monus
  <2> QED
    BY <1>1, <2>1 DEF IInv, ReservedMatches, ReservedSum
<1>22. NotOverDelivered' /\ NotOverInvoiced'
  BY <1>1, <1>17 DEF IInv, NotOverDelivered, NotOverInvoiced
<1> QED
  BY <1>15, <1>16, <1>18, <1>19, <1>20, <1>21, <1>22 DEF IInv

-----------------------------------------------------------------------------
(* A delivery that is confirmed.                                           *)

\* What a dispatch takes from a reservation is there.
LEMMA TakeTypes ==
  ASSUME NEW items \in [Res -> ItemRow \cup {None}], \A r \in Res : Sound(items[r]), NEW q \in Nat
  PROVE  /\ \A r \in Res : /\ Take(items, q, r) \in Nat
                           /\ items[r] = None => Take(items, q, r) = 0
                           /\ items[r] # None => Take(items, q, r) <= Remaining(items[r])
         /\ \A b : Taken(items, q, b) \in Nat
         /\ (\A r \in Res : items[r] = None) => \A b : Taken(items, q, b) = 0
<1>1. \A r \in Res : items[r] # None => Remaining(items[r]) \in Nat
  BY LeftType
<1>2. ASSUME NEW r \in Res
      PROVE  /\ Take(items, q, r) \in Nat
             /\ items[r] = None => Take(items, q, r) = 0
             /\ items[r] # None => Take(items, q, r) <= Remaining(items[r])
  <2> DEFINE f == [s \in Res |-> IF s < r /\ items[s] # None THEN Remaining(items[s]) ELSE 0]
  <2>1. DOMAIN f = Res /\ \A s \in Res : f[s] \in Nat
    BY <1>1
  <2>2. Take(items, q, r) = IF items[r] = None THEN 0
                            ELSE Least(Remaining(items[r]), Monus(q, SumFunction(f)))
    BY DEF Take
  <2> HIDE DEF f
  <2>3. SumFunction(f) \in Nat
    BY <2>1, SumNat
  <2>4. Monus(q, SumFunction(f)) \in Nat
    BY <2>3 DEF Monus
  <2> QED
    BY <1>1, <2>2, <2>4 DEF Least
<1>3. ASSUME NEW b
      PROVE  /\ Taken(items, q, b) \in Nat
             /\ (\A r \in Res : items[r] = None) => Taken(items, q, b) = 0
  <2> DEFINE g == [r \in Res |-> IF items[r] # None /\ rsv[r].bin = b THEN Take(items, q, r) ELSE 0]
  <2>1. DOMAIN g = Res /\ \A r \in Res : g[r] \in Nat /\ (items[r] = None => g[r] = 0)
    BY <1>2
  <2>2. Taken(items, q, b) = SumFunction(g)
    BY DEF Taken
  <2> HIDE DEF g
  <2>3. SumFunction(g) \in Nat
    BY <2>1, SumNat
  <2>4. (\A r \in Res : items[r] = None) => SumFunction(g) = 0
    BY <2>1, SumZero
  <2> QED
    BY <2>2, <2>3, <2>4
<1> QED
  BY <1>2, <1>3

\* A confirmation issues what its parent has left, from stock that is there,
\* and consumes what it has read of the reservations.
LEMMA ConfirmDoneIInv == ASSUME IInv, NEW t \in Txn, ConfirmDone(t) PROVE IInv'
<1> DEFINE e == txn[t]
           d == e.dn
           items == e.items
           q == dn[d].qty
           l == dn[d].line
           bin == dn[d].bin
           of == dn[d].of
           full == DispatchedHeaders(items, q, l)
           new == [dn[d] EXCEPT !.status = "CONFIRMED"]
<1>1. /\ Open(t) /\ e.op = "confirm"
      /\ level[bin].on_hand - Monus(level[bin].reserved, Taken(items, q, bin)) >= q
      /\ level' = [b \in Bin |->
                    [on_hand |-> level[b].on_hand - IF b = bin THEN q ELSE 0,
                     reserved |-> Monus(level[b].reserved, Taken(items, q, b))]]
      /\ rsv' = [r \in Res |->
                  IF Take(items, q, r) = 0 THEN rsv[r]
                  ELSE [rsv[r] EXCEPT
                          !.status = IF r \in full THEN "DISPATCHED" ELSE rsv[r].status,
                          !.items = [rsv[r].items EXCEPT ![l] = Consumed(items, q, r, l)]]]
      /\ dn' = [dn EXCEPT ![d] = new]
      /\ RecalcDelivered(of)
      /\ txn' = [txn EXCEPT ![t] = None]
      /\ UNCHANGED <<ops, lpo, bill, due>>
  BY DEF ConfirmDone, Dispatch, Is
<1>2. e \in Request /\ d \in Dn /\ items \in [Res -> ItemRow \cup {None}]
  BY <1>1, RowTypes, RequestTypes DEF IInv
<1>3. ConfirmFits(e)
  BY <1>1 DEF IInv, RequestsFit, Fits
<1>4. dn[d] # None /\ dn[d].status = "DRAFT" /\ ConfirmedOf(of, l) + q <= ParentQty(of, l)
  BY <1>3 DEF ConfirmFits
<1>5. dn[d] \in DnRow /\ q \in Nat /\ l \in Line /\ bin \in Bin /\ of \in Bill \cup {None}
  BY <1>2, <1>4, RowTypes DEF IInv, DnRow
<1>6. ASSUME NEW r \in Res, items[r] # None
      PROVE  /\ of = None /\ rsv[r] # None /\ rsv[r].items[l] # None
             /\ Sound(items[r]) /\ items[r].qty = rsv[r].items[l].qty
  BY <1>3, <1>6 DEF ConfirmFits
<1>7. new \in DnRow /\ new # None /\ new.status = "CONFIRMED" /\ new.of = of
      /\ new.qty = q /\ new.line = l /\ new.bin = bin
  BY <1>5 DEF DnRow, DnStatus
<1>8. TypeOK
  BY DEF IInv
<1>9. /\ \A r \in Res : /\ Take(items, q, r) \in Nat
                        /\ items[r] = None => Take(items, q, r) = 0
                        /\ items[r] # None => Take(items, q, r) <= Remaining(items[r])
      /\ \A b : Taken(items, q, b) \in Nat
      /\ (\A r \in Res : items[r] = None) => \A b : Taken(items, q, b) = 0
  <2>1. \A r \in Res : Sound(items[r])
    BY <1>6 DEF Sound
  <2> QED
    BY ONLY <1>2, <1>5, <2>1, TakeTypes
<1> HIDE DEF new, full, e
<1>10. ASSUME NEW r \in Res, Take(items, q, r) # 0
       PROVE  /\ rsv[r] \in ResRow /\ rsv[r] # None /\ rsv'[r] \in ResRow
              /\ rsv'[r].bin = rsv[r].bin
              /\ \A m \in Line : /\ Sound(rsv'[r].items[m])
                                 /\ rsv[r].items[m] # None =>
                                      /\ rsv'[r].items[m] # None
                                      /\ rsv'[r].items[m].qty = rsv[r].items[m].qty
  <2> DEFINE used == items[r].used + Take(items, q, r)
             item == rsv[r].items[l]
             after == Consumed(items, q, r, l)
             lines == [rsv[r].items EXCEPT ![l] = after]
             header == IF r \in full THEN "DISPATCHED" ELSE rsv[r].status
  <2>1. items[r] # None
    BY <1>9, <1>10
  <2>2. /\ rsv[r] # None /\ item # None /\ Sound(items[r]) /\ items[r].qty = item.qty
        /\ items[r] \in ItemRow
    BY <1>2, <1>6, <2>1
  <2>3. rsv[r] \in ResRow
    BY <1>8, <2>2, RowTypes
  <2>4. /\ rsv[r].items \in [Line -> ItemRow \cup {None}] /\ item \in ItemRow
        /\ rsv[r].status \in ReservationStatus
    BY <1>5, <2>2, <2>3 DEF ResRow, Items
  <2>5. used \in Nat /\ used <= item.qty
    <3>1. items[r].used \in Nat /\ items[r].qty \in Nat
      BY <2>2 DEF ItemRow
    <3>2. Take(items, q, r) \in Nat /\ Take(items, q, r) <= items[r].qty - items[r].used
      BY <1>9, <2>1 DEF Remaining
    <3>3. items[r].qty = item.qty
      BY <2>2
    <3> QED
      BY ONLY <3>1, <3>2, <3>3
  <2>6. after = [item EXCEPT !.used = used,
                             !.status = IF used >= item.qty THEN "DISPATCHED" ELSE item.status]
    BY DEF Consumed
  <2>7. (IF used >= item.qty THEN "DISPATCHED" ELSE item.status) \in ReservationStatus
    BY <2>4 DEF ItemRow, ReservationStatus
  <2>8. after \in ItemRow /\ after # None /\ after.qty = item.qty /\ Sound(after)
    <3> DEFINE status == IF used >= item.qty THEN "DISPATCHED" ELSE item.status
    <3>1. after = [item EXCEPT !.used = used, !.status = status] /\ status \in ReservationStatus
      BY <2>6, <2>7
    <3>2. item \in ItemRow
      BY <2>4
    <3> HIDE DEF used, item, after, status
    <3>3. after \in ItemRow /\ after.qty = item.qty /\ after.used = used
      BY ONLY <2>5, <3>1, <3>2 DEF ItemRow
    <3> QED
      BY <2>5, <3>3 DEF Sound
  <2> HIDE DEF used, after
  <2>9. /\ lines \in Items /\ lines[l] = after
        /\ \A m \in Line \ {l} : lines[m] = rsv[r].items[m]
    BY <1>5, <2>4, <2>8 DEF Items
  <2>10. header \in ReservationStatus
    BY <2>4 DEF ReservationStatus
  <2>11. rsv'[r] = [rsv[r] EXCEPT !.status = header, !.items = lines]
    BY <1>1, <1>10 DEF after
  <2> HIDE DEF lines, header
  <2>12. rsv'[r] \in ResRow /\ rsv'[r].bin = rsv[r].bin /\ rsv'[r].items = lines
    BY <2>3, <2>9, <2>10, <2>11 DEF ResRow
  <2>13. \A m \in Line : Sound(rsv[r].items[m])
    BY <2>2 DEF IInv, RowsFit
  <2> QED
    BY <2>2, <2>3, <2>8, <2>9, <2>12, <2>13
<1>11. \A r \in Res : Take(items, q, r) = 0 => rsv'[r] = rsv[r]
  BY <1>1
<1>12. rsv' \in [Res -> ResRow \cup {None}]
  <2>1. ASSUME NEW r \in Res PROVE rsv'[r] \in ResRow \cup {None}
    BY <1>10, <1>11 DEF IInv, TypeOK
  <2>2. rsv' = [r \in Res |-> rsv'[r]]
    BY <1>1
  <2> QED
    BY <2>1, <2>2
<1>13. RowsFit'
  <2>1. ASSUME NEW r \in Res, rsv'[r] # None PROVE \A m \in Line : Sound(rsv'[r].items[m])
    BY <1>10, <1>11, <2>1 DEF IInv, RowsFit
  <2>2. ASSUME NEW c \in Dn, dn'[c] # None
        PROVE  /\ dn'[c].of = None => "deliver" \in ops
               /\ dn'[c].of # None => bill[dn'[c].of] # None
    <3>1. dn[c] # None /\ dn'[c].of = dn[c].of
      BY <1>1, <1>2, <1>4, <1>7, <2>2 DEF IInv, TypeOK
    <3> QED
      BY <3>1 DEF IInv, RowsFit
  <2>3. \A b \in Bill : bill'[b] # None /\ bill'[b].status = "CANCELLED" => bill'[b].voided
    BY <1>1 DEF IInv, RowsFit
  <2> QED
    BY <1>1, <2>1, <2>2, <2>3 DEF RowsFit
<1>14. "deliver" \notin ops => /\ \A r \in Res : items[r] = None
                               /\ rsv' = rsv
                               /\ \A b : Taken(items, q, b) = 0
  <2> SUFFICES ASSUME "deliver" \notin ops
               PROVE  /\ \A r \in Res : items[r] = None
                      /\ rsv' = rsv
                      /\ \A b : Taken(items, q, b) = 0
    OBVIOUS
  <2>1. of # None
    BY <1>2, <1>4 DEF IInv, RowsFit
  <2>2. \A r \in Res : items[r] = None
    BY <1>6, <2>1
  <2>3. \A r \in Res : rsv'[r] = rsv[r]
    BY <1>9, <1>11, <2>2
  <2>4. rsv' = rsv
    <3>1. rsv \in [Res -> ResRow \cup {None}]
      BY <1>8 DEF TypeOK
    <3> QED
      BY ONLY <1>12, <2>3, <3>1
  <2> QED
    BY <1>9, <2>2, <2>4
<1>15. /\ dn' \in [Dn -> DnRow \cup {None}] /\ dn'[d] = new
       /\ \A c \in Dn \ {d} : dn'[c] = dn[c]
       /\ \A p, m : ConfirmedOf(p, m)' = ConfirmedOf(p, m) - Delivers(dn[d], p, m)
                                           + Delivers(new, p, m)
       /\ \A b : Delivered(b)' = Delivered(b) - Issues(dn[d], b) + Issues(new, b)
  <2>1. dn' = [dn EXCEPT ![d] = new]
    BY <1>1
  <2>2. d \in Dn /\ new \in DnRow \cup {None}
    BY <1>2, <1>7
  <2> HIDE DEF d
  <2> QED
    BY ONLY <1>8, <2>1, <2>2, NoteAfter
<1>16. /\ \A p, m : /\ Delivers(dn[d], p, m) = 0
                    /\ Delivers(new, p, m) = IF p = of /\ m = l THEN q ELSE 0
       /\ \A b : Issues(dn[d], b) = 0 /\ Issues(new, b) = IF b = bin THEN q ELSE 0
  BY <1>4, <1>7 DEF Delivers, Issues, Confirmed
<1>17. /\ \A p, m : /\ ConfirmedOf(p, m) \in Nat
                    /\ ConfirmedOf(p, m)' = ConfirmedOf(p, m) + IF p = of /\ m = l THEN q ELSE 0
       /\ \A b : /\ Delivered(b) \in Nat
                 /\ Delivered(b)' = Delivered(b) + IF b = bin THEN q ELSE 0
  <2>1. (\A p, m : ConfirmedOf(p, m) \in Nat) /\ \A b : Delivered(b) \in Nat
    BY <1>8, SumTypes
  <2>2. ASSUME NEW p, NEW m
        PROVE  ConfirmedOf(p, m)' = ConfirmedOf(p, m) + IF p = of /\ m = l THEN q ELSE 0
    <3>1. ConfirmedOf(p, m)' = ConfirmedOf(p, m) - 0 + IF p = of /\ m = l THEN q ELSE 0
      BY ONLY <1>15, <1>16
    <3>2. ConfirmedOf(p, m) \in Nat
      BY <2>1
    <3> QED
      BY ONLY <1>5, <3>1, <3>2
  <2>3. ASSUME NEW b
        PROVE  Delivered(b)' = Delivered(b) + IF b = bin THEN q ELSE 0
    <3>1. Delivered(b)' = Delivered(b) - 0 + IF b = bin THEN q ELSE 0
      BY ONLY <1>15, <1>16
    <3>2. Delivered(b) \in Nat
      BY <2>1
    <3> QED
      BY ONLY <1>5, <3>1, <3>2
  <2> QED
    BY <2>1, <2>2, <2>3
<1>18. \A b \in Bin : /\ level[b] \in [on_hand : Nat, reserved : Nat]
                      /\ level'[b] \in [on_hand : Nat, reserved : Nat]
                      /\ level'[b].on_hand = level[b].on_hand - IF b = bin THEN q ELSE 0
                      /\ level'[b].reserved = Monus(level[b].reserved, Taken(items, q, b))
                      /\ level'[b].reserved <= level[b].reserved
                      /\ b = bin => level'[b].reserved <= level'[b].on_hand
  <2> SUFFICES ASSUME NEW b \in Bin
               PROVE  /\ level[b] \in [on_hand : Nat, reserved : Nat]
                      /\ level'[b] \in [on_hand : Nat, reserved : Nat]
                      /\ level'[b].on_hand = level[b].on_hand - IF b = bin THEN q ELSE 0
                      /\ level'[b].reserved = Monus(level[b].reserved, Taken(items, q, b))
                      /\ level'[b].reserved <= level[b].reserved
                      /\ b = bin => level'[b].reserved <= level'[b].on_hand
    OBVIOUS
  <2> DEFINE left == Monus(level[b].reserved, Taken(items, q, b))
             hand == level[b].on_hand - IF b = bin THEN q ELSE 0
  <2>1. level[b] \in [on_hand : Nat, reserved : Nat] /\ Taken(items, q, b) \in Nat
    BY <1>9 DEF IInv, TypeOK
  <2>2. left \in Nat /\ left <= level[b].reserved
    BY <2>1 DEF Monus
  <2>3. level'[b] = [on_hand |-> hand, reserved |-> left]
    BY <1>1
  <2>4. b = bin => level[b].on_hand - left >= q
    BY <1>1
  <2> HIDE DEF left
  <2>5. hand \in Nat /\ (b = bin => left <= hand)
    BY <1>5, <2>1, <2>2, <2>4
  <2> HIDE DEF hand
  <2>6. /\ level'[b] \in [on_hand : Nat, reserved : Nat]
        /\ level'[b].on_hand = hand /\ level'[b].reserved = left
    BY <2>2, <2>3, <2>5
  <2> QED
    BY <2>1, <2>2, <2>5, <2>6 DEF left, hand
<1>19. level' \in [Bin -> [on_hand : Nat, reserved : Nat]]
  <2>1. level' = [b \in Bin |-> level'[b]]
    BY <1>1
  <2> QED
    BY <1>18, <2>1
<1>20. txn'[t] = None /\ (\A u \in Txn \ {t} : txn'[u] = txn[u]) /\ txn' \in [Txn -> Request \cup {None}]
  BY <1>1 DEF IInv, TypeOK
<1>21. Onward
  BY <1>10, <1>11 DEF Onward
<1>22. due' \subseteq {r \in Res : rsv'[r] # None}
  BY <1>1, <1>21 DEF IInv, TypeOK, Onward
<1>23. line' \in [Line -> [delivered : Nat, invoiced : Nat]]
  BY <1>1, <1>8, DeliveredTypes
<1>24. TypeOK'
  BY <1>1, <1>12, <1>15, <1>19, <1>20, <1>22, <1>23 DEF IInv, TypeOK
<1>25. /\ \A m : OriginalQty(m)' = OriginalQty(m)
       /\ \A p, m : ParentQty(p, m)' = ParentQty(p, m)
  BY <1>1, SumsRead DEF ParentQty
<1>26. RequestsFit' /\ Apart'
  <2>1. ASSUME NEW u \in Txn, NEW f \in Request, f = txn[u], txn'[u] = f, Fits(f)
        PROVE  Undisturbed(f)
    <3>1. u # t
      BY <1>20, <2>1
    <3>2. ASSUME f.op = "reserve" PROVE rsv'[f.res] = None
      <4>1. f.res \in Res /\ rsv[f.res] = None
        BY <2>1, <3>2, RequestTypes DEF Fits
      <4>2. items[f.res] = None
        BY <1>6, <4>1
      <4> QED
        BY <1>9, <1>11, <4>1, <4>2
    <3>3. ASSUME f.op = "confirm"
          PROVE  /\ dn'[f.dn] = dn[f.dn]
                 /\ \A p, m : p = dn[f.dn].of => ConfirmedOf(p, m)' = ConfirmedOf(p, m)
      <4>1. f.dn \in Dn
        BY <3>3, RequestTypes
      <4>2. dn[f.dn].of # of
        <5>1. Open(t) /\ Open(u)
          BY <1>1, <2>1 DEF Open
        <5>2. Separate(txn[t], txn[u])
          BY <3>1, <5>1 DEF IInv, Apart
        <5>3. Separate(e, f)
          BY <2>1, <5>2 DEF e
        <5> QED
          BY <1>1, <3>3, <5>3 DEF Separate
      <4>3. f.dn # d
        BY <4>2
      <4> QED
        BY <1>15, <1>17, <4>1, <4>2, <4>3
    <3> QED
      BY <1>14, <1>25, <3>2, <3>3 DEF Undisturbed
  <2>2. \A u \in Txn : txn'[u] = None \/ txn'[u] = txn[u]
    BY <1>20
  <2> QED
    BY <1>1, <1>21, <1>24, <2>1, <2>2, RequestsStay
<1>27. NoOversell'
  <2>1. ASSUME StockCovered, NEW b \in Bin PROVE level'[b].reserved <= level'[b].on_hand
    <3>1. level[b].reserved <= level[b].on_hand
      BY <2>1 DEF StockCovered
    <3> QED
      BY <1>18, <3>1
  <2> QED
    BY <1>1, <2>1 DEF IInv, NoOversell, StockCovered
<1>28. StockConserved'
  <2> SUFFICES ASSUME "adjust" \notin ops, NEW b \in Bin
               PROVE  level'[b].on_hand + Delivered(b)' = Stock[b]
    BY <1>1 DEF StockConserved
  <2>1. level[b].on_hand + Delivered(b) = Stock[b]
    BY DEF IInv, StockConserved
  <2> QED
    BY <1>5, <1>17, <1>18, <2>1
<1>29. ReservedMatches'
  <2>1. ASSUME "deliver" \notin ops, ReservedSum, NEW b \in Bin
        PROVE  level'[b].reserved = ReservedIn(b)'
    <3>1. level[b].reserved = ReservedIn(b)
      BY <2>1 DEF ReservedSum
    <3>2. ReservedIn(b)' = ReservedIn(b)
      BY <1>14, <2>1, SumsRead
    <3>3. Taken(items, q, b) = 0 /\ level[b].reserved \in Nat
      BY <1>14, <1>18, <2>1
    <3>4. Monus(level[b].reserved, 0) = level[b].reserved
      BY <3>3 DEF Monus
    <3> QED
      BY <1>18, <3>1, <3>2, <3>3, <3>4
  <2> QED
    BY <1>1, <2>1 DEF IInv, ReservedMatches, ReservedSum
<1>30. NotOverDelivered' /\ NotOverInvoiced'
  <2>1. NotOverInvoiced'
    BY <1>25 DEF IInv, NotOverInvoiced
  <2>2. ASSUME NEW m \in Line, NEW p \in {None} \cup {b \in Bill : bill[b] # None}
        PROVE  ConfirmedOf(p, m)' <= ParentQty(p, m)
    <3>1. CASE p = of /\ m = l
      BY <1>4, <1>17, <3>1
    <3>2. CASE ~(p = of /\ m = l)
      <4>1. ConfirmedOf(p, m) <= ParentQty(p, m)
        BY DEF IInv, NotOverDelivered
      <4>2. ConfirmedOf(p, m)' = ConfirmedOf(p, m) + 0
        BY <1>17, <3>2
      <4> QED
        BY <1>17, <4>1, <4>2
    <3> QED
      BY <3>1, <3>2
  <2> QED
    BY <1>1, <1>25, <2>1, <2>2 DEF NotOverDelivered
<1> QED
  BY <1>13, <1>24, <1>26, <1>27, <1>28, <1>29, <1>30 DEF IInv

-----------------------------------------------------------------------------
(* The theorems.                                                           *)

\* A step that changes nothing.
LEMMA StutterIInv == ASSUME IInv, UNCHANGED vars PROVE IInv'
<1>1. UNCHANGED <<ops, lpo, line, bill, dn, rsv, due, level, txn>>
  BY DEF vars
<1>2. TypeOK'
  BY <1>1 DEF IInv, TypeOK
<1>3. Apart'
  BY <1>1 DEF IInv, Apart, Open, Separate
<1> QED
  BY <1>1, <1>2, <1>3, RestIInv

\* Every step preserves the invariant.
LEMMA StepIInv == IInv /\ [Next]_vars => IInv'
<1> SUFFICES ASSUME IInv, [Next]_vars PROVE IInv'
  OBVIOUS
<1>1. CASE ReceiveLpo \/ CancelLpo \/ \E r \in Res : PassExpiry(r)
  BY <1>1, LpoIInv
<1>2. CASE \E b \in Bill, q \in [Line -> Qty \cup {0}] : CreateBill(b, q)
  BY <1>2, CreateBillIInv
<1>3. CASE \E b \in Bill, status \in {"CANCELLED", "DELETED"} : EndBill(b, status)
  BY <1>3, EndBillIInv
<1>4. ASSUME NEW t \in Txn, ReservationRequests(t) PROVE IInv'
  <2>1. CASE \E r \in Res : CancelRead(t, r)
    BY <2>1, CancelReadIInv
  <2>2. CASE \E r \in Res, b \in Bin, q \in [Line -> Qty \cup {0}] : ReserveRead(t, r, b, q)
    BY <2>2, ReserveReadIInv
  <2>3. CASE ExpireRead(t)
    BY <2>3, ExpireReadIInv
  <2>4. CASE ReserveDone(t)
    BY <2>4, ReserveDoneIInv
  <2>5. CASE ReleaseDone(t)
    BY <2>5, ReleaseDoneIInv
  <2> QED
    BY <1>4, <2>1, <2>2, <2>3, <2>4, <2>5 DEF ReservationRequests
<1>5. CASE \E t \in Txn : ReservationRequests(t) \/ ConfirmDone(t) \/ Abort(t)
  BY <1>4, <1>5, ConfirmDoneIInv, AbortIInv
<1>9. CASE \E t \in Txn : FlipDone(t) \/ \E late \in SUBSET Bill : FlipRead(t, late)
  BY <1>9, FlipReadIInv, FlipDoneIInv
<1>6. ASSUME NEW d \in Dn, NoteRequests(d) PROVE IInv'
  <2>1. CASE \E l \in Line, b \in Bin, q \in Qty, of \in Bill \cup {None} : CreateDn(d, of, l, b, q)
    BY <2>1, CreateDnIInv
  <2>2. CASE \E l \in Line, b \in Bin, q \in Qty : EditDn(d, l, b, q)
    BY <2>2, EditDnIInv
  <2>3. CASE DeleteDn(d)
    BY <2>3, DeleteDnIInv
  <2>4. CASE CancelDn(d)
    BY <2>4, CancelDnIInv
  <2>5. CASE \E t \in Txn : ConfirmRead(t, d)
    BY <2>5, ConfirmReadIInv
  <2> QED
    BY <1>6, <2>1, <2>2, <2>3, <2>4, <2>5 DEF NoteRequests
<1>7. CASE \E b \in Bin, q \in Qty : Adjust(b, q) \/ Adjust(b, -q)
  <2>1. \A q \in Qty : q \in Int /\ -q \in Int
    OBVIOUS
  <2> QED
    BY <1>7, <2>1, AdjustIInv
<1>8. CASE UNCHANGED vars
  BY <1>8, StutterIInv
<1> QED
  BY <1>1, <1>2, <1>3, <1>5, <1>6, <1>7, <1>8, <1>9 DEF Next

\* The inductive invariant holds in every reachable state.
THEOREM Invariance == Spec => []IInv
BY InitIInv, StepIInv, PTL DEF Spec

\* Whatever reservations, releases and deliveries overlap, no bin promises
\* more than it has, if nobody adjusts stock: the availability that
\* create_reservation and confirm check is read behind the lock of the level.
THEOREM StockIsNotOversold == Spec => []NoOversell
<1>1. IInv => NoOversell
  BY DEF IInv
<1> QED
  BY <1>1, Invariance, PTL

\* Confirmed notes never deliver more than their LPO or invoice has of a line,
\* and invoices that were never voided never bill more than was ordered, since
\* each parent is locked from the check of what remains until the commit; a
\* flip can bring back only an invoice that was voided.
THEOREM DeliveriesStayWithinOrder == Spec => []WithinOrder
<1>1. IInv => WithinOrder
  BY DEF IInv, WithinOrder
<1> QED
  BY <1>1, Invariance, PTL

\* Without adjustments what is on hand and what confirmed notes have taken add
\* up to the opening stock: no confirmation or cancellation posts twice.
THEOREM StockIsConserved == Spec => []StockConserved
<1>1. IInv => StockConserved
  BY DEF IInv
<1> QED
  BY <1>1, Invariance, PTL

\* Where nothing is dispatched, the reserved quantity of a level is what ACTIVE
\* reservations have left in its bin, since releases lock the headers they read.
THEOREM ReservedIsHeld == Spec => []ReservedMatches
<1>1. IInv => ReservedMatches
  BY DEF IInv
<1> QED
  BY <1>1, Invariance, PTL

=============================================================================
