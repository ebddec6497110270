--------------------------- MODULE Receiving_proof ---------------------------
(***************************************************************************)
(* Proofs about Receiving: for any number of receipts, returns and         *)
(* requests, the ledger explains the stock whatever overlaps, and one      *)
(* request at a time the order line is the sum of its receipt lines, what  *)
(* was sent back is charged once, and no more is returned than received.   *)
(***************************************************************************)
EXTENDS Receiving, SumTheorems

\* The receipt line that a disposition has read.
ReadRow(e) == e.items[e.item]

\* A receipt line is of a receipt that is there; what is returned of one was
\* inspected, unless clients return goods that are not.
Returnable(qty) ==
    \A l \in Lines : qty[l] > 0 =>
        item[l[1]] # None /\ (item[l[1]].inspected \/ "early" \in Clients)
RowsFit ==
    /\ \A x \in Item : item[x] # None => grn[item[x].grn] # None
    /\ \A r \in Ret : ret[r] # None => Returnable(ret[r].qty)

\* Requests work on rows that are there, and an inspection splits up what it
\* has read as received.
RequestFits(t) ==
    /\ txn[t] # None /\ txn[t].op \in HeaderOps => grn[txn[t].grn] # None
    /\ txn[t] # None /\ txn[t].op \in ReturnOps =>
         ret[txn[t].ret] # None /\ Returnable(txn[t].qty)
    /\ txn[t] # None /\ txn[t].op = "dispose" =>
         /\ item[txn[t].item] # None
         /\ ReadRow(txn[t]) # None /\ grn[ReadRow(txn[t]).grn] # None
         /\ ReadRow(txn[t]).received
              = txn[t].split[1] + txn[t].split[2] + txn[t].split[3]

\* What the only open request has read is what there is.
Alone(t) ==
    workers = 1 /\ txn[t] # None =>
        /\ \A u \in Txn : txn[u] # None => u = t
        /\ txn[t].op \in ReturnOps => ret[txn[t].ret].status \in From[txn[t].op]
        /\ txn[t].op = "dispose" =>
             /\ item[txn[t].item] = ReadRow(txn[t]) /\ line = txn[t].line
             /\ item[txn[t].item].inspected => "again" \in Clients

IInv ==
    /\ TypeOK /\ RowsFit
    /\ \A t \in Txn : RequestFits(t) /\ Alone(t)
    /\ StockIsLedger /\ RollupsMatch /\ SentIsCharged /\ ReturnedWithinReceived

-----------------------------------------------------------------------------
(* Lemmas about the operators.                                             *)

LEMMA LinesFinite == IsFiniteSet(Lines)
<1>1. IsFiniteSet({"QUALITY_ISSUE", "DAMAGE"})
  <2>1. IsFiniteSet({"QUALITY_ISSUE"}) /\ IsFiniteSet({"DAMAGE"})
    BY FS_Singleton
  <2>2. {"QUALITY_ISSUE", "DAMAGE"} = {"QUALITY_ISSUE"} \cup {"DAMAGE"}
    OBVIOUS
  <2> QED
    BY <2>1, <2>2, FS_Union
<1> QED
  BY <1>1, RowsAssumption, FS_Product DEF Lines

\* What a line takes is at most what is left of the stock.
LEMMA TakenBound ==
  ASSUME NEW q \in Int, NEW a \in Int, NEW n \in Int
  PROVE  /\ Taken(q, a, n) \in Nat
         /\ Taken(q, a, n) > 0 => Taken(q, a, n) <= n
<1> DEFINE m == Min({q, a, n})
<1>1. m \in {q, a, n} /\ m <= n
  <2>1. \E y \in {q, a, n} : \A z \in {q, a, n} : y <= z
    OBVIOUS
  <2>2. \A z \in {q, a, n} : m <= z
    BY <2>1 DEF Min
  <2> QED
    BY <2>1, <2>2 DEF Min
<1>2. m \in Int
  BY <1>1
<1> HIDE DEF m
<1>3. Max({0, m}) \in {0, m} /\ Max({0, m}) >= 0
  <2>1. \E y \in {0, m} : \A z \in {0, m} : y >= z
    BY <1>2
  <2> QED
    BY <2>1 DEF Max
<1>4. Taken(q, a, n) = Max({0, m})
  BY DEF Taken, m
<1> QED
  BY ONLY <1>1, <1>2, <1>3, <1>4

\* Of some lines, one comes last.
LEMMA LastLine ==
  ASSUME NEW L \in SUBSET Lines, L # {}
  PROVE  \E l \in L : \A k \in L \ {l} : Position[k] < Position[l]
<1> DEFINE After(l) == {k \in L : Position[k] >= Position[l]}
           Q == {After(l) : l \in L}
<1>1. IsFiniteSet(L)
  BY LinesFinite, FS_Subset
<1>2. \A k, l \in L : /\ Position[k] \in Nat /\ Position[l] \in Nat
                      /\ Position[k] = Position[l] => k = l
  BY PositionAssumption
<1>3. PICK T \in Q : \A U \in Q : ~(U \subseteq T /\ U # T)
  <2>1. Q \in SUBSET SUBSET L /\ Q # {}
    OBVIOUS
  <2> HIDE DEF Q
  <2> QED
    BY <1>1, <2>1, SmallestSubset
<1>4. PICK l \in L : T = After(l)
  OBVIOUS
<1>5. ASSUME NEW k \in L \ {l} PROVE Position[k] < Position[l]
  <2> SUFFICES ASSUME Position[k] > Position[l] PROVE FALSE
    BY <1>2
  <2>1. After(k) \subseteq After(l)
    BY <1>2
  <2>2. l \in After(l) /\ l \notin After(k)
    BY <1>2
  <2> QED
    BY <1>3, <1>4, <2>1, <2>2
<1> QED
  BY <1>5

LEMMA OfType ==
  ASSUME NEW qty \in [Lines -> Nat], NEW x \in Item
  PROVE  /\ <<x, "QUALITY_ISSUE">> \in Lines /\ <<x, "DAMAGE">> \in Lines
         /\ Of(x, qty) \in Nat
<1>1. <<x, "QUALITY_ISSUE">> \in Lines /\ <<x, "DAMAGE">> \in Lines
  BY DEF Lines
<1>2. qty[<<x, "QUALITY_ISSUE">>] \in Nat /\ qty[<<x, "DAMAGE">>] \in Nat
  BY <1>1
<1> QED
  BY <1>1, <1>2 DEF Of

LEMMA ReturnedType ==
  ASSUME NEW row \in ReturnRow \cup {None}, NEW x \in Item
  PROVE  Returned(row, x) \in Nat
<1>1. CASE Counts(row)
  <2>1. row.qty \in [Lines -> Nat]
    BY <1>1 DEF Counts, ReturnRow
  <2> QED
    BY <1>1, <2>1, OfType DEF Returned
<1>2. CASE ~Counts(row)
  BY <1>2 DEF Returned
<1> QED
  BY <1>1, <1>2

LEMMA CumulativeType ==
  ASSUME ret \in [Ret -> ReturnRow \cup {None}], NEW x \in Item, NEW R \in SUBSET Ret
  PROVE  Cumulative(x, R) \in Nat
<1> DEFINE f == [r \in R |-> Returned(ret[r], x)]
<1>1. \A r \in R : f[r] \in Nat
  BY ReturnedType
<1>2. DOMAIN f = R /\ IsFiniteSet(R)
  BY RowsAssumption, FS_Subset
<1>3. Cumulative(x, R) = SumFunction(f)
  BY DEF Cumulative
<1> HIDE DEF f
<1> QED
  BY <1>1, <1>2, <1>3, SumNat

\* What is returned of a receipt line when one return changes.
LEMMA CumulativeAfter ==
  ASSUME ret \in [Ret -> ReturnRow \cup {None}], ret' \in [Ret -> ReturnRow \cup {None}],
         NEW r \in Ret, \A q \in Ret \ {r} : ret'[q] = ret[q], NEW x \in Item
  PROVE  /\ Cumulative(x, Ret) \in Int
         /\ Cumulative(x, Ret)' = Cumulative(x, Ret) - Returned(ret[r], x) + Returned(ret'[r], x)
<1> DEFINE f == [q \in Ret |-> Returned(ret[q], x)]
           g == [q \in Ret |-> Returned(ret'[q], x)]
<1>1. \A q \in Ret : f[q] \in Int /\ g[q] \in Int
  BY ReturnedType
<1>2. \A q \in Ret \ {r} : g[q] = f[q]
  OBVIOUS
<1>3. Cumulative(x, Ret) = SumFunction(f) /\ Cumulative(x, Ret)' = SumFunction(g)
  BY DEF Cumulative
<1>4. /\ DOMAIN f = Ret /\ DOMAIN g = Ret
      /\ f[r] = Returned(ret[r], x) /\ g[r] = Returned(ret'[r], x)
  OBVIOUS
<1> HIDE DEF f, g
<1> QED
  BY <1>1, <1>2, <1>3, <1>4, RowsAssumption, SumChanges

\* Nothing is returned of a receipt line that was not inspected, unless clients
\* return such goods.
LEMMA NothingReturned ==
  ASSUME TypeOK, RowsFit, "early" \notin Clients,
         NEW x \in Item, item[x] = None \/ ~item[x].inspected
  PROVE  /\ \A r \in Ret : Returned(ret[r], x) = 0
         /\ Cumulative(x, Ret) = 0
<1>1. ASSUME NEW r \in Ret PROVE Returned(ret[r], x) = 0
  <2>1. CASE ~Counts(ret[r])
    BY <2>1 DEF Returned
  <2>2. CASE Counts(ret[r])
    <3>1. ret[r] # None /\ ret[r].qty \in [Lines -> Nat]
      BY <2>2 DEF Counts, TypeOK, ReturnRow
    <3>2. <<x, "QUALITY_ISSUE">> \in Lines /\ <<x, "DAMAGE">> \in Lines
      BY <3>1, OfType
    <3>3. ASSUME NEW l \in Lines, l[1] = x PROVE ret[r].qty[l] = 0
      <4>1. ~(ret[r].qty[l] > 0)
        BY <3>1, <3>3 DEF RowsFit, Returnable
      <4> QED
        BY <3>1, <4>1
    <3>4. ret[r].qty[<<x, "QUALITY_ISSUE">>] = 0 /\ ret[r].qty[<<x, "DAMAGE">>] = 0
      BY <3>2, <3>3
    <3> QED
      BY <2>2, <3>4 DEF Returned, Of
  <2> QED
    BY <2>1, <2>2
<1>2. Cumulative(x, Ret) = 0
  <2> DEFINE f == [r \in Ret |-> Returned(ret[r], x)]
  <2>1. DOMAIN f = Ret /\ \A r \in Ret : f[r] = 0
    BY <1>1
  <2>2. Cumulative(x, Ret) = SumFunction(f)
    BY DEF Cumulative
  <2> HIDE DEF f
  <2> QED
    BY <2>1, <2>2, RowsAssumption, SumZero
<1> QED
  BY <1>1, <1>2

\* The rollups count a receipt line by what was inspected of it.
LEMMA InspectedType ==
  ASSUME NEW row \in ItemRow \cup {None}
  PROVE  /\ Inspected(row, row.received) \in Int
         /\ Inspected(row, row.accepted) \in Int
         /\ Inspected(row, row.damaged + row.rejected) \in Int
<1>1. CASE row = None
  BY <1>1 DEF Inspected
<1>2. CASE row # None
  <2>1. row \in ItemRow
    BY <1>2
  <2>2. /\ row.received \in Qty /\ row.accepted \in Nat
        /\ row.damaged \in Nat /\ row.rejected \in Nat
    BY <2>1 DEF ItemRow
  <2>3. row.received \in Nat
    BY ONLY <2>2, QtyAssumption
  <2>4. row.damaged + row.rejected \in Int /\ row.accepted \in Int
    BY ONLY <2>2
  <2> QED
    BY <2>3, <2>4 DEF Inspected
<1> QED
  BY <1>1, <1>2

\* The rollups when one receipt line changes.
ReceivedOf(x) == Inspected(item[x], item[x].received)
AcceptedOf(x) == Inspected(item[x], item[x].accepted)
TurnedDown(x) == Inspected(item[x], item[x].damaged + item[x].rejected)
LEMMA RollupsAfter ==
  ASSUME item \in [Item -> ItemRow \cup {None}], item' \in [Item -> ItemRow \cup {None}],
         workers' = workers, RollupsMatch,
         NEW x \in Item, \A y \in Item \ {x} : item'[y] = item[y],
         workers = 1 /\ "again" \notin Clients =>
             /\ line'.received = line.received - ReceivedOf(x) + ReceivedOf(x)'
             /\ line'.accepted = line.accepted - AcceptedOf(x) + AcceptedOf(x)'
             /\ line'.damaged_rejected = line.damaged_rejected - TurnedDown(x) + TurnedDown(x)'
  PROVE  RollupsMatch'
<1> SUFFICES ASSUME workers = 1 /\ "again" \notin Clients
             PROVE  /\ line'.received = SumFunction([y \in Item |-> ReceivedOf(y)'])
                    /\ line'.accepted = SumFunction([y \in Item |-> AcceptedOf(y)'])
                    /\ line'.damaged_rejected = SumFunction([y \in Item |-> TurnedDown(y)'])
  BY DEF RollupsMatch, ReceivedOf, AcceptedOf, TurnedDown
<1>1. /\ line.received = SumFunction([y \in Item |-> ReceivedOf(y)])
      /\ line.accepted = SumFunction([y \in Item |-> AcceptedOf(y)])
      /\ line.damaged_rejected = SumFunction([y \in Item |-> TurnedDown(y)])
  BY DEF RollupsMatch, ReceivedOf, AcceptedOf, TurnedDown
<1>2. \A y \in Item :
        /\ ReceivedOf(y) \in Int /\ AcceptedOf(y) \in Int /\ TurnedDown(y) \in Int
        /\ ReceivedOf(y)' \in Int /\ AcceptedOf(y)' \in Int /\ TurnedDown(y)' \in Int
  BY InspectedType DEF ReceivedOf, AcceptedOf, TurnedDown
<1>3. \A y \in Item \ {x} : /\ ReceivedOf(y)' = ReceivedOf(y)
                            /\ AcceptedOf(y)' = AcceptedOf(y)
                            /\ TurnedDown(y)' = TurnedDown(y)
  BY DEF ReceivedOf, AcceptedOf, TurnedDown
<1> DEFINE f1 == [y \in Item |-> ReceivedOf(y)]   g1 == [y \in Item |-> ReceivedOf(y)']
           f2 == [y \in Item |-> AcceptedOf(y)]   g2 == [y \in Item |-> AcceptedOf(y)']
           f3 == [y \in Item |-> TurnedDown(y)]   g3 == [y \in Item |-> TurnedDown(y)']
<1> HIDE DEF ReceivedOf, AcceptedOf, TurnedDown
<1>4. /\ DOMAIN f1 = Item /\ DOMAIN g1 = Item /\ \A y \in Item : f1[y] \in Int /\ g1[y] \in Int
      /\ \A y \in Item \ {x} : g1[y] = f1[y]
      /\ f1[x] = ReceivedOf(x) /\ g1[x] = ReceivedOf(x)'
  BY <1>2, <1>3
<1>5. /\ DOMAIN f2 = Item /\ DOMAIN g2 = Item /\ \A y \in Item : f2[y] \in Int /\ g2[y] \in Int
      /\ \A y \in Item \ {x} : g2[y] = f2[y]
      /\ f2[x] = AcceptedOf(x) /\ g2[x] = AcceptedOf(x)'
  BY <1>2, <1>3
<1>6. /\ DOMAIN f3 = Item /\ DOMAIN g3 = Item /\ \A y \in Item : f3[y] \in Int /\ g3[y] \in Int
      /\ \A y \in Item \ {x} : g3[y] = f3[y]
      /\ f3[x] = TurnedDown(x) /\ g3[x] = TurnedDown(x)'
  BY <1>2, <1>3
<1>7. /\ line.received = SumFunction(f1) /\ line.accepted = SumFunction(f2)
      /\ line.damaged_rejected = SumFunction(f3)
  BY <1>1
<1> HIDE DEF f1, g1, f2, g2, f3, g3
<1>8. SumFunction(g1) = SumFunction(f1) - f1[x] + g1[x]
  BY ONLY <1>4, x \in Item, RowsAssumption, SumChanges
<1>9. SumFunction(g2) = SumFunction(f2) - f2[x] + g2[x]
  BY ONLY <1>5, x \in Item, RowsAssumption, SumChanges
<1>10. SumFunction(g3) = SumFunction(f3) - f3[x] + g3[x]
  BY ONLY <1>6, x \in Item, RowsAssumption, SumChanges
<1>11. /\ line'.received = SumFunction(g1) /\ line'.accepted = SumFunction(g2)
       /\ line'.damaged_rejected = SumFunction(g3)
  BY <1>4, <1>5, <1>6, <1>7, <1>8, <1>9, <1>10
<1> QED
  BY <1>11 DEF g1, g2, g3

LEMMA AlreadyStockedType ==
  ASSUME ret \in [Ret -> ReturnRow \cup {None}], NEW x \in Item, NEW r
  PROVE  AlreadyStocked(x, r) \in Int
<1> DEFINE f == [q \in Ret \ {r} |-> IF Counts(ret[q]) THEN Of(x, ret[q].out) ELSE 0]
<1>1. ASSUME NEW q \in Ret \ {r} PROVE f[q] \in Int
  <2>1. CASE Counts(ret[q])
    <3>1. ret[q].out \in [Lines -> Nat]
      BY <2>1 DEF Counts, ReturnRow
    <3>2. Of(x, ret[q].out) \in Nat
      BY <3>1, OfType
    <3> QED
      BY <2>1, <3>2
  <2>2. CASE ~Counts(ret[q])
    BY <2>2
  <2> QED
    BY <2>1, <2>2
<1>2. DOMAIN f = Ret \ {r} /\ IsFiniteSet(Ret \ {r})
  BY RowsAssumption, FS_Subset
<1>3. AlreadyStocked(x, r) = SumFunction(f)
  BY DEF AlreadyStocked
<1> HIDE DEF f
<1> QED
  BY <1>1, <1>2, <1>3, SumType

\* What the lines of a return take together is in stock.
LEMMA StockOutBound ==
  ASSUME TypeOK, NEW r \in Ret, NEW qty \in [Lines -> Nat],
         NEW L \in SUBSET Lines, \A l \in L : item[l[1]] # None,
         NEW out \in [L -> 0..level.on_hand], StockOut(r, qty, out)
  PROVE  SumFunction(out) \in Nat /\ SumFunction(out) <= level.on_hand
<1> DEFINE free == level.on_hand - level.damaged
           before(l) == SumFunction([k \in {k \in L : Position[k] < Position[l]} |-> out[k]])
<1>1. /\ level.on_hand \in Nat /\ level.damaged \in Nat
      /\ ret \in [Ret -> ReturnRow \cup {None}]
  BY DEF TypeOK
<1>2. DOMAIN out = L /\ IsFiniteSet(L) /\ \A l \in L : out[l] \in Nat
  BY <1>1, LinesFinite, FS_Subset
<1>3. SumFunction(out) \in Nat
  BY <1>2, SumNat
<1>4. ASSUME NEW l \in L, out[l] > 0
      PROVE  before(l) \in Nat /\ out[l] <= free - before(l)
  <2> DEFINE P == {k \in L : Position[k] < Position[l]}
             b == [k \in P |-> out[k]]
  <2>1. before(l) \in Nat
    <3>1. IsFiniteSet(P) /\ DOMAIN b = P /\ \A k \in P : b[k] \in Nat
      BY <1>2, FS_Subset
    <3> HIDE DEF P, b
    <3>2. SumFunction(b) \in Nat
      BY <3>1, SumNat
    <3> QED
      BY <3>2 DEF P, b
  <2>2. l[1] \in Item /\ item[l[1]] \in ItemRow
    BY DEF Lines, TypeOK
  <2>3. item[l[1]].accepted \in Nat /\ AlreadyStocked(l[1], r) \in Int
    BY <1>1, <2>2, AlreadyStockedType DEF ItemRow
  <2>4. out[l] = Taken(qty[l], item[l[1]].accepted - AlreadyStocked(l[1], r), free - before(l))
    BY <1>2 DEF StockOut
  <2>5. free \in Int /\ qty[l] \in Int
    BY <1>1
  <2> HIDE DEF free, before
  <2>6. item[l[1]].accepted - AlreadyStocked(l[1], r) \in Int /\ free - before(l) \in Int
    BY ONLY <2>1, <2>3, <2>5
  <2> QED
    BY ONLY <1>4, <2>1, <2>4, <2>5, <2>6, TakenBound
<1> DEFINE L1 == {l \in L : out[l] > 0}
<1>5. CASE L1 = {}
  <2>1. \A l \in L : out[l] = 0
    BY <1>2, <1>5
  <2>2. SumFunction(out) = 0
    BY <1>2, <2>1, SumZero
  <2> QED
    BY <1>1, <2>2
<1>6. CASE L1 # {}
  <2>1. PICK l \in L1 : \A k \in L1 \ {l} : Position[k] < Position[l]
    BY <1>6, LastLine
  <2> DEFINE P == {k \in L : Position[k] < Position[l]}
             b == [k \in P |-> out[k]]
             g == [k \in L |-> IF k = l THEN 0 ELSE out[k]]
  <2>2. l \in L /\ out[l] > 0 /\ l \notin P /\ P \in SUBSET L
    BY PositionAssumption
  <2>3. SumFunction(out) = SumFunction(g) - g[l] + out[l] /\ SumFunction(g) \in Int
    <3>1. DOMAIN g = L /\ \A k \in L : g[k] \in Int /\ out[k] \in Int
      BY <1>2
    <3>2. \A k \in L \ {l} : out[k] = g[k]
      OBVIOUS
    <3> HIDE DEF g
    <3> QED
      BY <1>2, <2>2, <3>1, <3>2, SumChanges
  <2>4. SumFunction(g) = SumFunction(b)
    <3>1. DOMAIN b = P /\ DOMAIN g = L
      OBVIOUS
    <3>2. \A k \in P : b[k] \in Int /\ g[k] = b[k]
      BY <1>2, <2>2
    <3>3. \A k \in L \ P : g[k] = 0
      BY <1>2, <2>1
    <3> HIDE DEF P, b, g
    <3> QED
      BY <1>2, <2>2, <3>1, <3>2, <3>3, SumSupport
  <2>5. g[l] = 0 /\ before(l) = SumFunction(b)
    BY <2>2
  <2>6. before(l) \in Nat /\ out[l] <= free - before(l)
    BY <1>4, <2>2
  <2>7. out[l] \in Nat
    BY <1>2, <2>2
  <2> HIDE DEF g, b, before
  <2> QED
    BY <1>1, <1>3, <2>3, <2>4, <2>5, <2>6, <2>7
<1> QED
  BY <1>3, <1>5, <1>6

LEMMA OutcomeType ==
  ASSUME NEW items
  PROVE  Outcome(items) \in GRNStatus
BY DEF Outcome, GRNStatus

\* The kinds of requests, and what each has read.
LEMMA RequestType ==
  ASSUME NEW e \in Request
  PROVE  /\ e # None
         /\ e.op \in HeaderOps \/ e.op = "dispose" \/ e.op \in ReturnOps
         /\ e.op \in HeaderOps => e.op # "dispose" /\ e.op \notin ReturnOps /\ e.grn \in Grn
         /\ e.op \in ReturnOps =>
              e.op # "dispose" /\ e.ret \in Ret /\ e.qty \in [Lines -> Nat]
         /\ e.op = "dispose" =>
              /\ e.item \in Item /\ e.line \in LineRow
              /\ e.split[1] \in Nat /\ e.split[2] \in Nat /\ e.split[3] \in Nat
              /\ e.items \in [Item -> ItemRow \cup {None}]
<1>1. e # None
  BY NoneAssumption
<1>2. CASE e \in [op : HeaderOps, grn : Grn]
  BY <1>1, <1>2 DEF HeaderOps, ReturnOps
<1>3. CASE e \in [op : {"dispose"}, item : Item, split : Nat \X Nat \X Nat, line : LineRow,
                  items : [Item -> ItemRow \cup {None}]]
  BY <1>1, <1>3 DEF HeaderOps, ReturnOps
<1>4. CASE e \in [op : ReturnOps, ret : Ret, qty : [Lines -> Nat]]
  BY <1>1, <1>4 DEF HeaderOps, ReturnOps
<1> QED
  BY <1>2, <1>3, <1>4 DEF Request

\* With one worker, a request begins only when none is open.
LEMMA NoneOpen ==
  ASSUME Cardinality({u \in Txn : txn[u] # None}) < workers, workers = 1, NEW t \in Txn
  PROVE  txn[t] = None
<1> DEFINE Open == {u \in Txn : txn[u] # None}
<1>1. IsFiniteSet(Open)
  BY RowsAssumption, FS_Subset
<1>2. Cardinality(Open) \in Nat /\ Cardinality(Open) < 1
  BY <1>1, FS_CardinalityType
<1>3. Open = {}
  BY <1>1, <1>2, FS_EmptySet
<1> QED
  BY <1>3

-----------------------------------------------------------------------------
(* Requests.                                                               *)

\* Rows are not deleted, and nothing becomes uninspected.
Kept ==
    /\ \A g \in Grn : grn[g] # None => grn'[g] # None
    /\ \A r \in Ret : ret[r] # None => ret'[r] # None
    /\ \A x \in Item : item[x] # None =>
         /\ item'[x] # None /\ item'[x].grn = item[x].grn
         /\ item[x].inspected => item'[x].inspected

LEMMA KeptReturnable ==
  ASSUME Kept, NEW qty, Returnable(qty)
  PROVE  Returnable(qty)'
BY DEF Kept, Returnable, Lines

LEMMA KeptFits ==
  ASSUME TypeOK, Kept, NEW u \in Txn, RequestFits(u), txn'[u] = txn[u]
  PROVE  RequestFits(u)'
<1>1. CASE txn[u] = None
  BY <1>1 DEF RequestFits
<1>2. CASE txn[u] # None
  <2>1. txn[u] \in Request
    BY <1>2 DEF TypeOK
  <2>2. txn[u].op \in HeaderOps => grn'[txn[u].grn] # None
    BY <1>2, <2>1, RequestType DEF Kept, RequestFits
  <2>3. txn[u].op \in ReturnOps => ret'[txn[u].ret] # None /\ Returnable(txn[u].qty)'
    <3> SUFFICES ASSUME txn[u].op \in ReturnOps
                 PROVE  ret'[txn[u].ret] # None /\ Returnable(txn[u].qty)'
      OBVIOUS
    <3>1. ret[txn[u].ret] # None /\ Returnable(txn[u].qty) /\ txn[u].ret \in Ret
      BY <1>2, <2>1, RequestType DEF RequestFits
    <3>2. ASSUME NEW l \in Lines, txn'[u].qty[l] > 0
          PROVE  item'[l[1]] # None /\ (item'[l[1]].inspected \/ "early" \in Clients)
      <4>1. l[1] \in Item /\ txn[u].qty[l] > 0
        BY <3>2 DEF Lines
      <4> QED
        BY <3>1, <4>1 DEF Kept, Returnable
    <3>3. Returnable(txn[u].qty)'
      BY <3>2 DEF Returnable
    <3> QED
      BY <3>1, <3>3 DEF Kept
  <2>4. txn[u].op = "dispose" =>
          /\ item'[txn[u].item] # None
          /\ ReadRow(txn[u]) # None /\ grn'[ReadRow(txn[u]).grn] # None
          /\ ReadRow(txn[u]).received
               = txn[u].split[1] + txn[u].split[2] + txn[u].split[3]
    <3> SUFFICES ASSUME txn[u].op = "dispose"
                 PROVE  /\ item'[txn[u].item] # None
                        /\ grn'[ReadRow(txn[u]).grn] # None
      BY <1>2 DEF RequestFits
    <3>1. /\ txn[u].item \in Item /\ item[txn[u].item] # None
          /\ ReadRow(txn[u]) # None /\ grn[ReadRow(txn[u]).grn] # None
          /\ ReadRow(txn[u]) \in ItemRow \cup {None}
      BY <1>2, <2>1, RequestType DEF RequestFits, ReadRow
    <3>2. ReadRow(txn[u]).grn \in Grn
      BY <3>1 DEF ItemRow
    <3> QED
      BY <3>1, <3>2 DEF Kept
  <2> QED
    BY <2>2, <2>3, <2>4 DEF RequestFits, ReadRow
<1> QED
  BY <1>1, <1>2

LEMMA EndAfter ==
  ASSUME TypeOK, NEW t \in Txn, End(t)
  PROVE  /\ txn' \in [Txn -> Request \cup {None}] /\ workers' = workers
         /\ txn'[t] = None /\ \A u \in Txn \ {t} : txn'[u] = txn[u]
BY DEF End, TypeOK

\* When a request ends, the others fit the rows that are kept; with one worker
\* there are none.
LEMMA RequestsAfter ==
  ASSUME TypeOK, \A u \in Txn : RequestFits(u) /\ Alone(u),
         NEW t \in Txn, txn[t] # None, End(t), Kept
  PROVE  \A u \in Txn : RequestFits(u)' /\ Alone(u)'
<1> SUFFICES ASSUME NEW u \in Txn PROVE RequestFits(u)' /\ Alone(u)'
  OBVIOUS
<1>1. /\ txn'[t] = None /\ \A v \in Txn \ {t} : txn'[v] = txn[v]
      /\ workers' = workers
  BY EndAfter
<1>2. CASE txn'[u] = None
  BY <1>2 DEF RequestFits, Alone
<1>3. CASE txn'[u] # None
  <2>1. u # t /\ txn'[u] = txn[u] /\ txn[u] # None
    BY <1>1, <1>3
  <2>2. workers # 1
    BY <2>1 DEF Alone
  <2>3. Alone(u)'
    BY <1>1, <2>2 DEF Alone
  <2>4. RequestFits(u)'
    BY <2>1, KeptFits
  <2> QED
    BY <2>3, <2>4
<1> QED
  BY <1>2, <1>3

\* Requests stay open while a row is created.
LEMMA RequestsStay ==
  ASSUME TypeOK, \A u \in Txn : RequestFits(u) /\ Alone(u),
         UNCHANGED <<line, txn, workers>>, Kept,
         \A x \in Item : item[x] # None => item'[x] = item[x],
         \A r \in Ret : ret[r] # None => ret'[r] = ret[r]
  PROVE  \A u \in Txn : RequestFits(u)' /\ Alone(u)'
<1> SUFFICES ASSUME NEW u \in Txn PROVE RequestFits(u)' /\ Alone(u)'
  OBVIOUS
<1>1. RequestFits(u)'
  BY KeptFits
<1>2. Alone(u)'
  <2> SUFFICES ASSUME workers = 1, txn[u] # None
               PROVE  /\ \A v \in Txn : txn[v] # None => v = u
                      /\ txn[u].op \in ReturnOps => ret'[txn[u].ret].status \in From[txn[u].op]
                      /\ txn[u].op = "dispose" =>
                           /\ item'[txn[u].item] = ReadRow(txn[u]) /\ line = txn[u].line
                           /\ item'[txn[u].item].inspected => "again" \in Clients
    BY DEF Alone, ReadRow
  <2>1. txn[u] \in Request
    BY DEF TypeOK
  <2>2. txn[u].op \in ReturnOps => ret'[txn[u].ret] = ret[txn[u].ret]
    BY <2>1, RequestType DEF RequestFits
  <2>3. txn[u].op = "dispose" => item'[txn[u].item] = item[txn[u].item]
    BY <2>1, RequestType DEF RequestFits
  <2> QED
    BY <2>2, <2>3 DEF Alone
<1> QED
  BY <1>1, <1>2

\* A request that fails changes nothing.
LEMMA AbortIInv ==
  ASSUME IInv, NEW t \in Txn, Abort(t)
  PROVE  IInv'
<1> USE DEF IInv
<1>1. /\ UNCHANGED <<line, grn, item, level, moved, ret>> /\ End(t)
      /\ txn' \in [Txn -> Request \cup {None}] /\ workers' = workers
  BY EndAfter DEF Abort, rows
<1>2. TypeOK'
  BY <1>1 DEF TypeOK
<1>3. Kept
  BY <1>1 DEF Kept
<1>4. \A u \in Txn : RequestFits(u)' /\ Alone(u)'
  BY <1>1, <1>3, RequestsAfter DEF Abort
<1>5. RowsFit' /\ StockIsLedger' /\ SentIsCharged'
  BY <1>1 DEF RowsFit, Returnable, StockIsLedger, SentIsCharged
<1>6. RollupsMatch' /\ ReturnedWithinReceived'
  BY <1>1 DEF RollupsMatch, ReturnedWithinReceived, Cumulative
<1> QED
  BY <1>2, <1>4, <1>5, <1>6

\* A request begins with what the rows permit.
LEMMA BeginIInv ==
  ASSUME IInv, NEW t \in Txn, NEW e \in Request, Begin(t, e),
         e.op \in HeaderOps => grn[e.grn] # None,
         e.op \in ReturnOps => /\ ret[e.ret] # None /\ ret[e.ret].status \in From[e.op]
                               /\ Returnable(e.qty),
         e.op = "dispose" => /\ item[e.item] # None /\ grn[item[e.item].grn] # None
                             /\ ReadRow(e) = item[e.item] /\ e.line = line
                             /\ item[e.item].received = e.split[1] + e.split[2] + e.split[3]
                             /\ item[e.item].inspected => "again" \in Clients
  PROVE  IInv'
<1> USE DEF IInv
<1>1. /\ UNCHANGED <<line, grn, item, level, moved, ret>> /\ workers' = workers
      /\ Cardinality({u \in Txn : txn[u] # None}) < workers
  BY DEF Begin, rows
<1>2. /\ txn' \in [Txn -> Request \cup {None}]
      /\ txn'[t] = e /\ \A u \in Txn \ {t} : txn'[u] = txn[u]
  BY DEF Begin, TypeOK
<1>3. TypeOK'
  BY <1>1, <1>2 DEF TypeOK
<1>4. Kept
  BY <1>1 DEF Kept
<1>5. RowsFit' /\ StockIsLedger' /\ SentIsCharged'
  BY <1>1 DEF RowsFit, Returnable, StockIsLedger, SentIsCharged
<1>6. RollupsMatch' /\ ReturnedWithinReceived'
  BY <1>1 DEF RollupsMatch, ReturnedWithinReceived, Cumulative
<1>7. workers = 1 => \A u \in Txn \ {t} : txn'[u] = None
  BY <1>1, <1>2, NoneOpen
<1>8. RequestFits(t)'
  BY <1>1, <1>2 DEF RequestFits, ReadRow, Returnable
<1>9. Alone(t)'
  BY <1>1, <1>2, <1>7 DEF Alone, ReadRow
<1>10. ASSUME NEW u \in Txn \ {t} PROVE RequestFits(u)' /\ Alone(u)'
  <2>1. RequestFits(u)'
    BY <1>2, <1>4, KeptFits
  <2>2. Alone(u)'
    BY <1>1, <1>7 DEF Alone
  <2> QED
    BY <2>1, <2>2
<1> QED
  BY <1>3, <1>5, <1>6, <1>8, <1>9, <1>10

LEMMA HeaderReadIInv ==
  ASSUME IInv, NEW t \in Txn, NEW op \in HeaderOps, NEW g \in Grn, HeaderRead(t, op, g)
  PROVE  IInv'
<1> DEFINE e == [op |-> op, grn |-> g]
<1>1. e \in Request
  BY DEF Request
<1>2. e.op \notin ReturnOps /\ e.op # "dispose"
  BY DEF HeaderOps, ReturnOps
<1>3. Begin(t, e) /\ grn[e.grn] # None
  BY DEF HeaderRead
<1> HIDE DEF e
<1> QED
  BY <1>1, <1>2, <1>3, BeginIInv

LEMMA ReturnReadIInv ==
  ASSUME IInv, NEW t \in Txn, NEW op \in ReturnOps, NEW r \in Ret, ReturnRead(t, op, r)
  PROVE  IInv'
<1> DEFINE e == [op |-> op, ret |-> r, qty |-> ret[r].qty]
<1>1. ret[r] # None /\ ret[r].status \in From[op] /\ Begin(t, e)
  BY DEF ReturnRead
<1>2. ret[r].qty \in [Lines -> Nat]
  BY <1>1 DEF IInv, TypeOK, ReturnRow
<1>3. e \in Request
  BY <1>2 DEF Request
<1>4. e.op \notin HeaderOps /\ e.op # "dispose"
  BY DEF HeaderOps, ReturnOps
<1>5. Returnable(e.qty)
  BY <1>1 DEF IInv, RowsFit
<1>6. e.op = op /\ e.ret = r
  OBVIOUS
<1> HIDE DEF e
<1> QED
  BY <1>1, <1>3, <1>4, <1>5, <1>6, BeginIInv

LEMMA DisposeReadIInv ==
  ASSUME IInv, NEW t \in Txn, NEW x \in Item, NEW a \in Qty \cup {0}, NEW d \in Qty \cup {0},
         DisposeRead(t, x, a, d)
  PROVE  IInv'
<1> DEFINE items == [y \in Item |-> IF y \in ItemsOf(item[x].grn) THEN item[y] ELSE None]
           e == [op |-> "dispose", item |-> x,
                 split |-> <<a, d, item[x].received - a - d>>, line |-> line, items |-> items]
<1>1. /\ item[x] # None /\ Begin(t, e) /\ a + d <= item[x].received
      /\ item[x].inspected => "again" \in Clients
  BY DEF DisposeRead
<1>2. item \in [Item -> ItemRow \cup {None}] /\ line \in LineRow
  BY DEF IInv, TypeOK
<1>3. items \in [Item -> ItemRow \cup {None}] /\ items[x] = item[x]
  BY <1>1, <1>2 DEF ItemsOf
<1>4. item[x].received \in Qty
  BY <1>1, <1>2 DEF ItemRow
<1>5. item[x].received \in Nat
  BY ONLY <1>4, QtyAssumption
<1>6. a \in Nat /\ d \in Nat
  BY ONLY a \in Qty \cup {0}, d \in Qty \cup {0}, QtyAssumption
<1>7. item[x].received - a - d \in Nat /\ a + d + (item[x].received - a - d) = item[x].received
  BY ONLY <1>1, <1>5, <1>6
<1> HIDE DEF items
<1>8. e \in Request
  BY <1>2, <1>3, <1>6, <1>7 DEF Request
<1>9. e.op \notin HeaderOps /\ e.op \notin ReturnOps
  BY DEF HeaderOps, ReturnOps
<1>10. /\ e.item = x /\ ReadRow(e) = item[x] /\ e.line = line
       /\ item[x].received = e.split[1] + e.split[2] + e.split[3]
  BY <1>3, <1>7 DEF ReadRow
<1>11. grn[item[x].grn] # None
  BY <1>1 DEF IInv, RowsFit
<1> HIDE DEF e
<1> QED
  BY <1>1, <1>8, <1>9, <1>10, <1>11, BeginIInv

-----------------------------------------------------------------------------
(* Receipts before their inspection.                                       *)

LEMMA HeaderDoneIInv ==
  ASSUME IInv, NEW t \in Txn, HeaderDone(t)
  PROVE  IInv'
<1> USE DEF IInv
<1> DEFINE g == txn[t].grn
<1>1. /\ txn[t] # None /\ txn[t].op \in DOMAIN HeaderStatus
      /\ grn' = [grn EXCEPT ![g] = [grn[g] EXCEPT !.status = HeaderStatus[txn[t].op]]]
      /\ End(t) /\ UNCHANGED <<line, item, level, moved, ret>>
  BY DEF HeaderDone
<1>2. txn[t] \in Request /\ grn \in [Grn -> GrnRow \cup {None}]
  BY <1>1 DEF TypeOK
<1>3. txn[t].op \in HeaderOps /\ HeaderStatus[txn[t].op] \in GRNStatus
  BY <1>1 DEF HeaderStatus, HeaderOps, GRNStatus
<1>4. g \in Grn /\ grn[g] # None
  BY <1>1, <1>2, <1>3, RequestType DEF RequestFits
<1>5. grn[g] \in GrnRow
  BY <1>2, <1>4
<1> HIDE DEF g
<1>6. [grn[g] EXCEPT !.status = HeaderStatus[txn[t].op]] \in GrnRow
  BY <1>3, <1>5 DEF GrnRow
<1>7. grn' \in [Grn -> GrnRow \cup {None}] /\ \A h \in Grn : grn[h] # None => grn'[h] # None
  BY <1>1, <1>2, <1>4, <1>6, NoneAssumption
<1>8. txn' \in [Txn -> Request \cup {None}] /\ workers' = workers
  BY <1>1, EndAfter
<1>9. TypeOK'
  BY <1>1, <1>7, <1>8 DEF TypeOK
<1>10. Kept
  BY <1>1, <1>7 DEF Kept
<1>11. \A u \in Txn : RequestFits(u)' /\ Alone(u)'
  BY <1>1, <1>10, RequestsAfter
<1>12. RowsFit'
  <2>1. \A x \in Item : item[x] # None => item[x].grn \in Grn
    BY DEF TypeOK, ItemRow
  <2> QED
    BY <1>1, <1>7, <2>1 DEF RowsFit, Returnable
<1>13. StockIsLedger' /\ SentIsCharged'
  BY <1>1, <1>8 DEF StockIsLedger, SentIsCharged
<1>14. RollupsMatch' /\ ReturnedWithinReceived'
  BY <1>1, <1>8 DEF RollupsMatch, ReturnedWithinReceived, Cumulative
<1> QED
  BY <1>9, <1>11, <1>12, <1>13, <1>14

LEMMA NewItemType ==
  ASSUME NEW g \in Grn, NEW q \in Qty
  PROVE  NewItem(g, q) \in ItemRow /\ NewItem(g, q) # None
<1>1. q \in Nat
  BY QtyAssumption
<1>2. NewItem(g, q) \in ItemRow
  BY <1>1 DEF NewItem, ItemRow
<1> QED
  BY <1>2, NoneAssumption

\* A receipt line that is added is not inspected, and nothing of it returned.
LEMMA NewItemAfter ==
  ASSUME IInv, NEW g \in Grn, NEW x \in Item, NEW q \in Qty, item[x] = None,
         item' = [item EXCEPT ![x] = NewItem(g, q)], grn'[g] # None,
         \A h \in Grn : grn[h] # None => grn'[h] # None,
         UNCHANGED <<line, ret>>, workers' = workers
  PROVE  /\ item' \in [Item -> ItemRow \cup {None}] /\ Kept
         /\ \A y \in Item : item[y] # None => item'[y] = item[y]
         /\ RowsFit' /\ RollupsMatch' /\ SentIsCharged' /\ ReturnedWithinReceived'
<1> USE DEF IInv
<1>1. item \in [Item -> ItemRow \cup {None}]
  BY DEF TypeOK
<1>2. /\ item' \in [Item -> ItemRow \cup {None}]
      /\ item'[x] = NewItem(g, q) /\ \A y \in Item \ {x} : item'[y] = item[y]
  BY <1>1, NewItemType
<1>3. \A y \in Item : item[y] # None => item'[y] = item[y]
  BY <1>2
<1>4. Kept
  BY <1>3 DEF Kept
<1>5. RowsFit'
  <2>1. ASSUME NEW y \in Item, item'[y] # None PROVE grn'[item'[y].grn] # None
    <3>1. CASE y = x
      BY <1>2, <3>1 DEF NewItem
    <3>2. CASE y # x
      <4>1. item'[y] = item[y] /\ item[y] # None
        BY <1>2, <2>1, <3>2
      <4>2. item[y].grn \in Grn
        BY <1>1, <4>1 DEF ItemRow
      <4> QED
        BY <4>1, <4>2 DEF RowsFit
    <3> QED
      BY <3>1, <3>2
  <2>2. ASSUME NEW r \in Ret, ret'[r] # None PROVE Returnable(ret[r].qty)'
    <3>1. ret'[r] = ret[r] /\ Returnable(ret[r].qty)
      BY <2>2 DEF RowsFit
    <3> QED
      BY <1>3, <3>1 DEF Returnable, Lines
  <2> QED
    BY <2>1, <2>2 DEF RowsFit
<1>6. RollupsMatch'
  <2>1. ReceivedOf(x)' = 0 /\ AcceptedOf(x)' = 0 /\ TurnedDown(x)' = 0
    BY <1>2 DEF ReceivedOf, AcceptedOf, TurnedDown, Inspected, NewItem
  <2>2. ReceivedOf(x) = 0 /\ AcceptedOf(x) = 0 /\ TurnedDown(x) = 0
    BY DEF ReceivedOf, AcceptedOf, TurnedDown, Inspected
  <2>3. line.received \in Int /\ line.accepted \in Int /\ line.damaged_rejected \in Int
    BY DEF TypeOK, LineRow
  <2>4. /\ line'.received = line.received - ReceivedOf(x) + ReceivedOf(x)'
        /\ line'.accepted = line.accepted - AcceptedOf(x) + AcceptedOf(x)'
        /\ line'.damaged_rejected = line.damaged_rejected - TurnedDown(x) + TurnedDown(x)'
    BY <2>1, <2>2, <2>3
  <2> QED
    BY <1>1, <1>2, <2>4, RollupsAfter
<1>7. SentIsCharged'
  BY DEF SentIsCharged
<1>8. ReturnedWithinReceived'
  <2> SUFFICES ASSUME workers = 1, Clients = {}, NEW y \in Item, item'[y] # None
               PROVE  Cumulative(y, Ret) <= item'[y].received
    BY DEF ReturnedWithinReceived, Cumulative
  <2>1. CASE y = x
    <3>1. Cumulative(x, Ret) = 0
      BY NothingReturned
    <3>2. item'[x].received = q
      BY <1>2 DEF NewItem
    <3>3. q \in Nat
      BY QtyAssumption
    <3> QED
      BY <2>1, <3>1, <3>2, <3>3
  <2>2. CASE y # x
    BY <1>2, <2>2 DEF ReturnedWithinReceived
  <2> QED
    BY <2>1, <2>2
<1> QED
  BY <1>2, <1>3, <1>4, <1>5, <1>6, <1>7, <1>8

LEMMA CreateGrnIInv ==
  ASSUME IInv, NEW g \in Grn, NEW x \in Item, NEW q \in Qty, CreateGrn(g, x, q)
  PROVE  IInv'
<1> USE DEF IInv
<1>1. /\ grn' = [grn EXCEPT ![g] = [status |-> "DRAFT", posted |-> FALSE]]
      /\ UNCHANGED <<line, level, moved, ret, txn, workers>>
      /\ \/ UNCHANGED item
         \/ item[x] = None /\ item' = [item EXCEPT ![x] = NewItem(g, q)]
  BY DEF CreateGrn
<1>2. [status |-> "DRAFT", posted |-> FALSE] \in GrnRow
  BY DEF GrnRow, GRNStatus
<1>3. /\ grn' \in [Grn -> GrnRow \cup {None}] /\ grn'[g] # None
      /\ \A h \in Grn : grn[h] # None => grn'[h] # None
  BY <1>1, <1>2, NoneAssumption DEF TypeOK
<1>4. /\ item' \in [Item -> ItemRow \cup {None}] /\ Kept
      /\ \A y \in Item : item[y] # None => item'[y] = item[y]
      /\ RowsFit' /\ RollupsMatch' /\ SentIsCharged' /\ ReturnedWithinReceived'
  <2>1. CASE item[x] = None /\ item' = [item EXCEPT ![x] = NewItem(g, q)]
    BY <1>1, <1>3, <2>1, NewItemAfter
  <2>2. CASE UNCHANGED item
    <3>1. item' \in [Item -> ItemRow \cup {None}] /\ Kept
      BY <1>1, <1>3, <2>2 DEF TypeOK, Kept
    <3>2. \A y \in Item : item[y] # None => item[y].grn \in Grn
      BY DEF TypeOK, ItemRow
    <3>3. RowsFit'
      BY <1>1, <1>3, <2>2, <3>2 DEF RowsFit, Returnable
    <3>4. RollupsMatch' /\ SentIsCharged' /\ ReturnedWithinReceived'
      BY <1>1, <2>2 DEF RollupsMatch, SentIsCharged, ReturnedWithinReceived, Cumulative
    <3> QED
      BY <2>2, <3>1, <3>3, <3>4
  <2> QED
    BY <1>1, <2>1, <2>2
<1>5. TypeOK'
  BY <1>1, <1>3, <1>4 DEF TypeOK
<1>6. \A u \in Txn : RequestFits(u)' /\ Alone(u)'
  BY <1>1, <1>4, RequestsStay
<1>7. StockIsLedger'
  BY <1>1 DEF StockIsLedger
<1> QED
  BY <1>4, <1>5, <1>6, <1>7

LEMMA AddDoneIInv ==
  ASSUME IInv, NEW t \in Txn, NEW x \in Item, NEW q \in Qty, AddDone(t, x, q)
  PROVE  IInv'
<1> USE DEF IInv
<1> DEFINE g == txn[t].grn
<1>1. /\ txn[t] # None /\ txn[t].op = "add" /\ item[x] = None
      /\ item' = [item EXCEPT ![x] = NewItem(g, q)]
      /\ End(t) /\ UNCHANGED <<line, grn, level, moved, ret>>
  BY DEF AddDone, Is
<1>2. g \in Grn /\ grn[g] # None
  <2>1. txn[t] \in Request /\ txn[t].op \in HeaderOps
    BY <1>1 DEF TypeOK, HeaderOps
  <2> QED
    BY <1>1, <2>1, RequestType DEF RequestFits
<1> HIDE DEF g
<1>3. txn' \in [Txn -> Request \cup {None}] /\ workers' = workers
  BY <1>1, EndAfter
<1>4. /\ item' \in [Item -> ItemRow \cup {None}] /\ Kept
      /\ RowsFit' /\ RollupsMatch' /\ SentIsCharged' /\ ReturnedWithinReceived'
  BY <1>1, <1>2, <1>3, NewItemAfter
<1>5. TypeOK'
  BY <1>1, <1>3, <1>4 DEF TypeOK
<1>6. \A u \in Txn : RequestFits(u)' /\ Alone(u)'
  BY <1>1, <1>4, RequestsAfter
<1>7. StockIsLedger'
  BY <1>1 DEF StockIsLedger
<1> QED
  BY <1>4, <1>5, <1>6, <1>7

-----------------------------------------------------------------------------
(* Purchase returns.                                                       *)

\* A return has its debit note, and its goods have left, once it was sent.
Charged(row) ==
    IF row.status \in Sent THEN row.notes = 1 ELSE row.notes = 0 /\ row.out = NoLines

\* One return changes, and receipt lines keep what they have received.
LEMMA ReturnAfter ==
  ASSUME IInv, workers' = workers, Kept, NEW r \in Ret, NEW new \in ReturnRow,
         ret' = [ret EXCEPT ![r] = new],
         \A l \in Lines : new.qty[l] > 0 =>
             item'[l[1]] # None /\ (item'[l[1]].inspected \/ "early" \in Clients),
         \A x \in Item : item'[x] # None =>
             item[x] # None /\ item'[x].received = item[x].received,
         workers = 1 => Charged(new),
         workers = 1 /\ Clients = {} => \A x \in Item : item[x] # None =>
             Cumulative(x, Ret) - Returned(ret[r], x) + Returned(new, x) <= item[x].received
  PROVE  /\ ret' \in [Ret -> ReturnRow \cup {None}]
         /\ \A q \in Ret : ret'[q] # None => Returnable(ret[q].qty)'
         /\ SentIsCharged' /\ ReturnedWithinReceived'
<1> USE DEF IInv
<1>1. ret \in [Ret -> ReturnRow \cup {None}] /\ new # None
  BY NoneAssumption DEF TypeOK
<1>2. /\ ret' \in [Ret -> ReturnRow \cup {None}]
      /\ ret'[r] = new /\ \A q \in Ret \ {r} : ret'[q] = ret[q]
  BY <1>1
<1>3. ASSUME NEW q \in Ret, ret'[q] # None PROVE Returnable(ret[q].qty)'
  <2>1. CASE q = r
    BY <1>2, <2>1 DEF Returnable
  <2>2. CASE q # r
    <3>1. ret'[q] = ret[q] /\ Returnable(ret[q].qty)
      BY <1>2, <1>3, <2>2 DEF RowsFit
    <3> QED
      BY <3>1 DEF Kept, Returnable, Lines
  <2> QED
    BY <2>1, <2>2
<1>4. SentIsCharged'
  <2> SUFFICES ASSUME workers = 1, NEW q \in Ret, ret'[q] # None
               PROVE  Charged(ret'[q])
    BY DEF SentIsCharged, Charged
  <2>1. CASE q = r
    BY <1>2, <2>1
  <2>2. CASE q # r
    BY <1>2, <2>2 DEF SentIsCharged, Charged
  <2> QED
    BY <2>1, <2>2
<1>5. ReturnedWithinReceived'
  <2> SUFFICES ASSUME workers = 1, Clients = {}, NEW x \in Item, item'[x] # None
               PROVE  Cumulative(x, Ret)' <= item'[x].received
    BY DEF ReturnedWithinReceived
  <2>1. Cumulative(x, Ret)' = Cumulative(x, Ret) - Returned(ret[r], x) + Returned(ret'[r], x)
    BY <1>1, <1>2, CumulativeAfter
  <2> QED
    BY <1>2, <2>1
<1> QED
  BY <1>2, <1>3, <1>4, <1>5

LEMMA CreateReturnIInv ==
  ASSUME IInv, NEW r \in Ret, NEW l \in Lines, NEW q \in Qty, CreateReturn(r, l, q)
  PROVE  IInv'
<1> USE DEF IInv
<1> DEFINE x == l[1]
           qty == [NoLines EXCEPT ![l] = q]
           new == [grn |-> item[x].grn, status |-> "DRAFT", auto |-> FALSE,
                   qty |-> qty, out |-> NoLines, notes |-> 0]
<1>1. /\ ret[r] = None /\ item[x] # None
      /\ item[x].inspected \/ "early" \in Clients
      /\ Cumulative(x, Ret) + q <= item[x].received
      /\ ret' = [ret EXCEPT ![r] = new]
      /\ UNCHANGED <<line, grn, item, level, moved, txn, workers>>
  BY DEF CreateReturn
<1>2. q \in Nat
  BY QtyAssumption
<1>3. x \in Item /\ item[x] \in ItemRow
  BY <1>1 DEF Lines, TypeOK
<1>4. qty \in [Lines -> Nat] /\ \A k \in Lines : qty[k] = IF k = l THEN q ELSE 0
  BY <1>2 DEF NoLines
<1>5. NoLines \in [Lines -> Nat]
  BY DEF NoLines
<1> HIDE DEF qty
<1>6. new \in ReturnRow
  BY <1>3, <1>4, <1>5 DEF ReturnRow, ReturnStatus, ItemRow
<1>7. new # None
  BY <1>6, NoneAssumption
<1>8. Kept
  BY <1>1, <1>7 DEF Kept
<1>9. Returnable(qty)
  BY <1>1, <1>4 DEF Returnable
<1>10. Charged(new)
  BY DEF Charged, Sent
<1>11. ASSUME NEW y \in Item
       PROVE  /\ Returned(ret[r], y) = 0
              /\ Returned(new, y) = IF y = x THEN q ELSE 0
  <2>1. Returned(ret[r], y) = 0
    BY <1>1 DEF Returned, Counts
  <2>2. Returned(new, y) = qty[<<y, "QUALITY_ISSUE">>] + qty[<<y, "DAMAGE">>]
    BY <1>7 DEF Returned, Counts, NON_CANCELLED, ReturnStatus, Of
  <2>3. <<y, "QUALITY_ISSUE">> \in Lines /\ <<y, "DAMAGE">> \in Lines
    BY DEF Lines
  <2>4. CASE y = x
    <3>1. l = <<y, "QUALITY_ISSUE">> \/ l = <<y, "DAMAGE">>
      BY <2>4 DEF Lines
    <3> QED
      BY <1>2, <1>4, <2>1, <2>2, <2>3, <2>4, <3>1
  <2>5. CASE y # x
    <3>1. l # <<y, "QUALITY_ISSUE">> /\ l # <<y, "DAMAGE">>
      BY <2>5
    <3> QED
      BY <1>4, <2>1, <2>2, <2>3, <2>5, <3>1
  <2> QED
    BY <2>4, <2>5
<1>12. new.qty = qty
  OBVIOUS
<1> HIDE DEF new, x
<1>13. workers = 1 /\ Clients = {} => \A y \in Item : item[y] # None =>
         Cumulative(y, Ret) - Returned(ret[r], y) + Returned(new, y) <= item[y].received
  <2> SUFFICES ASSUME workers = 1, Clients = {}, NEW y \in Item, item[y] # None
               PROVE  Cumulative(y, Ret) - Returned(ret[r], y) + Returned(new, y)
                        <= item[y].received
    OBVIOUS
  <2>1. Cumulative(y, Ret) \in Nat /\ Cumulative(y, Ret) <= item[y].received
    BY CumulativeType DEF TypeOK, ReturnedWithinReceived
  <2>2. item[y].received \in Nat
    <3>1. item[y].received \in Qty
      BY DEF TypeOK, ItemRow
    <3> QED
      BY ONLY <3>1, QtyAssumption
  <2>3. /\ Returned(ret[r], y) = 0
        /\ Returned(new, y) = IF y = x THEN q ELSE 0
    BY <1>11
  <2> QED
    BY <1>1, <1>2, <2>1, <2>2, <2>3
<1>14. \A k \in Lines : new.qty[k] > 0 =>
         item'[k[1]] # None /\ (item'[k[1]].inspected \/ "early" \in Clients)
  BY <1>1, <1>9, <1>12 DEF Returnable
<1>15. /\ ret' \in [Ret -> ReturnRow \cup {None}]
       /\ \A p \in Ret : ret'[p] # None => Returnable(ret[p].qty)'
       /\ SentIsCharged' /\ ReturnedWithinReceived'
  <2>1. \A y \in Item : item'[y] # None => item[y] # None /\ item'[y].received = item[y].received
    BY <1>1
  <2> QED
    BY <1>1, <1>6, <1>8, <1>10, <1>13, <1>14, <2>1, ReturnAfter
<1>16. TypeOK'
  BY <1>1, <1>15 DEF TypeOK
<1>17. RowsFit'
  BY <1>1, <1>15 DEF RowsFit, Returnable
<1>18. \A u \in Txn : RequestFits(u)' /\ Alone(u)'
  <2>1. \A p \in Ret : ret[p] # None => ret'[p] = ret[p]
    BY <1>1 DEF TypeOK
  <2> QED
    BY <1>1, <1>8, <2>1, RequestsStay
<1>19. StockIsLedger' /\ RollupsMatch'
  BY <1>1 DEF StockIsLedger, RollupsMatch
<1> QED
  BY <1>15, <1>16, <1>17, <1>18, <1>19

\* A return keeps its type when its columns are updated.
LEMMA ReturnRowType ==
  ASSUME NEW row \in ReturnRow
  PROVE  /\ \A s \in ReturnStatus : [row EXCEPT !.status = s] \in ReturnRow
         /\ \A q \in [Lines -> Nat] : [row EXCEPT !.qty = q] \in ReturnRow
         /\ \A s \in ReturnStatus, n \in Nat, o \in [Lines -> Nat] :
              [row EXCEPT !.status = s, !.notes = n, !.out = o] \in ReturnRow
<1> DEFINE Q == [Lines -> Nat]
<1>1. ReturnRow = [grn : Grn, status : ReturnStatus, auto : BOOLEAN, qty : Q, out : Q, notes : Nat]
  BY DEF ReturnRow
<1> HIDE DEF Q
<1>2. \A s \in ReturnStatus : [row EXCEPT !.status = s] \in ReturnRow
  BY ONLY row \in ReturnRow, <1>1
<1>3. \A q \in Q : [row EXCEPT !.qty = q] \in ReturnRow
  BY ONLY row \in ReturnRow, <1>1
<1>4. \A s \in ReturnStatus, n \in Nat, o \in Q :
        [row EXCEPT !.status = s, !.notes = n, !.out = o] \in ReturnRow
  BY ONLY row \in ReturnRow, <1>1
<1> QED
  BY <1>2, <1>3, <1>4 DEF Q

\* What a request about a return finds when it commits.
LEMMA OpenReturn ==
  ASSUME IInv, NEW t \in Txn, txn[t] # None, txn[t].op \in ReturnOps,
         NEW r, r = txn[t].ret
  PROVE  /\ r \in Ret /\ ret[r] # None /\ ret[r] \in ReturnRow
         /\ txn[t].qty \in [Lines -> Nat] /\ Returnable(txn[t].qty) /\ Returnable(ret[r].qty)
         /\ workers = 1 => ret[r].status \in From[txn[t].op] /\ Charged(ret[r])
<1> USE DEF IInv
<1>1. txn[t] \in Request
  BY DEF TypeOK
<1>2. /\ r \in Ret /\ ret[r] # None
      /\ txn[t].qty \in [Lines -> Nat] /\ Returnable(txn[t].qty)
  BY <1>1, RequestType DEF RequestFits
<1>3. ret[r] \in ReturnRow /\ Returnable(ret[r].qty)
  BY <1>2 DEF TypeOK, RowsFit
<1>4. workers = 1 => ret[r].status \in From[txn[t].op] /\ Charged(ret[r])
  BY <1>2 DEF Alone, SentIsCharged, Charged
<1> QED
  BY <1>2, <1>3, <1>4

\* A request on a return that is not cancelled keeps its quantities, and ends.
LEMMA ReturnDone ==
  ASSUME IInv, NEW t \in Txn, txn[t] # None, txn[t].op \in ReturnOps, End(t),
         NEW r, r = txn[t].ret,
         NEW new \in ReturnRow, ret' = [ret EXCEPT ![r] = new], new.qty = ret[r].qty,
         workers = 1 => Charged(new),
         level' \in [on_hand : Nat, damaged : Nat], moved' \in Int, StockIsLedger',
         UNCHANGED <<line, grn, item>>
  PROVE  IInv'
<1> USE DEF IInv
<1>1. /\ r \in Ret /\ ret[r] # None /\ ret[r] \in ReturnRow /\ Returnable(ret[r].qty)
      /\ workers = 1 => ret[r].status \in From[txn[t].op]
  BY OpenReturn
<1>2. txn' \in [Txn -> Request \cup {None}] /\ workers' = workers
  BY EndAfter
<1>3. new # None
  BY NoneAssumption
<1>4. Kept
  BY <1>3 DEF Kept
<1>5. workers = 1 => \A x \in Item : Returned(new, x) <= Returned(ret[r], x)
  <2> SUFFICES ASSUME workers = 1, NEW x \in Item
               PROVE  Returned(new, x) <= Returned(ret[r], x)
    OBVIOUS
  <2>1. ret[r].status \in NON_CANCELLED
    BY <1>1 DEF From, ReturnOps, NON_CANCELLED, ReturnStatus
  <2>2. Returned(ret[r], x) = Of(x, ret[r].qty) /\ Returned(ret[r], x) \in Nat
    BY <1>1, <2>1, ReturnedType DEF Returned, Counts
  <2>3. Returned(new, x) \in {0, Of(x, ret[r].qty)}
    BY DEF Returned
  <2> QED
    BY <2>2, <2>3
<1>6. workers = 1 /\ Clients = {} => \A x \in Item : item[x] # None =>
        Cumulative(x, Ret) - Returned(ret[r], x) + Returned(new, x) <= item[x].received
  <2> SUFFICES ASSUME workers = 1, Clients = {}, NEW x \in Item, item[x] # None
               PROVE  Cumulative(x, Ret) - Returned(ret[r], x) + Returned(new, x)
                        <= item[x].received
    OBVIOUS
  <2>1. Cumulative(x, Ret) \in Nat /\ Cumulative(x, Ret) <= item[x].received
    BY CumulativeType DEF TypeOK, ReturnedWithinReceived
  <2>2. item[x].received \in Nat
    <3>1. item[x].received \in Qty
      BY DEF TypeOK, ItemRow
    <3> QED
      BY ONLY <3>1, QtyAssumption
  <2>3. Returned(ret[r], x) \in Nat /\ Returned(new, x) \in Nat
    BY <1>1, ReturnedType
  <2>4. Returned(new, x) <= Returned(ret[r], x)
    BY <1>5
  <2> QED
    BY ONLY <2>1, <2>2, <2>3, <2>4
<1>7. \A l \in Lines : new.qty[l] > 0 =>
        item'[l[1]] # None /\ (item'[l[1]].inspected \/ "early" \in Clients)
  BY <1>1 DEF Returnable
<1>8. /\ ret' \in [Ret -> ReturnRow \cup {None}]
      /\ \A q \in Ret : ret'[q] # None => Returnable(ret[q].qty)'
      /\ SentIsCharged' /\ ReturnedWithinReceived'
  BY <1>1, <1>2, <1>4, <1>6, <1>7, ReturnAfter
<1>9. TypeOK'
  BY <1>2, <1>8 DEF TypeOK
<1>10. RowsFit'
  BY <1>8 DEF RowsFit, Returnable
<1>11. \A u \in Txn : RequestFits(u)' /\ Alone(u)'
  BY <1>4, RequestsAfter
<1>12. RollupsMatch'
  BY <1>2 DEF RollupsMatch
<1> QED
  BY <1>8, <1>9, <1>10, <1>11, <1>12

LEMMA StatusDoneIInv ==
  ASSUME IInv, NEW t \in Txn, StatusDone(t)
  PROVE  IInv'
<1> DEFINE r == txn[t].ret
           op == txn[t].op
           new == [ret[r] EXCEPT !.status = To[op]]
<1>1. /\ txn[t] # None /\ op \in {"submit", "approve", "complete", "reject", "withdraw"}
      /\ ret' = [ret EXCEPT ![r] = new]
      /\ End(t) /\ UNCHANGED <<line, grn, item, level, moved>>
  BY DEF StatusDone
<1>2. op \in ReturnOps
  BY <1>1 DEF ReturnOps
<1>3. /\ r \in Ret /\ ret[r] \in ReturnRow
      /\ workers = 1 => ret[r].status \in From[op] /\ Charged(ret[r])
  BY <1>1, <1>2, OpenReturn
<1>4. To[op] \in ReturnStatus
  BY <1>1 DEF To, ReturnStatus
<1>5. /\ new \in ReturnRow /\ new.qty = ret[r].qty /\ new.status = To[op]
      /\ new.out = ret[r].out /\ new.notes = ret[r].notes
  <2> HIDE DEF op, r
  <2>1. new \in ReturnRow
    BY <1>3, <1>4, ReturnRowType
  <2>2. DOMAIN ret[r] = {"grn", "status", "auto", "qty", "out", "notes"}
    BY <1>3 DEF ReturnRow
  <2> QED
    BY <2>1, <2>2
<1>6. workers = 1 => (To[op] \in Sent <=> ret[r].status \in Sent)
  BY <1>1, <1>3 DEF To, From, Sent
<1>7. workers = 1 => Charged(new)
  BY <1>3, <1>5, <1>6 DEF Charged
<1>8. level' \in [on_hand : Nat, damaged : Nat] /\ moved' \in Int /\ StockIsLedger'
  BY <1>1 DEF IInv, TypeOK, StockIsLedger
<1> HIDE DEF new
<1> QED
  BY <1>1, <1>2, <1>5, <1>7, <1>8, ReturnDone

LEMMA DispatchIInv ==
  ASSUME IInv, NEW t \in Txn, DispatchDone(t)
  PROVE  IInv'
<1> DEFINE r == txn[t].ret
           qty == txn[t].qty
           lines == {l \in Lines : qty[l] > 0}
<1>1. /\ txn[t] # None /\ txn[t].op = "dispatch"
      /\ End(t) /\ UNCHANGED <<line, grn, item>>
  BY DEF DispatchDone, Is
<1>2. txn[t].op \in ReturnOps
  BY <1>1 DEF ReturnOps
<1>3. /\ r \in Ret /\ ret[r] \in ReturnRow /\ qty \in [Lines -> Nat] /\ Returnable(qty)
      /\ workers = 1 => ret[r].status \in From["dispatch"] /\ Charged(ret[r])
  BY <1>1, <1>2, OpenReturn
<1>4. PICK out \in [lines -> 0..level.on_hand] :
        /\ StockOut(r, qty, out)
        /\ ret' = [ret EXCEPT ![r] =
             [ret[r] EXCEPT !.status = "DISPATCHED", !.notes = ret[r].notes + 1,
                            !.out = [l \in Lines |-> IF l \in lines THEN out[l] ELSE 0]]]
        /\ level' = [level EXCEPT !.on_hand = level.on_hand - SumFunction(out)]
        /\ moved' = moved - SumFunction(out)
  BY DEF DispatchDone
<1> DEFINE taken == [l \in Lines |-> IF l \in lines THEN out[l] ELSE 0]
           new == [ret[r] EXCEPT !.status = "DISPATCHED", !.notes = ret[r].notes + 1,
                                 !.out = taken]
<1>5. TypeOK
  BY DEF IInv
<1>6. level \in [on_hand : Nat, damaged : Nat] /\ moved \in Int
  BY <1>5 DEF TypeOK
<1>7. SumFunction(out) \in Nat /\ SumFunction(out) <= level.on_hand
  <2>1. lines \in SUBSET Lines /\ \A l \in lines : item[l[1]] # None
    BY <1>3 DEF Returnable
  <2> HIDE DEF lines
  <2> QED
    BY <1>3, <1>4, <1>5, <2>1, StockOutBound
<1>8. taken \in [Lines -> Nat]
  BY <1>6
<1> HIDE DEF taken
<1>9. new \in ReturnRow /\ new.qty = ret[r].qty /\ new.status = "DISPATCHED"
      /\ new.notes = ret[r].notes + 1
  <2> HIDE DEF r
  <2>1. "DISPATCHED" \in ReturnStatus /\ ret[r].notes + 1 \in Nat
    BY <1>3 DEF ReturnStatus, ReturnRow
  <2>2. new \in ReturnRow
    BY <1>3, <1>8, <2>1, ReturnRowType
  <2>3. DOMAIN ret[r] = {"grn", "status", "auto", "qty", "out", "notes"}
    BY <1>3 DEF ReturnRow
  <2> QED
    BY <2>2, <2>3
<1>10. workers = 1 => Charged(new)
  <2>1. workers = 1 => ret[r].notes = 0
    BY <1>3 DEF From, Charged, Sent
  <2> QED
    BY <1>9, <2>1 DEF Charged, Sent
<1>11. ret' = [ret EXCEPT ![r] = new]
  BY <1>4 DEF taken
<1>12. /\ level' \in [on_hand : Nat, damaged : Nat] /\ moved' \in Int
       /\ level'.on_hand = level.on_hand - SumFunction(out)
  BY <1>4, <1>6, <1>7
<1>13. StockIsLedger'
  <2>1. level.on_hand = Stock + moved /\ moved' = moved - SumFunction(out)
    BY <1>4 DEF IInv, StockIsLedger
  <2>2. level'.on_hand = Stock + moved'
    BY ONLY <1>6, <1>7, <1>12, <2>1, ConfirmedAssumption
  <2> QED
    BY <2>2 DEF StockIsLedger
<1> HIDE DEF new
<1> QED
  BY <1>1, <1>2, <1>9, <1>10, <1>11, <1>12, <1>13, ReturnDone

-----------------------------------------------------------------------------
(* Inspection.                                                             *)

\* What an inspection turned down is added to a DRAFT return.
LEMMA AutoReturnAfter ==
  ASSUME IInv, NEW g \in Grn, NEW x \in Item, NEW d \in Nat, NEW j \in Nat, NEW r \in Ret,
         AutoReturn(g, x, d, j, r)
  PROVE  \E new \in ReturnRow :
           /\ ret' = [ret EXCEPT ![r] = new]
           /\ workers = 1 => Charged(new)
           /\ \A y \in Item : Returned(new, y) = Returned(ret[r], y) + (IF y = x THEN d + j ELSE 0)
           /\ \A l \in Lines : new.qty[l] > 0 =>
                l[1] = x \/ (ret[r] # None /\ ret[r].qty[l] > 0)
<1> DEFINE more == [l \in Lines |-> IF l = <<x, "QUALITY_ISSUE">> THEN j
                                   ELSE IF l = <<x, "DAMAGE">> THEN d ELSE 0]
<1>1. more \in [Lines -> Nat]
  OBVIOUS
<1>2. \A y \in Item :
        /\ <<y, "QUALITY_ISSUE">> \in Lines /\ <<y, "DAMAGE">> \in Lines
        /\ more[<<y, "QUALITY_ISSUE">>] = IF y = x THEN j ELSE 0
        /\ more[<<y, "DAMAGE">>] = IF y = x THEN d ELSE 0
  BY DEF Lines
<1>3. \A l \in Lines : more[l] > 0 => l[1] = x
  OBVIOUS
<1>4. \/ /\ ret[r] = None
         /\ ret' = [ret EXCEPT ![r] = [grn |-> g, status |-> "DRAFT", auto |-> TRUE, qty |-> more,
                                       out |-> NoLines, notes |-> 0]]
      \/ /\ ret[r] # None /\ ret[r].status = "DRAFT"
         /\ ret' = [ret EXCEPT ![r] =
              [ret[r] EXCEPT !.qty = [l \in Lines |-> ret[r].qty[l] + more[l]]]]
  BY DEF AutoReturn
<1> HIDE DEF more
<1>5. "DRAFT" \in NON_CANCELLED /\ "DRAFT" \in ReturnStatus /\ "DRAFT" \notin Sent
  BY DEF NON_CANCELLED, ReturnStatus, Sent
<1>6. CASE ret[r] = None
  <2> DEFINE new == [grn |-> g, status |-> "DRAFT", auto |-> TRUE, qty |-> more,
                     out |-> NoLines, notes |-> 0]
  <2>1. NoLines \in [Lines -> Nat]
    BY DEF NoLines
  <2>2. new \in ReturnRow
    BY <1>1, <1>5, <2>1 DEF ReturnRow
  <2>3. new # None
    BY <2>2, NoneAssumption
  <2>4. ret' = [ret EXCEPT ![r] = new]
    BY <1>4, <1>6
  <2>5. Charged(new)
    BY <1>5 DEF Charged
  <2>6. ASSUME NEW y \in Item
        PROVE  Returned(new, y) = Returned(ret[r], y) + (IF y = x THEN d + j ELSE 0)
    <3>1. Returned(ret[r], y) = 0
      BY <1>6 DEF Returned, Counts
    <3>2. Returned(new, y) = more[<<y, "QUALITY_ISSUE">>] + more[<<y, "DAMAGE">>]
      BY <1>5, <2>3 DEF Returned, Counts, Of
    <3> QED
      BY <1>2, <3>1, <3>2
  <2>7. new.qty = more
    OBVIOUS
  <2> HIDE DEF new
  <2> QED
    BY <1>3, <2>2, <2>4, <2>5, <2>6, <2>7
<1>7. CASE ret[r] # None
  <2>1. ret[r] \in ReturnRow
    BY <1>7 DEF IInv, TypeOK
  <2>2. ret[r].qty \in [Lines -> Nat] /\ ret[r].status = "DRAFT"
    BY <1>4, <1>7, <2>1 DEF ReturnRow
  <2> DEFINE q == [l \in Lines |-> ret[r].qty[l] + more[l]]
             new == [ret[r] EXCEPT !.qty = q]
  <2>3. q \in [Lines -> Nat] /\ \A l \in Lines : q[l] = ret[r].qty[l] + more[l]
    BY <1>1, <2>2
  <2>4. ret' = [ret EXCEPT ![r] = new]
    BY <1>4, <1>7
  <2> HIDE DEF q
  <2>5. new \in ReturnRow
    BY <2>1, <2>3, ReturnRowType
  <2>6. new # None
    BY <2>5, NoneAssumption
  <2>7. /\ new.qty = q /\ new.status = ret[r].status
        /\ new.notes = ret[r].notes /\ new.out = ret[r].out
    BY <2>1 DEF ReturnRow
  <2> HIDE DEF new
  <2>8. workers = 1 => Charged(new)
    BY <1>7, <2>7 DEF IInv, SentIsCharged, Charged
  <2>9. ASSUME NEW y \in Item
        PROVE  Returned(new, y) = Returned(ret[r], y) + (IF y = x THEN d + j ELSE 0)
    <3>1. Returned(ret[r], y) = ret[r].qty[<<y, "QUALITY_ISSUE">>] + ret[r].qty[<<y, "DAMAGE">>]
      BY <1>5, <1>7, <2>2 DEF Returned, Counts, Of
    <3>2. Returned(new, y) = q[<<y, "QUALITY_ISSUE">>] + q[<<y, "DAMAGE">>]
      BY <1>5, <2>2, <2>6, <2>7 DEF Returned, Counts, Of
    <3>3. ret[r].qty[<<y, "QUALITY_ISSUE">>] \in Nat /\ ret[r].qty[<<y, "DAMAGE">>] \in Nat
      BY <1>2, <2>2
    <3> QED
      BY <1>2, <2>3, <3>1, <3>2, <3>3
  <2>10. \A l \in Lines : new.qty[l] > 0 => l[1] = x \/ ret[r].qty[l] > 0
    <3> SUFFICES ASSUME NEW l \in Lines, new.qty[l] > 0, l[1] # x PROVE ret[r].qty[l] > 0
      OBVIOUS
    <3>1. more[l] = 0
      BY <1>1, <1>3
    <3> QED
      BY <2>2, <2>3, <2>7, <3>1
  <2> QED
    BY <1>7, <2>4, <2>5, <2>8, <2>9, <2>10
<1> QED
  BY <1>6, <1>7

\* A receipt line keeps its type when its split is written.
LEMMA ItemRowType ==
  ASSUME NEW row \in ItemRow, NEW a \in Nat, NEW d \in Nat, NEW j \in Nat
  PROVE  /\ [row EXCEPT !.accepted = a, !.damaged = d, !.rejected = j, !.inspected = TRUE]
              \in ItemRow
         /\ DOMAIN row = {"grn", "received", "accepted", "damaged", "rejected", "inspected"}
BY DEF ItemRow

LEMMA DisposeIInv ==
  ASSUME IInv, NEW t \in Txn, NEW r \in Ret, DisposeDone(t, r)
  PROVE  IInv'
<1> USE DEF IInv
<1> DEFINE x == txn[t].item
           read == ReadRow(txn[t])
           was == txn[t].line
           split == txn[t].split
           g == read.grn
           status == Outcome([txn[t].items EXCEPT ![x] = Disposed(read, split)])
           accepted == Column(split[1], read.accepted, item[x].accepted)
           damaged == Column(split[2], read.damaged, item[x].damaged)
           rejected == Column(split[3], read.rejected, item[x].rejected)
           written == [item[x] EXCEPT !.accepted = accepted, !.damaged = damaged,
                                      !.rejected = rejected, !.inspected = TRUE]
           header == [posted |-> TRUE,
                      status |-> IF status = "PENDING_INSPECTION" THEN grn[g].status ELSE status]
<1>1. /\ txn[t] # None /\ txn[t].op = "dispose" /\ End(t)
      /\ item' = [item EXCEPT ![x] = written]
      /\ level' = Posted(split) /\ moved' = moved + split[1]
      /\ WriteLine(was, RolledUp(was, read, split))
      /\ grn' = [grn EXCEPT ![g] = header]
      /\ \/ split[2] + split[3] = 0 /\ UNCHANGED ret
         \/ AutoReturn(g, x, split[2], split[3], r)
  BY DEF DisposeDone, Is, WriteItem, ReadRow
<1>2. /\ item \in [Item -> ItemRow \cup {None}] /\ grn \in [Grn -> GrnRow \cup {None}]
      /\ ret \in [Ret -> ReturnRow \cup {None}] /\ line \in LineRow
      /\ level.on_hand \in Nat /\ level.damaged \in Nat /\ moved \in Int
      /\ txn[t] \in Request
  BY <1>1 DEF TypeOK
<1>3. /\ x \in Item /\ was \in LineRow /\ item[x] # None /\ item[x] \in ItemRow
      /\ split[1] \in Nat /\ split[2] \in Nat /\ split[3] \in Nat
      /\ read \in ItemRow /\ g \in Grn /\ grn[g] # None /\ grn[g] \in GrnRow
      /\ read.received = split[1] + split[2] + split[3]
  <2>1. /\ x \in Item /\ was \in LineRow /\ item[x] # None
        /\ split[1] \in Nat /\ split[2] \in Nat /\ split[3] \in Nat
        /\ read # None /\ grn[g] # None /\ read \in ItemRow \cup {None}
        /\ read.received = split[1] + split[2] + split[3]
    BY <1>1, <1>2, RequestType DEF RequestFits, ReadRow
  <2>2. read \in ItemRow /\ item[x] \in ItemRow
    BY <1>2, <2>1
  <2>3. g \in Grn
    BY <2>2 DEF ItemRow
  <2> QED
    BY <1>2, <2>1, <2>2, <2>3
<1>4. workers = 1 => /\ item[x] = read /\ line = was
                     /\ item[x].inspected => "again" \in Clients
  BY <1>1 DEF Alone
<1>5. status \in GRNStatus
  BY OutcomeType
<1> HIDE DEF x, read, was, split, status, g
<1>6. header \in GrnRow
  <2>1. grn[g].status \in GRNStatus
    BY <1>3 DEF GrnRow
  <2> QED
    BY <1>5, <2>1 DEF GrnRow
<1>7. /\ grn' \in [Grn -> GrnRow \cup {None}]
      /\ \A h \in Grn : grn[h] # None => grn'[h] # None
  <2>1. header # None
    BY <1>6, NoneAssumption
  <2> HIDE DEF header
  <2> QED
    BY <1>1, <1>2, <1>6, <2>1
<1>8. /\ written \in ItemRow /\ written # None
      /\ written.grn = item[x].grn /\ written.received = item[x].received
      /\ written.inspected = TRUE
      /\ workers = 1 => /\ written.accepted = split[1]
                        /\ written.damaged = split[2] /\ written.rejected = split[3]
  <2>1. item[x].accepted \in Nat /\ item[x].damaged \in Nat /\ item[x].rejected \in Nat
    BY <1>3 DEF ItemRow
  <2>2. accepted \in Nat /\ damaged \in Nat /\ rejected \in Nat
    BY <1>3, <2>1 DEF Column
  <2>3. workers = 1 => accepted = split[1] /\ damaged = split[2] /\ rejected = split[3]
    BY <1>4 DEF Column
  <2>4. written = [item[x] EXCEPT !.accepted = accepted, !.damaged = damaged,
                                  !.rejected = rejected, !.inspected = TRUE]
    OBVIOUS
  <2> HIDE DEF written, accepted, damaged, rejected
  <2>5. /\ written \in ItemRow
        /\ written.grn = item[x].grn /\ written.received = item[x].received
        /\ written.inspected = TRUE
        /\ written.accepted = accepted /\ written.damaged = damaged
        /\ written.rejected = rejected
    <3>1. /\ [item[x] EXCEPT !.accepted = accepted, !.damaged = damaged,
                             !.rejected = rejected, !.inspected = TRUE] \in ItemRow
          /\ DOMAIN item[x] = {"grn", "received", "accepted", "damaged", "rejected", "inspected"}
      BY <1>3, <2>2, ItemRowType
    <3> QED
      BY <2>4, <3>1
  <2>6. written # None
    BY <2>5, NoneAssumption
  <2> QED
    BY <2>3, <2>5, <2>6
<1> HIDE DEF written, header
<1>9. /\ item' \in [Item -> ItemRow \cup {None}]
      /\ item'[x] = written /\ \A y \in Item \ {x} : item'[y] = item[y]
  BY <1>1, <1>2, <1>3, <1>8
<1>10. \A y \in Item : /\ item[y] # None =>
                            /\ item'[y] # None /\ item'[y].grn = item[y].grn
                            /\ item[y].inspected => item'[y].inspected
                       /\ item'[y] # None => item[y] # None /\ item'[y].received = item[y].received
  BY <1>3, <1>8, <1>9
<1>11. txn' \in [Txn -> Request \cup {None}] /\ workers' = workers
  BY <1>1, EndAfter
<1>12. /\ Kept
       /\ ret' \in [Ret -> ReturnRow \cup {None}]
       /\ \A q \in Ret : ret'[q] # None => Returnable(ret[q].qty)'
       /\ SentIsCharged' /\ ReturnedWithinReceived'
  <2>1. CASE split[2] + split[3] = 0 /\ UNCHANGED ret
    <3>1. Kept
      BY <1>7, <1>10, <2>1 DEF Kept
    <3>2. ASSUME NEW q \in Ret, ret'[q] # None PROVE Returnable(ret[q].qty)'
      <4>1. ret'[q] = ret[q] /\ Returnable(ret[q].qty)
        BY <2>1, <3>2 DEF RowsFit
      <4> QED
        BY <3>1, <4>1 DEF Kept, Returnable, Lines
    <3>3. SentIsCharged'
      BY <1>11, <2>1 DEF SentIsCharged
    <3>4. ReturnedWithinReceived'
      BY <1>10, <1>11, <2>1 DEF ReturnedWithinReceived, Cumulative
    <3> QED
      BY <1>2, <2>1, <3>1, <3>2, <3>3, <3>4
  <2>2. CASE AutoReturn(g, x, split[2], split[3], r)
    <3>1. PICK new \in ReturnRow :
            /\ ret' = [ret EXCEPT ![r] = new]
            /\ workers = 1 => Charged(new)
            /\ \A y \in Item :
                 Returned(new, y) = Returned(ret[r], y) + (IF y = x THEN split[2] + split[3] ELSE 0)
            /\ \A l \in Lines : new.qty[l] > 0 =>
                 l[1] = x \/ (ret[r] # None /\ ret[r].qty[l] > 0)
      BY <1>3, <2>2, AutoReturnAfter
    <3>2. new # None
      BY NoneAssumption
    <3>3. Kept
      BY <1>2, <1>7, <1>10, <3>1, <3>2 DEF Kept
    <3>4. \A l \in Lines : new.qty[l] > 0 =>
            item'[l[1]] # None /\ (item'[l[1]].inspected \/ "early" \in Clients)
      <4> SUFFICES ASSUME NEW l \in Lines, new.qty[l] > 0
                   PROVE  item'[l[1]] # None /\ (item'[l[1]].inspected \/ "early" \in Clients)
        OBVIOUS
      <4>1. CASE l[1] = x
        BY <1>8, <1>9, <4>1
      <4>2. CASE ret[r] # None /\ ret[r].qty[l] > 0
        <5>1. l[1] \in Item
          BY DEF Lines
        <5>2. item[l[1]] # None /\ (item[l[1]].inspected \/ "early" \in Clients)
          BY <4>2 DEF RowsFit, Returnable
        <5> QED
          BY <1>10, <5>1, <5>2
      <4> QED
        BY <3>1, <4>1, <4>2
    <3>5. workers = 1 /\ Clients = {} => \A y \in Item : item[y] # None =>
            Cumulative(y, Ret) - Returned(ret[r], y) + Returned(new, y) <= item[y].received
      <4> SUFFICES ASSUME workers = 1, Clients = {}, NEW y \in Item, item[y] # None
                   PROVE  Cumulative(y, Ret) - Returned(ret[r], y) + Returned(new, y)
                            <= item[y].received
        OBVIOUS
      <4>1. Cumulative(y, Ret) \in Nat /\ Cumulative(y, Ret) <= item[y].received
        BY <1>2, CumulativeType DEF ReturnedWithinReceived
      <4>2. item[y].received \in Nat
        <5>1. item[y].received \in Qty
          BY <1>2 DEF ItemRow
        <5> QED
          BY ONLY <5>1, QtyAssumption
      <4>3. Returned(ret[r], y) \in Nat
        BY <1>2, ReturnedType
      <4>4. Returned(new, y) = Returned(ret[r], y) + (IF y = x THEN split[2] + split[3] ELSE 0)
        BY <3>1
      <4>5. CASE y = x
        <5>1. ~item[x].inspected /\ item[x].received = split[1] + split[2] + split[3]
          BY <1>3, <1>4
        <5>2. Cumulative(y, Ret) = 0 /\ Returned(ret[r], y) = 0
          BY <4>5, <5>1, NothingReturned
        <5> QED
          BY <1>3, <4>4, <4>5, <5>1, <5>2
      <4>6. CASE y # x
        BY <4>1, <4>2, <4>3, <4>4, <4>6
      <4> QED
        BY <4>5, <4>6
    <3>6. \A y \in Item : item'[y] # None => item[y] # None /\ item'[y].received = item[y].received
      BY <1>10
    <3> QED
      BY <1>11, <3>1, <3>3, <3>4, <3>5, <3>6, ReturnAfter
  <2> QED
    BY <1>1, <2>1, <2>2
<1>13. RollupsMatch'
  <2> PICK i \in Item : i = x
    BY <1>3
  <2>1. workers = 1 /\ "again" \notin Clients =>
          /\ line'.received = line.received - ReceivedOf(i) + ReceivedOf(i)'
          /\ line'.accepted = line.accepted - AcceptedOf(i) + AcceptedOf(i)'
          /\ line'.damaged_rejected = line.damaged_rejected - TurnedDown(i) + TurnedDown(i)'
    <3> SUFFICES ASSUME workers = 1, "again" \notin Clients
                 PROVE  /\ line'.received = line.received - ReceivedOf(i) + ReceivedOf(i)'
                        /\ line'.accepted = line.accepted - AcceptedOf(i) + AcceptedOf(i)'
                        /\ line'.damaged_rejected
                             = line.damaged_rejected - TurnedDown(i) + TurnedDown(i)'
      OBVIOUS
    <3>1. ReceivedOf(i) = 0 /\ AcceptedOf(i) = 0 /\ TurnedDown(i) = 0
      BY <1>4 DEF ReceivedOf, AcceptedOf, TurnedDown, Inspected
    <3>2. /\ ReceivedOf(i)' = read.received /\ AcceptedOf(i)' = split[1]
          /\ TurnedDown(i)' = split[2] + split[3]
      BY <1>4, <1>8, <1>9 DEF ReceivedOf, AcceptedOf, TurnedDown, Inspected
    <3>3. line.received \in Nat /\ line.accepted \in Nat /\ line.damaged_rejected \in Nat
      BY <1>2 DEF LineRow
    <3>4. /\ line'.received = line.received + read.received
          /\ line'.accepted = line.accepted + split[1]
          /\ line'.damaged_rejected = line.damaged_rejected + split[2] + split[3]
      BY <1>1, <1>4 DEF WriteLine, RolledUp, Column
    <3> QED
      BY <1>3, <3>1, <3>2, <3>3, <3>4
  <2> QED
    BY <1>2, <1>9, <1>11, <2>1, RollupsAfter
<1>14. line' \in LineRow
  <2>1. /\ was.received \in Nat /\ was.accepted \in Nat /\ was.damaged_rejected \in Nat
        /\ line.received \in Nat /\ line.accepted \in Nat /\ line.damaged_rejected \in Nat
    BY <1>2, <1>3 DEF LineRow
  <2>2. read.received \in Nat
    BY <1>3
  <2> QED
    BY <1>1, <1>3, <2>1, <2>2 DEF WriteLine, RolledUp, Column, LineRow
<1>15. /\ level' \in [on_hand : Nat, damaged : Nat] /\ moved' \in Int
       /\ StockIsLedger'
  <2>1. level'.on_hand = level.on_hand + split[1]
    BY <1>1 DEF Posted
  <2>2. level' \in [on_hand : Nat, damaged : Nat] /\ moved' \in Int
    BY <1>1, <1>2, <1>3 DEF Posted
  <2>3. level.on_hand = Stock + moved
    BY DEF StockIsLedger
  <2>4. level'.on_hand = Stock + moved'
    BY <1>1, <1>2, <1>3, <2>1, <2>3, ConfirmedAssumption
  <2> QED
    BY <2>2, <2>4 DEF StockIsLedger
<1>16. TypeOK'
  BY <1>7, <1>9, <1>11, <1>12, <1>14, <1>15 DEF TypeOK
<1>17. RowsFit'
  <2>1. ASSUME NEW y \in Item, item'[y] # None PROVE grn'[item'[y].grn] # None
    <3>1. item[y] # None /\ item'[y].grn = item[y].grn
      BY <1>10, <2>1
    <3>2. item[y].grn \in Grn /\ grn[item[y].grn] # None
      BY <1>2, <3>1 DEF ItemRow, RowsFit
    <3> QED
      BY <1>7, <3>1, <3>2
  <2> QED
    BY <1>12, <2>1 DEF RowsFit
<1>18. \A u \in Txn : RequestFits(u)' /\ Alone(u)'
  BY <1>1, <1>12, RequestsAfter
<1> QED
  BY <1>12, <1>13, <1>15, <1>16, <1>17, <1>18

-----------------------------------------------------------------------------
(* The specification.                                                      *)

LEMMA InitIInv ==
  ASSUME Init
  PROVE  IInv
<1>1. TypeOK
  <2>1. /\ line \in LineRow /\ level \in [on_hand : Nat, damaged : Nat]
        /\ moved \in Int /\ workers \in 1..Cardinality(Txn)
    BY ConfirmedAssumption DEF Init, LineRow
  <2>2. /\ grn \in [Grn -> GrnRow \cup {None}] /\ item \in [Item -> ItemRow \cup {None}]
        /\ ret \in [Ret -> ReturnRow \cup {None}] /\ txn \in [Txn -> Request \cup {None}]
    BY DEF Init
  <2> QED
    BY <2>1, <2>2 DEF TypeOK
<1>2. RowsFit
  BY DEF Init, RowsFit
<1>3. \A t \in Txn : RequestFits(t) /\ Alone(t)
  BY DEF Init, RequestFits, Alone
<1>4. StockIsLedger
  BY ConfirmedAssumption DEF Init, StockIsLedger
<1>5. SentIsCharged /\ ReturnedWithinReceived
  BY DEF Init, SentIsCharged, ReturnedWithinReceived
<1>6. RollupsMatch
  <2> DEFINE f == [x \in Item |-> ReceivedOf(x)]
             g == [x \in Item |-> AcceptedOf(x)]
             h == [x \in Item |-> TurnedDown(x)]
  <2>1. /\ DOMAIN f = Item /\ DOMAIN g = Item /\ DOMAIN h = Item
        /\ \A x \in Item : f[x] = 0 /\ g[x] = 0 /\ h[x] = 0
    BY DEF Init, ReceivedOf, AcceptedOf, TurnedDown, Inspected
  <2>2. line.received = 0 /\ line.accepted = 0 /\ line.damaged_rejected = 0
    BY DEF Init
  <2> HIDE DEF f, g, h
  <2>3. SumFunction(f) = 0 /\ SumFunction(g) = 0 /\ SumFunction(h) = 0
    BY <2>1, RowsAssumption, SumZero
  <2> QED
    BY <2>2, <2>3 DEF RollupsMatch, f, g, h, ReceivedOf, AcceptedOf, TurnedDown
<1> QED
  BY <1>1, <1>2, <1>3, <1>4, <1>5, <1>6 DEF IInv

LEMMA StutterIInv ==
  ASSUME IInv, UNCHANGED vars
  PROVE  IInv'
<1> USE DEF IInv
<1>1. UNCHANGED <<line, grn, item, level, moved, ret, txn, workers>>
  BY DEF vars
<1>2. TypeOK' /\ RowsFit' /\ StockIsLedger' /\ SentIsCharged'
  BY <1>1 DEF TypeOK, RowsFit, Returnable, StockIsLedger, SentIsCharged
<1>3. \A t \in Txn : RequestFits(t)' /\ Alone(t)'
  BY <1>1 DEF RequestFits, Alone, Returnable, ReadRow
<1>4. RollupsMatch' /\ ReturnedWithinReceived'
  BY <1>1 DEF RollupsMatch, ReturnedWithinReceived, Cumulative
<1> QED
  BY <1>2, <1>3, <1>4

LEMMA StepIInv ==
  ASSUME IInv, [Next]_vars
  PROVE  IInv'
<1>1. ASSUME NEW t \in Txn, ReceiptRequests(t)
      PROVE  IInv'
  <2>1. CASE \E op \in HeaderOps, g \in Grn : HeaderRead(t, op, g)
    BY <2>1, HeaderReadIInv
  <2>2. CASE HeaderDone(t)
    BY <2>2, HeaderDoneIInv
  <2>3. CASE \E x \in Item, q \in Qty : AddDone(t, x, q)
    BY <2>3, AddDoneIInv
  <2>4. CASE \E x \in Item : \E a, d \in Qty \cup {0} : DisposeRead(t, x, a, d)
    BY <2>4, DisposeReadIInv
  <2>5. CASE \E r \in Ret : DisposeDone(t, r)
    BY <2>5, DisposeIInv
  <2> QED
    BY <1>1, <2>1, <2>2, <2>3, <2>4, <2>5 DEF ReceiptRequests
<1>2. ASSUME NEW t \in Txn, ReturnRequests(t)
      PROVE  IInv'
  <2>1. CASE \E r \in Ret, op \in ReturnOps : ReturnRead(t, op, r)
    BY <2>1, ReturnReadIInv
  <2>2. CASE StatusDone(t)
    BY <2>2, StatusDoneIInv
  <2>3. CASE DispatchDone(t)
    BY <2>3, DispatchIInv
  <2> QED
    BY <1>2, <2>1, <2>2, <2>3 DEF ReturnRequests
<1>3. ASSUME NEW g \in Grn, NEW x \in Item, NEW q \in Qty, CreateGrn(g, x, q)
      PROVE  IInv'
  BY <1>3, CreateGrnIInv
<1>4. ASSUME NEW r \in Ret, NEW l \in Lines, NEW q \in Qty, CreateReturn(r, l, q)
      PROVE  IInv'
  BY <1>4, CreateReturnIInv
<1>5. ASSUME NEW t \in Txn, Abort(t)
      PROVE  IInv'
  BY <1>5, AbortIInv
<1>6. CASE UNCHANGED vars
  BY <1>6, StutterIInv
<1> QED
  BY <1>1, <1>2, <1>3, <1>4, <1>5, <1>6 DEF Next

\* The inductive invariant of receipts and returns: a request works on rows
\* that stay, goods are inspected before they are returned, and the sums of
\* the order line, the ledger and the returns follow every step.
THEOREM Invariance == Spec => []IInv
<1>1. Init => IInv
  BY InitIInv
<1>2. IInv /\ [Next]_vars => IInv'
  BY StepIInv
<1> QED
  BY <1>1, <1>2, PTL DEF Spec

\* Whatever overlaps, record_disposition and dispatch move the level and the
\* ledger together; one request at a time the order line's rollups are the sums
\* of its inspected receipt lines.
THEOREM ReceiptsAddUp == Spec => []StockAddsUp
<1>1. IInv => StockAddsUp
  BY DEF IInv, StockAddsUp
<1> QED
  BY <1>1, Invariance, PTL

\* One request at a time, dispatch issues one debit note for a return, and
\* nothing of a return that was not sent leaves the stock.
THEOREM ReturnsAreCharged == Spec => []SentIsCharged
<1>1. IInv => SentIsCharged
  BY DEF IInv
<1> QED
  BY <1>1, Invariance, PTL

\* One request at a time, of goods that were inspected once, no more is
\* returned of a receipt line than it received, by hand and by inspection.
THEOREM ReturnsAreReceived == Spec => []ReturnedWithinReceived
<1>1. IInv => ReturnedWithinReceived
  BY DEF IInv
<1> QED
  BY <1>1, Invariance, PTL

=============================================================================
