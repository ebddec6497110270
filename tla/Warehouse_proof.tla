-------------------------- MODULE Warehouse_proof --------------------------
(***************************************************************************)
(* Proofs about Warehouse: for any number of warehouses, documents and     *)
(* requests, the ledger explains what is on hand whatever overlaps, and    *)
(* one request at a time what is in transit and what each document has     *)
(* posted are what the documents say.                                      *)
(***************************************************************************)
EXTENDS Warehouse, SumTheorems

\* Goods move between different warehouses, and what is completed has been
\* counted.
RowsFit ==
    /\ \A x \in Transfer : transfer[x] # None => transfer[x].from # transfer[x].to
    /\ \A c \in Count : count[c] # None /\ count[c].status \in {"COMPLETED", "RECONCILED"}
         => count[c].counted # None

\* Requests work on rows that are there and keep what permitted them; a line
\* that was read as counted is still counted.
RequestFits(t) ==
    /\ txn[t] # None /\ txn[t].op \in TransferOps =>
         /\ transfer[txn[t].transfer] # None
         /\ Permits(txn[t].op, txn[t].status)
    /\ txn[t] # None /\ txn[t].op \in CountOps =>
         /\ count[txn[t].count] # None
         /\ CountPermits(txn[t].op, txn[t].row)
         /\ txn[t].row.counted # None => count[txn[t].count].counted # None
         /\ txn[t].row.status \in {"COMPLETED", "RECONCILED"} => txn[t].row.counted # None

\* What the only open request has read is what there is.
Alone(t) ==
    workers = 1 /\ txn[t] # None =>
        /\ \A u \in Txn : txn[u] # None => u = t
        /\ txn[t].op \in TransferOps => txn[t].status = transfer[txn[t].transfer].status
        /\ txn[t].op \in CountOps => txn[t].row = count[txn[t].count]

\* One request at a time, only what was received has a received quantity, and
\* the flags of a completed count are those of its variance.
TransferFits(row) == row # None /\ row.status # "RECEIVED" => row.received = 0
CountFits(row) ==
    row # None /\ row.status \in {"COMPLETED", "RECONCILED"} =>
        /\ row.flagged = NeedsApproval(row.expected, row.counted)
        /\ row.status = "RECONCILED" /\ row.flagged => row.approved
StatusesFit ==
    workers = 1 =>
        /\ \A x \in Transfer : TransferFits(transfer[x])
        /\ \A c \in Count : CountFits(count[c])

IInv ==
    /\ TypeOK /\ RowsFit
    /\ \A t \in Txn : RequestFits(t) /\ Alone(t)
    /\ StatusesFit
    /\ LedgerAgrees /\ InTransitMatches /\ PostedAsStated

-----------------------------------------------------------------------------
(* Lemmas about the operators.                                             *)

LEMMA Documents == IsFiniteSet(Document)
<1>1. IsFiniteSet({None})
  BY FS_Singleton
<1>2. IsFiniteSet(Transfer \cup Count)
  BY RowsAssumption, FS_Union
<1> QED
  BY <1>1, <1>2, FS_Union DEF Document

LEMMA ByType ==
  ASSUME NEW p, NEW q \in Int
  PROVE  By(p, q) \in [Place -> Int] /\ \A w \in Place : By(p, q)[w] = IF w = p THEN q ELSE 0
BY DEF By

LEMMA OnTheWayType ==
  ASSUME NEW row \in TransferRow \cup {None}, NEW w
  PROVE  OnTheWay(row, w) \in Int /\ Due(row, w) \in Int
<1>1. CASE row = None
  BY <1>1 DEF OnTheWay, Due
<1>2. CASE row # None
  <2>1. row.qty \in Int /\ -row.qty \in Int /\ row.received \in Int
    <3>1. row \in TransferRow
      BY <1>2
    <3>2. row.qty \in Qty /\ row.received \in Nat
      BY <3>1 DEF TransferRow
    <3>3. row.qty \in Nat
      BY <3>2, QtyAssumption
    <3> QED
      BY ONLY <3>2, <3>3
  <2> QED
    BY <2>1 DEF OnTheWay, Due
<1> QED
  BY <1>1, <1>2

\* What posting to the ledger of a document changes, and that the ledger still
\* explains what is on hand.
LEMMA PostAfter ==
  ASSUME TypeOK, LedgerAgrees, NEW d \in Document,
         NEW p \in [Place -> Int], NEW q \in [Place -> Int], Post(d, p, q)
  PROVE  /\ level' \in [Place -> LevelRow]
         /\ ledger' \in [Document -> [Place -> Int]]
         /\ LedgerAgrees'
         /\ \A w \in Place : /\ level'[w].in_transit = level[w].in_transit + q[w]
                             /\ ledger'[d][w] = ledger[d][w] + p[w]
         /\ \A e \in Document \ {d} : ledger'[e] = ledger[e]
<1>1. /\ level \in [Place -> LevelRow]
      /\ ledger \in [Document -> [Place -> Int]]
  BY DEF TypeOK
<1>2. \A w \in Place : level[w].on_hand \in Nat /\ level[w].in_transit \in Nat
  BY <1>1 DEF LevelRow
<1>3. /\ level' = [w \in Place |-> [on_hand |-> level[w].on_hand + p[w],
                                    in_transit |-> level[w].in_transit + q[w]]]
      /\ \A w \in Place : level'[w].on_hand >= 0 /\ level'[w].in_transit >= 0
      /\ ledger' = [ledger EXCEPT ![d] = [w \in Place |-> ledger[d][w] + p[w]]]
  BY DEF Post, Valid
<1>4. level' \in [Place -> LevelRow]
  <2>1. \A w \in Place : level[w].on_hand + p[w] \in Int /\ level[w].in_transit + q[w] \in Int
    BY <1>2
  <2>2. \A w \in Place : level[w].on_hand + p[w] >= 0 /\ level[w].in_transit + q[w] >= 0
    BY <1>3
  <2>3. \A w \in Place : level[w].on_hand + p[w] \in Nat /\ level[w].in_transit + q[w] \in Nat
    BY <2>1, <2>2
  <2> QED
    BY <1>3, <2>3 DEF LevelRow
<1>5. [w \in Place |-> ledger[d][w] + p[w]] \in [Place -> Int]
  BY <1>1
<1>6. ledger' \in [Document -> [Place -> Int]]
  BY ONLY <1>1, <1>3, <1>5
<1>7. \A e \in Document \ {d} : ledger'[e] = ledger[e]
  BY <1>1, <1>3
<1>8. \A w \in Place : ledger'[d][w] = ledger[d][w] + p[w]
  BY <1>1, <1>3
<1>9. LedgerAgrees'
  <2> SUFFICES ASSUME NEW w \in Place
               PROVE  level'[w].on_hand = Stock + SumFunction([e \in Document |-> ledger'[e][w]])
    BY DEF LedgerAgrees, LedgerSum
  <2> DEFINE f == [e \in Document |-> ledger[e][w]]
             g == [e \in Document |-> ledger'[e][w]]
  <2>1. \A e \in Document : f[e] \in Int /\ g[e] \in Int
    BY <1>1, <1>6
  <2>2. \A e \in Document \ {d} : g[e] = f[e]
    BY <1>7
  <2>3. f[d] = ledger[d][w] /\ g[d] = f[d] + p[w]
    BY <1>8
  <2>4. DOMAIN f = Document /\ DOMAIN g = Document
    OBVIOUS
  <2>5. level[w].on_hand = Stock + SumFunction(f)
    BY DEF LedgerAgrees, LedgerSum
  <2>6. level'[w].on_hand = level[w].on_hand + p[w] /\ p[w] \in Int
    BY <1>3
  <2> HIDE DEF f, g
  <2>7. /\ SumFunction(f) \in Int /\ SumFunction(g) \in Int
        /\ SumFunction(g) = SumFunction(f) - f[d] + g[d]
    BY <2>1, <2>2, <2>4, Documents, SumChanges
  <2>8. SumFunction(g) = SumFunction(f) + p[w]
    BY ONLY <2>1, <2>3, <2>6, <2>7
  <2>9. level'[w].on_hand = Stock + SumFunction(g)
    BY ONLY <2>5, <2>6, <2>7, <2>8, StockAssumption
  <2> QED
    BY <2>9 DEF g
<1> QED
  BY <1>3, <1>4, <1>6, <1>7, <1>8, <1>9

\* What is on its way when one transfer changes.
LEMMA InTransitAfter ==
  ASSUME transfer \in [Transfer -> TransferRow \cup {None}],
         transfer' \in [Transfer -> TransferRow \cup {None}],
         NEW x \in Transfer, \A y \in Transfer \ {x} : transfer'[y] = transfer[y],
         NEW w \in Place
  PROVE  /\ InTransit(w) \in Int
         /\ InTransit(w)' = InTransit(w) - OnTheWay(transfer[x], w) + OnTheWay(transfer'[x], w)
<1> DEFINE f == [y \in Transfer |-> OnTheWay(transfer[y], w)]
           g == [y \in Transfer |-> OnTheWay(transfer'[y], w)]
<1>1. \A y \in Transfer : f[y] \in Int /\ g[y] \in Int
  BY OnTheWayType
<1>2. \A y \in Transfer \ {x} : g[y] = f[y]
  OBVIOUS
<1>3. InTransit(w) = SumFunction(f) /\ InTransit(w)' = SumFunction(g)
  BY DEF InTransit
<1>4. /\ DOMAIN f = Transfer /\ DOMAIN g = Transfer
      /\ f[x] = OnTheWay(transfer[x], w) /\ g[x] = OnTheWay(transfer'[x], w)
  OBVIOUS
<1> HIDE DEF f, g
<1> QED
  BY <1>1, <1>2, <1>3, <1>4, RowsAssumption, SumChanges

\* With one worker, a request begins only when none is open.
LEMMA NoneOpen ==
  ASSUME Free, workers = 1, NEW t \in Txn
  PROVE  txn[t] = None
<1> DEFINE Open == {u \in Txn : txn[u] # None}
<1>1. IsFiniteSet(Open)
  BY RowsAssumption, FS_Subset
<1>2. Cardinality(Open) \in Nat /\ Cardinality(Open) < 1
  BY <1>1, FS_CardinalityType DEF Free
<1>3. Open = {}
  BY <1>1, <1>2, FS_EmptySet
<1> QED
  BY <1>3

\* No request is both about a transfer and about a count.
LEMMA Ops == TransferOps \cap CountOps = {}
BY DEF TransferOps, CountOps

LEMMA RequestType ==
  ASSUME NEW e \in Request
  PROVE  /\ e # None
         /\ e.op \in TransferOps \/ e.op \in CountOps
         /\ e.op \in TransferOps => e.transfer \in Transfer /\ e.status \in TransferStatus
         /\ e.op \in CountOps => e.count \in Count /\ e.row \in CountRow
BY Ops, NoneAssumption DEF Request

-----------------------------------------------------------------------------
\* A request that ends leaves the others as they are.
LEMMA EndAfter ==
  ASSUME TypeOK, NEW t \in Txn, End(t)
  PROVE  /\ txn' \in [Txn -> Request \cup {None}] /\ workers' = workers
         /\ txn'[t] = None /\ \A u \in Txn \ {t} : txn'[u] = txn[u]
BY DEF End, TypeOK

\* Requests that stay open, or end, fit as long as the rows are there and what
\* is counted stays so; and with one worker none is left.
LEMMA RequestsAfter ==
  ASSUME TypeOK, \A u \in Txn : RequestFits(u) /\ Alone(u),
         NEW t \in Txn, txn[t] # None, End(t),
         \A x \in Transfer : transfer[x] # None => transfer'[x] # None,
         \A c \in Count : /\ count[c] # None => count'[c] # None
                          /\ count[c] # None /\ count[c].counted # None => count'[c].counted # None
  PROVE  \A u \in Txn : RequestFits(u)' /\ Alone(u)'
<1> SUFFICES ASSUME NEW u \in Txn PROVE RequestFits(u)' /\ Alone(u)'
  OBVIOUS
<1>1. /\ txn'[t] = None /\ \A v \in Txn \ {t} : txn'[v] = txn[v]
      /\ workers' = workers
  BY EndAfter
<1>2. CASE txn'[u] = None
  BY <1>2 DEF RequestFits, Alone
<1>3. CASE txn'[u] # None
  <2>1. u # t /\ txn'[u] = txn[u] /\ txn[u] # None
    BY <1>1, <1>3
  <2>2. workers # 1
    BY <2>1 DEF Alone
  <2>3. Alone(u)'
    BY <1>1, <2>2 DEF Alone
  <2>4. txn[u] \in Request
    BY <2>1 DEF TypeOK
  <2>5. RequestFits(u)'
    BY <2>1, <2>4, RequestType DEF RequestFits
  <2> QED
    BY <2>3, <2>5
<1> QED
  BY <1>2, <1>3

\* A request that fails changes nothing.
LEMMA AbortIInv ==
  ASSUME IInv, NEW t \in Txn, Abort(t)
  PROVE  IInv'
<1> USE DEF IInv
<1>1. /\ UNCHANGED <<level, transfer, count, ledger>> /\ End(t)
      /\ txn' \in [Txn -> Request \cup {None}] /\ workers' = workers
  BY EndAfter DEF Abort, rows
<1>2. TypeOK'
  BY <1>1 DEF TypeOK
<1>3. \A u \in Txn : RequestFits(u)' /\ Alone(u)'
  BY <1>1, RequestsAfter DEF Abort
<1>4. RowsFit' /\ StatusesFit' /\ LedgerAgrees'
  BY <1>1 DEF RowsFit, StatusesFit, LedgerAgrees, LedgerSum
<1>5. InTransitMatches' /\ PostedAsStated'
  BY <1>1 DEF InTransitMatches, InTransit, PostedAsStated
<1> QED
  BY <1>2, <1>3, <1>4, <1>5

\* A request begins with what the rows permit.
LEMMA BeginIInv ==
  ASSUME IInv, NEW t \in Txn, NEW e \in Request, Begin(t, e),
         e.op \in TransferOps => /\ transfer[e.transfer] # None
                                 /\ e.status = transfer[e.transfer].status
                                 /\ Permits(e.op, e.status),
         e.op \in CountOps => /\ count[e.count] # None
                              /\ e.row = count[e.count]
                              /\ CountPermits(e.op, e.row)
  PROVE  IInv'
<1> USE DEF IInv
<1>1. UNCHANGED <<level, transfer, count, ledger>> /\ workers' = workers /\ Free
  BY DEF Begin, rows
<1>2. /\ txn' \in [Txn -> Request \cup {None}]
      /\ txn'[t] = e /\ \A u \in Txn \ {t} : txn'[u] = txn[u]
  BY DEF Begin, TypeOK
<1>3. TypeOK'
  BY <1>1, <1>2 DEF TypeOK
<1>4. RowsFit' /\ StatusesFit' /\ LedgerAgrees'
  BY <1>1 DEF RowsFit, StatusesFit, LedgerAgrees, LedgerSum
<1>5. InTransitMatches' /\ PostedAsStated'
  BY <1>1 DEF InTransitMatches, InTransit, PostedAsStated
<1>6. RequestFits(t)' /\ Alone(t)'
  <2>1. e.op \in TransferOps => e.transfer \in Transfer
    BY RequestType
  <2>2. e.op \in CountOps => e.count \in Count
    BY RequestType
  <2>3. e.op \in CountOps => (e.row.status \in {"COMPLETED", "RECONCILED"} => e.row.counted # None)
    BY <2>2 DEF RowsFit
  <2>4. RequestFits(t)'
    BY <1>1, <1>2, <2>3 DEF RequestFits
  <2>5. workers = 1 => \A u \in Txn \ {t} : txn'[u] = None
    BY <1>1, <1>2, NoneOpen
  <2>6. Alone(t)'
    BY <1>1, <1>2, <2>5 DEF Alone
  <2> QED
    BY <2>4, <2>6
<1>7. ASSUME NEW u \in Txn \ {t} PROVE RequestFits(u)' /\ Alone(u)'
  <2>1. RequestFits(u)'
    BY <1>1, <1>2 DEF RequestFits
  <2>2. workers = 1 => txn'[u] = None
    BY <1>1, <1>2, NoneOpen
  <2>3. Alone(u)'
    BY <1>1, <2>2 DEF Alone
  <2> QED
    BY <2>1, <2>3
<1> QED
  BY <1>3, <1>4, <1>5, <1>6, <1>7

-----------------------------------------------------------------------------
(* Transfers.                                                              *)

\* One transfer changes, and with one worker what is in transit and in the
\* ledger follow it.
LEMMA TransferDone ==
  ASSUME IInv, NEW t \in Txn, txn[t] # None, End(t),
         NEW x \in Transfer, transfer[x] # None,
         NEW new \in TransferRow, transfer' = [transfer EXCEPT ![x] = new],
         new.from = transfer[x].from, new.to = transfer[x].to,
         level' \in [Place -> LevelRow], ledger' \in [Document -> [Place -> Int]],
         LedgerAgrees', UNCHANGED count,
         \A d \in Document \ {x} : ledger'[d] = ledger[d],
         workers = 1 => /\ TransferFits(new)
                        /\ \A w \in Place :
                             /\ level'[w].in_transit = level[w].in_transit
                                  - OnTheWay(transfer[x], w) + OnTheWay(new, w)
                             /\ ledger'[x][w] = Due(new, w)
  PROVE  IInv'
<1> USE DEF IInv
<1>1. transfer \in [Transfer -> TransferRow \cup {None}]
  BY DEF TypeOK
<1>2. /\ transfer' \in [Transfer -> TransferRow \cup {None}]
      /\ transfer'[x] = new /\ \A y \in Transfer \ {x} : transfer'[y] = transfer[y]
  BY <1>1
<1>3. txn' \in [Txn -> Request \cup {None}] /\ workers' = workers
  BY EndAfter
<1>4. TypeOK'
  BY <1>2, <1>3 DEF TypeOK
<1>5. new # None
  BY NoneAssumption
<1>6. RowsFit'
  BY <1>2, <1>5 DEF RowsFit
<1>7. \A u \in Txn : RequestFits(u)' /\ Alone(u)'
  <2>1. \A y \in Transfer : transfer[y] # None => transfer'[y] # None
    BY <1>2, <1>5
  <2> QED
    BY <2>1, RequestsAfter
<1>8. StatusesFit'
  BY <1>2, <1>3 DEF StatusesFit
<1>9. InTransitMatches'
  <2> SUFFICES ASSUME workers = 1, NEW w \in Place
               PROVE  level'[w].in_transit = InTransit(w)'
    BY <1>3 DEF InTransitMatches
  <2>1. /\ InTransit(w) \in Int
        /\ InTransit(w)' = InTransit(w) - OnTheWay(transfer[x], w) + OnTheWay(transfer'[x], w)
    BY <1>1, <1>2, InTransitAfter
  <2>2. level[w].in_transit = InTransit(w)
    BY DEF InTransitMatches
  <2> QED
    BY <1>2, <2>1, <2>2
<1>10. PostedAsStated'
  <2> SUFFICES ASSUME workers = 1
               PROVE  /\ \A y \in Transfer, w \in Place : ledger'[y][w] = Due(transfer'[y], w)
                      /\ \A c \in Count, w \in Place : ledger'[c][w] = Variance(count'[c], w)
    BY <1>3 DEF PostedAsStated
  <2>1. \A y \in Transfer, w \in Place : ledger'[y][w] = Due(transfer'[y], w)
    BY <1>2 DEF PostedAsStated, Document
  <2>2. \A c \in Count, w \in Place : ledger'[c][w] = Variance(count'[c], w)
    BY RowsAssumption DEF PostedAsStated, Document
  <2> QED
    BY <2>1, <2>2
<1> QED
  BY <1>4, <1>6, <1>7, <1>8, <1>9, <1>10

\* What a request about a transfer finds when it commits.
LEMMA OpenTransfer ==
  ASSUME IInv, NEW t \in Txn, txn[t] # None, txn[t].op \in TransferOps,
         NEW x, x = txn[t].transfer
  PROVE  /\ x \in Transfer /\ transfer[x] # None /\ transfer[x] \in TransferRow
         /\ transfer[x].from \in Place /\ transfer[x].to \in Place
         /\ transfer[x].from # transfer[x].to
         /\ transfer[x].qty \in Nat \ {0} /\ transfer[x].received \in Nat
         /\ Permits(txn[t].op, txn[t].status)
         /\ workers = 1 => /\ transfer[x].status = txn[t].status
                           /\ TransferFits(transfer[x])
                           /\ \A w \in Place : /\ ledger[x][w] = Due(transfer[x], w)
                                               /\ ledger[x][w] \in Int
                                               /\ level[w].in_transit \in Int
<1> USE DEF IInv
<1>1. txn[t] \in Request
  BY DEF TypeOK
<1>2. x \in Transfer /\ transfer[x] # None /\ Permits(txn[t].op, txn[t].status)
  BY <1>1, RequestType DEF RequestFits
<1>3. transfer[x] \in TransferRow
  BY <1>2 DEF TypeOK
<1>4. /\ transfer[x].from \in Place /\ transfer[x].to \in Place
      /\ transfer[x].qty \in Qty /\ transfer[x].received \in Nat
  BY <1>3 DEF TransferRow
<1>5. transfer[x].qty \in Nat \ {0} /\ transfer[x].from # transfer[x].to
  BY <1>2, <1>4, QtyAssumption DEF RowsFit
<1>6. workers = 1 => transfer[x].status = txn[t].status /\ TransferFits(transfer[x])
  BY <1>2 DEF Alone, StatusesFit
<1>7. workers = 1 => \A w \in Place : ledger[x][w] = Due(transfer[x], w)
  BY <1>2 DEF PostedAsStated
<1>8. \A w \in Place : ledger[x][w] \in Int /\ level[w].in_transit \in Int
  BY <1>2 DEF TypeOK, Document, LevelRow
<1> QED
  BY <1>2, <1>3, <1>4, <1>5, <1>6, <1>7, <1>8

LEMMA ApproveIInv ==
  ASSUME IInv, NEW t \in Txn, ApproveDone(t)
  PROVE  IInv'
<1> DEFINE x == txn[t].transfer
           new == [transfer[x] EXCEPT !.status = "APPROVED"]
<1>1. /\ txn[t] # None /\ txn[t].op = "approve" /\ txn[t].op \in TransferOps
      /\ transfer' = [transfer EXCEPT ![x] = new]
      /\ End(t) /\ UNCHANGED <<level, count, ledger>>
  BY DEF ApproveDone, Is, Ends, TransferOps
<1>2. /\ x \in Transfer /\ transfer[x] # None /\ transfer[x] \in TransferRow
      /\ Permits(txn[t].op, txn[t].status)
      /\ workers = 1 => /\ transfer[x].status = txn[t].status
                        /\ TransferFits(transfer[x])
                        /\ \A w \in Place : /\ ledger[x][w] = Due(transfer[x], w)
                                            /\ level[w].in_transit \in Int
  BY <1>1, OpenTransfer
<1>3. /\ new \in TransferRow /\ new.status = "APPROVED"
      /\ new.from = transfer[x].from /\ new.to = transfer[x].to
      /\ new.received = transfer[x].received
  BY <1>2 DEF TransferRow, TransferStatus
<1>4. workers = 1 => transfer[x].status = "DRAFT"
  BY <1>1, <1>2 DEF Permits
<1>5. workers = 1 => \A w \in Place : /\ OnTheWay(transfer[x], w) = 0 /\ OnTheWay(new, w) = 0
                                      /\ Due(transfer[x], w) = 0 /\ Due(new, w) = 0
  BY <1>3, <1>4 DEF OnTheWay, Due
<1>6. workers = 1 => TransferFits(new)
  BY <1>2, <1>3, <1>4 DEF TransferFits
<1>7. /\ level' \in [Place -> LevelRow] /\ ledger' \in [Document -> [Place -> Int]]
      /\ LedgerAgrees' /\ \A d \in Document \ {x} : ledger'[d] = ledger[d]
  BY <1>1 DEF IInv, TypeOK, LedgerAgrees, LedgerSum
<1>8. workers = 1 => \A w \in Place :
        /\ level'[w].in_transit = level[w].in_transit - OnTheWay(transfer[x], w) + OnTheWay(new, w)
        /\ ledger'[x][w] = Due(new, w)
  BY <1>1, <1>2, <1>5
<1> HIDE DEF x, new
<1> QED
  BY <1>1, <1>2, <1>3, <1>6, <1>7, <1>8, TransferDone

LEMMA DispatchIInv ==
  ASSUME IInv, NEW t \in Txn, DispatchDone(t)
  PROVE  IInv'
<1> DEFINE x == txn[t].transfer
           new == [transfer[x] EXCEPT !.status = "IN_TRANSIT"]
           from == transfer[x].from
           q == transfer[x].qty
<1>1. /\ txn[t] # None /\ txn[t].op = "dispatch" /\ txn[t].op \in TransferOps
      /\ Post(x, By(from, -q), By(from, q))
      /\ transfer' = [transfer EXCEPT ![x] = new]
      /\ End(t) /\ UNCHANGED count
  BY DEF DispatchDone, Is, Ends, TransferOps
<1>2. /\ x \in Transfer /\ transfer[x] # None /\ transfer[x] \in TransferRow
      /\ from # transfer[x].to /\ q \in Nat
      /\ Permits(txn[t].op, txn[t].status)
      /\ workers = 1 => /\ transfer[x].status = txn[t].status
                        /\ TransferFits(transfer[x])
                        /\ \A w \in Place : /\ ledger[x][w] = Due(transfer[x], w)
                                            /\ level[w].in_transit \in Int
  BY <1>1, OpenTransfer
<1>3. /\ new \in TransferRow /\ new.status = "IN_TRANSIT"
      /\ new.from = from /\ new.to = transfer[x].to /\ new.qty = q
      /\ new.received = transfer[x].received
  BY <1>2 DEF TransferRow, TransferStatus
<1>4. workers = 1 => transfer[x].status = "APPROVED"
  BY <1>1, <1>2 DEF Permits
<1>5. workers = 1 => new.received = 0 /\ TransferFits(new)
  BY <1>2, <1>3, <1>4 DEF TransferFits
<1>6. new # None
  BY <1>3, NoneAssumption
<1>7. workers = 1 => \A w \in Place :
        /\ OnTheWay(transfer[x], w) = 0 /\ OnTheWay(new, w) = IF w = from THEN q ELSE 0
        /\ Due(transfer[x], w) = 0 /\ Due(new, w) = IF w = from THEN -q ELSE 0
  BY <1>3, <1>4, <1>5, <1>6 DEF OnTheWay, Due
<1>8. /\ By(from, -q) \in [Place -> Int] /\ By(from, q) \in [Place -> Int]
      /\ \A w \in Place : /\ By(from, -q)[w] = IF w = from THEN -q ELSE 0
                          /\ By(from, q)[w] = IF w = from THEN q ELSE 0
  <2>1. -q \in Int /\ q \in Int
    BY <1>2
  <2> HIDE DEF q, from
  <2> QED
    BY <2>1, ByType
<1>9. TypeOK /\ LedgerAgrees /\ x \in Document
  BY <1>2 DEF IInv, Document
<1> HIDE DEF x, new, from, q
<1>10. /\ level' \in [Place -> LevelRow] /\ ledger' \in [Document -> [Place -> Int]]
       /\ LedgerAgrees'
       /\ \A w \in Place : /\ level'[w].in_transit = level[w].in_transit + By(from, q)[w]
                           /\ ledger'[x][w] = ledger[x][w] + By(from, -q)[w]
       /\ \A d \in Document \ {x} : ledger'[d] = ledger[d]
  BY <1>1, <1>8, <1>9, PostAfter
<1>11. workers = 1 => \A w \in Place :
         /\ level'[w].in_transit = level[w].in_transit - OnTheWay(transfer[x], w) + OnTheWay(new, w)
         /\ ledger'[x][w] = Due(new, w)
  BY ONLY <1>2, <1>7, <1>8, <1>10
<1>12. new.from = transfer[x].from
  BY <1>3 DEF from
<1> QED
  BY <1>1, <1>2, <1>3, <1>5, <1>10, <1>11, <1>12, TransferDone

LEMMA ReceiveIInv ==
  ASSUME IInv, NEW t \in Txn, NEW r \in Qty \cup {0}, ReceiveDone(t, r)
  PROVE  IInv'
<1> DEFINE x == txn[t].transfer
           new == [transfer[x] EXCEPT !.status = "RECEIVED", !.received = r]
           from == transfer[x].from
           to == transfer[x].to
           q == transfer[x].qty
<1>1. /\ txn[t] # None /\ txn[t].op = "receive" /\ txn[t].op \in TransferOps
      /\ Post(x, By(to, r), By(from, -q))
      /\ transfer' = [transfer EXCEPT ![x] = new]
      /\ End(t) /\ UNCHANGED count
  BY DEF ReceiveDone, Arrival, Is, TransferOps
<1>2. /\ x \in Transfer /\ transfer[x] # None /\ transfer[x] \in TransferRow
      /\ from # to /\ q \in Nat /\ r \in Nat
      /\ Permits(txn[t].op, txn[t].status)
      /\ workers = 1 => /\ transfer[x].status = txn[t].status
                        /\ TransferFits(transfer[x])
                        /\ \A w \in Place : /\ ledger[x][w] = Due(transfer[x], w)
                                            /\ level[w].in_transit \in Int
  BY <1>1, OpenTransfer, QtyAssumption
<1>3. /\ new \in TransferRow /\ new.status = "RECEIVED"
      /\ new.from = from /\ new.to = to /\ new.qty = q /\ new.received = r
  BY <1>2 DEF TransferRow, TransferStatus
<1>4. workers = 1 => transfer[x].status = "IN_TRANSIT" /\ transfer[x].received = 0
  BY <1>1, <1>2 DEF Permits, TransferFits
<1>5. TransferFits(new)
  BY <1>3 DEF TransferFits
<1>6. new # None
  BY <1>3, NoneAssumption
<1>7. workers = 1 => \A w \in Place :
        /\ OnTheWay(transfer[x], w) = IF w = from THEN q ELSE 0
        /\ OnTheWay(new, w) = 0
        /\ Due(transfer[x], w) = IF w = from THEN -q ELSE 0
        /\ Due(new, w) = IF w = from THEN -q ELSE IF w = to THEN r ELSE 0
  BY <1>2, <1>3, <1>4, <1>6 DEF OnTheWay, Due
<1>8. /\ By(to, r) \in [Place -> Int] /\ By(from, -q) \in [Place -> Int]
      /\ \A w \in Place : /\ By(to, r)[w] = IF w = to THEN r ELSE 0
                          /\ By(from, -q)[w] = IF w = from THEN -q ELSE 0
  <2>1. -q \in Int /\ r \in Int
    BY <1>2
  <2> HIDE DEF q, from, to
  <2> QED
    BY <2>1, ByType
<1>9. TypeOK /\ LedgerAgrees /\ x \in Document
  BY <1>2 DEF IInv, Document
<1> HIDE DEF x, new, from, to, q
<1>10. /\ level' \in [Place -> LevelRow] /\ ledger' \in [Document -> [Place -> Int]]
       /\ LedgerAgrees'
       /\ \A w \in Place : /\ level'[w].in_transit = level[w].in_transit + By(from, -q)[w]
                           /\ ledger'[x][w] = ledger[x][w] + By(to, r)[w]
       /\ \A d \in Document \ {x} : ledger'[d] = ledger[d]
  BY <1>1, <1>8, <1>9, PostAfter
<1>11. workers = 1 => \A w \in Place :
         /\ level'[w].in_transit = level[w].in_transit - OnTheWay(transfer[x], w) + OnTheWay(new, w)
         /\ ledger'[x][w] = Due(new, w)
  BY ONLY <1>2, <1>7, <1>8, <1>10
<1>12. new.from = transfer[x].from /\ new.to = transfer[x].to
  BY <1>3 DEF from, to
<1> QED
  BY <1>1, <1>2, <1>3, <1>5, <1>10, <1>11, <1>12, TransferDone

\* Cancelling takes back what is on its way, and nothing else.
LEMMA CancelIInv ==
  ASSUME IInv, NEW t \in Txn, CancelDone(t)
  PROVE  IInv'
<1> DEFINE x == txn[t].transfer
           new == [transfer[x] EXCEPT !.status = "CANCELLED"]
           from == transfer[x].from
           to == transfer[x].to
           q == transfer[x].qty
<1>1. /\ txn[t] # None /\ txn[t].op = "cancel" /\ txn[t].op \in TransferOps
      /\ IF txn[t].status = "IN_TRANSIT" THEN Post(x, By(from, q), By(from, -q))
         ELSE UNCHANGED <<level, ledger>>
      /\ transfer' = [transfer EXCEPT ![x] = new]
      /\ End(t) /\ UNCHANGED count
  BY DEF CancelDone, Is, Ends, TransferOps
<1>2. /\ x \in Transfer /\ transfer[x] # None /\ transfer[x] \in TransferRow
      /\ from # to /\ q \in Nat
      /\ Permits(txn[t].op, txn[t].status)
      /\ workers = 1 => /\ transfer[x].status = txn[t].status
                        /\ TransferFits(transfer[x])
                        /\ \A w \in Place : /\ ledger[x][w] = Due(transfer[x], w)
                                            /\ level[w].in_transit \in Int
  BY <1>1, OpenTransfer
<1>3. /\ new \in TransferRow /\ new.status = "CANCELLED"
      /\ new.from = from /\ new.to = to /\ new.qty = q
      /\ new.received = transfer[x].received
  BY <1>2 DEF TransferRow, TransferStatus
<1>4. workers = 1 => transfer[x].status \notin FAILING_STATES /\ transfer[x].received = 0
  BY <1>1, <1>2 DEF Permits, TransferFits, FAILING_STATES
<1>5. workers = 1 => TransferFits(new)
  BY <1>3, <1>4 DEF TransferFits
<1>6. \A w \in Place : OnTheWay(new, w) = 0 /\ Due(new, w) = 0
  BY <1>3 DEF OnTheWay, Due
<1>7. new.from = transfer[x].from /\ new.to = transfer[x].to
  BY <1>3
<1>8. TypeOK /\ LedgerAgrees /\ x \in Document
  BY <1>2 DEF IInv, Document
<1>9. CASE txn[t].status = "IN_TRANSIT"
  <2>1. workers = 1 => \A w \in Place :
          /\ OnTheWay(transfer[x], w) = IF w = from THEN q ELSE 0
          /\ Due(transfer[x], w) = IF w = from THEN -q ELSE 0
    BY <1>2, <1>4, <1>9 DEF OnTheWay, Due
  <2>2. /\ By(from, q) \in [Place -> Int] /\ By(from, -q) \in [Place -> Int]
        /\ \A w \in Place : /\ By(from, q)[w] = IF w = from THEN q ELSE 0
                            /\ By(from, -q)[w] = IF w = from THEN -q ELSE 0
    <3>1. -q \in Int /\ q \in Int
      BY <1>2
    <3> HIDE DEF q, from
    <3> QED
      BY <3>1, ByType
  <2> HIDE DEF x, new, from, to, q
  <2>3. /\ level' \in [Place -> LevelRow] /\ ledger' \in [Document -> [Place -> Int]]
        /\ LedgerAgrees'
        /\ \A w \in Place : /\ level'[w].in_transit = level[w].in_transit + By(from, -q)[w]
                            /\ ledger'[x][w] = ledger[x][w] + By(from, q)[w]
        /\ \A d \in Document \ {x} : ledger'[d] = ledger[d]
    BY <1>1, <1>8, <1>9, <2>2, PostAfter
  <2>4. workers = 1 => \A w \in Place :
          /\ level'[w].in_transit = level[w].in_transit - OnTheWay(transfer[x], w) + OnTheWay(new, w)
          /\ ledger'[x][w] = Due(new, w)
    BY ONLY <1>2, <1>6, <2>1, <2>2, <2>3
  <2> QED
    BY <1>1, <1>2, <1>3, <1>5, <1>7, <2>3, <2>4, TransferDone
<1>10. CASE txn[t].status # "IN_TRANSIT"
  <2>1. UNCHANGED <<level, ledger>>
    BY <1>1, <1>10
  <2>2. workers = 1 => \A w \in Place : OnTheWay(transfer[x], w) = 0 /\ Due(transfer[x], w) = 0
    BY <1>2, <1>4, <1>10 DEF OnTheWay, Due, FAILING_STATES
  <2>3. /\ level' \in [Place -> LevelRow] /\ ledger' \in [Document -> [Place -> Int]]
        /\ LedgerAgrees' /\ \A d \in Document \ {x} : ledger'[d] = ledger[d]
    BY <1>8, <2>1 DEF TypeOK, LedgerAgrees, LedgerSum
  <2>4. workers = 1 => \A w \in Place :
          /\ level'[w].in_transit = level[w].in_transit - OnTheWay(transfer[x], w) + OnTheWay(new, w)
          /\ ledger'[x][w] = Due(new, w)
    BY <1>2, <1>6, <2>1, <2>2
  <2> HIDE DEF x, new, from, to, q
  <2> QED
    BY <1>1, <1>2, <1>3, <1>5, <1>7, <2>3, <2>4, TransferDone
<1> QED
  BY <1>9, <1>10

LEMMA TransferReadIInv ==
  ASSUME IInv, NEW t \in Txn, NEW x \in Transfer, NEW op \in TransferOps, TransferRead(t, op, x)
  PROVE  IInv'
<1> DEFINE e == [op |-> op, transfer |-> x, status |-> transfer[x].status]
<1>1. transfer[x] # None /\ Permits(op, transfer[x].status) /\ Begin(t, e)
  BY DEF TransferRead
<1>2. transfer[x].status \in TransferStatus
  BY <1>1 DEF IInv, TypeOK, TransferRow
<1>3. e \in Request
  BY <1>2 DEF Request
<1>4. e.op = op /\ e.transfer = x /\ e.status = transfer[x].status
  OBVIOUS
<1>5. e.op \notin CountOps
  BY Ops
<1> HIDE DEF e
<1> QED
  BY <1>1, <1>3, <1>4, <1>5, BeginIInv

\* A new transfer is a draft: nothing has moved.
LEMMA CreateTransferIInv ==
  ASSUME IInv, NEW x \in Transfer, NEW from \in Place, NEW to \in Place, NEW q \in Qty,
         CreateTransfer(x, from, to, q)
  PROVE  IInv'
<1> USE DEF IInv
<1> DEFINE new == [status |-> "DRAFT", from |-> from, to |-> to, qty |-> q, received |-> 0]
<1>1. /\ Free /\ transfer[x] = None /\ from # to
      /\ transfer' = [transfer EXCEPT ![x] = new]
      /\ UNCHANGED <<level, count, ledger, txn, workers>>
  BY DEF CreateTransfer
<1>2. /\ new \in TransferRow /\ new.from # new.to /\ new.received = 0
      /\ \A w : OnTheWay(new, w) = 0 /\ Due(new, w) = 0
  BY <1>1 DEF TransferRow, TransferStatus, OnTheWay, Due
<1>3. \A w : OnTheWay(transfer[x], w) = 0 /\ Due(transfer[x], w) = 0
  BY <1>1 DEF OnTheWay, Due
<1> HIDE DEF new
<1>4. transfer \in [Transfer -> TransferRow \cup {None}]
  BY DEF TypeOK
<1>5. /\ transfer' \in [Transfer -> TransferRow \cup {None}]
      /\ transfer'[x] = new /\ \A y \in Transfer \ {x} : transfer'[y] = transfer[y]
      /\ new # None
  BY <1>1, <1>2, <1>4, NoneAssumption
<1>6. TypeOK'
  BY <1>1, <1>5 DEF TypeOK
<1>7. RowsFit' /\ LedgerAgrees'
  BY <1>1, <1>2, <1>5 DEF RowsFit, LedgerAgrees, LedgerSum
<1>8. ASSUME NEW u \in Txn PROVE RequestFits(u)' /\ Alone(u)'
  <2>1. txn[u] # None /\ txn[u].op \in TransferOps =>
          txn[u].transfer \in Transfer /\ txn[u].transfer # x
    BY <1>1, RequestType DEF TypeOK, RequestFits
  <2>2. RequestFits(u)'
    BY <1>1, <1>5, <2>1 DEF RequestFits
  <2>3. Alone(u)'
    BY <1>1, <1>5, <2>1 DEF Alone
  <2> QED
    BY <2>2, <2>3
<1>9. StatusesFit'
  BY <1>1, <1>2, <1>5 DEF StatusesFit, TransferFits
<1>10. InTransitMatches'
  <2> SUFFICES ASSUME workers = 1, NEW w \in Place
               PROVE  level[w].in_transit = InTransit(w)'
    BY <1>1 DEF InTransitMatches
  <2>1. /\ InTransit(w) \in Int
        /\ InTransit(w)' = InTransit(w) - OnTheWay(transfer[x], w) + OnTheWay(transfer'[x], w)
    BY <1>4, <1>5, InTransitAfter
  <2>2. level[w].in_transit = InTransit(w)
    BY DEF InTransitMatches
  <2> QED
    BY <1>2, <1>3, <1>5, <2>1, <2>2
<1>11. PostedAsStated'
  <2> SUFFICES ASSUME workers = 1, NEW y \in Transfer, NEW w \in Place
               PROVE  ledger[y][w] = Due(transfer'[y], w)
    BY <1>1 DEF PostedAsStated
  <2> QED
    BY <1>2, <1>3, <1>5 DEF PostedAsStated
<1> QED
  BY <1>6, <1>7, <1>8, <1>9, <1>10, <1>11

-----------------------------------------------------------------------------
(* Counts.                                                                 *)

LEMMA ColumnIs ==
  ASSUME NEW S, NEW new \in S, NEW read, NEW now \in S
  PROVE  /\ Column(new, read, now) \in S
         /\ new # read => Column(new, read, now) = new
         /\ new = read => Column(new, read, now) = now
BY DEF Column

\* What a request about a count finds when it commits.
LEMMA OpenCount ==
  ASSUME IInv, NEW t \in Txn, txn[t] # None, txn[t].op \in CountOps,
         NEW c, c = txn[t].count, NEW read, read = txn[t].row
  PROVE  /\ c \in Count /\ count[c] # None /\ count[c] \in CountRow /\ read \in CountRow
         /\ CountPermits(txn[t].op, read)
         /\ read.counted # None => count[c].counted # None
         /\ read.status \in {"COMPLETED", "RECONCILED"} => read.counted # None
         /\ workers = 1 => /\ read = count[c] /\ CountFits(read)
                           /\ \A w \in Place : ledger[c][w] = Variance(read, w)
<1> USE DEF IInv
<1>1. txn[t] \in Request
  BY DEF TypeOK
<1>2. c \in Count /\ read \in CountRow
  BY <1>1, RequestType
<1>3. /\ count[c] # None /\ CountPermits(txn[t].op, read)
      /\ read.counted # None => count[c].counted # None
      /\ read.status \in {"COMPLETED", "RECONCILED"} => read.counted # None
  BY DEF RequestFits
<1>4. count[c] \in CountRow
  BY <1>2, <1>3 DEF TypeOK
<1>5. workers = 1 => read = count[c]
  BY DEF Alone
<1>6. CountFits(count[c]) \/ workers # 1
  BY <1>2 DEF StatusesFit
<1>7. workers = 1 => \A w \in Place : ledger[c][w] = Variance(count[c], w)
  BY <1>2 DEF PostedAsStated
<1> QED
  BY <1>2, <1>3, <1>4, <1>5, <1>6, <1>7

\* What writing a row that was read, with some columns changed, leaves.
LEMMA WriteCountAfter ==
  ASSUME TypeOK, NEW t \in Txn, NEW c \in Count, c = txn[t].count,
         NEW read, read = txn[t].row, count[c] \in CountRow,
         NEW new \in CountRow, WriteCount(t, new)
  PROVE  /\ count' \in [Count -> CountRow \cup {None}]
         /\ count'[c] \in CountRow
         /\ \A d \in Count \ {c} : count'[d] = count[d]
         /\ count'[c].place = count[c].place /\ count'[c].expected = count[c].expected
         /\ count'[c].status = Column(new.status, read.status, count[c].status)
         /\ count'[c].counted = Column(new.counted, read.counted, count[c].counted)
         /\ count'[c].flagged = Column(new.flagged, read.flagged, count[c].flagged)
         /\ count'[c].approved = Column(new.approved, read.approved, count[c].approved)
<1> DEFINE now == count[c]
           s == Column(new.status, read.status, now.status)
           n == Column(new.counted, read.counted, now.counted)
           f == Column(new.flagged, read.flagged, now.flagged)
           a == Column(new.approved, read.approved, now.approved)
           row == [now EXCEPT !.status = s, !.counted = n, !.flagged = f, !.approved = a]
<1>1. count' = [count EXCEPT ![c] = row]
  BY DEF WriteCount
<1>2. now \in CountRow
  OBVIOUS
<1>3. s \in StockCountStatus /\ n \in Counted \cup {None}
  BY <1>2 DEF CountRow, Column
<1>4. f \in BOOLEAN
  BY <1>2 DEF CountRow, Column
<1>5. a \in BOOLEAN
  BY <1>2 DEF CountRow, Column
<1>6. count \in [Count -> CountRow \cup {None}]
  BY DEF TypeOK
<1> HIDE DEF now, s, n, f, a
<1>7. row \in CountRow
  <2> DEFINE row1 == [now EXCEPT !.status = s]
             row2 == [row1 EXCEPT !.counted = n]
             row3 == [row2 EXCEPT !.flagged = f]
             row4 == [row3 EXCEPT !.approved = a]
  <2>1. row1 \in CountRow
    BY ONLY <1>2, <1>3 DEF CountRow
  <2> HIDE DEF row1
  <2>2. row2 \in CountRow
    BY ONLY <2>1, <1>3 DEF CountRow
  <2> HIDE DEF row2
  <2>3. row3 \in CountRow
    BY ONLY <2>2, <1>4 DEF CountRow
  <2> HIDE DEF row3
  <2>4. row4 \in CountRow
    BY ONLY <2>3, <1>5 DEF CountRow
  <2>5. row = row4
    BY ONLY <1>2 DEF row1, row2, row3, CountRow
  <2> QED
    BY <2>4, <2>5
<1>8. /\ row.place = now.place /\ row.expected = now.expected
      /\ row.status = s /\ row.counted = n
  BY ONLY <1>2 DEF CountRow
<1>9. row.flagged = f /\ row.approved = a
  BY ONLY <1>2 DEF CountRow
<1> HIDE DEF row
<1>10. /\ count' \in [Count -> CountRow \cup {None}]
       /\ count'[c] = row /\ \A d \in Count \ {c} : count'[d] = count[d]
  BY <1>1, <1>6, <1>7
<1> QED
  BY <1>7, <1>8, <1>9, <1>10 DEF now, s, n, f, a

\* One count changes, and with one worker the ledger follows it.
LEMMA CountDone ==
  ASSUME IInv, NEW t \in Txn, txn[t] # None, txn[t].op \in CountOps, End(t),
         NEW c, c = txn[t].count, NEW read, read = txn[t].row,
         NEW new \in CountRow, WriteCount(t, new),
         new.place = read.place, new.expected = read.expected,
         new.counted = read.counted \/ new.counted # None,
         new.status \in {"COMPLETED", "RECONCILED"} => new.counted # None,
         level' \in [Place -> LevelRow], ledger' \in [Document -> [Place -> Int]],
         LedgerAgrees', UNCHANGED transfer,
         \A d \in Document \ {c} : ledger'[d] = ledger[d],
         workers = 1 => /\ CountFits(new)
                        /\ \A w \in Place : /\ level'[w].in_transit = level[w].in_transit
                                            /\ ledger'[c][w] = Variance(new, w)
  PROVE  IInv'
<1> USE DEF IInv
<1>1. /\ c \in Count /\ count[c] # None /\ count[c] \in CountRow /\ read \in CountRow
      /\ read.counted # None => count[c].counted # None
      /\ workers = 1 => read = count[c]
  BY OpenCount
<1>2. /\ count' \in [Count -> CountRow \cup {None}]
      /\ count'[c] \in CountRow
      /\ \A d \in Count \ {c} : count'[d] = count[d]
      /\ count'[c].place = count[c].place /\ count'[c].expected = count[c].expected
      /\ count'[c].status = Column(new.status, read.status, count[c].status)
      /\ count'[c].counted = Column(new.counted, read.counted, count[c].counted)
      /\ count'[c].flagged = Column(new.flagged, read.flagged, count[c].flagged)
      /\ count'[c].approved = Column(new.approved, read.approved, count[c].approved)
  BY <1>1, WriteCountAfter
<1>3. txn' \in [Txn -> Request \cup {None}] /\ workers' = workers
  BY EndAfter
<1>4. TypeOK'
  BY <1>2, <1>3 DEF TypeOK
<1>5. count'[c] # None
  BY <1>2, NoneAssumption
<1>6. count[c].counted # None => count'[c].counted # None
  BY <1>2 DEF Column
<1>7. count'[c].status \in {"COMPLETED", "RECONCILED"} => count'[c].counted # None
  <2> SUFFICES ASSUME count'[c].status \in {"COMPLETED", "RECONCILED"}
               PROVE  count'[c].counted # None
    OBVIOUS
  <2>1. CASE new.status = read.status
    <3>1. count'[c].status = count[c].status
      BY <1>2, <2>1 DEF Column
    <3>2. count[c].counted # None
      BY <1>1, <3>1 DEF RowsFit
    <3> QED
      BY <1>6, <3>2
  <2>2. CASE new.status # read.status
    <3>1. count'[c].status = new.status
      BY <1>2, <2>2 DEF Column
    <3>2. new.counted # None
      BY <3>1
    <3> QED
      BY <1>1, <1>2, <3>2 DEF Column
  <2> QED
    BY <2>1, <2>2
<1>8. RowsFit'
  BY <1>2, <1>7 DEF RowsFit
<1>9. \A u \in Txn : RequestFits(u)' /\ Alone(u)'
  <2>1. \A d \in Count : /\ count[d] # None => count'[d] # None
                         /\ count[d] # None /\ count[d].counted # None => count'[d].counted # None
    BY <1>2, <1>5, <1>6
  <2> QED
    BY <2>1, RequestsAfter
<1>10. workers = 1 =>
         /\ count'[c].status = new.status /\ count'[c].counted = new.counted
         /\ count'[c].flagged = new.flagged /\ count'[c].approved = new.approved
         /\ count'[c].place = new.place /\ count'[c].expected = new.expected
  BY <1>1, <1>2 DEF Column
<1>11. StatusesFit'
  <2>1. new # None
    BY NoneAssumption
  <2>2. workers = 1 => CountFits(count'[c])
    BY <1>10, <2>1 DEF CountFits
  <2> QED
    BY <1>2, <1>3, <2>2 DEF StatusesFit
<1>12. InTransitMatches'
  BY <1>3 DEF InTransitMatches, InTransit
<1>13. PostedAsStated'
  <2> SUFFICES ASSUME workers = 1
               PROVE  /\ \A x \in Transfer, w \in Place : ledger'[x][w] = Due(transfer'[x], w)
                      /\ \A d \in Count, w \in Place : ledger'[d][w] = Variance(count'[d], w)
    BY <1>3 DEF PostedAsStated
  <2>1. \A x \in Transfer, w \in Place : ledger'[x][w] = Due(transfer'[x], w)
    BY <1>1, RowsAssumption DEF PostedAsStated, Document
  <2>2. \A w \in Place : Variance(count'[c], w) = Variance(new, w)
    <3>1. new # None
      BY NoneAssumption
    <3> QED
      BY <1>5, <1>10, <3>1 DEF Variance
  <2>3. \A d \in Count \ {c}, w \in Place : ledger'[d][w] = Variance(count'[d], w)
    BY <1>2 DEF PostedAsStated, Document
  <2> QED
    BY <2>1, <2>2, <2>3
<1> QED
  BY <1>4, <1>8, <1>9, <1>11, <1>12, <1>13

\* The same for a request that posts nothing.
LEMMA CountDoneQuietly ==
  ASSUME IInv, NEW t \in Txn, txn[t] # None, txn[t].op \in CountOps, End(t),
         NEW read, read = txn[t].row,
         NEW new \in CountRow, WriteCount(t, new),
         new.place = read.place, new.expected = read.expected,
         new.counted = read.counted \/ new.counted # None,
         new.status \in {"COMPLETED", "RECONCILED"} => new.counted # None,
         UNCHANGED <<level, transfer, ledger>>,
         workers = 1 => /\ CountFits(new)
                        /\ read.status # "RECONCILED" /\ new.status # "RECONCILED"
  PROVE  IInv'
<1> DEFINE c == txn[t].count
<1>1. workers = 1 => \A w \in Place : ledger[c][w] = Variance(read, w)
  BY OpenCount
<1>2. \A w \in Place : Variance(new, w) = 0 \/ new.status = "RECONCILED"
  BY DEF Variance
<1>3. \A w \in Place : Variance(read, w) = 0 \/ read.status = "RECONCILED"
  BY DEF Variance
<1>4. /\ level' \in [Place -> LevelRow] /\ ledger' \in [Document -> [Place -> Int]]
      /\ LedgerAgrees' /\ \A d \in Document \ {c} : ledger'[d] = ledger[d]
  BY DEF IInv, TypeOK, LedgerAgrees, LedgerSum
<1>5. workers = 1 => \A w \in Place : /\ level'[w].in_transit = level[w].in_transit
                                      /\ ledger'[c][w] = Variance(new, w)
  BY <1>1, <1>2, <1>3
<1>6. c = txn[t].count
  OBVIOUS
<1> HIDE DEF c
<1> QED
  BY <1>4, <1>5, <1>6, CountDone

LEMMA RecordIInv ==
  ASSUME IInv, NEW t \in Txn, NEW n \in Counted, RecordDone(t, n)
  PROVE  IInv'
<1> DEFINE read == txn[t].row
           new == [read EXCEPT !.counted = n, !.status = "IN_PROGRESS"]
<1>1. /\ txn[t] # None /\ txn[t].op = "record" /\ txn[t].op \in CountOps
      /\ WriteCount(t, new) /\ End(t) /\ UNCHANGED <<level, transfer, ledger>>
  BY DEF RecordDone, Is, CountOps
<1>2. read \in CountRow /\ CountPermits(txn[t].op, read)
  BY <1>1, OpenCount
<1>3. /\ new \in CountRow /\ new.place = read.place /\ new.expected = read.expected
      /\ new.counted = n /\ new.status = "IN_PROGRESS"
  BY <1>2 DEF CountRow, StockCountStatus
<1>4. n # None
  BY NoneAssumption
<1>5. CountFits(new)
  BY <1>3 DEF CountFits
<1>6. read.status # "RECONCILED"
  BY <1>1, <1>2 DEF CountPermits, Ended
<1>7. read = txn[t].row
  OBVIOUS
<1> HIDE DEF read, new
<1> QED
  BY <1>1, <1>3, <1>4, <1>5, <1>6, <1>7, CountDoneQuietly

LEMMA CompleteIInv ==
  ASSUME IInv, NEW t \in Txn, CompleteDone(t)
  PROVE  IInv'
<1> DEFINE read == txn[t].row
           flag == NeedsApproval(read.expected, read.counted)
           new == [read EXCEPT !.status = "COMPLETED", !.flagged = flag]
<1>1. /\ txn[t] # None /\ txn[t].op = "complete" /\ txn[t].op \in CountOps
      /\ WriteCount(t, new) /\ End(t) /\ UNCHANGED <<level, transfer, ledger>>
  BY DEF CompleteDone, Is, CountOps
<1>2. read \in CountRow /\ CountPermits(txn[t].op, read)
  BY <1>1, OpenCount
<1>3. flag \in BOOLEAN
  BY DEF NeedsApproval
<1>4. new \in CountRow
  <2> HIDE DEF flag, read
  <2> DEFINE row == [read EXCEPT !.status = "COMPLETED"]
  <2>1. row \in CountRow
    BY <1>2 DEF CountRow, StockCountStatus
  <2>2. new = [row EXCEPT !.flagged = flag]
    BY ONLY <1>2 DEF CountRow
  <2> HIDE DEF row, new
  <2>3. [row EXCEPT !.flagged = flag] \in CountRow
    BY ONLY <2>1, <1>3 DEF CountRow
  <2> QED
    BY <2>2, <2>3
<1>5. /\ new.place = read.place /\ new.expected = read.expected
      /\ new.counted = read.counted /\ new.status = "COMPLETED"
  BY <1>2 DEF CountRow
<1>6. new.flagged = flag
  BY ONLY <1>2 DEF CountRow
<1>7. read.counted # None /\ read.status # "RECONCILED"
  BY <1>1, <1>2 DEF CountPermits, Ended
<1>8. CountFits(new)
  BY <1>5, <1>6 DEF CountFits
<1>9. read = txn[t].row
  OBVIOUS
<1> HIDE DEF read, new
<1> QED
  BY <1>1, <1>4, <1>5, <1>7, <1>8, <1>9, CountDoneQuietly

LEMMA DropIInv ==
  ASSUME IInv, NEW t \in Txn, DropDone(t)
  PROVE  IInv'
<1> DEFINE read == txn[t].row
           new == [read EXCEPT !.status = "CANCELLED"]
<1>1. /\ txn[t] # None /\ txn[t].op = "drop" /\ txn[t].op \in CountOps
      /\ WriteCount(t, new) /\ End(t) /\ UNCHANGED <<level, transfer, ledger>>
  BY DEF DropDone, Is, CountOps
<1>2. read \in CountRow /\ CountPermits(txn[t].op, read)
  BY <1>1, OpenCount
<1>3. /\ new \in CountRow /\ new.place = read.place /\ new.expected = read.expected
      /\ new.counted = read.counted /\ new.status = "CANCELLED"
  BY <1>2 DEF CountRow, StockCountStatus
<1>4. CountFits(new)
  BY <1>3 DEF CountFits
<1>5. read.status # "RECONCILED"
  BY <1>1, <1>2 DEF CountPermits, Ended
<1>6. read = txn[t].row
  OBVIOUS
<1> HIDE DEF read, new
<1> QED
  BY <1>1, <1>3, <1>4, <1>5, <1>6, CountDoneQuietly

LEMMA SignIInv ==
  ASSUME IInv, NEW t \in Txn, SignDone(t)
  PROVE  IInv'
<1> DEFINE read == txn[t].row
           approved == read.approved \/ read.flagged
           new == [read EXCEPT !.approved = approved]
<1>1. /\ txn[t] # None /\ txn[t].op = "sign" /\ txn[t].op \in CountOps
      /\ WriteCount(t, new) /\ End(t) /\ UNCHANGED <<level, transfer, ledger>>
  BY DEF SignDone, Is, CountOps
<1>2. /\ read \in CountRow /\ CountPermits(txn[t].op, read)
      /\ read.status \in {"COMPLETED", "RECONCILED"} => read.counted # None
      /\ workers = 1 => CountFits(read)
  BY <1>1, OpenCount
<1>3. read.status = "COMPLETED"
  BY <1>1, <1>2 DEF CountPermits
<1>4. approved \in BOOLEAN
  OBVIOUS
<1>5. new \in CountRow
  <2> HIDE DEF approved, read
  <2> QED
    BY ONLY <1>2, <1>4 DEF CountRow
<1>6. /\ new.place = read.place /\ new.expected = read.expected
      /\ new.counted = read.counted /\ new.status = read.status
  BY <1>2 DEF CountRow
<1>7. new.flagged = read.flagged
  BY ONLY <1>2 DEF CountRow
<1>8. workers = 1 => CountFits(new)
  <2>1. read # None
    BY <1>2, NoneAssumption
  <2> QED
    BY <1>2, <1>3, <1>6, <1>7, <2>1 DEF CountFits
<1>9. read = txn[t].row
  OBVIOUS
<1> HIDE DEF read, new
<1> QED
  BY <1>1, <1>2, <1>3, <1>5, <1>6, <1>8, <1>9, CountDoneQuietly

\* Reconciling posts the variance, and an approval has come before it.
LEMMA ReconcileIInv ==
  ASSUME IInv, NEW t \in Txn, ReconcileDone(t)
  PROVE  IInv'
<1> DEFINE c == txn[t].count
           read == txn[t].row
           new == [read EXCEPT !.status = "RECONCILED"]
           at == read.place
           v == read.counted - read.expected
<1>1. /\ txn[t] # None /\ txn[t].op = "reconcile" /\ txn[t].op \in CountOps
      /\ Post(c, By(at, v), By(at, 0))
      /\ WriteCount(t, new) /\ End(t) /\ UNCHANGED transfer
  BY DEF ReconcileDone, Is, CountOps
<1>2. /\ c \in Count /\ read \in CountRow /\ CountPermits(txn[t].op, read)
      /\ read.status \in {"COMPLETED", "RECONCILED"} => read.counted # None
      /\ workers = 1 => /\ CountFits(read)
                        /\ \A w \in Place : ledger[c][w] = Variance(read, w)
  BY <1>1, OpenCount
<1>3. read.status = "COMPLETED" /\ (read.flagged => read.approved) /\ read.counted # None
  BY <1>1, <1>2 DEF CountPermits
<1>4. v \in Int
  <2>1. read.counted \in Counted /\ read.expected \in Nat
    BY <1>2, <1>3 DEF CountRow
  <2>2. read.counted \in Nat
    BY <2>1, QtyAssumption
  <2> QED
    BY ONLY <2>1, <2>2
<1>5. /\ new \in CountRow /\ new.place = at /\ new.expected = read.expected
      /\ new.counted = read.counted /\ new.status = "RECONCILED"
  BY <1>2 DEF CountRow, StockCountStatus
<1>6. new.flagged = read.flagged
  BY ONLY <1>2 DEF CountRow
<1>7. new.approved = read.approved
  BY ONLY <1>2 DEF CountRow
<1>8. read # None /\ new # None
  BY <1>2, <1>5, NoneAssumption
<1>9. workers = 1 => CountFits(new)
  BY <1>2, <1>3, <1>5, <1>6, <1>7, <1>8 DEF CountFits
<1>10. \A w \in Place : /\ Variance(read, w) = 0
                        /\ Variance(new, w) = IF w = at THEN v ELSE 0
  BY <1>3, <1>5, <1>8 DEF Variance
<1>11. /\ By(at, v) \in [Place -> Int] /\ By(at, 0) \in [Place -> Int]
       /\ \A w \in Place : /\ By(at, v)[w] = IF w = at THEN v ELSE 0
                           /\ By(at, 0)[w] = 0
  <2> HIDE DEF at, v
  <2> QED
    BY <1>4, ByType
<1>12. TypeOK /\ LedgerAgrees /\ c \in Document
  BY <1>2 DEF IInv, Document
<1>13. c = txn[t].count /\ read = txn[t].row
  OBVIOUS
<1>14. new.place = read.place
  BY <1>5
<1> HIDE DEF c, read, new, at, v
<1>15. /\ level' \in [Place -> LevelRow] /\ ledger' \in [Document -> [Place -> Int]]
       /\ LedgerAgrees'
       /\ \A w \in Place : /\ level'[w].in_transit = level[w].in_transit + By(at, 0)[w]
                           /\ ledger'[c][w] = ledger[c][w] + By(at, v)[w]
       /\ \A d \in Document \ {c} : ledger'[d] = ledger[d]
  BY <1>1, <1>11, <1>12, PostAfter
<1>16. \A w \in Place : level[w].in_transit \in Int
  BY <1>12 DEF TypeOK, LevelRow
<1>17. workers = 1 => \A w \in Place : /\ level'[w].in_transit = level[w].in_transit
                                       /\ ledger'[c][w] = Variance(new, w)
  BY ONLY <1>2, <1>4, <1>10, <1>11, <1>15, <1>16
<1> QED
  BY <1>1, <1>3, <1>5, <1>9, <1>13, <1>14, <1>15, <1>17, CountDone

LEMMA CountReadIInv ==
  ASSUME IInv, NEW t \in Txn, NEW c \in Count, NEW op \in CountOps, CountRead(t, op, c)
  PROVE  IInv'
<1> DEFINE e == [op |-> op, count |-> c, row |-> count[c]]
<1>1. count[c] # None /\ CountPermits(op, count[c]) /\ Begin(t, e)
  BY DEF CountRead
<1>2. count[c] \in CountRow
  BY <1>1 DEF IInv, TypeOK
<1>3. e \in Request
  BY <1>2 DEF Request
<1>4. e.op = op /\ e.count = c /\ e.row = count[c]
  OBVIOUS
<1>5. e.op \notin TransferOps
  BY Ops
<1> HIDE DEF e
<1> QED
  BY <1>1, <1>3, <1>4, <1>5, BeginIInv

\* A new count has posted nothing.
LEMMA CreateCountIInv ==
  ASSUME IInv, NEW c \in Count, NEW w \in Place, CreateCount(c, w)
  PROVE  IInv'
<1> USE DEF IInv
<1> DEFINE new == [status |-> "SCHEDULED", place |-> w, expected |-> level[w].on_hand,
                   counted |-> None, flagged |-> FALSE, approved |-> FALSE]
<1>1. /\ Free /\ count[c] = None
      /\ count' = [count EXCEPT ![c] = new]
      /\ UNCHANGED <<level, transfer, ledger, txn, workers>>
  BY DEF CreateCount
<1>2. level[w].on_hand \in Nat
  BY DEF TypeOK, LevelRow
<1>3. /\ new \in CountRow /\ new.status = "SCHEDULED"
      /\ \A p : Variance(new, p) = 0
  BY <1>2 DEF CountRow, StockCountStatus, Variance
<1>4. \A p : Variance(count[c], p) = 0
  BY <1>1 DEF Variance
<1> HIDE DEF new
<1>5. count \in [Count -> CountRow \cup {None}]
  BY DEF TypeOK
<1>6. /\ count' \in [Count -> CountRow \cup {None}]
      /\ count'[c] = new /\ \A d \in Count \ {c} : count'[d] = count[d]
      /\ new # None
  BY <1>1, <1>3, <1>5, NoneAssumption
<1>7. TypeOK'
  BY <1>1, <1>6 DEF TypeOK
<1>8. RowsFit' /\ LedgerAgrees'
  BY <1>1, <1>3, <1>6 DEF RowsFit, LedgerAgrees, LedgerSum
<1>9. ASSUME NEW u \in Txn PROVE RequestFits(u)' /\ Alone(u)'
  <2>1. txn[u] # None /\ txn[u].op \in CountOps =>
          txn[u].count \in Count /\ txn[u].count # c
    BY <1>1, RequestType DEF TypeOK, RequestFits
  <2>2. RequestFits(u)'
    BY <1>1, <1>6, <2>1 DEF RequestFits
  <2>3. Alone(u)'
    BY <1>1, <1>6, <2>1 DEF Alone
  <2> QED
    BY <2>2, <2>3
<1>10. StatusesFit'
  BY <1>1, <1>3, <1>6 DEF StatusesFit, CountFits
<1>11. InTransitMatches'
  BY <1>1 DEF InTransitMatches, InTransit
<1>12. PostedAsStated'
  <2> SUFFICES ASSUME workers = 1, NEW d \in Count, NEW p \in Place
               PROVE  ledger[d][p] = Variance(count'[d], p)
    BY <1>1 DEF PostedAsStated
  <2> QED
    BY <1>3, <1>4, <1>6 DEF PostedAsStated
<1> QED
  BY <1>7, <1>8, <1>9, <1>10, <1>11, <1>12

\* An adjustment is no document's.
LEMMA AdjustIInv ==
  ASSUME IInv, NEW w \in Place, NEW q \in Int, Adjust(w, q)
  PROVE  IInv'
<1> USE DEF IInv
<1>1. Post(None, By(w, q), By(w, 0)) /\ UNCHANGED <<transfer, count, txn, workers>>
  BY DEF Adjust
<1>2. /\ By(w, q) \in [Place -> Int] /\ By(w, 0) \in [Place -> Int]
      /\ \A p \in Place : By(w, 0)[p] = 0
  BY ByType
<1>3. None \in Document /\ Transfer \cup Count \subseteq Document \ {None}
  BY NoneAssumption DEF Document
<1>4. /\ level' \in [Place -> LevelRow] /\ ledger' \in [Document -> [Place -> Int]]
      /\ LedgerAgrees'
      /\ \A p \in Place : level'[p].in_transit = level[p].in_transit + By(w, 0)[p]
      /\ \A d \in Document \ {None} : ledger'[d] = ledger[d]
  BY <1>1, <1>2, <1>3, PostAfter
<1>5. \A p \in Place : level[p].in_transit \in Int
  BY DEF TypeOK, LevelRow
<1>6. \A p \in Place : level'[p].in_transit = level[p].in_transit
  BY <1>2, <1>4, <1>5
<1>7. TypeOK'
  BY <1>1, <1>4 DEF TypeOK
<1>8. \A u \in Txn : RequestFits(u)' /\ Alone(u)'
  BY <1>1 DEF RequestFits, Alone
<1>9. RowsFit' /\ StatusesFit'
  BY <1>1 DEF RowsFit, StatusesFit
<1>10. InTransitMatches'
  BY <1>1, <1>6 DEF InTransitMatches, InTransit
<1>11. PostedAsStated'
  BY <1>1, <1>3, <1>4 DEF PostedAsStated
<1> QED
  BY <1>4, <1>7, <1>8, <1>9, <1>10, <1>11

-----------------------------------------------------------------------------
(* The theorems.                                                           *)

LEMMA InitIInv ==
  ASSUME Init
  PROVE  IInv
<1>1. TypeOK
  BY StockAssumption DEF Init, TypeOK, LevelRow
<1>2. RowsFit /\ \A t \in Txn : RequestFits(t) /\ Alone(t)
  BY DEF Init, RowsFit, RequestFits, Alone
<1>3. StatusesFit
  BY DEF Init, StatusesFit, TransferFits, CountFits
<1>4. LedgerAgrees
  <2> SUFFICES ASSUME NEW w \in Place PROVE level[w].on_hand = Stock + LedgerSum(w)
    BY DEF LedgerAgrees
  <2> DEFINE f == [d \in Document |-> ledger[d][w]]
  <2>1. DOMAIN f = Document /\ \A d \in Document : f[d] = 0
    BY DEF Init
  <2>2. LedgerSum(w) = SumFunction(f)
    BY DEF LedgerSum
  <2> HIDE DEF f
  <2>3. LedgerSum(w) = 0
    BY <2>1, <2>2, Documents, SumZero
  <2>4. level[w].on_hand = Stock
    BY DEF Init
  <2> QED
    BY <2>3, <2>4, StockAssumption
<1>5. InTransitMatches
  <2> SUFFICES ASSUME NEW w \in Place PROVE level[w].in_transit = InTransit(w)
    BY DEF InTransitMatches
  <2> DEFINE f == [x \in Transfer |-> OnTheWay(transfer[x], w)]
  <2>1. DOMAIN f = Transfer /\ \A x \in Transfer : f[x] = 0
    BY DEF Init, OnTheWay
  <2>2. InTransit(w) = SumFunction(f)
    BY DEF InTransit
  <2> HIDE DEF f
  <2>3. InTransit(w) = 0
    BY <2>1, <2>2, RowsAssumption, SumZero
  <2> QED
    BY <2>3 DEF Init
<1>6. PostedAsStated
  BY DEF Init, PostedAsStated, Due, Variance, Document
<1> QED
  BY <1>1, <1>2, <1>3, <1>4, <1>5, <1>6 DEF IInv

LEMMA StutterIInv ==
  ASSUME IInv, UNCHANGED vars
  PROVE  IInv'
BY DEF IInv, vars, rows, TypeOK, RowsFit, RequestFits, Alone, StatusesFit, LedgerAgrees,
       LedgerSum, InTransitMatches, InTransit, PostedAsStated

LEMMA StepIInv ==
  ASSUME IInv, [Next]_vars
  PROVE  IInv'
<1>1. ASSUME NEW w \in Place, NEW q \in Qty, Adjust(w, q) \/ Adjust(w, -q)
      PROVE  IInv'
  <2>1. q \in Int /\ -q \in Int
    BY QtyAssumption
  <2> QED
    BY <1>1, <2>1, AdjustIInv
<1>2. ASSUME NEW t \in Txn, TransferRequests(t)
      PROVE  IInv'
  <2>1. CASE \E x \in Transfer, op \in TransferOps : TransferRead(t, op, x)
    BY <2>1, TransferReadIInv
  <2>2. CASE \E x \in Transfer, from, to \in Place, q \in Qty : CreateTransfer(x, from, to, q)
    BY <2>2, CreateTransferIInv
  <2>3. CASE ApproveDone(t)
    BY <2>3, ApproveIInv
  <2>4. CASE DispatchDone(t)
    BY <2>4, DispatchIInv
  <2>5. CASE CancelDone(t)
    BY <2>5, CancelIInv
  <2>6. CASE \E q \in Qty \cup {0} : ReceiveDone(t, q)
    BY <2>6, ReceiveIInv
  <2> QED
    BY <1>2, <2>1, <2>2, <2>3, <2>4, <2>5, <2>6 DEF TransferRequests, TransferOps
<1>3. ASSUME NEW t \in Txn, CountRequests(t)
      PROVE  IInv'
  <2>1. CASE \E c \in Count, op \in CountOps : CountRead(t, op, c)
    BY <2>1, CountReadIInv
  <2>2. CASE \E c \in Count, w \in Place : CreateCount(c, w)
    BY <2>2, CreateCountIInv
  <2>3. CASE \E n \in Counted : RecordDone(t, n)
    BY <2>3, RecordIInv
  <2>4. CASE CompleteDone(t)
    BY <2>4, CompleteIInv
  <2>5. CASE SignDone(t)
    BY <2>5, SignIInv
  <2>6. CASE ReconcileDone(t)
    BY <2>6, ReconcileIInv
  <2>7. CASE DropDone(t)
    BY <2>7, DropIInv
  <2> QED
    BY <1>3, <2>1, <2>2, <2>3, <2>4, <2>5, <2>6, <2>7 DEF CountRequests, CountOps
<1>4. ASSUME NEW t \in Txn, Abort(t)
      PROVE  IInv'
  BY <1>4, AbortIInv
<1>5. CASE UNCHANGED vars
  BY <1>5, StutterIInv
<1> QED
  BY <1>1, <1>2, <1>3, <1>4, <1>5 DEF Next

\* The inductive invariant of stock in warehouses: transfers and counts go
\* through their statuses as their requests permit, and levels and ledger
\* follow them.
THEOREM Invariance == Spec => []IInv
<1>1. Init => IInv
  BY InitIInv
<1>2. IInv /\ [Next]_vars => IInv'
  BY StepIInv
<1> QED
  BY <1>1, <1>2, PTL DEF Spec

\* What is on hand in a warehouse is what the ledger says, whatever overlaps,
\* and what is in transit is on an open transfer, one request at a time: every
\* operation that moves stock writes its ledger rows in the same transaction.
THEOREM LevelsMatchTheLedger == Spec => []LevelsMatch
<1>1. IInv => LevelsMatch
  BY DEF IInv, LevelsMatch
<1> QED
  BY <1>1, Invariance, PTL

\* One request at a time, the ledger holds of each transfer and count what its
\* status says, and a variance above two per cent was approved before
\* reconcile_count posted it.
THEOREM DocumentsPostOnce == Spec => []PostedAsAgreed
<1>1. ASSUME IInv PROVE LargeVarianceApproved
  <2> SUFFICES ASSUME workers = 1, NEW c \in Count, count[c] # None,
                      count[c].status = "RECONCILED",
                      Abs(count[c].counted - count[c].expected) * 100 > count[c].expected * 2
               PROVE  count[c].approved
    BY DEF LargeVarianceApproved
  <2> DEFINE v == Abs(count[c].counted - count[c].expected)
  <2>1. /\ count[c].expected \in Nat /\ count[c].counted \in Counted
        /\ CountFits(count[c])
    BY <1>1 DEF IInv, TypeOK, CountRow, RowsFit, StatusesFit
  <2>2. v \in Int
    <3>1. count[c].counted \in Nat
      BY <2>1, QtyAssumption
    <3>2. count[c].counted - count[c].expected \in Int
      BY ONLY <2>1, <3>1
    <3> QED
      BY <3>2 DEF Abs
  <2>3. v * 100 > count[c].expected * 2
    OBVIOUS
  <2>4. v # 0
    <3> HIDE DEF v
    <3> QED
      BY <2>1, <2>2, <2>3
  <2>5. NeedsApproval(count[c].expected, count[c].counted)
    BY <2>3, <2>4 DEF NeedsApproval
  <2> QED
    BY <2>1, <2>5 DEF CountFits
<1>2. IInv => PostedAsAgreed
  BY <1>1 DEF IInv, PostedAsAgreed
<1> QED
  BY <1>2, Invariance, PTL

=============================================================================
