------------------------------ MODULE Receiving ------------------------------
(***************************************************************************)
(* Goods receipts of one line of a supplier purchase order, their          *)
(* inspection and posting to stock, and the purchase returns that send     *)
(* goods back (grn_service, purchase_return_service).                      *)
(*                                                                         *)
(* The headers of receipts and returns and the order line are locked by    *)
(* nobody: a request is two steps, and txn[t] keeps what it has read until *)
(* it commits, when it writes the columns it changed.  The stock level and *)
(* the receipt line are locked and read behind the lock, in the second     *)
(* step.                                                                   *)
(*                                                                         *)
(* All goods are of one product in one bin.  Nobody else moves its stock   *)
(* meanwhile, and nothing of it is reserved.                               *)
(***************************************************************************)
EXTENDS Integers, FiniteSetsExt, Functions

CONSTANTS
    Grn, Item, Ret,       \* row identities
    Txn,                  \* requests that may be open at the same time
    Qty,                  \* quantities received, accepted and returned
    Confirmed,            \* quantity_confirmed of the order line
    Stock,                \* what is on hand to begin with
    Position,             \* where the lines of a return come when it is dispatched
    Clients,              \* what clients do: "early" returns goods that are not
                          \* inspected, "again" inspects a line twice
    None

ASSUME QtyAssumption == Qty \subseteq Nat \ {0}
ASSUME ConfirmedAssumption == Confirmed \in Nat /\ Stock \in Nat
ASSUME ClientsAssumption == Clients \subseteq {"early", "again"}
ASSUME RowsAssumption == IsFiniteSet(Item) /\ IsFiniteSet(Ret) /\ IsFiniteSet(Txn)

VARIABLES
    line,     \* the order line's rollups of what was received
    grn,      \* goods_receipt_notes, None while absent
    item,     \* grn_items, None while absent
    level,    \* the inventory level
    moved,    \* sum of the inventory_transactions
    ret,      \* purchase_returns with their lines, None while absent
    txn,      \* open requests, None while free
    workers   \* how many requests are served at a time

vars == <<line, grn, item, level, moved, ret, txn, workers>>

GRNStatus == {"DRAFT", "RECEIVING", "PENDING_INSPECTION", "PARTIALLY_ACCEPTED", "ACCEPTED",
              "PARTIALLY_REJECTED", "REJECTED", "CANCELLED"}
ReturnStatus == {"DRAFT", "PENDING_SUPPLIER", "APPROVED", "DISPATCHED", "COMPLETED",
                 "REJECTED", "CANCELLED"}
NON_CANCELLED == ReturnStatus \ {"CANCELLED"}
Lines == Item \X {"QUALITY_ISSUE", "DAMAGE"}
NoLines == [l \in Lines |-> 0]

ASSUME PositionAssumption ==
    Position \in [Lines -> Nat] /\ \A k, l \in Lines : Position[k] = Position[l] => k = l

\* Rows, and what an open request has read.
HeaderOps == {"start", "add", "stage", "cancel"}
ReturnOps == {"submit", "approve", "dispatch", "complete", "reject", "withdraw"}
LineRow == [received : Nat, accepted : Nat, damaged_rejected : Nat]
GrnRow == [status : GRNStatus, posted : BOOLEAN]
ItemRow == [grn : Grn, received : Qty, accepted : Nat, damaged : Nat, rejected : Nat,
            inspected : BOOLEAN]
ReturnRow == [grn : Grn, status : ReturnStatus, auto : BOOLEAN, qty : [Lines -> Nat],
              out : [Lines -> Nat], notes : Nat]
Request == [op : HeaderOps, grn : Grn]
           \cup [op : {"dispose"}, item : Item, split : Nat \X Nat \X Nat, line : LineRow,
                 items : [Item -> ItemRow \cup {None}]]
           \cup [op : ReturnOps, ret : Ret, qty : [Lines -> Nat]]

ASSUME NoneAssumption == None \notin GrnRow \cup ItemRow \cup ReturnRow \cup Request

Init ==
    /\ line = [received |-> 0, accepted |-> 0, damaged_rejected |-> 0]
    /\ grn = [g \in Grn |-> None]
    /\ item = [x \in Item |-> None]
    /\ level = [on_hand |-> Stock, damaged |-> 0]
    /\ moved = 0
    /\ ret = [r \in Ret |-> None]
    /\ txn = [t \in Txn |-> None]
    /\ workers \in 1..Cardinality(Txn)

rows == <<line, grn, item, level, moved, ret>>

Begin(t, request) ==
    /\ txn[t] = None
    /\ Cardinality({u \in Txn : txn[u] # None}) < workers
    /\ txn' = [txn EXCEPT ![t] = request]
    /\ UNCHANGED <<rows, workers>>

End(t) == txn' = [txn EXCEPT ![t] = None] /\ UNCHANGED workers

Is(t, op) == txn[t] # None /\ txn[t].op = op

\* A lost client, a crash, or a constraint that fails.
Abort(t) == txn[t] # None /\ End(t) /\ UNCHANGED rows

-----------------------------------------------------------------------------
(* The receipt before its inspection.                                      *)

\* INV-5.1 holds of a new line because all of it counts as accepted.
NewItem(g, q) == [grn |-> g, received |-> q, accepted |-> q, damaged |-> 0, rejected |-> 0,
                  inspected |-> FALSE]

\* create_draft_grn, without a line or with one.
CreateGrn(g, x, q) ==
    /\ grn[g] = None
    /\ grn' = [grn EXCEPT ![g] = [status |-> "DRAFT", posted |-> FALSE]]
    /\ \/ UNCHANGED item
       \/ item[x] = None /\ item' = [item EXCEPT ![x] = NewItem(g, q)]
    /\ UNCHANGED <<line, level, moved, ret, txn, workers>>

ItemsOf(g) == {x \in Item : item[x] # None /\ item[x].grn = g}

\* cancel_grn (GRN-018).
Cancellable(g) ==
    ~grn[g].posted /\ grn[g].status \in {"DRAFT", "RECEIVING", "PENDING_INSPECTION"}

\* The test of each request on the header it has read.
Permits(op, g) ==
    \/ op = "start" /\ grn[g].status = "DRAFT"
    \/ op = "add" /\ grn[g].status = "RECEIVING"
    \/ op = "stage" /\ grn[g].status = "RECEIVING" /\ ItemsOf(g) # {}
    \/ op = "cancel" /\ Cancellable(g)

HeaderRead(t, op, g) ==
    /\ grn[g] # None /\ Permits(op, g)
    /\ Begin(t, [op |-> op, grn |-> g])

HeaderStatus == [start |-> "RECEIVING", stage |-> "PENDING_INSPECTION", cancel |-> "CANCELLED"]

HeaderDone(t) ==
    /\ txn[t] # None /\ txn[t].op \in DOMAIN HeaderStatus
    /\ grn' = [grn EXCEPT ![txn[t].grn] = [@ EXCEPT !.status = HeaderStatus[txn[t].op]]]
    /\ End(t) /\ UNCHANGED <<line, item, level, moved, ret>>

AddDone(t, x, q) ==
    /\ Is(t, "add") /\ item[x] = None
    /\ item' = [item EXCEPT ![x] = NewItem(txn[t].grn, q)]
    /\ End(t) /\ UNCHANGED <<line, grn, level, moved, ret>>

-----------------------------------------------------------------------------
(* Inspection.                                                             *)

\* What a return takes back of a receipt line, unless it is cancelled; and
\* what the given returns do.
Of(x, lines) == lines[<<x, "QUALITY_ISSUE">>] + lines[<<x, "DAMAGE">>]
Counts(row) == row # None /\ row.status \in NON_CANCELLED
Returned(row, x) == IF Counts(row) THEN Of(x, row.qty) ELSE 0
Cumulative(x, returns) == SumFunction([r \in returns |-> Returned(ret[r], x)])

\* record_disposition: the over-receipt test reads the rollup of the line.
DisposeRead(t, x, accepted, damaged) ==
    /\ item[x] # None /\ grn[item[x].grn].status = "PENDING_INSPECTION"
    /\ item[x].inspected => "again" \in Clients
    /\ accepted + damaged <= item[x].received
    /\ line.received + item[x].received <= Confirmed
    /\ Begin(t, [op |-> "dispose", item |-> x,
                 split |-> <<accepted, damaged, item[x].received - accepted - damaged>>,
                 line |-> line,
                 items |-> [y \in Item |-> IF y \in ItemsOf(item[x].grn) THEN item[y] ELSE None]])

Disposed(row, split) ==
    [row EXCEPT !.accepted = split[1], !.damaged = split[2], !.rejected = split[3],
                !.inspected = TRUE]

\* A column is written if it differs from what was read.
Column(new, read, now) == IF new # read THEN new ELSE now

Reconciles(row) == row.received = row.accepted + row.damaged + row.rejected

\* The status of the receipt with the given lines.
Outcome(items) ==
    LET i == Range(items) \ {None}
    IN  IF \E r \in i : ~r.inspected THEN "PENDING_INSPECTION"
        ELSE IF \A r \in i : r.accepted = r.received THEN "ACCEPTED"
        ELSE IF \A r \in i : r.rejected = r.received THEN "REJECTED"
        ELSE IF (\E r \in i : r.rejected > 0) /\ (\A r \in i : r.accepted = 0)
             THEN "PARTIALLY_REJECTED" ELSE "PARTIALLY_ACCEPTED"

\* record_disposition_auto_items: what is damaged or rejected is added to the
\* DRAFT return of the receipt.  Each of the two is compared with the cap on
\* its own, and two DRAFT returns make the query fail.
AutoReturn(g, x, damaged, rejected, r) ==
    LET drafts == {d \in Ret : ret[d] # None /\ ret[d].grn = g /\ ret[d].status = "DRAFT"}
        lines == [l \in Lines |-> IF l = <<x, "QUALITY_ISSUE">> THEN rejected
                                 ELSE IF l = <<x, "DAMAGE">> THEN damaged ELSE 0]
    IN  /\ \A q \in {damaged, rejected} \ {0} : Cumulative(x, Ret) + q <= item[x].received
        /\ \/ /\ drafts = {} /\ ret[r] = None
              /\ ret' = [ret EXCEPT ![r] =
                   [grn |-> g, status |-> "DRAFT", auto |-> TRUE, qty |-> lines,
                    out |-> NoLines, notes |-> 0]]
           \/ /\ drafts = {r}
              /\ ret' = [ret EXCEPT ![r] =
                   [@ EXCEPT !.qty = [l \in Lines |-> ret[r].qty[l] + lines[l]]]]

\* Faulty: the rollups are overwritten by the last line inspected.
RolledUpLast(was, row, split) ==
    [received |-> row.received, accepted |-> split[1], damaged_rejected |-> split[2] + split[3]]

\* The order line's rollups with one more line inspected.
RolledUp(was, row, split) ==
    [received |-> was.received + row.received, accepted |-> was.accepted + split[1],
     damaged_rejected |-> was.damaged_rejected + split[2] + split[3]]

\* What a disposition posts to the level, which it holds.
Posted(split) ==
    [on_hand |-> level.on_hand + split[1], damaged |-> level.damaged + split[2]]

\* The CHECK of grn_items: two overlapping dispositions of a line, each writing
\* the columns it changed, must not leave a split that does not add up.
WriteItem(x, read, split) ==
    /\ item' = [item EXCEPT ![x] =
         [@ EXCEPT !.accepted = Column(split[1], read.accepted, item[x].accepted),
                   !.damaged = Column(split[2], read.damaged, item[x].damaged),
                   !.rejected = Column(split[3], read.rejected, item[x].rejected),
                   !.inspected = TRUE]]
    /\ Reconciles(item'[x])

WriteLine(read, new) ==
    line' = [received |-> Column(new.received, read.received, line.received),
             accepted |-> Column(new.accepted, read.accepted, line.accepted),
             damaged_rejected |->
               Column(new.damaged_rejected, read.damaged_rejected, line.damaged_rejected)]

DisposeDone(t, r) ==
    /\ Is(t, "dispose")
    /\ LET x == txn[t].item
           read == txn[t].items
           split == txn[t].split
           g == read[x].grn
           status == Outcome([read EXCEPT ![x] = Disposed(read[x], split)])
       IN  /\ WriteItem(x, read[x], split)
           /\ level' = Posted(split)
           /\ moved' = moved + split[1]
           /\ WriteLine(txn[t].line, RolledUp(txn[t].line, read[x], split))
           /\ grn' = [grn EXCEPT ![g] = [posted |-> TRUE,
                status |-> IF status = "PENDING_INSPECTION" THEN grn[g].status ELSE status]]
           /\ IF split[2] + split[3] = 0 THEN UNCHANGED ret
              ELSE AutoReturn(g, x, split[2], split[3], r)
    /\ End(t)

-----------------------------------------------------------------------------
(* Purchase returns.                                                       *)

\* Faulty: a return made by hand is not compared with what was received.
CreateReturnUncapped(r, l, q) ==
    /\ ret[r] = None /\ item[l[1]] # None
    /\ item[l[1]].inspected \/ "early" \in Clients
    /\ ret' = [ret EXCEPT ![r] =
         [grn |-> item[l[1]].grn, status |-> "DRAFT", auto |-> FALSE,
          qty |-> [NoLines EXCEPT ![l] = q], out |-> NoLines, notes |-> 0]]
    /\ UNCHANGED <<line, grn, item, level, moved, txn, workers>>

\* A return made by hand, with the receipt line locked.
CreateReturn(r, l, q) ==
    /\ ret[r] = None /\ item[l[1]] # None
    /\ item[l[1]].inspected \/ "early" \in Clients
    /\ Cumulative(l[1], Ret) + q <= item[l[1]].received
    /\ ret' = [ret EXCEPT ![r] =
         [grn |-> item[l[1]].grn, status |-> "DRAFT", auto |-> FALSE,
          qty |-> [NoLines EXCEPT ![l] = q], out |-> NoLines, notes |-> 0]]
    /\ UNCHANGED <<line, grn, item, level, moved, txn, workers>>

From == [submit |-> {"DRAFT"}, approve |-> {"PENDING_SUPPLIER"}, dispatch |-> {"APPROVED"},
         complete |-> {"DISPATCHED"}, reject |-> {"PENDING_SUPPLIER"},
         withdraw |-> {"DRAFT", "PENDING_SUPPLIER"}]
To == [submit |-> "PENDING_SUPPLIER", approve |-> "APPROVED", dispatch |-> "DISPATCHED",
       complete |-> "COMPLETED", reject |-> "REJECTED", withdraw |-> "CANCELLED"]

\* Faulty: a return can be cancelled once it has been dispatched.
ReturnReadLate(t, op, r) ==
    /\ ret[r] # None
    /\ \/ ret[r].status \in From[op]
       \/ op = "withdraw" /\ ret[r].status = "DISPATCHED"
    /\ Begin(t, [op |-> op, ret |-> r, qty |-> ret[r].qty])

ReturnRead(t, op, r) ==
    /\ ret[r] # None /\ ret[r].status \in From[op]
    /\ Begin(t, [op |-> op, ret |-> r, qty |-> ret[r].qty])

\* submit and dispatch compare the lines they have read with the cap again.
WithinCap(r, qty) ==
    \A x \in Item : Of(x, qty) > 0 => Cumulative(x, Ret \ {r}) + Of(x, qty) <= item[x].received

StatusDone(t) ==
    /\ txn[t] # None /\ txn[t].op \in {"submit", "approve", "complete", "reject", "withdraw"}
    /\ txn[t].op = "submit" => WithinCap(txn[t].ret, txn[t].qty)
    /\ ret' = [ret EXCEPT ![txn[t].ret] = [@ EXCEPT !.status = To[txn[t].op]]]
    /\ End(t) /\ UNCHANGED <<line, grn, item, level, moved>>

\* _already_stocked: what the other returns have taken of the receipt line.
AlreadyStocked(x, r) ==
    SumFunction([q \in Ret \ {r} |-> IF Counts(ret[q]) THEN Of(x, ret[q].out) ELSE 0])

\* What one line takes: its quantity, at most what is left of the accepted
\* goods and of the stock.
Taken(qty, accepted, left) == Max({0, Min({qty, accepted, left})})

\* _compute_stock_out: out is what each line takes, after the earlier ones.
StockOut(r, qty, out) ==
    LET free == level.on_hand - level.damaged
        before(l) == SumFunction([k \in {k \in DOMAIN out : Position[k] < Position[l]} |-> out[k]])
    IN  \A l \in DOMAIN out :
          out[l] = Taken(qty[l], item[l[1]].accepted - AlreadyStocked(l[1], r),
                         free - before(l))

\* dispatch: goods leave the stock, a debit note is issued.
DispatchDone(t) ==
    /\ Is(t, "dispatch")
    /\ LET r == txn[t].ret
           qty == txn[t].qty
           lines == {l \in Lines : qty[l] > 0}
       IN  /\ WithinCap(r, qty)
           /\ \E out \in [lines -> 0..level.on_hand] :
                /\ StockOut(r, qty, out)
                /\ ret' = [ret EXCEPT ![r] =
                     [@ EXCEPT !.status = "DISPATCHED", !.notes = ret[r].notes + 1,
                               !.out = [l \in Lines |-> IF l \in lines THEN out[l] ELSE 0]]]
                /\ level' = [level EXCEPT !.on_hand = level.on_hand - SumFunction(out)]
                /\ moved' = moved - SumFunction(out)
    /\ End(t) /\ UNCHANGED <<line, grn, item>>

-----------------------------------------------------------------------------

ReceiptRequests(t) ==
    \/ \E op \in HeaderOps, g \in Grn : HeaderRead(t, op, g)
    \/ HeaderDone(t)
    \/ \E x \in Item : \/ \E q \in Qty : AddDone(t, x, q)
                       \/ \E a, d \in Qty \cup {0} : DisposeRead(t, x, a, d)
    \/ \E r \in Ret : DisposeDone(t, r)

ReturnRequests(t) ==
    \/ \E r \in Ret, op \in ReturnOps : ReturnRead(t, op, r)
    \/ StatusDone(t) \/ DispatchDone(t)

Next ==
    \/ \E g \in Grn, x \in Item, q \in Qty : CreateGrn(g, x, q)
    \/ \E r \in Ret, l \in Lines, q \in Qty : CreateReturn(r, l, q)
    \/ \E t \in Txn : ReceiptRequests(t) \/ ReturnRequests(t) \/ Abort(t)

Spec == Init /\ [][Next]_vars

-----------------------------------------------------------------------------
(* Properties.                                                             *)

Sent == {"DISPATCHED", "COMPLETED"}

TypeOK ==
    /\ line \in LineRow
    /\ grn \in [Grn -> GrnRow \cup {None}]
    /\ item \in [Item -> ItemRow \cup {None}]
    /\ level \in [on_hand : Nat, damaged : Nat] /\ moved \in Int
    /\ ret \in [Ret -> ReturnRow \cup {None}]
    /\ txn \in [Txn -> Request \cup {None}]
    /\ workers \in 1..Cardinality(Txn)

\* Receipts and returns move the level and the ledger together, whatever
\* overlaps (GRN-006).
StockIsLedger == level.on_hand = Stock + moved

\* A return that was sent has its debit note, and nothing of a return that was
\* not sent has left the stock or been charged.
SentIsCharged ==
    workers = 1 => \A r \in Ret : ret[r] # None =>
        IF ret[r].status \in Sent THEN ret[r].notes = 1
        ELSE ret[r].notes = 0 /\ ret[r].out = NoLines

\* The rollups of the order line are the sums over its inspected receipt lines
\* (spo-architecture.md:152), one request at a time, if lines are inspected
\* once.
Inspected(row, n) == IF row # None /\ row.inspected THEN n ELSE 0
RollupsMatch ==
    workers = 1 /\ "again" \notin Clients =>
        /\ line.received = SumFunction([x \in Item |-> Inspected(item[x], item[x].received)])
        /\ line.accepted = SumFunction([x \in Item |-> Inspected(item[x], item[x].accepted)])
        /\ line.damaged_rejected =
             SumFunction([x \in Item |-> Inspected(item[x], item[x].damaged + item[x].rejected)])

\* Rows have their types; the ledger explains the stock, whatever overlaps,
\* and the lines of the order the receipts, one request at a time.
StockAddsUp == TypeOK /\ StockIsLedger /\ RollupsMatch

\* Returns that are not cancelled never send back more of a receipt line than
\* it received, one request at a time, if what is returned was inspected, once.
ReturnedWithinReceived ==
    workers = 1 /\ Clients = {} =>
        \A x \in Item : item[x] # None => Cumulative(x, Ret) <= item[x].received

\* A return of what an inspection turned down takes nothing from the stock it
\* never entered (wave-purchase-returns-addendum.md:132).
RejectedStaysOut == \A r \in Ret : ret[r] # None /\ ret[r].auto => ret[r].out = NoLines

=============================================================================
