--------------------------- MODULE Sourcing_proof ---------------------------
(***************************************************************************)
(* The order of a supplier's quotes, the conversion of awards, and what    *)
(* closes a request, for every set of suppliers, orders and requests, and  *)
(* every finite set of quotes and of awards.  Then, of an order with any   *)
(* number of lines, the numbers of its amendments, its mark, its totals    *)
(* and the way out of limbo.                                               *)
(***************************************************************************)
EXTENDS Sourcing, Ordering, SumTheorems

\* A quote that is being submitted carries at most the next revision.
PendingRevision ==
    \A t \in Txn : Is(t, "quote") =>
        txn[t].rev \in 1..Cardinality(Quotes(txn[t].supplier)) + 1

\* Rows a request has read are not deleted while it is open.
RowsPresent ==
    \A t \in Txn :
        /\ Is(t, "approve") => /\ award[txn[t].award] # None
                               /\ \A r \in DOMAIN txn[t].selected : resp[r] # None
        /\ Is(t, "order") \/ Is(t, "convert") => award[txn[t].award] # None

\* An award that is about to be CONVERTED has an order.
OrderedFirst ==
    \A t \in Txn : Is(t, "convert") => \E o \in Order : order[o] = txn[t].award

IInv ==
    /\ TypeOK
    /\ RevisionsInOrder
    /\ PendingRevision
    /\ RowsPresent
    /\ OrderedFirst
    /\ ConvertedIsOrdered

USE NeedAssumption, RowsAssumption, NoneAssumption

-----------------------------------------------------------------------------
(* Operators.                                                              *)

\* The greatest number of an interval is its end.
LEMMA MaxOfInterval ==
  ASSUME NEW n \in Nat, n # 0
  PROVE  Max(1..n) = n
<1>1. n \in 1..n /\ \A y \in 1..n : n >= y
  OBVIOUS
<1>2. \A x \in 1..n : (\A y \in 1..n : x >= y) => x = n
  BY <1>1
<1>3. Max(1..n) \in 1..n /\ \A y \in 1..n : Max(1..n) >= y
  BY <1>1 DEF Max
<1> QED
  BY <1>2, <1>3

\* A supplier's quotes are finitely many, at most as many as there are rows.
LEMMA QuotesFinite ==
  ASSUME NEW s
  PROVE  /\ IsFiniteSet(Quotes(s))
         /\ Cardinality(Quotes(s)) \in Nat
         /\ Cardinality(Resp) \in Nat
         /\ Cardinality(Quotes(s)) <= Cardinality(Resp)
<1>1. Quotes(s) \in SUBSET Resp
  BY DEF Quotes
<1> QED
  BY <1>1, FS_Subset, FS_CardinalityType

\* The revision a new quote takes is the number after those there are.
LEMMA NextRevisionIs ==
  ASSUME RevisionsInOrder, NEW s \in Supplier
  PROVE  NextRevision(s) = Cardinality(Quotes(s)) + 1
<1> DEFINE n == Cardinality(Quotes(s))
<1>1. n \in Nat /\ Revisions(s) = 1..n
  BY QuotesFinite DEF RevisionsInOrder
<1>2. CASE n = 0
  BY <1>1, <1>2 DEF NextRevision
<1>3. CASE n # 0
  <2>1. Revisions(s) # {}
    BY <1>1, <1>3
  <2> QED
    BY <1>1, <1>3, <2>1, MaxOfInterval DEF NextRevision
<1> QED
  BY <1>2, <1>3

\* What an open request holds, by its kind.
LEMMA RequestTypes ==
  ASSUME TypeOK, NEW t \in Txn
  PROVE  /\ Is(t, "quote") => /\ txn[t].supplier \in Supplier /\ txn[t].available \in Qty
                              /\ txn[t].rev \in 1..Cardinality(Resp) + 1
         /\ Is(t, "draft") => txn[t].resp \in Resp /\ txn[t].qty \in Qty
         /\ Is(t, "approve") => /\ txn[t].award \in Award /\ txn[t].total \in Nat
                                /\ txn[t].status \in RFQStatus
                                /\ \A r \in DOMAIN txn[t].selected :
                                     r \in Resp /\ txn[t].selected[r] \in QuoteStatus
         /\ Is(t, "order") \/ Is(t, "convert") => txn[t].award \in Award
<1>1. ASSUME txn[t] # None PROVE txn[t] \in Requests
  BY <1>1 DEF TypeOK
<1> QED
  BY <1>1 DEF Is, Requests

-----------------------------------------------------------------------------
(* The initial states.                                                     *)

LEMMA InitIInv == Init => IInv
<1> SUFFICES ASSUME Init PROVE IInv
  OBVIOUS
<1>1. TypeOK
  BY DEF Init, TypeOK, RFQStatus
<1>2. RevisionsInOrder
  <2> SUFFICES ASSUME NEW s \in Supplier PROVE Revisions(s) = 1..Cardinality(Quotes(s))
    BY DEF RevisionsInOrder
  <2>1. Quotes(s) = {}
    BY DEF Init, Quotes
  <2>2. Revisions(s) = {}
    BY <2>1 DEF Revisions
  <2>3. Cardinality(Quotes(s)) = 0
    BY <2>1, FS_EmptySet
  <2> QED
    BY <2>2, <2>3
<1>3. PendingRevision /\ RowsPresent /\ OrderedFirst
  BY DEF Init, PendingRevision, RowsPresent, OrderedFirst, Is
<1>4. ConvertedIsOrdered
  BY DEF Init, ConvertedIsOrdered, In
<1> QED
  BY <1>1, <1>2, <1>3, <1>4 DEF IInv

-----------------------------------------------------------------------------
(* The steps: each action, then each part of IInv it can disturb.          *)

\* A step after which every quote has the supplier and the revision it had
\* leaves the revisions as they were.
LEMMA SameQuotes ==
  ASSUME \A r \in Resp : (resp[r] # None) = (resp'[r] # None),
         \A r \in Resp : resp[r] # None => /\ resp'[r].supplier = resp[r].supplier
                                           /\ resp'[r].rev = resp[r].rev,
         NEW s
  PROVE  Quotes(s)' = Quotes(s) /\ Revisions(s)' = Revisions(s)
<1>1. Quotes(s)' = Quotes(s)
  BY DEF Quotes
<1>2. \A r \in Quotes(s) : resp'[r].rev = resp[r].rev
  BY DEF Quotes
<1> QED
  BY <1>1, <1>2 DEF Revisions

\* Beginning a request changes no row: only what it holds has to be shown.
LEMMA BeginIInv ==
  ASSUME IInv, NEW t \in Txn, NEW request \in Requests, Begin(t, request),
         request.op = "quote" =>
           request.rev \in 1..Cardinality(Quotes(request.supplier)) + 1,
         request.op = "approve" => /\ award[request.award] # None
                                   /\ \A r \in DOMAIN request.selected : resp[r] # None,
         request.op = "order" => award[request.award] # None,
         request.op # "convert"
  PROVE  IInv'
<1>1. TypeOK'
  BY DEF IInv, TypeOK, Begin
<1>2. \A s : Quotes(s)' = Quotes(s) /\ Revisions(s)' = Revisions(s)
  BY DEF Begin, Quotes, Revisions
<1>3. RevisionsInOrder'
  BY <1>2 DEF IInv, RevisionsInOrder
<1>4. \A u \in Txn : txn'[u] = IF u = t THEN request ELSE txn[u]
  BY DEF Begin, IInv, TypeOK
<1>5. PendingRevision'
  BY <1>2, <1>4 DEF IInv, PendingRevision, Is
<1>6. RowsPresent'
  BY <1>4 DEF IInv, RowsPresent, Is, Begin
<1>7. OrderedFirst'
  BY <1>4 DEF IInv, OrderedFirst, Is, Begin
<1>8. ConvertedIsOrdered'
  BY DEF IInv, ConvertedIsOrdered, In, Begin
<1> QED
  BY <1>1, <1>3, <1>5, <1>6, <1>7, <1>8 DEF IInv

\* Ending a request: what the others hold.
LEMMA EndKeeps ==
  ASSUME TypeOK, NEW t \in Txn, End(t)
  PROVE  /\ txn' \in [Txn -> Requests \cup {None}]
         /\ \A u \in Txn : u # t => txn'[u] = txn[u]
         /\ txn'[t] = None
BY DEF TypeOK, End

LEMMA SendReadIInv ==
  ASSUME IInv, NEW t \in Txn, SendRead(t)
  PROVE  IInv'
<1> DEFINE request == [op |-> "send"]
<1>1. Begin(t, request)
  BY DEF SendRead
<1>2. request \in Requests
  BY DEF Requests
<1> QED
  BY <1>1, <1>2, BeginIInv

LEMMA SendDoneIInv ==
  ASSUME IInv, NEW t \in Txn, SendDone(t)
  PROVE  IInv'
<1>1. TypeOK'
  <2>1. rfq' \in [status : RFQStatus, awarded : Nat]
    BY DEF IInv, TypeOK, SendDone, RFQStatus
  <2> QED
    BY <2>1, EndKeeps DEF IInv, TypeOK, SendDone
<1>2. RevisionsInOrder'
  BY DEF IInv, RevisionsInOrder, SendDone, Quotes, Revisions
<1>3. PendingRevision' /\ RowsPresent' /\ OrderedFirst'
  <2>1. \A s : Quotes(s)' = Quotes(s)
    BY DEF SendDone, Quotes
  <2>2. End(t) /\ TypeOK
    BY DEF SendDone, IInv
  <2>3. \A u \in Txn : txn'[u] = txn[u] \/ txn'[u] = None
    BY <2>2, EndKeeps
  <2>4. PendingRevision'
    BY <2>1, <2>3 DEF IInv, PendingRevision, Is
  <2>5. RowsPresent'
    BY <2>3 DEF IInv, RowsPresent, Is, SendDone
  <2>6. OrderedFirst'
    BY <2>3 DEF IInv, OrderedFirst, Is, SendDone
  <2> QED
    BY <2>4, <2>5, <2>6
<1>4. ConvertedIsOrdered'
  BY DEF IInv, ConvertedIsOrdered, In, SendDone
<1> QED
  BY <1>1, <1>2, <1>3, <1>4 DEF IInv

LEMMA AbortIInv ==
  ASSUME IInv, NEW t \in Txn, Abort(t)
  PROVE  IInv'
<1>1. TypeOK'
  BY EndKeeps DEF IInv, TypeOK, Abort
<1>2. RevisionsInOrder'
  BY DEF IInv, RevisionsInOrder, Abort, Quotes, Revisions
<1>3. \A u \in Txn : txn'[u] = txn[u] \/ txn'[u] = None
  BY EndKeeps DEF IInv, Abort
<1>4. PendingRevision'
  <2>1. \A s : Quotes(s)' = Quotes(s)
    BY DEF Abort, Quotes
  <2> QED
    BY <1>3, <2>1 DEF IInv, PendingRevision, Is
<1>5. RowsPresent'
  BY <1>3 DEF IInv, RowsPresent, Is, Abort
<1>6. OrderedFirst'
  BY <1>3 DEF IInv, OrderedFirst, Is, Abort
<1>7. ConvertedIsOrdered'
  BY DEF IInv, ConvertedIsOrdered, In, Abort
<1> QED
  BY <1>1, <1>2, <1>4, <1>5, <1>6, <1>7 DEF IInv

LEMMA QuoteReadIInv ==
  ASSUME IInv, NEW t \in Txn, NEW s \in Supplier, NEW q \in Qty, QuoteRead(t, s, q)
  PROVE  IInv'
<1> DEFINE request == [op |-> "quote", supplier |-> s, available |-> q,
                       rev |-> NextRevision(s), seen |-> rfq.status]
<1>1. Begin(t, request)
  BY DEF QuoteRead
<1>2. NextRevision(s) = Cardinality(Quotes(s)) + 1
  BY NextRevisionIs DEF IInv
<1>3. NextRevision(s) \in 1..Cardinality(Quotes(s)) + 1
  BY <1>2, QuotesFinite
<1>4. request \in Requests
  <2>1. NextRevision(s) \in 1..Cardinality(Resp) + 1
    BY <1>2, QuotesFinite
  <2>2. rfq.status \in RFQStatus
    BY DEF IInv, TypeOK
  <2> QED
    BY <2>1, <2>2 DEF Requests
<1> QED
  BY <1>1, <1>3, <1>4, BeginIInv

\* A quote is inserted only with a revision its supplier does not have; as it
\* carries at most the next one, it carries the next one.
LEMMA QuoteDoneIInv ==
  ASSUME IInv, NEW t \in Txn, NEW r \in Resp, QuoteDone(t, r)
  PROVE  IInv'
<1>s. PICK s \in Supplier : s = txn[t].supplier
  BY RequestTypes DEF IInv, QuoteDone
<1> DEFINE row == [supplier |-> s, rev |-> txn[t].rev,
                   available |-> txn[t].available, status |-> "RECEIVED"]
           n == Cardinality(Quotes(s))
<1>1. /\ txn[t].available \in Qty /\ Is(t, "quote")
      /\ resp[r] = None /\ txn[t].rev \notin Revisions(s)
      /\ resp' = [resp EXCEPT ![r] = row] /\ End(t)
      /\ award' = award /\ order' = order
  BY <1>s, RequestTypes DEF IInv, QuoteDone, QuoteInserted
<1>2. n \in Nat /\ IsFiniteSet(Quotes(s)) /\ Cardinality(Resp) \in Nat
  BY QuotesFinite
<1>3. txn[t].rev = n + 1
  <2>1. txn[t].rev \in 1..n + 1
    BY <1>s, <1>1 DEF IInv, PendingRevision
  <2>2. txn[t].rev \notin 1..n
    BY <1>1 DEF IInv, RevisionsInOrder
  <2> QED
    BY <1>2, <2>1, <2>2
<1>4. n + 1 <= Cardinality(Resp)
  <2>1. Quotes(s) \cup {r} \subseteq Resp /\ r \notin Quotes(s)
    BY <1>1 DEF Quotes
  <2>2. Cardinality(Quotes(s) \cup {r}) = n + 1
    BY <1>2, <2>1, FS_AddElement
  <2>3. Cardinality(Quotes(s) \cup {r}) <= Cardinality(Resp)
    BY <2>1, FS_Subset
  <2> QED
    BY <2>2, <2>3
<1>5. row \in ResponseRow
  BY <1>1, <1>2, <1>3, <1>4 DEF ResponseRow, QuoteStatus
<1>6. /\ resp' \in [Resp -> ResponseRow \cup {None}]
      /\ \A q \in Resp : resp'[q] = IF q = r THEN row ELSE resp[q]
      /\ row # None
  BY <1>1, <1>5 DEF IInv, TypeOK
<1>7. TypeOK'
  <2>1. rfq' \in [status : RFQStatus, awarded : Nat]
    BY DEF IInv, TypeOK, QuoteDone, QuoteInserted, RFQStatus
  <2> QED
    BY <1>1, <1>6, <2>1, EndKeeps DEF IInv, TypeOK
<1>8. /\ Quotes(s)' = Quotes(s) \cup {r}
      /\ Revisions(s)' = Revisions(s) \cup {n + 1}
  <2>1. Quotes(s)' = Quotes(s) \cup {r}
    BY <1>6 DEF Quotes
  <2>2. \A q \in Quotes(s) : resp'[q].rev = resp[q].rev
    BY <1>1, <1>6 DEF Quotes
  <2>3. resp'[r].rev = n + 1
    BY <1>3, <1>6
  <2> QED
    BY <2>1, <2>2, <2>3 DEF Revisions
<1>9. Cardinality(Quotes(s) \cup {r}) = n + 1
  <2>1. r \notin Quotes(s)
    BY <1>1 DEF Quotes
  <2> QED
    BY <1>2, <2>1, FS_AddElement
<1>10. \A other \in Supplier : other # s =>
         Quotes(other)' = Quotes(other) /\ Revisions(other)' = Revisions(other)
  <2> SUFFICES ASSUME NEW other \in Supplier, other # s
               PROVE  Quotes(other)' = Quotes(other) /\ Revisions(other)' = Revisions(other)
    OBVIOUS
  <2>1. Quotes(other)' = Quotes(other)
    BY <1>1, <1>6 DEF Quotes
  <2>2. \A q \in Quotes(other) : resp'[q].rev = resp[q].rev
    BY <1>1, <1>6 DEF Quotes
  <2> QED
    BY <2>1, <2>2 DEF Revisions
<1>11. RevisionsInOrder'
  <2> SUFFICES ASSUME NEW x \in Supplier
               PROVE  Revisions(x)' = 1..Cardinality(Quotes(x)')
    BY DEF RevisionsInOrder
  <2>1. CASE x = s
    <3>1. Revisions(s) = 1..n
      BY <1>1 DEF IInv, RevisionsInOrder
    <3>2. 1..n + 1 = (1..n) \cup {n + 1}
      BY <1>2
    <3> QED
      BY <2>1, <1>8, <1>9, <3>1, <3>2
  <2>2. CASE x # s
    BY <2>2, <1>10 DEF IInv, RevisionsInOrder
  <2> QED
    BY <2>1, <2>2
<1>12. \A u \in Txn : txn'[u] = txn[u] \/ txn'[u] = None
  BY <1>1, EndKeeps DEF IInv
<1>13. PendingRevision'
  <2>1. \A x \in Supplier :
          1..Cardinality(Quotes(x)) + 1 \subseteq 1..Cardinality(Quotes(x)') + 1
    <3> SUFFICES ASSUME NEW x \in Supplier
                 PROVE  1..Cardinality(Quotes(x)) + 1 \subseteq 1..Cardinality(Quotes(x)') + 1
      OBVIOUS
    <3>1. CASE x = s
      <4>1. Cardinality(Quotes(x)') = n + 1
        BY <3>1, <1>8, <1>9
      <4> QED
        BY <3>1, <4>1, <1>2
    <3>2. CASE x # s
      BY <3>2, <1>10
    <3> QED
      BY <3>1, <3>2
  <2>2. \A u \in Txn : Is(u, "quote") => txn[u].supplier \in Supplier
    BY RequestTypes DEF IInv
  <2> QED
    BY <1>12, <2>1, <2>2 DEF IInv, PendingRevision, Is
<1>14. RowsPresent'
  <2>1. \A q \in Resp : resp[q] # None => resp'[q] # None
    BY <1>6
  <2>2. \A u \in Txn : Is(u, "approve") => \A q \in DOMAIN txn[u].selected : q \in Resp
    BY RequestTypes DEF IInv
  <2> QED
    BY <1>1, <1>12, <2>1, <2>2 DEF IInv, RowsPresent, Is
<1>15. OrderedFirst'
  BY <1>1, <1>12 DEF IInv, OrderedFirst, Is
<1>16. ConvertedIsOrdered'
  BY <1>1 DEF IInv, ConvertedIsOrdered, In
<1> QED
  BY <1>7, <1>11, <1>13, <1>14, <1>15, <1>16 DEF IInv

LEMMA DraftReadIInv ==
  ASSUME IInv, NEW t \in Txn, NEW r \in Resp, NEW q \in Qty, DraftRead(t, r, q)
  PROVE  IInv'
<1> DEFINE request == [op |-> "draft", resp |-> r, qty |-> q]
<1>1. Begin(t, request)
  BY DEF DraftRead
<1>2. request \in Requests
  BY DEF Requests
<1> QED
  BY <1>1, <1>2, BeginIInv

\* A new award takes the place of none, and is not CONVERTED.
LEMMA DraftDoneIInv ==
  ASSUME IInv, NEW t \in Txn, NEW a \in Award, DraftDone(t, a)
  PROVE  IInv'
<1> DEFINE row == [resp |-> txn[t].resp, qty |-> txn[t].qty,
                   status |-> IF txn[t].qty > Threshold THEN "PENDING_APPROVAL" ELSE "APPROVED"]
<1>1. /\ award[a] = None /\ award' = [award EXCEPT ![a] = row] /\ End(t)
      /\ rfq' = rfq /\ resp' = resp /\ order' = order
  BY DEF DraftDone
<1>2. row \in AwardRow /\ row.status # "CONVERTED"
  BY RequestTypes DEF IInv, DraftDone, AwardRow, AwardStatus, COMMITTED_AWARD_STATUSES
<1>3. /\ award' \in [Award -> AwardRow \cup {None}]
      /\ \A b \in Award : award'[b] = IF b = a THEN row ELSE award[b]
      /\ row # None
  BY <1>1, <1>2 DEF IInv, TypeOK
<1>4. TypeOK'
  BY <1>1, <1>3, EndKeeps DEF IInv, TypeOK
<1>5. \A s : Quotes(s)' = Quotes(s) /\ Revisions(s)' = Revisions(s)
  BY <1>1 DEF Quotes, Revisions
<1>6. RevisionsInOrder'
  BY <1>5 DEF IInv, RevisionsInOrder
<1>7. \A u \in Txn : txn'[u] = txn[u] \/ txn'[u] = None
  BY <1>1, EndKeeps DEF IInv
<1>8. PendingRevision'
  BY <1>5, <1>7 DEF IInv, PendingRevision, Is
<1>9. RowsPresent'
  <2>1. \A u \in Txn : Is(u, "approve") \/ Is(u, "order") \/ Is(u, "convert") =>
           txn[u].award \in Award
    BY RequestTypes DEF IInv
  <2>2. \A b \in Award : award[b] # None => award'[b] # None
    BY <1>3
  <2> QED
    BY <1>1, <1>7, <2>1, <2>2 DEF IInv, RowsPresent, Is
<1>10. OrderedFirst'
  BY <1>1, <1>7 DEF IInv, OrderedFirst, Is
<1>11. ConvertedIsOrdered'
  <2>1. In({"CONVERTED"})' \subseteq In({"CONVERTED"})
    BY <1>2, <1>3 DEF In
  <2> QED
    BY <1>1, <2>1 DEF IInv, ConvertedIsOrdered
<1> QED
  BY <1>4, <1>6, <1>8, <1>9, <1>10, <1>11 DEF IInv

LEMMA ApproveReadIInv ==
  ASSUME IInv, NEW t \in Txn, NEW a \in Award, ApproveRead(t, a)
  PROVE  IInv'
<1> DEFINE latest == LatestResponses
           selected == [r \in latest |-> Selected(latest, a, r)]
           request == [op |-> "approve", award |-> a, total |-> rfq.awarded + award[a].qty,
                       selected |-> selected, from |-> rfq.status,
                       status |-> RfqStatusAfter(latest, a)]
<1>1. Begin(t, request) /\ award[a] # None
  BY DEF ApproveRead
<1>2. latest \subseteq Resp /\ \A r \in latest : resp[r] # None
  BY DEF LatestResponses
<1>3. \A r \in latest : Selected(latest, a, r) \in QuoteStatus
  <2> SUFFICES ASSUME NEW r \in latest PROVE Selected(latest, a, r) \in QuoteStatus
    OBVIOUS
  <2>1. resp[r].status \in QuoteStatus
    BY <1>2 DEF IInv, TypeOK, ResponseRow
  <2> QED
    BY <2>1 DEF Selected, QuoteStatus
<1>4. selected \in [latest -> QuoteStatus]
  BY <1>3
<1>5. rfq.status \in RFQStatus /\ rfq.awarded \in Nat
  BY DEF IInv, TypeOK
<1>6. RfqStatusAfter(latest, a) \in RFQStatus
  BY <1>5 DEF RfqStatusAfter, RFQStatus
<1>7. rfq.awarded + award[a].qty \in Nat
  <2>1. award[a].qty \in Nat
    BY <1>1 DEF IInv, TypeOK, AwardRow
  <2> QED
    BY <1>5, <2>1
<1>8. request \in Requests
  BY <1>2, <1>4, <1>5, <1>6, <1>7 DEF Requests
<1>9. \A r \in DOMAIN request.selected : resp[r] # None
  BY <1>2
<1> HIDE DEF latest, selected
<1> QED
  BY <1>1, <1>8, <1>9, BeginIInv

\* An approval changes the status of an award and of quotes, never which rows
\* there are, and makes no award CONVERTED.
LEMMA ApproveDoneIInv ==
  ASSUME IInv, NEW t \in Txn, ApproveDone(t)
  PROVE  IInv'
<1>1. PICK a \in Award : a = txn[t].award
  BY RequestTypes DEF IInv, ApproveDone
<1>2. /\ award[a] \in AwardRow /\ award[a] # None
      /\ award' = [award EXCEPT ![a].status = "APPROVED"]
      /\ order' = order /\ End(t)
  BY <1>1 DEF IInv, TypeOK, RowsPresent, ApproveDone
<1>3. /\ \A b \in Award : b # a => award'[b] = award[b]
      /\ award'[a] \in AwardRow /\ award'[a].status = "APPROVED" /\ award'[a] # None
      /\ award' \in [Award -> AwardRow \cup {None}]
  BY <1>2 DEF IInv, TypeOK, AwardRow, AwardStatus, COMMITTED_AWARD_STATUSES
<1>4. \A r \in Resp :
        \/ resp'[r] = resp[r]
        \/ /\ resp[r] \in ResponseRow /\ resp'[r] \in ResponseRow
           /\ resp'[r].supplier = resp[r].supplier /\ resp'[r].rev = resp[r].rev
  <2> SUFFICES ASSUME NEW r \in Resp, resp'[r] # resp[r]
               PROVE  /\ resp[r] \in ResponseRow /\ resp'[r] \in ResponseRow
                      /\ resp'[r].supplier = resp[r].supplier /\ resp'[r].rev = resp[r].rev
    OBVIOUS
  <2>1. /\ r \in DOMAIN txn[t].selected
        /\ resp'[r] = [resp[r] EXCEPT !.status = txn[t].selected[r]]
    BY DEF ApproveDone
  <2>2. resp[r] \in ResponseRow
    BY <2>1 DEF IInv, TypeOK, RowsPresent, ApproveDone
  <2>3. txn[t].selected[r] \in QuoteStatus
    BY <2>1, RequestTypes DEF IInv, ApproveDone
  <2> QED
    BY <2>1, <2>2, <2>3 DEF ResponseRow
<1>5. TypeOK'
  <2>1. resp' \in [Resp -> ResponseRow \cup {None}]
    <3>1. \A r \in Resp : resp'[r] \in ResponseRow \cup {None}
      BY <1>4 DEF IInv, TypeOK
    <3>2. resp' = [r \in Resp |-> resp'[r]]
      BY DEF ApproveDone
    <3> QED
      BY <3>1, <3>2
  <2>2. rfq' \in [status : RFQStatus, awarded : Nat]
    <3>1. txn[t].status \in RFQStatus /\ txn[t].total \in Nat /\ rfq.status \in RFQStatus
      BY RequestTypes DEF IInv, TypeOK, ApproveDone
    <3> QED
      BY <3>1 DEF ApproveDone
  <2> QED
    BY <1>2, <1>3, <2>1, <2>2, EndKeeps DEF IInv, TypeOK
<1>6. \A s : Quotes(s)' = Quotes(s) /\ Revisions(s)' = Revisions(s)
  <2>1. \A r \in Resp : (resp[r] # None) = (resp'[r] # None)
    BY <1>4
  <2>2. \A r \in Resp : resp[r] # None => /\ resp'[r].supplier = resp[r].supplier
                                          /\ resp'[r].rev = resp[r].rev
    BY <1>4
  <2> QED
    BY <2>1, <2>2, SameQuotes
<1>7. RevisionsInOrder'
  BY <1>6 DEF IInv, RevisionsInOrder
<1>8. \A u \in Txn : txn'[u] = txn[u] \/ txn'[u] = None
  BY <1>2, EndKeeps DEF IInv
<1>9. PendingRevision'
  BY <1>6, <1>8 DEF IInv, PendingRevision, Is
<1>10. RowsPresent'
  <2>1. \A u \in Txn : Is(u, "approve") \/ Is(u, "order") \/ Is(u, "convert") =>
           txn[u].award \in Award
    BY RequestTypes DEF IInv
  <2>2. \A u \in Txn : Is(u, "approve") => \A q \in DOMAIN txn[u].selected : q \in Resp
    BY RequestTypes DEF IInv
  <2>3. \A b \in Award : award[b] # None => award'[b] # None
    BY <1>3
  <2>4. \A r \in Resp : resp[r] # None => resp'[r] # None
    BY <1>4
  <2> QED
    BY <1>8, <2>1, <2>2, <2>3, <2>4 DEF IInv, RowsPresent, Is
<1>11. OrderedFirst'
  BY <1>2, <1>8 DEF IInv, OrderedFirst, Is
<1>12. ConvertedIsOrdered'
  <2>1. In({"CONVERTED"})' \subseteq In({"CONVERTED"})
    BY <1>3 DEF In
  <2> QED
    BY <1>2, <2>1 DEF IInv, ConvertedIsOrdered
<1> QED
  BY <1>5, <1>7, <1>9, <1>10, <1>11, <1>12 DEF IInv

LEMMA OrderReadIInv ==
  ASSUME IInv, NEW t \in Txn, NEW a \in Award, OrderRead(t, a)
  PROVE  IInv'
<1> DEFINE request == [op |-> "order", award |-> a]
<1>1. Begin(t, request) /\ award[a] # None
  BY DEF OrderRead
<1>2. request \in Requests
  BY DEF Requests
<1> QED
  BY <1>1, <1>2, BeginIInv

\* A new order takes the place of none, so every award keeps the orders it has.
LEMMA OrderDoneIInv ==
  ASSUME IInv, NEW t \in Txn, NEW o \in Order, OrderDone(t, o)
  PROVE  IInv'
<1>1. PICK a \in Award : a = txn[t].award
  BY RequestTypes DEF IInv, OrderDone
<1>2. /\ award[a] # None /\ order[o] = None /\ a # None
      /\ order' = [order EXCEPT ![o] = a]
      /\ txn' = [txn EXCEPT ![t] = [op |-> "convert", award |-> a]]
      /\ rfq' = rfq /\ resp' = resp /\ award' = award
  BY <1>1 DEF IInv, RowsPresent, OrderDone
<1>3. \A p \in Order : order'[p] = IF p = o THEN a ELSE order[p]
  BY <1>2 DEF IInv, TypeOK
<1>4. \A u \in Txn : txn'[u] = IF u = t THEN [op |-> "convert", award |-> a] ELSE txn[u]
  BY <1>2 DEF IInv, TypeOK
<1>5. TypeOK'
  <2>1. [op |-> "convert", award |-> a] \in Requests
    BY DEF Requests
  <2> QED
    BY <1>2, <2>1 DEF IInv, TypeOK
<1>6. \A b \in Award : (\E p \in Order : order[p] = b) => \E p \in Order : order'[p] = b
  BY <1>2, <1>3
<1>7. \A s : Quotes(s)' = Quotes(s) /\ Revisions(s)' = Revisions(s)
  BY <1>2 DEF Quotes, Revisions
<1>8. RevisionsInOrder'
  BY <1>7 DEF IInv, RevisionsInOrder
<1>9. PendingRevision'
  BY <1>4, <1>7 DEF IInv, PendingRevision, Is
<1>10. RowsPresent'
  BY <1>2, <1>4 DEF IInv, RowsPresent, Is
<1>11. OrderedFirst'
  <2>1. \A u \in Txn : Is(u, "convert") => txn[u].award \in Award
    BY RequestTypes DEF IInv
  <2>2. \E p \in Order : order'[p] = a
    BY <1>3
  <2> QED
    BY <1>4, <1>6, <2>1, <2>2 DEF IInv, OrderedFirst, Is
<1>12. ConvertedIsOrdered'
  BY <1>2, <1>6 DEF IInv, ConvertedIsOrdered, In
<1> QED
  BY <1>5, <1>8, <1>9, <1>10, <1>11, <1>12 DEF IInv

\* The award that becomes CONVERTED has the order of OrderedFirst.
LEMMA ConvertDoneIInv ==
  ASSUME IInv, NEW t \in Txn, ConvertDone(t)
  PROVE  IInv'
<1>1. PICK a \in Award : a = txn[t].award
  BY RequestTypes DEF IInv, ConvertDone
<1>2. /\ award[a] \in AwardRow
      /\ award' = [award EXCEPT ![a].status = "CONVERTED"]
      /\ rfq' = rfq /\ resp' = resp /\ order' = order /\ End(t)
  BY <1>1 DEF IInv, TypeOK, RowsPresent, ConvertDone
<1>3. /\ \A b \in Award : b # a => award'[b] = award[b]
      /\ award'[a] \in AwardRow /\ award'[a] # None
      /\ award' \in [Award -> AwardRow \cup {None}]
  BY <1>2 DEF IInv, TypeOK, AwardRow, AwardStatus, COMMITTED_AWARD_STATUSES
<1>4. TypeOK'
  BY <1>2, <1>3, EndKeeps DEF IInv, TypeOK
<1>5. \A s : Quotes(s)' = Quotes(s) /\ Revisions(s)' = Revisions(s)
  BY <1>2 DEF Quotes, Revisions
<1>6. RevisionsInOrder'
  BY <1>5 DEF IInv, RevisionsInOrder
<1>7. \A u \in Txn : txn'[u] = txn[u] \/ txn'[u] = None
  BY <1>2, EndKeeps DEF IInv
<1>8. PendingRevision'
  BY <1>5, <1>7 DEF IInv, PendingRevision, Is
<1>9. RowsPresent'
  <2>1. \A u \in Txn : Is(u, "approve") \/ Is(u, "order") \/ Is(u, "convert") =>
           txn[u].award \in Award
    BY RequestTypes DEF IInv
  <2>2. \A b \in Award : award[b] # None => award'[b] # None
    BY <1>3
  <2> QED
    BY <1>2, <1>7, <2>1, <2>2 DEF IInv, RowsPresent, Is
<1>10. OrderedFirst'
  BY <1>2, <1>7 DEF IInv, OrderedFirst, Is
<1>11. ConvertedIsOrdered'
  <2>1. In({"CONVERTED"})' \subseteq In({"CONVERTED"}) \cup {a}
    BY <1>3 DEF In
  <2>2. \E o \in Order : order[o] = a
    BY <1>1 DEF IInv, OrderedFirst, ConvertDone
  <2> QED
    BY <1>2, <2>1, <2>2 DEF IInv, ConvertedIsOrdered
<1> QED
  BY <1>4, <1>6, <1>8, <1>9, <1>10, <1>11 DEF IInv

\* Every step of every request keeps the invariant.
LEMMA StepIInv == IInv /\ [Next]_vars => IInv'
<1> SUFFICES ASSUME IInv, [Next]_vars PROVE IInv'
  OBVIOUS
<1>1. CASE UNCHANGED vars
  <2>1. TypeOK'
    BY <1>1 DEF IInv, TypeOK, vars
  <2>2. RevisionsInOrder' /\ PendingRevision'
    <3>1. \A s : Quotes(s)' = Quotes(s) /\ Revisions(s)' = Revisions(s)
      BY <1>1 DEF Quotes, Revisions, vars
    <3>2. RevisionsInOrder'
      BY <3>1 DEF IInv, RevisionsInOrder
    <3>3. PendingRevision'
      BY <1>1, <3>1 DEF IInv, PendingRevision, Is, vars
    <3> QED
      BY <3>2, <3>3
  <2>3. RowsPresent' /\ OrderedFirst' /\ ConvertedIsOrdered'
    BY <1>1 DEF IInv, RowsPresent, OrderedFirst, ConvertedIsOrdered, In, Is, vars
  <2> QED
    BY <2>1, <2>2, <2>3 DEF IInv
<1>2. CASE Next
  <2>1. PICK t \in Txn : QuoteRequests(t) \/ AwardRequests(t) \/ Abort(t)
    BY <1>2 DEF Next
  <2>2. CASE QuoteRequests(t)
    BY <2>2, SendReadIInv, SendDoneIInv, QuoteReadIInv, QuoteDoneIInv DEF QuoteRequests
  <2>3. CASE AwardRequests(t)
    BY <2>3, DraftReadIInv, DraftDoneIInv, ApproveReadIInv, ApproveDoneIInv,
       OrderReadIInv, OrderDoneIInv, ConvertDoneIInv DEF AwardRequests
  <2>4. CASE Abort(t)
    BY <2>4, AbortIInv
  <2> QED
    BY <2>1, <2>2, <2>3, <2>4
<1> QED
  BY <1>1, <1>2

-----------------------------------------------------------------------------
(* What closes a request and what selects a quote stays covered, because a *)
(* step never takes an award, its quantity or its approval back.           *)

\* The awards that are committed once a is APPROVED.
Approved(a) == In(COMMITTED_AWARD_STATUSES) \cup {a}

\* Those of a set of awards that are for response r.
Of(awards, r) == {b \in awards : award[b].resp = r}

\* An approval that is open decided on awards that are committed when it ends.
ApprovalsCovered ==
    \A t \in Txn : Is(t, "approve") =>
        /\ txn[t].status = "AWARDED" /\ txn[t].from # "AWARDED" =>
             QtySum(Approved(txn[t].award)) >= Need
        /\ \A r \in DOMAIN txn[t].selected : txn[t].selected[r] = "SELECTED" =>
             QtySum(Of(Approved(txn[t].award), r)) >= resp[r].available

Coverage == ClosedIsCovered /\ ApprovalsCovered

\* A step that only adds rows, and commits awards without taking any back.
Grown ==
    /\ \A b \in Award : award[b] # None =>
         /\ award'[b] # None
         /\ award'[b].qty = award[b].qty /\ award'[b].resp = award[b].resp
         /\ award[b].status \in COMMITTED_AWARD_STATUSES =>
              award'[b].status \in COMMITTED_AWARD_STATUSES
    /\ \A r \in Resp : resp[r] # None =>
         resp'[r] # None /\ resp'[r].available = resp[r].available

\* The approvals that are open after the step were open before.
NoneBegun == \A t \in Txn : Is(t, "approve")' => txn'[t] = txn[t]

\* A step that closes no request, selects no quote and begins no approval.
Quiet ==
    /\ Grown
    /\ NoneBegun
    /\ rfq'.status = "AWARDED" => rfq.status = "AWARDED"
    /\ \A r \in Resp : resp'[r] # None /\ resp'[r].status = "SELECTED" =>
         resp[r] # None /\ resp[r].status = "SELECTED"

\* The quantities of awards that exist.
LEMMA AwardQty ==
  ASSUME TypeOK, NEW b \in Award, award[b] # None
  PROVE  award[b].qty \in Nat
<1>1. award[b].qty \in Qty
  BY DEF TypeOK, AwardRow
<1> QED
  BY <1>1

\* The sum of awards is a number, and no smaller over more awards.
LEMMA SumGrows ==
  ASSUME TypeOK, TypeOK', Grown,
         NEW D \in SUBSET Award, \A b \in D : award'[b] # None,
         NEW B \in SUBSET D, \A b \in B : award[b] # None
  PROVE  /\ QtySum(B) \in Int /\ QtySum(D)' \in Int
         /\ QtySum(B) <= QtySum(D)'
<1> DEFINE f == [b \in B |-> award[b].qty]
           g == [b \in D |-> award'[b].qty]
<1>1. IsFiniteSet(D) /\ IsFiniteSet(B)
  BY FS_Subset
<1>2. \A b \in B : f[b] \in Nat /\ f[b] <= g[b]
  <2> SUFFICES ASSUME NEW b \in B PROVE award[b].qty \in Nat /\ award[b].qty <= award'[b].qty
    OBVIOUS
  <2>1. award[b].qty \in Nat
    BY AwardQty
  <2>2. award'[b].qty = award[b].qty
    BY DEF Grown
  <2> QED
    BY <2>1, <2>2
<1>3. \A b \in D : g[b] \in Nat
  <2> SUFFICES ASSUME NEW b \in D PROVE award'[b].qty \in Nat
    OBVIOUS
  <2>1. award'[b].qty \in Qty
    BY DEF TypeOK, AwardRow
  <2> QED
    BY <2>1
<1>4. DOMAIN f = B /\ DOMAIN g = D
  OBVIOUS
<1>5. QtySum(B) = SumFunction(f) /\ QtySum(D)' = SumFunction(g)
  BY DEF QtySum
<1> HIDE DEF f, g
<1>6. SumFunction(f) <= SumFunction(g)
  BY <1>1, <1>2, <1>3, <1>4, SumMonotone
<1>7. SumFunction(f) \in Int /\ SumFunction(g) \in Int
  BY <1>1, <1>2, <1>3, <1>4, SumType
<1> QED
  BY <1>5, <1>6, <1>7

\* What is awarded with a, in all and for one quote, is awarded after the step.
LEMMA ApprovedGrows ==
  ASSUME TypeOK, TypeOK', Grown, NEW a \in Award, award[a] # None
  PROVE  /\ QtySum(Approved(a)) \in Int /\ QtySum(Approved(a))' \in Int
         /\ QtySum(Approved(a)) <= QtySum(Approved(a))'
         /\ \A r : /\ QtySum(Of(Approved(a), r)) \in Int /\ QtySum(Of(Approved(a), r))' \in Int
                   /\ QtySum(Of(Approved(a), r)) <= QtySum(Of(Approved(a), r))'
<1>1. PICK D : D = Approved(a)'
  OBVIOUS
<1>2. D \in SUBSET Award /\ \A b \in D : award'[b] # None
  BY <1>1 DEF Approved, In, Grown
<1>3. Approved(a) \in SUBSET D /\ \A b \in Approved(a) : b \in Award /\ award[b] # None
  BY <1>1 DEF Approved, In, Grown
<1>4. QtySum(D)' = QtySum(Approved(a))'
  BY <1>1 DEF QtySum
<1>5. ASSUME NEW r
      PROVE  /\ QtySum(Of(Approved(a), r)) \in Int /\ QtySum(Of(Approved(a), r))' \in Int
             /\ QtySum(Of(Approved(a), r)) <= QtySum(Of(Approved(a), r))'
  <2>1. PICK E : E = Of(Approved(a), r)'
    OBVIOUS
  <2>2. E \in SUBSET D
    BY <1>1, <2>1 DEF Of
  <2>3. Of(Approved(a), r) \in SUBSET E
    BY <1>1, <1>3, <2>1 DEF Of, Grown
  <2>4. \A b \in Of(Approved(a), r) : award[b] # None
    BY <1>3 DEF Of
  <2>5. QtySum(E)' = QtySum(Of(Approved(a), r))'
    BY <2>1 DEF QtySum
  <2> QED
    BY <1>2, <2>2, <2>3, <2>4, <2>5, SumGrows
<1> QED
  BY <1>2, <1>3, <1>4, <1>5, SumGrows

\* The approvals that stay open stay covered.
LEMMA ApprovalsStay ==
  ASSUME IInv, IInv', Grown, NoneBegun, ApprovalsCovered
  PROVE  ApprovalsCovered'
<1> SUFFICES ASSUME NEW t \in Txn, Is(t, "approve")'
             PROVE  /\ txn'[t].status = "AWARDED" /\ txn'[t].from # "AWARDED" =>
                         QtySum(Approved(txn[t].award))' >= Need
                    /\ \A r \in DOMAIN txn'[t].selected : txn'[t].selected[r] = "SELECTED" =>
                         QtySum(Of(Approved(txn[t].award), r))' >= resp'[r].available
  BY DEF ApprovalsCovered
<1>1. txn'[t] = txn[t] /\ Is(t, "approve")
  BY DEF NoneBegun, Is
<1>2. PICK a \in Award : a = txn[t].award /\ award[a] # None
  BY <1>1, RequestTypes DEF IInv, RowsPresent
<1>3. a = txn'[t].award
  BY <1>1, <1>2
<1>4. TypeOK /\ TypeOK'
  BY DEF IInv
<1>5. txn[t].status = "AWARDED" /\ txn[t].from # "AWARDED" => QtySum(Approved(a))' >= Need
  <2>1. txn[t].status = "AWARDED" /\ txn[t].from # "AWARDED" => QtySum(Approved(a)) >= Need
    BY <1>1, <1>2 DEF ApprovalsCovered
  <2> QED
    BY <1>2, <1>4, <2>1, ApprovedGrows
<1>6. ASSUME NEW r \in DOMAIN txn[t].selected, txn[t].selected[r] = "SELECTED"
      PROVE  QtySum(Of(Approved(a), r))' >= resp'[r].available
  <2>1. QtySum(Of(Approved(a), r)) >= resp[r].available
    BY <1>1, <1>2, <1>6 DEF ApprovalsCovered
  <2>2. r \in Resp /\ resp[r] # None
    BY <1>1, <1>6, RequestTypes DEF IInv, RowsPresent
  <2>3. resp'[r].available = resp[r].available
    BY <2>2 DEF Grown
  <2>4. resp[r].available \in Nat
    <3>1. resp[r].available \in Qty
      BY <2>2 DEF IInv, TypeOK, ResponseRow
    <3> QED
      BY <3>1
  <2> QED
    BY <1>2, <1>4, <2>1, <2>3, <2>4, ApprovedGrows
<1> QED
  BY <1>1, <1>3, <1>5, <1>6

\* A step that closes no request and selects no quote leaves the covered ones
\* covered, and an approval that is still open.
LEMMA ClosedStays ==
  ASSUME IInv, IInv', Grown, ClosedIsCovered
  PROVE  /\ rfq.status = "AWARDED" => Committed' >= Need
         /\ \A r \in Resp : resp[r] # None /\ resp[r].status = "SELECTED" =>
              QtySum({a \in In(COMMITTED_AWARD_STATUSES) : award[a].resp = r})' >= resp'[r].available
<1>1. TypeOK /\ TypeOK'
  BY DEF IInv
<1>2. PICK D : D = In(COMMITTED_AWARD_STATUSES)'
  OBVIOUS
<1>3. D \in SUBSET Award /\ \A b \in D : award'[b] # None
  BY <1>2 DEF In
<1>4. /\ In(COMMITTED_AWARD_STATUSES) \in SUBSET D
      /\ \A b \in In(COMMITTED_AWARD_STATUSES) : b \in Award /\ award[b] # None
  BY <1>2 DEF In, Grown
<1>5. rfq.status = "AWARDED" => Committed' >= Need
  <2>1. /\ Committed \in Int /\ QtySum(D)' \in Int
        /\ Committed <= QtySum(D)'
    BY <1>1, <1>3, <1>4, SumGrows DEF Committed
  <2>2. Committed' = QtySum(D)'
    BY <1>2 DEF Committed, QtySum
  <2>3. rfq.status = "AWARDED" => Committed >= Need
    BY DEF ClosedIsCovered
  <2> QED
    BY <2>1, <2>2, <2>3
<1>6. ASSUME NEW r \in Resp, resp[r] # None, resp[r].status = "SELECTED"
      PROVE  QtySum({a \in In(COMMITTED_AWARD_STATUSES) : award[a].resp = r})' >= resp'[r].available
  <2> DEFINE B == {a \in In(COMMITTED_AWARD_STATUSES) : award[a].resp = r}
  <2>1. PICK E : E = {a \in D : award'[a].resp = r}
    OBVIOUS
  <2>2. E \in SUBSET Award /\ \A b \in E : award'[b] # None
    BY <1>3, <2>1
  <2>3. B \in SUBSET E /\ \A b \in B : award[b] # None
    BY <1>4, <2>1 DEF Grown
  <2>4. QtySum(E)' = QtySum({a \in In(COMMITTED_AWARD_STATUSES) : award[a].resp = r})'
    BY <1>2, <2>1 DEF QtySum
  <2>5. QtySum(B) >= resp[r].available
    BY <1>6 DEF ClosedIsCovered
  <2>6. resp'[r].available = resp[r].available
    BY <1>6 DEF Grown
  <2>7. resp[r].available \in Nat
    <3>1. resp[r].available \in Qty
      BY <1>6 DEF IInv, TypeOK, ResponseRow
    <3> QED
      BY <3>1
  <2> HIDE DEF B
  <2>8. QtySum(B) \in Int /\ QtySum(E)' \in Int /\ QtySum(B) <= QtySum(E)'
    BY <1>1, <2>2, <2>3, SumGrows
  <2> QED
    BY <2>4, <2>5, <2>6, <2>7, <2>8
<1> QED
  BY <1>5, <1>6

\* So does a step that begins none either.
LEMMA QuietCoverage ==
  ASSUME IInv, IInv', Coverage, Quiet
  PROVE  Coverage'
<1>1. ApprovalsCovered'
  BY ApprovalsStay DEF Coverage, Quiet
<1>2. ClosedIsCovered'
  BY ClosedStays DEF Coverage, Quiet, ClosedIsCovered
<1> QED
  BY <1>1, <1>2 DEF Coverage

\* The request that approves a read the rows as they are, and a is not
\* committed yet.
LEMMA ApproveReadCoverage ==
  ASSUME IInv, IInv', Coverage, NEW t \in Txn, NEW a \in Award, ApproveRead(t, a)
  PROVE  Coverage'
<1> DEFINE latest == LatestResponses
           selected == [r \in latest |-> Selected(latest, a, r)]
           request == [op |-> "approve", award |-> a, total |-> rfq.awarded + award[a].qty,
                       selected |-> selected, from |-> rfq.status,
                       status |-> RfqStatusAfter(latest, a)]
<1>1. /\ Begin(t, request)
      /\ award[a] # None /\ award[a].status = "PENDING_APPROVAL"
  BY DEF ApproveRead
<1>2. /\ rfq' = rfq /\ resp' = resp /\ award' = award
      /\ \A u \in Txn : txn'[u] = IF u = t THEN request ELSE txn[u]
  BY <1>1 DEF Begin, IInv, TypeOK
<1>3. ClosedIsCovered'
  BY <1>2 DEF Coverage, ClosedIsCovered, Committed, QtySum, In
<1>4. /\ QtySum(Approved(a))' = QtySum(Approved(a))
      /\ \A r : QtySum(Of(Approved(a), r))' = QtySum(Of(Approved(a), r))
  BY <1>2 DEF QtySum, Of, Approved, In
<1>5. QtySum(Approved(a)) = Committed + award[a].qty
  <2> DEFINE B == In(COMMITTED_AWARD_STATUSES)
             f == [b \in B |-> award[b].qty]
             g == [b \in B \cup {a} |-> award[b].qty]
  <2>1. a \notin B
    BY <1>1 DEF In, COMMITTED_AWARD_STATUSES
  <2>2. B \in SUBSET Award /\ \A b \in B \cup {a} : b \in Award /\ award[b] # None
    BY <1>1 DEF In
  <2>3. IsFiniteSet(B) /\ IsFiniteSet(B \cup {a})
    BY <2>2, FS_Subset
  <2>4. \A b \in B \cup {a} : award[b].qty \in Int
    BY <2>2, AwardQty DEF IInv
  <2>5. Committed = SumFunction(f) /\ QtySum(Approved(a)) = SumFunction(g)
    BY DEF Committed, QtySum, Approved
  <2>6. /\ DOMAIN f = B /\ DOMAIN g = B \cup {a}
        /\ \A b \in B : f[b] = award[b].qty
        /\ \A b \in B \cup {a} : g[b] = award[b].qty
    OBVIOUS
  <2> HIDE DEF f, g, B
  <2>7. SumFunction(g) = SumFunction(f) - At(f, a) + At(g, a)
    <3>1. DOMAIN f \ {a} = DOMAIN g \ {a}
      BY <2>6
    <3>2. /\ IsFiniteSet(DOMAIN f) /\ IsFiniteSet(DOMAIN g)
          /\ \A y \in DOMAIN f : f[y] \in Int
          /\ \A y \in DOMAIN g : g[y] \in Int
          /\ \A y \in DOMAIN f \ {a} : g[y] = f[y]
      BY <2>3, <2>4, <2>6
    <3> QED
      BY ONLY <3>1, <3>2, SumDiffers
  <2>8. At(f, a) = 0 /\ At(g, a) = award[a].qty
    BY <2>1, <2>6 DEF At
  <2>9. SumFunction(f) \in Int /\ award[a].qty \in Int
    BY <2>3, <2>4, <2>6, SumType
  <2> QED
    BY ONLY <2>5, <2>7, <2>8, <2>9
<1>6. RfqStatusAfter(latest, a) = "AWARDED" /\ rfq.status # "AWARDED" =>
        QtySum(Approved(a)) >= Need
  BY <1>5 DEF RfqStatusAfter
<1>7. ASSUME NEW r \in latest, Selected(latest, a, r) = "SELECTED"
      PROVE  QtySum(Of(Approved(a), r)) >= resp[r].available
  <2>1. resp[r].status = "RECEIVED"
    BY DEF LatestResponses
  <2> QED
    BY <1>7, <2>1 DEF Selected, Of, Approved
<1>8. ApprovalsCovered'
  <2> SUFFICES ASSUME NEW u \in Txn, Is(u, "approve")'
               PROVE  /\ txn'[u].status = "AWARDED" /\ txn'[u].from # "AWARDED" =>
                           QtySum(Approved(txn[u].award))' >= Need
                      /\ \A r \in DOMAIN txn'[u].selected : txn'[u].selected[r] = "SELECTED" =>
                           QtySum(Of(Approved(txn[u].award), r))' >= resp'[r].available
    BY DEF ApprovalsCovered
  <2>1. CASE u = t
    <3>1. /\ txn'[u].award = a /\ txn'[u].from = rfq.status
          /\ txn'[u].status = RfqStatusAfter(latest, a)
          /\ DOMAIN txn'[u].selected = latest
          /\ \A r \in latest : txn'[u].selected[r] = Selected(latest, a, r)
      <4>1. txn'[u] = request
        BY <1>2, <2>1
      <4>2. /\ request.award = a /\ request.from = rfq.status
            /\ request.status = RfqStatusAfter(latest, a) /\ request.selected = selected
        OBVIOUS
      <4>3. DOMAIN selected = latest /\ \A r \in latest : selected[r] = Selected(latest, a, r)
        OBVIOUS
      <4> HIDE DEF request, selected, latest
      <4> QED
        BY ONLY <4>1, <4>2, <4>3
    <3> HIDE DEF latest
    <3> QED
      BY <1>2, <1>4, <1>6, <1>7, <3>1
  <2>2. CASE u # t
    <3>1. txn'[u] = txn[u] /\ Is(u, "approve")
      BY <1>2, <2>2 DEF Is
    <3>2. PICK b : b = txn[u].award
      OBVIOUS
    <3>3. /\ QtySum(Approved(b))' = QtySum(Approved(b))
          /\ \A r : QtySum(Of(Approved(b), r))' = QtySum(Of(Approved(b), r))
      BY <1>2 DEF QtySum, Of, Approved, In
    <3> QED
      BY <1>2, <3>1, <3>2, <3>3 DEF Coverage, ApprovalsCovered
  <2> QED
    BY <2>1, <2>2
<1> QED
  BY <1>3, <1>8 DEF Coverage

\* An approval writes what it decided once its award is among the committed
\* ones, and those it decided on still are.
LEMMA ApproveDoneCoverage ==
  ASSUME IInv, IInv', Coverage, NEW t \in Txn, ApproveDone(t)
  PROVE  Coverage'
<1>1. PICK a \in Award : a = txn[t].award
  BY RequestTypes DEF IInv, ApproveDone
<1>2. /\ award[a] \in AwardRow /\ award[a] # None
      /\ award' = [award EXCEPT ![a].status = "APPROVED"]
      /\ End(t)
  BY <1>1 DEF IInv, TypeOK, RowsPresent, ApproveDone
<1>3. /\ \A b \in Award : b # a => award'[b] = award[b]
      /\ award'[a] \in AwardRow /\ award'[a].status = "APPROVED" /\ award'[a] # None
      /\ award'[a].qty = award[a].qty /\ award'[a].resp = award[a].resp
  BY <1>2 DEF IInv, TypeOK, AwardRow, AwardStatus, COMMITTED_AWARD_STATUSES
<1>4. \A r \in Resp :
        \/ resp'[r] = resp[r]
        \/ /\ resp[r] # None /\ resp'[r] # None
           /\ resp'[r].available = resp[r].available
           /\ r \in DOMAIN txn[t].selected /\ resp'[r].status = txn[t].selected[r]
  <2> SUFFICES ASSUME NEW r \in Resp, resp'[r] # resp[r]
               PROVE  /\ resp[r] # None /\ resp'[r] # None
                      /\ resp'[r].available = resp[r].available
                      /\ r \in DOMAIN txn[t].selected /\ resp'[r].status = txn[t].selected[r]
    OBVIOUS
  <2>1. /\ r \in DOMAIN txn[t].selected
        /\ resp'[r] = [resp[r] EXCEPT !.status = txn[t].selected[r]]
    BY DEF ApproveDone
  <2>2. resp[r] \in ResponseRow /\ resp[r] # None
    BY <2>1 DEF IInv, TypeOK, RowsPresent, ApproveDone
  <2>3. txn[t].selected[r] \in QuoteStatus
    BY <2>1, RequestTypes DEF IInv, ApproveDone
  <2>4. resp'[r] \in ResponseRow /\ resp'[r].available = resp[r].available
        /\ resp'[r].status = txn[t].selected[r]
    BY <2>1, <2>2, <2>3 DEF ResponseRow
  <2> QED
    BY <2>1, <2>2, <2>4
<1>5. Grown
  BY <1>2, <1>3, <1>4 DEF Grown, COMMITTED_AWARD_STATUSES
<1>6. NoneBegun
  BY <1>2, EndKeeps DEF IInv, NoneBegun, Is
<1>7. In(COMMITTED_AWARD_STATUSES)' = Approved(a)'
  BY <1>3 DEF In, Approved, COMMITTED_AWARD_STATUSES
<1>8. TypeOK /\ TypeOK' /\ Is(t, "approve")
  BY DEF IInv, ApproveDone
<1>9. rfq'.status = "AWARDED" => Committed' >= Need
  <2>1. CASE txn[t].status # txn[t].from
    <3>1. rfq'.status = txn[t].status
      BY <2>1 DEF ApproveDone
    <3>2. rfq'.status = "AWARDED" => QtySum(Approved(a)) >= Need
      BY <1>1, <1>8, <2>1, <3>1 DEF Coverage, ApprovalsCovered
    <3>3. Committed' = QtySum(Approved(a))'
      BY <1>7 DEF Committed, QtySum
    <3> QED
      BY <1>2, <1>5, <1>8, <3>2, <3>3, ApprovedGrows
  <2>2. CASE txn[t].status = txn[t].from
    <3>1. rfq'.status = rfq.status
      BY <2>2 DEF ApproveDone
    <3> QED
      BY <1>5, <3>1, ClosedStays DEF Coverage
  <2> QED
    BY <2>1, <2>2
<1>10. ASSUME NEW r \in Resp, resp'[r] # None, resp'[r].status = "SELECTED"
       PROVE  QtySum({b \in In(COMMITTED_AWARD_STATUSES) : award[b].resp = r})' >= resp'[r].available
  <2>1. CASE resp'[r] = resp[r]
    BY <1>5, <1>10, <2>1, ClosedStays DEF Coverage
  <2>2. CASE resp'[r] # resp[r]
    <3>1. /\ resp[r] # None /\ resp'[r].available = resp[r].available
          /\ r \in DOMAIN txn[t].selected /\ txn[t].selected[r] = "SELECTED"
      BY <1>4, <1>10, <2>2
    <3>2. QtySum(Of(Approved(a), r)) >= resp[r].available
      BY <1>1, <1>8, <3>1 DEF Coverage, ApprovalsCovered
    <3>3. QtySum({b \in In(COMMITTED_AWARD_STATUSES) : award[b].resp = r})' = QtySum(Of(Approved(a), r))'
      BY <1>7 DEF QtySum, Of
    <3>4. resp[r].available \in Nat
      <4>1. resp[r].available \in Qty
        BY <1>8, <3>1 DEF TypeOK, ResponseRow
      <4> QED
        BY <4>1
    <3> QED
      BY <1>2, <1>5, <1>8, <3>1, <3>2, <3>3, <3>4, ApprovedGrows
  <2> QED
    BY <2>1, <2>2
<1>11. ClosedIsCovered'
  BY <1>9, <1>10 DEF ClosedIsCovered
<1>12. ApprovalsCovered'
  BY <1>5, <1>6, ApprovalsStay DEF Coverage
<1> QED
  BY <1>11, <1>12 DEF Coverage

\* A step that begins a request of another kind is quiet.
LEMMA BeginQuiet ==
  ASSUME IInv, NEW t \in Txn, NEW request, request.op # "approve", Begin(t, request)
  PROVE  Quiet
<1>1. rfq' = rfq /\ resp' = resp /\ award' = award
  BY DEF Begin
<1>2. \A u \in Txn : txn'[u] = IF u = t THEN request ELSE txn[u]
  BY DEF Begin, IInv, TypeOK
<1>3. Grown /\ NoneBegun
  BY <1>1, <1>2 DEF Grown, NoneBegun, Is
<1> QED
  BY <1>1, <1>3 DEF Quiet

\* Every step that neither begins nor ends an approval is quiet.
LEMMA OtherStepsQuiet ==
  ASSUME IInv, IInv', NEW t \in Txn,
         \/ QuoteRequests(t) \/ Abort(t)
         \/ \E r \in Resp, q \in Qty : DraftRead(t, r, q)
         \/ \E a \in Award : DraftDone(t, a) \/ OrderRead(t, a)
         \/ \E o \in Order : OrderDone(t, o)
         \/ ConvertDone(t)
  PROVE  Quiet
<1>t. TypeOK /\ TypeOK'
  BY DEF IInv
<1>e. End(t) => NoneBegun
  BY <1>t, EndKeeps DEF NoneBegun, Is
<1>1. CASE SendRead(t)
  BY <1>1, BeginQuiet DEF SendRead
<1>2. CASE SendDone(t)
  <2>1. rfq'.status # "AWARDED" /\ resp' = resp /\ award' = award /\ End(t)
    BY <1>2, <1>t DEF SendDone, TypeOK
  <2> QED
    BY <1>e, <2>1 DEF Quiet, Grown
<1>3. ASSUME NEW s \in Supplier, NEW q \in Qty, QuoteRead(t, s, q) PROVE Quiet
  BY <1>3, BeginQuiet DEF QuoteRead
<1>4. ASSUME NEW r \in Resp, QuoteDone(t, r) PROVE Quiet
  <2>1. award' = award /\ End(t) /\ resp[r] = None
    BY <1>4 DEF QuoteDone, QuoteInserted
  <2>2. rfq'.status = rfq.status \/ rfq'.status = "UNDER_EVALUATION"
    BY <1>4, <1>t DEF QuoteDone, QuoteInserted, TypeOK
  <2>3. /\ \A p \in Resp : p # r => resp'[p] = resp[p]
        /\ resp'[r].status = "RECEIVED"
    BY <1>4, <1>t DEF QuoteDone, QuoteInserted, TypeOK
  <2>4. Grown
    BY <2>1, <2>3 DEF Grown
  <2> QED
    BY <1>e, <2>1, <2>2, <2>3, <2>4 DEF Quiet
<1>5. CASE Abort(t)
  BY <1>5, <1>e DEF Abort, Quiet, Grown
<1>6. ASSUME NEW r \in Resp, NEW q \in Qty, DraftRead(t, r, q) PROVE Quiet
  BY <1>6, BeginQuiet DEF DraftRead
<1>7. ASSUME NEW a \in Award, DraftDone(t, a) PROVE Quiet
  <2>1. /\ rfq' = rfq /\ resp' = resp /\ End(t) /\ award[a] = None
        /\ \A b \in Award : b # a => award'[b] = award[b]
    BY <1>7, <1>t DEF DraftDone, TypeOK
  <2>2. Grown
    BY <2>1 DEF Grown
  <2> QED
    BY <1>e, <2>1, <2>2 DEF Quiet
<1>8. ASSUME NEW a \in Award, OrderRead(t, a) PROVE Quiet
  BY <1>8, BeginQuiet DEF OrderRead
<1>9. ASSUME NEW o \in Order, OrderDone(t, o) PROVE Quiet
  <2>1. /\ rfq' = rfq /\ resp' = resp /\ award' = award
        /\ \A u \in Txn : txn'[u] = IF u = t THEN [op |-> "convert", award |-> txn[t].award]
                                    ELSE txn[u]
    BY <1>9, <1>t DEF OrderDone, TypeOK
  <2>2. Grown /\ NoneBegun
    BY <2>1 DEF Grown, NoneBegun, Is
  <2> QED
    BY <2>1, <2>2 DEF Quiet
<1>10. CASE ConvertDone(t)
  <2>1. PICK a \in Award : a = txn[t].award
    BY <1>10, <1>t, RequestTypes DEF ConvertDone
  <2>2. /\ award[a] \in AwardRow /\ End(t) /\ rfq' = rfq /\ resp' = resp
        /\ award' = [award EXCEPT ![a].status = "CONVERTED"]
    BY <1>10, <2>1 DEF IInv, TypeOK, RowsPresent, ConvertDone
  <2>3. /\ \A b \in Award : b # a => award'[b] = award[b]
        /\ award'[a] \in AwardRow /\ award'[a] # None
        /\ award'[a].qty = award[a].qty /\ award'[a].resp = award[a].resp
        /\ award'[a].status = "CONVERTED"
    BY <1>t, <2>2 DEF TypeOK, AwardRow, AwardStatus, COMMITTED_AWARD_STATUSES
  <2>4. Grown
    BY <2>2, <2>3 DEF Grown, COMMITTED_AWARD_STATUSES
  <2> QED
    BY <1>e, <2>2, <2>4 DEF Quiet
<1> QED
  BY <1>1, <1>2, <1>3, <1>4, <1>5, <1>6, <1>7, <1>8, <1>9, <1>10 DEF QuoteRequests

LEMMA InitCoverage == Init => Coverage
BY DEF Init, Coverage, ClosedIsCovered, ApprovalsCovered, Is

LEMMA StepCoverage == IInv /\ IInv' /\ Coverage /\ [Next]_vars => Coverage'
<1> SUFFICES ASSUME IInv, IInv', Coverage, [Next]_vars PROVE Coverage'
  OBVIOUS
<1>1. CASE UNCHANGED vars
  <2>1. Quiet
    BY <1>1 DEF Quiet, Grown, NoneBegun, Is, vars
  <2> QED
    BY <2>1, QuietCoverage
<1>2. ASSUME NEW t \in Txn, ApproveDone(t) PROVE Coverage'
  BY <1>2, ApproveDoneCoverage
<1>3. ASSUME NEW t \in Txn, NEW a \in Award, ApproveRead(t, a) PROVE Coverage'
  BY <1>3, ApproveReadCoverage
<1>4. ASSUME NEW t \in Txn, ~ApproveDone(t), \A a \in Award : ~ApproveRead(t, a),
             QuoteRequests(t) \/ AwardRequests(t) \/ Abort(t)
      PROVE  Coverage'
  <2>1. Quiet
    BY <1>4, OtherStepsQuiet DEF AwardRequests
  <2> QED
    BY <2>1, QuietCoverage
<1> QED
  BY <1>1, <1>2, <1>3, <1>4 DEF Next

-----------------------------------------------------------------------------
(* The theorems.                                                           *)

\* In every reachable state the rows have their types and the revisions of a
\* supplier's quote run from 1 without a gap and without a double: however
\* many submissions read the latest revision at once, the unique constraint
\* fails all but one of those that read the same one.
THEOREM QuotesStayInOrder == Spec => []QuotesInOrder
<1>1. IInv => QuotesInOrder
  BY DEF IInv, QuotesInOrder
<1> QED
  BY <1>1, InitIInv, StepIInv, PTL DEF Spec

\* In every reachable state a CONVERTED award has a supplier order: whatever
\* crashes between create_draft's commit and the commit of the award.
THEOREM ConvertedAwardsHaveOrders == Spec => []ConvertedIsOrdered
<1>1. IInv => ConvertedIsOrdered
  BY DEF IInv
<1> QED
  BY <1>1, InitIInv, StepIInv, PTL DEF Spec

\* In every reachable state a request that was closed is covered by committed
\* awards and a SELECTED quote by the awards for it, although an approval
\* decides both from awards it read before other approvals committed: awards
\* are only ever added to the committed ones.
THEOREM ClosedRequestsAreCovered == Spec => []ClosedIsCovered
<1>1. Coverage => ClosedIsCovered
  BY DEF Coverage
<1> QED
  BY <1>1, InitIInv, StepIInv, InitCoverage, StepCoverage, PTL DEF Spec

-----------------------------------------------------------------------------
(* The order that an award has become: its inductive invariant.            *)

\* The rows that an acknowledgement or a cancellation will leave.
OrderAfter(t) == Overwritten(spo, session[t].order)
ItemAfter(t, l) == Overwritten(item[l], session[t].items[l])

\* What open requests hold.  The changes of an acknowledgement or a
\* cancellation fit every row.
Holds(t) ==
    /\ Runs(t, "propose") =>
        /\ session[t].line \in Line /\ session[t].field \in SPOAmendmentField
        /\ session[t].value \in Nat /\ session[t].status \in OPEN_AMENDMENT_STATUSES
        /\ session[t].field = "UNIT_PRICE" => session[t].value \in Price
        /\ session[t].marked \in BOOLEAN
    /\ Runs(t, "ack") \/ Runs(t, "cancel") =>
        /\ \A row \in OrderRow : Overwritten(row, session[t].order) \in OrderRow
        /\ \A l \in Line : \A row \in ItemRow : Overwritten(row, session[t].items[l]) \in ItemRow
    /\ Runs(t, "ack") => session[t].prices \subseteq Line \X Price /\ IsFiniteSet(session[t].prices)
    /\ Runs(t, "dispose") => session[t].line \in Line /\ session[t].total \in Nat

\* Lines and header agree, and what was cancelled is closed.
LineAgrees(row) == row.ordered = row.confirmed + row.backordered
Agree(o, items) ==
    /\ \A l \in Line : LineAgrees(items[l])
    /\ o.ordered = SumFunction([l \in Line |-> items[l].ordered])
    /\ o.confirmed = SumFunction([l \in Line |-> items[l].confirmed])
    /\ o.backordered = SumFunction([l \in Line |-> items[l].backordered])
    /\ o.status \in {"CANCELLED", "PARTIALLY_CANCELLED"} => \A l \in Line : items[l].open = 0

\* An open amendment of the price of a line.
Exit(l) == \E i \in Open(amend) : amend[i].line = l /\ amend[i].field = "UNIT_PRICE"

\* A request that is alone knows the mark, and leaves an order that adds up.
Alone(t) ==
    /\ Runs(t, "propose") => session[t].marked = spo.flag
    /\ Runs(t, "ack") \/ Runs(t, "cancel") =>
        Agree(OrderAfter(t), [l \in Line |-> ItemAfter(t, l)])
    /\ Runs(t, "ack") =>
        /\ OrderAfter(t).flag <=> Open(amend) # {} \/ session[t].prices # {}
        /\ \A l \in Line : ItemAfter(t, l).pending =>
              Exit(l) \/ \E p \in session[t].prices : p[1] = l
    /\ Runs(t, "cancel") =>
        /\ OrderAfter(t).flag = spo.flag
        /\ \A l \in Line : ItemAfter(t, l).pending = item[l].pending

\* Amendments of a price carry prices.
PricesOffered == \A i \in DOMAIN amend : amend[i].field = "UNIT_PRICE" => amend[i].value \in Price

\* The mark, the lines and the amendments of the order say the same.
Consistent ==
    /\ spo.flag <=> Open(amend) # {}
    /\ Agree(spo, item)
    /\ \A l \in Line : item[l].pending => Exit(l)

OrderInv ==
    /\ OrderingTypeOK /\ DOMAIN session = Session
    /\ AmendmentsNumbered
    /\ PricesOffered
    /\ \A t \in Session : Holds(t)
    /\ workers = 1 =>
        /\ \A t, u \in Session : session[t] # Nothing /\ session[u] # Nothing => t = u
        /\ \A t \in Session : Alone(t)
        /\ Consistent

-----------------------------------------------------------------------------
(* Operators.                                                              *)

\* The columns that a request changed, written to a row.
LEMMA WrittenOver ==
  ASSUME NEW read, NEW new, NEW row
  PROVE  Overwritten(row, Changed(read, new)) =
           [c \in DOMAIN row |-> IF c \in DOMAIN read /\ new[c] # read[c] THEN new[c] ELSE row[c]]
BY DEF Overwritten, Changed

LEMMA OrderFits ==
  ASSUME NEW read \in OrderRow, NEW new \in OrderRow
  PROVE  /\ \A row \in OrderRow : Overwritten(row, Changed(read, new)) \in OrderRow
         /\ Overwritten(read, Changed(read, new)) = new
<1>1. ASSUME NEW row \in OrderRow PROVE Overwritten(row, Changed(read, new)) \in OrderRow
  BY WrittenOver DEF OrderRow
<1>2. Overwritten(read, Changed(read, new)) = new
  BY WrittenOver DEF OrderRow
<1> QED
  BY <1>1, <1>2

LEMMA ItemFits ==
  ASSUME NEW read \in ItemRow, NEW new \in ItemRow
  PROVE  /\ \A row \in ItemRow : Overwritten(row, Changed(read, new)) \in ItemRow
         /\ Overwritten(read, Changed(read, new)) = new
<1>1. ASSUME NEW row \in ItemRow PROVE Overwritten(row, Changed(read, new)) \in ItemRow
  BY WrittenOver DEF ItemRow
<1>2. Overwritten(read, Changed(read, new)) = new
  BY WrittenOver DEF ItemRow
<1> QED
  BY <1>1, <1>2

\* The totals of the lines.
LEMMA TotalsOf ==
  ASSUME NEW o \in OrderRow, NEW items \in [Line -> ItemRow]
  PROVE  /\ Totals(o, items) \in OrderRow
         /\ Totals(o, items).status = o.status /\ Totals(o, items).flag = o.flag
         /\ Totals(o, items).ordered = SumFunction([l \in Line |-> items[l].ordered])
         /\ Totals(o, items).confirmed = SumFunction([l \in Line |-> items[l].confirmed])
         /\ Totals(o, items).backordered = SumFunction([l \in Line |-> items[l].backordered])
<1>1. /\ SumFunction([l \in Line |-> items[l].ordered]) \in Nat
      /\ SumFunction([l \in Line |-> items[l].confirmed]) \in Nat
  BY FiniteAssumption, SumNat DEF ItemRow
<1>2. SumFunction([l \in Line |-> items[l].backordered]) \in Int
  BY FiniteAssumption, SumType DEF ItemRow
<1> QED
  BY <1>1, <1>2 DEF Totals, SumOf, OrderRow

\* Rows that agree are those whose totals are what they would be computed to.
LEMMA AgreeIsTotals ==
  ASSUME NEW o \in OrderRow, NEW items \in [Line -> ItemRow]
  PROVE  Agree(o, items) <=>
           /\ \A l \in Line : LineAgrees(items[l])
           /\ o = Totals(o, items)
           /\ o.status \in {"CANCELLED", "PARTIALLY_CANCELLED"} => \A l \in Line : items[l].open = 0
<1>1. o = Totals(o, items) <=>
        /\ o.ordered = SumFunction([l \in Line |-> items[l].ordered])
        /\ o.confirmed = SumFunction([l \in Line |-> items[l].confirmed])
        /\ o.backordered = SumFunction([l \in Line |-> items[l].backordered])
  BY TotalsOf DEF OrderRow
<1> QED
  BY <1>1 DEF Agree

LEMMA MaxFromZero ==
  ASSUME NEW n \in Nat
  PROVE  Max(0..n) = n
<1>1. n \in 0..n /\ \A y \in 0..n : n >= y
  OBVIOUS
<1>2. \A x \in 0..n : (\A y \in 0..n : x >= y) => x = n
  BY <1>1
<1>3. Max(0..n) \in 0..n /\ \A y \in 0..n : Max(0..n) >= y
  BY <1>1 DEF Max
<1> QED
  BY <1>2, <1>3

\* The number that an amendment takes.
LEMMA NextIsLength ==
  ASSUME OrderingTypeOK, AmendmentsNumbered
  PROVE  NextNumber(amend) = Len(amend) + 1
<1> DEFINE S == {0} \cup {amend[i].no : i \in DOMAIN amend}
<1>1. Len(amend) \in Nat /\ DOMAIN amend = 1..Len(amend)
  BY DEF OrderingTypeOK
<1>2. S = 0..Len(amend)
  BY <1>1 DEF AmendmentsNumbered
<1>3. Max(0..Len(amend)) = Len(amend)
  BY <1>1, MaxFromZero
<1> QED
  BY <1>2, <1>3 DEF NextNumber

\* What an acknowledgement inserts: one open amendment for each price, numbered
\* on from the last.
LEMMA AckInserts ==
  ASSUME OrderingTypeOK, AmendmentsNumbered, PricesOffered,
         NEW S, S \subseteq Line \X Price, IsFiniteSet(S), NEW prices \in SetToSeqs(S)
  PROVE  LET new == AckAmends(prices)
         IN  /\ new \in Seq(AmendmentRow)
             /\ Len(new) = Len(amend) + Cardinality(S)
             /\ \A i \in DOMAIN amend : i \in DOMAIN new /\ new[i] = amend[i]
             /\ \A i \in DOMAIN new : new[i].no = i
             /\ \A i \in DOMAIN new : new[i].field = "UNIT_PRICE" => new[i].value \in Price
             /\ \A p \in S : \E i \in DOMAIN new \ DOMAIN amend :
                  new[i].line = p[1] /\ new[i].field = "UNIT_PRICE"
             /\ \A i \in DOMAIN new \ DOMAIN amend : new[i].status = "PENDING_APPROVAL"
<1> DEFINE n == Cardinality(S)
           k == Len(amend)
           tail == [j \in 1..n |-> Amendment(k + j, "PENDING_APPROVAL", prices[j][1],
                                             "UNIT_PRICE", prices[j][2])]
           new == AckAmends(prices)
<1>1. n \in Nat /\ k \in Nat /\ DOMAIN amend = 1..k /\ amend \in Seq(AmendmentRow)
  BY FS_CardinalityType DEF OrderingTypeOK
<1>2. /\ prices \in [1..n -> S]
      /\ \A i, j \in 1..n : i # j => prices[i] # prices[j]
      /\ Len(prices) = n
  BY <1>1 DEF SetToSeqs
<1>3. \A p \in S : \E j \in 1..n : prices[j] = p
  <2>1. prices \in Injection(1..n, S)
    BY <1>2 DEF Injection, IsInjective
  <2>2. IsFiniteSet(1..n) /\ Cardinality(1..n) = n
    BY <1>1, FS_Interval
  <2>3. prices \in Surjection(1..n, S)
    BY <2>1, <2>2, FS_Injection
  <2> QED
    BY <2>3 DEF Surjection
<1>4. \A j \in 1..n : prices[j][1] \in Line /\ prices[j][2] \in Price
  <2>1. \A p \in Line \X Price : p[1] \in Line /\ p[2] \in Price
    OBVIOUS
  <2> QED
    BY <1>2, <2>1
<1> HIDE DEF n, k
<1>5. tail \in Seq(AmendmentRow) /\ Len(tail) = n
  <2>1. ASSUME NEW j \in 1..n
        PROVE  Amendment(k + j, "PENDING_APPROVAL", prices[j][1], "UNIT_PRICE", prices[j][2])
                 \in AmendmentRow
    <3>1. k + j \in Nat
      BY <1>1
    <3>2. prices[j][2] \in Nat
      BY <1>4, PriceAssumption
    <3> QED
      BY <1>4, <3>1, <3>2 DEF Amendment, AmendmentRow, SPOAmendmentStatus, SPOAmendmentField
  <2> QED
    BY <1>1, <2>1
<1>6. new = amend \o tail
  <2>1. \A j \in 1..n : NextNumber(amend) + j - 1 = k + j
    BY <1>1, NextIsLength DEF k
  <2> QED
    BY <1>2, <2>1 DEF AckAmends
<1> HIDE DEF new
<1>7. new \in Seq(AmendmentRow) /\ Len(new) = k + n
  BY <1>1, <1>5, <1>6 DEF k
<1>8. /\ \A i \in 1..k : new[i] = amend[i]
      /\ \A j \in 1..n : new[k + j] = tail[j]
  BY <1>1, <1>5, <1>6
<1>9. DOMAIN new = 1..(k + n)
  BY <1>7
<1>10. ASSUME NEW i \in DOMAIN new \ DOMAIN amend
       PROVE  /\ new[i].no = i /\ new[i].status = "PENDING_APPROVAL"
              /\ new[i].value \in Price
  <2>1. PICK j \in 1..n : i = k + j
    <3>1. i \in (k+1)..(k+n)
      BY <1>1, <1>9
    <3>2. i - k \in 1..n /\ i = k + (i - k)
      BY <1>1, <3>1
    <3> QED
      BY <3>2
  <2>2. new[i] = Amendment(i, "PENDING_APPROVAL", prices[j][1], "UNIT_PRICE", prices[j][2])
    BY <1>8, <2>1
  <2> QED
    BY <1>4, <2>2 DEF Amendment
<1>11. ASSUME NEW p \in S
       PROVE  \E i \in DOMAIN new \ DOMAIN amend :
                 new[i].line = p[1] /\ new[i].field = "UNIT_PRICE"
  <2>1. PICK j \in 1..n : prices[j] = p
    BY <1>3
  <2>2. k + j \in DOMAIN new \ DOMAIN amend
    BY <1>1, <1>9
  <2>3. new[k + j] = Amendment(k + j, "PENDING_APPROVAL", p[1], "UNIT_PRICE", p[2])
    BY <1>8, <2>1
  <2> QED
    BY <2>2, <2>3 DEF Amendment
<1>12. \A i \in DOMAIN amend : i \in DOMAIN new /\ new[i] = amend[i]
  BY <1>1, <1>8, <1>9
<1>13. /\ \A i \in DOMAIN new : new[i].no = i
       /\ \A i \in DOMAIN new : new[i].field = "UNIT_PRICE" => new[i].value \in Price
  BY <1>10, <1>12 DEF AmendmentsNumbered, PricesOffered
<1>14. Len(new) = Len(amend) + Cardinality(S)
  BY <1>7 DEF n, k
<1> QED
  BY <1>7, <1>10, <1>11, <1>12, <1>13, <1>14 DEF new

-----------------------------------------------------------------------------
(* Steps of any request.                                                   *)

\* With one request at a time, nobody is open when one begins.
LEMMA NobodyElse ==
  ASSUME Free, workers = 1
  PROVE  \A t \in Session : session[t] = Nothing
<1> DEFINE S == {t \in Session : session[t] # Nothing}
<1>1. IsFiniteSet(S)
  BY FiniteAssumption, FS_Subset
<1>2. Cardinality(S) \in Nat /\ Cardinality(S) < 1
  BY <1>1, FS_CardinalityType DEF Free
<1>3. S = {}
  BY <1>1, <1>2, FS_EmptySet
<1> QED
  BY <1>3

\* A first step has to show what its own request holds.
LEMMA BeginsKeeps ==
  ASSUME OrderInv, NEW t \in Session, NEW r, Begins(t, r), Holds(t)', workers = 1 => Alone(t)'
  PROVE  OrderInv'
<1>1. /\ session' = [session EXCEPT ![t] = r] /\ DOMAIN session' = Session
      /\ UNCHANGED <<spo, item, amend, receipt, workers>>
  BY DEF Begins, rows, OrderInv
<1>2. \A u \in Session \ {t} : session'[u] = session[u]
  BY <1>1 DEF OrderInv
<1>3. OrderingTypeOK' /\ AmendmentsNumbered' /\ PricesOffered'
  BY <1>1 DEF OrderInv, OrderingTypeOK, AmendmentsNumbered, PricesOffered
<1>4. \A u \in Session : Holds(u)'
  BY <1>2 DEF OrderInv, Holds, Runs
<1>5. CASE workers = 1
  <2>1. \A u \in Session : session[u] = Nothing
    BY <1>5, NobodyElse DEF Begins
  <2>2. \A u \in Session \ {t} : session'[u] = Nothing
    BY <1>2, <2>1
  <2>3. \A u \in Session : Alone(u)'
    BY <1>5, <2>2 DEF Alone, Runs
  <2>4. Consistent'
    BY <1>1, <1>5 DEF OrderInv, Consistent, Agree, Exit
  <2> QED
    BY <1>1, <1>3, <1>4, <2>2, <2>3, <2>4 DEF OrderInv
<1>6. CASE workers # 1
  BY <1>1, <1>3, <1>4, <1>6 DEF OrderInv
<1> QED
  BY <1>5, <1>6

\* A last step, or one that is alone in a transaction of its own, has to show
\* what it leaves.
LEMMA DoneKeeps ==
  ASSUME OrderInv,
         \/ \E t \in Session : Ends(t) /\ session[t] # Nothing
         \/ Free /\ UNCHANGED <<session, workers>>,
         OrderingTypeOK', AmendmentsNumbered', PricesOffered', workers = 1 => Consistent'
  PROVE  OrderInv'
<1>1. workers' = workers /\ DOMAIN session' = Session
  BY DEF Ends, OrderInv
<1>2. \A u \in Session : session'[u] \in {session[u], Nothing}
  BY DEF Ends, OrderInv
<1>3. \A u \in Session : Holds(u)'
  BY <1>2 DEF OrderInv, Holds, Runs
<1>4. CASE workers = 1
  <2>1. \A u \in Session : session'[u] = Nothing
    <3>1. CASE \E t \in Session : Ends(t) /\ session[t] # Nothing
      BY <1>4, <3>1 DEF Ends, OrderInv
    <3>2. CASE Free /\ UNCHANGED <<session, workers>>
      BY <1>4, <3>2, NobodyElse
    <3> QED
      BY <3>1, <3>2
  <2>2. \A u \in Session : Alone(u)'
    BY <2>1 DEF Alone, Runs
  <2> QED
    BY <1>1, <1>3, <1>4, <2>1, <2>2 DEF OrderInv
<1>5. CASE workers # 1
  BY <1>1, <1>3, <1>5 DEF OrderInv
<1> QED
  BY <1>4, <1>5

LEMMA InitOrderInv == InitOrdering => OrderInv
<1> SUFFICES ASSUME InitOrdering PROVE OrderInv
  OBVIOUS
<1>1. item \in [Line -> ItemRow] /\ receipt \in [Line -> Nat]
  BY QuantityAssumption, PriceAssumption DEF InitOrdering, NewItem, ItemRow
<1>2. SumFunction([l \in Line |-> item[l].ordered]) \in Nat
  BY <1>1, FiniteAssumption, SumNat DEF ItemRow
<1>3. spo \in OrderRow
  <2> DEFINE total == SumFunction([l \in Line |-> item[l].ordered])
  <2>1. spo = [status |-> "DRAFT", flag |-> FALSE, backordered |-> 0, ordered |-> total,
               confirmed |-> total]
    BY DEF InitOrdering, SumOf
  <2>2. total \in Nat
    BY <1>2
  <2> HIDE DEF total
  <2> QED
    BY <2>1, <2>2 DEF OrderRow, SPOStatus
<1>4. OrderingTypeOK /\ DOMAIN session = Session
  BY <1>1, <1>3 DEF InitOrdering, OrderingTypeOK
<1>5. AmendmentsNumbered /\ PricesOffered /\ Open(amend) = {}
  BY DEF InitOrdering, AmendmentsNumbered, PricesOffered, Open
<1>6. \A t \in Session : Holds(t) /\ Alone(t)
  BY DEF InitOrdering, Holds, Alone, Runs
<1>7. Agree(spo, item)
  <2>1. SumFunction([l \in Line |-> item[l].backordered]) = 0
    BY FiniteAssumption, SumZero DEF InitOrdering, NewItem
  <2>2. [l \in Line |-> item[l].confirmed] = [l \in Line |-> item[l].ordered]
    BY DEF InitOrdering, NewItem
  <2>3. \A l \in Line : LineAgrees(item[l])
    BY QuantityAssumption DEF InitOrdering, NewItem, LineAgrees
  <2> QED
    BY <2>1, <2>2, <2>3 DEF InitOrdering, Agree, SumOf
<1>8. \A l \in Line : ~item[l].pending
  BY DEF InitOrdering, NewItem
<1>9. spo.flag = FALSE
  BY DEF InitOrdering
<1> QED
  BY <1>4, <1>5, <1>6, <1>7, <1>8, <1>9 DEF OrderInv, Consistent, InitOrdering

-----------------------------------------------------------------------------
(* Each action.                                                            *)

LEMMA StatusSteps ==
  ASSUME OrderInv, NEW t \in Session
  PROVE  /\ \A op \in DOMAIN From : StatusRead(t, op) => OrderInv'
         /\ StatusDone(t) => OrderInv'
<1>1. ASSUME NEW op \in DOMAIN From, StatusRead(t, op) PROVE OrderInv'
  <2>1. op \notin {"propose", "ack", "cancel", "dispose"}
    BY DEF From
  <2>2. Begins(t, [op |-> op])
    BY <1>1 DEF StatusRead
  <2>3. session'[t].op = op
    BY <2>2 DEF Begins, OrderInv
  <2>4. Holds(t)' /\ Alone(t)'
    BY <2>1, <2>3 DEF Holds, Alone, Runs
  <2> QED
    BY <2>2, <2>4, BeginsKeeps
<1>2. ASSUME StatusDone(t) PROVE OrderInv'
  <2>1. PICK op \in {"submit", "approve", "send"} : spo' = [spo EXCEPT !.status = To[op]]
    BY <1>2 DEF StatusDone, From
  <2>2. /\ To[op] \in SPOStatus \ {"CANCELLED", "PARTIALLY_CANCELLED"}
        /\ UNCHANGED <<item, amend, receipt, workers>>
    BY <1>2 DEF StatusDone, Ends, To, SPOStatus
  <2>3. spo \in OrderRow
    BY DEF OrderInv, OrderingTypeOK
  <2>4. /\ spo' \in OrderRow /\ spo'.status \notin {"CANCELLED", "PARTIALLY_CANCELLED"}
        /\ spo'.flag = spo.flag /\ spo'.ordered = spo.ordered
        /\ spo'.confirmed = spo.confirmed /\ spo'.backordered = spo.backordered
    BY <2>1, <2>2, <2>3 DEF OrderRow
  <2>5. OrderingTypeOK' /\ AmendmentsNumbered' /\ PricesOffered'
    BY <2>2, <2>4 DEF OrderInv, OrderingTypeOK, AmendmentsNumbered, PricesOffered
  <2>6. workers = 1 => Consistent'
    BY <2>2, <2>4 DEF OrderInv, Consistent, Agree, Exit
  <2> QED
    BY <1>2, <2>5, <2>6, DoneKeeps DEF StatusDone
<1> QED
  BY <1>1, <1>2

LEMMA AbandonStep ==
  ASSUME OrderInv, NEW t \in Session, Abandon(t)
  PROVE  OrderInv'
<1>1. UNCHANGED <<spo, item, amend, receipt, workers>>
  BY DEF Abandon, Ends, rows
<1>2. OrderingTypeOK' /\ AmendmentsNumbered' /\ PricesOffered'
  BY <1>1 DEF OrderInv, OrderingTypeOK, AmendmentsNumbered, PricesOffered
<1>3. workers = 1 => Consistent'
  BY <1>1 DEF OrderInv, Consistent, Agree, Exit
<1> QED
  BY <1>2, <1>3, DoneKeeps DEF Abandon

\* Receipts leave the order, its amendments and its totals alone.
LEMMA ReceiptSteps ==
  ASSUME OrderInv
  PROVE  /\ \A l \in Line, q \in Quantity : CreateReceipt(l, q) => OrderInv'
         /\ \A t \in Session, l \in Line : DisposeRead(t, l) => OrderInv'
         /\ \A t \in Session : DisposeDone(t) => OrderInv'
<1>1. ASSUME NEW l \in Line, NEW q \in Quantity, CreateReceipt(l, q)
      PROVE  OrderInv'
  <2>1. UNCHANGED <<spo, item, amend, session, workers>>
    BY <1>1 DEF CreateReceipt
  <2>2. receipt' \in [Line -> Nat]
    BY <1>1, QuantityAssumption DEF CreateReceipt, OrderInv, OrderingTypeOK
  <2>3. OrderingTypeOK' /\ AmendmentsNumbered' /\ PricesOffered'
    BY <2>1, <2>2 DEF OrderInv, OrderingTypeOK, AmendmentsNumbered, PricesOffered
  <2>4. workers = 1 => Consistent'
    BY <2>1 DEF OrderInv, Consistent, Agree, Exit
  <2> QED
    BY <1>1, <2>3, <2>4, DoneKeeps DEF CreateReceipt
<1>2. ASSUME NEW t \in Session, NEW l \in Line, DisposeRead(t, l) PROVE OrderInv'
  <2> DEFINE r == [op |-> "dispose", line |-> l, total |-> item[l].received + receipt[l]]
  <2>1. Begins(t, r)
    BY <1>2 DEF DisposeRead
  <2>2. session'[t] = r
    BY <2>1 DEF Begins, OrderInv
  <2>3. item[l].received + receipt[l] \in Nat
    BY DEF OrderInv, OrderingTypeOK, ItemRow
  <2>4. Holds(t)' /\ Alone(t)'
    BY <2>2, <2>3 DEF Holds, Alone, Runs
  <2> QED
    BY <2>1, <2>4, BeginsKeeps
<1>3. ASSUME NEW t \in Session, DisposeDone(t) PROVE OrderInv'
  <2> DEFINE k == session[t].line
             n == session[t].total
  <2>1. /\ item' = [item EXCEPT ![k].received = n] /\ receipt' = [receipt EXCEPT ![k] = 0]
        /\ UNCHANGED <<spo, amend, workers>>
    BY <1>3 DEF DisposeDone, Ends
  <2>2. k \in Line /\ n \in Nat
    BY <1>3 DEF DisposeDone, OrderInv, Holds
  <2> HIDE DEF k, n
  <2>3. item' \in [Line -> ItemRow] /\ receipt' \in [Line -> Nat]
    BY <2>1, <2>2 DEF OrderInv, OrderingTypeOK, ItemRow
  <2>4. \A l \in Line : /\ item'[l].ordered = item[l].ordered
                        /\ item'[l].confirmed = item[l].confirmed
                        /\ item'[l].backordered = item[l].backordered
                        /\ item'[l].open = item[l].open /\ item'[l].pending = item[l].pending
    BY <2>1, <2>2 DEF OrderInv, OrderingTypeOK, ItemRow
  <2>5. OrderingTypeOK' /\ AmendmentsNumbered' /\ PricesOffered'
    BY <2>1, <2>3 DEF OrderInv, OrderingTypeOK, AmendmentsNumbered, PricesOffered
  <2>6. workers = 1 => Consistent'
    <3>1. /\ [l \in Line |-> item'[l].ordered] = [l \in Line |-> item[l].ordered]
          /\ [l \in Line |-> item'[l].confirmed] = [l \in Line |-> item[l].confirmed]
          /\ [l \in Line |-> item'[l].backordered] = [l \in Line |-> item[l].backordered]
      BY <2>4
    <3> QED
      BY <2>1, <2>4, <3>1 DEF OrderInv, Consistent, Agree, LineAgrees, Exit
  <2> QED
    BY <1>3, <2>5, <2>6, DoneKeeps DEF DisposeDone, Runs
<1> QED
  BY <1>1, <1>2, <1>3

-----------------------------------------------------------------------------
(* Amendments.                                                             *)

\* Which amendments are open, when the only change is to insert an open one.
LEMMA InsertedOpens ==
  ASSUME OrderingTypeOK, NEW a, a.status \in OPEN_AMENDMENT_STATUSES
  PROVE  LET new == Append(amend, a)
         IN  /\ Open(amend) \subseteq Open(new)
             /\ Len(amend) + 1 \in Open(new)
             /\ \A i \in DOMAIN amend : new[i] = amend[i]
             /\ new[Len(amend) + 1] = a
             /\ DOMAIN new = DOMAIN amend \cup {Len(amend) + 1}
<1> DEFINE new == Append(amend, a)
<1>1. amend \in Seq(AmendmentRow) /\ Len(amend) \in Nat /\ DOMAIN amend = 1..Len(amend)
  BY DEF OrderingTypeOK
<1>2. DOMAIN new = 1..(Len(amend) + 1)
  BY <1>1
<1>3. DOMAIN new = DOMAIN amend \cup {Len(amend) + 1}
  BY <1>1, <1>2
<1>4. new[Len(amend) + 1] = a /\ \A i \in DOMAIN amend : new[i] = amend[i]
  BY <1>1
<1> QED
  BY <1>1, <1>3, <1>4 DEF Open

LEMMA ProposeSteps ==
  ASSUME OrderInv, NEW t \in Session
  PROVE  /\ \A l \in Line : \A p \in Proposals(item[l]) : ProposeRead(t, l, p) => OrderInv'
         /\ ProposeDone(t) => OrderInv'
<1>1. ASSUME NEW l \in Line, NEW p \in Proposals(item[l]), ProposeRead(t, l, p)
      PROVE  OrderInv'
  <2> DEFINE s == IF Impact(item[l], p[1], p[2]) > ValueThreshold
                  THEN "PENDING_APPROVAL" ELSE "APPROVED"
             r == [op |-> "propose", line |-> l, field |-> p[1], value |-> p[2],
                   marked |-> spo.flag, status |-> s]
  <2>1. Begins(t, r)
    BY <1>1 DEF ProposeRead
  <2>2. s \in OPEN_AMENDMENT_STATUSES
    BY DEF OPEN_AMENDMENT_STATUSES
  <2>3. /\ p[1] \in SPOAmendmentField /\ p[2] \in Nat
        /\ p[1] = "UNIT_PRICE" => p[2] \in Price
    <3>1. \/ \E q \in Quantity : p = <<"QUANTITY_ORDERED", q>>
          \/ \E q \in Price : p = <<"UNIT_PRICE", q>>
          \/ p = <<"OTHER", 0>>
      BY DEF Proposals
    <3> QED
      BY <3>1, QuantityAssumption, PriceAssumption DEF SPOAmendmentField
  <2> HIDE DEF s
  <2>4. session'[t] = r
    BY <2>1 DEF Begins, OrderInv
  <2>5. spo.flag \in BOOLEAN /\ spo'.flag = spo.flag
    BY <2>1 DEF Begins, rows, OrderInv, OrderingTypeOK, OrderRow
  <2>6. Holds(t)' /\ Alone(t)'
    BY <2>2, <2>3, <2>4, <2>5 DEF Holds, Alone, Runs
  <2> QED
    BY <2>1, <2>6, BeginsKeeps
<1>2. ASSUME ProposeDone(t) PROVE OrderInv'
  <2>1. /\ UNCHANGED <<item, receipt, workers>> /\ Ends(t) /\ session[t] # Nothing
        /\ Runs(t, "propose")
    BY <1>2 DEF ProposeDone, Ends, Runs
  <2>2. CASE UNCHANGED <<spo, amend>>
    <3>1. OrderingTypeOK' /\ AmendmentsNumbered' /\ PricesOffered'
      BY <2>1, <2>2 DEF OrderInv, OrderingTypeOK, AmendmentsNumbered, PricesOffered
    <3>2. workers = 1 => Consistent'
      BY <2>1, <2>2 DEF OrderInv, Consistent, Agree, Exit
    <3> QED
      BY <2>1, <3>1, <3>2, DoneKeeps
  <2>3. CASE ~UNCHANGED <<spo, amend>>
    <3> DEFINE n == Len(amend) + 1
               a == Amendment(n, session[t].status, session[t].line, session[t].field,
                              session[t].value)
    <3>1. OrderingTypeOK /\ AmendmentsNumbered /\ PricesOffered
      BY DEF OrderInv
    <3>2. amend' = Append(amend, a) /\ spo' = [spo EXCEPT !.flag = @ \/ ~session[t].marked]
      BY <1>2, <2>3, <3>1, NextIsLength DEF ProposeDone, Inserted
    <3>3. /\ a.status \in OPEN_AMENDMENT_STATUSES /\ a.no = n /\ a \in AmendmentRow
          /\ a.field = "UNIT_PRICE" => a.value \in Price
      <4>1. n \in Nat
        BY <3>1 DEF OrderingTypeOK
      <4> QED
        BY <2>1, <4>1 DEF OrderInv, Holds, Amendment, AmendmentRow, OPEN_AMENDMENT_STATUSES,
                          SPOAmendmentStatus
    <3> HIDE DEF a
    <3>4. /\ Open(amend) \subseteq Open(amend') /\ n \in Open(amend')
          /\ \A i \in DOMAIN amend : amend'[i] = amend[i]
          /\ amend'[n] = a /\ DOMAIN amend' = DOMAIN amend \cup {n}
      BY <3>1, <3>2, <3>3, InsertedOpens
    <3>5. amend' \in Seq(AmendmentRow)
      BY <3>1, <3>2, <3>3 DEF OrderingTypeOK
    <3>6. /\ spo' \in OrderRow /\ spo'.status = spo.status /\ spo'.ordered = spo.ordered
          /\ spo'.confirmed = spo.confirmed /\ spo'.backordered = spo.backordered
          /\ spo'.flag = (spo.flag \/ ~session[t].marked)
      BY <3>1, <3>2 DEF OrderingTypeOK, OrderRow
    <3>7. OrderingTypeOK' /\ AmendmentsNumbered' /\ PricesOffered'
      BY <2>1, <3>1, <3>3, <3>4, <3>5, <3>6
      DEF OrderingTypeOK, AmendmentsNumbered, PricesOffered
    <3>8. ASSUME workers = 1 PROVE Consistent'
      <4>1. session[t].marked = spo.flag /\ Consistent
        BY <2>1, <3>8 DEF OrderInv, Alone
      <4>2. spo'.flag /\ Open(amend') # {}
        BY <3>1, <3>4, <3>6, <4>1 DEF OrderingTypeOK, OrderRow
      <4>3. Agree(spo', item')
        BY <2>1, <3>6, <4>1 DEF Consistent, Agree
      <4>4. \A l \in Line : Exit(l) => Exit(l)'
        <5>1. \A i \in Open(amend) : i \in DOMAIN amend
          BY DEF Open
        <5> QED
          BY <3>4, <5>1 DEF Exit
      <4> QED
        BY <2>1, <4>1, <4>2, <4>3, <4>4 DEF Consistent
    <3> QED
      BY <2>1, <3>7, <3>8, DoneKeeps
  <2> QED
    BY <2>2, <2>3
<1> QED
  BY <1>1, <1>2

LEMMA ApproveStep ==
  ASSUME OrderInv, NEW i, ApproveAmendment(i)
  PROVE  OrderInv'
<1>1. /\ i \in DOMAIN amend /\ amend[i].status = "PENDING_APPROVAL"
      /\ amend' = [amend EXCEPT ![i].status = "APPROVED"]
      /\ UNCHANGED <<spo, item, receipt, session, workers>> /\ Free
  BY DEF ApproveAmendment
<1>2. amend \in Seq(AmendmentRow) /\ DOMAIN amend = 1..Len(amend) /\ Len(amend) \in Nat
  BY DEF OrderInv, OrderingTypeOK
<1>3. amend[i] \in AmendmentRow
  BY <1>1, <1>2
<1>4. /\ DOMAIN amend' = DOMAIN amend
      /\ \A j \in DOMAIN amend : /\ amend'[j].no = amend[j].no
                                 /\ amend'[j].line = amend[j].line
                                 /\ amend'[j].field = amend[j].field
                                 /\ amend'[j].value = amend[j].value
                                 /\ j # i => amend'[j] = amend[j]
      /\ amend'[i].status = "APPROVED"
  BY <1>1, <1>2, <1>3 DEF AmendmentRow
<1>5. amend' \in Seq(AmendmentRow)
  <2>1. [amend[i] EXCEPT !.status = "APPROVED"] \in AmendmentRow
    BY <1>3 DEF AmendmentRow, SPOAmendmentStatus
  <2> QED
    BY <1>1, <1>2, <2>1
<1>6. Open(amend') = Open(amend)
  BY <1>1, <1>4 DEF Open, OPEN_AMENDMENT_STATUSES
<1>7. OrderingTypeOK' /\ AmendmentsNumbered' /\ PricesOffered'
  BY <1>1, <1>4, <1>5 DEF OrderInv, OrderingTypeOK, AmendmentsNumbered, PricesOffered
<1>8. workers = 1 => Consistent'
  <2>1. \A l \in Line : Exit(l) => Exit(l)'
    BY <1>4, <1>6 DEF Exit, Open
  <2> QED
    BY <1>1, <1>6, <2>1 DEF OrderInv, Consistent, Agree
<1> QED
  BY <1>1, <1>7, <1>8, DoneKeeps

\* An amendment that is applied changes its line to one that still agrees, and
\* gets it out of limbo if it was about its price.
LEMMA AmendedLine ==
  ASSUME NEW row \in ItemRow, NEW a \in AmendmentRow, a.field = "UNIT_PRICE" => a.value \in Price
  PROVE  /\ Amended(row, a) \in ItemRow
         /\ LineAgrees(row) => LineAgrees(Amended(row, a))
         /\ Amended(row, a).open = row.open
         /\ Amended(row, a).pending => row.pending /\ a.field # "UNIT_PRICE"
<1>1. CASE a.field = "QUANTITY_ORDERED"
  <2> DEFINE n == a.value
             rest == a.value - row.confirmed
  <2>1. n \in Nat /\ row.confirmed \in Nat
    BY DEF AmendmentRow, ItemRow
  <2>2. rest \in Int /\ n = row.confirmed + rest
    BY <2>1
  <2>3. Amended(row, a) = [row EXCEPT !.ordered = n, !.backordered = rest]
    BY <1>1 DEF Amended
  <2> HIDE DEF n, rest
  <2>4. /\ Amended(row, a) \in ItemRow /\ Amended(row, a).open = row.open
        /\ Amended(row, a).ordered = n /\ Amended(row, a).backordered = rest
        /\ Amended(row, a).confirmed = row.confirmed /\ Amended(row, a).pending = row.pending
    BY <2>1, <2>2, <2>3 DEF ItemRow
  <2> QED
    BY <1>1, <2>2, <2>4 DEF LineAgrees
<1>2. CASE a.field = "UNIT_PRICE"
  BY <1>2 DEF Amended, ItemRow, AmendmentRow, LineAgrees
<1>3. CASE a.field \notin {"QUANTITY_ORDERED", "UNIT_PRICE"}
  BY <1>3 DEF Amended, ItemRow, AmendmentRow, LineAgrees
<1> QED
  BY <1>1, <1>2, <1>3

LEMMA ApplyStep ==
  ASSUME OrderInv, NEW i, ApplyAmendment(i)
  PROVE  OrderInv'
<1> DEFINE l == amend[i].line
<1>1. /\ i \in DOMAIN amend /\ amend[i].status = "APPROVED"
      /\ item' = [item EXCEPT ![l] = Amended(item[l], amend[i])]
      /\ amend' = [amend EXCEPT ![i].status = "APPLIED"]
      /\ spo' = [Totals(spo, item') EXCEPT !.flag = Open(amend') # {}]
      /\ UNCHANGED <<receipt, session, workers>> /\ Free
  BY DEF ApplyAmendment
<1>2. /\ amend \in Seq(AmendmentRow) /\ DOMAIN amend = 1..Len(amend) /\ Len(amend) \in Nat
      /\ item \in [Line -> ItemRow] /\ spo \in OrderRow
  BY DEF OrderInv, OrderingTypeOK
<1>3. /\ amend[i] \in AmendmentRow /\ l \in Line
      /\ amend[i].field = "UNIT_PRICE" => amend[i].value \in Price
  <2>1. amend[i] \in AmendmentRow
    BY <1>1, <1>2
  <2>2. l \in Line
    BY <2>1 DEF AmendmentRow
  <2> QED
    BY <1>1, <2>1, <2>2 DEF OrderInv, PricesOffered
<1> HIDE DEF l
<1>4. /\ DOMAIN amend' = DOMAIN amend
      /\ \A j \in DOMAIN amend : /\ amend'[j].no = amend[j].no
                                 /\ amend'[j].line = amend[j].line
                                 /\ amend'[j].field = amend[j].field
                                 /\ amend'[j].value = amend[j].value
                                 /\ j # i => amend'[j] = amend[j]
      /\ amend'[i].status = "APPLIED"
  BY <1>1, <1>2, <1>3 DEF AmendmentRow
<1>5. amend' \in Seq(AmendmentRow)
  <2>1. [amend[i] EXCEPT !.status = "APPLIED"] \in AmendmentRow
    BY <1>3 DEF AmendmentRow, SPOAmendmentStatus
  <2> QED
    BY <1>1, <1>2, <2>1
<1>6. Open(amend') = Open(amend) \ {i}
  BY <1>1, <1>4 DEF Open, OPEN_AMENDMENT_STATUSES
<1>7. /\ item' \in [Line -> ItemRow]
      /\ \A k \in Line \ {l} : item'[k] = item[k]
      /\ item'[l] = Amended(item[l], amend[i])
  BY <1>1, <1>2, <1>3, AmendedLine
<1>8. /\ spo' \in OrderRow
      /\ spo'.flag = (Open(amend') # {}) /\ spo'.status = spo.status
      /\ spo'.ordered = SumFunction([k \in Line |-> item'[k].ordered])
      /\ spo'.confirmed = SumFunction([k \in Line |-> item'[k].confirmed])
      /\ spo'.backordered = SumFunction([k \in Line |-> item'[k].backordered])
  <2> DEFINE now == Totals(spo, item')
  <2>1. /\ now \in OrderRow /\ now.status = spo.status
        /\ now.ordered = SumFunction([k \in Line |-> item'[k].ordered])
        /\ now.confirmed = SumFunction([k \in Line |-> item'[k].confirmed])
        /\ now.backordered = SumFunction([k \in Line |-> item'[k].backordered])
    BY <1>2, <1>7, TotalsOf
  <2>2. spo' = [now EXCEPT !.flag = Open(amend') # {}]
    BY <1>1
  <2> HIDE DEF now
  <2>3. /\ spo' \in OrderRow /\ spo'.flag = (Open(amend') # {}) /\ spo'.status = now.status
        /\ spo'.ordered = now.ordered /\ spo'.confirmed = now.confirmed
        /\ spo'.backordered = now.backordered
    BY <2>1, <2>2 DEF OrderRow
  <2> QED
    BY <2>1, <2>3
<1>9. OrderingTypeOK' /\ AmendmentsNumbered' /\ PricesOffered'
  BY <1>1, <1>4, <1>5, <1>7, <1>8 DEF OrderInv, OrderingTypeOK, AmendmentsNumbered, PricesOffered
<1>10. ASSUME workers = 1 PROVE Consistent'
  <2>1. Consistent
    BY <1>10 DEF OrderInv
  <2>2. \A k \in Line : item'[k].open = item[k].open /\ LineAgrees(item'[k])
    <3>1. ASSUME NEW k \in Line PROVE LineAgrees(item[k])
      BY <2>1 DEF Consistent, Agree
    <3>2. LineAgrees(item'[l]) /\ item'[l].open = item[l].open
      <4>1. item[l] \in ItemRow /\ item'[l] = Amended(item[l], amend[i])
        BY <1>1, <1>2, <1>3
      <4> QED
        BY <1>3, <3>1, <4>1, AmendedLine
    <3>3. ASSUME NEW k \in Line \ {l} PROVE item'[k] = item[k]
      BY <1>7
    <3> QED
      BY <3>1, <3>2, <3>3
  <2>3. Agree(spo', item')
    BY <1>8, <2>1, <2>2 DEF Consistent, Agree
  <2>4. ASSUME NEW k \in Line, item'[k].pending PROVE Exit(k)'
    <3>1. item[k].pending /\ (k = l => amend[i].field # "UNIT_PRICE")
      BY <1>2, <1>3, <1>7, <2>4, AmendedLine
    <3>2. PICK j \in Open(amend) : amend[j].line = k /\ amend[j].field = "UNIT_PRICE"
      BY <2>1, <3>1 DEF Consistent, Exit
    <3>3. j # i
      BY <3>1, <3>2 DEF l
    <3> QED
      BY <1>4, <1>6, <3>2, <3>3 DEF Exit, Open
  <2> QED
    BY <1>8, <2>3, <2>4 DEF Consistent
<1> QED
  BY <1>1, <1>9, <1>10, DoneKeeps

-----------------------------------------------------------------------------
(* Acknowledgement and cancellation.                                       *)

\* What a request may hold that changes the rows to now and items.
LEMMA ChangesFit ==
  ASSUME OrderingTypeOK, NEW now \in OrderRow, NEW items \in [Line -> ItemRow]
  PROVE  /\ \A row \in OrderRow : Overwritten(row, Changed(spo, now)) \in OrderRow
         /\ \A l \in Line : \A row \in ItemRow :
              Overwritten(row, [k \in Line |-> Changed(item[k], items[k])][l]) \in ItemRow
         /\ Overwritten(spo, Changed(spo, now)) = now
         /\ \A l \in Line :
              Overwritten(item[l], [k \in Line |-> Changed(item[k], items[k])][l]) = items[l]
<1>1. spo \in OrderRow /\ item \in [Line -> ItemRow]
  BY DEF OrderingTypeOK
<1>2. ASSUME NEW l \in Line
      PROVE  /\ \A row \in ItemRow : Overwritten(row, Changed(item[l], items[l])) \in ItemRow
             /\ Overwritten(item[l], Changed(item[l], items[l])) = items[l]
  BY <1>1, ItemFits
<1> QED
  BY <1>1, <1>2, OrderFits

\* A line of which the supplier confirms a quantity at a price.
LEMMA AnsweredLine ==
  ASSUME NEW row \in ItemRow, NEW a \in Answer \cup {Nothing}
  PROVE  /\ Answered(row, a) \in ItemRow
         /\ LineAgrees(row) => LineAgrees(Answered(row, a))
         /\ Answered(row, a).pending => row.pending \/ (a # Nothing /\ a.price # row.price)
<1>1. CASE a = Nothing
  BY <1>1 DEF Answered
<1>2. CASE a # Nothing
  <2>1. a.confirmed \in Quantity \cup {0} /\ a.price \in Price
    BY <1>2 DEF Answer
  <2> DEFINE limbo == row.pending \/ a.price # row.price
             n == a.confirmed
             rest == row.ordered - a.confirmed
  <2>2. n \in Nat /\ rest \in Int /\ row.ordered = n + rest
    <3>1. \A q \in Quantity \cup {0} : q \in Nat
      BY QuantityAssumption
    <3>2. n \in Nat /\ row.ordered \in Nat
      BY <2>1, <3>1 DEF ItemRow
    <3> QED
      BY <3>2
  <2>3. Answered(row, a) = [row EXCEPT !.confirmed = n, !.backordered = rest, !.open = n,
                                       !.pending = limbo]
    BY <1>2 DEF Answered
  <2>4. limbo \in BOOLEAN /\ (limbo => row.pending \/ a.price # row.price)
    OBVIOUS
  <2> HIDE DEF limbo, n, rest
  <2>5. /\ Answered(row, a) \in ItemRow /\ Answered(row, a).ordered = row.ordered
        /\ Answered(row, a).confirmed = n /\ Answered(row, a).backordered = rest
        /\ Answered(row, a).pending = limbo
    BY <2>2, <2>3, <2>4 DEF ItemRow
  <2> QED
    BY <1>2, <2>2, <2>4, <2>5 DEF LineAgrees
<1> QED
  BY <1>1, <1>2

LEMMA CancelledLine ==
  ASSUME NEW row \in ItemRow, NEW partial \in BOOLEAN
  PROVE  /\ Cancelled(row, partial) \in ItemRow
         /\ LineAgrees(row) => LineAgrees(Cancelled(row, partial))
         /\ Cancelled(row, partial).open = 0
         /\ Cancelled(row, partial).pending = row.pending
         /\ Cancelled(row, partial).ordered = row.ordered
         /\ Cancelled(row, partial).confirmed = row.confirmed
         /\ Cancelled(row, partial).backordered = row.backordered
<1>1. CASE ~partial
  BY <1>1 DEF Cancelled, ItemRow, LineAgrees
<1>2. CASE partial /\ row.open > 0
  BY <1>2 DEF Cancelled, ItemRow, LineAgrees
<1>3. CASE partial /\ ~(row.open > 0)
  <2>1. row.open = 0
    BY <1>3 DEF ItemRow
  <2> QED
    BY <1>3, <2>1 DEF Cancelled
<1> QED
  BY <1>1, <1>2, <1>3

LEMMA AckReads ==
  ASSUME OrderInv, NEW t \in Session, NEW ack \in [Line -> Answer \cup {Nothing}], AckRead(t, ack)
  PROVE  OrderInv'
<1> DEFINE items == [l \in Line |-> Answered(item[l], ack[l])]
           priced == {l \in Line : ack[l] # Nothing /\ ack[l].price # item[l].price}
           now == [Totals(spo, items) EXCEPT !.flag = priced # {}, !.status = AckStatus(items)]
           asked == {l \in priced : Same(amend, l, "UNIT_PRICE", ack[l].price) = {}}
           prices == {<<l, ack[l].price>> : l \in asked}
           r == [op |-> "ack", order |-> Changed(spo, now),
                 items |-> [l \in Line |-> Changed(item[l], items[l])], prices |-> prices]
<1>1. Begins(t, r) /\ ~spo.flag
  BY DEF AckRead
<1>2. /\ OrderingTypeOK /\ spo \in OrderRow /\ item \in [Line -> ItemRow]
      /\ session'[t] = r /\ UNCHANGED <<spo, item, amend>>
  BY <1>1 DEF Begins, rows, OrderInv, OrderingTypeOK
<1>3. items \in [Line -> ItemRow]
  BY <1>2, AnsweredLine
<1>4. AckStatus(items) \in SPOStatus \ {"CANCELLED", "PARTIALLY_CANCELLED"}
  BY DEF AckStatus, SPOStatus
<1>5. prices \subseteq Line \X Price /\ IsFiniteSet(prices)
  <2>1. prices \subseteq Line \X Price
    BY DEF Answer
  <2> DEFINE f == [l \in asked |-> <<l, ack[l].price>>]
  <2>2. f \in Surjection(asked, prices)
    BY DEF Surjection
  <2>3. IsFiniteSet(asked)
    BY FiniteAssumption, FS_Subset
  <2> QED
    BY <2>1, <2>2, <2>3, FS_Surjection
<1>6. /\ now \in OrderRow /\ now.status \notin {"CANCELLED", "PARTIALLY_CANCELLED"}
      /\ now.flag = (priced # {})
      /\ now.ordered = SumFunction([l \in Line |-> items[l].ordered])
      /\ now.confirmed = SumFunction([l \in Line |-> items[l].confirmed])
      /\ now.backordered = SumFunction([l \in Line |-> items[l].backordered])
  <2> DEFINE all == Totals(spo, items)
             s == AckStatus(items)
             f == priced # {}
  <2>1. /\ all \in OrderRow
        /\ all.ordered = SumFunction([l \in Line |-> items[l].ordered])
        /\ all.confirmed = SumFunction([l \in Line |-> items[l].confirmed])
        /\ all.backordered = SumFunction([l \in Line |-> items[l].backordered])
    BY <1>2, <1>3, TotalsOf
  <2>2. now = [all EXCEPT !.flag = f, !.status = s] /\ f \in BOOLEAN
    OBVIOUS
  <2> HIDE DEF all, s, f, now, priced, items
  <2>3. /\ now \in OrderRow /\ now.status = s /\ now.flag = f
        /\ now.ordered = all.ordered /\ now.confirmed = all.confirmed
        /\ now.backordered = all.backordered
    BY <1>4, <2>1, <2>2 DEF OrderRow, s
  <2> QED
    BY <1>4, <2>1, <2>3 DEF s, f
<1>7. \A l \in Line : items[l].pending => item[l].pending \/ l \in priced
  BY <1>2, AnsweredLine
<1>8. \A l \in Line : LineAgrees(item[l]) => LineAgrees(items[l])
  BY <1>2, AnsweredLine
<1>9. /\ \A l \in asked : \E p \in prices : p[1] = l
      /\ asked # {} <=> prices # {}
      /\ \A l \in priced \ asked : Same(amend, l, "UNIT_PRICE", ack[l].price) # {}
  <2>1. ASSUME NEW l \in asked PROVE \E p \in prices : p[1] = l
    <3>1. <<l, ack[l].price>> \in prices
      OBVIOUS
    <3> QED
      BY <3>1
  <2>2. asked # {} <=> prices # {}
    <3>1. ASSUME prices # {} PROVE asked # {}
      BY <3>1
    <3> QED
      BY <2>1, <3>1
  <2>3. \A l \in priced \ asked : Same(amend, l, "UNIT_PRICE", ack[l].price) # {}
    OBVIOUS
  <2> QED
    BY <2>1, <2>2, <2>3
<1> HIDE DEF items, priced, now, asked, prices
<1>10. /\ \A row \in OrderRow : Overwritten(row, session'[t].order) \in OrderRow
       /\ \A l \in Line : \A row \in ItemRow :
            Overwritten(row, session'[t].items[l]) \in ItemRow
       /\ OrderAfter(t)' = now
       /\ \A l \in Line : ItemAfter(t, l)' = items[l]
  BY <1>2, <1>3, <1>6, ChangesFit DEF OrderAfter, ItemAfter
<1>11. Holds(t)'
  BY <1>2, <1>5, <1>10 DEF Holds, Runs
<1>12. ASSUME workers = 1 PROVE Alone(t)'
  <2>1. Consistent /\ Open(amend) = {}
    BY <1>1, <1>12 DEF OrderInv, Consistent
  <2>2. [l \in Line |-> ItemAfter(t, l)'] = items
    BY <1>3, <1>10
  <2>3. Agree(now, items)
    BY <1>6, <1>8, <2>1 DEF Consistent, Agree
  <2>4. asked = priced
    BY <2>1 DEF asked, Same
  <2>5. now.flag <=> prices # {}
    BY <1>6, <1>9, <2>4
  <2>6. \A l \in Line : items[l].pending => \E p \in prices : p[1] = l
    BY <1>7, <1>9, <2>1, <2>4 DEF Consistent, Exit
  <2>7. Open(amend)' = {}
    BY <1>2, <2>1
  <2> QED
    BY <1>2, <1>10, <2>2, <2>3, <2>5, <2>6, <2>7 DEF Alone, Runs
<1> QED
  BY <1>1, <1>11, <1>12, BeginsKeeps

\* What a request writes back are rows, and what it has worked out when it is
\* alone.
LEMMA WritesBack ==
  ASSUME OrderInv, NEW t \in Session, Runs(t, "ack") \/ Runs(t, "cancel"), WriteBack(t)
  PROVE  /\ spo' \in OrderRow /\ item' \in [Line -> ItemRow]
         /\ spo' = OrderAfter(t) /\ item' = [l \in Line |-> ItemAfter(t, l)]
<1>1. spo \in OrderRow /\ item \in [Line -> ItemRow]
  BY DEF OrderInv, OrderingTypeOK
<1>2. /\ \A row \in OrderRow : Overwritten(row, session[t].order) \in OrderRow
      /\ \A l \in Line : \A row \in ItemRow : Overwritten(row, session[t].items[l]) \in ItemRow
  BY DEF OrderInv, Holds
<1>3. /\ spo' = Overwritten(spo, session[t].order)
      /\ item' = [l \in Line |-> Overwritten(item[l], session[t].items[l])]
  BY DEF WriteBack
<1> QED
  BY <1>1, <1>2, <1>3 DEF OrderAfter, ItemAfter

LEMMA AckDoes ==
  ASSUME OrderInv, NEW t \in Session, AckDone(t)
  PROVE  OrderInv'
<1> DEFINE S == session[t].prices
<1>1. /\ Runs(t, "ack") /\ WriteBack(t) /\ Ends(t) /\ session[t] # Nothing
      /\ UNCHANGED <<receipt, workers>>
  BY DEF AckDone, Ends, Runs
<1>2. PICK prices \in SetToSeqs(S) : amend' = AckAmends(prices)
  BY DEF AckDone
<1>3. OrderingTypeOK /\ AmendmentsNumbered /\ PricesOffered /\ S \subseteq Line \X Price
      /\ IsFiniteSet(S)
  BY <1>1 DEF OrderInv, Holds
<1> HIDE DEF S
<1>4. /\ amend' \in Seq(AmendmentRow)
      /\ Len(amend') = Len(amend) + Cardinality(S)
      /\ \A i \in DOMAIN amend : i \in DOMAIN amend' /\ amend'[i] = amend[i]
      /\ \A i \in DOMAIN amend' : amend'[i].no = i
      /\ \A i \in DOMAIN amend' : amend'[i].field = "UNIT_PRICE" => amend'[i].value \in Price
      /\ \A p \in S : \E i \in DOMAIN amend' \ DOMAIN amend :
           amend'[i].line = p[1] /\ amend'[i].field = "UNIT_PRICE"
      /\ \A i \in DOMAIN amend' \ DOMAIN amend : amend'[i].status = "PENDING_APPROVAL"
  BY <1>2, <1>3, AckInserts
<1>5. /\ spo' \in OrderRow /\ item' \in [Line -> ItemRow]
      /\ spo' = OrderAfter(t) /\ item' = [l \in Line |-> ItemAfter(t, l)]
  BY <1>1, WritesBack
<1>6. OrderingTypeOK' /\ AmendmentsNumbered' /\ PricesOffered'
  BY <1>1, <1>3, <1>4, <1>5 DEF OrderingTypeOK, AmendmentsNumbered, PricesOffered
<1>7. ASSUME workers = 1 PROVE Consistent'
  <2>1. /\ Agree(OrderAfter(t), [l \in Line |-> ItemAfter(t, l)])
        /\ OrderAfter(t).flag <=> Open(amend) # {} \/ S # {}
        /\ \A l \in Line : ItemAfter(t, l).pending => Exit(l) \/ \E p \in S : p[1] = l
    BY <1>1, <1>7 DEF OrderInv, Alone, S
  <2>2. /\ \A i \in Open(amend) : i \in Open(amend') /\ amend'[i] = amend[i]
        /\ \A i \in DOMAIN amend' \ DOMAIN amend : i \in Open(amend')
        /\ \A i \in Open(amend') : i \in Open(amend) \/ i \in DOMAIN amend' \ DOMAIN amend
    BY <1>4 DEF Open, OPEN_AMENDMENT_STATUSES
  <2>3. S = {} => DOMAIN amend' = DOMAIN amend
    <3>1. ASSUME S = {} PROVE Len(amend') = Len(amend)
      BY <1>3, <1>4, <3>1, FS_EmptySet DEF OrderingTypeOK
    <3> QED
      BY <1>3, <1>4, <3>1 DEF OrderingTypeOK
  <2>4. Open(amend') # {} <=> Open(amend) # {} \/ S # {}
    <3>1. CASE S = {}
      BY <2>2, <2>3, <3>1
    <3>2. CASE S # {}
      BY <1>4, <2>2, <3>2
    <3> QED
      BY <3>1, <3>2
  <2>5. ASSUME NEW l \in Line, item'[l].pending PROVE Exit(l)'
    <3>1. CASE Exit(l)
      BY <2>2, <3>1 DEF Exit
    <3>2. CASE \E p \in S : p[1] = l
      BY <1>4, <2>2, <3>2 DEF Exit
    <3> QED
      BY <1>5, <2>1, <2>5, <3>1, <3>2
  <2>6. Agree(spo', item')
    BY <1>5, <2>1
  <2> QED
    BY <1>5, <2>1, <2>4, <2>5, <2>6 DEF Consistent
<1> QED
  BY <1>1, <1>6, <1>7, DoneKeeps

LEMMA CancelSteps ==
  ASSUME OrderInv, NEW t \in Session
  PROVE  CancelRead(t) \/ CancelDone(t) => OrderInv'
<1>1. ASSUME CancelRead(t) PROVE OrderInv'
  <2> DEFINE partial == \E l \in Line : item[l].received > 0
             s == IF partial THEN "PARTIALLY_CANCELLED" ELSE "CANCELLED"
             now == [spo EXCEPT !.status = s]
             items == [l \in Line |-> Cancelled(item[l], partial)]
             r == [op |-> "cancel", order |-> Changed(spo, now),
                   items |-> [l \in Line |-> Changed(item[l], items[l])]]
  <2>1. Begins(t, r)
    BY <1>1 DEF CancelRead
  <2>2. /\ OrderingTypeOK /\ spo \in OrderRow /\ item \in [Line -> ItemRow]
        /\ session'[t] = r /\ UNCHANGED <<spo, item, amend>>
    BY <2>1 DEF Begins, rows, OrderInv, OrderingTypeOK
  <2>3. s \in SPOStatus /\ partial \in BOOLEAN
    BY DEF SPOStatus
  <2> HIDE DEF s, partial
  <2>4. /\ now \in OrderRow /\ now.flag = spo.flag /\ now.ordered = spo.ordered
        /\ now.confirmed = spo.confirmed /\ now.backordered = spo.backordered
    BY <2>2, <2>3 DEF OrderRow
  <2>5. items \in [Line -> ItemRow]
    BY <2>2, <2>3, CancelledLine
  <2>6. \A l \in Line : /\ LineAgrees(item[l]) => LineAgrees(items[l])
                        /\ items[l].open = 0 /\ items[l].pending = item[l].pending
                        /\ items[l].ordered = item[l].ordered
                        /\ items[l].confirmed = item[l].confirmed
                        /\ items[l].backordered = item[l].backordered
    BY <2>2, <2>3, CancelledLine
  <2> HIDE DEF items, now
  <2>7. /\ \A row \in OrderRow : Overwritten(row, session'[t].order) \in OrderRow
        /\ \A l \in Line : \A row \in ItemRow :
             Overwritten(row, session'[t].items[l]) \in ItemRow
        /\ OrderAfter(t)' = now
        /\ \A l \in Line : ItemAfter(t, l)' = items[l]
    BY <2>2, <2>4, <2>5, ChangesFit DEF OrderAfter, ItemAfter
  <2>8. Holds(t)'
    BY <2>2, <2>7 DEF Holds, Runs
  <2>9. ASSUME workers = 1 PROVE Alone(t)'
    <3>1. Agree(spo, item)
      BY <2>9 DEF OrderInv, Consistent
    <3>2. /\ [l \in Line |-> items[l].ordered] = [l \in Line |-> item[l].ordered]
          /\ [l \in Line |-> items[l].confirmed] = [l \in Line |-> item[l].confirmed]
          /\ [l \in Line |-> items[l].backordered] = [l \in Line |-> item[l].backordered]
      BY <2>6
    <3>3. Agree(now, items)
      BY <2>4, <2>6, <3>1, <3>2 DEF Agree
    <3>4. [l \in Line |-> ItemAfter(t, l)'] = items
      BY <2>5, <2>7
    <3> QED
      BY <2>2, <2>4, <2>6, <2>7, <3>3, <3>4 DEF Alone, Runs
  <2> QED
    BY <2>1, <2>8, <2>9, BeginsKeeps
<1>2. ASSUME CancelDone(t) PROVE OrderInv'
  <2>1. /\ Runs(t, "cancel") /\ WriteBack(t) /\ Ends(t) /\ session[t] # Nothing
        /\ UNCHANGED <<amend, receipt, workers>>
    BY <1>2 DEF CancelDone, Ends, Runs
  <2>2. /\ spo' \in OrderRow /\ item' \in [Line -> ItemRow]
        /\ spo' = OrderAfter(t) /\ item' = [l \in Line |-> ItemAfter(t, l)]
    BY <2>1, WritesBack
  <2>3. OrderingTypeOK' /\ AmendmentsNumbered' /\ PricesOffered'
    BY <2>1, <2>2 DEF OrderInv, OrderingTypeOK, AmendmentsNumbered, PricesOffered
  <2>4. ASSUME workers = 1 PROVE Consistent'
    <3>1. /\ Agree(OrderAfter(t), [l \in Line |-> ItemAfter(t, l)])
          /\ OrderAfter(t).flag = spo.flag
          /\ \A l \in Line : ItemAfter(t, l).pending = item[l].pending
          /\ Consistent
      BY <2>1, <2>4 DEF OrderInv, Alone
    <3>2. Agree(spo', item')
      BY <2>2, <3>1
    <3>3. \A l \in Line : item'[l].pending => Exit(l)'
      BY <2>1, <2>2, <3>1 DEF Consistent, Exit
    <3>4. spo'.flag <=> Open(amend)' # {}
      BY <2>1, <2>2, <3>1 DEF Consistent
    <3> QED
      BY <3>2, <3>3, <3>4 DEF Consistent
  <2> QED
    BY <2>1, <2>3, <2>4, DoneKeeps
<1> QED
  BY <1>1, <1>2

-----------------------------------------------------------------------------
(* The theorems.                                                           *)

LEMMA StepOrderInv == OrderInv /\ [OrderingNext]_ordering => OrderInv'
<1> SUFFICES ASSUME OrderInv, [OrderingNext]_ordering PROVE OrderInv'
  OBVIOUS
<1>1. CASE UNCHANGED ordering
  <2>1. UNCHANGED <<spo, item, amend, receipt, session, workers>>
    BY <1>1 DEF ordering, rows
  <2>2. /\ OrderingTypeOK' /\ DOMAIN session' = Session
        /\ AmendmentsNumbered' /\ PricesOffered'
    BY <2>1 DEF OrderInv, OrderingTypeOK, AmendmentsNumbered, PricesOffered
  <2>3. \A t \in Session : Holds(t)'
    BY <2>1 DEF OrderInv, Holds, Runs
  <2>4. ASSUME workers = 1 PROVE Consistent' /\ \A t \in Session : Alone(t)'
    <3>1. Consistent /\ \A t \in Session : Alone(t)
      BY <2>4 DEF OrderInv
    <3>2. Open(amend)' = Open(amend) /\ \A l \in Line : Exit(l)' <=> Exit(l)
      BY <2>1 DEF Open, Exit
    <3>3. Consistent'
      BY <2>1, <3>1, <3>2 DEF Consistent, Agree
    <3>4. \A t \in Session : /\ OrderAfter(t)' = OrderAfter(t)
                             /\ \A l \in Line : ItemAfter(t, l)' = ItemAfter(t, l)
      BY <2>1 DEF OrderAfter, ItemAfter, Overwritten
    <3>5. \A t \in Session : [l \in Line |-> ItemAfter(t, l)]' = [l \in Line |-> ItemAfter(t, l)]
      BY <3>4
    <3>6. ASSUME NEW t \in Session PROVE Alone(t)'
      BY <2>1, <3>1, <3>2, <3>4, <3>5 DEF Alone, Runs
    <3> QED
      BY <3>3, <3>6
  <2> QED
    BY <2>1, <2>2, <2>3, <2>4 DEF OrderInv
<1>2. ASSUME NEW l \in Line, NEW q \in Quantity, CreateReceipt(l, q) PROVE OrderInv'
  BY <1>2, ReceiptSteps
<1>3. ASSUME NEW t \in Session, OrderRequests(t) PROVE OrderInv'
  BY <1>3, StatusSteps, AckReads, AckDoes, CancelSteps DEF OrderRequests
<1>4. ASSUME NEW t \in Session, AmendmentRequests(t) PROVE OrderInv'
  BY <1>4, ProposeSteps, ApproveStep, ApplyStep DEF AmendmentRequests
<1>5. ASSUME NEW t \in Session, (\E l \in Line : DisposeRead(t, l)) \/ DisposeDone(t) \/ Abandon(t)
      PROVE  OrderInv'
  BY <1>5, ReceiptSteps, AbandonStep
<1> QED
  BY <1>1, <1>2, <1>3, <1>4, <1>5 DEF OrderingNext

\* The inductive invariant of orders holds in every reachable state.
THEOREM OrderingInvariance == OrderingSpec => []OrderInv
BY InitOrderInv, StepOrderInv, PTL DEF OrderingSpec

\* Whatever proposals and acknowledgements overlap, of any number of lines, the
\* amendments of an order are numbered 1, 2, 3... in the order of their
\* insertion (_next_amendment_number, behind the lock on the order).
THEOREM AmendmentsCount == OrderingSpec => []AmendmentsNumbered
<1>1. OrderInv => AmendmentsNumbered
  BY DEF OrderInv
<1> QED
  BY <1>1, OrderingInvariance, PTL

\* One request at a time, has_open_amendment tells whether an amendment is
\* unresolved, lines and header agree (SPO-007), and nothing stays open of an
\* order that was cancelled; the rows have their types however many overlap.
THEOREM OrdersAddUp == OrderingSpec => []OrderAddsUp
<1>1. OrderInv => OrderAddsUp
  <2> SUFFICES ASSUME OrderInv PROVE OrderAddsUp
    OBVIOUS
  <2>1. spo \in OrderRow /\ item \in [Line -> ItemRow]
    BY DEF OrderInv, OrderingTypeOK
  <2>2. workers = 1 => Agree(spo, item)
    BY DEF OrderInv, Consistent
  <2>3. TotalsMatch /\ CancelledIsClosed
    BY <2>1, <2>2, AgreeIsTotals DEF TotalsMatch, CancelledIsClosed, LineAgrees
  <2> QED
    BY <2>3 DEF OrderInv, Consistent, OrderAddsUp, FlagIsOpen
<1> QED
  BY <1>1, OrderingInvariance, PTL

\* One request at a time, a line in limbo because of its price (SPO-005) has an
\* open amendment that can get it out.
THEOREM LimboIsLeft == OrderingSpec => []LimboHasExit
<1>1. OrderInv => LimboHasExit
  BY DEF OrderInv, Consistent, Exit, LimboHasExit
<1> QED
  BY <1>1, OrderingInvariance, PTL

=============================================================================
