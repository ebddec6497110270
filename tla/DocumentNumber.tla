--------------------------- MODULE DocumentNumber ---------------------------
(***************************************************************************)
(* The document-number services (services/*_number.py): one counter row    *)
(* per workspace and year, taken FOR UPDATE inside the transaction that    *)
(* also writes the numbered document.  A request is one transaction; the   *)
(* row may not exist yet, and the four families of services differ only in *)
(* what they do when another request creates it first:                     *)
(*                                                                         *)
(*   "retry"      invoice, lpo, quotation, spo: roll the whole session     *)
(*                back and try again, at most MaxRetries times;            *)
(*   "fallback"   grn, pr, rfq, award, enquiry, purchase_return,           *)
(*                supplier_debit_note: roll the session back and select    *)
(*                the row that must now exist;                             *)
(*   "savepoint"  dn, credit_note, tax_debit_note, stock_count, transfer:  *)
(*                roll back a savepoint only and select the row;           *)
(*   "bare"       purchase_return_receipt: no handler, the request fails.  *)
(*                                                                         *)
(* A request in Holder has locked a parent row (the quotation of an LPO,   *)
(* the dispatched return of a debit note) and uses the parent's attributes *)
(* after it has its number; after Session.rollback() those are expired and *)
(* an AsyncSession cannot reload them on access, so it fails.              *)
(***************************************************************************)
EXTENDS Naturals, FiniteSets

CONSTANTS
    Caller,      \* the requests, one transaction each
    Holder,      \* the requests that hold a lock on the one parent row
    MaxRetries,  \* max_retries of the "retry" services
    Nobody       \* no request

ASSUME CallersAssumption == Holder \subseteq Caller /\ Nobody \notin Caller
ASSUME RetriesAssumption == MaxRetries \in Nat /\ MaxRetries >= 2

Strategies == {"retry", "fallback", "savepoint", "bare"}

VARIABLES
    strategy,  \* the service's family; never changes
    exists,    \* the committed counter row exists
    last,      \* its committed last_number
    owner,     \* who has the row locked, or inserted and not yet committed
    parent,    \* who has the parent row locked
    pc,        \* where each request is
    num,       \* the number each request has been given
    attempt    \* the retry loop's index

numbering == <<strategy, exists, last, owner, parent, pc, num, attempt>>

Failed == {"aborted", "conflict", "exhausted", "missing", "expired"}
Ended  == {"committed"} \cup Failed
Active == {"select", "insert", "reselect", "numbered", "written"}

InitNumbers ==
    /\ strategy \in Strategies
    /\ exists = FALSE
    /\ last = 0
    /\ owner = Nobody
    /\ parent = Nobody
    /\ pc = [t \in Caller |-> "start"]
    /\ num = [t \in Caller |-> 0]
    /\ attempt = [t \in Caller |-> 0]

-----------------------------------------------------------------------------

Goto(t, label) == pc' = [pc EXCEPT ![t] = label]

\* What the database undoes when t's transaction ends: its locks go, and so
\* does a counter row it has inserted and not committed.
ReleaseLocks(t) ==
    /\ owner' = IF owner = t THEN Nobody ELSE owner
    /\ parent' = IF parent = t THEN Nobody ELSE parent

\* The request starts; the router of a Holder locks the parent row first.
Call(t) ==
    /\ pc[t] = "start"
    /\ IF t \in Holder
         THEN parent = Nobody /\ parent' = t
         ELSE UNCHANGED parent
    /\ Goto(t, "select")
    /\ UNCHANGED <<strategy, exists, last, owner, num, attempt>>

\* Faulty: the counter is incremented in a transaction of its own.
TakeRowAutonomous(t) ==
    /\ exists
    /\ owner = Nobody
    /\ owner' = t
    /\ last' = last + 1
    /\ num' = [num EXCEPT ![t] = last + 1]
    /\ Goto(t, "numbered")
    /\ UNCHANGED <<strategy, exists, parent, attempt>>

\* SELECT ... FOR UPDATE finds the committed row once nobody has it locked,
\* and the request holds last_number + 1.
TakeRow(t) ==
    /\ exists
    /\ owner = Nobody
    /\ owner' = t
    /\ num' = [num EXCEPT ![t] = last + 1]
    /\ Goto(t, "numbered")
    /\ UNCHANGED <<strategy, exists, last, parent, attempt>>

SelectRow(t) ==
    /\ pc[t] = "select"
    /\ \/ TakeRow(t)
       \/ /\ ~exists          \* another request's uncommitted row is not seen
          /\ Goto(t, "insert")
          /\ UNCHANGED <<strategy, exists, last, owner, parent, num, attempt>>

\* The INSERT of the counter row is flushed.  It waits for another request's
\* uncommitted row with the same key.
InsertRow(t) ==
    /\ pc[t] = "insert"
    /\ ~exists
    /\ owner = Nobody
    /\ owner' = t
    /\ num' = [num EXCEPT ![t] = 1]
    /\ Goto(t, "numbered")
    /\ UNCHANGED <<strategy, exists, last, parent, attempt>>

\* What each family does after the IntegrityError.
HandleConflict(t) ==
    \/ /\ strategy = "retry"
       /\ attempt' = [attempt EXCEPT ![t] = @ + 1]
       /\ ReleaseLocks(t)
       /\ Goto(t, IF attempt[t] = MaxRetries - 1 THEN "exhausted" ELSE "select")
    \/ /\ strategy = "fallback"
       /\ ReleaseLocks(t)
       /\ Goto(t, "reselect")
       /\ UNCHANGED attempt
    \/ /\ strategy = "savepoint"
       /\ Goto(t, "reselect")
       /\ UNCHANGED <<owner, parent, attempt>>
    \/ /\ strategy = "bare"
       /\ ReleaseLocks(t)
       /\ Goto(t, "conflict")
       /\ UNCHANGED attempt

\* Faulty: the conflict is reported while the other row is still uncommitted.
InsertConflictEarly(t) ==
    /\ pc[t] = "insert"
    /\ exists \/ owner # Nobody
    /\ HandleConflict(t)
    /\ UNCHANGED <<strategy, exists, last, num>>

\* The INSERT meets a committed row: IntegrityError.
InsertConflict(t) ==
    /\ pc[t] = "insert"
    /\ exists
    /\ HandleConflict(t)
    /\ UNCHANGED <<strategy, exists, last, num>>

\* The second SELECT ... FOR UPDATE of "fallback" and "savepoint" ends in
\* scalar_one(), which raises when there is no row.
Reselect(t) ==
    /\ pc[t] = "reselect"
    /\ IF exists
         THEN TakeRow(t)
         ELSE /\ ReleaseLocks(t)
              /\ Goto(t, "missing")
              /\ UNCHANGED <<strategy, exists, last, num, attempt>>

\* Faulty: the caller goes on with the attributes it had before the rollback.
WriteDocumentAnyway(t) ==
    /\ pc[t] = "numbered"
    /\ Goto(t, "written")
    /\ UNCHANGED <<strategy, exists, last, owner, parent, num, attempt>>

\* The caller builds and flushes the document with its number.  A Holder
\* whose session was rolled back reads expired attributes of the parent.
WriteDocument(t) ==
    /\ pc[t] = "numbered"
    /\ IF t \in Holder /\ parent # t
         THEN ReleaseLocks(t) /\ Goto(t, "expired")
         ELSE UNCHANGED <<owner, parent>> /\ Goto(t, "written")
    /\ UNCHANGED <<strategy, exists, last, num, attempt>>

\* Faulty: counted once in the service and once more by the caller.
CommitTwice(t) ==
    /\ pc[t] = "written"
    /\ exists' = TRUE
    /\ last' = num[t] + 1
    /\ ReleaseLocks(t)
    /\ Goto(t, "committed")
    /\ UNCHANGED <<strategy, num, attempt>>

\* Faulty: the lock outlives the transaction.
AbortHolding(t) ==
    /\ pc[t] \in Active
    /\ Goto(t, "aborted")
    /\ UNCHANGED <<strategy, exists, last, owner, parent, num, attempt>>

\* The router commits document and counter together.
Commit(t) ==
    /\ pc[t] = "written"
    /\ exists' = TRUE
    /\ last' = num[t]
    /\ ReleaseLocks(t)
    /\ Goto(t, "committed")
    /\ UNCHANGED <<strategy, num, attempt>>

\* An HTTPException, a lost client or a crash ends the session without commit.
RollBack(t) ==
    /\ pc[t] \in Active
    /\ ReleaseLocks(t)
    /\ Goto(t, "aborted")
    /\ UNCHANGED <<strategy, exists, last, num, attempt>>

Advance(t) ==
    \/ SelectRow(t)
    \/ InsertRow(t)
    \/ InsertConflict(t)
    \/ Reselect(t)
    \/ WriteDocument(t)
    \/ Commit(t)

NumbersNext == \E t \in Caller : Call(t) \/ Advance(t) \/ RollBack(t)

\* A started request runs to its end; nobody has to start one.
NumbersSpec ==
    InitNumbers /\ [][NumbersNext]_numbering /\ \A t \in Caller : WF_numbering(Advance(t))

-----------------------------------------------------------------------------

NumbersTypeOK ==
    /\ strategy \in Strategies
    /\ exists \in BOOLEAN
    /\ last \in Nat
    /\ owner \in Caller \cup {Nobody}
    /\ parent \in Caller \cup {Nobody}
    /\ pc \in [Caller -> {"start"} \cup Active \cup Ended]
    /\ num \in [Caller -> Nat]
    /\ attempt \in [Caller -> Nat]

Saved == {t \in Caller : pc[t] = "committed"}

\* The committed documents are numbered 1, 2, ..., last with no gap, whatever
\* requests failed, retried or raced for the first number ("no gap created",
\* invoice_number.py:27-30).
Gapless == {num[t] : t \in Saved} = 1..last

\* No two committed documents share a number.
Unique == \A t, u \in Saved : num[t] = num[u] => t = u

\* The variables have their types, and numbers no gap and no double.
Numbered == NumbersTypeOK /\ Gapless /\ Unique

\* A document derived from a parent row is only written while the request still
\* holds the parent's lock: a session rolled back inside the number service
\* never lets the caller go on without it.
ParentStillLocked ==
    \A t \in Holder : pc[t] = "written" => parent = t

\* The retry loop is long enough and the fallback SELECT always finds the row:
\* a request that loses the race for the first number loses it only once.
RaceLostOnce ==
    \A t \in Caller : attempt[t] <= 1 /\ pc[t] \notin {"exhausted", "missing"}

\* The number of each request as its workspace sees it, 0 until the commit.
Shown == [t \in Caller |-> IF t \in Saved THEN num[t] ELSE 0]

Log == INSTANCE NumberLog WITH Request <- Caller, count <- last, number <- Shown

\* The service issues its numbers one after the other: the counter only moves
\* with the commit that shows the next number, and a number once shown stays.
IssuedInOrder == Log!Spec

\* Every request that has started ends: the locks of the number service are
\* never waited for in a circle.
RequestsEnd == \A t \in Caller : pc[t] = "select" ~> pc[t] \in Ended

=============================================================================
