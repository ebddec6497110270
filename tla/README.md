# A TLA+ model of the invoicing and procurement backend

The repository is a multi-tenant back office for a trading company: it quotes,
invoices, delivers and collects on the sales side, and requests, orders,
receives and pays on the supply side. A FastAPI backend (`src/backend/app`)
keeps everything in PostgreSQL; a React frontend displays what it answers. The
backend is stateless, so all that can go wrong between two requests goes wrong
in the database: which rows a handler locks, what it reads before it has the
lock, what it writes after, and where it commits.

This directory holds TLA+ modules of that behaviour, TLC configurations that
check them on small instances, and TLAPS proofs. `PROJECT.json` lists, for
tools, the components, the runs, one deliberately broken variant of the code
for every property, the source lines each definition stands for, the hazards
and the theorems.

Paths below are relative to `src/backend/app/services/` unless they start with
another directory; documents are in `src/architecture/`.

 1. [Inventory](#1-inventory)
 2. [How the code is turned into TLA+](#2-how-the-code-is-turned-into-tla)
 3. [The modules](#3-the-modules)
 4. [The runs](#4-the-runs)
 5. [What the runs found](#5-what-the-runs-found)
 6. [What is proved](#6-what-is-proved)
 7. [What is not modelled](#7-what-is-not-modelled)
 8. [Plan](#8-plan)

## 1. Inventory

### Parts, state, operations

| Part (files) | State it keeps | Operations | What makes it correct | Module |
|---|---|---|---|---|
| Document numbers (17 `*_number.py`) | one counter row per workspace, year and kind | take the next number, create the first row of a year | no gap, no double, whatever fails or races | `DocumentNumber`, `NumberLog` |
| Enquiries, quotations (`enquiry_service`, `quotation_service`) | life cycles, validity dates | create, edit, send, accept, reject, expire on read, convert | a quotation becomes one document; an answer is not lost to expiry | `Sales` |
| Customer LPOs (`customer_po_service`) | status, cached invoiced quantities | draft, receive, invoice in slices, cancel, recalculate | no line is billed beyond its order; the discounts of the slices add up | `Sales`, `Fulfilment` |
| Product master (`product_service`, `uom_conversion_service`, `pricing_service`) | categories, units, products, conversions, prices | create, edit, move, delete, resolve a factor or a price | categories are a tree, factors count the base unit, one price is found | `Catalogue` |
| Invoices and balances (`invoice_service`, `routers/invoices.py`) | status, total, cached credited and debited totals | create, edit, delete, send, void, OVERDUE on read | the status agrees with the balance; a sent invoice does not change | `Receivables` |
| Customer payments, post-dated cheques (`payment_service`, `pdc_service`) | payments, idempotency keys with a lifetime of 48 hours | pay, deposit, clear, bounce, return | one payment per key, no overpayment even by a cheque that clears late | `Receivables` |
| Credit notes and tax debit notes (`credit_note_service`, `tax_debit_note_service`) | notes, the client's parked credit | create, delete, issue | cached totals lose no note; an invoice is not credited below zero | `Receivables` |
| Credit control (`credit_control_service`) | the client's credit status | evaluate, gate on send | no invoice leaves DRAFT over the limit | `Receivables` |
| Stock reservations (`stock_reservation_service`) | reservations and their lines | reserve, cancel, expire, consume on dispatch | `reserved` is what reservations hold | `Fulfilment` |
| Delivery notes (`delivery_note_service`) | notes of an LPO or of an invoice, cached delivered quantities | create, edit, delete, confirm, cancel | no over-delivery, no oversell, stock posted once | `Fulfilment` |
| Inventory ledger (`inventory_ledger`) | levels (`on_hand`, `reserved`, `damaged`, `in_transit`), movements | post an issue, adjust | levels agree with movements | `Fulfilment`, `Receiving`, `Warehouse` |
| Transfers and counts (`stock_transfer_service`, `stock_count_service`) | headers, lines, stock in transit, variances | approve, dispatch, receive, cancel; record, complete, approve, reconcile | goods are neither created nor lost; a document posts what it says | `Warehouse` |
| RFQ, quotes, awards (`award_service`) | request, quote revisions, awards | send, quote, draft, approve, generate orders | revisions in order, no award lost or ordered twice | `Sourcing` |
| Supplier orders and amendments (`spo_service`) | orders, lines, amendments, `has_open_amendment` | draft, submit, approve, send, acknowledge, amend, cancel | amendments are numbered without gaps; mark, lines and totals agree; limbo has an exit | `Ordering` |
| Goods receipts (`grn_service`) | receipts, lines, roll-ups of the order line | create, start, add, stage, inspect and post, cancel | roll-ups and stock are the sums of what was inspected | `Receiving` |
| Purchase returns (`purchase_return_service`) | returns, their lines | create, submit, approve, dispatch, complete, reject, cancel | no more goes back than came; one debit note for each return sent | `Receiving` |
| Supplier invoices (`supplier_invoice_service`) | invoices, three-way match result | create, match, resolve, approve | what is paid was matched, item by item, with what was accepted | `Payables` |
| Supplier payments, cheques, reversals, debit notes (`supplier_payment_service`, `supplier_pdc_service`, `supplier_payment_reversal_service`, `supplier_debit_note_service`) | payments, keys, notes, `amount_paid`, `balance_due` | pay, clear, bounce, reverse, issue, apply, cancel | money settles each invoice once and never beyond what it owes | `Payables`, `Settlement` |
| WhatsApp, e-mail (`whatsapp_service`, `email_service`) | messages, keys, delivery status | send, resend, provider webhooks, messages received | a key makes one message; what was sent is not sent again; its status does not go back | `Messaging` |
| Statements, ageing, VAT, analytics (`ar_statement_service`, `supplier_statement_service`, `ar_aging`, `vat_compliance_service`, `analytics_service`) | none | queries over dated documents | consecutive statements join; reports agree with balances and with each other | `Statements` |
| Purchase return receipts, procurement requests, landed cost, PDF, tenancy, audit, master data, frontend, migrations | | | | [not modelled](#7-what-is-not-modelled) |

### How the parts interact

There are no queues and no background jobs. A request is one coroutine with one
session; parts call each other's functions inside that session, share its
transaction, and meet other requests in the rows only:

    enquiry --> quotation --> customer LPO --+--> reservation --+
                                 |           +--> delivery note-+--> inventory ledger <-- transfer, count
                                 +-----------+--> invoice --> payment / cheque / CN / TDN --> credit control
                                                                                    |
                             gate: an invoice in DRAFT may become SENT <------------+

    RFQ --> quote --> award --> supplier order --> receipt --> inventory ledger
                                    |   ^             |  +--> automatic return
                                    |   amendment     v          |
                                    +--> supplier invoice (match)|
                                            ^   ^                v
                          payment / cheque--+   +-- debit note --+

    every document --> statements, ageing, VAT pack, cash flow (reads)
    an invoice or a quotation --> WhatsApp or e-mail --> provider --> webhooks

Every creation of a document takes a number from its counter, under the lock of
the counter row, in the transaction that writes the document.

### What is hard to test here

- **Interleaving.** The session is READ COMMITTED. Some handlers lock their
  header first (payments, notes, LPOs, delivery notes, reservations), others
  never do (invoices, receipts, returns, transfers, counts, supplier invoices
  in matching, the product master), and some lose the lock half way, because a
  function they call commits or rolls back.
- **Stale state inside one request.** `autoflush=False` and
  `expire_on_commit=False` (`database.py:25-30`): a query never sees a status
  the same request has just assigned, so what is recalculated lags one step;
  and SQLAlchemy writes only the columns that differ from what was *read*, so a
  flag that another request has changed meanwhile is not written again.
- **Crashes** between two commits of one request (order generation, sending of
  messages).
- **Retries** with idempotency keys that expire; webhooks that come twice, late
  or in the wrong order.
- **Order.** Cheques clear weeks after they were accepted, notes and reversals
  come in between; goods are received, returned and amended while an invoice is
  being matched; documents are dated back into periods already reported.

The 40 hazards in `PROJECT.json` name the lines; where a property holds for one
request at a time only, the note of its hazard says so.

## 2. How the code is turned into TLA+

**Requests.** A request is a transaction. If all it reads is behind locks it
takes first, nobody can tell its steps apart and it is one action. Otherwise it
is split where it reads something unlocked: the first action stores in `txn[t]`
(`session[t]` in `Ordering`, `Catalogue` and `Sales`) what was read or computed
from it, the second takes the remaining locks, reads what is behind them, and
writes **only the columns the ORM would write**.
A row that is written by two requests is therefore lost or merged exactly as
`UPDATE ... SET changed columns` would.

**Locks.** `FOR UPDATE` is a guard that no other open request has the row; a
request that waits is an action that is not enabled. A lock is released when
the transaction ends.

**Abort.** An open request may disappear at any moment: a crash, a lost client,
a constraint violation, a deadlock victim. Nothing it did remains, except what
an earlier commit of the same request has written; those are the cases
`Sourcing`, `Messaging` and `DocumentNumber` are about. The action is `Abort`;
`RollBack` in `DocumentNumber`, `Abandon` in `Ordering`, `Catalogue` and `Sales`.

**Names.** `Init`, `Next`, `Spec`, `vars`, `TypeOK`, `Txn` and `None` are what
they are everywhere, except in `DocumentNumber` (`InitNumbers`, `NumbersNext`,
`NumbersSpec`, `numbering`, `NumbersTypeOK`, `Caller`, `Nobody`), `Ordering`
(`InitOrdering`, `OrderingNext`, ..., `Session`, `Nothing`), `Catalogue` with
`Sales` (`InitSales`, `SalesNext`, ..., `Session`, `Absent`) and `Statements`
(`InitStatements`, `StatementsNext`, ..., `reporting`, `Absent`): each of these
shares a module of proofs with another component (section 6), and TLA+ has no
name spaces.

**Queries.** A query filters on the committed status of a row and returns
objects with the request's own changes. The helpers that translate a query take
both (e.g. `Exposure(i, row, paid)` in `Receivables`, `RecalcInvoiced(map)` in
`Fulfilment`).

**Data.** Amounts and quantities are small naturals; in `Sales` they are fils,
so that the rounding of a split discount is the code's. Prices elsewhere, VAT
rates, currencies, field validation and formatting are left out; where a
comparison of such data decides control, it is one Boolean (`agrees` in
`Payables`). Conversion factors are exact fractions in `Catalogue`, where the
code divides decimals of 28 digits (`uom_conversion_service.py:99`): what agrees
in the model agrees in the code up to rounding. Time is what the code compares:
"past `expires_at`", "past due", "past `credit_hold_days`", or a calendar of a
few days in `Sales` and `Statements`; the latter's days are those of UTC, and a
document of their last four hours (`late`) has the next day as its business date
in the Gulf.

**`workers` and `Overlap`.** Where no header is locked, much holds for one
request at a time only. In `Receiving`, `Ordering`, `Warehouse` and `Messaging`
the variable `workers`, chosen in `Init`, is how many requests are served at a
time; a property that holds for one begins with `workers = 1 =>`. One run
therefore shows both what holds always and what holds without overlap. In
`Sales` and `Catalogue`, `"overlap" \in ops` plays that part.

**`Mixes`.** A module whose operations together have too many states takes a
set of mixes; `Init` picks one, and only its requests are made. Every pair of
operations that touch the same columns is in some mix.

**Bounds** are constants: the sets of rows and of requests, `MaxExpiries` (how
often a key outlives its 48 hours), `MaxAge` (overdue bands), `MaxAccepted`
(goods accepted of a line), `MaxAmend` (amendments of an order), `Drift` (what hand
adjustments may add up to), `LastDay` (the calendar), `MaxRetries` (a constant
of the code). `MCReceiving` adds a `CONSTRAINT`, `OneReturnUnderOverlap`: requests
that overlap share one return, requests that follow each other have both. Nothing
else is cut.

**Two variants of a definition.** Some definitions are preceded by a variant
with one plausible mistake, marked `Faulty:` (`RecordPaymentAgain`,
`TakeRowUnlocked`, `ConfirmReadUnlocked`...). Nothing in `Next` uses those;
replacing the definition by its variant must make TLC find the property of the
same line of `PROJECT.json` violated, which shows that the property depends on
that code.

**Deadlock** is not checked anywhere (`CHECK_DEADLOCK FALSE`): all rows may have
been used up and every document may be in a final state, so each model really
stops. That nobody waits for ever is `RequestsEnd` for the number service; in
the other modules the locks of a request are taken in one step, so circular
waiting (two receipts of transfers in opposite directions,
`stock_transfer_service.py:244`) is its outcome, an `Abort`.

**Fairness** is assumed in `DocumentNumber` only, and weakly: a request that has
started takes its next step if it can. The code justifies this: each request is
a coroutine the event loop keeps running, and PostgreSQL grants a row lock when
its holder ends. Nothing obliges a client to start a request, to retry it, to
resend a message or to send the second half of a business process, so nothing
else that "eventually" happens is claimed.

## 3. The modules

### DocumentNumber, NumberLog

The seventeen services are four families that differ in what they do when
another request creates the first counter row of a year before them; which one
is running is the variable `strategy`, chosen in `Init`.

| Model | Code (lines in `PROJECT.json`) |
|---|---|
| `Call`, `SelectRow` | lock a parent row if the caller holds one; `SELECT ... FOR UPDATE` of the counter |
| `InsertRow`, `InsertConflict`, `HandleConflict` | add a row with 1 and flush; the unique constraint; roll back the session or the savepoint, retry or select |
| `Reselect` | the second `SELECT`, whose `scalar_one()` assumes the row |
| `WriteDocument`, `Commit`, `RollBack` | the caller's part |

`Session.rollback()` in the number service ends the caller's whole transaction,
including the lock on its parent. `Holder` is the set of requests whose caller
holds one; such a request fails on its next access to the parent
(`MissingGreenlet`), which is why it never writes a document without the lock
(`ParentStillLocked`). `NumberLog` is the abstract specification: numbers are
issued 1, 2, 3, ... and none is taken back. `IssuedInOrder` states that
`DocumentNumber` implements it, with the committed `last_number` as the count
and the numbers of committed requests as what is visible.

### Receivables

One client: `inv`, `pay`, `key`, `note`, `client`, and the open requests. A
request keeps what it will write (`inv`, `flips`, `client`...) and `Commit`
writes it. `RecordPayment` is the whole of `record_payment`, its key included;
`SendLoad` and `SendCheck` are the two halves of `mark_sent` around the client
lock; `IssueCreditNote` and `IssueDebitNote` include the posting to the
invoice, the client's balance and the evaluation of credit. `SweepOverdue` is
the OVERDUE flip that reads perform: of the invoices of a list, or of all of a
client's (`ReadClient`). A flip that was read before a void and is committed
after it makes the voided invoice one that is owed again; `HoldGate` excludes
this (`VoidsStand`), since it adds to what the client owes behind the back of a
send that has passed the gate.

### Fulfilment

One customer LPO of one product and the invoices made of it: `lpo`, `line`,
`bill`, `dn`, `rsv`, `level`. A delivery note is a note of the LPO or of one of
its invoices; each parent counts its own deliveries, so the two together may
deliver what was ordered once twice over, which the code's documents do not
exclude. Reservations are split into the read of the candidates and the step
behind the stock-level lock; confirmation of a delivery note into `ConfirmRead`,
which reads the reservations it will consume **without locking them**, and
`ConfirmDone`, which consumes them in order of creation and posts the issue.
`RecalcDelivered` and `RecalcInvoiced` are computed from what the query sees,
which is not what the request has just assigned, so that an invoice that is
voided or deleted still counts in the recalculation it causes. `FlipRead` and
`FlipDone` are the OVERDUE flip of a read request
(`credit_control_service.py:326-361`), whose SELECT locks nothing: an invoice
that was voided in between becomes OVERDUE, counts again, and its LPO is not
recalculated. By then its quantity may have been billed again, so that the
invoices together exceed the order; `NotOverInvoiced` therefore speaks of the
invoices nobody has voided (`voided`, the audit log's INVOICE_VOIDED), and
`BilledWithinOrder`, which speaks of all that count, is violated in
`MCFulfilment_v_revived.cfg`. A confirmed note of a cancelled parent can never
be cancelled: the parent is loaded with the same guard.

### Payables, Settlement

Supplier invoices and the order lines they bill. An invoice comes with a total
and a list of items that the client sends and nothing compares: no item at all,
several of one order line, or one of no line (`Init` chooses the list of each
invoice from `ItemLists`). Money (`RecordPayment`, `ClearPdc`,
`ReversePayment`, `ApplyNote`) locks the invoice first: one step. Matching,
resolution and approval read the invoice unlocked: `Read`, then
`SubmitMatching` or `Approve`. A match starts PASSED and takes the result of the
last item that fails (`Results`), each compared alone with all that is accepted of
its line (`MatchItem`). `Accept` and `Amend` are what receipts and amendments do to
the lines meanwhile: what is accepted rises, and falls when inspections overlap or
a receipt under inspection is cancelled (`grn_service.py:386`, `:499-515`); `most`
keeps the most there ever was, and is read by properties only. What a match still
gives is therefore little: `PaidOnlyReceived` says that of an invoice that is paid
without a discrepancy resolved by hand *each item*, by itself, bills no more than
was accepted of its line at some time. Not its total, not two items of one line
together, not two invoices, not what is accepted now. `Settlement` is the abstract
specification: entries settle bills, never beyond what is owed, may be undone,
and do not come back once they are undone. The refinement mapping takes the
successful payments and the applied notes as the entries that stand and
`balance_due` as what is owed.

### Sourcing

One line of an RFQ. All requests have two steps; only an award that is being
approved or converted is locked in between. `OrderRead`, `OrderDone`,
`ConvertDone` are `generate_spos`, which calls `SPOService.create_draft`; that
function commits, so the request continues without its lock and may be lost
before the award is marked.

### Ordering

One supplier order, from the draft that `create_draft` leaves to its end.

| Model | Code |
|---|---|
| `StatusRead`, `StatusDone` | `submit_for_approval`, `approve`, `send`: read unlocked, write at the end |
| `AckRead`, `AckDone` | `acknowledge`: confirmed quantities, backorders, amendments for prices that differ (`AckAmends`), lines put in limbo |
| `ProposeRead`, `ProposeDone` | `propose_amendment`: the number is taken, and an identical open amendment answered with, behind the order's lock |
| `ApproveAmendment`, `ApplyAmendment` | behind the lock on the amendment **and on the order's row**, which the eager join of the query locks with it; one step each |
| `CancelRead`, `CancelDone` | `cancel`: what is open of each line is cancelled |
| `CreateReceipt`, `DisposeRead`, `DisposeDone` | the receipts that count on the lines (`grn_service`), as far as they touch the order |

`WriteBack` writes exactly the columns that differ from what was read. Of the
rows `create_draft` writes, dates, terms, VAT and the history are left out. The
code has no way to withdraw an amendment and no short close.

### Receiving

Receipts of one order line and the returns of their goods. The headers and the
order line are locked by nobody, so every request has two steps; the receipt
line and the stock level are locked and read in the second one. Returns by
hand and automatic ones compete for what a receipt line has received. `DisposeDone`
is an inspection with everything it does: the split of the quantity, the
automatic return with its lines, the posting to stock, the roll-ups and the
status of the receipt. `DispatchDone` takes the lines of a return one after the
other, in the order `Position`, each at most what the earlier ones left; it says
so of the quantities taken (`StockOut`) instead of computing them in a loop. The
tolerance for over-receipt is part of `Confirmed`; a
manual return has one line; a request that submits an automatic return between
the query for it and the commit of the inspection is not represented; landed
cost and `update_grn` are left out.

### Warehouse

One product, one bin in each warehouse. `TransferRead` and `CountRead` load a
header unlocked; `DispatchDone`, `ReceiveDone`, `CancelDone`, `ReconcileDone`
lock the levels, read them and post. `ledger` keeps what the movements of each
document sum up to, so that a document that posts twice shows. A transfer and a
count have one line. A count is of what was on hand when it was scheduled, and
its variance is added to what is on hand when it is reconciled.

### Messaging

One of the two channels per behaviour. WhatsApp: `SendRead`, `Reserve` (first
transaction, the key arbitrates), `Dispatch` and `Answer` (the provider),
`Record` (second transaction). E-mail calls the provider inside its only
transaction (`RecordEmail`). The provider may refuse, take the message, or take
it while its answer is lost; `Report` and `ReportRead` are its webhooks, in any
order and any number of times. `ResendRead` holds the row's lock across the
provider call. `InboundRead`, `InboundDone` are messages received, each with
the enquiry it makes in a savepoint. The provider is external: it is modelled
from what `providers.py` and the webhooks make of it.

### Sales, Catalogue

`Sales` extends `Catalogue`: an enquiry, a quotation, an LPO and invoices of
either, at the prices of the product master. Documents lock themselves first and
are one step, except an acceptance, which may commit after midnight
(`AcceptRead`, `AcceptDone`), a read that expires a quotation, which looks
before it locks (`ShowRead`, `ShowDone`), and one that marks invoices OVERDUE,
which locks nothing (`FlipRead`, `FlipDone`). `SliceDiscount` rounds as the code
does. As in `Fulfilment`, the end of an invoice recalculates its LPO before the
new status is flushed (`EndInvoice`), and a flip brings a voided slice back;
slices add up over those nobody has voided (`Standing`). In `Catalogue` a
request checks what it reads and writes without a lock:
`CategoryRead`/`CategoryDone` and their like, of which an edit checks what it
sends (`NameOK`, `ParentOK`); what a unique index checks again is one step.
`Walk` is the walk up the ancestors, `ResolveFactor` the conversion between two
units through the base unit, `Resolved` the rows of the best priority for a
client and a quantity.

### Statements

Dated documents of one customer or one supplier over a few days. Requests are
one step each and move `booked`, the day they took effect, while `date` is what
their author wrote. Reports are operators over the state: `Opening`,
`PeriodTotals`, `ClosingRunning` (statements of account), `ArAging`, `ApAging`,
`Reconstructed` (an ageing report of a past day), `OutputTax`, `InputTax` (VAT
pack), `Revenue`, `Cashflow`. Statements select by the day of UTC, the VAT pack
and the cash flow by the day of the Gulf (`BusinessDate`): a supplier's invoice
or an applied debit note of 20:30 UTC falls into different periods, and
`ReportsAgree` says by which documents the two differ (`EveningOf`). Customers'
documents have a date alone, and both payment services store the midnight of a
payment's day (`payment_service.py:196`, `supplier_payment_service.py:53-54`),
whose business date is that day: there the two zones make no difference. `stood`
remembers what each invoice owed at the end of each day, and is read by
properties only.

### MC modules

`MCX` extends `X` with constant functions and the symmetry set. Rows of a kind
are interchangeable except where the code puts them in order: reservations are
consumed in the order they were created, lines of a return are processed in
order, amendments are numbered. `DocumentNumber` has a liveness property and
uses no symmetry.

## 4. The runs

With 2 workers; states are distinct states.

| Run | Instance | States, time | Properties |
|---|---|---|---|
| `numbers` | 4 requests, 2 with a parent, all families, 3 retries | 23,204, 6 s | `Numbered` `ParentStillLocked` `RaceLostOnce` `IssuedInOrder` `RequestsEnd` |
| `receivables` | 2 invoices, 2 payments, 1 key, 2 notes, 2 requests; 3 mixes | 418,726, 59 s | `NotOverpaid` `OncePerKey` `StatusMatchesBalance` `NotesAddUp` `ParkedUntilDebited` `HoldGate` |
| `fulfilment` | 1 line, 2 bins, 2 notes, 2 reservations, 2 invoices, 2 requests; 4 mixes | 477,431, 50 s | `NoOversell` `WithinOrder` `StockConserved` `ReservedMatches` |
| `payables` | 1 invoice with no item or two, 1 order line, 2 payments, 1 key, 1 note, 2 requests | 838,300, 111 s | `PaidAddsUp` `OncePerKey` `PaidOnlyReceived` `SettledAsPromised` |
| `sourcing` | 2 suppliers, 2 quotes, 2 awards, 2 orders, 2 requests, SPLIT | 187,160, 14 s | `QuotesInOrder` `ConvertedIsOrdered` `ClosedIsCovered` |
| `ordering` | 1 line, 2 amendments, 1 or 2 requests | 2,494,746, 108 s | `AmendmentsNumbered` `OrderAddsUp` `LimboHasExit` |
| `receiving` | 1 receipt, 2 lines, 2 returns (1 under overlap), 1 or 2 requests | 824,412, 55 s | `StockAddsUp` `SentIsCharged` `ReturnedWithinReceived` |
| `warehouse` | 2 warehouses, 1 transfer, 1 count, adjustments, 1 or 2 requests | 860,371, 57 s | `LevelsMatch` `PostedAsAgreed` |
| `messaging` | 2 messages, 1 key, 2 provider ids, 1 message received, 1 or 2 requests | 187,787, 15 s | `OneRowEach` `SentRightly` `PromotionIsMonotonic` |
| `sales` | 1 enquiry, 1 quotation, 1 LPO, 3 invoices, 2 days; 3 categories; 3 units, 1 product, 2 prices; 2 requests; 6 mixes | 173,408, 85 s | `ConvertedOnce` `AnswersAreKept` `SlicesAddUp` `CatalogueIsSound` |
| `statements` | 1 invoice, 2 payments, 1 note, 3 days, evenings; 4 mixes | 90,881, 28 s | `ClosingIsDueUndebited` `HistoryStands` `ReportsAddUp` |
| `award_twice` | 1 award, 2 orders | violation | `OneOrderPerAward` |

Some properties are conjunctions, each part named and commented in its module,
the type invariant among them:

| Property | Parts |
|---|---|
| `Numbered` | `NumbersTypeOK` `Gapless` `Unique` |
| `NotesAddUp` | `TypeOK` `CachedTotals` `NotOvercredited` |
| `WithinOrder` | `TypeOK` `NotOverDelivered` `NotOverInvoiced` |
| `PaidAddsUp` | `TypeOK` `PaidIsSuccessful` `PaidOwesNothing` |
| `QuotesInOrder` | `TypeOK` `RevisionsInOrder` |
| `OrderAddsUp` | `OrderingTypeOK` `FlagIsOpen` `TotalsMatch` `CancelledIsClosed` |
| `StockAddsUp` | `TypeOK` `StockIsLedger` `RollupsMatch` |
| `LevelsMatch`, `PostedAsAgreed` | `TypeOK` `LedgerAgrees` `InTransitMatches`; `PostedAsStated` `LargeVarianceApproved` |
| `OneRowEach`, `SentRightly` | `TypeOK` `OneMessagePerKey` `OneEnquiryPerInbound`; `NotSentAgain` `OnlyOpenDocumentsSent` |
| `SlicesAddUp`, `CatalogueIsSound` | `DocumentsTypeOK` `CatalogueTypeOK` `DiscountsAddUp`; `CategoriesAreATree` `FactorsFitBase` `PriceIsUnambiguous` |
| `ReportsAddUp` | `StatementsTypeOK` `StatementsJoin` `ReportsAgree` |

**Why these bounds.** Every race in this code is between two requests over one
row or over a set of rows one of them reads; two requests show it, and the
number service has four so that a loser of the first race can wait behind two
others that roll back or commit before it tries again. Two rows of a kind are
what it takes for a key to be used for the wrong invoice, for a note to be lost
from a sum, and for two documents to compete for what is left of a third; three
categories are the shortest chain whose ends can be joined. Amounts 1 and 2
against a total of 2 give exact, partial and excessive; a discount of 2 over a
quantity of 3 gives shares that round up, down and to nothing. A warehouse holds
50, so that a count of 49 is exactly the two per cent of the tolerance, an
adjustment makes it more or less, and a transfer of 50 leaves a count that expects
nothing. An invoice comes without items, with two that fit its line each but not
together, or with one its line cannot cover and one of no line. Two returns
compete for one receipt line. Three days put a
document before, in and after a period. Two expiries of a key would only repeat
what one shows.

**What a passing run leaves open.** In `fulfilment` no mix has both adjustments
and deliveries. An adjustment looks at `on_hand` alone and may take stock that
is reserved, so `NoOversell` (`StockCovered`) leaves adjustments out; with
deliveries `ReservedMatches` is violated, as `MCFulfilment_v_reserved.cfg`
shows. In `receiving` clients return inspected goods and inspect a line once
(`Clients = {}`); `StatusMatchesBalance` is stated for sends, payments and
notes, and fails once an OVERDUE sweep overlaps a payment
(`MCReceivables_v_swept.cfg`), `HoldGate` once one overlaps a void.
`WithinOrder` and `SlicesAddUp` do run with such sweeps, over the invoices
nobody has voided; a voided one that a sweep brings back is not counted, and
with it the order is exceeded. `PaidOnlyReceived` does not add items up. A
message whose answer was lost may be sent twice (`SentRightly`), and a webhook
carries one message (`OneRowEach`). `SentIsCharged`, `RollupsMatch`,
`FlagIsOpen`, `ReturnedWithinReceived`, `TotalsMatch`, `CancelledIsClosed`,
`LimboHasExit`, `InTransitMatches`, `PostedAsAgreed`, `OnlyOpenDocumentsSent`,
`PromotionIsMonotonic`, `AnswersAreKept` and `CatalogueIsSound` hold for one
request at a time: of the overlaps that their hazards name they say nothing.

### Configurations for the reader

Each asks one question whose answer is a violation. Run one with
`tlc -workers 2 -config X.cfg MCModule`.

| Configuration | What it shows |
|---|---|
| `MCReceivables_v_parked` | `CreditBalanceIsOwed`: a debit note takes back credit that has been parked on the client, and the parked amount stays (`wave-debit-notes-addendum.md:228`) |
| `MCReceivables_v_swept` | `StatusAgrees`: OVERDUE is written over a payment that committed in between |
| `MCReceivables_v_immutable` | `SentIsImmutable`: PUT and DELETE check a status they have not locked |
| `MCFulfilment_v_revived` | `BilledWithinOrder`: an OVERDUE flip brings a voided invoice back after its quantity was billed again (`credit_control_service.py:330`, `customer_po_support.py:228-233`) |
| `MCFulfilment_v_reserved` | `ReservedSum`: a dispatch consumes a reservation that is cancelled meanwhile (`wave-stock-reservations-addendum.md:46`) |
| `MCPayables_v_approval` | `ApprovalStands`: a match writes MATCHED over APPROVED |
| `MCPayables_v_cumulative` | `CumulativeMatch`: the items of a line, on one invoice or several, bill more of it than was ever accepted: each is compared alone (`supplier_invoice_service.py:152`, `:288-300`). `supplier-invoice-architecture.md:31` asks for cumulative matching |
| `MCSourcing_v_remainder` | `AwardedWithinNeed`: two requests award more than is needed |
| `MCReceiving_v_rejected` | `RejectedStaysOut`: `_compute_stock_out` (`purchase_return_service.py:434`) counts the accepted part of a line against a return of its rejected part; `wave-purchase-returns-addendum.md:132` says an automatic return takes nothing from stock |
| `MCOrdering_v_cancelled` | `CancelledWithinConfirmed`: a partly received order is cancelled in full, since no receipt lowers `open_quantity` (`spo-architecture.md:154`) |
| `MCOrdering_v_floor` | `OrderedCoversReceived`: goods are received between the approval of an amendment, which tests the floor SPO-013, and its application, which does not |
| `MCStatements_v_closing` | `ClosingIsDue`: with a debit note the ledger's closing balance is not exposure less parked credit (`wave-ar-statement-addendum.md:97`) |
| `MCStatements_v_history` | `HistoryIsExact`: a cheque keeps the date it was received, so a reconstructed report takes it off days on which it was not yet cleared (`ar_aging.py:295-296`) |

Three more need no configuration of their own; put the first in place of the
second in the named one:

| Violated | In place of | What it shows |
|---|---|---|
| `DeliveredMatches` | `StockConserved` in `MCFulfilment.cfg` | `quantity_delivered` lags one note behind (`wave-delivery-notes-addendum.md:337`) |
| `AllSlicesFit` | `SlicesAddUp` in `MCSales.cfg` | with a slice a flip has brought back, the slices exceed their LPO |
| `InputIsStated` | `ReportsAddUp` in `MCStatements.cfg` | a supplier's invoice of the evening is in the VAT pack of the next day's period and in the statement of its own (`vat_compliance_service.py:83-92`; `test_vat_compliance.py:911-940` has the one, `supplier_statement_service.py:120` the other) |

## 5. What the runs found

**An award ordered twice** (run `award_twice`). `create_draft` commits
(`spo_service.py:282`) and ends the lock on the award before it becomes
CONVERTED; the check for lines that are ordered already looks an
`award_line.id` up in a set of other ids (`award_service.py:799`).
`rfq-architecture.md:70` calls generation idempotent.

The configurations above are the other places where a run and a document, or a
run and what one would expect, disagree. Smaller observations that came out of
modelling and are not the subject of a property:

- No receipt of a purchase return can be created: the query filters on
  `WarehouseBin.workspace_id` (`purchase_return_receipt_service.py:269`), a
  column the model does not have.
- Nothing locks the order line a receipt adds to, nor the headers of receipts,
  returns, transfers and counts; what two requests do to them at once is bounded
  by CHECK constraints only.
- E-mail keys never expire and are not locked
  (`wave-email-engine-addendum.md:18,73` says 48 hours and `FOR UPDATE`); two
  requests with one key may both reach the provider before one of them fails.
  WhatsApp requests that both saw an expired key may delete each other's
  (`wave-whatsapp-pdf-addendum.md:176`).
- The last slice of an LPO can be refused for good when the shares of earlier
  slices were rounded to nothing and the rest exceeds its amount.
- Two equal prices created at once make every lookup ambiguous: there is no
  constraint behind `_assert_price_unique`. A product whose category was deleted
  refuses every edit with 404. An enquiry may be converted any number of times.
- An invoice without items passes its match, since a match starts PASSED
  (`supplier_invoice_service.py:288`, `schemas/supplier_invoices.py:57`), and its
  total is not compared with its items; goods that were accepted when it was
  matched may be taken back before it is paid.
- The VAT pack adds applied supplier debit notes to input tax and keeps the notes of
  voided invoices, the cash flow keeps their payments; the dashboard counts
  DRAFT and deleted invoices as outstanding.
- `uom_conversion_service` has no caller outside its tests.

## 6. What is proved

Each module of proofs EXTENDS the one to three components it is about;
`SumTheorems` has the lemmas on sums.

### Document numbers

`Services_proof` proves, for every set of requests, every subset of holders and
every family:

| Theorem | States |
|---|---|
| `Invariance` | `NumbersSpec => []NumbersInv`, the inductive invariant, with the types |
| `NoGaps` | `NumbersSpec => []Gapless` |
| `NoDuplicates` | `NumbersSpec => []Unique` |
| `NumbersAreSound` | `NumbersSpec => []Numbered`: both, with the types |
| `OneLostRace` | `NumbersSpec => []RaceLostOnce` |
| `UnderParentLock` | `NumbersSpec => []ParentStillLocked` |
| `IssuesInOrder` | `NumbersSpec => IssuedInOrder`: the service implements `NumberLog` |

**Assumptions.** `CallersAssumption` (holders are callers, `Nobody` is not one) and
`RetriesAssumption` (at least two attempts; the code makes three). `Caller` may be
infinite: the argument counts nothing.

**Argument.** `Gapless` is not inductive: nothing in it says that the number a
request carries between the `UPDATE` and its commit is the next one. `NumbersInv`
adds
- `NumberInHand`: a request with a number in hand owns the counter row, and its
  number is `last + 1`;
- `NumbersTaken`: committed numbers are 1..`last` and each is taken once;
- `RowKnown` and "no row means `last = 0`": a request that selects again does so
  because the row exists, and rows are never deleted.

With ownership exclusive, two requests cannot both carry `last + 1`, and the
commit extends 1..`last` by exactly that number. `RaceLostOnce` follows from
`RowKnown`: once the row exists nobody inserts, so nobody loses a second race;
hence an assumption of two attempts suffices. The proof has one lemma for each
kind of step (`TypeStep`, `SavedUnchanged`, `NumberStep`, `ReleaseStep`,
`CommitStep`), combined in `StepNumbersInv`. For the refinement, every step is
either quiet (`QuietStep`: the mapped variables do not change) or a commit
(`CommitIssues`: it is `Issue` of `NumberLog`), put together in `StepImplements`.

### Messages

`Services_proof` proves, for all messages, keys, webhooks and messages received,
and every finite set of requests:

| Theorem | States |
|---|---|
| `MessagingInvariance` | `Spec => []MInv`, the inductive invariant |
| `KeysMakeOneMessage` | `Spec => []OneRowEach`: types, one message for a key, one enquiry for a message received |
| `NothingIsSentTwice` | `Spec => SentRightly`, an action property |
| `ReportsMoveForward` | `Spec => PromotionIsMonotonic`, an action property |

**Assumptions.** `TxnAssumption` (requests are finitely many: `workers` counts
them), `NoneAssumption` (`None` is no message and no row), `InboundAssumption` and
`PhoneAssumption` (what is received has a sender).

**Argument.** What these properties forbid happens between two steps of a request,
and none of them mentions requests. `MInv` adds
- `KeysFit`: a key stands for at most one message that no expiry accounts for, for
  one while its row is there and for none after a failed request has taken it
  back; only WhatsApp keys grow old;
- `Fresh`: who is making a message is the only one to know of it;
- `Found`: who works on a message finds it, and a WhatsApp resend, which holds the
  row across the call of the provider, finds it still FAILED or QUEUED;
- `Alone`: the only open request has read what there is: its key is not one that
  answers, its message has not arrived, a document it sends may still be sent.

`InsertRows` is the insertion of message and key, whichever channel does it.
`TakenByDispatch` and `ChangedByRecord` single out the steps the action properties
speak of: only a dispatch hands a message to the provider, only a record changes
the status of one that is sent. That a WhatsApp resend holds the row it has read
is what makes `NotSentAgain` hold with overlapping requests; for e-mail, which
locks nothing, the property says one at a time.

### Statements and reports

`Services_proof` proves, for both parties, all finite sets of invoices, payments
and notes, any totals, positive amounts, terms, bands and number of days, and any
mix of requests:

| Theorem | States |
|---|---|
| `BooksInvariance` | `StatementsSpec => []BooksInv`, the inductive invariant |
| `PastStands` | `StatementsSpec => []HistoryStands` |
| `StatementsClose` | `StatementsSpec => []ClosingIsDueUndebited` |
| `ReportsInvariance` | `StatementsSpec => []ReportsAddUp`: types, `StatementsJoin`, `ReportsAgree` |

**Assumptions.** `MixesAssumption` (documents are a customer's or a supplier's),
`AmountsAssumption` (amounts are positive, as the request schemas have it, and an
ageing band has a day at least), `RowsAssumption` (rows are finitely many, since
they are summed, and no payment is a note or an invoice: a line of a statement
names its document), `AbsentAssumption`.

**Argument.** The properties are about sums over what the rows are now, so that
most of the work is to say what the rows can be. `BooksInv` consists of
- `BooksFit`: payments and notes are made out to invoices that were booked, and
  took effect on a day that has come; a supplier's invoice is not voided;
- `PaidIsSettled`: PAID owes nothing, and a customer's invoice that owes nothing
  and is still open has no cheque waiting. Both reports that read `balance_due`
  and those that read the status find the same invoices by it;
- `ParkedIsSurplus`: without tax debit notes nobody pays more than the total, and
  without voided credited invoices `credit_balance` is the sum of what each
  invoice was overpaid by. It is inductive because a credit note parks exactly
  what its own amount adds to that, and a clearing cheque never more than what is
  left; a tax debit note breaks it for good, as `MCStatements_v_closing.cfg`
  shows;
- `PastIsBooked`: `stood[d][b]` is what the documents booked by day `d` make of
  the balance. No request changes a day that is over, since what it books it books
  today.

`PaymentBooks`, `NoteBooks` and `InvoiceStep` carry the parts over a changed
payment, note or invoice; each action is one of the three.

`HistoryStands` follows from `PastIsBooked`: where the same documents are dated by
a day as were booked by it, the reconstruction filters the same rows. A statement
is a set of lines; `LinesSum`, `FiveMoves` and `ActivityMoves` turn the sum over
its lines into five sums over rows, each of which splits where a period is drawn
(`NetSplit`), so that statements join (`StatementsAddUp`). Over all days the sums
are regrouped by invoice (`PaidByBill`, `NotedByBill`): what each owes less what it
was overpaid by (`NetIsDue`), in total what is due less what is parked. The buckets
of an ageing report are the classes of the invoices by age (`BucketsAddUp`), and
`OwesNow` shows that the reconstruction for today is the live report. That a
period of the VAT pack and one of the statement differ by two evenings is
`EveningsMove`, for any rows, and `InputAgrees`; that they agree about payments and
customers' documents is `HoursFit`, an invariant of its own: only a supplier's
documents have an hour.

### RFQ quotes and awards

`Sourcing_proof` proves, for all finite sets of quotes and awards, any sets of
suppliers, orders and requests, and all quantities:

| Theorem | States |
|---|---|
| `QuotesStayInOrder` | `Spec => []QuotesInOrder`: the types, and revisions 1..n of every supplier's quote |
| `ConvertedAwardsHaveOrders` | `Spec => []ConvertedIsOrdered` |
| `ClosedRequestsAreCovered` | `Spec => []ClosedIsCovered` |

**Assumptions.** `RowsAssumption` (quotes and awards are finitely many; they are
counted and summed), `NeedAssumption` (needed and offered quantities are
positive), `NoneAssumption` (`None` is no award and no row).

**Argument.** None of the properties is inductive: they speak of rows only, and a
request writes what it read in an earlier step. `IInv` adds what open requests
may hold:
- `PendingRevision`: a revision that was read is at most the next one. With the
  unique constraint, which refuses one that is taken, an insert takes exactly the
  next: `QuoteDoneIInv`. Without the constraint the step fails, as does the run
  (mutant `QuoteDoneTwice`);
- `RowsPresent`: the rows a request read are still there, since nothing deletes
  them, so an approval changes the status of quotes and not their number
  (`SameQuotes`);
- `OrderedFirst`: between its two commits a conversion has its order.

`BeginIInv` treats all first steps at once: they change no row. Every second step
has a lemma of its own, and `StepIInv` joins them.

`ClosedIsCovered` rests on a second invariant, `Coverage`: with the property
itself, that an approval which is about to close the request (`ApprovalsCovered`)
has counted only awards that are committed, its own included, and has seen its
quote awarded in full. An award that is committed stays so with its quantity
(`ApprovedGrows`, `ApprovalsStay`), so what was covered when it was counted is
covered when it is written, whatever is approved in between.

### Supplier orders and amendments

`Sourcing_proof` also proves, for all finite sets of lines and requests and all
quantities and prices:

| Theorem | States |
|---|---|
| `OrderingInvariance` | `OrderingSpec => []OrderInv`, the inductive invariant |
| `AmendmentsCount` | `OrderingSpec => []AmendmentsNumbered`: amendments are numbered 1..n, whatever overlaps |
| `OrdersAddUp` | `OrderingSpec => []OrderAddsUp`: types; the mark, the lines and the totals agree |
| `LimboIsLeft` | `OrderingSpec => []LimboHasExit` |

**Assumptions.** `FiniteAssumption` (lines and requests are finitely many),
`QuantityAssumption` (quantities are positive), `PriceAssumption`,
`BoundAssumption`, `FieldsAssumption`.

**Argument.** `AmendmentsNumbered` holds whatever overlaps, since a number is
taken behind the lock of the order's row; the work is in `acknowledge`, which
inserts one amendment for every price that differs, in an order nobody prescribes.
`AckInserts` shows that its numbers are those that follow (the library's facts
on injections and surjections between intervals), with `MaxFromZero` and
`NextIsLength` for the maximum that the code queries. The rest relates rows that
different requests write, is stated for one request at a time, and needs what the
open one is about to write. `OrderInv` adds
- `Holds`: the changes that an acknowledgement or a cancellation has computed fit
  every row they may be written to (`WriteBack` writes columns, not rows);
- `PricesOffered`: amendments of a price carry prices;
- `Consistent`: the mark is there when an amendment is open, header and lines
  agree, and a line in limbo has an open amendment of its price;
- `Alone`: what the only open request will leave is consistent too. For an
  acknowledgement, whose amendments are still to be inserted, a line in limbo has
  its amendment among those that are open or those it will make.

`AnsweredLine`, `CancelledLine` and `AmendedLine` say that each of the three
computations on a line keeps `ordered = confirmed + backordered`; `TotalsOf` and
`AgreeIsTotals` carry it to the header through the sums.

### Sums

`SumTheorems` holds what the proofs below need of sums over sets of rows, which
`SumFunction` defines as a fold: the sum of nothing is 0, a sum is the value at
one element plus the sum of the rest, two functions that differ at one element
differ in their sums by as much, and a sum of naturals is a natural that grows
with its set. For the reports it adds that the sum over a union of disjoint sets
is the sum of the sums (`SumUnion`), that a sum can be taken class by class
(`SumClasses`) or over another set that stands for the first one to one
(`SumImage`), and that the sum of differences is the difference of the sums
(`SumMinus`). The library's induction over finite sets takes a predicate as a
parameter, which the provers cannot instantiate; the lemmas use instead that a
non-empty set of subsets of a finite set has a smallest member (`SmallestSubset`,
from the library's well-founded orderings), applied to the *set* of
counterexamples.

### Supplier payments

`Payables_proof` proves, for every set of invoices, keys and requests, every
finite set of payments and all totals and amounts:

| Theorem | States |
|---|---|
| `PaymentsAddUp` | `Spec => []PaidAddsUp`: types, `amount_paid` is the sum of the SUCCESS payments, PAID means nothing is left |
| `OnePaymentPerKey` | `Spec => []OncePerKey` |
| `OnlyReceivedIsPaid` | `Spec => []PaidOnlyReceived`, for all lists of items |
| `PaymentsSettle` | `Spec => SettledAsPromised`: the payments implement `Settlement` |

**Assumptions.** Totals are natural and amounts positive (`TotalAssumption`,
`AmountsAssumption`; the request schemas refuse others), items bill natural
quantities (`ItemsAssumption`), the payments are
finitely many and no payment is a note (`RowsAssumption`), the caps are naturals
and `None` is no row.

**Argument.** `IInv` adds to the properties
- `RowsFit`: payments and notes are made out to invoices that exist, and a cheque
  that has not cleared is not SUCCESS, so that clearing it adds to the sum once;
- `KeysCount`: a key whose row is alive names one payment that no expiry
  accounts for;
- `RequestsFit`: each item of an invoice that is being approved is within the
  most that was ever accepted of its line, which only grows, although what is
  accepted may have fallen since the match;
- `ApprovedFirst`: whatever is payable or has been paid was approved, and what
  passed its match did so item by item. Without it
  `PaidOnlyReceived` says nothing of an invoice between its approval and its
  first payment.

For the refinement, a step moves at most one entry: `Settles`, `Undo` and
`Stutters` say when a step maps to `Settle`, to `Undo` or to a stutter, one lemma
for each action shows which it is, and `StepBills` joins them.

### Quotations, LPOs and the product master

`Payables_proof` also proves, for all documents and master data, every finite set
of invoices, categories and requests, all quantities, discounts, factors and
prices and every mix of requests:

| Theorem | States |
|---|---|
| `SalesInvariance` | `SalesSpec => [](MasterInv /\ DocumentInv)`, the inductive invariants |
| `QuotationsConvertOnce` | `SalesSpec => []ConvertedOnce` |
| `SlicesKeepTheDiscount` | `SalesSpec => []SlicesAddUp`: types; the slices of an LPO that nobody has voided take no more than its quantity and its discount, and all of its discount when they take all of its quantity |
| `AnswersStand` | `SalesSpec => AnswersAreKept`, an action property |
| `MasterDataIsSound` | `SalesSpec => []CatalogueIsSound` |

**Assumptions.** `FactorAssumption` (factors are positive), `LineAssumption`
(quantities are positive, discounts natural), `FiniteAssumption` (categories and
requests are finitely many), `InvoiceAssumption` (so are invoices; they are
summed), `StockAssumption` (the prices there are at the beginning do not compete),
`AbsentAssumption`, `DocumentsAssumption` (`Absent` is no row, quotations and LPOs
differ), `MixesAssumption`.

**Argument of the documents.** Documents lock themselves, so most of `DocumentInv`
holds whatever overlaps:
- `AnswerInv`: who accepts a quotation holds it, SENT, and nobody else accepts it;
- `Sourced`: documents are made from documents that exist;
- `Made`: what was made of a quotation is one document, and the quotation says
  CONVERTED, or EXPIRED where a read that looked before it locked has overwritten
  that;
- `OrderFits`: the slices nobody has voided take at most the quantity and the
  discount of their LPO, and all of the discount when they take all of the
  quantity; a DRAFT has none.

The last part is arithmetic. `SliceDiscount` rounds a share half up, gives the
last slice what is left and refuses a share beyond it; `SliceFits` shows that
each of the three keeps `OrderFits`, `OneSlice` that one invoice changes the sum
by its own line. It is inductive because a void takes a slice out of the sum,
whose quantity is positive: then something is left to be billed, and the last
slice comes again. A flip that brings a slice back leaves the sum over
`Standing` as it is, and what is billed next only less (`AllSlices`). `Moved`
says what any step may do to a quotation, and gives the action property.

**Argument of the master data.** Requests check without a lock, so `MasterInv`
states only types, and what requests have asked for (`Asked`), in general. For one
request at a time it adds
- `Tree`, `FactorsCount`, `PricesDiffer`: what `CatalogueIsSound` needs of the
  rows;
- `StillSo`: what the only open request has checked is still so.

A category must not be above itself. `Tree` says so of the walk of
`Cardinality(Category)` steps that the model bounds. To show that a move keeps it,
`PathStep` and `PathJoin` treat walks as paths that can be joined. If the moved
category were above itself, the shortest path from the new parent to it
(`LeastNumber`) would not come by it before its end, would thus be the same before
the move (`PathSame`), and the check would have seen it. `FactorsCount` gives that
two factors resolve through the same base unit (`FactorsAgree`), `PricesDiffer`
that of the rows of the best priority one is found (`OneIsBest`, `AtMostOne`).

### Customer payments, notes and credit

`Receivables_proof` proves, for every set of keys and requests, all finite sets of
invoices, payments and notes, all amounts, totals and limits, and every mix of
requests:

| Theorem | States |
|---|---|
| `NothingOverpaid` | `Spec => []NotOverpaid` |
| `OnePaymentPerKey` | `Spec => []OncePerKey` |
| `NotesSumUp` | `Spec => []NotesAddUp`: types, cached totals are the sums of the issued notes, no invoice is credited below zero |
| `StatusFollowsBalance` | `Spec => []StatusMatchesBalance` |
| `ParkedIsOwed` | `Spec => []ParkedUntilDebited` |
| `HoldIsAGate` | `Spec => HoldGate`, an action property |

**Assumptions.** `RowsAssumption` (the three tables are finite; they are summed),
`AmountsAssumption` (amounts are positive, totals natural), `NoneAssumption`
(`None` and `Same` are no rows, statuses or amounts, and rows of different tables
differ).

**Argument.** A request reads in one step and writes in another, so none of these
is inductive. What makes them hold is that a request holds the lock of what it
read. `IInv` says so in three parts:
- `Apart`: no two open requests hold the same row, nor make the same payment;
- `RequestsFit`: of each open request, `Shape` (which rows and columns a request
  of its kind writes, all of them locked) and `Fits` (what it read is still so:
  the payment fits the balance, the note the remainder, the totals and the
  client's balance it will store are still the right ones);
- `RowsFit` and `KeysCount`, as in `Payables_proof`.

`FitsStays` shows that `Fits` survives a step of anybody else (`Undisturbed`),
`RestIInv` treats all steps that write no row, and the lemmas `Written...` treat
`Commit`, the one step in which a request writes, for each part of `IInv`. The
sums go through `PaidAfter` and `NotedAfter`: one row changes, so the sum changes
by its difference. Three premises were found to be needed when the proof was
tried, and are part of the properties: an edit may write the total of an invoice
that was sent meanwhile (`TotalsStand`; the run has a single total,
and `MCReceivables_v_immutable.cfg` shows the race), an invoice whose total
is 0 stays SENT since nothing pays it (`unit_price` may be 0, `StatusAgrees`),
and overdue flips and paid drafts are excluded from `StatusMatchesBalance` as
section 4 says.

`HoldGate` needs a layer of its own, since the send compares with the limit in one
step and leaves DRAFT in a later one. `GInv` adds
- `Settled`: nothing is due on a PAID invoice, and `NeverVoided`: where nobody
  voids no invoice is void, so that a flip to OVERDUE cannot raise what is owed;
- `Admitted`: of a send that has passed the gate, what the client owes is still
  within the limit.

`Admitted` survives the steps of others because only the commit of a send or of
a note raises what is owed, and both hold the client's row, which the admitted
send holds already; everything else lowers it (`FallGate`, `WrittenOwes`). An
invoice leaves DRAFT only when such a send commits (`SentByCheck`). The premise
on voids was found by this proof: TLC showed the flip of section 2 when the mix
held a void and a read of overdue invoices.

### Stock and deliveries

`Fulfilment_proof` proves, for all finite sets of lines, reservations, notes and
invoices, any bins and requests, all quantities and every mix of requests:

| Theorem | States |
|---|---|
| `StockIsNotOversold` | `Spec => []NoOversell` |
| `DeliveriesStayWithinOrder` | `Spec => []WithinOrder`: types, no parent is over-delivered, no line over-invoiced by the invoices that were never voided |
| `StockIsConserved` | `Spec => []StockConserved` |
| `ReservedIsHeld` | `Spec => []ReservedMatches` |

**Assumptions.** `QuantitiesAssumption` (requested quantities are positive, orders
and opening stock natural), `RowsAssumption` (the four tables are finite;
reservations are numbers, in order of creation), `MixesAssumption`, and
`NoneAssumption` (`None` is no row).

**Argument.** The invariant has the same three parts as in `Receivables_proof`:
- `Apart`: open requests make different reservations, release different ones (the
  header is locked) and confirm notes of different parents (the parent is locked);
- `RequestsFit`: what a request read still fits. A note that is being confirmed is
  within what its parent has left; lines that a dispatch or a release read are
  still there with the quantity they had. That they still have the *status* and
  the consumption they had is true of releases only, and only where nothing is
  dispatched: a dispatch does not lock what it selects;
- `RowsFit`: a note of the LPO exists only where clients deliver it, a note of an
  invoice only if the invoice is there, and no line is consumed beyond its
  quantity.

Each sum changes at one row (`NoteAfter`, `BillAfter`, `HeldSums`); a flip changes
none of those over the invoices that were never voided; only a release
changes many at once, and there `SumPlus` splits what was held into what is still
held and what was released, which vanishes line by line (`EndedLines`).
`NoOversell` needs none of the sums: reserving and confirming compare with the
level behind its lock, and a release or a dispatch takes off a natural number,
whatever it was computed from. This is why overselling stays impossible although
`ReservedSum` fails with dispatches, and why it does not survive `Adjust`, which
looks at `on_hand` alone.

### Transfers and counts

`Warehouse_proof` proves, for all finite sets of transfers, counts and requests,
any warehouses and all quantities:

| Theorem | States |
|---|---|
| `LevelsMatchTheLedger` | `Spec => []LevelsMatch`: types, the ledger explains what is on hand, open transfers what is in transit |
| `DocumentsPostOnce` | `Spec => []PostedAsAgreed` |

**Assumptions.** `QtyAssumption` (transferred and adjusted quantities are
positive), `StockAssumption`, `RowsAssumption` (transfers, counts and requests are
finitely many; no row is both), `NoneAssumption`.

**Argument.** `LedgerAgrees` is inductive with the types alone: `Post` adds to the
level of a warehouse and to the ledger of one document, hence to its sum
(`PostAfter`). It therefore holds whatever overlaps, and twice posted is twice
accounted for. The other properties relate levels to the *statuses* of documents,
and are stated for one request at a time. For them `IInv` adds
- `Alone`: the only open request is the only one, and what it has read is what
  there is; a request begins when fewer than `workers` are open (`NoneOpen`);
- `StatusesFit`: nothing is received before RECEIVED, and a completed count has the
  flag of its own variance, so that RECONCILED implies the approval;
- `RowsFit`, `RequestFits`, which hold whatever overlaps: the rows of open requests
  are there, and a count that was read as counted stays counted, so that the
  variance posted is a number.

`TransferDone` and `CountDone` say what a second step must establish of its one
document; each operation is an instance.

### Receipts and returns

`Receiving_proof` proves, for any receipts, all finite sets of receipt lines,
returns and requests, all quantities and every order of the lines:

| Theorem | States |
|---|---|
| `ReceiptsAddUp` | `Spec => []StockAddsUp`: types, the ledger explains the stock, the receipt lines the roll-ups of the order |
| `ReturnsAreCharged` | `Spec => []SentIsCharged` |
| `ReturnsAreReceived` | `Spec => []ReturnedWithinReceived` |

**Assumptions.** `QtyAssumption` (quantities are positive), `ConfirmedAssumption`,
`RowsAssumption` (receipt lines, returns and requests are finitely many),
`PositionAssumption` (no two lines of a return come at the same place),
`ClientsAssumption`, `NoneAssumption` (`None` is no row and no request).

**Argument.** `StockIsLedger` is inductive with the types, whatever overlaps; that
the level stays a natural number is the one hard part of it. A dispatch takes what
its lines take one after the other: `StockOutBound` looks at the last line that
takes anything (`LastLine`), which takes at most what the others left. For the
rest, stated for one request at a time, `IInv` adds
- `Alone`, as in `Warehouse_proof`: a disposition has read the receipt line and the
  order line as they are, a request on a return its status. Receipts and returns
  are created meanwhile, in one step, and disturb neither (`RequestsStay`);
- `RowsFit`: what is returned of a receipt line was inspected. Hence nothing is
  returned of a line when its inspection compares damaged and rejected goods with
  the cap one by one, and their sum, a part of the quantity received, fits
  (`NothingReturned`). This is where `Clients = {}` is needed: of goods that are
  returned before their inspection the two comparisons do not bound the sum;
- `RequestFits`, which holds whatever overlaps: the rows of open requests are there
  (`Kept`), and a split adds up to what was received.

### Only model-checked

`RequestsEnd`: liveness under fairness is out of the prover's reach. The other 39
properties of the runs are stated by the theorems above.

## 7. What is not modelled

- **Purchase return receipts.** None can come about (section 5).
- **Procurement requests, creation of RFQs** (`routers/procurement.py`,
  `routers/rfq.py`): they only insert rows, in the status they are born with; no
  endpoint approves a request or collects its lines in an RFQ.
- **Digits.** Decimals are naturals or exact fractions; that a factor and its
  inverse, rounded to 28 digits, may miss one by the last is not modelled.
- **Within modelled parts**: the credit gates on LPO receipt and on delivery and
  the manual re-evaluation of a client; creation of stock levels by a movement;
  lines of a transfer that share a level; supplier invitations and comparison of
  quotes; `update_grn`; landed cost, which divides sums over receipt lines;
  brands, identifiers and supplier links of products, whose rows have nothing to
  check against; the dry run of the messaging services.
- **Suppliers and clients**: single-row edits that other parts read. A client
  with invoices beyond DRAFT is not deleted; the check is unlocked and the
  deletion only hides the client.
- **Tenancy and authentication**: every query filters on the workspace; a model
  has one.
- **Audit log, PDF, providers, frontend, migrations, scripts.** Constraints that
  migrations create (unique numbers, revisions, keys) are part of the models.

## 8. Plan

The parts that move goods or money are modelled; what is left, in this order:

1. A composition of `Sourcing`, `Ordering`, `Receiving` and `Payables` along one
   order line, in place of the environment actions `Accept` and `Amend` of
   `Payables` and the receipts of `Ordering`.
2. The credit gates on LPO receipt and delivery, which need `Receivables` and
   `Fulfilment` in one state.
