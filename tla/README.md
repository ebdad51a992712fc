# Verification of supertrade

TLA+ models of the supertrade back end, TLC runs that check them on small
instances, and TLAPS proofs of what matters most for instances of any size.

    tlc -workers 2 -config MCOutbox.cfg MCOutbox      # any run of the table below
    tlapm Stock_proofs.tla                            # any *_proofs module, and SumLemmas

`PROJECT.json` lists the components, the runs with the properties each checks,
one mutant of the code per property, the source lines behind every definition,
the hazards and the theorems.

## 1. The system

supertrade is a Go monorepo for a chain of grocery stores. Each `cmd/<service>`
is a process around `internal/<service>`; most keep their state in one shared
PostgreSQL, they call each other over HTTP (Dapr sidecars) and pass events
over a Dapr pub/sub topic (`sale.paid`, `member.*`). Handlers are goroutines;
several instances of a service may run. All transactions are READ COMMITTED,
so what a handler read before its transaction, or without a row lock in it,
may be stale when it writes.

    till ──HTTP──> pos gateway ──> pos ──tx: order, lines, payments + outbox row──> PostgreSQL
                                                     │
                       Runner of pos, Runner of member: poll, publish, mark
                                                     │ sale.paid, at least once, in any order
                              ┌──────────────────────┴────────────────────┐
                         inventory                                     member
               stock_levels, stock_moves                members, point and account ledgers
                              ▲                                           ▲
                  snapshot imports                       points, stored value, card status

### Inventory of the components

| component | state it keeps | operations | what is hard | what makes it correct |
|---|---|---|---|---|
| transactional outbox (`pkg/outbox`) | `outbox_events` (namespaced key, published, created_at) | `Enqueue` in a caller's transaction; `Runner`: poll, publish, mark | crash or failure between publish and mark; two Runners on one table; a row that can never be published | row exists iff the business row does; marked only when sent; nothing is left behind |
| pos, create (`pos/service/ids.go`, `sales.go`) | per process: day and sequence counter; `sales_orders` with unique number and unique op_id | `Create` with `insertOrder` and its retries | a till repeats a sale; instances whose counters disagree; restart; midnight | one order per op_id and per number; one answer per op_id |
| pos, refund and override (`sales.go`) | order status and total, per line quantity returned, payments, outbox row | `Refund` (whole, partial), `PriceOverride` | two clerks on one order; the same refund twice; rounding over payments | nothing returned twice; events, lines, status and payments agree |
| pos, archive import (`archive.go`) | the same tables | upsert from the replay desk | replays of what was sold here | an import neither loses nor doubles a sale |
| inventory (`subscribe.go`, `import.go`) | `stock_levels` (qty, server_version), `stock_moves` (unique per event and product) | `ApplySalePaid`, `ImportStock` | duplicates in parallel, crossing row locks, failures half way, an import between deliveries | an event counts once and as a whole; level and ledger are one |
| member (`points.go`, `account.go`, `subscribe.go`, `member.go`) | member row (accumulated, used, count, balance, status), two ledgers with unique op_id, outbox rows | `OnSalePaid`, `GrantPoints`, `DeductPoints`, `Recharge`, `Refund`, `UpdateStatus`, `OpenCard`, `Delete`, profile | the member is read before the transaction; errors are answered 200 | every op_id counts once; columns are ledgers; frozen cards do not move |
| pos gateway | none | forwards, recomputes amounts | partial failure of a chain of calls | the amount asked equals the amount booked |
| stocktake | header (plan, counting, submitted, approved), lines, line operations; a cache of scopes | create, add/update/delete line, submit, approve, delete | edits that race submit and approve; accumulating counts; events | no line changes after submit; an approval is final and published once |
| cash reconciliation | payment records, batches, differences, receipts, period balances | sync, register, verify, match, apply/recompute/freeze/complete a batch | a batch recomputed while a person resolves a difference; two batches over one period | a human decision is never overwritten; a closed period stays closed; openings chain to closings |
| sales aggregation | per branch and source: job, credential, collected days | reconcile jobs, enable/disable, collect | steps of `Enable` over three systems, each may fail | the jobs that run are those of enabled branches |
| cube sync | a watermark file per scope | export since the watermark, import, move the watermark | failure between import and watermark; lag of the source | no row is skipped |
| cube source, cube router | cache of a branch's source, 60 s | resolve, invalidate, CRUD | stale answers, an error during refresh | a branch with a source never reads the local tables |
| settlement auditor | approval, signals, verdict, pay states | submit, audit pipeline, retry, rescan, pay, revert | two runs of the pipeline on one approval; command results out of order | one verdict takes effect; paid is never unpaid by a replay |
| fresh meat | positions, openings, cut chains with their daily snapshots | counter load, stocktake, openings, cost runs, split of a day | facts that change while the chain is recomputed; rounded shares | snapshots are what the facts give; weight and cost are conserved |
| sales insight | weather quota counter | read-only analysis; quota | concurrent takers of the last unit; new day | the quota is not exceeded |
| pricing | price lists, promotions | CRUD, batch reads | overlapping promotions | one effective price |
| notification gateway | clients by user, send queues | register, fan out, unregister, shut down | slow clients, full channels, close while sending | no send on a closed queue, no blocked hub; what a connected client misses is in the log |
| bank accounts | accounts, one default per supplier | CRUD, set default | two defaults at once | at most one default |
| catalog, master data | dictionaries | CRUD, archive import | none beyond single statements | keys are unique |
| procurement, transaction, daily sales | none of their own | reads and sums | none | sums are right |
| cube clients, archive DTOs and routes, event bus adapter, bootstrap, middleware, entry points | none | I/O and wiring | none | – |

bi-gateway, erp-connector and fresh-produce are placeholders.

`PROJECT.json` "hazards" lists what of this is hard to test, line by line, for
the components that are modelled.

## 2. The modules

| module | models | state and actions ↔ code |
|---|---|---|
| `Outbox` | `pkg/outbox` and its two users | `open` are transactions between `Enqueue` and commit; `table`/`published` the rows; per service a Runner with `Poll` (`pending`), `PublishOK`/`PublishFail` (`deliver`), `Mark`, `Crash`. `RowID` is the namespaced key. |
| `SaleFlow` | a sale from pos to stock | `Outbox` composed with `StockLedger`: `Deliver` gives the ledger a sale that the broker has accepted. Inventory is taken at its abstract word, which `InventoryStock` keeps |
| `StockLedger` | what inventory promises (abstract) | `applied` events and `stock`; `Apply` one event at once, `Overwrite` by an import |
| `SaleLines` | `aggregateSaleLines` | a fold over the lines; makes the `Groups` of the runs and is compared with its definition over all lists of up to four lines |
| `InventoryStock` | `ApplySalePaid`, its handler, `writeStockBatch` | per handler `Lock` (seed and `FOR UPDATE`), `Write` (insert on conflict do nothing), `Commit`, `Ack`; `Fail`, `DeadlockVictim`; `Publish`, `Receive`, `Reject` are the bus; `ImportBatch` |
| `SaleCreate` | `Create`, `insertOrder`, `saleIDGen` | `gen` per instance; per handler `Replay` (fast path), `Begin`, `TakeID`, `Insert` (waits for, then gives way to, a clashing row), `Commit`, `Exhausted`; `CommitUnanswered`, `Fail`, `Restart`, `Midnight` |
| `SaleRefund` | `Refund`, `PriceOverride` on one order | per clerk one transaction cut at the statements others can see or wait for: `BeginRefund`, `ReadLines` (the lines are read, everything is computed), `Pay` (unique ids), `UpdateLine` (conditional update under the row lock), `CommitRefund`; `OverrideLine`, `OverrideSum`, `OverrideCommit`; `FailTx` |
| `Member` | points, stored value, status of one member | per worker a read before the transaction (`Receive`, `Request`, `UpdateStatus`) and the transaction (`ApplySale`, `ApplyReturn`, `ChangePoints`, `ChangeAccount`, `WriteStatus`), `Answer`, `HandlerError`, `Crash` |
| `Stocktake` | headers, lines, the trail of line operations, plan items, the branch's default | a look (`LookAdd`, `LookHeader`, `LookLine`) and a write by id (`InsertLine`, `UpdateLine`, `DeleteLine`, `SumUp`/`Submit`, `Approve`, `EraseChildren`/`DeleteHeader`, `AddPlanItems`, `SetDefault`). An operation is stamped (`Stamps`, `op_at`) between the two, so the trail's order need not be that of the commits |
| `Approval` | the settlement auditor from submission to booking | `CheckPending`, `Create` are the submission; `Start`, `Fetch`, `Clear`, `Insert`, `Judge`, `Publish`, `FinishPass` the audit goroutine (`runAudit`), which rewrites its rows by a delete and single inserts, and `FetchBlind`, `ClearFails`, `InsertFails`, `Fail` what goes wrong in it; `WecomOpens`, `PeopleDecide` the form; `OnCommandResult`, `OnStatusChanged`/`Book` the subscriber; `Rescan`, `Retry`, `AdminApprove`, `DeleteApproval`; `LookInit`/`ApplyInit`, `RevertInit` the ledger of paid settlements |
| `MonthlyFlow` | the configured flow for payments without settlements | `state`, the stored `items`, the monthly table `tally` with its once-only backfill (`filled`); the audit counts the other bills of a month while a backfill writes statuses it read before |
| `ReconPeriod` | batches of cash reconciliation, openings, locks | every request a look and a commit: `LookApply`/`ApplyBatch`, `LookRecompute`/`ReadStaleRows`/`RecomputeBatch`, `FreezeBatch`, `CompleteBatch`; `ActDiff` a person; `Import`, `CreateReceipt`, `RecordCashCount`, `CreateOpenings`, `VoidOpening` the writes a frozen period must keep out |
| `ReconEngine` | `engine.Run` | pure operators: sorting, pairing exactly or with fees in a window, the differences; the two passes are recursive functions over the takings |
| `MeatChain` | the daily cost chain of fresh meat | facts (`opening`, `loads`, `counted`) and snapshots `snap` derived from them; `LookLoad`…`CounterLoad`, `ChangeRow`, `SaveOpening`, `TakeStock`, `LookMaterialize` are requests, `StartRound`, `JobRead`, `JobWrite`, `EndRound` the background job |
| `CutSplit` | `cut_split_algo.go` | pure operators: what pigs should have given, what they gave, the two rounds of redistribution, the spreading of the cost; whole numbers, a quotient rounded to the next |
| `DailyCollect` | `salesagg/collect`, `salesdaily` Save | `row`, `auth` (the service account), `jobs`; `Enable*`, `Allow`, `Create`, `ResetSecret`, `Put`, `CallJob` and `Disable*` are the two sagas, `Reconcile*` the hourly round, `Bearer`, `ReadTotals`, `ReadDetails`, `Save` a collection |
| `CubeSync` | one scope of `cubesync` | `Begin`, `ReadPage`, `Import`, `SetMark`, `MarkFullSync` are a round; `Change`, `Show`, `Withdraw` the source; `Restart`, `LoseFile`, `Fail` |
| `NotifyHub` | the hub and its clients | `Take*` are the branches of the select, `LookClosed`, `PutEvent`, `EndSend` one `Send`; an event is its number among those published (`Publish`), which a full channel refuses (`Fanout`) and `WritePump` drops if it cannot be encoded (`Write`); `ReadPump`, `Write`, `SendWelcome` the goroutines of a client |
| `MC*` | – | instances for TLC. `MCPos` runs `SaleCreate` and `SaleRefund`, `MCApproval` runs `Approval` and `MonthlyFlow` side by side: they write different rows, so a behaviour is one of the first or of the second and the product is not explored. `MCReconPeriod` evaluates `ReconEngine`, and `MCMeatChain` evaluates `CutSplit`, on all their small inputs in the initial state |
| `SumLemmas` | – | facts about sums over finite sets and sequences, for the ledgers; recursion, least numbers, rounded quotients |
| `Cash_proofs` | – | proofs about `SaleCreate`, `SaleRefund`, `ReconPeriod`, `ReconEngine` |
| `Delivery_proofs` | – | about `Outbox`, `SaleFlow`, `NotifyHub` |
| `Stock_proofs` | – | about `InventoryStock`, its refinement of `StockLedger`, `MeatChain` and `CutSplit` |
| `Approval_proofs` | – | about `Approval`, `MonthlyFlow` |
| `Cube_proofs` | – | about `DailyCollect`, `CubeSync` |
| `Member_proofs`, `Stocktake_proofs` | – | about `Member`, about `Stocktake` |

What is abstracted everywhere: names, prices of products, exchange rates,
discounts and audit columns; an event is its op_id. Operators named `X_Y`
after a definition `X`, with a comment that begins "Mutant", are variants of
`X` with a bug; no specification uses them. They show that a property would
notice the bug.

A transaction is one step only where nothing it read can change under it and
its locks are taken in one order; elsewhere it is cut at every statement whose
effect or wait another transaction can observe. A handler that looks first and
writes later, the commonest shape in this code, is two steps.

Per module, beyond what its header says:

* `Approval`: `Retry` and `DeleteApproval` look and write in one step; the rows of an approval are
  a set, although two runs of its audit may insert one twice (the booking then fails, which is a `GiveUp`);
  "cancelled" stands for `human_rejected` too. What the checks of the audit find is a
  free choice between pass and reject, so the theorems hold for every audit.
* `MonthlyFlow`: one item type and one item per bill; publication and status are one
  step; a bill that is sent again has a new form; the configured flow is one of none, auto-pass and logic.
* `ReconPeriod`: the engine is reduced to one difference a day; the legacy status
  "frozen" of batches is left out. The transaction of a recompute is cut where it has read the
  rows that no longer hold: it locks those it upserts, and none of these.
* `MeatChain`: a day always has its one snapshot row written, the opening's
  transaction is one step, `is_complete` is not told apart, the window of a closing is today
  only, and later sales trigger nothing.
* `DailyCollect`: one branch and one day; the three queries of `ReadDetails` are one reading.
* `CubeSync`: one scope with overwrite; a chunk is one row; a round that fails or is cut off is over at
  once, although an import that timed out may still run at the importer; a full round comes due, so
  `WatermarkMaxAgeDays` is not 0.
* `NotifyHub`: a connection is open or gone; heartbeats and deadlines are left out.

## 3. The runs

| run | instance | shows |
|---|---|---|
| `outbox` | two services, two Runners, three transactions, an op_id both use, a row refused for ever, two faults; two of the operations are sales, which the ledger applies | stock moves only for committed sales; every acceptable row is published, and its sale deducted, in the end |
| `stock` | a sale with a product on two lines, a refund with its products in the other order, an empty payload; two deliveries at a time, one fault, one import | `InventoryStock` implements `StockLedger`, deadlocks and duplicates included; every valid event is applied in the end |
| `pos` | two handlers on two instances, three op_ids submitted any number of times, two attempts at a number, two days, two faults; and two clerks, four refunds (whole, partial, overlapping, a line named twice), two overrides | one order per op_id and number, one answer per op_id; nothing returned twice; events = lines, each op once; returned is complete; payments add up to the event to the cent |
| `member` | two workers; two sales and a return, a grant, a deduction, a recharge, a payout, three status changes, each event given to two workers at once and each request repeated at will, two faults; a behaviour leaves out the grant, or the recharge and the payout, so that the rest can meet in every order | columns = ledgers, each op_id once; books of operations that do not overlap are exact; the status is the last change; what was acknowledged was credited or logged; a frozen card does not move |
| `stocktake` | two workers, one header, five requests out of thirteen | the last operation by `op_at` explains every line, or one it overtook between stamp and commit does; submit freezes the total; an approved header changes, and an orphan appears, only by a request that had looked before |
| `approval` | two approvals that want one settlement, two threads, two commands, two rare events (failure, retry, deletion, override, init, revert; a second run beside the first counts for two); and, under a flow that starts as the logic one, three bills of a month, one from before the table, two workers, one odd event | booked was passed by people; booked stays paid; two forms for one settlement need a race, a second run, or an audit that was rewriting its rows; one bill a month |
| `monthly_flow` | the payments alone | a bill the configured condition refuses is passed (violation) |
| `recon_period` | batches of one and of two days, two requests at a time, three writes besides; up to two takings and three lines for the engine | a day is in one frozen batch; completed books stay true; handled differences stay handled, but for one that is handled between a recompute's read and its delete; the engine loses no line and no match on any of these inputs |
| `fresh_meat` | three days, two requests at a time, two in all, weights 1 and 3, one fault, the job; three cuts for the split | when all is quiet every snapshot is what the facts give; the counter is what the rows say; no load before the start of the chain; the split of three cuts keeps weight and cost on all inputs |
| `daily_collect` | two requests at a time, three in all, one fault, one sale, two master keys | an enabled branch can sign in; a day is one reading; the jobs follow the status in the end |
| `cube_sync` | two rows, a page of one, two changes, one fault, rounds by timer and by hand, four ticks | what the watermark passed is in the target; no row goes back; full rounds heal |
| `notify` | two clients of one tenant in two branches, neither an administrator, channels and buffers of one place, two events, each for one branch or a body that is no JSON for everybody | a gap in what a kept client gets is an event the broadcast channel refused or that cannot be encoded, and both are logged; a panic needs an overflow; who is gone is forgotten |

Bounds, and why they are enough for what is asked. Two handlers, Runners, clerks,
threads or workers are the fewest that interleave, and every property relates
at most two of them. Two products make crossing locks and half-applied sales;
two lines make partial refunds and completion; 3 units for 2.00 make shares
that do not come out even. A second copy of an event is a duplicate, and a third
behaves as the second. One or two faults put a failure at every point of every
operation. Two days make one midnight with stragglers on both sides; two
attempts make a retry and its exhaustion (the code has 20). Batches of
one and two days overlap in one and leave one apart. Three days of the meat chain
have a first, one that carries on, and today. A page of one row makes every pair of rows
two pages; four ticks take the clock past an overlap. Buffers of one place
overflow with the second event. A branch, and everybody, are the two answers `target` can give to a pair of
clients; events for one user, and administrators, give no third and are left to the proof. `MaxCopies`, `MaxFaults`, `MaxImports`,
`MaxSends`, `MaxRequests`, `MaxWrites`, `MaxCommands`, `MaxRare`, `MaxOdd`,
`MaxMoves`, `MaxTime`, `MaxKeys`, `MaxEvents`, `MaxSeq`, `MaxFailures`, `LastDay`, `FinalDay`
and `MaxIDAttempts` are the bounds; what is proved holds for all values of them.

`CHECK_DEADLOCK FALSE` stands where a run may really come to rest because its
finite supply of requests, events or faults is used up: in all but `outbox` and
`pos`. Symmetry is used only where the members of a set are interchangeable in
the instance, and in no run that checks a temporal property other than an action
property.

### Where "unless" stands in a property

Several properties except what the code does get wrong, by naming the race it
takes: `OneFormUnlessLoose` (two submissions that looked at the same time, a look while an audit was rewriting
the rows it looked for or had lost one, or a second run), `BookedWasPassed` (a list read with an error, or while
another run of the audit was rewriting it), `DecisionsAreKept` (a decision between the read and the delete of a
recompute), `AuditTrail` (operations that overlap), `GapsAreLogged` (what the log names),
`ApprovedOnlyByStale` and `OrphansOnlyByOverlap` (a request that had looked before), `FinalUnlessRaced`
(a recompute that read the batch before it was completed), `EnabledIsUsable` (overlapping
requests, or a failure of the second read halfway), `ExactAlone` (operations that do not overlap). They
say two things: that the code is right without the race, and which race it takes.
The histories they speak of (`raced`, `overlap`, `loose`, …) are set by the
steps that race and read by no guard.

So a property of this kind does not see the race itself go wrong, which is what the code does today. That is
the case for the status after two parallel refunds (`ReturnedMeansAll` speaks of `returned` only), parallel
changes of an account (`ExactAlone`), the freezing of a card in between (`FrozenDoesNotMove`), writes to
a period that is being frozen or completed (`OneBatchADay`, `BooksStayTrue`, `FinalUnlessRaced`), a load that lands before a start that moves (`NoLoadBeforeStart`), an
older reading of a day saved over a newer one (`DayIsOneReading`), and, in the hub, an overflow of the
unregister channel or a leaving that is served before the joining (`PanicOnlyByOverflow`, `GoneIsForgotten`).

### Disagreements with the repository's own words

`monthly_flow` is a finding in `PROJECT.json`: `buildFlowVerdict` never looks at
`Satisfied`, though the file's header says that a condition that is not met is
a rejection by the machine. Met besides while modelling, and kept in the models as the code does it:

| said | done |
|---|---|
| the Runner publishes the unpublished rows (`outbox.go:28`) | rows that are always refused stay oldest; a batch of them blocks the rest for ever |
| losing an event cannot be made good (`outbox.go:21`) | an error of `OnSalePaid` is answered 200 and the event is gone |
| every change of a snapshot raises its version (`model/stock.go:82`) | an import changes `qty` only |
| all returned means `returned` (`sales.go:674`) | two refunds of different lines in parallel leave `part_returned` |
| the ledger holds every change of the balance (`account.go:5`) | two recharges in parallel: one is lost in the balance |
| a settlement is in one approval at a time (`pending_approval.go:17`, `pipeline.go:173`) | two submissions that look at the same time both go through; so does one that looks while the audit of the other is rewriting its rows, or after an insert was lost (`pipeline.go:540`) |
| the monthly table follows the bill's status (header of `countHistoricalMonthlyItems`) | a machine rejection or a failure does not write it; the row goes on counting |
| a completed batch does not change (`period.go:14`) | a recompute that read it as auditing writes afterwards |
| a handled difference that no longer holds is recorded before it is deleted, the chain of audits does not break (`batches.go:471`) | one that is handled after a recompute has read it, and before it deletes it, goes without record |
| an opening may be adjusted again (`opening.go:229`) | on the same day the unique index refuses it |
| a warning that the other cuts have nothing left to give (`cut_split_algo.go`, the note of `redistributeSplitWeights`) | a residue of the rounded quotients raises it too, though they have |
| the watermark passes no row by (`syncer.go`) | a row the importer skips is passed; only a full refresh brings it back |
| `EffectiveBranches` of a client (`client.go:87`) | an empty tenant passes `matchStocktake` |

Behaviour that contradicts no text: events may reach the bus out of order, and a
return before its sale finds no points to take back; overrides of two lines at
once leave a stale total, and a refund after an override pays another amount
than its event carries; a straggler after midnight sets the counter back
(numbers stay unique); parallel deductions take points below zero; a repeated
payout is refused once the balance is used; `DeleteApproval` leaves the items
of a bill, so that the branch's first backfill brings its row back; a
settlement an administrator booked is skipped by the approval that passes it,
and unpaid again when the init is reverted; `Enable` that fails at its second
read leaves the account disabled.

## 4. Fairness

* `Outbox`: weak fairness of each Runner's step – the ticker of `Start` fires
  for ever and `RunOnce` goes through its batch – and of `Commit`, since a
  transaction that is begun ends. Nothing makes a client begin one. The
  faults are bounded, which says that a row is not refused for ever unless it
  is in `Poison`.
* `SaleFlow` adds weak fairness of `Deliver`: an event the broker holds is applied in the end, which
  is what `InventoryStock` shows under its own fairness (`EventuallyApplied`).
* `InventoryStock`: weak fairness of a handler that runs; strong fairness of
  `Lock` per product, because PostgreSQL queues the transactions that wait for
  a row; strong fairness of `Receive` per event, because the broker offers a
  copy until it is acknowledged.
* `DailyCollect`: weak fairness of a request that is served and of the
  reconciler, whose ticker fires for ever. Nothing makes a client come back, so
  an `Enable` that failed may stay as it is: only what the reconciler repairs
  is claimed.
* `CubeSync`: the scheduler calls back, a round that began goes on, a change
  shows at the source, and time passes (`GrowOld`), which makes a full round
  due. Changes and faults are bounded.
* `NotifyHub`: the hub's goroutine and those of each client go on. The select is
  free to choose, so nothing is assumed of a single branch of it.
* The others: none, and no liveness is claimed. A client, a person or WeCom need not come back,
  and attempts may be used up.

## 5. The proofs

Safety is proved for every value of the constants that the named assumption of
a module allows: any number of clients, requests, workers, days, rows, copies
and faults. Every theorem has the same form. An inductive invariant, which TLC
agreed with first, holds initially and is kept by each action (one lemma per
action); the property follows from it. Of the 40 properties that the passing runs
check, 35 are theorems as well: all but the five temporal ones under fairness. Those that speak of one step (`[][A]_vars`) are
proved of a step from the invariant.

**`SumLemmas`.** `SumFunctionOnSet` is a fold, a recursive function over the
subsets of a set. `SumEmpty`, `SumAdd`, `SumRemove`, `SumChange`, `SumDrop`, `SumCongruence`,
`SumMonotone` and, for sequences, `SumAppend` and `TotalAppend` say how a sum moves
with one summand; they rest on the existence of the fold and on its not
depending on the order in which elements are chosen, shown by an induction over a set of numbers
(`SetInduction`, from `WFMin`). `SumPlus` and `SumSplit` add sums up and take them apart, `SumRounded`
says by how much a sum of rounded quotients is off. `LeastNat` and `Recursion` (a function
defined from each number to the next exists) are what the proofs use in place of
an induction over data.

**`Delivery_proofs`.**

* `Outbox` (`OutboxAssumption`: finitely many operations, each a service and an
  op_id). `IInv` adds to the properties that a row that was sent, or is in a Runner's
  hands, is committed, and that a row about to be marked has been sent; without
  these the step that sends, or marks, could name a row nobody committed.
  `RowStandsWithBusiness`, `NoEventWithoutBusiness`, `MarkedOnlyWhenSent`, `KeysAreApart`.
* `SaleFlow` (and `FlowAssumption`: sales are operations). The steps of the composition are
  steps of the outbox or leave it alone, so its invariant carries over; what is applied was sent,
  and what was sent is committed: `StockIsSold`.
* `NotifyHub` (`HubAssumption`: channels and buffers have a place, clients have a tenant,
  a branch and a user). `PanicNeedsOverflow`: the only step that
  closes a client the hub holds is the overflow of the unregister channel (`PanicInv`).
  `LossesAreLogged` follows an event from its publication, for any sizes, events and clients. It is refused,
  in the broadcast channel, or was taken up (`Queued`); what the hub took up for a client and did not
  write is in the client's buffer, in the hub's hand on the way to it, or cannot be encoded, unless the client
  is on its way out (`Kept`). Numbers in channel, hand and buffer ascend (`Ordered`), so nothing comes twice or
  overtakes; and what a buffer holds was meant for its client (`Meant`). While the hub sends nobody is
  removed (`SendingHolds`).

**`Stock_proofs`.**

* `InventoryStock` (`InventoryAssumption`: the groups of an event have one product
  each, which `aggregateSaleLines` makes so and the run checks). A handler decides
  under the row locks it holds, so `IInv` says per handler which rows it holds, that
  what it read is still the level, and that the moves it has inserted are exactly
  those of its event that are not recorded yet, at the levels of now (`PendFits`).
  `EventAppliedOnce`, `NeverHalf`, `LevelAgrees`, `RowsChain`, `NothingLost`; and
  `RefinesLedger`: a commit is one `Apply` of `StockLedger` or, for a duplicate, a
  stutter; an import is `Overwrite`; every other step stutters.
* `MeatChain` (`MeatAssumption`: weights of requests are positive, `Net` is any number a day).
  That every day is fresh when all is quiet (`RestIsFresh`) is kept by no step: a request
  changes a fact, and no day after it follows from it for a while. `MeatInv` says that
  either a round from the start of the chain is still to come – triggered, pending, in the hands of a
  request that will trigger it, or missed by a failure the property excepts – or each day follows from the
  facts and from the day before, or the job has that day still before itself. A request that
  writes while the job works is why the trigger must be kept as pending. That days which
  follow from each other are *the* chain of the facts is an induction over the days (`RowsAreChain`), and
  that there is such a chain is `Recursion`. `CounterIsTheRows`: a load, a correction and a
  deletion change one summand of the sum over days and numbers, and a new start of the
  chain drops the days before it (`SumDrop`). `NoneBeforeStart`.
* `CutSplit` (`CutAssumption`: finitely many cuts, pigs are weighed, and what is counted at the
  counter is part of what is left). `DaySplitIsKept`, and with it `SplitAlwaysKept`, for any
  cuts, weights, pigs and costs. Each share is a quotient rounded to half a unit, so a round
  over the cuts is off by half a unit per cut (`OneRound`, from `SumRounded`). That
  the two rounds together are off by no more than one round is not the sum of the two
  errors: when something is left for the second round, the first has either taken all its pool
  could give, exactly, or the second moves the rounding of the first (`SplitArithmetic`). A pig gives no
  more than it weighs because the largest cut takes the rest, and the day's pigs
  follow by an induction over subsets (`Fits`).

**`Cash_proofs`.**

* `SaleCreate` (`CreateAssumption`). Uniqueness does not rest on the counters, which are
  only guesses, but on `insertOrder`: `IInv` says that an inserted, uncommitted row clashes
  with no committed and no other inserted row. `CreateOnce`, `NumbersAreUnique`, `AnswersAgree`
  and together `OrdersUnique`. `RetriesAscend` needs `FirstDay` besides: while
  day 1 lasts, a request's last number is at most its instance's counter.
* `SaleRefund` (`SaleAssumption`: an order has lines and was paid what they cost). What a
  refund read before its first lock may be stale at every later step. What it has already
  written was checked against the row it has held since (`ClerkOK`), two requests of one
  op_id never both hold their key (`KeysApart`), and its payments were built for the
  total of its event (`PaidAsBuilt`). Returned quantities only grow under a row lock, so
  a refund that found the order complete is right at its commit. `NothingReturnedTwice`,
  `EventsAreTheReturns` (the sums over events and lines move together),
  `ReturnedIsComplete`, `PaymentsAddUp`: the shares add up to the total for any number of
  payments and any amounts, because the last takes the rest.
* `ReconPeriod` (`ReconAssumption`: spans within the days, one count a day). A request
  reads, and commits in a later step what follows from it. `ReadsHold`: what it read still
  holds unless another request wrote to one of its days in between, and then it is marked
  as stale; `RequestsStand` and `AppliesOnce` say what the request may be at, `OneLockADay` who has a period.
  `OneFrozenBatchADay`, `BooksAreTrue`, `CompletedIsFinal`, `HandledStays`.
* `ReconEngine` (`EngineAssumption`: takings are summed up by day and pay way, lines
  have ids, both are finitely many). `EnginePairsAll`, and with it `ReconRunLosesNothing`, for any takings and
  lines. A sorted list exists because the place of a member is one more than the number of those before
  it (`SortedIs`). Each pass is a recursive function over the takings (`Recursion`) that
  adds a result for one of the takings that has none, with a line that was free, and what it has added so far
  is an invariant over the places (`RunAccountsForAll`). `RunMatchesMost`, that first
  come, first served settles as many as any pairing, is an exchange argument:
  takings and lines are in the order of their days and the window is as long for every day, so
  whoever could have an earlier line could also have the later line of someone who comes first
  (`CanSwap`), and a pairing is turned, one of the takings at a time, into the matches without losing a pair
  (`Exchange`). This needs that different amounts are apart by more than twice the tolerance: all takings that
  one line can settle are then of one amount.

**`Member_proofs`** (`MemberAssumption`: op_ids are distinct, quantities positive). The
columns are sums over the ledgers, moved by one row a step (`TotalAppend`):
`ColumnsAreTheLedger`. `WorkersOK` is what a request checked before its transaction and
still uses in it. As long as nothing overlapped (`AloneOK`), one
worker at most is between read and write and what it read is the member;
hence `AloneIsExact`. `StatusIsTheLastChange`, `AcknowledgedWasCredited`, `FrozenBalanceStays`.

**`Stocktake_proofs`** (`StocktakeAssumption`: finitely many line ids). Every look is stamped by
a clock, and so is every operation, some time between its look and its commit. `TimesOK`: operations commit
at distinct times, each after its stamp; `LinesOK`: an id names one line of one header; `HeaderKnown`: a
request that is about to write to a header that is submitted, approved or deleted looked at it before it
was. In the order of the commits the last operation of an id is what the line is (`Explained`), and each
continues from what the line was when it looked (`Continued`). In the order of the stamps, in which the trail is
read, this holds up to operations that were stamped in one order and committed in the other
(`TrailIsAudited`, `TrailExplainsLines`). The total of a header is the sum of its lines when
it was submitted (`TotalIsFrozen`), and `OrphansOverlapped`, `ApprovedStays` name the only way around.

**`Approval_proofs`.**

* `Approval` (`ApprovalAssumption`). That what is booked was passed is not inductive:
  between the decision and the booking lie a thread, a list and a snapshot that
  others change, and the rows of an approval are deleted and inserted one by one. What the rows may still come
  to hold – what is there and what a goroutine has yet to insert (`Held`) – only shrinks once the approval is
  submitted, so every list carried along – by a thread, by a form – covers it (`ListCovers`, `FormCovers`,
  `BookCovers`), unless the list was read while some rows were missing (`misread`): `PaidWasPassed`,
  `PaidStaysPaid`. `OneFormEach`, that a settlement is on one form at a time unless the check of a submission
  could not see the other approval or an approval was taken up again, needs what an approval can be at before
  and after its command is out (`InOrder`: one audit at a time, and no form until it publishes), and that two
  pending approvals that are not loose have no claim – row, list or form – in common (`Apart`).
* `MonthlyFlow` (`FlowAssumption`). A bill's row is in the table before its audit counts,
  and a row that counts stops counting only when its bill goes out. So of two bills audited at
  a time the one that counts later sees the other; a backfill that writes a status it
  read earlier cannot undo this, because of the row that is there already
  (`ReadCounts`). `OnlyOneInForce`.

**`Cube_proofs`.**

* `DailyCollect` (`CollectAssumption`). For as long as no two requests that change the
  credential overlapped and none stopped halfway, `Ready` says of each request, at
  each of its steps, what it has done so far to the row, the account and the secret:
  `EnabledCanCollect`. `ReadSoFar` says of a collection what its two readings are worth
  together: `StoredDayIsOneReading`, for collections that overlap in any way.
* `CubeSync` (`SyncAssumption`: rows are ordered by id, and the overlap is longer than the delay
  after which a change shows; the overlap of `config.go:95` is there for that, but may be
  configured as 0, and then nothing is claimed). `Fits`: a row that a
  round has to carry is in the target, on record as lost, among the rows read, or still
  ahead of the offset. It needs that a change that is not yet shown is later than every
  watermark by then (`ShowsInTime`) and that versions rise with time. `WatermarkIsSafe`, `TargetNeverGoesBack`.

Theorems that name no property of a run (type correctness, `RowStandsWithBusiness`,
`MarkedOnlyWhenSent`, `KeysAreApart`, `NothingLost`, `AnswersAgree` and others) need no run of
their own; the runs keep to what combines them.

### Model-checked only

* Everything temporal under fairness – `SaleReachesStock`, `EventuallyApplied`,
  `JobsFollowStatus`, `TargetHeals`, `GoneIsForgotten` – is out of the prover's reach.
* `SaleLines`: what the fold over the lines of a sale gives for every list is an induction over
  data. Its run compares it with its definition over all lists of up to four lines.
* `UnsatisfiedIsRejected`, the finding, is refuted by its run.

## 6. Not modelled, and why

* The adapters to external systems (cube clients, event bus, HTTP middleware,
  bootstrap): I/O without a protocol of their own; the broker, PostgreSQL, the
  scheduler, auth and WeCom are modelled as their callers use them.
* Read-only services (procurement, transaction, sales insight, reports, the
  stocktake searches, forecasts and analysis of fresh meat) and row-wise CRUD
  (catalog, master data, pricing): no state that several steps could break.
* Of the settlement auditor: the checks of the pipeline (their outcome is
  a free choice), the prompts and texts, the supplier flow, stocktake plans and the cube reports.
* Of fresh meat: pigs, prices, baselines and samples.
* Of cash reconciliation: payments and their registration, attachments, the
  confirmation of a count, the parsing of statements.
* Of pos and member: validation of input (a precondition: requests are
  valid unless a property is about a refusal), 32-bit hashes of payment
  ids (taken as distinct), day sequences above 999999, the archive import, the
  profile, password and permissions of members, `OpenCard`, `Delete`.

The services are about 128,000 lines, of which most is queries, DTOs, routes, prompts, file
parsing and reports. The models take the parts that keep state other requests can disturb.

## 7. Plan

Most important first; done: the delivery (`Outbox`, `SaleFlow`), stock, orders, refunds, members,
stocktakes, approvals and their flow, reconciliation, the meat chain and the split,
collection, sync, the hub.

1. Proofs of what the runs do not ask for but the theorems make possible: that `SaleRefund` and
   `ReconPeriod` implement an abstract order and an abstract ledger of days.
2. The member ledger behind the outbox, as `SaleFlow` has the stock ledger: a sale paid once credits once.
3. `CubeSource`: the resolver's cache; a `Resolve` in flight may write what it
   read before an `Invalidate`.
4. The weather quota, the default account of a supplier, the archive import of pos,
   cards of members.
