----------------------------- MODULE ReconPeriod -----------------------------
(***************************************************************************)
(* internal/cashrecon/service: the reconciliation batches of one branch,   *)
(* from apply over freeze to complete, and the writes a frozen period must *)
(* keep out.                                                               *)
(*                                                                         *)
(* Every request reads first and writes in one transaction afterwards      *)
(* (READ COMMITTED, no locks but those of the rows it writes), so a        *)
(* request is two steps here, a look and a commit, three if its            *)
(* transaction reads again, and requests interleave.  What a transaction   *)
(* writes is seen from its commit on.  Accounts are the cash drawer,       *)
(* whose closing is the count of the last day, and one settlement channel, *)
(* whose closing is opening plus arrivals plus receipts.  The match engine *)
(* is reduced to one difference per day, there if the channel's takings of *)
(* the day are not its arrivals; the engine itself is module ReconEngine.  *)
(* Outflows, fees, adjustments, match rows, batch numbers, attachments and *)
(* the confirmation of a count are left out.                               *)
(***************************************************************************)
EXTENDS Integers, Sequences, FiniteSets, FiniteSetsExt, ReconEngine

CONSTANTS
  Batches, From, To,   \* ids of batches and the days each is for
  FinalDay,
  Flows, FlowDay,      \* lines of bank statements, each of one unit, and their days
  Amounts,             \* amounts of openings and counts
  CountedBefore,       \* counts taken before the first step, per day
  WriteDays,           \* bound: days that get takings, receipts, counts and openings
  Threads,             \* requests at work at one time
  MaxWrites            \* bound: writes other than those of batches

ASSUME ReconAssumption ==
  /\ FinalDay \in Nat \ {0} /\ MaxWrites \in Nat
  /\ From \in [Batches -> 1 .. FinalDay] /\ To \in [Batches -> 1 .. FinalDay]
  /\ \A b \in Batches : From[b] <= To[b] /\ To[b] < FinalDay
  /\ FlowDay \in [Flows -> 1 .. FinalDay]
  /\ Amounts \subseteq Nat /\ WriteDays \subseteq 1 .. FinalDay
  /\ CountedBefore \in [1 .. FinalDay -> SUBSET Amounts]
  /\ \A d \in 1 .. FinalDay : \A x, y \in CountedBefore[d] : x = y   \* the unique index

Days == 1 .. FinalDay
Span(b) == From[b] .. To[b]
Overlap(b, c) == Span(b) \cap Span(c) # {}
Accounts == {"cash", "channel"}

VARIABLES
  takings,    \* what the POS system reports for the channel, per day
  flows,      \* recon_bank_flows
  receipts,   \* recon_other_receipts: their sum per day
  counts,     \* recon_cash_counts: per day a set with the count, or empty
  openings,   \* recon_opening_balances: per account the rows in order of creation
  status,     \* recon_batches.status, "none" before the batch is applied
  cashFlow,   \* recon_cash_flows: per batch the takings pinned by freeze
  diffs,      \* recon_diffs: per batch and day "none", "open" or "handled"
  locks,      \* recon_period_locks: the batches that hold one
  books,      \* recon_period_snapshots: per first day [batch, last, opening, closing]
  dropped,    \* recon_audit_logs "recompute_dropped": pairs of batch and day
  thread,     \* per thread its request and what it has read
  raced,      \* history: days written by a request whose reads were stale
  writes      \* number of writes MaxWrites bounds

facts == <<takings, flows, receipts, counts>>
batchRows == <<status, cashFlow, diffs, locks, books, dropped>>
reconVars == <<facts, openings, batchRows, thread, raced, writes>>

NoTakings == [d \in Days |-> 0]
NoBooks == {}
Idle == [op |-> "idle", days |-> {}, stale |-> FALSE]

(* A branch whose accounts were opened on day 1.                            *)
ReconInit ==
  /\ takings = NoTakings /\ flows = {}
  /\ receipts = [d \in Days |-> 0]
  /\ counts = CountedBefore
  /\ openings = [a \in Accounts |-> <<[day |-> 1, source |-> "manual", amount |-> 1, void |-> FALSE]>>]
  /\ status = [b \in Batches |-> "none"]
  /\ cashFlow = [b \in Batches |-> NoTakings]
  /\ diffs = [b \in Batches |-> [d \in Days |-> "none"]]
  /\ locks = {}
  /\ books = [d \in Days |-> NoBooks]
  /\ dropped = {}
  /\ thread = [w \in Threads |-> Idle]
  /\ raced = {} /\ writes = 0

-----------------------------------------------------------------------------
(* Requests.  A commit makes the reads of others stale if they are about    *)
(* one of the days it writes to.                                            *)

Free(w) == thread[w].op = "idle"
Asked(w, op) == thread[w].op = op
Ask(w, r) == thread' = [thread EXCEPT ![w] = r]
GoAway(w) == thread' = [thread EXCEPT ![w] = Idle] /\ UNCHANGED raced

(* A row another recompute deletes is not found again by its id.            *)
Without(w, u) ==
  IF Asked(w, "drop") /\ Asked(u, "drop") /\ thread[u].batch = thread[w].batch
  THEN [thread[u] EXCEPT !.rows = @ \ thread[w].rows] ELSE thread[u]

Done(w, days) ==
  /\ thread' = [u \in Threads |->
       IF u = w THEN Idle
       ELSE IF thread[u].days \cap days # {} THEN [Without(w, u) EXCEPT !.stale = TRUE]
       ELSE Without(w, u)]
  /\ raced' = IF thread[w].stale THEN raced \union days ELSE raced

Counted == writes < MaxWrites /\ writes' = writes + 1

(* Mutant: only a lock around all of the days counts, not one that overlaps.*)
Locked_Around(days) == \E b \in locks : days \subseteq Span(b)

(* assertNotLocked, assertNotLockedByOthers, assertNotLockedByCompleted.    *)
Locked(days) == \E b \in locks : Span(b) \cap days # {}
LockedByOthers(b) == \E c \in locks \ {b} : Overlap(b, c)
LockedByCompleted(d) == \E b \in locks : d \in Span(b) /\ status[b] = "completed"

-----------------------------------------------------------------------------
(* The takings of a day are reported late or corrected.                     *)
Report(d) ==
  /\ Counted
  /\ takings' = [takings EXCEPT ![d] = @ + 1]
  /\ UNCHANGED <<flows, receipts, counts, openings, batchRows, thread, raced>>

(* Mutant: the lock of a completed period is not looked at.                 *)
LookImport_AnyDay(w, f) ==
  /\ Free(w)
  /\ Ask(w, [op |-> "import", days |-> {FlowDay[f]}, stale |-> FALSE, flow |-> f])
  /\ UNCHANGED <<facts, openings, batchRows, raced, writes>>

(* ImportBankFlows: refused for the days of completed batches only.         *)
LookImport(w, f) ==
  /\ Free(w) /\ ~LockedByCompleted(FlowDay[f])
  /\ Ask(w, [op |-> "import", days |-> {FlowDay[f]}, stale |-> FALSE, flow |-> f])
  /\ UNCHANGED <<facts, openings, batchRows, raced, writes>>

Import(w) ==
  /\ Asked(w, "import") /\ Counted
  /\ flows' = flows \union {thread[w].flow}
  /\ Done(w, thread[w].days)
  /\ UNCHANGED <<takings, receipts, counts, openings, batchRows>>

(* CreateReceipt and RecordCashCount.                                       *)
LookWrite(w, op, d) ==
  /\ Free(w) /\ ~Locked({d})
  /\ Ask(w, [op |-> op, days |-> {d}, stale |-> FALSE])
  /\ UNCHANGED <<facts, openings, batchRows, raced, writes>>

CreateReceipt(w) ==
  /\ Asked(w, "receipt") /\ Counted
  /\ receipts' = [d \in Days |-> IF d \in thread[w].days THEN receipts[d] + 1 ELSE receipts[d]]
  /\ Done(w, thread[w].days)
  /\ UNCHANGED <<takings, flows, counts, openings, batchRows>>

(* A cashier's second count of a day meets the unique index.                *)
RecordCashCount(w) ==
  /\ Asked(w, "count") /\ Counted
  /\ \E d \in thread[w].days : \E c \in Amounts :
       IF counts[d] # {} THEN GoAway(w) /\ UNCHANGED counts
       ELSE counts' = [counts EXCEPT ![d] = {c}] /\ Done(w, {d})
  /\ UNCHANGED <<takings, flows, receipts, openings, batchRows>>

-----------------------------------------------------------------------------
(* Openings.                                                                *)

Rows(a) == 1 .. Len(openings[a])
InForce(a, day) == {i \in Rows(a) : openings[a][i].day <= day /\ ~openings[a][i].void}

(* ResolveOpening: of the rows in force the latest day, then the last one.  *)
Resolves(a, day) == InForce(a, day) # {}
ResolveOpening(a, day) ==
  openings[a][CHOOSE i \in InForce(a, day) :
    \A j \in InForce(a, day) :
      \/ openings[a][j].day < openings[a][i].day
      \/ openings[a][j].day = openings[a][i].day /\ j <= i]

HasKey(a, day, source) == \E i \in Rows(a) : openings[a][i].day = day /\ openings[a][i].source = source

(* writeOpeningTx: the same day's adjust is voided, but the unique index    *)
(* does not look at voided_at, so a key once used is never free again.      *)
SourceOf(a, day) == IF Resolves(a, day) THEN "adjust" ELSE "manual"

CreateOpenings(w) ==
  /\ Asked(w, "opening") /\ Counted
  /\ \E d \in thread[w].days : \E x \in Amounts :
       IF \E a \in Accounts : HasKey(a, d, SourceOf(a, d))
       THEN GoAway(w) /\ UNCHANGED openings
       ELSE /\ openings' = [a \in Accounts |-> Append(openings[a],
                 [day |-> d, source |-> SourceOf(a, d), amount |-> x, void |-> FALSE])]
            /\ Done(w, d .. FinalDay)
  /\ UNCHANGED <<facts, batchRows>>

(* VoidOpening looks at no lock.                                            *)
VoidOpening(w, a, i) ==
  /\ Free(w) /\ Counted
  /\ i \in Rows(a) /\ ~openings[a][i].void
  /\ openings' = [openings EXCEPT ![a][i].void = TRUE]
  /\ Done(w, openings[a][i].day .. FinalDay)
  /\ UNCHANGED <<facts, batchRows>>

-----------------------------------------------------------------------------
(* The engine, and what people have handled in overlapping batches.         *)

Arrived(d) == Cardinality({f \in flows : FlowDay[f] = d})
Unequal(b) == {d \in Span(b) : takings[d] # Arrived(d)}

(* What was handled in any batch that shares a day with this one.           *)
priorDiffStates(b) == {d \in Days : \E c \in Batches : Overlap(b, c) /\ diffs[c][d] = "handled"}

StatusOf(r, d) == IF d \in r.prior THEN "handled" ELSE "open"

(* ApplyBatch.                                                              *)
LookApply(w, b) ==
  /\ Free(w) /\ status[b] = "none" /\ ~Locked(Span(b))
  /\ \A u \in Threads : ~(Asked(u, "apply") /\ thread[u].batch = b)
  /\ Ask(w, [op |-> "apply", days |-> Span(b), stale |-> FALSE, batch |-> b,
             keys |-> Unequal(b), prior |-> priorDiffStates(b)])
  /\ UNCHANGED <<facts, openings, batchRows, raced, writes>>

ApplyBatch(w) ==
  LET r == thread[w] IN
  /\ Asked(w, "apply")
  /\ status' = [status EXCEPT ![r.batch] = "draft"]
  /\ diffs' = [diffs EXCEPT ![r.batch] =
       [d \in Days |-> IF d \in r.keys THEN StatusOf(r, d) ELSE "none"]]
  /\ Done(w, r.days)
  /\ UNCHANGED <<facts, openings, cashFlow, locks, books, dropped, writes>>

(* Mutant: completed batches are recomputed as well.                        *)
redoable_Completed == {"draft", "auditing", "completed"}

(* RecomputeBatch: any batch that is not completed.                         *)
redoable == {"draft", "auditing"}

LookRecompute(w, b) ==
  /\ Free(w) /\ status[b] \in redoable /\ ~LockedByOthers(b)
  /\ Ask(w, [op |-> "recompute", days |-> Span(b), stale |-> FALSE, batch |-> b,
             keys |-> Unequal(b), prior |-> priorDiffStates(b),
             pinned |-> status[b] # "draft", takings |-> takings, rows |-> {}, handled |-> {}])
  /\ UNCHANGED <<facts, openings, batchRows, raced, writes>>

Pinned(b, t) == [d \in Days |-> IF d \in Span(b) THEN t[d] ELSE 0]

(* The rows of these days wait for the commit of a transaction that has     *)
(* upserted them.                                                           *)
RowsLocked(w, b, days) ==
  \E u \in Threads \ {w} : Asked(u, "drop") /\ thread[u].batch = b /\ thread[u].keys \cap days # {}

RowsOf(b) == {d \in Days : diffs[b][d] # "none"}

(* The transaction upserts what the engine found, then reads the rows of    *)
(* the batch that no longer hold (staleRows), and locks none of these.      *)
ReadStaleRows(w) ==
  LET r == thread[w]  rows == RowsOf(r.batch) \ r.keys IN
  /\ Asked(w, "recompute") /\ ~RowsLocked(w, r.batch, r.keys)
  /\ Ask(w, [r EXCEPT !.op = "drop", !.rows = rows,
                      !.handled = {d \in rows : diffs[r.batch][d] = "handled"}])
  /\ UNCHANGED <<facts, openings, batchRows, raced, writes>>

(* Mutant: the upsert writes the status the engine was given.               *)
Upsert_Status(r) ==
  [d \in Days |-> IF d \in r.keys THEN StatusOf(r, d)
                  ELSE IF d \in r.rows THEN "none" ELSE diffs[r.batch][d]]

(* The upsert leaves the status of a row that is there; the rows that were  *)
(* read as no longer holding are deleted, whatever they have become since.  *)
Upsert(r) ==
  [d \in Days |-> IF d \in r.keys /\ diffs[r.batch][d] = "none" THEN StatusOf(r, d)
                  ELSE IF d \in r.rows \ r.keys THEN "none" ELSE diffs[r.batch][d]]

(* The audit log is about those that were read as handled.  Two recomputes  *)
(* that wait for each other's rows are a deadlock, which is a GiveUp.       *)
RecomputeBatch(w) ==
  LET r == thread[w] IN
  /\ Asked(w, "drop") /\ ~RowsLocked(w, r.batch, r.rows)
  /\ cashFlow' = IF r.pinned THEN [cashFlow EXCEPT ![r.batch] = Pinned(r.batch, r.takings)]
                 ELSE cashFlow
  /\ diffs' = [diffs EXCEPT ![r.batch] = Upsert(r)]
  /\ dropped' = dropped \union {<<r.batch, d>> : d \in r.handled}
  /\ Done(w, r.days)
  /\ UNCHANGED <<facts, openings, status, locks, books, writes>>

(* ActDiff: by the id of the row, and if that is deleted meanwhile nothing  *)
(* is updated and no error is seen.                                         *)
ActDiff(w, b, d) ==
  /\ Free(w) /\ Counted
  /\ diffs[b][d] = "open" /\ ~RowsLocked(w, b, {d})
  /\ diffs' = [diffs EXCEPT ![b][d] = "handled"]
  /\ Done(w, {d})
  /\ UNCHANGED <<facts, openings, status, cashFlow, locks, books, dropped>>

-----------------------------------------------------------------------------
(* FreezeBatch: the transaction looks at the locks once more.               *)

LookFreeze(w, b) ==
  /\ Free(w) /\ status[b] = "draft" /\ ~Locked(Span(b))
  /\ \A a \in Accounts : Resolves(a, From[b])
  /\ Ask(w, [op |-> "freeze", days |-> Span(b), stale |-> FALSE, batch |-> b, takings |-> takings])
  /\ UNCHANGED <<facts, openings, batchRows, raced, writes>>

Recheck(w) ==
  /\ Asked(w, "freeze")
  /\ IF Locked(thread[w].days) THEN GoAway(w)
     ELSE Ask(w, [thread[w] EXCEPT !.op = "lock"]) /\ UNCHANGED raced
  /\ UNCHANGED <<facts, openings, batchRows, writes>>

(* Rows pinned before are kept, a lock the batch has is not added again and *)
(* only a draft changes its status.                                         *)
FreezeBatch(w) ==
  LET b == thread[w].batch IN
  /\ Asked(w, "lock")
  /\ cashFlow' = IF b \in locks THEN cashFlow
                 ELSE [cashFlow EXCEPT ![b] = Pinned(b, thread[w].takings)]
  /\ locks' = locks \union {b}
  /\ status' = IF status[b] = "draft" THEN [status EXCEPT ![b] = "auditing"] ELSE status
  /\ Done(w, Span(b))
  /\ UNCHANGED <<facts, openings, diffs, books, dropped, writes>>

-----------------------------------------------------------------------------
(* CompleteBatch.                                                           *)

AmountSum(amount) == MapThenSumSet(LAMBDA d : amount[d], DOMAIN amount)
Inflow(b) == Cardinality({f \in flows : FlowDay[f] \in Span(b)})
             + AmountSum([d \in Span(b) |-> receipts[d]])
CountOf(d) == CHOOSE c \in counts[d] : TRUE

Closing(b, opening) ==
  [a \in Accounts |-> IF a = "cash" THEN CountOf(To[b]) ELSE opening[a] + Inflow(b)]

Figures(b) ==
  LET opening == [a \in Accounts |-> ResolveOpening(a, From[b]).amount] IN
  [batch |-> b, last |-> To[b], opening |-> opening, closing |-> Closing(b, opening)]

LookComplete(w, b) ==
  /\ Free(w) /\ status[b] = "auditing"
  /\ \A a \in Accounts : Resolves(a, From[b])
  /\ counts[To[b]] # {}
  /\ Ask(w, [op |-> "complete", days |-> Span(b), stale |-> FALSE, batch |-> b, figures |-> Figures(b)])
  /\ UNCHANGED <<facts, openings, batchRows, raced, writes>>

(* The closing is carried to the next day, unless there is a carry already. *)
Carry(b, f) ==
  [a \in Accounts |-> IF HasKey(a, To[b] + 1, "carry") THEN openings[a]
     ELSE Append(openings[a], [day |-> To[b] + 1, source |-> "carry", amount |-> f.closing[a], void |-> FALSE])]

CompleteBatch(w) ==
  LET b == thread[w].batch  f == thread[w].figures IN
  /\ Asked(w, "complete")
  /\ books' = [books EXCEPT ![From[b]] = {f}]
  /\ openings' = Carry(b, f)
  /\ status' = [status EXCEPT ![b] = "completed"]
  /\ Done(w, From[b] .. FinalDay)
  /\ UNCHANGED <<facts, cashFlow, diffs, locks, dropped, writes>>

-----------------------------------------------------------------------------
(* A request ends without a write: an error, or the process stops.          *)
GiveUp(w) ==
  /\ ~Free(w) /\ GoAway(w)
  /\ UNCHANGED <<facts, openings, batchRows, writes>>

ReconNext ==
  \/ \E d \in WriteDays : Report(d)
  \/ \E w \in Threads :
       \/ Import(w) \/ CreateReceipt(w) \/ RecordCashCount(w) \/ CreateOpenings(w)
       \/ ApplyBatch(w) \/ ReadStaleRows(w) \/ RecomputeBatch(w) \/ Recheck(w)
       \/ FreezeBatch(w) \/ CompleteBatch(w) \/ GiveUp(w)
       \/ \E f \in Flows : LookImport(w, f)
       \/ \E d \in WriteDays : \E op \in {"receipt", "count", "opening"} : LookWrite(w, op, d)
       \/ \E a \in Accounts : \E i \in Rows(a) : VoidOpening(w, a, i)
       \/ \E b \in Batches :
            \/ LookApply(w, b) \/ LookRecompute(w, b) \/ LookFreeze(w, b) \/ LookComplete(w, b)
            \/ \E d \in Days : ActDiff(w, b, d)

ReconSpec == ReconInit /\ [][ReconNext]_reconVars

-----------------------------------------------------------------------------
Clean(b) == Span(b) \cap raced = {}
Completed(b) == status[b] = "completed"

(* Types; a batch holds a lock from freeze on, and only batches that were   *)
(* applied have differences.                                                *)
ReconTypes ==
  /\ takings \in [Days -> Nat] /\ receipts \in [Days -> Nat] /\ writes \in 0 .. MaxWrites
  /\ flows \subseteq Flows /\ raced \subseteq Days
  /\ \A d \in Days : counts[d] \subseteq Amounts /\ \A x, y \in counts[d] : x = y
  /\ status \in [Batches -> {"none", "draft", "auditing", "completed"}]
  /\ cashFlow \in [Batches -> [Days -> Nat]]
  /\ diffs \in [Batches -> [Days -> {"none", "open", "handled"}]]
  /\ locks \subseteq Batches
  /\ \A b \in Batches : b \in locks <=> status[b] \in {"auditing", "completed"}
  /\ \A b \in Batches, d \in Days : diffs[b][d] # "none" => status[b] # "none" /\ d \in Span(b)

(* A day belongs to one frozen batch, unless two freezes raced.             *)
OneBatchADay ==
  \A b, c \in locks : b # c /\ Clean(b) /\ Clean(c) => ~Overlap(b, c)

CarriesOn(b, f) ==
  \A a \in Accounts : \E i \in Rows(a) :
    /\ openings[a][i].day = To[b] + 1 /\ openings[a][i].source = "carry"
    /\ openings[a][i].amount = f.closing[a]

(* The books of a completed period stay those of the ledger: opening plus   *)
(* all arrivals and receipts of its days, and the count of the last day;    *)
(* and the next period starts from this closing.  Both, unless a request    *)
(* wrote to its days after reading what another changed.                    *)
BooksStayTrue ==
  \A b \in Batches : Completed(b) /\ Clean(b) =>
    \E f \in books[From[b]] : f.batch = b /\ f.closing = Closing(b, f.opening) /\ CarriesOn(b, f)

Kept(b) == <<books[From[b]], cashFlow[b], [d \in Days |-> diffs[b][d] = "none"]>>

(* A completed batch is final: its books, its takings and its differences   *)
(* are written by no other request than one that read before it completed.  *)
FinalUnlessRaced ==
  [][\A b \in Batches : Completed(b) =>
       Completed(b)' /\ (Kept(b)' = Kept(b) \/ Span(b) \cap raced' # {})]_reconVars

(* A recompute ends that had read this row while it was still open.         *)
DecidedTooLate(b, d) ==
  \E w \in Threads : /\ Asked(w, "drop") /\ thread[w].batch = b /\ thread'[w] = Idle
                      /\ d \in thread[w].rows \ thread[w].handled

(* What people have handled stays handled, or its removal is on record,     *)
(* unless they handled it after the recompute that removes it had read its  *)
(* row and before it was done; and a difference handled in one batch is not *)
(* opened again by another of the same days, unless it was handled while    *)
(* the other was being computed.                                            *)
DecisionsAreKept ==
  [][\A b \in Batches, d \in Days :
       /\ diffs[b][d] = "handled" =>
            diffs'[b][d] = "handled" \/ <<b, d>> \in dropped' \/ DecidedTooLate(b, d)
       /\ \A c \in Batches :
            diffs[b][d] = "none" /\ diffs'[b][d] = "open" /\ Overlap(b, c) /\ d \notin raced'
            => diffs[c][d] # "handled"]_reconVars

(* The engine: each line and each of the takings ends in exactly one result *)
(* of Run, and Run finds as many matches as there can be (engine.go).  It is *)
(* a pure function, so the initial state is enough to evaluate it in.       *)
RunLosesNothing == ReconInit => EngineLosesNothing
=============================================================================
