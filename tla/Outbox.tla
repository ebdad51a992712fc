------------------------------- MODULE Outbox -------------------------------
(***************************************************************************)
(* pkg/outbox: the transactional outbox shared by the pos and the member   *)
(* service.  Business transactions write an outbox row with the business   *)
(* row; every service runs a Runner that polls the unpublished rows,       *)
(* publishes them to the bus and marks them published.  The two services   *)
(* share one database, hence one outbox table, and `pending` filters by    *)
(* nothing but `published`: each Runner delivers the rows of both.         *)
(*                                                                         *)
(* attempts, last_error and published_at are written for operators and     *)
(* read by no guard of the package, so they are not modelled.              *)
(***************************************************************************)
EXTENDS Naturals, FiniteSets

CONSTANTS
  Services,     \* the namespaces, "pos" and "member": one Recorder, one Runner each
  Ops,          \* business op_ids; the services may use the same one
  Tx,           \* the operations that may be carried out: [service, op_id] pairs
  Poison,       \* rows the broker never accepts (payload or topic refused)
  BatchSize,    \* DefaultBatchSize: rows one round fetches at most
  MaxFaults,    \* bound: failed publishes, failed marks, crashes and rollbacks
  MaxSends      \* bound: accepted copies of one row that are counted

(* The primary key of the row an operation writes: namespace ":" op_id.     *)
RowID(t) == t

Rows == {RowID(t) : t \in Tx}

ASSUME OutboxAssumption ==
  /\ Tx \subseteq Services \X Ops /\ IsFiniteSet(Tx)
  /\ BatchSize \in Nat \ {0} /\ MaxFaults \in Nat /\ MaxSends \in Nat \ {0}
  /\ Poison \subseteq Rows

VARIABLES
  open,         \* transactions that wrote business row and outbox row, uncommitted
  business,     \* operations whose business row is committed
  table,        \* committed outbox rows
  published,    \* those with published = true
  createdAt,    \* created_at, stamped when the row is written, not when it commits
  clock,        \* the wall clock, one tick per stamp
  pc,           \* per Runner: between rounds, publishing, or about to mark
  todo,         \* per Runner: rows of the fetched batch not dealt with yet
  sent,         \* per row: copies the broker accepted, counted up to MaxSends
  faults        \* faults so far

txVars     == <<open, business, table, createdAt, clock>>
runnerVars == <<pc, todo>>
vars       == <<txVars, published, runnerVars, sent, faults>>

-----------------------------------------------------------------------------
Init ==
  /\ open = {} /\ business = {} /\ table = {} /\ published = {}
  /\ createdAt = [r \in Rows |-> 0]
  /\ clock = 0
  /\ pc = [s \in Services |-> "idle"]
  /\ todo = [s \in Services |-> {}]
  /\ sent = [r \in Rows |-> 0]
  /\ faults = 0

Fault == faults < MaxFaults /\ faults' = faults + 1

(* ORDER BY created_at, id: no two stamps are equal here.                   *)
Before(q, r) == createdAt[q] < createdAt[r]

-----------------------------------------------------------------------------
(* Business transactions.                                                  *)

(* Mutant: the row is written outside of the transaction.                   *)
Enqueue_Outside(t) ==
  /\ RowID(t) \notin table
  /\ \A u \in open : RowID(u) # RowID(t)
  /\ open' = open \union {t}
  /\ table' = table \union {RowID(t)}
  /\ createdAt' = [createdAt EXCEPT ![RowID(t)] = clock + 1]
  /\ clock' = clock + 1
  /\ UNCHANGED <<business, published, runnerVars, sent, faults>>

(* Recorder.Enqueue inside the caller's transaction.  The insert waits      *)
(* while another transaction holds the same primary key uncommitted; when   *)
(* the key is committed it fails and the business row is rolled back with   *)
(* it, which changes nothing.                                               *)
Enqueue(t) ==
  /\ RowID(t) \notin table
  /\ \A u \in open : RowID(u) # RowID(t)
  /\ open' = open \union {t}
  /\ createdAt' = [createdAt EXCEPT ![RowID(t)] = clock + 1]
  /\ clock' = clock + 1
  /\ UNCHANGED <<business, table, published, runnerVars, sent, faults>>

Commit(t) ==
  /\ t \in open
  /\ open' = open \ {t}
  /\ business' = business \union {t}
  /\ table' = table \union {RowID(t)}
  /\ UNCHANGED <<createdAt, clock, published, runnerVars, sent, faults>>

(* A later statement fails or the process dies: both rows are gone.         *)
Rollback(t) ==
  /\ t \in open
  /\ Fault
  /\ open' = open \ {t}
  /\ UNCHANGED <<business, table, createdAt, clock, published, runnerVars,
                 sent>>

-----------------------------------------------------------------------------
(* The Runner of service s.                                                *)

(* pending: the BatchSize oldest unpublished rows, whoever wrote them.      *)
Pending == table \ published
Batch == {r \in Pending : Cardinality({q \in Pending : Before(q, r)}) < BatchSize}

Poll(s) ==
  /\ pc[s] = "idle"
  /\ Pending # {}
  /\ todo' = [todo EXCEPT ![s] = Batch]
  /\ pc' = [pc EXCEPT ![s] = "publish"]
  /\ UNCHANGED <<txVars, published, sent, faults>>

(* The row in hand: the first of the rows left.                             *)
InHand(s) == {r \in todo[s] : \A q \in todo[s] \ {r} : Before(r, q)}

(* The round is over when its batch is exhausted.                           *)
NextPC(S) == IF S = {} THEN "idle" ELSE "publish"

Count(n) == IF n < MaxSends THEN n + 1 ELSE n

(* deliver, the broker accepts and says so: mark next.                      *)
PublishOK(s) ==
  /\ pc[s] = "publish"
  /\ \E r \in InHand(s) \ Poison : sent' = [sent EXCEPT ![r] = Count(@)]
  /\ pc' = [pc EXCEPT ![s] = "mark"]
  /\ UNCHANGED <<txVars, published, todo, faults>>

(* RunOnce goes on to the next row of its batch.                            *)
Continue(s, r) ==
  /\ todo' = [todo EXCEPT ![s] = @ \ {r}]
  /\ pc' = [pc EXCEPT ![s] = NextPC(todo[s] \ {r})]

(* Mutant: the first failure ends the round.                                *)
PublishFail_EndsRound(s) ==
  /\ pc[s] = "publish"
  /\ \E r \in InHand(s) :
       /\ \/ /\ r \in Poison
             /\ UNCHANGED <<sent, faults>>
          \/ /\ r \notin Poison
             /\ Fault
             /\ sent' \in {sent, [sent EXCEPT ![r] = Count(@)]}
       /\ todo' = [todo EXCEPT ![s] = {}]
       /\ pc' = [pc EXCEPT ![s] = "idle"]
  /\ UNCHANGED <<txVars, published>>

(* deliver, publish returns an error: markFailed leaves published alone and *)
(* RunOnce continues with the next row.  The broker refuses a poison row    *)
(* every time; any other row may fail once in a while, before or after the  *)
(* broker accepted it (the 10 s timeout can hide an acceptance).            *)
PublishFail(s) ==
  /\ pc[s] = "publish"
  /\ \E r \in InHand(s) :
       /\ \/ /\ r \in Poison
             /\ UNCHANGED <<sent, faults>>
          \/ /\ r \notin Poison
             /\ Fault
             /\ sent' \in {sent, [sent EXCEPT ![r] = Count(@)]}
       /\ Continue(s, r)
  /\ UNCHANGED <<txVars, published>>

(* The update that marks the row; when it fails the row stays unpublished   *)
(* and will be sent again.                                                  *)
Mark(s) ==
  /\ pc[s] = "mark"
  /\ \E r \in InHand(s) :
       /\ \/ published' = published \union {r} /\ UNCHANGED faults
          \/ Fault /\ UNCHANGED published
       /\ Continue(s, r)
  /\ UNCHANGED <<txVars, sent>>

(* The process is killed or stopped; Start begins with a fresh round.       *)
Crash(s) ==
  /\ pc[s] # "idle"
  /\ Fault
  /\ pc' = [pc EXCEPT ![s] = "idle"]
  /\ todo' = [todo EXCEPT ![s] = {}]
  /\ UNCHANGED <<txVars, published, sent>>

-----------------------------------------------------------------------------
RunnerStep(s) == Poll(s) \/ PublishOK(s) \/ PublishFail(s) \/ Mark(s)

Next ==
  \/ \E t \in Tx : Enqueue(t) \/ Commit(t) \/ Rollback(t)
  \/ \E s \in Services : RunnerStep(s) \/ Crash(s)

Spec == Init /\ [][Next]_vars

(* The ticker of Start fires for ever and a round that began goes on: each  *)
(* Runner is weakly fair.  Nothing forces a client to begin a transaction,  *)
(* so only its end is fair.                                                 *)
Fairness ==
  /\ \A s \in Services : WF_vars(RunnerStep(s))
  /\ \A t \in Tx : WF_vars(Commit(t))

FairSpec == Spec /\ Fairness

-----------------------------------------------------------------------------
TypeOK ==
  /\ open \subseteq Tx /\ business \subseteq Tx
  /\ table \subseteq Rows /\ published \subseteq Rows
  /\ createdAt \in [Rows -> Nat] /\ clock \in Nat
  /\ pc \in [Services -> {"idle", "publish", "mark"}]
  /\ todo \in [Services -> SUBSET Rows]
  /\ sent \in [Rows -> 0..MaxSends]
  /\ faults \in 0..MaxFaults

(* Contract 1 of the package: the outbox row exists exactly when the        *)
(* business row does, whatever transactions rolled back.                    *)
RowIffBusiness == table = {RowID(t) : t \in business}

(* No event of a sale that never happened: what the bus carries belongs to  *)
(* a committed business row, whatever rolled back while a Runner polled.    *)
NoPhantomEvent ==
  \A r \in Rows : sent[r] > 0 => \E t \in business : RowID(t) = r

(* Rule 2 of the Runner: a row is marked published only once the broker has *)
(* accepted it, with two Runners, failed marks and crashes.                 *)
PublishedWasSent == \A r \in published : sent[r] > 0

(* The namespace keeps the services apart: the key an operation needs is    *)
(* taken only when its own service has committed that operation already, so *)
(* a member event never rolls back because pos used the same op_id.         *)
KeyTakenOnlyByItself == \A t \in Tx : RowID(t) \in table => t \in business
=============================================================================
