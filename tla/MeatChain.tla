------------------------------ MODULE MeatChain ------------------------------
(***************************************************************************)
(* internal/fresh-meat/service: the daily cost chain of one branch and one *)
(* cut.  Facts (the opening, the loads of the counter, the stocktakes) are *)
(* written by requests; from them every day has a snapshot, cut_cost_daily,*)
(* whose opening is the closing of the day before.  A request refreshes    *)
(* the days it can see to be wrong and hands the rest to a background job, *)
(* one per branch, which recomputes the chain day by day.  Requests        *)
(* interleave with each other and with the job, the job fails, the process *)
(* restarts.                                                               *)
(*                                                                         *)
(* Kept of a snapshot are the two weights that chain the days; amounts,    *)
(* prices, samples, audits, several cuts and SKUs, markers of 0 kg, bulk   *)
(* settlements, gifts and the business day's status are left out, so are   *)
(* pigs, whose cuts and sales are the constant Net, and the cold side of   *)
(* the positions, which the service derives from the same records.         *)
(***************************************************************************)
EXTENDS Integers, FiniteSets, FiniteSetsExt, Functions, CutSplit

CONSTANTS
  LastDay,      \* today
  Net,          \* per day what was cut from pigs less what was sold, kg
  Kgs,          \* weights of loads, openings and counts
  MaxSeq,       \* bound: the last number of a load of a day
  Threads,      \* requests at work at one time
  MaxRequests, MaxFailures

ASSUME MeatAssumption ==
  /\ LastDay \in Nat \ {0} /\ Net \in [1 .. LastDay -> Int]
  /\ Kgs \subseteq Nat \ {0} /\ MaxSeq \in Nat /\ MaxRequests \in Nat /\ MaxFailures \in Nat

Days == 1 .. LastDay
Seqs == 0 .. MaxSeq

VARIABLES
  opening,    \* sku_stock_openings: [day, kg]; its day is the start of the chain
  loads,      \* counter_loads: per day and number a set with the weight, or empty
  taken,      \* pork_cuts_stocktakes: the days that have one
  counted,    \* and per day a set with the weight it found, or empty
  snap,       \* cut_cost_daily: per day a set with [opening, closing], or empty
  counter,    \* sku_stock_positions of the counter
  thread,     \* per thread its request and what it has read
  job,        \* chainJob and the goroutine that works on it
  carried,    \* history: weight the overnight moves took off the counter
  raced,      \* history: a write to loads was committed that its checks no longer allow
  dirty,      \* history: nothing has been scheduled that repairs a failure or a late write
  requests, failures

facts == <<opening, loads, taken, counted>>
history == <<carried, raced, dirty>>
meatVars == <<facts, snap, counter, thread, job, history, requests, failures>>

-----------------------------------------------------------------------------
(* The chain.                                                               *)

Clamp(n) == IF n < 0 THEN 0 ELSE n
SetSum(S) == SumFunctionOnSet([x \in S |-> x], S)
LoadOf(d) == SumFunctionOnSet([i \in Seqs |-> SetSum(loads[d][i])], Seqs)
LoadUpTo(d) == SumFunctionOnSet([e \in 1 .. d |-> LoadOf(e)], 1 .. d)

(* deriveColdChain: what a day leaves in the cold store.  A stocktake puts  *)
(* what it found on the counter back, or what was loaded if it did not look.*)
Cold ==
  LET cold[d \in 0 .. LastDay] ==
        IF d = 0 THEN 0
        ELSE (IF d = opening.day THEN opening.kg ELSE cold[d - 1])
             + SetSum(counted[d])
             - (IF d \in taken /\ counted[d] = {} THEN 0 ELSE LoadOf(d))
  IN cold

ClosingOf(d, open) == Clamp(IF d \in taken THEN Cold[d] ELSE open + Net[d])

(* loadCutOpening: the first day starts from the opening, the others from   *)
(* the snapshot of the day before, or from the cold store if there is none. *)
OpeningOf(d) ==
  Clamp(IF d = opening.day THEN opening.kg
        ELSE IF d > 1 /\ snap[d - 1] # {} THEN (CHOOSE s \in snap[d - 1] : TRUE).closing
        ELSE Cold[d - 1])

(* computeCutDailyCosts.                                                    *)
Compute(d) == [opening |-> OpeningOf(d), closing |-> ClosingOf(d, OpeningOf(d))]

(* The whole chain computed from the facts alone.                           *)
Chain ==
  LET row[d \in opening.day .. LastDay] ==
        LET open == IF d = opening.day THEN opening.kg ELSE row[d - 1].closing
        IN [opening |-> open, closing |-> ClosingOf(d, open)]
  IN row

-----------------------------------------------------------------------------
Idle == [at |-> "idle", day |-> 0, row |-> 0, kg |-> 0, todo |-> {}, read |-> {}, then |-> "end"]
Off == [at |-> "off", from |-> 0, pending |-> FALSE, day |-> 0, read |-> {}]

(* A branch that opened on day 1, loaded the counter and counted it on day  *)
(* 2, with an up to date chain.                                             *)
MeatInit ==
  /\ opening = [day |-> 1, kg |-> 2]
  /\ loads = [d \in Days |-> [i \in Seqs |-> IF d = 2 /\ i = 0 THEN {1} ELSE {}]]
  /\ taken = Days \cap {2}
  /\ counted = [d \in Days |-> IF d = 2 THEN {1} ELSE {}]
  /\ snap = [d \in Days |-> {Chain[d]}]
  /\ counter = 0 /\ carried = IF 2 \in Days THEN 1 ELSE 0
  /\ thread = [w \in Threads |-> Idle]
  /\ job = Off
  /\ raced = FALSE /\ dirty = FALSE
  /\ requests = 0 /\ failures = 0

At(w, place) == thread[w].at = place
Go(w, r) == thread' = [thread EXCEPT ![w] = r]
Request(w) == At(w, "idle") /\ requests < MaxRequests /\ requests' = requests + 1

(* Where every write to the facts of day d leads: recomputeCostSnapshots.   *)
Recompute(d, last) == [Idle EXCEPT !.at = "list", !.day = d, !.then = last]

-----------------------------------------------------------------------------
(* Loads of the counter.                                                    *)

HasLoad(d) == \E i \in Seqs : loads[d][i] # {}
HasHistory(d) == \E e \in 1 .. d - 1 : HasLoad(e) \/ e \in taken

(* assertAfterChainStart and assertPrevBizDayStocktaken.                    *)
MayLoad(d) ==
  /\ d > opening.day
  /\ \/ d - 1 = opening.day /\ ~HasLoad(d - 1) /\ d - 1 \notin taken
     \/ \E e \in taken : e >= d - 1
     \/ taken = {} /\ ~HasHistory(d)

LookLoad(w, d, k) ==
  /\ Request(w) /\ MayLoad(d)
  /\ Go(w, [Idle EXCEPT !.at = "load", !.day = d, !.kg = k])
  /\ UNCHANGED <<facts, snap, counter, job, history, failures>>

NextSeq(d) == IF HasLoad(d) THEN 1 + Max({i \in Seqs : loads[d][i] # {}}) ELSE 0

(* The transaction of CounterLoad reads the last number of the day ...      *)
Number(w) ==
  /\ At(w, "load") /\ NextSeq(thread[w].day) \in Seqs
  /\ Go(w, [thread[w] EXCEPT !.at = "numbered", !.row = NextSeq(thread[w].day)])
  /\ UNCHANGED <<facts, snap, counter, job, history, requests, failures>>

(* ... and upserts the row whose id is made of it.                          *)
CounterLoad(w) ==
  LET r == thread[w] IN
  /\ At(w, "numbered")
  /\ loads' = [loads EXCEPT ![r.day][r.row] = {r.kg}]
  /\ counter' = counter + r.kg
  /\ raced' = (raced \/ r.day <= opening.day \/ loads[r.day][r.row] # {})
  /\ Go(w, Recompute(r.day, "end"))
  /\ UNCHANGED <<opening, taken, counted, snap, job, carried, dirty, requests, failures>>

LookRow(w, op, d, i, k) ==
  /\ Request(w) /\ loads[d][i] # {} /\ k \notin loads[d][i]
  /\ Go(w, [Idle EXCEPT !.at = op, !.day = d, !.row = i, !.kg = k, !.read = loads[d][i]])
  /\ UNCHANGED <<facts, snap, counter, job, history, failures>>

(* Mutant: the whole new weight is booked.                                  *)
Delta_Whole(r) == IF r.at = "edit" THEN r.kg ELSE - SetSum(r.read)

(* What a changed or deleted row moves to the counter.                      *)
Delta(r) == IF r.at = "edit" THEN r.kg - SetSum(r.read) ELSE - SetSum(r.read)

(* UpdateCounterLoad and DeleteCounterLoad: neither asks how many rows it   *)
(* has written.                                                             *)
ChangeRow(w) ==
  LET r == thread[w] IN
  /\ At(w, "edit") \/ At(w, "delete")
  /\ loads' = [loads EXCEPT ![r.day][r.row] =
       IF r.at = "edit" /\ @ # {} THEN {r.kg} ELSE {}]
  /\ counter' = counter + Delta(r)
  /\ raced' = (raced \/ loads[r.day][r.row] # r.read)
  /\ Go(w, Recompute(r.day, "end"))
  /\ UNCHANGED <<opening, taken, counted, snap, job, carried, dirty, requests, failures>>

-----------------------------------------------------------------------------
(* RecordPorkCutsStocktake: no row is locked and nothing is checked against *)
(* the chain.  found is empty if the cut is not on the list.                *)
TakeStock(w, d, found) ==
  /\ Request(w)
  /\ taken' = taken \union {d}
  /\ counted' = [counted EXCEPT ![d] = found]
  /\ Go(w, IF d = LastDay THEN [Idle EXCEPT !.at = "night", !.day = d] ELSE Recompute(d, "end"))
  /\ UNCHANGED <<opening, loads, snap, counter, job, history, failures>>

(* The closing stocktake moves the counter to the cold store.               *)
ReadCounter(w) ==
  /\ At(w, "night")
  /\ Go(w, [thread[w] EXCEPT !.at = "moving", !.kg = counter])
  /\ UNCHANGED <<facts, snap, counter, job, history, requests, failures>>

applyOvernightMove(w) ==
  /\ At(w, "moving")
  /\ counter' = counter - thread[w].kg
  /\ carried' = carried + thread[w].kg
  /\ Go(w, Recompute(thread[w].day, "closing"))
  /\ UNCHANGED <<facts, snap, job, raced, dirty, requests, failures>>

-----------------------------------------------------------------------------
(* Mutant: the loads of the old days are kept.                              *)
dropChainExternalRecords_Takes(day) ==
  /\ taken' = {d \in taken : d >= day}
  /\ counted' = [d \in Days |-> IF d < day THEN {} ELSE counted[d]]
  /\ UNCHANGED <<loads, counter>>

(* What lies before the start of the chain is deleted, loads go back.       *)
dropChainExternalRecords(day) ==
  /\ taken' = {d \in taken : d >= day}
  /\ counted' = [d \in Days |-> IF d < day THEN {} ELSE counted[d]]
  /\ loads' = [d \in Days |-> IF d < day THEN [i \in Seqs |-> {}] ELSE loads[d]]
  /\ counter' = counter - LoadUpTo(day - 1)

(* SaveStockOpenings, its transaction.                                      *)
SaveOpening(w, d, k) ==
  /\ Request(w)
  /\ opening' = [day |-> d, kg |-> k]
  /\ dropChainExternalRecords(d)
  /\ Go(w, [Idle EXCEPT !.at = "stale", !.day = d])
  /\ UNCHANGED <<snap, job, history, failures>>

dropStaleCostSnapshots(w) ==
  /\ At(w, "stale")
  /\ snap' = [d \in Days |-> IF d < opening.day THEN {} ELSE snap[d]]
  /\ Go(w, Recompute(thread[w].day, "end"))
  /\ UNCHANGED <<facts, counter, job, history, requests, failures>>

-----------------------------------------------------------------------------
(* recomputeCostSnapshots: the days with a stocktake at once, all others by *)
(* the job.                                                                 *)

ListDays(w) ==
  /\ At(w, "list")
  /\ Go(w, [thread[w] EXCEPT !.at = "days", !.todo = {d \in taken : d >= thread[w].day}])
  /\ UNCHANGED <<facts, snap, counter, job, history, requests, failures>>

(* persistCutCostDaily in two steps, for the first day of those to do.      *)
ReadDay(w) ==
  /\ At(w, "days") /\ thread[w].todo # {}
  /\ Go(w, [thread[w] EXCEPT !.at = "write", !.read = {Compute(Min(thread[w].todo))}])
  /\ UNCHANGED <<facts, snap, counter, job, history, requests, failures>>

(* A write that no job follows leaves the chain wrong if it is late.        *)
WriteDay(w) ==
  LET d == Min(thread[w].todo) IN
  /\ At(w, "write")
  /\ snap' = [snap EXCEPT ![d] = thread[w].read]
  /\ Go(w, [thread[w] EXCEPT !.at = "days", !.todo = @ \ {d}, !.read = {}])
  /\ dirty' = (dirty \/ (thread[w].then = "done" /\ thread[w].read # {Compute(d)}))
  /\ UNCHANGED <<facts, counter, job, carried, raced, requests, failures>>

(* Mutant: a trigger is dropped while the job runs.                         *)
Trigger_Dropped(day) ==
  job' = IF job.at = "off" THEN [Off EXCEPT !.at = "start", !.from = day] ELSE job

(* A running job is told to run once more, from the earliest day asked for. *)
Trigger(day) ==
  job' = IF job.at = "off" THEN [Off EXCEPT !.at = "start", !.from = day]
         ELSE [job EXCEPT !.pending = TRUE, !.from = Min({@, day})]

(* ScheduleChainMaterialize; the closing stocktake then persists its day    *)
(* once more.                                                               *)
ScheduleChainMaterialize(w) ==
  /\ At(w, "days") /\ thread[w].todo = {} /\ thread[w].then # "done"
  /\ Trigger(thread[w].day)
  /\ Go(w, IF thread[w].then = "end" THEN Idle
           ELSE [thread[w] EXCEPT !.at = "days", !.todo = {thread[w].day}, !.then = "done"])
  /\ UNCHANGED <<facts, snap, counter, history, requests, failures>>

(* MaterializeCostChain: an endpoint does the job's work on its own.        *)
LookMaterialize(w, d) ==
  /\ Request(w)
  /\ Go(w, [Idle EXCEPT !.at = "days", !.day = d, !.then = "done",
                        !.todo = Min({d, opening.day}) .. LastDay])
  /\ UNCHANGED <<facts, snap, counter, job, history, failures>>

Finish(w) ==
  /\ At(w, "days") /\ thread[w].todo = {} /\ thread[w].then = "done"
  /\ Go(w, Idle)
  /\ UNCHANGED <<facts, snap, counter, job, history, requests, failures>>

-----------------------------------------------------------------------------
(* runChainMaterialize.                                                     *)

(* materializeCostChain starts no later than the chain.                     *)
StartDay(from) == Min({from, opening.day})

StartRound ==
  /\ job.at = "start"
  /\ job' = [job EXCEPT !.at = "read", !.pending = FALSE, !.day = StartDay(job.from)]
  /\ dirty' = FALSE
  /\ UNCHANGED <<facts, snap, counter, thread, carried, raced, requests, failures>>

JobRead ==
  /\ job.at = "read" /\ job.day <= LastDay
  /\ job' = [job EXCEPT !.at = "write", !.read = {Compute(job.day)}]
  /\ UNCHANGED <<facts, snap, counter, thread, history, requests, failures>>

JobWrite ==
  /\ job.at = "write"
  /\ snap' = [snap EXCEPT ![job.day] = job.read]
  /\ job' = [job EXCEPT !.at = "read", !.day = @ + 1, !.read = {}]
  /\ UNCHANGED <<facts, counter, thread, history, requests, failures>>

NextRound == job' = IF job.pending THEN [job EXCEPT !.at = "start", !.read = {}] ELSE Off

EndRound ==
  /\ job.at = "read" /\ job.day > LastDay
  /\ NextRound
  /\ UNCHANGED <<facts, snap, counter, thread, history, requests, failures>>

Fault == failures < MaxFailures /\ failures' = failures + 1 /\ dirty' = TRUE

(* An error in a round is logged, the days after it are not computed.       *)
JobFails ==
  /\ job.at \in {"read", "write"} /\ Fault
  /\ NextRound
  /\ UNCHANGED <<facts, snap, counter, thread, carried, raced, requests>>

(* deriveColdChain fails: logged, and nothing is scheduled.                 *)
RecomputeFails(w) ==
  /\ At(w, "list") /\ Fault
  /\ Go(w, IF thread[w].then = "end" THEN Idle
           ELSE [thread[w] EXCEPT !.at = "days", !.todo = {thread[w].day}, !.then = "done"])
  /\ UNCHANGED <<facts, snap, counter, job, carried, raced, requests>>

(* The process restarts; nothing is scheduled at start.                     *)
Restart ==
  /\ Fault
  /\ thread' = [w \in Threads |-> Idle] /\ job' = Off
  /\ UNCHANGED <<facts, snap, counter, carried, raced, requests>>

Step(w) ==
  \/ Number(w) \/ CounterLoad(w) \/ ChangeRow(w) \/ ReadCounter(w) \/ applyOvernightMove(w)
  \/ dropStaleCostSnapshots(w) \/ ListDays(w) \/ ReadDay(w) \/ WriteDay(w)
  \/ ScheduleChainMaterialize(w) \/ Finish(w) \/ RecomputeFails(w)

MeatNext ==
  \/ StartRound \/ JobRead \/ JobWrite \/ EndRound \/ JobFails \/ Restart
  \/ \E w \in Threads :
       \/ Step(w)
       \/ \E d \in Days : \E k \in Kgs :
            \/ LookLoad(w, d, k) \/ SaveOpening(w, d, k)
            \/ \E i \in Seqs : \E op \in {"edit", "delete"} : LookRow(w, op, d, i, k)
       \/ \E d \in Days : \E found \in {{}} \union {{k} : k \in Kgs} : TakeStock(w, d, found)
       \/ \E d \in Days : LookMaterialize(w, d)

MeatSpec == MeatInit /\ [][MeatNext]_meatVars

-----------------------------------------------------------------------------
Quiet == job.at = "off" /\ \A w \in Threads : At(w, "idle")

(* Types; a load and a day have one row at most.                            *)
OneAtMost(S) == S = {} \/ \E x \in S : S = {x}
DayRow == [opening : Nat, closing : Nat]

FactTypes ==
  /\ opening.day \in Days /\ opening.kg \in Nat
  /\ loads \in [Days -> [Seqs -> SUBSET Nat]]
  /\ \A d \in Days : \A i \in Seqs : OneAtMost(loads[d][i])
  /\ taken \subseteq Days
  /\ counted \in [Days -> SUBSET Nat] /\ \A d \in Days : OneAtMost(counted[d])
  /\ \A d \in Days : counted[d] # {} => d \in taken

MeatTypes ==
  /\ FactTypes
  /\ snap \in [Days -> SUBSET DayRow] /\ \A d \in Days : OneAtMost(snap[d])
  /\ counter \in Int /\ carried \in Int /\ raced \in BOOLEAN /\ dirty \in BOOLEAN
  /\ requests \in 0 .. MaxRequests /\ failures \in 0 .. MaxFailures

(* When no request is at work and the job is off, every snapshot from the   *)
(* start of the chain is what the facts give, whatever ran at the same      *)
(* time, unless since the last round of the job something failed, or a      *)
(* write that no round follows was late.                                    *)
QuietIsFresh ==
  Quiet /\ ~dirty => \A d \in opening.day .. LastDay : snap[d] = {Chain[d]}

(* The counter holds what the rows say less what went back overnight,       *)
(* unless two requests worked on the same row or number.                    *)
CounterIsRows ==
  ~raced => counter + carried = LoadUpTo(LastDay)

(* No load is left on a day before the start of the chain, unless it was    *)
(* checked before the start moved.                                          *)
NoLoadBeforeStart ==
  ~raced => \A d \in 1 .. opening.day - 1 : ~HasLoad(d)

(* What pigs should give, what they gave and the weights of the cost hold   *)
(* together (cut_split_algo.go), whatever the pigs, the counts and the      *)
(* trade of a day were.  The split is a pure function, so the initial state *)
(* is enough to evaluate it in.                                             *)
SplitKeepsWeightAndCost == MeatInit => SplitsAreKept
=============================================================================
