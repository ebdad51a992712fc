----------------------------- MODULE DailyCollect -----------------------------
(***************************************************************************)
(* internal/salesagg/collect, its handler and internal/salesdaily: turning *)
(* the daily collection of one branch on and off, and collecting.          *)
(*                                                                         *)
(* Enable and Disable are sagas over three parties: the service account at *)
(* auth, the credential row with the account's secret under the master     *)
(* key, and two jobs at the Dapr scheduler.  Each call is a step that may  *)
(* fail before or after it took effect.  An hourly reconciler registers or *)
(* deletes the jobs by the row's status.  A collection reads the day's     *)
(* totals and details one query after the other and replaces the stored    *)
(* day in one transaction.  Days and branches share nothing: one of each   *)
(* is modelled.  The check of the cube source comes before any change and  *)
(* is left out, and so are names, schedules and permissions.               *)
(***************************************************************************)
EXTENDS Integers, Sequences, SequencesExt

CONSTANTS
  Threads,       \* requests at work at one time
  Jobs,          \* the sources of a branch's jobs, in the order they are registered
  Ops,           \* the kinds of requests that are made
  Items,         \* what can be sold on the day
  MaxRequests,   \* bound: requests
  MaxFailures,   \* bound: calls that fail, restarts
  MaxSales,      \* bound: sales and returns
  MaxKeys        \* bound: master keys

ASSUME CollectAssumption ==
  /\ MaxRequests \in Nat /\ MaxFailures \in Nat /\ MaxSales \in Nat /\ MaxKeys \in Nat \ {0}
  /\ Ops \subseteq {"enable", "disable", "collect"}

VARIABLES
  auth,      \* the service account: its secret (0: no account) and whether it is disabled
  row,       \* branch_collect_credentials
  key,       \* SALES_COLLECT_SECRET_KEY of the running process
  jobs,      \* the collection jobs the scheduler has
  sold,      \* what the cube reports for the day
  settled,   \* the day's figures no longer change
  daily,     \* daily_totals, with daily_categories, _suppliers and _products
  thread,    \* per thread its request
  rec,       \* the calls the reconciler's round still has to make
  overlap,   \* history: two requests that change the credential overlapped
  halfway,   \* history: a Disable stopped after auth and before the row, or an
             \* Enable could not read the disabled row and left the account disabled
  requests, failures, sales

account == <<auth, row, key>>
day == <<sold, settled, daily>>
history == <<overlap, halfway>>
bounds == <<requests, failures, sales>>
collectVars == <<account, jobs, day, thread, rec, history, bounds>>

NoRow == [status |-> "none", key |-> 0, secret |-> 0]
NoDay == [totals |-> {}, details |-> {}, moved |-> TRUE, fresh |-> FALSE]
NoRequest == [op |-> "idle", pc |-> "idle"]

(* Calls of Register (a DELETE whose error is dropped, then POST) and of    *)
(* Delete, for each of the jobs.                                            *)
Call(name, source) == [call |-> name, source |-> source]
RegisterBranchJobs == FlattenSeq([i \in DOMAIN Jobs |-> <<Call("sweep", Jobs[i]), Call("post", Jobs[i])>>])
DeleteBranchJobs == [i \in DOMAIN Jobs |-> Call("delete", Jobs[i])]

CollectInit ==
  /\ auth = [secret |-> 0, disabled |-> FALSE]
  /\ row = NoRow /\ key = 1 /\ jobs = {}
  /\ sold = Items /\ settled = FALSE /\ daily = NoDay
  /\ thread = [w \in Threads |-> NoRequest] /\ rec = <<>>
  /\ overlap = FALSE /\ halfway = FALSE
  /\ requests = 0 /\ failures = 0 /\ sales = 0

At(w, op, pc) == thread[w].op = op /\ thread[w].pc = pc
Go(w, r) == thread' = [thread EXCEPT ![w] = r]
Failure == failures < MaxFailures /\ failures' = failures + 1

(* A call is answered and the request goes on as r, or the answer is lost   *)
(* and the request ends with an error.                                      *)
Answered(w, r) ==
  \/ Go(w, r) /\ UNCHANGED <<halfway, failures>>
  \/ /\ Go(w, NoRequest) /\ Failure
     /\ halfway' = (halfway \/ r.pc = "status")

-----------------------------------------------------------------------------
(* Requests.                                                                *)

Changes(op) == op \in {"enable", "disable"}
Quiet == \A w \in Threads : ~Changes(thread[w].op)

BeginRequest(w, op) ==
  /\ thread[w] = NoRequest /\ requests < MaxRequests
  /\ Go(w, [op |-> op, pc |-> "look", row |-> NoRow, steps |-> <<>>, then |-> "ok",
            totals |-> {}, moved |-> FALSE, fresh |-> settled])
  /\ overlap' = (overlap \/ (Changes(op) /\ ~Quiet))
  /\ requests' = requests + 1
  /\ UNCHANGED <<account, jobs, day, rec, halfway, failures, sales>>

(* Cipher.Open: only what was sealed under the process's key opens.         *)
Opens(r) == r.status # "none" /\ r.key = key

(* Enable: what is enabled already is left alone if its secret can be read, *)
(* else ensureUsableCredential asks for a new one.                          *)
EnableLook(w) ==
  /\ At(w, "enable", "look")
  /\ Go(w, [thread[w] EXCEPT !.pc = IF row.status # "enabled" THEN "again"
                                     ELSE IF Opens(row) THEN "ok" ELSE "reset"])
  /\ UNCHANGED <<account, jobs, day, rec, history, bounds>>

(* The row is read once more: a disabled one is taken up again, and anything*)
(* else, a failed reading too, is taken for a branch that was never enabled.*)
EnableAgain(w) ==
  /\ At(w, "enable", "again")
  /\ \/ /\ row.status = "disabled"
        /\ Go(w, [thread[w] EXCEPT !.pc = "allow", !.row = [row EXCEPT !.status = "enabled"]])
        /\ UNCHANGED <<halfway, failures>>
     \/ /\ row.status # "disabled"
        /\ Go(w, [thread[w] EXCEPT !.pc = "create"])
        /\ UNCHANGED <<halfway, failures>>
     \/ /\ row.status = "disabled" /\ Failure
        /\ Go(w, [thread[w] EXCEPT !.pc = "create"])
        /\ halfway' = TRUE
  /\ UNCHANGED <<account, jobs, day, rec, overlap, requests, sales>>

(* Mutant: the account is left as Disable left it.                          *)
Allow_LeavesAccount(w) ==
  /\ At(w, "enable", "allow")
  /\ Answered(w, IF Opens(thread[w].row) THEN [thread[w] EXCEPT !.pc = "put"]
                 ELSE [thread[w] EXCEPT !.pc = "reset", !.then = "put"])
  /\ UNCHANGED <<account, jobs, day, rec, overlap, requests, sales>>

(* SetDisabled(false), then the secret is repaired if it must be.           *)
Allow(w) ==
  /\ At(w, "enable", "allow")
  /\ auth' = [auth EXCEPT !.disabled = FALSE]
  /\ Answered(w, IF Opens(thread[w].row) THEN [thread[w] EXCEPT !.pc = "put"]
                 ELSE [thread[w] EXCEPT !.pc = "reset", !.then = "put"])
  /\ UNCHANGED <<row, key, jobs, day, rec, overlap, requests, sales>>

Sealed(secret) == [status |-> "enabled", key |-> key, secret |-> secret]

(* createAccountWithRecovery: an account that exists gets a new secret.     *)
Create(w) ==
  /\ At(w, "enable", "create")
  /\ IF auth.secret = 0
     THEN /\ auth' = [secret |-> 1, disabled |-> FALSE]
          /\ Answered(w, [thread[w] EXCEPT !.pc = "put", !.row = Sealed(1)])
     ELSE /\ Answered(w, [thread[w] EXCEPT !.pc = "reset"])
          /\ UNCHANGED auth
  /\ UNCHANGED <<row, key, jobs, day, rec, overlap, requests, sales>>

ResetSecret(w) ==
  /\ At(w, "enable", "reset")
  /\ auth' = [auth EXCEPT !.secret = @ + 1]
  /\ Answered(w, [thread[w] EXCEPT !.pc = "put", !.row = Sealed(auth.secret + 1)])
  /\ UNCHANGED <<row, key, jobs, day, rec, overlap, requests, sales>>

(* CredentialStore.Put writes the whole row as the request holds it.        *)
Put(w) ==
  /\ At(w, "enable", "put")
  /\ row' = thread[w].row
  /\ Answered(w, [thread[w] EXCEPT !.pc = "jobs", !.steps = RegisterBranchJobs])
  /\ UNCHANGED <<auth, key, jobs, day, rec, overlap, requests, sales>>

(* Disable: first the account, then the row, then the jobs.                 *)
DisableLook(w) ==
  /\ At(w, "disable", "look")
  /\ Go(w, [thread[w] EXCEPT !.pc = IF row.status = "enabled" THEN "forbid" ELSE "ok"])
  /\ UNCHANGED <<account, jobs, day, rec, history, bounds>>

Forbid(w) ==
  /\ At(w, "disable", "forbid")
  /\ auth' = [auth EXCEPT !.disabled = TRUE]
  /\ Answered(w, [thread[w] EXCEPT !.pc = "status"])
  /\ UNCHANGED <<row, key, jobs, day, rec, overlap, requests, sales>>

SetStatus(w) ==
  /\ At(w, "disable", "status")
  /\ row' = [row EXCEPT !.status = "disabled"]
  /\ Answered(w, [thread[w] EXCEPT !.pc = "jobs", !.steps = DeleteBranchJobs])
  /\ UNCHANGED <<auth, key, jobs, day, rec, overlap, requests, sales>>

(* A call fails without effect, or the database does.                       *)
CallFails(w) ==
  /\ thread[w].pc \in {"look", "allow", "create", "reset", "put", "forbid", "status",
                       "totals", "details", "save"}
  /\ Failure /\ Go(w, NoRequest)
  /\ halfway' = (halfway \/ thread[w].pc = "status")
  /\ UNCHANGED <<account, jobs, day, rec, overlap, requests, sales>>

Return(w) ==
  /\ thread[w].pc = "ok"
  /\ Go(w, NoRequest)
  /\ UNCHANGED <<account, jobs, day, rec, history, bounds>>

-----------------------------------------------------------------------------
(* Jobs.  The scheduler refuses a POST of a name it has.                    *)

Refused(c) == c.call = "post" /\ c.source \in jobs

Took(c) ==
  jobs' = CASE c.call = "post" -> jobs \union {c.source}
            [] OTHER           -> jobs \ {c.source}

(* The request's next call.                                                 *)
CallJob(w) ==
  /\ thread[w].pc = "jobs"
  /\ IF thread[w].steps = <<>>
     THEN Go(w, [thread[w] EXCEPT !.pc = thread[w].then, !.then = "ok"]) /\ UNCHANGED jobs
     ELSE IF Refused(Head(thread[w].steps))
     THEN Go(w, NoRequest) /\ UNCHANGED jobs
     ELSE Go(w, [thread[w] EXCEPT !.steps = Tail(@)]) /\ Took(Head(thread[w].steps))
  /\ UNCHANGED <<account, day, rec, history, bounds>>

(* It fails, or its answer is lost: Register drops the error of its DELETE. *)
CallJobFails(w) ==
  /\ thread[w].pc = "jobs" /\ thread[w].steps # <<>> /\ Failure
  /\ \/ UNCHANGED jobs
     \/ ~Refused(Head(thread[w].steps)) /\ Took(Head(thread[w].steps))
  /\ Go(w, IF Head(thread[w].steps).call = "sweep" THEN [thread[w] EXCEPT !.steps = Tail(@)] ELSE NoRequest)
  /\ UNCHANGED <<account, day, rec, history, requests, sales>>

(* Mutant: the jobs of a branch that is off are left alone.                 *)
Wanted_OnlyAdds == IF row.status = "enabled" THEN RegisterBranchJobs ELSE <<>>

Wanted == IF row.status = "enabled" THEN RegisterBranchJobs ELSE DeleteBranchJobs

(* Reconciler.Reconcile: it reads the status, then makes its calls and goes *)
(* on when one fails.                                                       *)
Reconcile ==
  /\ rec = <<>> /\ rec' = Wanted
  /\ UNCHANGED <<account, jobs, day, thread, history, bounds>>

ReconcileCall ==
  /\ rec # <<>>
  /\ rec' = Tail(rec)
  /\ IF Refused(Head(rec)) THEN UNCHANGED jobs ELSE Took(Head(rec))
  /\ UNCHANGED <<account, day, thread, history, bounds>>

ReconcileFails ==
  /\ rec # <<>> /\ Failure
  /\ rec' = Tail(rec)
  /\ UNCHANGED <<account, jobs, day, thread, history, requests, sales>>

-----------------------------------------------------------------------------
(* Collecting.                                                              *)

(* StoreCipherIssuer.Bearer: the branch is on, its secret opens and auth    *)
(* accepts it.                                                              *)
Bearer(w) ==
  /\ At(w, "collect", "look")
  /\ IF row.status = "enabled" /\ Opens(row) /\ row.secret = auth.secret /\ ~auth.disabled
     THEN Go(w, [thread[w] EXCEPT !.pc = "totals"])
     ELSE Go(w, NoRequest)
  /\ UNCHANGED <<account, jobs, day, rec, history, bounds>>

(* Collect: the totals, then the rest.  What is sold meanwhile shows.       *)
ReadTotals(w) ==
  /\ At(w, "collect", "totals")
  /\ Go(w, [thread[w] EXCEPT !.pc = "details", !.totals = sold, !.moved = FALSE])
  /\ UNCHANGED <<account, jobs, day, rec, history, bounds>>

ReadDetails(w) ==
  /\ At(w, "collect", "details")
  /\ Go(w, [op |-> "collect", pc |-> "save",
            day |-> [totals |-> thread[w].totals, details |-> sold,
                     moved |-> thread[w].moved, fresh |-> thread[w].fresh]])
  /\ UNCHANGED <<account, jobs, day, rec, history, bounds>>

(* Mutant: the rows of the day are upserted and none is deleted.            *)
Save_Upserts(w) ==
  /\ At(w, "collect", "save")
  /\ daily' = [thread[w].day EXCEPT !.details = @ \union daily.details]
  /\ Go(w, NoRequest)
  /\ UNCHANGED <<account, jobs, sold, settled, rec, history, bounds>>

(* salesdaily.Store.Save: the whole day is replaced.                        *)
Save(w) ==
  /\ At(w, "collect", "save")
  /\ daily' = thread[w].day
  /\ Go(w, NoRequest)
  /\ UNCHANGED <<account, jobs, sold, settled, rec, history, bounds>>

(* A sale, or the return of all that was sold of an item.                   *)
Sell(i) ==
  /\ ~settled /\ sales < MaxSales /\ sales' = sales + 1
  /\ sold' = IF i \in sold THEN sold \ {i} ELSE sold \union {i}
  /\ thread' = [w \in Threads |-> IF thread[w].pc = "details" THEN [thread[w] EXCEPT !.moved = TRUE]
                                  ELSE thread[w]]
  /\ UNCHANGED <<account, jobs, settled, daily, rec, history, requests, failures>>

Settle ==
  /\ ~settled /\ settled' = TRUE
  /\ UNCHANGED <<account, jobs, sold, daily, thread, rec, history, bounds>>

(* The process starts again, perhaps under another master key.              *)
RestartService ==
  /\ Failure
  /\ key' \in {key, key + 1} /\ key' <= MaxKeys
  /\ thread' = [w \in Threads |-> NoRequest] /\ rec' = <<>>
  /\ halfway' = (halfway \/ \E w \in Threads : thread[w].pc = "status")
  /\ UNCHANGED <<auth, row, jobs, day, overlap, requests, sales>>

RequestStep(w) ==
  \/ EnableLook(w) \/ EnableAgain(w) \/ Allow(w) \/ Create(w) \/ ResetSecret(w) \/ Put(w)
  \/ DisableLook(w) \/ Forbid(w) \/ SetStatus(w) \/ CallJob(w) \/ Return(w)
  \/ Bearer(w) \/ ReadTotals(w) \/ ReadDetails(w) \/ Save(w)

CollectNext ==
  \/ \E w \in Threads : RequestStep(w) \/ CallFails(w) \/ CallJobFails(w) \/ \E op \in Ops : BeginRequest(w, op)
  \/ Reconcile \/ ReconcileCall \/ ReconcileFails
  \/ \E i \in Items : Sell(i)
  \/ Settle \/ RestartService

CollectSpec == CollectInit /\ [][CollectNext]_collectVars

(* A request that is served goes on, and the reconciler's ticker does.      *)
CollectFairness ==
  /\ \A w \in Threads : WF_collectVars(RequestStep(w))
  /\ WF_collectVars(Reconcile) /\ WF_collectVars(ReconcileCall)

FairCollectSpec == CollectSpec /\ CollectFairness

-----------------------------------------------------------------------------
(* A branch that is on can collect: the secret that opens is the account's  *)
(* and the account may log in.  Whatever failed or restarted, it takes two  *)
(* overlapping requests, or one of the two failures halfway, to break it.   *)
EnabledIsUsable ==
  Quiet /\ row.status = "enabled" /\ Opens(row) /\ ~overlap /\ ~halfway =>
    row.secret = auth.secret /\ ~auth.disabled

(* A stored day is one reading: its details are those of its totals, unless *)
(* something was sold in between, and once the day is settled they are what *)
(* was sold.                                                                *)
DayIsOneReading ==
  /\ daily.moved \/ daily.details = daily.totals
  /\ daily.fresh => daily.details = sold

(* However requests, rounds, failures and restarts cross, in the end the    *)
(* jobs between two rounds of the reconciler are those the status asks for. *)
JobsFollowStatus ==
  <>[](rec = <<>> => jobs = IF row.status = "enabled" THEN Range(Jobs) ELSE {})

=============================================================================
