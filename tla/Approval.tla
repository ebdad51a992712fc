------------------------------- MODULE Approval -------------------------------
(***************************************************************************)
(* internal/settlement-auditor/service: payment approvals for supplier     *)
(* settlements and the ledger of what has been paid.                       *)
(*                                                                         *)
(* A submitted approval is audited by a goroutine; when it passes, a       *)
(* command asks WeCom to open an approval form, people decide on the form, *)
(* and the decision comes back as an event that books the settlements as   *)
(* paid.  Paid settlements can also be booked, and unbooked, by an         *)
(* administrator (init, revert).  Goroutines and handlers are threads      *)
(* here; each looks at the database once and writes by id later.  The      *)
(* audit rewrites the rows of its approval one statement at a time.        *)
(*                                                                         *)
(* The checks of the audit are a free choice between pass and reject, but  *)
(* a settlement that the POS system no longer has is a reject.  Signals,   *)
(* logs, verdict texts, stocktake links, amounts and the monthly items are *)
(* left out.  Events of WeCom may be late, repeated and out of order.      *)
(***************************************************************************)
EXTENDS Naturals, FiniteSets

CONSTANTS
  Approvals,     \* ids of approvals, fresh for each submission
  Settlements,
  Want,          \* per approval: the settlements it is submitted for
  Threads,       \* goroutines and handlers at work at one time
  MaxCommands,   \* bound: commands sent to WeCom
  MaxRare,       \* bound: failures, retries and operations of an administrator
  NoApproval

ASSUME ApprovalAssumption ==
  /\ Want \in [Approvals -> SUBSET Settlements]
  /\ NoApproval \notin Approvals
  /\ MaxCommands \in Nat /\ MaxRare \in Nat

Commands == 1 .. MaxCommands

VARIABLES
  status,        \* approval_instances.status; "none" before it is submitted
  snap,          \* approval_settlements: per approval its settlements
  lastCmd,       \* last_command_id, 0 if none
  spNo,          \* sp_no: the command whose form it is, 0 if none
  ledger,        \* settlement_pay_states: per settlement [row, paid, method, by]
  form,          \* WeCom: per command [ap, list, state]
  thread,        \* per thread: [pc, ap, list, cmd, todo, ok]; todo are the rows an
                 \* audit has yet to insert, ok that it found all it asked for
  loose,         \* history: approvals submitted while another one in process had a
                 \* claim that the check did not see, taken up again without looking
                 \* at the others, or that may have lost a command
  misread,       \* history: approvals whose rows were read while some were missing
  booked,        \* history: settlements booked by an approval, less those an init
                 \* overwrote after it had seen them unpaid
  rare           \* steps taken of those MaxRare bounds

db   == <<status, snap, lastCmd, spNo, ledger>>
hist == <<loose, misread, booked>>
vars == <<db, form, thread, hist, rare>>

Idle == [pc |-> "idle", ap |-> NoApproval, list |-> {}, cmd |-> 0, todo |-> {}, ok |-> FALSE]
NoRow == [row |-> FALSE, paid |-> FALSE, method |-> "none", by |-> NoApproval]
NoForm == [ap |-> NoApproval, list |-> {}, state |-> "none"]

Init ==
  /\ status = [a \in Approvals |-> "none"]
  /\ snap = [a \in Approvals |-> {}]
  /\ lastCmd = [a \in Approvals |-> 0]
  /\ spNo = [a \in Approvals |-> 0]
  /\ ledger = [s \in Settlements |-> NoRow]
  /\ form = [c \in Commands |-> NoForm]
  /\ thread = [w \in Threads |-> Idle]
  /\ loose = {} /\ misread = {} /\ booked = {}
  /\ rare = 0

(* An update by id does not find a deleted approval.                        *)
SetStatus(a, s) ==
  status' = IF status[a] = "deleted" THEN status ELSE [status EXCEPT ![a] = s]

At(w, pc) == thread[w].pc = pc
Go(w, pc, a, list, c) ==
  thread' = [thread EXCEPT ![w] = [pc |-> pc, ap |-> a, list |-> list, cmd |-> c,
                                   todo |-> {}, ok |-> FALSE]]
End(w) == thread' = [thread EXCEPT ![w] = Idle]

-----------------------------------------------------------------------------
(* SubmitApproval.                                                          *)

(* Mutant: an approval waiting for the people's decision is not counted.    *)
pendingApprovalStatuses_Running == {"received", "auditing"}

pendingApprovalStatuses == {"received", "auditing", "approved"}

(* ListPendingSettlements.                                                  *)
Taken(s) == \E a \in Approvals : status[a] \in pendingApprovalStatuses /\ s \in snap[a]

CheckPending(w, a) ==
  /\ At(w, "idle") /\ status[a] = "none"
  /\ \A s \in Want[a] : ~Taken(s)
  /\ Go(w, "submit", a, {}, 0)
  /\ UNCHANGED <<db, form, hist>>

(* What an approval has to do with: the rows it has, the list a goroutine   *)
(* carries, the forms that were asked for.                                  *)
Claims(a, s) ==
  \/ s \in snap[a]
  \/ \E w \in Threads : thread[w].ap = a /\ s \in thread[w].list
  \/ \E c \in Commands : form[c].ap = a /\ s \in form[c].list

Claimed(s) == \E a \in Approvals : status[a] \in pendingApprovalStatuses /\ Claims(a, s)

(* The instance, then its settlements one by one, then the goroutine; after *)
(* an error in between the request ends with what is written so far.        *)
Create(w) ==
  LET a == thread[w].ap IN
  /\ At(w, "submit") /\ status[a] = "none"
  /\ status' = [status EXCEPT ![a] = "received"]
  /\ loose' = IF \E s \in Want[a] : Claimed(s) THEN loose \union {a} ELSE loose
  /\ \/ snap' = [snap EXCEPT ![a] = Want[a]] /\ Go(w, "start", a, {}, 0)
     \/ \E some \in SUBSET Want[a] : snap' = [snap EXCEPT ![a] = some] /\ End(w)
  /\ UNCHANGED <<lastCmd, spNo, ledger, form, misread, booked>>

-----------------------------------------------------------------------------
(* runAudit.                                                                *)

Start(w) ==
  LET a == thread[w].ap IN
  /\ At(w, "start")
  /\ SetStatus(a, "auditing")
  /\ IF status[a] = "deleted" THEN End(w) ELSE Go(w, "audit", a, {}, 0)
  /\ UNCHANGED <<snap, lastCmd, spNo, ledger, form, hist>>

(* What the rows of an approval may still come to hold.                     *)
Held(a, s) ==
  \/ s \in snap[a]
  \/ \E w \in Threads : thread[w].ap = a /\ s \in thread[w].todo

NoteMisread(a, ids) ==
  misread' = IF \E s \in Settlements : Held(a, s) /\ s \notin ids
             THEN misread \union {a} ELSE misread

(* stepFetchSettlements: the rows are read, and the POS system is asked for *)
(* these settlements; one it no longer has is a reject.                     *)
FetchFrom(w, ids) ==
  LET a == thread[w].ap IN
  /\ At(w, "audit")
  /\ \E got \in SUBSET ids :
       thread' = [thread EXCEPT ![w] = [pc |-> "clear", ap |-> a, list |-> got, cmd |-> 0,
                                        todo |-> got, ok |-> got = ids]]
  /\ NoteMisread(a, ids)
  /\ UNCHANGED <<db, form, loose, booked>>

Fetch(w) == FetchFrom(w, snap[thread[w].ap])

(* settlementIDsOf does not look at the error of its query.                 *)
FetchBlind(w) == FetchFrom(w, {})

(* replaceApprovalSettlements, outside any transaction: the rows are        *)
(* deleted, then inserted one by one, also for an approval that was deleted *)
(* since.  (A row is a member of a set here; two runs can insert it twice,  *)
(* and then the upsert of the booking fails: that is a GiveUp.)             *)
Clear(w) ==
  /\ At(w, "clear")
  /\ snap' = [snap EXCEPT ![thread[w].ap] = {}]
  /\ thread' = [thread EXCEPT ![w].pc = "insert"]
  /\ UNCHANGED <<status, lastCmd, spNo, ledger, form, hist>>

(* A delete that fails is logged, and the rows stay as they are.            *)
ClearFails(w) ==
  /\ At(w, "clear")
  /\ thread' = [thread EXCEPT ![w].pc = "insert", ![w].todo = {}]
  /\ UNCHANGED <<db, form, hist>>

Insert(w, s) ==
  /\ At(w, "insert") /\ s \in thread[w].todo
  /\ snap' = [snap EXCEPT ![thread[w].ap] = @ \union {s}]
  /\ thread' = [thread EXCEPT ![w].todo = @ \ {s}]
  /\ UNCHANGED <<status, lastCmd, spNo, ledger, form, hist>>

(* So is an insert that fails; its row is missing from then on.             *)
InsertFails(w, s) ==
  /\ At(w, "insert") /\ s \in thread[w].todo
  /\ thread' = [thread EXCEPT ![w].todo = @ \ {s}]
  /\ UNCHANGED <<db, form, hist>>

(* The other steps and the verdict, on the list that was fetched: the       *)
(* approval is rejected, or its command is sent next.                       *)
Judge(w) ==
  LET a == thread[w].ap IN
  /\ At(w, "insert") /\ thread[w].todo = {}
  /\ \/ SetStatus(a, "rejected") /\ End(w)
     \/ thread[w].ok /\ Go(w, "publish", a, thread[w].list, 0) /\ UNCHANGED status
  /\ UNCHANGED <<snap, lastCmd, spNo, ledger, form, hist>>

(* markFailed: a step of the audit fails or panics; the rows stay as far as *)
(* they have got.                                                           *)
Fail(w) ==
  /\ thread[w].pc \in {"audit", "clear", "insert"}
  /\ SetStatus(thread[w].ap, "failed") /\ End(w)
  /\ UNCHANGED <<snap, lastCmd, spNo, ledger, form, hist>>

(* publishApplyEvent; WeCom may have accepted a command whose publication   *)
(* is reported as failed, and the audit is marked failed.                   *)
Publish(w) ==
  LET a == thread[w].ap  list == thread[w].list IN
  /\ thread[w].pc \in {"publish", "override"}
  /\ \E c \in Commands :
       /\ form[c] = NoForm /\ \A d \in 1 .. (c - 1) : form[d] # NoForm
       /\ form' = [form EXCEPT ![c] = [ap |-> a, list |-> list, state |-> "sent"]]
       /\ \/ /\ Go(w, "approve", a, list, c)
             /\ UNCHANGED <<status, loose>>
          \/ /\ IF At(w, "publish") THEN SetStatus(a, "failed") ELSE UNCHANGED status
             /\ loose' = loose \union {a}
             /\ End(w)
  /\ UNCHANGED <<snap, lastCmd, spNo, ledger, misread, booked>>

FinishPass(w) ==
  LET a == thread[w].ap IN
  /\ At(w, "approve")
  /\ SetStatus(a, "approved")
  /\ lastCmd' = [lastCmd EXCEPT ![a] = thread[w].cmd]
  /\ End(w)
  /\ UNCHANGED <<snap, spNo, ledger, form, hist>>

(* The process dies, or a handler's statement fails.                        *)
GiveUp(w) ==
  /\ ~At(w, "idle") /\ End(w)
  /\ loose' = IF At(w, "approve") THEN loose \union {thread[w].ap} ELSE loose
  /\ UNCHANGED <<db, form, misread, booked>>

(* RescanStuck: an audit that has not moved for ten minutes is run again,   *)
(* whether or not its goroutine is still there.                             *)
Running(a) == \E u \in Threads : thread[u].ap = a

Rescan(w, a) ==
  /\ At(w, "idle") /\ status[a] \in {"received", "auditing"}
  /\ Go(w, "start", a, {}, 0)
  /\ loose' = IF Running(a) THEN loose \union {a} ELSE loose
  /\ UNCHANGED <<db, form, misread, booked>>

-----------------------------------------------------------------------------
(* RetryApproval, AdminApprove and DeleteApproval look at the status first. *)

Retry(w, a) ==
  /\ At(w, "idle") /\ status[a] = "failed"
  /\ SetStatus(a, "received")
  /\ loose' = loose \union {a}
  /\ Go(w, "start", a, {}, 0)
  /\ UNCHANGED <<snap, lastCmd, spNo, ledger, form, misread, booked>>

AdminApprove(w, a) ==
  /\ At(w, "idle") /\ status[a] = "rejected"
  /\ Go(w, "override", a, snap[a], 0)
  /\ loose' = loose \union {a}
  /\ NoteMisread(a, snap[a])
  /\ UNCHANGED <<db, form, booked>>

terminalStatuses == {"rejected", "failed", "human_approved", "cancelled"}

DeleteApproval(a) ==
  /\ status[a] \in terminalStatuses
  /\ status' = [status EXCEPT ![a] = "deleted"]
  /\ snap' = [snap EXCEPT ![a] = {}]
  /\ lastCmd' = [lastCmd EXCEPT ![a] = 0]
  /\ spNo' = [spNo EXCEPT ![a] = 0]
  /\ UNCHANGED <<ledger, form, thread, hist>>

-----------------------------------------------------------------------------
(* WeCom: opens a form or refuses; people decide; a decision can be undone. *)

WecomOpens(c) ==
  /\ form[c].state = "sent"
  /\ \E s \in {"open", "refused"} : form' = [form EXCEPT ![c].state = s]
  /\ UNCHANGED <<db, thread, hist>>

PeopleDecide(c) ==
  /\ \/ /\ form[c].state = "open"
        /\ \E s \in {"passed", "declined"} : form' = [form EXCEPT ![c].state = s]
     \/ /\ form[c].state = "passed"
        /\ form' = [form EXCEPT ![c].state = "undone"]
  /\ UNCHANGED <<db, thread, hist>>

(* OnCommandResult finds the approval by its last command.                  *)
OnCommandResult(c, a) ==
  /\ form[c].state \notin {"none", "sent"}
  /\ lastCmd[a] = c
  /\ IF form[c].state = "refused"
     THEN SetStatus(a, "failed") /\ UNCHANGED spNo
     ELSE spNo' = [spNo EXCEPT ![a] = c] /\ UNCHANGED status
  /\ UNCHANGED <<snap, lastCmd, ledger, form, thread, hist>>

(* The statuses there have been events for; "cancelled" stands for the      *)
(* human_rejected status as well.                                           *)
Decisions(c) ==
  CASE form[c].state = "passed"   -> {"human_approved"}
    [] form[c].state = "undone"   -> {"human_approved", "cancelled"}
    [] form[c].state = "declined" -> {"cancelled"}
    [] OTHER -> {}

Unpaid(S) == {s \in S : ~ledger[s].paid}

(* Mutant: the settlements are booked whatever was decided.                 *)
OnStatusChanged_AnyDecision(w, c, a) ==
  /\ At(w, "idle") /\ spNo[a] = c
  /\ \E s \in Decisions(c) : SetStatus(a, s) /\ Go(w, "book", a, Unpaid(snap[a]), 0)
  /\ UNCHANGED <<snap, lastCmd, spNo, ledger, form, hist>>

(* OnStatusChanged finds the approval by its form; after an approval by     *)
(* people markApprovalSettlementsPaid reads what is not paid yet.           *)
OnStatusChanged(w, c, a) ==
  /\ At(w, "idle") /\ spNo[a] = c
  /\ \E s \in Decisions(c) :
       /\ SetStatus(a, s)
       /\ IF s = "human_approved" THEN Go(w, "book", a, Unpaid(snap[a]), 0)
          ELSE UNCHANGED thread
  /\ UNCHANGED <<snap, lastCmd, spNo, ledger, form, hist>>

-----------------------------------------------------------------------------
(* The ledger.                                                              *)

(* The upsert of markApprovalSettlementsPaid.                               *)
Book(w) ==
  LET a == thread[w].ap  list == thread[w].list IN
  /\ At(w, "book")
  /\ ledger' = [s \in Settlements |->
       IF s \in list THEN [row |-> TRUE, paid |-> TRUE, method |-> "approval", by |-> a]
       ELSE ledger[s]]
  /\ booked' = booked \union list
  /\ End(w)
  /\ UNCHANGED <<status, snap, lastCmd, spNo, form, loose, misread>>

(* ApplySettlementInit: the same two steps, but the upsert does not touch   *)
(* paid_status and approval_id of a row that is there.                      *)
LookInit(w, S) ==
  /\ At(w, "idle") /\ Unpaid(S) # {}
  /\ Go(w, "init", NoApproval, Unpaid(S), 0)
  /\ UNCHANGED <<db, form, hist>>

ApplyInit(w) ==
  LET list == thread[w].list IN
  /\ At(w, "init")
  /\ ledger' = [s \in Settlements |->
       IF s \notin list THEN ledger[s]
       ELSE IF ledger[s].row THEN [ledger[s] EXCEPT !.method = "init"]
       ELSE [row |-> TRUE, paid |-> TRUE, method |-> "init", by |-> NoApproval]]
  /\ booked' = booked \ list
  /\ End(w)
  /\ UNCHANGED <<status, snap, lastCmd, spNo, form, loose, misread>>

(* Mutant: every paid settlement is reverted, whatever it was paid by.      *)
RevertInit_Any(S) ==
  /\ ledger' = [s \in Settlements |->
       IF s \in S /\ ledger[s].paid THEN [ledger[s] EXCEPT !.paid = FALSE] ELSE ledger[s]]
  /\ UNCHANGED <<status, snap, lastCmd, spNo, form, thread, hist>>

(* RevertSettlementInit: the update asks again for what the read selected,  *)
(* and without any there is nothing to do.                                  *)
RevertInit(S) ==
  /\ \E s \in S : ledger[s].paid /\ ledger[s].method = "init"
  /\ ledger' = [s \in Settlements |->
       IF s \in S /\ ledger[s].paid /\ ledger[s].method = "init"
       THEN [ledger[s] EXCEPT !.paid = FALSE] ELSE ledger[s]]
  /\ UNCHANGED <<status, snap, lastCmd, spNo, form, thread, hist>>

-----------------------------------------------------------------------------
UsualStep ==
  \/ \E w \in Threads :
       \/ Create(w) \/ Start(w) \/ Fetch(w) \/ Clear(w) \/ Judge(w) \/ Publish(w)
       \/ FinishPass(w) \/ Book(w) \/ ApplyInit(w)
       \/ \E s \in Settlements : Insert(w, s)
       \/ \E a \in Approvals : \/ CheckPending(w, a)
                               \/ \E c \in Commands : OnStatusChanged(w, c, a)
  \/ \E c \in Commands : \/ WecomOpens(c) \/ PeopleDecide(c)
                         \/ \E a \in Approvals : OnCommandResult(c, a)

RareStep ==
  \/ \E w \in Threads :
       \/ FetchBlind(w) \/ ClearFails(w) \/ Fail(w) \/ GiveUp(w)
       \/ \E s \in Settlements : InsertFails(w, s)
       \/ \E a \in Approvals : \/ ~Running(a) /\ Rescan(w, a)
                               \/ Retry(w, a) \/ AdminApprove(w, a)
       \/ \E S \in SUBSET Settlements : LookInit(w, S)
  \/ \E a \in Approvals : DeleteApproval(a)
  \/ \E S \in SUBSET Settlements : RevertInit(S)

(* A second run beside the first counts for two of what MaxRare bounds.     *)
SecondRun == \E w \in Threads, a \in Approvals : Running(a) /\ Rescan(w, a)

Next ==
  \/ UsualStep /\ UNCHANGED rare
  \/ RareStep /\ rare < MaxRare /\ rare' = rare + 1
  \/ SecondRun /\ rare + 2 <= MaxRare /\ rare' = rare + 2

Spec == Init /\ [][Next]_vars

-----------------------------------------------------------------------------
Statuses == {"none", "received", "auditing", "approved", "deleted"} \union terminalStatuses
FormStates == {"none", "sent", "open", "refused", "passed", "declined", "undone"}
PCs == {"idle", "submit", "start", "audit", "clear", "insert", "publish", "override", "approve",
        "book", "init"}
Job == [pc : PCs, ap : Approvals \union {NoApproval}, list : SUBSET Settlements,
         cmd : {0} \union Commands, todo : SUBSET Settlements, ok : BOOLEAN]

(* The types; a form is for settlements the approval was submitted for, and *)
(* an approval waits for the form of a command sent for it.                 *)
TypeOK ==
  /\ status \in [Approvals -> Statuses]
  /\ snap \in [Approvals -> SUBSET Settlements]
  /\ lastCmd \in [Approvals -> {0} \union Commands]
  /\ spNo \in [Approvals -> {0} \union Commands]
  /\ ledger \in [Settlements -> [row : BOOLEAN, paid : BOOLEAN, method : {"none", "init", "approval"},
                                 by : Approvals \union {NoApproval}]]
  /\ form \in [Commands -> [ap : Approvals \union {NoApproval}, list : SUBSET Settlements,
                            state : FormStates]]
  /\ thread \in [Threads -> Job]
  /\ \A a \in Approvals : \A c \in {lastCmd[a], spNo[a]} \ {0} : form[c].ap = a

(* A settlement booked as paid by an approval stands on a form that people  *)
(* passed, and the approval named in the ledger is that form's; unless the  *)
(* rows of that approval were read while another run of its audit had yet   *)
(* to insert some, or with an error: then the form may name less than is    *)
(* booked.                                                                  *)
BookedWasPassed ==
  \A s \in Settlements :
    ledger[s].paid /\ ledger[s].method = "approval" /\ ledger[s].by \notin misread =>
      \E c \in Commands : /\ form[c].ap = ledger[s].by /\ s \in form[c].list
                          /\ form[c].state \in {"passed", "undone"}

(* What an approval booked stays paid: reverting takes back only what an    *)
(* init booked, unless an init overwrote the row it had seen unpaid.        *)
BookedStaysPaid == \A s \in booked : ledger[s].paid

Waiting(c) == form[c].state \in {"sent", "open"}

(* People never have two forms for one settlement in front of them, unless  *)
(* one was submitted while the other was in process and the check could not *)
(* see it (both looked at the same time, or the audit of the other was      *)
(* rewriting its rows, or had lost one), an approval was taken up again     *)
(* (retry, override, a second run), or it lost track of its command.        *)
OneFormUnlessLoose ==
  \A c, d \in Commands :
    c # d /\ Waiting(c) /\ Waiting(d) /\ form[c].list \cap form[d].list # {}
    => {form[c].ap, form[d].ap} \cap loose # {}

=============================================================================
