----------------------------- MODULE MonthlyFlow -----------------------------
(***************************************************************************)
(* internal/settlement-auditor/service: the configured flow that decides a *)
(* payment without settlements, "one a month", and the monthly table it    *)
(* counts in.                                                              *)
(*                                                                         *)
(* The bills are approvals of one branch with one payment item of one type *)
(* each.  Two programs read the month out of a remark: the bill's own is   *)
(* found by the configured pattern, those of the other bills are in the    *)
(* table, where a fixed list of patterns put them.  The signals of the     *)
(* checks that stop any flow, and the verdict of the language model, are   *)
(* free choices.  Publication and status are one step (Approval has them   *)
(* apart), and a bill sent again has a new form.                           *)
(***************************************************************************)
EXTENDS Naturals, FiniteSets

CONSTANTS
  Bills,
  Old,           \* the bills decided before the monthly table was introduced
  ByRegex,       \* per bill: its month by the configured pattern
  ByTable,       \* per bill: its month by the patterns of the table
  NoMonth,       \* a remark without a month
  Workers,       \* goroutines and handlers at work at one time
  NoBill,
  MaxOdd         \* bound: failures, repeats, deletions, changed configuration

ASSUME FlowAssumption == Old \subseteq Bills /\ MaxOdd \in Nat

VARIABLES
  state,         \* approval_instances.status
  items,         \* the bills whose approval_items are stored
  tally,         \* approval_monthly_items.instance_status, "none" without a row
  filled,        \* approval_monthly_backfill has the branch
  flow,          \* the item type's enabled flow: "none", "auto_pass" or "logic"
  usable,        \* its pattern is there and enabled
  worker,        \* per worker: [pc, bill, item, read]
  result,        \* per bill: how the flow judged it last
  events,        \* WeCom: per bill the decisions there have been on its form
  revived,       \* history: bills in force again after they had been out
  odd            \* steps taken of those MaxOdd bounds

table    == <<items, tally, filled>>
config   == <<flow, usable>>
flowVars == <<state, table, config, worker, result, events, revived, odd>>

Unread == [b \in Bills |-> "unread"]
Free == [pc |-> "idle", bill |-> NoBill, item |-> FALSE, read |-> Unread]

(* The statuses countHistoricalMonthlyItems leaves out.                     *)
Out == {"rejected", "failed", "cancelled"}
Deletable == Out \union {"human_approved", "human_rejected"}

FlowInit ==
  /\ state \in {s \in [Bills -> {"none", "human_approved", "rejected"}] :
                  \A b \in Bills : b \in Old <=> s[b] # "none"}
  /\ items = Old
  /\ tally = [b \in Bills |-> "none"]
  /\ filled = FALSE
  /\ flow \in {"none", "auto_pass", "logic"} /\ usable = TRUE
  /\ worker = [w \in Workers |-> Free]
  /\ result = [b \in Bills |-> "none"]
  /\ events = [b \in Bills |-> {}]
  /\ revived = {} /\ odd = 0

PC(w, pc) == worker[w].pc = pc
Work(w, pc, b, item, read) ==
  worker' = [worker EXCEPT ![w] = [pc |-> pc, bill |-> b, item |-> item, read |-> read]]
Step(w, pc) == Work(w, pc, worker[w].bill, worker[w].item, worker[w].read)
Take(w, pc, b) == Work(w, pc, b, FALSE, Unread)
Done(w) == Take(w, "idle", NoBill)

(* An update by id, which does not find a deleted bill.                     *)
Put(b, s) ==
  /\ state' = IF state[b] = "deleted" THEN state ELSE [state EXCEPT ![b] = s]
  /\ revived' = IF state[b] \in Out /\ s \notin Out THEN revived \union {b} ELSE revived

-----------------------------------------------------------------------------
(* SubmitApproval: the instance, then its items.                            *)
SubmitBill(w, b) ==
  /\ PC(w, "idle") /\ state[b] = "none"
  /\ Put(b, "received") /\ Take(w, "store", b)
  /\ UNCHANGED <<table, config, result, events>>

(* storeItems: the items and their rows of the table, in one transaction.   *)
StoreItems(w) ==
  /\ PC(w, "store")
  /\ items' = items \union {worker[w].bill}
  /\ tally' = [tally EXCEPT ![worker[w].bill] = "received"]
  /\ Step(w, "start")
  /\ UNCHANGED <<state, filled, config, result, events, revived>>

-----------------------------------------------------------------------------
(* runAudit.                                                                *)
StartAudit(w) ==
  LET b == worker[w].bill IN
  /\ PC(w, "start")
  /\ IF state[b] = "deleted" THEN Done(w)
     ELSE Work(w, "decide", b, b \in items, Unread)
  /\ Put(b, "auditing")
  /\ UNCHANGED <<table, config, result, events>>

(* buildFlowVerdict: a blocking signal about the data rejects, everything   *)
(* else passes.                                                             *)
buildFlowVerdict(satisfied, hard) == IF hard THEN "reject" ELSE "pass"

(* stepFinish.                                                              *)
Conclude(w, verdict) ==
  IF verdict = "pass"
  THEN Step(w, "send") /\ UNCHANGED <<state, revived>>
  ELSE Done(w) /\ Put(worker[w].bill, "rejected")

Judged(w, satisfied, how) ==
  /\ result' = [result EXCEPT ![worker[w].bill] = how]
  /\ \E hard \in BOOLEAN : Conclude(w, buildFlowVerdict(satisfied, hard))

(* decideVerdict, decideAuditFlow, evaluateItemFlow, up to the count.       *)
Decide(w) ==
  LET b == worker[w].bill IN
  /\ PC(w, "decide")
  /\ \/ /\ flow = "none" \/ ~worker[w].item
        /\ result' = [result EXCEPT ![b] = "none"]
        /\ \E verdict \in {"pass", "reject"} : Conclude(w, verdict)
     \/ /\ worker[w].item /\ flow = "auto_pass"
        /\ Judged(w, TRUE, "none")
     \/ /\ worker[w].item /\ flow = "logic" /\ (~usable \/ ByRegex[b] = NoMonth)
        /\ Judged(w, FALSE, "unsatisfied")
     \/ /\ worker[w].item /\ flow = "logic" /\ usable /\ ByRegex[b] # NoMonth
        /\ Step(w, IF filled THEN "count" ELSE "fill_count")
        /\ UNCHANGED <<state, result, revived>>
  /\ UNCHANGED <<table, config, events>>

(* Mutant: only what has passed the machine is counted.                     *)
Counted_Passed(b) == {c \in Bills \ {b} : tally[c] \in {"approved", "human_approved"}}

(* The rows of the other bills that count.                                  *)
Counted(b) == {c \in Bills \ {b} : tally[c] \notin Out \union {"none"}}

(* evaluateMonthlySingle: no month of the bill or of the table, whichever   *)
(* it is, has two.                                                          *)
OneEachMonth(b) ==
  /\ \A c \in Counted(b) : ByTable[c] \notin {NoMonth, ByRegex[b]}
  /\ \A c, d \in Counted(b) : ByTable[c] = ByTable[d] => c = d

Count(w) ==
  LET b == worker[w].bill IN
  /\ PC(w, "count")
  /\ Judged(w, OneEachMonth(b), IF OneEachMonth(b) THEN "satisfied" ELSE "unsatisfied")
  /\ UNCHANGED <<table, config, events>>

(* publishApplyEvent and the status.                                        *)
Send(w) ==
  LET b == worker[w].bill IN
  /\ PC(w, "send")
  /\ Put(b, "approved") /\ Done(w)
  /\ events' = [events EXCEPT ![b] = {}]
  /\ UNCHANGED <<table, config, result>>

(* markFailed.                                                              *)
FailAudit(w) ==
  /\ worker[w].pc \in {"decide", "count"}
  /\ Put(worker[w].bill, "failed") /\ Done(w)
  /\ UNCHANGED <<table, config, result, events>>

(* The process dies, or a request ends with an error.                       *)
Vanish(w) ==
  /\ ~PC(w, "idle") /\ Done(w)
  /\ UNCHANGED <<state, table, config, result, events, revived>>

-----------------------------------------------------------------------------
(* EnsureMonthlyBackfill: whoever inserts the branch's marker fills the     *)
(* table in the same transaction; others wait for it.                       *)

NobodyFills(w) ==
  \A v \in Workers \ {w} : worker[v].pc \notin {"write_count", "write_end"}

FillRead(w) ==
  /\ worker[w].pc \in {"fill_count", "fill_end"} /\ NobodyFills(w)
  /\ IF filled
     THEN IF PC(w, "fill_count") THEN Step(w, "count") ELSE Done(w)
     ELSE Work(w, IF PC(w, "fill_count") THEN "write_count" ELSE "write_end",
               worker[w].bill, worker[w].item,
               [b \in Bills |-> IF b \in items THEN state[b] ELSE "unread"])
  /\ UNCHANGED <<state, table, config, result, events, revived>>

(* backfillMonthlyTx: every item read before, with the status its instance  *)
(* had then, none when the instance is gone.                                *)
FillWrite(w) ==
  LET read == worker[w].read IN
  /\ worker[w].pc \in {"write_count", "write_end"}
  /\ tally' = [b \in Bills |-> IF read[b] = "unread" THEN tally[b] ELSE read[b]]
  /\ filled' = TRUE
  /\ IF PC(w, "write_count")
     THEN Work(w, "count", worker[w].bill, worker[w].item, Unread)
     ELSE Done(w)
  /\ UNCHANGED <<state, items, config, result, events, revived>>

-----------------------------------------------------------------------------
(* WeCom: people decide once, and may undo what they passed.                *)
PeopleSay(b) ==
  /\ \/ /\ state[b] = "approved" /\ events[b] = {}
        /\ \E s \in {"human_approved", "human_rejected", "cancelled"} :
             events' = [events EXCEPT ![b] = {s}]
     \/ /\ events[b] = {"human_approved"}
        /\ events' = [events EXCEPT ![b] = @ \union {"cancelled"}]
  /\ UNCHANGED <<state, table, config, worker, result, revived>>

(* What an event can make of a bill.                                       *)
Heard == Deletable \union {"approved"}

(* OnStatusChanged, late and repeated events included: the status and the   *)
(* rows of the table in one transaction, then the backfill.  An event of a  *)
(* form under review writes the status there is.                            *)
Hear(w, b, s) ==
  /\ PC(w, "idle") /\ state[b] # "deleted"
  /\ s \in events[b] \/ (s = "approved" /\ state[b] = "approved")
  /\ Put(b, s)
  /\ tally' = [tally EXCEPT ![b] = IF @ = "none" THEN @ ELSE s]
  /\ IF filled THEN UNCHANGED worker ELSE Take(w, "fill_end", b)
  /\ UNCHANGED <<items, filled, config, result, events>>

-----------------------------------------------------------------------------
(* RetryApproval, RescanStuck, AdminApprove, DeleteApproval.                *)
RetryBill(w, b) ==
  /\ PC(w, "idle") /\ state[b] = "failed"
  /\ Put(b, "received") /\ Take(w, "start", b)
  /\ UNCHANGED <<table, config, result, events>>

RescanBill(w, b) ==
  /\ PC(w, "idle") /\ state[b] \in {"received", "auditing"}
  /\ Take(w, "start", b)
  /\ UNCHANGED <<state, table, config, result, events, revived>>

(* The override; its result stands for no judgement of the flow.            *)
OverrideBill(w, b) ==
  /\ PC(w, "idle") /\ state[b] = "rejected"
  /\ Take(w, "send", b)
  /\ result' = [result EXCEPT ![b] = "none"]
  /\ UNCHANGED <<state, table, config, events, revived>>

(* The rows of the table go, the items stay.                                *)
DeleteBill(b) ==
  /\ state[b] \in Deletable
  /\ state' = [state EXCEPT ![b] = "deleted"]
  /\ tally' = [tally EXCEPT ![b] = "none"]
  /\ events' = [events EXCEPT ![b] = {}]
  /\ UNCHANGED <<items, filled, config, worker, result, revived>>

(* CreateItemFlow, UpdateItemFlow, DeleteItemFlow, and the pattern disabled *)
(* or deleted under a flow that uses it.                                    *)
Configure ==
  /\ \/ \E f \in {"none", "auto_pass", "logic"} \ {flow} : flow' = f /\ UNCHANGED usable
     \/ usable' = ~usable /\ UNCHANGED flow
  /\ UNCHANGED <<state, table, worker, result, events, revived>>

-----------------------------------------------------------------------------
UsualFlow ==
  \/ \E w \in Workers :
       \/ StoreItems(w) \/ StartAudit(w) \/ Decide(w) \/ Count(w) \/ Send(w)
       \/ FillRead(w) \/ FillWrite(w)
       \/ \E b \in Bills : SubmitBill(w, b) \/ \E s \in Heard : Hear(w, b, s)
  \/ \E b \in Bills : PeopleSay(b)

OddFlow ==
  \/ \E w \in Workers :
       \/ FailAudit(w) \/ Vanish(w)
       \/ \E b \in Bills : RetryBill(w, b) \/ RescanBill(w, b) \/ OverrideBill(w, b)
  \/ \E b \in Bills : DeleteBill(b)
  \/ Configure

FlowNext ==
  \/ UsualFlow /\ UNCHANGED odd
  \/ OddFlow /\ odd < MaxOdd /\ odd' = odd + 1

FlowSpec == FlowInit /\ [][FlowNext]_flowVars

-----------------------------------------------------------------------------
BillStatuses == {"none", "received", "auditing", "approved", "deleted"} \union Deletable
WorkerPCs == {"idle", "store", "start", "decide", "count", "send",
        "fill_count", "fill_end", "write_count", "write_end"}

FlowTypeOK ==
  /\ state \in [Bills -> BillStatuses]
  /\ items \subseteq Bills
  /\ tally \in [Bills -> BillStatuses]
  /\ filled \in BOOLEAN
  /\ flow \in {"none", "auto_pass", "logic"} /\ usable \in BOOLEAN
  /\ worker \in [Workers -> [pc : WorkerPCs, bill : Bills \union {NoBill}, item : BOOLEAN,
                             read : [Bills -> BillStatuses \union {"unread"}]]]
  /\ result \in [Bills -> {"none", "satisfied", "unsatisfied"}]
  /\ events \in [Bills -> SUBSET Deletable]
  /\ revived \subseteq Bills

InForce(b) == state[b] \in {"approved", "human_approved"}
SameMonth(b, c) == {ByRegex[b], ByTable[b]} = {ByRegex[c]} /\ ByTable[c] = ByRegex[c]

(* "One a month": two bills of a month that the flow found to be the only   *)
(* one are never in force together, however their audits, decisions, the    *)
(* backfill and changes of the configuration fall, unless one had been out  *)
(* (rejected, failed or cancelled) and was brought back.                    *)
OneSatisfiedPerMonth ==
  \A b, c \in Bills :
    /\ b # c /\ SameMonth(b, c)
    /\ InForce(b) /\ InForce(c) /\ result[b] = "satisfied" /\ result[c] = "satisfied"
    => {b, c} \cap revived # {}

(* A condition of the configured flow that is not satisfied rejects the     *)
(* bill: none is sent to the people that the flow judged unsatisfied.       *)
UnsatisfiedIsRejected ==
  \A b \in Bills : result[b] = "unsatisfied" => state[b] # "approved"
=============================================================================
