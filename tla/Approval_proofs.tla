-------------------------- MODULE Approval_proofs --------------------------
(***************************************************************************)
(* The approvals of the settlement auditor.  First those of settlements, for *)
(* any number of approvals, settlements, goroutines, commands, failures and *)
(* administrators; then 'one a month' for payments without settlements, for *)
(* any bills, months, remarks, workers and configured flows.               *)
(*                                                                         *)
(* That a booked settlement was passed by people is not inductive: between *)
(* the snapshot of an audit and the booking lie a command, a form, its     *)
(* result, a decision and a read, each in a step of its own, and the       *)
(* snapshot is deleted and inserted again row by row in between.  IInv     *)
(* follows the settlements on that way: what the snapshot holds or a run   *)
(* has yet to insert only shrinks once it is written, so at every stop the *)
(* list carried along covers it, unless rows were read while some were     *)
(* missing.                                                                *)
(*                                                                         *)
(* One a month: a bill's row is in the table before its audit counts, and a *)
(* row that counts stops counting only when the bill goes out, because     *)
(* nothing else writes a status that does not count; the backfill might,   *)
(* from what it read earlier, but then the bill was out and has come back. *)
(* So of two bills of a month the one that counts last sees the other.     *)
(***************************************************************************)
EXTENDS Approval, MonthlyFlow, TLAPS

(* The history variables hold settlements and approvals, and what an        *)
(* approval booked is paid by an approval.                                  *)
BookedByApproval ==
  /\ booked \subseteq Settlements /\ loose \subseteq Approvals /\ misread \subseteq Approvals
  /\ rare \in 0 .. MaxRare
  /\ \A s \in booked : ledger[s].paid /\ ledger[s].method = "approval"

(* Before an approval is submitted nothing is known of it.                  *)
Fresh ==
  \A a \in Approvals : status[a] = "none" =>
    /\ snap[a] = {}
    /\ \A w \in Threads : thread[w].ap = a => thread[w].pc = "submit" /\ thread[w].list = {}
    /\ \A c \in Commands : form[c].ap # a

(* A goroutine works on an approval, unless it does nothing or an init, and *)
(* inserts what it fetched.                                                 *)
Working ==
  \A w \in Threads :
    /\ thread[w].pc \notin {"idle", "init"} => thread[w].ap \in Approvals
    /\ thread[w].todo \subseteq thread[w].list

(* It carries the list it will ask people for.                              *)
Asks(w) ==
  \/ thread[w].pc \in {"publish", "override", "approve"}
  \/ thread[w].pc \in {"clear", "insert"} /\ thread[w].ok

(* That list covers what the rows may come to hold, and a command is sent   *)
(* for its approval.                                                        *)
ListCovers ==
  \A w \in Threads :
    /\ \A a \in Approvals \ misread : thread[w].ap = a /\ Asks(w) =>
         \A s \in Settlements : Held(a, s) => s \in thread[w].list
    /\ thread[w].pc = "approve" => thread[w].cmd \in Commands /\ form[thread[w].cmd].ap = thread[w].ap

(* So does the form people see.                                             *)
FormCovers ==
  \A c \in Commands : \A a \in Approvals \ misread : form[c].ap = a =>
    \A s \in Settlements : Held(a, s) => s \in form[c].list

(* People have passed a form of this approval with all of these on it.      *)
PassedFor(a, S) ==
  \E c \in Commands : /\ form[c].ap = a /\ S \subseteq form[c].list
                      /\ form[c].state \in {"passed", "undone"}

(* What is about to be booked was passed.                                   *)
BookCovers ==
  \A w \in Threads : \A a \in Approvals \ misread, S \in SUBSET Settlements :
    thread[w].pc = "book" /\ thread[w].ap = a /\ thread[w].list = S => PassedFor(a, S)

IInv ==
  /\ TypeOK /\ BookedByApproval
  /\ Fresh /\ Working /\ ListCovers /\ FormCovers
  /\ BookCovers /\ BookedWasPassed

-----------------------------------------------------------------------------
LEMMA InitIInv == Init => IInv
<1> SUFFICES ASSUME Init PROVE IInv
  OBVIOUS
<1> USE ApprovalAssumption DEF Init, Idle, NoRow, NoForm
<1>1. TypeOK
  BY DEF TypeOK, Job, Statuses, PCs, FormStates, Commands
<1>2. BookedByApproval /\ Fresh /\ Working
  BY DEF BookedByApproval, Fresh, Working
<1>3. ListCovers /\ FormCovers /\ BookCovers /\ BookedWasPassed
  BY DEF ListCovers, Asks, FormCovers, BookCovers, BookedWasPassed
<1> QED
  BY <1>1, <1>2, <1>3 DEF IInv

(* An update by id leaves the statuses statuses, and makes none of them     *)
(* fresh again.                                                             *)
LEMMA SetStatusProperties ==
  ASSUME TypeOK, NEW a \in Approvals, NEW s \in Statuses \ {"none"}, SetStatus(a, s)
  PROVE  /\ status' \in [Approvals -> Statuses]
         /\ \A b \in Approvals : status'[b] = "none" => status[b] = "none"
BY DEF TypeOK, SetStatus

LEMMA EndProperties ==
  ASSUME TypeOK, NEW w \in Threads, End(w)
  PROVE  /\ thread' \in [Threads -> Job]
         /\ thread'[w].pc = "idle" /\ thread'[w].ap = NoApproval
         /\ thread'[w].list = {} /\ thread'[w].todo = {}
         /\ \A u \in Threads : u # w => thread'[u] = thread[u]
BY DEF TypeOK, Job, End, Idle, PCs

(* What is held shrinks by a step that adds to no snapshot and gives no     *)
(* goroutine rows to insert.                                                *)
LEMMA HeldShrinks ==
  ASSUME \A a \in Approvals : snap'[a] \subseteq snap[a],
         \A w \in Threads : thread'[w] = thread[w] \/ thread'[w].todo = {}
  PROVE  \A a \in Approvals : \A s \in Settlements : Held(a, s)' => Held(a, s)
BY DEF Held

(* A step of one goroutine disturbs none of what is covered, if its own list *)
(* covers what it should.                                                  *)
LEMMA CoversKept ==
  ASSUME IInv, NEW w \in Threads, \A u \in Threads : u # w => thread'[u] = thread[u],
         misread \subseteq misread', UNCHANGED form,
         \A a \in Approvals : \A s \in Settlements : Held(a, s)' => Held(a, s),
         \A a \in Approvals \ misread' : thread'[w].ap = a /\ Asks(w)' =>
           \A s \in Settlements : Held(a, s)' => s \in thread'[w].list,
         thread'[w].pc = "approve" =>
           thread'[w].cmd \in Commands /\ form[thread'[w].cmd].ap = thread'[w].ap,
         \A a \in Approvals \ misread', S \in SUBSET Settlements :
           thread'[w].pc = "book" /\ thread'[w].ap = a /\ thread'[w].list = S => PassedFor(a, S)
  PROVE  ListCovers' /\ FormCovers' /\ BookCovers'
<1>1. \A a, S : PassedFor(a, S)' <=> PassedFor(a, S)
  BY DEF PassedFor
<1>2. \A u \in Threads : u # w => (Asks(u)' <=> Asks(u))
  BY DEF Asks
<1>3. FormCovers'
  BY DEF IInv, FormCovers
<1>4. BookCovers'
  BY <1>1 DEF IInv, BookCovers
<1>5. ListCovers'
  BY <1>2 DEF IInv, ListCovers
<1> QED
  BY <1>3, <1>4, <1>5

(* Above all by one that leaves it without a list to ask for or to book.    *)
LEMMA QuietCovers ==
  ASSUME IInv, NEW w \in Threads, \A u \in Threads : u # w => thread'[u] = thread[u],
         misread \subseteq misread', UNCHANGED form,
         \A a \in Approvals : snap'[a] \subseteq snap[a],
         thread'[w].pc \in {"idle", "submit", "start", "audit", "init"}, thread'[w].todo = {}
  PROVE  ListCovers' /\ FormCovers' /\ BookCovers'
<1>1. \A a \in Approvals : \A s \in Settlements : Held(a, s)' => Held(a, s)
  BY HeldShrinks
<1>2. ~Asks(w)'
  BY DEF Asks
<1> QED
  BY <1>1, <1>2, CoversKept

LEMMA CreateIInv ==
  ASSUME IInv, NEW w \in Threads, Create(w), rare' \in 0 .. MaxRare
  PROVE  IInv'
<1> DEFINE a == thread[w].ap
<1> USE DEF IInv
<1>1. a \in Approvals /\ a # NoApproval
  BY ApprovalAssumption DEF Working, Create, At
<1>2. /\ status' \in [Approvals -> Statuses]
      /\ \A b \in Approvals : b # a => status'[b] = status[b]
      /\ status[a] = "none" /\ status'[a] = "received"
  BY <1>1 DEF TypeOK, Create, Statuses
<1>3. /\ snap' \in [Approvals -> SUBSET Settlements]
      /\ \A b \in Approvals : b # a => snap'[b] = snap[b]
  <2>1. Want[a] \subseteq Settlements
    BY <1>1, ApprovalAssumption
  <2> QED
    BY <1>1, <2>1 DEF TypeOK, Create
<1>4. /\ thread' \in [Threads -> Job]
      /\ \A u \in Threads : u # w => thread'[u] = thread[u]
      /\ thread'[w].todo = {} /\ thread'[w].list = {}
      /\ \/ thread'[w].pc = "start" /\ thread'[w].ap = a
         \/ thread'[w].pc = "idle" /\ thread'[w].ap = NoApproval
  <2>1. CASE Go(w, "start", a, {}, 0)
    BY <2>1, <1>1 DEF Go, TypeOK, Job, PCs
  <2>2. CASE End(w)
    BY <2>2, EndProperties
  <2> QED
    BY <2>1, <2>2 DEF Create
<1>5. \A u \in Threads : u # w /\ thread[u].ap = a => thread[u].pc = "submit"
  BY <1>1, <1>2 DEF Fresh
<1>6. \A c \in Commands : form[c].ap # a
  BY <1>1, <1>2 DEF Fresh
<1>7. TypeOK'
  BY <1>2, <1>3, <1>4 DEF TypeOK, Create
<1>8. BookedByApproval'
  BY <1>1 DEF BookedByApproval, Create
<1>9. Fresh'
  BY ApprovalAssumption, <1>1, <1>2, <1>3, <1>4 DEF Fresh, Create
<1>10. Working'
  BY <1>1, <1>4 DEF Working
<1>11. \A b \in Approvals : b # a => \A s \in Settlements : Held(b, s)' => Held(b, s)
  BY <1>1, <1>3, <1>4 DEF Held
<1>12. \A b \in Approvals \ misread', u \in Threads : thread'[u].ap = b /\ Asks(u)' =>
          b # a /\ thread'[u] = thread[u] /\ Asks(u)
  BY <1>1, <1>4, <1>5 DEF Asks
<1>13. ListCovers'
  BY <1>4, <1>11, <1>12 DEF ListCovers, Create
<1>14. FormCovers'
  BY <1>6, <1>11 DEF FormCovers, Create
<1>15. BookCovers'
  <2>1. \A b, S : PassedFor(b, S)' <=> PassedFor(b, S)
    BY DEF PassedFor, Create
  <2>2. \A u \in Threads : thread'[u].pc = "book" => thread'[u] = thread[u] /\ misread' = misread
    BY <1>4 DEF Create
  <2> QED
    BY <2>1, <2>2 DEF BookCovers, Create
<1>16. BookedWasPassed'
  BY DEF BookedWasPassed, Create
<1> QED
  BY <1>7, <1>8, <1>9, <1>10, <1>13, <1>14, <1>15, <1>16

LEMMA StartIInv ==
  ASSUME IInv, NEW w \in Threads, Start(w), rare' \in 0 .. MaxRare
  PROVE  IInv'
<1> DEFINE a == thread[w].ap
<1> USE DEF IInv
<1>1. a \in Approvals /\ a # NoApproval /\ status[a] # "none"
  BY ApprovalAssumption DEF Working, Fresh, Start, At
<1>2. /\ status' \in [Approvals -> Statuses]
      /\ \A b \in Approvals : status'[b] = "none" => status[b] = "none"
  BY <1>1, SetStatusProperties DEF Start, Statuses
<1>3. /\ thread' \in [Threads -> Job]
      /\ \A u \in Threads : u # w => thread'[u] = thread[u]
      /\ thread'[w].todo = {} /\ thread'[w].list = {}
      /\ \/ thread'[w].pc = "audit" /\ thread'[w].ap = a
         \/ thread'[w].pc = "idle" /\ thread'[w].ap = NoApproval
  <2>1. CASE Go(w, "audit", a, {}, 0)
    BY <2>1, <1>1 DEF Go, TypeOK, Job, PCs
  <2>2. CASE End(w)
    BY <2>2, EndProperties
  <2> QED
    BY <2>1, <2>2 DEF Start
<1>4. TypeOK'
  BY <1>2, <1>3 DEF TypeOK, Start
<1>5. BookedByApproval'
  BY DEF BookedByApproval, Start, hist
<1>6. Fresh'
  BY ApprovalAssumption, <1>1, <1>2, <1>3 DEF Fresh, Start
<1>7. Working'
  BY <1>1, <1>3 DEF Working
<1>8. ListCovers' /\ FormCovers' /\ BookCovers'
  BY <1>3, QuietCovers DEF Start, hist
<1>9. BookedWasPassed'
  BY DEF BookedWasPassed, Start, hist
<1> QED
  BY <1>4, <1>5, <1>6, <1>7, <1>8, <1>9

(* The steps of an audit between its start and its verdict, when they give  *)
(* the rows nothing they did not hold or wait for.                          *)
LEMMA AuditStepIInv ==
  ASSUME IInv, NEW w \in Threads, NEW a \in Approvals, thread[w].ap = a,
         thread[w].pc \in {"audit", "clear", "insert"}, rare' \in 0 .. MaxRare,
         UNCHANGED <<lastCmd, spNo, ledger, form, loose, booked>>,
         status' \in [Approvals -> Statuses],
         \A b \in Approvals : status'[b] = "none" => status[b] = "none",
         snap' \in [Approvals -> SUBSET Settlements], thread' \in [Threads -> Job],
         misread \subseteq misread', misread' \subseteq Approvals,
         \A u \in Threads : u # w => thread'[u] = thread[u],
         \A b \in Approvals : b # a => snap'[b] = snap[b],
         thread'[w].todo \subseteq thread'[w].list,
         \/ thread'[w].ap = a /\ thread'[w].pc \in {"clear", "insert", "publish"}
         \/ thread'[w].ap = NoApproval /\ thread'[w].pc = "idle",
         \A b \in Approvals : \A s \in Settlements : Held(b, s)' => Held(b, s),
         a \notin misread' /\ Asks(w)' => \A s \in Settlements : Held(a, s) => s \in thread'[w].list
  PROVE  IInv'
<1> USE DEF IInv
<1>1. status[a] # "none"
  BY DEF Fresh
<1>2. TypeOK'
  BY DEF TypeOK
<1>3. BookedByApproval'
  BY DEF BookedByApproval
<1>4. Fresh'
  BY <1>1, ApprovalAssumption DEF Fresh
<1>5. Working'
  BY DEF Working
<1>6. thread'[w].ap \in Approvals => thread'[w].ap = a
  BY ApprovalAssumption
<1>7. ListCovers' /\ FormCovers' /\ BookCovers'
  BY <1>6, CoversKept
<1>8. BookedWasPassed'
  BY DEF BookedWasPassed
<1> QED
  BY <1>2, <1>3, <1>4, <1>5, <1>7, <1>8

(* The rows of an approval are read; from here on the list covers what they *)
(* may come to hold, or the approval is misread.                            *)
LEMMA FetchIInv ==
  ASSUME IInv, NEW w \in Threads, NEW ids, ids \subseteq snap[thread[w].ap], FetchFrom(w, ids),
         rare' \in 0 .. MaxRare
  PROVE  IInv'
<1> DEFINE a == thread[w].ap
<1>1. a \in Approvals /\ thread[w].pc = "audit" /\ ids \subseteq Settlements /\ ids \subseteq snap[a]
  BY DEF IInv, TypeOK, Working, FetchFrom, At
<1>2. PICK got \in SUBSET ids :
        thread' = [thread EXCEPT ![w] = [pc |-> "clear", ap |-> a, list |-> got, cmd |-> 0,
                                         todo |-> got, ok |-> got = ids]]
  BY DEF FetchFrom
<1>3. /\ thread' \in [Threads -> Job]
      /\ thread'[w].pc = "clear" /\ thread'[w].ap = a
      /\ thread'[w].list = got /\ thread'[w].todo = got /\ (thread'[w].ok <=> got = ids)
      /\ \A u \in Threads : u # w => thread'[u] = thread[u]
  BY <1>1, <1>2 DEF IInv, TypeOK, Job, PCs
<1>4. UNCHANGED <<db, form, loose, booked>>
  BY DEF FetchFrom
<1>5. /\ misread' \subseteq Approvals /\ misread \subseteq misread'
      /\ a \notin misread' => \A s \in Settlements : Held(a, s) => s \in ids
  <2>1. misread' = IF \E s \in Settlements : Held(a, s) /\ s \notin ids
                   THEN misread \union {a} ELSE misread
    BY DEF FetchFrom, NoteMisread
  <2> QED
    BY <1>1, <2>1 DEF IInv, BookedByApproval
<1>6. \A b \in Approvals : \A s \in Settlements : Held(b, s)' => Held(b, s)
  BY <1>1, <1>3, <1>4 DEF Held, db
<1>7. status' \in [Approvals -> Statuses] /\ snap' \in [Approvals -> SUBSET Settlements]
  BY <1>4 DEF IInv, TypeOK, db
<1>8. Asks(w)' => got = ids
  BY <1>3 DEF Asks
<1>9. UNCHANGED <<status, snap, lastCmd, spNo, ledger>>
  BY <1>4 DEF db
<1> HIDE DEF a
<1> QED
  BY <1>1, <1>3, <1>4, <1>5, <1>6, <1>7, <1>8, <1>9, AuditStepIInv DEF a

(* The rows are deleted and inserted one by one: at every moment they hold, *)
(* with those yet to come, no more than before.                             *)
LEMMA RewriteIInv ==
  ASSUME IInv, NEW w \in Threads, rare' \in 0 .. MaxRare,
         Clear(w) \/ ClearFails(w) \/ \E s \in Settlements : Insert(w, s) \/ InsertFails(w, s)
  PROVE  IInv'
<1> DEFINE a == thread[w].ap
<1>1. a \in Approvals /\ thread[w] \in Job /\ thread[w].pc \in {"clear", "insert"}
  BY DEF IInv, TypeOK, Working, Clear, ClearFails, Insert, InsertFails, At
<1>2. /\ thread' \in [Threads -> Job]
      /\ thread'[w].pc = "insert" /\ thread'[w].ap = a
      /\ thread'[w].list = thread[w].list /\ (thread'[w].ok <=> thread[w].ok)
      /\ \A u \in Threads : u # w => thread'[u] = thread[u]
  <2>1. CASE Clear(w)
    BY <1>1, <2>1 DEF Clear, IInv, TypeOK, Job, PCs
  <2>2. CASE ClearFails(w)
    BY <1>1, <2>2 DEF ClearFails, IInv, TypeOK, Job, PCs
  <2>3. ASSUME NEW s \in Settlements, thread' = [thread EXCEPT ![w].todo = @ \ {s}],
               thread[w].pc = "insert"
        PROVE  /\ thread' \in [Threads -> Job]
               /\ thread'[w].pc = "insert" /\ thread'[w].ap = a
               /\ thread'[w].list = thread[w].list /\ (thread'[w].ok <=> thread[w].ok)
               /\ \A u \in Threads : u # w => thread'[u] = thread[u]
    BY <1>1, <2>3 DEF IInv, TypeOK, Job
  <2> QED
    BY <2>1, <2>2, <2>3 DEF Insert, InsertFails, At
<1>3. thread'[w].todo \subseteq thread[w].todo
  <2>1. CASE Clear(w)
    BY <1>1, <2>1 DEF Clear, IInv, TypeOK, Job
  <2>2. CASE ClearFails(w)
    BY <1>1, <2>2 DEF ClearFails, IInv, TypeOK, Job
  <2>3. ASSUME NEW s \in Settlements, thread' = [thread EXCEPT ![w].todo = @ \ {s}]
        PROVE  thread'[w].todo \subseteq thread[w].todo
    BY <1>1, <2>3 DEF IInv, TypeOK, Job
  <2> QED
    BY <2>1, <2>2, <2>3 DEF Insert, InsertFails
<1>4. UNCHANGED <<status, lastCmd, spNo, ledger, form, loose, misread, booked>>
  BY DEF Clear, ClearFails, Insert, InsertFails, db, hist
<1>5. /\ snap' \in [Approvals -> SUBSET Settlements]
      /\ \A b \in Approvals : b # a => snap'[b] = snap[b]
      /\ \A s \in snap'[a] : s \in snap[a] \/ s \in thread[w].todo
  BY <1>1 DEF Clear, ClearFails, Insert, InsertFails, IInv, TypeOK, db
<1>6. \A b \in Approvals : \A s \in Settlements : Held(b, s)' => Held(b, s)
  BY <1>1, <1>2, <1>3, <1>5 DEF Held
<1>7. /\ status' \in [Approvals -> Statuses]
      /\ \A b \in Approvals : status'[b] = "none" => status[b] = "none"
      /\ misread' \subseteq Approvals /\ misread \subseteq misread'
  BY <1>4 DEF IInv, TypeOK, BookedByApproval
<1>8. thread'[w].todo \subseteq thread'[w].list
  BY <1>2, <1>3 DEF IInv, Working
<1>9. a \notin misread' /\ Asks(w)' => \A s \in Settlements : Held(a, s) => s \in thread'[w].list
  BY <1>1, <1>2, <1>4 DEF IInv, ListCovers, Asks
<1> HIDE DEF a
<1> QED
  BY <1>1, <1>2, <1>4, <1>5, <1>6, <1>7, <1>8, <1>9, AuditStepIInv DEF a

LEMMA JudgeIInv ==
  ASSUME IInv, NEW w \in Threads, Judge(w), rare' \in 0 .. MaxRare
  PROVE  IInv'
<1> DEFINE a == thread[w].ap
<1>1. a \in Approvals /\ thread[w].pc = "insert" /\ thread[w].list \in SUBSET Settlements
  BY DEF IInv, TypeOK, Job, Working, Judge, At
<1>2. /\ UNCHANGED <<snap, lastCmd, spNo, ledger, form, loose, misread, booked>>
      /\ snap' \in [Approvals -> SUBSET Settlements] /\ misread' \subseteq Approvals
  BY DEF Judge, hist, IInv, TypeOK, BookedByApproval
<1>3. /\ status' \in [Approvals -> Statuses]
      /\ \A b \in Approvals : status'[b] = "none" => status[b] = "none"
  <2>1. CASE SetStatus(a, "rejected")
    BY <1>1, <2>1, SetStatusProperties DEF IInv, Statuses, terminalStatuses
  <2>2. CASE UNCHANGED status
    BY <2>2 DEF IInv, TypeOK
  <2> QED
    BY <2>1, <2>2 DEF Judge
<1>4. /\ thread' \in [Threads -> Job] /\ thread'[w].todo = {}
      /\ \A u \in Threads : u # w => thread'[u] = thread[u]
      /\ \/ /\ thread'[w].pc = "publish" /\ thread'[w].ap = a
            /\ thread'[w].list = thread[w].list /\ thread[w].ok
         \/ thread'[w].pc = "idle" /\ thread'[w].ap = NoApproval
  <2>1. CASE Go(w, "publish", a, thread[w].list, 0) /\ thread[w].ok
    BY <1>1, <2>1 DEF Go, TypeOK, Job, PCs, IInv
  <2>2. CASE End(w)
    BY <2>2, EndProperties DEF IInv
  <2> QED
    BY <2>1, <2>2 DEF Judge
<1>5. \A b \in Approvals : \A s \in Settlements : Held(b, s)' => Held(b, s)
  BY <1>2, <1>4, HeldShrinks
<1>6. a \notin misread' /\ Asks(w)' => \A s \in Settlements : Held(a, s) => s \in thread'[w].list
  BY <1>1, <1>2, <1>4 DEF IInv, ListCovers, Asks
<1> HIDE DEF a
<1> QED
  BY <1>1, <1>2, <1>3, <1>4, <1>5, <1>6, AuditStepIInv DEF a

LEMMA FailIInv ==
  ASSUME IInv, NEW w \in Threads, Fail(w), rare' \in 0 .. MaxRare
  PROVE  IInv'
<1> DEFINE a == thread[w].ap
<1>1. a \in Approvals /\ thread[w].pc \in {"audit", "clear", "insert"}
  BY DEF IInv, Working, Fail
<1>2. /\ UNCHANGED <<snap, lastCmd, spNo, ledger, form, loose, misread, booked>>
      /\ snap' \in [Approvals -> SUBSET Settlements] /\ misread' \subseteq Approvals
  BY DEF Fail, hist, IInv, TypeOK, BookedByApproval
<1>3. /\ status' \in [Approvals -> Statuses]
      /\ \A b \in Approvals : status'[b] = "none" => status[b] = "none"
  BY <1>1, SetStatusProperties DEF Fail, IInv, Statuses, terminalStatuses
<1>4. /\ thread' \in [Threads -> Job] /\ thread'[w].todo = {}
      /\ \A u \in Threads : u # w => thread'[u] = thread[u]
      /\ thread'[w].pc = "idle" /\ thread'[w].ap = NoApproval
  BY EndProperties DEF Fail, IInv
<1>5. \A b \in Approvals : \A s \in Settlements : Held(b, s)' => Held(b, s)
  BY <1>2, <1>4, HeldShrinks
<1>6. ~Asks(w)'
  BY <1>4 DEF Asks
<1> HIDE DEF a
<1> QED
  BY <1>1, <1>2, <1>3, <1>4, <1>5, <1>6, AuditStepIInv DEF a

(* The list of the goroutine becomes a form of its own; the forms there are *)
(* stay as they are.                                                        *)
LEMMA PublishIInv ==
  ASSUME IInv, NEW w \in Threads, Publish(w), rare' \in 0 .. MaxRare
  PROVE  IInv'
<1> DEFINE a == thread[w].ap  list == thread[w].list
<1> USE DEF IInv
<1>1. /\ a \in Approvals /\ a # NoApproval /\ status[a] # "none"
      /\ list \in SUBSET Settlements
      /\ a \notin misread => \A s \in Settlements : Held(a, s) => s \in list
  BY ApprovalAssumption DEF TypeOK, Job, Working, Fresh, ListCovers, Asks, Publish
<1>2. PICK c \in Commands :
        /\ form[c] = NoForm
        /\ form' = [form EXCEPT ![c] = [ap |-> a, list |-> list, state |-> "sent"]]
        /\ \/ Go(w, "approve", a, list, c) /\ UNCHANGED <<status, loose>>
           \/ /\ IF At(w, "publish") THEN SetStatus(a, "failed") ELSE UNCHANGED status
              /\ loose' = loose \union {a} /\ End(w)
  BY DEF Publish
<1>3. /\ status' \in [Approvals -> Statuses]
      /\ \A b \in Approvals : status'[b] = "none" => status[b] = "none"
  <2>1. CASE SetStatus(a, "failed")
    BY <1>1, <2>1, SetStatusProperties DEF Statuses, terminalStatuses
  <2>2. CASE UNCHANGED status
    BY <2>2 DEF TypeOK
  <2> QED
    BY <1>2, <2>1, <2>2
<1>4. /\ thread' \in [Threads -> Job]
      /\ \A u \in Threads : u # w => thread'[u] = thread[u]
      /\ thread'[w].todo = {}
      /\ \/ /\ thread'[w].pc = "approve" /\ thread'[w].ap = a
            /\ thread'[w].list = list /\ thread'[w].cmd = c
         \/ thread'[w].pc = "idle" /\ thread'[w].ap = NoApproval
  <2>1. CASE Go(w, "approve", a, list, c)
    <3>1. c \in {0} \union Commands
      OBVIOUS
    <3> QED
      BY <1>1, <2>1, <3>1 DEF Go, TypeOK, Job, PCs
  <2>2. CASE End(w)
    BY <2>2, EndProperties
  <2> QED
    BY <1>2, <2>1, <2>2
<1>5. /\ form' \in [Commands -> [ap : Approvals \union {NoApproval}, list : SUBSET Settlements,
                                state : FormStates]]
      /\ form'[c].ap = a /\ form'[c].list = list
      /\ \A d \in Commands : d # c => form'[d] = form[d]
      /\ form[c].ap = NoApproval /\ form[c].state = "none"
  BY <1>1, <1>2 DEF TypeOK, FormStates, NoForm
<1>6. TypeOK'
  BY ApprovalAssumption, <1>3, <1>4, <1>5 DEF TypeOK, Publish
<1>7. BookedByApproval'
  BY <1>1, <1>2 DEF BookedByApproval, Publish
<1>8. Fresh' /\ Working'
  BY ApprovalAssumption, <1>1, <1>3, <1>4, <1>5 DEF Fresh, Working, Publish
<1>9. /\ \A b \in Approvals : \A s \in Settlements : Held(b, s)' => Held(b, s)
      /\ misread' = misread
  BY <1>4, HeldShrinks DEF Publish
<1>10. ListCovers'
  <2>1. \A u \in Threads : u # w => (Asks(u)' <=> Asks(u))
    BY <1>4 DEF Asks
  <2>2. \A u \in Threads : u # w /\ thread[u].pc = "approve" => thread[u].cmd # c
    BY ApprovalAssumption, <1>5 DEF ListCovers, Working
  <2> QED
    BY ApprovalAssumption, <1>1, <1>4, <1>5, <1>9, <2>1, <2>2 DEF ListCovers
<1>11. FormCovers'
  BY <1>1, <1>5, <1>9 DEF FormCovers
<1>12. BookCovers' /\ BookedWasPassed'
  <2>1. \A b, S : PassedFor(b, S) => PassedFor(b, S)'
    BY <1>5 DEF PassedFor
  <2>2. BookCovers'
    BY <1>4, <1>9, <2>1 DEF BookCovers
  <2> QED
    BY <1>5, <1>9, <2>2 DEF BookedWasPassed, Publish
<1> QED
  BY <1>6, <1>7, <1>8, <1>10, <1>11, <1>12

LEMMA FinishPassIInv ==
  ASSUME IInv, NEW w \in Threads, FinishPass(w), rare' \in 0 .. MaxRare
  PROVE  IInv'
<1> DEFINE a == thread[w].ap  c == thread[w].cmd
<1> USE DEF IInv
<1>1. /\ a \in Approvals /\ status[a] # "none"
      /\ c \in Commands /\ form[c].ap = a
  BY DEF Working, Fresh, ListCovers, FinishPass, At
<1>2. /\ status' \in [Approvals -> Statuses]
      /\ \A b \in Approvals : status'[b] = "none" => status[b] = "none"
  BY <1>1, SetStatusProperties DEF FinishPass, Statuses
<1>3. /\ thread' \in [Threads -> Job]
      /\ \A u \in Threads : u # w => thread'[u] = thread[u]
      /\ thread'[w].pc = "idle" /\ thread'[w].ap = NoApproval /\ thread'[w].todo = {}
  BY EndProperties DEF FinishPass
<1>4. TypeOK'
  BY <1>1, <1>2, <1>3 DEF TypeOK, FinishPass, hist
<1>5. BookedByApproval'
  BY DEF BookedByApproval, FinishPass, hist
<1>6. Fresh' /\ Working'
  BY ApprovalAssumption, <1>2, <1>3 DEF Fresh, Working, FinishPass
<1>7. ListCovers' /\ FormCovers' /\ BookCovers'
  BY <1>3, QuietCovers DEF FinishPass, hist
<1>8. BookedWasPassed'
  BY DEF BookedWasPassed, FinishPass, hist
<1> QED
  BY <1>4, <1>5, <1>6, <1>7, <1>8

LEMMA GiveUpIInv ==
  ASSUME IInv, NEW w \in Threads, GiveUp(w), rare' \in 0 .. MaxRare
  PROVE  IInv'
<1> USE DEF IInv
<1>1. /\ thread' \in [Threads -> Job]
      /\ \A u \in Threads : u # w => thread'[u] = thread[u]
      /\ thread'[w].pc = "idle" /\ thread'[w].ap = NoApproval /\ thread'[w].todo = {}
  BY EndProperties DEF GiveUp
<1>2. TypeOK' /\ BookedByApproval'
  BY <1>1 DEF TypeOK, BookedByApproval, Working, GiveUp, At, db
<1>3. Fresh' /\ Working'
  BY ApprovalAssumption, <1>1 DEF Fresh, Working, GiveUp, db
<1>4. ListCovers' /\ FormCovers' /\ BookCovers'
  BY <1>1, QuietCovers DEF GiveUp, db
<1>5. BookedWasPassed'
  BY DEF BookedWasPassed, GiveUp, db
<1> QED
  BY <1>2, <1>3, <1>4, <1>5

(* A goroutine that takes up an approval there has been before: the rescue, *)
(* a retry and an administrator's override.                                 *)
LEMMA TakeUpIInv ==
  ASSUME IInv, NEW w \in Threads, NEW a \in Approvals, rare' \in 0 .. MaxRare,
         Rescan(w, a) \/ Retry(w, a) \/ AdminApprove(w, a)
  PROVE  IInv'
<1> USE DEF IInv
<1>1. status[a] # "none"
  BY DEF Rescan, Retry, AdminApprove
<1>2. /\ status' \in [Approvals -> Statuses]
      /\ \A b \in Approvals : status'[b] = "none" => status[b] = "none"
  <2>1. CASE SetStatus(a, "received")
    BY <2>1, SetStatusProperties DEF Statuses
  <2>2. CASE UNCHANGED status
    BY <2>2 DEF TypeOK
  <2> QED
    BY <2>1, <2>2 DEF Rescan, Retry, AdminApprove, db
<1>3. /\ thread' \in [Threads -> Job]
      /\ \A u \in Threads : u # w => thread'[u] = thread[u]
      /\ thread'[w].ap = a /\ thread'[w].todo = {}
      /\ \/ thread'[w].pc = "start"
         \/ thread'[w].pc = "override" /\ thread'[w].list = snap[a]
  <2>1. CASE Go(w, "start", a, {}, 0)
    BY <2>1 DEF Go, TypeOK, Job, PCs
  <2>2. CASE Go(w, "override", a, snap[a], 0)
    <3>1. snap[a] \in SUBSET Settlements
      BY DEF TypeOK
    <3> QED
      BY <2>2, <3>1 DEF Go, TypeOK, Job, PCs
  <2> QED
    BY <2>1, <2>2 DEF Rescan, Retry, AdminApprove
<1>4. /\ UNCHANGED <<snap, lastCmd, spNo, ledger, form, booked>>
      /\ loose' \in {loose, loose \union {a}} /\ misread' \in {misread, misread \union {a}}
  BY DEF Rescan, Retry, AdminApprove, NoteMisread, db
<1>5. TypeOK' /\ BookedByApproval'
  BY <1>2, <1>3, <1>4 DEF TypeOK, BookedByApproval
<1>6. Fresh' /\ Working'
  BY ApprovalAssumption, <1>1, <1>2, <1>3, <1>4 DEF Fresh, Working
<1>7. ListCovers' /\ FormCovers' /\ BookCovers'
  <2>1. \A b \in Approvals : \A s \in Settlements : Held(b, s)' => Held(b, s)
    BY <1>3, <1>4, HeldShrinks
  <2>2. a \notin misread' /\ Asks(w)' => \A s \in Settlements : Held(a, s) => s \in thread'[w].list
    <3>1. CASE AdminApprove(w, a)
      <4>1. a \notin misread' => \A s \in Settlements : Held(a, s) => s \in snap[a]
        BY <3>1 DEF AdminApprove, NoteMisread
      <4>2. thread'[w].list = snap[a]
        BY <3>1 DEF Go, TypeOK, Job, PCs, AdminApprove
      <4> QED
        BY <4>1, <4>2
    <3>2. CASE Rescan(w, a) \/ Retry(w, a)
      <4>1. thread'[w].pc = "start"
        BY <3>2 DEF Go, TypeOK, Job, PCs, Rescan, Retry
      <4> QED
        BY <4>1 DEF Asks
    <3> QED
      BY <3>1, <3>2
  <2> QED
    BY <1>3, <1>4, <2>1, <2>2, CoversKept
<1>8. BookedWasPassed'
  BY <1>4 DEF BookedWasPassed
<1> QED
  BY <1>5, <1>6, <1>7, <1>8

LEMMA CheckPendingIInv ==
  ASSUME IInv, NEW w \in Threads, NEW a \in Approvals, CheckPending(w, a), rare' \in 0 .. MaxRare
  PROVE  IInv'
<1> USE DEF IInv
<1>1. /\ thread' \in [Threads -> Job]
      /\ \A u \in Threads : u # w => thread'[u] = thread[u]
      /\ thread'[w].ap = a /\ thread'[w].pc = "submit"
      /\ thread'[w].list = {} /\ thread'[w].todo = {}
  BY DEF Go, TypeOK, Job, PCs, CheckPending
<1>2. TypeOK' /\ BookedByApproval'
  BY <1>1 DEF TypeOK, BookedByApproval, CheckPending, db, hist
<1>3. Fresh' /\ Working'
  BY <1>1 DEF Fresh, Working, CheckPending, db
<1>4. ListCovers' /\ FormCovers' /\ BookCovers'
  BY <1>1, QuietCovers DEF CheckPending, db, hist
<1>5. BookedWasPassed'
  BY DEF BookedWasPassed, CheckPending, db, hist
<1> QED
  BY <1>2, <1>3, <1>4, <1>5

LEMMA DeleteApprovalIInv ==
  ASSUME IInv, NEW a \in Approvals, DeleteApproval(a), rare' \in 0 .. MaxRare
  PROVE  IInv'
<1> USE DEF IInv
<1>1. /\ status' \in [Approvals -> Statuses]
      /\ \A b \in Approvals : status'[b] = "none" => status[b] = "none"
  BY DEF TypeOK, DeleteApproval, Statuses
<1>2. /\ snap' \in [Approvals -> SUBSET Settlements]
      /\ \A b \in Approvals : snap'[b] \subseteq snap[b]
  BY DEF TypeOK, DeleteApproval
<1>3. TypeOK' /\ BookedByApproval'
  BY <1>1, <1>2 DEF TypeOK, BookedByApproval, DeleteApproval, hist
<1>4. Fresh' /\ Working'
  BY <1>1, <1>2 DEF Fresh, Working, DeleteApproval
<1>5. \A b \in Approvals : \A s \in Settlements : Held(b, s)' => Held(b, s)
  BY <1>2, HeldShrinks DEF DeleteApproval
<1>6. ListCovers' /\ FormCovers'
  BY <1>5 DEF ListCovers, FormCovers, Asks, DeleteApproval, hist
<1>7. BookCovers'
  BY DEF BookCovers, PassedFor, DeleteApproval, hist
<1>8. BookedWasPassed'
  BY DEF BookedWasPassed, DeleteApproval, hist
<1> QED
  BY <1>3, <1>4, <1>6, <1>7, <1>8

(* WeCom and the people move a form on; one that was passed stays passed,   *)
(* be it undone later.                                                      *)
LEMMA FormMovesIInv ==
  ASSUME IInv, NEW c \in Commands, WecomOpens(c) \/ PeopleDecide(c), rare' \in 0 .. MaxRare
  PROVE  IInv'
<1> USE DEF IInv
<1>1. PICK s \in FormStates :
        /\ form' = [form EXCEPT ![c].state = s]
        /\ form[c].state \in {"passed", "undone"} => s \in {"passed", "undone"}
  BY DEF WecomOpens, PeopleDecide, FormStates
<1>2. /\ form' \in [Commands -> [ap : Approvals \union {NoApproval}, list : SUBSET Settlements,
                                state : FormStates]]
      /\ \A d \in Commands : form'[d].ap = form[d].ap /\ form'[d].list = form[d].list
      /\ \A d \in Commands : form[d].state \in {"passed", "undone"}
                              => form'[d].state \in {"passed", "undone"}
  BY <1>1 DEF TypeOK
<1>3. UNCHANGED <<db, thread, hist>>
  BY DEF WecomOpens, PeopleDecide
<1>4. TypeOK'
  BY <1>2, <1>3 DEF TypeOK, db
<1>5. BookedByApproval' /\ Working'
  BY <1>3 DEF BookedByApproval, Working, db, hist
<1>6. Fresh' /\ ListCovers' /\ FormCovers'
  <2>1. \A b, x : Held(b, x)' <=> Held(b, x)
    BY <1>3 DEF Held, db
  <2> QED
    BY <1>2, <1>3, <2>1 DEF Fresh, ListCovers, FormCovers, Asks, db, hist
<1>7. BookCovers' /\ BookedWasPassed'
  <2>1. \A b, S : PassedFor(b, S) => PassedFor(b, S)'
    BY <1>2 DEF PassedFor
  <2>2. BookCovers'
    BY <1>3, <2>1 DEF BookCovers, hist
  <2>3. BookedWasPassed'
    BY <1>2, <1>3 DEF BookedWasPassed, db, hist
  <2> QED
    BY <2>2, <2>3
<1> QED
  BY <1>4, <1>5, <1>6, <1>7

LEMMA OnCommandResultIInv ==
  ASSUME IInv, NEW c \in Commands, NEW a \in Approvals, OnCommandResult(c, a), rare' \in 0 .. MaxRare
  PROVE  IInv'
<1> USE DEF IInv
<1>1. lastCmd[a] = c /\ form[c].ap = a
  BY ApprovalAssumption DEF TypeOK, OnCommandResult, Commands
<1>2. /\ status' \in [Approvals -> Statuses]
      /\ \A b \in Approvals : status'[b] = "none" => status[b] = "none"
  <2>1. CASE SetStatus(a, "failed")
    BY <2>1, SetStatusProperties DEF Statuses, terminalStatuses
  <2>2. CASE UNCHANGED status
    BY <2>2 DEF TypeOK
  <2> QED
    BY <2>1, <2>2 DEF OnCommandResult
<1>3. /\ spNo' \in [Approvals -> {0} \union Commands]
      /\ \A b \in Approvals : spNo'[b] \in {spNo[b], lastCmd[b]}
  BY <1>1 DEF TypeOK, OnCommandResult
<1>4. TypeOK'
  BY <1>2, <1>3 DEF TypeOK, OnCommandResult
<1>5. BookedByApproval' /\ Working'
  BY DEF BookedByApproval, Working, OnCommandResult, hist
<1>6. Fresh' /\ ListCovers' /\ FormCovers'
  BY <1>2 DEF Fresh, ListCovers, FormCovers, Asks, Held, OnCommandResult, hist
<1>7. BookCovers' /\ BookedWasPassed'
  BY DEF BookCovers, BookedWasPassed, PassedFor, OnCommandResult, hist
<1> QED
  BY <1>4, <1>5, <1>6, <1>7

(* The decision is about the form sp_no names, and the snapshot that is     *)
(* read now is covered by it.                                               *)
LEMMA OnStatusChangedIInv ==
  ASSUME IInv, NEW w \in Threads, NEW c \in Commands, NEW a \in Approvals,
         OnStatusChanged(w, c, a), rare' \in 0 .. MaxRare
  PROVE  IInv'
<1> USE DEF IInv
<1>1. /\ form[c].ap = a /\ status[a] # "none"
      /\ a \notin misread => snap[a] \subseteq form[c].list
  <2>1. form[c].ap = a
    BY ApprovalAssumption DEF TypeOK, OnStatusChanged, Commands
  <2>2. \A x \in snap[a] : x \in Settlements /\ Held(a, x)
    BY DEF TypeOK, Held
  <2> QED
    BY <2>1, <2>2 DEF FormCovers, Fresh
<1>2. PICK s \in Decisions(c) :
        /\ SetStatus(a, s)
        /\ IF s = "human_approved" THEN Go(w, "book", a, Unpaid(snap[a]), 0) ELSE UNCHANGED thread
  BY DEF OnStatusChanged
<1>3. /\ s \in {"human_approved", "cancelled"}
      /\ s = "human_approved" => form[c].state \in {"passed", "undone"}
  BY DEF Decisions
<1>4. /\ status' \in [Approvals -> Statuses]
      /\ \A b \in Approvals : status'[b] = "none" => status[b] = "none"
  BY <1>2, <1>3, SetStatusProperties DEF Statuses, terminalStatuses
<1>5. /\ thread' \in [Threads -> Job]
      /\ \A u \in Threads : u # w => thread'[u] = thread[u]
      /\ \/ /\ thread'[w].pc = "book" /\ thread'[w].ap = a
            /\ thread'[w].list \subseteq snap[a] /\ thread'[w].todo = {} /\ s = "human_approved"
         \/ thread'[w] = thread[w]
  <2>1. Unpaid(snap[a]) \in SUBSET Settlements /\ Unpaid(snap[a]) \subseteq snap[a]
    BY DEF TypeOK, Unpaid
  <2>2. CASE s = "human_approved"
    <3>1. Go(w, "book", a, Unpaid(snap[a]), 0)
      BY <1>2, <2>2
    <3> HIDE DEF IInv
    <3> QED
      BY <2>1, <2>2, <3>1 DEF IInv, Go, TypeOK, Job, PCs
  <2>3. CASE s # "human_approved"
    BY <1>2, <2>3 DEF TypeOK
  <2> QED
    BY <2>2, <2>3
<1>6. TypeOK' /\ BookedByApproval'
  BY <1>4, <1>5 DEF TypeOK, BookedByApproval, OnStatusChanged, hist
<1>7. Fresh' /\ Working'
  BY <1>1, <1>4, <1>5 DEF Fresh, Working, OnStatusChanged
<1>8. ListCovers' /\ FormCovers' /\ BookCovers'
  <2>1. UNCHANGED <<form, snap, misread>>
    BY DEF OnStatusChanged, hist
  <2>2. \A b \in Approvals : \A x \in Settlements : Held(b, x)' => Held(b, x)
    BY <1>5, <2>1, HeldShrinks
  <2>3. CASE thread'[w] = thread[w]
    <3>1. thread[w].pc = "idle"
      BY DEF OnStatusChanged, At
    <3> QED
      BY <1>5, <2>1, <2>2, <2>3, <3>1, CoversKept DEF Asks
  <2>4. CASE /\ thread'[w].pc = "book" /\ thread'[w].ap = a
             /\ thread'[w].list \subseteq snap[a] /\ s = "human_approved"
    <3>1. ~Asks(w)'
      BY <2>4 DEF Asks
    <3>2. a \notin misread => PassedFor(a, thread'[w].list)
      BY <1>1, <1>3, <2>4 DEF PassedFor
    <3> QED
      BY <1>5, <2>1, <2>2, <2>4, <3>1, <3>2, CoversKept
  <2> QED
    BY <1>5, <2>3, <2>4
<1>9. BookedWasPassed'
  BY DEF BookedWasPassed, OnStatusChanged, hist
<1> QED
  BY <1>6, <1>7, <1>8, <1>9

LEMMA BookIInv ==
  ASSUME IInv, NEW w \in Threads, Book(w), rare' \in 0 .. MaxRare
  PROVE  IInv'
<1> DEFINE a == thread[w].ap  list == thread[w].list
<1> USE DEF IInv
<1>1. /\ a \in Approvals /\ list \in SUBSET Settlements
      /\ a \notin misread => PassedFor(a, list)
  BY DEF TypeOK, Job, Working, BookCovers, Book, At
<1>2. /\ thread' \in [Threads -> Job]
      /\ \A u \in Threads : u # w => thread'[u] = thread[u]
      /\ thread'[w].pc = "idle" /\ thread'[w].ap = NoApproval /\ thread'[w].todo = {}
  BY EndProperties DEF Book
<1>3. /\ ledger' \in [Settlements -> [row : BOOLEAN, paid : BOOLEAN,
                                       method : {"none", "init", "approval"},
                                       by : Approvals \union {NoApproval}]]
      /\ \A s \in list : ledger'[s] = [row |-> TRUE, paid |-> TRUE, method |-> "approval", by |-> a]
      /\ \A s \in Settlements \ list : ledger'[s] = ledger[s]
  BY <1>1 DEF TypeOK, Book
<1>4. TypeOK'
  BY <1>2, <1>3 DEF TypeOK, Book
<1>5. BookedByApproval'
  BY <1>1, <1>3 DEF BookedByApproval, Book
<1>6. Fresh' /\ Working'
  BY ApprovalAssumption, <1>2 DEF Fresh, Working, Book
<1>7. ListCovers' /\ FormCovers' /\ BookCovers'
  BY <1>2, QuietCovers DEF Book
<1>8. BookedWasPassed'
  <2>1. CASE a \in misread
    BY <1>3, <2>1 DEF BookedWasPassed, Book
  <2>2. CASE a \notin misread
    <3>1. PICK c \in Commands : /\ form[c].ap = a /\ list \subseteq form[c].list
                                /\ form[c].state \in {"passed", "undone"}
      BY <1>1, <2>2 DEF PassedFor
    <3> QED
      BY <1>3, <3>1 DEF BookedWasPassed, Book
  <2> QED
    BY <2>1, <2>2
<1> QED
  BY <1>4, <1>5, <1>6, <1>7, <1>8

LEMMA LookInitIInv ==
  ASSUME IInv, NEW w \in Threads, NEW S \in SUBSET Settlements, LookInit(w, S), rare' \in 0 .. MaxRare
  PROVE  IInv'
<1> USE DEF IInv
<1>1. /\ thread' \in [Threads -> Job]
      /\ \A u \in Threads : u # w => thread'[u] = thread[u]
      /\ thread'[w].pc = "init" /\ thread'[w].ap = NoApproval /\ thread'[w].todo = {}
  <2>1. Unpaid(S) \in SUBSET Settlements
    BY DEF Unpaid
  <2> QED
    BY <2>1 DEF Go, TypeOK, Job, PCs, LookInit
<1>2. TypeOK' /\ BookedByApproval'
  BY <1>1 DEF TypeOK, BookedByApproval, LookInit, db, hist
<1>3. Fresh' /\ Working'
  BY ApprovalAssumption, <1>1 DEF Fresh, Working, LookInit, db
<1>4. ListCovers' /\ FormCovers' /\ BookCovers'
  BY <1>1, QuietCovers DEF LookInit, db, hist
<1>5. BookedWasPassed'
  BY DEF BookedWasPassed, LookInit, db, hist
<1> QED
  BY <1>2, <1>3, <1>4, <1>5

(* An init that had seen a settlement unpaid overwrites how it was paid     *)
(* since, never that it was.                                                *)
LEMMA ApplyInitIInv ==
  ASSUME IInv, NEW w \in Threads, ApplyInit(w), rare' \in 0 .. MaxRare
  PROVE  IInv'
<1> DEFINE list == thread[w].list
           Rows == [row : BOOLEAN, paid : BOOLEAN, method : {"none", "init", "approval"},
                    by : Approvals \union {NoApproval}]
<1> USE DEF IInv
<1>1. /\ thread' \in [Threads -> Job]
      /\ \A u \in Threads : u # w => thread'[u] = thread[u]
      /\ thread'[w].pc = "idle" /\ thread'[w].ap = NoApproval /\ thread'[w].todo = {}
  BY EndProperties DEF ApplyInit
<1>2. ASSUME NEW s \in Settlements
      PROVE  /\ ledger'[s] \in Rows
             /\ s \notin list => ledger'[s] = ledger[s]
             /\ s \in list => ledger'[s].method = "init"
  <2>1. ledger[s] \in Rows
    BY DEF TypeOK
  <2>2. CASE s \notin list
    BY <2>1, <2>2 DEF ApplyInit
  <2>3. CASE s \in list /\ ledger[s].row
    <3>1. ledger'[s] = [ledger[s] EXCEPT !.method = "init"]
      BY <2>3 DEF ApplyInit
    <3> QED
      BY <2>1, <2>3, <3>1
  <2>4. CASE s \in list /\ ~ledger[s].row
    <3>1. ledger'[s] = [row |-> TRUE, paid |-> TRUE, method |-> "init", by |-> NoApproval]
      BY <2>4 DEF ApplyInit
    <3> QED
      BY <2>4, <3>1
  <2> QED
    BY <2>2, <2>3, <2>4
<1>3. ledger' \in [Settlements -> Rows]
  <2>1. DOMAIN ledger' = Settlements /\ ledger' = [s \in Settlements |-> ledger'[s]]
    BY DEF ApplyInit
  <2> QED
    BY <1>2, <2>1
<1>4. TypeOK' /\ BookedByApproval'
  <2>1. TypeOK'
    BY <1>1, <1>3 DEF TypeOK, ApplyInit
  <2> QED
    BY <1>2, <2>1 DEF BookedByApproval, ApplyInit
<1>5. Fresh' /\ Working'
  BY ApprovalAssumption, <1>1 DEF Fresh, Working, ApplyInit
<1>6. ListCovers' /\ FormCovers' /\ BookCovers'
  BY <1>1, QuietCovers DEF ApplyInit
<1>7. BookedWasPassed'
  BY <1>2 DEF BookedWasPassed, ApplyInit
<1> QED
  BY <1>4, <1>5, <1>6, <1>7

LEMMA RevertInitIInv ==
  ASSUME IInv, NEW S \in SUBSET Settlements, RevertInit(S), rare' \in 0 .. MaxRare
  PROVE  IInv'
<1> DEFINE Rows == [row : BOOLEAN, paid : BOOLEAN, method : {"none", "init", "approval"},
                    by : Approvals \union {NoApproval}]
<1> USE DEF IInv
<1>1. ASSUME NEW s \in Settlements
      PROVE  /\ ledger'[s] \in Rows
             /\ \/ ledger'[s] = ledger[s]
                \/ ledger[s].method = "init" /\ ~ledger'[s].paid
  <2>1. ledger[s] \in Rows
    BY DEF TypeOK
  <2>2. CASE s \in S /\ ledger[s].paid /\ ledger[s].method = "init"
    <3>1. ledger'[s] = [ledger[s] EXCEPT !.paid = FALSE]
      BY <2>2 DEF RevertInit
    <3> QED
      BY <2>1, <2>2, <3>1
  <2>3. CASE ~(s \in S /\ ledger[s].paid /\ ledger[s].method = "init")
    <3>1. ledger'[s] = ledger[s]
      BY <2>3 DEF RevertInit
    <3> QED
      BY <2>1, <3>1
  <2> QED
    BY <2>2, <2>3
<1>2. TypeOK' /\ BookedByApproval'
  <2>1. ledger' \in [Settlements -> Rows]
    <3>1. ledger' = [s \in Settlements |-> ledger'[s]]
      BY DEF RevertInit
    <3> QED
      BY <1>1, <3>1
  <2>2. TypeOK'
    BY <2>1 DEF TypeOK, RevertInit
  <2> QED
    BY <1>1, <2>2 DEF BookedByApproval, RevertInit, hist
<1>3. Fresh' /\ Working' /\ ListCovers' /\ FormCovers'
  BY DEF Fresh, Working, ListCovers, FormCovers, Asks, Held, RevertInit, hist
<1>4. BookCovers' /\ BookedWasPassed'
  BY <1>1 DEF BookCovers, BookedWasPassed, PassedFor, RevertInit, hist
<1> QED
  BY <1>2, <1>3, <1>4

-----------------------------------------------------------------------------
LEMMA StepIInv == IInv /\ [Next]_vars => IInv'
<1> SUFFICES ASSUME IInv, [Next]_vars PROVE IInv'
  OBVIOUS
<1>1. rare' \in 0 .. MaxRare
  BY ApprovalAssumption DEF IInv, BookedByApproval, Next, vars
<1>2. CASE UsualStep
  <2>1. ASSUME NEW w \in Threads,
               \/ Create(w) \/ Start(w) \/ Publish(w) \/ FinishPass(w)
               \/ Book(w) \/ ApplyInit(w)
        PROVE  IInv'
    BY <1>1, <2>1, CreateIInv, StartIInv, PublishIInv, FinishPassIInv, BookIInv, ApplyInitIInv
  <2>2. ASSUME NEW w \in Threads, NEW a \in Approvals,
               CheckPending(w, a) \/ \E c \in Commands : OnStatusChanged(w, c, a)
        PROVE  IInv'
    BY <1>1, <2>2, CheckPendingIInv, OnStatusChangedIInv
  <2>3. ASSUME NEW c \in Commands,
               WecomOpens(c) \/ PeopleDecide(c) \/ \E a \in Approvals : OnCommandResult(c, a)
        PROVE  IInv'
    BY <1>1, <2>3, FormMovesIInv, OnCommandResultIInv
  <2>4. ASSUME NEW w \in Threads,
               Fetch(w) \/ Clear(w) \/ Judge(w) \/ \E s \in Settlements : Insert(w, s)
        PROVE  IInv'
    <3>1. CASE Fetch(w)
      BY <1>1, <3>1, FetchIInv DEF Fetch
    <3> QED
      BY <1>1, <2>4, <3>1, RewriteIInv, JudgeIInv
  <2> QED
    BY <1>2, <2>1, <2>2, <2>3, <2>4 DEF UsualStep
<1>3. CASE RareStep
  <2>1. ASSUME NEW w \in Threads, Fail(w) \/ GiveUp(w)
        PROVE  IInv'
    BY <1>1, <2>1, FailIInv, GiveUpIInv
  <2>2. ASSUME NEW w \in Threads, NEW a \in Approvals,
               Rescan(w, a) \/ Retry(w, a) \/ AdminApprove(w, a)
        PROVE  IInv'
    BY <1>1, <2>2, TakeUpIInv
  <2>3. ASSUME NEW S \in SUBSET Settlements,
               RevertInit(S) \/ \E w \in Threads : LookInit(w, S)
        PROVE  IInv'
    BY <1>1, <2>3, RevertInitIInv, LookInitIInv
  <2>4. ASSUME NEW a \in Approvals, DeleteApproval(a)
        PROVE  IInv'
    BY <1>1, <2>4, DeleteApprovalIInv
  <2>5. ASSUME NEW w \in Threads,
               FetchBlind(w) \/ ClearFails(w) \/ \E s \in Settlements : InsertFails(w, s)
        PROVE  IInv'
    <3>1. CASE FetchBlind(w)
      BY <1>1, <3>1, FetchIInv DEF FetchBlind
    <3> QED
      BY <1>1, <2>5, <3>1, RewriteIInv
  <2> QED
    BY <1>3, <2>1, <2>2, <2>3, <2>4, <2>5 DEF RareStep
<1>4. CASE SecondRun
  <2>1. \E w \in Threads, a \in Approvals : Rescan(w, a)
    BY <1>4, Zenon DEF SecondRun
  <2>2. ASSUME NEW w \in Threads, NEW a \in Approvals, Rescan(w, a)
        PROVE  IInv'
    BY <1>1, <2>2, TakeUpIInv
  <2> QED
    BY <2>1, <2>2
<1>5. CASE UNCHANGED vars
  <2> USE <1>5 DEF vars, db, hist, IInv
  <2>1. TypeOK' /\ BookedByApproval'
    BY DEF TypeOK, BookedByApproval
  <2>2. Fresh' /\ Working' /\ BookedWasPassed'
    BY DEF Fresh, Working, BookedWasPassed
  <2>3. \A a, s : Held(a, s)' <=> Held(a, s)
    BY DEF Held
  <2>4. ListCovers' /\ FormCovers'
    BY <2>3 DEF ListCovers, FormCovers, Asks
  <2>5. \A a, S : PassedFor(a, S)' <=> PassedFor(a, S)
    BY DEF PassedFor
  <2>6. BookCovers'
    BY <2>5 DEF BookCovers
  <2> QED
    BY <2>1, <2>2, <2>4, <2>6
<1> QED
  BY <1>2, <1>3, <1>4, <1>5 DEF Next

LEMMA Invariant == Spec => []IInv
BY InitIInv, StepIInv, PTL DEF Spec

(* Approvals, forms, goroutines and the ledger keep their types, and a      *)
(* command an approval waits for was sent for it.                           *)
THEOREM TypeCorrect == Spec => []TypeOK
<1>1. IInv => TypeOK
  BY DEF IInv
<1> QED
  BY Invariant, <1>1, PTL

(* Whatever races, fails, is lost or repeated between a submission and the  *)
(* booking (runAudit, OnCommandResult, OnStatusChanged,                     *)
(* markApprovalSettlementsPaid), what an approval booked as paid stands on  *)
(* a form people passed, unless its rows were read while some were missing. *)
THEOREM PaidWasPassed == Spec => []BookedWasPassed
<1>1. IInv => BookedWasPassed
  BY DEF IInv
<1> QED
  BY Invariant, <1>1, PTL

(* No administrator's init or revert unpays what an approval booked.        *)
THEOREM PaidStaysPaid == Spec => []BookedStaysPaid
<1>1. IInv => BookedStaysPaid
  BY DEF IInv, BookedByApproval, BookedStaysPaid
<1> QED
  BY Invariant, <1>1, PTL

-----------------------------------------------------------------------------
(* One form for one settlement.  An approval that is not loose has at most  *)
(* one goroutine auditing it; it has at most one form, and none before that *)
(* goroutine has sent its command; and while people have the form in front  *)
(* of them, the approval is pending.  What it has a claim on only shrinks   *)
(* once it is submitted, so two pending approvals that are not loose never  *)
(* come to have a claim on the same settlement.                             *)

AuditPCs == {"start", "audit", "clear", "insert", "publish", "approve"}

Audits(w, a) == thread[w].ap = a /\ thread[w].pc \in AuditPCs
Awaits(w, a) == thread[w].ap = a /\ thread[w].pc = "approve"

OneAudit(a) ==
  /\ \A w \in Threads : thread[w].ap = a => thread[w].pc # "override"
  /\ \A w, u \in Threads : Audits(w, a) /\ Audits(u, a) => w = u

(* What an audit under way has done so far.                                 *)
AuditKnows(a) ==
  \A w \in Threads : Audits(w, a) =>
    /\ status[a] \in {"received", "auditing"} /\ lastCmd[a] = 0 /\ spNo[a] = 0
    /\ thread[w].pc # "approve" => \A c \in Commands : form[c].ap # a

OneForm(a) ==
  /\ \A c, d \in Commands : form[c].ap = a /\ form[d].ap = a => c = d
  /\ \A c \in Commands : form[c].ap = a =>
       /\ status[a] \in {"received", "auditing"} => \E w \in Threads : Awaits(w, a)
       /\ Waiting(c) => status[a] \in pendingApprovalStatuses

Orderly(a) == OneAudit(a) /\ AuditKnows(a) /\ OneForm(a)

InOrder == \A a \in Approvals \ loose : Orderly(a)

FormsOfApprovals == \A c \in Commands : form[c].state # "none" => form[c].ap \in Approvals

(* Two approvals that are pending and not loose have no claim in common.    *)
Apart ==
  \A a, b \in Approvals \ loose :
    a # b /\ status[a] \in pendingApprovalStatuses /\ status[b] \in pendingApprovalStatuses
    => \A s : ~(Claims(a, s) /\ Claims(b, s))

OrderInv == FormsOfApprovals /\ InOrder /\ Apart

LEMMA InitOrderInv == Init => OrderInv
<1> SUFFICES ASSUME Init PROVE OrderInv
  OBVIOUS
<1> USE ApprovalAssumption DEF Init, Idle, NoForm
<1>1. FormsOfApprovals /\ Apart
  BY DEF FormsOfApprovals, Apart, pendingApprovalStatuses
<1>2. ASSUME NEW a \in Approvals PROVE Orderly(a)
  BY <1>2 DEF Orderly, OneAudit, AuditKnows, OneForm, Audits, AuditPCs
<1> QED
  BY <1>1, <1>2 DEF OrderInv, InOrder

(* An approval stays in order while nothing about it changes but the state  *)
(* of its form, and that only away from waiting.                            *)
LEMMA OrderlyStays ==
  ASSUME NEW a \in Approvals, Orderly(a),
         status'[a] = status[a], lastCmd'[a] = lastCmd[a], spNo'[a] = spNo[a],
         \A w \in Threads :
           \/ thread'[w] = thread[w]
           \/ /\ ~Audits(w, a)
              /\ thread'[w].ap = a => thread'[w].pc \notin AuditPCs \union {"override"},
         \A c \in Commands : form[c].ap = a \/ form'[c].ap = a =>
           /\ form'[c].ap = form[c].ap
           /\ Waiting(c)' => Waiting(c)
  PROVE  Orderly(a)'
<1>1. ASSUME NEW w \in Threads
      PROVE  /\ Audits(w, a)' => Audits(w, a) /\ thread'[w] = thread[w]
             /\ Audits(w, a) => thread'[w] = thread[w]
             /\ thread'[w].ap = a /\ thread'[w].pc = "override" => thread'[w] = thread[w]
  BY DEF Audits
<1>2. OneAudit(a)'
  BY <1>1 DEF Orderly, OneAudit
<1>3. AuditKnows(a)'
  BY <1>1 DEF Orderly, AuditKnows
<1>4. ASSUME NEW w \in Threads, Awaits(w, a) PROVE Awaits(w, a)'
  BY <1>1, <1>4 DEF Awaits, Audits, AuditPCs
<1>5. OneForm(a)'
  BY <1>4 DEF Orderly, OneForm
<1> QED
  BY <1>2, <1>3, <1>5 DEF Orderly

(* A step of one goroutine for one approval.                                *)
StepFor(w, a) ==
  /\ loose \subseteq loose'
  /\ \A u \in Threads : u # w => thread'[u] = thread[u]
  /\ thread[w].ap = a \/ thread[w].pc \notin AuditPCs
  /\ thread'[w].ap = a \/ thread'[w].pc \notin AuditPCs \union {"override"}
  /\ thread'[w].ap \in {a, NoApproval}
  /\ \A b \in Approvals : b # a =>
       /\ status'[b] = status[b] /\ lastCmd'[b] = lastCmd[b]
       /\ spNo'[b] = spNo[b] /\ snap'[b] = snap[b]
  /\ \A c \in Commands : form'[c] = form[c] \/ (form[c].ap \notin Approvals /\ form'[c].ap = a)

(* It leaves the others in order.                                           *)
LEMMA OthersOrderly ==
  ASSUME InOrder, NEW w \in Threads, NEW a, StepFor(w, a), NEW b \in Approvals \ loose', b # a
  PROVE  Orderly(b)'
<1>1. Orderly(b)
  BY DEF InOrder, StepFor
<1>2. ASSUME NEW u \in Threads
      PROVE  \/ thread'[u] = thread[u]
             \/ /\ ~Audits(u, b)
                /\ thread'[u].ap = b => thread'[u].pc \notin AuditPCs \union {"override"}
  BY DEF StepFor, Audits
<1>3. ASSUME NEW c \in Commands, form[c].ap = b \/ form'[c].ap = b
      PROVE  form'[c] = form[c] /\ (Waiting(c)' => Waiting(c))
  BY <1>3 DEF StepFor, Waiting
<1> QED
  BY <1>1, <1>2, <1>3, OrderlyStays DEF StepFor

(* What it has a claim on shrinks, as long as what is written, carried or   *)
(* sent was claimed before.                                                 *)
LEMMA ClaimsShrink ==
  ASSUME NEW a,
         \A s \in snap'[a] : Claims(a, s),
         \A w \in Threads : thread'[w].ap = a => \A s \in thread'[w].list : Claims(a, s),
         \A c \in Commands : form'[c].ap = a => \A s \in form'[c].list : Claims(a, s)
  PROVE  \A s : Claims(a, s)' => Claims(a, s)
BY DEF Claims

LEMMA ClaimsAre ==
  ASSUME NEW a
  PROVE  /\ \A s \in snap[a] : Claims(a, s)
         /\ \A w \in Threads : thread[w].ap = a => \A s \in thread[w].list : Claims(a, s)
         /\ \A c \in Commands : form[c].ap = a => \A s \in form[c].list : Claims(a, s)
BY DEF Claims

LEMMA OthersClaims ==
  ASSUME NEW w \in Threads, NEW a, StepFor(w, a), NEW b \in Approvals, b # a
  PROVE  \A s : Claims(b, s)' => Claims(b, s)
BY ApprovalAssumption DEF StepFor, Claims

(* No two pending approvals come to have a claim in common by a step that   *)
(* makes none pending and gives none a claim.                               *)
LEMMA ApartStays ==
  ASSUME Apart, loose \subseteq loose',
         \A a \in Approvals \ loose' : status'[a] \in pendingApprovalStatuses =>
           status[a] \in pendingApprovalStatuses /\ \A s : Claims(a, s)' => Claims(a, s)
  PROVE  Apart'
BY DEF Apart

LEMMA StepApart ==
  ASSUME Apart, NEW w \in Threads, NEW a, StepFor(w, a),
         a \in Approvals \ loose' /\ status'[a] \in pendingApprovalStatuses =>
           status[a] \in pendingApprovalStatuses /\ \A s : Claims(a, s)' => Claims(a, s)
  PROVE  Apart'
<1>1. ASSUME NEW b \in Approvals \ loose', status'[b] \in pendingApprovalStatuses
      PROVE  status[b] \in pendingApprovalStatuses /\ \A s : Claims(b, s)' => Claims(b, s)
  <2>1. CASE b = a
    BY <1>1, <2>1
  <2>2. CASE b # a
    BY <1>1, <2>2, OthersClaims DEF StepFor
  <2> QED
    BY <2>1, <2>2
<1> QED
  BY <1>1, ApartStays DEF StepFor

(* An approval without a form waits for none.                               *)
LEMMA NoFormNoCommand ==
  ASSUME TypeOK, NEW a \in Approvals, \A c \in Commands : form[c].ap # a
  PROVE  lastCmd[a] = 0 /\ spNo[a] = 0
<1>1. lastCmd[a] \in {0} \union Commands /\ spNo[a] \in {0} \union Commands
  BY DEF TypeOK
<1>2. \A c \in {lastCmd[a], spNo[a]} \ {0} : form[c].ap = a
  BY DEF TypeOK
<1> QED
  BY <1>1, <1>2

LEMMA CreateOrder ==
  ASSUME IInv, OrderInv, NEW w \in Threads, Create(w)
  PROVE  OrderInv'
<1>1. TypeOK /\ Fresh /\ FormsOfApprovals /\ InOrder /\ Apart
  BY DEF IInv, OrderInv
<1>2. PICK a \in Approvals : a = thread[w].ap /\ a # NoApproval
  BY ApprovalAssumption DEF IInv, Working, Create, At
<1>3. /\ \A b \in Approvals : b # a => status'[b] = status[b] /\ snap'[b] = snap[b]
      /\ status[a] = "none" /\ status'[a] = "received"
      /\ snap'[a] \subseteq Want[a]
      /\ UNCHANGED <<lastCmd, spNo, form>>
      /\ loose \subseteq loose'
  BY <1>1, <1>2 DEF TypeOK, Create
<1>4. a \notin loose' => \A s \in Want[a] : ~Claimed(s)
  BY <1>2 DEF Create
<1>5. /\ \A u \in Threads : u # w => thread'[u] = thread[u]
      /\ thread'[w].list = {}
      /\ \/ thread'[w].pc = "start" /\ thread'[w].ap = a
         \/ thread'[w].pc = "idle" /\ thread'[w].ap = NoApproval
  <2>1. CASE Go(w, "start", a, {}, 0)
    BY <2>1, <1>1 DEF Go, TypeOK, Job, PCs
  <2>2. CASE End(w)
    BY <1>1, <2>2, EndProperties
  <2> QED
    BY <1>2, <2>1, <2>2 DEF Create
<1>6. \A u \in Threads : u # w /\ thread[u].ap = a => thread[u].pc = "submit" /\ thread[u].list = {}
  BY <1>1, <1>3 DEF Fresh
<1>7. \A c \in Commands : form[c].ap # a
  BY <1>1, <1>3 DEF Fresh
<1>0. StepFor(w, a)
  BY <1>2, <1>3, <1>5 DEF StepFor, AuditPCs
<1>8. ASSUME NEW b \in Approvals \ loose' PROVE Orderly(b)'
  <2>1. CASE b # a
    BY <1>0, <1>1, <2>1, OthersOrderly
  <2>2. CASE b = a
    <3>1. \A u \in Threads : Audits(u, a)' => u = w /\ thread'[w].pc = "start"
      BY <1>2, <1>5, <1>6 DEF Audits, AuditPCs
    <3>2. \A u \in Threads : thread'[u].ap = a => thread'[u].pc # "override"
      BY <1>2, <1>5, <1>6
    <3>3. OneAudit(a)' /\ OneForm(a)'
      BY <1>3, <1>7, <3>1, <3>2 DEF OneAudit, OneForm
    <3>4. AuditKnows(a)'
      BY <1>1, <1>3, <1>7, <3>1, NoFormNoCommand DEF AuditKnows
    <3> QED
      BY <2>2, <3>3, <3>4 DEF Orderly
  <2> QED
    BY <2>1, <2>2
<1>9. FormsOfApprovals' /\ InOrder'
  BY <1>1, <1>3, <1>8 DEF FormsOfApprovals, InOrder
<1>10. Apart'
  <2>1. ASSUME NEW s, Claims(a, s)' PROVE s \in Want[a]
    BY <1>3, <1>5, <1>6, <1>7, <2>1 DEF Claims
  <2>2. \A b \in Approvals : b # a => \A s : Claims(b, s)' => Claims(b, s)
    BY <1>0, OthersClaims
  <2>3. ASSUME NEW b \in Approvals \ loose', b # a, a \notin loose', status[b] \in pendingApprovalStatuses,
               NEW s, Claims(b, s)
        PROVE  s \notin Want[a]
    BY <1>4, <2>3 DEF Claimed
  <2>4. ASSUME NEW b \in Approvals \ loose', NEW d \in Approvals \ loose', b # d, b # a, d # a,
               status'[b] \in pendingApprovalStatuses, status'[d] \in pendingApprovalStatuses, NEW s
        PROVE  ~(Claims(b, s)' /\ Claims(d, s)')
    BY <1>1, <1>3, <2>2, <2>4 DEF Apart
  <2> QED
    BY <1>3, <2>1, <2>2, <2>3, <2>4 DEF Apart
<1> QED
  BY <1>9, <1>10 DEF OrderInv

LEMMA StartOrder ==
  ASSUME IInv, OrderInv, NEW w \in Threads, Start(w)
  PROVE  OrderInv'
<1>1. TypeOK /\ FormsOfApprovals /\ InOrder /\ Apart
  BY DEF IInv, OrderInv
<1>2. PICK a \in Approvals : a = thread[w].ap /\ a # NoApproval
  BY ApprovalAssumption DEF IInv, Working, Start, At
<1>3. /\ \A b \in Approvals : b # a => status'[b] = status[b]
      /\ status[a] # "deleted" => status'[a] = "auditing" /\ Go(w, "audit", a, {}, 0)
      /\ status[a] = "deleted" => status'[a] = "deleted" /\ End(w)
      /\ UNCHANGED <<snap, lastCmd, spNo, form, loose>>
      /\ Audits(w, a) /\ thread[w].pc = "start"
  BY <1>1, <1>2 DEF TypeOK, Start, SetStatus, hist, Audits, AuditPCs, At
<1>4. /\ \A u \in Threads : u # w => thread'[u] = thread[u]
      /\ thread'[w].list = {}
      /\ \/ thread'[w].pc = "audit" /\ thread'[w].ap = a
         \/ status[a] = "deleted" /\ thread'[w].pc = "idle" /\ thread'[w].ap = NoApproval
  <2>1. CASE Go(w, "audit", a, {}, 0)
    BY <1>1, <2>1 DEF Go, TypeOK, Job, PCs
  <2>2. CASE End(w) /\ status[a] = "deleted"
    BY <1>1, <2>2, EndProperties
  <2> QED
    BY <1>3, <2>1, <2>2
<1>0. StepFor(w, a)
  BY <1>2, <1>3, <1>4 DEF StepFor, AuditPCs
<1>5. ASSUME NEW b \in Approvals \ loose' PROVE Orderly(b)'
  <2>1. CASE b # a
    BY <1>0, <1>1, <2>1, OthersOrderly
  <2>2. CASE b = a
    <3>1. Orderly(a)
      BY <1>1, <1>3, <2>2 DEF InOrder
    <3>2. status[a] # "deleted" /\ \A c \in Commands : form[c].ap # a
      BY <1>3, <3>1 DEF Orderly, AuditKnows
    <3>3. thread'[w].pc = "audit" /\ thread'[w].ap = a /\ status'[a] = "auditing"
      BY <1>3, <1>4, <3>2
    <3>4. \A u \in Threads : Audits(u, a)' => u = w
      BY <1>3, <1>4, <3>1 DEF Orderly, OneAudit, Audits
    <3>5. OneAudit(a)' /\ OneForm(a)'
      BY <1>3, <1>4, <3>1, <3>2, <3>3, <3>4 DEF Orderly, OneAudit, OneForm
    <3>6. AuditKnows(a)'
      BY <1>1, <1>3, <3>2, <3>3, <3>4, NoFormNoCommand DEF AuditKnows
    <3> QED
      BY <2>2, <3>5, <3>6 DEF Orderly
  <2> QED
    BY <2>1, <2>2
<1>6. FormsOfApprovals' /\ InOrder'
  BY <1>1, <1>3, <1>5 DEF FormsOfApprovals, InOrder
<1>7. Apart'
  <2>1. a \notin loose => status[a] \in pendingApprovalStatuses
    BY <1>1, <1>3 DEF InOrder, Orderly, AuditKnows, pendingApprovalStatuses
  <2>2. \A s : Claims(a, s)' => Claims(a, s)
    BY <1>3, <1>4, ClaimsAre, ClaimsShrink
  <2> QED
    BY <1>0, <1>1, <1>3, <2>1, <2>2, StepApart
<1> QED
  BY <1>6, <1>7 DEF OrderInv

(* An audit that rejects or fails ends without a form.                      *)
LEMMA AuditEndsOrder ==
  ASSUME IInv, OrderInv, NEW w \in Threads, thread[w].pc \in {"audit", "clear", "insert"}, End(w),
         SetStatus(thread[w].ap, "rejected") \/ SetStatus(thread[w].ap, "failed"),
         UNCHANGED <<snap, lastCmd, spNo, ledger, form, hist>>
  PROVE  OrderInv'
<1>1. TypeOK /\ FormsOfApprovals /\ InOrder /\ Apart
  BY DEF IInv, OrderInv
<1>2. PICK a \in Approvals : a = thread[w].ap /\ a # NoApproval
  BY ApprovalAssumption DEF IInv, Working
<1>3. /\ \A b \in Approvals : b # a => status'[b] = status[b]
      /\ status'[a] \in {"rejected", "failed", "deleted"}
      /\ UNCHANGED <<snap, lastCmd, spNo, form, loose>>
      /\ Audits(w, a) /\ thread[w].pc # "approve"
  BY <1>1, <1>2 DEF TypeOK, SetStatus, hist, Audits, AuditPCs
<1>4. /\ \A u \in Threads : u # w => thread'[u] = thread[u]
      /\ thread'[w].pc = "idle" /\ thread'[w].ap = NoApproval
  BY <1>1, EndProperties
<1>5. StepFor(w, a)
  BY <1>2, <1>3, <1>4 DEF StepFor, AuditPCs
<1>6. ASSUME NEW b \in Approvals \ loose' PROVE Orderly(b)'
  <2>1. CASE b # a
    BY <1>1, <1>5, <2>1, OthersOrderly
  <2>2. CASE b = a
    <3>1. Orderly(a)
      BY <1>1, <1>3, <2>2 DEF InOrder
    <3>2. \A c \in Commands : form[c].ap # a
      BY <1>3, <3>1 DEF Orderly, AuditKnows
    <3>3. \A u \in Threads : ~Audits(u, a)'
      BY <1>2, <1>3, <1>4, <3>1 DEF Orderly, OneAudit, Audits
    <3>4. OneAudit(a)' /\ AuditKnows(a)' /\ OneForm(a)'
      BY <1>2, <1>3, <1>4, <3>1, <3>2, <3>3 DEF Orderly, OneAudit, AuditKnows, OneForm
    <3> QED
      BY <2>2, <3>4 DEF Orderly
  <2> QED
    BY <2>1, <2>2
<1>7. FormsOfApprovals' /\ InOrder'
  BY <1>1, <1>3, <1>6 DEF FormsOfApprovals, InOrder
<1>8. Apart'
  BY <1>1, <1>3, <1>5, StepApart DEF pendingApprovalStatuses
<1> QED
  BY <1>7, <1>8 DEF OrderInv

(* One that goes on claims nothing it did not claim.                        *)
LEMMA AuditGoesOnOrder ==
  ASSUME IInv, OrderInv, NEW w \in Threads, NEW a \in Approvals, thread[w].ap = a,
         thread[w].pc \in {"audit", "clear", "insert"},
         thread'[w].ap = a, thread'[w].pc \in {"clear", "insert", "publish"},
         \A u \in Threads : u # w => thread'[u] = thread[u],
         UNCHANGED <<status, lastCmd, spNo, form, loose>>,
         \A b \in Approvals : b # a => snap'[b] = snap[b],
         \A s \in snap'[a] : Claims(a, s),
         \A s \in thread'[w].list : Claims(a, s)
  PROVE  OrderInv'
<1>1. TypeOK /\ FormsOfApprovals /\ InOrder /\ Apart
  BY DEF IInv, OrderInv
<1>2. Audits(w, a) /\ thread[w].pc # "approve"
  BY DEF Audits, AuditPCs
<1>3. StepFor(w, a)
  BY <1>2 DEF StepFor, AuditPCs
<1>4. ASSUME NEW b \in Approvals \ loose' PROVE Orderly(b)'
  <2>1. CASE b # a
    BY <1>1, <1>3, <2>1, OthersOrderly
  <2>2. CASE b = a
    <3>1. Orderly(a)
      BY <1>1, <2>2 DEF InOrder
    <3>2. \A c \in Commands : form[c].ap # a
      BY <1>2, <3>1 DEF Orderly, AuditKnows
    <3>3. \A u \in Threads : Audits(u, a)' => u = w
      BY <1>2, <3>1 DEF Orderly, OneAudit, Audits
    <3>4. OneAudit(a)' /\ OneForm(a)'
      BY <3>1, <3>2, <3>3 DEF Orderly, OneAudit, OneForm
    <3>5. AuditKnows(a)'
      BY <1>2, <3>1, <3>3 DEF Orderly, AuditKnows
    <3> QED
      BY <2>2, <3>4, <3>5 DEF Orderly
  <2> QED
    BY <2>1, <2>2
<1>5. FormsOfApprovals' /\ InOrder'
  BY <1>1, <1>4 DEF FormsOfApprovals, InOrder
<1>6. Apart'
  <2>1. \A s : Claims(a, s)' => Claims(a, s)
    <3>1. \A u \in Threads : thread'[u].ap = a => \A s \in thread'[u].list : Claims(a, s)
      BY ClaimsAre
    <3>2. \A c \in Commands : form'[c].ap = a => \A s \in form'[c].list : Claims(a, s)
      BY ClaimsAre
    <3> QED
      BY <3>1, <3>2, ClaimsShrink
  <2>2. status[a] = status'[a]
    OBVIOUS
  <2> QED
    BY <1>1, <1>3, <2>1, <2>2, StepApart
<1> QED
  BY <1>5, <1>6 DEF OrderInv

LEMMA FetchOrder ==
  ASSUME IInv, OrderInv, NEW w \in Threads, NEW ids, ids \subseteq snap[thread[w].ap], FetchFrom(w, ids)
  PROVE  OrderInv'
<1> DEFINE a == thread[w].ap
<1>1. a \in Approvals /\ thread[w].pc = "audit" /\ ids \subseteq snap[a]
  BY DEF IInv, Working, FetchFrom, At
<1>2. PICK got \in SUBSET ids :
        thread' = [thread EXCEPT ![w] = [pc |-> "clear", ap |-> a, list |-> got, cmd |-> 0,
                                         todo |-> got, ok |-> got = ids]]
  BY DEF FetchFrom
<1>3. /\ thread'[w].pc = "clear" /\ thread'[w].ap = a /\ thread'[w].list = got
      /\ \A u \in Threads : u # w => thread'[u] = thread[u]
  BY <1>2 DEF IInv, TypeOK
<1>4. UNCHANGED <<status, snap, lastCmd, spNo, form, loose>>
  BY DEF FetchFrom, db
<1>5. \A s \in snap[a] : Claims(a, s)
  BY ClaimsAre
<1>6. (\A s \in snap'[a] : Claims(a, s)) /\ (\A s \in thread'[w].list : Claims(a, s))
  BY <1>1, <1>2, <1>3, <1>4, <1>5
<1> HIDE DEF a
<1> QED
  BY <1>1, <1>3, <1>4, <1>6, AuditGoesOnOrder DEF a

LEMMA RewriteOrder ==
  ASSUME IInv, OrderInv, NEW w \in Threads,
         Clear(w) \/ ClearFails(w) \/ \E s \in Settlements : Insert(w, s) \/ InsertFails(w, s)
  PROVE  OrderInv'
<1> DEFINE a == thread[w].ap
<1>1. a \in Approvals /\ thread[w] \in Job /\ thread[w].pc \in {"clear", "insert"}
  BY DEF IInv, TypeOK, Working, Clear, ClearFails, Insert, InsertFails, At
<1>2. /\ thread'[w].pc = "insert" /\ thread'[w].ap = a /\ thread'[w].list = thread[w].list
      /\ \A u \in Threads : u # w => thread'[u] = thread[u]
  BY <1>1 DEF Clear, ClearFails, Insert, InsertFails, IInv, TypeOK, Job, At
<1>3. UNCHANGED <<status, lastCmd, spNo, form, loose>>
  BY DEF Clear, ClearFails, Insert, InsertFails, db, hist
<1>4. /\ \A b \in Approvals : b # a => snap'[b] = snap[b]
      /\ \A s \in snap'[a] : s \in snap[a] \/ s \in thread[w].todo
  BY <1>1 DEF Clear, ClearFails, Insert, InsertFails, IInv, TypeOK, db
<1>5. thread[w].todo \subseteq thread[w].list
  BY DEF IInv, Working
<1>6. (\A s \in snap[a] : Claims(a, s)) /\ (\A s \in thread[w].list : Claims(a, s))
  BY ClaimsAre
<1>7. (\A s \in snap'[a] : Claims(a, s)) /\ (\A s \in thread'[w].list : Claims(a, s))
  BY <1>2, <1>4, <1>5, <1>6
<1> HIDE DEF a
<1> QED
  BY <1>1, <1>2, <1>3, <1>4, <1>7, AuditGoesOnOrder DEF a

LEMMA JudgeOrder ==
  ASSUME IInv, OrderInv, NEW w \in Threads, Judge(w)
  PROVE  OrderInv'
<1> DEFINE a == thread[w].ap
<1>1. a \in Approvals /\ thread[w].pc = "insert" /\ thread[w].list \in SUBSET Settlements
  BY DEF IInv, TypeOK, Job, Working, Judge, At
<1>2. CASE Go(w, "publish", a, thread[w].list, 0) /\ UNCHANGED status
  <2>1. /\ thread'[w].pc = "publish" /\ thread'[w].ap = a /\ thread'[w].list = thread[w].list
        /\ \A u \in Threads : u # w => thread'[u] = thread[u]
    BY <1>1, <1>2 DEF Go, TypeOK, Job, PCs, IInv
  <2>2. UNCHANGED <<status, snap, lastCmd, spNo, form, loose>>
    BY <1>2 DEF Judge, hist
  <2>3. (\A s \in snap[a] : Claims(a, s)) /\ (\A s \in thread[w].list : Claims(a, s))
    BY ClaimsAre
  <2>4. (\A s \in snap'[a] : Claims(a, s)) /\ (\A s \in thread'[w].list : Claims(a, s))
    BY <2>1, <2>2, <2>3
  <2> HIDE DEF a
  <2> QED
    BY <1>1, <2>1, <2>2, <2>4, AuditGoesOnOrder DEF a
<1>3. CASE SetStatus(a, "rejected") /\ End(w)
  BY <1>1, <1>3, AuditEndsOrder DEF Judge
<1> QED
  BY <1>2, <1>3 DEF Judge

LEMMA FailOrder ==
  ASSUME IInv, OrderInv, NEW w \in Threads, Fail(w)
  PROVE  OrderInv'
BY AuditEndsOrder DEF Fail

(* A step for an approval that is loose afterwards.                         *)
LEMMA LooseOrder ==
  ASSUME OrderInv, NEW w \in Threads, NEW a, StepFor(w, a), a \in loose', FormsOfApprovals'
  PROVE  OrderInv'
<1>1. InOrder'
  BY OthersOrderly DEF OrderInv, InOrder
<1>2. Apart'
  BY StepApart DEF OrderInv
<1> QED
  BY <1>1, <1>2 DEF OrderInv

(* A step of a goroutine that audits nothing, before or after.              *)
LEMMA QuietOrder ==
  ASSUME OrderInv, UNCHANGED <<status, snap, lastCmd, spNo, form>>, loose \subseteq loose',
         \A w \in Threads : \/ thread'[w] = thread[w]
                            \/ /\ thread[w].pc \notin AuditPCs
                               /\ thread'[w].pc \notin AuditPCs \union {"override"}
                               /\ thread'[w].list = {} \/ thread'[w].ap = NoApproval
  PROVE  OrderInv'
<1>1. FormsOfApprovals'
  BY DEF OrderInv, FormsOfApprovals
<1>2. ASSUME NEW a \in Approvals \ loose' PROVE Orderly(a)'
  <2>1. Orderly(a)
    BY DEF OrderInv, InOrder
  <2>2. \A c \in Commands : Waiting(c)' => Waiting(c)
    BY DEF Waiting
  <2>3. \A w \in Threads :
           \/ thread'[w] = thread[w]
           \/ /\ ~Audits(w, a)
              /\ thread'[w].ap = a => thread'[w].pc \notin AuditPCs \union {"override"}
    BY DEF Audits
  <2> QED
    BY <2>1, <2>2, <2>3, OrderlyStays
<1>3. ASSUME NEW a \in Approvals PROVE \A s : Claims(a, s)' => Claims(a, s)
  BY ApprovalAssumption DEF Claims
<1>4. Apart'
  BY <1>3, ApartStays DEF OrderInv
<1> QED
  BY <1>1, <1>2, <1>4 DEF OrderInv, InOrder

LEMMA PublishOrder ==
  ASSUME IInv, OrderInv, NEW w \in Threads, Publish(w)
  PROVE  OrderInv'
<1>1. TypeOK /\ FormsOfApprovals /\ InOrder /\ Apart
  BY DEF IInv, OrderInv
<1>2. PICK a \in Approvals : a = thread[w].ap /\ a # NoApproval /\ thread[w].list \in SUBSET Settlements
  BY <1>1, ApprovalAssumption DEF IInv, Working, Publish, TypeOK, Job
<1>3. PICK c \in Commands :
        /\ form[c] = NoForm
        /\ form' = [form EXCEPT ![c] = [ap |-> a, list |-> thread[w].list, state |-> "sent"]]
        /\ \/ Go(w, "approve", a, thread[w].list, c) /\ UNCHANGED <<status, loose>>
           \/ /\ IF At(w, "publish") THEN SetStatus(a, "failed") ELSE UNCHANGED status
              /\ loose' = loose \union {a} /\ End(w)
  BY <1>2 DEF Publish
<1>4. /\ form'[c].ap = a /\ form'[c].list = thread[w].list
      /\ \A d \in Commands : d # c => form'[d] = form[d]
      /\ form[c].ap = NoApproval
  BY <1>1, <1>3 DEF TypeOK, NoForm
<1>5. /\ \A b \in Approvals : b # a => status'[b] = status[b]
      /\ UNCHANGED <<snap, lastCmd, spNo>> /\ loose \subseteq loose'
      /\ thread[w].pc \in {"publish", "override"}
  BY <1>1, <1>2, <1>3 DEF TypeOK, Publish, SetStatus
<1>6. /\ \A u \in Threads : u # w => thread'[u] = thread[u]
      /\ \/ /\ thread'[w].pc = "approve" /\ thread'[w].ap = a
            /\ thread'[w].list = thread[w].list /\ UNCHANGED <<status, loose>>
         \/ thread'[w].pc = "idle" /\ thread'[w].ap = NoApproval /\ a \in loose'
  <2>1. CASE Go(w, "approve", a, thread[w].list, c) /\ UNCHANGED <<status, loose>>
    <3>1. c \in {0} \union Commands
      OBVIOUS
    <3> QED
      BY <1>1, <1>2, <2>1, <3>1 DEF Go, TypeOK, Job, PCs
  <2>2. CASE End(w) /\ a \in loose'
    BY <1>1, <2>2, EndProperties
  <2> QED
    BY <1>3, <2>1, <2>2
<1>7. StepFor(w, a)
  BY <1>2, <1>4, <1>5, <1>6, ApprovalAssumption DEF StepFor, AuditPCs
<1>8. FormsOfApprovals'
  BY <1>1, <1>2, <1>4 DEF FormsOfApprovals
<1>9. CASE a \in loose'
  BY <1>2, <1>7, <1>8, <1>9, LooseOrder
<1>10. CASE a \notin loose'
  <2>1. Orderly(a) /\ UNCHANGED status
    BY <1>1, <1>5, <1>6, <1>10 DEF InOrder
  <2>2. thread[w].pc = "publish" /\ Audits(w, a)
    BY <1>2, <1>5, <2>1 DEF Orderly, OneAudit, Audits, AuditPCs
  <2>3. /\ \A d \in Commands : form[d].ap # a
        /\ status[a] \in {"received", "auditing"} /\ lastCmd[a] = 0 /\ spNo[a] = 0
    BY <2>1, <2>2 DEF Orderly, AuditKnows
  <2>4. \A u \in Threads : Audits(u, a)' => u = w
    BY <1>6, <2>1, <2>2 DEF Orderly, OneAudit, Audits
  <2>5. thread'[w].pc = "approve" /\ thread'[w].ap = a /\ thread'[w].list = thread[w].list
    BY <1>6, <1>10
  <2>6. OneAudit(a)'
    BY <1>6, <2>1, <2>4, <2>5 DEF Orderly, OneAudit
  <2>7. AuditKnows(a)'
    BY <1>5, <2>1, <2>3, <2>4, <2>5 DEF AuditKnows
  <2>8. \A d \in Commands : form'[d].ap = a => d = c
    BY <1>4, <2>3
  <2>9. OneForm(a)'
    <3>1. Awaits(w, a)'
      BY <2>5 DEF Awaits
    <3>2. status'[a] \in pendingApprovalStatuses
      BY <2>1, <2>3 DEF pendingApprovalStatuses
    <3> QED
      BY <2>8, <3>1, <3>2 DEF OneForm
  <2>10. InOrder'
    BY <1>1, <1>2, <1>7, <2>6, <2>7, <2>9, OthersOrderly DEF InOrder, Orderly
  <2>11. Apart'
    <3>1. \A s \in thread[w].list : Claims(a, s)
      BY <1>2, ClaimsAre
    <3>2. \A s : Claims(a, s)' => Claims(a, s)
      BY <1>4, <1>5, <1>6, <1>10, <3>1, ClaimsAre, ClaimsShrink
    <3> QED
      BY <1>1, <1>7, <2>1, <3>2, StepApart
  <2> QED
    BY <1>8, <2>10, <2>11 DEF OrderInv
<1> QED
  BY <1>9, <1>10

LEMMA FinishPassOrder ==
  ASSUME IInv, OrderInv, NEW w \in Threads, FinishPass(w)
  PROVE  OrderInv'
<1>1. TypeOK /\ FormsOfApprovals /\ InOrder /\ Apart
  BY DEF IInv, OrderInv
<1>2. PICK a \in Approvals : a = thread[w].ap /\ a # NoApproval
  BY ApprovalAssumption DEF IInv, Working, FinishPass, At
<1>3. /\ \A b \in Approvals : b # a => status'[b] = status[b] /\ lastCmd'[b] = lastCmd[b]
      /\ status[a] # "deleted" => status'[a] = "approved"
      /\ UNCHANGED <<snap, spNo, form, loose>>
      /\ Audits(w, a) /\ thread[w].pc = "approve"
  BY <1>1, <1>2 DEF TypeOK, FinishPass, SetStatus, hist, Audits, AuditPCs, At
<1>4. /\ \A u \in Threads : u # w => thread'[u] = thread[u]
      /\ thread'[w].pc = "idle" /\ thread'[w].ap = NoApproval
  BY <1>1, EndProperties DEF FinishPass
<1>5. StepFor(w, a)
  BY <1>2, <1>3, <1>4 DEF StepFor, AuditPCs
<1>6. FormsOfApprovals'
  BY <1>1, <1>3 DEF FormsOfApprovals
<1>7. CASE a \in loose
  BY <1>3, <1>5, <1>6, <1>7, LooseOrder
<1>8. CASE a \notin loose
  <2>1. Orderly(a)
    BY <1>1, <1>8 DEF InOrder
  <2>2. status[a] \in {"received", "auditing"}
    BY <1>3, <2>1 DEF Orderly, AuditKnows
  <2>3. status'[a] = "approved" /\ status[a] \in pendingApprovalStatuses
    BY <1>3, <2>2 DEF pendingApprovalStatuses
  <2>4. \A u \in Threads : ~Audits(u, a)'
    BY <1>2, <1>3, <1>4, <2>1 DEF Orderly, OneAudit, Audits
  <2>5. OneAudit(a)' /\ AuditKnows(a)'
    BY <1>2, <1>4, <2>1, <2>4 DEF Orderly, OneAudit, AuditKnows
  <2>6. OneForm(a)'
    <3>1. \A c \in Commands : Waiting(c)' => Waiting(c)
      BY <1>3 DEF Waiting
    <3> QED
      BY <1>3, <2>1, <2>3, <3>1 DEF Orderly, OneForm, pendingApprovalStatuses
  <2>7. InOrder'
    BY <1>1, <1>5, <2>5, <2>6, OthersOrderly DEF InOrder, Orderly
  <2>8. Apart'
    <3>1. a # NoApproval /\ \A s : Claims(a, s)' => Claims(a, s)
      BY <1>2, <1>3, <1>4, ClaimsAre, ClaimsShrink
    <3> QED
      BY <1>1, <1>5, <2>3, <3>1, StepApart
  <2> QED
    BY <1>6, <2>7, <2>8 DEF OrderInv
<1> QED
  BY <1>7, <1>8

(* Who gives up an audit before its command is sent leaves an approval that *)
(* Rescan takes up; who gives up after that may have lost the command.      *)
LEMMA GiveUpOrder ==
  ASSUME IInv, OrderInv, NEW w \in Threads, GiveUp(w)
  PROVE  OrderInv'
<1>1. TypeOK /\ FormsOfApprovals /\ InOrder /\ Apart
  BY DEF IInv, OrderInv
<1>2. /\ UNCHANGED <<status, snap, lastCmd, spNo, form>> /\ loose \subseteq loose'
      /\ thread[w].pc = "approve" => thread[w].ap \in loose'
  BY DEF GiveUp, db, At
<1>3. /\ \A u \in Threads : u # w => thread'[u] = thread[u]
      /\ thread'[w].pc = "idle" /\ thread'[w].ap = NoApproval
  BY <1>1, EndProperties DEF GiveUp
<1>4. StepFor(w, thread[w].ap)
  BY <1>2, <1>3 DEF StepFor, AuditPCs
<1>5. FormsOfApprovals' /\ Apart'
  <2>1. ASSUME NEW a \in Approvals PROVE \A s : Claims(a, s)' => Claims(a, s)
    BY <1>2, <1>3, ApprovalAssumption DEF Claims
  <2> QED
    BY <1>1, <1>2, <2>1, ApartStays DEF FormsOfApprovals
<1>6. ASSUME NEW a \in Approvals \ loose', a = thread[w].ap PROVE Orderly(a)'
  <2>1. Orderly(a) /\ thread[w].pc # "approve" /\ a # NoApproval
    BY <1>1, <1>2, <1>6, ApprovalAssumption DEF InOrder
  <2>2. OneAudit(a)'
    BY <1>3, <2>1 DEF Orderly, OneAudit, Audits
  <2>3. \A u \in Threads : Audits(u, a)' => Audits(u, a) /\ thread'[u] = thread[u]
    BY <1>3, <2>1 DEF Audits
  <2>4. AuditKnows(a)'
    BY <1>2, <2>1, <2>3 DEF Orderly, AuditKnows
  <2>5. \A u \in Threads : Awaits(u, a) => Awaits(u, a)'
    BY <1>3, <2>1 DEF Awaits
  <2>6. \A c \in Commands : Waiting(c)' => Waiting(c)
    BY <1>2 DEF Waiting
  <2>7. OneForm(a)'
    BY <1>2, <2>1, <2>5, <2>6 DEF Orderly, OneForm
  <2> QED
    BY <2>2, <2>4, <2>7 DEF Orderly
<1>7. InOrder'
  BY <1>1, <1>4, <1>6, OthersOrderly DEF InOrder
<1> QED
  BY <1>5, <1>7 DEF OrderInv

(* The approval that is taken up again is loose, but for one Rescan finds   *)
(* without a goroutine.                                                     *)
LEMMA TakeUpOrder ==
  ASSUME IInv, OrderInv, NEW w \in Threads, NEW a \in Approvals,
         Rescan(w, a) \/ Retry(w, a) \/ AdminApprove(w, a)
  PROVE  OrderInv'
<1>1. TypeOK /\ FormsOfApprovals /\ InOrder /\ Apart
  BY DEF IInv, OrderInv
<1>2. /\ UNCHANGED <<snap, lastCmd, spNo, form>> /\ loose \subseteq loose'
      /\ \A b \in Approvals : b # a => status'[b] = status[b]
      /\ thread[w].pc = "idle"
  BY <1>1 DEF TypeOK, Rescan, Retry, AdminApprove, db, SetStatus, At
<1>3. /\ \A u \in Threads : u # w => thread'[u] = thread[u]
      /\ thread'[w].ap = a /\ thread'[w].pc \in {"start", "override"}
  BY <1>1 DEF TypeOK, Rescan, Retry, AdminApprove, Go
<1>4. StepFor(w, a)
  BY <1>2, <1>3 DEF StepFor, AuditPCs
<1>5. FormsOfApprovals'
  BY <1>1, <1>2 DEF FormsOfApprovals
<1>6. CASE a \in loose'
  BY <1>4, <1>5, <1>6, LooseOrder
<1>7. CASE a \notin loose'
  <2>1. /\ status[a] \in {"received", "auditing"} /\ UNCHANGED <<status, loose>>
        /\ thread'[w].pc = "start" /\ thread'[w].list = {} /\ \A u \in Threads : thread[u].ap # a
    BY <1>1, <1>7 DEF TypeOK, Rescan, Retry, AdminApprove, Running, db, Go
  <2>2. Orderly(a)
    BY <1>1, <1>7, <2>1 DEF InOrder
  <2>3. \A c \in Commands : form[c].ap # a
    BY <2>1, <2>2 DEF Orderly, OneForm, Awaits
  <2>4. lastCmd[a] = 0 /\ spNo[a] = 0
    BY <1>1, <2>3, NoFormNoCommand
  <2>5. \A u \in Threads : Audits(u, a)' => u = w
    BY <1>3, <2>1 DEF Audits
  <2>6. OneAudit(a)'
    BY <1>3, <2>1, <2>5 DEF OneAudit
  <2>7. AuditKnows(a)' /\ OneForm(a)'
    BY <1>2, <2>1, <2>3, <2>4, <2>5 DEF AuditKnows, OneForm
  <2>8. InOrder'
    BY <1>1, <1>4, <2>6, <2>7, OthersOrderly DEF InOrder, Orderly
  <2>9. Apart'
    <3>1. \A s : Claims(a, s)' => Claims(a, s)
      <4>1. \A u \in Threads : thread'[u].ap = a => \A s \in thread'[u].list : Claims(a, s)
        BY <1>3, <2>1
      <4>2. /\ \A s \in snap'[a] : Claims(a, s)
            /\ \A c \in Commands : form'[c].ap = a => \A s \in form'[c].list : Claims(a, s)
        BY <1>2, ClaimsAre
      <4> QED
        BY <4>1, <4>2, ClaimsShrink
    <3> QED
      BY <1>1, <1>4, <2>1, <3>1, StepApart
  <2> QED
    BY <1>5, <2>8, <2>9 DEF OrderInv
<1> QED
  BY <1>6, <1>7

LEMMA FormMovesOrder ==
  ASSUME IInv, OrderInv, NEW c \in Commands, WecomOpens(c) \/ PeopleDecide(c)
  PROVE  OrderInv'
<1>1. TypeOK /\ FormsOfApprovals /\ InOrder /\ Apart
  BY DEF IInv, OrderInv
<1>2. /\ UNCHANGED <<status, snap, lastCmd, spNo, thread, loose>>
      /\ form[c].state # "none"
  BY DEF WecomOpens, PeopleDecide, db, hist
<1>3. /\ \A d \in Commands : form'[d].ap = form[d].ap /\ form'[d].list = form[d].list
      /\ \A d \in Commands : form'[d].state # "none" => form[d].state # "none"
      /\ \A d \in Commands : Waiting(d)' => Waiting(d)
  <2>1. PICK s : form' = [form EXCEPT ![c].state = s] /\ (s \in {"sent", "open"} => Waiting(c))
    BY DEF WecomOpens, PeopleDecide, Waiting
  <2>2. DOMAIN form = Commands /\ form[c] = [ap |-> form[c].ap, list |-> form[c].list, state |-> form[c].state]
    BY <1>1 DEF TypeOK
  <2>3. /\ \A d \in Commands : d # c => form'[d] = form[d]
        /\ form'[c] = [ap |-> form[c].ap, list |-> form[c].list, state |-> s]
    BY <2>1, <2>2
  <2> QED
    BY <1>2, <2>1, <2>3 DEF Waiting
<1>4. FormsOfApprovals' /\ Apart'
  <2>1. \A a, s : Claims(a, s)' => Claims(a, s)
    BY <1>2, <1>3 DEF Claims
  <2> QED
    BY <1>1, <1>2, <1>3, <2>1, ApartStays DEF FormsOfApprovals
<1>5. ASSUME NEW a \in Approvals \ loose' PROVE Orderly(a)'
  <2>1. Orderly(a)
    BY <1>1, <1>2 DEF InOrder
  <2> QED
    BY <1>2, <1>3, <2>1, OrderlyStays
<1> QED
  BY <1>4, <1>5 DEF OrderInv, InOrder

(* What comes back for a form: nobody audits its approval any more, and it  *)
(* is the only form of it.                                                  *)
LEMMA AnswerOrder ==
  ASSUME IInv, OrderInv, NEW a \in Approvals, NEW c \in Commands, form[c].ap = a,
         lastCmd[a] # 0 \/ spNo[a] # 0,
         UNCHANGED <<snap, lastCmd, form, loose>>,
         \A b \in Approvals : b # a => status'[b] = status[b] /\ spNo'[b] = spNo[b],
         status'[a] = status[a] \/ (~Waiting(c) /\ status'[a] \notin pendingApprovalStatuses),
         \A w \in Threads : \/ thread'[w] = thread[w]
                            \/ /\ thread[w].pc \notin AuditPCs
                               /\ thread'[w].pc \notin AuditPCs \union {"override"}
                               /\ thread'[w].ap = a /\ thread'[w].list \subseteq snap[a]
  PROVE  OrderInv'
<1>1. FormsOfApprovals /\ InOrder /\ Apart
  BY DEF OrderInv
<1>2. FormsOfApprovals' /\ Apart'
  <2>1. \A b \in Approvals : \A s : Claims(b, s)' => Claims(b, s)
    BY DEF Claims
  <2>2. \A b \in Approvals : status'[b] \in pendingApprovalStatuses => status[b] \in pendingApprovalStatuses
    OBVIOUS
  <2> QED
    BY <1>1, <2>1, <2>2, ApartStays DEF FormsOfApprovals
<1>3. \A d \in Commands : Waiting(d)' <=> Waiting(d)
  BY DEF Waiting
<1>4. \A w \in Threads, b \in Approvals :
         \/ thread'[w] = thread[w]
         \/ /\ ~Audits(w, b)
            /\ thread'[w].ap = b => thread'[w].pc \notin AuditPCs \union {"override"}
  BY DEF Audits
<1>5. ASSUME NEW b \in Approvals \ loose' PROVE Orderly(b)'
  <2>1. Orderly(b)
    BY <1>1 DEF InOrder
  <2>2. CASE b # a
    BY <1>3, <1>4, <2>1, <2>2, OrderlyStays
  <2>3. CASE b = a
    <3>1. \A w \in Threads : ~Audits(w, a)
      BY <2>1, <2>3 DEF Orderly, AuditKnows
    <3>2. \A w \in Threads : ~Audits(w, a)' /\ ~Awaits(w, a) /\ ~Awaits(w, a)'
      BY <1>4, <3>1 DEF Audits, Awaits, AuditPCs
    <3>3. OneAudit(a)' /\ AuditKnows(a)'
      BY <1>4, <2>1, <2>3, <3>2 DEF Orderly, OneAudit, AuditKnows
    <3>4. \A d \in Commands : form[d].ap = a => d = c
      BY <2>1, <2>3 DEF Orderly, OneForm
    <3>5. OneForm(a)'
      BY <1>3, <2>1, <2>3, <3>2, <3>4 DEF Orderly, OneForm, pendingApprovalStatuses
    <3> QED
      BY <2>3, <3>3, <3>5 DEF Orderly
  <2> QED
    BY <2>2, <2>3
<1> QED
  BY <1>2, <1>5 DEF OrderInv, InOrder

LEMMA OnCommandResultOrder ==
  ASSUME IInv, OrderInv, NEW c \in Commands, NEW a \in Approvals, OnCommandResult(c, a)
  PROVE  OrderInv'
<1>1. TypeOK /\ c # 0
  BY ApprovalAssumption DEF IInv, Commands
<1>2. form[c].ap = a /\ lastCmd[a] # 0
  BY <1>1 DEF TypeOK, OnCommandResult
<1>3. /\ UNCHANGED <<snap, lastCmd, form, loose, thread>>
      /\ \A b \in Approvals : b # a => status'[b] = status[b] /\ spNo'[b] = spNo[b]
      /\ status'[a] = status[a] \/ (~Waiting(c) /\ status'[a] \notin pendingApprovalStatuses)
  BY <1>1 DEF TypeOK, OnCommandResult, SetStatus, hist, Waiting, pendingApprovalStatuses
<1> QED
  BY <1>2, <1>3, AnswerOrder

LEMMA OnStatusChangedOrder ==
  ASSUME IInv, OrderInv, NEW w \in Threads, NEW c \in Commands, NEW a \in Approvals,
         OnStatusChanged(w, c, a)
  PROVE  OrderInv'
<1>1. TypeOK /\ c # 0
  BY ApprovalAssumption DEF IInv, Commands
<1>2. form[c].ap = a /\ spNo[a] # 0
  BY <1>1 DEF TypeOK, OnStatusChanged
<1>3. PICK s \in Decisions(c) :
        /\ SetStatus(a, s)
        /\ IF s = "human_approved" THEN Go(w, "book", a, Unpaid(snap[a]), 0) ELSE UNCHANGED thread
  BY DEF OnStatusChanged
<1>4. s \in {"human_approved", "cancelled"} /\ ~Waiting(c)
  BY DEF Decisions, Waiting
<1>5. /\ UNCHANGED <<snap, lastCmd, form, loose, spNo>>
      /\ \A b \in Approvals : b # a => status'[b] = status[b]
      /\ status'[a] \notin pendingApprovalStatuses
  BY <1>1, <1>3, <1>4 DEF TypeOK, OnStatusChanged, SetStatus, hist, pendingApprovalStatuses
<1>6. \A u \in Threads : \/ thread'[u] = thread[u]
                         \/ /\ thread[u].pc \notin AuditPCs
                            /\ thread'[u].pc \notin AuditPCs \union {"override"}
                            /\ thread'[u].ap = a /\ thread'[u].list \subseteq snap[a]
  <2>1. thread[w].pc = "idle"
    BY DEF OnStatusChanged, At
  <2>2. Unpaid(snap[a]) \in SUBSET Settlements /\ Unpaid(snap[a]) \subseteq snap[a]
    BY <1>1 DEF TypeOK, Unpaid
  <2>3. CASE s = "human_approved"
    BY <1>1, <1>3, <2>1, <2>2, <2>3 DEF Go, TypeOK, Job, PCs, AuditPCs
  <2>4. CASE s # "human_approved"
    BY <1>3, <2>4
  <2> QED
    BY <2>3, <2>4
<1> QED
  BY <1>2, <1>4, <1>5, <1>6, AnswerOrder

LEMMA DeleteApprovalOrder ==
  ASSUME IInv, OrderInv, NEW a \in Approvals, DeleteApproval(a)
  PROVE  OrderInv'
<1>1. TypeOK /\ FormsOfApprovals /\ InOrder /\ Apart
  BY DEF IInv, OrderInv
<1>2. /\ \A b \in Approvals : b # a => /\ status'[b] = status[b] /\ snap'[b] = snap[b]
                                       /\ lastCmd'[b] = lastCmd[b] /\ spNo'[b] = spNo[b]
      /\ status'[a] = "deleted" /\ status[a] \in terminalStatuses
      /\ UNCHANGED <<form, thread, loose>>
  BY <1>1 DEF TypeOK, DeleteApproval, hist
<1>3. FormsOfApprovals' /\ Apart'
  <2>1. \A b \in Approvals : b # a => \A s : Claims(b, s)' => Claims(b, s)
    BY <1>2 DEF Claims
  <2> QED
    BY <1>1, <1>2, <2>1, ApartStays DEF FormsOfApprovals, pendingApprovalStatuses
<1>4. \A d \in Commands : Waiting(d)' <=> Waiting(d)
  BY <1>2 DEF Waiting
<1>5. ASSUME NEW b \in Approvals \ loose' PROVE Orderly(b)'
  <2>1. Orderly(b)
    BY <1>1, <1>2 DEF InOrder
  <2>2. CASE b # a
    BY <1>2, <1>4, <2>1, <2>2, OrderlyStays
  <2>3. CASE b = a
    <3>1. \A w \in Threads : ~Audits(w, a)
      BY <1>2, <2>1, <2>3 DEF Orderly, AuditKnows, terminalStatuses
    <3>2. \A w \in Threads : ~Audits(w, a)'
      BY <1>2, <3>1 DEF Audits
    <3>3. OneAudit(a)' /\ AuditKnows(a)'
      BY <1>2, <2>1, <2>3, <3>2 DEF Orderly, OneAudit, AuditKnows
    <3>4. \A d \in Commands : form[d].ap = a => ~Waiting(d)
      BY <1>2, <2>1, <2>3 DEF Orderly, OneForm, terminalStatuses, pendingApprovalStatuses
    <3>5. OneForm(a)'
      BY <1>2, <1>4, <2>1, <2>3, <3>4 DEF Orderly, OneForm
    <3> QED
      BY <2>3, <3>3, <3>5 DEF Orderly
  <2> QED
    BY <2>2, <2>3
<1> QED
  BY <1>3, <1>5 DEF OrderInv, InOrder

LEMMA StepOrderInv == IInv /\ OrderInv /\ [Next]_vars => OrderInv'
<1> SUFFICES ASSUME IInv, OrderInv, [Next]_vars PROVE OrderInv'
  OBVIOUS
<1>1. TypeOK
  BY DEF IInv
<1>2. CASE UsualStep
  <2>1. ASSUME NEW w \in Threads, Book(w) \/ ApplyInit(w)
        PROVE  OrderInv'
    <3>1. \A u \in Threads : u # w => thread'[u] = thread[u]
      BY <1>1, <2>1, EndProperties DEF Book, ApplyInit
    <3>2. thread[w].pc \in {"book", "init"} /\ thread'[w].pc = "idle" /\ thread'[w].list = {}
      BY <1>1, <2>1, EndProperties DEF Book, ApplyInit, At
    <3>3. UNCHANGED <<status, snap, lastCmd, spNo, form, loose>>
      BY <2>1 DEF Book, ApplyInit
    <3> QED
      BY <3>1, <3>2, <3>3, QuietOrder DEF AuditPCs
  <2>2. ASSUME NEW w \in Threads, NEW a \in Approvals, CheckPending(w, a)
        PROVE  OrderInv'
    <3>1. /\ \A u \in Threads : u # w => thread'[u] = thread[u]
          /\ thread[w].pc = "idle" /\ thread'[w].pc = "submit" /\ thread'[w].list = {}
      BY <1>1, <2>2 DEF TypeOK, CheckPending, Go, At
    <3>2. UNCHANGED <<status, snap, lastCmd, spNo, form, loose>>
      BY <2>2 DEF CheckPending, db, hist
    <3> QED
      BY <3>1, <3>2, QuietOrder DEF AuditPCs
  <2>3. ASSUME NEW w \in Threads,
               \/ Create(w) \/ Start(w) \/ Clear(w) \/ Judge(w) \/ Publish(w) \/ FinishPass(w)
               \/ \E s \in Settlements : Insert(w, s)
               \/ \E a \in Approvals : \E c \in Commands : OnStatusChanged(w, c, a)
        PROVE  OrderInv'
    BY <2>3, CreateOrder, StartOrder, RewriteOrder, JudgeOrder, PublishOrder, FinishPassOrder,
       OnStatusChangedOrder
  <2>4. ASSUME NEW c \in Commands,
               WecomOpens(c) \/ PeopleDecide(c) \/ \E a \in Approvals : OnCommandResult(c, a)
        PROVE  OrderInv'
    BY <2>4, FormMovesOrder, OnCommandResultOrder
  <2>5. ASSUME NEW w \in Threads, Fetch(w)
        PROVE  OrderInv'
    BY <2>5, FetchOrder DEF Fetch
  <2> QED
    BY <1>2, <2>1, <2>2, <2>3, <2>4, <2>5 DEF UsualStep
<1>3. CASE RareStep
  <2>1. ASSUME NEW w \in Threads,
               \/ ClearFails(w) \/ Fail(w) \/ GiveUp(w)
               \/ \E s \in Settlements : InsertFails(w, s)
               \/ \E a \in Approvals : Rescan(w, a) \/ Retry(w, a) \/ AdminApprove(w, a)
        PROVE  OrderInv'
    BY <2>1, RewriteOrder, FailOrder, GiveUpOrder, TakeUpOrder
  <2>2. ASSUME NEW w \in Threads, NEW S \in SUBSET Settlements, LookInit(w, S)
        PROVE  OrderInv'
    <3>1. /\ \A u \in Threads : u # w => thread'[u] = thread[u]
          /\ thread[w].pc = "idle" /\ thread'[w].pc = "init" /\ thread'[w].ap = NoApproval
      BY <1>1, <2>2 DEF TypeOK, LookInit, Go, At
    <3>2. UNCHANGED <<status, snap, lastCmd, spNo, form, loose>>
      BY <2>2 DEF LookInit, db, hist
    <3> QED
      BY <3>1, <3>2, QuietOrder DEF AuditPCs
  <2>3. ASSUME NEW S \in SUBSET Settlements, RevertInit(S)
        PROVE  OrderInv'
    BY <2>3, QuietOrder DEF RevertInit, hist
  <2>4. ASSUME NEW a \in Approvals, DeleteApproval(a)
        PROVE  OrderInv'
    BY <2>4, DeleteApprovalOrder
  <2>5. ASSUME NEW w \in Threads, FetchBlind(w)
        PROVE  OrderInv'
    BY <2>5, FetchOrder DEF FetchBlind
  <2> QED
    BY <1>3, <2>1, <2>2, <2>3, <2>4, <2>5 DEF RareStep
<1>4. CASE SecondRun
  BY <1>4, TakeUpOrder DEF SecondRun
<1>5. CASE UNCHANGED vars
  BY <1>5, QuietOrder DEF vars, db, hist
<1> QED
  BY <1>2, <1>3, <1>4, <1>5 DEF Next

LEMMA OrderInvariant == Spec => []OrderInv
BY Invariant, InitOrderInv, StepOrderInv, PTL DEF Spec

(* A settlement is put before people once at a time (SubmitApproval looks   *)
(* for pending approvals, runAudit sends one command), unless one approval  *)
(* was submitted while another in process had a claim on the settlement     *)
(* that the check did not see, or an approval was taken up again or lost    *)
(* track of its command.                                                    *)
THEOREM OneFormEach == Spec => []OneFormUnlessLoose
<1>1. OrderInv => OneFormUnlessLoose
  <2> SUFFICES ASSUME OrderInv, NEW c \in Commands, NEW d \in Commands, c # d,
                      Waiting(c), Waiting(d), NEW s \in form[c].list \cap form[d].list,
                      {form[c].ap, form[d].ap} \cap loose = {}
               PROVE  FALSE
    BY DEF OneFormUnlessLoose
  <2>1. PICK a \in Approvals \ loose : a = form[c].ap
    BY DEF OrderInv, FormsOfApprovals, Waiting
  <2>2. PICK b \in Approvals \ loose : b = form[d].ap
    BY DEF OrderInv, FormsOfApprovals, Waiting
  <2>3. Orderly(a) /\ Orderly(b)
    BY DEF OrderInv, InOrder
  <2>4. a # b
    BY <2>1, <2>2, <2>3 DEF Orderly, OneForm
  <2>5. /\ status[a] \in pendingApprovalStatuses /\ Claims(a, s)
        /\ status[b] \in pendingApprovalStatuses /\ Claims(b, s)
    BY <2>1, <2>2, <2>3 DEF Orderly, OneForm, Claims
  <2> QED
    BY <2>4, <2>5 DEF OrderInv, Apart
<1> QED
  BY OrderInvariant, <1>1, PTL

-----------------------------------------------------------------------------
(* One a month.                                                             *)

(* In the running for its month: neither out now nor brought back.          *)
Active(b) == state[b] \notin Out \union {"none", "deleted"} /\ b \notin revived

Writing(w) == worker[w].pc \in {"write_count", "write_end"}

(* A bill that was not submitted has left no trace.                         *)
NewIsBlank ==
  \A b \in Bills : state[b] = "none" =>
    b \notin items /\ tally[b] = "none" /\ result[b] = "none" /\ events[b] = {}

(* Who works on a bill works on one that was submitted, and on its items.   *)
WorkersKnow ==
  \A w \in Workers :
    /\ worker[w].pc \in {"store", "start", "decide", "count", "send", "fill_count", "write_count"} =>
         worker[w].bill \in Bills /\ state[worker[w].bill] # "none"
    /\ worker[w].pc = "decide" /\ worker[w].item => worker[w].bill \in items
    /\ worker[w].pc \in {"count", "fill_count", "write_count"} => worker[w].bill \in items
    /\ worker[w].pc = "count" => filled

(* What the backfill read counts for every bill still in the running.       *)
ReadCounts ==
  \A w \in Workers : Writing(w) =>
    \A b \in Bills : LET r == worker[w].read[b] IN
      /\ r # "unread" => b \in items /\ r # "none"
      /\ Active(b) => r \notin Out

(* Items have their row, or the backfill under way has read them.           *)
ItemsHaveRows ==
  \A b \in items : state[b] # "deleted" =>
    /\ filled => tally[b] # "none"
    /\ \A w \in Workers : Writing(w) /\ worker[w].read[b] = "unread" => tally[b] # "none"

(* The row of a bill in the running counts, if there is one.                *)
RowsCount == \A b \in Bills : Active(b) => tally[b] \notin Out

(* A bill judged satisfied has its row.                                     *)
JudgedHasRow == \A b \in Bills : Active(b) /\ result[b] = "satisfied" => tally[b] # "none"

(* Of two bills of a month that are in the running only one is judged       *)
(* satisfied.                                                               *)
OneJudged ==
  \A b, c \in Bills :
    b # c /\ SameMonth(b, c) /\ Active(b) /\ Active(c) =>
      ~(result[b] = "satisfied" /\ result[c] = "satisfied")

FlowIInv ==
  /\ FlowTypeOK
  /\ NewIsBlank
  /\ WorkersKnow
  /\ ReadCounts
  /\ ItemsHaveRows
  /\ RowsCount
  /\ JudgedHasRow
  /\ OneJudged

-----------------------------------------------------------------------------
LEMMA InitFlowIInv == FlowInit => FlowIInv
<1> SUFFICES ASSUME FlowInit PROVE FlowIInv
  OBVIOUS
<1> USE FlowAssumption DEF FlowInit
<1>1. FlowTypeOK
  BY DEF FlowTypeOK, BillStatuses, WorkerPCs, Deletable, Out, Free, Unread
<1>2. NewIsBlank
  BY DEF NewIsBlank
<1>3. WorkersKnow /\ ReadCounts /\ ItemsHaveRows
  BY DEF WorkersKnow, ReadCounts, ItemsHaveRows, Writing, Free
<1>4. RowsCount /\ JudgedHasRow /\ OneJudged
  BY DEF RowsCount, JudgedHasRow, OneJudged, Out
<1> QED
  BY <1>1, <1>2, <1>3, <1>4 DEF FlowIInv

(* A step that leaves the table alone and brings nobody into the running.   *)
LEMMA KeepsTable ==
  ASSUME FlowIInv, NEW w \in Workers, UNCHANGED table,
         \A v \in Workers \ {w} : worker'[v] = worker[v],
         ~Writing(w)',
         \A c \in Bills : Active(c)' => Active(c),
         \A c \in Bills : state[c] = "deleted" => state'[c] = "deleted"
  PROVE  ReadCounts' /\ ItemsHaveRows' /\ RowsCount'
<1>1. ReadCounts'
  BY DEF FlowIInv, ReadCounts, Writing, table
<1>2. ItemsHaveRows'
  BY DEF FlowIInv, FlowTypeOK, ItemsHaveRows, Writing, table
<1>3. RowsCount'
  BY DEF FlowIInv, RowsCount, table
<1> QED
  BY <1>1, <1>2, <1>3

(* A step that finds no bill satisfied.                                     *)
LEMMA KeepsJudgements ==
  ASSUME FlowIInv, UNCHANGED tally,
         \A c \in Bills : Active(c)' => Active(c),
         \A c \in Bills : result'[c] = "satisfied" => result[c] = "satisfied"
  PROVE  JudgedHasRow' /\ OneJudged'
  BY DEF FlowIInv, JudgedHasRow, OneJudged

-----------------------------------------------------------------------------
WorkerType ==
  [pc : WorkerPCs, bill : Bills \union {NoBill}, item : BOOLEAN,
   read : [Bills -> BillStatuses \union {"unread"}]]

LEMMA UnreadType == Unread \in [Bills -> BillStatuses \union {"unread"}]
  BY DEF Unread

(* What Work does to the workers.                                           *)
LEMMA WorkDone ==
  ASSUME FlowTypeOK, NEW w \in Workers, NEW r \in WorkerType,
         worker' = [worker EXCEPT ![w] = r]
  PROVE  /\ worker' \in [Workers -> WorkerType]
         /\ worker'[w] = r
         /\ \A v \in Workers \ {w} : worker'[v] = worker[v]
<1>1. worker \in [Workers -> WorkerType]
  BY DEF FlowTypeOK, WorkerType
<1> QED
  BY <1>1

(* A worker that is done.                                                   *)
LEMMA DoneDone ==
  ASSUME FlowTypeOK, NEW w \in Workers, Done(w)
  PROVE  /\ worker' \in [Workers -> WorkerType]
         /\ worker'[w].pc = "idle"
         /\ \A v \in Workers \ {w} : worker'[v] = worker[v]
<1> DEFINE r == [pc |-> "idle", bill |-> NoBill, item |-> FALSE, read |-> Unread]
<1>1. r \in WorkerType /\ r.pc = "idle"
  BY UnreadType DEF WorkerType, WorkerPCs
<1>2. worker' = [worker EXCEPT ![w] = r]
  BY DEF Done, Take, Work
<1> HIDE DEF r
<1> QED
  BY <1>1, <1>2, WorkDone

(* A worker that goes on with its bill.                                     *)
LEMMA StepDone ==
  ASSUME FlowTypeOK, NEW w \in Workers, NEW pc \in WorkerPCs, Step(w, pc)
  PROVE  /\ worker' \in [Workers -> WorkerType]
         /\ worker'[w].pc = pc /\ worker'[w].bill = worker[w].bill
         /\ worker'[w].read = worker[w].read
         /\ \A v \in Workers \ {w} : worker'[v] = worker[v]
<1> DEFINE r == [pc |-> pc, bill |-> worker[w].bill, item |-> worker[w].item,
                 read |-> worker[w].read]
<1>1. worker[w] \in WorkerType
  BY DEF FlowTypeOK, WorkerType
<1>2. r \in WorkerType /\ r.pc = pc /\ r.bill = worker[w].bill /\ r.read = worker[w].read
  BY <1>1 DEF WorkerType
<1>3. worker' = [worker EXCEPT ![w] = r]
  BY DEF Step, Work
<1> HIDE DEF r
<1> QED
  BY <1>2, <1>3, WorkDone

(* A status written by id brings no bill into the running, but a new one.   *)
LEMMA PutDone ==
  ASSUME FlowTypeOK, NEW b \in Bills, NEW s \in BillStatuses \ {"none", "deleted"}, Put(b, s)
  PROVE  /\ state' \in [Bills -> BillStatuses]
         /\ revived' \subseteq Bills
         /\ \A c \in Bills \ {b} : state'[c] = state[c]
         /\ state[b] = "deleted" => state'[b] = "deleted"
         /\ state[b] # "deleted" => state'[b] = s
         /\ \A c \in Bills : Active(c)' => Active(c) \/ state[c] = "none"
  BY DEF FlowTypeOK, Put, Active, Out

(* Submitting starts from a blank bill.                                     *)
LEMMA SubmitStep ==
  ASSUME FlowIInv, NEW w \in Workers, NEW b \in Bills, SubmitBill(w, b)
  PROVE  FlowIInv'
<1> USE DEF SubmitBill, Put, Take, Work, PC, Unread, table, config
<1>1. FlowTypeOK'
  BY DEF FlowIInv, WorkersKnow, FlowTypeOK, BillStatuses, WorkerPCs, Deletable, Out
<1>2. NewIsBlank' /\ WorkersKnow'
  BY DEF FlowIInv, FlowTypeOK, NewIsBlank, WorkersKnow, BillStatuses, Out, Deletable
<1>3. ReadCounts' /\ ItemsHaveRows'
  BY DEF FlowIInv, FlowTypeOK, NewIsBlank, WorkersKnow, ReadCounts, ItemsHaveRows, Writing, Active, Out
<1>4. RowsCount' /\ JudgedHasRow'
  BY DEF FlowIInv, FlowTypeOK, NewIsBlank, WorkersKnow, ReadCounts, ItemsHaveRows, RowsCount,
         JudgedHasRow, Writing, Active, Out
<1>5. OneJudged'
  BY DEF FlowIInv, FlowTypeOK, NewIsBlank, OneJudged, Active, Out
<1> QED
  BY <1>1, <1>2, <1>3, <1>4, <1>5 DEF FlowIInv

(* The items and their row come together.                                   *)
LEMMA StoreStep ==
  ASSUME FlowIInv, NEW w \in Workers, StoreItems(w)
  PROVE  FlowIInv'
<1> USE DEF StoreItems, Step, Work, PC, config
<1>1. FlowTypeOK'
  BY DEF FlowIInv, WorkersKnow, FlowTypeOK, BillStatuses, WorkerPCs, Deletable, Out
<1>2. NewIsBlank' /\ WorkersKnow'
  BY DEF FlowIInv, FlowTypeOK, NewIsBlank, WorkersKnow, BillStatuses, Out, Deletable
<1>3. ReadCounts' /\ ItemsHaveRows'
  BY DEF FlowIInv, FlowTypeOK, NewIsBlank, WorkersKnow, ReadCounts, ItemsHaveRows, Writing, Active, Out
<1>4. RowsCount' /\ JudgedHasRow'
  BY DEF FlowIInv, FlowTypeOK, NewIsBlank, WorkersKnow, ReadCounts, ItemsHaveRows, RowsCount,
         JudgedHasRow, Writing, Active, Out
<1>5. OneJudged'
  BY DEF FlowIInv, FlowTypeOK, NewIsBlank, OneJudged, Active, Out
<1> QED
  BY <1>1, <1>2, <1>3, <1>4, <1>5 DEF FlowIInv

(* An audit that begins, also for the second time.                          *)
LEMMA StartStep ==
  ASSUME FlowIInv, NEW w \in Workers, StartAudit(w)
  PROVE  FlowIInv'
<1> DEFINE b == worker[w].bill
<1>1. b \in Bills /\ state[b] # "none"
  BY DEF FlowIInv, WorkersKnow, StartAudit, PC
<1>2. FlowTypeOK
  BY DEF FlowIInv
<1>3. /\ worker' \in [Workers -> WorkerType]
      /\ \A v \in Workers \ {w} : worker'[v] = worker[v]
      /\ worker'[w].pc \in {"idle", "decide"}
      /\ worker'[w].pc = "decide" => worker'[w].bill = b /\ (worker'[w].item => b \in items)
  <2>1. CASE state[b] = "deleted"
    <3>1. Done(w)
      BY <2>1 DEF StartAudit
    <3> QED
      BY <3>1, <1>2, DoneDone
  <2>2. CASE state[b] # "deleted"
    <3>0. PICK i \in BOOLEAN : i = (b \in items)
      <4>1. CASE b \in items
        BY <4>1, Zenon
      <4>2. CASE b \notin items
        <5>1. FALSE = (b \in items)
          BY <4>2
        <5> QED
          BY <5>1, Zenon
      <4> QED
        BY <4>1, <4>2, Zenon
    <3> DEFINE r == [pc |-> "decide", bill |-> b, item |-> i, read |-> Unread]
    <3>1. worker' = [worker EXCEPT ![w] = r]
      BY <2>2, <3>0 DEF StartAudit, Work
    <3>2. r \in WorkerType /\ r.pc = "decide" /\ r.bill = b /\ r.item = i
      BY <1>1, UnreadType DEF WorkerType, WorkerPCs
    <3> HIDE DEF r
    <3> QED
      BY <3>0, <3>1, <3>2, <1>2, WorkDone
  <2> QED
    BY <2>1, <2>2
<1>4. Put(b, "auditing") /\ UNCHANGED <<table, config, result, events>>
  BY DEF StartAudit
<1>5. "auditing" \in BillStatuses \ {"none", "deleted"}
  BY DEF BillStatuses
<1>6. /\ state' \in [Bills -> BillStatuses] /\ revived' \subseteq Bills
      /\ \A c \in Bills : state'[c] = "none" => state[c] = "none"
      /\ \A c \in Bills : state'[c] # "none" \/ c # b
      /\ \A c \in Bills : state[c] = "deleted" => state'[c] = "deleted"
      /\ \A c \in Bills : state[c] # "none" => state'[c] # "none"
      /\ \A c \in Bills : Active(c)' => Active(c)
  BY <1>1, <1>2, <1>4, <1>5, PutDone DEF Put, Active, Out, FlowTypeOK
<1> HIDE DEF b
<1>7. FlowTypeOK'
  BY <1>2, <1>3, <1>4, <1>6 DEF FlowTypeOK, table, config, WorkerType
<1>8. NewIsBlank'
  BY <1>4, <1>6 DEF FlowIInv, NewIsBlank, table
<1>9. WorkersKnow'
  BY <1>1, <1>3, <1>4, <1>6 DEF FlowIInv, WorkersKnow, table
<1>10. ReadCounts' /\ ItemsHaveRows' /\ RowsCount'
  BY <1>3, <1>4, <1>6, KeepsTable DEF Writing
<1>11. JudgedHasRow' /\ OneJudged'
  BY <1>4, <1>6, KeepsJudgements DEF table
<1> QED
  BY <1>7, <1>8, <1>9, <1>10, <1>11 DEF FlowIInv

(* What stepFinish does to the workers, the bill and the running.           *)
LEMMA Concluded ==
  ASSUME FlowIInv, NEW w \in Workers, worker[w].bill \in Bills, state[worker[w].bill] # "none",
         NEW verdict \in {"pass", "reject"}, Conclude(w, verdict)
  PROVE  /\ worker' \in [Workers -> WorkerType]
         /\ \A v \in Workers \ {w} : worker'[v] = worker[v]
         /\ worker'[w].pc \in {"idle", "send"}
         /\ worker'[w].pc = "send" => worker'[w].bill = worker[w].bill
         /\ state' \in [Bills -> BillStatuses] /\ revived' \subseteq Bills
         /\ \A c \in Bills : state'[c] = "none" <=> state[c] = "none"
         /\ \A c \in Bills : state[c] = "deleted" => state'[c] = "deleted"
         /\ \A c \in Bills : Active(c)' => Active(c)
<1>1. FlowTypeOK
  BY DEF FlowIInv
<1>2. CASE verdict = "pass"
  <2>1. Step(w, "send") /\ UNCHANGED <<state, revived>>
    BY <1>2 DEF Conclude
  <2>2. "send" \in WorkerPCs
    BY DEF WorkerPCs
  <2>3. /\ worker' \in [Workers -> WorkerType]
        /\ worker'[w].pc = "send" /\ worker'[w].bill = worker[w].bill
        /\ \A v \in Workers \ {w} : worker'[v] = worker[v]
    BY <1>1, <2>1, <2>2, StepDone
  <2> QED
    BY <1>1, <2>1, <2>3 DEF Active, FlowTypeOK
<1>3. CASE verdict = "reject"
  <2>1. Done(w) /\ Put(worker[w].bill, "rejected")
    BY <1>3 DEF Conclude
  <2>2. /\ worker' \in [Workers -> WorkerType]
        /\ worker'[w].pc = "idle"
        /\ \A v \in Workers \ {w} : worker'[v] = worker[v]
    BY <1>1, <2>1, DoneDone
  <2>3. "rejected" \in BillStatuses \ {"none", "deleted"}
    BY DEF BillStatuses, Deletable, Out
  <2>4. /\ state' \in [Bills -> BillStatuses] /\ revived' \subseteq Bills
        /\ \A c \in Bills \ {worker[w].bill} : state'[c] = state[c]
        /\ state[worker[w].bill] = "deleted" => state'[worker[w].bill] = "deleted"
        /\ state[worker[w].bill] # "deleted" => state'[worker[w].bill] = "rejected"
        /\ \A c \in Bills : Active(c)' => Active(c) \/ state[c] = "none"
    BY <1>1, <2>1, <2>3, PutDone
  <2>5. \A c \in Bills : state'[c] = "none" <=> state[c] = "none"
    BY <2>4
  <2>6. \A c \in Bills : Active(c)' => Active(c)
    BY <2>4, <2>5 DEF Active
  <2> QED
    BY <2>2, <2>4, <2>5, <2>6
<1> QED
  BY <1>2, <1>3

(* Judgements that need no count never find a bill satisfied.               *)
LEMMA DecideStep ==
  ASSUME FlowIInv, NEW w \in Workers, Decide(w)
  PROVE  FlowIInv'
<1> DEFINE b == worker[w].bill
<1>1. b \in Bills /\ state[b] # "none" /\ (worker[w].item => b \in items)
  BY DEF FlowIInv, WorkersKnow, Decide, PC
<1>2. FlowTypeOK
  BY DEF FlowIInv
<1>3. UNCHANGED <<table, config, events>>
  BY DEF Decide
<1>4. CASE \E how \in {"none", "unsatisfied"}, verdict \in {"pass", "reject"} :
             result' = [result EXCEPT ![b] = how] /\ Conclude(w, verdict)
  <2>1. PICK how \in {"none", "unsatisfied"}, verdict \in {"pass", "reject"} :
               result' = [result EXCEPT ![b] = how] /\ Conclude(w, verdict)
    BY <1>4
  <2>2. /\ worker' \in [Workers -> WorkerType]
        /\ \A v \in Workers \ {w} : worker'[v] = worker[v]
        /\ worker'[w].pc \in {"idle", "send"}
        /\ worker'[w].pc = "send" => worker'[w].bill = b
        /\ state' \in [Bills -> BillStatuses] /\ revived' \subseteq Bills
        /\ \A c \in Bills : state'[c] = "none" <=> state[c] = "none"
        /\ \A c \in Bills : state[c] = "deleted" => state'[c] = "deleted"
        /\ \A c \in Bills : Active(c)' => Active(c)
    BY <2>1, <1>1, Concluded
  <2>3. /\ result' \in [Bills -> {"none", "satisfied", "unsatisfied"}]
        /\ \A c \in Bills : result'[c] = "satisfied" => result[c] = "satisfied"
        /\ \A c \in Bills : state[c] = "none" => result'[c] = result[c]
    BY <2>1, <1>1, <1>2 DEF FlowTypeOK
  <2> HIDE DEF b
  <2>4. FlowTypeOK'
    BY <1>2, <1>3, <2>2, <2>3 DEF FlowTypeOK, table, config, WorkerType
  <2>5. NewIsBlank'
    BY <1>3, <2>2, <2>3 DEF FlowIInv, NewIsBlank, table
  <2>6. WorkersKnow'
    BY <1>1, <1>3, <2>2 DEF FlowIInv, WorkersKnow, table
  <2>7. ReadCounts' /\ ItemsHaveRows' /\ RowsCount'
    BY <1>3, <2>2, KeepsTable DEF Writing
  <2>8. JudgedHasRow' /\ OneJudged'
    BY <1>3, <2>2, <2>3, KeepsJudgements DEF table
  <2> QED
    BY <2>4, <2>5, <2>6, <2>7, <2>8 DEF FlowIInv
<1>5. CASE /\ worker[w].item
           /\ Step(w, IF filled THEN "count" ELSE "fill_count")
           /\ UNCHANGED <<state, result, revived>>
  <2>1. (IF filled THEN "count" ELSE "fill_count") \in WorkerPCs
    BY DEF WorkerPCs
  <2>3. /\ worker' \in [Workers -> WorkerType]
        /\ \A v \in Workers \ {w} : worker'[v] = worker[v]
        /\ worker'[w].pc = IF filled THEN "count" ELSE "fill_count"
        /\ worker'[w].bill = b
    BY <1>2, <1>5, <2>1, StepDone
  <2> HIDE DEF b
  <2>4. FlowTypeOK'
    BY <1>2, <1>3, <1>5, <2>3 DEF FlowTypeOK, table, config, WorkerType
  <2>5. NewIsBlank'
    BY <1>3, <1>5 DEF FlowIInv, NewIsBlank, table
  <2>6. WorkersKnow'
    BY <1>1, <1>3, <1>5, <2>3 DEF FlowIInv, WorkersKnow, table
  <2>7. ReadCounts' /\ ItemsHaveRows' /\ RowsCount'
    BY <1>3, <1>5, <2>3, KeepsTable DEF Writing, Active
  <2>8. JudgedHasRow' /\ OneJudged'
    BY <1>3, <1>5, KeepsJudgements DEF table, Active
  <2> QED
    BY <2>4, <2>5, <2>6, <2>7, <2>8 DEF FlowIInv
<1> QED
  BY <1>4, <1>5 DEF Decide, Judged, buildFlowVerdict

(* The count sees the row of every other bill in the running.               *)
LEMMA CountStep ==
  ASSUME FlowIInv, NEW w \in Workers, Count(w)
  PROVE  FlowIInv'
<1> DEFINE b == worker[w].bill
<1> DEFINE how == IF OneEachMonth(b) THEN "satisfied" ELSE "unsatisfied"
<1>1. b \in Bills /\ state[b] # "none" /\ b \in items /\ filled
  BY DEF FlowIInv, WorkersKnow, Count, PC
<1>2. FlowTypeOK
  BY DEF FlowIInv
<1>3. UNCHANGED <<table, config, events>>
  BY DEF Count
<1>4. PICK verdict \in {"pass", "reject"} :
         result' = [result EXCEPT ![b] = how] /\ Conclude(w, verdict)
  BY DEF Count, Judged, buildFlowVerdict
<1>5. /\ worker' \in [Workers -> WorkerType]
      /\ \A v \in Workers \ {w} : worker'[v] = worker[v]
      /\ worker'[w].pc \in {"idle", "send"}
      /\ worker'[w].pc = "send" => worker'[w].bill = b
      /\ state' \in [Bills -> BillStatuses] /\ revived' \subseteq Bills
      /\ \A c \in Bills : state'[c] = "none" <=> state[c] = "none"
      /\ \A c \in Bills : state[c] = "deleted" => state'[c] = "deleted"
      /\ \A c \in Bills : Active(c)' => Active(c)
  BY <1>4, <1>1, Concluded
<1>6. /\ result' \in [Bills -> {"none", "satisfied", "unsatisfied"}]
      /\ \A c \in Bills \ {b} : result'[c] = result[c]
      /\ result'[b] = "satisfied" => OneEachMonth(b)
  BY <1>4, <1>1, <1>2 DEF FlowTypeOK
<1>7. Active(b) => tally[b] # "none"
  BY <1>1 DEF FlowIInv, ItemsHaveRows, Active
<1>8. ASSUME NEW c \in Bills \ {b}, SameMonth(b, c) \/ SameMonth(c, b), Active(c),
             result[c] = "satisfied"
      PROVE  ~OneEachMonth(b)
  <2>1. c \in Counted(b)
    BY <1>8 DEF FlowIInv, RowsCount, JudgedHasRow, Counted
  <2>2. ByTable[c] = ByRegex[b]
    BY <1>8 DEF SameMonth
  <2> QED
    BY <2>1, <2>2 DEF OneEachMonth
<1> HIDE DEF b, how
<1>9. FlowTypeOK'
  BY <1>2, <1>3, <1>5, <1>6 DEF FlowTypeOK, table, config, WorkerType
<1>10. NewIsBlank'
  BY <1>1, <1>3, <1>5, <1>6 DEF FlowIInv, NewIsBlank, table
<1>11. WorkersKnow'
  BY <1>1, <1>3, <1>5 DEF FlowIInv, WorkersKnow, table
<1>12. ReadCounts' /\ ItemsHaveRows' /\ RowsCount'
  BY <1>3, <1>5, KeepsTable DEF Writing
<1>13. JudgedHasRow'
  BY <1>3, <1>5, <1>6, <1>7 DEF FlowIInv, JudgedHasRow, table
<1>14. OneJudged'
  <2> SUFFICES ASSUME NEW c \in Bills, NEW d \in Bills, c # d, SameMonth(c, d),
                      Active(c)', Active(d)', result'[c] = "satisfied", result'[d] = "satisfied"
               PROVE  FALSE
    BY DEF OneJudged, SameMonth
  <2>1. Active(c) /\ Active(d)
    BY <1>5
  <2>2. CASE c = b
    BY <1>6, <1>8, <2>1, <2>2
  <2>3. CASE d = b
    BY <1>6, <1>8, <2>1, <2>3
  <2>4. CASE c # b /\ d # b
    BY <1>6, <2>1, <2>4 DEF FlowIInv, OneJudged
  <2> QED
    BY <2>2, <2>3, <2>4
<1> QED
  BY <1>9, <1>10, <1>11, <1>12, <1>13, <1>14 DEF FlowIInv

(* A bill passed on.                                                        *)
LEMMA SendStep ==
  ASSUME FlowIInv, NEW w \in Workers, Send(w)
  PROVE  FlowIInv'
<1> USE DEF Send, Done, Take, Put, PC, Work, Unread, table, config
<1>1. FlowTypeOK'
  BY DEF FlowIInv, WorkersKnow, FlowTypeOK, BillStatuses, WorkerPCs, Deletable, Out
<1>2. NewIsBlank' /\ WorkersKnow'
  BY DEF FlowIInv, FlowTypeOK, NewIsBlank, WorkersKnow, BillStatuses, Out, Deletable
<1>3. ReadCounts' /\ ItemsHaveRows'
  BY DEF FlowIInv, FlowTypeOK, NewIsBlank, WorkersKnow, ReadCounts, ItemsHaveRows, Writing, Active, Out
<1>4. RowsCount' /\ JudgedHasRow'
  BY DEF FlowIInv, FlowTypeOK, NewIsBlank, WorkersKnow, ReadCounts, ItemsHaveRows, RowsCount,
         JudgedHasRow, Writing, Active, Out
<1>5. OneJudged'
  BY DEF FlowIInv, FlowTypeOK, NewIsBlank, OneJudged, Active, Out
<1> QED
  BY <1>1, <1>2, <1>3, <1>4, <1>5 DEF FlowIInv

(* A failed audit takes its bill out.                                       *)
LEMMA FailStep ==
  ASSUME FlowIInv, NEW w \in Workers, FailAudit(w)
  PROVE  FlowIInv'
<1> USE DEF FailAudit, Done, Take, Put, PC, Work, Unread, table, config
<1>1. FlowTypeOK'
  BY DEF FlowIInv, WorkersKnow, FlowTypeOK, BillStatuses, WorkerPCs, Deletable, Out
<1>2. NewIsBlank' /\ WorkersKnow'
  BY DEF FlowIInv, FlowTypeOK, NewIsBlank, WorkersKnow, BillStatuses, Out, Deletable
<1>3. ReadCounts' /\ ItemsHaveRows'
  BY DEF FlowIInv, FlowTypeOK, NewIsBlank, WorkersKnow, ReadCounts, ItemsHaveRows, Writing, Active, Out
<1>4. RowsCount' /\ JudgedHasRow'
  BY DEF FlowIInv, FlowTypeOK, NewIsBlank, WorkersKnow, ReadCounts, ItemsHaveRows, RowsCount,
         JudgedHasRow, Writing, Active, Out
<1>5. OneJudged'
  BY DEF FlowIInv, FlowTypeOK, NewIsBlank, OneJudged, Active, Out
<1> QED
  BY <1>1, <1>2, <1>3, <1>4, <1>5 DEF FlowIInv

(* A worker that dies leaves everything as it is.                           *)
LEMMA VanishStep ==
  ASSUME FlowIInv, NEW w \in Workers, Vanish(w)
  PROVE  FlowIInv'
<1> USE DEF Vanish, Done, Take, PC, Work, Unread, table, config
<1>1. FlowTypeOK'
  BY DEF FlowIInv, WorkersKnow, FlowTypeOK, BillStatuses, WorkerPCs, Deletable, Out
<1>2. NewIsBlank' /\ WorkersKnow'
  BY DEF FlowIInv, FlowTypeOK, NewIsBlank, WorkersKnow, BillStatuses, Out, Deletable
<1>3. ReadCounts' /\ ItemsHaveRows'
  BY DEF FlowIInv, FlowTypeOK, NewIsBlank, WorkersKnow, ReadCounts, ItemsHaveRows, Writing, Active, Out
<1>4. RowsCount' /\ JudgedHasRow'
  BY DEF FlowIInv, FlowTypeOK, NewIsBlank, WorkersKnow, ReadCounts, ItemsHaveRows, RowsCount,
         JudgedHasRow, Writing, Active, Out
<1>5. OneJudged'
  BY DEF FlowIInv, FlowTypeOK, NewIsBlank, OneJudged, Active, Out
<1> QED
  BY <1>1, <1>2, <1>3, <1>4, <1>5 DEF FlowIInv

(* The backfill reads the statuses of now.                                  *)
LEMMA FillReadStep ==
  ASSUME FlowIInv, NEW w \in Workers, FillRead(w)
  PROVE  FlowIInv'
<1>1. FlowTypeOK
  BY DEF FlowIInv
<1>2. UNCHANGED <<state, table, config, result, events, revived>>
  BY DEF FillRead
<1>3. JudgedHasRow' /\ OneJudged'
  BY <1>2, KeepsJudgements DEF table, Active
<1>4. CASE filled
  <2>1. "count" \in WorkerPCs
    BY DEF WorkerPCs
  <2>2. (PC(w, "fill_count") /\ Step(w, "count")) \/ Done(w)
    BY <1>4 DEF FillRead
  <2>3. /\ worker' \in [Workers -> WorkerType]
        /\ \A v \in Workers \ {w} : worker'[v] = worker[v]
        /\ \/ worker'[w].pc = "idle"
           \/ /\ worker[w].pc = "fill_count" /\ worker'[w].pc = "count"
              /\ worker'[w].bill = worker[w].bill
    BY <1>1, <2>1, <2>2, StepDone, DoneDone DEF PC
  <2>4. FlowTypeOK'
    BY <1>1, <1>2, <2>3 DEF FlowTypeOK, table, config, WorkerType
  <2>5. NewIsBlank'
    BY <1>2 DEF FlowIInv, NewIsBlank, table
  <2>6. WorkersKnow'
    BY <1>2, <1>4, <2>3 DEF FlowIInv, WorkersKnow, table
  <2>7. ReadCounts' /\ ItemsHaveRows' /\ RowsCount'
    BY <1>2, <2>3, KeepsTable DEF Writing, Active
  <2> QED
    BY <1>3, <2>4, <2>5, <2>6, <2>7 DEF FlowIInv
<1>5. CASE ~filled
  <2> DEFINE seen == [b \in Bills |-> IF b \in items THEN state[b] ELSE "unread"]
  <2> DEFINE p == IF PC(w, "fill_count") THEN "write_count" ELSE "write_end"
  <2> DEFINE r == [pc |-> p, bill |-> worker[w].bill, item |-> worker[w].item, read |-> seen]
  <2>1. worker[w] \in WorkerType
    BY <1>1 DEF FlowTypeOK, WorkerType
  <2>2. seen \in [Bills -> BillStatuses \union {"unread"}] /\ p \in WorkerPCs
    BY <1>1 DEF FlowTypeOK, WorkerPCs
  <2>3. worker' = [worker EXCEPT ![w] = r]
    BY <1>5 DEF FillRead, Work
  <2>4. \A b \in Bills : seen[b] = IF b \in items THEN state[b] ELSE "unread"
    OBVIOUS
  <2>5. (p = "write_count" /\ worker[w].pc = "fill_count") \/ p = "write_end"
    BY DEF PC
  <2> HIDE DEF seen, p
  <2>6. r \in WorkerType /\ r.pc = p /\ r.bill = worker[w].bill /\ r.read = seen
    BY <2>1, <2>2 DEF WorkerType
  <2> HIDE DEF r
  <2>7. /\ worker' \in [Workers -> WorkerType] /\ worker'[w] = r
        /\ \A v \in Workers \ {w} : worker'[v] = worker[v]
    BY <1>1, <2>3, <2>6, WorkDone
  <2>8. \A v \in Workers : Writing(v)' => v = w \/ (Writing(v) /\ worker'[v] = worker[v])
    BY <2>7 DEF Writing
  <2>9. FlowTypeOK'
    BY <1>1, <1>2, <2>7 DEF FlowTypeOK, table, config, WorkerType
  <2>10. NewIsBlank'
    BY <1>2 DEF FlowIInv, NewIsBlank, table
  <2>11. WorkersKnow'
    BY <1>2, <2>5, <2>6, <2>7 DEF FlowIInv, WorkersKnow, table
  <2>12. ReadCounts'
    <3> SUFFICES ASSUME NEW v \in Workers, Writing(v)', NEW b \in Bills
                 PROVE  /\ worker'[v].read[b] # "unread" => b \in items /\ worker'[v].read[b] # "none"
                        /\ Active(b) => worker'[v].read[b] \notin Out
      BY <1>2 DEF ReadCounts, table, Active
    <3>1. CASE v = w
      BY <2>4, <2>6, <2>7, <3>1 DEF FlowIInv, NewIsBlank, Active, Out
    <3>2. CASE v # w
      BY <2>8, <3>2 DEF FlowIInv, ReadCounts
    <3> QED
      BY <3>1, <3>2
  <2>13. ItemsHaveRows'
    <3> SUFFICES ASSUME NEW b \in items, state[b] # "deleted", NEW v \in Workers, Writing(v)',
                        worker'[v].read[b] = "unread"
                 PROVE  tally[b] # "none"
      BY <1>2, <1>5 DEF ItemsHaveRows, table
    <3>1. CASE v = w
      BY <1>1, <2>4, <2>6, <2>7, <3>1 DEF FlowTypeOK, BillStatuses, Deletable, Out
    <3>2. CASE v # w
      BY <2>8, <3>2 DEF FlowIInv, ItemsHaveRows
    <3> QED
      BY <3>1, <3>2
  <2>14. RowsCount'
    BY <1>2 DEF FlowIInv, RowsCount, Active, table
  <2> QED
    BY <1>3, <2>9, <2>10, <2>11, <2>12, <2>13, <2>14 DEF FlowIInv
<1> QED
  BY <1>4, <1>5

(* The backfill writes what it read.                                        *)
LEMMA FillWriteStep ==
  ASSUME FlowIInv, NEW w \in Workers, FillWrite(w)
  PROVE  FlowIInv'
<1> DEFINE read == worker[w].read
<1>1. FlowTypeOK
  BY DEF FlowIInv
<1>2. UNCHANGED <<state, items, config, result, events, revived>> /\ filled' = TRUE
  BY DEF FillWrite
<1>3. Writing(w) /\ read \in [Bills -> BillStatuses \union {"unread"}]
  BY <1>1 DEF FillWrite, Writing, FlowTypeOK
<1>4. /\ tally' \in [Bills -> BillStatuses]
      /\ \A b \in Bills : tally'[b] = IF read[b] = "unread" THEN tally[b] ELSE read[b]
  BY <1>1, <1>3 DEF FillWrite, FlowTypeOK
<1>5. /\ worker' \in [Workers -> WorkerType]
      /\ \A v \in Workers \ {w} : worker'[v] = worker[v]
      /\ \/ worker'[w].pc = "idle"
         \/ /\ worker[w].pc = "write_count" /\ worker'[w].pc = "count"
            /\ worker'[w].bill = worker[w].bill
  <2>1. CASE PC(w, "write_count")
    <3> DEFINE r == [pc |-> "count", bill |-> worker[w].bill, item |-> worker[w].item,
                     read |-> Unread]
    <3>1. worker[w] \in WorkerType
      BY <1>1 DEF FlowTypeOK, WorkerType
    <3>2. r \in WorkerType /\ r.pc = "count" /\ r.bill = worker[w].bill
      BY <3>1, UnreadType DEF WorkerType, WorkerPCs
    <3>3. worker' = [worker EXCEPT ![w] = r]
      BY <2>1 DEF FillWrite, Work
    <3> HIDE DEF r
    <3> QED
      BY <1>1, <2>1, <3>2, <3>3, WorkDone DEF PC
  <2>2. CASE ~PC(w, "write_count")
    <3>1. Done(w)
      BY <2>2 DEF FillWrite
    <3> QED
      BY <1>1, <3>1, DoneDone
  <2> QED
    BY <2>1, <2>2
<1>6. \A b \in Bills : read[b] # "unread" => b \in items /\ read[b] # "none"
  BY <1>3 DEF FlowIInv, ReadCounts
<1>7. \A b \in Bills : Active(b) => read[b] \notin Out
  BY <1>3 DEF FlowIInv, ReadCounts
<1>8. \A b \in items : state[b] # "deleted" /\ read[b] = "unread" => tally[b] # "none"
  BY <1>3 DEF FlowIInv, ItemsHaveRows
<1> HIDE DEF read
<1>9. FlowTypeOK'
  BY <1>1, <1>2, <1>4, <1>5 DEF FlowTypeOK, config, WorkerType
<1>10. NewIsBlank'
  BY <1>2, <1>4, <1>6 DEF FlowIInv, NewIsBlank
<1>11. WorkersKnow'
  BY <1>2, <1>5 DEF FlowIInv, WorkersKnow
<1>12. ReadCounts'
  BY <1>2, <1>5 DEF FlowIInv, ReadCounts, Writing, Active
<1>13. ItemsHaveRows'
  <2> SUFFICES ASSUME NEW b \in items, state[b] # "deleted"
               PROVE  tally'[b] # "none"
    BY <1>2 DEF ItemsHaveRows
  <2>1. b \in Bills
    BY <1>1 DEF FlowTypeOK
  <2> QED
    BY <1>4, <1>6, <1>8, <2>1
<1>14. RowsCount'
  BY <1>2, <1>4, <1>7 DEF FlowIInv, RowsCount, Active
<1>15. JudgedHasRow'
  BY <1>2, <1>4, <1>6 DEF FlowIInv, JudgedHasRow, Active
<1>16. OneJudged'
  BY <1>2 DEF FlowIInv, OneJudged, Active
<1> QED
  BY <1>9, <1>10, <1>11, <1>12, <1>13, <1>14, <1>15, <1>16 DEF FlowIInv

(* A decision in WeCom.                                                     *)
LEMMA PeopleStep ==
  ASSUME FlowIInv, NEW b \in Bills, PeopleSay(b)
  PROVE  FlowIInv'
<1>1. FlowTypeOK
  BY DEF FlowIInv
<1>2. UNCHANGED <<state, table, config, worker, result, revived>>
  BY DEF PeopleSay
<1>3. PICK e \in SUBSET Deletable : events' = [events EXCEPT ![b] = e]
  BY <1>1 DEF PeopleSay, FlowTypeOK, Deletable, Out
<1>4. state[b] # "none"
  <2>1. CASE state[b] = "approved"
    BY <2>1
  <2>2. CASE events[b] = {"human_approved"}
    BY <2>2 DEF FlowIInv, NewIsBlank
  <2> QED
    BY <2>1, <2>2 DEF PeopleSay
<1>5. FlowTypeOK'
  BY <1>1, <1>2, <1>3 DEF FlowTypeOK, table, config
<1>6. NewIsBlank'
  BY <1>1, <1>2, <1>3, <1>4 DEF FlowIInv, NewIsBlank, table, FlowTypeOK
<1>7. WorkersKnow' /\ ReadCounts' /\ ItemsHaveRows'
  BY <1>2 DEF FlowIInv, WorkersKnow, ReadCounts, ItemsHaveRows, Writing, Active, table
<1>8. RowsCount' /\ JudgedHasRow' /\ OneJudged'
  BY <1>2 DEF FlowIInv, RowsCount, JudgedHasRow, OneJudged, Active, table
<1> QED
  BY <1>5, <1>6, <1>7, <1>8 DEF FlowIInv

(* A decision that is heard, whenever it is.                                *)
LEMMA HearStep ==
  ASSUME FlowIInv, NEW w \in Workers, NEW b \in Bills, NEW s \in Heard,
         Hear(w, b, s)
  PROVE  FlowIInv'
<1>1. FlowTypeOK
  BY DEF FlowIInv
<1>2. /\ UNCHANGED <<items, filled, config, result, events>>
      /\ PC(w, "idle") /\ state[b] # "deleted" /\ Put(b, s)
      /\ s \in events[b] \/ state[b] = "approved"
  BY DEF Hear
<1>3. state[b] # "none"
  BY <1>2 DEF FlowIInv, NewIsBlank
<1>4. s \in BillStatuses \ {"none", "deleted"}
  BY DEF BillStatuses, Heard, Deletable, Out
<1>5. /\ state' \in [Bills -> BillStatuses] /\ revived' \subseteq Bills
      /\ \A c \in Bills \ {b} : state'[c] = state[c]
      /\ state'[b] = s
      /\ \A c \in Bills : Active(c)' => Active(c) \/ state[c] = "none"
  BY <1>1, <1>2, <1>4, PutDone
<1>6. /\ \A c \in Bills : state'[c] = "none" <=> state[c] = "none"
      /\ \A c \in Bills : state'[c] = "deleted" <=> state[c] = "deleted"
  BY <1>2, <1>3, <1>4, <1>5
<1>7. \A c \in Bills : Active(c)' => Active(c)
  BY <1>5, <1>6 DEF Active
<1>8. Active(b)' => s \notin Out
  BY <1>5 DEF Active
<1>9. /\ tally' \in [Bills -> BillStatuses]
      /\ \A c \in Bills \ {b} : tally'[c] = tally[c]
      /\ tally'[b] = IF tally[b] = "none" THEN "none" ELSE s
  BY <1>1, <1>4 DEF Hear, FlowTypeOK
<1>10. \A c \in Bills : tally'[c] = "none" <=> tally[c] = "none"
  BY <1>4, <1>9
<1>11. /\ worker' \in [Workers -> WorkerType]
       /\ \A v \in Workers \ {w} : worker'[v] = worker[v]
       /\ worker'[w].pc \in {"idle", "fill_end"}
  <2>1. CASE filled
    BY <1>1, <1>2, <2>1 DEF Hear, PC, FlowTypeOK, WorkerType
  <2>2. CASE ~filled
    <3> DEFINE r == [pc |-> "fill_end", bill |-> b, item |-> FALSE, read |-> Unread]
    <3>1. worker' = [worker EXCEPT ![w] = r]
      BY <2>2 DEF Hear, Take, Work
    <3>2. r \in WorkerType /\ r.pc = "fill_end"
      BY UnreadType DEF WorkerType, WorkerPCs
    <3> HIDE DEF r
    <3> QED
      BY <1>1, <3>1, <3>2, WorkDone
  <2> QED
    BY <2>1, <2>2
<1>12. FlowTypeOK'
  BY <1>1, <1>2, <1>5, <1>9, <1>11 DEF FlowTypeOK, config, WorkerType
<1>13. NewIsBlank'
  BY <1>2, <1>6, <1>10 DEF FlowIInv, NewIsBlank
<1>14. WorkersKnow'
  BY <1>2, <1>6, <1>11 DEF FlowIInv, WorkersKnow
<1>15. \A v \in Workers : Writing(v)' => Writing(v) /\ worker'[v] = worker[v]
  BY <1>11 DEF Writing
<1>16. ReadCounts'
  BY <1>2, <1>7, <1>15 DEF FlowIInv, ReadCounts
<1>17. ItemsHaveRows'
  BY <1>1, <1>2, <1>6, <1>10, <1>15 DEF FlowIInv, ItemsHaveRows, FlowTypeOK
<1>18. RowsCount'
  BY <1>7, <1>8, <1>9 DEF FlowIInv, RowsCount, Out
<1>19. JudgedHasRow' /\ OneJudged'
  BY <1>2, <1>7, <1>10 DEF FlowIInv, JudgedHasRow, OneJudged
<1> QED
  BY <1>12, <1>13, <1>14, <1>16, <1>17, <1>18, <1>19 DEF FlowIInv

(* A retry is a return.                                                     *)
LEMMA RetryStep ==
  ASSUME FlowIInv, NEW w \in Workers, NEW b \in Bills, RetryBill(w, b)
  PROVE  FlowIInv'
<1> USE DEF RetryBill, Put, Take, PC, Work, Unread, table, config
<1>1. FlowTypeOK'
  BY DEF FlowIInv, WorkersKnow, FlowTypeOK, BillStatuses, WorkerPCs, Deletable, Out
<1>2. NewIsBlank' /\ WorkersKnow'
  BY DEF FlowIInv, FlowTypeOK, NewIsBlank, WorkersKnow, BillStatuses, Out, Deletable
<1>3. ReadCounts' /\ ItemsHaveRows'
  BY DEF FlowIInv, FlowTypeOK, NewIsBlank, WorkersKnow, ReadCounts, ItemsHaveRows, Writing, Active, Out
<1>4. RowsCount' /\ JudgedHasRow'
  BY DEF FlowIInv, FlowTypeOK, NewIsBlank, WorkersKnow, ReadCounts, ItemsHaveRows, RowsCount,
         JudgedHasRow, Writing, Active, Out
<1>5. OneJudged'
  BY DEF FlowIInv, FlowTypeOK, NewIsBlank, OneJudged, Active, Out
<1> QED
  BY <1>1, <1>2, <1>3, <1>4, <1>5 DEF FlowIInv

(* A second audit.                                                          *)
LEMMA RescanStep ==
  ASSUME FlowIInv, NEW w \in Workers, NEW b \in Bills, RescanBill(w, b)
  PROVE  FlowIInv'
<1> USE DEF RescanBill, Take, PC, Work, Unread, table, config
<1>1. FlowTypeOK'
  BY DEF FlowIInv, WorkersKnow, FlowTypeOK, BillStatuses, WorkerPCs, Deletable, Out
<1>2. NewIsBlank' /\ WorkersKnow'
  BY DEF FlowIInv, FlowTypeOK, NewIsBlank, WorkersKnow, BillStatuses, Out, Deletable
<1>3. ReadCounts' /\ ItemsHaveRows'
  BY DEF FlowIInv, FlowTypeOK, NewIsBlank, WorkersKnow, ReadCounts, ItemsHaveRows, Writing, Active, Out
<1>4. RowsCount' /\ JudgedHasRow'
  BY DEF FlowIInv, FlowTypeOK, NewIsBlank, WorkersKnow, ReadCounts, ItemsHaveRows, RowsCount,
         JudgedHasRow, Writing, Active, Out
<1>5. OneJudged'
  BY DEF FlowIInv, FlowTypeOK, NewIsBlank, OneJudged, Active, Out
<1> QED
  BY <1>1, <1>2, <1>3, <1>4, <1>5 DEF FlowIInv

(* An override is a return, without a judgement.                            *)
LEMMA OverrideStep ==
  ASSUME FlowIInv, NEW w \in Workers, NEW b \in Bills, OverrideBill(w, b)
  PROVE  FlowIInv'
<1> USE DEF OverrideBill, Take, PC, Work, Unread, table, config
<1>1. FlowTypeOK'
  BY DEF FlowIInv, WorkersKnow, FlowTypeOK, BillStatuses, WorkerPCs, Deletable, Out
<1>2. NewIsBlank' /\ WorkersKnow'
  BY DEF FlowIInv, FlowTypeOK, NewIsBlank, WorkersKnow, BillStatuses, Out, Deletable
<1>3. ReadCounts' /\ ItemsHaveRows'
  BY DEF FlowIInv, FlowTypeOK, NewIsBlank, WorkersKnow, ReadCounts, ItemsHaveRows, Writing, Active, Out
<1>4. RowsCount' /\ JudgedHasRow'
  BY DEF FlowIInv, FlowTypeOK, NewIsBlank, WorkersKnow, ReadCounts, ItemsHaveRows, RowsCount,
         JudgedHasRow, Writing, Active, Out
<1>5. OneJudged'
  BY DEF FlowIInv, FlowTypeOK, NewIsBlank, OneJudged, Active, Out
<1> QED
  BY <1>1, <1>2, <1>3, <1>4, <1>5 DEF FlowIInv

(* A deleted bill is out of the running.                                    *)
LEMMA DeleteStep ==
  ASSUME FlowIInv, NEW b \in Bills, DeleteBill(b)
  PROVE  FlowIInv'
<1> USE DEF DeleteBill, config
<1>1. FlowTypeOK'
  BY DEF FlowIInv, WorkersKnow, FlowTypeOK, BillStatuses, WorkerPCs, Deletable, Out
<1>2. NewIsBlank' /\ WorkersKnow'
  BY DEF FlowIInv, FlowTypeOK, NewIsBlank, WorkersKnow, BillStatuses, Out, Deletable
<1>3. ReadCounts' /\ ItemsHaveRows'
  BY DEF FlowIInv, FlowTypeOK, NewIsBlank, WorkersKnow, ReadCounts, ItemsHaveRows, Writing, Active, Out
<1>4. RowsCount' /\ JudgedHasRow'
  BY DEF FlowIInv, FlowTypeOK, NewIsBlank, WorkersKnow, ReadCounts, ItemsHaveRows, RowsCount,
         JudgedHasRow, Writing, Active, Out
<1>5. OneJudged'
  BY DEF FlowIInv, FlowTypeOK, NewIsBlank, OneJudged, Active, Out
<1> QED
  BY <1>1, <1>2, <1>3, <1>4, <1>5 DEF FlowIInv

(* The configuration changes.                                               *)
LEMMA ConfigureStep ==
  ASSUME FlowIInv, Configure
  PROVE  FlowIInv'
<1> USE DEF Configure, table
<1>1. FlowTypeOK'
  BY DEF FlowIInv, WorkersKnow, FlowTypeOK, BillStatuses, WorkerPCs, Deletable, Out
<1>2. NewIsBlank' /\ WorkersKnow'
  BY DEF FlowIInv, FlowTypeOK, NewIsBlank, WorkersKnow, BillStatuses, Out, Deletable
<1>3. ReadCounts' /\ ItemsHaveRows'
  BY DEF FlowIInv, FlowTypeOK, NewIsBlank, WorkersKnow, ReadCounts, ItemsHaveRows, Writing, Active, Out
<1>4. RowsCount' /\ JudgedHasRow'
  BY DEF FlowIInv, FlowTypeOK, NewIsBlank, WorkersKnow, ReadCounts, ItemsHaveRows, RowsCount,
         JudgedHasRow, Writing, Active, Out
<1>5. OneJudged'
  BY DEF FlowIInv, FlowTypeOK, NewIsBlank, OneJudged, Active, Out
<1> QED
  BY <1>1, <1>2, <1>3, <1>4, <1>5 DEF FlowIInv

-----------------------------------------------------------------------------
LEMMA NextFlowIInv == FlowIInv /\ [FlowNext]_flowVars => FlowIInv'
<1> SUFFICES ASSUME FlowIInv, [FlowNext]_flowVars PROVE FlowIInv'
  OBVIOUS
<1>1. CASE UsualFlow
  BY <1>1, SubmitStep, StoreStep, StartStep, DecideStep, CountStep, SendStep, FillReadStep,
     FillWriteStep, PeopleStep, HearStep DEF UsualFlow
<1>2. CASE OddFlow
  BY <1>2, FailStep, VanishStep, RetryStep, RescanStep, OverrideStep, DeleteStep, ConfigureStep
     DEF OddFlow
<1>3. CASE UNCHANGED flowVars
  BY <1>3 DEF flowVars, table, config, FlowIInv, FlowTypeOK, NewIsBlank, WorkersKnow, ReadCounts,
              ItemsHaveRows, RowsCount, JudgedHasRow, OneJudged, Writing, Active
<1> QED
  BY <1>1, <1>2, <1>3 DEF FlowNext

(* FlowIInv is an invariant of the flow for bills of a month, for any bills, *)
(* workers and configured flows.                                           *)
THEOREM FlowInvariance == FlowSpec => []FlowIInv
<1> QED
  BY InitFlowIInv, NextFlowIInv, PTL DEF FlowSpec

(* Bills, the monthly table and the workers keep their types, for any bills *)
(* and configured flows.                                                    *)
THEOREM FlowTypes == FlowSpec => []FlowTypeOK
<1>1. FlowIInv => FlowTypeOK
  BY DEF FlowIInv
<1> QED
  BY <1>1, FlowInvariance, PTL

(* Two bills that the flow found to be the only one of one month are in     *)
(* force together only after one of them had been out and came back.        *)
THEOREM OnlyOneInForce == FlowSpec => []OneSatisfiedPerMonth
<1>1. FlowIInv => OneSatisfiedPerMonth
  BY DEF FlowIInv, OneJudged, OneSatisfiedPerMonth, InForce, Active, Out
<1> QED
  BY <1>1, FlowInvariance, PTL

============================================================================
