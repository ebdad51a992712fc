------------------------------ MODULE Stocktake ------------------------------
(***************************************************************************)
(* internal/stocktake: stocktake headers, their counted lines, the audit   *)
(* trail of line operations, plan items and a branch's default header.     *)
(*                                                                         *)
(* Every handler looks at the header's status first and writes later, by   *)
(* id alone, in a transaction of its own: what another handler commits     *)
(* between the two is not looked at again.  Handlers of several workers    *)
(* interleave.  A line and its header are read in one step here although   *)
(* the code reads them one after the other: a header that is counting at   *)
(* the second read was counting at the first.                              *)
(*                                                                         *)
(* Quantities are whole units, the average cost is 1, so that the total    *)
(* amount is the total quantity.  Reasons, remarks, names and the events   *)
(* (published after the commit, best effort, read by nothing here) are     *)
(* left out, and so are the products another domain counts: the check for  *)
(* them fails open, and a refusal is like a handler that gives up.  There  *)
(* is one branch.                                                          *)
(***************************************************************************)
EXTENDS Integers, FiniteSets, Functions

CONSTANTS
  Headers,       \* ids of stocktake headers; an id is never used twice
  LineIds,       \* bound: ids for lines; an id is never used twice
  Products,
  Book,          \* book quantities the POS system may report
  Requests,      \* requests: [id, kind, n, items]; each is made at most once
  Workers,
  MaxRequests,   \* bound: requests that are made
  NoHeader

Kinds == {"add", "overwrite", "accumulate", "reason", "deleteLine", "submit",
          "approve", "deleteHeader", "plan", "setDefault"}

ASSUME StocktakeAssumption ==
  /\ NoHeader \notin Headers
  /\ IsFiniteSet(LineIds) /\ LineIds # {}
  /\ Book \subseteq Int
  /\ \A r \in Requests : r.kind \in Kinds /\ r.n \in Int /\ r.items \subseteq Products
  /\ MaxRequests \in Nat

VARIABLES
  header,        \* stocktake_headers: per id [status, total]
  line,          \* stocktake_lines: per id [header, product, book, actual, diff]
  ops,           \* stocktake_line_operations: [header, line, prev, new, sets, opAt, began, at]
  plan,          \* stocktake_plan_items: [header, product, began, at]
  default,       \* stocktake_branch_defaults of the branch: [header, began, at]
  pc, job,       \* per worker: where its handler is, its request
  target,        \* per worker: the header, the line and the book quantity it looked at
  began,         \* per worker: when it looked at the status
  sum,           \* per worker: the total Submit computed
  first,         \* per worker: when Submit read the lines, DeleteHeader deleted the children
  mark,          \* history: when each header was summed up, submitted, approved, deleted
  clock,         \* history: committed writes so far
  made,          \* requests made
  used           \* history: ids given to lines

db   == <<header, line, ops, plan, default>>
own  == <<pc, job, target, began, sum, first>>
vars == <<db, own, mark, clock, made, used>>

NoLine == [header |-> NoHeader, product |-> NoHeader, book |-> 0, actual |-> 0, diff |-> 0]
NoDefault == [header |-> NoHeader, began |-> 0, at |-> 0]
NoTarget == [header |-> NoHeader, line |-> 0, seen |-> NoLine, book |-> 0]
NoJob == [id |-> "none", kind |-> "none", n |-> 0, items |-> {}]

Present(h) == header[h].status \in {"counting", "adjusted", "approved"}
LinesOf(h) == {l \in LineIds : line[l].header = h}
SumDiff(h) == SumFunctionOnSet([l \in LineIds |-> line[l].diff], LinesOf(h))

-----------------------------------------------------------------------------
Init ==
  /\ header = [h \in Headers |-> [status |-> "none", total |-> 0]]
  /\ line = [l \in LineIds |-> NoLine]
  /\ ops = {} /\ plan = {} /\ default = NoDefault
  /\ pc = [w \in Workers |-> "idle"]
  /\ job = [w \in Workers |-> NoJob]
  /\ target = [w \in Workers |-> NoTarget]
  /\ began = [w \in Workers |-> 0]
  /\ sum = [w \in Workers |-> 0]
  /\ first = [w \in Workers |-> 0]
  /\ mark = [h \in Headers |-> [summed |-> 0, submitted |-> 0, approved |-> 0,
                                erased |-> 0, deleted |-> 0]]
  /\ clock = 0
  /\ made = {} /\ used = {}

Tick == clock' = clock + 1

(* CreateHeader: one insert.                                                *)
CreateHeader(h) ==
  /\ header[h].status = "none"
  /\ header' = [header EXCEPT ![h].status = "counting"]
  /\ UNCHANGED <<line, ops, plan, default, own, mark, clock, made, used>>

-----------------------------------------------------------------------------
(* A handler starts: it looks at the header, and at the line if it has one. *)

Look(w, r, h, l, book, next) ==
  /\ pc[w] = "idle"
  /\ r \notin made /\ Cardinality(made) < MaxRequests
  /\ pc' = [pc EXCEPT ![w] = next]
  /\ job' = [job EXCEPT ![w] = r]
  /\ target' = [target EXCEPT ![w] = [header |-> h, line |-> l, seen |-> line[l], book |-> book]]
  /\ began' = [began EXCEPT ![w] = clock]
  /\ made' = made \union {r}
  /\ UNCHANGED <<db, sum, first, mark, clock, used>>

AnyLine == CHOOSE l \in LineIds : TRUE
NewLine == CHOOSE l \in LineIds : l \notin used

(* Mutant: lines are accepted as long as the header is not approved.        *)
Asked_LinesUntilApproved(kind) ==
  CASE kind = "approve" -> {"adjusted"}
    [] OTHER            -> {"counting", "adjusted"}

(* Mutant: any header can be deleted.                                       *)
Asked_DeleteAny(kind) ==
  CASE kind = "approve"                  -> {"adjusted"}
    [] kind \in {"deleteHeader", "plan"} -> {"counting", "adjusted", "approved"}
    [] OTHER                             -> {"counting"}

(* The status each handler asks for before it goes on.                      *)
Asked(kind) ==
  CASE kind = "approve"      -> {"adjusted"}
    [] kind = "deleteHeader" -> {"counting", "adjusted"}
    [] kind = "plan"         -> {"counting", "adjusted", "approved"}
    [] OTHER                 -> {"counting"}

(* AddLine: the book quantity is what the POS system says now.              *)
LookAdd(w, r, h) ==
  /\ r.kind = "add" /\ header[h].status \in Asked("add")
  /\ r.n >= 0
  /\ \E b \in Book : Look(w, r, h, AnyLine, b, "write")

(* UpdateLine, DeleteLine: the result of either must not be negative.       *)
Result(r, actual) ==
  CASE r.kind = "accumulate" -> actual + r.n
    [] r.kind = "overwrite"  -> r.n
    [] r.kind = "deleteLine" -> 0
    [] OTHER                 -> actual

LookLine(w, r, l) ==
  /\ r.kind \in {"overwrite", "accumulate", "reason", "deleteLine"}
  /\ line[l] # NoLine
  /\ header[line[l].header].status \in Asked(r.kind)
  /\ Result(r, line[l].actual) >= 0
  /\ Look(w, r, line[l].header, l, line[l].book, "write")

LookHeader(w, r, h) ==
  /\ r.kind \in {"submit", "approve", "deleteHeader", "plan", "setDefault"}
  /\ header[h].status \in Asked(r.kind)
  /\ r.kind = "plan" => r.items # {}
  /\ Look(w, r, h, AnyLine, 0, IF r.kind = "submit" THEN "sum" ELSE "write")

-----------------------------------------------------------------------------
(* The handler is over: committed, refused by the database, or given up.    *)
End(w) ==
  /\ pc' = [pc EXCEPT ![w] = "idle"]
  /\ job' = [job EXCEPT ![w] = NoJob]
  /\ target' = [target EXCEPT ![w] = NoTarget]
  /\ began' = [began EXCEPT ![w] = 0]
  /\ sum' = [sum EXCEPT ![w] = 0]
  /\ first' = [first EXCEPT ![w] = 0]

(* The process or the connection dies: an open transaction rolls back.      *)
GiveUp(w) ==
  /\ pc[w] # "idle"
  /\ End(w)
  /\ UNCHANGED <<db, mark, clock, made, used>>

(* The lines of a header that is being deleted are locked until it is done. *)
Deleting(h) == \E u \in Workers : pc[u] = "erased" /\ target[u].header = h

(* op_at is the time t at which the handler asked for s.now(): after it had *)
(* looked, and before its transaction, which commits at clock + 1.  What    *)
(* others commit after t is later than op_at, but may be before at.         *)
Op(w, l, prev, new, t) ==
  [header |-> target[w].header, line |-> l, prev |-> prev, new |-> new,
   sets |-> job[w].kind # "reason", opAt |-> t, began |-> began[w], at |-> clock + 1]

(* The handler stamps its operation some time between its look and now.     *)
Stamps(w) == began[w]..clock

(* AddLine's transaction: the line refers to its header, which must exist.  *)
InsertLine(w) ==
  /\ pc[w] = "write" /\ job[w].kind = "add"
  /\ LET h == target[w].header IN
     IF Present(h)
     THEN \E p \in job[w].items : LET l == NewLine IN
            /\ LineIds \ used # {}
            /\ line' = [line EXCEPT ![l] =
                 [header |-> h, product |-> p, book |-> target[w].book,
                  actual |-> job[w].n, diff |-> job[w].n - target[w].book]]
            /\ \E t \in Stamps(w) : ops' = ops \union {Op(w, l, 0, job[w].n, t)}
            /\ used' = used \union {l}
            /\ Tick
     ELSE UNCHANGED <<line, ops, clock, used>>
  /\ End(w)
  /\ UNCHANGED <<header, plan, default, mark, made>>

(* Mutant: the database adds the delta to the quantity it holds, the        *)
(* operation records the quantity that was read.                            *)
UpdateLine_AddsInPlace(w) ==
  /\ pc[w] = "write" /\ job[w].kind \in {"overwrite", "accumulate", "reason"}
  /\ ~Deleting(target[w].header)
  /\ LET l == target[w].line  prev == target[w].seen.actual
         now == Result(job[w], line[l].actual) IN
     /\ line' = IF line[l] = NoLine \/ job[w].kind = "reason" THEN line
                ELSE [line EXCEPT ![l].actual = now, ![l].diff = now - target[w].seen.book]
     /\ \E t \in Stamps(w) : ops' = ops \union {Op(w, l, prev, Result(job[w], prev), t)}
  /\ Tick /\ End(w)
  /\ UNCHANGED <<header, plan, default, mark, made, used>>

(* UpdateLine's transaction: a line that is gone by now is not missed, the  *)
(* operation is written all the same.                                       *)
UpdateLine(w) ==
  /\ pc[w] = "write" /\ job[w].kind \in {"overwrite", "accumulate", "reason"}
  /\ ~Deleting(target[w].header)
  /\ LET l == target[w].line  prev == target[w].seen.actual
         new == Result(job[w], prev) IN
     /\ line' = IF line[l] = NoLine \/ job[w].kind = "reason" THEN line
                ELSE [line EXCEPT ![l].actual = new, ![l].diff = new - target[w].seen.book]
     /\ \E t \in Stamps(w) : ops' = ops \union {Op(w, l, prev, new, t)}
  /\ Tick /\ End(w)
  /\ UNCHANGED <<header, plan, default, mark, made, used>>

DeleteLine(w) ==
  /\ pc[w] = "write" /\ job[w].kind = "deleteLine"
  /\ ~Deleting(target[w].header)
  /\ line' = [line EXCEPT ![target[w].line] = NoLine]
  /\ \E t \in Stamps(w) :
       ops' = ops \union {Op(w, target[w].line, target[w].seen.actual, 0, t)}
  /\ Tick /\ End(w)
  /\ UNCHANGED <<header, plan, default, mark, made, used>>

-----------------------------------------------------------------------------
(* Submit reads the lines, then writes status and totals by id.             *)
SumUp(w) ==
  /\ pc[w] = "sum"
  /\ sum' = [sum EXCEPT ![w] = SumDiff(target[w].header)]
  /\ first' = [first EXCEPT ![w] = clock]
  /\ pc' = [pc EXCEPT ![w] = "write"]
  /\ UNCHANGED <<db, job, target, began, mark, clock, made, used>>

Submit(w) ==
  /\ pc[w] = "write" /\ job[w].kind = "submit"
  /\ LET h == target[w].header IN
     IF Present(h)
     THEN /\ header' = [header EXCEPT ![h] = [status |-> "adjusted", total |-> sum[w]]]
          /\ mark' = [mark EXCEPT ![h].summed = first[w], ![h].submitted = clock + 1]
          /\ Tick
     ELSE UNCHANGED <<header, mark, clock>>
  /\ End(w)
  /\ UNCHANGED <<line, ops, plan, default, made, used>>

Approve(w) ==
  /\ pc[w] = "write" /\ job[w].kind = "approve"
  /\ LET h == target[w].header IN
     IF Present(h)
     THEN /\ header' = [header EXCEPT ![h].status = "approved"]
          /\ mark' = [mark EXCEPT ![h].approved = clock + 1]
          /\ Tick
     ELSE UNCHANGED <<header, mark, clock>>
  /\ End(w)
  /\ UNCHANGED <<line, ops, plan, default, made, used>>

-----------------------------------------------------------------------------
(* DeleteHeader's transaction: first the rows of the children, then the     *)
(* header; what is inserted for the header in between stays, except lines,  *)
(* which the foreign key deletes with it.                                   *)
EraseChildren(w) ==
  /\ pc[w] = "write" /\ job[w].kind = "deleteHeader"
  /\ ~Deleting(target[w].header)
  /\ pc' = [pc EXCEPT ![w] = "erased"]
  /\ first' = [first EXCEPT ![w] = clock]
  /\ UNCHANGED <<db, job, target, began, sum, mark, clock, made, used>>

(* Mutant: the branch's default keeps pointing to the deleted header.       *)
DeleteHeader_KeepsDefault(w) ==
  /\ pc[w] = "erased"
  /\ LET h == target[w].header
         Stays(x) == x.header # h \/ x.at > first[w] IN
     /\ ops' = {o \in ops : Stays(o)}
     /\ plan' = {i \in plan : Stays(i)}
     /\ line' = [l \in LineIds |-> IF line[l].header = h THEN NoLine ELSE line[l]]
     /\ IF Present(h)
        THEN /\ header' = [header EXCEPT ![h] = [status |-> "deleted", total |-> 0]]
             /\ mark' = [mark EXCEPT ![h].erased = first[w], ![h].deleted = clock + 1]
             /\ Tick
        ELSE UNCHANGED <<header, mark, clock>>
  /\ End(w)
  /\ UNCHANGED <<default, made, used>>

DeleteHeader(w) ==
  /\ pc[w] = "erased"
  /\ LET h == target[w].header
         Stays(x) == x.header # h \/ x.at > first[w] IN
     /\ ops' = {o \in ops : Stays(o)}
     /\ plan' = {i \in plan : Stays(i)}
     /\ default' = IF Stays(default) THEN default ELSE NoDefault
     /\ line' = [l \in LineIds |-> IF line[l].header = h THEN NoLine ELSE line[l]]
     /\ IF Present(h)
        THEN /\ header' = [header EXCEPT ![h] = [status |-> "deleted", total |-> 0]]
             /\ mark' = [mark EXCEPT ![h].erased = first[w], ![h].deleted = clock + 1]
             /\ Tick
        ELSE UNCHANGED <<header, mark, clock>>
  /\ End(w)
  /\ UNCHANGED <<made, used>>

-----------------------------------------------------------------------------
(* AddPlanItems: the whole batch, or nothing when a product is there.       *)
AddPlanItems(w) ==
  /\ pc[w] = "write" /\ job[w].kind = "plan"
  /\ LET h == target[w].header
         there == {i \in plan : i.header = h /\ i.product \in job[w].items} IN
     IF there = {}
     THEN /\ plan' = plan \union {[header |-> h, product |-> p, began |-> began[w],
                                   at |-> clock + 1] : p \in job[w].items}
          /\ Tick
     ELSE /\ ~Deleting(h)
          /\ UNCHANGED <<plan, clock>>
  /\ End(w)
  /\ UNCHANGED <<header, line, ops, default, mark, made, used>>

DeletePlanItem(i) ==
  /\ i \in plan /\ ~Deleting(i.header)
  /\ plan' = plan \ {i}
  /\ UNCHANGED <<header, line, ops, default, own, mark, clock, made, used>>

(* SetBranchDefaultStocktake: an upsert of the branch's row.                *)
SetDefault(w) ==
  /\ pc[w] = "write" /\ job[w].kind = "setDefault"
  /\ ~Deleting(default.header)
  /\ default' = [header |-> target[w].header, began |-> began[w], at |-> clock + 1]
  /\ Tick /\ End(w)
  /\ UNCHANGED <<header, line, ops, plan, mark, made, used>>

-----------------------------------------------------------------------------
WorkerStep(w) ==
  \/ \E r \in Requests : \/ \E h \in Headers : LookAdd(w, r, h) \/ LookHeader(w, r, h)
                         \/ \E l \in LineIds : LookLine(w, r, l)
  \/ InsertLine(w) \/ UpdateLine(w) \/ DeleteLine(w)
  \/ SumUp(w) \/ Submit(w) \/ Approve(w)
  \/ EraseChildren(w) \/ DeleteHeader(w)
  \/ AddPlanItems(w) \/ SetDefault(w)
  \/ GiveUp(w)

Next ==
  \/ \E w \in Workers : WorkerStep(w)
  \/ \E h \in Headers : CreateHeader(h)
  \/ \E i \in plan : DeletePlanItem(i)

Spec == Init /\ [][Next]_vars

-----------------------------------------------------------------------------
LineType == [header : Headers \union {NoHeader}, product : Products \union {NoHeader},
             book : Int, actual : Int, diff : Int]
OpType == [header : Headers, line : LineIds, prev : Int, new : Int, sets : BOOLEAN,
           opAt : Nat, began : Nat, at : Nat]

TargetType == [header : Headers \union {NoHeader}, line : LineIds \union {0}, seen : LineType, book : Int]
MarkType == [summed : Nat, submitted : Nat, approved : Nat, erased : Nat, deleted : Nat]

(* The types, no line without a header, a product at most once in a plan.   *)
TypeOK ==
  /\ header \in [Headers -> [status : {"none", "counting", "adjusted", "approved", "deleted"},
                             total : Int]]
  /\ line \in [LineIds -> LineType]
  /\ \A l \in LineIds : line[l].header = NoHeader <=> line[l] = NoLine
  /\ ops \subseteq OpType
  /\ plan \subseteq [header : Headers, product : Products, began : Nat, at : Nat]
  /\ \A i, j \in plan : i.header = j.header /\ i.product = j.product => i = j
  /\ default \in [header : Headers, began : Nat, at : Nat] \union {NoDefault}
  /\ pc \in [Workers -> {"idle", "sum", "write", "erased"}]
  /\ job \in [Workers -> Requests \union {NoJob}]
  /\ target \in [Workers -> TargetType]
  /\ began \in [Workers -> Nat] /\ first \in [Workers -> Nat] /\ sum \in [Workers -> Int]
  /\ mark \in [Headers -> MarkType]
  /\ clock \in Nat /\ made \subseteq Requests /\ used \subseteq LineIds

OpsOf(l) == {o \in ops : o.line = l /\ o.sets}

(* The trail as it is read, ORDER BY op_at: the operations that may come    *)
(* last in it, and those that may come right before o.                      *)
LastOps(l) == {o \in OpsOf(l) : \A q \in OpsOf(l) : q.opAt <= o.opAt}
RightBefore(l, o) ==
  {q \in OpsOf(l) \ {o} :
     /\ q.opAt <= o.opAt
     /\ \A m \in OpsOf(l) : m.opAt <= q.opAt \/ o.opAt <= m.opAt}

(* c stands before o in the trail but was committed after it: o was stamped *)
(* and committed while c had been stamped and was not committed.            *)
Overtook(o, c) == c.opAt <= o.opAt /\ o.at < c.at

(* The audit trail explains every line.  The line's quantity is the result  *)
(* of the last operation of the trail, or of one the last overtook between  *)
(* its stamp and its commit; its difference is taken from the book quantity *)
(* of the day it was added.  An operation continues from the result of the  *)
(* one before it in the trail, unless that one was committed after the      *)
(* operation had read the line, or had overtaken the one it continues from. *)
AuditTrail ==
  /\ \A l \in LineIds : line[l] # NoLine =>
       /\ OpsOf(l) # {}
       /\ \A o \in LastOps(l) :
            \/ line[l].actual = o.new
            \/ \E c \in OpsOf(l) : Overtook(o, c) /\ line[l].actual = c.new
       /\ line[l].diff = line[l].actual - line[l].book
       /\ line[l].actual >= 0
  /\ \A l \in LineIds : \A o \in OpsOf(l) : \A q \in RightBefore(l, o) :
       \/ o.prev = q.new
       \/ o.began < q.at
       \/ \E c \in OpsOf(l) : Overtook(q, c) /\ o.prev = c.new

(* Submit freezes the total: it is the sum of the lines' differences, and   *)
(* only an operation that had looked at the status before the submission    *)
(* and committed after the sum was taken can part the two.                  *)
SubmitFreezesTotal ==
  \A h \in Headers : header[h].status \in {"adjusted", "approved"} =>
    /\ \A o \in ops : o.header = h => o.began < mark[h].submitted
    /\ (\A o \in ops : o.header = h => o.at <= mark[h].summed) => header[h].total = SumDiff(h)

(* An approved header and its lines change, or disappear, only by a request *)
(* that had looked at its status before it was approved.                    *)
ApprovedOnlyByStale ==
  [][\A h \in Headers :
       header[h].status = "approved" /\ (header[h]' # header[h] \/ \E l \in LinesOf(h) : line[l]' # line[l])
       => \E w \in Workers : /\ pc[w] # "idle" /\ pc'[w] = "idle" /\ target[w].header = h
                             /\ began[w] < mark[h].approved]_vars

(* Nothing refers to a deleted header, no operation, no plan item and not   *)
(* the branch's default, but what a request wrote that had looked at the    *)
(* header before it was deleted, after its children were.                   *)
OrphansOnlyByOverlap ==
  LET Excused(x) == Present(x.header) \/ /\ x.began < mark[x.header].deleted
                                         /\ x.at > mark[x.header].erased IN
  /\ \A o \in ops : Excused(o)
  /\ \A i \in plan : Excused(i)
  /\ default # NoDefault => Excused(default)
  /\ \A l \in LineIds : line[l] # NoLine => Present(line[l].header)
=============================================================================
