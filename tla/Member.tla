------------------------------- MODULE Member -------------------------------
(***************************************************************************)
(* One member of the member service: points (OnSalePaid, GrantPoints,      *)
(* DeductPoints), stored value (Recharge, Refund) and UpdateStatus, run by *)
(* concurrent handlers.  Every operation reads the member before its       *)
(* transaction and writes a ledger or outbox row with a unique op_id and   *)
(* the member's columns in it; what is stale is what was read before.      *)
(*                                                                         *)
(* The transactions read nothing of the member and take their locks in one *)
(* order (the op_id, then the member row; UpdateStatus the member row,     *)
(* then the outbox), so each is one step.  The member exists and its       *)
(* branch keeps its members here; a request that is refused changes        *)
(* nothing and is left out, and so is the consumed amount.                 *)
(***************************************************************************)
EXTENDS Integers, Sequences, FiniteSets, SequencesExt

CONSTANTS
  Sales,         \* sale.paid events: kind "sale" or "return", n cents
  Changes,       \* requests: kind "earn" or "deduct", n points
  Accounts,      \* requests: kind "recharge" or "payout", n cents
  Statuses,      \* requests: kind "status", status the new one
  Workers,
  MaxCopies,     \* bound: how often pos publishes one event
  MaxFaults      \* bound: database errors and crashes

Requests == Changes \union Accounts \union Statuses

ASSUME MemberAssumption ==
  /\ \A q \in Sales \union Requests : q.n \in Nat
  /\ \A q \in Changes \union Accounts : q.n > 0
  /\ \A q \in Sales : q.kind \in {"sale", "return"}
  /\ \A q \in Changes : q.kind \in {"earn", "deduct"}
  /\ \A q \in Accounts : q.kind \in {"recharge", "payout"}
  /\ \A q \in Statuses : q.kind = "status"
  /\ \A q, r \in Sales \union Requests : q.op = r.op => q = r
  /\ MaxCopies \in Nat \ {0} /\ MaxFaults \in Nat

VARIABLES
  member,        \* members: [acc, used, count, balance, status]
  points,        \* member_point_ledger in the order of the commits
  account,       \* member_account_ledger in the order of the commits
  changes,       \* the status changes in the outbox, in that order
  bus,           \* per event: copies the broker has not got acknowledged
  acked,         \* events a handler answered 200 for
  logged,        \* events it answered 200 for after an error, with a warning
  pc, job, seen, \* per worker: where it is, its event or request, the member it read
  overlapped,    \* history: two operations were between read and write at once
  faults

db     == <<member, points, account, changes>>
broker == <<bus, acked, logged>>
worker == <<pc, job, seen>>
vars   == <<db, broker, worker, overlapped, faults>>

Idle == [op |-> "none", kind |-> "idle", n |-> 0, status |-> "none"]
New  == [acc |-> 0, used |-> 0, count |-> 0, balance |-> 0, status |-> "normal"]

-----------------------------------------------------------------------------
Init ==
  /\ member = New
  /\ points = <<>> /\ account = <<>> /\ changes = <<>>
  /\ bus = [e \in Sales |-> MaxCopies]
  /\ acked = {} /\ logged = {}
  /\ pc = [w \in Workers |-> "idle"]
  /\ job = [w \in Workers |-> Idle]
  /\ seen = [w \in Workers |-> New]
  /\ overlapped = FALSE
  /\ faults = 0

Has(rows, op) == \E i \in DOMAIN rows : rows[i].op = op

(* getMember, outside the transaction.                                      *)
Start(w, q) ==
  /\ pc' = [pc EXCEPT ![w] = "apply"]
  /\ job' = [job EXCEPT ![w] = q]
  /\ seen' = [seen EXCEPT ![w] = member]
  /\ overlapped' = (overlapped \/ \E v \in Workers \ {w} : pc[v] = "apply")

Finish(w) ==
  /\ pc' = [pc EXCEPT ![w] = "idle"]
  /\ job' = [job EXCEPT ![w] = Idle]
  /\ seen' = [seen EXCEPT ![w] = New]

Applying(w, kinds) == pc[w] = "apply" /\ job[w].kind \in kinds

(* 200 to the broker, which drops the copy.                                 *)
Answer200(e) ==
  /\ bus' = [bus EXCEPT ![e] = IF @ = 0 THEN 0 ELSE @ - 1]
  /\ acked' = acked \union {e}

-----------------------------------------------------------------------------
(* sale.paid.                                                               *)

(* The outbox of pos publishes an event, again when it could not mark it.   *)
(* A copy that is not published yet cannot be told from one the broker has  *)
(* not delivered yet, so the bus holds all of them from the start.          *)

(* CalculatePoints at the rate of 1: a point per yuan, half a yuan rounds up. *)
CalculatePoints(cents) == (cents + 50) \div 100

(* Mutant: a sale that earns one point is skipped as well.                  *)
Receive_SkipsOne(w, e) ==
  /\ pc[w] = "idle" /\ bus[e] > 0
  /\ \/ /\ CalculatePoints(e.n) > 1
        /\ Start(w, e)
        /\ UNCHANGED broker
     \/ /\ CalculatePoints(e.n) <= 1
        /\ Answer200(e)
        /\ UNCHANGED <<logged, worker, overlapped>>
  /\ UNCHANGED <<db, faults>>

(* OnSalePaid up to its transaction; a sale without points is skipped.      *)
Receive(w, e) ==
  /\ pc[w] = "idle" /\ bus[e] > 0
  /\ \/ /\ CalculatePoints(e.n) > 0
        /\ Start(w, e)
        /\ UNCHANGED broker
     \/ /\ CalculatePoints(e.n) = 0
        /\ Answer200(e)
        /\ UNCHANGED <<logged, worker, overlapped>>
  /\ UNCHANGED <<db, faults>>

(* The ledger row under its unique op_id, then the member's columns by      *)
(* increments; a row that is there already leaves everything as it is.      *)
WritePoints(w, delta, after, m) ==
  IF Has(points, job[w].op) THEN UNCHANGED <<points, member>>
  ELSE /\ points' = Append(points, [op |-> job[w].op, kind |-> job[w].kind, points |-> delta,
                                    after |-> after])
       /\ member' = m

(* Mutant: absolute values from the member that was read.                   *)
ApplySale_Absolute(w) ==
  /\ Applying(w, {"sale"})
  /\ LET p == CalculatePoints(job[w].n) IN
       WritePoints(w, p, seen[w].acc + p,
                   [member EXCEPT !.acc = seen[w].acc + p, !.count = seen[w].count + 1])
  /\ pc' = [pc EXCEPT ![w] = "answer"]
  /\ UNCHANGED <<account, changes, broker, job, seen, overlapped, faults>>

ApplySale(w) ==
  /\ Applying(w, {"sale"})
  /\ LET p == CalculatePoints(job[w].n) IN
       WritePoints(w, p, seen[w].acc + p, [member EXCEPT !.acc = @ + p, !.count = @ + 1])
  /\ pc' = [pc EXCEPT ![w] = "answer"]
  /\ UNCHANGED <<account, changes, broker, job, seen, overlapped, faults>>

(* A refund takes back no more than the member it read had accumulated.     *)
Deduct(w) ==
  LET p == CalculatePoints(job[w].n) IN IF p > seen[w].acc THEN seen[w].acc ELSE p

(* applyRefundPoints; with nothing to take back it writes no ledger row.    *)
ApplyReturn(w) ==
  /\ Applying(w, {"return"})
  /\ IF Deduct(w) <= 0 THEN UNCHANGED <<points, member>>
     ELSE WritePoints(w, -Deduct(w), seen[w].acc - Deduct(w),
                      [member EXCEPT !.acc = @ - Deduct(w)])
  /\ pc' = [pc EXCEPT ![w] = "answer"]
  /\ UNCHANGED <<account, changes, broker, job, seen, overlapped, faults>>

Answer(w) ==
  /\ pc[w] = "answer"
  /\ Answer200(job[w])
  /\ Finish(w)
  /\ UNCHANGED <<db, logged, overlapped, faults>>

(* A database error in OnSalePaid: dispatchSubscribe logs a warning and     *)
(* answers 200 to every error, so that nothing is retried for ever.         *)
HandlerError(w) ==
  /\ Applying(w, {"sale", "return"})
  /\ faults < MaxFaults /\ faults' = faults + 1
  /\ Answer200(job[w])
  /\ logged' = logged \union {job[w]}
  /\ Finish(w)
  /\ UNCHANGED <<db, overlapped>>

-----------------------------------------------------------------------------
(* Requests.                                                                *)

(* Mutant: the card's status is not looked at.                              *)
Allowed_AnyCard(q) ==
  /\ q.kind = "deduct" => member.acc - member.used >= q.n
  /\ q.kind = "payout" => member.balance >= q.n

(* changePoints and changeAccount before their transaction: the card is     *)
(* normal, and there is enough to take from.                                *)
Allowed(q) ==
  /\ member.status = "normal"
  /\ q.kind = "deduct" => member.acc - member.used >= q.n
  /\ q.kind = "payout" => member.balance >= q.n

Request(w, q) ==
  /\ pc[w] = "idle"
  /\ Allowed(q)
  /\ Start(w, q)
  /\ UNCHANGED <<db, broker, faults>>

(* changePoints: a grant adds to what was accumulated, a deduction to what  *)
(* was used.                                                                *)
ChangePoints(w) ==
  /\ Applying(w, {"earn", "deduct"})
  /\ LET n == job[w].n IN
       IF job[w].kind = "earn"
       THEN WritePoints(w, n, seen[w].acc + n, [member EXCEPT !.acc = @ + n])
       ELSE WritePoints(w, -n, seen[w].acc, [member EXCEPT !.used = @ + n])
  /\ Finish(w)
  /\ UNCHANGED <<account, changes, broker, overlapped, faults>>

BalanceAfter(w) == seen[w].balance + (IF job[w].kind = "recharge" THEN job[w].n ELSE -job[w].n)

(* Mutant: a replay writes the balance once more.                           *)
ChangeAccount_Replays(w) ==
  /\ Applying(w, {"recharge", "payout"})
  /\ account' = IF Has(account, job[w].op) THEN account
                ELSE Append(account, [op |-> job[w].op, kind |-> job[w].kind, n |-> job[w].n,
                                      after |-> BalanceAfter(w)])
  /\ member' = [member EXCEPT !.balance = BalanceAfter(w)]
  /\ Finish(w)
  /\ UNCHANGED <<points, changes, broker, overlapped, faults>>

(* changeAccount: the ledger row under its unique op_id, then the balance   *)
(* as the absolute value computed from the member that was read.            *)
ChangeAccount(w) ==
  /\ Applying(w, {"recharge", "payout"})
  /\ IF Has(account, job[w].op) THEN UNCHANGED <<account, member>>
     ELSE /\ account' = Append(account, [op |-> job[w].op, kind |-> job[w].kind, n |-> job[w].n,
                                         after |-> BalanceAfter(w)])
          /\ member' = [member EXCEPT !.balance = BalanceAfter(w)]
  /\ Finish(w)
  /\ UNCHANGED <<points, changes, broker, overlapped, faults>>

ValidMemberStatus(s) == s \in {"normal", "frozen", "lost", "cancelled"}

(* UpdateStatus: the op_id is looked up in the outbox ...                   *)
UpdateStatus(w, q) ==
  /\ pc[w] = "idle"
  /\ ValidMemberStatus(q.status)
  /\ ~Has(changes, q.op)
  /\ Start(w, q)
  /\ UNCHANGED <<db, broker, faults>>

(* Mutant: neither the lookup nor the outbox key stops a repeated op_id.    *)
WriteStatus_NoKey(w) ==
  /\ Applying(w, {"status"})
  /\ member' = [member EXCEPT !.status = job[w].status]
  /\ changes' = Append(changes, job[w])
  /\ Finish(w)
  /\ UNCHANGED <<points, account, broker, overlapped, faults>>

(* ... and the status is written with the outbox row, whose key rolls a     *)
(* transaction back that looked before the first one committed.             *)
WriteStatus(w) ==
  /\ Applying(w, {"status"})
  /\ IF Has(changes, job[w].op) THEN UNCHANGED <<changes, member>>
     ELSE /\ member' = [member EXCEPT !.status = job[w].status]
          /\ changes' = Append(changes, job[w])
  /\ Finish(w)
  /\ UNCHANGED <<points, account, broker, overlapped, faults>>

(* The process dies, or a request fails: before the commit nothing is       *)
(* written; a copy of an event stays with the broker.                       *)
Crash(w) ==
  /\ pc[w] # "idle"
  /\ faults < MaxFaults /\ faults' = faults + 1
  /\ Finish(w)
  /\ UNCHANGED <<db, broker, overlapped>>

-----------------------------------------------------------------------------
WorkerStep(w) ==
  \/ ApplySale(w) \/ ApplyReturn(w) \/ Answer(w)
  \/ ChangePoints(w) \/ ChangeAccount(w) \/ WriteStatus(w)

Next ==
  \/ \E w \in Workers :
       \/ \E e \in Sales : Receive(w, e)
       \/ \E q \in Changes \union Accounts : Request(w, q)
       \/ \E q \in Statuses : UpdateStatus(w, q)
       \/ WorkerStep(w) \/ HandlerError(w) \/ Crash(w)

Spec == Init /\ [][Next]_vars

-----------------------------------------------------------------------------
PointKinds   == {"sale", "return", "earn", "deduct"}
AccountKinds == {"recharge", "payout"}

Ops        == {q.op : q \in Sales \union Requests}
MemberRow  == [acc : Int, used : Nat, count : Nat, balance : Int,
               status : {"normal", "frozen", "lost", "cancelled"}]
PointRow   == [op : Ops, kind : PointKinds, points : Int, after : Int]
AccountRow == [op : Ops, kind : AccountKinds, n : Nat, after : Int]

TypeOK ==
  /\ member \in MemberRow
  /\ points \in Seq(PointRow) /\ account \in Seq(AccountRow) /\ changes \in Seq(Statuses)
  /\ bus \in [Sales -> 0..MaxCopies]
  /\ acked \subseteq Sales /\ logged \subseteq Sales
  /\ pc \in [Workers -> {"idle", "apply", "answer"}]
  /\ job \in [Workers -> Sales \union Requests \union {Idle}]
  /\ seen \in [Workers -> MemberRow]
  /\ overlapped \in BOOLEAN /\ faults \in 0..MaxFaults

Once(rows) == \A i, j \in DOMAIN rows : rows[i].op = rows[j].op => i = j

(* What a ledger adds up to: the points accumulated and used, the points of *)
(* the rows that add some, the sales, the money.                            *)
Moves(row) == row.kind \in {"sale", "return", "earn"}

Accumulated(rows) == SumFunction([i \in DOMAIN rows |-> IF Moves(rows[i]) THEN rows[i].points ELSE 0])
Used(rows)   == SumFunction([i \in DOMAIN rows |-> IF Moves(rows[i]) THEN 0 ELSE -rows[i].points])
Earned(rows) == SumFunction([i \in DOMAIN rows |-> IF rows[i].points > 0 THEN rows[i].points ELSE 0])
SalesOf(rows) == Cardinality({i \in DOMAIN rows : rows[i].kind = "sale"})
MoneyOf(rows) == SumFunction([i \in DOMAIN rows |-> IF rows[i].kind = "recharge" THEN rows[i].n ELSE -rows[i].n])

(* Delivered or submitted any number of times, also in parallel, an op_id   *)
(* counts once, and the member's columns are the sums of the point ledger,  *)
(* with any number of handlers that read the member before the others wrote *)
(* it.                                                                      *)
ColumnsAreLedger ==
  /\ Once(points) /\ Once(account)
  /\ member.acc = Accumulated(points)
  /\ member.used = Used(points)
  /\ member.count = SalesOf(points)

(* The balance is the sum of the account ledger.                            *)
BalanceIsLedger == member.balance = MoneyOf(account)

Chained(rows) ==
  \A i \in DOMAIN rows :
    rows[i].after = (IF i = 1 THEN 0 ELSE rows[i - 1].after)
                    + (IF Moves(rows[i]) THEN rows[i].points ELSE 0)

(* Operations that do not overlap leave exact books: the rows of points     *)
(* chain by points_after, the accumulated points never fall below zero, no  *)
(* more is deducted than was earned, and the balance is the sum of the      *)
(* account ledger.                                                          *)
ExactAlone ==
  ~overlapped =>
    /\ BalanceIsLedger
    /\ Chained(points)
    /\ member.acc >= 0
    /\ member.used <= Earned(points)

(* The balance of a card that is not normal does not move, unless the       *)
(* change of the status overlapped.                                         *)
FrozenDoesNotMove ==
  [][~overlapped /\ member.status # "normal" => member'.balance = member.balance]_vars

(* A status change repeated later never undoes a newer one.                 *)
StatusIsLastChange ==
  /\ member.status = IF changes = <<>> THEN "normal" ELSE changes[Len(changes)].status
  /\ Once(changes)

(* A sale answered 200 has its points, or a warning in the log of the       *)
(* service: nothing is dropped in silence.                                  *)
AckedWasCredited ==
  \A e \in acked :
    e.kind = "sale" /\ CalculatePoints(e.n) > 0 => Has(points, e.op) \/ e \in logged
=============================================================================
