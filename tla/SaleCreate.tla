----------------------------- MODULE SaleCreate -----------------------------
(***************************************************************************)
(* Create of the pos service and its order numbers: several instances of   *)
(* the service, each with its own counter (saleIDGen), write sales orders  *)
(* into one table with two unique indexes, the order number and the op_id. *)
(*                                                                         *)
(* The request is valid (validateCreate); lines, payments and the outbox   *)
(* row hang on the order in the same transaction and appear with it, so    *)
(* they are not separate state.  An order number is its day and sequence.  *)
(***************************************************************************)
EXTENDS Naturals, FiniteSets, FiniteSetsExt

CONSTANTS
  Instances,
  Requests,        \* handler goroutines
  ServedBy,        \* [Requests -> Instances]
  Ops,             \* op_ids clients submit, again when an answer is missing
  NoOp,            \* the op_id of an idle handler
  MaxIDAttempts,   \* maxIDAttempts
  LastDay,         \* bound: business days
  MaxFaults        \* bound: failed transactions and restarts

ASSUME CreateAssumption ==
  /\ NoOp \notin Ops
  /\ ServedBy \in [Requests -> Instances]
  /\ MaxIDAttempts \in Nat \ {0} /\ LastDay \in Nat \ {0} /\ MaxFaults \in Nat

VARIABLES
  today,           \* the business day
  gen,             \* per instance: its counter, [day, seq]
  orders,          \* committed orders, [day, seq, op]
  answers,         \* orders that were answered with 200, [day, seq, op]
  pc, op,          \* per request: where it is, what it sells
  now,             \* per request: the day it read before its transaction
  attempt,         \* per request: numbers taken so far
  id,              \* per request: the last one, [day, seq]
  faults

request == <<pc, op, now, attempt, id>>
vars    == <<today, gen, orders, answers, request, faults>>

NoID == [day |-> 0, seq |-> 0]

-----------------------------------------------------------------------------
Init ==
  /\ today = 1
  /\ gen = [i \in Instances |-> NoID]
  /\ orders = {} /\ answers = {}
  /\ pc = [r \in Requests |-> "idle"]
  /\ op = [r \in Requests |-> NoOp]
  /\ now = [r \in Requests |-> 0]
  /\ attempt = [r \in Requests |-> 0]
  /\ id = [r \in Requests |-> NoID]
  /\ faults = 0

Order(d, o) == [day |-> d.day, seq |-> d.seq, op |-> o]

OrderOf(o) == {x \in orders : x.op = o}

(* The requests in R are over; their uncommitted rows are gone.             *)
End(R) ==
  /\ pc' = [r \in Requests |-> IF r \in R THEN "idle" ELSE pc[r]]
  /\ op' = [r \in Requests |-> IF r \in R THEN NoOp ELSE op[r]]
  /\ now' = [r \in Requests |-> IF r \in R THEN 0 ELSE now[r]]
  /\ attempt' = [r \in Requests |-> IF r \in R THEN 0 ELSE attempt[r]]
  /\ id' = [r \in Requests |-> IF r \in R THEN NoID ELSE id[r]]

-----------------------------------------------------------------------------
(* Create, the fast path: the op_id has its order.                          *)
Replay(r, o) ==
  /\ pc[r] = "idle"
  /\ OrderOf(o) # {}
  /\ answers' = answers \union OrderOf(o)
  /\ UNCHANGED <<today, gen, orders, request, faults>>

(* Create: read the clock, begin the transaction.                           *)
Begin(r, o) ==
  /\ pc[r] = "idle"
  /\ OrderOf(o) = {}
  /\ pc' = [pc EXCEPT ![r] = "next"]
  /\ op' = [op EXCEPT ![r] = o]
  /\ now' = [now EXCEPT ![r] = today]
  /\ UNCHANGED <<today, gen, orders, answers, attempt, id, faults>>

(* The highest sequence of the committed orders of the day.                 *)
maxSaleSeqOfDay(d) == Max({x.seq : x \in {y \in orders : y.day = d}} \union {0})

(* saleIDGen.next under its mutex: a counter of another day is seeded from  *)
(* the table first.                                                         *)
next(g, d) == [day |-> d, seq |-> (IF g.day = d THEN g.seq ELSE maxSaleSeqOfDay(d)) + 1]

TakeID(r) ==
  /\ pc[r] = "next"
  /\ attempt[r] < MaxIDAttempts
  /\ LET n == next(gen[ServedBy[r]], now[r]) IN
       /\ gen' = [gen EXCEPT ![ServedBy[r]] = n]
       /\ id' = [id EXCEPT ![r] = n]
  /\ attempt' = [attempt EXCEPT ![r] = @ + 1]
  /\ pc' = [pc EXCEPT ![r] = "insert"]
  /\ UNCHANGED <<today, orders, answers, op, now, faults>>

(* The retries are used up: 500.                                            *)
Exhausted(r) ==
  /\ pc[r] = "next"
  /\ attempt[r] = MaxIDAttempts
  /\ End({r})
  /\ UNCHANGED <<today, gen, orders, answers, faults>>

(* Mutant: no unique index on the op_id.                                    *)
Clash_IdOnly(x, y) == x.day = y.day /\ x.seq = y.seq

(* The two rows violate a unique index together.                            *)
Clash(x, y) == x.op = y.op \/ (x.day = y.day /\ x.seq = y.seq)

(* insertOrder: INSERT ... ON CONFLICT DO NOTHING waits for the transaction *)
(* of a row it clashes with.                                                *)
Insert(r) ==
  LET row == Order(id[r], op[r]) IN
  /\ pc[r] = "insert"
  /\ \A s \in Requests \ {r} : pc[s] = "commit" => ~Clash(row, Order(id[s], op[s]))
  /\ \/ /\ \A x \in orders : ~Clash(row, x)
        /\ pc' = [pc EXCEPT ![r] = "commit"]
        /\ UNCHANGED <<answers, op, now, attempt, id>>
     \/ /\ \E x \in orders : Clash(row, x)
        /\ OrderOf(op[r]) = {}
        /\ pc' = [pc EXCEPT ![r] = "next"]
        /\ UNCHANGED <<answers, op, now, attempt, id>>
     \/ /\ \E x \in orders : Clash(row, x)
        /\ OrderOf(op[r]) # {}
        /\ answers' = answers \union OrderOf(op[r])
        /\ End({r})
  /\ UNCHANGED <<today, gen, orders, faults>>

(* Lines, payments and the outbox row, then the commit and the answer.      *)
Commit(r) ==
  /\ pc[r] = "commit"
  /\ orders' = orders \union {Order(id[r], op[r])}
  /\ answers' = answers \union {Order(id[r], op[r])}
  /\ End({r})
  /\ UNCHANGED <<today, gen, faults>>

(* The commit is done but the answer is lost.                               *)
CommitUnanswered(r) ==
  /\ pc[r] = "commit"
  /\ faults < MaxFaults /\ faults' = faults + 1
  /\ orders' = orders \union {Order(id[r], op[r])}
  /\ End({r})
  /\ UNCHANGED <<today, gen, answers>>

(* A statement fails: the transaction rolls back, the number is not reused. *)
Fail(r) ==
  /\ pc[r] # "idle"
  /\ faults < MaxFaults /\ faults' = faults + 1
  /\ End({r})
  /\ UNCHANGED <<today, gen, orders, answers>>

-----------------------------------------------------------------------------
Restart(i) ==
  /\ faults < MaxFaults /\ faults' = faults + 1
  /\ gen' = [gen EXCEPT ![i] = NoID]
  /\ End({r \in Requests : ServedBy[r] = i})
  /\ UNCHANGED <<today, orders, answers>>

Midnight ==
  /\ today < LastDay
  /\ today' = today + 1
  /\ UNCHANGED <<gen, orders, answers, request, faults>>

-----------------------------------------------------------------------------
Next ==
  \/ \E r \in Requests, o \in Ops : Replay(r, o) \/ Begin(r, o)
  \/ \E r \in Requests :
       TakeID(r) \/ Exhausted(r) \/ Insert(r) \/ Commit(r) \/ CommitUnanswered(r) \/ Fail(r)
  \/ \E i \in Instances : Restart(i)
  \/ Midnight

Spec == Init /\ [][Next]_vars

-----------------------------------------------------------------------------
TypeOK ==
  /\ today \in 1..LastDay
  /\ gen \in [Instances -> [day : 0..LastDay, seq : Nat]]
  /\ orders \subseteq [day : 1..LastDay, seq : Nat \ {0}, op : Ops]
  /\ answers \subseteq [day : 1..LastDay, seq : Nat \ {0}, op : Ops]
  /\ pc \in [Requests -> {"idle", "next", "insert", "commit"}]
  /\ op \in [Requests -> Ops \union {NoOp}]
  /\ now \in [Requests -> 0..LastDay]
  /\ attempt \in [Requests -> 0..MaxIDAttempts]
  /\ id \in [Requests -> [day : 0..LastDay, seq : Nat]]
  /\ faults \in 0..MaxFaults

(* An op_id submitted any number of times, to any instance, makes one order.*)
OneOrderPerOp == \A x, y \in orders : x.op = y.op => x = y

(* No two orders have the same number, whatever the counters do.            *)
UniqueNumbers == \A x, y \in orders : x.day = y.day /\ x.seq = y.seq => x = y

(* The two unique indexes hold over all instances, retries and days.        *)
OrdersAreUnique == OneOrderPerOp /\ UniqueNumbers

(* Every answer to an op_id names the same order, and that order exists.    *)
SameAnswer ==
  /\ answers \subseteq orders
  /\ \A x, y \in answers : x.op = y.op => x = y

(* While the day lasts, a request that met a taken number is never given it *)
(* again, nor a lower one, whatever the other requests of its instance take *)
(* meanwhile.  (After midnight a straggler may set the counter back.)       *)
RetryTakesNewNumber ==
  [][\A r \in Requests :
       today = 1 /\ attempt[r] > 0 /\ attempt'[r] > attempt[r] => id'[r].seq > id[r].seq]_vars
=============================================================================
