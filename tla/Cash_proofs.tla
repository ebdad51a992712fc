------------------------------ MODULE Cash_proofs ------------------------------
(***************************************************************************)
(* The money of a branch: the orders that the pos service writes and pays  *)
(* back (SaleCreate, SaleRefund) and the batches that reconcile the books  *)
(* (ReconPeriod), for any number of instances, requests, days and faults.  *)
(*                                                                         *)
(* Create.  Uniqueness of numbers does not rest on the counters: they are  *)
(* only guesses.  It rests on insertOrder waiting for, and giving way to, a *)
(* row it clashes with; so the invariant speaks about the rows that are    *)
(* inserted but not yet committed.                                         *)
(*                                                                         *)
(* Refund.  What was read before the first lock may be stale at every later *)
(* step, so nothing rests on it.  A refund that has updated a line holds its *)
(* row, and what it took there was checked against the row it holds; the   *)
(* invariant says so of every request (ClerkOK), and that no two requests of *)
(* one op_id have inserted their keys.  Since returned quantities only grow, *)
(* a refund that completed the order when it was computed still does when it *)
(* commits, and the sums over events and lines move together.              *)
(*                                                                         *)
(* Reconciliation.  A request reads, and writes what follows from it in a  *)
(* later step.  What it has read still holds at the write unless another   *)
(* request wrote to one of its days in between, and then it is marked stale *)
(* (ReadsHold).                                                            *)
(*                                                                         *)
(* The engine.  A strict total order on a finite set has a sorted sequence *)
(* (SortedIs), so the takings and the lines come in order of their days.   *)
(* Each pass adds results for takings and lines that have none (PairsUp,   *)
(* Covered), so nothing is lost.  And any pairing can be turned, one of the *)
(* takings at a time, into the one the first passes make without losing a  *)
(* pair (Exchange), so no match is missed.                                 *)
(***************************************************************************)
EXTENDS SaleCreate, SaleRefund, ReconPeriod, SumLemmas, SequenceTheorems, TLAPS

-----------------------------------------------------------------------------
(* Create.                                                                  *)

Row(r) == Order(id[r], op[r])

SeqsOfDay(d) == {x.seq : x \in {y \in orders : y.day = d}} \union {0}

(* The rows of a day have a highest number, from which a counter is seeded. *)
SeedExists ==
  \A d \in 0..LastDay : \E m \in SeqsOfDay(d) : \A n \in SeqsOfDay(d) : m >= n

(* A request past Begin knows its op_id and its day, past TakeID its number. *)
RequestKnows ==
  \A r \in Requests :
    /\ pc[r] # "idle" => op[r] \in Ops /\ now[r] \in 1..LastDay
    /\ pc[r] \in {"insert", "commit"} => id[r].day \in 1..LastDay /\ id[r].seq \in Nat \ {0}

(* An inserted row clashes with no committed and no other inserted row.     *)
InsertedFits ==
  \A r \in Requests : pc[r] = "commit" =>
    /\ \A x \in orders : ~Clash(Row(r), x)
    /\ \A s \in Requests \ {r} : pc[s] = "commit" => ~Clash(Row(r), Row(s))

IInv ==
  /\ TypeOK
  /\ SeedExists
  /\ RequestKnows
  /\ InsertedFits
  /\ OneOrderPerOp
  /\ UniqueNumbers
  /\ SameAnswer

-----------------------------------------------------------------------------
(* saleIDGen.next gives a positive number of the day it was asked for.      *)
LEMMA NextNumber ==
  ASSUME TypeOK, SeedExists, NEW i \in Instances, NEW d \in 1..LastDay
  PROVE  /\ next(gen[i], d).day = d
         /\ next(gen[i], d).seq \in Nat \ {0}
         /\ next(gen[i], d) \in [day : 0..LastDay, seq : Nat]
         /\ gen[i].day = d => next(gen[i], d).seq > gen[i].seq
<1>1. PICK m \in SeqsOfDay(d) : \A n \in SeqsOfDay(d) : m >= n
  BY CreateAssumption DEF SeedExists
<1>2. maxSaleSeqOfDay(d) \in SeqsOfDay(d)
  BY <1>1 DEF maxSaleSeqOfDay, SeqsOfDay, Max
<1>3. SeqsOfDay(d) \subseteq Nat
  BY DEF SeqsOfDay, TypeOK
<1>4. gen[i].seq \in Nat
  BY DEF TypeOK
<1> QED
  BY <1>2, <1>3, <1>4, CreateAssumption DEF next

(* The unique indexes do not care which row came first.                     *)
LEMMA ClashSymmetric ==
  ASSUME NEW x, NEW y, Clash(x, y)
  PROVE  Clash(y, x)
BY DEF Clash

(* Requests that end leave well-typed variables and forget their rows.      *)
LEMMA EndKeeps ==
  ASSUME TypeOK, RequestKnows, NEW R \in SUBSET Requests, End(R)
  PROVE  /\ pc' \in [Requests -> {"idle", "next", "insert", "commit"}]
         /\ op' \in [Requests -> Ops \union {NoOp}]
         /\ now' \in [Requests -> 0..LastDay]
         /\ attempt' \in [Requests -> 0..MaxIDAttempts]
         /\ id' \in [Requests -> [day : 0..LastDay, seq : Nat]]
         /\ RequestKnows'
         /\ \A r \in Requests : pc'[r] = "commit" => r \notin R /\ pc[r] = "commit" /\ Row(r)' = Row(r)
<1>1. NoID \in [day : 0..LastDay, seq : Nat]
  BY CreateAssumption DEF NoID
<1>2. /\ pc' \in [Requests -> {"idle", "next", "insert", "commit"}]
      /\ op' \in [Requests -> Ops \union {NoOp}]
      /\ now' \in [Requests -> 0..LastDay]
      /\ attempt' \in [Requests -> 0..MaxIDAttempts]
      /\ id' \in [Requests -> [day : 0..LastDay, seq : Nat]]
  BY <1>1, CreateAssumption DEF End, TypeOK
<1>3. RequestKnows'
  BY DEF End, RequestKnows
<1>4. ASSUME NEW r \in Requests, pc'[r] = "commit"
      PROVE  r \notin R /\ pc[r] = "commit" /\ Row(r)' = Row(r)
  BY <1>4 DEF End, Row, Order
<1> QED
  BY <1>2, <1>3, <1>4

-----------------------------------------------------------------------------
(* No orders, no requests: the invariant holds.                             *)
LEMMA InitIInv == Init => IInv
<1> SUFFICES ASSUME Init PROVE IInv
  OBVIOUS
<1>1. TypeOK
  BY CreateAssumption DEF Init, TypeOK, NoID
<1>2. SeedExists
  <2>1. \A d \in 0..LastDay : SeqsOfDay(d) = {0}
    BY DEF Init, SeqsOfDay
  <2> QED
    BY <2>1 DEF SeedExists
<1>3. RequestKnows /\ InsertedFits
  BY DEF Init, RequestKnows, InsertedFits
<1>4. OneOrderPerOp /\ UniqueNumbers /\ SameAnswer
  BY DEF Init, OneOrderPerOp, UniqueNumbers, SameAnswer
<1> QED
  BY <1>1, <1>2, <1>3, <1>4 DEF IInv

(* A step that commits nothing and inserts nothing keeps what is said about *)
(* the orders.                                                              *)
LEMMA OrdersUntouched ==
  ASSUME IInv, orders' = orders,
         \A r \in Requests : pc'[r] = "commit" => pc[r] = "commit" /\ Row(r)' = Row(r),
         answers' = answers \/ \E o \in Ops : answers' = answers \union OrderOf(o)
  PROVE  (SeedExists /\ InsertedFits /\ OneOrderPerOp /\ UniqueNumbers /\ SameAnswer)'
<1> USE DEF IInv
<1>1. SeedExists'
  BY DEF SeedExists, SeqsOfDay
<1>2. InsertedFits'
  BY DEF InsertedFits
<1>3. (OneOrderPerOp /\ UniqueNumbers)'
  BY DEF OneOrderPerOp, UniqueNumbers
<1>4. answers' \subseteq orders
  BY DEF SameAnswer, OrderOf
<1>5. SameAnswer'
  BY <1>4 DEF SameAnswer, OneOrderPerOp
<1> QED
  BY <1>1, <1>2, <1>3, <1>5

(* The commit of an inserted row, answered or not.                          *)
LEMMA CommitOrder ==
  ASSUME IInv, NEW r \in Requests, pc[r] = "commit", End({r}),
         orders' = orders \union {Row(r)},
         answers' \in {answers, answers \union {Row(r)}}
  PROVE  /\ orders' \subseteq [day : 1..LastDay, seq : Nat \ {0}, op : Ops]
         /\ answers' \subseteq [day : 1..LastDay, seq : Nat \ {0}, op : Ops]
         /\ (SeedExists /\ InsertedFits /\ OneOrderPerOp /\ UniqueNumbers /\ SameAnswer)'
<1> USE DEF IInv
<1>1. Row(r) \in [day : 1..LastDay, seq : Nat \ {0}, op : Ops]
  BY DEF RequestKnows, Row, Order
<1>2. /\ orders' \subseteq [day : 1..LastDay, seq : Nat \ {0}, op : Ops]
      /\ answers' \subseteq [day : 1..LastDay, seq : Nat \ {0}, op : Ops]
  BY <1>1 DEF TypeOK
<1>3. SeedExists'
  <2> SUFFICES ASSUME NEW d \in 0..LastDay
               PROVE  \E m \in SeqsOfDay(d)' : \A n \in SeqsOfDay(d)' : m >= n
    BY DEF SeedExists
  <2>1. PICK m \in SeqsOfDay(d) : \A n \in SeqsOfDay(d) : m >= n
    BY DEF SeedExists
  <2>2. SeqsOfDay(d) \subseteq Nat
    BY DEF SeqsOfDay, TypeOK
  <2>3. CASE Row(r).day = d
    <3>1. SeqsOfDay(d)' = SeqsOfDay(d) \union {Row(r).seq}
      BY <2>3 DEF SeqsOfDay
    <3>2. Row(r).seq \in Nat
      BY <1>1
    <3>3. CASE Row(r).seq >= m
      BY <2>1, <2>2, <3>1, <3>2, <3>3
    <3>4. CASE ~(Row(r).seq >= m)
      BY <2>1, <2>2, <3>1, <3>2, <3>4
    <3> QED
      BY <3>3, <3>4
  <2>4. CASE Row(r).day # d
    <3>1. SeqsOfDay(d)' = SeqsOfDay(d)
      BY <2>4 DEF SeqsOfDay
    <3> QED
      BY <2>1, <3>1
  <2> QED
    BY <2>3, <2>4
<1>4. InsertedFits'
  <2>1. \A s \in Requests : pc'[s] = "commit" =>
          s # r /\ pc[s] = "commit" /\ Row(s)' = Row(s)
    BY EndKeeps
  <2>2. \A s \in Requests \ {r} : pc[s] = "commit" => ~Clash(Row(s), Row(r))
    BY DEF InsertedFits
  <2> QED
    BY <2>1, <2>2 DEF InsertedFits
<1>5. \A x \in orders : ~Clash(Row(r), x)
  BY DEF InsertedFits
<1>6. (OneOrderPerOp /\ UniqueNumbers)'
  BY <1>5 DEF OneOrderPerOp, UniqueNumbers, Clash
<1>7. answers' \subseteq orders'
  BY DEF SameAnswer
<1>8. SameAnswer'
  BY <1>6, <1>7 DEF SameAnswer, OneOrderPerOp
<1> QED
  BY <1>2, <1>3, <1>4, <1>6, <1>8

-----------------------------------------------------------------------------
(* Replay: the answer is the order of the op_id.                            *)
LEMMA ReplayKeepsIInv ==
  ASSUME IInv, NEW r \in Requests, NEW o \in Ops, Replay(r, o)
  PROVE  IInv'
<1> USE DEF IInv
<1>1. TypeOK'
  BY DEF TypeOK, Replay, OrderOf, request
<1>2. RequestKnows'
  BY DEF RequestKnows, Replay, request
<1>3. (SeedExists /\ InsertedFits /\ OneOrderPerOp /\ UniqueNumbers /\ SameAnswer)'
  BY OrdersUntouched DEF Replay, request, Row, Order
<1> QED
  BY <1>1, <1>2, <1>3

(* Begin: the request knows its op_id and its day.                          *)
LEMMA BeginKeepsIInv ==
  ASSUME IInv, NEW r \in Requests, NEW o \in Ops, Begin(r, o)
  PROVE  IInv'
<1> USE DEF IInv
<1>1. TypeOK'
  BY DEF TypeOK, Begin
<1>2. RequestKnows'
  BY DEF RequestKnows, Begin, TypeOK
<1>3. (SeedExists /\ InsertedFits /\ OneOrderPerOp /\ UniqueNumbers /\ SameAnswer)'
  <2>1. \A s \in Requests : pc'[s] = "commit" => pc[s] = "commit" /\ Row(s)' = Row(s)
    BY DEF Begin, TypeOK, Row, Order
  <2> QED
    BY <2>1, OrdersUntouched DEF Begin
<1> QED
  BY <1>1, <1>2, <1>3

(* TakeID: the request has a number; nothing is inserted yet.               *)
LEMMA TakeIDKeepsIInv ==
  ASSUME IInv, NEW r \in Requests, TakeID(r)
  PROVE  IInv'
<1> USE DEF IInv
<1> DEFINE n == next(gen[ServedBy[r]], now[r])
<1>0. ServedBy[r] \in Instances /\ now[r] \in 1..LastDay
  BY CreateAssumption DEF RequestKnows, TakeID
<1>1. n.day \in 1..LastDay /\ n.seq \in Nat \ {0} /\ n \in [day : 0..LastDay, seq : Nat]
  BY <1>0, NextNumber
<1>2. TypeOK'
  <2>1. gen' = [gen EXCEPT ![ServedBy[r]] = n] /\ id' = [id EXCEPT ![r] = n]
    BY DEF TakeID
  <2>2. /\ gen' \in [Instances -> [day : 0..LastDay, seq : Nat]]
        /\ id' \in [Requests -> [day : 0..LastDay, seq : Nat]]
    BY <1>1, <2>1 DEF TypeOK
  <2>3. attempt[r] \in 0..MaxIDAttempts /\ attempt[r] < MaxIDAttempts
    BY DEF TypeOK, TakeID
  <2>4. attempt' \in [Requests -> 0..MaxIDAttempts]
    BY <2>3, CreateAssumption DEF TypeOK, TakeID
  <2> QED
    BY <2>2, <2>4 DEF TypeOK, TakeID
<1>3. RequestKnows'
  BY <1>1 DEF RequestKnows, TakeID, TypeOK
<1>4. (SeedExists /\ InsertedFits /\ OneOrderPerOp /\ UniqueNumbers /\ SameAnswer)'
  <2>1. \A s \in Requests : pc'[s] = "commit" => pc[s] = "commit" /\ Row(s)' = Row(s)
    BY DEF TakeID, TypeOK, Row, Order
  <2> QED
    BY <2>1, OrdersUntouched DEF TakeID
<1> QED
  BY <1>2, <1>3, <1>4

(* Exhausted, Fail and Restart end requests and touch no order.             *)
LEMMA EndingKeepsIInv ==
  ASSUME IInv, NEW R \in SUBSET Requests, End(R), UNCHANGED <<today, orders, answers>>,
         gen' = gen \/ \E i \in Instances : gen' = [gen EXCEPT ![i] = NoID],
         faults' \in 0..MaxFaults
  PROVE  IInv'
<1> USE DEF IInv
<1>1. gen' \in [Instances -> [day : 0..LastDay, seq : Nat]]
  BY CreateAssumption DEF TypeOK, NoID
<1>2. TypeOK'
  BY <1>1, EndKeeps DEF TypeOK
<1>3. RequestKnows'
  BY EndKeeps
<1>4. (SeedExists /\ InsertedFits /\ OneOrderPerOp /\ UniqueNumbers /\ SameAnswer)'
  BY EndKeeps, OrdersUntouched
<1> QED
  BY <1>2, <1>3, <1>4

(* insertOrder: the row gets in, or gives way to the row it clashes with.   *)
LEMMA InsertKeepsIInv ==
  ASSUME IInv, NEW r \in Requests, Insert(r)
  PROVE  IInv'
<1> USE DEF IInv
<1>0. /\ pc[r] = "insert" /\ UNCHANGED <<today, gen, orders, faults>>
      /\ \A s \in Requests \ {r} : pc[s] = "commit" => ~Clash(Row(r), Row(s))
  BY DEF Insert, Row
<1>1. CASE /\ \A x \in orders : ~Clash(Row(r), x)
           /\ pc' = [pc EXCEPT ![r] = "commit"]
           /\ UNCHANGED <<answers, op, now, attempt, id>>
  <2>1. TypeOK' /\ RequestKnows'
    BY <1>0, <1>1 DEF TypeOK, RequestKnows
  <2>2. \A s \in Requests : Row(s)' = Row(s)
    BY <1>1 DEF Row, Order
  <2>3. \A s \in Requests \ {r} : pc[s] = "commit" => ~Clash(Row(s), Row(r))
    BY <1>0, ClashSymmetric
  <2>4. InsertedFits'
    BY <1>0, <1>1, <2>2, <2>3 DEF InsertedFits, TypeOK
  <2>5. (SeedExists /\ OneOrderPerOp /\ UniqueNumbers /\ SameAnswer)'
    BY <1>0, <1>1 DEF SeedExists, SeqsOfDay, OneOrderPerOp, UniqueNumbers, SameAnswer
  <2> QED
    BY <2>1, <2>4, <2>5
<1>2. CASE pc' = [pc EXCEPT ![r] = "next"] /\ UNCHANGED <<answers, op, now, attempt, id>>
  <2>1. TypeOK' /\ RequestKnows'
    BY <1>0, <1>2 DEF TypeOK, RequestKnows
  <2>2. \A s \in Requests : pc'[s] = "commit" => pc[s] = "commit" /\ Row(s)' = Row(s)
    BY <1>2 DEF TypeOK, Row, Order
  <2> QED
    BY <1>0, <1>2, <2>1, <2>2, OrdersUntouched
<1>3. CASE answers' = answers \union OrderOf(op[r]) /\ End({r})
  <2>0. op[r] \in Ops
    BY <1>0 DEF RequestKnows
  <2>1. answers' \subseteq [day : 1..LastDay, seq : Nat \ {0}, op : Ops]
    BY <1>3 DEF TypeOK, OrderOf
  <2>2. TypeOK' /\ RequestKnows'
    BY <1>0, <1>3, <2>1, EndKeeps DEF TypeOK
  <2>3. \A s \in Requests : pc'[s] = "commit" => pc[s] = "commit" /\ Row(s)' = Row(s)
    BY <1>3, EndKeeps
  <2> QED
    BY <1>0, <1>3, <2>0, <2>2, <2>3, OrdersUntouched
<1> QED
  BY <1>1, <1>2, <1>3 DEF Insert, Row

(* Commit, answered or not: the inserted row becomes an order.              *)
LEMMA CommitKeepsIInv ==
  ASSUME IInv, NEW r \in Requests, Commit(r) \/ CommitUnanswered(r)
  PROVE  IInv'
<1> USE DEF IInv
<1>0. /\ pc[r] = "commit" /\ End({r})
      /\ orders' = orders \union {Row(r)}
      /\ answers' \in {answers, answers \union {Row(r)}}
      /\ UNCHANGED <<today, gen>>
      /\ faults' \in 0..MaxFaults
  BY CreateAssumption DEF Commit, CommitUnanswered, Row, TypeOK
<1>1. /\ orders' \subseteq [day : 1..LastDay, seq : Nat \ {0}, op : Ops]
      /\ answers' \subseteq [day : 1..LastDay, seq : Nat \ {0}, op : Ops]
      /\ (SeedExists /\ InsertedFits /\ OneOrderPerOp /\ UniqueNumbers /\ SameAnswer)'
  BY <1>0, CommitOrder
<1>2. TypeOK' /\ RequestKnows'
  BY <1>0, <1>1, EndKeeps DEF TypeOK
<1> QED
  BY <1>1, <1>2

(* Midnight: nothing but the day changes.                                   *)
LEMMA MidnightKeepsIInv ==
  ASSUME IInv, Midnight
  PROVE  IInv'
<1> USE DEF IInv
<1>1. TypeOK'
  BY CreateAssumption DEF TypeOK, Midnight, request
<1>2. RequestKnows'
  BY DEF RequestKnows, Midnight, request
<1>3. (SeedExists /\ InsertedFits /\ OneOrderPerOp /\ UniqueNumbers /\ SameAnswer)'
  BY OrdersUntouched DEF Midnight, request, Row, Order
<1> QED
  BY <1>1, <1>2, <1>3

-----------------------------------------------------------------------------
(* Every step keeps the invariant.                                          *)
LEMMA NextIInv == IInv /\ [Next]_vars => IInv'
<1> SUFFICES ASSUME IInv, [Next]_vars PROVE IInv'
  OBVIOUS
<1>1. ASSUME NEW r \in Requests, NEW o \in Ops, Replay(r, o) \/ Begin(r, o) PROVE IInv'
  BY <1>1, ReplayKeepsIInv, BeginKeepsIInv
<1>2. ASSUME NEW r \in Requests, TakeID(r) \/ Insert(r) PROVE IInv'
  BY <1>2, TakeIDKeepsIInv, InsertKeepsIInv
<1>3. ASSUME NEW r \in Requests, Commit(r) \/ CommitUnanswered(r) PROVE IInv'
  BY <1>3, CommitKeepsIInv
<1>4. ASSUME NEW r \in Requests, Exhausted(r) PROVE IInv'
  BY <1>4, EndingKeepsIInv DEF Exhausted, IInv, TypeOK
<1>5. ASSUME NEW r \in Requests, Fail(r) PROVE IInv'
  <2>1. faults' \in 0..MaxFaults
    BY <1>5, CreateAssumption DEF Fail, IInv, TypeOK
  <2> QED
    BY <1>5, <2>1, EndingKeepsIInv DEF Fail
<1>6. ASSUME NEW i \in Instances, Restart(i) PROVE IInv'
  <2>1. faults' \in 0..MaxFaults
    BY <1>6, CreateAssumption DEF Restart, IInv, TypeOK
  <2> DEFINE R == {r \in Requests : ServedBy[r] = i}
  <2>2. R \in SUBSET Requests /\ End(R)
    BY <1>6 DEF Restart
  <2> HIDE DEF R
  <2> QED
    BY <1>6, <2>1, <2>2, EndingKeepsIInv DEF Restart
<1>7. CASE Midnight
  BY <1>7, MidnightKeepsIInv
<1>8. CASE UNCHANGED vars
  <2>1. (TypeOK /\ RequestKnows)'
    BY <1>8 DEF IInv, TypeOK, RequestKnows, vars, request
  <2> QED
    BY <1>8, <2>1, OrdersUntouched DEF IInv, vars, request, Row, Order
<1> QED
  BY <1>1, <1>2, <1>3, <1>4, <1>5, <1>6, <1>7, <1>8 DEF Next

(* The invariant of Create, for any number of instances and handlers.       *)
THEOREM Invariance == Spec => []IInv
<1> QED
  BY InitIInv, NextIInv, PTL DEF Spec

(* The variables keep their types; in particular no number is 0 and no      *)
(* request exceeds its retries.                                             *)
THEOREM TypeCorrect == Spec => []TypeOK
<1>1. IInv => TypeOK
  BY DEF IInv
<1> QED
  BY <1>1, Invariance, PTL

(* Create is idempotent in op_id, over all instances of the service.        *)
THEOREM CreateOnce == Spec => []OneOrderPerOp
<1>1. IInv => OneOrderPerOp
  BY DEF IInv
<1> QED
  BY <1>1, Invariance, PTL

(* insertOrder never lets two orders have one number, however far off the   *)
(* counters are.                                                            *)
THEOREM NumbersAreUnique == Spec => []UniqueNumbers
<1>1. IInv => UniqueNumbers
  BY DEF IInv
<1> QED
  BY <1>1, Invariance, PTL

(* Both together: one order per op_id and one per number.                   *)
THEOREM OrdersUnique == Spec => []OrdersAreUnique
<1> QED
  BY CreateOnce, NumbersAreUnique, PTL DEF OrdersAreUnique

(* All answers to an op_id name one committed order.                        *)
THEOREM AnswersAgree == Spec => []SameAnswer
<1>1. IInv => SameAnswer
  BY DEF IInv
<1> QED
  BY <1>1, Invariance, PTL

-----------------------------------------------------------------------------
(* On the first day every number a request was given is at most the counter *)
(* of its instance, which no straggler of another day sets back.            *)
FirstDay ==
  today = 1 =>
    /\ \A i \in Instances : gen[i].day \in {0, 1}
    /\ \A r \in Requests : pc[r] # "idle" => now[r] = 1
    /\ \A r \in Requests : attempt[r] > 0 =>
         /\ pc[r] # "idle"
         /\ gen[ServedBy[r]].day = 1
         /\ id[r].seq <= gen[ServedBy[r]].seq

(* In the first state nobody has a number.                                  *)
LEMMA InitFirstDay == Init => FirstDay
BY CreateAssumption DEF Init, FirstDay, NoID

(* The number TakeID gives on the first day is above the counter, if the    *)
(* counter is of that day.                                                  *)
LEMMA TakenOnFirstDay ==
  ASSUME IInv, FirstDay, today = 1, NEW r \in Requests, TakeID(r)
  PROVE  /\ id'[r].day = 1 /\ id'[r].seq \in Nat
         /\ gen' = [gen EXCEPT ![ServedBy[r]] = id'[r]]
         /\ gen[ServedBy[r]].day = 1 => id'[r].seq > gen[ServedBy[r]].seq
<1>1. now[r] = 1 /\ 1 \in 1..LastDay /\ ServedBy[r] \in Instances
  BY CreateAssumption DEF FirstDay, TakeID
<1>2. id'[r] = next(gen[ServedBy[r]], now[r]) /\ gen' = [gen EXCEPT ![ServedBy[r]] = id'[r]]
  BY DEF TakeID, IInv, TypeOK
<1> QED
  BY <1>1, <1>2, NextNumber DEF IInv

(* While the first day lasts, no step takes a counter below a number in use.*)
LEMMA NextFirstDay == IInv /\ FirstDay /\ [Next]_vars => FirstDay'
<1> SUFFICES ASSUME IInv, FirstDay, [Next]_vars, today' = 1 PROVE FirstDay'
  BY DEF FirstDay
<1>0. today = 1
  <2>1. today' = today \/ today' = today + 1
    BY DEF Next, Replay, Begin, TakeID, Exhausted, Insert, Commit, CommitUnanswered, Fail,
       Restart, Midnight, vars
  <2>2. today \in Nat \ {0}
    BY CreateAssumption DEF IInv, TypeOK
  <2> QED
    BY <2>1, <2>2
<1>1. ASSUME NEW r \in Requests, NEW o \in Ops, Replay(r, o) \/ Begin(r, o) PROVE FirstDay'
  BY <1>0, <1>1 DEF FirstDay, Replay, Begin, request, IInv, TypeOK
<1>2. ASSUME NEW r \in Requests, TakeID(r) PROVE FirstDay'
  <2>1. /\ id'[r].day = 1 /\ id'[r].seq \in Nat
        /\ gen' = [gen EXCEPT ![ServedBy[r]] = id'[r]]
        /\ gen[ServedBy[r]].day = 1 => id'[r].seq > gen[ServedBy[r]].seq
    BY <1>0, <1>2, TakenOnFirstDay
  <2>2. ServedBy \in [Requests -> Instances] /\ gen \in [Instances -> [day : 0..LastDay, seq : Nat]]
    BY CreateAssumption DEF IInv, TypeOK
  <2>3. \A s \in Requests \ {r} : id'[s] = id[s] /\ attempt'[s] = attempt[s] /\ pc'[s] = pc[s]
    BY <1>2 DEF TakeID, IInv, TypeOK
  <2>4. \A i \in Instances : gen'[i].day \in {0, 1}
    BY <1>0, <2>1, <2>2 DEF FirstDay
  <2>5. \A s \in Requests : pc'[s] # "idle" => now'[s] = 1
    BY <1>0, <1>2 DEF FirstDay, TakeID, IInv, TypeOK
  <2>6. pc'[r] # "idle" /\ gen'[ServedBy[r]].day = 1 /\ id'[r].seq <= gen'[ServedBy[r]].seq
    <3>1. pc'[r] # "idle"
      BY <1>2 DEF TakeID, IInv, TypeOK
    <3>2. gen'[ServedBy[r]] = id'[r]
      BY <2>1, <2>2
    <3> QED
      BY <2>1, <3>1, <3>2
  <2>7. ASSUME NEW s \in Requests \ {r}, attempt'[s] > 0
        PROVE  /\ pc'[s] # "idle"
               /\ gen'[ServedBy[s]].day = 1
               /\ id'[s].seq <= gen'[ServedBy[s]].seq
    <3>1. /\ pc[s] # "idle" /\ gen[ServedBy[s]].day = 1
          /\ id[s].seq <= gen[ServedBy[s]].seq /\ id[s].seq \in Nat
      BY <1>0, <2>3, <2>7 DEF FirstDay, IInv, TypeOK
    <3>2. CASE ServedBy[s] = ServedBy[r]
      BY <2>1, <2>2, <2>3, <3>1, <3>2
    <3>3. CASE ServedBy[s] # ServedBy[r]
      BY <2>1, <2>2, <2>3, <3>1, <3>3
    <3> QED
      BY <3>2, <3>3
  <2> QED
    BY <2>4, <2>5, <2>6, <2>7 DEF FirstDay
<1>3. ASSUME NEW r \in Requests, Insert(r) PROVE FirstDay'
  BY <1>0, <1>3 DEF FirstDay, Insert, End, IInv, TypeOK
<1>4. ASSUME NEW r \in Requests,
             Exhausted(r) \/ Commit(r) \/ CommitUnanswered(r) \/ Fail(r)
      PROVE  FirstDay'
  BY <1>0, <1>4 DEF FirstDay, Exhausted, Commit, CommitUnanswered, Fail, End, IInv, TypeOK
<1>5. ASSUME NEW i \in Instances, Restart(i) PROVE FirstDay'
  BY <1>0, <1>5, CreateAssumption DEF FirstDay, Restart, End, NoID, IInv, TypeOK
<1>6. CASE Midnight
  BY <1>0, <1>6 DEF Midnight
<1>7. CASE UNCHANGED vars
  BY <1>0, <1>7 DEF FirstDay, vars, request
<1> QED
  BY <1>1, <1>2, <1>3, <1>4, <1>5, <1>6, <1>7 DEF Next

(* ids.go, "numbers within a process are monotonic": on one day the loop of *)
(* insertOrder always tries a higher number than the one that was taken.    *)
THEOREM RetriesAscend == Spec => RetryTakesNewNumber
<1>1. ASSUME IInv, FirstDay, [Next]_vars, NEW r \in Requests, today = 1,
             attempt[r] > 0, attempt'[r] > attempt[r]
      PROVE  id'[r].seq > id[r].seq
  <2>1. TakeID(r)
    BY <1>1 DEF Next, Replay, Begin, TakeID, Exhausted, Insert, Commit, CommitUnanswered, Fail,
       Restart, Midnight, End, request, vars, IInv, TypeOK
  <2>2. /\ id'[r].seq \in Nat
        /\ gen[ServedBy[r]].day = 1 => id'[r].seq > gen[ServedBy[r]].seq
    BY <1>1, <2>1, TakenOnFirstDay
  <2>3. /\ gen[ServedBy[r]].day = 1 /\ id[r].seq <= gen[ServedBy[r]].seq
        /\ id[r].seq \in Nat /\ gen[ServedBy[r]].seq \in Nat
    BY <1>1, CreateAssumption DEF FirstDay, IInv, TypeOK
  <2> QED
    BY <2>2, <2>3
<1>2. IInv /\ FirstDay /\ [Next]_vars =>
        [\A r \in Requests :
           today = 1 /\ attempt[r] > 0 /\ attempt'[r] > attempt[r] => id'[r].seq > id[r].seq]_vars
  BY <1>1
<1> QED
  BY <1>2, InitIInv, NextIInv, InitFirstDay, NextFirstDay, PTL DEF Spec, RetryTakesNewNumber

-----------------------------------------------------------------------------
(* Refund and PriceOverride.                                                *)

(* What the first k entries of a refund take from line l.                   *)
QtyUpTo(p, k, l) == SumFunction([i \in 1..k |-> IF p[i].line = l THEN p[i].qty ELSE 0])

Planned(c) == stage[c] \in {"pay", "update", "commit"}

Knows(c) ==
  /\ stage[c] = "lines" \/ Planned(c) => job[c] \in Refunds
  /\ stage[c] \in {"sum", "total"} => job[c] \in Overrides
  /\ Planned(c) => plan[c] # <<>>
  /\ stage[c] \in {"idle", "lines", "pay"} => done[c] = 0
  /\ stage[c] = "update" => done[c] \in 0..(Len(plan[c]) - 1)
  /\ stage[c] = "commit" => done[c] = Len(plan[c])

(* The lines a refund has updated are locked by it, and what it takes from  *)
(* them they still have.                                                    *)
Holds(c) ==
  Inserted(c) => \A i \in 1..done[c] : lock[plan[c][i].line] = c

Reserves(c) ==
  Inserted(c) => \A l \in Lines : lock[l] = c => line[l].returned + Written(c, l) <= Sold[l].qty

(* A refund that completes the order completes it whatever comes between.   *)
Completes(c) ==
  Planned(c) /\ full[c] => \A l \in Lines : line[l].returned + Now(plan[c], l) >= Sold[l].qty

ClerkOK(c) ==
  /\ Knows(c) /\ Holds(c) /\ Reserves(c) /\ Completes(c)
  /\ Inserted(c) => ~AlreadyDone(job[c].op)

KeysApart ==
  \A c, d \in Clerks : c # d /\ Inserted(c) /\ Inserted(d) => job[c].op # job[d].op

PaidAsBuilt ==
  \A i \in DOMAIN refunds :
    refunds[i].paid = buildRefundPayments(refunds[i].total, RefundTotal(refunds[i].items))

RefundInv ==
  /\ RefundTypeOK
  /\ \A c \in Clerks : ClerkOK(c)
  /\ KeysApart /\ EventsMatchLines /\ NeverOverReturned /\ ReturnedMeansAll
  /\ PaidAsBuilt

EventRow == [op : {r.op : r \in Refunds}, items : Seq(ItemType), total : Int,
             paid : {buildRefundPayments(t, a) : t, a \in Int}]

RefundIInv == RefundInv /\ refunds \in Seq(EventRow)

-----------------------------------------------------------------------------
LEMMA Counting ==
  ASSUME NEW k \in Nat
  PROVE  IsFiniteSet(1..k) /\ IsFiniteSet(1..0) /\ 1..0 = {}
BY FS_Interval

LEMMA ItemAt ==
  ASSUME NEW p \in Seq(ItemType)
  PROVE  /\ Len(p) \in Nat /\ DOMAIN p = 1..Len(p)
         /\ \A i \in 1..Len(p) : p[i].line \in Lines /\ p[i].qty \in Nat /\ p[i].amount \in Int
<1>1. \A i \in 1..Len(p) : p[i] \in ItemType
  OBVIOUS
<1>2. QED
  BY <1>1 DEF ItemType

LEMMA QtyTyped ==
  ASSUME NEW p \in Seq(ItemType), NEW k \in 0..Len(p), NEW l
  PROVE  QtyUpTo(p, k, l) \in Nat
<1> DEFINE f == [i \in 1..k |-> IF p[i].line = l THEN p[i].qty ELSE 0]
<1>1. \A i \in 1..k : f[i] \in Nat
  BY ItemAt
<1>2. DOMAIN f = 1..k /\ IsFiniteSet(1..k)
  BY Counting
<1>3. QED
  <2> HIDE DEF f
  <2>1. SumFunctionOnSet(f, 1..k) \in Nat
    BY <1>1, <1>2, SumNat
  <2>2. QED
    BY <1>2, <2>1 DEF QtyUpTo, SumFunction, f

LEMMA QtyNone ==
  ASSUME NEW p \in Seq(ItemType), NEW k \in 0..Len(p), NEW l, \A i \in 1..k : p[i].line # l
  PROVE  QtyUpTo(p, k, l) = 0
<1> DEFINE f == [i \in 1..k |-> IF p[i].line = l THEN p[i].qty ELSE 0]
<1>1. \A i \in 1..k : f[i] = 0
  OBVIOUS
<1>2. DOMAIN f = 1..k /\ IsFiniteSet(1..k)
  BY Counting
<1>3. QED
  <2> HIDE DEF f
  <2>1. SumFunctionOnSet(f, 1..k) = 0
    BY <1>1, <1>2, SumZero
  <2>2. QED
    BY <1>2, <2>1 DEF QtyUpTo, SumFunction, f

LEMMA QtyNext ==
  ASSUME NEW p \in Seq(ItemType), NEW k \in 0..(Len(p) - 1), NEW l
  PROVE  QtyUpTo(p, k + 1, l) = QtyUpTo(p, k, l) + (IF p[k + 1].line = l THEN p[k + 1].qty ELSE 0)
<1> DEFINE f == [i \in 1..k |-> IF p[i].line = l THEN p[i].qty ELSE 0]
<1> DEFINE e == [i \in 1..(k + 1) |-> IF p[i].line = l THEN p[i].qty ELSE 0]
<1>1. /\ k \in Nat /\ DOMAIN f = 1..k /\ DOMAIN e = 1..(k + 1)
      /\ e[k + 1] = IF p[k + 1].line = l THEN p[k + 1].qty ELSE 0
  OBVIOUS
<1>2. \A i \in 1..(k + 1) : p[i].qty \in Int
  BY ItemAt
<1>3. (\A i \in 1..k : f[i] \in Int /\ e[i] = f[i]) /\ e[k + 1] \in Int
  BY <1>2
<1>4. QED
  <2> HIDE DEF f, e
  <2>1. SumFunctionOnSet(e, 1..(k + 1)) = SumFunctionOnSet(f, 1..k) + e[k + 1]
    BY <1>1, <1>3, SumAppend
  <2>2. QED
    BY <1>1, <2>1 DEF QtyUpTo, SumFunction, f, e

(* Some set of numbers up to k, if it has a member, has a greatest one.     *)
LEMMA Greatest ==
  ASSUME NEW k \in Nat, NEW S \in SUBSET (1..k), S # {}
  PROVE  \E m \in S : \A j \in S : j <= m
<1> DEFINE Good == {n \in Nat : \A T \in SUBSET (1..n) : T # {} => \E m \in T : \A j \in T : j <= m}
<1>1. 0 \in Good
  <2>1. 1..0 = {}
    OBVIOUS
  <2>2. QED
    BY <2>1
<1>2. ASSUME NEW n \in Good PROVE n + 1 \in Good
  <2>1. ASSUME NEW T \in SUBSET (1..(n + 1)), T # {} PROVE \E m \in T : \A j \in T : j <= m
    <3>1. CASE n + 1 \in T
      BY <3>1
    <3>2. CASE n + 1 \notin T
      <4>1. \A x \in T : x \in 1..n
        BY <3>2
      <4>2. T \in SUBSET (1..n)
        BY <4>1
      <4>3. QED
        BY <2>1, <4>2
    <3>3. QED
      BY <3>1, <3>2
  <2>2. QED
    BY <2>1
<1>3. Good \in SUBSET Nat
  OBVIOUS
<1>4. Good = Nat
  <2> HIDE DEF Good
  <2>1. QED
    BY <1>1, <1>2, <1>3, SetInduction
<1>5. QED
  BY <1>4

(* The entry of a line that counts is one of those that are returned.       *)
LEMMA NowAtMost ==
  ASSUME NEW p \in Seq(ItemType), NEW l
  PROVE  Now(p, l) \in Nat /\ Now(p, l) <= QtyUpTo(p, Len(p), l)
<1> DEFINE n == Len(p)
<1> DEFINE f == [i \in 1..n |-> IF p[i].line = l THEN p[i].qty ELSE 0]
<1> DEFINE at == {i \in DOMAIN p : p[i].line = l}
<1>1. n \in Nat /\ DOMAIN p = 1..n /\ DOMAIN f = 1..n
  OBVIOUS
<1>2. QtyUpTo(p, n, l) \in Nat
  BY QtyTyped
<1>3. CASE at = {}
  BY <1>2, <1>3 DEF Now
<1>4. CASE at # {}
  <2> DEFINE m == CHOOSE i \in at : \A j \in at : j <= i
  <2>1. at \in SUBSET (1..n)
    BY <1>1
  <2>2. \E i \in at : \A j \in at : j <= i
    <3> HIDE DEF at, n
    <3>1. QED
      BY <1>1, <1>4, <2>1, Greatest
  <2>3. m \in at
    BY <2>2
  <2>4. Now(p, l) = p[m].qty
    BY <1>4 DEF Now
  <2>5. m \in 1..n /\ f[m] = p[m].qty /\ p[m].qty \in Nat
    BY <1>1, <2>3, ItemAt
  <2>6. \A i \in 1..n : f[i] \in Nat
    BY ItemAt
  <2>7. f[m] <= SumFunctionOnSet(f, 1..n)
    <3> HIDE DEF f, m, n
    <3>1. QED
      BY <1>1, <2>5, <2>6, Counting, SumNat
  <2>8. QED
    BY <1>1, <2>4, <2>5, <2>7 DEF QtyUpTo, SumFunction
<1>5. QED
  BY <1>3, <1>4

LEMMA AmountsInt ==
  ASSUME NEW p \in Seq(ItemType)
  PROVE  /\ RefundTotal(p) \in Int
         /\ \A k \in 0..Len(p) : \A l : Sum([i \in 1..k |-> IF p[i].line = l THEN p[i].amount ELSE 0]) \in Int
<1>1. RefundTotal(p) \in Int
  <2> DEFINE f == AmountsOf(p)
  <2>1. DOMAIN f = 1..Len(p) /\ IsFiniteSet(1..Len(p)) /\ \A i \in 1..Len(p) : f[i] \in Int
    BY Counting, ItemAt DEF AmountsOf
  <2> HIDE DEF f
  <2>2. SumFunctionOnSet(f, 1..Len(p)) \in Int
    BY <2>1, SumInt
  <2>3. QED
    BY <2>1, <2>2 DEF RefundTotal, Sum, SumFunction, f
<1>2. ASSUME NEW k \in 0..Len(p), NEW l
      PROVE  Sum([i \in 1..k |-> IF p[i].line = l THEN p[i].amount ELSE 0]) \in Int
  <2> DEFINE f == [i \in 1..k |-> IF p[i].line = l THEN p[i].amount ELSE 0]
  <2>1. DOMAIN f = 1..k /\ IsFiniteSet(1..k) /\ \A i \in 1..k : f[i] \in Int
    BY Counting, ItemAt
  <2> HIDE DEF f
  <2>2. SumFunctionOnSet(f, 1..k) \in Int
    BY <2>1, SumInt
  <2>3. QED
    BY <2>1, <2>2 DEF Sum, SumFunction, f
<1>3. QED
  BY <1>1, <1>2

LEMMA RoundInt ==
  ASSUME NEW a \in Int, NEW b \in Nat \ {0}
  PROVE  RoundDiv(a, b) \in Int
BY DEF RoundDiv

(* The parts of a split refund add up to it, whatever rounding does.        *)
LEMMA SplitIsExact ==
  ASSUME NEW total \in Nat, total = Sum(Pays), NEW refund \in 0..total
  PROVE  Sum(buildRefundPayments(total, refund)) = refund
<1> DEFINE n == Len(Pays)
<1> DEFINE share(i) == RoundDiv(Pays[i] * refund, total)
<1>1. n \in Nat \ {0} /\ DOMAIN Pays = 1..n /\ \A i \in 1..n : Pays[i] \in Nat
  BY SaleAssumption
<1>2. CASE refund >= total
  BY <1>2 DEF buildRefundPayments
<1>3. CASE ~(refund >= total)
  <2> DEFINE f == [j \in 1..(n - 1) |-> share(j)]
  <2> DEFINE e == [i \in DOMAIN Pays |->
                     IF i < Len(Pays) THEN share(i) ELSE refund - Sum([j \in 1..(i - 1) |-> share(j)])]
  <2>1. buildRefundPayments(total, refund) = e
    BY <1>3 DEF buildRefundPayments
  <2>2. \A i \in 1..n : share(i) \in Int
    <3>1. total \in Nat \ {0}
      BY <1>3
    <3>2. \A i \in 1..n : Pays[i] * refund \in Int
      BY <1>1
    <3>3. QED
      BY <3>1, <3>2, RoundInt
  <2>3. /\ n - 1 \in Nat /\ (n - 1) + 1 = n /\ DOMAIN f = 1..(n - 1) /\ DOMAIN e = 1..((n - 1) + 1)
        /\ \A i \in 1..(n - 1) : e[i] = f[i]
        /\ e[n] = refund - Sum(f)
    BY <1>1
  <2>4. \A i \in 1..(n - 1) : f[i] \in Int
    BY <1>1, <2>2
  <2> HIDE DEF f, e
  <2>5. Sum(f) = SumFunctionOnSet(f, 1..(n - 1)) /\ Sum(e) = SumFunctionOnSet(e, 1..((n - 1) + 1))
    BY <2>3 DEF Sum, SumFunction
  <2>6. SumFunctionOnSet(f, 1..(n - 1)) \in Int
    BY <2>3, <2>4, Counting, SumInt
  <2>7. e[n] \in Int /\ e[n] = refund - SumFunctionOnSet(f, 1..(n - 1))
    BY <2>3, <2>5, <2>6
  <2>8. SumFunctionOnSet(e, 1..((n - 1) + 1)) = SumFunctionOnSet(f, 1..(n - 1)) + e[(n - 1) + 1]
    BY <2>3, <2>4, <2>7, SumAppend
  <2>9. QED
    BY <2>1, <2>3, <2>5, <2>6, <2>7, <2>8
<1>4. QED
  BY <1>2, <1>3

-----------------------------------------------------------------------------
(* The open lines in order are a sequence.                                  *)
LEMMA OpenTyped ==
  ASSUME RefundTypeOK
  PROVE  Open \in Seq(Lines)
<1> DEFINE n == Len(Sold)
<1> DEFINE Is(s, k) == Ascending(s) /\ Range(s) = {l \in 1..k : Left(l) > 0}
<1> DEFINE Good == {k \in Nat : \E m \in 0..k : \E s \in [1..m -> 1..k] : Is(s, k)}
<1>1. n \in Nat /\ Lines = 1..n
  BY SaleAssumption DEF Lines
<1>2. 0 \in Good
  <2> DEFINE s == [i \in 1..0 |-> i]
  <2>1. 1..0 = {} /\ s \in [1..0 -> 1..0] /\ Is(s, 0) /\ 0 \in 0..0
    BY DEF Ascending, Range
  <2> HIDE DEF s, Is
  <2>2. \E m \in 0..0 : \E q \in [1..m -> 1..0] : Is(q, 0)
    BY <2>1
  <2>3. QED
    BY <2>2
<1>3. ASSUME NEW k \in Good PROVE k + 1 \in Good
  <2>1. PICK m \in 0..k : \E s \in [1..m -> 1..k] : Is(s, k)
    BY <1>3
  <2>2. PICK s \in [1..m -> 1..k] : Is(s, k)
    BY <2>1
  <2>3. CASE ~(Left(k + 1) > 0)
    <3>1. s \in [1..m -> 1..(k + 1)] /\ m \in 0..(k + 1)
      BY <2>2
    <3>2. {l \in 1..(k + 1) : Left(l) > 0} = {l \in 1..k : Left(l) > 0}
      BY <2>3
    <3>3. Is(s, k + 1)
      BY <2>2, <3>2
    <3>4. QED
      BY <3>1, <3>3
  <2>4. CASE Left(k + 1) > 0
    <3> DEFINE t == [i \in 1..(m + 1) |-> IF i = m + 1 THEN k + 1 ELSE s[i]]
    <3>1. t \in [1..(m + 1) -> 1..(k + 1)] /\ m + 1 \in 0..(k + 1)
      OBVIOUS
    <3>2. Ascending(t)
      <4>1. ASSUME NEW i \in 1..(m + 1), NEW j \in 1..(m + 1), i < j PROVE t[i] < t[j]
        <5>1. i \in 1..m /\ s[i] \in 1..k /\ t[i] = s[i]
          BY <4>1
        <5>2. CASE j = m + 1
          BY <5>1, <5>2
        <5>3. CASE j # m + 1
          BY <2>2, <4>1, <5>1, <5>3 DEF Ascending
        <5>4. QED
          BY <5>2, <5>3
      <4>2. QED
        BY <4>1 DEF Ascending
    <3>3. Range(t) = {l \in 1..(k + 1) : Left(l) > 0}
      <4>1. Range(s) = {l \in 1..k : Left(l) > 0}
        BY <2>2
      <4>2. Range(t) = Range(s) \union {k + 1}
        <5>1. \A i \in 1..m : t[i] = s[i] /\ i \in 1..(m + 1)
          OBVIOUS
        <5>2. t[m + 1] = k + 1 /\ m + 1 \in 1..(m + 1)
          OBVIOUS
        <5>3. \A i \in 1..(m + 1) : i \in 1..m \/ i = m + 1
          OBVIOUS
        <5> HIDE DEF t
        <5>4. DOMAIN t = 1..(m + 1) /\ DOMAIN s = 1..m
          BY <3>1
        <5>5. QED
          BY <5>1, <5>2, <5>3, <5>4 DEF Range
      <4>3. QED
        BY <2>4, <4>1, <4>2
    <3>4. Is(t, k + 1) /\ k + 1 \in Nat
      BY <3>2, <3>3
    <3> HIDE DEF t, Is
    <3>5. \E j \in 0..(k + 1) : \E q \in [1..j -> 1..(k + 1)] : Is(q, k + 1)
      BY <3>1, <3>4
    <3>6. QED
      BY <3>4, <3>5
  <2>5. QED
    BY <2>3, <2>4
<1>4. Good = Nat
  <2>1. Good \in SUBSET Nat
    OBVIOUS
  <2> HIDE DEF Good
  <2>2. QED
    BY <1>2, <1>3, <2>1, SetInduction
<1>5. PICK m \in 0..n : \E s \in [1..m -> 1..n] : Is(s, n)
  BY <1>1, <1>4
<1>6. PICK s \in [1..m -> 1..n] : Is(s, n)
  BY <1>5
<1>7. s \in BoundedSeq(Lines, n)
  BY <1>1, <1>5, <1>6 DEF BoundedSeq, SeqOf
<1>8. Open \in BoundedSeq(Lines, n)
  BY <1>1, <1>6, <1>7 DEF Open
<1>9. PICK k \in 0..n : Open \in [1..k -> Lines]
  BY <1>8 DEF BoundedSeq, SeqOf
<1>10. k \in Nat
  BY <1>1
<1>11. QED
  BY <1>9, <1>10

LEMMA LineAt ==
  ASSUME RefundTypeOK, NEW l \in Lines
  PROVE  /\ line[l].amount \in Int /\ line[l].returned \in Nat /\ line[l].returnedAmount \in Int
         /\ Sold[l].qty \in Nat \ {0} /\ Left(l) \in Int
<1>1. Sold[l] \in [qty : Nat \ {0}, amount : Nat]
  <2> DEFINE R == [qty : Nat \ {0}, amount : Nat]
  <2>1. Sold \in Seq(R)
    BY SaleAssumption
  <2> HIDE DEF R
  <2>2. Sold[l] \in R
    BY <2>1 DEF Lines
  <2>3. QED
    BY <2>2 DEF R
<1>2. line[l] \in [amount : Int, returned : Nat, returnedAmount : Int]
  BY DEF RefundTypeOK
<1>3. QED
  BY <1>1, <1>2 DEF Left

LEMMA WantedTyped ==
  ASSUME RefundTypeOK, NEW r \in Refunds, Acceptable(Wanted(r.want))
  PROVE  Wanted(r.want) \in Seq(ItemType) /\ Wanted(r.want) # <<>>
<1> DEFINE items == Wanted(r.want)
<1>1. ASSUME NEW l \in Lines, NEW q \in Int, q > 0 PROVE Item(l, q) \in ItemType
  <2>1. line[l].amount * q \in Int /\ Sold[l].qty \in Nat \ {0}
    BY LineAt
  <2>2. refundAmountFor(l, q) \in Int
    BY <2>1, RoundInt DEF refundAmountFor
  <2>3. QED
    BY <1>1, <2>2 DEF Item, ItemType
<1>2. \A l, q : Item(l, q).qty = q
  BY DEF Item
<1>3. CASE r.want = <<>>
  <2>1. Open \in Seq(Lines) /\ items = [i \in DOMAIN Open |-> Item(Open[i], Left(Open[i]))]
    BY <1>3, OpenTyped DEF Wanted
  <2>2. Len(Open) \in Nat /\ DOMAIN Open = 1..Len(Open) /\ \A i \in 1..Len(Open) : Open[i] \in Lines
    BY <2>1
  <2>3. ASSUME NEW i \in 1..Len(Open) PROVE items[i] \in ItemType
    <3>1. items[i] = Item(Open[i], Left(Open[i])) /\ Left(Open[i]) \in Int
      BY <2>1, <2>2, LineAt
    <3>2. Left(Open[i]) > 0
      BY <1>2, <2>1, <2>2, <3>1 DEF Acceptable
    <3>3. QED
      BY <1>1, <2>2, <3>1, <3>2
  <2> HIDE DEF items
  <2>4. DOMAIN items = 1..Len(Open) /\ items = [i \in 1..Len(Open) |-> items[i]]
    BY <2>1, <2>2
  <2>5. items \in Seq(ItemType)
    BY <2>2, <2>3, <2>4
  <2>6. QED
    BY <2>5 DEF Acceptable, items
<1>4. CASE r.want # <<>>
  <2> DEFINE w == r.want
  <2> DEFINE Q(i) == IF w[i].qty = 0 THEN Left(w[i].line) ELSE w[i].qty
  <2>1. items = [i \in DOMAIN w |-> Item(w[i].line, Q(i))]
    BY <1>4 DEF Wanted
  <2>2. w \in Seq([line : Lines, qty : Int])
    BY SaleAssumption
  <2>3. Len(w) \in Nat /\ DOMAIN w = 1..Len(w) /\ \A i \in 1..Len(w) : w[i].line \in Lines /\ w[i].qty \in Int
    <3> DEFINE W == [line : Lines, qty : Int]
    <3>1. \A x \in W : x.line \in Lines /\ x.qty \in Int
      OBVIOUS
    <3>2. w \in Seq(W)
      BY <2>2
    <3> HIDE DEF W, w
    <3>3. QED
      BY <3>1, <3>2
  <2>4. ASSUME NEW i \in 1..Len(w) PROVE items[i] \in ItemType
    <3>1. items[i] = Item(w[i].line, Q(i)) /\ w[i].line \in Lines /\ Q(i) \in Int
      BY <2>1, <2>3, LineAt
    <3>2. Q(i) > 0
      <4>1. i \in DOMAIN items
        BY <2>1, <2>3
      <4>2. items[i].qty > 0
        BY <4>1 DEF Acceptable
      <4> HIDE DEF Q, items
      <4>3. QED
        BY <1>2, <3>1, <4>2
    <3> HIDE DEF Q
    <3>3. QED
      BY <1>1, <3>1, <3>2
  <2> HIDE DEF items
  <2>5. DOMAIN items = 1..Len(w) /\ items = [i \in 1..Len(w) |-> items[i]]
    BY <2>1, <2>3
  <2>6. items \in Seq(ItemType)
    BY <2>3, <2>4, <2>5
  <2>7. QED
    BY <2>6 DEF Acceptable, items
<1>5. QED
  BY <1>3, <1>4

-----------------------------------------------------------------------------
(* What a clerk has not locked it takes nothing from.                       *)
LEMMA WrittenIs ==
  ASSUME RefundTypeOK, NEW c \in Clerks, ClerkOK(c), Inserted(c), NEW l \in Lines
  PROVE  /\ plan[c] \in Seq(ItemType) /\ done[c] \in 0..Len(plan[c])
         /\ Written(c, l) = QtyUpTo(plan[c], done[c], l) /\ Written(c, l) \in Nat
         /\ lock[l] # c => Written(c, l) = 0
<1>1. plan[c] \in Seq(ItemType) /\ Len(plan[c]) \in Nat
  BY DEF RefundTypeOK
<1>2. done[c] \in 0..Len(plan[c])
  BY <1>1 DEF ClerkOK, Knows, Inserted
<1>3. Written(c, l) = QtyUpTo(plan[c], done[c], l)
  BY DEF Written, QtyUpTo, Sum
<1>4. lock[l] # c => \A i \in 1..done[c] : plan[c][i].line # l
  BY DEF ClerkOK, Holds
<1>5. QED
  BY <1>1, <1>2, <1>3, <1>4, QtyTyped, QtyNone

(* A step of one clerk that commits nothing.                                *)
LEMMA PrivateStep ==
  ASSUME RefundIInv, NEW c \in Clerks, UNCHANGED db, RefundTypeOK',
         \A d \in Clerks \ {c} : /\ stage'[d] = stage[d] /\ job'[d] = job[d] /\ plan'[d] = plan[d]
                                 /\ full'[d] = full[d] /\ done'[d] = done[d],
         \A l \in Lines : \/ lock'[l] = lock[l]
                          \/ lock[l] \in {NoClerk, c} /\ lock'[l] \in {NoClerk, c},
         ClerkOK(c)',
         Inserted(c)' => \A d \in Clerks \ {c} : Inserted(d) => job[d].op # job'[c].op
  PROVE  RefundIInv'
<1>1. UNCHANGED <<order, line, refunds>> /\ RefundTypeOK
  BY DEF db, RefundIInv, RefundInv
<1>2. ASSUME NEW d \in Clerks, d # c PROVE ClerkOK(d)' /\ (Inserted(d)' <=> Inserted(d))
  <2>1. /\ ClerkOK(d) /\ stage'[d] = stage[d] /\ job'[d] = job[d] /\ plan'[d] = plan[d]
        /\ full'[d] = full[d] /\ done'[d] = done[d]
    BY <1>2 DEF RefundIInv, RefundInv
  <2>2. (Inserted(d)' <=> Inserted(d)) /\ (Planned(d)' <=> Planned(d))
    BY <2>1 DEF Inserted, Planned
  <2>3. d # NoClerk
    BY SaleAssumption
  <2>4. \A l \in Lines : lock'[l] = d <=> lock[l] = d
    BY <1>2, <2>3
  <2>5. Knows(d)'
    BY <2>1, <2>2 DEF ClerkOK, Knows
  <2>6. Holds(d)'
    <3>1. ASSUME Inserted(d), NEW i \in 1..done[d] PROVE lock'[plan[d][i].line] = d
      <4>1. plan[d] \in Seq(ItemType) /\ done[d] \in 0..Len(plan[d])
        BY <1>1, <2>1, <3>1 DEF RefundTypeOK, ClerkOK, Knows, Inserted
      <4>2. plan[d][i].line \in Lines
        BY <4>1, ItemAt
      <4>3. QED
        BY <2>1, <2>4, <3>1, <4>2 DEF ClerkOK, Holds
    <3>2. QED
      BY <2>1, <2>2, <3>1 DEF Holds
  <2>7. Reserves(d)'
    <3>1. \A l \in Lines : Written(d, l)' = Written(d, l)
      BY <2>1 DEF Written
    <3>2. QED
      BY <1>1, <2>1, <2>2, <2>4, <3>1 DEF ClerkOK, Reserves
  <2>8. Completes(d)'
    <3>1. \A l \in Lines : Now(plan[d], l)' = Now(plan[d], l)
      BY <2>1
    <3>2. QED
      BY <1>1, <2>1, <2>2, <3>1 DEF ClerkOK, Completes
  <2>9. Inserted(d)' => ~AlreadyDone(job[d].op)'
    BY <1>1, <2>1, <2>2 DEF ClerkOK, AlreadyDone
  <2>10. QED
    BY <2>1, <2>2, <2>5, <2>6, <2>7, <2>8, <2>9 DEF ClerkOK, AlreadyDone
<1>3. KeysApart'
  <2>1. ASSUME NEW a \in Clerks, NEW b \in Clerks, a # b, Inserted(a)', Inserted(b)'
        PROVE  job'[a].op # job'[b].op
    <3>1. CASE a = c
      BY <1>2, <2>1, <3>1
    <3>2. CASE b = c
      BY <1>2, <2>1, <3>2
    <3>3. CASE a # c /\ b # c
      BY <1>2, <2>1, <3>3 DEF RefundIInv, RefundInv, KeysApart
    <3>4. QED
      BY <3>1, <3>2, <3>3
  <2>2. QED
    BY <2>1 DEF KeysApart
<1>4. EventsMatchLines' /\ NeverOverReturned' /\ ReturnedMeansAll' /\ PaidAsBuilt'
  BY <1>1 DEF RefundIInv, RefundInv, EventsMatchLines, EventQty, NeverOverReturned, ReturnedMeansAll,
              PaidAsBuilt
<1>5. QED
  BY <1>1, <1>2, <1>3, <1>4 DEF RefundIInv, RefundInv

-----------------------------------------------------------------------------
LEMMA TxEnded ==
  ASSUME RefundTypeOK, NEW c \in Clerks, EndTx(c)
  PROVE  /\ lock' \in [Lines -> Clerks \union {NoClerk}]
         /\ stage' \in [Clerks -> {"idle", "lines", "pay", "update", "commit", "sum", "total"}]
         /\ job' \in [Clerks -> Refunds \union Overrides \union {NoJob}]
         /\ seen' \in [Clerks -> Int] /\ done' \in [Clerks -> Int]
         /\ plan' \in [Clerks -> Seq(ItemType)] /\ full' \in [Clerks -> BOOLEAN]
         /\ ClerkOK(c)' /\ ~Inserted(c)'
         /\ \A d \in Clerks \ {c} : /\ stage'[d] = stage[d] /\ job'[d] = job[d] /\ plan'[d] = plan[d]
                                    /\ full'[d] = full[d] /\ done'[d] = done[d] /\ seen'[d] = seen[d]
         /\ \A l \in Lines : lock'[l] = IF lock[l] = c THEN NoClerk ELSE lock[l]
<1>1. <<>> \in Seq(ItemType)
  OBVIOUS
<1>2. stage'[c] = "idle" /\ done'[c] = 0
  BY DEF EndTx, RefundTypeOK
<1>3. ClerkOK(c)' /\ ~Inserted(c)'
  BY <1>2 DEF ClerkOK, Knows, Holds, Reserves, Completes, Planned, Inserted
<1>4. QED
  BY <1>1, <1>3 DEF EndTx, RefundTypeOK

LEMMA AbortStep ==
  ASSUME RefundIInv, NEW c \in Clerks, Abort(c)
  PROVE  RefundIInv'
<1>1. EndTx(c) /\ UNCHANGED <<order, line, refunds>> /\ UNCHANGED db /\ RefundTypeOK
  BY DEF Abort, db, RefundIInv, RefundInv
<1>2. RefundTypeOK'
  BY <1>1, TxEnded DEF RefundTypeOK
<1>3. \A l \in Lines : \/ lock'[l] = lock[l]
                       \/ lock[l] \in {NoClerk, c} /\ lock'[l] \in {NoClerk, c}
  BY <1>1, TxEnded
<1>4. QED
  BY <1>1, <1>2, <1>3, TxEnded, PrivateStep

LEMMA BeginRefundStep ==
  ASSUME RefundIInv, NEW c \in Clerks, NEW r \in Refunds, BeginRefund(c, r)
  PROVE  RefundIInv'
<1>1. /\ stage[c] = "idle" /\ UNCHANGED <<order, line, refunds, lock, plan, full, done>> /\ UNCHANGED db
      /\ RefundTypeOK /\ ClerkOK(c)
  BY DEF BeginRefund, db, RefundIInv, RefundInv
<1>2. /\ stage' = [stage EXCEPT ![c] = "lines"] /\ job' = [job EXCEPT ![c] = r]
      /\ seen' = [seen EXCEPT ![c] = order.total]
  BY DEF BeginRefund
<1>3. stage'[c] = "lines" /\ job'[c] = r
  BY <1>1, <1>2 DEF RefundTypeOK
<1>4. RefundTypeOK'
  <2>1. order.total \in Int
    BY <1>1 DEF RefundTypeOK
  <2>2. QED
    BY <1>1, <1>2, <2>1 DEF RefundTypeOK
<1>5. ClerkOK(c)' /\ ~Inserted(c)'
  BY <1>1, <1>3 DEF ClerkOK, Knows, Holds, Reserves, Completes, Planned, Inserted
<1>6. QED
  BY <1>1, <1>2, <1>4, <1>5, PrivateStep

LEMMA ReadLinesStep ==
  ASSUME RefundIInv, NEW c \in Clerks, ReadLines(c)
  PROVE  RefundIInv'
<1> DEFINE items == Wanted(job[c].want)
<1>1. CASE ~Acceptable(items)
  BY <1>1, AbortStep DEF ReadLines
<1>2. CASE Acceptable(items)
  <2>1. /\ stage[c] = "lines" /\ RefundTypeOK /\ ClerkOK(c) /\ job[c] \in Refunds /\ done[c] = 0
        /\ UNCHANGED <<order, line, refunds, lock, job, seen, done>> /\ UNCHANGED db
    BY <1>2 DEF ReadLines, db, RefundIInv, RefundInv, ClerkOK, Knows
  <2>2. /\ plan' = [plan EXCEPT ![c] = items]
        /\ full' = [full EXCEPT ![c] = allLinesFullyReturned(items)]
        /\ stage' = [stage EXCEPT ![c] = "pay"]
    BY <1>2 DEF ReadLines
  <2>3. items \in Seq(ItemType) /\ items # <<>>
    BY <1>2, <2>1, WantedTyped
  <2>4. allLinesFullyReturned(items) \in BOOLEAN
    BY DEF allLinesFullyReturned
  <2> HIDE DEF items
  <2>5. /\ stage'[c] = "pay" /\ plan'[c] = items /\ full'[c] = allLinesFullyReturned(items)
        /\ job'[c] = job[c] /\ done'[c] = 0
    BY <2>1, <2>2 DEF RefundTypeOK
  <2>6. RefundTypeOK'
    BY <2>1, <2>2, <2>3, <2>4 DEF RefundTypeOK
  <2>7. ClerkOK(c)' /\ ~Inserted(c)'
    <3>1. Completes(c)'
      BY <2>1, <2>5 DEF Completes, allLinesFullyReturned
    <3>2. QED
      BY <2>1, <2>3, <2>5, <3>1 DEF ClerkOK, Knows, Holds, Reserves, Planned, Inserted
  <2>8. QED
    BY <2>1, <2>2, <2>6, <2>7, PrivateStep
<1>3. QED
  BY <1>1, <1>2

LEMMA PayStep ==
  ASSUME RefundIInv, NEW c \in Clerks, Pay(c)
  PROVE  RefundIInv'
<1>1. CASE ~KeyFree(c)
  BY <1>1, AbortStep DEF Pay
<1>2. CASE KeyFree(c)
  <2>1. /\ stage[c] = "pay" /\ RefundTypeOK /\ ClerkOK(c) /\ NeverOverReturned
        /\ UNCHANGED <<order, line, refunds, lock, job, seen, plan, full, done>> /\ UNCHANGED db
        /\ stage' = [stage EXCEPT ![c] = "update"]
    BY <1>2 DEF Pay, db, RefundIInv, RefundInv
  <2>2. /\ stage'[c] = "update" /\ done[c] = 0 /\ job[c] \in Refunds
        /\ plan[c] # <<>> /\ plan[c] \in Seq(ItemType)
    BY <2>1 DEF RefundTypeOK, ClerkOK, Knows, Planned
  <2>3. Len(plan[c]) \in Nat /\ Len(plan[c]) > 0
    BY <2>2
  <2>4. RefundTypeOK'
    BY <2>1 DEF RefundTypeOK
  <2>5. ClerkOK(c)'
    <3>1. Knows(c)'
      BY <2>1, <2>2, <2>3 DEF Knows, Planned
    <3>2. Holds(c)'
      BY <2>1, <2>2 DEF Holds
    <3>3. ASSUME NEW l \in Lines PROVE line[l].returned + Written(c, l)' <= Sold[l].qty
      <4>1. Written(c, l)' = QtyUpTo(plan[c], 0, l)
        BY <2>1, <2>2 DEF Written, QtyUpTo, Sum
      <4>2. QtyUpTo(plan[c], 0, l) = 0
        BY <2>2, <2>3, QtyNone
      <4>3. QED
        BY <2>1, <4>1, <4>2, LineAt DEF NeverOverReturned
    <3>4. Reserves(c)'
      BY <2>1, <3>3 DEF Reserves
    <3>5. Completes(c)'
      BY <2>1 DEF ClerkOK, Completes, Planned
    <3>6. ~AlreadyDone(job[c].op)'
      BY <1>2, <2>1 DEF KeyFree, AlreadyDone
    <3>7. QED
      BY <2>1, <3>1, <3>2, <3>4, <3>5, <3>6 DEF ClerkOK, AlreadyDone
  <2>6. \A d \in Clerks \ {c} : Inserted(d) => job[d].op # job'[c].op
    BY <1>2, <2>1 DEF Pay
  <2>7. QED
    BY <2>1, <2>4, <2>5, <2>6, PrivateStep
<1>3. QED
  BY <1>1, <1>2

LEMMA UpdateLineStep ==
  ASSUME RefundIInv, NEW c \in Clerks, UpdateLine(c)
  PROVE  RefundIInv'
<1> DEFINE p == plan[c]
<1> DEFINE k == done[c]
<1> DEFINE x == Current(c).line
<1>1. CASE ~Fits(c)
  BY <1>1, AbortStep DEF UpdateLine
<1>2. CASE Fits(c)
  <2>1. /\ stage[c] = "update" /\ RefundTypeOK /\ ClerkOK(c) /\ lock[x] \in {NoClerk, c}
        /\ UNCHANGED <<order, line, refunds, job, seen, plan, full>> /\ UNCHANGED db
        /\ lock' = [lock EXCEPT ![x] = c] /\ done' = [done EXCEPT ![c] = @ + 1]
        /\ stage' = [stage EXCEPT ![c] = IF k + 1 = Len(p) THEN "commit" ELSE "update"]
    BY <1>2 DEF UpdateLine, db, RefundIInv, RefundInv
  <2>2. /\ p \in Seq(ItemType) /\ Len(p) \in Nat /\ k \in 0..(Len(p) - 1) /\ job[c] \in Refunds /\ p # <<>>
        /\ Inserted(c) /\ Planned(c)
    BY <2>1 DEF RefundTypeOK, ClerkOK, Knows, Planned, Inserted
  <2>3. x = p[k + 1].line /\ x \in Lines /\ Current(c).qty = p[k + 1].qty /\ p[k + 1].qty \in Nat
    BY <2>2, ItemAt DEF Current
  <2>4. /\ done'[c] = k + 1 /\ k + 1 \in Int
        /\ stage'[c] = IF k + 1 = Len(p) THEN "commit" ELSE "update"
        /\ lock'[x] = c /\ \A l \in Lines \ {x} : lock'[l] = lock[l]
    BY <2>1, <2>2, <2>3 DEF RefundTypeOK
  <2>5. RefundTypeOK'
    <3>1. done' \in [Clerks -> Int] /\ lock' \in [Lines -> Clerks \union {NoClerk}]
      <4>1. done' = [done EXCEPT ![c] = k + 1]
        BY <2>1
      <4> HIDE DEF k, x
      <4>2. QED
        BY <2>1, <2>3, <2>4, <4>1 DEF RefundTypeOK
    <3>2. QED
      BY <2>1, <3>1 DEF RefundTypeOK
  <2>6. ClerkOK(c)'
    <3>1. Knows(c)'
      BY <2>1, <2>2, <2>4 DEF Knows, Planned
    <3>2. Holds(c)'
      <4>1. ASSUME NEW i \in 1..(k + 1) PROVE lock'[p[i].line] = c
        <5>1. CASE i = k + 1
          BY <2>3, <2>4, <5>1
        <5>2. CASE i # k + 1
          <6>1. i \in 1..k /\ i \in 1..Len(p)
            BY <2>2, <5>2
          <6>2. lock[p[i].line] = c /\ p[i].line \in Lines
            BY <2>1, <2>2, <6>1, ItemAt DEF ClerkOK, Holds
          <6>3. QED
            BY <2>4, <6>2
        <5>3. QED
          BY <5>1, <5>2
      <4>2. QED
        BY <2>1, <2>4, <4>1 DEF Holds
    <3>3. ASSUME NEW l \in Lines, lock'[l] = c PROVE line[l].returned + Written(c, l)' <= Sold[l].qty
      <4>1. Written(c, l)' = QtyUpTo(p, k + 1, l) /\ Written(c, l) = QtyUpTo(p, k, l) /\ Written(c, l) \in Nat
        BY <2>1, <2>2, <2>4, WrittenIs DEF Written, QtyUpTo, Sum
      <4>2. QtyUpTo(p, k + 1, l) = QtyUpTo(p, k, l) + (IF p[k + 1].line = l THEN p[k + 1].qty ELSE 0)
        BY <2>2, QtyNext
      <4>3. CASE l = x
        BY <1>2, <2>3, <4>1, <4>2, <4>3, LineAt, <2>1 DEF Fits
      <4>4. CASE l # x
        BY <2>1, <2>2, <2>3, <2>4, <3>3, <4>1, <4>2, <4>4, LineAt DEF ClerkOK, Reserves
      <4>5. QED
        BY <4>3, <4>4
    <3>4. Reserves(c)'
      BY <2>1, <3>3 DEF Reserves
    <3>5. Completes(c)'
      BY <2>1, <2>2 DEF ClerkOK, Completes
    <3>6. ~AlreadyDone(job[c].op)'
      BY <2>1, <2>2 DEF ClerkOK, AlreadyDone
    <3>7. QED
      BY <2>1, <3>1, <3>2, <3>4, <3>5, <3>6 DEF ClerkOK, AlreadyDone
  <2>7. \A d \in Clerks \ {c} : Inserted(d) => job[d].op # job'[c].op
    BY <2>1, <2>2 DEF RefundIInv, RefundInv, KeysApart
  <2>8. \A l \in Lines : lock'[l] = lock[l] \/ (lock[l] \in {NoClerk, c} /\ lock'[l] \in {NoClerk, c})
    BY <2>1, <2>4
  <2>9. \A d \in Clerks \ {c} : /\ stage'[d] = stage[d] /\ job'[d] = job[d] /\ plan'[d] = plan[d]
                                /\ full'[d] = full[d] /\ done'[d] = done[d]
    BY <2>1
  <2> HIDE DEF p, k, x
  <2>10. QED
    BY <2>1, <2>5, <2>6, <2>7, <2>8, <2>9, PrivateStep
<1>3. QED
  BY <1>1, <1>2

-----------------------------------------------------------------------------
(* What a refund's event gives back.                                        *)
LEMMA EventQtyIs ==
  ASSUME NEW rows \in Seq(EventRow), NEW e \in EventRow, NEW l
  PROVE  LET Q(x) == Sum([k \in DOMAIN x.items |-> IF x.items[k].line = l THEN x.items[k].qty ELSE 0])
             more == Append(rows, e) IN
         /\ Q(e) = QtyUpTo(e.items, Len(e.items), l)
         /\ Sum([i \in DOMAIN more |-> Q(more[i])])
              = Sum([i \in DOMAIN rows |-> Q(rows[i])]) + QtyUpTo(e.items, Len(e.items), l)
<1> DEFINE Q(x) == Sum([k \in DOMAIN x.items |-> IF x.items[k].line = l THEN x.items[k].qty ELSE 0])
<1> DEFINE more == Append(rows, e)
<1> DEFINE v == [x \in EventRow |-> Q(x)]
<1>1. ASSUME NEW x \in EventRow
      PROVE  Q(x) = QtyUpTo(x.items, Len(x.items), l) /\ Q(x) \in Int
  <2>1. x.items \in Seq(ItemType)
    BY DEF EventRow
  <2>2. DOMAIN x.items = 1..Len(x.items) /\ Len(x.items) \in 0..Len(x.items)
    BY <2>1, ItemAt
  <2>3. Q(x) = QtyUpTo(x.items, Len(x.items), l)
    BY <2>2 DEF Sum, QtyUpTo
  <2>4. QED
    BY <2>1, <2>2, <2>3, QtyTyped
<1> HIDE DEF Q
<1>2. v \in [EventRow -> Int] /\ \A x \in EventRow : v[x] = Q(x)
  BY <1>1
<1>3. /\ \A i \in DOMAIN rows : rows[i] \in EventRow
      /\ \A i \in DOMAIN more : more[i] \in EventRow
  OBVIOUS
<1>4. /\ [i \in DOMAIN more |-> Q(more[i])] = [i \in DOMAIN more |-> v[more[i]]]
      /\ [i \in DOMAIN rows |-> Q(rows[i])] = [i \in DOMAIN rows |-> v[rows[i]]]
  <2> HIDE DEF v, more
  <2>1. QED
    BY <1>2, <1>3
<1>5. Total(v, more) = Total(v, rows) + v[e]
  <2> HIDE DEF v
  <2>1. QED
    BY <1>2, TotalAppend
<1>6. QED
  <2> HIDE DEF v, more
  <2>1. Sum([i \in DOMAIN more |-> Q(more[i])]) = Total(v, more)
    BY <1>4 DEF Sum, Total
  <2>2. Sum([i \in DOMAIN rows |-> Q(rows[i])]) = Total(v, rows)
    BY <1>4 DEF Sum, Total
  <2>3. v[e] = QtyUpTo(e.items, Len(e.items), l) /\ Q(e) = v[e]
    BY <1>1, <1>2
  <2>4. QED
    BY <1>5, <2>1, <2>2, <2>3 DEF Q, more

LEMMA CommitRefundStep ==
  ASSUME RefundIInv, NEW c \in Clerks, CommitRefund(c)
  PROVE  RefundIInv'
<1> DEFINE p == plan[c]
<1> DEFINE e == [op |-> job[c].op, items |-> plan[c], total |-> seen[c],
                 paid |-> buildRefundPayments(seen[c], RefundTotal(plan[c]))]
<1> DEFINE n == Len(refunds)
<1>1. /\ stage[c] = "commit" /\ EndTx(c) /\ RefundTypeOK /\ ClerkOK(c) /\ refunds \in Seq(EventRow)
      /\ order' = [order EXCEPT !.status = IF full[c] THEN "returned" ELSE "part_returned"]
      /\ line' = [l \in Lines |-> Restored(c, l)]
      /\ refunds' = Append(refunds, e)
  BY DEF CommitRefund, RefundIInv, RefundInv
<1>2. /\ Inserted(c) /\ Planned(c) /\ job[c] \in Refunds /\ done[c] = Len(p) /\ p \in Seq(ItemType)
      /\ Len(p) \in Nat /\ ~AlreadyDone(job[c].op) /\ seen[c] \in Int
  BY <1>1 DEF Inserted, Planned, ClerkOK, Knows, RefundTypeOK
<1>3. ASSUME NEW l \in Lines
      PROVE  /\ line'[l] \in [amount : Int, returned : Nat, returnedAmount : Int]
             /\ line'[l].returned = line[l].returned + Written(c, l)
             /\ Written(c, l) = QtyUpTo(p, Len(p), l) /\ Written(c, l) \in Nat
             /\ lock[l] # c => Written(c, l) = 0
  <2> DEFINE a == Sum([i \in 1..done[c] |-> IF plan[c][i].line = l THEN plan[c][i].amount ELSE 0])
  <2>1. line[l] \in [amount : Int, returned : Nat, returnedAmount : Int]
    BY <1>1 DEF RefundTypeOK
  <2>2. line'[l] = [line[l] EXCEPT !.returned = @ + Written(c, l), !.returnedAmount = @ + a]
    BY <1>1 DEF Restored
  <2>3. a \in Int
    <3>1. done[c] \in 0..Len(plan[c]) /\ plan[c] \in Seq(ItemType)
      BY <1>2
    <3> HIDE DEF p
    <3>2. QED
      BY <3>1, AmountsInt
  <2>4. /\ Written(c, l) = QtyUpTo(p, Len(p), l) /\ Written(c, l) \in Nat
        /\ lock[l] # c => Written(c, l) = 0
    BY <1>1, <1>2, WrittenIs
  <2> HIDE DEF a, p
  <2>5. line[l].returned + Written(c, l) \in Nat /\ line[l].returnedAmount + a \in Int
    BY <2>1, <2>3, <2>4
  <2>6. QED
    BY <2>1, <2>2, <2>4, <2>5
<1>4. /\ e \in EventRow /\ e.op = job[c].op /\ e.items = p /\ e.total = seen[c]
      /\ e.paid = buildRefundPayments(e.total, RefundTotal(e.items))
  <2>1. RefundTotal(p) \in Int
    BY <1>2, AmountsInt
  <2>2. QED
    BY <1>2, <2>1 DEF EventRow
<1> HIDE DEF e
<1>5. /\ n \in Nat /\ DOMAIN refunds = 1..n /\ DOMAIN refunds' = 1..(n + 1)
      /\ refunds'[n + 1] = e /\ \A i \in 1..n : refunds'[i] = refunds[i]
      /\ refunds' \in Seq(EventRow)
  BY <1>1, <1>4
<1>6. \A o : AlreadyDone(o)' <=> AlreadyDone(o) \/ o = job[c].op
  BY <1>4, <1>5 DEF AlreadyDone
<1>7. RefundTypeOK'
  <2>1. order' \in [status : {"paid", "part_returned", "returned"}, total : Int]
    BY <1>1 DEF RefundTypeOK
  <2>2. line' \in [Lines -> [amount : Int, returned : Nat, returnedAmount : Int]]
    BY <1>1, <1>3
  <2>3. \A i \in DOMAIN refunds' : refunds'[i].items \in Seq(ItemType) /\ refunds'[i].total \in Int
    <3>1. \A i \in 1..(n + 1) : refunds'[i] \in EventRow
      BY <1>5
    <3>2. \A x \in EventRow : x.items \in Seq(ItemType) /\ x.total \in Int
      BY DEF EventRow
    <3>3. QED
      BY <1>5, <3>1, <3>2
  <2>4. QED
    BY <1>1, <2>1, <2>2, <2>3, TxEnded DEF RefundTypeOK
<1>8. ASSUME NEW d \in Clerks, d # c PROVE ClerkOK(d)' /\ (Inserted(d)' <=> Inserted(d)) /\ job'[d] = job[d]
  <2>1. /\ ClerkOK(d) /\ stage'[d] = stage[d] /\ job'[d] = job[d] /\ plan'[d] = plan[d]
        /\ full'[d] = full[d] /\ done'[d] = done[d]
    BY <1>1, <1>8, TxEnded DEF RefundIInv, RefundInv
  <2>2. (Inserted(d)' <=> Inserted(d)) /\ (Planned(d)' <=> Planned(d))
    BY <2>1 DEF Inserted, Planned
  <2>3. \A l \in Lines : lock'[l] = d <=> lock[l] = d
    <3>1. d # NoClerk
      BY SaleAssumption
    <3>2. \A l \in Lines : lock'[l] = IF lock[l] = c THEN NoClerk ELSE lock[l]
      BY <1>1, TxEnded
    <3>3. QED
      BY <1>8, <3>1, <3>2
  <2>4. Knows(d)'
    BY <2>1, <2>2 DEF ClerkOK, Knows
  <2>5. Holds(d)'
    <3>1. ASSUME Inserted(d), NEW i \in 1..done[d] PROVE lock'[plan[d][i].line] = d
      <4>1. plan[d] \in Seq(ItemType) /\ done[d] \in 0..Len(plan[d])
        BY <1>1, <2>1, <3>1 DEF RefundTypeOK, ClerkOK, Knows, Inserted
      <4>2. plan[d][i].line \in Lines
        BY <4>1, ItemAt
      <4>3. QED
        BY <2>1, <2>3, <3>1, <4>2 DEF ClerkOK, Holds
    <3>2. QED
      BY <2>1, <2>2, <3>1 DEF Holds
  <2>6. Reserves(d)'
    <3>1. ASSUME Inserted(d), NEW l \in Lines, lock[l] = d
          PROVE  line'[l].returned + Written(d, l) <= Sold[l].qty
      <4>1. line'[l].returned = line[l].returned
        BY <1>1, <1>3, <1>8, <3>1, LineAt
      <4>2. QED
        BY <2>1, <3>1, <4>1 DEF ClerkOK, Reserves
    <3>2. \A l \in Lines : Written(d, l)' = Written(d, l)
      BY <2>1 DEF Written
    <3>3. QED
      BY <2>2, <2>3, <3>1, <3>2 DEF Reserves
  <2>7. Completes(d)'
    <3>1. ASSUME Planned(d), full[d], NEW l \in Lines
          PROVE  line'[l].returned + Now(plan[d], l) >= Sold[l].qty
      <4>1. plan[d] \in Seq(ItemType) /\ Now(plan[d], l) \in Nat
        BY <1>1, NowAtMost DEF RefundTypeOK
      <4>2. line[l].returned + Now(plan[d], l) >= Sold[l].qty
        BY <2>1, <3>1 DEF ClerkOK, Completes
      <4>3. QED
        BY <1>1, <1>3, <4>1, <4>2, LineAt
    <3>2. QED
      BY <2>1, <2>2, <3>1 DEF Completes
  <2>8. Inserted(d) => ~AlreadyDone(job[d].op)'
    BY <1>2, <1>6, <1>8, <2>1 DEF ClerkOK, RefundIInv, RefundInv, KeysApart
  <2>9. QED
    BY <2>1, <2>2, <2>4, <2>5, <2>6, <2>7, <2>8 DEF ClerkOK, AlreadyDone
<1>9. ClerkOK(c)' /\ ~Inserted(c)'
  BY <1>1, TxEnded
<1>10. KeysApart'
  BY <1>8, <1>9 DEF RefundIInv, RefundInv, KeysApart
<1>11. NeverOverReturned'
  <2>1. ASSUME NEW l \in Lines PROVE line'[l].returned <= Sold[l].qty
    <3>1. CASE lock[l] = c
      BY <1>1, <1>2, <1>3, <3>1 DEF ClerkOK, Reserves
    <3>2. CASE lock[l] # c
      <4>1. line'[l].returned = line[l].returned + 0 /\ line[l].returned \in Nat
        BY <1>1, <1>3, <3>2, LineAt
      <4>2. line[l].returned <= Sold[l].qty
        BY DEF RefundIInv, RefundInv, NeverOverReturned
      <4>3. QED
        BY <4>1, <4>2
    <3>3. QED
      BY <3>1, <3>2
  <2>2. QED
    BY <2>1 DEF NeverOverReturned
<1>12. ReturnedMeansAll'
  <2>1. ASSUME full[c], NEW l \in Lines PROVE line'[l].returned = Sold[l].qty
    <3>1. line[l].returned + Now(p, l) >= Sold[l].qty
      BY <1>1, <1>2, <2>1 DEF ClerkOK, Completes
    <3>2. Now(p, l) \in Nat /\ Now(p, l) <= Written(c, l)
      BY <1>2, <1>3, NowAtMost
    <3>3. line'[l].returned <= Sold[l].qty
      BY <1>11 DEF NeverOverReturned
    <3>4. /\ line[l].returned \in Nat /\ Sold[l].qty \in Nat /\ Written(c, l) \in Nat
          /\ line'[l].returned = line[l].returned + Written(c, l)
      BY <1>1, <1>3, LineAt
    <3> HIDE DEF p
    <3>5. QED
      BY <3>1, <3>2, <3>3, <3>4
  <2>2. order'.status = "returned" => full[c]
    BY <1>1 DEF RefundTypeOK
  <2>3. QED
    BY <2>1, <2>2 DEF ReturnedMeansAll
<1>13. EventsMatchLines'
  <2>1. ASSUME NEW l \in Lines PROVE EventQty(l)' = line'[l].returned
    <3>1. EventQty(l) = line[l].returned
      BY DEF RefundIInv, RefundInv, EventsMatchLines
    <3>2. EventQty(l)' = EventQty(l) + QtyUpTo(p, Len(p), l)
      BY <1>1, <1>4, EventQtyIs DEF EventQty
    <3>3. QED
      BY <1>3, <3>1, <3>2
  <2>2. ASSUME NEW i \in 1..(n + 1), NEW j \in 1..(n + 1), refunds'[i].op = refunds'[j].op PROVE i = j
    <3>1. \A k \in 1..n : refunds[k].op # job[c].op
      BY <1>2, <1>5 DEF AlreadyDone
    <3>2. CASE i = n + 1 \/ j = n + 1
      BY <1>4, <1>5, <2>2, <3>1, <3>2
    <3>3. CASE i \in 1..n /\ j \in 1..n
      BY <1>5, <2>2, <3>3 DEF RefundIInv, RefundInv, EventsMatchLines
    <3>4. QED
      BY <1>5, <3>2, <3>3
  <2>3. QED
    BY <1>5, <2>1, <2>2 DEF EventsMatchLines
<1>14. PaidAsBuilt'
  <2>1. ASSUME NEW i \in 1..(n + 1)
        PROVE  refunds'[i].paid = buildRefundPayments(refunds'[i].total, RefundTotal(refunds'[i].items))
    <3>1. CASE i = n + 1
      BY <1>4, <1>5, <3>1
    <3>2. CASE i \in 1..n
      BY <1>5, <3>2 DEF RefundIInv, RefundInv, PaidAsBuilt
    <3>3. QED
      BY <1>5, <3>1, <3>2
  <2>2. QED
    BY <1>5, <2>1 DEF PaidAsBuilt
<1>15. QED
  BY <1>5, <1>7, <1>8, <1>9, <1>10, <1>11, <1>12, <1>13, <1>14 DEF RefundIInv, RefundInv

-----------------------------------------------------------------------------
LEMMA OverrideLineStep ==
  ASSUME RefundIInv, NEW c \in Clerks, NEW o \in Overrides, OverrideLine(c, o)
  PROVE  RefundIInv'
<1>1. /\ stage[c] = "idle" /\ lock[o.line] = NoClerk /\ o.line \in Lines
      /\ lock' = [lock EXCEPT ![o.line] = c]
      /\ job' = [job EXCEPT ![c] = o] /\ stage' = [stage EXCEPT ![c] = "sum"]
      /\ UNCHANGED <<order, line, refunds, seen, plan, full, done>> /\ UNCHANGED db
      /\ RefundTypeOK
  BY SaleAssumption DEF OverrideLine, db, RefundIInv, RefundInv
<1>2. stage'[c] = "sum" /\ job'[c] = o
  BY <1>1 DEF RefundTypeOK
<1>3. RefundTypeOK'
  BY <1>1 DEF RefundTypeOK
<1>4. ClerkOK(c)' /\ ~Inserted(c)'
  BY <1>2 DEF ClerkOK, Knows, Holds, Reserves, Completes, Planned, Inserted
<1>5. \A l \in Lines : lock'[l] = lock[l] \/ (lock[l] \in {NoClerk, c} /\ lock'[l] \in {NoClerk, c})
  BY <1>1 DEF RefundTypeOK
<1>6. QED
  BY <1>1, <1>3, <1>4, <1>5, PrivateStep

LEMMA OverrideSumStep ==
  ASSUME RefundIInv, NEW c \in Clerks, OverrideSum(c)
  PROVE  RefundIInv'
<1>1. /\ stage[c] = "sum" /\ RefundTypeOK /\ job[c] \in Overrides
      /\ done' = [done EXCEPT ![c] = SumLines(job[c])] /\ stage' = [stage EXCEPT ![c] = "total"]
      /\ UNCHANGED <<order, line, refunds, lock, job, seen, plan, full>> /\ UNCHANGED db
  BY DEF OverrideSum, db, RefundIInv, RefundInv, ClerkOK, Knows
<1>2. SumLines(job[c]) \in Int
  <2> DEFINE o == job[c]
  <2> DEFINE f == [l \in Lines |-> IF l = o.line THEN o.amount ELSE line[l].amount]
  <2>1. o.amount \in Int /\ \A l \in Lines : line[l].amount \in Int
    BY <1>1, SaleAssumption, LineAt
  <2>2. DOMAIN f = Lines /\ \A l \in Lines : f[l] \in Int
    BY <2>1
  <2>3. IsFiniteSet(Lines)
    <3>1. Lines = 1..Len(Sold) /\ Len(Sold) \in Nat
      BY SaleAssumption DEF Lines
    <3>2. QED
      BY <3>1, Counting
  <2> HIDE DEF f
  <2>4. SumFunctionOnSet(f, Lines) \in Int
    BY <2>2, <2>3, SumInt
  <2>5. QED
    BY <2>2, <2>4 DEF SumLines, Sum, SumFunction, f
<1>3. stage'[c] = "total" /\ job'[c] \in Overrides
  BY <1>1 DEF RefundTypeOK
<1>4. RefundTypeOK'
  BY <1>1, <1>2 DEF RefundTypeOK
<1>5. ClerkOK(c)' /\ ~Inserted(c)'
  BY <1>3 DEF ClerkOK, Knows, Holds, Reserves, Completes, Planned, Inserted
<1>6. QED
  BY <1>1, <1>4, <1>5, PrivateStep

LEMMA OverrideCommitStep ==
  ASSUME RefundIInv, NEW c \in Clerks, OverrideCommit(c)
  PROVE  RefundIInv'
<1> DEFINE o == job[c]
<1>1. /\ stage[c] = "total" /\ RefundTypeOK /\ o \in Overrides /\ EndTx(c) /\ UNCHANGED refunds
      /\ line' = [line EXCEPT ![o.line].amount = o.amount]
      /\ order' = [order EXCEPT !.total = done[c]]
  BY DEF OverrideCommit, RefundIInv, RefundInv, ClerkOK, Knows
<1>2. o.line \in Lines /\ o.amount \in Int /\ done[c] \in Int
  BY <1>1, SaleAssumption DEF RefundTypeOK
<1>3. ASSUME NEW l \in Lines
      PROVE  /\ line'[l] \in [amount : Int, returned : Nat, returnedAmount : Int]
             /\ line'[l].returned = line[l].returned
  <2>1. line[l] \in [amount : Int, returned : Nat, returnedAmount : Int]
    BY <1>1 DEF RefundTypeOK
  <2>2. line'[l] = IF l = o.line THEN [line[l] EXCEPT !.amount = o.amount] ELSE line[l]
    BY <1>1, <1>2 DEF RefundTypeOK
  <2> HIDE DEF o
  <2>3. QED
    BY <1>2, <2>1, <2>2
<1>4. order' \in [status : {"paid", "part_returned", "returned"}, total : Int] /\ order'.status = order.status
  <2>1. order \in [status : {"paid", "part_returned", "returned"}, total : Int]
    BY <1>1 DEF RefundTypeOK
  <2>2. QED
    BY <1>1, <1>2, <2>1
<1>5. RefundTypeOK'
  <2>1. line' \in [Lines -> [amount : Int, returned : Nat, returnedAmount : Int]]
    <3>1. DOMAIN line' = Lines /\ line' = [l \in DOMAIN line' |-> line'[l]]
      BY <1>1 DEF RefundTypeOK
    <3>2. QED
      BY <1>3, <3>1
  <2>2. QED
    BY <1>1, <1>4, <2>1, TxEnded DEF RefundTypeOK
<1>6. ASSUME NEW d \in Clerks, d # c PROVE ClerkOK(d)' /\ (Inserted(d)' <=> Inserted(d)) /\ job'[d] = job[d]
  <2>1. /\ ClerkOK(d) /\ stage'[d] = stage[d] /\ job'[d] = job[d] /\ plan'[d] = plan[d]
        /\ full'[d] = full[d] /\ done'[d] = done[d]
    BY <1>1, <1>6, TxEnded DEF RefundIInv, RefundInv
  <2>2. (Inserted(d)' <=> Inserted(d)) /\ (Planned(d)' <=> Planned(d))
    BY <2>1 DEF Inserted, Planned
  <2>3. \A l \in Lines : lock'[l] = d <=> lock[l] = d
    <3>1. d # NoClerk
      BY SaleAssumption
    <3>2. \A l \in Lines : lock'[l] = IF lock[l] = c THEN NoClerk ELSE lock[l]
      BY <1>1, TxEnded
    <3>3. QED
      BY <1>6, <3>1, <3>2
  <2>4. Knows(d)'
    BY <2>1, <2>2 DEF ClerkOK, Knows
  <2>5. Holds(d)'
    <3>1. ASSUME Inserted(d), NEW i \in 1..done[d] PROVE lock'[plan[d][i].line] = d
      <4>1. plan[d] \in Seq(ItemType) /\ done[d] \in 0..Len(plan[d])
        BY <1>1, <2>1, <3>1 DEF RefundTypeOK, ClerkOK, Knows, Inserted
      <4>2. plan[d][i].line \in Lines
        BY <4>1, ItemAt
      <4>3. QED
        BY <2>1, <2>3, <3>1, <4>2 DEF ClerkOK, Holds
    <3>2. QED
      BY <2>1, <2>2, <3>1 DEF Holds
  <2>6. Reserves(d)' /\ Completes(d)'
    <3>1. \A l \in Lines : Written(d, l)' = Written(d, l)
      BY <2>1 DEF Written
    <3>2. QED
      BY <1>3, <2>1, <2>2, <2>3, <3>1 DEF ClerkOK, Reserves, Completes
  <2>7. QED
    BY <1>1, <2>1, <2>2, <2>4, <2>5, <2>6 DEF ClerkOK, AlreadyDone
<1>7. ClerkOK(c)' /\ ~Inserted(c)'
  BY <1>1, TxEnded
<1>8. KeysApart'
  BY <1>6, <1>7 DEF RefundIInv, RefundInv, KeysApart
<1>9. EventsMatchLines' /\ NeverOverReturned' /\ ReturnedMeansAll' /\ PaidAsBuilt'
  <2>1. refunds' = refunds /\ EventsMatchLines /\ NeverOverReturned /\ ReturnedMeansAll /\ PaidAsBuilt
    BY <1>1 DEF RefundIInv, RefundInv
  <2>2. \A l \in Lines : line'[l].returned = line[l].returned
    BY <1>3
  <2>3. \A l \in Lines : EventQty(l)' = EventQty(l)
    BY <2>1 DEF EventQty
  <2>4. EventsMatchLines'
    BY <2>1, <2>2, <2>3 DEF EventsMatchLines
  <2>5. NeverOverReturned'
    BY <2>1, <2>2 DEF NeverOverReturned
  <2>6. ReturnedMeansAll'
    BY <1>4, <2>1, <2>2 DEF ReturnedMeansAll
  <2>7. PaidAsBuilt'
    BY <2>1 DEF PaidAsBuilt
  <2>8. QED
    BY <2>4, <2>5, <2>6, <2>7
<1>10. QED
  BY <1>1, <1>5, <1>6, <1>7, <1>8, <1>9 DEF RefundIInv, RefundInv

-----------------------------------------------------------------------------
LEMMA InitRefundIInv == RefundInit => RefundIInv
<1> SUFFICES ASSUME RefundInit PROVE RefundIInv
  OBVIOUS
<1>1. refunds = <<>> /\ refunds \in Seq(EventRow) /\ DOMAIN refunds = {}
  BY DEF RefundInit
<1>2. Lines = 1..Len(Sold) /\ Len(Sold) \in Nat
  BY SaleAssumption DEF Lines
<1>3. ASSUME NEW l \in Lines PROVE Sold[l].amount \in Nat /\ Sold[l].qty \in Nat
  <2> DEFINE R == [qty : Nat \ {0}, amount : Nat]
  <2>1. Sold \in Seq(R) /\ \A x \in R : x.amount \in Nat /\ x.qty \in Nat
    BY SaleAssumption
  <2> HIDE DEF R
  <2>2. QED
    BY <1>2, <2>1
<1>4. Sum(AmountsOf(Sold)) \in Int
  <2> DEFINE f == AmountsOf(Sold)
  <2>1. DOMAIN f = 1..Len(Sold) /\ \A l \in 1..Len(Sold) : f[l] \in Int
    BY <1>2, <1>3 DEF AmountsOf, Lines
  <2> HIDE DEF f
  <2>2. SumFunctionOnSet(f, 1..Len(Sold)) \in Int
    BY <1>2, <2>1, Counting, SumInt
  <2>3. QED
    BY <2>1, <2>2 DEF Sum, SumFunction, f
<1>5. RefundTypeOK
  <2>1. <<>> \in Seq(ItemType)
    OBVIOUS
  <2>2. order \in [status : {"paid", "part_returned", "returned"}, total : Int]
    BY <1>4 DEF RefundInit
  <2>3. line \in [Lines -> [amount : Int, returned : Nat, returnedAmount : Int]]
    BY <1>3 DEF RefundInit
  <2>4. QED
    BY <1>1, <2>1, <2>2, <2>3 DEF RefundInit, RefundTypeOK
<1>6. ASSUME NEW c \in Clerks PROVE ClerkOK(c) /\ ~Inserted(c)
  BY DEF RefundInit, ClerkOK, Knows, Holds, Reserves, Completes, Planned, Inserted
<1>7. NeverOverReturned /\ ReturnedMeansAll
  BY <1>3 DEF RefundInit, NeverOverReturned, ReturnedMeansAll
<1>8. EventsMatchLines
  <2>1. ASSUME NEW l \in Lines PROVE EventQty(l) = line[l].returned
    <3> DEFINE f == [i \in DOMAIN refunds |->
         Sum([k \in DOMAIN refunds[i].items |->
                IF refunds[i].items[k].line = l THEN refunds[i].items[k].qty ELSE 0])]
    <3>1. DOMAIN f = {}
      BY <1>1
    <3> HIDE DEF f
    <3>2. Sum(f) = 0
      BY <3>1, SumEmpty DEF Sum, SumFunction
    <3>3. EventQty(l) = 0
      BY <3>2 DEF EventQty, f
    <3>4. QED
      BY <3>3 DEF RefundInit
  <2>2. QED
    BY <1>1, <2>1 DEF EventsMatchLines
<1>9. KeysApart /\ PaidAsBuilt
  BY <1>1, <1>6 DEF KeysApart, PaidAsBuilt
<1>10. QED
  BY <1>1, <1>5, <1>6, <1>7, <1>8, <1>9 DEF RefundIInv, RefundInv

LEMMA NextRefundIInv == RefundIInv /\ [RefundNext]_refundVars => RefundIInv'
<1> SUFFICES ASSUME RefundIInv, [RefundNext]_refundVars PROVE RefundIInv'
  OBVIOUS
<1>1. CASE UNCHANGED refundVars
  <2>1. UNCHANGED <<order, line, refunds, lock, stage, job, seen, plan, full, done>>
    BY <1>1 DEF refundVars, db, clerk
  <2>2. RefundTypeOK' /\ refunds' \in Seq(EventRow)
    BY <2>1 DEF RefundIInv, RefundInv, RefundTypeOK
  <2>3. ASSUME NEW c \in Clerks PROVE ClerkOK(c)' /\ (Inserted(c)' <=> Inserted(c))
    <3>1. \A l \in Lines : Written(c, l)' = Written(c, l)
      BY <2>1 DEF Written
    <3>2. (Inserted(c)' <=> Inserted(c)) /\ (Planned(c)' <=> Planned(c)) /\ ClerkOK(c)
      BY <2>1 DEF Inserted, Planned, RefundIInv, RefundInv
    <3>3. QED
      BY <2>1, <3>1, <3>2 DEF ClerkOK, Knows, Holds, Reserves, Completes, AlreadyDone
  <2>4. KeysApart'
    BY <2>1, <2>3 DEF RefundIInv, RefundInv, KeysApart
  <2>5. EventsMatchLines' /\ NeverOverReturned' /\ ReturnedMeansAll' /\ PaidAsBuilt'
    BY <2>1 DEF RefundIInv, RefundInv, EventsMatchLines, EventQty, NeverOverReturned, ReturnedMeansAll,
                PaidAsBuilt
  <2>6. QED
    BY <2>2, <2>3, <2>4, <2>5 DEF RefundIInv, RefundInv
<1>2. CASE RefundNext
  <2>1. ASSUME NEW c \in Clerks, FailTx(c) PROVE RefundIInv'
    BY <2>1, AbortStep DEF FailTx
  <2>2. QED
    BY <1>2, <2>1, BeginRefundStep, ReadLinesStep, PayStep, UpdateLineStep, CommitRefundStep,
       OverrideLineStep, OverrideSumStep, OverrideCommitStep DEF RefundNext, TxStep
<1>3. QED
  BY <1>1, <1>2

(* The invariant holds for any order, any requests and any number of        *)
(* clerks, whatever the statements of their transactions interleave to.     *)
THEOREM RefundInvariance == RefundSpec => []RefundIInv
BY InitRefundIInv, NextRefundIInv, PTL DEF RefundSpec

(* The columns keep their types.                                            *)
THEOREM RefundTypeCorrect == RefundSpec => []RefundTypeOK
<1>1. RefundIInv => RefundTypeOK
  BY DEF RefundIInv, RefundInv
<1>2. QED
  BY <1>1, RefundInvariance, PTL

(* The condition of the UPDATE and the row locks suffice: concurrent        *)
(* refunds never return more of a line than was sold.                       *)
THEOREM NothingReturnedTwice == RefundSpec => []NeverOverReturned
<1>1. RefundIInv => NeverOverReturned
  BY DEF RefundIInv, RefundInv
<1>2. QED
  BY <1>1, RefundInvariance, PTL

(* The R events give back to stock exactly what the lines say was returned, *)
(* once per op_id.                                                          *)
THEOREM EventsAreTheReturns == RefundSpec => []EventsMatchLines
<1>1. RefundIInv => EventsMatchLines
  BY DEF RefundIInv, RefundInv
<1>2. QED
  BY <1>1, RefundInvariance, PTL

(* "returned" is computed from lines that were read before the updates, and *)
(* is right all the same.                                                   *)
THEOREM ReturnedIsComplete == RefundSpec => []ReturnedMeansAll
<1>1. RefundIInv => ReturnedMeansAll
  BY DEF RefundIInv, RefundInv
<1>2. QED
  BY <1>1, RefundInvariance, PTL

(* The payments back add up to the refund, for any payments and amounts.    *)
THEOREM PaymentsAddUp == RefundSpec => []PaidBackIsEventTotal
<1>1. RefundIInv => PaidBackIsEventTotal
  <2>1. ASSUME RefundIInv, NEW i \in DOMAIN refunds, refunds[i].total = Sum(Pays),
               RefundTotal(refunds[i].items) \in 0..refunds[i].total
        PROVE  Sum(refunds[i].paid) = RefundTotal(refunds[i].items)
    <3>1. refunds[i].total \in Int /\ refunds[i].total \in Nat
      BY <2>1 DEF RefundIInv, RefundInv, RefundTypeOK
    <3>2. refunds[i].paid = buildRefundPayments(refunds[i].total, RefundTotal(refunds[i].items))
      BY <2>1 DEF RefundIInv, RefundInv, PaidAsBuilt
    <3>3. QED
      BY <2>1, <3>1, <3>2, SplitIsExact
  <2>2. QED
    BY <2>1 DEF PaidBackIsEventTotal
<1>2. QED
  BY <1>1, RefundInvariance, PTL

-----------------------------------------------------------------------------
(* Reconciliation.                                                          *)

RecomputeOps == {"recompute", "drop"}
BatchOps == {"apply", "freeze", "lock", "complete"} \union RecomputeOps
DayOps == {"import", "receipt", "count", "opening"}

(* The records of requests: what each operation has read.                   *)
Shaped(r) ==
  /\ {"op", "days", "stale"} \subseteq DOMAIN r
  /\ r.op \in {"idle"} \union DayOps \union BatchOps
  /\ r.days \subseteq Days /\ r.stale \in BOOLEAN
  /\ r.op = "idle" => r.days = {}
  /\ r.op = "import" =>
       "flow" \in DOMAIN r /\ r.flow \in Flows /\ r.days = {FlowDay[r.flow]}
  /\ r.op \in BatchOps =>
       "batch" \in DOMAIN r /\ r.batch \in Batches /\ r.days = Span(r.batch)
  /\ r.op \in {"apply"} \union RecomputeOps =>
       {"keys", "prior"} \subseteq DOMAIN r /\ r.keys \subseteq r.days
  /\ r.op \in {"freeze", "lock"} \union RecomputeOps =>
       "takings" \in DOMAIN r /\ r.takings \in [Days -> Nat]
  /\ r.op \in RecomputeOps => {"pinned", "rows", "handled"} \subseteq DOMAIN r
  /\ r.op = "complete" => "figures" \in DOMAIN r

RequestsShaped == thread = [w \in Threads |-> thread[w]] /\ \A w \in Threads : Shaped(thread[w])

(* A batch is applied by one request.                                       *)
AppliesOnce ==
  \A w, u \in Threads :
    Asked(w, "apply") /\ Asked(u, "apply") /\ thread[w].batch = thread[u].batch => w = u

(* What is true of the batch of a request, stale or not.                    *)
Stands(r) ==
  /\ r.op = "apply" => status[r.batch] = "none"
  /\ r.op \in {"freeze", "lock"} \union RecomputeOps => status[r.batch] # "none"
  /\ r.op = "complete" => r.batch \in locks
RequestsStand == \A w \in Threads : Stands(thread[w])

(* What was read is still so.                                               *)
UpToDate(r) ==
  /\ r.op = "import" => ~LockedByCompleted(FlowDay[r.flow])
  /\ r.op \in {"receipt", "count", "freeze", "lock"} => ~Locked(r.days)
  /\ r.op \in {"apply"} \union RecomputeOps =>
       \A d \in r.days \cap priorDiffStates(r.batch) : d \in r.prior
  /\ r.op \in RecomputeOps => status[r.batch] \in {"draft", "auditing"}
  /\ r.op = "complete" =>
       /\ status[r.batch] = "auditing"
       /\ r.figures.batch = r.batch
       /\ r.figures.closing = Closing(r.batch, r.figures.opening)
ReadsHold == \A w \in Threads : ~thread[w].stale => UpToDate(thread[w])

(* Two frozen batches share a day only if one of them was frozen by a stale *)
(* request.                                                                 *)
OneLockADay ==
  \A b, c \in locks : b # c /\ Overlap(b, c) => Span(b) \subseteq raced \/ Span(c) \subseteq raced

(* The rows of openings; one that carries on comes of a completed batch.    *)
OpeningsShaped ==
  /\ openings = [a \in Accounts |-> openings[a]]
  /\ \A a \in Accounts :
       /\ openings[a] \in Seq({openings[a][i] : i \in Rows(a)})
       /\ \A i \in Rows(a) : {"day", "source", "amount", "void"} \subseteq DOMAIN openings[a][i]
RowsKnown ==
  \A a \in Accounts : \A i \in Rows(a) :
    /\ openings[a][i].day \in Days
    /\ openings[a][i].source = "carry" => \E c \in Batches : Completed(c) /\ openings[a][i].day = To[c] + 1

BooksShaped == books = [d \in Days |-> books[d]]

ReconInv ==
  /\ ReconTypes /\ BooksShaped /\ RequestsShaped /\ AppliesOnce /\ RequestsStand /\ ReadsHold
  /\ OneLockADay /\ OpeningsShaped /\ RowsKnown /\ BooksStayTrue

-----------------------------------------------------------------------------
(* Days and spans.                                                          *)

LEMMA SpanFacts ==
  ASSUME NEW b \in Batches
  PROVE  /\ From[b] \in Span(b) /\ To[b] \in Span(b) /\ Span(b) \subseteq Days
         /\ To[b] + 1 \in Days /\ Span(b) \subseteq From[b] .. FinalDay /\ From[b] .. FinalDay \subseteq Days
BY ReconAssumption DEF ReconAssumption, Span, Days

LEMMA SameTo ==
  ASSUME NEW b \in Batches, NEW c \in Batches, To[b] + 1 = To[c] + 1 \/ From[b] = From[c]
  PROVE  Overlap(b, c)
<1>1. To[b] \in Int /\ To[c] \in Int
  BY ReconAssumption DEF ReconAssumption
<1>2. To[b] = To[c] \/ From[b] = From[c]
  BY <1>1
<1> QED
  BY <1>2, SpanFacts DEF Overlap

-----------------------------------------------------------------------------
(* Steps of the threads.  A request that goes on keeps what it has read.    *)

Same(r, s) ==
  /\ s.op = r.op /\ s.days = r.days
  /\ r.op = "import" => s.flow = r.flow
  /\ r.op \in BatchOps => s.batch = r.batch
  /\ r.op \in {"apply"} \union RecomputeOps => s.keys = r.keys /\ s.prior = r.prior
  /\ r.op \in {"freeze", "lock"} \union RecomputeOps => s.takings = r.takings
  /\ r.op \in RecomputeOps => s.pinned = r.pinned /\ s.handled = r.handled
  /\ r.op = "complete" => s.figures = r.figures

(* A request with other fields than these is as it was.                     *)
LEMMA FieldsAreSame ==
  ASSUME NEW r, NEW s, Shaped(r), DOMAIN s = DOMAIN r, s.stale \in BOOLEAN,
         \A x \in DOMAIN r \ {"stale", "rows"} : s[x] = r[x]
  PROVE  Shaped(s) /\ Same(r, s)
<1>1. s.op = r.op /\ s.days = r.days
  BY DEF Shaped
<1>2. r.op = "import" => s.flow = r.flow
  BY DEF Shaped
<1>3. r.op \in BatchOps => s.batch = r.batch
  BY DEF Shaped
<1>4. r.op \in {"apply"} \union RecomputeOps => s.keys = r.keys /\ s.prior = r.prior
  BY DEF Shaped
<1>5. r.op \in {"freeze", "lock"} \union RecomputeOps => s.takings = r.takings
  BY DEF Shaped
<1>6. r.op \in RecomputeOps => s.pinned = r.pinned /\ s.handled = r.handled
  BY DEF Shaped
<1>7. r.op = "complete" => s.figures = r.figures
  BY DEF Shaped
<1>8. Same(r, s)
  BY <1>1, <1>2, <1>3, <1>4, <1>5, <1>6, <1>7 DEF Same
<1>9. Shaped(s)
  BY <1>1, <1>2, <1>3, <1>4, <1>5 DEF Shaped, BatchOps, RecomputeOps
<1> QED
  BY <1>8, <1>9

(* A request whose reads have become stale, or that lost rows to another.   *)
LEMMA StaleIsSame ==
  ASSUME NEW r, Shaped(r)
  PROVE  LET s == [r EXCEPT !.stale = TRUE] IN Shaped(s) /\ Same(r, s) /\ s.stale = TRUE
<1> DEFINE s == [r EXCEPT !.stale = TRUE]
<1>1. DOMAIN s = DOMAIN r /\ s.stale = TRUE /\ \A x \in DOMAIN r \ {"stale", "rows"} : s[x] = r[x]
  BY DEF Shaped
<1> HIDE DEF s
<1> QED
  BY <1>1, FieldsAreSame DEF s

LEMMA WithoutIsSame ==
  ASSUME NEW w, NEW u, Shaped(thread[u])
  PROVE  /\ Shaped(Without(w, u)) /\ Same(thread[u], Without(w, u))
         /\ Without(w, u).stale = thread[u].stale
<1> DEFINE r == thread[u]  s == Without(w, u)
<1>1. /\ DOMAIN s = DOMAIN r /\ s.stale = r.stale /\ r.stale \in BOOLEAN
      /\ \A x \in DOMAIN r \ {"stale", "rows"} : s[x] = r[x]
  BY DEF Shaped, Without
<1>2. Shaped(r)
  OBVIOUS
<1> HIDE DEF r, s
<1>3. Shaped(s) /\ Same(r, s)
  BY <1>1, <1>2, FieldsAreSame
<1> QED
  BY <1>1, <1>3 DEF r, s

LEMMA SameOfSame ==
  ASSUME NEW r, NEW s, NEW t, Same(r, s), Same(s, t)
  PROVE  Same(r, t)
BY DEF Same

(* A write marks the requests that are about its days.                      *)
LEMMA DoneStep ==
  ASSUME RequestsShaped, NEW w \in Threads, NEW days, Done(w, days)
  PROVE  /\ RequestsShaped'
         /\ thread'[w] = Idle
         /\ \A u \in Threads : u # w =>
              /\ Same(thread[u], thread'[u])
              /\ ~thread'[u].stale => ~thread[u].stale /\ thread[u].days \cap days = {}
<1>1. thread' = [u \in Threads |-> thread'[u]] /\ thread'[w] = Idle
  BY DEF Done
<1>2. Shaped(Idle)
  BY DEF Shaped, Idle, DayOps, BatchOps, RecomputeOps
<1>3. ASSUME NEW u \in Threads, u # w
      PROVE  /\ Shaped(thread'[u]) /\ Same(thread[u], thread'[u])
             /\ ~thread'[u].stale => ~thread[u].stale /\ thread[u].days \cap days = {}
  <2>1. Shaped(thread[u])
    BY DEF RequestsShaped
  <2>2. CASE thread[u].days \cap days # {}
    <3>1. thread'[u] = [Without(w, u) EXCEPT !.stale = TRUE]
      BY <1>3, <2>2 DEF Done
    <3>2. Shaped(Without(w, u)) /\ Same(thread[u], Without(w, u))
      BY <2>1, WithoutIsSame
    <3>3. Shaped(thread'[u]) /\ Same(Without(w, u), thread'[u]) /\ thread'[u].stale
      BY <3>1, <3>2, StaleIsSame
    <3> QED
      BY <3>2, <3>3, SameOfSame
  <2>3. CASE thread[u].days \cap days = {}
    <3>1. thread'[u] = Without(w, u)
      BY <1>3, <2>3 DEF Done
    <3> QED
      BY <2>1, <2>3, <3>1, WithoutIsSame
  <2> QED
    BY <2>2, <2>3
<1>4. \A u \in Threads : Shaped(thread'[u])
  BY <1>1, <1>2, <1>3
<1> QED
  BY <1>1, <1>3, <1>4 DEF RequestsShaped, Shaped

LEMMA AppliesOnceKept ==
  ASSUME RequestsShaped, AppliesOnce, NEW w \in Threads, NEW days, Done(w, days)
  PROVE  AppliesOnce'
<1>1. ASSUME NEW u \in Threads, thread'[u].op = "apply"
      PROVE  u # w /\ Asked(u, "apply") /\ thread'[u].batch = thread[u].batch
  <2>1. u # w
    BY <1>1, DoneStep DEF Idle
  <2>2. Same(thread[u], thread'[u])
    BY <2>1, DoneStep
  <2> QED
    BY <1>1, <2>1, <2>2 DEF Same, Asked, BatchOps, RecomputeOps
<1> QED
  BY <1>1 DEF AppliesOnce, Asked

(* What a write does to the batches: none is unknown again, no lock is      *)
(* lifted, and a batch that is being applied is left alone.                 *)
BatchesGoOn(w) ==
  /\ \A b \in Batches : status[b] # "none" => status'[b] # "none"
  /\ \A u \in Threads : u # w /\ Asked(u, "apply") => status'[thread[u].batch] = status[thread[u].batch]
  /\ locks \subseteq locks'

LEMMA StandsKept ==
  ASSUME RequestsShaped, RequestsStand, NEW w \in Threads, NEW days, Done(w, days), BatchesGoOn(w)
  PROVE  RequestsStand'
<1> SUFFICES ASSUME NEW u \in Threads
             PROVE  Stands(thread[u])'
  BY DEF RequestsStand
<1>1. CASE u = w
  <2>1. thread'[u].op = "idle"
    BY <1>1, DoneStep DEF Idle
  <2> QED
    BY <2>1 DEF Stands, RecomputeOps
<1>2. CASE u # w
  <2>1. Same(thread[u], thread'[u]) /\ Stands(thread[u]) /\ Shaped(thread[u])
    BY <1>2, DoneStep DEF RequestsStand, RequestsShaped
  <2>2. thread[u].op = "apply" => status'[thread[u].batch] = "none"
    BY <1>2, <2>1 DEF BatchesGoOn, Asked, Stands, RecomputeOps
  <2>3. thread[u].op \in {"freeze", "lock"} \union RecomputeOps => status'[thread[u].batch] # "none"
    BY <2>1 DEF BatchesGoOn, Stands, Shaped, BatchOps, RecomputeOps
  <2>4. thread[u].op = "complete" => thread[u].batch \in locks'
    BY <2>1 DEF BatchesGoOn, Stands, RecomputeOps
  <2> QED
    BY <2>1, <2>2, <2>3, <2>4 DEF Stands, Same, BatchOps, RecomputeOps
<1> QED
  BY <1>1, <1>2

(* A write is about its days: what is read of others stays.                 *)
Within(days) ==
  /\ \A b \in locks' : b \in locks \/ Span(b) \subseteq days
  /\ \A b \in Batches : status'[b] = status[b] \/ Span(b) \subseteq days
  /\ \A b \in Batches, d \in Days \ days : diffs'[b][d] = "handled" => diffs[b][d] = "handled"
  /\ \A b \in Batches : Span(b) \cap days = {} => \A o : Closing(b, o)' = Closing(b, o)

LEMMA UpToDateKept ==
  ASSUME NEW r, NEW s, NEW days, Shaped(r), Same(r, s), UpToDate(r), locks' \subseteq Batches,
         r.days \cap days = {}, Within(days)
  PROVE  UpToDate(s)'
<1>1. s.op = "import" => ~LockedByCompleted(FlowDay[s.flow])'
  <2> SUFFICES ASSUME r.op = "import",
                      NEW b \in locks', FlowDay[r.flow] \in Span(b), status'[b] = "completed"
               PROVE  FALSE
    BY DEF Same, LockedByCompleted
  <2>1. FlowDay[r.flow] \notin days /\ ~LockedByCompleted(FlowDay[r.flow])
    BY DEF Shaped, UpToDate, RecomputeOps
  <2>2. b \in locks /\ status[b] = "completed"
    BY <2>1 DEF Within
  <2> QED
    BY <2>1, <2>2 DEF LockedByCompleted
<1>2. s.op \in {"receipt", "count", "freeze", "lock"} => ~Locked(s.days)'
  <2> SUFFICES ASSUME r.op \in {"receipt", "count", "freeze", "lock"},
                      NEW b \in locks', Span(b) \cap r.days # {}
               PROVE  FALSE
    BY DEF Same, Locked
  <2>1. b \in locks
    BY DEF Within
  <2> QED
    BY <2>1 DEF Locked, UpToDate, RecomputeOps
<1>3. s.op \in {"apply"} \union RecomputeOps => \A d \in s.days \cap priorDiffStates(s.batch)' : d \in s.prior
  <2> SUFFICES ASSUME r.op \in {"apply"} \union RecomputeOps, NEW d \in Days, d \in r.days,
                      NEW c \in Batches, Overlap(r.batch, c), diffs'[c][d] = "handled"
               PROVE  d \in r.prior
    BY DEF Same, priorDiffStates, BatchOps, RecomputeOps
  <2>1. diffs[c][d] = "handled"
    BY DEF Within
  <2> QED
    BY <2>1 DEF priorDiffStates, UpToDate, RecomputeOps
<1>4. r.op \in BatchOps => r.batch \in Batches /\ r.days = Span(r.batch) /\ status'[r.batch] = status[r.batch]
  <2> SUFFICES ASSUME r.op \in BatchOps
               PROVE  r.batch \in Batches /\ r.days = Span(r.batch) /\ status'[r.batch] = status[r.batch]
    OBVIOUS
  <2>1. r.batch \in Batches /\ r.days = Span(r.batch)
    BY DEF Shaped
  <2>2. From[r.batch] \in Span(r.batch) /\ From[r.batch] \notin days
    BY <2>1, SpanFacts
  <2> QED
    BY <2>1, <2>2 DEF Within
<1>5. s.op \in RecomputeOps => status'[s.batch] \in {"draft", "auditing"}
  BY <1>4 DEF Same, UpToDate, BatchOps, RecomputeOps
<1>6. s.op = "complete" =>
        /\ status'[s.batch] = "auditing"
        /\ s.figures.batch = s.batch
        /\ s.figures.closing = Closing(s.batch, s.figures.opening)'
  <2> SUFFICES ASSUME r.op = "complete"
               PROVE  /\ status'[r.batch] = "auditing"
                      /\ r.figures.batch = r.batch
                      /\ r.figures.closing = Closing(r.batch, r.figures.opening)'
    BY DEF Same, BatchOps, RecomputeOps
  <2>1. status'[r.batch] = "auditing" /\ r.figures.batch = r.batch
    BY <1>4 DEF UpToDate, BatchOps, RecomputeOps
  <2>2. r.figures.closing = Closing(r.batch, r.figures.opening)
    BY DEF UpToDate, RecomputeOps
  <2>3. \A o : Closing(r.batch, o)' = Closing(r.batch, o)
    BY <1>4 DEF Within, BatchOps, RecomputeOps
  <2> QED
    BY <2>1, <2>2, <2>3
<1> QED
  BY <1>1, <1>2, <1>3, <1>5, <1>6 DEF UpToDate, RecomputeOps

LEMMA ReadsKept ==
  ASSUME RequestsShaped, ReadsHold, NEW w \in Threads, NEW days, Done(w, days),
         Within(days), locks' \subseteq Batches
  PROVE  ReadsHold'
<1> SUFFICES ASSUME NEW u \in Threads, ~thread'[u].stale
             PROVE  UpToDate(thread[u])'
  BY DEF ReadsHold
<1>1. CASE u = w
  <2>1. thread'[u].op = "idle"
    BY <1>1, DoneStep DEF Idle
  <2> QED
    BY <2>1 DEF UpToDate, RecomputeOps
<1>2. CASE u # w
  <2>1. /\ Same(thread[u], thread'[u]) /\ Shaped(thread[u])
        /\ ~thread[u].stale /\ thread[u].days \cap days = {}
    BY <1>2, DoneStep DEF RequestsShaped
  <2>2. UpToDate(thread[u])
    BY <2>1 DEF ReadsHold
  <2> QED
    BY <2>1, <2>2, UpToDateKept
<1> QED
  BY <1>1, <1>2

-----------------------------------------------------------------------------
(* Looks change nothing but the request.                                    *)

LEMMA LookStep ==
  ASSUME ReconInv, NEW w \in Threads, NEW r, Ask(w, r),
         UNCHANGED <<facts, openings, batchRows, raced>>, writes' \in 0 .. MaxWrites,
         Shaped(r), Stands(r), ~r.stale => UpToDate(r),
         r.op = "apply" => \A u \in Threads : ~(Asked(u, "apply") /\ thread[u].batch = r.batch)
  PROVE  ReconInv'
<1> USE DEF facts, batchRows
<1>1. thread' = [u \in Threads |-> thread'[u]] /\ thread'[w] = r
  BY DEF Ask, ReconInv, RequestsShaped
<1>2. \A u \in Threads : u # w => thread'[u] = thread[u]
  BY DEF Ask, ReconInv, RequestsShaped
<1>3. RequestsShaped'
  <2>1. \A u \in Threads : Shaped(thread[u])
    BY DEF ReconInv, RequestsShaped
  <2>2. \A u \in Threads : Shaped(thread'[u])
    BY <1>1, <1>2, <2>1
  <2> QED
    BY <1>1, <2>2 DEF RequestsShaped, Shaped
<1>4. AppliesOnce'
  BY <1>1, <1>2 DEF ReconInv, AppliesOnce, Asked
<1>5. \A s : Stands(s)' <=> Stands(s)
  BY DEF Stands, RecomputeOps
<1>6. RequestsStand'
  <2>1. \A u \in Threads : Stands(thread'[u])
    BY <1>1, <1>2 DEF ReconInv, RequestsStand
  <2>2. \A u \in Threads : Stands(thread[u])' <=> Stands(thread'[u])
    BY DEF Stands, RecomputeOps
  <2> QED
    BY <2>1, <2>2 DEF RequestsStand
<1>7. ReadsHold'
  <2> SUFFICES ASSUME NEW u \in Threads, ~thread'[u].stale
               PROVE  UpToDate(thread[u])'
    BY DEF ReadsHold
  <2>1. UpToDate(thread'[u])
    BY <1>1, <1>2 DEF ReconInv, ReadsHold
  <2>2. \A b, o : Closing(b, o)' = Closing(b, o)
    BY DEF Closing, CountOf, Inflow
  <2>3. \A b : priorDiffStates(b)' = priorDiffStates(b)
    BY DEF priorDiffStates
  <2> QED
    BY <2>1, <2>2, <2>3 DEF UpToDate, LockedByCompleted, Locked, RecomputeOps
<1>8. OneLockADay'
  BY DEF ReconInv, OneLockADay
<1>9. OpeningsShaped' /\ RowsKnown'
  <2>1. OpeningsShaped'
    BY DEF ReconInv, OpeningsShaped, Rows
  <2>2. RowsKnown'
    BY DEF ReconInv, RowsKnown, Rows, Completed
  <2> QED
    BY <2>1, <2>2
<1>10. BooksStayTrue'
  <2>1. \A b, o : Closing(b, o)' = Closing(b, o)
    BY DEF Closing, CountOf, Inflow
  <2>2. \A b, f : CarriesOn(b, f)' <=> CarriesOn(b, f)
    BY DEF CarriesOn, Rows
  <2>3. BooksStayTrue
    BY DEF ReconInv
  <2> QED
    BY <2>1, <2>2, <2>3 DEF BooksStayTrue, Completed, Clean
<1>11. ReconTypes'
  BY DEF ReconInv, ReconTypes
<1>12. BooksShaped'
  BY DEF ReconInv, BooksShaped, batchRows
<1> QED
  BY <1>12, <1>3, <1>4, <1>6, <1>7, <1>8, <1>9, <1>10, <1>11 DEF ReconInv

LEMMA LookImportStep ==
  ASSUME ReconInv, NEW w \in Threads, NEW f \in Flows, LookImport(w, f)
  PROVE  ReconInv'
<1> DEFINE r == [op |-> "import", days |-> {FlowDay[f]}, stale |-> FALSE, flow |-> f]
<1>1. Shaped(r)
  BY ReconAssumption DEF ReconAssumption, Days, Shaped, DayOps, BatchOps, RecomputeOps
<1>2. Stands(r) /\ UpToDate(r)
  BY DEF LookImport, Stands, UpToDate, RecomputeOps
<1>3. Ask(w, r) /\ UNCHANGED <<facts, openings, batchRows, raced>> /\ writes' \in 0 .. MaxWrites
  BY DEF ReconInv, ReconTypes, LookImport
<1>4. r.op # "apply"
  OBVIOUS
<1> HIDE DEF r
<1> QED
  BY <1>1, <1>2, <1>3, <1>4, LookStep

LEMMA LookWriteStep ==
  ASSUME ReconInv, NEW w \in Threads, NEW d \in WriteDays, NEW kind \in {"receipt", "count", "opening"},
         LookWrite(w, kind, d)
  PROVE  ReconInv'
<1> DEFINE r == [op |-> kind, days |-> {d}, stale |-> FALSE]
<1>1. Shaped(r)
  BY ReconAssumption DEF ReconAssumption, Days, Shaped, DayOps, BatchOps, RecomputeOps
<1>2. Stands(r) /\ UpToDate(r)
  BY DEF LookWrite, Stands, UpToDate, RecomputeOps
<1>3. Ask(w, r) /\ UNCHANGED <<facts, openings, batchRows, raced>> /\ writes' \in 0 .. MaxWrites
  BY DEF ReconInv, ReconTypes, LookWrite
<1>4. r.op # "apply"
  OBVIOUS
<1> HIDE DEF r
<1> QED
  BY <1>1, <1>2, <1>3, <1>4, LookStep

LEMMA LookApplyStep ==
  ASSUME ReconInv, NEW w \in Threads, NEW b \in Batches, LookApply(w, b)
  PROVE  ReconInv'
<1> DEFINE r == [op |-> "apply", days |-> Span(b), stale |-> FALSE, batch |-> b,
                 keys |-> Unequal(b), prior |-> priorDiffStates(b)]
<1>1. Shaped(r)
  BY SpanFacts DEF Shaped, DayOps, BatchOps, RecomputeOps, Unequal
<1>2. Stands(r) /\ UpToDate(r)
  BY DEF LookApply, Stands, UpToDate, RecomputeOps
<1>3. Ask(w, r) /\ UNCHANGED <<facts, openings, batchRows, raced>> /\ writes' \in 0 .. MaxWrites
  BY DEF ReconInv, ReconTypes, LookApply
<1>4. \A u \in Threads : ~(Asked(u, "apply") /\ thread[u].batch = r.batch)
  BY DEF LookApply
<1> HIDE DEF r
<1> QED
  BY <1>1, <1>2, <1>3, <1>4, LookStep

LEMMA LookRecomputeStep ==
  ASSUME ReconInv, NEW w \in Threads, NEW b \in Batches, LookRecompute(w, b)
  PROVE  ReconInv'
<1> DEFINE r == [op |-> "recompute", days |-> Span(b), stale |-> FALSE, batch |-> b,
                 keys |-> Unequal(b), prior |-> priorDiffStates(b),
                 pinned |-> status[b] # "draft", takings |-> takings, rows |-> {}, handled |-> {}]
<1>1. Shaped(r)
  <2>1. takings \in [Days -> Nat]
    BY DEF ReconInv, ReconTypes
  <2> QED
    BY <2>1, SpanFacts DEF Shaped, DayOps, BatchOps, RecomputeOps, Unequal
<1>2. Stands(r) /\ UpToDate(r)
  BY DEF LookRecompute, Stands, UpToDate, redoable, RecomputeOps
<1>3. Ask(w, r) /\ UNCHANGED <<facts, openings, batchRows, raced>> /\ writes' \in 0 .. MaxWrites
  BY DEF ReconInv, ReconTypes, LookRecompute
<1>4. r.op # "apply"
  OBVIOUS
<1> HIDE DEF r
<1> QED
  BY <1>1, <1>2, <1>3, <1>4, LookStep

(* The second read of a recompute keeps what the first has found.           *)
LEMMA ReadStaleRowsStep ==
  ASSUME ReconInv, NEW w \in Threads, ReadStaleRows(w)
  PROVE  ReconInv'
<1>1. PICK r : r = thread[w]
  OBVIOUS
<1>2. /\ Shaped(r) /\ r.op = "recompute" /\ Stands(r) /\ (~r.stale => UpToDate(r))
  BY <1>1 DEF ReconInv, RequestsShaped, RequestsStand, ReadsHold, ReadStaleRows, Asked
<1> DEFINE rows == RowsOf(r.batch) \ r.keys
           acted == {d \in rows : diffs[r.batch][d] = "handled"}
<1>3. Ask(w, [r EXCEPT !.op = "drop", !.rows = rows, !.handled = acted])
  BY <1>1 DEF ReadStaleRows
<1> HIDE DEF rows, acted
<1> DEFINE s == [r EXCEPT !.op = "drop", !.rows = rows, !.handled = acted]
<1>4. DOMAIN s = DOMAIN r /\ \A x \in DOMAIN r \ {"op", "rows", "handled"} : s[x] = r[x]
  OBVIOUS
<1>5. s.op = "drop"
  BY <1>2 DEF Shaped
<1>6. Ask(w, s) /\ UNCHANGED <<facts, openings, batchRows, raced>> /\ writes' \in 0 .. MaxWrites
  BY <1>3 DEF ReadStaleRows, ReconInv, ReconTypes
<1> HIDE DEF s
<1>7. /\ s.days = r.days /\ s.stale = r.stale /\ s.batch = r.batch /\ s.keys = r.keys
      /\ s.prior = r.prior /\ s.takings = r.takings
  BY <1>2, <1>4 DEF Shaped, BatchOps, RecomputeOps
<1>8. Shaped(s)
  BY <1>2, <1>4, <1>5, <1>7 DEF Shaped, DayOps, BatchOps, RecomputeOps
<1>9. Stands(s) /\ (~s.stale => UpToDate(s))
  BY <1>2, <1>5, <1>7 DEF Stands, UpToDate, RecomputeOps
<1> QED
  BY <1>5, <1>6, <1>8, <1>9, LookStep

LEMMA LookFreezeStep ==
  ASSUME ReconInv, NEW w \in Threads, NEW b \in Batches, LookFreeze(w, b)
  PROVE  ReconInv'
<1> DEFINE r == [op |-> "freeze", days |-> Span(b), stale |-> FALSE, batch |-> b, takings |-> takings]
<1>1. Shaped(r)
  <2>1. takings \in [Days -> Nat]
    BY DEF ReconInv, ReconTypes
  <2> QED
    BY <2>1, SpanFacts DEF Shaped, DayOps, BatchOps, RecomputeOps
<1>2. Stands(r) /\ UpToDate(r)
  BY DEF LookFreeze, Stands, UpToDate, RecomputeOps
<1>3. Ask(w, r) /\ UNCHANGED <<facts, openings, batchRows, raced>> /\ writes' \in 0 .. MaxWrites
  BY DEF ReconInv, ReconTypes, LookFreeze
<1>4. r.op # "apply"
  OBVIOUS
<1> HIDE DEF r
<1> QED
  BY <1>1, <1>2, <1>3, <1>4, LookStep

LEMMA LookCompleteStep ==
  ASSUME ReconInv, NEW w \in Threads, NEW b \in Batches, LookComplete(w, b)
  PROVE  ReconInv'
<1> DEFINE r == [op |-> "complete", days |-> Span(b), stale |-> FALSE, batch |-> b, figures |-> Figures(b)]
<1>1. Shaped(r)
  BY SpanFacts DEF Shaped, DayOps, BatchOps, RecomputeOps
<1>2. Stands(r) /\ UpToDate(r)
  <2>1. b \in locks /\ status[b] = "auditing"
    BY DEF LookComplete, ReconInv, ReconTypes
  <2>2. Figures(b).batch = b /\ Figures(b).closing = Closing(b, Figures(b).opening)
    BY DEF Figures
  <2> QED
    BY <2>1, <2>2 DEF Stands, UpToDate, RecomputeOps
<1>3. Ask(w, r) /\ UNCHANGED <<facts, openings, batchRows, raced>> /\ writes' \in 0 .. MaxWrites
  BY DEF ReconInv, ReconTypes, LookComplete
<1>4. r.op # "apply"
  OBVIOUS
<1> HIDE DEF r
<1> QED
  BY <1>1, <1>2, <1>3, <1>4, LookStep

LEMMA GoAwayStep ==
  ASSUME ReconInv, NEW w \in Threads, GoAway(w),
         UNCHANGED <<facts, openings, batchRows>>, writes' \in 0 .. MaxWrites
  PROVE  ReconInv'
<1>1. Shaped(Idle) /\ Stands(Idle) /\ UpToDate(Idle) /\ Idle.op # "apply"
  BY DEF Shaped, Idle, DayOps, BatchOps, RecomputeOps, Stands, UpToDate
<1>2. Ask(w, Idle) /\ UNCHANGED raced
  BY DEF GoAway, Ask
<1> QED
  BY <1>1, <1>2, LookStep

LEMMA RecheckStep ==
  ASSUME ReconInv, NEW w \in Threads, Recheck(w)
  PROVE  ReconInv'
<1> DEFINE r == [thread[w] EXCEPT !.op = "lock"]
<1>1. CASE Locked(thread[w].days)
  <2>1. GoAway(w) /\ UNCHANGED <<facts, openings, batchRows>> /\ writes' \in 0 .. MaxWrites
    BY <1>1 DEF Recheck, ReconInv, ReconTypes
  <2> QED
    BY <2>1, GoAwayStep
<1>2. CASE ~Locked(thread[w].days)
  <2>1. Shaped(thread[w]) /\ thread[w].op = "freeze" /\ Stands(thread[w])
    BY DEF ReconInv, RequestsShaped, RequestsStand, Recheck, Asked
  <2>2. DOMAIN r = DOMAIN thread[w] /\ \A x \in DOMAIN r : x # "op" => r[x] = thread[w][x]
    OBVIOUS
  <2>3. r.op = "lock"
    BY <2>1 DEF Shaped
  <2>4. /\ r.days = thread[w].days /\ r.stale = thread[w].stale /\ r.batch = thread[w].batch
        /\ r.takings = thread[w].takings
    BY <2>1, <2>2 DEF Shaped, BatchOps, RecomputeOps
  <2>5. Ask(w, r) /\ UNCHANGED <<facts, openings, batchRows, raced>> /\ writes' \in 0 .. MaxWrites
    BY <1>2 DEF Recheck, ReconInv, ReconTypes
  <2> HIDE DEF r
  <2>6. Shaped(r)
    BY <2>1, <2>2, <2>3, <2>4 DEF Shaped, DayOps, BatchOps, RecomputeOps
  <2>7. Stands(r) /\ UpToDate(r)
    BY <1>2, <2>1, <2>3, <2>4 DEF Stands, UpToDate, RecomputeOps
  <2> QED
    BY <2>3, <2>5, <2>6, <2>7, LookStep
<1> QED
  BY <1>1, <1>2

-----------------------------------------------------------------------------
(* Writes.                                                                  *)

LEMMA RequestCommits ==
  ASSUME ReconInv, NEW w \in Threads, NEW days, Done(w, days), BatchesGoOn(w), Within(days),
         ReconTypes', BooksShaped', OneLockADay', OpeningsShaped', RowsKnown', BooksStayTrue'
  PROVE  ReconInv'
<1>1. RequestsShaped'
  BY DoneStep DEF ReconInv
<1>2. AppliesOnce'
  BY AppliesOnceKept DEF ReconInv
<1>3. RequestsStand'
  BY StandsKept DEF ReconInv
<1>4. locks' \subseteq Batches
  BY DEF ReconTypes
<1>5. ReadsHold'
  BY <1>4, ReadsKept DEF ReconInv
<1> QED
  BY <1>1, <1>2, <1>3, <1>5 DEF ReconInv

(* What a request writes to has been raced for if it was stale.                       *)
LEMMA RacedGrows ==
  ASSUME RequestsShaped, NEW w \in Threads, NEW days, Done(w, days)
  PROVE  raced \subseteq raced' /\ (thread[w].stale => days \subseteq raced')
BY DEF Done, RequestsShaped, Shaped

LEMMA RacedTyped ==
  ASSUME ReconInv, NEW w \in Threads, NEW days \in SUBSET Days, Done(w, days)
  PROVE  raced' \subseteq Days
BY DEF Done, ReconInv, ReconTypes

(* Books stand while their batch is not written to.                         *)
LEMMA BooksKept ==
  ASSUME BooksStayTrue, raced \subseteq raced', UNCHANGED books,
         \A b \in Batches : Completed(b)' => Completed(b),
         \A b \in Batches : Completed(b) /\ Clean(b)' => \A o : Closing(b, o)' = Closing(b, o),
         \A b \in Batches : \A f : CarriesOn(b, f) => CarriesOn(b, f)'
  PROVE  BooksStayTrue'
<1> SUFFICES ASSUME NEW b \in Batches, Completed(b)', Clean(b)'
             PROVE  \E f \in books'[From[b]] :
                      f.batch = b /\ f.closing = Closing(b, f.opening)' /\ CarriesOn(b, f)'
  BY DEF BooksStayTrue
<1>1. Completed(b) /\ Clean(b)
  BY DEF Clean
<1>2. PICK f \in books[From[b]] : f.batch = b /\ f.closing = Closing(b, f.opening) /\ CarriesOn(b, f)
  BY <1>1 DEF BooksStayTrue
<1>3. Closing(b, f.opening)' = Closing(b, f.opening)
  BY <1>1
<1> QED
  BY <1>2, <1>3

LEMMA OpeningsSame ==
  ASSUME ReconInv, UNCHANGED openings, \A b \in Batches : Completed(b) => Completed(b)'
  PROVE  /\ OpeningsShaped' /\ RowsKnown'
         /\ \A b \in Batches : \A f : CarriesOn(b, f) => CarriesOn(b, f)'
<1>1. OpeningsShaped'
  BY DEF ReconInv, OpeningsShaped, Rows
<1>2. RowsKnown'
  BY DEF ReconInv, RowsKnown, Rows
<1>3. \A b \in Batches : \A f : CarriesOn(b, f) => CarriesOn(b, f)'
  BY DEF CarriesOn, Rows
<1> QED
  BY <1>1, <1>2, <1>3

(* Takings, arrivals, receipts and counts.                                  *)
LEMMA FactStep ==
  ASSUME ReconInv, NEW w \in Threads, NEW days, Done(w, days), UNCHANGED <<openings, batchRows>>, ReconTypes',
         \A b \in Batches : Span(b) \cap days = {} => \A o : Closing(b, o)' = Closing(b, o),
         \A b \in Batches : Completed(b) /\ ~thread[w].stale => Span(b) \cap days = {}
  PROVE  ReconInv'
<1> USE DEF batchRows
<1>1. raced \subseteq raced' /\ (thread[w].stale => days \subseteq raced')
  BY RacedGrows DEF ReconInv
<1>2. BatchesGoOn(w) /\ Within(days)
  BY DEF BatchesGoOn, Within
<1>3. OneLockADay'
  BY <1>1 DEF ReconInv, OneLockADay
<1>4. \A b \in Batches : Completed(b)' <=> Completed(b)
  BY DEF Completed
<1>5. /\ OpeningsShaped' /\ RowsKnown'
      /\ \A b \in Batches : \A f : CarriesOn(b, f) => CarriesOn(b, f)'
  BY <1>4, OpeningsSame
<1>6. ASSUME NEW b \in Batches, Completed(b), Clean(b)'
      PROVE  \A o : Closing(b, o)' = Closing(b, o)
  <2>1. Span(b) \cap days = {}
    BY <1>1, <1>6 DEF Clean
  <2> QED
    BY <2>1
<1>7. BooksStayTrue'
  BY <1>1, <1>4, <1>5, <1>6, BooksKept DEF ReconInv
<1>8. BooksShaped'
  BY DEF ReconInv, BooksShaped, batchRows
<1> QED
  BY <1>8, <1>2, <1>3, <1>5, <1>7, RequestCommits

LEMMA ReportStep ==
  ASSUME ReconInv, NEW d \in WriteDays, Report(d)
  PROVE  ReconInv'
<1> USE DEF Report, batchRows
<1>1. RequestsShaped' /\ AppliesOnce' /\ RequestsStand'
  BY DEF ReconInv, RequestsShaped, Shaped, AppliesOnce, Asked, RequestsStand, Stands, RecomputeOps
<1>2. \A b, o : Closing(b, o)' = Closing(b, o)
  BY DEF Closing, CountOf, Inflow
<1>3. ReadsHold'
  <2>1. \A b : priorDiffStates(b)' = priorDiffStates(b)
    BY DEF priorDiffStates
  <2> QED
    BY <1>2, <2>1 DEF ReconInv, ReadsHold, UpToDate, LockedByCompleted, Locked, RecomputeOps
<1>4. OneLockADay'
  BY DEF ReconInv, OneLockADay
<1>5. OpeningsShaped' /\ RowsKnown' /\ \A b \in Batches : \A f : CarriesOn(b, f) => CarriesOn(b, f)'
  BY OpeningsSame DEF Completed
<1>6. BooksStayTrue'
  BY <1>2, <1>5, BooksKept DEF ReconInv, Completed
<1>7. ReconTypes'
  <2>1. writes' \in 0 .. MaxWrites
    BY ReconAssumption DEF ReconAssumption, ReconInv, ReconTypes, Counted
  <2>2. takings' \in [Days -> Nat]
    <3>1. takings \in [Days -> Nat]
      BY DEF ReconInv, ReconTypes
    <3>2. takings' = [takings EXCEPT ![d] = takings[d] + 1] /\ d \in Days
      BY ReconAssumption DEF ReconAssumption, Days
    <3>3. takings[d] + 1 \in Nat
      BY <3>1, <3>2
    <3> HIDE DEF Report, batchRows
    <3> QED
      BY <3>1, <3>2, <3>3
  <2> QED
    BY <2>1, <2>2 DEF ReconInv, ReconTypes
<1>8. BooksShaped'
  BY DEF ReconInv, BooksShaped, batchRows
<1> QED
  BY <1>8, <1>1, <1>3, <1>4, <1>5, <1>6, <1>7 DEF ReconInv

LEMMA ImportStep ==
  ASSUME ReconInv, NEW w \in Threads, Import(w)
  PROVE  ReconInv'
<1> DEFINE f == thread[w].flow
           days == thread[w].days
<1>1. f \in Flows /\ days = {FlowDay[f]} /\ thread[w].op = "import"
  BY DEF ReconInv, RequestsShaped, Shaped, Import, Asked
<1>2. Done(w, days) /\ flows' = flows \union {f} /\ UNCHANGED <<takings, receipts, counts, openings, batchRows>>
  BY DEF Import
<1>3. ~thread[w].stale => ~LockedByCompleted(FlowDay[f])
  BY <1>1 DEF ReconInv, ReadsHold, UpToDate, RecomputeOps
<1>4. writes' \in 0 .. MaxWrites
  BY ReconAssumption DEF ReconAssumption, ReconInv, ReconTypes, Import, Counted
<1> HIDE DEF f, days
<1>5. ReconTypes'
  <2>1. raced' \subseteq Days
    BY <1>1, <1>2, ReconAssumption DEF ReconAssumption, ReconInv, ReconTypes, Done, Days
  <2> QED
    BY <1>1, <1>2, <1>4, <2>1 DEF ReconInv, ReconTypes, batchRows
<1>6. ASSUME NEW b \in Batches, Span(b) \cap days = {}
      PROVE  \A o : Closing(b, o)' = Closing(b, o)
  <2>1. {g \in flows' : FlowDay[g] \in Span(b)} = {g \in flows : FlowDay[g] \in Span(b)}
    BY <1>1, <1>2, <1>6
  <2>2. Inflow(b)' = Inflow(b)
    BY <1>2, <2>1 DEF Inflow
  <2> QED
    BY <1>2, <2>2 DEF Closing, CountOf
<1>7. ASSUME NEW b \in Batches, Completed(b), ~thread[w].stale
      PROVE  Span(b) \cap days = {}
  <2>1. b \in locks
    BY <1>7 DEF ReconInv, ReconTypes, Completed
  <2> QED
    BY <1>1, <1>3, <1>7, <2>1 DEF LockedByCompleted, Completed
<1> QED
  BY <1>2, <1>5, <1>6, <1>7, FactStep

LEMMA CreateReceiptStep ==
  ASSUME ReconInv, NEW w \in Threads, CreateReceipt(w)
  PROVE  ReconInv'
<1> DEFINE days == thread[w].days
<1>1. days \subseteq Days /\ thread[w].op = "receipt"
  BY DEF ReconInv, RequestsShaped, Shaped, CreateReceipt, Asked
<1>2. /\ Done(w, days) /\ UNCHANGED <<takings, flows, counts, openings, batchRows>>
      /\ receipts' = [d \in Days |-> IF d \in days THEN receipts[d] + 1 ELSE receipts[d]]
  BY DEF CreateReceipt
<1>3. ~thread[w].stale => ~Locked(days)
  BY <1>1 DEF ReconInv, ReadsHold, UpToDate, RecomputeOps
<1>4. writes' \in 0 .. MaxWrites
  BY ReconAssumption DEF ReconAssumption, ReconInv, ReconTypes, CreateReceipt, Counted
<1> HIDE DEF days
<1>5. ReconTypes'
  <2>1. raced' \subseteq Days
    BY <1>1, <1>2 DEF ReconInv, ReconTypes, Done
  <2>2. receipts' \in [Days -> Nat]
    BY <1>2 DEF ReconInv, ReconTypes
  <2> QED
    BY <1>2, <1>4, <2>1, <2>2 DEF ReconInv, ReconTypes, batchRows
<1>6. ASSUME NEW b \in Batches, Span(b) \cap days = {}
      PROVE  \A o : Closing(b, o)' = Closing(b, o)
  <2>1. \A d \in Span(b) : receipts'[d] = receipts[d]
    BY <1>2, <1>6, SpanFacts
  <2>2. [d \in Span(b) |-> receipts'[d]] = [d \in Span(b) |-> receipts[d]]
    BY <2>1
  <2>3. Inflow(b)' = Inflow(b)
    BY <1>2, <2>2 DEF Inflow
  <2> QED
    BY <1>2, <2>3 DEF Closing, CountOf
<1>7. ASSUME NEW b \in Batches, Completed(b), ~thread[w].stale
      PROVE  Span(b) \cap days = {}
  <2>1. b \in locks
    BY <1>7 DEF ReconInv, ReconTypes, Completed
  <2> QED
    BY <1>3, <1>7, <2>1 DEF Locked
<1> QED
  BY <1>2, <1>5, <1>6, <1>7, FactStep

LEMMA RecordCashCountStep ==
  ASSUME ReconInv, NEW w \in Threads, RecordCashCount(w)
  PROVE  ReconInv'
<1>1. PICK d \in thread[w].days, c \in Amounts :
        IF counts[d] # {} THEN GoAway(w) /\ UNCHANGED counts
        ELSE counts' = [counts EXCEPT ![d] = {c}] /\ Done(w, {d})
  BY DEF RecordCashCount
<1>2. d \in Days /\ thread[w].op = "count"
  BY DEF ReconInv, RequestsShaped, Shaped, RecordCashCount, Asked
<1>3. UNCHANGED <<takings, flows, receipts, openings, batchRows>>
  BY DEF RecordCashCount
<1>4. writes' \in 0 .. MaxWrites
  BY ReconAssumption DEF ReconAssumption, ReconInv, ReconTypes, RecordCashCount, Counted
<1>5. CASE counts[d] # {}
  <2>1. GoAway(w) /\ UNCHANGED <<facts, openings, batchRows>>
    BY <1>1, <1>3, <1>5 DEF facts
  <2> QED
    BY <1>4, <2>1, GoAwayStep
<1>6. CASE counts[d] = {}
  <2>1. counts' = [counts EXCEPT ![d] = {c}] /\ Done(w, {d})
    BY <1>1, <1>6
  <2>2. ~thread[w].stale => ~Locked(thread[w].days)
    BY <1>2 DEF ReconInv, ReadsHold, UpToDate, RecomputeOps
  <2>3. \A e : e # d => counts'[e] = counts[e]
    BY <2>1
  <2>4. ReconTypes'
    <3>1. raced' \subseteq Days
      BY <1>2, <2>1 DEF ReconInv, ReconTypes, Done
    <3>2. \A e \in Days : counts'[e] \subseteq Amounts /\ \A x, y \in counts'[e] : x = y
      BY <2>1, <2>3 DEF ReconInv, ReconTypes
    <3> QED
      BY <1>3, <1>4, <3>1, <3>2 DEF ReconInv, ReconTypes, batchRows
  <2>5. ASSUME NEW b \in Batches, Span(b) \cap {d} = {}
        PROVE  \A o : Closing(b, o)' = Closing(b, o)
    <3>1. counts'[To[b]] = counts[To[b]]
      BY <2>3, <2>5, SpanFacts
    <3>2. CountOf(To[b])' = CountOf(To[b])
      BY <3>1 DEF CountOf
    <3>3. Inflow(b)' = Inflow(b)
      BY <1>3 DEF Inflow
    <3> QED
      BY <3>2, <3>3 DEF Closing
  <2>6. ASSUME NEW b \in Batches, Completed(b), ~thread[w].stale
        PROVE  Span(b) \cap {d} = {}
    <3>1. b \in locks
      BY <2>6 DEF ReconInv, ReconTypes, Completed
    <3> QED
      BY <2>2, <2>6, <3>1 DEF Locked
  <2> QED
    BY <1>3, <2>1, <2>4, <2>5, <2>6, FactStep
<1> QED
  BY <1>5, <1>6

-----------------------------------------------------------------------------
(* Openings.                                                                *)

LEMMA SeqOfOwn ==
  ASSUME NEW S, NEW s \in Seq(S)
  PROVE  s \in Seq({s[i] : i \in 1 .. Len(s)})
<1>1. Len(s) \in Nat /\ s \in [1 .. Len(s) -> S]
  BY LenProperties
<1> DEFINE T == {s[i] : i \in 1 .. Len(s)}
<1>2. s \in [1 .. Len(s) -> T]
  BY <1>1
<1> HIDE DEF T
<1>3. s \in Seq(T)
  BY <1>1, <1>2, SeqDef
<1> QED
  BY <1>3 DEF T

LEMMA AppendOwn ==
  ASSUME NEW s, NEW e, NEW t, t = Append(s, e), s \in Seq({s[i] : i \in 1 .. Len(s)})
  PROVE  /\ t \in Seq({t[i] : i \in 1 .. Len(t)})
         /\ Len(s) \in Nat /\ Len(t) = Len(s) + 1
         /\ t[Len(t)] = e
         /\ \A i \in 1 .. Len(s) : t[i] = s[i]
<1> DEFINE S == {s[i] : i \in 1 .. Len(s)}
           T == S \union {e}
<1>1. s \in Seq(T) /\ e \in T
  <2>1. s \in Seq(S) /\ S \subseteq T
    OBVIOUS
  <2> HIDE DEF S
  <2> QED
    BY <2>1, SeqMonotonic
<1> HIDE DEF T
<1>2. t \in Seq(T) /\ Len(s) \in Nat /\ Len(t) = Len(s) + 1 /\ t[Len(t)] = e /\ \A i \in 1 .. Len(s) : t[i] = s[i]
  BY <1>1, AppendProperties
<1>3. t \in Seq({t[i] : i \in 1 .. Len(t)})
  BY <1>2, SeqOfOwn
<1> QED
  BY <1>2, <1>3

(* Rows are appended, and keep all but their mark of being void.            *)
RowsKept ==
  \A a \in Accounts : \A i \in Rows(a) :
    /\ i \in Rows(a)'
    /\ openings'[a][i].day = openings[a][i].day
    /\ openings'[a][i].source = openings[a][i].source
    /\ openings'[a][i].amount = openings[a][i].amount

LEMMA CarriesOnKept ==
  ASSUME RowsKept, NEW b \in Batches, NEW f, CarriesOn(b, f)
  PROVE  CarriesOn(b, f)'
BY DEF RowsKept, CarriesOn

LEMMA OpeningStep ==
  ASSUME ReconInv, NEW w \in Threads, NEW days, Done(w, days), days \subseteq Days,
         UNCHANGED <<facts, batchRows>>, writes' \in 0 .. MaxWrites,
         OpeningsShaped', RowsKept, RowsKnown'
  PROVE  ReconInv'
<1> USE DEF facts, batchRows
<1>1. raced \subseteq raced' /\ raced' \subseteq Days
  BY DEF Done, ReconInv, ReconTypes
<1>2. \A b, o : Closing(b, o)' = Closing(b, o)
  BY DEF Closing, CountOf, Inflow
<1>3. BatchesGoOn(w)
  BY DEF BatchesGoOn
<1>4. Within(days)
  BY <1>2 DEF Within
<1>5. ReconTypes'
  BY <1>1 DEF ReconInv, ReconTypes
<1>6. OneLockADay'
  BY <1>1 DEF ReconInv, OneLockADay
<1>7. \A b \in Batches : Completed(b)' <=> Completed(b)
  BY DEF Completed
<1>8. BooksStayTrue'
  BY <1>1, <1>2, <1>7, CarriesOnKept, BooksKept DEF ReconInv
<1>9. BooksShaped'
  BY DEF ReconInv, BooksShaped, batchRows
<1> QED
  BY <1>9, <1>3, <1>4, <1>5, <1>6, <1>8, RequestCommits

(* Rows may be added, a carry only to the day after a completed batch.      *)
LEMMA RowsAppended ==
  ASSUME OpeningsShaped, RowsKnown, NEW A \in SUBSET Accounts, NEW e,
         \A a \in A : /\ {"day", "source", "amount", "void"} \subseteq DOMAIN e[a]
                      /\ e[a].day \in Days
                      /\ e[a].source = "carry" => \E c \in Batches : Completed(c)' /\ e[a].day = To[c] + 1,
         \A c \in Batches : Completed(c) => Completed(c)',
         openings' = [a \in Accounts |-> IF a \in A THEN Append(openings[a], e[a]) ELSE openings[a]]
  PROVE  /\ OpeningsShaped' /\ RowsKept /\ RowsKnown'
         /\ \A a \in A : Len(openings'[a]) \in Rows(a)' /\ openings'[a][Len(openings'[a])] = e[a]
<1>1. ASSUME NEW a \in A
      PROVE  /\ openings'[a] \in Seq({openings'[a][i] : i \in Rows(a)'})
             /\ Len(openings[a]) \in Nat /\ Len(openings'[a]) = Len(openings[a]) + 1
             /\ openings'[a][Len(openings'[a])] = e[a]
             /\ \A i \in Rows(a) : openings'[a][i] = openings[a][i]
  <2>1. openings[a] \in Seq({openings[a][i] : i \in 1 .. Len(openings[a])})
    BY DEF OpeningsShaped, Rows
  <2>2. openings'[a] = Append(openings[a], e[a])
    OBVIOUS
  <2> DEFINE s == openings[a]
             t == openings'[a]
             x == e[a]
  <2> HIDE DEF s, t, x
  <2>3. s \in Seq({s[i] : i \in 1 .. Len(s)}) /\ t = Append(s, x)
    BY <2>1, <2>2 DEF s, t, x
  <2>4. /\ t \in Seq({t[i] : i \in 1 .. Len(t)})
        /\ Len(s) \in Nat /\ Len(t) = Len(s) + 1 /\ t[Len(t)] = x
        /\ \A i \in 1 .. Len(s) : t[i] = s[i]
    BY <2>3, AppendOwn
  <2> QED
    BY <2>4 DEF s, t, x, Rows
<1>2. ASSUME NEW a \in Accounts, a \notin A
      PROVE  openings'[a] = openings[a]
  BY <1>2
<1>3. ASSUME NEW a \in Accounts, NEW i \in Rows(a)'
      PROVE  \/ i \in Rows(a) /\ openings'[a][i] = openings[a][i]
             \/ a \in A /\ i = Len(openings'[a]) /\ openings'[a][i] = e[a]
  <2>1. CASE a \in A
    BY <1>1, <2>1 DEF Rows
  <2>2. CASE a \notin A
    BY <1>2, <2>2 DEF Rows
  <2> QED
    BY <2>1, <2>2
<1>4. OpeningsShaped'
  <2>1. openings' = [a \in Accounts |-> openings'[a]]
    OBVIOUS
  <2>2. ASSUME NEW a \in Accounts
        PROVE  openings'[a] \in Seq({openings'[a][i] : i \in Rows(a)'})
    <3>1. CASE a \in A
      BY <1>1, <3>1
    <3>2. CASE a \notin A
      BY <1>2, <3>2 DEF OpeningsShaped, Rows
    <3> QED
      BY <3>1, <3>2
  <2>3. ASSUME NEW a \in Accounts, NEW i \in Rows(a)'
        PROVE  {"day", "source", "amount", "void"} \subseteq DOMAIN openings'[a][i]
    BY <1>3 DEF OpeningsShaped
  <2> QED
    BY <2>1, <2>2, <2>3 DEF OpeningsShaped
<1>5. RowsKept
  <2> SUFFICES ASSUME NEW a \in Accounts, NEW i \in Rows(a)
               PROVE  i \in Rows(a)' /\ openings'[a][i] = openings[a][i]
    BY DEF RowsKept
  <2>1. CASE a \in A
    BY <1>1, <2>1 DEF Rows
  <2>2. CASE a \notin A
    BY <1>2, <2>2 DEF Rows
  <2> QED
    BY <2>1, <2>2
<1>6. RowsKnown'
  <2> SUFFICES ASSUME NEW a \in Accounts, NEW i \in Rows(a)'
               PROVE  /\ openings'[a][i].day \in Days
                      /\ openings'[a][i].source = "carry" =>
                           \E c \in Batches : Completed(c)' /\ openings'[a][i].day = To[c] + 1
    BY DEF RowsKnown
  <2>1. CASE i \in Rows(a) /\ openings'[a][i] = openings[a][i]
    BY <2>1 DEF RowsKnown
  <2>2. CASE a \in A /\ openings'[a][i] = e[a]
    BY <2>2
  <2> QED
    BY <1>3, <2>1, <2>2
<1>7. \A a \in A : Len(openings'[a]) \in Rows(a)'
  BY <1>1 DEF Rows
<1> QED
  BY <1>1, <1>4, <1>5, <1>6, <1>7

LEMMA CreateOpeningsStep ==
  ASSUME ReconInv, NEW w \in Threads, CreateOpenings(w)
  PROVE  ReconInv'
<1>1. PICK d \in thread[w].days, x \in Amounts :
        IF \E a \in Accounts : HasKey(a, d, SourceOf(a, d))
        THEN GoAway(w) /\ UNCHANGED openings
        ELSE /\ openings' = [a \in Accounts |-> Append(openings[a],
                  [day |-> d, source |-> SourceOf(a, d), amount |-> x, void |-> FALSE])]
             /\ Done(w, d .. FinalDay)
  BY DEF CreateOpenings
<1>2. UNCHANGED <<facts, batchRows>> /\ writes' \in 0 .. MaxWrites
  BY ReconAssumption DEF ReconAssumption, ReconInv, ReconTypes, CreateOpenings, Counted
<1>3. d \in Days /\ d .. FinalDay \subseteq Days
  BY ReconAssumption DEF ReconAssumption, ReconInv, RequestsShaped, Shaped, Days
<1>4. CASE \E a \in Accounts : HasKey(a, d, SourceOf(a, d))
  <2>1. GoAway(w) /\ UNCHANGED openings
    BY <1>1, <1>4
  <2> QED
    BY <1>2, <2>1, GoAwayStep
<1>5. CASE ~\E a \in Accounts : HasKey(a, d, SourceOf(a, d))
  <2> DEFINE e == [a \in Accounts |-> [day |-> d, source |-> SourceOf(a, d), amount |-> x, void |-> FALSE]]
  <2>1. /\ Done(w, d .. FinalDay)
        /\ openings' = [a \in Accounts |-> IF a \in Accounts THEN Append(openings[a], e[a]) ELSE openings[a]]
    BY <1>1, <1>5
  <2>2. \A a \in Accounts : /\ {"day", "source", "amount", "void"} \subseteq DOMAIN e[a]
                            /\ e[a].day \in Days /\ e[a].source # "carry"
    BY <1>3 DEF SourceOf
  <2>3. \A c \in Batches : Completed(c) => Completed(c)'
    BY <1>2 DEF Completed, batchRows
  <2> HIDE DEF e
  <2>4. OpeningsShaped' /\ RowsKept /\ RowsKnown'
    BY <2>1, <2>2, <2>3, RowsAppended DEF ReconInv
  <2> QED
    BY <1>2, <1>3, <2>1, <2>4, OpeningStep
<1> QED
  BY <1>4, <1>5

LEMMA VoidOpeningStep ==
  ASSUME ReconInv, NEW w \in Threads, NEW a \in Accounts, NEW i \in Rows(a), VoidOpening(w, a, i)
  PROVE  ReconInv'
<1> DEFINE row == openings[a][i]
           gone == [row EXCEPT !.void = TRUE]
           days == row.day .. FinalDay
<1>1. UNCHANGED <<facts, batchRows>> /\ writes' \in 0 .. MaxWrites /\ Done(w, days)
  BY ReconAssumption DEF ReconAssumption, ReconInv, ReconTypes, VoidOpening, Counted
<1>2. days \subseteq Days
  BY ReconAssumption DEF ReconAssumption, ReconInv, RowsKnown, Days
<1>3. openings' = [openings EXCEPT ![a] = [openings[a] EXCEPT ![i] = gone]]
  BY DEF VoidOpening
<1>4. DOMAIN gone = DOMAIN row /\ gone.day = row.day /\ gone.source = row.source /\ gone.amount = row.amount
  BY DEF ReconInv, OpeningsShaped
<1> HIDE DEF gone
<1>5. \A c \in Accounts : c # a => openings'[c] = openings[c]
  BY <1>3 DEF ReconInv, OpeningsShaped
<1>6. openings'[a] = [openings[a] EXCEPT ![i] = gone]
  BY <1>3 DEF ReconInv, OpeningsShaped
<1> DEFINE S == {openings[a][j] : j \in Rows(a)}
           T == S \union {gone}
<1>7. openings[a] \in Seq(T) /\ gone \in T /\ i \in 1 .. Len(openings[a])
  <2>1. openings[a] \in Seq(S) /\ S \subseteq T /\ i \in 1 .. Len(openings[a])
    BY DEF ReconInv, OpeningsShaped, Rows
  <2> HIDE DEF S
  <2> QED
    BY <2>1, SeqMonotonic
<1> HIDE DEF T
<1>8. /\ openings'[a] \in Seq(T) /\ Len(openings'[a]) = Len(openings[a])
      /\ \A j \in 1 .. Len(openings[a]) : openings'[a][j] = IF j = i THEN gone ELSE openings[a][j]
  BY <1>6, <1>7, ExceptSeq
<1>9. openings'[a] \in Seq({openings'[a][j] : j \in Rows(a)'})
  BY <1>8, SeqOfOwn DEF Rows
<1>10. \A c \in Accounts : Rows(c)' = Rows(c)
  BY <1>5, <1>8 DEF Rows
<1>11. ASSUME NEW c \in Accounts, NEW j \in Rows(c)
       PROVE  \/ openings'[c][j] = openings[c][j]
              \/ c = a /\ j = i /\ openings'[c][j] = gone
  BY <1>5, <1>8 DEF Rows
<1>12. ASSUME NEW c \in Accounts, NEW j \in Rows(c)
       PROVE  /\ openings'[c][j].day = openings[c][j].day
              /\ openings'[c][j].source = openings[c][j].source
              /\ openings'[c][j].amount = openings[c][j].amount
              /\ DOMAIN openings'[c][j] = DOMAIN openings[c][j]
  BY <1>4, <1>11
<1>13. OpeningsShaped'
  <2>1. openings' = [c \in Accounts |-> openings'[c]]
    BY <1>3 DEF ReconInv, OpeningsShaped
  <2>2. \A c \in Accounts : openings'[c] \in Seq({openings'[c][j] : j \in Rows(c)'})
    BY <1>5, <1>9, <1>10 DEF ReconInv, OpeningsShaped
  <2>3. \A c \in Accounts : \A j \in Rows(c)' : {"day", "source", "amount", "void"} \subseteq DOMAIN openings'[c][j]
    BY <1>10, <1>12 DEF ReconInv, OpeningsShaped
  <2> QED
    BY <2>1, <2>2, <2>3 DEF OpeningsShaped
<1>14. RowsKept
  BY <1>10, <1>12 DEF RowsKept
<1>15. RowsKnown'
  BY <1>1, <1>10, <1>12 DEF ReconInv, RowsKnown, Completed, batchRows
<1> QED
  BY <1>1, <1>2, <1>13, <1>14, <1>15, OpeningStep

-----------------------------------------------------------------------------
(* Batches.  Those that touch neither the facts nor the openings:           *)

LEMMA BatchStep ==
  ASSUME ReconInv, NEW w \in Threads, NEW days, Done(w, days), days \subseteq Days,
         UNCHANGED <<facts, openings, books>>, BatchesGoOn(w), Within(days), OneLockADay',
         ReconTypes',
         \A b \in Batches : Completed(b)' <=> Completed(b)
  PROVE  ReconInv'
<1>1. raced \subseteq raced'
  BY DEF Done
<1>2. \A b, o : Closing(b, o)' = Closing(b, o)
  BY DEF facts, Closing, CountOf, Inflow
<1>3. /\ OpeningsShaped' /\ RowsKnown'
      /\ \A b \in Batches : \A f : CarriesOn(b, f) => CarriesOn(b, f)'
  BY OpeningsSame
<1>4. BooksStayTrue'
  BY <1>1, <1>2, <1>3, BooksKept DEF ReconInv
<1>5. BooksShaped'
  BY DEF ReconInv, BooksShaped
<1> QED
  BY <1>5, <1>1, <1>3, <1>4, RequestCommits

(* The differences a request writes lie in the days of its batch.           *)
LEMMA ApplyBatchStep ==
  ASSUME ReconInv, NEW w \in Threads, ApplyBatch(w)
  PROVE  ReconInv'
<1> DEFINE r == thread[w]
           c == r.batch
           new == [d \in Days |-> IF d \in r.keys THEN StatusOf(r, d) ELSE "none"]
<1>1. r.op = "apply" /\ c \in Batches /\ r.days = Span(c) /\ r.keys \subseteq Span(c)
  BY DEF ReconInv, RequestsShaped, Shaped, ApplyBatch, Asked, BatchOps, RecomputeOps
<1>2. /\ status' = [status EXCEPT ![c] = "draft"] /\ diffs' = [diffs EXCEPT ![c] = new]
      /\ Done(w, Span(c))
      /\ UNCHANGED <<facts, openings, cashFlow, locks, books, dropped, writes>>
  BY <1>1 DEF ApplyBatch
<1>3. status[c] = "none" /\ c \notin locks
  BY <1>1 DEF ReconInv, RequestsStand, Stands, ReconTypes, RecomputeOps
<1>4. new \in [Days -> {"none", "open", "handled"}] /\ \A d \in Days : new[d] # "none" => d \in Span(c)
  BY <1>1 DEF StatusOf
<1>5. \A u \in Threads : u # w /\ Asked(u, "apply") => thread[u].batch # c
  BY <1>1 DEF ReconInv, AppliesOnce, Asked
<1> HIDE DEF new, r
<1>6. \A b \in Batches : b # c => status'[b] = status[b] /\ diffs'[b] = diffs[b]
  BY <1>1, <1>2 DEF ReconInv, ReconTypes
<1>7. status'[c] = "draft" /\ diffs'[c] = new
  BY <1>1, <1>2 DEF ReconInv, ReconTypes
<1>8. BatchesGoOn(w)
  <2>1. \A u \in Threads : Asked(u, "apply") => thread[u].batch \in Batches
    BY DEF ReconInv, RequestsShaped, Shaped, Asked, BatchOps, RecomputeOps
  <2> QED
    BY <1>2, <1>5, <1>6, <1>7, <2>1 DEF BatchesGoOn
<1>9. Within(Span(c))
  <2>1. \A b, o : Closing(b, o)' = Closing(b, o)
    BY <1>2 DEF facts, Closing, CountOf, Inflow
  <2>2. \A b \in Batches, d \in Days \ Span(c) : diffs'[b][d] = "handled" => diffs[b][d] = "handled"
    BY <1>4, <1>6, <1>7
  <2> QED
    BY <1>2, <1>6, <2>1, <2>2 DEF Within
<1>10. OneLockADay'
  <2>1. raced \subseteq raced'
    BY <1>2 DEF Done
  <2> QED
    BY <1>2, <2>1 DEF ReconInv, OneLockADay
<1>11. \A b \in Batches : Completed(b)' <=> Completed(b)
  BY <1>3, <1>6, <1>7 DEF Completed
<1>12. ReconTypes'
  <2>1. status' \in [Batches -> {"none", "draft", "auditing", "completed"}]
    BY <1>1, <1>2 DEF ReconInv, ReconTypes
  <2>2. diffs' \in [Batches -> [Days -> {"none", "open", "handled"}]]
    BY <1>1, <1>2, <1>4 DEF ReconInv, ReconTypes
  <2>3. \A b \in Batches : b \in locks' <=> status'[b] \in {"auditing", "completed"}
    BY <1>2, <1>3, <1>6, <1>7 DEF ReconInv, ReconTypes
  <2>4. \A b \in Batches, d \in Days : diffs'[b][d] # "none" => status'[b] # "none" /\ d \in Span(b)
    BY <1>4, <1>6, <1>7 DEF ReconInv, ReconTypes
  <2>7. raced' \subseteq Days
    BY <1>1, <1>2, SpanFacts, RacedTyped
  <2> QED
    BY <2>7, <1>2, <2>1, <2>2, <2>3, <2>4 DEF ReconInv, ReconTypes, facts
<1>13. Span(c) \subseteq Days
  BY <1>1, SpanFacts
<1> QED
  BY <1>2, <1>8, <1>9, <1>10, <1>11, <1>12, <1>13, BatchStep

LEMMA RecomputeBatchStep ==
  ASSUME ReconInv, NEW w \in Threads, RecomputeBatch(w)
  PROVE  ReconInv'
<1> DEFINE r == thread[w]
           c == r.batch
           new == Upsert(r)
<1>1. /\ r.op = "drop" /\ c \in Batches /\ r.days = Span(c) /\ r.keys \subseteq Span(c)
      /\ r.takings \in [Days -> Nat]
  BY DEF ReconInv, RequestsShaped, Shaped, RecomputeBatch, Asked, BatchOps, RecomputeOps
<1>2. /\ diffs' = [diffs EXCEPT ![c] = new]
      /\ cashFlow' = [cashFlow EXCEPT ![c] = Pinned(c, r.takings)] \/ cashFlow' = cashFlow
      /\ Done(w, Span(c))
      /\ UNCHANGED <<facts, openings, status, locks, books, writes>>
  BY <1>1 DEF RecomputeBatch
<1>3. status[c] # "none"
  BY <1>1 DEF ReconInv, RequestsStand, Stands, RecomputeOps
<1>4. new \in [Days -> {"none", "open", "handled"}] /\ \A d \in Days : new[d] # "none" => d \in Span(c)
  <2>1. /\ diffs[c] \in [Days -> {"none", "open", "handled"}]
        /\ \A d \in Days : diffs[c][d] # "none" => d \in Span(c)
    BY <1>1 DEF ReconInv, ReconTypes
  <2> QED
    BY <1>1, <2>1 DEF Upsert, StatusOf
<1>5. Pinned(c, r.takings) \in [Days -> Nat]
  BY <1>1 DEF Pinned
<1> HIDE DEF new, r
<1>6. \A b \in Batches : b # c => diffs'[b] = diffs[b]
  BY <1>1, <1>2 DEF ReconInv, ReconTypes
<1>7. diffs'[c] = new
  BY <1>1, <1>2 DEF ReconInv, ReconTypes
<1>8. BatchesGoOn(w)
  BY <1>2 DEF BatchesGoOn
<1>9. Within(Span(c))
  <2>1. \A b, o : Closing(b, o)' = Closing(b, o)
    BY <1>2 DEF facts, Closing, CountOf, Inflow
  <2>2. \A b \in Batches, d \in Days \ Span(c) : diffs'[b][d] = "handled" => diffs[b][d] = "handled"
    BY <1>4, <1>6, <1>7
  <2> QED
    BY <1>2, <2>1, <2>2 DEF Within
<1>10. OneLockADay'
  <2>1. raced \subseteq raced'
    BY <1>2 DEF Done
  <2> QED
    BY <1>2, <2>1 DEF ReconInv, OneLockADay
<1>11. \A b \in Batches : Completed(b)' <=> Completed(b)
  BY <1>2 DEF Completed
<1>12. ReconTypes'
  <2>1. cashFlow' \in [Batches -> [Days -> Nat]]
    BY <1>1, <1>2, <1>5 DEF ReconInv, ReconTypes
  <2>2. diffs' \in [Batches -> [Days -> {"none", "open", "handled"}]]
    BY <1>1, <1>2, <1>4 DEF ReconInv, ReconTypes
  <2>3. \A b \in Batches, d \in Days : diffs'[b][d] # "none" => status'[b] # "none" /\ d \in Span(b)
    BY <1>2, <1>3, <1>4, <1>6, <1>7 DEF ReconInv, ReconTypes
  <2>7. raced' \subseteq Days
    BY <1>1, <1>2, SpanFacts, RacedTyped
  <2> QED
    BY <2>7, <1>2, <2>1, <2>2, <2>3 DEF ReconInv, ReconTypes, facts
<1>13. Span(c) \subseteq Days
  BY <1>1, SpanFacts
<1> QED
  BY <1>2, <1>8, <1>9, <1>10, <1>11, <1>12, <1>13, BatchStep

LEMMA ActDiffStep ==
  ASSUME ReconInv, NEW w \in Threads, NEW c \in Batches, NEW e \in Days, ActDiff(w, c, e)
  PROVE  ReconInv'
<1>1. /\ diffs[c][e] = "open" /\ diffs' = [diffs EXCEPT ![c] = [diffs[c] EXCEPT ![e] = "handled"]]
      /\ Done(w, {e})
      /\ UNCHANGED <<facts, openings, status, cashFlow, locks, books, dropped>>
  BY DEF ActDiff
<1>2. writes' \in 0 .. MaxWrites
  BY ReconAssumption DEF ReconAssumption, ReconInv, ReconTypes, ActDiff, Counted
<1>3. \A b \in Batches, d \in Days : diffs'[b][d] = IF b = c /\ d = e THEN "handled" ELSE diffs[b][d]
  BY <1>1 DEF ReconInv, ReconTypes
<1>4. BatchesGoOn(w)
  BY <1>1 DEF BatchesGoOn
<1>5. Within({e})
  <2>1. \A b, o : Closing(b, o)' = Closing(b, o)
    BY <1>1 DEF facts, Closing, CountOf, Inflow
  <2> QED
    BY <1>1, <1>3, <2>1 DEF Within
<1>6. OneLockADay'
  <2>1. raced \subseteq raced'
    BY <1>1 DEF Done
  <2> QED
    BY <1>1, <2>1 DEF ReconInv, OneLockADay
<1>7. \A b \in Batches : Completed(b)' <=> Completed(b)
  BY <1>1 DEF Completed
<1>8. ReconTypes'
  <2>1. diffs' \in [Batches -> [Days -> {"none", "open", "handled"}]]
    BY <1>1 DEF ReconInv, ReconTypes
  <2>2. \A b \in Batches, d \in Days : diffs'[b][d] # "none" => status'[b] # "none" /\ d \in Span(b)
    BY <1>1, <1>3 DEF ReconInv, ReconTypes
  <2>7. raced' \subseteq Days
    BY <1>1, RacedTyped
  <2> QED
    BY <2>7, <1>1, <1>2, <2>1, <2>2 DEF ReconInv, ReconTypes, facts
<1>9. {e} \subseteq Days
  OBVIOUS
<1> QED
  BY <1>1, <1>4, <1>5, <1>6, <1>7, <1>8, <1>9, BatchStep

(* A request that is not stale finds no other lock on its days.             *)
LEMMA FreezeBatchStep ==
  ASSUME ReconInv, NEW w \in Threads, FreezeBatch(w)
  PROVE  ReconInv'
<1> DEFINE r == thread[w]
           c == r.batch
<1>1. r.op = "lock" /\ c \in Batches /\ r.days = Span(c) /\ r.takings \in [Days -> Nat]
  BY DEF ReconInv, RequestsShaped, Shaped, FreezeBatch, Asked, BatchOps, RecomputeOps
<1>2. /\ cashFlow' = [cashFlow EXCEPT ![c] = Pinned(c, r.takings)] \/ cashFlow' = cashFlow
      /\ locks' = locks \union {c}
      /\ status' = IF status[c] = "draft" THEN [status EXCEPT ![c] = "auditing"] ELSE status
      /\ Done(w, Span(c))
      /\ UNCHANGED <<facts, openings, diffs, books, dropped, writes>>
  BY DEF FreezeBatch
<1>3. status[c] # "none" /\ (~r.stale => ~Locked(Span(c)))
  BY <1>1 DEF ReconInv, RequestsStand, Stands, ReadsHold, UpToDate, RecomputeOps
<1>4. Pinned(c, r.takings) \in [Days -> Nat]
  BY <1>1 DEF Pinned
<1>5. raced \subseteq raced' /\ (r.stale => Span(c) \subseteq raced')
  BY <1>2, RacedGrows DEF ReconInv
<1> HIDE DEF r
<1>6. \A b \in Batches : b # c => status'[b] = status[b]
  BY <1>1, <1>2 DEF ReconInv, ReconTypes
<1>7. /\ status[c] = "draft" => status'[c] = "auditing"
      /\ status[c] # "draft" => status'[c] = status[c]
  BY <1>1, <1>2 DEF ReconInv, ReconTypes
<1>8. status[c] \in {"draft", "auditing", "completed"}
  BY <1>1, <1>3 DEF ReconInv, ReconTypes
<1>9. BatchesGoOn(w)
  <2>1. \A u \in Threads : Asked(u, "apply") => thread[u].batch \in Batches /\ status[thread[u].batch] = "none"
    BY DEF ReconInv, RequestsShaped, Shaped, RequestsStand, Stands, Asked, BatchOps, RecomputeOps
  <2> QED
    BY <1>2, <1>3, <1>6, <1>7, <1>8, <2>1 DEF BatchesGoOn
<1>10. Within(Span(c))
  <2>1. \A b, o : Closing(b, o)' = Closing(b, o)
    BY <1>2 DEF facts, Closing, CountOf, Inflow
  <2> QED
    BY <1>2, <1>6, <2>1 DEF Within
<1>11. OneLockADay'
  <2> SUFFICES ASSUME NEW a \in locks', NEW b \in locks', a # b, Overlap(a, b)
               PROVE  Span(a) \subseteq raced' \/ Span(b) \subseteq raced'
    BY DEF OneLockADay
  <2>1. CASE a \in locks /\ b \in locks
    BY <1>5, <2>1 DEF ReconInv, OneLockADay
  <2>2. CASE a = c \/ b = c
    <3>1. CASE r.stale
      BY <1>5, <2>2, <3>1
    <3>2. CASE ~r.stale
      <4>1. a \in locks \/ b \in locks
        BY <1>2
      <4>2. \E l \in locks : Span(l) \cap Span(c) # {}
        BY <1>2, <2>2, <4>1 DEF Overlap
      <4> QED
        BY <1>3, <3>2, <4>2 DEF Locked
    <3> QED
      BY <3>1, <3>2
  <2> QED
    BY <1>2, <2>1, <2>2
<1>12. \A b \in Batches : Completed(b)' <=> Completed(b)
  BY <1>6, <1>7 DEF Completed
<1>13. ReconTypes'
  <2>1. cashFlow' \in [Batches -> [Days -> Nat]]
    BY <1>1, <1>2, <1>4 DEF ReconInv, ReconTypes
  <2>2. status' \in [Batches -> {"none", "draft", "auditing", "completed"}]
    BY <1>1, <1>2 DEF ReconInv, ReconTypes
  <2>3. locks' \subseteq Batches
    BY <1>1, <1>2 DEF ReconInv, ReconTypes
  <2>4. \A b \in Batches : b \in locks' <=> status'[b] \in {"auditing", "completed"}
    BY <1>2, <1>6, <1>7, <1>8 DEF ReconInv, ReconTypes
  <2>5. \A b \in Batches, d \in Days : diffs'[b][d] # "none" => status'[b] # "none" /\ d \in Span(b)
    BY <1>2, <1>6, <1>7, <1>8 DEF ReconInv, ReconTypes
  <2>7. raced' \subseteq Days
    BY <1>1, <1>2, SpanFacts, RacedTyped
  <2> QED
    BY <2>7, <1>2, <2>1, <2>2, <2>3, <2>4, <2>5 DEF ReconInv, ReconTypes, facts
<1>14. Span(c) \subseteq Days
  BY <1>1, SpanFacts
<1> QED
  BY <1>2, <1>9, <1>10, <1>11, <1>12, <1>13, <1>14, BatchStep

(* The closing is what was read, unless the request is stale, and the row   *)
(* that carries it on is new: another completed batch with the same last    *)
(* day would share a day with this one.                                     *)
LEMMA CompleteBatchStep ==
  ASSUME ReconInv, NEW w \in Threads, CompleteBatch(w)
  PROVE  ReconInv'
<1>0. PICK r, c, f : r = thread[w] /\ c = r.batch /\ f = r.figures
  OBVIOUS
<1> DEFINE days == From[c] .. FinalDay
           A == {a \in Accounts : ~HasKey(a, To[c] + 1, "carry")}
           e == [a \in Accounts |-> [day |-> To[c] + 1, source |-> "carry", amount |-> f.closing[a], void |-> FALSE]]
<1>1. r.op = "complete" /\ c \in Batches /\ c \in locks
  BY <1>0 DEF ReconInv, RequestsShaped, Shaped, RequestsStand, Stands, CompleteBatch, Asked, BatchOps, RecomputeOps
<1>2. /\ books' = [books EXCEPT ![From[c]] = {f}]
      /\ status' = [status EXCEPT ![c] = "completed"]
      /\ Done(w, days)
      /\ UNCHANGED <<facts, cashFlow, diffs, locks, dropped, writes>>
  BY <1>0 DEF CompleteBatch
<1>3. openings' = [a \in Accounts |-> IF a \in A THEN Append(openings[a], e[a]) ELSE openings[a]]
  BY <1>0 DEF CompleteBatch, Carry
<1>4. ~r.stale => status[c] = "auditing" /\ f.batch = c /\ f.closing = Closing(c, f.opening)
  BY <1>0, <1>1 DEF ReconInv, ReadsHold, UpToDate, RecomputeOps
<1>5. raced \subseteq raced' /\ (r.stale => days \subseteq raced')
  BY <1>0, <1>2, RacedGrows DEF ReconInv
<1>6. days \subseteq Days /\ Span(c) \subseteq days /\ From[c] \in Span(c) /\ To[c] \in Span(c) /\ To[c] + 1 \in Days
  BY <1>1, SpanFacts
<1>7. A \subseteq Accounts /\ \A a \in A : e[a] = [day |-> To[c] + 1, source |-> "carry", amount |-> f.closing[a], void |-> FALSE]
  OBVIOUS
<1>8. \A a \in Accounts : a \notin A => HasKey(a, To[c] + 1, "carry")
  OBVIOUS
<1> HIDE DEF days, A, e
<1>9. status'[c] = "completed" /\ \A b \in Batches : b # c => status'[b] = status[b]
  BY <1>1, <1>2 DEF ReconInv, ReconTypes
<1>10. status[c] \in {"auditing", "completed"}
  BY <1>1 DEF ReconInv, ReconTypes
<1>11. \A b \in Batches : Completed(b) => Completed(b)'
  BY <1>9 DEF Completed
<1>12. \A a \in A : /\ {"day", "source", "amount", "void"} \subseteq DOMAIN e[a]
                    /\ e[a].day = To[c] + 1 /\ e[a].source = "carry" /\ e[a].amount = f.closing[a]
  <2> SUFFICES ASSUME NEW a \in A
               PROVE  /\ {"day", "source", "amount", "void"} \subseteq DOMAIN e[a]
                      /\ e[a].day = To[c] + 1 /\ e[a].source = "carry" /\ e[a].amount = f.closing[a]
    OBVIOUS
  <2>1. PICK d, x : d = To[c] + 1 /\ x = f.closing[a]
    OBVIOUS
  <2>2. e[a] = [day |-> d, source |-> "carry", amount |-> x, void |-> FALSE]
    BY <1>7, <2>1
  <2> QED
    BY <2>1, <2>2
<1>13. /\ OpeningsShaped' /\ RowsKept /\ RowsKnown'
       /\ \A a \in A : Len(openings'[a]) \in Rows(a)' /\ openings'[a][Len(openings'[a])] = e[a]
  <2>1. Completed(c)'
    BY <1>9 DEF Completed
  <2>2. \A a \in A : /\ {"day", "source", "amount", "void"} \subseteq DOMAIN e[a]
                     /\ e[a].day \in Days
                     /\ e[a].source = "carry" => \E b \in Batches : Completed(b)' /\ e[a].day = To[b] + 1
    BY <1>1, <1>6, <1>12, <2>1
  <2>3. OpeningsShaped /\ RowsKnown
    BY DEF ReconInv
  <2> QED
    BY <1>3, <1>7, <1>11, <2>2, <2>3, RowsAppended
<1>14. BatchesGoOn(w)
  <2>1. \A u \in Threads : Asked(u, "apply") => thread[u].batch \in Batches /\ status[thread[u].batch] = "none"
    BY DEF ReconInv, RequestsShaped, Shaped, RequestsStand, Stands, Asked, BatchOps, RecomputeOps
  <2> QED
    BY <1>2, <1>9, <1>10, <2>1 DEF BatchesGoOn
<1>15. \A b, o : Closing(b, o)' = Closing(b, o)
  BY <1>2 DEF facts, Closing, CountOf, Inflow
<1>16. Within(days)
  BY <1>2, <1>6, <1>9, <1>15 DEF Within
<1>17. OneLockADay'
  BY <1>2, <1>5 DEF ReconInv, OneLockADay
<1>18. ReconTypes'
  <2>1. status' \in [Batches -> {"none", "draft", "auditing", "completed"}]
    BY <1>2 DEF ReconInv, ReconTypes
  <2>2. raced' \subseteq Days
    BY <1>2, <1>6, RacedTyped
  <2>3. \A b \in Batches : b \in locks' <=> status'[b] \in {"auditing", "completed"}
    BY <1>1, <1>2, <1>9 DEF ReconInv, ReconTypes
  <2>4. \A b \in Batches, d \in Days : diffs'[b][d] # "none" => status'[b] # "none" /\ d \in Span(b)
    BY <1>2, <1>9 DEF ReconInv, ReconTypes
  <2> QED
    BY <1>2, <2>1, <2>2, <2>3, <2>4 DEF ReconInv, ReconTypes, facts
<1>19. ASSUME NEW b \in Batches, b # c, b \in locks, Clean(b) \/ Clean(c)
       PROVE  ~Overlap(b, c)
  BY <1>1, <1>19 DEF ReconInv, OneLockADay, Clean, Overlap
<1>20. BooksStayTrue'
  <2> SUFFICES ASSUME NEW b \in Batches, Completed(b)', Clean(b)'
               PROVE  \E g \in books'[From[b]] :
                        g.batch = b /\ g.closing = Closing(b, g.opening)' /\ CarriesOn(b, g)'
    BY DEF BooksStayTrue
  <2>1. Clean(b)
    BY <1>5 DEF Clean
  <2>2. CASE b = c
    <3>1. ~r.stale
      BY <1>5, <1>6, <2>2 DEF Clean
    <3>2. ASSUME NEW a \in Accounts
          PROVE  a \in A
      <4> SUFFICES ASSUME HasKey(a, To[c] + 1, "carry")
                   PROVE  FALSE
        BY <1>8
      <4>1. PICK i \in Rows(a) : openings[a][i].day = To[c] + 1 /\ openings[a][i].source = "carry"
        BY DEF HasKey
      <4>2. PICK g \in Batches : Completed(g) /\ To[c] + 1 = To[g] + 1
        BY <4>1 DEF ReconInv, RowsKnown
      <4>3. g # c /\ g \in locks
        BY <1>4, <3>1, <4>2 DEF Completed, ReconInv, ReconTypes
      <4>4. Overlap(g, c)
        BY <1>1, <4>2, SameTo
      <4> QED
        BY <1>19, <2>1, <2>2, <4>3, <4>4
    <3>3. CarriesOn(c, f)'
      BY <1>12, <1>13, <3>2 DEF CarriesOn
    <3>4. f \in books'[From[c]]
      BY <1>1, <1>2, <1>6 DEF ReconInv, BooksShaped
    <3> QED
      BY <1>4, <1>15, <2>2, <3>1, <3>3, <3>4
  <2>3. CASE b # c
    <3>1. Completed(b) /\ b \in locks
      BY <1>9, <2>3 DEF Completed, ReconInv, ReconTypes
    <3>2. From[b] # From[c]
      BY <1>1, <1>19, <2>1, <2>3, <3>1, SameTo
    <3>3. books'[From[b]] = books[From[b]]
      BY <1>2, <3>2, SpanFacts DEF ReconInv, BooksShaped
    <3>4. PICK g \in books[From[b]] : g.batch = b /\ g.closing = Closing(b, g.opening) /\ CarriesOn(b, g)
      BY <2>1, <3>1 DEF ReconInv, BooksStayTrue
    <3>5. CarriesOn(b, g)'
      BY <1>13, <3>4, CarriesOnKept
    <3> QED
      BY <1>15, <3>3, <3>4, <3>5
  <2> QED
    BY <2>2, <2>3
<1>21. BooksShaped'
  BY <1>2 DEF ReconInv, BooksShaped
<1> QED
  BY <1>21, <1>2, <1>13, <1>14, <1>16, <1>17, <1>18, <1>20, RequestCommits

-----------------------------------------------------------------------------
LEMMA InitReconInv == ReconInit => ReconInv
<1> SUFFICES ASSUME ReconInit
             PROVE  ReconInv
  OBVIOUS
<1>1. ReconTypes
  <2>1. \A d \in Days : counts[d] \subseteq Amounts /\ \A x, y \in counts[d] : x = y
    BY ReconAssumption DEF ReconAssumption, ReconInit, Days
  <2> QED
    BY <2>1, ReconAssumption DEF ReconAssumption, ReconInit, ReconTypes, NoTakings
<1>2. RequestsShaped
  BY DEF ReconInit, RequestsShaped, Shaped, Idle, DayOps, BatchOps, RecomputeOps
<1>3. AppliesOnce /\ RequestsStand /\ ReadsHold
  BY DEF ReconInit, AppliesOnce, RequestsStand, ReadsHold, Asked, Idle, Stands, UpToDate, RecomputeOps
<1>4. OneLockADay /\ BooksStayTrue
  BY DEF ReconInit, OneLockADay, BooksStayTrue, Completed
<1>5. OpeningsShaped /\ RowsKnown
  <2> DEFINE row == [day |-> 1, source |-> "manual", amount |-> 1, void |-> FALSE]
  <2>1. openings = [a \in Accounts |-> <<row>>]
    BY DEF ReconInit
  <2>2. row.day \in Days /\ row.source # "carry" /\ {"day", "source", "amount", "void"} \subseteq DOMAIN row
    BY ReconAssumption DEF ReconAssumption, Days
  <2> HIDE DEF row
  <2>3. Len(<<row>>) = 1 /\ <<row>>[1] = row /\ <<row>> \in Seq({row})
    OBVIOUS
  <2>4. <<row>> \in Seq({<<row>>[i] : i \in 1 .. Len(<<row>>)})
    BY <2>3, SeqOfOwn
  <2>5. \A a \in Accounts : Rows(a) = {1} /\ openings[a][1] = row
    BY <2>1, <2>3 DEF Rows
  <2>6. OpeningsShaped
    BY <2>1, <2>2, <2>4, <2>5 DEF OpeningsShaped, Rows
  <2>7. RowsKnown
    BY <2>2, <2>5 DEF RowsKnown
  <2> QED
    BY <2>6, <2>7
<1>6. BooksShaped
  BY DEF ReconInit, BooksShaped
<1> QED
  BY <1>1, <1>2, <1>3, <1>4, <1>5, <1>6 DEF ReconInv

LEMMA NextReconInv == ReconInv /\ [ReconNext]_reconVars => ReconInv'
<1> SUFFICES ASSUME ReconInv, [ReconNext]_reconVars
             PROVE  ReconInv'
  OBVIOUS
<1>1. ASSUME NEW d \in WriteDays, Report(d)
      PROVE  ReconInv'
  BY <1>1, ReportStep
<1>2. ASSUME NEW w \in Threads, Import(w) \/ CreateReceipt(w) \/ RecordCashCount(w) \/ CreateOpenings(w)
      PROVE  ReconInv'
  BY <1>2, ImportStep, CreateReceiptStep, RecordCashCountStep, CreateOpeningsStep
<1>3. ASSUME NEW w \in Threads, ApplyBatch(w) \/ ReadStaleRows(w) \/ RecomputeBatch(w) \/ Recheck(w) \/ FreezeBatch(w)
                                  \/ CompleteBatch(w)
      PROVE  ReconInv'
  BY <1>3, ApplyBatchStep, ReadStaleRowsStep, RecomputeBatchStep, RecheckStep, FreezeBatchStep, CompleteBatchStep
<1>4. ASSUME NEW w \in Threads, GiveUp(w)
      PROVE  ReconInv'
  <2>1. GoAway(w) /\ UNCHANGED <<facts, openings, batchRows>> /\ writes' \in 0 .. MaxWrites
    BY <1>4 DEF GiveUp, ReconInv, ReconTypes
  <2> QED
    BY <2>1, GoAwayStep
<1>5. ASSUME NEW w \in Threads, NEW f \in Flows, LookImport(w, f)
      PROVE  ReconInv'
  BY <1>5, LookImportStep
<1>6. ASSUME NEW w \in Threads, NEW d \in WriteDays, NEW kind \in {"receipt", "count", "opening"}, LookWrite(w, kind, d)
      PROVE  ReconInv'
  BY <1>6, LookWriteStep
<1>7. ASSUME NEW w \in Threads, NEW a \in Accounts, NEW i \in Rows(a), VoidOpening(w, a, i)
      PROVE  ReconInv'
  BY <1>7, VoidOpeningStep
<1>8. ASSUME NEW w \in Threads, NEW b \in Batches,
             LookApply(w, b) \/ LookRecompute(w, b) \/ LookFreeze(w, b) \/ LookComplete(w, b)
      PROVE  ReconInv'
  BY <1>8, LookApplyStep, LookRecomputeStep, LookFreezeStep, LookCompleteStep
<1>9. ASSUME NEW w \in Threads, NEW b \in Batches, NEW d \in Days, ActDiff(w, b, d)
      PROVE  ReconInv'
  BY <1>9, ActDiffStep
<1>10. CASE UNCHANGED reconVars
  <2> USE <1>10 DEF reconVars, facts, batchRows
  <2>1. \A b, o : Closing(b, o)' = Closing(b, o)
    BY DEF Closing, CountOf, Inflow
  <2>2. ReconTypes' /\ BooksShaped' /\ OneLockADay'
    BY DEF ReconInv, ReconTypes, BooksShaped, OneLockADay
  <2>3. RequestsShaped' /\ AppliesOnce' /\ RequestsStand'
    BY DEF ReconInv, RequestsShaped, Shaped, AppliesOnce, Asked, RequestsStand, Stands, RecomputeOps
  <2>4. ReadsHold'
    <3>1. \A b : priorDiffStates(b)' = priorDiffStates(b)
      BY DEF priorDiffStates
    <3> QED
      BY <2>1, <3>1 DEF ReconInv, ReadsHold, UpToDate, LockedByCompleted, Locked, RecomputeOps
  <2>5. OpeningsShaped' /\ RowsKnown' /\ \A b \in Batches : \A f : CarriesOn(b, f) => CarriesOn(b, f)'
    BY OpeningsSame DEF Completed
  <2>6. BooksStayTrue'
    BY <2>1, <2>5, BooksKept DEF ReconInv, Completed
  <2> QED
    BY <2>2, <2>3, <2>4, <2>5, <2>6 DEF ReconInv
<1> QED
  BY <1>1, <1>2, <1>3, <1>4, <1>5, <1>6, <1>7, <1>8, <1>9, <1>10 DEF ReconNext

(* The invariant that carries the theorems below: the requests, the locks,  *)
(* the openings and the books of cash reconciliation keep to it.            *)
THEOREM ReconInvariance == ReconSpec => []ReconInv
BY InitReconInv, NextReconInv, PTL DEF ReconSpec

(* Batches, differences, locks and facts keep their types; a batch holds a  *)
(* lock from freeze on, and only applied batches have differences.          *)
THEOREM ReconTypeCorrect == ReconSpec => []ReconTypes
<1>1. ReconInv => ReconTypes
  BY DEF ReconInv
<1> QED
  BY <1>1, ReconInvariance, PTL

(* FreezeBatch: a day belongs to one frozen batch, unless two freezes raced.*)
THEOREM OneFrozenBatchADay == ReconSpec => []OneBatchADay
<1>1. ReconInv => OneBatchADay
  BY DEF ReconInv, OneLockADay, OneBatchADay, Clean, Overlap
<1> QED
  BY <1>1, ReconInvariance, PTL

(* CompleteBatch: the books of a completed period stay those of the ledger, *)
(* and the next period starts from their closing, unless a stale request    *)
(* wrote to one of its days.                                                *)
THEOREM BooksAreTrue == ReconSpec => []BooksStayTrue
<1>1. ReconInv => BooksStayTrue
  BY DEF ReconInv
<1> QED
  BY <1>1, ReconInvariance, PTL

-----------------------------------------------------------------------------
(* The actions that write batches; the others leave their rows alone.       *)

LEMMA WritersOfBatches ==
  ASSUME ReconNext
  PROVE  \/ UNCHANGED batchRows
         \/ \E w \in Threads : \/ ApplyBatch(w) \/ RecomputeBatch(w) \/ FreezeBatch(w) \/ CompleteBatch(w)
                               \/ \E b \in Batches, d \in Days : ActDiff(w, b, d)
<1>1. ASSUME NEW d \in WriteDays, Report(d)
      PROVE  UNCHANGED batchRows
  BY <1>1 DEF Report
<1>2. ASSUME NEW w \in Threads, Import(w) \/ CreateReceipt(w) \/ RecordCashCount(w) \/ CreateOpenings(w)
                                  \/ ReadStaleRows(w) \/ Recheck(w) \/ GiveUp(w)
      PROVE  UNCHANGED batchRows
  BY <1>2 DEF Import, CreateReceipt, RecordCashCount, CreateOpenings, ReadStaleRows, Recheck, GiveUp
<1>3. ASSUME NEW w \in Threads, NEW f \in Flows, LookImport(w, f)
      PROVE  UNCHANGED batchRows
  BY <1>3 DEF LookImport
<1>4. ASSUME NEW w \in Threads, NEW d, NEW kind, LookWrite(w, kind, d)
      PROVE  UNCHANGED batchRows
  BY <1>4 DEF LookWrite
<1>5. ASSUME NEW w \in Threads, NEW a, NEW i, VoidOpening(w, a, i)
      PROVE  UNCHANGED batchRows
  BY <1>5 DEF VoidOpening
<1>6. ASSUME NEW w \in Threads, NEW b \in Batches,
             LookApply(w, b) \/ LookRecompute(w, b) \/ LookFreeze(w, b) \/ LookComplete(w, b)
      PROVE  UNCHANGED batchRows
  BY <1>6 DEF LookApply, LookRecompute, LookFreeze, LookComplete
<1> QED
  BY <1>1, <1>2, <1>3, <1>4, <1>5, <1>6 DEF ReconNext

FinalAt(b) == Completed(b) => Completed(b)' /\ (Kept(b)' = Kept(b) \/ Span(b) \cap raced' # {})

LEMMA UntouchedIsFinal ==
  ASSUME NEW b \in Batches,
         status'[b] = status[b], cashFlow'[b] = cashFlow[b],
         \A d \in Days : diffs'[b][d] = "none" <=> diffs[b][d] = "none",
         books'[From[b]] = books[From[b]] \/ Span(b) \cap raced' # {}
  PROVE  FinalAt(b)
<1>1. [d \in Days |-> diffs'[b][d] = "none"] = [d \in Days |-> diffs[b][d] = "none"]
  <2>1. \A d \in Days : (diffs'[b][d] = "none") = (diffs[b][d] = "none")
    OBVIOUS
  <2> QED
    BY <2>1, Zenon
<1> QED
  BY <1>1 DEF FinalAt, Completed, Kept

LEMMA BatchesAreFinal ==
  ASSUME ReconInv, ReconNext, NEW b \in Batches
  PROVE  FinalAt(b)
<1>1. CASE UNCHANGED batchRows
  BY <1>1, UntouchedIsFinal DEF batchRows
<1> USE DEF facts
<1>2. ASSUME NEW w \in Threads, ApplyBatch(w)
      PROVE  FinalAt(b)
  <2>1. PICK r, c : r = thread[w] /\ c = r.batch
    OBVIOUS
  <2>2. c \in Batches /\ status[c] = "none" /\ UNCHANGED <<cashFlow, books>>
    BY <1>2, <2>1 DEF ReconInv, RequestsShaped, RequestsStand, Shaped, Stands, ApplyBatch, Asked, BatchOps, RecomputeOps
  <2>3. b # c => status'[b] = status[b] /\ diffs'[b] = diffs[b]
    BY <1>2, <2>1, <2>2 DEF ApplyBatch, ReconInv, ReconTypes
  <2>4. b = c => ~Completed(b)
    BY <2>2 DEF Completed
  <2> QED
    BY <2>2, <2>3, <2>4, UntouchedIsFinal DEF FinalAt
<1>3. ASSUME NEW w \in Threads, RecomputeBatch(w)
      PROVE  FinalAt(b)
  <2>1. PICK r, c : r = thread[w] /\ c = r.batch
    OBVIOUS
  <2>2. c \in Batches /\ r.days = Span(c) /\ Done(w, Span(c)) /\ UNCHANGED <<status, books>>
    BY <1>3, <2>1 DEF ReconInv, RequestsShaped, Shaped, RecomputeBatch, Asked, BatchOps, RecomputeOps
  <2>3. CASE b # c
    <3>1. diffs'[b] = diffs[b] /\ cashFlow'[b] = cashFlow[b]
      BY <1>3, <2>1, <2>2, <2>3 DEF RecomputeBatch, ReconInv, ReconTypes
    <3> QED
      BY <2>2, <3>1, UntouchedIsFinal
  <2>4. CASE b = c /\ ~r.stale
    <3>1. ~Completed(b)
      BY <1>3, <2>1, <2>4 DEF ReconInv, ReadsHold, UpToDate, RecomputeBatch, Asked, Completed, RecomputeOps
    <3> QED
      BY <3>1 DEF FinalAt
  <2>5. CASE b = c /\ r.stale
    <3>1. Span(b) \subseteq raced' /\ From[b] \in Span(b)
      BY <2>1, <2>2, <2>5, SpanFacts, RacedGrows DEF ReconInv
    <3> QED
      BY <2>2, <3>1 DEF FinalAt, Completed
  <2>6. r.stale \in BOOLEAN
    BY <2>1 DEF ReconInv, RequestsShaped, Shaped
  <2> QED
    BY <2>3, <2>4, <2>5, <2>6
<1>4. ASSUME NEW w \in Threads, FreezeBatch(w)
      PROVE  FinalAt(b)
  <2>1. PICK r, c : r = thread[w] /\ c = r.batch
    OBVIOUS
  <2>2. c \in Batches /\ UNCHANGED <<diffs, books>>
    BY <1>4, <2>1 DEF ReconInv, RequestsShaped, Shaped, FreezeBatch, Asked, BatchOps, RecomputeOps
  <2>3. CASE b # c
    <3>1. status'[b] = status[b] /\ cashFlow'[b] = cashFlow[b]
      BY <1>4, <2>1, <2>2, <2>3 DEF FreezeBatch, ReconInv, ReconTypes
    <3> QED
      BY <2>2, <3>1, UntouchedIsFinal
  <2>4. CASE b = c /\ Completed(b)
    <3>1. b \in locks /\ status[b] # "draft"
      BY <2>4 DEF Completed, ReconInv, ReconTypes
    <3>2. status' = status /\ cashFlow' = cashFlow
      BY <1>4, <2>1, <2>4, <3>1 DEF FreezeBatch
    <3> QED
      BY <2>2, <3>2, UntouchedIsFinal
  <2> QED
    BY <2>3, <2>4 DEF FinalAt
<1>5. ASSUME NEW w \in Threads, CompleteBatch(w)
      PROVE  FinalAt(b)
  <2>1. PICK r, c : r = thread[w] /\ c = r.batch
    OBVIOUS
  <2>2. /\ c \in Batches /\ c \in locks /\ UNCHANGED <<diffs, cashFlow>> /\ Done(w, From[c] .. FinalDay)
        /\ r.op = "complete"
    BY <1>5, <2>1 DEF ReconInv, RequestsShaped, Shaped, RequestsStand, Stands, CompleteBatch, Asked, BatchOps, RecomputeOps
  <2>3. raced \subseteq raced' /\ (r.stale => From[c] .. FinalDay \subseteq raced')
    BY <2>1, <2>2, RacedGrows DEF ReconInv
  <2>4. CASE b # c /\ Completed(b)
    <3>1. status'[b] = status[b] /\ b \in locks
      BY <1>5, <2>1, <2>2, <2>4 DEF CompleteBatch, ReconInv, ReconTypes, Completed
    <3>2. CASE From[b] # From[c]
      <4>1. books'[From[b]] = books[From[b]]
        BY <1>5, <2>1, <3>2, SpanFacts DEF CompleteBatch, ReconInv, BooksShaped
      <4> QED
        BY <2>2, <3>1, <4>1, UntouchedIsFinal
    <3>3. CASE From[b] = From[c]
      <4>1. Overlap(b, c)
        BY <2>2, <3>3, SameTo
      <4>2. Span(b) \subseteq raced' \/ Span(c) \subseteq raced'
        BY <2>2, <2>3, <2>4, <3>1, <4>1 DEF ReconInv, OneLockADay
      <4>3. Span(b) \cap raced' # {}
        BY <4>1, <4>2, SpanFacts DEF Overlap
      <4> QED
        BY <2>2, <3>1, <4>3, UntouchedIsFinal
    <3> QED
      BY <3>2, <3>3
  <2>5. CASE b = c /\ Completed(b)
    <3>1. r.stale
      BY <2>1, <2>2, <2>5 DEF ReconInv, ReadsHold, UpToDate, Completed, RecomputeOps
    <3>2. Span(b) \cap raced' # {}
      BY <2>3, <2>5, <3>1, SpanFacts
    <3>3. Completed(b)'
      BY <1>5, <2>1, <2>2, <2>5 DEF CompleteBatch, ReconInv, ReconTypes, Completed
    <3> QED
      BY <3>2, <3>3 DEF FinalAt
  <2> QED
    BY <2>4, <2>5 DEF FinalAt
<1>6. ASSUME NEW w \in Threads, NEW c \in Batches, NEW e \in Days, ActDiff(w, c, e)
      PROVE  FinalAt(b)
  <2>1. \A d \in Days : diffs'[b][d] = IF b = c /\ d = e THEN "handled" ELSE diffs[b][d]
    BY <1>6 DEF ActDiff, ReconInv, ReconTypes
  <2>2. diffs[c][e] = "open" /\ UNCHANGED <<status, cashFlow, books>>
    BY <1>6 DEF ActDiff
  <2> QED
    BY <2>1, <2>2, UntouchedIsFinal
<1> QED
  BY <1>1, <1>2, <1>3, <1>4, <1>5, <1>6, WritersOfBatches

(* RecomputeBatch, FreezeBatch, CompleteBatch: the books, the takings and   *)
(* the differences of a completed batch are written only by a request that  *)
(* read before it was completed.                                            *)
THEOREM CompletedIsFinal == ReconSpec => FinalUnlessRaced
<1>1. ReconInv /\ [ReconNext]_reconVars =>
        [\A b \in Batches : Completed(b) =>
           Completed(b)' /\ (Kept(b)' = Kept(b) \/ Span(b) \cap raced' # {})]_reconVars
  BY BatchesAreFinal DEF FinalAt
<1> QED
  BY <1>1, ReconInvariance, PTL DEF ReconSpec, FinalUnlessRaced

DecisionAt(b, d) ==
  /\ diffs[b][d] = "handled" =>
       diffs'[b][d] = "handled" \/ <<b, d>> \in dropped' \/ DecidedTooLate(b, d)
  /\ \A c \in Batches :
       diffs[b][d] = "none" /\ diffs'[b][d] = "open" /\ Overlap(b, c) /\ d \notin raced'
       => diffs[c][d] # "handled"

(* What a request opens anew it had not found handled, and if it is not     *)
(* stale nobody has handled it since.                                       *)
LEMMA OpensUnhandled ==
  ASSUME ReconInv, NEW w \in Threads, NEW b \in Batches, NEW d \in Days, NEW c \in Batches,
         thread[w].op \in {"apply"} \union RecomputeOps, thread[w].batch = b, Done(w, Span(b)),
         d \in thread[w].keys, StatusOf(thread[w], d) = "open", Overlap(b, c), d \notin raced'
  PROVE  diffs[c][d] # "handled"
<1>1. thread[w].days = Span(b) /\ d \in Span(b) /\ thread[w].stale \in BOOLEAN
  BY DEF ReconInv, RequestsShaped, Shaped, BatchOps, RecomputeOps
<1>2. ~thread[w].stale
  BY <1>1, RacedGrows DEF ReconInv
<1>3. d \notin thread[w].prior
  BY DEF StatusOf
<1>4. d \notin priorDiffStates(b)
  BY <1>1, <1>2, <1>3 DEF ReconInv, ReadsHold, UpToDate, RecomputeOps
<1> QED
  BY <1>4 DEF priorDiffStates

LEMMA DecisionsStay ==
  ASSUME ReconInv, ReconNext, NEW b \in Batches, NEW d \in Days
  PROVE  DecisionAt(b, d)
<1>1. diffs'[b][d] = diffs[b][d] => DecisionAt(b, d)
  BY DEF DecisionAt
<1>2. CASE UNCHANGED batchRows
  BY <1>1, <1>2 DEF batchRows
<1>3. ASSUME NEW w \in Threads, ApplyBatch(w)
      PROVE  DecisionAt(b, d)
  <2>1. PICK r, c : r = thread[w] /\ c = r.batch
    OBVIOUS
  <2>2. c \in Batches /\ r.op = "apply" /\ r.days = Span(c) /\ status[c] = "none" /\ Done(w, Span(c))
    BY <1>3, <2>1 DEF ReconInv, RequestsShaped, RequestsStand, Shaped, Stands, ApplyBatch, Asked, BatchOps, RecomputeOps
  <2>3. CASE b # c
    <3>1. diffs'[b] = diffs[b]
      BY <1>3, <2>1, <2>2, <2>3 DEF ApplyBatch, ReconInv, ReconTypes
    <3> QED
      BY <1>1, <3>1
  <2>4. CASE b = c
    <3>1. diffs[b][d] = "none"
      BY <2>2, <2>4 DEF ReconInv, ReconTypes
    <3>2. diffs'[b][d] = IF d \in r.keys THEN StatusOf(r, d) ELSE "none"
      BY <1>3, <2>1, <2>4 DEF ApplyBatch, ReconInv, ReconTypes
    <3>3. ASSUME NEW a \in Batches, diffs'[b][d] = "open", Overlap(b, a), d \notin raced'
          PROVE  diffs[a][d] # "handled"
      BY <2>1, <2>2, <2>4, <3>2, <3>3, OpensUnhandled
    <3> QED
      BY <3>1, <3>3 DEF DecisionAt
  <2> QED
    BY <2>3, <2>4
<1>4. ASSUME NEW w \in Threads, RecomputeBatch(w)
      PROVE  DecisionAt(b, d)
  <2>1. PICK r, c : r = thread[w] /\ c = r.batch
    OBVIOUS
  <2>2. c \in Batches /\ r.op = "drop" /\ r.days = Span(c) /\ Done(w, Span(c))
    BY <1>4, <2>1 DEF ReconInv, RequestsShaped, Shaped, RecomputeBatch, Asked, BatchOps, RecomputeOps
  <2>3. CASE b # c
    <3>1. diffs'[b] = diffs[b]
      BY <1>4, <2>1, <2>2, <2>3 DEF RecomputeBatch, ReconInv, ReconTypes
    <3> QED
      BY <1>1, <3>1
  <2>4. CASE b = c
    <3>1. diffs'[b][d] = Upsert(r)[d]
      BY <1>4, <2>1, <2>4 DEF RecomputeBatch, ReconInv, ReconTypes
    <3>2. diffs'[b][d] = IF d \in r.keys /\ diffs[b][d] = "none" THEN StatusOf(r, d)
                         ELSE IF d \in r.rows \ r.keys THEN "none" ELSE diffs[b][d]
      BY <2>1, <2>4, <3>1 DEF Upsert
    <3>3. d \in r.rows => <<b, d>> \in dropped' \/ DecidedTooLate(b, d)
      <4>1. d \in r.handled => <<b, d>> \in dropped'
        BY <1>4, <2>1, <2>4 DEF RecomputeBatch
      <4>2. thread'[w] = Idle /\ Asked(w, "drop") /\ thread[w].batch = b
        BY <2>1, <2>2, <2>4 DEF Done, Asked
      <4>3. d \in r.rows \ r.handled => DecidedTooLate(b, d)
        BY <2>1, <4>2 DEF DecidedTooLate
      <4> QED
        BY <4>1, <4>3
    <3>4. ASSUME NEW a \in Batches, diffs[b][d] = "none", diffs'[b][d] = "open", Overlap(b, a), d \notin raced'
          PROVE  diffs[a][d] # "handled"
      BY <2>1, <2>2, <2>4, <3>2, <3>4, OpensUnhandled DEF RecomputeOps
    <3> QED
      BY <3>2, <3>3, <3>4 DEF DecisionAt
  <2> QED
    BY <2>3, <2>4
<1>5. ASSUME NEW w \in Threads, FreezeBatch(w) \/ CompleteBatch(w)
      PROVE  DecisionAt(b, d)
  BY <1>1, <1>5 DEF FreezeBatch, CompleteBatch
<1>6. ASSUME NEW w \in Threads, NEW c \in Batches, NEW e \in Days, ActDiff(w, c, e)
      PROVE  DecisionAt(b, d)
  <2>1. diffs'[b][d] = IF b = c /\ d = e THEN "handled" ELSE diffs[b][d]
    BY <1>6 DEF ActDiff, ReconInv, ReconTypes
  <2>2. diffs[c][e] = "open"
    BY <1>6 DEF ActDiff
  <2> QED
    BY <2>1, <2>2 DEF DecisionAt
<1> QED
  BY <1>2, <1>3, <1>4, <1>5, <1>6, WritersOfBatches

(* ActDiff, RecomputeBatch: what people have handled stays handled, or its  *)
(* removal is on record, unless they handled it after the recompute that    *)
(* removes it had read its row; and no other batch of the same days asks    *)
(* again, unless it was handled while the other was being computed.         *)
THEOREM HandledStays == ReconSpec => DecisionsAreKept
<1>1. ReconInv /\ [ReconNext]_reconVars => [\A b \in Batches, d \in Days : DecisionAt(b, d)]_reconVars
  BY DecisionsStay
<1>2. [][\A b \in Batches, d \in Days : DecisionAt(b, d)]_reconVars => DecisionsAreKept
  BY PTL DEF DecisionsAreKept, DecisionAt
<1> QED
  BY <1>1, <1>2, ReconInvariance, PTL DEF ReconSpec

-----------------------------------------------------------------------------
(* The engine.                                                              *)

(* Sorting.  A strict total order on a finite set has a sorted sequence:    *)
(* the place of a member is one more than the number of those before it.    *)
StrictTotal(S, R) ==
  /\ \A x \in S : <<x, x>> \notin R
  /\ \A x, y \in S : x # y => <<x, y>> \in R \/ <<y, x>> \in R
  /\ \A x, y, z \in S : <<x, y>> \in R /\ <<y, z>> \in R => <<x, z>> \in R

InOrder(s, R) == \A i, j \in DOMAIN s : i < j => <<s[i], s[j]>> \in R

LEMMA RanksDiffer ==
  ASSUME NEW S, IsFiniteSet(S), NEW R, StrictTotal(S, R)
  PROVE  LET rank == [x \in S |-> Cardinality({y \in S : <<y, x>> \in R}) + 1]
         IN /\ rank \in Bijection(S, 1 .. Cardinality(S))
            /\ \A x, y \in S : <<x, y>> \in R => rank[x] < rank[y]
<1> DEFINE n == Cardinality(S)
<1> DEFINE below(x) == {y \in S : <<y, x>> \in R}
<1> DEFINE rank == [x \in S |-> Cardinality(below(x)) + 1]
<1>1. n \in Nat
  BY FS_CardinalityType
<1>2. ASSUME NEW x \in S
      PROVE  IsFiniteSet(below(x)) /\ Cardinality(below(x)) \in Nat
  <2>1. below(x) \in SUBSET S
    OBVIOUS
  <2> HIDE DEF below
  <2>2. QED
    BY <2>1, FS_Subset, FS_CardinalityType
<1>3. ASSUME NEW x \in S PROVE Cardinality(below(x)) < n
  <2>1. below(x) \in SUBSET S /\ below(x) # S
    BY DEF StrictTotal
  <2> HIDE DEF below
  <2>2. Cardinality(below(x)) <= n /\ Cardinality(below(x)) # n
    BY <2>1, FS_Subset
  <2>3. QED
    BY <1>1, <1>2, <2>2
<1>4. ASSUME NEW x \in S, NEW y \in S, <<x, y>> \in R PROVE Cardinality(below(x)) < Cardinality(below(y))
  <2>1. below(x) \in SUBSET below(y) /\ below(x) # below(y)
    <3>1. \A z \in S : <<z, x>> \in R => <<z, y>> \in R
      BY <1>4 DEF StrictTotal
    <3>2. x \in below(y) /\ x \notin below(x)
      BY <1>4 DEF StrictTotal
    <3>3. QED
      BY <3>1, <3>2
  <2> HIDE DEF below
  <2>2. Cardinality(below(x)) <= Cardinality(below(y)) /\ Cardinality(below(x)) # Cardinality(below(y))
    BY <1>2, <2>1, FS_Subset
  <2>3. QED
    BY <1>2, <2>2
<1> HIDE DEF below
<1>5. rank \in [S -> 1 .. n]
  BY <1>1, <1>2, <1>3
<1>6. \A x, y \in S : <<x, y>> \in R => rank[x] < rank[y]
  BY <1>2, <1>4
<1>7. rank \in Injection(S, 1 .. n)
  <2>1. ASSUME NEW x \in S, NEW y \in S, rank[x] = rank[y] PROVE x = y
    <3>1. rank[x] \in Int /\ rank[y] \in Int
      BY <1>5
    <3>2. <<x, y>> \notin R /\ <<y, x>> \notin R
      BY <1>6, <2>1, <3>1
    <3>3. QED
      BY <3>2 DEF StrictTotal
  <2> HIDE DEF rank
  <2>2. QED
    BY <1>5, <2>1 DEF Injection, IsInjective
<1>8. rank \in Surjection(S, 1 .. n)
  <2>1. IsFiniteSet(1 .. n) /\ Cardinality(1 .. n) = n
    BY <1>1, FS_Interval
  <2> HIDE DEF rank
  <2>2. QED
    BY <1>7, <2>1, FS_Injection
<1>9. QED
  BY <1>6, <1>7, <1>8 DEF Bijection, below

LEMMA SortedIs ==
  ASSUME NEW S, IsFiniteSet(S), NEW R, StrictTotal(S, R)
  PROVE  /\ Sorted(S, R) \in [1 .. Cardinality(S) -> S]
         /\ InOrder(Sorted(S, R), R)
         /\ \A x \in S : \E i \in 1 .. Cardinality(S) : Sorted(S, R)[i] = x
         /\ \A i, j \in 1 .. Cardinality(S) : Sorted(S, R)[i] = Sorted(S, R)[j] => i = j
<1> DEFINE n == Cardinality(S)
<1>1. PICK rank \in Bijection(S, 1 .. n) : \A x, y \in S : <<x, y>> \in R => rank[x] < rank[y]
  BY RanksDiffer
<1>2. n \in Nat
  BY FS_CardinalityType
<1>3. rank \in [S -> 1 .. n] /\ \A i \in 1 .. n : \E x \in S : rank[x] = i
  BY <1>1 DEF Bijection, Surjection
<1> DEFINE s == [i \in 1 .. n |-> CHOOSE x \in S : rank[x] = i]
<1>4. \A i \in 1 .. n : s[i] \in S /\ rank[s[i]] = i
  BY <1>3
<1>5. s \in [1 .. n -> S] /\ InOrder(s, R)
  <2>1. s \in [1 .. n -> S]
    BY <1>4
  <2>2. ASSUME NEW i \in 1 .. n, NEW j \in 1 .. n, i < j PROVE <<s[i], s[j]>> \in R
    <3>1. s[i] \in S /\ s[j] \in S /\ rank[s[i]] = i /\ rank[s[j]] = j
      BY <1>4
    <3> HIDE DEF s
    <3>2. s[i] # s[j]
      BY <2>2, <3>1
    <3>3. <<s[j], s[i]>> \notin R
      BY <1>1, <1>2, <2>2, <3>1
    <3>4. QED
      BY <3>1, <3>2, <3>3 DEF StrictTotal
  <2> HIDE DEF s
  <2>3. QED
    BY <2>1, <2>2 DEF InOrder
<1> HIDE DEF s
<1> DEFINE t == Sorted(S, R)
<1>6. t \in [1 .. n -> S] /\ InOrder(t, R)
  <2>1. \E u \in [1 .. n -> S] : \A i, j \in DOMAIN u : i < j => <<u[i], u[j]>> \in R
    BY <1>5 DEF InOrder
  <2>2. QED
    BY <2>1 DEF Sorted, InOrder
<1> HIDE DEF t
<1>7. \A i, j \in 1 .. n : t[i] = t[j] => i = j
  <2>1. ASSUME NEW i \in 1 .. n, NEW j \in 1 .. n, t[i] = t[j], i < j PROVE FALSE
    BY <1>6, <2>1 DEF InOrder, StrictTotal
  <2>2. QED
    BY <1>2, <2>1
<1>8. \A x \in S : \E i \in 1 .. n : t[i] = x
  <2>1. IsFiniteSet(1 .. n) /\ Cardinality(1 .. n) = n
    BY <1>2, FS_Interval
  <2>2. t \in Injection(1 .. n, S)
    BY <1>6, <1>7 DEF Injection, IsInjective
  <2>3. t \in Surjection(1 .. n, S)
    BY <2>1, <2>2, FS_Injection
  <2>4. QED
    BY <2>3 DEF Surjection
<1>9. QED
  BY <1>6, <1>7, <1>8 DEF t

(* Comparing the keys of the sorts field by field.                          *)
LEMMA CashLess ==
  ASSUME NEW x \in Taking, NEW y \in Taking
  PROVE  Less(CashOrder(x), CashOrder(y)) <=>
           \/ x.day < y.day
           \/ x.day = y.day /\ x.method < y.method
           \/ x.day = y.day /\ x.method = y.method /\ x.way < y.way
<1> DEFINE s == CashOrder(x)
<1> DEFINE t == CashOrder(y)
<1>1. DOMAIN s = {1, 2, 3}
  BY DEF CashOrder
<1>2. 1 .. 1 - 1 = {} /\ 1 .. 2 - 1 = {1} /\ 1 .. 3 - 1 = {1, 2}
  OBVIOUS
<1>3. /\ s[1] = x.day /\ s[2] = x.method /\ s[3] = x.way
      /\ t[1] = y.day /\ t[2] = y.method /\ t[3] = y.way
  BY DEF CashOrder
<1>4. x.day \in Int /\ x.method \in Int /\ x.way \in Int /\ y.day \in Int /\ y.method \in Int /\ y.way \in Int
  BY DEF Taking
<1> HIDE DEF s, t
<1>5. Less(s, t) <=>
                     \/ s[1] < t[1] /\ \A j \in 1 .. 1 - 1 : s[j] = t[j]
                     \/ s[2] < t[2] /\ \A j \in 1 .. 2 - 1 : s[j] = t[j]
                     \/ s[3] < t[3] /\ \A j \in 1 .. 3 - 1 : s[j] = t[j]
  BY <1>1 DEF Less
<1>6. QED
  BY <1>2, <1>3, <1>4, <1>5 DEF s, t

LEMMA BankLess ==
  ASSUME NEW x \in Line, NEW y \in Line
  PROVE  Less(BankOrder(x), BankOrder(y)) <=>
           \/ x.day < y.day
           \/ x.day = y.day /\ x.channel < y.channel
           \/ x.day = y.day /\ x.channel = y.channel /\ x.amount < y.amount
           \/ x.day = y.day /\ x.channel = y.channel /\ x.amount = y.amount /\ x.id < y.id
<1> DEFINE s == BankOrder(x)
<1> DEFINE t == BankOrder(y)
<1>1. DOMAIN s = {1, 2, 3, 4}
  BY DEF BankOrder
<1>2. 1 .. 1 - 1 = {} /\ 1 .. 2 - 1 = {1} /\ 1 .. 3 - 1 = {1, 2} /\ 1 .. 4 - 1 = {1, 2, 3}
  OBVIOUS
<1>3. /\ s[1] = x.day /\ s[2] = x.channel /\ s[3] = x.amount /\ s[4] = x.id
      /\ t[1] = y.day /\ t[2] = y.channel /\ t[3] = y.amount /\ t[4] = y.id
  BY DEF BankOrder
<1>4. x.day \in Int /\ x.channel \in Int /\ x.amount \in Int /\ x.id \in Int /\ y.day \in Int /\ y.channel \in Int /\ y.amount \in Int /\ y.id \in Int
  BY DEF Line
<1> HIDE DEF s, t
<1>5. Less(s, t) <=>
                     \/ s[1] < t[1] /\ \A j \in 1 .. 1 - 1 : s[j] = t[j]
                     \/ s[2] < t[2] /\ \A j \in 1 .. 2 - 1 : s[j] = t[j]
                     \/ s[3] < t[3] /\ \A j \in 1 .. 3 - 1 : s[j] = t[j]
                     \/ s[4] < t[4] /\ \A j \in 1 .. 4 - 1 : s[j] = t[j]
  BY <1>1 DEF Less
<1>6. QED
  BY <1>2, <1>3, <1>4, <1>5 DEF s, t

DaysRise(s) == \A i, j \in DOMAIN s : i < j => s[i].day <= s[j].day

(* s has each member of S at one place.                                     *)
Lists(s, S) ==
  /\ \A i \in DOMAIN s : s[i] \in S
  /\ \A x \in S : \E i \in DOMAIN s : s[i] = x
  /\ \A i, j \in DOMAIN s : s[i] = s[j] => i = j

LEMMA FunctionIsSeq ==
  ASSUME NEW n \in Nat, NEW S, NEW s \in [1 .. n -> S]
  PROVE  s \in Seq(S) /\ Len(s) = n /\ DOMAIN s = 1 .. n
<1>1. s \in Seq(S)
  BY SeqDef
<1>2. QED
  BY <1>1

(* The takings and the lines in the order in which Run goes through them.   *)
LEMMA CashSorted ==
  ASSUME NEW in \in Inputs
  PROVE  /\ Cash(in) \in Seq(Taking) /\ DaysRise(Cash(in))
         /\ Lists(Cash(in), InSpan(in.takings, in.from, in.to))
<1> DEFINE S == InSpan(in.takings, in.from, in.to)
<1> DEFINE R == {p \in S \X S : Less(CashOrder(p[1]), CashOrder(p[2]))}
<1>1. S \subseteq Taking /\ IsFiniteSet(S)
  <2>1. S \in SUBSET in.takings /\ IsFiniteSet(in.takings) /\ in.takings \subseteq Taking
    BY EngineAssumption DEF InSpan
  <2> HIDE DEF S
  <2>2. QED
    BY <2>1, FS_Subset
<1>2. \A x, y \in S : x.day = y.day /\ x.way = y.way => x = y
  BY EngineAssumption DEF InSpan
<1> HIDE DEF S
<1>3. \A x, y \in S : <<x, y>> \in R <=>
        \/ x.day < y.day
        \/ x.day = y.day /\ x.method < y.method
        \/ x.day = y.day /\ x.method = y.method /\ x.way < y.way
  <2>1. \A x, y \in S : <<x, y>> \in R <=> Less(CashOrder(x), CashOrder(y))
    OBVIOUS
  <2> HIDE DEF R
  <2>2. ASSUME NEW x \in S, NEW y \in S
        PROVE  Less(CashOrder(x), CashOrder(y)) <=>
                 \/ x.day < y.day
                 \/ x.day = y.day /\ x.method < y.method
                 \/ x.day = y.day /\ x.method = y.method /\ x.way < y.way
    BY <1>1, CashLess
  <2>3. QED
    BY <2>1, <2>2
<1>4. \A x \in S : x.day \in Int /\ x.method \in Int /\ x.way \in Int
  BY <1>1 DEF Taking
<1> HIDE DEF R
<1>5. StrictTotal(S, R)
  <2>1. \A x \in S : <<x, x>> \notin R
    BY <1>3, <1>4
  <2>2. \A x, y \in S : x # y => <<x, y>> \in R \/ <<y, x>> \in R
    BY <1>2, <1>3, <1>4
  <2>3. \A x, y, z \in S : <<x, y>> \in R /\ <<y, z>> \in R => <<x, z>> \in R
    BY <1>3, <1>4
  <2>4. QED
    BY <2>1, <2>2, <2>3 DEF StrictTotal
<1> DEFINE n == Cardinality(S)
<1> DEFINE s == Sorted(S, R)
<1>6. /\ s \in [1 .. n -> S] /\ InOrder(s, R) /\ n \in Nat
      /\ \A x \in S : \E i \in 1 .. n : s[i] = x
      /\ \A i, j \in 1 .. n : s[i] = s[j] => i = j
  BY <1>1, <1>5, SortedIs, FS_CardinalityType
<1>7. Cash(in) = s
  BY DEF Cash, SortCash, S, R
<1> HIDE DEF n, s
<1>8. s \in Seq(S) /\ DOMAIN s = 1 .. n
  BY <1>6, FunctionIsSeq
<1>9. s \in Seq(Taking)
  BY <1>1, <1>8
<1>10. DaysRise(s)
  <2>1. ASSUME NEW i \in DOMAIN s, NEW j \in DOMAIN s, i < j PROVE s[i].day <= s[j].day
    <3>1. s[i] \in S /\ s[j] \in S /\ <<s[i], s[j]>> \in R
      BY <1>6, <1>8, <2>1 DEF InOrder
    <3>2. QED
      BY <1>3, <1>4, <3>1
  <2>2. QED
    BY <2>1 DEF DaysRise
<1>11. Lists(s, S)
  BY <1>6, <1>8 DEF Lists
<1>12. QED
  BY <1>7, <1>9, <1>10, <1>11 DEF S

LEMMA BankSorted ==
  ASSUME NEW in \in Inputs
  PROVE  Bank(in) \in Seq(Line) /\ DaysRise(Bank(in)) /\ Lists(Bank(in), in.lines)
<1> DEFINE S == in.lines
<1> DEFINE R == {p \in S \X S : Less(BankOrder(p[1]), BankOrder(p[2]))}
<1>1. S \subseteq Line /\ IsFiniteSet(S)
  BY EngineAssumption
<1>2. \A x, y \in S : x.day = y.day /\ x.channel = y.channel /\ x.amount = y.amount /\ x.id = y.id => x = y
  BY EngineAssumption
<1> HIDE DEF S
<1>3. \A x, y \in S : <<x, y>> \in R <=>
        \/ x.day < y.day
        \/ x.day = y.day /\ x.channel < y.channel
        \/ x.day = y.day /\ x.channel = y.channel /\ x.amount < y.amount
        \/ x.day = y.day /\ x.channel = y.channel /\ x.amount = y.amount /\ x.id < y.id
  <2>1. \A x, y \in S : <<x, y>> \in R <=> Less(BankOrder(x), BankOrder(y))
    OBVIOUS
  <2> HIDE DEF R
  <2>2. ASSUME NEW x \in S, NEW y \in S
        PROVE  Less(BankOrder(x), BankOrder(y)) <=>
                 \/ x.day < y.day
                 \/ x.day = y.day /\ x.channel < y.channel
                 \/ x.day = y.day /\ x.channel = y.channel /\ x.amount < y.amount
                 \/ x.day = y.day /\ x.channel = y.channel /\ x.amount = y.amount /\ x.id < y.id
    BY <1>1, BankLess
  <2>3. QED
    BY <2>1, <2>2
<1>4. \A x \in S : x.day \in Int /\ x.channel \in Int /\ x.amount \in Int /\ x.id \in Int
  BY <1>1 DEF Line
<1> HIDE DEF R
<1>5. StrictTotal(S, R)
  <2>1. \A x \in S : <<x, x>> \notin R
    BY <1>3, <1>4
  <2>2. \A x, y \in S : x # y => <<x, y>> \in R \/ <<y, x>> \in R
    BY <1>2, <1>3, <1>4
  <2>3. \A x, y, z \in S : <<x, y>> \in R /\ <<y, z>> \in R => <<x, z>> \in R
    BY <1>3, <1>4
  <2>4. QED
    BY <2>1, <2>2, <2>3 DEF StrictTotal
<1> DEFINE n == Cardinality(S)
<1> DEFINE s == Sorted(S, R)
<1>6. /\ s \in [1 .. n -> S] /\ InOrder(s, R) /\ n \in Nat
      /\ \A x \in S : \E i \in 1 .. n : s[i] = x
      /\ \A i, j \in 1 .. n : s[i] = s[j] => i = j
  BY <1>1, <1>5, SortedIs, FS_CardinalityType
<1>7. Bank(in) = s
  BY DEF Bank, SortBank, S, R
<1> HIDE DEF n, s
<1>8. s \in Seq(S) /\ DOMAIN s = 1 .. n
  BY <1>6, FunctionIsSeq
<1>9. s \in Seq(Line)
  BY <1>1, <1>8
<1>10. DaysRise(s)
  <2>1. ASSUME NEW i \in DOMAIN s, NEW j \in DOMAIN s, i < j PROVE s[i].day <= s[j].day
    <3>1. s[i] \in S /\ s[j] \in S /\ <<s[i], s[j]>> \in R
      BY <1>6, <1>8, <2>1 DEF InOrder
    <3>2. QED
      BY <1>3, <1>4, <3>1
  <2>2. QED
    BY <2>1 DEF DaysRise
<1>11. Lists(s, S)
  BY <1>6, <1>8 DEF Lists
<1>12. QED
  BY <1>7, <1>9, <1>10, <1>11 DEF S

-----------------------------------------------------------------------------
(* The passes.                                                              *)
LEMMA MinIs ==
  ASSUME NEW S \in SUBSET Nat, S # {}
  PROVE  Min(S) \in S /\ \A y \in S : Min(S) <= y
BY LeastNat DEF Min

LEMMA NearestIs ==
  ASSUME NEW c \in Taking, NEW bank \in Seq(Line), NEW free \in SUBSET (DOMAIN bank), free # {}
  PROVE  Nearest(c, bank, free) \in free
<1> DEFINE gap(k) == Abs(bank[k].amount - c.net)
<1>1. \A k \in free : k \in Nat /\ gap(k) \in Nat
  <2>1. ASSUME NEW k \in free PROVE k \in Nat /\ gap(k) \in Nat
    <3>1. k \in Nat /\ bank[k] \in Line
      OBVIOUS
    <3>2. bank[k].amount \in Int /\ c.net \in Int
      BY <3>1 DEF Line, Taking
    <3>3. QED
      BY <3>1, <3>2 DEF Abs
  <2>2. QED
    BY <2>1
<1> DEFINE G == {gap(k) : k \in free}
<1>2. PICK g \in G : \A h \in G : g <= h
  <2>1. G \in SUBSET Nat /\ G # {}
    BY <1>1
  <2> HIDE DEF G
  <2>2. QED
    BY <2>1, LeastNat
<1> DEFINE N == {k \in free : gap(k) = g}
<1>3. PICK k \in N : \A j \in N : k <= j
  <2>1. N \in SUBSET Nat /\ N # {}
    BY <1>1
  <2> HIDE DEF N
  <2>2. QED
    BY <2>1, LeastNat
<1>4. \A j \in free : gap(k) < gap(j) \/ (gap(k) = gap(j) /\ k <= j)
  <2>1. ASSUME NEW j \in free PROVE gap(k) < gap(j) \/ (gap(k) = gap(j) /\ k <= j)
    <3>1. gap(k) = g /\ g <= gap(j) /\ gap(j) \in Nat /\ g \in Nat
      BY <1>1, <1>2
    <3>2. gap(j) = g => k <= j
      BY <1>3
    <3> HIDE DEF gap
    <3>3. QED
      BY <3>1, <3>2
  <2>2. QED
    BY <2>1
<1>5. QED
  BY <1>4 DEF Nearest

AllResults(cash, bank) ==
  [kind : {"match", "amount_diff", "single_cash", "time_lag"}, cash : 1 .. Len(cash), line : 0 .. Len(bank)]

(* What the passes have paired: each of the takings and each line once.     *)
PairsUp(R, cash, bank) ==
  /\ R \subseteq AllResults(cash, bank) /\ IsFiniteSet(R)
  /\ \A r \in R : Eligible(cash[r.cash]) /\ r.line \notin Duplicates(bank)
  /\ \A r, s \in R : r.cash = s.cash \/ (r.line = s.line /\ r.line # 0) => r = s

(* What the first passes have paired of the first i takings.                *)
Matched(R, cash, bank, days, i) ==
  \A r \in R : /\ r.cash \in 1 .. i /\ r.line \in 1 .. Len(bank)
               /\ Reachable(cash[r.cash], bank[r.line], days) /\ Settles(bank[r.line], cash[r.cash])

(* The third pass leaves none of the first i takings out.                   *)
Covered(R, cash, i) == \A j \in 1 .. i : Eligible(cash[j]) => \E r \in R : r.cash = j

LEMMA AddResult ==
  ASSUME NEW cash, NEW bank, NEW R, PairsUp(R, cash, bank),
         NEW r \in AllResults(cash, bank), Eligible(cash[r.cash]), r.line \notin Duplicates(bank),
         \A s \in R : s.cash # r.cash, r.line = 0 \/ r.line \notin Used(R)
  PROVE  PairsUp(R \union {r}, cash, bank)
<1>1. IsFiniteSet(R \union {r})
  BY FS_AddElement DEF PairsUp
<1>2. \A s \in R : r.line # 0 => s.line # r.line
  BY DEF Used
<1>3. QED
  BY <1>1, <1>2 DEF PairsUp

LEMMA MatchOneTyped ==
  ASSUME NEW cash \in Seq(Taking), NEW bank \in Seq(Line), NEW days, NEW R \in SUBSET AllResults(cash, bank),
         NEW i \in 1 .. Len(cash)
  PROVE  MatchOne(R, cash, bank, days, i) \in SUBSET AllResults(cash, bank)
<1> DEFINE fit == {k \in FreeLines(R, cash[i], bank, days) : Settles(bank[k], cash[i])}
<1>1. fit \in SUBSET (1 .. Len(bank))
  BY DEF FreeLines
<1>2. fit # {} => Min(fit) \in 1 .. Len(bank)
  <2> HIDE DEF fit
  <2>1. fit \in SUBSET Nat
    BY <1>1
  <2>2. QED
    BY <1>1, <2>1, MinIs
<1>3. MatchOne(R, cash, bank, days, i) =
        IF ~Eligible(cash[i]) \/ fit = {} THEN R ELSE R \union {Result("match", i, Min(fit))}
  BY DEF MatchOne
<1> HIDE DEF fit
<1>4. QED
  BY <1>2, <1>3 DEF Result, AllResults

LEMMA DifferOneTyped ==
  ASSUME NEW cash \in Seq(Taking), NEW bank \in Seq(Line), NEW days, NEW R \in SUBSET AllResults(cash, bank),
         NEW i \in 1 .. Len(cash)
  PROVE  DifferOne(R, cash, bank, days, i) \in SUBSET AllResults(cash, bank)
<1> DEFINE free == FreeLines(R, cash[i], bank, days)
<1>1. free \in SUBSET DOMAIN bank /\ cash[i] \in Taking
  BY DEF FreeLines
<1> HIDE DEF free
<1>2. free # {} => Nearest(cash[i], bank, free) \in 1 .. Len(bank)
  BY <1>1, NearestIs
<1>3. 0 \in 0 .. Len(bank) /\ 1 .. Len(bank) \subseteq 0 .. Len(bank)
  OBVIOUS
<1>4. QED
  BY <1>2, <1>3 DEF DifferOne, Result, AllResults, free

(* The recursive functions of Match and Differ are there.                   *)
MatchRuns(f, cash, bank, days) ==
  f[0] = {} /\ \A i \in 1 .. Len(cash) : f[i] = MatchOne(f[i - 1], cash, bank, days, i)

DifferRuns(f, cash, bank, days, M) ==
  f[0] = M /\ \A i \in 1 .. Len(cash) : f[i] = DifferOne(f[i - 1], cash, bank, days, i)

LEMMA MatchSteps ==
  ASSUME NEW cash \in Seq(Taking), NEW bank \in Seq(Line), NEW days
  PROVE  \E f \in [0 .. Len(cash) -> SUBSET AllResults(cash, bank)] :
           MatchRuns(f, cash, bank, days) /\ f[Len(cash)] = Match(cash, bank, days)
<1> DEFINE m == Len(cash)
<1> DEFINE V == SUBSET AllResults(cash, bank)
<1> DEFINE step == [x \in (0 + 1 .. m) \X V |-> MatchOne(x[2], cash, bank, days, x[1])]
<1>1. m \in Nat /\ 0 + 1 .. m = 1 .. m
  OBVIOUS
<1>2. step \in [(0 + 1 .. m) \X V -> V]
  BY <1>1, MatchOneTyped
<1>3. \E f \in [0 .. m -> V] : Follows(f, 0, m, {}, step)
  <2>1. {} \in V /\ 0 \in Nat /\ 0 <= m
    OBVIOUS
  <2> HIDE DEF V, step, m
  <2>2. QED
    BY <1>1, <1>2, <2>1, Recursion
<1>4. PICK f \in [0 .. m -> V] : Follows(f, 0, m, {}, step)
  BY <1>3
<1> DEFINE Is(g) == g = [i \in 0 .. Len(cash) |->
      IF i = 0 THEN {} ELSE MatchOne(g[i - 1], cash, bank, days, i)]
<1>5. f[0] = {} /\ \A i \in 1 .. m : f[i] = MatchOne(f[i - 1], cash, bank, days, i)
  <2>1. ASSUME NEW i \in 1 .. m PROVE f[i] = MatchOne(f[i - 1], cash, bank, days, i)
    <3>1. i - 1 \in 0 .. m
      BY <1>1
    <3>2. <<i, f[i - 1]>> \in (0 + 1 .. m) \X V
      BY <1>1, <1>4, <3>1
    <3>3. f[i] = step[<<i, f[i - 1]>>]
      BY <1>1, <1>4 DEF Follows
    <3>4. step[<<i, f[i - 1]>>] = MatchOne(f[i - 1], cash, bank, days, i)
      BY <3>2
    <3>5. QED
      BY <3>3, <3>4
  <2>2. QED
    BY <1>4, <2>1 DEF Follows
<1>6. \A g : Is(g) => g \in [0 .. m -> V] /\ g = f
  <2>1. ASSUME NEW g, Is(g) PROVE g = f
    <3> DEFINE S == {n \in Nat : n <= m => g[n] = f[n]}
    <3>1. \A i \in 0 .. m : g[i] = IF i = 0 THEN {} ELSE MatchOne(g[i - 1], cash, bank, days, i)
      BY <2>1
    <3>2. DOMAIN g = 0 .. m /\ g = [i \in 0 .. m |-> g[i]]
      BY <2>1
    <3> HIDE DEF Is
    <3>3. 0 \in S
      <4>1. 0 \in 0 .. m
        BY <1>1
      <4>2. g[0] = {}
        BY <3>1, <4>1
      <4>3. QED
        BY <1>5, <4>2
    <3>4. ASSUME NEW n \in S PROVE n + 1 \in S
      <4>1. ASSUME n + 1 <= m PROVE g[n + 1] = f[n + 1]
        <5> n \in Nat
          BY <3>4
        <5>1. n \in Nat /\ n + 1 \in 1 .. m /\ n + 1 \in 0 .. m /\ n + 1 # 0 /\ (n + 1) - 1 = n
          <6> HIDE DEF S, m
          <6>1. m \in Nat
            BY <1>1
          <6> QED
            BY <4>1, <6>1
        <5>2. g[n + 1] = MatchOne(g[n], cash, bank, days, n + 1)
          BY <3>1, <5>1
        <5>3. f[n + 1] = MatchOne(f[n], cash, bank, days, n + 1)
          BY <1>5, <5>1
        <5>4. g[n] = f[n]
          BY <5>1
        <5>5. QED
          BY <5>2, <5>3, <5>4
      <4>2. QED
        BY <4>1
    <3>5. S = Nat
      <4>1. S \in SUBSET Nat
        OBVIOUS
      <4> HIDE DEF S
      <4>2. QED
        BY <3>3, <3>4, <4>1, SetInduction
    <3>6. \A n \in 0 .. m : g[n] = f[n]
      BY <1>1, <3>5
    <3>7. QED
      BY <1>4, <3>2, <3>6
  <2>2. QED
    BY <1>4, <2>1
<1>7. Is(f)
  <2>1. \A i \in 0 .. m : f[i] = IF i = 0 THEN {} ELSE MatchOne(f[i - 1], cash, bank, days, i)
    BY <1>1, <1>5
  <2>2. f = [i \in 0 .. m |-> f[i]]
    BY <1>4
  <2>3. QED
    BY <2>1, <2>2
<1>8. Match(cash, bank, days) = f[m]
  <2>1. Is(CHOOSE g : Is(g))
    BY <1>7
  <2>2. (CHOOSE g : Is(g)) = f
    BY <1>6, <2>1
  <2>3. QED
    BY <2>2 DEF Match
<1>9. QED
  BY <1>4, <1>5, <1>8 DEF MatchRuns

LEMMA DifferSteps ==
  ASSUME NEW cash \in Seq(Taking), NEW bank \in Seq(Line), NEW days, NEW M \in SUBSET AllResults(cash, bank)
  PROVE  \E f \in [0 .. Len(cash) -> SUBSET AllResults(cash, bank)] :
           DifferRuns(f, cash, bank, days, M) /\ f[Len(cash)] = Differ(cash, bank, days, M)
<1> DEFINE m == Len(cash)
<1> DEFINE V == SUBSET AllResults(cash, bank)
<1> DEFINE step == [x \in (0 + 1 .. m) \X V |-> DifferOne(x[2], cash, bank, days, x[1])]
<1>1. m \in Nat /\ 0 + 1 .. m = 1 .. m
  OBVIOUS
<1>2. step \in [(0 + 1 .. m) \X V -> V]
  BY <1>1, DifferOneTyped
<1>3. \E f \in [0 .. m -> V] : Follows(f, 0, m, M, step)
  <2>1. M \in V /\ 0 \in Nat /\ 0 <= m
    OBVIOUS
  <2> HIDE DEF V, step, m
  <2>2. QED
    BY <1>1, <1>2, <2>1, Recursion
<1>4. PICK f \in [0 .. m -> V] : Follows(f, 0, m, M, step)
  BY <1>3
<1> DEFINE Is(g) == g = [i \in 0 .. Len(cash) |->
      IF i = 0 THEN M ELSE DifferOne(g[i - 1], cash, bank, days, i)]
<1>5. f[0] = M /\ \A i \in 1 .. m : f[i] = DifferOne(f[i - 1], cash, bank, days, i)
  <2>1. ASSUME NEW i \in 1 .. m PROVE f[i] = DifferOne(f[i - 1], cash, bank, days, i)
    <3>1. i - 1 \in 0 .. m
      BY <1>1
    <3>2. <<i, f[i - 1]>> \in (0 + 1 .. m) \X V
      BY <1>1, <1>4, <3>1
    <3>3. f[i] = step[<<i, f[i - 1]>>]
      BY <1>1, <1>4 DEF Follows
    <3>4. step[<<i, f[i - 1]>>] = DifferOne(f[i - 1], cash, bank, days, i)
      BY <3>2
    <3>5. QED
      BY <3>3, <3>4
  <2>2. QED
    BY <1>4, <2>1 DEF Follows
<1>6. \A g : Is(g) => g \in [0 .. m -> V] /\ g = f
  <2>1. ASSUME NEW g, Is(g) PROVE g = f
    <3> DEFINE S == {n \in Nat : n <= m => g[n] = f[n]}
    <3>1. \A i \in 0 .. m : g[i] = IF i = 0 THEN M ELSE DifferOne(g[i - 1], cash, bank, days, i)
      BY <2>1
    <3>2. DOMAIN g = 0 .. m /\ g = [i \in 0 .. m |-> g[i]]
      BY <2>1
    <3> HIDE DEF Is
    <3>3. 0 \in S
      <4>1. 0 \in 0 .. m
        BY <1>1
      <4>2. g[0] = M
        BY <3>1, <4>1
      <4>3. QED
        BY <1>5, <4>2
    <3>4. ASSUME NEW n \in S PROVE n + 1 \in S
      <4>1. ASSUME n + 1 <= m PROVE g[n + 1] = f[n + 1]
        <5> n \in Nat
          BY <3>4
        <5>1. n \in Nat /\ n + 1 \in 1 .. m /\ n + 1 \in 0 .. m /\ n + 1 # 0 /\ (n + 1) - 1 = n
          <6> HIDE DEF S, m
          <6>1. m \in Nat
            BY <1>1
          <6> QED
            BY <4>1, <6>1
        <5>2. g[n + 1] = DifferOne(g[n], cash, bank, days, n + 1)
          BY <3>1, <5>1
        <5>3. f[n + 1] = DifferOne(f[n], cash, bank, days, n + 1)
          BY <1>5, <5>1
        <5>4. g[n] = f[n]
          BY <5>1
        <5>5. QED
          BY <5>2, <5>3, <5>4
      <4>2. QED
        BY <4>1
    <3>5. S = Nat
      <4>1. S \in SUBSET Nat
        OBVIOUS
      <4> HIDE DEF S
      <4>2. QED
        BY <3>3, <3>4, <4>1, SetInduction
    <3>6. \A n \in 0 .. m : g[n] = f[n]
      BY <1>1, <3>5
    <3>7. QED
      BY <1>4, <3>2, <3>6
  <2>2. QED
    BY <1>4, <2>1
<1>7. Is(f)
  <2>1. \A i \in 0 .. m : f[i] = IF i = 0 THEN M ELSE DifferOne(f[i - 1], cash, bank, days, i)
    BY <1>1, <1>5
  <2>2. f = [i \in 0 .. m |-> f[i]]
    BY <1>4
  <2>3. QED
    BY <2>1, <2>2
<1>8. Differ(cash, bank, days, M) = f[m]
  <2>1. Is(CHOOSE g : Is(g))
    BY <1>7
  <2>2. (CHOOSE g : Is(g)) = f
    BY <1>6, <2>1
  <2>3. QED
    BY <2>2 DEF Differ
<1>9. QED
  BY <1>4, <1>5, <1>8 DEF DifferRuns

LEMMA MatchOnePairs ==
  ASSUME NEW cash \in Seq(Taking), NEW bank \in Seq(Line), NEW days, NEW R, NEW i \in 1 .. Len(cash),
         PairsUp(R, cash, bank), Matched(R, cash, bank, days, i - 1)
  PROVE  /\ PairsUp(MatchOne(R, cash, bank, days, i), cash, bank)
         /\ Matched(MatchOne(R, cash, bank, days, i), cash, bank, days, i)
<1> DEFINE fit == {k \in FreeLines(R, cash[i], bank, days) : Settles(bank[k], cash[i])}
<1> DEFINE k == Min(fit)
<1> DEFINE r == Result("match", i, k)
<1>1. MatchOne(R, cash, bank, days, i) = IF ~Eligible(cash[i]) \/ fit = {} THEN R ELSE R \union {r}
  BY DEF MatchOne
<1>2. Matched(R, cash, bank, days, i)
  BY DEF Matched
<1>3. CASE ~Eligible(cash[i]) \/ fit = {}
  BY <1>1, <1>2, <1>3
<1>4. CASE Eligible(cash[i]) /\ fit # {}
  <2>1. k \in fit
    <3>1. fit \in SUBSET Nat
      BY DEF FreeLines
    <3> HIDE DEF fit
    <3>2. QED
      BY <1>4, <3>1, MinIs
  <2>2. /\ k \in 1 .. Len(bank) /\ k \notin Used(R) /\ k \notin Duplicates(bank)
        /\ Reachable(cash[i], bank[k], days) /\ Settles(bank[k], cash[i])
    BY <2>1 DEF FreeLines
  <2> HIDE DEF fit, k
  <2>3. r \in AllResults(cash, bank) /\ r.cash = i /\ r.line = k
    BY <2>2 DEF AllResults, Result
  <2>4. \A s \in R : s.cash # i
    BY DEF Matched
  <2> HIDE DEF r
  <2>5. PairsUp(R \union {r}, cash, bank)
    BY <1>4, <2>2, <2>3, <2>4, AddResult
  <2>6. Matched(R \union {r}, cash, bank, days, i)
    BY <1>2, <2>2, <2>3 DEF Matched
  <2>7. QED
    BY <1>1, <1>4, <2>5, <2>6
<1>5. QED
  BY <1>3, <1>4

LEMMA NothingPaired ==
  ASSUME NEW cash, NEW bank, NEW days
  PROVE  PairsUp({}, cash, bank) /\ Matched({}, cash, bank, days, 0)
BY FS_EmptySet DEF PairsUp, Matched

(* Every stage of the first passes.                                         *)
LEMMA MatchPairs ==
  ASSUME NEW cash \in Seq(Taking), NEW bank \in Seq(Line), NEW days,
         NEW f, MatchRuns(f, cash, bank, days)
  PROVE  \A i \in 0 .. Len(cash) : PairsUp(f[i], cash, bank) /\ Matched(f[i], cash, bank, days, i)
<1> DEFINE m == Len(cash)
<1> DEFINE S == {n \in Nat : n <= m => PairsUp(f[n], cash, bank) /\ Matched(f[n], cash, bank, days, n)}
<1>1. m \in Nat
  OBVIOUS
<1>2. 0 \in S
  BY NothingPaired DEF MatchRuns
<1>3. ASSUME NEW n \in S PROVE n + 1 \in S
  <2>1. ASSUME n + 1 <= m
        PROVE  PairsUp(f[n + 1], cash, bank) /\ Matched(f[n + 1], cash, bank, days, n + 1)
    <3>1. n \in Nat /\ n + 1 \in 1 .. m /\ (n + 1) - 1 = n
      BY <1>1, <2>1
    <3>2. PairsUp(f[n], cash, bank) /\ Matched(f[n], cash, bank, days, n)
      BY <1>1, <2>1, <3>1
    <3>3. f[n + 1] = MatchOne(f[n], cash, bank, days, n + 1)
      BY <3>1 DEF MatchRuns
    <3> DEFINE i == n + 1
    <3>4. i \in 1 .. Len(cash) /\ Matched(f[n], cash, bank, days, i - 1)
      BY <3>1, <3>2
    <3> HIDE DEF i
    <3>5. /\ PairsUp(MatchOne(f[n], cash, bank, days, i), cash, bank)
          /\ Matched(MatchOne(f[n], cash, bank, days, i), cash, bank, days, i)
      BY <3>2, <3>4, MatchOnePairs
    <3>6. QED
      BY <3>3, <3>5 DEF i
  <2>2. QED
    BY <2>1
<1>4. S = Nat
  <2>1. S \in SUBSET Nat
    OBVIOUS
  <2> HIDE DEF S
  <2>2. QED
    BY <1>2, <1>3, <2>1, SetInduction
<1>5. QED
  BY <1>1, <1>4

LEMMA DifferOnePairs ==
  ASSUME NEW cash \in Seq(Taking), NEW bank \in Seq(Line), NEW days, NEW R, NEW i \in 1 .. Len(cash),
         PairsUp(R, cash, bank), Covered(R, cash, i - 1)
  PROVE  /\ PairsUp(DifferOne(R, cash, bank, days, i), cash, bank)
         /\ Covered(DifferOne(R, cash, bank, days, i), cash, i)
<1> DEFINE free == FreeLines(R, cash[i], bank, days)
<1> DEFINE r == IF free # {} THEN Result("amount_diff", i, Nearest(cash[i], bank, free))
                ELSE IF \E k \in DOMAIN bank : Reachable(cash[i], bank[k], days) THEN Result("single_cash", i, 0)
                ELSE Result("time_lag", i, 0)
<1>1. DifferOne(R, cash, bank, days, i) =
        IF ~Eligible(cash[i]) \/ \E x \in R : x.cash = i THEN R ELSE R \union {r}
  BY DEF DifferOne
<1>2. CASE ~Eligible(cash[i]) \/ \E x \in R : x.cash = i
  <2>1. Covered(R, cash, i)
    <3>1. \A j \in 1 .. i : j = i \/ j \in 1 .. i - 1
      OBVIOUS
    <3>2. QED
      BY <1>2, <3>1 DEF Covered
  <2>2. QED
    BY <1>1, <1>2, <2>1
<1>3. CASE Eligible(cash[i]) /\ \A x \in R : x.cash # i
  <2>1. free \in SUBSET (1 .. Len(bank)) /\ cash[i] \in Taking /\ free \in SUBSET DOMAIN bank
    BY DEF FreeLines
  <2>2. \A k \in free : k \notin Used(R) /\ k \notin Duplicates(bank)
    BY DEF FreeLines
  <2> HIDE DEF free
  <2>3. free # {} => Nearest(cash[i], bank, free) \in free
    BY <2>1, NearestIs
  <2>4. 0 \notin Duplicates(bank)
    BY DEF Duplicates
  <2>5. r \in AllResults(cash, bank) /\ r.cash = i /\ (r.line \in free \/ r.line = 0)
    BY <2>1, <2>3 DEF AllResults, Result
  <2> HIDE DEF r
  <2>6. PairsUp(R \union {r}, cash, bank)
    <3>1. r.line \notin Duplicates(bank) /\ (r.line = 0 \/ r.line \notin Used(R)) /\ Eligible(cash[r.cash])
      BY <1>3, <2>2, <2>4, <2>5
    <3>2. \A x \in R : x.cash # r.cash
      BY <1>3, <2>5
    <3>3. QED
      BY <2>5, <3>1, <3>2, AddResult
  <2>7. Covered(R \union {r}, cash, i)
    <3>1. \A j \in 1 .. i : j = i \/ j \in 1 .. i - 1
      OBVIOUS
    <3>2. QED
      BY <2>5, <3>1 DEF Covered
  <2>8. QED
    BY <1>1, <1>3, <2>6, <2>7
<1>4. QED
  BY <1>2, <1>3

LEMMA DifferPairs ==
  ASSUME NEW cash \in Seq(Taking), NEW bank \in Seq(Line), NEW days, NEW M, PairsUp(M, cash, bank),
         NEW f, DifferRuns(f, cash, bank, days, M)
  PROVE  \A i \in 0 .. Len(cash) : PairsUp(f[i], cash, bank) /\ Covered(f[i], cash, i)
<1> DEFINE m == Len(cash)
<1> DEFINE S == {n \in Nat : n <= m => PairsUp(f[n], cash, bank) /\ Covered(f[n], cash, n)}
<1>1. m \in Nat
  OBVIOUS
<1>2. 0 \in S
  BY DEF Covered, DifferRuns
<1>3. ASSUME NEW n \in S PROVE n + 1 \in S
  <2>1. ASSUME n + 1 <= m
        PROVE  PairsUp(f[n + 1], cash, bank) /\ Covered(f[n + 1], cash, n + 1)
    <3>1. n \in Nat /\ n + 1 \in 1 .. m /\ (n + 1) - 1 = n
      BY <1>1, <2>1
    <3>2. PairsUp(f[n], cash, bank) /\ Covered(f[n], cash, n)
      BY <1>1, <2>1, <3>1
    <3>3. f[n + 1] = DifferOne(f[n], cash, bank, days, n + 1)
      BY <3>1 DEF DifferRuns
    <3> DEFINE i == n + 1
    <3>4. i \in 1 .. Len(cash) /\ Covered(f[n], cash, i - 1)
      BY <3>1, <3>2
    <3> HIDE DEF i
    <3>5. /\ PairsUp(DifferOne(f[n], cash, bank, days, i), cash, bank)
          /\ Covered(DifferOne(f[n], cash, bank, days, i), cash, i)
      BY <3>2, <3>4, DifferOnePairs
    <3>6. QED
      BY <3>3, <3>5 DEF i
  <2>2. QED
    BY <2>1
<1>4. S = Nat
  <2>1. S \in SUBSET Nat
    OBVIOUS
  <2> HIDE DEF S
  <2>2. QED
    BY <1>2, <1>3, <2>1, SetInduction
<1>5. QED
  BY <1>1, <1>4

LEMMA PairedPairs ==
  ASSUME NEW cash \in Seq(Taking), NEW bank \in Seq(Line), NEW days
  PROVE  PairsUp(Paired(cash, bank, days), cash, bank) /\ Covered(Paired(cash, bank, days), cash, Len(cash))
<1> DEFINE M == Match(cash, bank, days)
<1>1. Len(cash) \in 0 .. Len(cash)
  OBVIOUS
<1>2. PairsUp(M, cash, bank)
  <2>1. PICK f \in [0 .. Len(cash) -> SUBSET AllResults(cash, bank)] :
          MatchRuns(f, cash, bank, days) /\ f[Len(cash)] = M
    BY MatchSteps
  <2>2. PairsUp(f[Len(cash)], cash, bank)
    BY <1>1, <2>1, MatchPairs
  <2>3. QED
    BY <2>1, <2>2
<1>3. M \in SUBSET AllResults(cash, bank)
  BY <1>2 DEF PairsUp
<1> HIDE DEF M
<1>4. PICK f \in [0 .. Len(cash) -> SUBSET AllResults(cash, bank)] :
        DifferRuns(f, cash, bank, days, M) /\ f[Len(cash)] = Differ(cash, bank, days, M)
  BY <1>3, DifferSteps
<1>5. PairsUp(f[Len(cash)], cash, bank) /\ Covered(f[Len(cash)], cash, Len(cash))
  BY <1>1, <1>2, <1>4, DifferPairs
<1>6. QED
  BY <1>4, <1>5 DEF Paired, M

-----------------------------------------------------------------------------
(* Nothing is lost.                                                         *)
LEMMA ResultsAre ==
  ASSUME NEW cash, NEW bank, NEW days, NEW r
  PROVE  r \in Results(cash, bank, days) <=>
           \/ r \in Paired(cash, bank, days)
           \/ \E i \in DOMAIN cash : cash[i].method = Unmapped /\ r = Result("unmapped", i, 0)
           \/ \E k \in Duplicates(bank) : r = Result("duplicate", 0, k)
           \/ \E k \in DOMAIN bank : /\ k \notin Used(Paired(cash, bank, days)) /\ k \notin Duplicates(bank)
                                     /\ r = Result("single_bank", 0, k)
BY Zenon DEF Results

Single(S) == \E x : S = {x}
OfLine(results, k) == {r \in results : r.line = k}

LEMMA EachLine ==
  ASSUME NEW cash \in Seq(Taking), NEW bank \in Seq(Line), NEW days, NEW k \in 1 .. Len(bank)
  PROVE  Single(OfLine(Results(cash, bank, days), k))
<1> DEFINE P == Paired(cash, bank, days)
<1> DEFINE R == Results(cash, bank, days)
<1>1. PairsUp(P, cash, bank)
  BY PairedPairs
<1>2. \A r : r \in R <=>
           \/ r \in P
           \/ \E i \in DOMAIN cash : cash[i].method = Unmapped /\ r = Result("unmapped", i, 0)
           \/ \E n \in Duplicates(bank) : r = Result("duplicate", 0, n)
           \/ \E n \in DOMAIN bank : n \notin Used(P) /\ n \notin Duplicates(bank) /\ r = Result("single_bank", 0, n)
  BY ResultsAre
<1>3. k # 0 /\ DOMAIN bank = 1 .. Len(bank) /\ k \in DOMAIN bank
  OBVIOUS
<1>4. \A kind, i, n : Result(kind, i, n).line = n
  BY DEF Result
<1> HIDE DEF P, R
<1>5. CASE k \in Duplicates(bank)
  <2> DEFINE x == Result("duplicate", 0, k)
  <2>1. x \in R /\ x.line = k
    BY <1>2, <1>4, <1>5
  <2>2. \A r \in R : r.line = k => r = x
    BY <1>1, <1>2, <1>3, <1>4, <1>5 DEF PairsUp
  <2> HIDE DEF x
  <2>3. {r \in R : r.line = k} = {x}
    BY <2>1, <2>2
  <2>4. QED
    BY <2>3 DEF R, Single, OfLine
<1>6. CASE k \notin Duplicates(bank) /\ k \in Used(P)
  <2>1. PICK x \in P : x.line = k
    BY <1>6 DEF Used
  <2>2. x \in R
    BY <1>2, <2>1
  <2>3. \A r \in R : r.line = k => r = x
    BY <1>1, <1>2, <1>3, <1>4, <1>6, <2>1 DEF PairsUp
  <2>4. {r \in R : r.line = k} = {x}
    BY <2>1, <2>2, <2>3
  <2>5. QED
    BY <2>4 DEF R, Single, OfLine
<1>7. CASE k \notin Duplicates(bank) /\ k \notin Used(P)
  <2> DEFINE x == Result("single_bank", 0, k)
  <2>1. x \in R /\ x.line = k
    BY <1>2, <1>3, <1>4, <1>7
  <2>2. \A r \in P : r.line # k
    BY <1>3, <1>7 DEF Used
  <2>3. \A r \in R : r.line = k => r = x
    BY <1>2, <1>3, <1>4, <1>7, <2>2
  <2> HIDE DEF x
  <2>4. {r \in R : r.line = k} = {x}
    BY <2>1, <2>3
  <2>5. QED
    BY <2>4 DEF R, Single, OfLine
<1>8. QED
  BY <1>5, <1>6, <1>7

LEMMA EachTaking ==
  ASSUME NEW cash \in Seq(Taking), NEW bank \in Seq(Line), NEW days, NEW i \in 1 .. Len(cash)
  PROVE  IF cash[i].method = Unmapped \/ Eligible(cash[i])
         THEN \E x : {r \in Results(cash, bank, days) : r.cash = i} = {x}
         ELSE {r \in Results(cash, bank, days) : r.cash = i} = {}
<1> DEFINE P == Paired(cash, bank, days)
<1> DEFINE R == Results(cash, bank, days)
<1>1. PairsUp(P, cash, bank) /\ Covered(P, cash, Len(cash))
  BY PairedPairs
<1>2. \A r : r \in R <=>
           \/ r \in P
           \/ \E n \in DOMAIN cash : cash[n].method = Unmapped /\ r = Result("unmapped", n, 0)
           \/ \E k \in Duplicates(bank) : r = Result("duplicate", 0, k)
           \/ \E k \in DOMAIN bank : k \notin Used(P) /\ k \notin Duplicates(bank) /\ r = Result("single_bank", 0, k)
  BY ResultsAre
<1>3. i # 0 /\ DOMAIN cash = 1 .. Len(cash) /\ i \in DOMAIN cash
  OBVIOUS
<1>4. \A kind, n, k : Result(kind, n, k).cash = n
  BY DEF Result
<1>5. \A r \in P : Eligible(cash[r.cash])
  BY <1>1 DEF PairsUp
<1>6. Eligible(cash[i]) => cash[i].method # Unmapped
  BY EngineAssumption DEF Eligible
<1> HIDE DEF P, R
<1>7. CASE cash[i].method = Unmapped
  <2> DEFINE x == Result("unmapped", i, 0)
  <2>1. x \in R /\ x.cash = i
    BY <1>2, <1>3, <1>4, <1>7
  <2>2. \A r \in P : r.cash # i
    BY <1>5, <1>6, <1>7
  <2>3. \A r \in R : r.cash = i => r = x
    BY <1>2, <1>3, <1>4, <2>2
  <2> HIDE DEF x
  <2>4. {r \in R : r.cash = i} = {x}
    BY <2>1, <2>3
  <2>5. QED
    BY <1>7, <2>4 DEF R
<1>8. CASE Eligible(cash[i])
  <2>1. PICK x \in P : x.cash = i
    BY <1>1, <1>8 DEF Covered
  <2>2. x \in R
    BY <1>2, <2>1
  <2>3. \A r \in R : r.cash = i => r = x
    BY <1>1, <1>2, <1>3, <1>4, <1>6, <1>8, <2>1 DEF PairsUp
  <2>4. {r \in R : r.cash = i} = {x}
    BY <2>1, <2>2, <2>3
  <2>5. QED
    BY <1>8, <2>4 DEF R
<1>9. CASE cash[i].method # Unmapped /\ ~Eligible(cash[i])
  <2>1. \A r \in R : r.cash # i
    BY <1>2, <1>3, <1>4, <1>5, <1>9
  <2>2. {r \in R : r.cash = i} = {}
    BY <2>1
  <2>3. QED
    BY <1>9, <2>2 DEF R
<1>10. QED
  BY <1>7, <1>8, <1>9

LEMMA OnceIs ==
  ASSUME NEW S, \E x : S = {x}
  PROVE  Once(S)
BY FS_Singleton DEF Once

(* Every line, and every one of the takings that a rule is for, is in one   *)
(* result of Run.                                                           *)
THEOREM RunAccountsForAll ==
  ASSUME NEW in \in Inputs
  PROVE  Accounted(in)
<1> DEFINE cash == Cash(in)
<1> DEFINE bank == Bank(in)
<1> DEFINE span == InSpan(in.takings, in.from, in.to)
<1> DEFINE R == Run(in)
<1>1. cash \in Seq(Taking) /\ Lists(cash, span)
  BY CashSorted
<1>2. bank \in Seq(Line) /\ Lists(bank, in.lines)
  BY BankSorted
<1>3. DOMAIN cash = 1 .. Len(cash) /\ DOMAIN bank = 1 .. Len(bank) /\ 0 \notin DOMAIN cash /\ 0 \notin DOMAIN bank
  BY <1>1, <1>2
<1>4. \A r \in R : /\ r.line # 0 => r.line \in DOMAIN bank
                   /\ r.cash # 0 => r.cash \in DOMAIN cash
  <2> DEFINE days == toleranceDays(in.tolerance)
  <2>1. PairsUp(Paired(cash, bank, days), cash, bank)
    BY <1>1, <1>2, PairedPairs
  <2>2. \A kind, n, k : Result(kind, n, k).cash = n /\ Result(kind, n, k).line = k
    BY DEF Result
  <2>3. \A r \in Paired(cash, bank, days) : r.cash \in 1 .. Len(cash) /\ r.line \in 0 .. Len(bank)
    BY <2>1 DEF PairsUp, AllResults
  <2>4. Duplicates(bank) \subseteq DOMAIN bank
    BY DEF Duplicates
  <2>5. R = Results(cash, bank, days)
    BY DEF Run
  <2> HIDE DEF cash, bank, days, R
  <2>6. ASSUME NEW r \in R
        PROVE  (r.line # 0 => r.line \in DOMAIN bank) /\ (r.cash # 0 => r.cash \in DOMAIN cash)
    <3>1. \/ r \in Paired(cash, bank, days)
          \/ \E i \in DOMAIN cash : cash[i].method = Unmapped /\ r = Result("unmapped", i, 0)
          \/ \E k \in Duplicates(bank) : r = Result("duplicate", 0, k)
          \/ \E k \in DOMAIN bank : r = Result("single_bank", 0, k)
      BY <2>5, ResultsAre
    <3>2. QED
      BY <1>3, <2>2, <2>3, <2>4, <3>1
  <2>7. QED
    BY <2>6
<1>5. R = Results(cash, bank, toleranceDays(in.tolerance))
  BY DEF Run
<1> HIDE DEF cash, bank, span, R
<1>6. ASSUME NEW f \in in.lines
      PROVE  Once({r \in R : r.line # 0 /\ bank[r.line] = f})
  <2>1. PICK k \in DOMAIN bank : bank[k] = f
    BY <1>2 DEF Lists
  <2>2. \A n \in DOMAIN bank : bank[n] = f <=> n = k
    BY <1>2, <2>1 DEF Lists
  <2>3. {r \in R : r.line # 0 /\ bank[r.line] = f} = {r \in R : r.line = k}
    <3>1. ASSUME NEW r \in R PROVE r.line # 0 /\ bank[r.line] = f <=> r.line = k
      <4>1. k \in DOMAIN bank
        OBVIOUS
      <4>2. k # 0
        BY <1>3, <4>1, Zenon
      <4>3. r.line # 0 => r.line \in DOMAIN bank
        BY <1>4, Zenon
      <4>4. QED
        BY <2>2, <4>1, <4>2, <4>3, Zenon
    <3>2. QED
      BY <3>1
  <2>4. \E x : {r \in R : r.line = k} = {x}
    <3>1. k \in 1 .. Len(bank) /\ cash \in Seq(Taking) /\ bank \in Seq(Line)
      BY <1>1, <1>2, <1>3
    <3> DEFINE days == toleranceDays(in.tolerance)
    <3> HIDE DEF days
    <3>2. Single(OfLine(Results(cash, bank, days), k))
      BY <3>1, EachLine
    <3>3. QED
      BY <1>5, <3>2 DEF days, Single, OfLine
  <2>5. QED
    BY <2>3, <2>4, OnceIs
<1>7. ASSUME NEW c \in span
      PROVE  IF c.method = Unmapped \/ Eligible(c)
             THEN Once({r \in R : r.cash # 0 /\ cash[r.cash] = c})
             ELSE {r \in R : r.cash # 0 /\ cash[r.cash] = c} = {}
  <2>1. PICK i \in DOMAIN cash : cash[i] = c
    BY <1>1 DEF Lists
  <2>2. \A n \in DOMAIN cash : cash[n] = c <=> n = i
    BY <1>1, <2>1 DEF Lists
  <2>3. {r \in R : r.cash # 0 /\ cash[r.cash] = c} = {r \in R : r.cash = i}
    <3>1. ASSUME NEW r \in R PROVE r.cash # 0 /\ cash[r.cash] = c <=> r.cash = i
      <4>1. i \in DOMAIN cash
        OBVIOUS
      <4>2. i # 0
        BY <1>3, <4>1, Zenon
      <4>3. r.cash # 0 => r.cash \in DOMAIN cash
        BY <1>4, Zenon
      <4>4. QED
        BY <2>2, <4>1, <4>2, <4>3, Zenon
    <3>2. QED
      BY <3>1
  <2>4. IF c.method = Unmapped \/ Eligible(c)
        THEN \E x : {r \in R : r.cash = i} = {x}
        ELSE {r \in R : r.cash = i} = {}
    <3>1. i \in 1 .. Len(cash)
      BY <1>3
    <3>2. IF cash[i].method = Unmapped \/ Eligible(cash[i])
          THEN \E x : {r \in Results(cash, bank, toleranceDays(in.tolerance)) : r.cash = i} = {x}
          ELSE {r \in Results(cash, bank, toleranceDays(in.tolerance)) : r.cash = i} = {}
      BY <1>1, <1>2, <3>1, EachTaking
    <3>3. QED
      BY <1>5, <2>1, <3>2
  <2>5. QED
    BY <2>3, <2>4, OnceIs
<1>8. QED
  BY <1>6, <1>7 DEF Accounted, cash, bank, span, R

-----------------------------------------------------------------------------
(* No match is missed.  A pairing can be changed, taking by taking, until   *)
(* it is the one that Match makes, without losing a pair: the taking gets   *)
(* the first free line that settles it, and whoever had that line gets the  *)
(* one given back, which is a later one of the same amount.                 *)
Can(cash, bank, days, i, k) ==
  /\ Eligible(cash[i]) /\ k \notin Duplicates(bank)
  /\ Reachable(cash[i], bank[k], days) /\ Settles(bank[k], cash[i])

IsPairing(p, cash, bank, days) ==
  /\ p \in SUBSET ((1 .. Len(cash)) \X (1 .. Len(bank)))
  /\ \A a, k, b, l : <<a, k>> \in p /\ <<b, l>> \in p /\ (a = b \/ k = l) => a = b /\ k = l
  /\ \A a, k : <<a, k>> \in p => Can(cash, bank, days, a, k)

(* p pairs the first i takings as R does.                                   *)
Agrees(p, R, i) ==
  /\ \A a, k : <<a, k>> \in p /\ a <= i => \E r \in R : r.cash = a /\ r.line = k
  /\ \A r \in R : <<r.cash, r.line>> \in p

NetsApart(cash) ==
  \A i, j \in DOMAIN cash : cash[i].net # cash[j].net => Abs(cash[i].net - cash[j].net) > 2 * Tolerance

LEMMA PairingFinite ==
  ASSUME NEW cash \in Seq(Taking), NEW bank \in Seq(Line), NEW days, NEW p, IsPairing(p, cash, bank, days)
  PROVE  IsFiniteSet(p) /\ Cardinality(p) \in Nat
<1>1. IsFiniteSet(1 .. Len(cash)) /\ IsFiniteSet(1 .. Len(bank))
  BY FS_Interval
<1>2. IsFiniteSet((1 .. Len(cash)) \X (1 .. Len(bank)))
  BY <1>1, FS_Product
<1>3. QED
  BY <1>2, FS_Subset, FS_CardinalityType DEF IsPairing

LEMMA OneLess ==
  ASSUME NEW S, IsFiniteSet(S), NEW x
  PROVE  /\ IsFiniteSet(S \ {x}) /\ Cardinality(S) \in Nat /\ Cardinality(S \ {x}) \in Nat
         /\ Cardinality(S \ {x}) >= Cardinality(S) - 1
         /\ x \in S => Cardinality(S \ {x}) = Cardinality(S) - 1
<1>1. IsFiniteSet(S \ {x}) /\ Cardinality(S \ {x}) = IF x \in S THEN Cardinality(S) - 1 ELSE Cardinality(S)
  BY FS_RemoveElement
<1>2. Cardinality(S) \in Nat /\ Cardinality(S \ {x}) \in Nat
  BY <1>1, FS_CardinalityType
<1>3. QED
  BY <1>1, <1>2

LEMMA OneMore ==
  ASSUME NEW S, IsFiniteSet(S), NEW x, x \notin S
  PROVE  /\ IsFiniteSet(S \union {x}) /\ Cardinality(S) \in Nat /\ Cardinality(S \union {x}) \in Nat
         /\ Cardinality(S \union {x}) = Cardinality(S) + 1
<1>1. IsFiniteSet(S \union {x}) /\ Cardinality(S \union {x}) = Cardinality(S) + 1
  BY FS_AddElement
<1>2. Cardinality(S) \in Nat /\ Cardinality(S \union {x}) \in Nat
  BY <1>1, FS_CardinalityType
<1>3. QED
  BY <1>1, <1>2

LEMMA LaterInWindow ==
  ASSUME NEW ci \in Int, NEW ca \in Int, NEW bk \in Int, NEW bl \in Int, NEW days \in Nat,
         ci <= ca, bk <= bl, bk \in ca .. ca + days, bl \in ci .. ci + days
  PROVE  bl \in ca .. ca + days
OBVIOUS

LEMMA NearTwice ==
  ASSUME NEW x \in Int, NEW y \in Int, NEW amount \in Int, NEW fee \in Int,
         near(amount, x - fee), near(amount, y - fee)
  PROVE  ~ (Abs(x - y) > 2 * Tolerance)
BY DEF near, Abs, Tolerance

(* Who could have an earlier line of the same amount can have the later one *)
(* of someone who comes first.                                              *)
LEMMA CanSwap ==
  ASSUME NEW cash \in Seq(Taking), NEW bank \in Seq(Line), NEW days \in Nat,
         DaysRise(cash), DaysRise(bank), NetsApart(cash),
         NEW i \in 1 .. Len(cash), NEW a \in 1 .. Len(cash), i < a,
         NEW k \in 1 .. Len(bank), NEW l \in 1 .. Len(bank), k < l,
         Can(cash, bank, days, i, k), Can(cash, bank, days, i, l), Can(cash, bank, days, a, k)
  PROVE  Can(cash, bank, days, a, l)
<1>1. cash[i] \in Taking /\ cash[a] \in Taking /\ bank[k] \in Line /\ bank[l] \in Line
  OBVIOUS
<1>2. cash[i].day <= cash[a].day /\ bank[k].day <= bank[l].day
  BY DEF DaysRise
<1>3. Reachable(cash[a], bank[l], days)
  <2>1. bank[l].channel = cash[a].method
    BY DEF Can, Reachable
  <2>2. bank[k].day \in cash[a].day .. cash[a].day + days /\ bank[l].day \in cash[i].day .. cash[i].day + days
    BY DEF Can, Reachable
  <2>3. cash[i].day \in Int /\ cash[a].day \in Int /\ bank[k].day \in Int /\ bank[l].day \in Int
    BY <1>1 DEF Taking, Line
  <2>4. bank[l].day \in cash[a].day .. cash[a].day + days
    BY <1>2, <2>2, <2>3, LaterInWindow, Zenon
  <2>5. QED
    BY <2>1, <2>4 DEF Reachable
<1>4. cash[i].net = cash[a].net
  <2>1. cash[i].net \in Int /\ cash[a].net \in Int /\ bank[k].amount \in Int /\ bank[k].fee \in Int
    BY <1>1 DEF Taking, Line
  <2>2. near(bank[k].amount, cash[i].net - bank[k].fee) /\ near(bank[k].amount, cash[a].net - bank[k].fee)
    BY DEF Can, Settles
  <2>3. ~ (Abs(cash[i].net - cash[a].net) > 2 * Tolerance)
    BY <2>1, <2>2, NearTwice, Zenon
  <2>4. QED
    BY <2>3 DEF NetsApart
<1>5. Settles(bank[l], cash[a])
  BY <1>4 DEF Can, Settles
<1>6. QED
  BY <1>3, <1>5 DEF Can

LEMMA Exchange ==
  ASSUME NEW cash \in Seq(Taking), NEW bank \in Seq(Line), NEW days \in Nat,
         DaysRise(cash), DaysRise(bank), NetsApart(cash), NEW i \in 1 .. Len(cash),
         NEW R, PairsUp(R, cash, bank), Matched(R, cash, bank, days, i - 1),
         NEW p, IsPairing(p, cash, bank, days), Agrees(p, R, i - 1)
  PROVE  \E q : /\ IsPairing(q, cash, bank, days) /\ Agrees(q, MatchOne(R, cash, bank, days, i), i)
                /\ Cardinality(p) <= Cardinality(q)
<1> DEFINE fit == {k \in FreeLines(R, cash[i], bank, days) : Settles(bank[k], cash[i])}
<1> DEFINE k == Min(fit)
<1> DEFINE r == Result("match", i, k)
<1> DEFINE After == MatchOne(R, cash, bank, days, i)
<1>1. After = IF ~Eligible(cash[i]) \/ fit = {} THEN R ELSE R \union {r}
  BY DEF MatchOne
<1>2. /\ Len(cash) \in Nat /\ Len(bank) \in Nat /\ i \in Int
      /\ \A a, l : <<a, l>> \in p => a \in 1 .. Len(cash) /\ l \in 1 .. Len(bank)
  BY DEF IsPairing
<1>3. IsFiniteSet(p) /\ Cardinality(p) \in Nat
  BY PairingFinite
<1>4. \A x \in R : x.cash \in 1 .. i - 1 /\ x.cash # i
  BY DEF Matched
<1>5. ASSUME NEW l, <<i, l>> \in p PROVE l \in fit /\ Eligible(cash[i])
  <2>1. l \in 1 .. Len(bank) /\ Can(cash, bank, days, i, l)
    BY <1>2, <1>5 DEF IsPairing
  <2>2. l \notin Used(R)
    <3>1. ASSUME NEW x \in R, x.line = l PROVE FALSE
      <4>1. <<x.cash, l>> \in p
        BY <3>1 DEF Agrees
      <4>2. x.cash = i
        BY <1>5, <4>1 DEF IsPairing
      <4>3. QED
        BY <1>4, <4>2
    <3>2. QED
      BY <3>1 DEF Used
  <2>3. QED
    BY <2>1, <2>2 DEF FreeLines, Can
<1>6. CASE ~Eligible(cash[i]) \/ fit = {}
  <2>1. \A l : <<i, l>> \notin p
    BY <1>5, <1>6
  <2>2. Agrees(p, R, i)
    <3>1. \A a, l : <<a, l>> \in p /\ a <= i => a <= i - 1
      BY <1>2, <2>1
    <3>2. QED
      BY <3>1 DEF Agrees
  <2>3. After = R
    BY <1>1, <1>6
  <2>4. QED
    BY <1>3, <2>2, <2>3
<1>7. CASE Eligible(cash[i]) /\ fit # {}
  <2>1. k \in fit /\ \A l \in fit : k <= l
    <3>1. fit \in SUBSET Nat
      BY DEF FreeLines
    <3> HIDE DEF fit
    <3>2. QED
      BY <1>7, <3>1, MinIs
  <2>2. k \in 1 .. Len(bank) /\ k \notin Used(R) /\ Can(cash, bank, days, i, k)
    BY <1>7, <2>1 DEF FreeLines, Can
  <2> HIDE DEF fit, k
  <2>3. After = R \union {r} /\ r.cash = i /\ r.line = k
    BY <1>1, <1>7 DEF Result
  <2> HIDE DEF r, After
  <2>4. \A x \in R : x.line # k
    BY <2>2 DEF Used
  <2>5. \A a : <<a, k>> \in p => a >= i
    <3>1. ASSUME NEW a, <<a, k>> \in p, ~(a >= i) PROVE FALSE
      <4>1. a \in Int /\ a <= i - 1
        BY <1>2, <3>1
      <4>2. PICK x \in R : x.cash = a /\ x.line = k
        BY <3>1, <4>1 DEF Agrees
      <4>3. QED
        BY <2>4, <4>2
    <3>2. QED
      BY <3>1
  <2> DEFINE z == <<i, k>>
  <2>6. CASE \E u, v : /\ u = i \/ v = k
                       /\ \A a, c : <<a, c>> \in p /\ (a = i \/ c = k) => a = u /\ c = v
    <3>1. PICK u, v : /\ u = i \/ v = k
                      /\ \A a, c : <<a, c>> \in p /\ (a = i \/ c = k) => a = u /\ c = v
      BY <2>6
    <3> DEFINE o == p \ {<<u, v>>}
    <3> DEFINE q == o \union {z}
    <3>2. \A a, c : <<a, c>> \in o => <<a, c>> \in p /\ a # i /\ c # k
      BY <3>1
    <3>3. \A a, c : <<a, c>> \in p /\ a # i /\ c # k => <<a, c>> \in o
      BY <3>1
    <3>4. o \in SUBSET p /\ z \notin o
      BY <3>2
    <3>5. Cardinality(p) <= Cardinality(q)
      <4>1. IsFiniteSet(o) /\ Cardinality(o) \in Nat /\ Cardinality(o) >= Cardinality(p) - 1
        <5> DEFINE x == <<u, v>>
        <5> HIDE DEF x
        <5>1. IsFiniteSet(p \ {x}) /\ Cardinality(p \ {x}) \in Nat /\ Cardinality(p \ {x}) >= Cardinality(p) - 1
          BY <1>3, OneLess
        <5>2. QED
          BY <5>1 DEF x
      <4> HIDE DEF o, z
      <4>2. Cardinality(q) = Cardinality(o) + 1
        BY <3>4, <4>1, OneMore
      <4>3. QED
        BY <1>3, <4>1, <4>2
    <3> HIDE DEF o
    <3>6. \A a, c : <<a, c>> \in q <=> <<a, c>> \in o \/ (a = i /\ c = k)
      OBVIOUS
    <3>7. q \in SUBSET ((1 .. Len(cash)) \X (1 .. Len(bank)))
      BY <2>2, <3>4 DEF IsPairing
    <3> HIDE DEF q
    <3>8. IsPairing(q, cash, bank, days)
      <4>1. \A a, c, b, l : <<a, c>> \in q /\ <<b, l>> \in q /\ (a = b \/ c = l) => a = b /\ c = l
        BY <3>2, <3>6 DEF IsPairing
      <4>2. \A a, c : <<a, c>> \in q => Can(cash, bank, days, a, c)
        BY <2>2, <3>2, <3>6 DEF IsPairing
      <4>3. QED
        BY <3>7, <4>1, <4>2 DEF IsPairing
    <3>9. Agrees(q, After, i)
      <4>1. ASSUME NEW a, NEW c, <<a, c>> \in q, a <= i PROVE \E x \in After : x.cash = a /\ x.line = c
        <5>1. CASE <<a, c>> \in o
          <6>1. <<a, c>> \in p /\ a \in Int /\ a <= i - 1
            BY <1>2, <3>2, <4>1, <5>1
          <6>2. QED
            BY <2>3, <6>1 DEF Agrees
        <5>2. QED
          BY <2>3, <3>6, <4>1, <5>1
      <4>2. ASSUME NEW x \in After PROVE <<x.cash, x.line>> \in q
        <5>1. CASE x \in R
          <6>1. <<x.cash, x.line>> \in p /\ x.cash # i /\ x.line # k
            BY <1>4, <2>4, <5>1 DEF Agrees
          <6>2. QED
            BY <3>3, <3>6, <6>1
        <5>2. QED
          BY <2>3, <3>6, <5>1
      <4>3. QED
        BY <4>1, <4>2 DEF Agrees
    <3>10. QED
      BY <3>5, <3>8, <3>9 DEF After
  <2>7. CASE ~ \E u, v : /\ u = i \/ v = k
                         /\ \A a, c : <<a, c>> \in p /\ (a = i \/ c = k) => a = u /\ c = v
    <3>1. PICK a, l : <<a, k>> \in p /\ <<i, l>> \in p /\ a # i /\ l # k
      <4>1. \E l : <<i, l>> \in p
        <5>1. ASSUME \A l : <<i, l>> \notin p PROVE FALSE
          <6>1. CASE \E a : <<a, k>> \in p
            <7>1. PICK a : <<a, k>> \in p
              BY <6>1
            <7>2. \A b, c : <<b, c>> \in p /\ (b = i \/ c = k) => b = a /\ c = k
              BY <5>1, <7>1 DEF IsPairing
            <7>3. QED
              BY <2>7, <7>2
          <6>2. CASE \A a : <<a, k>> \notin p
            BY <2>7, <5>1, <6>2
          <6>3. QED
            BY <6>1, <6>2
        <5>2. QED
          BY <5>1
      <4>2. PICK l : <<i, l>> \in p
        BY <4>1
      <4>3. PICK b, c : <<b, c>> \in p /\ (b = i \/ c = k) /\ ~(b = i /\ c = l)
        <5>1. ASSUME \A b, c : <<b, c>> \in p /\ (b = i \/ c = k) => b = i /\ c = l PROVE FALSE
          BY <2>7, <5>1
        <5>2. QED
          BY <5>1
      <4>4. b # i /\ c = k
        BY <4>2, <4>3 DEF IsPairing
      <4>5. l # k
        BY <4>2, <4>3, <4>4 DEF IsPairing
      <4>6. QED
        BY <4>2, <4>3, <4>4, <4>5
    <3>2. a \in 1 .. Len(cash) /\ l \in 1 .. Len(bank) /\ i < a
      BY <1>2, <2>5, <3>1
    <3>3. k < l
      BY <1>5, <2>1, <2>2, <3>1, <3>2
    <3>4. Can(cash, bank, days, a, l)
      <4>1. Can(cash, bank, days, i, l) /\ Can(cash, bank, days, a, k)
        BY <3>1 DEF IsPairing
      <4>2. QED
        BY <2>2, <3>2, <3>3, <4>1, CanSwap
    <3> DEFINE x == <<i, l>>
    <3> DEFINE y == <<a, k>>
    <3> DEFINE w == <<a, l>>
    <3> DEFINE o == (p \ {x}) \ {y}
    <3> DEFINE q == (o \union {z}) \union {w}
    <3>5. \A b, c : <<b, c>> \in o => <<b, c>> \in p /\ b # i /\ b # a /\ c # k /\ c # l
      BY <3>1 DEF IsPairing
    <3>6. \A b, c : <<b, c>> \in p /\ b # i /\ c # k => <<b, c>> \in o
      OBVIOUS
    <3>7. o \in SUBSET p /\ z \notin o /\ w \notin o /\ w # z /\ x # y /\ x \in p /\ y \in p
      BY <3>1, <3>5
    <3>8. Cardinality(p) <= Cardinality(q)
      <4> HIDE DEF x, y, z, w
      <4>1. IsFiniteSet(p \ {x}) /\ Cardinality(p \ {x}) = Cardinality(p) - 1
        BY <1>3, <3>7, OneLess
      <4>2. y \in p \ {x}
        BY <3>7
      <4>3. IsFiniteSet(o) /\ Cardinality(o) = Cardinality(p) - 2
        <5> DEFINE rest == p \ {x}
        <5>1. o = rest \ {y} /\ y \in rest /\ IsFiniteSet(rest) /\ Cardinality(rest) = Cardinality(p) - 1
          BY <4>1, <4>2
        <5> HIDE DEF rest, o
        <5>2. QED
          BY <1>3, <5>1, OneLess
      <4> HIDE DEF o
      <4>4. IsFiniteSet(o \union {z}) /\ Cardinality(o \union {z}) = Cardinality(p) - 1
        <5> HIDE DEF o
        <5>1. Cardinality(o \union {z}) = Cardinality(o) + 1 /\ IsFiniteSet(o \union {z})
          BY <3>7, <4>3, OneMore
        <5>2. QED
          BY <1>3, <4>3, <5>1
      <4>5. w \notin o \union {z}
        BY <3>7
      <4>6. Cardinality(q) = Cardinality(p)
        <5> DEFINE more == o \union {z}
        <5>1. q = more \union {w} /\ w \notin more /\ IsFiniteSet(more) /\ Cardinality(more) = Cardinality(p) - 1
          BY <4>4, <4>5
        <5> HIDE DEF more, q
        <5>2. QED
          BY <1>3, <5>1, OneMore
      <4>7. QED
        BY <1>3, <4>6
    <3> HIDE DEF o
    <3>9. \A b, c : <<b, c>> \in q <=> <<b, c>> \in o \/ (b = i /\ c = k) \/ (b = a /\ c = l)
      OBVIOUS
    <3>10. q \in SUBSET ((1 .. Len(cash)) \X (1 .. Len(bank)))
      BY <2>2, <3>2, <3>7 DEF IsPairing
    <3> HIDE DEF q
    <3>11. IsPairing(q, cash, bank, days)
      <4>1. \A b, c, d, e : <<b, c>> \in q /\ <<d, e>> \in q /\ (b = d \/ c = e) => b = d /\ c = e
        BY <3>1, <3>5, <3>9 DEF IsPairing
      <4>2. \A b, c : <<b, c>> \in q => Can(cash, bank, days, b, c)
        BY <2>2, <3>4, <3>5, <3>9 DEF IsPairing
      <4>3. QED
        BY <3>10, <4>1, <4>2 DEF IsPairing
    <3>12. Agrees(q, After, i)
      <4>1. ASSUME NEW b, NEW c, <<b, c>> \in q, b <= i PROVE \E m \in After : m.cash = b /\ m.line = c
        <5>1. CASE <<b, c>> \in o
          <6>1. <<b, c>> \in p /\ b \in Int /\ b <= i - 1
            BY <1>2, <3>5, <4>1, <5>1
          <6>2. QED
            BY <2>3, <6>1 DEF Agrees
        <5>2. CASE b = a
          BY <3>2, <4>1, <5>2
        <5>3. QED
          BY <2>3, <3>9, <4>1, <5>1, <5>2
      <4>2. ASSUME NEW m \in After PROVE <<m.cash, m.line>> \in q
        <5>1. CASE m \in R
          <6>1. <<m.cash, m.line>> \in p /\ m.cash # i /\ m.line # k
            BY <1>4, <2>4, <5>1 DEF Agrees
          <6>2. QED
            BY <3>6, <3>9, <6>1
        <5>2. QED
          BY <2>3, <3>9, <5>1
      <4>3. QED
        BY <4>1, <4>2 DEF Agrees
    <3>13. QED
      BY <3>8, <3>11, <3>12 DEF After
  <2>8. QED
    BY <2>6, <2>7
<1>8. QED
  BY <1>6, <1>7

LEMMA PairsToMatches ==
  ASSUME NEW cash \in Seq(Taking), NEW bank \in Seq(Line), NEW days \in Nat,
         DaysRise(cash), DaysRise(bank), NetsApart(cash),
         NEW f, MatchRuns(f, cash, bank, days), NEW p, IsPairing(p, cash, bank, days)
  PROVE  \A i \in 0 .. Len(cash) :
           \E q : IsPairing(q, cash, bank, days) /\ Agrees(q, f[i], i) /\ Cardinality(p) <= Cardinality(q)
<1> DEFINE m == Len(cash)
<1> DEFINE Good(i) == \E q : IsPairing(q, cash, bank, days) /\ Agrees(q, f[i], i) /\ Cardinality(p) <= Cardinality(q)
<1> DEFINE S == {n \in Nat : n <= m => Good(n)}
<1>1. m \in Nat
  OBVIOUS
<1>2. 0 \in S
  <2>1. Cardinality(p) <= Cardinality(p)
    BY PairingFinite
  <2>2. \A a, k : <<a, k>> \in p => ~(a <= 0)
    BY DEF IsPairing
  <2>3. Agrees(p, f[0], 0)
    BY <2>2 DEF Agrees, MatchRuns
  <2>4. QED
    BY <2>1, <2>3
<1>3. ASSUME NEW n \in S PROVE n + 1 \in S
  <2>1. ASSUME n + 1 <= m PROVE Good(n + 1)
    <3> DEFINE i == n + 1
    <3>1. n \in Nat /\ n \in 0 .. Len(cash) /\ i \in 1 .. Len(cash) /\ i - 1 = n
      BY <1>1, <2>1
    <3>2. PICK q : IsPairing(q, cash, bank, days) /\ Agrees(q, f[n], n) /\ Cardinality(p) <= Cardinality(q)
      BY <1>1, <2>1, <3>1
    <3>3. PairsUp(f[n], cash, bank) /\ Matched(f[n], cash, bank, days, n)
      BY <3>1, MatchPairs
    <3>4. f[i] = MatchOne(f[i - 1], cash, bank, days, i)
      BY <3>1 DEF MatchRuns
    <3> HIDE DEF i
    <3>5. f[i] = MatchOne(f[n], cash, bank, days, i)
      BY <3>1, <3>4
    <3>6. \E u : /\ IsPairing(u, cash, bank, days) /\ Agrees(u, MatchOne(f[n], cash, bank, days, i), i)
                /\ Cardinality(q) <= Cardinality(u)
      <4>1. Matched(f[n], cash, bank, days, i - 1) /\ Agrees(q, f[n], i - 1)
        BY <3>1, <3>2, <3>3
      <4>2. QED
        BY <3>1, <3>2, <3>3, <4>1, Exchange
    <3>7. PICK u : /\ IsPairing(u, cash, bank, days) /\ Agrees(u, f[i], i)
                   /\ Cardinality(q) <= Cardinality(u)
      BY <3>5, <3>6
    <3>8. Cardinality(p) \in Nat /\ Cardinality(q) \in Nat /\ Cardinality(u) \in Nat
      BY <3>2, <3>7, PairingFinite
    <3>9. Cardinality(p) <= Cardinality(u)
      BY <3>2, <3>7, <3>8
    <3>10. Good(i)
      BY <3>7, <3>9
    <3>11. QED
      BY <3>10 DEF i
  <2> HIDE DEF Good
  <2>2. QED
    BY <2>1
<1>4. S = Nat
  <2>1. S \in SUBSET Nat
    OBVIOUS
  <2> HIDE DEF S
  <2>2. QED
    BY <1>2, <1>3, <2>1, SetInduction
<1> HIDE DEF Good
<1>5. \A i \in 0 .. m : Good(i)
  BY <1>1, <1>4
<1>6. QED
  BY <1>5 DEF Good

(* As many takings are matched as can be.                                   *)
LEMMA MatchIsLargest ==
  ASSUME NEW cash \in Seq(Taking), NEW bank \in Seq(Line), NEW days \in Nat,
         DaysRise(cash), DaysRise(bank), NetsApart(cash), NEW p, IsPairing(p, cash, bank, days)
  PROVE  Cardinality(p) <= Cardinality(Match(cash, bank, days))
<1> DEFINE m == Len(cash)
<1> DEFINE M == Match(cash, bank, days)
<1>1. m \in 0 .. Len(cash)
  OBVIOUS
<1>2. PICK f \in [0 .. Len(cash) -> SUBSET AllResults(cash, bank)] :
        MatchRuns(f, cash, bank, days) /\ f[Len(cash)] = M
  BY MatchSteps
<1>3. PICK q : IsPairing(q, cash, bank, days) /\ Agrees(q, M, m) /\ Cardinality(p) <= Cardinality(q)
  BY <1>1, <1>2, PairsToMatches
<1>4. PairsUp(M, cash, bank)
  BY <1>1, <1>2, MatchPairs
<1>5. IsFiniteSet(M) /\ Cardinality(M) \in Nat
  BY <1>4, FS_CardinalityType DEF PairsUp
<1> HIDE DEF M
<1> DEFINE g == [x \in q |-> CHOOSE r \in M : r.cash = x[1] /\ r.line = x[2]]
<1>6. ASSUME NEW x \in q
      PROVE  g[x] \in M /\ g[x].cash = x[1] /\ g[x].line = x[2] /\ x = <<x[1], x[2]>>
  <2>1. x = <<x[1], x[2]>> /\ x[1] <= m
    BY <1>3 DEF IsPairing
  <2>2. \E r \in M : r.cash = x[1] /\ r.line = x[2]
    BY <1>3, <2>1 DEF Agrees
  <2>3. QED
    BY <2>1, <2>2
<1>7. g \in Injection(q, M)
  <2>1. g \in [q -> M]
    BY <1>6
  <2> HIDE DEF g
  <2>2. ASSUME NEW x \in q, NEW y \in q, g[x] = g[y] PROVE x = y
    <3>1. x[1] = y[1] /\ x[2] = y[2]
      BY <1>6, <2>2
    <3>2. QED
      BY <1>6, <3>1
  <2>3. QED
    BY <2>1, <2>2 DEF Injection, IsInjective
<1> HIDE DEF g
<1>8. Cardinality(q) <= Cardinality(M)
  BY <1>5, <1>7, FS_Injection
<1>9. Cardinality(p) \in Nat /\ Cardinality(q) \in Nat
  BY <1>3, PairingFinite
<1>10. QED
  BY <1>3, <1>5, <1>8, <1>9 DEF M

(* Whatever the takings and the lines are, no pairing settles more of them  *)
(* than the matches of Run, if different amounts are far enough apart.      *)
THEOREM RunMatchesMost ==
  ASSUME NEW in \in Inputs, AmountsApart(in)
  PROVE  Maximal(in)
<1> DEFINE cash == Cash(in)
<1> DEFINE bank == Bank(in)
<1> DEFINE days == toleranceDays(in.tolerance)
<1>1. cash \in Seq(Taking) /\ DaysRise(cash) /\ Lists(cash, InSpan(in.takings, in.from, in.to))
  BY CashSorted
<1>2. bank \in Seq(Line) /\ DaysRise(bank)
  BY BankSorted
<1>3. days \in Nat
  BY EngineAssumption DEF toleranceDays
<1> HIDE DEF cash, bank, days
<1>4. NetsApart(cash)
  <2>1. \A i \in DOMAIN cash : cash[i] \in in.takings
    BY <1>1 DEF Lists, InSpan
  <2>2. QED
    BY <2>1 DEF NetsApart, AmountsApart
<1>5. ASSUME NEW p \in Pairings(cash, bank, days) PROVE Cardinality(p) <= Cardinality(Match(cash, bank, days))
  <2>1. DOMAIN cash = 1 .. Len(cash) /\ DOMAIN bank = 1 .. Len(bank)
    BY <1>1, <1>2
  <2>2. /\ p \in SUBSET ((1 .. Len(cash)) \X (1 .. Len(bank)))
        /\ \A x, y \in p : x[1] = y[1] \/ x[2] = y[2] => x = y
        /\ \A x \in p : Can(cash, bank, days, x[1], x[2])
    BY <2>1 DEF Pairings, Can
  <2>3. \A a, k, b, l : <<a, k>> \in p /\ <<b, l>> \in p /\ (a = b \/ k = l) => a = b /\ k = l
    BY <2>2
  <2>4. \A a, k : <<a, k>> \in p => Can(cash, bank, days, a, k)
    BY <2>2
  <2>5. IsPairing(p, cash, bank, days)
    BY <2>2, <2>3, <2>4 DEF IsPairing
  <2>6. QED
    BY <1>1, <1>2, <1>3, <1>4, <2>5, MatchIsLargest
<1>6. QED
  BY <1>5 DEF Maximal, cash, bank, days

(* Each line and each of the takings ends in exactly one result, and there  *)
(* are as many matches as there can be, for all inputs.                     *)
THEOREM EnginePairsAll == EngineLosesNothing
BY RunAccountsForAll, RunMatchesMost DEF EngineLosesNothing

(* The property of the runs: what the engine promises, at the start and     *)
(* ever after.                                                              *)
THEOREM ReconRunLosesNothing == ReconSpec => []RunLosesNothing
<1>1. RunLosesNothing
  BY EnginePairsAll DEF RunLosesNothing
<1>2. QED
  BY <1>1, PTL
=============================================================================
