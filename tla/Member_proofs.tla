---------------------------- MODULE Member_proofs ----------------------------
(***************************************************************************)
(* What Member promises, for every set of events, requests and workers:    *)
(* proofs by one inductive invariant, IInv.  The sums over the ledgers are *)
(* carried along row by row with the facts of SumLemmas.                   *)
(***************************************************************************)
EXTENDS Member, SumLemmas, SequenceTheorems

(* What a worker knows of the job it is at.                                 *)
WorkersOK ==
  \A w \in Workers :
    /\ pc[w] = "apply" =>
         /\ job[w] \in Sales \union Requests
         /\ job[w].kind = "sale" => CalculatePoints(job[w].n) > 0
         /\ job[w] \in Changes \union Accounts => seen[w].status = "normal"
         /\ job[w].kind = "deduct" => seen[w].acc - seen[w].used >= job[w].n
         /\ job[w] \in Statuses => ValidMemberStatus(job[w].status)
    /\ pc[w] = "answer" =>
         /\ job[w] \in Sales
         /\ job[w].kind = "sale" => Has(points, job[w].op)

LastAfter(rows) == IF rows = <<>> THEN 0 ELSE rows[Len(rows)].after

(* Without an overlap one worker at most is between its read and its write, *)
(* and what it read is the member.                                          *)
AloneOK ==
  ~overlapped =>
    /\ \A v, w \in Workers : pc[v] = "apply" /\ pc[w] = "apply" => v = w
    /\ \A w \in Workers : pc[w] = "apply" => seen[w] = member
    /\ member.acc = LastAfter(points)

IInv ==
  /\ TypeOK /\ WorkersOK /\ AloneOK
  /\ ColumnsAreLedger /\ ExactAlone /\ StatusIsLastChange /\ AckedWasCredited

-----------------------------------------------------------------------------
(* The ledgers.                                                             *)
PointsMoved == [r \in PointRow |-> IF Moves(r) THEN r.points ELSE 0]
PointsUsed  == [r \in PointRow |-> IF Moves(r) THEN 0 ELSE -r.points]
PointsAdded == [r \in PointRow |-> IF r.points > 0 THEN r.points ELSE 0]
MoneyMoved  == [r \in AccountRow |-> IF r.kind = "recharge" THEN r.n ELSE -r.n]

LEMMA SumsAreTotals ==
  /\ \A rows \in Seq(PointRow) :
       /\ Accumulated(rows) = Total(PointsMoved, rows)
       /\ Used(rows) = Total(PointsUsed, rows)
       /\ Earned(rows) = Total(PointsAdded, rows)
  /\ \A rows \in Seq(AccountRow) : MoneyOf(rows) = Total(MoneyMoved, rows)
<1>1. ASSUME NEW rows \in Seq(PointRow)
      PROVE  /\ Accumulated(rows) = Total(PointsMoved, rows)
             /\ Used(rows) = Total(PointsUsed, rows)
             /\ Earned(rows) = Total(PointsAdded, rows)
  <2>1. \A i \in DOMAIN rows : rows[i] \in PointRow
    OBVIOUS
  <2>2. /\ [i \in DOMAIN rows |-> IF Moves(rows[i]) THEN rows[i].points ELSE 0]
             = [i \in DOMAIN rows |-> PointsMoved[rows[i]]]
        /\ [i \in DOMAIN rows |-> IF Moves(rows[i]) THEN 0 ELSE -rows[i].points]
             = [i \in DOMAIN rows |-> PointsUsed[rows[i]]]
        /\ [i \in DOMAIN rows |-> IF rows[i].points > 0 THEN rows[i].points ELSE 0]
             = [i \in DOMAIN rows |-> PointsAdded[rows[i]]]
    BY <2>1 DEF PointsMoved, PointsUsed, PointsAdded
  <2>3. QED
    BY <2>2 DEF Accumulated, Used, Earned, Total
<1>2. ASSUME NEW rows \in Seq(AccountRow)
      PROVE  MoneyOf(rows) = Total(MoneyMoved, rows)
  <2>1. \A i \in DOMAIN rows : rows[i] \in AccountRow
    OBVIOUS
  <2>2. [i \in DOMAIN rows |-> IF rows[i].kind = "recharge" THEN rows[i].n ELSE -rows[i].n]
          = [i \in DOMAIN rows |-> MoneyMoved[rows[i]]]
    BY <2>1 DEF MoneyMoved
  <2>3. QED
    BY <2>2 DEF MoneyOf, Total
<1>3. QED
  BY <1>1, <1>2

LEMMA AmountsInt ==
  /\ PointsMoved \in [PointRow -> Int] /\ PointsUsed \in [PointRow -> Int]
  /\ PointsAdded \in [PointRow -> Int] /\ MoneyMoved \in [AccountRow -> Int]
BY DEF PointsMoved, PointsUsed, PointsAdded, MoneyMoved, PointRow, AccountRow

LEMMA EmptyLedgers ==
  /\ Accumulated(<<>>) = 0 /\ Used(<<>>) = 0 /\ Earned(<<>>) = 0
  /\ MoneyOf(<<>>) = 0 /\ SalesOf(<<>>) = 0
<1>1. <<>> \in Seq(PointRow) /\ <<>> \in Seq(AccountRow)
  OBVIOUS
<1>2. {i \in DOMAIN <<>> : <<>>[i].kind = "sale"} = {}
  OBVIOUS
<1>3. SalesOf(<<>>) = 0
  BY <1>2, FS_EmptySet DEF SalesOf
<1>4. QED
  BY <1>1, <1>3, SumsAreTotals, TotalEmpty

(* A row is added to the ledger of the points.                              *)
LEMMA PointsAppend ==
  ASSUME NEW rows \in Seq(PointRow), NEW row \in PointRow
  PROVE  LET more == Append(rows, row) IN
         /\ Accumulated(rows) \in Int /\ Used(rows) \in Int /\ Earned(rows) \in Int
         /\ Accumulated(more) = Accumulated(rows) + (IF Moves(row) THEN row.points ELSE 0)
         /\ Used(more) = Used(rows) + (IF Moves(row) THEN 0 ELSE -row.points)
         /\ Earned(more) = Earned(rows) + (IF row.points > 0 THEN row.points ELSE 0)
<1> DEFINE more == Append(rows, row)
<1>1. more \in Seq(PointRow)
  OBVIOUS
<1>2. /\ Total(PointsMoved, rows) \in Int
      /\ Total(PointsMoved, more) = Total(PointsMoved, rows) + PointsMoved[row]
  BY AmountsInt, TotalAppend
<1>3. /\ Total(PointsUsed, rows) \in Int
      /\ Total(PointsUsed, more) = Total(PointsUsed, rows) + PointsUsed[row]
  BY AmountsInt, TotalAppend
<1>4. /\ Total(PointsAdded, rows) \in Int
      /\ Total(PointsAdded, more) = Total(PointsAdded, rows) + PointsAdded[row]
  BY AmountsInt, TotalAppend
<1>5. /\ PointsMoved[row] = (IF Moves(row) THEN row.points ELSE 0)
      /\ PointsUsed[row] = (IF Moves(row) THEN 0 ELSE -row.points)
      /\ PointsAdded[row] = (IF row.points > 0 THEN row.points ELSE 0)
  BY DEF PointsMoved, PointsUsed, PointsAdded
<1>6. QED
  BY <1>1, <1>2, <1>3, <1>4, <1>5, SumsAreTotals

LEMMA MoneyAppend ==
  ASSUME NEW rows \in Seq(AccountRow), NEW row \in AccountRow
  PROVE  /\ MoneyOf(rows) \in Int
         /\ MoneyOf(Append(rows, row)) = MoneyOf(rows) + (IF row.kind = "recharge" THEN row.n ELSE -row.n)
<1>1. Append(rows, row) \in Seq(AccountRow)
  OBVIOUS
<1>2. /\ Total(MoneyMoved, rows) \in Int
      /\ Total(MoneyMoved, Append(rows, row)) = Total(MoneyMoved, rows) + MoneyMoved[row]
  BY AmountsInt, TotalAppend
<1>3. MoneyMoved[row] = (IF row.kind = "recharge" THEN row.n ELSE -row.n)
  BY DEF MoneyMoved
<1>4. QED
  BY <1>1, <1>2, <1>3, SumsAreTotals

LEMMA SalesAppend ==
  ASSUME NEW rows \in Seq(PointRow), NEW row \in PointRow
  PROVE  /\ SalesOf(rows) \in Nat
         /\ SalesOf(Append(rows, row)) = SalesOf(rows) + (IF row.kind = "sale" THEN 1 ELSE 0)
<1> DEFINE more == Append(rows, row)
<1> DEFINE n == Len(rows)
<1> DEFINE S == {i \in DOMAIN rows : rows[i].kind = "sale"}
<1> DEFINE T == {i \in DOMAIN more : more[i].kind = "sale"}
<1>1. n \in Nat /\ S \subseteq 1..n /\ n + 1 \notin S
  OBVIOUS
<1>2. IsFiniteSet(S) /\ Cardinality(S) \in Nat
  <2> HIDE DEF S, T, n
  <2>1. IsFiniteSet(1..n)
    <3>1. 1 \in Int /\ n \in Int
      BY <1>1
    <3>2. QED
      BY <3>1, FS_Interval, Zenon
  <2>2. QED
    BY <1>1, <2>1, FS_Subset, FS_CardinalityType
<1>3. T = IF row.kind = "sale" THEN S \union {n + 1} ELSE S
  OBVIOUS
<1>4. Cardinality(S \union {n + 1}) = Cardinality(S) + 1
  <2> HIDE DEF S, n
  <2>1. QED
    BY <1>1, <1>2, FS_AddElement
<1>5. SalesOf(rows) = Cardinality(S) /\ SalesOf(more) = Cardinality(T)
  BY DEF SalesOf
<1> HIDE DEF S, T, n
<1>6. QED
  BY <1>2, <1>3, <1>4, <1>5

(* No more is accumulated than the rows that add points add.                *)
LEMMA AccumulatedIsEarned ==
  ASSUME NEW rows \in Seq(PointRow)
  PROVE  Accumulated(rows) <= Earned(rows)
<1> DEFINE D == DOMAIN rows
<1> DEFINE f == [i \in D |-> IF Moves(rows[i]) THEN rows[i].points ELSE 0]
<1> DEFINE e == [i \in D |-> IF rows[i].points > 0 THEN rows[i].points ELSE 0]
<1>1. IsFiniteSet(D) /\ \A i \in D : rows[i].points \in Int
  <2>1. D = 1..Len(rows) /\ Len(rows) \in Nat
    OBVIOUS
  <2>2. IsFiniteSet(D)
    BY <2>1, FS_Interval
  <2>3. \A i \in D : rows[i] \in PointRow
    OBVIOUS
  <2>4. QED
    BY <2>2, <2>3 DEF PointRow
<1>2. \A i \in D : f[i] \in Int /\ e[i] \in Int /\ f[i] <= e[i]
  BY <1>1
<1>3. DOMAIN f = D /\ DOMAIN e = D
  OBVIOUS
<1> HIDE DEF D, f, e
<1>4. SumFunctionOnSet(f, D) <= SumFunctionOnSet(e, D)
  BY <1>1, <1>2, SumMonotone
<1>5. QED
  BY <1>3, <1>4 DEF Accumulated, Earned, SumFunction, f, e, D

(* A row whose op_id is not there yet keeps op_ids unique and the rows of   *)
(* points chained, when it goes on where the last one ended.                *)
LEMMA OnceAppend ==
  ASSUME NEW R, NEW rows \in Seq(R), NEW row \in R, Once(rows), ~Has(rows, row.op)
  PROVE  /\ Once(Append(rows, row))
         /\ Has(Append(rows, row), row.op)
<1>1. Has(Append(rows, row), row.op)
  <2>1. Len(rows) + 1 \in DOMAIN Append(rows, row)
        /\ Append(rows, row)[Len(rows) + 1] = row
    OBVIOUS
  <2>2. QED
    BY <2>1 DEF Has
<1>2. ASSUME NEW i \in DOMAIN Append(rows, row), NEW j \in DOMAIN Append(rows, row),
             Append(rows, row)[i].op = Append(rows, row)[j].op
      PROVE  i = j
  BY <1>2 DEF Once, Has
<1>3. QED
  BY <1>1, <1>2 DEF Once

LEMMA HasAppend ==
  ASSUME NEW R, NEW rows \in Seq(R), NEW row \in R, NEW op, Has(rows, op)
  PROVE  Has(Append(rows, row), op)
<1>1. PICK i \in DOMAIN rows : rows[i].op = op
  BY DEF Has
<1>2. i \in DOMAIN Append(rows, row) /\ Append(rows, row)[i] = rows[i]
  OBVIOUS
<1>3. QED
  BY <1>1, <1>2 DEF Has

LEMMA ChainAppend ==
  ASSUME NEW rows \in Seq(PointRow), NEW row \in PointRow, Chained(rows),
         row.after = LastAfter(rows) + (IF Moves(row) THEN row.points ELSE 0)
  PROVE  /\ Chained(Append(rows, row))
         /\ LastAfter(Append(rows, row)) = row.after
<1> DEFINE more == Append(rows, row)
<1>1. LastAfter(more) = row.after
  <2>1. more # <<>> /\ Len(more) = Len(rows) + 1 /\ more[Len(rows) + 1] = row
    OBVIOUS
  <2>2. QED
    BY <2>1 DEF LastAfter
<1>2. ASSUME NEW i \in DOMAIN more
      PROVE  more[i].after = (IF i = 1 THEN 0 ELSE more[i - 1].after)
                             + (IF Moves(more[i]) THEN more[i].points ELSE 0)
  <2>1. CASE i <= Len(rows)
    <3>1. i \in DOMAIN rows /\ more[i] = rows[i] /\ (i # 1 => more[i - 1] = rows[i - 1])
      BY <2>1
    <3>2. QED
      BY <3>1 DEF Chained
  <2>2. CASE i = Len(rows) + 1
    <3>1. more[i] = row /\ (i # 1 => more[i - 1] = rows[i - 1])
      BY <2>2
    <3>2. (i = 1 <=> rows = <<>>) /\ (i # 1 => i - 1 = Len(rows))
      BY <2>2
    <3>3. QED
      BY <3>1, <3>2 DEF LastAfter
  <2>3. QED
    BY <2>1, <2>2
<1>3. QED
  BY <1>1, <1>2 DEF Chained

-----------------------------------------------------------------------------
(* The kind of a job says which request it is.                              *)
LEMMA Jobs ==
  ASSUME TypeOK, NEW w \in Workers
  PROVE  /\ job[w].kind \in {"sale", "return"} => job[w] \in Sales
         /\ job[w].kind \in {"earn", "deduct"} => job[w] \in Changes
         /\ job[w].kind \in {"recharge", "payout"} => job[w] \in Accounts
         /\ job[w].kind = "status" => job[w] \in Statuses
         /\ job[w] \in Sales \union Requests => job[w].n \in Nat /\ job[w].op \in Ops
         /\ job[w] \in Sales => job[w].kind \in {"sale", "return"}
         /\ job[w] \in Changes => job[w].kind \in {"earn", "deduct"}
         /\ job[w] \in Accounts => job[w].kind \in {"recharge", "payout"}
         /\ job[w] \in Statuses => job[w].kind = "status"
BY MemberAssumption DEF TypeOK, Requests, Idle, Ops

LEMMA PointsNat ==
  ASSUME NEW n \in Nat
  PROVE  CalculatePoints(n) \in Nat
BY DEF CalculatePoints

(* A row of points that says what happens to the member keeps the books.    *)
LEMMA PointsWritten ==
  ASSUME IInv, NEW w \in Workers, pc[w] = "apply",
         NEW delta \in Int, NEW after \in Int, NEW m \in MemberRow,
         job[w].kind \in PointKinds, WritePoints(w, delta, after, m),
         m.acc = member.acc + (IF Moves(job[w]) THEN delta ELSE 0),
         m.used = member.used + (IF Moves(job[w]) THEN 0 ELSE -delta),
         m.count = member.count + (IF job[w].kind = "sale" THEN 1 ELSE 0),
         m.balance = member.balance, m.status = member.status,
         after = seen[w].acc + (IF Moves(job[w]) THEN delta ELSE 0),
         ~overlapped => m.acc >= 0 /\ (Moves(job[w]) \/ m.used <= m.acc)
  PROVE  /\ member' \in MemberRow /\ points' \in Seq(PointRow)
         /\ member'.balance = member.balance /\ member'.status = member.status
         /\ Once(points')
         /\ member'.acc = Accumulated(points') /\ member'.used = Used(points')
         /\ member'.count = SalesOf(points')
         /\ Has(points', job[w].op)
         /\ \A op : Has(points, op) => Has(points', op)
         /\ ~overlapped => /\ Chained(points') /\ member'.acc = LastAfter(points')
                           /\ member'.acc >= 0 /\ member'.used <= Earned(points')
<1>1. CASE Has(points, job[w].op)
  <2>1. points' = points /\ member' = member
    BY <1>1 DEF WritePoints
  <2>2. QED
    BY <1>1, <2>1 DEF IInv, TypeOK, ColumnsAreLedger, ExactAlone, AloneOK
<1>2. CASE ~Has(points, job[w].op)
  <2> DEFINE row == [op |-> job[w].op, kind |-> job[w].kind, points |-> delta, after |-> after]
  <2>1. points' = Append(points, row) /\ member' = m
    BY <1>2 DEF WritePoints
  <2>2. points \in Seq(PointRow) /\ member \in MemberRow /\ TypeOK
    BY DEF IInv, TypeOK
  <2>3. row \in PointRow
    <3>1. job[w].op \in Ops
      BY <2>2, Jobs DEF IInv, WorkersOK
    <3>2. QED
      BY <3>1 DEF PointRow
  <2>4. /\ row.op = job[w].op /\ row.kind = job[w].kind
        /\ row.points = delta /\ row.after = after /\ Moves(row) = Moves(job[w])
    BY DEF Moves
  <2> HIDE DEF row
  <2>5. points' \in Seq(PointRow)
    BY <2>1, <2>2, <2>3
  <2>6. Once(points') /\ Has(points', job[w].op)
    BY <1>2, <2>1, <2>2, <2>3, <2>4, OnceAppend DEF IInv, ColumnsAreLedger
  <2>7. \A op : Has(points, op) => Has(points', op)
    BY <2>1, <2>2, <2>3, HasAppend
  <2>8. /\ Accumulated(points) \in Int /\ Used(points) \in Int /\ Earned(points) \in Int
        /\ Accumulated(points') = Accumulated(points) + (IF Moves(row) THEN row.points ELSE 0)
        /\ Used(points') = Used(points) + (IF Moves(row) THEN 0 ELSE -row.points)
        /\ Earned(points') = Earned(points) + (IF row.points > 0 THEN row.points ELSE 0)
    BY <2>1, <2>2, <2>3, PointsAppend
  <2>9. SalesOf(points') = SalesOf(points) + (IF row.kind = "sale" THEN 1 ELSE 0)
    BY <2>1, <2>2, <2>3, SalesAppend
  <2>10. /\ member'.acc = Accumulated(points') /\ member'.used = Used(points')
         /\ member'.count = SalesOf(points')
    BY <2>1, <2>4, <2>8, <2>9 DEF IInv, ColumnsAreLedger
  <2>11. ASSUME ~overlapped
         PROVE  /\ Chained(points') /\ member'.acc = LastAfter(points')
                /\ member'.acc >= 0 /\ member'.used <= Earned(points')
    <3>1. seen[w] = member /\ member.acc = LastAfter(points) /\ Chained(points)
      BY <2>11 DEF IInv, AloneOK, ExactAlone
    <3>2. row.after = LastAfter(points) + (IF Moves(row) THEN row.points ELSE 0)
      BY <2>4, <3>1
    <3>3. Chained(points') /\ LastAfter(points') = row.after
      BY <2>1, <2>2, <2>3, <3>1, <3>2, ChainAppend
    <3>4. member'.acc = LastAfter(points')
      BY <2>1, <2>4, <3>1, <3>3
    <3>5. member'.used <= Earned(points')
      <4>1. CASE Moves(row)
        <5>1. member'.used = member.used /\ member.used <= Earned(points)
          BY <2>1, <2>2, <2>4, <2>11, <4>1 DEF IInv, ExactAlone, MemberRow
        <5>2. member.used \in Int /\ Earned(points) <= Earned(points')
          BY <2>2, <2>4, <2>8 DEF MemberRow
        <5>3. QED
          BY <2>8, <2>4, <5>1, <5>2
      <4>2. CASE ~Moves(row)
        <5>1. Accumulated(points') <= Earned(points')
          BY <2>5, AccumulatedIsEarned
        <5>2. m.used <= m.acc /\ m.used \in Int /\ m.acc \in Int
          BY <2>4, <2>11, <4>2 DEF MemberRow
        <5>3. Earned(points') \in Int
          BY <2>4, <2>8
        <5>4. QED
          BY <2>1, <2>10, <5>1, <5>2, <5>3
      <4>3. QED
        BY <4>1, <4>2
    <3>6. QED
      BY <2>1, <2>11, <3>3, <3>4, <3>5
  <2>12. QED
    BY <2>1, <2>5, <2>6, <2>7, <2>10, <2>11
<1>3. QED
  BY <1>1, <1>2

-----------------------------------------------------------------------------
(* A worker that starts has read the member as it is; what it has checked   *)
(* holds of what it read.                                                   *)
LEMMA Started ==
  ASSUME IInv, NEW w \in Workers, NEW q \in Sales \union Requests, pc[w] = "idle",
         Start(w, q), UNCHANGED db,
         q.kind = "sale" => CalculatePoints(q.n) > 0,
         q \in Changes \union Accounts => Allowed(q),
         q \in Statuses => ValidMemberStatus(q.status)
  PROVE  /\ WorkersOK' /\ AloneOK'
         /\ pc' \in [Workers -> {"idle", "apply", "answer"}]
         /\ job' \in [Workers -> Sales \union Requests \union {Idle}]
         /\ seen' \in [Workers -> MemberRow]
         /\ overlapped' \in BOOLEAN /\ (overlapped => overlapped')
<1>1. /\ pc' \in [Workers -> {"idle", "apply", "answer"}]
      /\ job' \in [Workers -> Sales \union Requests \union {Idle}]
      /\ seen' \in [Workers -> MemberRow]
      /\ overlapped' \in BOOLEAN /\ (overlapped => overlapped')
  BY DEF Start, IInv, TypeOK
<1>2. /\ pc'[w] = "apply" /\ job'[w] = q /\ seen'[w] = member
      /\ \A v \in Workers \ {w} : pc'[v] = pc[v] /\ job'[v] = job[v] /\ seen'[v] = seen[v]
      /\ member' = member /\ points' = points
  BY DEF Start, IInv, TypeOK, db
<1>3. /\ q \in Changes \union Accounts => member.status = "normal"
      /\ q.kind = "deduct" => member.acc - member.used >= q.n
  BY MemberAssumption DEF Allowed, Requests
<1>4. WorkersOK'
  <2>1. ASSUME NEW v \in Workers
        PROVE  /\ pc'[v] = "apply" =>
                    /\ job'[v] \in Sales \union Requests
                    /\ job'[v].kind = "sale" => CalculatePoints(job'[v].n) > 0
                    /\ job'[v] \in Changes \union Accounts => seen'[v].status = "normal"
                    /\ job'[v].kind = "deduct" => seen'[v].acc - seen'[v].used >= job'[v].n
                    /\ job'[v] \in Statuses => ValidMemberStatus(job'[v].status)
               /\ pc'[v] = "answer" =>
                    /\ job'[v] \in Sales
                    /\ job'[v].kind = "sale" => Has(points', job'[v].op)
    <3>1. CASE v = w
      BY <1>2, <1>3, <3>1
    <3>2. CASE v # w
      BY <1>2, <3>2 DEF IInv, WorkersOK
    <3>3. QED
      BY <3>1, <3>2
  <2>2. QED
    BY <2>1 DEF WorkersOK
<1>5. AloneOK'
  <2>1. ASSUME ~overlapped'
        PROVE  /\ \A v, u \in Workers : pc'[v] = "apply" /\ pc'[u] = "apply" => v = u
               /\ \A v \in Workers : pc'[v] = "apply" => seen'[v] = member'
               /\ member'.acc = LastAfter(points')
    <3>1. ~overlapped /\ \A v \in Workers \ {w} : pc[v] # "apply"
      BY <2>1 DEF Start
    <3>2. QED
      BY <1>2, <3>1 DEF IInv, AloneOK
  <2>2. QED
    BY <2>1 DEF AloneOK
<1>6. QED
  BY <1>1, <1>4, <1>5

(* A worker leaves its transaction; nobody's answer depends on it.          *)
LEMMA Left ==
  ASSUME IInv, NEW w \in Workers, NEW s \in {"idle", "answer"},
         pc' = [pc EXCEPT ![w] = s],
         \A v \in Workers \ {w} : job'[v] = job[v] /\ seen'[v] = seen[v],
         s = "answer" => /\ job'[w] \in Sales
                         /\ job'[w].kind = "sale" => Has(points', job'[w].op),
         \A op : Has(points, op) => Has(points', op)
  PROVE  /\ WorkersOK' /\ pc' \in [Workers -> {"idle", "apply", "answer"}]
         /\ pc'[w] # "apply" /\ \A v \in Workers \ {w} : pc'[v] = pc[v]
<1>1. /\ pc' \in [Workers -> {"idle", "apply", "answer"}]
      /\ pc'[w] = s /\ \A v \in Workers \ {w} : pc'[v] = pc[v]
  BY DEF IInv, TypeOK
<1>2. ASSUME NEW v \in Workers
      PROVE  /\ pc'[v] = "apply" =>
                  /\ job'[v] \in Sales \union Requests
                  /\ job'[v].kind = "sale" => CalculatePoints(job'[v].n) > 0
                  /\ job'[v] \in Changes \union Accounts => seen'[v].status = "normal"
                  /\ job'[v].kind = "deduct" => seen'[v].acc - seen'[v].used >= job'[v].n
                  /\ job'[v] \in Statuses => ValidMemberStatus(job'[v].status)
             /\ pc'[v] = "answer" =>
                  /\ job'[v] \in Sales
                  /\ job'[v].kind = "sale" => Has(points', job'[v].op)
  <2>1. CASE v = w
    BY <1>1, <2>1
  <2>2. CASE v # w
    BY <1>1, <2>2 DEF IInv, WorkersOK
  <2>3. QED
    BY <2>1, <2>2
<1>3. QED
  BY <1>1, <1>2 DEF WorkersOK

LEMMA Finished ==
  ASSUME IInv, NEW w \in Workers, Finish(w),
         \A op : Has(points, op) => Has(points', op)
  PROVE  /\ WorkersOK' /\ pc' \in [Workers -> {"idle", "apply", "answer"}]
         /\ pc'[w] # "apply" /\ \A v \in Workers \ {w} : pc'[v] = pc[v]
         /\ job' \in [Workers -> Sales \union Requests \union {Idle}]
         /\ seen' \in [Workers -> MemberRow]
         /\ \A v \in Workers : pc'[v] = "apply" => seen'[v] = seen[v]
<1>1. New \in MemberRow
  BY DEF New, MemberRow
<1>2. /\ pc' = [pc EXCEPT ![w] = "idle"]
      /\ \A v \in Workers \ {w} : job'[v] = job[v] /\ seen'[v] = seen[v]
      /\ job' \in [Workers -> Sales \union Requests \union {Idle}]
      /\ seen' \in [Workers -> MemberRow]
  BY <1>1 DEF Finish, IInv, TypeOK
<1>3. /\ WorkersOK' /\ pc' \in [Workers -> {"idle", "apply", "answer"}]
      /\ pc'[w] # "apply" /\ \A v \in Workers \ {w} : pc'[v] = pc[v]
  BY <1>2, Left
<1>4. QED
  BY <1>2, <1>3

(* Nothing is written and nothing was overlapped that is not any more.      *)
LEMMA BooksKept ==
  ASSUME IInv, UNCHANGED db, overlapped => overlapped'
  PROVE  /\ ColumnsAreLedger' /\ ExactAlone' /\ StatusIsLastChange'
         /\ member' \in MemberRow /\ points' \in Seq(PointRow)
         /\ account' \in Seq(AccountRow) /\ changes' \in Seq(Statuses)
         /\ \A op : Has(points', op) <=> Has(points, op)
BY DEF IInv, TypeOK, db, ColumnsAreLedger, ExactAlone, StatusIsLastChange, BalanceIsLedger,
       Once, Chained, Accumulated, Used, SalesOf, Earned, MoneyOf, Has

(* The only worker in a transaction, when nothing overlaps, writes.         *)
LEMMA AloneWrites ==
  ASSUME IInv, NEW w \in Workers, pc[w] = "apply", pc'[w] # "apply",
         \A v \in Workers \ {w} : pc'[v] = pc[v], overlapped' = overlapped,
         ~overlapped => member'.acc = LastAfter(points')
  PROVE  AloneOK'
BY DEF IInv, AloneOK

LEMMA Answered ==
  ASSUME TypeOK, NEW e \in Sales, Answer200(e)
  PROVE  bus' \in [Sales -> 0..MaxCopies] /\ acked' \subseteq Sales
BY MemberAssumption DEF TypeOK, Answer200

-----------------------------------------------------------------------------
LEMMA InitIInv == Init => IInv
<1> SUFFICES ASSUME Init PROVE IInv
  OBVIOUS
<1>1. TypeOK
  <2>1. New \in MemberRow
    BY DEF New, MemberRow
  <2>2. bus \in [Sales -> 0..MaxCopies] /\ faults \in 0..MaxFaults
    BY MemberAssumption DEF Init
  <2>3. /\ pc \in [Workers -> {"idle", "apply", "answer"}]
        /\ job \in [Workers -> Sales \union Requests \union {Idle}]
        /\ seen \in [Workers -> MemberRow]
    BY <2>1 DEF Init
  <2>4. /\ member \in MemberRow /\ points \in Seq(PointRow)
        /\ account \in Seq(AccountRow) /\ changes \in Seq(Statuses)
        /\ acked \subseteq Sales /\ logged \subseteq Sales /\ overlapped \in BOOLEAN
    <3>1. <<>> \in Seq(PointRow) /\ <<>> \in Seq(AccountRow) /\ <<>> \in Seq(Statuses)
      OBVIOUS
    <3>2. QED
      BY <2>1, <3>1, Zenon DEF Init
  <2>5. QED
    BY <2>2, <2>3, <2>4 DEF TypeOK
<1>2. WorkersOK /\ AloneOK
  BY DEF Init, WorkersOK, AloneOK, New, LastAfter
<1>3. ColumnsAreLedger /\ ExactAlone
  <2>1. Once(points) /\ Once(account) /\ Chained(points)
    BY DEF Init, Once, Chained
  <2>2. QED
    BY <2>1, EmptyLedgers DEF Init, New, ColumnsAreLedger, ExactAlone, BalanceIsLedger
<1>4. StatusIsLastChange /\ AckedWasCredited
  BY DEF Init, New, StatusIsLastChange, Once, AckedWasCredited
<1>5. QED
  BY <1>1, <1>2, <1>3, <1>4 DEF IInv

(* The steps that write points.                                             *)
LEMMA PointsStep ==
  ASSUME IInv, NEW w \in Workers, pc[w] = "apply", pc'[w] # "apply",
         \A v \in Workers \ {w} : pc'[v] = pc[v],
         member' \in MemberRow, points' \in Seq(PointRow),
         member'.balance = member.balance, member'.status = member.status,
         Once(points'),
         member'.acc = Accumulated(points'), member'.used = Used(points'),
         member'.count = SalesOf(points'),
         \A op : Has(points, op) => Has(points', op),
         ~overlapped => /\ Chained(points') /\ member'.acc = LastAfter(points')
                        /\ member'.acc >= 0 /\ member'.used <= Earned(points'),
         UNCHANGED <<account, changes, overlapped>>
  PROVE  AloneOK' /\ ColumnsAreLedger' /\ ExactAlone' /\ StatusIsLastChange'
<1>1. AloneOK'
  BY AloneWrites
<1>2. ColumnsAreLedger'
  BY DEF IInv, ColumnsAreLedger, Once
<1>3. BalanceIsLedger => BalanceIsLedger'
  BY DEF BalanceIsLedger, MoneyOf
<1>4. ExactAlone'
  BY <1>3 DEF IInv, ExactAlone
<1>5. StatusIsLastChange'
  BY DEF IInv, StatusIsLastChange, Once
<1>6. QED
  BY <1>1, <1>2, <1>4, <1>5

(* What is acknowledged stays credited.                                     *)
LEMMA AckedKept ==
  ASSUME IInv, acked' = acked, logged \subseteq logged',
         \A op : Has(points, op) => Has(points', op)
  PROVE  AckedWasCredited'
BY DEF IInv, AckedWasCredited

LEMMA ReceiveStep ==
  ASSUME IInv, NEW w \in Workers, NEW e \in Sales, Receive(w, e)
  PROVE  IInv'
<1>1. UNCHANGED db /\ faults' = faults /\ pc[w] = "idle" /\ e.n \in Nat
      /\ e.kind \in {"sale", "return"} /\ e \in Requests \union Sales
  BY MemberAssumption DEF Receive
<1>2. CASE CalculatePoints(e.n) > 0 /\ Start(w, e) /\ UNCHANGED broker
  <2>1. e \notin Changes \union Accounts /\ e \notin Statuses
    BY <1>1, MemberAssumption
  <2>2. /\ WorkersOK' /\ AloneOK'
        /\ pc' \in [Workers -> {"idle", "apply", "answer"}]
        /\ job' \in [Workers -> Sales \union Requests \union {Idle}]
        /\ seen' \in [Workers -> MemberRow]
        /\ overlapped' \in BOOLEAN /\ (overlapped => overlapped')
    BY <1>1, <1>2, <2>1, Started
  <2>3. TypeOK' /\ ColumnsAreLedger' /\ ExactAlone' /\ StatusIsLastChange'
    BY <1>1, <1>2, <2>2, BooksKept DEF IInv, TypeOK, broker
  <2>4. AckedWasCredited'
    BY <1>1, <1>2, BooksKept, AckedKept, <2>2 DEF broker
  <2>5. QED
    BY <2>2, <2>3, <2>4 DEF IInv
<1>3. CASE CalculatePoints(e.n) = 0 /\ Answer200(e) /\ UNCHANGED <<logged, worker, overlapped>>
  <2>1. bus' \in [Sales -> 0..MaxCopies] /\ acked' \subseteq Sales
    BY <1>3, Answered DEF IInv
  <2>2. /\ ColumnsAreLedger' /\ ExactAlone' /\ StatusIsLastChange'
        /\ member' \in MemberRow /\ points' \in Seq(PointRow)
        /\ account' \in Seq(AccountRow) /\ changes' \in Seq(Statuses)
        /\ \A op : Has(points', op) <=> Has(points, op)
    BY <1>1, <1>3, BooksKept
  <2>3. TypeOK'
    BY <1>1, <1>3, <2>1, <2>2 DEF IInv, TypeOK, worker
  <2>4. WorkersOK' /\ AloneOK'
    BY <1>1, <1>3, <2>2 DEF IInv, WorkersOK, AloneOK, worker, db, LastAfter
  <2>5. AckedWasCredited'
    BY <1>3, <2>2 DEF IInv, AckedWasCredited, Answer200
  <2>6. QED
    BY <2>2, <2>3, <2>4, <2>5 DEF IInv
<1>4. QED
  BY <1>2, <1>3 DEF Receive

LEMMA RequestStep ==
  ASSUME IInv, NEW w \in Workers, NEW q \in Changes \union Accounts, Request(w, q)
  PROVE  IInv'
<1>1. /\ UNCHANGED <<db, broker, faults>> /\ pc[w] = "idle" /\ Start(w, q) /\ Allowed(q)
      /\ q \in Sales \union Requests /\ q.kind # "sale" /\ q \notin Statuses
  <2>1. UNCHANGED <<db, broker, faults>> /\ pc[w] = "idle" /\ Start(w, q) /\ Allowed(q)
    BY DEF Request
  <2>2. q \in Sales \union Requests /\ q.kind # "sale" /\ q.kind # "status"
    BY MemberAssumption DEF Requests
  <2>3. QED
    BY <2>1, <2>2, MemberAssumption
<1>2. /\ WorkersOK' /\ AloneOK'
      /\ pc' \in [Workers -> {"idle", "apply", "answer"}]
      /\ job' \in [Workers -> Sales \union Requests \union {Idle}]
      /\ seen' \in [Workers -> MemberRow]
      /\ overlapped' \in BOOLEAN /\ (overlapped => overlapped')
  BY <1>1, Started
<1>3. TypeOK' /\ ColumnsAreLedger' /\ ExactAlone' /\ StatusIsLastChange'
  BY <1>1, <1>2, BooksKept DEF IInv, TypeOK, broker
<1>4. AckedWasCredited'
  BY <1>1, <1>2, BooksKept, AckedKept DEF broker
<1>5. QED
  BY <1>2, <1>3, <1>4 DEF IInv

LEMMA UpdateStatusStep ==
  ASSUME IInv, NEW w \in Workers, NEW q \in Statuses, UpdateStatus(w, q)
  PROVE  IInv'
<1>1. /\ UNCHANGED <<db, broker, faults>> /\ pc[w] = "idle" /\ Start(w, q)
      /\ ValidMemberStatus(q.status)
      /\ q \in Sales \union Requests /\ q.kind # "sale" /\ q \notin Changes \union Accounts
  <2>1. UNCHANGED <<db, broker, faults>> /\ pc[w] = "idle" /\ Start(w, q) /\ ValidMemberStatus(q.status)
    BY DEF UpdateStatus
  <2>2. q \in Sales \union Requests /\ q.kind = "status"
    BY MemberAssumption DEF Requests
  <2>3. QED
    BY <2>1, <2>2, MemberAssumption
<1>2. /\ WorkersOK' /\ AloneOK'
      /\ pc' \in [Workers -> {"idle", "apply", "answer"}]
      /\ job' \in [Workers -> Sales \union Requests \union {Idle}]
      /\ seen' \in [Workers -> MemberRow]
      /\ overlapped' \in BOOLEAN /\ (overlapped => overlapped')
  BY <1>1, Started
<1>3. TypeOK' /\ ColumnsAreLedger' /\ ExactAlone' /\ StatusIsLastChange'
  BY <1>1, <1>2, BooksKept DEF IInv, TypeOK, broker
<1>4. AckedWasCredited'
  BY <1>1, <1>2, BooksKept, AckedKept DEF broker
<1>5. QED
  BY <1>2, <1>3, <1>4 DEF IInv

LEMMA ApplySaleStep ==
  ASSUME IInv, NEW w \in Workers, ApplySale(w)
  PROVE  IInv'
<1> DEFINE p == CalculatePoints(job[w].n)
<1> DEFINE m == [member EXCEPT !.acc = @ + p, !.count = @ + 1]
<1>1. /\ pc[w] = "apply" /\ job[w].kind = "sale" /\ job[w] \in Sales /\ job[w].n \in Nat
      /\ pc' = [pc EXCEPT ![w] = "answer"]
      /\ UNCHANGED <<account, changes, broker, job, seen, overlapped, faults>>
  BY Jobs DEF ApplySale, Applying, IInv
<1>2. p \in Nat
  BY <1>1, PointsNat
<1>3. WritePoints(w, p, seen[w].acc + p, m)
  BY DEF ApplySale
<1>4. member \in MemberRow /\ seen[w] \in MemberRow
  BY DEF IInv, TypeOK
<1> HIDE DEF p
<1>5. /\ m \in MemberRow /\ seen[w].acc + p \in Int /\ p \in Int
      /\ m.acc = member.acc + p /\ m.used = member.used /\ m.count = member.count + 1
      /\ m.balance = member.balance /\ m.status = member.status
      /\ Moves(job[w]) /\ job[w].kind \in PointKinds
  <2>1. /\ m.acc = member.acc + p /\ m.used = member.used /\ m.count = member.count + 1
        /\ m.balance = member.balance /\ m.status = member.status
    BY <1>4 DEF MemberRow
  <2>2. m \in MemberRow
    <3>1. member.acc + p \in Int /\ member.count + 1 \in Nat
      BY <1>2, <1>4 DEF MemberRow
    <3>2. QED
      BY <1>4, <3>1 DEF MemberRow
  <2>3. QED
    BY <1>1, <1>2, <1>4, <2>1, <2>2 DEF MemberRow, Moves, PointKinds
<1>6. ~overlapped => m.acc >= 0
  BY <1>2, <1>4, <1>5 DEF IInv, ExactAlone, MemberRow
<1> HIDE DEF m
<1>7. /\ member' \in MemberRow /\ points' \in Seq(PointRow)
      /\ member'.balance = member.balance /\ member'.status = member.status
      /\ Once(points')
      /\ member'.acc = Accumulated(points') /\ member'.used = Used(points')
      /\ member'.count = SalesOf(points')
      /\ Has(points', job[w].op)
      /\ \A op : Has(points, op) => Has(points', op)
      /\ ~overlapped => /\ Chained(points') /\ member'.acc = LastAfter(points')
                        /\ member'.acc >= 0 /\ member'.used <= Earned(points')
  <2>1. m.used = member.used + 0
    BY <1>4, <1>5 DEF MemberRow
  <2>2. QED
    BY <1>1, <1>3, <1>5, <1>6, <2>1, PointsWritten
<1>8. /\ WorkersOK' /\ pc' \in [Workers -> {"idle", "apply", "answer"}]
      /\ pc'[w] # "apply" /\ \A v \in Workers \ {w} : pc'[v] = pc[v]
  BY <1>1, <1>7, Left
<1>9. TypeOK'
  BY <1>1, <1>7, <1>8 DEF IInv, TypeOK, broker
<1>10. AloneOK' /\ ColumnsAreLedger' /\ ExactAlone' /\ StatusIsLastChange'
  BY <1>1, <1>7, <1>8, PointsStep
<1>11. AckedWasCredited'
  BY <1>1, <1>7, AckedKept DEF broker
<1>12. QED
  BY <1>8, <1>9, <1>10, <1>11 DEF IInv

LEMMA ApplyReturnStep ==
  ASSUME IInv, NEW w \in Workers, ApplyReturn(w)
  PROVE  IInv'
<1> DEFINE d == Deduct(w)
<1> DEFINE m == [member EXCEPT !.acc = @ - d]
<1>1. /\ pc[w] = "apply" /\ job[w].kind = "return" /\ job[w] \in Sales /\ job[w].n \in Nat
      /\ pc' = [pc EXCEPT ![w] = "answer"]
      /\ UNCHANGED <<account, changes, broker, job, seen, overlapped, faults>>
  BY Jobs DEF ApplyReturn, Applying, IInv
<1>2. member \in MemberRow /\ seen[w] \in MemberRow
  BY DEF IInv, TypeOK
<1>3. d \in Int /\ d <= seen[w].acc
  BY <1>1, <1>2, PointsNat DEF Deduct, MemberRow
<1>4. d <= 0 \/ WritePoints(w, -d, seen[w].acc - d, m)
  BY DEF ApplyReturn
<1>5. d <= 0 => UNCHANGED <<points, member>>
  BY DEF ApplyReturn
<1> HIDE DEF d
<1>6. /\ m \in MemberRow /\ seen[w].acc - d \in Int /\ -d \in Int
      /\ m.acc = member.acc + -d /\ m.used = member.used /\ m.count = member.count
      /\ m.balance = member.balance /\ m.status = member.status
      /\ seen[w].acc - d = seen[w].acc + -d
      /\ Moves(job[w]) /\ job[w].kind \in PointKinds
  BY <1>1, <1>2, <1>3 DEF MemberRow, Moves, PointKinds
<1>7. ~overlapped => m.acc >= 0
  <2>1. ~overlapped => seen[w] = member
    BY <1>1 DEF IInv, AloneOK
  <2>2. QED
    BY <1>2, <1>3, <1>6, <2>1 DEF MemberRow
<1> HIDE DEF m
<1>8. /\ member' \in MemberRow /\ points' \in Seq(PointRow)
      /\ member'.balance = member.balance /\ member'.status = member.status
      /\ Once(points')
      /\ member'.acc = Accumulated(points') /\ member'.used = Used(points')
      /\ member'.count = SalesOf(points')
      /\ \A op : Has(points, op) => Has(points', op)
      /\ ~overlapped => /\ Chained(points') /\ member'.acc = LastAfter(points')
                        /\ member'.acc >= 0 /\ member'.used <= Earned(points')
  <2>1. CASE d <= 0
    <3>1. points' = points /\ member' = member
      BY <1>5, <2>1
    <3>2. QED
      BY <1>2, <3>1 DEF IInv, TypeOK, ColumnsAreLedger, ExactAlone, AloneOK
  <2>2. CASE ~(d <= 0)
    <3>1. m.used = member.used + 0 /\ m.count = member.count + 0
      BY <1>2, <1>6 DEF MemberRow
    <3>2. QED
      BY <1>1, <1>4, <1>6, <1>7, <2>2, <3>1, PointsWritten
  <2>3. QED
    BY <2>1, <2>2
<1>9. /\ WorkersOK' /\ pc' \in [Workers -> {"idle", "apply", "answer"}]
      /\ pc'[w] # "apply" /\ \A v \in Workers \ {w} : pc'[v] = pc[v]
  BY <1>1, <1>8, Left
<1>10. TypeOK'
  BY <1>1, <1>8, <1>9 DEF IInv, TypeOK, broker
<1>11. AloneOK' /\ ColumnsAreLedger' /\ ExactAlone' /\ StatusIsLastChange'
  BY <1>1, <1>8, <1>9, PointsStep
<1>12. AckedWasCredited'
  BY <1>1, <1>8, AckedKept DEF broker
<1>13. QED
  BY <1>9, <1>10, <1>11, <1>12 DEF IInv

LEMMA ChangePointsStep ==
  ASSUME IInv, NEW w \in Workers, ChangePoints(w)
  PROVE  IInv'
<1> DEFINE n == job[w].n
<1> DEFINE earn == job[w].kind = "earn"
<1> DEFINE delta == IF earn THEN n ELSE -n
<1> DEFINE m == IF earn THEN [member EXCEPT !.acc = @ + n] ELSE [member EXCEPT !.used = @ + n]
<1> DEFINE after == IF earn THEN seen[w].acc + n ELSE seen[w].acc
<1>1. /\ pc[w] = "apply" /\ job[w].kind \in {"earn", "deduct"} /\ n \in Nat
      /\ Finish(w)
      /\ UNCHANGED <<account, changes, broker, overlapped, faults>>
  BY Jobs DEF ChangePoints, Applying, IInv, WorkersOK
<1>2. member \in MemberRow /\ seen[w] \in MemberRow
  BY DEF IInv, TypeOK
<1>3. WritePoints(w, delta, after, m)
  BY DEF ChangePoints
<1>4. Moves(job[w]) = earn /\ job[w].kind \in PointKinds /\ job[w].kind # "sale"
  BY <1>1 DEF Moves, PointKinds
<1>5. /\ m \in MemberRow /\ after \in Int /\ delta \in Int
      /\ m.acc = member.acc + (IF Moves(job[w]) THEN delta ELSE 0)
      /\ m.used = member.used + (IF Moves(job[w]) THEN 0 ELSE -delta)
      /\ m.count = member.count + 0
      /\ m.balance = member.balance /\ m.status = member.status
      /\ after = seen[w].acc + (IF Moves(job[w]) THEN delta ELSE 0)
  <2>1. CASE earn
    <3>1. /\ member.acc + n \in Int /\ seen[w].acc + n \in Int /\ n \in Int
          /\ member.count + 0 = member.count /\ member.used + 0 = member.used
      BY <1>1, <1>2 DEF MemberRow
    <3>2. m = [member EXCEPT !.acc = @ + n] /\ delta = n /\ after = seen[w].acc + n
      BY <2>1
    <3> HIDE DEF m, n, delta, after
    <3>3. /\ m.acc = member.acc + n /\ m.used = member.used /\ m.count = member.count
          /\ m.balance = member.balance /\ m.status = member.status /\ m \in MemberRow
      BY <1>2, <3>1, <3>2 DEF MemberRow
    <3>4. QED
      BY <1>4, <2>1, <3>1, <3>2, <3>3
  <2>2. CASE ~earn
    <3>1. /\ member.used + n \in Nat /\ member.used + n = member.used + -(-n) /\ -n \in Int
          /\ member.count + 0 = member.count /\ member.acc + 0 = member.acc
          /\ seen[w].acc + 0 = seen[w].acc /\ seen[w].acc \in Int
      BY <1>1, <1>2 DEF MemberRow
    <3>2. m = [member EXCEPT !.used = @ + n] /\ delta = -n /\ after = seen[w].acc
      BY <2>2
    <3> HIDE DEF m, n, delta, after
    <3>3. /\ m.used = member.used + n /\ m.acc = member.acc /\ m.count = member.count
          /\ m.balance = member.balance /\ m.status = member.status /\ m \in MemberRow
      BY <1>2, <3>1, <3>2 DEF MemberRow
    <3>4. QED
      BY <1>4, <2>2, <3>1, <3>2, <3>3
  <2>3. QED
    BY <2>1, <2>2
<1>6. ~overlapped => m.acc >= 0 /\ (Moves(job[w]) \/ m.used <= m.acc)
  <2>1. ASSUME ~overlapped PROVE seen[w] = member /\ member.acc >= 0
    BY <1>1, <2>1 DEF IInv, AloneOK, ExactAlone
  <2>2. ~earn => seen[w].acc - seen[w].used >= n
    BY <1>1 DEF IInv, WorkersOK
  <2>3. /\ member.acc \in Int /\ member.used \in Int /\ n \in Nat
        /\ earn => m.acc = member.acc + n
        /\ ~earn => m.acc = member.acc /\ m.used = member.used + n
    BY <1>1, <1>2 DEF MemberRow
  <2> HIDE DEF m, n, earn
  <2>4. CASE earn
    BY <1>4, <2>1, <2>3, <2>4
  <2>5. CASE ~earn
    BY <1>4, <2>1, <2>2, <2>3, <2>5
  <2>6. QED
    BY <2>4, <2>5
<1> HIDE DEF m, after, delta
<1>7. /\ member' \in MemberRow /\ points' \in Seq(PointRow)
      /\ member'.balance = member.balance /\ member'.status = member.status
      /\ Once(points')
      /\ member'.acc = Accumulated(points') /\ member'.used = Used(points')
      /\ member'.count = SalesOf(points')
      /\ \A op : Has(points, op) => Has(points', op)
      /\ ~overlapped => /\ Chained(points') /\ member'.acc = LastAfter(points')
                        /\ member'.acc >= 0 /\ member'.used <= Earned(points')
  BY <1>1, <1>3, <1>4, <1>5, <1>6, PointsWritten
<1>8. /\ WorkersOK' /\ pc' \in [Workers -> {"idle", "apply", "answer"}]
      /\ pc'[w] # "apply" /\ \A v \in Workers \ {w} : pc'[v] = pc[v]
  BY <1>1, <1>7, Finished
<1>9. TypeOK'
  BY <1>1, <1>7, <1>8, Finished DEF IInv, TypeOK, broker
<1>10. AloneOK' /\ ColumnsAreLedger' /\ ExactAlone' /\ StatusIsLastChange'
  BY <1>1, <1>7, <1>8, PointsStep
<1>11. AckedWasCredited'
  BY <1>1, <1>7, AckedKept DEF broker
<1>12. QED
  BY <1>8, <1>9, <1>10, <1>11 DEF IInv

LEMMA ChangeAccountStep ==
  ASSUME IInv, NEW w \in Workers, ChangeAccount(w)
  PROVE  IInv'
<1> DEFINE row == [op |-> job[w].op, kind |-> job[w].kind, n |-> job[w].n, after |-> BalanceAfter(w)]
<1>1. /\ pc[w] = "apply" /\ job[w].kind \in AccountKinds /\ job[w].n \in Nat
      /\ job[w].op \in Ops
      /\ Finish(w)
      /\ UNCHANGED <<points, changes, broker, overlapped, faults>>
  BY Jobs DEF ChangeAccount, Applying, IInv, WorkersOK, AccountKinds
<1>2. member \in MemberRow /\ seen[w] \in MemberRow /\ account \in Seq(AccountRow)
  BY DEF IInv, TypeOK
<1>3. BalanceAfter(w) \in Int
  <2>1. seen[w].balance \in Int
    BY <1>2 DEF MemberRow
  <2>2. QED
    BY <1>1, <2>1 DEF BalanceAfter
<1>4. row \in AccountRow /\ row.op = job[w].op
  BY <1>1, <1>3 DEF AccountRow
<1>5. \/ Has(account, job[w].op) /\ account' = account /\ member' = member
      \/ /\ ~Has(account, job[w].op)
         /\ account' = Append(account, row)
         /\ member' = [member EXCEPT !.balance = BalanceAfter(w)]
  BY DEF ChangeAccount
<1>6. row.kind = job[w].kind /\ row.n = job[w].n
  OBVIOUS
<1> HIDE DEF row
<1>7. /\ member' \in MemberRow /\ account' \in Seq(AccountRow)
      /\ member'.acc = member.acc /\ member'.used = member.used
      /\ member'.count = member.count /\ member'.status = member.status
  <2>1. account' \in Seq(AccountRow)
    BY <1>2, <1>4, <1>5
  <2>2. QED
    BY <1>2, <1>3, <1>5, <2>1 DEF MemberRow
<1>8. Once(account')
  <2>1. Once(account)
    BY DEF IInv, ColumnsAreLedger
  <2>2. ~Has(account, job[w].op) => Once(Append(account, row))
    BY <1>2, <1>4, <2>1, OnceAppend
  <2>3. QED
    BY <1>5, <2>1, <2>2
<1>9. ASSUME ~overlapped PROVE member'.balance = MoneyOf(account')
  <2>1. seen[w] = member /\ member.balance = MoneyOf(account)
    BY <1>1, <1>9 DEF IInv, AloneOK, ExactAlone, BalanceIsLedger
  <2>2. CASE account' = account /\ member' = member
    BY <2>1, <2>2
  <2>3. CASE account' = Append(account, row) /\ member' = [member EXCEPT !.balance = BalanceAfter(w)]
    <3>1. /\ MoneyOf(account) \in Int
          /\ MoneyOf(account') = MoneyOf(account) + (IF row.kind = "recharge" THEN row.n ELSE -row.n)
      BY <1>2, <1>4, <2>3, MoneyAppend
    <3>2. member'.balance = member.balance + (IF row.kind = "recharge" THEN row.n ELSE -row.n)
      BY <1>2, <1>6, <2>1, <2>3 DEF BalanceAfter, MemberRow
    <3>3. QED
      BY <2>1, <3>1, <3>2
  <2>4. QED
    BY <1>5, <2>2, <2>3
<1>10. /\ WorkersOK' /\ pc'[w] # "apply" /\ \A v \in Workers \ {w} : pc'[v] = pc[v]
       /\ TypeOK'
  <2>1. \A op : Has(points, op) => Has(points', op)
    BY <1>1
  <2>2. QED
    BY <1>1, <1>7, <2>1, Finished DEF IInv, TypeOK, broker
<1>11. AloneOK'
  <2>1. ~overlapped => member'.acc = LastAfter(points')
    BY <1>1, <1>7 DEF IInv, AloneOK
  <2>2. QED
    BY <1>1, <1>10, <2>1, AloneWrites
<1>12. ColumnsAreLedger' /\ ExactAlone'
  <2>1. points' = points
    BY <1>1
  <2>2. ColumnsAreLedger'
    BY <1>7, <1>8, <2>1 DEF IInv, ColumnsAreLedger
  <2>3. ExactAlone'
    BY <1>1, <1>7, <1>9, <2>1 DEF IInv, ExactAlone, BalanceIsLedger
  <2>4. QED
    BY <2>2, <2>3
<1>13. StatusIsLastChange' /\ AckedWasCredited'
  BY <1>1, <1>7, AckedKept DEF IInv, StatusIsLastChange, Once, broker
<1>14. QED
  BY <1>10, <1>11, <1>12, <1>13 DEF IInv

LEMMA WriteStatusStep ==
  ASSUME IInv, NEW w \in Workers, WriteStatus(w)
  PROVE  IInv'
<1>1. /\ pc[w] = "apply" /\ job[w].kind = "status" /\ job[w] \in Statuses
      /\ ValidMemberStatus(job[w].status)
      /\ Finish(w)
      /\ UNCHANGED <<points, account, broker, overlapped, faults>>
  BY Jobs DEF WriteStatus, Applying, IInv, WorkersOK
<1>2. member \in MemberRow /\ changes \in Seq(Statuses)
  BY DEF IInv, TypeOK
<1>3. \/ changes' = changes /\ member' = member
      \/ /\ ~Has(changes, job[w].op)
         /\ changes' = Append(changes, job[w])
         /\ member' = [member EXCEPT !.status = job[w].status]
  BY DEF WriteStatus
<1>4. /\ member' \in MemberRow /\ changes' \in Seq(Statuses)
      /\ member'.acc = member.acc /\ member'.used = member.used
      /\ member'.count = member.count /\ member'.balance = member.balance
  <2>1. changes' \in Seq(Statuses)
    BY <1>1, <1>2, <1>3
  <2>2. QED
    BY <1>1, <1>2, <1>3, <2>1 DEF MemberRow, ValidMemberStatus
<1>5. StatusIsLastChange'
  <2>1. CASE changes' = changes /\ member' = member
    BY <2>1 DEF IInv, StatusIsLastChange, Once
  <2>2. CASE /\ ~Has(changes, job[w].op)
             /\ changes' = Append(changes, job[w])
             /\ member' = [member EXCEPT !.status = job[w].status]
    <3>1. Once(changes')
      BY <1>1, <1>2, <2>2, OnceAppend DEF IInv, StatusIsLastChange
    <3>2. changes' # <<>> /\ changes'[Len(changes')] = job[w]
      BY <1>1, <1>2, <2>2
    <3>3. member'.status = job[w].status
      BY <1>2, <2>2 DEF MemberRow
    <3>4. QED
      BY <3>1, <3>2, <3>3 DEF StatusIsLastChange
  <2>3. QED
    BY <1>3, <2>1, <2>2
<1>6. /\ WorkersOK' /\ pc'[w] # "apply" /\ \A v \in Workers \ {w} : pc'[v] = pc[v]
      /\ TypeOK'
  <2>1. \A op : Has(points, op) => Has(points', op)
    BY <1>1
  <2>2. QED
    BY <1>1, <1>4, <2>1, Finished DEF IInv, TypeOK, broker
<1>7. AloneOK'
  <2>1. ~overlapped => member'.acc = LastAfter(points')
    BY <1>1, <1>4 DEF IInv, AloneOK
  <2>2. QED
    BY <1>1, <1>6, <2>1, AloneWrites
<1>8. ColumnsAreLedger' /\ ExactAlone' /\ AckedWasCredited'
  <2>1. points' = points /\ account' = account
    BY <1>1
  <2>2. ColumnsAreLedger'
    BY <1>4, <2>1 DEF IInv, ColumnsAreLedger
  <2>3. ExactAlone'
    BY <1>1, <1>4, <2>1 DEF IInv, ExactAlone, BalanceIsLedger
  <2>4. AckedWasCredited'
    BY <1>1, <2>1, AckedKept DEF broker
  <2>5. QED
    BY <2>2, <2>3, <2>4
<1>9. QED
  BY <1>5, <1>6, <1>7, <1>8 DEF IInv

(* The steps that end a job without a write.                                *)
LEMMA EndStep ==
  ASSUME IInv, NEW w \in Workers, Finish(w), UNCHANGED <<db, overlapped>>,
         bus' \in [Sales -> 0..MaxCopies], acked' \subseteq Sales, logged' \subseteq Sales,
         faults' \in 0..MaxFaults,
         AckedWasCredited'
  PROVE  IInv'
<1>1. /\ ColumnsAreLedger' /\ ExactAlone' /\ StatusIsLastChange'
      /\ member' \in MemberRow /\ points' \in Seq(PointRow)
      /\ account' \in Seq(AccountRow) /\ changes' \in Seq(Statuses)
      /\ \A op : Has(points, op) => Has(points', op)
  BY BooksKept
<1>2. /\ WorkersOK' /\ pc' \in [Workers -> {"idle", "apply", "answer"}]
      /\ pc'[w] # "apply" /\ \A v \in Workers \ {w} : pc'[v] = pc[v]
      /\ job' \in [Workers -> Sales \union Requests \union {Idle}]
      /\ seen' \in [Workers -> MemberRow]
      /\ \A v \in Workers : pc'[v] = "apply" => seen'[v] = seen[v]
  BY <1>1, Finished
<1>3. TypeOK'
  BY <1>1, <1>2 DEF IInv, TypeOK
<1>4. AloneOK'
  <2>1. member' = member /\ points' = points /\ overlapped' = overlapped
    BY DEF db
  <2>2. QED
    BY <1>2, <2>1 DEF IInv, AloneOK, LastAfter
<1>5. QED
  BY <1>1, <1>2, <1>3, <1>4 DEF IInv

LEMMA AnswerStep ==
  ASSUME IInv, NEW w \in Workers, Answer(w)
  PROVE  IInv'
<1>1. /\ job[w] \in Sales /\ (job[w].kind = "sale" => Has(points, job[w].op))
      /\ Answer200(job[w]) /\ Finish(w) /\ UNCHANGED <<db, logged, overlapped, faults>>
  BY DEF Answer, IInv, WorkersOK
<1>2. bus' \in [Sales -> 0..MaxCopies] /\ acked' \subseteq Sales
  BY <1>1, Answered DEF IInv
<1>3. AckedWasCredited'
  <2>1. points' = points /\ logged' = logged /\ acked' = acked \union {job[w]}
    BY <1>1 DEF Answer200, db
  <2>2. QED
    BY <1>1, <2>1 DEF IInv, AckedWasCredited
<1>4. QED
  BY <1>1, <1>2, <1>3, EndStep DEF IInv, TypeOK

LEMMA HandlerErrorStep ==
  ASSUME IInv, NEW w \in Workers, HandlerError(w)
  PROVE  IInv'
<1>1. /\ job[w] \in Sales /\ logged' = logged \union {job[w]}
      /\ Answer200(job[w]) /\ Finish(w) /\ UNCHANGED <<db, overlapped>>
      /\ faults < MaxFaults /\ faults' = faults + 1
  BY Jobs DEF HandlerError, Applying, IInv
<1>2. bus' \in [Sales -> 0..MaxCopies] /\ acked' \subseteq Sales
  BY <1>1, Answered DEF IInv
<1>3. logged' \subseteq Sales /\ faults' \in 0..MaxFaults
  BY <1>1, MemberAssumption DEF IInv, TypeOK
<1>4. AckedWasCredited'
  <2>1. points' = points /\ acked' = acked \union {job[w]}
    BY <1>1 DEF Answer200, db
  <2>2. QED
    BY <1>1, <2>1 DEF IInv, AckedWasCredited
<1>5. QED
  BY <1>1, <1>2, <1>3, <1>4, EndStep

LEMMA CrashStep ==
  ASSUME IInv, NEW w \in Workers, Crash(w)
  PROVE  IInv'
<1>1. /\ Finish(w) /\ UNCHANGED <<db, broker, overlapped>>
      /\ faults < MaxFaults /\ faults' = faults + 1
  BY DEF Crash
<1>2. faults' \in 0..MaxFaults
  BY <1>1, MemberAssumption DEF IInv, TypeOK
<1>3. AckedWasCredited'
  BY <1>1, BooksKept, AckedKept DEF broker
<1>4. QED
  BY <1>1, <1>2, <1>3, EndStep DEF IInv, TypeOK, broker

LEMMA NextIInv == IInv /\ [Next]_vars => IInv'
<1> SUFFICES ASSUME IInv, [Next]_vars PROVE IInv'
  OBVIOUS
<1>1. CASE UNCHANGED vars
  <2>1. UNCHANGED db /\ overlapped' = overlapped
    BY <1>1 DEF vars
  <2>2. ColumnsAreLedger' /\ ExactAlone' /\ StatusIsLastChange'
    BY <2>1, BooksKept
  <2>3. TypeOK' /\ WorkersOK' /\ AloneOK' /\ AckedWasCredited'
    BY <1>1, <2>1 DEF vars, db, broker, worker, IInv, TypeOK, WorkersOK, AloneOK, AckedWasCredited,
       Has, LastAfter
  <2>4. QED
    BY <2>2, <2>3 DEF IInv
<1>2. CASE Next
  <2>1. PICK w \in Workers :
          \/ \E e \in Sales : Receive(w, e)
          \/ \E q \in Changes \union Accounts : Request(w, q)
          \/ \E q \in Statuses : UpdateStatus(w, q)
          \/ WorkerStep(w) \/ HandlerError(w) \/ Crash(w)
    BY <1>2 DEF Next
  <2>2. CASE \E e \in Sales : Receive(w, e)
    BY <2>2, ReceiveStep
  <2>3. CASE \E q \in Changes \union Accounts : Request(w, q)
    BY <2>3, RequestStep
  <2>4. CASE \E q \in Statuses : UpdateStatus(w, q)
    BY <2>4, UpdateStatusStep
  <2>5. CASE WorkerStep(w)
    BY <2>5, ApplySaleStep, ApplyReturnStep, AnswerStep, ChangePointsStep, ChangeAccountStep,
       WriteStatusStep DEF WorkerStep
  <2>6. CASE HandlerError(w)
    BY <2>6, HandlerErrorStep
  <2>7. CASE Crash(w)
    BY <2>7, CrashStep
  <2>8. QED
    BY <2>1, <2>2, <2>3, <2>4, <2>5, <2>6, <2>7
<1>3. QED
  BY <1>1, <1>2

(* The inductive invariant holds of every reachable state.                  *)
THEOREM MemberInvariant == Spec => []IInv
<1>1. QED
  BY InitIInv, NextIInv, PTL DEF Spec

(* Every variable keeps its type.                                           *)
THEOREM MemberTypeCorrect == Spec => []TypeOK
<1>1. IInv => TypeOK
  BY DEF IInv
<1>2. QED
  BY <1>1, MemberInvariant, PTL

(* However often and in parallel an event or request comes in, its op_id    *)
(* counts once, and the member's columns are the sums of the point ledger.  *)
THEOREM ColumnsAreTheLedger == Spec => []ColumnsAreLedger
<1>1. IInv => ColumnsAreLedger
  BY DEF IInv
<1>2. QED
  BY <1>1, MemberInvariant, PTL

(* Operations that do not overlap leave exact books.                        *)
THEOREM AloneIsExact == Spec => []ExactAlone
<1>1. IInv => ExactAlone
  BY DEF IInv
<1>2. QED
  BY <1>1, MemberInvariant, PTL

(* The status is the one of the last change that was written, and no        *)
(* change is written twice.                                                 *)
THEOREM StatusIsTheLastChange == Spec => []StatusIsLastChange
<1>1. IInv => StatusIsLastChange
  BY DEF IInv
<1>2. QED
  BY <1>1, MemberInvariant, PTL

(* A sale that was answered 200 has its points, or a line in the log.       *)
THEOREM AcknowledgedWasCredited == Spec => []AckedWasCredited
<1>1. IInv => AckedWasCredited
  BY DEF IInv
<1>2. QED
  BY <1>1, MemberInvariant, PTL

(* The balance moves in ChangeAccount only, which was let through for a     *)
(* card that was normal; without an overlap it still is.                    *)
THEOREM FrozenBalanceStays == Spec => FrozenDoesNotMove
<1>1. IInv /\ [Next]_vars => [~overlapped /\ member.status # "normal" => member'.balance = member.balance]_vars
  <2> SUFFICES ASSUME IInv, [Next]_vars, ~overlapped, member.status # "normal"
               PROVE  member'.balance = member.balance
    OBVIOUS
  <2>1. CASE UNCHANGED vars
    BY <2>1 DEF vars, db
  <2>2. CASE Next
    <3>1. PICK w \in Workers :
            \/ \E e \in Sales : Receive(w, e)
            \/ \E q \in Changes \union Accounts : Request(w, q)
            \/ \E q \in Statuses : UpdateStatus(w, q)
            \/ WorkerStep(w) \/ HandlerError(w) \/ Crash(w)
      BY <2>2 DEF Next
    <3>2. member \in MemberRow
      BY DEF IInv, TypeOK
    <3>3. CASE ChangeAccount(w)
      <4>1. pc[w] = "apply" /\ job[w] \in Accounts
        BY <3>3, Jobs DEF ChangeAccount, Applying, IInv
      <4>2. seen[w].status = "normal" /\ seen[w] = member
        BY <4>1 DEF IInv, WorkersOK, AloneOK
      <4>3. QED
        BY <4>2
    <3>4. CASE ApplySale(w) \/ ApplyReturn(w) \/ ChangePoints(w)
      BY <3>2, <3>4 DEF ApplySale, ApplyReturn, ChangePoints, WritePoints, MemberRow
    <3>5. CASE WriteStatus(w)
      BY <3>2, <3>5 DEF WriteStatus, MemberRow
    <3>6. CASE Answer(w) \/ HandlerError(w) \/ Crash(w)
      BY <3>6 DEF Answer, HandlerError, Crash, db
    <3>7. CASE \/ \E e \in Sales : Receive(w, e)
               \/ \E q \in Changes \union Accounts : Request(w, q)
               \/ \E q \in Statuses : UpdateStatus(w, q)
      BY <3>7 DEF Receive, Request, UpdateStatus, db
    <3>8. QED
      BY <3>1, <3>3, <3>4, <3>5, <3>6, <3>7 DEF WorkerStep
  <2>3. QED
    BY <2>1, <2>2
<1>2. QED
  BY <1>1, MemberInvariant, PTL DEF Spec, FrozenDoesNotMove
=============================================================================
