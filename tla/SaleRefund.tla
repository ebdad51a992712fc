----------------------------- MODULE SaleRefund -----------------------------
(***************************************************************************)
(* Refund and PriceOverride of the pos service on one sales order: several *)
(* clerks, each request one READ COMMITTED transaction whose statements    *)
(* interleave with those of the others.                                    *)
(*                                                                         *)
(* Amounts are cents, quantities whole units.  Names, snapshots of prices, *)
(* discounts, exchange rates and audit columns are left out, as is the     *)
(* answer: a refused request rolls back and changes nothing.  The order    *)
(* row is the last row a transaction writes before it commits, and it is   *)
(* read without a lock, so nobody can tell its update from the commit.     *)
(***************************************************************************)
EXTENDS Integers, Sequences, FiniteSets, SequencesExt

CONSTANTS
  Sold,          \* the order's lines as sold: <<[qty, amount], ...>>
  Pays,          \* the amounts of its payments
  Refunds,       \* refund requests: [op, want], want = <<>> or <<[line, qty], ...>>
  Overrides,     \* price overrides: [line, amount]
  Clerks,        \* requests in progress at one time
  NoClerk

Lines == DOMAIN Sold
Sum(s) == SumFunction(s)
AmountsOf(s) == [i \in DOMAIN s |-> s[i].amount]

(* What Create accepts: quantities above 0, amounts that add up.  A refund  *)
(* of a line the order does not have is refused, and never made here.       *)
ASSUME SaleAssumption ==
  /\ NoClerk \notin Clerks
  /\ Sold \in Seq([qty : Nat \ {0}, amount : Nat])
  /\ Pays \in Seq(Nat) /\ Pays # <<>> /\ Sum(Pays) = Sum(AmountsOf(Sold))
  /\ \A r \in Refunds : r.want \in Seq([line : Lines, qty : Int])
  /\ \A o \in Overrides : o.line \in Lines /\ o.amount \in Int

VARIABLES
  order,         \* sales_orders: [status, total]
  line,          \* sale_lines: per line [amount, returned, returnedAmount]
  refunds,       \* committed refunds: the R event in the outbox, its payments, and
                 \* the order's total they were computed from
  lock,          \* per line: the transaction that has written the row
  stage, job,    \* per clerk: where it is, its request
  seen,          \* per clerk: the total it read
  plan, full,    \* per clerk: the lines it refunds, whether they complete the order
  done           \* per clerk: the lines it has updated; for an override its total

db    == <<order, line, refunds>>
clerk == <<stage, job, seen, plan, full, done>>
refundVars == <<db, lock, clerk>>

NoJob == [op |-> "none", want |-> <<>>]

-----------------------------------------------------------------------------
RefundInit ==
  /\ order = [status |-> "paid", total |-> Sum(AmountsOf(Sold))]
  /\ line = [l \in Lines |-> [amount |-> Sold[l].amount, returned |-> 0, returnedAmount |-> 0]]
  /\ refunds = <<>>
  /\ lock = [l \in Lines |-> NoClerk]
  /\ stage = [c \in Clerks |-> "idle"]
  /\ job = [c \in Clerks |-> NoJob]
  /\ seen = [c \in Clerks |-> 0]
  /\ plan = [c \in Clerks |-> <<>>]
  /\ full = [c \in Clerks |-> FALSE]
  /\ done = [c \in Clerks |-> 0]

(* The transaction is over: its row locks and its variables are gone.       *)
EndTx(c) ==
  /\ lock' = [l \in Lines |-> IF lock[l] = c THEN NoClerk ELSE lock[l]]
  /\ stage' = [stage EXCEPT ![c] = "idle"]
  /\ job' = [job EXCEPT ![c] = NoJob]
  /\ seen' = [seen EXCEPT ![c] = 0]
  /\ plan' = [plan EXCEPT ![c] = <<>>]
  /\ full' = [full EXCEPT ![c] = FALSE]
  /\ done' = [done EXCEPT ![c] = 0]

Abort(c) == EndTx(c) /\ UNCHANGED db

-----------------------------------------------------------------------------
(* Refund.                                                                  *)

(* refundAlreadyDone: the outbox has the op_id.                             *)
AlreadyDone(op) == \E i \in DOMAIN refunds : refunds[i].op = op

(* The transaction begins: no replay, and the order is not returned.        *)
BeginRefund(c, r) ==
  /\ stage[c] = "idle"
  /\ ~AlreadyDone(r.op)
  /\ order.status # "returned"
  /\ stage' = [stage EXCEPT ![c] = "lines"]
  /\ job' = [job EXCEPT ![c] = r]
  /\ seen' = [seen EXCEPT ![c] = order.total]
  /\ UNCHANGED <<db, lock, plan, full, done>>

Left(l) == Sold[l].qty - line[l].returned

(* a / b rounded to the nearest cent, halves away from 0.                   *)
RoundDiv(a, b) ==
  IF a >= 0 THEN (2 * a + b) \div (2 * b) ELSE -((b - 2 * a) \div (2 * b))

(* refundAmountFor: in proportion to the quantity.                          *)
refundAmountFor(l, q) == RoundDiv(line[l].amount * q, Sold[l].qty)

Item(l, q) == [line |-> l, qty |-> q, amount |-> refundAmountFor(l, q)]

(* selectRefundLines: without a list, everything that is left; with one,    *)
(* the lines named, 0 standing for what is left, each checked on its own.   *)
Ascending(s) == \A i, j \in DOMAIN s : i < j => s[i] < s[j]
Open == CHOOSE s \in BoundedSeq(Lines, Len(Sold)) :
          Ascending(s) /\ Range(s) = {l \in Lines : Left(l) > 0}

Wanted(want) ==
  IF want = <<>>
  THEN [i \in DOMAIN Open |-> Item(Open[i], Left(Open[i]))]
  ELSE [i \in DOMAIN want |->
          Item(want[i].line, IF want[i].qty = 0 THEN Left(want[i].line) ELSE want[i].qty)]

Acceptable(items) ==
  /\ items # <<>>
  /\ \A i \in DOMAIN items : items[i].qty > 0 /\ items[i].qty <= Left(items[i].line)

(* now[line id] in allLinesFullyReturned: of two entries for one line the   *)
(* last one counts.                                                         *)
Now(items, l) ==
  LET at == {i \in DOMAIN items : items[i].line = l}
  IN  IF at = {} THEN 0 ELSE items[CHOOSE i \in at : \A j \in at : j <= i].qty

(* Mutant: only the lines of this refund are looked at.                     *)
allLinesFullyReturned_ThisRefund(items) ==
  \A l \in Lines : Now(items, l) > 0 => line[l].returned + Now(items, l) >= Sold[l].qty

allLinesFullyReturned(items) ==
  \A l \in Lines : line[l].returned + Now(items, l) >= Sold[l].qty

(* The lines are read and everything is computed from what was read.        *)
ReadLines(c) ==
  /\ stage[c] = "lines"
  /\ LET items == Wanted(job[c].want) IN
       \/ /\ Acceptable(items)
          /\ plan' = [plan EXCEPT ![c] = items]
          /\ full' = [full EXCEPT ![c] = allLinesFullyReturned(items)]
          /\ stage' = [stage EXCEPT ![c] = "pay"]
          /\ UNCHANGED <<db, lock, job, seen, done>>
       \/ ~Acceptable(items) /\ Abort(c)

Inserted(c) == stage[c] \in {"update", "commit"}

(* The ids of the refund's payments and of its outbox row derive from the   *)
(* op_id; both are inserted by the transaction, payments first.             *)
KeyFree(c) == ~AlreadyDone(job[c].op)

(* Insert the payments: wait for a transaction that inserted the same keys, *)
(* then go on, or fail on the unique key.                                   *)
Pay(c) ==
  /\ stage[c] = "pay"
  /\ KeyFree(c) => \A d \in Clerks \ {c} : ~(Inserted(d) /\ job[d].op = job[c].op)
  /\ \/ /\ KeyFree(c)
        /\ stage' = [stage EXCEPT ![c] = "update"]
        /\ UNCHANGED <<db, lock, job, seen, plan, full, done>>
     \/ ~KeyFree(c) /\ Abort(c)

(* Quantity this transaction has already put on line l.                     *)
Written(c, l) == Sum([i \in 1..done[c] |-> IF plan[c][i].line = l THEN plan[c][i].qty ELSE 0])

Current(c) == plan[c][done[c] + 1]

(* Mutant: check first, write later; the update has no condition.           *)
Fits_Unchecked(c) == TRUE

(* WHERE returned_qty + ? <= qty, on the row as it is once the lock is had. *)
Fits(c) ==
  LET l == Current(c).line
  IN  line[l].returned + Written(c, l) + Current(c).qty <= Sold[l].qty

(* One conditional update; no row affected rolls the refund back.           *)
UpdateLine(c) ==
  /\ stage[c] = "update"
  /\ lock[Current(c).line] \in {NoClerk, c}
  /\ \/ /\ Fits(c)
        /\ lock' = [lock EXCEPT ![Current(c).line] = c]
        /\ done' = [done EXCEPT ![c] = @ + 1]
        /\ stage' = [stage EXCEPT ![c] = IF done[c] + 1 = Len(plan[c]) THEN "commit" ELSE "update"]
        /\ UNCHANGED <<db, job, seen, plan, full>>
     \/ ~Fits(c) /\ Abort(c)

RefundTotal(items) == Sum(AmountsOf(items))

(* Mutant: the last payment is rounded like the others.                     *)
buildRefundPayments_AllRounded(total, refund) ==
  IF refund >= total THEN Pays
  ELSE [i \in DOMAIN Pays |-> RoundDiv(Pays[i] * refund, total)]

(* buildRefundPayments: every payment in full when the refund reaches the   *)
(* total; else in proportion, the last one taking what rounding left.       *)
buildRefundPayments(total, refund) ==
  LET share(i) == RoundDiv(Pays[i] * refund, total) IN
  IF refund >= total THEN Pays
  ELSE [i \in DOMAIN Pays |->
          IF i < Len(Pays) THEN share(i)
          ELSE refund - Sum([j \in 1..(i - 1) |-> share(j)])]

Restored(c, l) ==
  [line[l] EXCEPT
     !.returned = @ + Written(c, l),
     !.returnedAmount =
        @ + Sum([i \in 1..done[c] |-> IF plan[c][i].line = l THEN plan[c][i].amount ELSE 0])]

(* Mutant: the lines are written by statements outside the transaction's    *)
(* sight: the event leaves, the quantities are not recorded.                *)
CommitRefund_LinesLost(c) ==
  /\ stage[c] = "commit"
  /\ order' = [order EXCEPT !.status = IF full[c] THEN "returned" ELSE "part_returned"]
  /\ refunds' = Append(refunds, [op |-> job[c].op, items |-> plan[c], total |-> seen[c],
                                 paid |-> buildRefundPayments(seen[c], RefundTotal(plan[c]))])
  /\ EndTx(c)
  /\ UNCHANGED line

(* The order's status, the R event in the outbox, and the commit.           *)
CommitRefund(c) ==
  /\ stage[c] = "commit"
  /\ order' = [order EXCEPT !.status = IF full[c] THEN "returned" ELSE "part_returned"]
  /\ line' = [l \in Lines |-> Restored(c, l)]
  /\ refunds' = Append(refunds, [op |-> job[c].op, items |-> plan[c], total |-> seen[c],
                                 paid |-> buildRefundPayments(seen[c], RefundTotal(plan[c]))])
  /\ EndTx(c)

-----------------------------------------------------------------------------
(* PriceOverride: its line, the new total from all lines, the order.        *)

OverrideLine(c, o) ==
  /\ stage[c] = "idle"
  /\ lock[o.line] = NoClerk
  /\ lock' = [lock EXCEPT ![o.line] = c]
  /\ job' = [job EXCEPT ![c] = o]
  /\ stage' = [stage EXCEPT ![c] = "sum"]
  /\ UNCHANGED <<db, seen, plan, full, done>>

SumLines(o) == Sum([l \in Lines |-> IF l = o.line THEN o.amount ELSE line[l].amount])

OverrideSum(c) ==
  /\ stage[c] = "sum"
  /\ done' = [done EXCEPT ![c] = SumLines(job[c])]
  /\ stage' = [stage EXCEPT ![c] = "total"]
  /\ UNCHANGED <<db, lock, job, seen, plan, full>>

OverrideCommit(c) ==
  /\ stage[c] = "total"
  /\ line' = [line EXCEPT ![job[c].line].amount = job[c].amount]
  /\ order' = [order EXCEPT !.total = done[c]]
  /\ EndTx(c)
  /\ UNCHANGED refunds

-----------------------------------------------------------------------------
(* A database error, a crash, or PostgreSQL aborting one of two refunds     *)
(* that wait for each other's lines.                                        *)
FailTx(c) == stage[c] # "idle" /\ Abort(c)

TxStep(c) ==
  \/ ReadLines(c) \/ Pay(c) \/ UpdateLine(c) \/ CommitRefund(c)
  \/ OverrideSum(c) \/ OverrideCommit(c)

RefundNext ==
  \E c \in Clerks :
    \/ \E r \in Refunds : BeginRefund(c, r)
    \/ \E o \in Overrides : OverrideLine(c, o)
    \/ TxStep(c) \/ FailTx(c)

RefundSpec == RefundInit /\ [][RefundNext]_refundVars

-----------------------------------------------------------------------------
ItemType == [line : Lines, qty : Nat, amount : Int]

RefundTypeOK ==
  /\ order \in [status : {"paid", "part_returned", "returned"}, total : Int]
  /\ line \in [Lines -> [amount : Int, returned : Nat, returnedAmount : Int]]
  /\ lock \in [Lines -> Clerks \union {NoClerk}]
  /\ stage \in [Clerks -> {"idle", "lines", "pay", "update", "commit", "sum", "total"}]
  /\ job \in [Clerks -> Refunds \union Overrides \union {NoJob}]
  /\ seen \in [Clerks -> Int] /\ done \in [Clerks -> Int]
  /\ plan \in [Clerks -> Seq(ItemType)] /\ full \in [Clerks -> BOOLEAN]
  /\ \A i \in DOMAIN refunds : refunds[i].items \in Seq(ItemType) /\ refunds[i].total \in Int

EventQty(l) ==
  Sum([i \in DOMAIN refunds |->
         Sum([k \in DOMAIN refunds[i].items |->
                IF refunds[i].items[k].line = l THEN refunds[i].items[k].qty ELSE 0])])

(* The guard against refunding too much, across transactions: no line is    *)
(* returned more often than it was sold.                                    *)
NeverOverReturned == \A l \in Lines : line[l].returned <= Sold[l].qty

(* What the events give back to stock is what the lines say was returned,   *)
(* and a refund submitted again, also while its first try is still running, *)
(* has one event.                                                           *)
EventsMatchLines ==
  /\ \A l \in Lines : EventQty(l) = line[l].returned
  /\ \A i, j \in DOMAIN refunds : refunds[i].op = refunds[j].op => i = j

(* An order is "returned" only when nothing is left of any line.            *)
ReturnedMeansAll ==
  order.status = "returned" => \A l \in Lines : line[l].returned = Sold[l].qty

(* As long as the order's total is what was paid, and the refund is between *)
(* 0 and it, the money paid back is to the cent the amount of the event.    *)
PaidBackIsEventTotal ==
  \A i \in DOMAIN refunds :
    LET r == refunds[i] IN
      r.total = Sum(Pays) /\ RefundTotal(r.items) \in 0..r.total => Sum(r.paid) = RefundTotal(r.items)

=============================================================================
