----------------------------- MODULE ReconEngine -----------------------------
(***************************************************************************)
(* internal/cashrecon/engine: Run, the pure function that pairs what the   *)
(* tills took with what the banks paid in, as operators.                   *)
(*                                                                         *)
(* Takings are records [day, method, way, net], statement lines records    *)
(* [day, channel, amount, fee, id], amounts in cents, all fields integers: *)
(* methods, pay ways and ids stand for their place in the order of their   *)
(* names.  Days are the calendar days inWindow compares.  What the engine  *)
(* copies into its output (ids, hashes of keys, the handling of earlier    *)
(* differences) and the summary are left out.                              *)
(***************************************************************************)
EXTENDS Integers, Sequences, FiniteSets, FiniteSetsExt

CONSTANTS
  MatchingMethods,   \* paired with the bank
  Unmapped,          \* the method of unknown pay ways
  Inputs             \* records [takings, lines, from, to, tolerance], as Run is given them

Taking == [day : Int, method : Int, way : Int, net : Int]
Line == [day : Int, channel : Int, amount : Int, fee : Int, id : Int]

(* Takings are summed up by day and pay way, and lines have ids.            *)
ASSUME EngineAssumption ==
  /\ MatchingMethods \subseteq Int /\ Unmapped \in Int \ MatchingMethods
  /\ \A in \in Inputs :
       /\ in.takings \subseteq Taking /\ in.lines \subseteq Line
       /\ IsFiniteSet(in.takings) /\ IsFiniteSet(in.lines)
       /\ in.from \in Int /\ in.to \in Int /\ in.tolerance \in Int
       /\ \A c, d \in in.takings : c.day = d.day /\ c.way = d.way => c = d
       /\ \A f, g \in in.lines :
            f.day = g.day /\ f.channel = g.channel /\ f.amount = g.amount /\ f.id = g.id => f = g

-----------------------------------------------------------------------------
Tolerance == 1
Abs(n) == IF n < 0 THEN -n ELSE n
near(a, b) == Abs(a - b) <= Tolerance

toleranceDays(t) == IF t <= 0 THEN 1 ELSE IF t > 7 THEN 7 ELSE t

(* Tuples in the order the sorts of Run compare their fields.               *)
Less(s, t) == \E i \in DOMAIN s : s[i] < t[i] /\ \A j \in 1 .. i - 1 : s[j] = t[j]
CashOrder(c) == <<c.day, c.method, c.way>>
BankOrder(f) == <<f.day, f.channel, f.amount, f.id>>

(* The members of S, each before those it is related to by R.               *)
Sorted(S, R) ==
  CHOOSE s \in [1 .. Cardinality(S) -> S] : \A i, j \in DOMAIN s : i < j => <<s[i], s[j]>> \in R

(* Mutant: the lines are taken from the last to the first.                  *)
SortBank_Backwards(lines) ==
  Sorted(lines, {p \in lines \X lines : Less(BankOrder(p[2]), BankOrder(p[1]))})

SortBank(lines) == Sorted(lines, {p \in lines \X lines : Less(BankOrder(p[1]), BankOrder(p[2]))})

InSpan(takings, from, to) == {c \in takings : c.day \in from .. to}
SortCash(takings) ==
  Sorted(takings, {p \in takings \X takings : Less(CashOrder(p[1]), CashOrder(p[2]))})

SameLine(f, g) == f.channel = g.channel /\ f.day = g.day /\ f.amount = g.amount /\ f.fee = g.fee

(* All but the first of a group of equal lines are duplicates.              *)
Duplicates(bank) == {i \in DOMAIN bank : \E j \in 1 .. i - 1 : SameLine(bank[i], bank[j])}

Eligible(c) == c.method \in MatchingMethods /\ c.net # 0
Reachable(c, f, days) == f.channel = c.method /\ f.day \in c.day .. c.day + days

(* The net itself if no fee was taken, or the net less the fee.             *)
Settles(f, c) == f.fee >= 0 /\ near(f.amount, c.net - f.fee)

Result(kind, cash, line) == [kind |-> kind, cash |-> cash, line |-> line]
Used(results) == {r.line : r \in results} \ {0}

(* The lines that are still free and in the window of c.                    *)
FreeLines(results, c, bank, days) ==
  {k \in DOMAIN bank \ (Used(results) \union Duplicates(bank)) : Reachable(c, bank[k], days)}

-----------------------------------------------------------------------------
(* Passes one and two: each of the takings, in order, gets the first free   *)
(* line that settles it.                                                    *)
MatchOne(matches, cash, bank, days, i) ==
  LET fit == {k \in FreeLines(matches, cash[i], bank, days) : Settles(bank[k], cash[i])}
  IN IF ~Eligible(cash[i]) \/ fit = {} THEN matches
     ELSE matches \union {Result("match", i, Min(fit))}

Match(cash, bank, days) ==
  LET after[i \in 0 .. Len(cash)] ==
        IF i = 0 THEN {} ELSE MatchOne(after[i - 1], cash, bank, days, i)
  IN after[Len(cash)]

Nearest(c, bank, free) ==
  CHOOSE k \in free : \A j \in free :
    LET gap(m) == Abs(bank[m].amount - c.net) IN gap(k) < gap(j) \/ (gap(k) = gap(j) /\ k <= j)

(* Pass three: takings without a match take the nearest free line as a      *)
(* difference of amount, or stand alone, late if no line came at all.       *)
DifferOne(results, cash, bank, days, i) ==
  LET free == FreeLines(results, cash[i], bank, days)
  IN IF ~Eligible(cash[i]) \/ \E r \in results : r.cash = i THEN results
     ELSE results \union
       {IF free # {} THEN Result("amount_diff", i, Nearest(cash[i], bank, free))
        ELSE IF \E k \in DOMAIN bank : Reachable(cash[i], bank[k], days) THEN Result("single_cash", i, 0)
        ELSE Result("time_lag", i, 0)}

Differ(cash, bank, days, matches) ==
  LET after[i \in 0 .. Len(cash)] ==
        IF i = 0 THEN matches ELSE DifferOne(after[i - 1], cash, bank, days, i)
  IN after[Len(cash)]

Paired(cash, bank, days) == Differ(cash, bank, days, Match(cash, bank, days))

Results(cash, bank, days) ==
  LET paired == Paired(cash, bank, days)
  IN paired
     \union {Result("unmapped", i, 0) : i \in {j \in DOMAIN cash : cash[j].method = Unmapped}}
     \union {Result("duplicate", 0, k) : k \in Duplicates(bank)}
     \union {Result("single_bank", 0, k) : k \in DOMAIN bank \ (Used(paired) \union Duplicates(bank))}

Cash(in) == SortCash(InSpan(in.takings, in.from, in.to))
Bank(in) == SortBank(in.lines)
Run(in) == Results(Cash(in), Bank(in), toleranceDays(in.tolerance))

-----------------------------------------------------------------------------
(* The takings that lines can settle at one time, a line for each: pairs of *)
(* their places.                                                            *)
Pairings(cash, bank, days) ==
  {p \in SUBSET ((DOMAIN cash) \X (DOMAIN bank)) :
     /\ \A x, y \in p : x[1] = y[1] \/ x[2] = y[2] => x = y
     /\ \A x \in p : /\ Eligible(cash[x[1]]) /\ x[2] \notin Duplicates(bank)
                     /\ Reachable(cash[x[1]], bank[x[2]], days) /\ Settles(bank[x[2]], cash[x[1]])}

(* Every line of the statement, and every one of the takings that is paired *)
(* with the bank or that no rule knows, is in exactly one result, whatever  *)
(* was lost on the way: nothing is counted twice and nothing disappears.    *)
Once(S) == Cardinality(S) = 1
Accounted(in) ==
  LET cash == Cash(in)
      bank == Bank(in)
      results == Run(in)
  IN /\ \A f \in in.lines : Once({r \in results : r.line # 0 /\ bank[r.line] = f})
     /\ \A c \in InSpan(in.takings, in.from, in.to) :
          LET of == {r \in results : r.cash # 0 /\ cash[r.cash] = c}
          IN IF c.method = Unmapped \/ Eligible(c) THEN Once(of) ELSE of = {}

(* First come, first served misses no match: as many takings are settled as *)
(* any pairing could settle, as long as different amounts differ by more    *)
(* than twice the tolerance.                                                *)
AmountsApart(in) ==
  \A c, d \in in.takings : c.net # d.net => Abs(c.net - d.net) > 2 * Tolerance
Maximal(in) ==
  LET cash == Cash(in)
      bank == Bank(in)
      days == toleranceDays(in.tolerance)
      matches == Match(cash, bank, days)
  IN \A p \in Pairings(cash, bank, days) : Cardinality(p) <= Cardinality(matches)

EngineLosesNothing == \A in \in Inputs : Accounted(in) /\ (AmountsApart(in) => Maximal(in))
=============================================================================
