------------------------------ MODULE CutSplit ------------------------------
(***************************************************************************)
(* internal/fresh-meat/service/cut_split_algo.go: how much of each cut the *)
(* pigs of a day should have given, how much they gave, and the weights by *)
(* which the day's cost is spread over the cuts, as operators.             *)
(*                                                                         *)
(* Weights and amounts are decimals in the code, exact but for quotients,  *)
(* which are rounded to the 16th place.  Here all are whole numbers and a  *)
(* quotient is rounded to the next one; what a run gives in are multiples  *)
(* of many units.  scaleSplitToPigWeight multiplies by a rounded quotient, *)
(* here the product is rounded: in both the largest cut takes up what the  *)
(* rounding leaves.  Cuts are numbers in the order of their names.  The    *)
(* warning is only whether there is one, and the filter on the cuts the    *)
(* engine prints is left out.                                              *)
(***************************************************************************)
EXTENDS Integers, FiniteSets, Functions

CONSTANTS
  Cuts,
  PigDays,     \* the pigs of a day: sets of records, see Pig
  CountDays,   \* what a day did to each cut, see CountDay
  Splits       \* what pigs should give and gave, and the cost per cut, see Split

Weights == [Cuts -> Nat]
Pig ==
  [id : Nat, mode : {"auto", "baseline", "llm"}, base : Weights, advice : Weights, gross : Nat \ {0}]
CountDay == [made : Weights, open : Weights, sold : Weights, bulk : Weights, load : Weights, here : Weights]
Split == [suggested : Weights, actual : Weights, amounts : Weights]

Closing(x, c) == x.open[c] + x.made[c] - x.sold[c] - x.bulk[c]

(* Pigs are weighed; and what is counted at the counter is part of what is  *)
(* left.                                                                    *)
ASSUME CutAssumption ==
  /\ Cuts \subseteq Nat /\ IsFiniteSet(Cuts)
  /\ \A pigs \in PigDays : pigs \subseteq Pig /\ IsFiniteSet(pigs)
  /\ CountDays \subseteq CountDay /\ \A x \in CountDays, c \in Cuts : x.here[c] <= Closing(x, c)
  /\ Splits \subseteq Split

Nothing == [c \in Cuts |-> 0]
Div(n, d) == (2 * n + d) \div (2 * d)      \* of n >= 0 and d > 0, half up
AtMost(m, n) == IF m < n THEN m ELSE n
AtLeast0(n) == IF n < 0 THEN 0 ELSE n
sumKgOf(f) == SumFunctionOnSet(f, Cuts)

-----------------------------------------------------------------------------
(* What a pig should give.                                                  *)

(* Not more than the pig weighs, to the unit; less is lost in cutting.      *)
scaleSplitToPigWeight(s, gross) ==
  LET sum == sumKgOf(s)
      largest == CHOOSE c \in Cuts : \A d \in Cuts : s[d] < s[c] \/ (s[d] = s[c] /\ c <= d)
      share == [c \in Cuts |-> Div(s[c] * gross, sum)]
  IN IF gross <= 0 \/ sum <= gross THEN s
     ELSE [share EXCEPT ![largest] = gross - SumFunctionOnSet(share, Cuts \ {largest})]

(* Per cut the median of the pig's weight band, or else what the language   *)
(* model expected, as the pig's mode allows.                                *)
loadSuggestedSplitPerPig(p) ==
  scaleSplitToPigWeight(
    [c \in Cuts |-> IF p.mode # "llm" /\ p.base[c] > 0 THEN p.base[c]
                    ELSE IF p.mode # "baseline" THEN p.advice[c] ELSE 0],
    p.gross)

(* All pigs of the day, each a record with an id.                          *)
loadSuggestedSplitKg(pigs) ==
  [c \in Cuts |-> SumFunctionOnSet([p \in pigs |-> loadSuggestedSplitPerPig(p)[c]], pigs)]

-----------------------------------------------------------------------------
(* What the pigs gave.                                                      *)

(* The newest of the day's sheets; only a complete one counts the counter.  *)
loadStocktakeCutKg(sheets) ==
  IF sheets = {} THEN [complete |-> FALSE, counter |-> Nothing, cold |-> Nothing]
  ELSE LET latest == CHOOSE t \in sheets : \A u \in sheets : u.at <= t.at
       IN [complete |-> latest.complete, cold |-> latest.cold,
           counter |-> IF latest.complete THEN latest.counter ELSE Nothing]

(* What was recorded; or else what the day's books of the whole shop leave  *)
(* to be explained; or, without a count, what the counter gave away beyond  *)
(* what was there and what was carried to it.                               *)
deriveActualSplits(recorded, day, count) ==
  [c \in Cuts |->
     LET gone == day.sold[c] + day.bulk[c] + day.waste[c]
     IN IF recorded[c] > 0 THEN recorded[c]
        ELSE IF count.complete
        THEN AtLeast0(count.counter[c] + count.cold[c] + gone - day.open[c])
        ELSE AtLeast0(gone - day.open[c] - day.load[c])]

-----------------------------------------------------------------------------
(* The weights: a cut that gave more than it should keeps what it gave, the *)
(* others give way, first by what they did not use, then by what they have. *)

Over(s, a) == {c \in Cuts : a[c] > s[c]}
Excess(s, a) == SumFunctionOnSet([c \in Cuts |-> a[c] - s[c]], Over(s, a))
Pool(s, a) == [c \in Cuts |-> AtLeast0(s[c] - a[c])]

(* Mutant: the first round goes by what was suggested.                      *)
FirstRound_BySuggestion(s, a) ==
  [c \in Cuts |-> IF c \in Over(s, a) THEN s[c]
                  ELSE s[c] - AtMost(Pool(s, a)[c],
                                     Div(Excess(s, a) * s[c], SumFunctionOnSet(s, Cuts \ Over(s, a))))]

FirstRound(s, a) ==
  LET pool == Pool(s, a)
      total == sumKgOf(pool)
      excess == Excess(s, a)
  IN [c \in Cuts |-> s[c] - AtMost(pool[c], Div(excess * pool[c], total))]

SecondRound(w, rest, others) ==
  LET sum == SumFunctionOnSet(w, others)
  IN IF rest <= 0 \/ sum <= 0 THEN w
     ELSE [c \in Cuts |-> IF c \in others THEN w[c] - AtMost(w[c], Div(rest * w[c], sum)) ELSE w[c]]

redistributeSplitWeights(s, a) ==
  LET over == Over(s, a)
      others == Cuts \ over
      first == FirstRound(s, a)
      rest == Excess(s, a) - (SumFunctionOnSet(s, others) - SumFunctionOnSet(first, others))
      second == SecondRound(first, rest, others)
      left == rest - (SumFunctionOnSet(first, others) - SumFunctionOnSet(second, others))
  IN IF sumKgOf(s) <= 0 \/ over = {} THEN [w |-> s, note |-> FALSE]
     ELSE IF sumKgOf(Pool(s, a)) <= 0 THEN [w |-> s, note |-> TRUE]
     ELSE [w |-> [c \in Cuts |-> IF c \in over THEN a[c] ELSE second[c]], note |-> left > 0]

computeCutSplit(pigs, recorded, day, sheets) ==
  redistributeSplitWeights(loadSuggestedSplitKg(pigs),
                           deriveActualSplits(recorded, day, loadStocktakeCutKg(sheets)))

(* The day's weights and cost by these weights, if there are any.           *)
applySplitWeights(w, kg, amt) ==
  LET total == sumKgOf(w)
  IN IF total <= 0 THEN [kg |-> kg, amt |-> amt]
     ELSE [kg |-> [c \in Cuts |-> AtLeast0(w[c])],
           amt |-> [c \in Cuts |-> IF w[c] <= 0 THEN 0 ELSE Div(sumKgOf(amt) * w[c], total)]]

-----------------------------------------------------------------------------
(* To the rounding of a quotient per cut.                                   *)
Near(m, n) == 2 * (m - n) \in -Cardinality(Cuts) .. Cardinality(Cuts)

(* The pigs of a day are not to give more than they weigh.                  *)
SuggestionFits(pigs) ==
  sumKgOf(loadSuggestedSplitKg(pigs)) <= SumFunctionOnSet([p \in pigs |-> p.gross], pigs)

(* A complete count gives back what was cut, whatever was sold, carried to  *)
(* the counter or counted before.                                           *)
CountTellsCut(x) ==
  LET day == [sold |-> x.sold, bulk |-> x.bulk, waste |-> Nothing, open |-> x.open, load |-> x.load]
      sheets == {[at |-> 1, complete |-> FALSE, counter |-> Nothing, cold |-> Nothing],
                 [at |-> 2, complete |-> TRUE, counter |-> x.here,
                  cold |-> [c \in Cuts |-> Closing(x, c) - x.here[c]]]}
  IN deriveActualSplits(Nothing, day, loadStocktakeCutKg(sheets)) = x.made

(* The weights of the day add up to what the pigs should have given as long *)
(* as the cuts that gave less can give way, and none of these goes below    *)
(* what it gave unless all of them together did not leave enough; if they   *)
(* cannot give way there is a warning.  The cost of the day stays the same, *)
(* and where there is cost there is weight.                                 *)
SplitIsKept(x) ==
  LET s == x.suggested
      a == x.actual
      pig == [id |-> 1, mode |-> "auto", base |-> s, advice |-> Nothing, gross |-> sumKgOf(s) + 1]
      idle == [sold |-> Nothing, bulk |-> Nothing, waste |-> Nothing, open |-> Nothing, load |-> Nothing]
      r == computeCutSplit({pig}, a, idle, {})
      others == Cuts \ Over(s, a)
      after == applySplitWeights(r.w, s, x.amounts)
  IN /\ Excess(s, a) <= SumFunctionOnSet(s, others) => Near(sumKgOf(r.w), sumKgOf(s))
     /\ Excess(s, a) <= sumKgOf(Pool(s, a)) =>
          /\ \A c \in Over(s, a) : r.w[c] = a[c]
          /\ \A c \in others : 2 * (a[c] - r.w[c]) <= Cardinality(Cuts)
     /\ sumKgOf(s) > 0 /\ Excess(s, a) > SumFunctionOnSet(s, others) => r.note
     /\ Near(sumKgOf(after.amt), sumKgOf(x.amounts))
     /\ \A c \in Cuts : r.w[c] >= 0 /\ (after.amt[c] > 0 /\ r.w # Nothing => after.kg[c] > 0)

SplitsAreKept ==
  /\ \A pigs \in PigDays : SuggestionFits(pigs)
  /\ \A x \in CountDays : CountTellsCut(x)
  /\ \A x \in Splits : SplitIsKept(x)
=============================================================================
