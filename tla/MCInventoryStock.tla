-------------------------- MODULE MCInventoryStock --------------------------
(* Instances of InventoryStock for TLC: a sale with the same product on two *)
(* lines, a refund with its products in another order (so that their row    *)
(* locks can cross), and a payload without lines.                           *)
EXTENDS InventoryStock, FiniteSetsExt

CONSTANTS sale, refund, empty, A, B, w1, w2, none

L == INSTANCE SaleLines

Line(p, q) == [product |-> p, qty |-> q]

LinesOf(e) ==
  CASE e = sale   -> <<Line(A, 1), Line(B, 1), Line(A, 1)>>
    [] e = refund -> <<Line(B, -1), Line(A, -1)>>
    [] e = empty  -> <<>>

(* The groups, written out because TLC would compute them again in every    *)
(* state.                                                                   *)
MCGroups ==
  [e \in Events |->
     CASE e = sale   -> <<Line(A, 2), Line(B, 1)>>
       [] e = refund -> <<Line(B, -1), Line(A, -1)>>
       [] e = empty  -> <<>>]

ASSUME GroupsAssumption == \A e \in Events : MCGroups[e] = L!aggregateSaleLines(LinesOf(e))

(* What aggregateSaleLines promises: a product with a line of a quantity    *)
(* other than 0 has exactly one group, it carries the sum of the product's  *)
(* quantities, and the groups come in the order of first appearance.        *)
Aggregated(lines) ==
  LET gs == L!aggregateSaleLines(lines)
      Of(p) == {i \in DOMAIN lines : lines[i].product = p /\ lines[i].qty # 0}
      First(p) == CHOOSE i \in Of(p) : \A j \in Of(p) : i <= j
  IN
  /\ {gs[i].product : i \in DOMAIN gs} = {p \in Products : Of(p) # {}}
  /\ \A i, j \in DOMAIN gs : i < j => First(gs[i].product) < First(gs[j].product)
  /\ \A i \in DOMAIN gs : gs[i].qty = MapThenSumSet(LAMBDA j : lines[j].qty, Of(gs[i].product))

(* Over every list of at most four lines.                                   *)
ASSUME AggregationAssumption ==
  \A n \in 0..4 : \A ls \in [1..n -> [product : Products, qty : -1..2]] : Aggregated(ls)

MCImportQty == {5}
=============================================================================
