----------------------------- MODULE SaleLines -----------------------------
(***************************************************************************)
(* aggregateSaleLines of the inventory service: one group per product, in  *)
(* the order of first appearance, lines of quantity 0 dropped.  The unique *)
(* index of stock_moves admits one row per product and event, so a line    *)
(* that were not aggregated would be lost without an error.                *)
(***************************************************************************)
EXTENDS Integers, Sequences, SequencesExt

AddLine(groups, line) ==
  LET same == {i \in DOMAIN groups : groups[i].product = line.product} IN
  CASE line.qty = 0 -> groups
    [] line.qty # 0 /\ same = {} -> Append(groups, line)
    [] line.qty # 0 /\ same # {} ->
         [i \in DOMAIN groups |->
            IF i \in same THEN [groups[i] EXCEPT !.qty = @ + line.qty] ELSE groups[i]]

aggregateSaleLines(lines) == FoldLeft(AddLine, <<>>, lines)
=============================================================================
