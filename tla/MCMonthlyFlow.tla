---------------------------- MODULE MCMonthlyFlow ----------------------------
(* Instances of MonthlyFlow for TLC: two new bills of one month and one     *)
(* from before the monthly table, whose remark the table cannot read.       *)
EXTENDS MonthlyFlow, TLC

CONSTANTS b0, b1, b2, jan, nomonth, g1, g2, nobill

MCByRegex == [b \in Bills |-> jan]
MCByTable == [b \in Bills |-> IF b = b0 THEN nomonth ELSE jan]

FlowSymmetry == {p @@ q : p \in Permutations({b1, b2}), q \in Permutations(Workers)}
=============================================================================
