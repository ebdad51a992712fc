------------------------------ MODULE MCOutbox ------------------------------
(* An instance of SaleFlow for TLC: two sales of pos, one of them refused   *)
(* for ever, and an operation of member that has the op_id of a sale.       *)
EXTENDS SaleFlow

CONSTANTS pos, member, o1, o2

MCTx == {<<pos, o1>>, <<member, o1>>, <<pos, o2>>}

OnePoison == {RowID(<<pos, o2>>)}

MCSales == {<<pos, o1>>, <<pos, o2>>}
MCEffect(t, p) == IF t[2] = o1 THEN -1 ELSE -2
=============================================================================
