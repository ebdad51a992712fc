-------------------------------- MODULE MCPos --------------------------------
(* Instances of SaleCreate and SaleRefund for TLC.                          *)
(*                                                                          *)
(* Two handlers on two instances of the service write orders; two clerks    *)
(* refund an order of two lines paid in two ways, three units of the first  *)
(* line for 2.00, so that a third of it does not come out even.  The two    *)
(* parts write different rows and are explored side by side, not in         *)
(* product: a behaviour is one of the first or of the second.               *)
EXTENDS SaleCreate, SaleRefund, TLC

CONSTANTS i1, i2, r1, r2, o1, o2, o3, c1, c2, none, f1, f2, f3, f4

MCServedBy == [r \in Requests |-> IF r = r2 THEN i2 ELSE i1]

MCSold == <<[qty |-> 3, amount |-> 200], [qty |-> 1, amount |-> 50]>>
MCPays == <<125, 125>>

L(l, q) == [line |-> l, qty |-> q]
R(op_id, want) == [op |-> op_id, want |-> want]

(* Whole, a piece, the rest of a line and a piece of the other one, a line  *)
(* named twice.                                                             *)
MCRefunds ==
  {R(f1, <<>>), R(f2, <<L(1, 1)>>), R(f3, <<L(2, 0), L(1, 1)>>), R(f4, <<L(1, 1), L(1, 1)>>)}

MCOverrides == {[line |-> 1, amount |-> 150], [line |-> 1, amount |-> 300]}

VARIABLE part     \* the half of the service this behaviour is about

PosInit == Init /\ RefundInit /\ part \in {"create", "refund"}

PosNext ==
  \/ part = "create" /\ Next /\ UNCHANGED <<refundVars, part>>
  \/ part = "refund" /\ RefundNext /\ UNCHANGED <<vars, part>>

PosSpec == PosInit /\ [][PosNext]_<<vars, refundVars, part>>

Symmetry ==
  Permutations(Ops) \union Permutations(Clerks)
=============================================================================
