---------------------------- MODULE StockLedger ----------------------------
(***************************************************************************)
(* What the inventory service promises about sale.paid: an event changes   *)
(* the stock of all its products at once and never again, whatever the bus *)
(* does.  A snapshot import may overwrite the stock; nothing else does.     *)
(***************************************************************************)
EXTENDS Integers

CONSTANTS Events, Products, Effect(_, _)  \* Effect(e, p): what e adds to the stock of p

VARIABLES applied, stock, imports  \* imports: snapshot batches imported

Init ==
  /\ applied = {}
  /\ stock = [p \in Products |-> 0]
  /\ imports = 0

Apply(e) ==
  /\ e \in Events \ applied
  /\ applied' = applied \union {e}
  /\ stock' = [p \in Products |-> stock[p] + Effect(e, p)]
  /\ UNCHANGED imports

Overwrite ==
  /\ imports' = imports + 1
  /\ stock' \in [Products -> Int]
  /\ UNCHANGED applied

Next == Overwrite \/ \E e \in Events : Apply(e)

Spec == Init /\ [][Next]_<<applied, stock, imports>>
=============================================================================
