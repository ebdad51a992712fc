------------------------------ MODULE SaleFlow ------------------------------
(***************************************************************************)
(* A sale from pos to stock: the transaction of pos that writes the order  *)
(* and the outbox row, the Runners that publish it (Outbox), and the       *)
(* inventory service, which applies what it is given.  Inventory is taken  *)
(* at its word: StockLedger, which InventoryStock is shown to implement    *)
(* under duplicates, failures and deadlocks.  The snapshot import, which   *)
(* has nothing to do with sales, is left out.                              *)
(***************************************************************************)
EXTENDS Outbox, Integers

CONSTANTS
  Sales,        \* the operations of pos whose rows are sale.paid events
  Products,
  Effect(_, _)  \* Effect(t, p): what the sale t adds to the stock of p

ASSUME FlowAssumption == Sales \subseteq Tx

VARIABLES applied, stock, imports    \* the ledger

ledgerVars == <<applied, stock, imports>>
flowVars == <<vars, ledgerVars>>

Ledger == INSTANCE StockLedger WITH Events <- Sales

FlowInit == Init /\ Ledger!Init

(* The broker hands inventory an event it has accepted; a copy of one that  *)
(* is applied already changes nothing.                                      *)
Deliver(t) ==
  /\ sent[RowID(t)] > 0
  /\ Ledger!Apply(t)
  /\ UNCHANGED vars

FlowNext ==
  \/ Next /\ UNCHANGED ledgerVars
  \/ \E t \in Sales : Deliver(t)

FlowSpec == FlowInit /\ [][FlowNext]_flowVars

(* Inventory applies a valid event it is given in the end.                  *)
FlowFairness == Fairness /\ \A t \in Sales : WF_flowVars(Deliver(t))

FairFlowSpec == FlowSpec /\ FlowFairness

-----------------------------------------------------------------------------
(* Stock moves only for sales that are committed, whatever is rolled back   *)
(* while the Runners of both services poll the table.                       *)
NoStockWithoutSale == applied \subseteq business

(* Every committed operation is published, and every sale deducted, in the  *)
(* end, whatever is lost, fails or is restarted on the way and although     *)
(* others are refused for ever.                                             *)
SaleReachesStock ==
  \A t \in Tx : RowID(t) \notin Poison =>
    (t \in business ~> RowID(t) \in published /\ (t \in Sales => t \in applied))
=============================================================================
