--------------------------- MODULE InventoryStock ---------------------------
(***************************************************************************)
(* The inventory service's handling of sale.paid: ApplySalePaid run by     *)
(* several request handlers at once over stock_levels and stock_moves, fed *)
(* by a bus that may deliver an event late, twice, or to two handlers at   *)
(* the same time; and ImportStock, which overwrites levels.                *)
(*                                                                         *)
(* One branch: every key of the code starts with the branch_id.  An event  *)
(* stands for its op_id, which the outbox makes unique; Groups[e] is what  *)
(* aggregateSaleLines (module SaleLines) makes of its lines, empty for a   *)
(* payload the validation refuses.  Prices, costs and audit columns are    *)
(* left out.  Rows of stock_levels that do not exist yet read as 0, as the *)
(* seeding insert of the code makes them.                                  *)
(***************************************************************************)
EXTENDS Integers, Sequences, FiniteSets

CONSTANTS
  Events, Products,
  Groups,        \* [Events -> sequences of [product, qty]]; qty < 0 for a refund
  Workers,       \* concurrent deliveries
  NoWorker,
  ImportQty,     \* quantities an imported snapshot may hold
  MaxCopies,     \* bound: how often pos publishes one event
  MaxFaults,     \* bound: database errors and crashes
  MaxImports     \* bound: import batches

ASSUME InventoryAssumption ==
  /\ NoWorker \notin Workers /\ Events # {} /\ "import" \notin Events
  /\ ImportQty \subseteq Int
  /\ MaxCopies \in Nat \ {0} /\ MaxFaults \in Nat /\ MaxImports \in Nat
  /\ Groups \in [Events -> Seq([product : Products, qty : Int])]
  /\ \A e \in Events : \A i, j \in DOMAIN Groups[e] :
       Groups[e][i].product = Groups[e][j].product => i = j

VARIABLES
  copies,        \* per event: how often pos has published it so far
  bus,           \* per event: copies the broker still has to get acknowledged
  acked,         \* events a handler answered 200 for
  level,         \* stock_levels.qty
  version,       \* stock_levels.server_version
  moves,         \* per product: its rows of stock_moves in the order they were
                 \* written, with the snapshots imports wrote in between
  lock,          \* FOR UPDATE: who holds the level row of a product
  pc, ev, idx,   \* per handler: where it is, its event, its current group
  read,          \* per handler: the level it read under the lock
  pend,          \* per handler: moves its open transaction has inserted
  faults, imports

handler == <<pc, ev, idx, read, pend>>
stockdb == <<level, version, moves>>
broker  == <<copies, bus, acked>>
vars    == <<broker, stockdb, lock, handler, faults, imports>>

Move   == [ref : Events, qty : Int, after : Int]
Import == [ref : {"import"}, qty : {0}, after : Int]

-----------------------------------------------------------------------------
(* The event variable of a handler that has no request.                     *)
AnyEvent == CHOOSE e \in Events : TRUE

Init ==
  /\ copies = [e \in Events |-> 0]
  /\ bus = [e \in Events |-> 0]
  /\ acked = {}
  /\ level = [p \in Products |-> 0]
  /\ version = [p \in Products |-> 0]
  /\ moves = [p \in Products |-> <<>>]
  /\ lock = [p \in Products |-> NoWorker]
  /\ pc = [w \in Workers |-> "idle"]
  /\ ev = [w \in Workers |-> AnyEvent]
  /\ idx = [w \in Workers |-> 1]
  /\ read = [w \in Workers |-> 0]
  /\ pend = [w \in Workers |-> {}]
  /\ faults = 0 /\ imports = 0

Group(w) == Groups[ev[w]][idx[w]]

(* The unique index (branch, product, ref_type, ref_id) has the row.        *)
Recorded(p, e) == \E i \in DOMAIN moves[p] : moves[p][i].ref = e

-----------------------------------------------------------------------------
(* The bus.  pos publishes an event again when it could not mark it; the    *)
(* broker delivers a copy until it is acknowledged, and to a second handler *)
(* when the first one takes too long.                                       *)
Publish(e) ==
  /\ copies[e] < MaxCopies
  /\ copies' = [copies EXCEPT ![e] = @ + 1]
  /\ bus' = [bus EXCEPT ![e] = @ + 1]
  /\ UNCHANGED <<acked, stockdb, lock, handler, faults, imports>>

(* A refused payload answers 400 and ends in the dead-letter queue.         *)
Reject(e) ==
  /\ bus[e] > 0
  /\ Groups[e] = <<>>
  /\ bus' = [bus EXCEPT ![e] = @ - 1]
  /\ UNCHANGED <<copies, acked, stockdb, lock, handler, faults, imports>>

Receive(w, e) ==
  /\ pc[w] = "idle"
  /\ bus[e] > 0
  /\ Groups[e] # <<>>
  /\ pc' = [pc EXCEPT ![w] = "lock"]
  /\ ev' = [ev EXCEPT ![w] = e]
  /\ UNCHANGED <<broker, stockdb, lock, idx, read, pend, faults, imports>>

-----------------------------------------------------------------------------
(* ApplySalePaid: one transaction, the groups one after another.            *)

(* Seed the level row if there is none, then SELECT ... FOR UPDATE: both    *)
(* wait while another transaction holds the row.                            *)
Lock(w) ==
  /\ pc[w] = "lock"
  /\ lock[Group(w).product] = NoWorker
  /\ lock' = [lock EXCEPT ![Group(w).product] = w]
  /\ read' = [read EXCEPT ![w] = level[Group(w).product]]
  /\ pc' = [pc EXCEPT ![w] = "write"]
  /\ UNCHANGED <<broker, stockdb, ev, idx, pend, faults, imports>>

NextGroup(w) ==
  /\ idx' = [idx EXCEPT ![w] = @ + 1]
  /\ pc' = [pc EXCEPT ![w] = IF idx[w] < Len(Groups[ev[w]]) THEN "lock" ELSE "commit"]

NewMove(w) ==
  [product |-> Group(w).product, qty |-> -Group(w).qty, after |-> read[w] - Group(w).qty]

(* Mutant: no unique index.                                                 *)
Write_NoIndex(w) ==
  /\ pc[w] = "write"
  /\ pend' = [pend EXCEPT ![w] = @ \union {NewMove(w)}]
  /\ NextGroup(w)
  /\ UNCHANGED <<broker, stockdb, lock, ev, read, faults, imports>>

(* Insert the move; only when the unique index lets it in is the level      *)
(* going to change.                                                         *)
Write(w) ==
  /\ pc[w] = "write"
  /\ pend' = [pend EXCEPT ![w] = IF Recorded(Group(w).product, ev[w])
                                 THEN @ ELSE @ \union {NewMove(w)}]
  /\ NextGroup(w)
  /\ UNCHANGED <<broker, stockdb, lock, ev, read, faults, imports>>

Pending(w, p) == {m \in pend[w] : m.product = p}
PendingMove(w, p) == CHOOSE m \in pend[w] : m.product = p

Release(w) == lock' = [p \in Products |-> IF lock[p] = w THEN NoWorker ELSE lock[p]]

(* qty = qty + move, server_version + 1 where the transaction has a move.   *)
StoreMoves(w) ==
  /\ level' = [p \in Products |->
                 IF Pending(w, p) = {} THEN level[p] ELSE level[p] + PendingMove(w, p).qty]
  /\ version' = [p \in Products |->
                 IF Pending(w, p) = {} THEN version[p] ELSE version[p] + 1]
  /\ moves' = [p \in Products |->
                 IF Pending(w, p) = {} THEN moves[p]
                 ELSE Append(moves[p], [ref |-> ev[w], qty |-> PendingMove(w, p).qty,
                                        after |-> PendingMove(w, p).after])]

Commit(w) ==
  /\ pc[w] = "commit"
  /\ StoreMoves(w)
  /\ Release(w)
  /\ pend' = [pend EXCEPT ![w] = {}]
  /\ pc' = [pc EXCEPT ![w] = "ack"]
  /\ UNCHANGED <<broker, ev, idx, read, faults, imports>>

(* The request is answered and its variables are gone.                      *)
EndRequest(w) ==
  /\ pc' = [pc EXCEPT ![w] = "idle"]
  /\ ev' = [ev EXCEPT ![w] = AnyEvent]
  /\ idx' = [idx EXCEPT ![w] = 1]
  /\ read' = [read EXCEPT ![w] = 0]
  /\ pend' = [pend EXCEPT ![w] = {}]

(* 200: the broker drops the copy.                                          *)
Answer200(w) ==
  /\ bus' = [bus EXCEPT ![ev[w]] = IF @ = 0 THEN 0 ELSE @ - 1]
  /\ acked' = acked \union {ev[w]}

Ack(w) ==
  /\ pc[w] = "ack"
  /\ Answer200(w)
  /\ EndRequest(w)
  /\ UNCHANGED <<copies, stockdb, lock, faults, imports>>

(* The transaction rolls back and the handler answers 500.                  *)
RollBack(w) == Release(w) /\ EndRequest(w)

(* Mutant: a failed transaction is answered 200, as the member service does *)
(* with a failed points booking.                                            *)
Fail_Acks(w) ==
  /\ pc[w] # "idle"
  /\ faults < MaxFaults /\ faults' = faults + 1
  /\ Answer200(w)
  /\ RollBack(w)
  /\ UNCHANGED <<copies, stockdb, imports>>

(* A database error or a crash of the service, also between the commit and  *)
(* the answer: the copy stays with the broker.                              *)
Fail(w) ==
  /\ pc[w] # "idle"
  /\ faults < MaxFaults /\ faults' = faults + 1
  /\ RollBack(w)
  /\ UNCHANGED <<broker, stockdb, imports>>

WaitsFor(w) == lock[Group(w).product]

(* w is one of a set of transactions that wait for each other in a circle.  *)
InCycle(w) ==
  \E S \in SUBSET Workers :
    /\ w \in S
    /\ \A v \in S : pc[v] = "lock" /\ WaitsFor(v) \in S
    /\ S = {WaitsFor(v) : v \in S}

(* Groups are locked in the order of the lines, so two events with the same *)
(* products in another order can wait for each other; PostgreSQL aborts one *)
(* of them, which is a 500 like any other.                                  *)
DeadlockVictim(w) ==
  /\ InCycle(w)
  /\ RollBack(w)
  /\ UNCHANGED <<broker, stockdb, faults, imports>>

-----------------------------------------------------------------------------
(* ImportStock, one batch of the snapshot in one transaction: the upsert    *)
(* waits for the level rows and writes qty, but not server_version.         *)
ImportBatch(B, q) ==
  /\ imports < MaxImports
  /\ \A p \in B : lock[p] = NoWorker
  /\ level' = [p \in Products |-> IF p \in B THEN q ELSE level[p]]
  /\ moves' = [p \in Products |->
                 IF p \in B THEN Append(moves[p], [ref |-> "import", qty |-> 0, after |-> q])
                 ELSE moves[p]]
  /\ imports' = imports + 1
  /\ UNCHANGED <<broker, version, lock, handler, faults>>

-----------------------------------------------------------------------------
HandlerStep(w) == Lock(w) \/ Write(w) \/ Commit(w) \/ Ack(w) \/ DeadlockVictim(w)

Next ==
  \/ \E e \in Events : Publish(e) \/ Reject(e)
  \/ \E w \in Workers, e \in Events : Receive(w, e)
  \/ \E w \in Workers : HandlerStep(w) \/ Fail(w)
  \/ \E B \in SUBSET Products \ {{}}, q \in ImportQty : ImportBatch(B, q)

Spec == Init /\ [][Next]_vars

(* A handler that runs goes on and PostgreSQL resolves deadlocks; it grants *)
(* a row to the transaction that has waited for it longest, so a handler    *)
(* that waits gets each product's row in the end; the broker keeps offering *)
(* every copy it has.                                                       *)
Fairness ==
  /\ \A w \in Workers : WF_vars(HandlerStep(w))
  /\ \A w \in Workers, p \in Products : SF_vars(Lock(w) /\ Group(w).product = p)
  /\ \A e \in Events : SF_vars(\E w \in Workers : Receive(w, e))

FairSpec == Spec /\ Fairness

-----------------------------------------------------------------------------
TypeOK ==
  /\ copies \in [Events -> 0..MaxCopies] /\ bus \in [Events -> 0..MaxCopies]
  /\ acked \subseteq Events
  /\ level \in [Products -> Int]
  /\ version \in [Products -> Nat]
  /\ moves \in [Products -> Seq(Move \union Import)]
  /\ lock \in [Products -> Workers \union {NoWorker}]
  /\ pc \in [Workers -> {"idle", "lock", "write", "commit", "ack"}]
  /\ ev \in [Workers -> Events]
  /\ idx \in [Workers -> Nat \ {0}]
  /\ read \in [Workers -> Int]
  /\ pend \in [Workers -> SUBSET [product : Products, qty : Int, after : Int]]
  /\ faults \in 0..MaxFaults /\ imports \in 0..MaxImports

(* An event is applied when all its products have their move.               *)
Applied(e) == \A i \in DOMAIN Groups[e] : Recorded(Groups[e][i].product, e)
Touched(e) == \E p \in Products : Recorded(p, e)

(* Delivered any number of times, by handlers in parallel, an event moves   *)
(* the stock of a product once.                                             *)
AppliedOnce ==
  \A p \in Products : \A i, j \in DOMAIN moves[p] :
    moves[p][i].ref = moves[p][j].ref /\ moves[p][i].ref # "import" => i = j

(* A sale is never half deducted.                                           *)
AllOrNothing == \A e \in Events : Touched(e) => Applied(e)

(* qty_after: the ledger alone gives the stock after every step, that is,   *)
(* each row continues where the one before it left the level.               *)
LedgerChain ==
  \A p \in Products : \A i \in DOMAIN moves[p] :
    moves[p][i].ref # "import" =>
      moves[p][i].after = moves[p][i].qty + (IF i = 1 THEN 0 ELSE moves[p][i - 1].after)

(* The snapshot and the ledger, written by different statements, agree.     *)
LevelIsLedger ==
  \A p \in Products :
    level[p] = IF moves[p] = <<>> THEN 0 ELSE moves[p][Len(moves[p])].after

(* No event is lost by answering 200 for it.                                *)
AckedWasApplied == \A e \in acked : Applied(e)

(* What the service promises, with every detail above hidden.               *)
Effect(e, p) ==
  IF \E i \in DOMAIN Groups[e] : Groups[e][i].product = p
  THEN -Groups[e][CHOOSE i \in DOMAIN Groups[e] : Groups[e][i].product = p].qty
  ELSE 0

Ledger == INSTANCE StockLedger
            WITH applied <- {e \in Events : Touched(e)}, stock <- level

(* The handling of sale.paid and of imports behaves as the abstract ledger: *)
(* each commit applies one event as a whole or nothing, whatever locks,     *)
(* duplicates, deadlocks and failures lie between (subscribe.go, import.go).*)
ImplementsLedger == Ledger!Spec

(* Every valid event the bus carries is applied in the end.                 *)
EventuallyApplied ==
  \A e \in Events : Groups[e] # <<>> => (bus[e] > 0 ~> Applied(e))
=============================================================================
