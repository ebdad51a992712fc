----------------------------- MODULE Stock_proofs -----------------------------
(***************************************************************************)
(* What is in stock: the handling of sale.paid (InventoryStock), for any   *)
(* events, products, handlers, duplicates, faults and imports, and that it *)
(* implements the abstract StockLedger; the daily chain of the fresh meat  *)
(* (MeatChain), for any number of days, requests and failures; and the     *)
(* split of a day's pigs over the cuts (CutSplit), for any cuts, pigs and  *)
(* weights.                                                                *)
(*                                                                         *)
(* sale.paid.  A handler decides under the row locks it has taken so far,  *)
(* and keeps them to its commit.  So the invariant says of an open         *)
(* transaction which rows it holds, and that what it is going to write     *)
(* fits the rows as they are now, not as they were when it looked.         *)
(*                                                                         *)
(* The chain.  That all days are right when everything rests is not kept   *)
(* by any step: a request changes a fact, and for a while no day after it  *)
(* follows from it.  What is kept is that either a round of the job from   *)
(* the start of the chain is still to come, or each day follows from the   *)
(* facts and the day before, or the job has it still before itself.  That  *)
(* the days are then the chain of the facts is an induction over the days  *)
(* (RowsAreChain), and that the chain is well defined at all is Recursion. *)
(*                                                                         *)
(* The split.  A quotient is off by half a unit, so a sum of them by half  *)
(* a unit per cut (OneRound).  What the second round still has to move is  *)
(* what the first could not move, or its rounding, never both: so the two  *)
(* rounds together are off by no more than one (SplitArithmetic).          *)
(***************************************************************************)
EXTENDS InventoryStock, MeatChain, SumLemmas, TLAPS

InTransaction(w) == pc[w] \in {"lock", "write", "commit"}

Product(w, i) == Groups[ev[w]][i].product
Qty(w, i) == Groups[ev[w]][i].qty

(* The groups a handler has dealt with.                                     *)
Behind(w) == {i \in DOMAIN Groups[ev[w]] : i < idx[w]}

IndexOK(w) ==
  /\ pc[w] \in {"lock", "write"} => idx[w] \in DOMAIN Groups[ev[w]]
  /\ pc[w] = "commit" => Behind(w) = DOMAIN Groups[ev[w]]
  /\ pc[w] = "idle" => idx[w] = 1

(* An open transaction holds the rows it has read.                          *)
HoldsRows(w) ==
  /\ InTransaction(w) => \A i \in Behind(w) : lock[Product(w, i)] = w
  /\ pc[w] = "write" => lock[Product(w, idx[w])] = w

ReadIsCurrent(w) == pc[w] = "write" => read[w] = level[Product(w, idx[w])]

(* The move of group i, as it fits the level of now.                        *)
FreshMove(w, i) ==
  [product |-> Product(w, i), qty |-> -Qty(w, i), after |-> level[Product(w, i)] - Qty(w, i)]

(* An open transaction has inserted the moves that were not recorded yet,   *)
(* and no others; outside of one nothing is pending.                        *)
PendFits(w) ==
  /\ InTransaction(w) =>
       pend[w] = {FreshMove(w, i) : i \in {j \in Behind(w) : ~Recorded(Product(w, j), ev[w])}}
  /\ ~InTransaction(w) => pend[w] = {}

AboutToAck(w) == pc[w] = "ack" => Applied(ev[w])

HandlerOK(w) ==
  IndexOK(w) /\ HoldsRows(w) /\ ReadIsCurrent(w) /\ PendFits(w) /\ AboutToAck(w)

BusWithinCopies == \A e \in Events : bus[e] <= copies[e]

LedgerOK == AppliedOnce /\ AllOrNothing /\ LevelIsLedger /\ LedgerChain

IInv ==
  /\ TypeOK
  /\ BusWithinCopies
  /\ \A w \in Workers : HandlerOK(w)
  /\ LedgerOK
  /\ AckedWasApplied

-----------------------------------------------------------------------------
(* What a sequence over S is.                                               *)
LEMMA SeqElements ==
  ASSUME NEW S, NEW s \in Seq(S)
  PROVE  /\ DOMAIN s = 1..Len(s) /\ Len(s) \in Nat
         /\ \A i \in DOMAIN s : s[i] \in S
OBVIOUS

(* The groups of an event are well typed, one per product.                  *)
LEMMA GroupFacts ==
  ASSUME NEW e \in Events
  PROVE  /\ \A i \in DOMAIN Groups[e] :
              Groups[e][i].product \in Products /\ Groups[e][i].qty \in Int
         /\ \A i, j \in DOMAIN Groups[e] : Groups[e][i].product = Groups[e][j].product => i = j
         /\ DOMAIN Groups[e] = 1..Len(Groups[e]) /\ Len(Groups[e]) \in Nat
<1>1. Groups[e] \in Seq([product : Products, qty : Int])
  BY InventoryAssumption
<1>2. /\ DOMAIN Groups[e] = 1..Len(Groups[e]) /\ Len(Groups[e]) \in Nat
      /\ \A i \in DOMAIN Groups[e] : Groups[e][i] \in [product : Products, qty : Int]
  BY <1>1, SeqElements, Zenon
<1>3. \A i, j \in DOMAIN Groups[e] : Groups[e][i].product = Groups[e][j].product => i = j
  BY InventoryAssumption
<1> QED
  BY <1>2, <1>3

(* The event variable of an idle handler is well typed.                     *)
LEMMA AnyEventIsEvent == AnyEvent \in Events
BY InventoryAssumption DEF AnyEvent

(* A step of others that leaves a handler's variables and rows alone.       *)
LEMMA OthersKeep ==
  ASSUME TypeOK, NEW v \in Workers, HandlerOK(v),
         pc'[v] = pc[v], ev'[v] = ev[v], idx'[v] = idx[v], read'[v] = read[v], pend'[v] = pend[v],
         \A p \in Products : lock[p] = v =>
           /\ lock'[p] = v /\ level'[p] = level[p]
           /\ \A e \in Events : Recorded(p, e)' <=> Recorded(p, e),
         \A p \in Products, e \in Events : Recorded(p, e) => Recorded(p, e)'
  PROVE  HandlerOK(v)'
<1> DEFINE e == ev[v]
<1>1. e \in Events
  BY DEF TypeOK
<1>2. \A i \in DOMAIN Groups[e] : Product(v, i) \in Products /\ Product(v, i)' = Product(v, i)
                                  /\ Qty(v, i)' = Qty(v, i)
  BY <1>1, GroupFacts DEF Product, Qty
<1>3. Behind(v)' = Behind(v) /\ Behind(v) \subseteq DOMAIN Groups[e]
  BY DEF Behind
<1>4. IndexOK(v)'
  BY <1>3 DEF HandlerOK, IndexOK
<1>5. HoldsRows(v)'
  BY <1>2, <1>3 DEF HandlerOK, HoldsRows, InTransaction, IndexOK
<1>6. ReadIsCurrent(v)'
  BY <1>2 DEF HandlerOK, ReadIsCurrent, HoldsRows, IndexOK
<1>7. PendFits(v)'
  <2>1. InTransaction(v)' <=> InTransaction(v)
    BY DEF InTransaction
  <2>2. CASE ~InTransaction(v)
    BY <2>1, <2>2 DEF HandlerOK, PendFits
  <2>3. CASE InTransaction(v)
    <3>1. \A i \in Behind(v) :
            /\ FreshMove(v, i)' = FreshMove(v, i)
            /\ Recorded(Product(v, i), ev[v])' <=> Recorded(Product(v, i), ev[v])
      <4> SUFFICES ASSUME NEW i \in Behind(v)
                   PROVE  /\ FreshMove(v, i)' = FreshMove(v, i)
                          /\ Recorded(Product(v, i), ev[v])' <=> Recorded(Product(v, i), ev[v])
        OBVIOUS
      <4>1. lock[Product(v, i)] = v /\ Product(v, i) \in Products
        BY <1>2, <1>3, <2>3 DEF HandlerOK, HoldsRows
      <4>2. level'[Product(v, i)] = level[Product(v, i)]
        BY <4>1
      <4>3. FreshMove(v, i)' = FreshMove(v, i)
        BY <1>2, <1>3, <4>2 DEF FreshMove
      <4>4. Recorded(Product(v, i), e)' <=> Recorded(Product(v, i), e)
        BY <1>1, <1>2, <1>3, <4>1 DEF Recorded
      <4> QED
        BY <4>3, <4>4
    <3>2. {FreshMove(v, i) : i \in {j \in Behind(v) : ~Recorded(Product(v, j), ev[v])}}'
            = {FreshMove(v, i) : i \in {j \in Behind(v) : ~Recorded(Product(v, j), ev[v])}}
      BY <1>3, <3>1
    <3> QED
      BY <2>1, <2>3, <3>2 DEF HandlerOK, PendFits
  <2> QED
    BY <2>2, <2>3
<1>8. AboutToAck(v)'
  <2> SUFFICES ASSUME pc[v] = "ack" PROVE Applied(ev[v])'
    BY DEF AboutToAck
  <2>1. \A i \in DOMAIN Groups[e] : Recorded(Groups[e][i].product, e)
    BY DEF HandlerOK, AboutToAck, Applied
  <2>2. \A i \in DOMAIN Groups[e] : Recorded(Groups[e][i].product, e)'
    BY <1>1, <2>1, GroupFacts
  <2> QED
    BY <2>2 DEF Applied, Recorded
<1> QED
  BY <1>4, <1>5, <1>6, <1>7, <1>8 DEF HandlerOK

(* What is said about the stock tables does not change when they do not.    *)
LEMMA LedgerUntouched ==
  ASSUME LedgerOK, UNCHANGED <<level, moves>>
  PROVE  LedgerOK' /\ \A p \in Products, e \in Events : Recorded(p, e)' <=> Recorded(p, e)
BY DEF LedgerOK, AppliedOnce, AllOrNothing, Touched, Applied, LevelIsLedger, LedgerChain, Recorded

-----------------------------------------------------------------------------
(* Empty tables and idle handlers satisfy the invariant.                    *)
LEMMA InitIInv == Init => IInv
<1> SUFFICES ASSUME Init PROVE IInv
  OBVIOUS
<1>1. TypeOK
  <2>1. moves \in [Products -> Seq(Move \union Import)]
    BY DEF Init
  <2> QED
    BY <2>1, AnyEventIsEvent, InventoryAssumption DEF Init, TypeOK
<1>2. BusWithinCopies
  BY DEF Init, BusWithinCopies
<1>3. \A w \in Workers : HandlerOK(w)
  BY DEF Init, HandlerOK, IndexOK, HoldsRows, ReadIsCurrent, PendFits, AboutToAck, InTransaction
<1>4. \A p \in Products, e \in Events : ~Recorded(p, e)
  BY DEF Init, Recorded
<1>5. AppliedOnce /\ LevelIsLedger /\ LedgerChain
  BY DEF Init, AppliedOnce, LevelIsLedger, LedgerChain
<1>6. AllOrNothing /\ AckedWasApplied
  BY <1>4 DEF Init, AllOrNothing, Touched, AckedWasApplied
<1> QED
  BY <1>1, <1>2, <1>3, <1>5, <1>6 DEF IInv, LedgerOK

(* Steps of the bus that no handler takes part in.                          *)
LEMMA BusStep ==
  ASSUME IInv, NEW e \in Events, Publish(e) \/ Reject(e)
  PROVE  IInv'
<1> USE DEF IInv
<1>1. UNCHANGED <<acked, stockdb, lock, handler, faults, imports>>
  BY DEF Publish, Reject
<1>2. (BusWithinCopies /\ bus \in [Events -> 0..MaxCopies] /\ copies \in [Events -> 0..MaxCopies])'
  <2>1. CASE Publish(e)
    BY <2>1, InventoryAssumption DEF Publish, BusWithinCopies, TypeOK
  <2>2. CASE Reject(e)
    BY <2>2, InventoryAssumption DEF Reject, BusWithinCopies, TypeOK
  <2> QED
    BY <2>1, <2>2
<1>3. TypeOK'
  BY <1>1, <1>2 DEF TypeOK, stockdb, handler
<1>4. LedgerOK' /\ \A p \in Products, f \in Events : Recorded(p, f)' <=> Recorded(p, f)
  BY <1>1, LedgerUntouched DEF stockdb
<1>5. \A w \in Workers : HandlerOK(w)'
  BY <1>1, <1>4, OthersKeep DEF stockdb, handler
<1>6. AckedWasApplied'
  BY <1>1 DEF AckedWasApplied, Applied, Recorded, stockdb
<1> QED
  BY <1>2, <1>3, <1>4, <1>5, <1>6

(* A step of handler w that leaves the stock tables and the bus alone, and  *)
(* takes or gives back only its own row locks.                              *)
LEMMA HandlerOnly ==
  ASSUME IInv, TypeOK', NEW w \in Workers,
         UNCHANGED <<broker, stockdb>>,
         \A p \in Products : lock'[p] = lock[p] \/ lock[p] \in {w, NoWorker},
         \A v \in Workers \ {w} :
           /\ pc'[v] = pc[v] /\ ev'[v] = ev[v] /\ idx'[v] = idx[v]
           /\ read'[v] = read[v] /\ pend'[v] = pend[v],
         HandlerOK(w)'
  PROVE  IInv'
<1> USE DEF IInv
<1>1. LedgerOK' /\ \A p \in Products, e \in Events : Recorded(p, e)' <=> Recorded(p, e)
  BY LedgerUntouched DEF stockdb
<1>2. \A v \in Workers \ {w} : HandlerOK(v)'
  <2> SUFFICES ASSUME NEW v \in Workers \ {w} PROVE HandlerOK(v)'
    OBVIOUS
  <2>1. \A p \in Products : lock[p] = v => lock'[p] = v
    BY InventoryAssumption
  <2> QED
    BY <1>1, <2>1, OthersKeep DEF stockdb
<1>3. BusWithinCopies'
  BY DEF BusWithinCopies, broker
<1>4. AckedWasApplied'
  BY DEF AckedWasApplied, Applied, Recorded, broker, stockdb
<1> QED
  BY <1>1, <1>2, <1>3, <1>4

(* Receive: the handler is at its first group and holds nothing.            *)
LEMMA ReceiveKeepsIInv ==
  ASSUME IInv, NEW w \in Workers, NEW e \in Events, Receive(w, e)
  PROVE  IInv'
<1> USE DEF IInv
<1>1. TypeOK'
  BY DEF Receive, TypeOK, broker, stockdb
<1>2. HandlerOK(w)'
  <2>1. pc'[w] = "lock" /\ ev'[w] = e /\ idx'[w] = 1 /\ pend'[w] = {} /\ Groups[e] # <<>>
    BY DEF Receive, TypeOK, HandlerOK, IndexOK, PendFits, InTransaction
  <2>2. 1 \in DOMAIN Groups[e]
    <3>1. Groups[e] \in Seq([product : Products, qty : Int])
      BY InventoryAssumption
    <3>2. ASSUME NEW S, NEW s \in Seq(S), s # <<>> PROVE 1 \in DOMAIN s
      BY <3>2
    <3> QED
      BY <2>1, <3>1, <3>2, Zenon
  <2>3. Behind(w)' = {}
    BY <2>1, GroupFacts DEF Behind
  <2> QED
    BY <2>1, <2>2, <2>3
    DEF HandlerOK, IndexOK, HoldsRows, ReadIsCurrent, PendFits, AboutToAck, InTransaction
<1>3. /\ UNCHANGED <<broker, stockdb, lock>>
      /\ \A v \in Workers \ {w} :
           /\ pc'[v] = pc[v] /\ ev'[v] = ev[v] /\ idx'[v] = idx[v]
           /\ read'[v] = read[v] /\ pend'[v] = pend[v]
  BY DEF Receive, TypeOK
<1> QED
  BY <1>1, <1>2, <1>3, HandlerOnly

(* Groups that a handler has dealt with after one more of them.             *)
LEMMA NextBehind ==
  ASSUME IInv, NEW w \in Workers, pc[w] \in {"lock", "write"}
  PROVE  /\ idx[w] \in DOMAIN Groups[ev[w]] /\ idx[w] \in Nat \ {0}
         /\ {i \in DOMAIN Groups[ev[w]] : i < idx[w] + 1} = Behind(w) \union {idx[w]}
         /\ idx[w] < Len(Groups[ev[w]]) => idx[w] + 1 \in DOMAIN Groups[ev[w]]
         /\ ~(idx[w] < Len(Groups[ev[w]])) =>
              {i \in DOMAIN Groups[ev[w]] : i < idx[w] + 1} = DOMAIN Groups[ev[w]]
<1>1. idx[w] \in DOMAIN Groups[ev[w]] /\ idx[w] \in Nat \ {0} /\ ev[w] \in Events
  BY DEF IInv, TypeOK, HandlerOK, IndexOK
<1>2. DOMAIN Groups[ev[w]] = 1..Len(Groups[ev[w]]) /\ Len(Groups[ev[w]]) \in Nat
  BY <1>1, GroupFacts
<1> QED
  BY <1>1, <1>2 DEF Behind

(* Lock: the row is the handler's from here on, and was read as it is.      *)
LEMMA LockKeepsIInv ==
  ASSUME IInv, NEW w \in Workers, Lock(w)
  PROVE  IInv'
<1> USE DEF IInv
<1>1. /\ pc[w] = "lock" /\ idx[w] \in DOMAIN Groups[ev[w]] /\ ev[w] \in Events
      /\ Group(w).product = Product(w, idx[w]) /\ Product(w, idx[w]) \in Products
  <2>1. pc[w] = "lock" /\ idx[w] \in DOMAIN Groups[ev[w]] /\ ev[w] \in Events
    BY DEF Lock, TypeOK, HandlerOK, IndexOK
  <2> QED
    BY <2>1, GroupFacts DEF Group, Product
<1>2. TypeOK'
  BY <1>1 DEF Lock, TypeOK, broker, stockdb
<1>3. HandlerOK(w)'
  <2>1. /\ pc'[w] = "write" /\ ev'[w] = ev[w] /\ idx'[w] = idx[w] /\ pend'[w] = pend[w]
        /\ lock'[Product(w, idx[w])] = w
        /\ read'[w] = level[Product(w, idx[w])]
        /\ \A p \in Products : lock[p] = w => lock'[p] = w
        /\ UNCHANGED <<level, moves>>
    BY <1>1 DEF Lock, TypeOK, stockdb
  <2>2. Behind(w)' = Behind(w) /\ Behind(w) \subseteq DOMAIN Groups[ev[w]]
    BY <2>1 DEF Behind
  <2>3. IndexOK(w)' /\ AboutToAck(w)'
    BY <1>1, <2>1 DEF IndexOK, AboutToAck
  <2>4. HoldsRows(w)'
    <3>1. \A i \in Behind(w) : lock[Product(w, i)] = w /\ Product(w, i) \in Products
      BY <1>1, <2>2, GroupFacts DEF HandlerOK, HoldsRows, InTransaction, Product
    <3>2. \A i \in DOMAIN Groups[ev[w]] : Product(w, i)' = Product(w, i)
      BY <2>1 DEF Product
    <3> QED
      BY <1>1, <2>1, <2>2, <3>1, <3>2 DEF HoldsRows
  <2>5. ReadIsCurrent(w)'
    BY <2>1 DEF ReadIsCurrent, Product
  <2>6. PendFits(w)'
    <3>1. {FreshMove(w, i) : i \in {j \in Behind(w) : ~Recorded(Product(w, j), ev[w])}}'
            = {FreshMove(w, i) : i \in {j \in Behind(w) : ~Recorded(Product(w, j), ev[w])}}
      BY <2>1, <2>2 DEF FreshMove, Product, Qty, Recorded
    <3> QED
      BY <1>1, <2>1, <3>1 DEF PendFits, InTransaction, HandlerOK
  <2> QED
    BY <2>3, <2>4, <2>5, <2>6 DEF HandlerOK
<1>4. /\ UNCHANGED <<broker, stockdb>>
      /\ \A p \in Products : lock'[p] = lock[p] \/ lock[p] \in {w, NoWorker}
      /\ \A v \in Workers \ {w} :
           /\ pc'[v] = pc[v] /\ ev'[v] = ev[v] /\ idx'[v] = idx[v]
           /\ read'[v] = read[v] /\ pend'[v] = pend[v]
  BY <1>1 DEF Lock, TypeOK
<1> QED
  BY <1>2, <1>3, <1>4, HandlerOnly

(* Write: the move of one more group is pending, unless it is recorded.     *)
LEMMA WriteKeepsIInv ==
  ASSUME IInv, NEW w \in Workers, Write(w)
  PROVE  IInv'
<1> USE DEF IInv
<1> DEFINE e == ev[w]
           k == idx[w]
<1>1. /\ pc[w] = "write" /\ k \in DOMAIN Groups[e] /\ e \in Events
      /\ Group(w).product = Product(w, k) /\ Product(w, k) \in Products
      /\ Group(w).qty = Qty(w, k) /\ Qty(w, k) \in Int
      /\ read[w] = level[Product(w, k)] /\ level[Product(w, k)] \in Int
  <2>1. pc[w] = "write" /\ k \in DOMAIN Groups[e] /\ e \in Events
        /\ read[w] = level[Product(w, k)]
    BY DEF Write, TypeOK, HandlerOK, IndexOK, ReadIsCurrent
  <2>2. Product(w, k) \in Products /\ Qty(w, k) \in Int
    BY <2>1, GroupFacts DEF Product, Qty
  <2> QED
    BY <2>1, <2>2 DEF Group, Product, Qty, TypeOK
<1>2. NewMove(w) = FreshMove(w, k)
  BY <1>1 DEF NewMove, FreshMove
<1>3. /\ pc'[w] = (IF k < Len(Groups[e]) THEN "lock" ELSE "commit")
      /\ idx'[w] = k + 1 /\ ev'[w] = e
      /\ pend'[w] = (IF Recorded(Product(w, k), e) THEN pend[w]
                     ELSE pend[w] \union {FreshMove(w, k)})
      /\ UNCHANGED <<level, moves, lock>>
  BY <1>1, <1>2 DEF Write, NextGroup, TypeOK, stockdb
<1>4. TypeOK'
  <2>1. NewMove(w) \in [product : Products, qty : Int, after : Int]
    BY <1>1 DEF NewMove
  <2>2. pend' \in [Workers -> SUBSET [product : Products, qty : Int, after : Int]]
    BY <2>1 DEF Write, TypeOK
  <2>3. idx' \in [Workers -> Nat \ {0}]
    BY DEF Write, NextGroup, TypeOK
  <2>4. pc' \in [Workers -> {"idle", "lock", "write", "commit", "ack"}]
    BY DEF Write, NextGroup, TypeOK
  <2> QED
    BY <2>2, <2>3, <2>4 DEF Write, TypeOK, broker, stockdb
<1>5. HandlerOK(w)'
  <2>1. Behind(w)' = Behind(w) \union {k}
    BY <1>1, <1>3, NextBehind DEF Behind
  <2>2. Behind(w) \union {k} \subseteq DOMAIN Groups[e]
    BY <1>1 DEF Behind
  <2>3. IndexOK(w)' /\ AboutToAck(w)' /\ ReadIsCurrent(w)'
    BY <1>1, <1>3, NextBehind DEF IndexOK, AboutToAck, ReadIsCurrent, Behind
  <2>4. \A i \in DOMAIN Groups[e] : Product(w, i)' = Product(w, i)
    BY <1>3 DEF Product
  <2>5. HoldsRows(w)'
    <3>1. \A i \in Behind(w) \union {k} : lock[Product(w, i)] = w
      BY <1>1 DEF HandlerOK, HoldsRows, InTransaction
    <3> QED
      BY <1>3, <2>1, <2>2, <2>4, <3>1 DEF HoldsRows
  <2>6. PendFits(w)'
    <3>1. \A i \in DOMAIN Groups[e] :
            /\ FreshMove(w, i)' = FreshMove(w, i)
            /\ Recorded(Product(w, i), e)' <=> Recorded(Product(w, i), e)
      BY <1>3 DEF FreshMove, Product, Qty, Recorded
    <3>2. \A i \in DOMAIN Groups[e] :
            Recorded(Product(w, i), ev[w])' <=> Recorded(Product(w, i), e)
      BY <1>3 DEF Product, Recorded
    <3>3. {FreshMove(w, i) : i \in {j \in Behind(w) : ~Recorded(Product(w, j), ev[w])}}'
            = {FreshMove(w, i) : i \in {j \in Behind(w) \union {k} : ~Recorded(Product(w, j), e)}}
      BY <2>1, <2>2, <3>1, <3>2
    <3>4. pend[w] = {FreshMove(w, i) : i \in {j \in Behind(w) : ~Recorded(Product(w, j), e)}}
      BY <1>1 DEF HandlerOK, PendFits, InTransaction
    <3>5. pend'[w] =
            {FreshMove(w, i) : i \in {j \in Behind(w) \union {k} : ~Recorded(Product(w, j), e)}}
      BY <1>3, <3>4
    <3>6. InTransaction(w)'
      BY <1>3 DEF InTransaction
    <3> QED
      BY <3>3, <3>5, <3>6 DEF PendFits
  <2> QED
    BY <2>3, <2>5, <2>6 DEF HandlerOK
<1>6. /\ UNCHANGED <<broker, stockdb, lock>>
      /\ \A v \in Workers \ {w} :
           /\ pc'[v] = pc[v] /\ ev'[v] = ev[v] /\ idx'[v] = idx[v]
           /\ read'[v] = read[v] /\ pend'[v] = pend[v]
  BY DEF Write, NextGroup, TypeOK
<1> QED
  BY <1>4, <1>5, <1>6, HandlerOnly

(* A request that is over leaves its handler idle.                          *)
LEMMA EndRequestKeeps ==
  ASSUME TypeOK, NEW w \in Workers, EndRequest(w)
  PROVE  /\ pc' \in [Workers -> {"idle", "lock", "write", "commit", "ack"}]
         /\ ev' \in [Workers -> Events]
         /\ idx' \in [Workers -> Nat \ {0}]
         /\ read' \in [Workers -> Int]
         /\ pend' \in [Workers -> SUBSET [product : Products, qty : Int, after : Int]]
         /\ HandlerOK(w)'
         /\ \A v \in Workers \ {w} :
              /\ pc'[v] = pc[v] /\ ev'[v] = ev[v] /\ idx'[v] = idx[v]
              /\ read'[v] = read[v] /\ pend'[v] = pend[v]
<1>1. /\ pc' \in [Workers -> {"idle", "lock", "write", "commit", "ack"}]
      /\ ev' \in [Workers -> Events]
      /\ idx' \in [Workers -> Nat \ {0}]
      /\ read' \in [Workers -> Int]
      /\ pend' \in [Workers -> SUBSET [product : Products, qty : Int, after : Int]]
  BY AnyEventIsEvent DEF EndRequest, TypeOK
<1>2. pc'[w] = "idle" /\ idx'[w] = 1 /\ pend'[w] = {}
  BY DEF EndRequest, TypeOK
<1>3. HandlerOK(w)'
  BY <1>2 DEF HandlerOK, IndexOK, HoldsRows, ReadIsCurrent, PendFits, AboutToAck, InTransaction
<1>4. \A v \in Workers \ {w} :
        /\ pc'[v] = pc[v] /\ ev'[v] = ev[v] /\ idx'[v] = idx[v]
        /\ read'[v] = read[v] /\ pend'[v] = pend[v]
  BY DEF EndRequest, TypeOK
<1> QED
  BY <1>1, <1>3, <1>4

(* A rollback, after an error, a crash or a deadlock, gives the rows back.  *)
LEMMA RollBackKeepsIInv ==
  ASSUME IInv, NEW w \in Workers, Fail(w) \/ DeadlockVictim(w)
  PROVE  IInv'
<1> USE DEF IInv
<1>1. RollBack(w) /\ UNCHANGED <<broker, stockdb, imports>> /\ faults' \in 0..MaxFaults
  BY InventoryAssumption DEF Fail, DeadlockVictim, TypeOK
<1>2. lock' \in [Products -> Workers \union {NoWorker}]
  BY <1>1 DEF RollBack, Release, TypeOK
<1>3. TypeOK'
  BY <1>1, <1>2, EndRequestKeeps DEF RollBack, TypeOK, broker, stockdb
<1>4. \A p \in Products : lock'[p] = lock[p] \/ lock[p] \in {w, NoWorker}
  BY <1>1 DEF RollBack, Release
<1> QED
  BY <1>1, <1>3, <1>4, EndRequestKeeps, HandlerOnly DEF RollBack

(* Ack: only an event that is applied is answered 200.                      *)
LEMMA AckKeepsIInv ==
  ASSUME IInv, NEW w \in Workers, Ack(w)
  PROVE  IInv'
<1> USE DEF IInv
<1>1. ev[w] \in Events /\ Applied(ev[w])
  BY DEF Ack, TypeOK, HandlerOK, AboutToAck
<1>2. /\ UNCHANGED <<copies, stockdb, lock, faults, imports>>
      /\ acked' = acked \union {ev[w]}
      /\ bus' = [bus EXCEPT ![ev[w]] = IF @ = 0 THEN 0 ELSE @ - 1]
  BY DEF Ack, Answer200
<1>3. bus' \in [Events -> 0..MaxCopies] /\ BusWithinCopies'
  BY <1>1, <1>2, InventoryAssumption DEF TypeOK, BusWithinCopies
<1>4. TypeOK'
  BY <1>1, <1>2, <1>3, EndRequestKeeps DEF Ack, TypeOK, stockdb
<1>5. LedgerOK' /\ \A p \in Products, e \in Events : Recorded(p, e)' <=> Recorded(p, e)
  BY <1>2, LedgerUntouched DEF stockdb
<1>6. \A v \in Workers \ {w} : HandlerOK(v)'
  <2> SUFFICES ASSUME NEW v \in Workers \ {w} PROVE HandlerOK(v)'
    OBVIOUS
  <2>1. /\ pc'[v] = pc[v] /\ ev'[v] = ev[v] /\ idx'[v] = idx[v]
        /\ read'[v] = read[v] /\ pend'[v] = pend[v]
    BY EndRequestKeeps DEF Ack
  <2> QED
    BY <1>2, <1>5, <2>1, OthersKeep DEF stockdb
<1>7. HandlerOK(w)'
  BY EndRequestKeeps DEF Ack
<1>8. AckedWasApplied'
  BY <1>1, <1>2 DEF AckedWasApplied, Applied, Recorded, stockdb
<1> QED
  BY <1>3, <1>4, <1>5, <1>6, <1>7, <1>8

-----------------------------------------------------------------------------
(* Rows of one product after one more of them.                              *)
LEMMA AppendRow ==
  ASSUME NEW S, NEW rows \in Seq(S), NEW row \in S
  PROVE  /\ Append(rows, row) \in Seq(S)
         /\ DOMAIN Append(rows, row) = DOMAIN rows \union {Len(rows) + 1}
         /\ Len(Append(rows, row)) = Len(rows) + 1 /\ Len(rows) \in Nat
         /\ \A i \in DOMAIN rows : Append(rows, row)[i] = rows[i] /\ i \in 1..Len(rows)
         /\ Append(rows, row)[Len(rows) + 1] = row
         /\ Append(rows, row) # <<>>
OBVIOUS

(* The level a ledger leaves.                                               *)
After(rows) == IF rows = <<>> THEN 0 ELSE rows[Len(rows)].after

(* How a transaction that commits, or an import, may change one product: by *)
(* one row that continues the ledger, and whose event was not in it.        *)
Extended(p) ==
  \E row \in Move \union Import :
    /\ moves'[p] = Append(moves[p], row)
    /\ level'[p] = row.after
    /\ row.ref # "import" =>
         ~Recorded(p, row.ref) /\ row.after = row.qty + level[p]

Kept(p) == moves'[p] = moves[p] /\ level'[p] = level[p]

(* A step that extends ledgers that way keeps what is said about them.      *)
LEMMA ExtendedKeeps ==
  ASSUME TypeOK, LevelIsLedger, LedgerChain, AppliedOnce,
         moves' = [p \in Products |-> moves'[p]],
         \A p \in Products : Kept(p) \/ Extended(p)
  PROVE  /\ moves' \in [Products -> Seq(Move \union Import)]
         /\ (LevelIsLedger /\ LedgerChain /\ AppliedOnce)'
         /\ \A p \in Products : \A e \in Events : Recorded(p, e) => Recorded(p, e)'
<1>1. ASSUME NEW p \in Products, Extended(p)
      PROVE  /\ moves'[p] \in Seq(Move \union Import)
             /\ level'[p] = After(moves'[p])
             /\ \A i \in DOMAIN moves'[p] :
                  moves'[p][i].ref # "import" =>
                    moves'[p][i].after =
                      moves'[p][i].qty + (IF i = 1 THEN 0 ELSE moves'[p][i - 1].after)
             /\ \A i, j \in DOMAIN moves'[p] :
                  moves'[p][i].ref = moves'[p][j].ref /\ moves'[p][i].ref # "import" => i = j
             /\ \A e \in Events : Recorded(p, e) => \E i \in DOMAIN moves'[p] : moves'[p][i].ref = e
  <2>1. PICK row \in Move \union Import :
          /\ moves'[p] = Append(moves[p], row)
          /\ level'[p] = row.after
          /\ row.ref # "import" =>
               ~Recorded(p, row.ref) /\ row.after = row.qty + level[p]
    BY <1>1 DEF Extended
  <2>2. moves[p] \in Seq(Move \union Import)
    BY DEF TypeOK
  <2> DEFINE n == Len(moves[p])
  <2> DEFINE new == Append(moves[p], row)
  <2>10. /\ new \in Seq(Move \union Import)
         /\ DOMAIN new = DOMAIN moves[p] \union {n + 1}
         /\ Len(new) = n + 1 /\ n \in Nat
         /\ \A i \in DOMAIN moves[p] : new[i] = moves[p][i] /\ i \in 1..n
         /\ new[n + 1] = row
         /\ new # <<>>
    <3>1. row \in Move \union Import
      BY <2>1
    <3> QED
      BY <2>2, <3>1, AppendRow
  <2>11. moves'[p] = new
    BY <2>1
  <2> HIDE DEF new
  <2>3. /\ moves'[p] \in Seq(Move \union Import)
        /\ DOMAIN moves'[p] = DOMAIN moves[p] \union {n + 1}
        /\ Len(moves'[p]) = n + 1 /\ n \in Nat
        /\ \A i \in DOMAIN moves[p] : moves'[p][i] = moves[p][i] /\ i \in 1..n
        /\ moves'[p][n + 1] = row
        /\ moves'[p] # <<>>
    BY <2>10, <2>11
  <2>4. level'[p] = After(moves'[p])
    BY <2>1, <2>3 DEF After
  <2>5. DOMAIN moves[p] = 1..n /\ (n = 0 <=> moves[p] = <<>>)
    <3>1. ASSUME NEW S, NEW s \in Seq(S) PROVE DOMAIN s = 1..Len(s) /\ (Len(s) = 0 <=> s = <<>>)
      OBVIOUS
    <3> QED
      BY <2>2, <3>1, Zenon
  <2>6. \A i \in DOMAIN moves'[p] :
          moves'[p][i].ref # "import" =>
            moves'[p][i].after =
              moves'[p][i].qty + (IF i = 1 THEN 0 ELSE moves'[p][i - 1].after)
    <3> SUFFICES ASSUME NEW i \in DOMAIN moves'[p], moves'[p][i].ref # "import"
                 PROVE  moves'[p][i].after =
                          moves'[p][i].qty + (IF i = 1 THEN 0 ELSE moves'[p][i - 1].after)
      OBVIOUS
    <3>1. CASE i \in DOMAIN moves[p]
      <4>1. moves[p][i].after = moves[p][i].qty + (IF i = 1 THEN 0 ELSE moves[p][i - 1].after)
        BY <2>3, <3>1 DEF LedgerChain
      <4>2. i # 1 => i - 1 \in DOMAIN moves[p]
        BY <2>3, <2>5, <3>1
      <4> QED
        BY <2>3, <3>1, <4>1, <4>2
    <3>2. CASE i = n + 1
      <4>1. row.after = row.qty + level[p]
        BY <2>1, <2>3, <3>2
      <4>2. level[p] = IF moves[p] = <<>> THEN 0 ELSE moves[p][n].after
        BY DEF LevelIsLedger
      <4>3. CASE n = 0
        BY <2>3, <2>5, <3>2, <4>1, <4>2, <4>3
      <4>4. CASE n # 0
        <5>1. i # 1 /\ i - 1 = n /\ n \in DOMAIN moves[p]
          BY <2>3, <2>5, <3>2, <4>4
        <5> QED
          BY <2>3, <2>5, <3>2, <4>1, <4>2, <4>4, <5>1
      <4> QED
        BY <4>3, <4>4
    <3> QED
      BY <2>3, <3>1, <3>2
  <2>7. \A i, j \in DOMAIN moves'[p] :
          moves'[p][i].ref = moves'[p][j].ref /\ moves'[p][i].ref # "import" => i = j
    <3>1. row.ref # "import" => \A i \in DOMAIN moves[p] : moves[p][i].ref # row.ref
      BY <2>1 DEF Recorded
    <3>2. \A i, j \in DOMAIN moves[p] :
            moves[p][i].ref = moves[p][j].ref /\ moves[p][i].ref # "import" => i = j
      BY DEF AppliedOnce
    <3> QED
      BY <2>3, <3>1, <3>2
  <2>8. \A e \in Events : Recorded(p, e) => \E i \in DOMAIN moves'[p] : moves'[p][i].ref = e
    BY <2>3 DEF Recorded
  <2> QED
    BY <2>3, <2>4, <2>6, <2>7, <2>8
<1>2. ASSUME NEW p \in Products, Kept(p)
      PROVE  moves'[p] \in Seq(Move \union Import)
    BY <1>2 DEF Kept, TypeOK
<1>3. moves' \in [Products -> Seq(Move \union Import)]
  BY <1>1, <1>2
<1>4. LevelIsLedger'
  BY <1>1 DEF LevelIsLedger, Kept, After
<1>5. LedgerChain'
  BY <1>1 DEF LedgerChain, Kept
<1>6. AppliedOnce'
  BY <1>1 DEF AppliedOnce, Kept
<1>7. \A p \in Products : \A e \in Events : Recorded(p, e) => Recorded(p, e)'
  BY <1>1 DEF Recorded, Kept
<1> QED
  BY <1>3, <1>4, <1>5, <1>6, <1>7

(* What a transaction at its commit has pending for a product: a move that  *)
(* fits, if the product is in the event and its move is not recorded yet.   *)
LEMMA PendingFacts ==
  ASSUME IInv, NEW w \in Workers, pc[w] = "commit", NEW p \in Products
  PROVE  /\ Pending(w, p) # {} =>
              /\ lock[p] = w /\ ~Recorded(p, ev[w])
              /\ PendingMove(w, p).qty \in Int
              /\ PendingMove(w, p).after = level[p] + PendingMove(w, p).qty
              /\ \E i \in DOMAIN Groups[ev[w]] :
                   Product(w, i) = p /\ PendingMove(w, p).qty = -Qty(w, i)
         /\ \A i \in DOMAIN Groups[ev[w]] :
              Product(w, i) = p => Pending(w, p) # {} \/ Recorded(p, ev[w])
<1> USE DEF IInv
<1> DEFINE e == ev[w]
           Open == {j \in DOMAIN Groups[e] : ~Recorded(Product(w, j), e)}
<1>1. e \in Events
  BY DEF TypeOK
<1>2. pend[w] = {FreshMove(w, i) : i \in Open}
  BY DEF HandlerOK, PendFits, InTransaction, IndexOK
<1>3. \A i \in DOMAIN Groups[e] :
        /\ Product(w, i) \in Products /\ Qty(w, i) \in Int
        /\ lock[Product(w, i)] = w
  BY <1>1, GroupFacts DEF HandlerOK, HoldsRows, InTransaction, IndexOK, Product, Qty
<1>4. ASSUME Pending(w, p) # {}
      PROVE  /\ lock[p] = w /\ ~Recorded(p, e)
             /\ PendingMove(w, p).qty \in Int
             /\ PendingMove(w, p).after = level[p] + PendingMove(w, p).qty
             /\ \E i \in DOMAIN Groups[e] :
                  Product(w, i) = p /\ PendingMove(w, p).qty = -Qty(w, i)
  <2>1. PendingMove(w, p) \in pend[w] /\ PendingMove(w, p).product = p
    BY <1>4 DEF Pending, PendingMove
  <2>2. PICK i \in Open : PendingMove(w, p) = FreshMove(w, i)
    BY <1>2, <2>1
  <2>3. Product(w, i) = p
    BY <2>1, <2>2 DEF FreshMove
  <2>4. level[p] \in Int
    BY DEF TypeOK
  <2> QED
    BY <1>3, <2>2, <2>3, <2>4 DEF FreshMove
<1>5. ASSUME NEW i \in DOMAIN Groups[e], Product(w, i) = p, ~Recorded(p, e)
      PROVE  Pending(w, p) # {}
  <2>1. FreshMove(w, i) \in pend[w] /\ FreshMove(w, i).product = p
    BY <1>2, <1>5 DEF FreshMove
  <2> QED
    BY <2>1 DEF Pending
<1> QED
  BY <1>4, <1>5

(* What a commit does to the tables: the products of its event, and no others,*)
(* get the move they lack, on rows the handler holds.                       *)
LEMMA CommitChanges ==
  ASSUME IInv, NEW w \in Workers, Commit(w)
  PROVE  /\ \A p \in Products : Kept(p) \/ (Extended(p) /\ lock[p] = w)
         /\ moves' = [p \in Products |-> moves'[p]]
         /\ level' \in [Products -> Int] /\ version' \in [Products -> Nat]
         /\ \A p \in Products, e \in Events :
              Recorded(p, e)' <=>
                Recorded(p, e) \/ (e = ev[w] /\ \E i \in DOMAIN Groups[e] : Product(w, i) = p)
<1> USE DEF IInv
<1>1. pc[w] = "commit" /\ ev[w] \in Events /\ ev[w] # "import"
  BY InventoryAssumption DEF Commit, TypeOK
<1>2. ASSUME NEW p \in Products, Pending(w, p) = {}
      PROVE  Kept(p)
  BY <1>2 DEF Commit, StoreMoves, Kept
<1> DEFINE row(p) == [ref |-> ev[w], qty |-> PendingMove(w, p).qty,
                      after |-> PendingMove(w, p).after]
<1>3. ASSUME NEW p \in Products, Pending(w, p) # {}
      PROVE  /\ Extended(p) /\ lock[p] = w /\ moves'[p] = Append(moves[p], row(p))
             /\ level'[p] \in Int
  <2>1. /\ moves'[p] = Append(moves[p], row(p))
        /\ level'[p] = level[p] + PendingMove(w, p).qty
    BY <1>3 DEF Commit, StoreMoves
  <2>2. /\ lock[p] = w /\ ~Recorded(p, ev[w])
        /\ PendingMove(w, p).qty \in Int
        /\ PendingMove(w, p).after = level[p] + PendingMove(w, p).qty
        /\ level[p] \in Int
    BY <1>1, <1>3, PendingFacts DEF TypeOK
  <2>3. row(p) \in Move /\ row(p).ref = ev[w] /\ row(p).after = row(p).qty + level[p]
    BY <1>1, <2>2 DEF Move
  <2>4. Extended(p)
    BY <2>1, <2>2, <2>3 DEF Extended
  <2> QED
    BY <2>1, <2>2, <2>4
<1>4. level' \in [Products -> Int] /\ version' \in [Products -> Nat]
  <2>1. \A p \in Products : level'[p] \in Int
    BY <1>2, <1>3 DEF Kept, TypeOK
  <2> QED
    BY <2>1 DEF Commit, StoreMoves, TypeOK
<1>5. moves' = [p \in Products |-> moves'[p]]
  BY DEF Commit, StoreMoves
<1>6. ASSUME NEW p \in Products, NEW e \in Events
      PROVE  Recorded(p, e)' <=>
               Recorded(p, e) \/ (e = ev[w] /\ \E i \in DOMAIN Groups[e] : Product(w, i) = p)
  <2>1. CASE Pending(w, p) = {}
    <3>1. Recorded(p, e)' <=> Recorded(p, e)
      BY <1>2, <2>1 DEF Kept, Recorded
    <3>2. (e = ev[w] /\ \E i \in DOMAIN Groups[e] : Product(w, i) = p) => Recorded(p, e)
      BY <1>1, <2>1, PendingFacts
    <3> QED
      BY <3>1, <3>2
  <2>2. CASE Pending(w, p) # {}
    <3>1. \E i \in DOMAIN Groups[ev[w]] : Product(w, i) = p
      BY <1>1, <2>2, PendingFacts
    <3>2. moves'[p] = Append(moves[p], row(p))
      BY <1>3, <2>2
    <3>3. /\ DOMAIN moves'[p] = DOMAIN moves[p] \union {Len(moves[p]) + 1}
          /\ \A i \in DOMAIN moves[p] : moves'[p][i] = moves[p][i]
          /\ moves'[p][Len(moves[p]) + 1] = row(p)
      <4>1. ASSUME NEW S, NEW s \in Seq(S), NEW x
            PROVE  /\ DOMAIN Append(s, x) = DOMAIN s \union {Len(s) + 1}
                   /\ \A i \in DOMAIN s : Append(s, x)[i] = s[i]
                   /\ Append(s, x)[Len(s) + 1] = x
        OBVIOUS
      <4>2. moves[p] \in Seq(Move \union Import)
        BY DEF TypeOK
      <4> HIDE DEF row
      <4>3. /\ DOMAIN Append(moves[p], row(p)) = DOMAIN moves[p] \union {Len(moves[p]) + 1}
            /\ \A i \in DOMAIN moves[p] : Append(moves[p], row(p))[i] = moves[p][i]
            /\ Append(moves[p], row(p))[Len(moves[p]) + 1] = row(p)
        BY <4>1, <4>2
      <4> QED
        BY <3>2, <4>3
    <3>4. row(p).ref = ev[w]
      OBVIOUS
    <3> HIDE DEF row
    <3>5. Recorded(p, e)' <=> Recorded(p, e) \/ e = ev[w]
      BY <3>3, <3>4 DEF Recorded
    <3> QED
      BY <3>1, <3>5
  <2> QED
    BY <2>1, <2>2
<1> QED
  BY <1>2, <1>3, <1>4, <1>5, <1>6

(* Commit: the event is applied as a whole; nobody else's rows have moved.  *)
LEMMA CommitKeepsIInv ==
  ASSUME IInv, NEW w \in Workers, Commit(w)
  PROVE  IInv'
<1> USE DEF IInv
<1>1. ev[w] \in Events
  BY DEF TypeOK
<1>2. /\ UNCHANGED <<broker, ev, idx, read, faults, imports>>
      /\ pc' = [pc EXCEPT ![w] = "ack"] /\ pend' = [pend EXCEPT ![w] = {}]
      /\ lock' = [p \in Products |-> IF lock[p] = w THEN NoWorker ELSE lock[p]]
  BY DEF Commit, Release
<1>3. \A p \in Products : Kept(p) \/ Extended(p)
  BY CommitChanges
<1>4. /\ moves' \in [Products -> Seq(Move \union Import)]
      /\ (LevelIsLedger /\ LedgerChain /\ AppliedOnce)'
      /\ \A p \in Products : \A f \in Events : Recorded(p, f) => Recorded(p, f)'
  BY <1>3, CommitChanges, ExtendedKeeps DEF LedgerOK
<1>5. TypeOK'
  <2>1. lock' \in [Products -> Workers \union {NoWorker}]
    BY <1>2 DEF TypeOK
  <2>2. pc' \in [Workers -> {"idle", "lock", "write", "commit", "ack"}]
    BY <1>2 DEF TypeOK
  <2>3. pend' \in [Workers -> SUBSET [product : Products, qty : Int, after : Int]]
    BY <1>2 DEF TypeOK
  <2> QED
    BY <1>2, <1>4, <2>1, <2>2, <2>3, CommitChanges DEF TypeOK, broker
<1>6. ASSUME NEW f \in Events, f = ev[w], NEW i \in DOMAIN Groups[f]
      PROVE  Recorded(Groups[f][i].product, f)'
  <2>1. Groups[f][i].product \in Products /\ Product(w, i) = Groups[f][i].product
    BY <1>6, GroupFacts DEF Product
  <2> QED
    BY <1>6, <2>1, CommitChanges
<1>7. AllOrNothing'
  <2> SUFFICES ASSUME NEW f \in Events, Touched(f)' PROVE Applied(f)'
    BY DEF AllOrNothing
  <2>1. CASE f = ev[w]
    BY <1>6, <2>1 DEF Applied, Recorded
  <2>2. CASE f # ev[w]
    <3>1. Touched(f)
      BY <2>2, CommitChanges DEF Touched
    <3>2. \A i \in DOMAIN Groups[f] : Recorded(Groups[f][i].product, f)
      BY <3>1 DEF LedgerOK, AllOrNothing, Applied
    <3>3. \A i \in DOMAIN Groups[f] : Recorded(Groups[f][i].product, f)'
      BY <1>4, <3>2, GroupFacts
    <3> QED
      BY <3>3 DEF Applied, Recorded
  <2> QED
    BY <2>1, <2>2
<1>8. \A v \in Workers \ {w} : HandlerOK(v)'
  <2> SUFFICES ASSUME NEW v \in Workers \ {w} PROVE HandlerOK(v)'
    OBVIOUS
  <2>1. /\ pc'[v] = pc[v] /\ ev'[v] = ev[v] /\ idx'[v] = idx[v]
        /\ read'[v] = read[v] /\ pend'[v] = pend[v]
    BY <1>2 DEF TypeOK
  <2>2. \A p \in Products : lock[p] = v =>
          /\ lock'[p] = v /\ level'[p] = level[p]
          /\ \A f \in Events : Recorded(p, f)' <=> Recorded(p, f)
    <3> SUFFICES ASSUME NEW p \in Products, lock[p] = v
                 PROVE  /\ lock'[p] = v /\ level'[p] = level[p]
                        /\ \A f \in Events : Recorded(p, f)' <=> Recorded(p, f)
      OBVIOUS
    <3>1. Kept(p)
      BY CommitChanges
    <3> QED
      BY <1>2, <3>1 DEF Kept, Recorded
  <2> QED
    BY <1>4, <2>1, <2>2, OthersKeep
<1>9. HandlerOK(w)'
  <2>1. pc'[w] = "ack" /\ pend'[w] = {} /\ ev'[w] = ev[w]
    BY <1>2 DEF TypeOK
  <2>2. Applied(ev[w])'
    BY <1>1, <1>6, <2>1 DEF Applied, Recorded
  <2> QED
    BY <2>1, <2>2
    DEF HandlerOK, IndexOK, HoldsRows, ReadIsCurrent, PendFits, AboutToAck, InTransaction
<1>10. AckedWasApplied'
  <2> SUFFICES ASSUME NEW f \in acked' PROVE Applied(f)'
    BY DEF AckedWasApplied
  <2>1. f \in acked /\ f \in Events
    BY <1>2 DEF broker, TypeOK
  <2>2. \A i \in DOMAIN Groups[f] : Recorded(Groups[f][i].product, f)
    BY <2>1 DEF AckedWasApplied, Applied
  <2>3. \A i \in DOMAIN Groups[f] : Recorded(Groups[f][i].product, f)'
    BY <1>4, <2>1, <2>2, GroupFacts
  <2> QED
    BY <2>3 DEF Applied, Recorded
<1>11. BusWithinCopies'
  BY <1>2 DEF BusWithinCopies, broker
<1> QED
  BY <1>4, <1>5, <1>7, <1>8, <1>9, <1>10, <1>11 DEF LedgerOK

(* What an import does: rows nobody holds get a new level and no event.     *)
LEMMA ImportChanges ==
  ASSUME IInv, NEW B \in SUBSET Products, NEW q \in ImportQty, ImportBatch(B, q)
  PROVE  /\ \A p \in Products : Kept(p) \/ (Extended(p) /\ lock[p] = NoWorker)
         /\ moves' = [p \in Products |-> moves'[p]]
         /\ \A p \in Products, e \in Events : Recorded(p, e)' <=> Recorded(p, e)
<1> USE DEF IInv
<1> DEFINE row == [ref |-> "import", qty |-> 0, after |-> q]
<1>1. row \in Import /\ row.ref = "import" /\ row.after = q
  BY InventoryAssumption DEF Import
<1>2. ASSUME NEW p \in Products, p \notin B PROVE Kept(p)
  BY <1>2 DEF ImportBatch, Kept
<1>3. ASSUME NEW p \in B
      PROVE  moves'[p] = Append(moves[p], row) /\ level'[p] = q /\ lock[p] = NoWorker
  BY <1>3 DEF ImportBatch
<1>4. ASSUME NEW p \in B PROVE Extended(p)
  BY <1>1, <1>3 DEF Extended
<1>5. ASSUME NEW p \in B, NEW e \in Events PROVE Recorded(p, e)' <=> Recorded(p, e)
  <2>1. /\ DOMAIN Append(moves[p], row) = DOMAIN moves[p] \union {Len(moves[p]) + 1}
        /\ \A i \in DOMAIN moves[p] : Append(moves[p], row)[i] = moves[p][i]
        /\ Append(moves[p], row)[Len(moves[p]) + 1] = row
    <3>1. moves[p] \in Seq(Move \union Import)
      BY <1>5 DEF TypeOK
    <3>2. row \in Move \union Import
      BY <1>1
    <3> HIDE DEF row
    <3> QED
      BY <3>1, <3>2, AppendRow
  <2>2. e # row.ref
    BY <1>1, InventoryAssumption
  <2> HIDE DEF row
  <2> QED
    BY <1>3, <2>1, <2>2 DEF Recorded
<1>6. moves' = [p \in Products |-> moves'[p]]
  BY DEF ImportBatch
<1> QED
  BY <1>2, <1>3, <1>4, <1>5, <1>6 DEF Kept, Recorded

(* ImportBatch: no handler holds the rows it writes.                        *)
LEMMA ImportKeepsIInv ==
  ASSUME IInv, NEW B \in SUBSET Products, NEW q \in ImportQty, ImportBatch(B, q)
  PROVE  IInv'
<1> USE DEF IInv
<1>1. UNCHANGED <<broker, version, lock, handler, faults>> /\ imports' \in 0..MaxImports
  BY InventoryAssumption DEF ImportBatch, TypeOK
<1>2. /\ moves' \in [Products -> Seq(Move \union Import)]
      /\ (LevelIsLedger /\ LedgerChain /\ AppliedOnce)'
  BY ImportChanges, ExtendedKeeps DEF LedgerOK
<1>3. level' \in [Products -> Int]
  BY InventoryAssumption DEF ImportBatch, TypeOK
<1>4. TypeOK'
  BY <1>1, <1>2, <1>3 DEF TypeOK, broker, handler
<1>5. AllOrNothing'
  <2> SUFFICES ASSUME NEW f \in Events, Touched(f)' PROVE Applied(f)'
    BY DEF AllOrNothing
  <2>1. Touched(f)
    BY ImportChanges DEF Touched
  <2>2. \A i \in DOMAIN Groups[f] : Recorded(Groups[f][i].product, f)
    BY <2>1 DEF LedgerOK, AllOrNothing, Applied
  <2>3. \A i \in DOMAIN Groups[f] : Recorded(Groups[f][i].product, f)'
    BY <2>2, GroupFacts, ImportChanges
  <2> QED
    BY <2>3 DEF Applied, Recorded
<1>6. \A v \in Workers : HandlerOK(v)'
  <2> SUFFICES ASSUME NEW v \in Workers PROVE HandlerOK(v)'
    OBVIOUS
  <2>1. \A p \in Products : lock[p] = v => Kept(p)
    BY ImportChanges, InventoryAssumption
  <2> QED
    BY <1>1, <2>1, ImportChanges, OthersKeep DEF handler, Kept
<1>7. AckedWasApplied'
  <2> SUFFICES ASSUME NEW f \in acked' PROVE Applied(f)'
    BY DEF AckedWasApplied
  <2>1. f \in acked /\ f \in Events
    BY <1>1 DEF broker, TypeOK
  <2>2. \A i \in DOMAIN Groups[f] : Recorded(Groups[f][i].product, f)
    BY <2>1 DEF AckedWasApplied, Applied
  <2>3. \A i \in DOMAIN Groups[f] : Recorded(Groups[f][i].product, f)'
    BY <2>1, <2>2, GroupFacts, ImportChanges
  <2> QED
    BY <2>3 DEF Applied, Recorded
<1>8. BusWithinCopies'
  BY <1>1 DEF BusWithinCopies, broker
<1> QED
  BY <1>2, <1>4, <1>5, <1>6, <1>7, <1>8 DEF LedgerOK

-----------------------------------------------------------------------------
(* Every step keeps the invariant.                                          *)
LEMMA NextIInv == IInv /\ [Next]_vars => IInv'
<1> SUFFICES ASSUME IInv, [Next]_vars PROVE IInv'
  OBVIOUS
<1>1. ASSUME NEW e \in Events, Publish(e) \/ Reject(e) PROVE IInv'
  BY <1>1, BusStep
<1>2. ASSUME NEW w \in Workers, NEW e \in Events, Receive(w, e) PROVE IInv'
  BY <1>2, ReceiveKeepsIInv
<1>3. ASSUME NEW w \in Workers, HandlerStep(w) PROVE IInv'
  BY <1>3, LockKeepsIInv, WriteKeepsIInv, CommitKeepsIInv, AckKeepsIInv, RollBackKeepsIInv
  DEF HandlerStep
<1>4. ASSUME NEW w \in Workers, Fail(w) PROVE IInv'
  BY <1>4, RollBackKeepsIInv
<1>5. ASSUME NEW B \in SUBSET Products \ {{}}, NEW q \in ImportQty, ImportBatch(B, q)
      PROVE  IInv'
  BY <1>5, ImportKeepsIInv
<1>6. CASE UNCHANGED vars
  <2> USE DEF IInv
  <2>1. UNCHANGED <<copies, bus, acked, level, version, moves, lock, pc, ev, idx, read, pend,
                    faults, imports>>
    BY <1>6 DEF vars, broker, stockdb, handler
  <2>2. LedgerOK' /\ \A p \in Products, e \in Events : Recorded(p, e)' <=> Recorded(p, e)
    BY <2>1, LedgerUntouched
  <2>3. \A w \in Workers : HandlerOK(w)'
    BY <2>1, <2>2, OthersKeep
  <2>4. TypeOK'
    BY <2>1 DEF TypeOK
  <2>5. BusWithinCopies' /\ AckedWasApplied'
    BY <2>1 DEF BusWithinCopies, AckedWasApplied, Applied, Recorded
  <2> QED
    BY <2>2, <2>3, <2>4, <2>5
<1> QED
  BY <1>1, <1>2, <1>3, <1>4, <1>5, <1>6 DEF Next

(* The invariant of the handling of sale.paid, by any number of handlers.   *)
THEOREM Invariance == Spec => []IInv
BY InitIInv, NextIInv, PTL DEF Spec

(* Types, and the bounds of the counters.                                   *)
THEOREM TypeCorrect == Spec => []TypeOK
<1>1. IInv => TypeOK
  BY DEF IInv
<1> QED
  BY <1>1, Invariance, PTL

(* subscribe.go, the unique index and its check: delivered any number of    *)
(* times, to any number of handlers, an event moves a product once.         *)
THEOREM EventAppliedOnce == Spec => []AppliedOnce
<1>1. IInv => AppliedOnce
  BY DEF IInv, LedgerOK
<1> QED
  BY <1>1, Invariance, PTL

(* subscribe.go, one transaction per event: never half a sale.              *)
THEOREM NeverHalf == Spec => []AllOrNothing
<1>1. IInv => AllOrNothing
  BY DEF IInv, LedgerOK
<1> QED
  BY <1>1, Invariance, PTL

(* subscribe.go, the level written under the row lock: it is what the last  *)
(* row of the ledger says.                                                  *)
THEOREM LevelAgrees == Spec => []LevelIsLedger
<1>1. IInv => LevelIsLedger
  BY DEF IInv, LedgerOK
<1> QED
  BY <1>1, Invariance, PTL

(* subscribe.go, qty_after: every row of the ledger continues where the one *)
(* before it, or an import, left the level.                                 *)
THEOREM RowsChain == Spec => []LedgerChain
<1>1. IInv => LedgerChain
  BY DEF IInv, LedgerOK
<1> QED
  BY <1>1, Invariance, PTL

(* subscribe_routes.go, 200 only after the commit: no event is lost.        *)
THEOREM NothingLost == Spec => []AckedWasApplied
<1>1. IInv => AckedWasApplied
  BY DEF IInv
<1> QED
  BY <1>1, Invariance, PTL

-----------------------------------------------------------------------------
(* The refinement of StockLedger.                                           *)

(* What an event does to a product is the quantity of its one group for it. *)
LEMMA EffectOfGroup ==
  ASSUME NEW e \in Events, NEW p \in Products
  PROVE  /\ \A i \in DOMAIN Groups[e] : Groups[e][i].product = p => Effect(e, p) = -Groups[e][i].qty
         /\ (\A i \in DOMAIN Groups[e] : Groups[e][i].product # p) => Effect(e, p) = 0
<1>1. ASSUME NEW i \in DOMAIN Groups[e], Groups[e][i].product = p
      PROVE  Effect(e, p) = -Groups[e][i].qty
  <2>1. \A j \in DOMAIN Groups[e] : Groups[e][j].product = p => j = i
    BY <1>1, GroupFacts
  <2>2. (CHOOSE j \in DOMAIN Groups[e] : Groups[e][j].product = p) = i
    BY <1>1, <2>1
  <2> QED
    BY <1>1, <2>2 DEF Effect
<1>2. (\A i \in DOMAIN Groups[e] : Groups[e][i].product # p) => Effect(e, p) = 0
  BY DEF Effect
<1> QED
  BY <1>1, <1>2

(* The empty tables are the empty ledger.                                   *)
LEMMA InitLedger == Init => Ledger!Init
<1> SUFFICES ASSUME Init PROVE Ledger!Init
  OBVIOUS
<1>1. \A e \in Events : ~Touched(e)
  BY DEF Init, Touched, Recorded
<1> QED
  BY <1>1 DEF Init, Ledger!Init

(* The events applied, as the refinement mapping sees them.                 *)
AppliedEvents == {e \in Events : Touched(e)}

(* A commit applies its event, or was a duplicate and changes nothing.      *)
LEMMA CommitLedger ==
  ASSUME IInv, NEW w \in Workers, Commit(w)
  PROVE  \/ Ledger!Apply(ev[w])
         \/ UNCHANGED <<AppliedEvents, level, imports>>
<1> USE DEF IInv
<1>1. ev[w] \in Events /\ UNCHANGED imports /\ pc[w] = "commit"
  BY DEF Commit, TypeOK
<1>2. level' = [p \in Products |-> level'[p]] /\ level = [p \in Products |-> level[p]]
  BY CommitChanges DEF TypeOK
<1>3. \A f \in Events \ {ev[w]} : Touched(f)' <=> Touched(f)
  BY CommitChanges DEF Touched
<1>4. \A p \in Products : Pending(w, p) = {} => level'[p] = level[p]
  BY DEF Commit, StoreMoves
<1>5. CASE Touched(ev[w])
  <2>1. \A p \in Products : Pending(w, p) = {}
    <3> SUFFICES ASSUME NEW p \in Products, Pending(w, p) # {} PROVE FALSE
      OBVIOUS
    <3>1. PICK i \in DOMAIN Groups[ev[w]] : Product(w, i) = p
      BY <1>1, PendingFacts
    <3>2. ~Recorded(p, ev[w])
      BY <1>1, PendingFacts
    <3>3. Recorded(Groups[ev[w]][i].product, ev[w])
      BY <1>1, <1>5 DEF LedgerOK, AllOrNothing, Applied
    <3> QED
      BY <3>1, <3>2, <3>3 DEF Product
  <2>2. level' = level
    BY <1>2, <1>4, <2>1
  <2>3. \A f \in Events : Touched(f) => Touched(f)'
    BY CommitChanges DEF Touched
  <2>4. AppliedEvents' = AppliedEvents
    BY <1>3, <1>5, <2>3 DEF AppliedEvents
  <2> QED
    BY <1>1, <2>2, <2>4
<1>6. CASE ~Touched(ev[w]) /\ DOMAIN Groups[ev[w]] = {}
  <2>1. \A p \in Products : Pending(w, p) = {}
    BY <1>1, <1>6, PendingFacts
  <2>2. level' = level
    BY <1>2, <1>4, <2>1
  <2>3. \A f \in Events : Touched(f)' <=> Touched(f)
    BY <1>6, CommitChanges DEF Touched
  <2>4. AppliedEvents' = AppliedEvents
    BY <2>3 DEF AppliedEvents
  <2> QED
    BY <1>1, <2>2, <2>4
<1>7. CASE ~Touched(ev[w]) /\ DOMAIN Groups[ev[w]] # {}
  <2>1. \A f \in Events : f = ev[w] => Touched(f)'
    <3> SUFFICES ASSUME NEW f \in Events, f = ev[w] PROVE Touched(f)'
      OBVIOUS
    <3>1. PICK i \in DOMAIN Groups[f] : TRUE
      BY <1>7
    <3>2. Groups[f][i].product \in Products /\ Product(w, i) = Groups[f][i].product
      BY GroupFacts DEF Product
    <3>3. Recorded(Groups[f][i].product, f)'
      BY <3>2, CommitChanges
    <3> QED
      BY <3>2, <3>3 DEF Touched, Recorded
  <2>2. AppliedEvents' = AppliedEvents \union {ev[w]}
    BY <1>1, <1>3, <2>1 DEF AppliedEvents
  <2>3. ASSUME NEW p \in Products PROVE level'[p] = level[p] + Effect(ev[w], p)
    <3>1. level[p] \in Int
      BY DEF TypeOK
    <3>2. CASE Pending(w, p) # {}
      <4>1. level'[p] = level[p] + PendingMove(w, p).qty
        BY <3>2 DEF Commit, StoreMoves
      <4>2. PICK i \in DOMAIN Groups[ev[w]] :
              Product(w, i) = p /\ PendingMove(w, p).qty = -Qty(w, i)
        BY <1>1, <3>2, PendingFacts
      <4>3. Effect(ev[w], p) = -Qty(w, i)
        BY <1>1, <4>2, EffectOfGroup DEF Product, Qty
      <4> QED
        BY <4>1, <4>2, <4>3
    <3>3. CASE Pending(w, p) = {}
      <4>1. \A i \in DOMAIN Groups[ev[w]] : Groups[ev[w]][i].product # p
        BY <1>1, <1>7, <3>3, PendingFacts DEF Touched, Product
      <4>2. Effect(ev[w], p) = 0
        BY <1>1, <4>1, EffectOfGroup
      <4> QED
        BY <1>4, <3>1, <3>3, <4>2
    <3> QED
      BY <3>2, <3>3
  <2>4. level' = [p \in Products |-> level[p] + Effect(ev[w], p)]
    BY <1>2, <2>3
  <2>5. ev[w] \in Events \ AppliedEvents
    BY <1>1, <1>7 DEF AppliedEvents
  <2> QED
    BY <1>1, <2>2, <2>4, <2>5 DEF Ledger!Apply, AppliedEvents
<1> QED
  BY <1>5, <1>6, <1>7

(* An import overwrites levels and applies no event.                        *)
LEMMA ImportLedger ==
  ASSUME IInv, NEW B \in SUBSET Products, NEW q \in ImportQty, ImportBatch(B, q)
  PROVE  Ledger!Overwrite
<1>1. level' \in [Products -> Int]
  BY InventoryAssumption DEF ImportBatch, IInv, TypeOK
<1>2. \A e \in Events : Touched(e)' <=> Touched(e)
  BY ImportChanges DEF Touched
<1>3. AppliedEvents' = AppliedEvents
  BY <1>2 DEF AppliedEvents
<1> QED
  BY <1>1, <1>3 DEF ImportBatch, Ledger!Overwrite, AppliedEvents

(* The whole handling, with its locks, duplicates, failures and deadlocks,  *)
(* looks from outside like a ledger that takes each event once and whole.   *)
THEOREM RefinesLedger == Spec => ImplementsLedger
<1>1. ASSUME IInv, [Next]_vars
      PROVE  [Ledger!Next]_<<AppliedEvents, level, imports>>
  <2>1. ASSUME UNCHANGED <<level, moves, imports>>
        PROVE  UNCHANGED <<AppliedEvents, level, imports>>
    BY <2>1 DEF AppliedEvents, Touched, Recorded
  <2>2. ASSUME NEW e \in Events, Publish(e) \/ Reject(e)
        PROVE  UNCHANGED <<AppliedEvents, level, imports>>
    BY <2>1, <2>2 DEF Publish, Reject, stockdb
  <2>3. ASSUME NEW w \in Workers, NEW e \in Events, Receive(w, e)
        PROVE  UNCHANGED <<AppliedEvents, level, imports>>
    BY <2>1, <2>3 DEF Receive, stockdb
  <2>4. ASSUME NEW w \in Workers, Lock(w) \/ Write(w) \/ Ack(w) \/ DeadlockVictim(w) \/ Fail(w)
        PROVE  UNCHANGED <<AppliedEvents, level, imports>>
    BY <2>1, <2>4 DEF Lock, Write, Ack, DeadlockVictim, Fail, stockdb
  <2>5. ASSUME NEW w \in Workers, Commit(w)
        PROVE  [Ledger!Next]_<<AppliedEvents, level, imports>>
    <3>1. ev[w] \in Events
      BY <1>1 DEF IInv, TypeOK
    <3> QED
      BY <1>1, <2>5, <3>1, CommitLedger DEF Ledger!Next
  <2>6. ASSUME NEW B \in SUBSET Products \ {{}}, NEW q \in ImportQty, ImportBatch(B, q)
        PROVE  Ledger!Next
    BY <1>1, <2>6, ImportLedger DEF Ledger!Next
  <2>7. CASE UNCHANGED vars
    BY <2>1, <2>7 DEF vars, stockdb
  <2> QED
    BY <1>1, <2>2, <2>3, <2>4, <2>5, <2>6, <2>7 DEF Next, HandlerStep
<1>2. IInv /\ [Next]_vars => [Ledger!Next]_<<{e \in Events : Touched(e)}, level, imports>>
  BY <1>1 DEF AppliedEvents
<1> QED
  BY <1>2, InitLedger, Invariance, PTL DEF Spec, ImplementsLedger, Ledger!Spec

-----------------------------------------------------------------------------
(* The daily chain of the fresh meat.                                       *)

ReadWeight(r) == r.read \subseteq Nat /\ OneAtMost(r.read)
ReadRow(S) == \E s \in S : S = {s} /\ s \in DayRow

(* What a request knows of its day, its row and what it has to do.          *)
RequestOK(r) ==
  /\ DOMAIN r = {"at", "day", "row", "kg", "todo", "read", "then"}
  /\ r.at \in {"idle", "load", "numbered", "edit", "delete", "night", "moving", "stale",
              "list", "days", "write"}
  /\ r.then \in {"end", "closing", "done"} /\ r.todo \subseteq Days
  /\ r.at # "idle" => r.day \in Days
  /\ r.at \in {"load", "numbered", "edit"} => r.kg \in Nat
  /\ r.at \in {"numbered", "edit", "delete"} => r.row \in Seqs
  /\ r.at \in {"edit", "delete"} => r.read # {} /\ ReadWeight(r)
  /\ r.at = "moving" => r.kg \in Int
  /\ r.at \in {"night", "moving", "stale", "list"} => r.then # "done"
  /\ r.at = "write" => r.todo # {} /\ ReadRow(r.read)

RequestsOK == thread = [w \in Threads |-> thread[w]] /\ \A w \in Threads : RequestOK(thread[w])

JobOK ==
  /\ DOMAIN job = {"at", "from", "pending", "day", "read"}
  /\ job.at \in {"off", "start", "read", "write"} /\ job.pending \in BOOLEAN
  /\ job.at = "off" => ~job.pending
  /\ job.at # "off" => job.from \in Days
  /\ job.at \in {"read", "write"} => job.day \in 1 .. LastDay + 1
  /\ job.at = "write" => job.day \in Days /\ ReadRow(job.read)

(* A request that has changed the facts, and will have the job repair what  *)
(* followed from them.                                                      *)
WillTrigger(r) ==
  \/ r.at \in {"night", "moving", "stale", "list"}
  \/ r.at \in {"days", "write"} /\ r.then # "done"

(* A round from the start of the chain is still to come, or was missed.     *)
RoundDue == dirty \/ job.at = "start" \/ job.pending \/ \E w \in Threads : WillTrigger(thread[w])

InWork(d) == job.at \in {"read", "write"} /\ job.day <= d

(* Otherwise a day is what the facts and the day before give, or the job    *)
(* has yet to come to it; and what the job is about to write is right.      *)
ChainHolds ==
  /\ \A d \in opening.day .. LastDay : snap[d] = {Compute(d)} \/ InWork(d)
  /\ job.at = "write" /\ job.day >= opening.day => job.read = {Compute(job.day)}

MeatInv ==
  /\ MeatTypes /\ RequestsOK /\ JobOK
  /\ CounterIsRows /\ NoLoadBeforeStart
  /\ RoundDue \/ ChainHolds
-----------------------------------------------------------------------------

LEMMA Constants ==
  /\ LastDay \in Nat /\ LastDay >= 1 /\ Days = 1 .. LastDay /\ Days \subseteq Nat
  /\ \A d \in Days : Net[d] \in Int
  /\ Seqs = 0 .. MaxSeq /\ IsFiniteSet(Seqs) /\ IsFiniteSet(Days)
<1>1. LastDay \in Nat /\ LastDay >= 1 /\ MaxSeq \in Nat
  BY MeatAssumption
<1>2. IsFiniteSet(0 .. MaxSeq) /\ IsFiniteSet(1 .. LastDay)
  BY <1>1, FS_Interval
<1>3. QED
  BY <1>1, <1>2, MeatAssumption DEF Days, Seqs

LEMMA FactsTyped == MeatTypes => FactTypes
BY DEF MeatTypes

LEMMA ClampIs ==
  /\ \A n \in Int : Clamp(n) \in Nat
  /\ \A n \in Nat : Clamp(n) = n
BY DEF Clamp

LEMMA WeightOfNone == SetSum({}) = 0
BY SumEmpty DEF SetSum

LEMMA WeightOfOne ==
  ASSUME NEW k \in Int
  PROVE  SetSum({k}) = k
<1> DEFINE f == [x \in {k} |-> x]
<1>1. IsFiniteSet({k}) /\ f[k] = k /\ (\A x \in {k} : f[x] \in Int) /\ {k} \ {k} = {}
  BY FS_Singleton
<1> HIDE DEF f
<1>2. SumFunctionOnSet(f, {k}) = f[k] + SumFunctionOnSet(f, {k} \ {k})
  BY <1>1, SumRemove
<1>3. SumFunctionOnSet(f, {k}) = k
  BY <1>1, <1>2, SumEmpty
<1>4. QED
  BY <1>3 DEF f, SetSum

LEMMA WeightInt ==
  ASSUME NEW S \in SUBSET Nat, OneAtMost(S)
  PROVE  SetSum(S) \in Nat
<1>1. CASE S = {}
  BY <1>1, WeightOfNone
<1>2. CASE \E x \in S : S = {x}
  <2>1. PICK x \in S : S = {x}
    BY <1>2
  <2>2. x \in Int /\ x \in Nat
    OBVIOUS
  <2>3. SetSum({x}) = x
    BY <2>2, WeightOfOne
  <2>4. QED
    BY <2>1, <2>2, <2>3
<1>3. QED
  BY <1>1, <1>2 DEF OneAtMost

LEMMA LoadInt ==
  ASSUME FactTypes
  PROVE  /\ \A d \in Days : LoadOf(d) \in Nat
         /\ \A d \in Days : \A i \in Seqs : SetSum(loads[d][i]) \in Nat
<1>1. ASSUME NEW d \in Days, NEW i \in Seqs PROVE SetSum(loads[d][i]) \in Nat
  <2>1. loads[d][i] \in SUBSET Nat /\ OneAtMost(loads[d][i])
    BY DEF MeatTypes, FactTypes
  <2>2. QED
    BY <2>1, WeightInt
<1>2. ASSUME NEW d \in Days PROVE LoadOf(d) \in Nat
  <2> DEFINE f == [i \in Seqs |-> SetSum(loads[d][i])]
  <2>1. \A i \in Seqs : f[i] \in Nat
    BY <1>1
  <2> HIDE DEF f
  <2>2. SumFunctionOnSet(f, Seqs) \in Nat
    BY <2>1, Constants, SumNat
  <2>3. QED
    BY <2>2 DEF f, LoadOf
<1>3. QED
  BY <1>1, <1>2

-----------------------------------------------------------------------------
(* The chain.                                                               *)
LEMMA ColdInt ==
  ASSUME FactTypes
  PROVE  \A d \in 0 .. LastDay : Cold[d] \in Int
<1> DEFINE step == [x \in (0 + 1 .. LastDay) \X Int |->
      (IF x[1] = opening.day THEN opening.kg ELSE x[2]) + SetSum(counted[x[1]])
        - (IF x[1] \in taken /\ counted[x[1]] = {} THEN 0 ELSE LoadOf(x[1]))]
<1>1. \A d \in Days : SetSum(counted[d]) \in Int /\ LoadOf(d) \in Int
  <2>1. ASSUME NEW d \in Days PROVE SetSum(counted[d]) \in Int
    <3>1. counted[d] \in SUBSET Nat /\ OneAtMost(counted[d])
      BY DEF MeatTypes, FactTypes
    <3>2. QED
      BY <3>1, WeightInt
  <2>2. QED
    BY <2>1, LoadInt
<1>2. opening.kg \in Int /\ LastDay \in Nat /\ Days = 1 .. LastDay
  BY Constants DEF MeatTypes, FactTypes
<1>3. step \in [(0 + 1 .. LastDay) \X Int -> Int]
  <2>1. ASSUME NEW x \in (0 + 1 .. LastDay) \X Int
        PROVE  (IF x[1] = opening.day THEN opening.kg ELSE x[2]) + SetSum(counted[x[1]])
                 - (IF x[1] \in taken /\ counted[x[1]] = {} THEN 0 ELSE LoadOf(x[1])) \in Int
    <3>1. x[1] \in Days /\ x[2] \in Int
      BY <1>2
    <3>2. SetSum(counted[x[1]]) \in Int /\ LoadOf(x[1]) \in Int
      BY <1>1, <3>1
    <3>3. QED
      BY <1>2, <3>1, <3>2
  <2>2. QED
    BY <2>1
<1>4. \E f \in [0 .. LastDay -> Int] : Follows(f, 0, LastDay, 0, step)
  <2>1. 0 \in Nat /\ 0 \in Int /\ LastDay \in Nat /\ 0 <= LastDay
    BY <1>2
  <2> HIDE DEF step
  <2>2. QED
    BY <1>3, <2>1, Recursion
<1>5. PICK f \in [0 .. LastDay -> Int] :
        f[0] = 0 /\ \A d \in 0 + 1 .. LastDay : f[d] = step[<<d, f[d - 1]>>]
  BY <1>4 DEF Follows
<1> DEFINE Is(cold) == cold = [d \in 0 .. LastDay |->
      IF d = 0 THEN 0
      ELSE (IF d = opening.day THEN opening.kg ELSE cold[d - 1])
           + SetSum(counted[d])
           - (IF d \in taken /\ counted[d] = {} THEN 0 ELSE LoadOf(d))]
<1>6. Is(f)
  <2>1. ASSUME NEW d \in 0 + 1 .. LastDay
        PROVE  f[d] = (IF d = opening.day THEN opening.kg ELSE f[d - 1])
                 + SetSum(counted[d]) - (IF d \in taken /\ counted[d] = {} THEN 0 ELSE LoadOf(d))
    <3>1. f[d - 1] \in Int
      BY <1>2
    <3>2. <<d, f[d - 1]>> \in (0 + 1 .. LastDay) \X Int
      BY <3>1
    <3>3. QED
      BY <1>5, <3>2
  <2>2. \A d \in 0 .. LastDay : d # 0 => d \in 0 + 1 .. LastDay
    BY <1>2
  <2>3. QED
    BY <1>5, <2>1, <2>2
<1>7. Is(Cold)
  <2>1. Cold = CHOOSE cold : Is(cold)
    BY DEF Cold
  <2> HIDE DEF Is
  <2>2. QED
    BY <1>6, <2>1
<1>8. ASSUME NEW d \in 0 .. LastDay PROVE Cold[d] \in Int
  <2> DEFINE S == {n \in Nat : n <= LastDay => Cold[n] \in Int}
  <2>1. 0 \in S
    BY <1>7
  <2>2. ASSUME NEW n \in S PROVE n + 1 \in S
    <3>1. CASE n + 1 <= LastDay
      <4>1. n \in Nat /\ n + 1 \in Days /\ n + 1 \in 0 .. LastDay /\ n + 1 # 0 /\ (n + 1) - 1 = n
        BY <1>2, <3>1
      <4>2. Cold[n] \in Int
        BY <1>2, <3>1
      <4>3. Cold[n + 1] = (IF n + 1 = opening.day THEN opening.kg ELSE Cold[(n + 1) - 1])
               + SetSum(counted[n + 1])
               - (IF n + 1 \in taken /\ counted[n + 1] = {} THEN 0 ELSE LoadOf(n + 1))
        BY <1>7, <4>1
      <4>4. PICK before \in Int, back \in Int, gone \in Int : Cold[n + 1] = before + back - gone
        <5>1. (IF n + 1 = opening.day THEN opening.kg ELSE Cold[(n + 1) - 1]) \in Int
          BY <1>2, <4>1, <4>2
        <5>2. SetSum(counted[n + 1]) \in Int
          BY <1>1, <4>1
        <5>3. (IF n + 1 \in taken /\ counted[n + 1] = {} THEN 0 ELSE LoadOf(n + 1)) \in Int
          BY <1>1, <4>1
        <5>4. QED
          BY <4>3, <5>1, <5>2, <5>3, Zenon
      <4>5. Cold[n + 1] \in Int
        BY <4>4
      <4>6. QED
        BY <4>1, <4>5
    <3>2. CASE ~(n + 1 <= LastDay)
      BY <3>2
    <3>3. QED
      BY <3>1, <3>2
  <2>3. S = Nat
    <3> HIDE DEF S
    <3>1. S \in SUBSET Nat
      BY DEF S
    <3>2. QED
      BY <2>1, <2>2, <3>1, SetInduction
  <2>4. QED
    BY <1>2, <2>3
<1>9. QED
  BY <1>8

LEMMA ClosingNat ==
  ASSUME FactTypes
  PROVE  \A d \in Days : \A open \in Nat : ClosingOf(d, open) \in Nat
<1>1. ASSUME NEW d \in Days, NEW open \in Nat PROVE ClosingOf(d, open) \in Nat
  <2>1. Cold[d] \in Int /\ Net[d] \in Int
    BY ColdInt, Constants
  <2>2. (IF d \in taken THEN Cold[d] ELSE open + Net[d]) \in Int
    BY <2>1
  <2>3. QED
    BY <2>2, ClampIs DEF ClosingOf
<1>2. QED
  BY <1>1

LEMMA OpeningNat ==
  ASSUME MeatTypes
  PROVE  \A d \in Days : OpeningOf(d) \in Nat
<1>1. ASSUME NEW d \in Days PROVE OpeningOf(d) \in Nat
  <2>1. opening.kg \in Int
    BY DEF MeatTypes, FactTypes
  <2>2. d - 1 \in 0 .. LastDay /\ (d > 1 => d - 1 \in Days)
    BY Constants
  <2>3. Cold[d - 1] \in Int
    BY <2>2, ColdInt, FactsTyped
  <2>4. ASSUME d > 1, snap[d - 1] # {} PROVE (CHOOSE s \in snap[d - 1] : TRUE).closing \in Int
    <3>1. snap[d - 1] \in SUBSET DayRow
      BY <2>2, <2>4 DEF MeatTypes, FactTypes
    <3>2. PICK s : s = (CHOOSE x \in snap[d - 1] : TRUE)
      OBVIOUS
    <3>3. s \in snap[d - 1]
      BY <2>4, <3>2
    <3>4. s.closing \in Int
      BY <3>1, <3>3 DEF DayRow
    <3>5. QED
      BY <3>2, <3>4
  <2>5. (IF d = opening.day THEN opening.kg
         ELSE IF d > 1 /\ snap[d - 1] # {} THEN (CHOOSE s \in snap[d - 1] : TRUE).closing
         ELSE Cold[d - 1]) \in Int
    BY <2>1, <2>3, <2>4
  <2>6. QED
    BY <2>5, ClampIs DEF OpeningOf
<1>2. QED
  BY <1>1

LEMMA ComputeTyped ==
  ASSUME MeatTypes
  PROVE  \A d \in Days : Compute(d) \in DayRow
BY ClosingNat, OpeningNat, FactsTyped DEF Compute, DayRow

LEMMA ColdSame == UNCHANGED facts => Cold' = Cold
<1> SUFFICES ASSUME opening' = opening, loads' = loads, taken' = taken, counted' = counted
             PROVE  Cold' = Cold
  BY DEF facts
<1>1. QED
  BY SMT DEF Cold, LoadOf

(* A day's row rests on the facts and, but on the first day, on the row of  *)
(* the day before.                                                          *)
LEMMA ComputeSame ==
  ASSUME UNCHANGED facts, NEW d \in Days, d = opening.day \/ d = 1 \/ snap'[d - 1] = snap[d - 1]
  PROVE  Compute(d)' = Compute(d)
<1>1. Cold' = Cold /\ opening' = opening /\ taken' = taken
  BY ColdSame DEF facts
<1>2. OpeningOf(d)' = OpeningOf(d)
  <2>1. CASE d = opening.day
    BY <1>1, <2>1 DEF OpeningOf
  <2>2. CASE d # opening.day /\ d = 1
    BY <1>1, <2>2 DEF OpeningOf
  <2>3. CASE d # opening.day /\ snap'[d - 1] = snap[d - 1]
    BY <1>1, <2>3 DEF OpeningOf
  <2>4. QED
    BY <2>1, <2>2, <2>3
<1>3. ClosingOf(d, OpeningOf(d))' = ClosingOf(d, OpeningOf(d))
  BY <1>1, <1>2 DEF ClosingOf
<1>4. QED
  BY <1>2, <1>3 DEF Compute

LEMMA ChainIs ==
  ASSUME FactTypes
  PROVE  /\ Chain[opening.day] = [opening |-> opening.kg, closing |-> ClosingOf(opening.day, opening.kg)]
         /\ \A d \in opening.day + 1 .. LastDay :
              Chain[d] = [opening |-> Chain[d - 1].closing, closing |-> ClosingOf(d, Chain[d - 1].closing)]
         /\ \A d \in opening.day .. LastDay : Chain[d] \in DayRow
<1> DEFINE a == opening.day
<1> DEFINE first == [opening |-> opening.kg, closing |-> ClosingOf(a, opening.kg)]
<1> DEFINE step == [x \in (a + 1 .. LastDay) \X DayRow |->
      [opening |-> x[2].closing, closing |-> ClosingOf(x[1], x[2].closing)]]
<1>1. a \in Nat /\ a \in Days /\ LastDay \in Nat /\ a <= LastDay /\ Days = 1 .. LastDay /\ opening.kg \in Nat
  BY Constants DEF MeatTypes, FactTypes
<1>2. first \in DayRow
  BY <1>1, ClosingNat DEF DayRow
<1>3. step \in [(a + 1 .. LastDay) \X DayRow -> DayRow]
  <2>1. ASSUME NEW x \in (a + 1 .. LastDay) \X DayRow
        PROVE  [opening |-> x[2].closing, closing |-> ClosingOf(x[1], x[2].closing)] \in DayRow
    <3>1. x[1] \in Days /\ x[2].closing \in Nat
      BY <1>1 DEF DayRow
    <3>2. ClosingOf(x[1], x[2].closing) \in Nat
      BY <3>1, ClosingNat
    <3>3. QED
      BY <3>1, <3>2 DEF DayRow
  <2>2. QED
    BY <2>1
<1>4. \E f \in [a .. LastDay -> DayRow] : Follows(f, a, LastDay, first, step)
  <2> HIDE DEF first, step, a
  <2>1. QED
    BY <1>1, <1>2, <1>3, Recursion
<1>5. PICK f \in [a .. LastDay -> DayRow] : Follows(f, a, LastDay, first, step)
  BY <1>4
<1> DEFINE Value(d, row) ==
      LET open == IF d = opening.day THEN opening.kg ELSE row[d - 1].closing
      IN [opening |-> open, closing |-> ClosingOf(d, open)]
<1> DEFINE Is(row) == row = [d \in opening.day .. LastDay |-> Value(d, row)]
<1>6. Is(f)
  <2>1. ASSUME NEW d \in a + 1 .. LastDay PROVE f[d] = Value(d, f)
    <3>1. f[d - 1] \in DayRow /\ d # opening.day
      BY <1>1, <1>5
    <3>2. <<d, f[d - 1]>> \in (a + 1 .. LastDay) \X DayRow
      BY <3>1
    <3>3. f[d] = step[<<d, f[d - 1]>>]
      BY <1>5 DEF Follows
    <3>4. step[<<d, f[d - 1]>>] = [opening |-> f[d - 1].closing, closing |-> ClosingOf(d, f[d - 1].closing)]
      BY <3>2
    <3>5. QED
      BY <3>1, <3>3, <3>4
  <2>2. f[a] = Value(a, f)
    BY <1>5 DEF Follows
  <2>3. \A d \in a .. LastDay : d = a \/ d \in a + 1 .. LastDay
    BY <1>1
  <2> HIDE DEF Value
  <2>4. \A d \in a .. LastDay : f[d] = Value(d, f)
    BY <2>1, <2>2, <2>3
  <2>5. QED
    BY <1>5, <2>4
<1>7. Is(Chain)
  <2>1. Chain = CHOOSE row : Is(row)
    BY DEF Chain
  <2> HIDE DEF Is
  <2>2. QED
    BY <1>6, <2>1
<1>8. \A d \in a .. LastDay : Chain[d] = Value(d, Chain)
  <2> HIDE DEF Value
  <2>1. QED
    BY <1>7
<1>9. Chain[a] = first
  BY <1>1, <1>8
<1>10. \A d \in a + 1 .. LastDay :
         Chain[d] = [opening |-> Chain[d - 1].closing, closing |-> ClosingOf(d, Chain[d - 1].closing)]
  <2>1. \A d \in a + 1 .. LastDay : d \in a .. LastDay /\ d # opening.day
    BY <1>1
  <2>2. QED
    BY <1>8, <2>1
<1>11. \A d \in a .. LastDay : Chain[d] \in DayRow
  <2> DEFINE S == {n \in Nat : a + n <= LastDay => Chain[a + n] \in DayRow}
  <2>1. 0 \in S
    <3>1. a + 0 = a
      BY <1>1
    <3>2. Chain[a + 0] \in DayRow
      BY <1>2, <1>9, <3>1
    <3>3. QED
      BY <3>2
  <2>2. ASSUME NEW n \in S PROVE n + 1 \in S
    <3>1. CASE a + (n + 1) <= LastDay
      <4> DEFINE d == a + (n + 1)
      <4>1. d \in a + 1 .. LastDay /\ d - 1 = a + n /\ a + n <= LastDay /\ d \in Days
        BY <1>1, <3>1
      <4>2. Chain[d - 1] \in DayRow
        BY <4>1
      <4>3. Chain[d - 1].closing \in Nat
        BY <4>2 DEF DayRow
      <4> HIDE DEF d
      <4>4. Chain[d] = [opening |-> Chain[d - 1].closing, closing |-> ClosingOf(d, Chain[d - 1].closing)]
        BY <1>10, <4>1
      <4>5. Chain[d] \in DayRow
        BY <4>1, <4>3, <4>4, ClosingNat DEF DayRow
      <4>6. QED
        BY <4>5 DEF d
    <3>2. CASE ~(a + (n + 1) <= LastDay)
      BY <3>2
    <3>3. QED
      BY <3>1, <3>2
  <2>3. S = Nat
    <3> HIDE DEF S
    <3>1. S \in SUBSET Nat
      BY DEF S
    <3>2. QED
      BY <2>1, <2>2, <3>1, SetInduction
  <2>4. ASSUME NEW d \in a .. LastDay PROVE Chain[d] \in DayRow
    <3>1. d - a \in Nat /\ a + (d - a) = d /\ d <= LastDay
      BY <1>1
    <3>2. d - a \in S
      <4> HIDE DEF S
      <4>1. QED
        BY <2>3, <3>1
    <3>3. QED
      BY <3>1, <3>2
  <2>5. QED
    BY <2>4
<1>12. QED
  BY <1>9, <1>10, <1>11

(* When every row of the days from the start on follows from the one before, *)
(* the rows are the chain; and the other way round.                         *)
LEMMA RowsAreChain ==
  ASSUME FactTypes
  PROVE  (\A d \in opening.day .. LastDay : snap[d] = {Compute(d)})
         <=> (\A d \in opening.day .. LastDay : snap[d] = {Chain[d]})
<1> DEFINE a == opening.day
<1>1. a \in Nat /\ a \in Days /\ LastDay \in Nat /\ a <= LastDay /\ Days = 1 .. LastDay /\ opening.kg \in Nat
  BY Constants DEF MeatTypes, FactTypes
<1>2. Compute(a) = Chain[a]
  <2>1. OpeningOf(a) = opening.kg
    BY <1>1, ClampIs DEF OpeningOf
  <2>2. QED
    BY <2>1, ChainIs DEF Compute
<1>3. ASSUME NEW d \in a + 1 .. LastDay, snap[d - 1] = {Chain[d - 1]} PROVE Compute(d) = Chain[d]
  <2>1. d - 1 \in a .. LastDay /\ d > 1 /\ d # opening.day
    BY <1>1
  <2>2. Chain[d - 1] \in DayRow
    BY <2>1, ChainIs
  <2>3. Chain[d - 1].closing \in Nat
    BY <2>2 DEF DayRow
  <2>4. (CHOOSE s \in snap[d - 1] : TRUE) = Chain[d - 1]
    BY <1>3
  <2>5. OpeningOf(d) = Clamp(Chain[d - 1].closing)
    BY <1>3, <2>1, <2>4 DEF OpeningOf
  <2>6. OpeningOf(d) = Chain[d - 1].closing
    BY <2>3, <2>5, ClampIs
  <2>7. QED
    BY <2>6, ChainIs DEF Compute
<1>4. ASSUME \A d \in a .. LastDay : snap[d] = {Compute(d)}
      PROVE  \A d \in a .. LastDay : snap[d] = {Chain[d]}
  <2> DEFINE S == {n \in Nat : a + n <= LastDay => snap[a + n] = {Chain[a + n]}}
  <2>1. 0 \in S
    <3>1. a + 0 = a /\ a \in a .. LastDay
      BY <1>1
    <3>2. snap[a + 0] = {Chain[a + 0]}
      BY <1>2, <1>4, <3>1
    <3>3. QED
      BY <3>2
  <2>2. ASSUME NEW n \in S PROVE n + 1 \in S
    <3>1. CASE a + (n + 1) <= LastDay
      <4> DEFINE d == a + (n + 1)
      <4>1. d \in a + 1 .. LastDay /\ d \in a .. LastDay /\ d - 1 = a + n /\ a + n <= LastDay
        BY <1>1, <3>1
      <4>2. snap[d - 1] = {Chain[d - 1]}
        BY <4>1
      <4> HIDE DEF d
      <4>3. snap[d] = {Chain[d]}
        BY <1>3, <1>4, <4>1, <4>2
      <4>4. QED
        BY <4>3 DEF d
    <3>2. CASE ~(a + (n + 1) <= LastDay)
      BY <3>2
    <3>3. QED
      BY <3>1, <3>2
  <2>3. S = Nat
    <3> HIDE DEF S
    <3>1. S \in SUBSET Nat
      BY DEF S
    <3>2. QED
      BY <2>1, <2>2, <3>1, SetInduction
  <2>4. ASSUME NEW d \in a .. LastDay PROVE snap[d] = {Chain[d]}
    <3>1. d - a \in Nat /\ a + (d - a) = d /\ d <= LastDay
      BY <1>1
    <3>2. d - a \in S
      <4> HIDE DEF S
      <4>1. QED
        BY <2>3, <3>1
    <3>3. QED
      BY <3>1, <3>2
  <2>5. QED
    BY <2>4
<1>5. ASSUME \A d \in a .. LastDay : snap[d] = {Chain[d]}, NEW d \in a .. LastDay
      PROVE  snap[d] = {Compute(d)}
  <2>1. CASE d = a
    BY <1>2, <1>5, <2>1
  <2>2. CASE d # a
    <3>1. d \in a + 1 .. LastDay /\ d - 1 \in a .. LastDay
      BY <1>1, <2>2
    <3>2. QED
      BY <1>3, <1>5, <3>1
  <2>3. QED
    BY <2>1, <2>2
<1>6. QED
  BY <1>4, <1>5

-----------------------------------------------------------------------------
(* What a step leaves alone.                                                *)
LEMMA RequestMoves ==
  ASSUME RequestsOK, NEW w \in Threads, NEW r, Go(w, r), RequestOK(r)
  PROVE  /\ RequestsOK'
         /\ thread'[w] = r /\ \A v \in Threads \ {w} : thread'[v] = thread[v]
<1>1. thread' = [thread EXCEPT ![w] = r] /\ thread = [v \in Threads |-> thread[v]]
  BY DEF Go, RequestsOK
<1>2. thread' = [v \in Threads |-> IF v = w THEN r ELSE thread[v]]
  BY <1>1
<1>3. thread'[w] = r /\ \A v \in Threads \ {w} : thread'[v] = thread[v]
  BY <1>2
<1>4. thread' = [v \in Threads |-> thread'[v]]
  BY <1>2
<1>5. \A v \in Threads : RequestOK(thread'[v])
  BY <1>3 DEF RequestsOK
<1>6. QED
  BY <1>3, <1>4, <1>5 DEF RequestsOK

LEMMA RowsSame ==
  ASSUME loads' = loads
  PROVE  LoadUpTo(LastDay)' = LoadUpTo(LastDay)
BY SMT DEF LoadUpTo, LoadOf

Books == CounterIsRows /\ NoLoadBeforeStart

LEMMA BooksKept ==
  ASSUME Books, opening' = opening, loads' = loads, raced' = raced,
         counter' + carried' = counter + carried
  PROVE  Books'
<1>1. LoadUpTo(LastDay)' = LoadUpTo(LastDay)
  BY RowsSame
<1>2. CounterIsRows'
  BY <1>1 DEF Books, CounterIsRows
<1>3. NoLoadBeforeStart'
  BY DEF Books, NoLoadBeforeStart, HasLoad
<1>4. QED
  BY <1>2, <1>3 DEF Books

LEMMA JobKept == ASSUME JobOK, job' = job PROVE JobOK'
BY DEF JobOK

LEMMA ChainKept ==
  ASSUME MeatTypes, ChainHolds, JobOK, UNCHANGED facts, snap' = snap, job' = job
  PROVE  ChainHolds'
<1>1. opening' = opening /\ opening.day \in Days
  BY DEF facts, MeatTypes, FactTypes
<1>2. \A d \in Days : Compute(d)' = Compute(d)
  BY ComputeSame
<1>3. \A d \in opening.day .. LastDay : d \in Days
  BY <1>1, Constants
<1>4. ASSUME NEW d \in opening.day .. LastDay PROVE snap'[d] = {Compute(d)'} \/ InWork(d)'
  BY <1>2, <1>3 DEF ChainHolds, InWork
<1>5. (job.at = "write" /\ job.day >= opening.day => job.read = {Compute(job.day)})'
  <2>1. SUFFICES ASSUME job'.at = "write", job'.day >= opening'.day
                 PROVE  (job.read = {Compute(job.day)})'
    OBVIOUS
  <2>2. PICK n : n = job.day
    OBVIOUS
  <2>3. n \in Days /\ job.read = {Compute(n)}
    BY <1>1, <2>1, <2>2 DEF JobOK, ChainHolds
  <2>4. job'.read = {Compute(n)'} /\ n = job'.day
    BY <1>2, <2>2, <2>3
  <2>5. QED
    BY <2>4 DEF Compute, OpeningOf, ClosingOf
<1>6. (\A d \in opening.day .. LastDay : snap[d] = {Compute(d)} \/ InWork(d))'
  BY <1>1, <1>4
<1>7. QED
  BY <1>5, <1>6 DEF ChainHolds

LEMMA DueKept ==
  ASSUME RoundDue, NEW w \in Threads, dirty' = dirty, job' = job,
         \A v \in Threads \ {w} : thread'[v] = thread[v],
         WillTrigger(thread[w]) => WillTrigger(thread'[w])
  PROVE  RoundDue'
<1>1. CASE dirty \/ job.at = "start" \/ job.pending
  BY <1>1 DEF RoundDue
<1>2. CASE \E v \in Threads : WillTrigger(thread[v])
  <2>1. PICK v \in Threads : WillTrigger(thread[v])
    BY <1>2
  <2>2. WillTrigger(thread'[v])
    BY <2>1
  <2>3. WillTrigger(thread[v])'
    BY <2>2 DEF WillTrigger
  <2>4. QED
    BY <2>3 DEF RoundDue
<1>3. QED
  BY <1>1, <1>2 DEF RoundDue

LEMMA TriggersDue ==
  ASSUME NEW w \in Threads, WillTrigger(thread'[w])
  PROVE  RoundDue'
<1>1. WillTrigger(thread[w])'
  BY DEF WillTrigger
<1>2. QED
  BY <1>1 DEF RoundDue

LEMMA TypesKept ==
  ASSUME MeatTypes, UNCHANGED <<facts, snap, counter, carried, raced>>,
         dirty' \in BOOLEAN, requests' \in 0 .. MaxRequests, failures' \in 0 .. MaxFailures
  PROVE  MeatTypes'
BY DEF MeatTypes, FactTypes, facts

(* A request goes on, and touches nothing.                                  *)
LEMMA MoveOn ==
  ASSUME MeatInv, NEW w \in Threads, NEW r, Go(w, r), RequestOK(r),
         UNCHANGED <<facts, snap, counter, job, history, failures>>,
         requests' \in 0 .. MaxRequests, WillTrigger(thread[w]) => WillTrigger(r)
  PROVE  MeatInv'
<1>1. MeatTypes /\ RequestsOK /\ JobOK /\ Books
  BY DEF MeatInv, Books
<1>2. /\ facts' = facts /\ snap' = snap /\ counter' = counter /\ job' = job
      /\ carried' = carried /\ raced' = raced /\ dirty' = dirty /\ failures' = failures
  BY DEF history
<1>3. opening' = opening /\ loads' = loads /\ UNCHANGED <<facts, snap, counter, carried, raced>>
  BY <1>2 DEF facts
<1>4. MeatTypes'
  <2>1. dirty' \in BOOLEAN /\ failures' \in 0 .. MaxFailures
    BY <1>1, <1>2 DEF MeatTypes, FactTypes
  <2>2. QED
    BY <1>1, <1>3, <2>1, TypesKept
<1>5. RequestsOK' /\ thread'[w] = r /\ \A v \in Threads \ {w} : thread'[v] = thread[v]
  BY <1>1, RequestMoves
<1>6. JobOK'
  BY <1>1, <1>2, JobKept
<1>7. Books'
  BY <1>1, <1>2, <1>3, BooksKept
<1>8. RoundDue' \/ ChainHolds'
  <2>1. CASE RoundDue
    BY <1>2, <1>5, <2>1, DueKept
  <2>2. CASE ChainHolds
    BY <1>1, <1>2, <2>2, ChainKept
  <2>3. QED
    BY <2>1, <2>2 DEF MeatInv
<1>9. QED
  BY <1>4, <1>5, <1>6, <1>7, <1>8 DEF MeatInv, Books

LEMMA IdleIs ==
  /\ DOMAIN Idle = {"at", "day", "row", "kg", "todo", "read", "then"}
  /\ Idle.at = "idle" /\ Idle.day = 0 /\ Idle.row = 0 /\ Idle.kg = 0 /\ Idle.todo = {} /\ Idle.read = {}
  /\ Idle.then = "end"
BY DEF Idle

LEMMA RequestsLess ==
  ASSUME NEW w \in Threads, Request(w), MeatTypes
  PROVE  requests' \in 0 .. MaxRequests /\ ~WillTrigger(thread[w])
<1>1. MaxRequests \in Nat
  BY MeatAssumption
<1>2. QED
  BY <1>1 DEF Request, MeatTypes, FactTypes, WillTrigger, At

LEMMA InvParts == MeatInv => MeatTypes /\ RequestsOK /\ JobOK /\ Books
BY DEF MeatInv, Books

LEMMA LookLoadStep ==
  ASSUME MeatInv, NEW w \in Threads, NEW d \in Days, NEW k \in Kgs, LookLoad(w, d, k)
  PROVE  MeatInv'
<1> DEFINE r == [Idle EXCEPT !.at = "load", !.day = d, !.kg = k]
<1>1. k \in Nat
  BY MeatAssumption
<1>2. RequestOK(r) /\ r.at = "load"
  BY <1>1, IdleIs DEF RequestOK
<1>3. Go(w, r) /\ Request(w) /\ UNCHANGED <<facts, snap, counter, job, history, failures>>
  BY DEF LookLoad
<1>4. requests' \in 0 .. MaxRequests /\ ~WillTrigger(thread[w])
  BY <1>3, RequestsLess, InvParts
<1> HIDE DEF r
<1>5. QED
  BY <1>2, <1>3, <1>4, MoveOn

LEMMA LookRowStep ==
  ASSUME MeatInv, NEW w \in Threads, NEW d \in Days, NEW k \in Kgs, NEW i \in Seqs,
         NEW op \in {"edit", "delete"}, LookRow(w, op, d, i, k)
  PROVE  MeatInv'
<1> DEFINE r == [Idle EXCEPT !.at = op, !.day = d, !.row = i, !.kg = k, !.read = loads[d][i]]
<1>1. k \in Nat
  BY MeatAssumption
<1>2. Go(w, r) /\ Request(w) /\ UNCHANGED <<facts, snap, counter, job, history, failures>> /\ loads[d][i] # {}
  BY DEF LookRow
<1>3. RequestOK(r)
  <2>1. loads[d][i] \in SUBSET Nat /\ OneAtMost(loads[d][i])
    BY InvParts DEF MeatTypes, FactTypes
  <2>2. QED
    BY <1>1, <1>2, <2>1, IdleIs DEF RequestOK, ReadWeight
<1>4. requests' \in 0 .. MaxRequests /\ ~WillTrigger(thread[w])
  BY <1>2, RequestsLess, InvParts
<1> HIDE DEF r
<1>5. QED
  BY <1>2, <1>3, <1>4, MoveOn

LEMMA LeastOf ==
  ASSUME NEW S \in SUBSET Nat, S # {}
  PROVE  Min(S) \in S /\ \A x \in S : Min(S) <= x
<1> DEFINE R == OpToRel(<, Nat)
<1>1. IsWellFoundedOn(R, Nat)
  BY NatLessThanWellFounded, Zenon
<1>2. \A x, y \in Nat : y < x => <<y, x>> \in R
  BY DEF OpToRel
<1> HIDE DEF R
<1>3. PICK x \in S : \A y \in S : ~(<<y, x>> \in R)
  BY <1>1, WFMin
<1>4. ASSUME NEW y \in S PROVE x <= y
  <2>1. x \in Nat /\ y \in Nat
    OBVIOUS
  <2>2. ~(y < x)
    BY <1>2, <1>3, <2>1
  <2>3. QED
    BY <2>1, <2>2
<1>5. QED
  BY <1>4 DEF Min

LEMMA LookMaterializeStep ==
  ASSUME MeatInv, NEW w \in Threads, NEW d \in Days, LookMaterialize(w, d)
  PROVE  MeatInv'
<1> DEFINE todo == Min({d, opening.day}) .. LastDay
<1> DEFINE r == [Idle EXCEPT !.at = "days", !.day = d, !.then = "done", !.todo = todo]
<1>1. todo \subseteq Days
  <2>1. d \in Nat /\ opening.day \in Nat /\ d \in Days /\ opening.day \in Days
    BY Constants, InvParts DEF MeatTypes, FactTypes
  <2>2. Min({d, opening.day}) \in {d, opening.day}
    BY <2>1, LeastOf
  <2>3. QED
    BY <2>1, <2>2, Constants
<1>2. Go(w, r) /\ Request(w) /\ UNCHANGED <<facts, snap, counter, job, history, failures>>
  BY DEF LookMaterialize
<1> HIDE DEF todo
<1>3. RequestOK(r)
  BY <1>1, IdleIs DEF RequestOK
<1>4. requests' \in 0 .. MaxRequests /\ ~WillTrigger(thread[w])
  BY <1>2, RequestsLess, InvParts
<1> HIDE DEF r
<1>5. QED
  BY <1>2, <1>3, <1>4, MoveOn

LEMMA Standing ==
  ASSUME MeatInv, NEW w \in Threads
  PROVE  RequestOK(thread[w]) /\ requests \in 0 .. MaxRequests /\ failures \in 0 .. MaxFailures
BY DEF MeatInv, RequestsOK, MeatTypes, FactTypes

LEMMA NumberStep ==
  ASSUME MeatInv, NEW w \in Threads, Number(w)
  PROVE  MeatInv'
<1>1. PICK q : q = thread[w]
  OBVIOUS
<1> DEFINE n == NextSeq(q.day)
<1> DEFINE r == [q EXCEPT !.at = "numbered", !.row = n]
<1>2. /\ q.at = "load" /\ n \in Seqs /\ Go(w, r)
      /\ UNCHANGED <<facts, snap, counter, job, history, failures>> /\ requests' = requests
  BY <1>1 DEF Number, At
<1>3. RequestOK(q) /\ requests \in 0 .. MaxRequests
  BY <1>1, Standing
<1> HIDE DEF n
<1>4. RequestOK(r)
  BY <1>2, <1>3 DEF RequestOK
<1>5. ~WillTrigger(thread[w])
  BY <1>1, <1>2 DEF WillTrigger
<1> HIDE DEF r
<1>6. QED
  BY <1>2, <1>3, <1>4, <1>5, MoveOn

LEMMA ReadCounterStep ==
  ASSUME MeatInv, NEW w \in Threads, ReadCounter(w)
  PROVE  MeatInv'
<1>1. PICK q : q = thread[w]
  OBVIOUS
<1> DEFINE r == [q EXCEPT !.at = "moving", !.kg = counter]
<1>2. /\ q.at = "night" /\ Go(w, r)
      /\ UNCHANGED <<facts, snap, counter, job, history, failures>> /\ requests' = requests
  BY <1>1 DEF ReadCounter, At
<1>3. RequestOK(q) /\ requests \in 0 .. MaxRequests /\ counter \in Int
  BY <1>1, Standing, InvParts DEF MeatTypes, FactTypes
<1>4. RequestOK(r) /\ WillTrigger(r)
  BY <1>2, <1>3 DEF RequestOK, WillTrigger
<1> HIDE DEF r
<1>5. QED
  BY <1>2, <1>3, <1>4, MoveOn

LEMMA ListDaysStep ==
  ASSUME MeatInv, NEW w \in Threads, ListDays(w)
  PROVE  MeatInv'
<1>1. PICK q : q = thread[w]
  OBVIOUS
<1> DEFINE todo == {d \in taken : d >= q.day}
<1> DEFINE r == [q EXCEPT !.at = "days", !.todo = todo]
<1>2. /\ q.at = "list" /\ Go(w, r)
      /\ UNCHANGED <<facts, snap, counter, job, history, failures>> /\ requests' = requests
  BY <1>1 DEF ListDays, At
<1>3. RequestOK(q) /\ requests \in 0 .. MaxRequests /\ todo \subseteq Days
  BY <1>1, Standing, InvParts DEF MeatTypes, FactTypes
<1> HIDE DEF todo
<1>4. RequestOK(r) /\ WillTrigger(r)
  BY <1>2, <1>3 DEF RequestOK, WillTrigger
<1> HIDE DEF r
<1>5. QED
  BY <1>2, <1>3, <1>4, MoveOn

LEMMA ReadDayStep ==
  ASSUME MeatInv, NEW w \in Threads, ReadDay(w)
  PROVE  MeatInv'
<1>1. PICK q : q = thread[w]
  OBVIOUS
<1> DEFINE fresh == {Compute(Min(q.todo))}
<1> DEFINE r == [q EXCEPT !.at = "write", !.read = fresh]
<1>2. /\ q.at = "days" /\ q.todo # {} /\ Go(w, r)
      /\ UNCHANGED <<facts, snap, counter, job, history, failures>> /\ requests' = requests
  BY <1>1 DEF ReadDay, At
<1>3. RequestOK(q) /\ requests \in 0 .. MaxRequests
  BY <1>1, Standing
<1>4. ReadRow(fresh)
  <2>1. q.todo \subseteq Days /\ Days \subseteq Nat
    BY <1>3, Constants DEF RequestOK
  <2>2. Min(q.todo) \in Days
    BY <1>2, <2>1, LeastOf
  <2>3. Compute(Min(q.todo)) \in DayRow
    BY <2>2, ComputeTyped, InvParts
  <2>4. QED
    BY <2>3 DEF ReadRow
<1> HIDE DEF fresh
<1>5. RequestOK(r)
  BY <1>2, <1>3, <1>4 DEF RequestOK
<1>6. WillTrigger(thread[w]) => WillTrigger(r)
  BY <1>1, <1>2, <1>3 DEF RequestOK, WillTrigger
<1> HIDE DEF r
<1>7. QED
  BY <1>2, <1>3, <1>5, <1>6, MoveOn

LEMMA FinishStep ==
  ASSUME MeatInv, NEW w \in Threads, Finish(w)
  PROVE  MeatInv'
<1>1. /\ Go(w, Idle) /\ ~WillTrigger(thread[w])
      /\ UNCHANGED <<facts, snap, counter, job, history, failures>> /\ requests' = requests
  BY DEF Finish, At, WillTrigger
<1>2. RequestOK(Idle) /\ requests \in 0 .. MaxRequests
  BY IdleIs, Standing DEF RequestOK
<1>3. QED
  BY <1>1, <1>2, MoveOn

-----------------------------------------------------------------------------
(* A request after which the job has to run: nothing is left to show but    *)
(* the types and the books.                                                 *)
LEMMA Triggers ==
  ASSUME MeatInv, NEW w \in Threads, NEW r, Go(w, r), RequestOK(r), WillTrigger(r),
         job' = job, MeatTypes', Books'
  PROVE  MeatInv'
<1>1. RequestsOK' /\ thread'[w] = r
  BY RequestMoves, InvParts
<1>2. JobOK'
  BY JobKept, InvParts
<1>3. RoundDue'
  BY <1>1, TriggersDue
<1>4. QED
  BY <1>1, <1>2, <1>3 DEF MeatInv, Books

LEMMA RecomputeIs ==
  ASSUME NEW d \in Days, NEW last \in {"end", "closing"}
  PROVE  RequestOK(Recompute(d, last)) /\ WillTrigger(Recompute(d, last))
BY IdleIs DEF Recompute, RequestOK, WillTrigger

(* One load changes.                                                        *)
LEMMA LoadChanges ==
  ASSUME MeatTypes, NEW d \in Days, NEW i \in Seqs, NEW S \in SUBSET Nat, OneAtMost(S),
         loads' = [loads EXCEPT ![d][i] = S]
  PROVE  /\ loads' \in [Days -> [Seqs -> SUBSET Nat]]
         /\ \A e \in Days : \A j \in Seqs : OneAtMost(loads'[e][j])
         /\ LoadUpTo(LastDay)' = LoadUpTo(LastDay) - SetSum(loads[d][i]) + SetSum(S)
         /\ LoadUpTo(LastDay) \in Int /\ SetSum(loads[d][i]) \in Nat /\ SetSum(S) \in Nat
<1>1. loads \in [Days -> [Seqs -> SUBSET Nat]]
  BY DEF MeatTypes, FactTypes
<1>2. loads' \in [Days -> [Seqs -> SUBSET Nat]]
  BY <1>1
<1>3. \A e \in Days : \A j \in Seqs : loads'[e][j] = IF e = d /\ j = i THEN S ELSE loads[e][j]
  BY <1>1
<1>4. \A e \in Days : \A j \in Seqs : OneAtMost(loads'[e][j])
  BY <1>3 DEF MeatTypes, FactTypes
<1>5. SetSum(S) \in Nat
  BY WeightInt
<1>6. \A e \in Days : \A j \in Seqs : SetSum(loads'[e][j]) \in Nat
  BY <1>3, <1>5, LoadInt, FactsTyped
<1> DEFINE f == [j \in Seqs |-> SetSum(loads[d][j])]
<1> DEFINE g == [j \in Seqs |-> SetSum(loads'[d][j])]
<1>7. SumFunctionOnSet(g, Seqs) = SumFunctionOnSet(f, Seqs) - f[i] + g[i]
  <2>1. \A j \in Seqs : f[j] \in Int /\ g[j] \in Int
    BY <1>6, LoadInt, FactsTyped
  <2>2. \A j \in Seqs \ {i} : g[j] = f[j]
    BY <1>3
  <2> HIDE DEF f, g
  <2>3. PICK p, q : p = f /\ q = g
    OBVIOUS
  <2>4. /\ IsFiniteSet(Seqs) /\ (\A j \in Seqs : p[j] \in Int /\ q[j] \in Int)
        /\ \A j \in Seqs \ {i} : q[j] = p[j]
    BY <2>1, <2>2, <2>3, Constants
  <2>5. SumFunctionOnSet(q, Seqs) = SumFunctionOnSet(p, Seqs) - p[i] + q[i]
    BY <2>4, SumChange
  <2>6. QED
    BY <2>3, <2>5
<1>8. f[i] = SetSum(loads[d][i]) /\ g[i] = SetSum(S)
  BY <1>3
<1>9. LoadOf(d)' = LoadOf(d) - SetSum(loads[d][i]) + SetSum(S)
  BY <1>7, <1>8 DEF LoadOf
<1>10. ASSUME NEW e \in Days, e # d PROVE LoadOf(e)' = LoadOf(e)
  <2>1. loads'[e] = loads[e]
    BY <1>1, <1>10
  <2>2. QED
    BY <2>1 DEF LoadOf
<1> DEFINE F == [e \in 1 .. LastDay |-> LoadOf(e)]
<1> DEFINE G == [e \in 1 .. LastDay |-> LoadOf(e)']
<1>11. Days = 1 .. LastDay /\ IsFiniteSet(Days)
  BY Constants
<1>12. \A e \in Days : F[e] \in Int /\ G[e] \in Int
  <2>1. \A e \in Days : LoadOf(e) \in Int
    BY LoadInt, FactsTyped
  <2>2. LoadOf(d)' \in Int
    <3>1. SetSum(loads[d][i]) \in Nat
      BY LoadInt, FactsTyped
    <3>2. QED
      BY <1>5, <1>9, <2>1, <3>1
  <2>3. \A e \in Days : LoadOf(e)' \in Int
    BY <1>10, <2>1, <2>2
  <2>4. QED
    BY <1>11, <2>1, <2>3
<1>13. \A e \in Days \ {d} : G[e] = F[e]
  BY <1>10, <1>11
<1>14. F[d] = LoadOf(d) /\ G[d] = LoadOf(d)'
  BY <1>11
<1>15. LoadUpTo(LastDay) = SumFunctionOnSet(F, Days) /\ LoadUpTo(LastDay)' = SumFunctionOnSet(G, Days)
  BY <1>11 DEF LoadUpTo
<1> HIDE DEF F, G, f, g
<1>16. SumFunctionOnSet(G, Days) = SumFunctionOnSet(F, Days) - F[d] + G[d]
  <2>1. PICK p, q : p = F /\ q = G
    OBVIOUS
  <2>2. /\ IsFiniteSet(Days) /\ \A e \in Days : p[e] \in Int /\ q[e] \in Int
        /\ \A e \in Days \ {d} : q[e] = p[e]
    BY <1>11, <1>12, <1>13, <2>1
  <2>3. SumFunctionOnSet(q, Days) = SumFunctionOnSet(p, Days) - p[d] + q[d]
    BY <2>2, SumChange
  <2>4. QED
    BY <2>1, <2>3
<1>17. SumFunctionOnSet(F, Days) \in Int
  BY <1>11, <1>12, SumInt
<1>18. LoadOf(d) \in Int /\ SetSum(loads[d][i]) \in Nat
  BY LoadInt, FactsTyped
<1>19. LoadUpTo(LastDay)' = LoadUpTo(LastDay) - SetSum(loads[d][i]) + SetSum(S)
  BY <1>5, <1>9, <1>14, <1>15, <1>16, <1>17, <1>18
<1>20. QED
  BY <1>2, <1>4, <1>5, <1>15, <1>17, <1>18, <1>19

LEMMA CounterLoadStep ==
  ASSUME MeatInv, NEW w \in Threads, CounterLoad(w)
  PROVE  MeatInv'
<1>1. PICK r : r = thread[w]
  OBVIOUS
<1>2. /\ r.at = "numbered" /\ loads' = [loads EXCEPT ![r.day][r.row] = {r.kg}]
      /\ counter' = counter + r.kg
      /\ raced' = (raced \/ r.day <= opening.day \/ loads[r.day][r.row] # {})
      /\ Go(w, Recompute(r.day, "end"))
      /\ UNCHANGED <<opening, taken, counted, snap, job, carried, dirty, requests, failures>>
  BY <1>1 DEF CounterLoad, At
<1>3. RequestOK(r) /\ MeatTypes /\ Books
  BY <1>1, Standing, InvParts
<1>4. r.day \in Days /\ r.row \in Seqs /\ r.kg \in Nat
  BY <1>2, <1>3 DEF RequestOK
<1>5. {r.kg} \in SUBSET Nat /\ OneAtMost({r.kg}) /\ SetSum({r.kg}) = r.kg
  BY <1>4, WeightOfOne DEF OneAtMost
<1>6. /\ loads' \in [Days -> [Seqs -> SUBSET Nat]]
      /\ \A e \in Days : \A j \in Seqs : OneAtMost(loads'[e][j])
      /\ LoadUpTo(LastDay)' = LoadUpTo(LastDay) - SetSum(loads[r.day][r.row]) + SetSum({r.kg})
      /\ LoadUpTo(LastDay) \in Int /\ SetSum(loads[r.day][r.row]) \in Nat
  BY <1>2, <1>3, <1>4, <1>5, LoadChanges
<1>7. MeatTypes'
  <2>1. counter' \in Int /\ raced' \in BOOLEAN
    BY <1>2, <1>3, <1>4 DEF MeatTypes, FactTypes
  <2>2. QED
    BY <1>2, <1>3, <1>6, <2>1 DEF MeatTypes, FactTypes
<1>8. CounterIsRows'
  <2>1. SUFFICES ASSUME ~raced' PROVE counter' + carried' = LoadUpTo(LastDay)'
    BY DEF CounterIsRows
  <2>2. ~raced /\ loads[r.day][r.row] = {}
    BY <1>2, <2>1
  <2>3. counter + carried = LoadUpTo(LastDay)
    BY <1>3, <2>2 DEF Books, CounterIsRows
  <2>4. counter \in Int /\ carried \in Int
    BY <1>3 DEF MeatTypes, FactTypes
  <2>5. QED
    BY <1>2, <1>4, <1>5, <1>6, <2>2, <2>3, <2>4, WeightOfNone
<1>9. NoLoadBeforeStart'
  <2>1. SUFFICES ASSUME ~raced', NEW d \in 1 .. opening'.day - 1, NEW i \in Seqs
                 PROVE  loads'[d][i] = {}
    BY DEF NoLoadBeforeStart, HasLoad
  <2>2. ~raced /\ ~(r.day <= opening.day) /\ opening.day \in Nat /\ r.day \in Nat /\ opening' = opening
    BY <1>2, <1>3, <1>4, <2>1, Constants DEF MeatTypes, FactTypes
  <2>3. d # r.day /\ d \in 1 .. opening.day - 1 /\ d \in Days
    BY <1>3, <2>1, <2>2, Constants DEF MeatTypes, FactTypes
  <2>4. loads[d][i] = {}
    BY <1>3, <2>2, <2>3 DEF Books, NoLoadBeforeStart, HasLoad
  <2>5. loads'[d] = loads[d]
    BY <1>2, <1>3, <2>3 DEF MeatTypes, FactTypes
  <2>6. QED
    BY <2>4, <2>5
<1>10. QED
  BY <1>2, <1>4, <1>7, <1>8, <1>9, RecomputeIs, Triggers DEF Books

LEMMA ChangeRowStep ==
  ASSUME MeatInv, NEW w \in Threads, ChangeRow(w)
  PROVE  MeatInv'
<1>1. PICK r : r = thread[w]
  OBVIOUS
<1> DEFINE old == loads[r.day][r.row]
<1> DEFINE new == IF r.at = "edit" /\ old # {} THEN {r.kg} ELSE {}
<1>2. /\ r.at \in {"edit", "delete"}
      /\ counter' = counter + Delta(r)
      /\ raced' = (raced \/ old # r.read)
      /\ Go(w, Recompute(r.day, "end"))
      /\ UNCHANGED <<opening, taken, counted, snap, job, carried, dirty, requests, failures>>
  BY <1>1 DEF ChangeRow, At
<1>3. RequestOK(r) /\ MeatTypes /\ Books
  BY <1>1, Standing, InvParts
<1>4. r.day \in Days /\ r.row \in Seqs /\ (r.at = "edit" => r.kg \in Nat) /\ r.read # {}
  BY <1>2, <1>3 DEF RequestOK
<1>5. loads' = [loads EXCEPT ![r.day][r.row] = new]
  <2>1. loads' = [loads EXCEPT ![r.day][r.row] = IF r.at = "edit" /\ @ # {} THEN {r.kg} ELSE {}]
    BY <1>1 DEF ChangeRow
  <2>2. loads \in [Days -> [Seqs -> SUBSET Nat]]
    BY <1>3 DEF MeatTypes, FactTypes
  <2>3. QED
    BY <1>4, <2>1, <2>2
<1>6. new \in SUBSET Nat /\ OneAtMost(new)
  BY <1>4 DEF OneAtMost
<1>7. /\ old \in SUBSET Nat /\ OneAtMost(old)
  BY <1>3, <1>4 DEF MeatTypes, FactTypes
<1> HIDE DEF new
<1>8. /\ loads' \in [Days -> [Seqs -> SUBSET Nat]]
      /\ \A e \in Days : \A j \in Seqs : OneAtMost(loads'[e][j])
      /\ LoadUpTo(LastDay)' = LoadUpTo(LastDay) - SetSum(old) + SetSum(new)
      /\ LoadUpTo(LastDay) \in Int /\ SetSum(old) \in Nat /\ SetSum(new) \in Nat
  BY <1>3, <1>4, <1>5, <1>6, LoadChanges
<1>9. ASSUME old = r.read PROVE Delta(r) = SetSum(new) - SetSum(old)
  <2>1. CASE r.at = "edit"
    <3>1. new = {r.kg} /\ r.kg \in Nat
      BY <1>4, <1>9, <2>1 DEF new
    <3>2. SetSum(new) = r.kg
      BY <3>1, WeightOfOne
    <3>3. QED
      BY <1>9, <2>1, <3>2 DEF Delta
  <2>2. CASE r.at = "delete"
    <3>1. SetSum(new) = 0
      BY <2>2, WeightOfNone DEF new
    <3>2. Delta(r) = - SetSum(old)
      BY <1>9, <2>2 DEF Delta
    <3>3. QED
      BY <1>8, <3>1, <3>2
  <2>3. QED
    BY <1>2, <2>1, <2>2
<1>10. ReadWeight(r)
  <2>1. QED
    BY <1>2, <1>3 DEF RequestOK, ReadWeight
<1>11. Delta(r) \in Int
  <2>1. SetSum(r.read) \in Nat
    BY <1>10, WeightInt DEF ReadWeight
  <2>2. QED
    BY <1>4, <2>1 DEF Delta
<1>12. MeatTypes'
  <2>1. counter' \in Int /\ raced' \in BOOLEAN
    BY <1>2, <1>3, <1>11 DEF MeatTypes, FactTypes
  <2>2. QED
    BY <1>2, <1>3, <1>8, <2>1 DEF MeatTypes, FactTypes
<1>13. CounterIsRows'
  <2>1. SUFFICES ASSUME ~raced' PROVE counter' + carried' = LoadUpTo(LastDay)'
    BY DEF CounterIsRows
  <2>2. ~raced /\ old = r.read
    BY <1>2, <2>1
  <2>3. counter + carried = LoadUpTo(LastDay)
    BY <1>3, <2>2 DEF Books, CounterIsRows
  <2>4. counter \in Int /\ carried \in Int
    BY <1>3 DEF MeatTypes, FactTypes
  <2>5. Delta(r) = SetSum(new) - SetSum(old)
    BY <1>9, <2>2
  <2> HIDE DEF old
  <2>6. QED
    BY <1>2, <1>8, <2>3, <2>4, <2>5
<1>14. NoLoadBeforeStart'
  <2>1. SUFFICES ASSUME ~raced', NEW d \in 1 .. opening'.day - 1, NEW i \in Seqs
                 PROVE  loads'[d][i] = {}
    BY DEF NoLoadBeforeStart, HasLoad
  <2>2. ~raced /\ old # {} /\ opening' = opening /\ opening.day \in Days
    BY <1>2, <1>3, <1>4, <2>1 DEF MeatTypes, FactTypes
  <2>3. \A e \in 1 .. opening.day - 1 : \A j \in Seqs : loads[e][j] = {}
    BY <1>3, <2>2 DEF Books, NoLoadBeforeStart, HasLoad
  <2>4. d # r.day /\ d \in Days
    BY <1>4, <2>1, <2>2, <2>3, Constants
  <2>5. loads'[d] = loads[d]
    BY <1>3, <1>5, <2>4 DEF MeatTypes, FactTypes
  <2>6. QED
    BY <2>1, <2>2, <2>3, <2>5
<1>15. QED
  BY <1>2, <1>4, <1>12, <1>13, <1>14, RecomputeIs, Triggers DEF Books

LEMMA TakeStockStep ==
  ASSUME MeatInv, NEW w \in Threads, NEW d \in Days, NEW found \in {{}} \union {{k} : k \in Kgs},
         TakeStock(w, d, found)
  PROVE  MeatInv'
<1> DEFINE night == [Idle EXCEPT !.at = "night", !.day = d]
<1> DEFINE r == IF d = LastDay THEN night ELSE Recompute(d, "end")
<1>1. /\ Request(w) /\ Go(w, r)
      /\ taken' = taken \union {d} /\ counted' = [counted EXCEPT ![d] = found]
      /\ UNCHANGED <<opening, loads, snap, counter, job, history, failures>>
  BY DEF TakeStock
<1>2. MeatTypes /\ Books /\ UNCHANGED <<carried, raced, dirty>>
  BY <1>1, InvParts DEF history
<1>3. RequestOK(night) /\ WillTrigger(night)
  BY IdleIs DEF RequestOK, WillTrigger
<1>4. RequestOK(r) /\ WillTrigger(r)
  BY <1>3, RecomputeIs
<1>5. found \in SUBSET Nat /\ OneAtMost(found)
  BY MeatAssumption DEF OneAtMost
<1>6. MeatTypes'
  <2>1. requests' \in 0 .. MaxRequests
    BY <1>1, <1>2, RequestsLess
  <2>2. counted' \in [Days -> SUBSET Nat] /\ \A e \in Days : OneAtMost(counted'[e])
    BY <1>1, <1>2, <1>5 DEF MeatTypes, FactTypes
  <2>3. \A e \in Days : counted'[e] # {} => e \in taken'
    BY <1>1, <1>2 DEF MeatTypes, FactTypes
  <2>4. taken' \subseteq Days
    BY <1>1, <1>2 DEF MeatTypes, FactTypes
  <2>5. QED
    BY <1>1, <1>2, <2>1, <2>2, <2>3, <2>4 DEF MeatTypes, FactTypes
<1>7. Books'
  BY <1>1, <1>2, BooksKept
<1> HIDE DEF r
<1>8. QED
  BY <1>1, <1>4, <1>6, <1>7, Triggers

LEMMA applyOvernightMoveStep ==
  ASSUME MeatInv, NEW w \in Threads, applyOvernightMove(w)
  PROVE  MeatInv'
<1>1. PICK q : q = thread[w]
  OBVIOUS
<1>2. /\ q.at = "moving" /\ counter' = counter - q.kg /\ carried' = carried + q.kg
      /\ Go(w, Recompute(q.day, "closing"))
      /\ UNCHANGED <<facts, snap, job, raced, dirty, requests, failures>>
  BY <1>1 DEF applyOvernightMove, At
<1>3. RequestOK(q) /\ MeatTypes /\ Books
  BY <1>1, Standing, InvParts
<1>4. q.kg \in Int /\ q.day \in Days /\ counter \in Int /\ carried \in Int
  BY <1>2, <1>3 DEF RequestOK, MeatTypes, FactTypes
<1>5. UNCHANGED <<opening, loads, taken, counted>>
  BY <1>2 DEF facts
<1>6. counter' + carried' = counter + carried /\ counter' \in Int /\ carried' \in Int
  BY <1>2, <1>4
<1>7. MeatTypes'
  BY <1>2, <1>3, <1>5, <1>6 DEF MeatTypes, FactTypes
<1>8. Books'
  BY <1>2, <1>3, <1>5, <1>6, BooksKept
<1>9. QED
  BY <1>2, <1>4, <1>7, <1>8, RecomputeIs, Triggers

(* The days before a new start give their loads back.                       *)
LEMMA LoadsDropped ==
  ASSUME MeatTypes, NEW d \in Days,
         loads' = [e \in Days |-> IF e < d THEN [i \in Seqs |-> {}] ELSE loads[e]]
  PROVE  /\ LoadUpTo(LastDay)' = LoadUpTo(LastDay) - LoadUpTo(d - 1)
         /\ LoadUpTo(LastDay) \in Int /\ LoadUpTo(d - 1) \in Int
<1>1. Days = 1 .. LastDay /\ IsFiniteSet(Days) /\ d \in Nat
  BY Constants
<1>2. 1 .. d - 1 \in SUBSET Days /\ IsFiniteSet(1 .. d - 1)
  <2>1. 1 .. d - 1 \in SUBSET Days
    BY <1>1, Constants
  <2>2. QED
    BY <1>1, <2>1, FS_Subset
<1> DEFINE F == [e \in 1 .. LastDay |-> LoadOf(e)]
<1> DEFINE G == [e \in 1 .. LastDay |-> LoadOf(e)']
<1> DEFINE H == [e \in 1 .. d - 1 |-> LoadOf(e)]
<1>3. \A e \in Days : F[e] \in Int
  BY <1>1, LoadInt, FactsTyped
<1>4. ASSUME NEW e \in Days, e < d PROVE LoadOf(e)' = 0
  <2> DEFINE f == [i \in Seqs |-> SetSum(loads'[e][i])]
  <2>1. \A i \in Seqs : f[i] = 0
    BY <1>4, WeightOfNone
  <2>2. IsFiniteSet(Seqs)
    BY Constants
  <2> HIDE DEF f
  <2>3. SumFunctionOnSet(f, Seqs) = 0
    BY <2>1, <2>2, SumZero
  <2>4. QED
    BY <2>3 DEF f, LoadOf
<1>5. ASSUME NEW e \in Days, ~(e < d) PROVE LoadOf(e)' = LoadOf(e)
  <2>1. loads'[e] = loads[e]
    BY <1>5
  <2>2. QED
    BY <2>1 DEF LoadOf
<1>6. \A e \in Days : G[e] = IF e \in 1 .. d - 1 THEN 0 ELSE F[e]
  <2>1. \A e \in Days : e \in 1 .. d - 1 <=> e < d
    BY <1>1, Constants
  <2>2. \A e \in Days : F[e] = LoadOf(e) /\ G[e] = LoadOf(e)'
    BY <1>1
  <2> HIDE DEF F, G
  <2>3. QED
    BY <1>4, <1>5, <2>1, <2>2
<1>7. \A e \in 1 .. d - 1 : H[e] = F[e] /\ H[e] \in Int
  BY <1>1, <1>2, <1>3
<1>8. /\ LoadUpTo(LastDay) = SumFunctionOnSet(F, Days) /\ LoadUpTo(LastDay)' = SumFunctionOnSet(G, Days)
      /\ LoadUpTo(d - 1) = SumFunctionOnSet(H, 1 .. d - 1)
  BY <1>1 DEF LoadUpTo
<1>9. PICK p, q, h, T : p = F /\ q = G /\ h = H /\ T = 1 .. d - 1
  OBVIOUS
<1> HIDE DEF F, G, H
<1>10. /\ IsFiniteSet(Days) /\ T \in SUBSET Days /\ IsFiniteSet(T) /\ (\A e \in Days : p[e] \in Int)
       /\ (\A e \in Days : q[e] = IF e \in T THEN 0 ELSE p[e])
       /\ \A e \in T : h[e] \in Int /\ h[e] = p[e]
  BY <1>1, <1>2, <1>3, <1>6, <1>7, <1>9
<1>11. SumFunctionOnSet(q, Days) = SumFunctionOnSet(p, Days) - SumFunctionOnSet(p, T)
  BY <1>10, SumDrop
<1>12. SumFunctionOnSet(h, T) = SumFunctionOnSet(p, T) /\ SumFunctionOnSet(h, T) \in Int
  BY <1>10, SumCongruence, SumInt
<1>13. SumFunctionOnSet(p, Days) \in Int
  BY <1>10, SumInt
<1>14. QED
  BY <1>8, <1>9, <1>11, <1>12, <1>13

LEMMA SaveOpeningStep ==
  ASSUME MeatInv, NEW w \in Threads, NEW d \in Days, NEW k \in Kgs, SaveOpening(w, d, k)
  PROVE  MeatInv'
<1> DEFINE r == [Idle EXCEPT !.at = "stale", !.day = d]
<1>1. /\ Request(w) /\ Go(w, r) /\ opening' = [day |-> d, kg |-> k]
      /\ taken' = {e \in taken : e >= d}
      /\ counted' = [e \in Days |-> IF e < d THEN {} ELSE counted[e]]
      /\ loads' = [e \in Days |-> IF e < d THEN [i \in Seqs |-> {}] ELSE loads[e]]
      /\ counter' = counter - LoadUpTo(d - 1)
      /\ UNCHANGED <<snap, job, history, failures>>
  BY DEF SaveOpening, dropChainExternalRecords
<1>2. MeatTypes /\ Books /\ UNCHANGED <<carried, raced, dirty>>
  BY <1>1, InvParts DEF history
<1>3. RequestOK(r) /\ WillTrigger(r)
  BY IdleIs DEF RequestOK, WillTrigger
<1>4. /\ LoadUpTo(LastDay)' = LoadUpTo(LastDay) - LoadUpTo(d - 1)
      /\ LoadUpTo(LastDay) \in Int /\ LoadUpTo(d - 1) \in Int
  BY <1>1, <1>2, LoadsDropped
<1>5. d \in Nat /\ Days \subseteq Nat /\ k \in Nat
  BY MeatAssumption, Constants
<1>6. MeatTypes'
  <2>1. requests' \in 0 .. MaxRequests
    BY <1>1, <1>2, RequestsLess
  <2>2. counted' \in [Days -> SUBSET Nat] /\ \A e \in Days : OneAtMost(counted'[e])
    BY <1>1, <1>2 DEF MeatTypes, FactTypes, OneAtMost
  <2>3. \A e \in Days : counted'[e] # {} => e \in taken'
    BY <1>1, <1>2, <1>5 DEF MeatTypes, FactTypes
  <2>4. taken' \subseteq Days
    BY <1>1, <1>2 DEF MeatTypes, FactTypes
  <2>5. loads' \in [Days -> [Seqs -> SUBSET Nat]]
    BY <1>1, <1>2 DEF MeatTypes, FactTypes
  <2>6. \A e \in Days : \A i \in Seqs : OneAtMost(loads'[e][i])
    <3>1. OneAtMost({})
      BY DEF OneAtMost
    <3>2. \A e \in Days : \A i \in Seqs : OneAtMost(loads[e][i])
      BY <1>2 DEF MeatTypes, FactTypes
    <3>3. QED
      BY <1>1, <3>1, <3>2
  <2>7. counter' \in Int
    BY <1>1, <1>2, <1>4 DEF MeatTypes, FactTypes
  <2>8. opening'.day \in Days /\ opening'.kg \in Nat
    BY <1>1, <1>5
  <2>9. QED
    BY <1>1, <1>2, <2>1, <2>2, <2>3, <2>4, <2>5, <2>6, <2>7, <2>8 DEF MeatTypes, FactTypes
<1>7. CounterIsRows'
  <2>1. SUFFICES ASSUME ~raced' PROVE counter' + carried' = LoadUpTo(LastDay)'
    BY DEF CounterIsRows
  <2>2. counter + carried = LoadUpTo(LastDay) /\ counter \in Int /\ carried \in Int
    BY <1>2, <2>1 DEF Books, CounterIsRows, MeatTypes, FactTypes
  <2>3. QED
    BY <1>1, <1>2, <1>4, <2>2
<1>8. NoLoadBeforeStart'
  <2>1. SUFFICES ASSUME NEW e \in 1 .. opening'.day - 1, NEW i \in Seqs
                 PROVE  loads'[e][i] = {}
    BY DEF NoLoadBeforeStart, HasLoad
  <2>2. e \in Days /\ e < d
    BY <1>1, <1>5, <2>1, Constants
  <2>3. QED
    BY <1>1, <2>2
<1> HIDE DEF r
<1>9. QED
  BY <1>1, <1>3, <1>6, <1>7, <1>8, Triggers DEF Books

LEMMA dropStaleStep ==
  ASSUME MeatInv, NEW w \in Threads, dropStaleCostSnapshots(w)
  PROVE  MeatInv'
<1>1. PICK q : q = thread[w]
  OBVIOUS
<1>2. /\ q.at = "stale" /\ snap' = [d \in Days |-> IF d < opening.day THEN {} ELSE snap[d]]
      /\ Go(w, Recompute(q.day, "end"))
      /\ UNCHANGED <<facts, counter, job, history, requests, failures>>
  BY <1>1 DEF dropStaleCostSnapshots, At
<1>3. RequestOK(q) /\ MeatTypes /\ Books
  BY <1>1, Standing, InvParts
<1>4. q.day \in Days /\ UNCHANGED <<opening, loads, taken, counted, carried, raced, dirty>>
  BY <1>2, <1>3 DEF RequestOK, facts, history
<1>5. snap' \in [Days -> SUBSET DayRow] /\ \A d \in Days : OneAtMost(snap'[d])
  BY <1>2, <1>3 DEF MeatTypes, FactTypes, OneAtMost
<1>6. MeatTypes'
  BY <1>2, <1>3, <1>4, <1>5 DEF MeatTypes, FactTypes
<1>7. Books'
  BY <1>2, <1>3, <1>4, BooksKept
<1>8. QED
  BY <1>2, <1>4, <1>6, <1>7, RecomputeIs, Triggers

(* A row is written: the rows of the other days stand, unless they are of   *)
(* the day after and this row was wrong.                                    *)
LEMMA OthersStand ==
  ASSUME MeatTypes, UNCHANGED facts, NEW d \in Days, NEW S, snap' = [snap EXCEPT ![d] = S],
         NEW e \in Days, e = opening.day \/ e # d + 1
  PROVE  Compute(e)' = Compute(e)
<1>1. e = opening.day \/ e = 1 \/ (e - 1 \in Days /\ e - 1 # d)
  BY Constants
<1>2. e - 1 \in Days /\ e - 1 # d => snap'[e - 1] = snap[e - 1]
  BY DEF MeatTypes, FactTypes
<1>3. QED
  BY <1>1, <1>2, ComputeSame

LEMMA WriteDayStep ==
  ASSUME MeatInv, NEW w \in Threads, WriteDay(w)
  PROVE  MeatInv'
<1>1. PICK q, d : q = thread[w] /\ d = Min(q.todo)
  OBVIOUS
<1> DEFINE r == [q EXCEPT !.at = "days", !.todo = q.todo \ {d}, !.read = {}]
<1>2. /\ q.at = "write" /\ snap' = [snap EXCEPT ![d] = q.read]
      /\ dirty' = (dirty \/ (q.then = "done" /\ q.read # {Compute(d)}))
      /\ UNCHANGED <<facts, counter, job, carried, raced, requests, failures>>
  BY <1>1 DEF WriteDay, At
<1>3. Go(w, r)
  BY <1>1 DEF WriteDay, Go
<1>4. RequestOK(q) /\ MeatTypes /\ RequestsOK /\ JobOK /\ Books
  BY <1>1, Standing, InvParts
<1>5. q.todo \subseteq Days /\ q.todo # {} /\ ReadRow(q.read)
  BY <1>2, <1>4 DEF RequestOK
<1>6. d \in Days
  <2>1. q.todo \in SUBSET Nat
    BY <1>5, Constants
  <2>2. d \in q.todo
    BY <1>1, <1>5, <2>1, LeastOf
  <2>3. QED
    BY <1>5, <2>2
<1>7. RequestOK(r) /\ (q.then # "done" => WillTrigger(r))
  BY <1>2, <1>4, <1>5 DEF RequestOK, WillTrigger
<1>8. UNCHANGED <<opening, loads, taken, counted>>
  BY <1>2 DEF facts
<1>9. MeatTypes'
  <2>1. q.read \in SUBSET DayRow /\ OneAtMost(q.read)
    BY <1>5 DEF ReadRow, OneAtMost
  <2>2. snap' \in [Days -> SUBSET DayRow] /\ \A e \in Days : OneAtMost(snap'[e])
    BY <1>2, <1>4, <2>1 DEF MeatTypes, FactTypes
  <2>3. dirty' \in BOOLEAN
    BY <1>2, <1>4 DEF MeatTypes, FactTypes
  <2>4. QED
    BY <1>2, <1>4, <1>8, <2>2, <2>3 DEF MeatTypes, FactTypes
<1>10. Books'
  BY <1>2, <1>4, <1>8, BooksKept
<1>11. JobOK'
  BY <1>2, <1>4, JobKept
<1> HIDE DEF r
<1>12. RequestsOK' /\ thread'[w] = r /\ \A v \in Threads \ {w} : thread'[v] = thread[v]
  BY <1>3, <1>4, <1>7, RequestMoves
<1>13. RoundDue' \/ ChainHolds'
  <2>1. CASE q.then # "done"
    BY <1>7, <1>12, <2>1, TriggersDue
  <2>2. CASE q.then = "done" /\ q.read # {Compute(d)}
    <3>1. dirty'
      BY <1>2, <2>2
    <3>2. QED
      BY <3>1 DEF RoundDue
  <2>3. CASE q.then = "done" /\ q.read = {Compute(d)}
    <3>1. dirty' = dirty /\ ~WillTrigger(thread[w])
      BY <1>1, <1>2, <1>4, <2>3 DEF WillTrigger, MeatTypes, FactTypes
    <3>2. CASE RoundDue
      BY <1>2, <1>12, <3>1, <3>2, DueKept
    <3>3. CASE ChainHolds /\ snap[d] = {Compute(d)}
      <4>1. snap' = snap
        BY <1>2, <1>4, <2>3, <3>3 DEF MeatTypes, FactTypes
      <4>2. QED
        BY <1>2, <1>4, <3>3, <4>1, ChainKept
    <3>4. CASE ChainHolds /\ snap[d] # {Compute(d)}
      <4>1. opening' = opening /\ opening.day \in Days /\ Days = 1 .. LastDay /\ LastDay \in Nat
        BY <1>4, <1>8, Constants DEF MeatTypes, FactTypes
      <4>2. d < opening.day \/ InWork(d)
        BY <1>6, <3>4, <4>1 DEF ChainHolds
      <4>3. \A e \in Days : e = opening.day \/ e # d + 1 => Compute(e)' = Compute(e)
        BY <1>2, <1>4, <1>6, OthersStand
      <4>4. job.at \in {"read", "write"} => job.day \in 1 .. LastDay + 1
        BY <1>4 DEF JobOK
      <4>5. (\A e \in opening.day .. LastDay : snap[e] = {Compute(e)} \/ InWork(e))'
        <5>1. SUFFICES ASSUME NEW e \in opening.day .. LastDay
                       PROVE  snap'[e] = {Compute(e)'} \/ InWork(e)'
          BY <4>1
        <5>2. InWork(e) => InWork(e)'
          BY <1>2 DEF InWork
        <5>3. e \in Days
          BY <4>1
        <5>4. CASE e = d
          <6>1. d # d + 1 /\ snap'[d] = {Compute(d)}
            BY <1>2, <1>4, <1>6, <2>3, <4>1 DEF MeatTypes, FactTypes
          <6>2. QED
            BY <1>6, <4>3, <5>4, <6>1
        <5>5. CASE e # d /\ ~InWork(e)
          <6>1. snap[e] = {Compute(e)} /\ snap'[e] = snap[e]
            BY <1>2, <1>4, <3>4, <5>3, <5>5 DEF ChainHolds, MeatTypes, FactTypes
          <6>2. e = opening.day \/ e # d + 1
            <7>1. CASE d < opening.day
              BY <1>6, <4>1, <7>1
            <7>2. CASE InWork(d)
              BY <1>6, <4>1, <4>4, <5>3, <5>5, <7>2 DEF InWork
            <7>3. QED
              BY <4>2, <7>1, <7>2
          <6>3. QED
            BY <4>3, <5>3, <6>1, <6>2
        <5>6. QED
          BY <5>2, <5>4, <5>5
      <4>6. (job.at = "write" /\ job.day >= opening.day => job.read = {Compute(job.day)})'
        <5>1. SUFFICES ASSUME job'.at = "write", job'.day >= opening'.day
                       PROVE  (job.read = {Compute(job.day)})'
          OBVIOUS
        <5>2. PICK n : n = job.day
          OBVIOUS
        <5>3. n \in Days /\ n >= opening.day /\ job.read = {Compute(n)} /\ job.at = "write"
          BY <1>2, <1>4, <3>4, <4>1, <5>1, <5>2 DEF JobOK, ChainHolds
        <5>4. n = opening.day \/ n # d + 1
          <6>1. CASE d < opening.day
            BY <1>6, <4>1, <5>3, <6>1
          <6>2. CASE InWork(d)
            BY <1>6, <4>1, <5>2, <5>3, <6>2 DEF InWork
          <6>3. QED
            BY <4>2, <6>1, <6>2
        <5>5. job'.read = {Compute(n)'} /\ n = job'.day
          BY <1>2, <4>3, <5>2, <5>3, <5>4
        <5>6. QED
          BY <5>5 DEF Compute, OpeningOf, ClosingOf
      <4>7. QED
        BY <4>5, <4>6 DEF ChainHolds
    <3>5. QED
      BY <3>2, <3>3, <3>4 DEF MeatInv
  <2>4. QED
    BY <2>1, <2>2, <2>3
<1>14. QED
  BY <1>9, <1>10, <1>11, <1>12, <1>13 DEF MeatInv, Books

LEMMA ScheduleStep ==
  ASSUME MeatInv, NEW w \in Threads, ScheduleChainMaterialize(w)
  PROVE  MeatInv'
<1>1. PICK q : q = thread[w]
  OBVIOUS
<1> DEFINE again == [q EXCEPT !.at = "days", !.todo = {q.day}, !.then = "done"]
<1> DEFINE r == IF q.then = "end" THEN Idle ELSE again
<1>2. /\ q.at = "days" /\ Go(w, r) /\ Trigger(q.day)
      /\ UNCHANGED <<facts, snap, counter, history, requests, failures>>
  BY <1>1 DEF ScheduleChainMaterialize, At
<1>3. RequestOK(q) /\ MeatTypes /\ RequestsOK /\ JobOK /\ Books
  BY <1>1, Standing, InvParts
<1>4. q.day \in Days
  BY <1>2, <1>3 DEF RequestOK
<1>5. RequestOK(again)
  BY <1>2, <1>3, <1>4 DEF RequestOK
<1>6. RequestOK(r)
  BY <1>5, IdleIs DEF RequestOK
<1>7. UNCHANGED <<opening, loads, taken, counted, carried, raced, dirty>>
  BY <1>2 DEF facts, history
<1>8. JobOK' /\ RoundDue'
  <2>1. CASE job.at = "off"
    <3>1. job' = [Off EXCEPT !.at = "start", !.from = q.day]
      BY <1>2, <2>1 DEF Trigger
    <3>2. job'.at = "start" /\ job'.from = q.day /\ ~job'.pending /\ job'.pending \in BOOLEAN
          /\ DOMAIN job' = {"at", "from", "pending", "day", "read"}
      BY <3>1 DEF Off
    <3>3. QED
      BY <1>4, <3>2 DEF JobOK, RoundDue
  <2>2. CASE job.at # "off"
    <3>1. PICK j, least : j = job /\ least = Min({j.from, q.day})
      OBVIOUS
    <3>2. job' = [j EXCEPT !.pending = TRUE, !.from = least]
      BY <1>2, <2>2, <3>1 DEF Trigger
    <3>3. least \in Days
      <4>1. j.from \in Days /\ {j.from, q.day} \in SUBSET Nat /\ {j.from, q.day} # {}
        BY <1>3, <1>4, <2>2, <3>1, Constants DEF JobOK
      <4>2. least \in {j.from, q.day}
        BY <3>1, <4>1, LeastOf
      <4>3. QED
        BY <1>4, <4>1, <4>2
    <3>4. DOMAIN j = {"at", "from", "pending", "day", "read"}
      BY <1>3, <3>1 DEF JobOK
    <3>5. /\ job'.pending = TRUE /\ job'.from = least /\ job'.at = j.at /\ job'.day = j.day
          /\ job'.read = j.read /\ DOMAIN job' = DOMAIN j
      BY <3>2, <3>4
    <3>6. RoundDue'
      BY <3>5 DEF RoundDue
    <3>7. JobOK'
      BY <1>3, <2>2, <3>1, <3>3, <3>4, <3>5 DEF JobOK, ReadRow
    <3>8. QED
      BY <3>6, <3>7
  <2>3. QED
    BY <2>1, <2>2
<1>9. MeatTypes'
  BY <1>2, <1>3, <1>7 DEF MeatTypes, FactTypes
<1>10. Books'
  BY <1>2, <1>3, <1>7, BooksKept
<1> HIDE DEF r
<1>11. RequestsOK'
  BY <1>2, <1>3, <1>6, RequestMoves
<1>12. QED
  BY <1>8, <1>9, <1>10, <1>11 DEF MeatInv, Books

LEMMA RecomputeFailsStep ==
  ASSUME MeatInv, NEW w \in Threads, RecomputeFails(w)
  PROVE  MeatInv'
<1>1. PICK q : q = thread[w]
  OBVIOUS
<1> DEFINE again == [q EXCEPT !.at = "days", !.todo = {q.day}, !.then = "done"]
<1> DEFINE r == IF q.then = "end" THEN Idle ELSE again
<1>2. /\ q.at = "list" /\ Go(w, r) /\ failures < MaxFailures /\ failures' = failures + 1 /\ dirty' = TRUE
      /\ UNCHANGED <<facts, snap, counter, job, carried, raced, requests>>
  BY <1>1 DEF RecomputeFails, At, Fault
<1>3. RequestOK(q) /\ MeatTypes /\ RequestsOK /\ JobOK /\ Books
  BY <1>1, Standing, InvParts
<1>4. q.day \in Days
  BY <1>2, <1>3 DEF RequestOK
<1>5. RequestOK(again)
  BY <1>2, <1>3, <1>4 DEF RequestOK
<1>6. RequestOK(r)
  BY <1>5, IdleIs DEF RequestOK
<1>7. UNCHANGED <<opening, loads, taken, counted>>
  BY <1>2 DEF facts
<1>8. RoundDue'
  BY <1>2 DEF RoundDue
<1>9. MeatTypes'
  <2>1. failures' \in 0 .. MaxFailures
    BY <1>2, <1>3, MeatAssumption DEF MeatTypes, FactTypes
  <2>2. QED
    BY <1>2, <1>3, <1>7, <2>1 DEF MeatTypes, FactTypes
<1>10. Books'
  BY <1>2, <1>3, <1>7, BooksKept
<1>11. JobOK'
  BY <1>2, <1>3, JobKept
<1> HIDE DEF r
<1>12. RequestsOK'
  BY <1>2, <1>3, <1>6, RequestMoves
<1>13. QED
  BY <1>8, <1>9, <1>10, <1>11, <1>12 DEF MeatInv, Books

-----------------------------------------------------------------------------
(* The job.                                                                 *)
LEMMA JobAlone ==
  ASSUME MeatInv, UNCHANGED <<facts, counter, thread, carried, raced, requests>>,
         MeatTypes', JobOK', RoundDue' \/ ChainHolds'
  PROVE  MeatInv'
<1>1. RequestsOK' /\ Books'
  <2>1. RequestsOK /\ Books /\ opening' = opening /\ loads' = loads /\ thread' = thread
    BY InvParts DEF facts
  <2>2. Books'
    BY <2>1, BooksKept
  <2>3. RequestsOK'
    BY <2>1 DEF RequestsOK
  <2>4. QED
    BY <2>2, <2>3
<1>2. QED
  BY <1>1 DEF MeatInv, Books

LEMMA StartRoundStep ==
  ASSUME MeatInv, StartRound
  PROVE  MeatInv'
<1>1. PICK j, n : j = job /\ n = StartDay(j.from)
  OBVIOUS
<1>2. /\ j.at = "start" /\ job' = [j EXCEPT !.at = "read", !.pending = FALSE, !.day = n]
      /\ dirty' = FALSE /\ UNCHANGED <<facts, snap, counter, thread, carried, raced, requests, failures>>
  BY <1>1 DEF StartRound
<1>3. MeatTypes /\ JobOK /\ UNCHANGED <<opening, loads, taken, counted>>
  BY <1>2, InvParts DEF facts
<1>4. n \in Days /\ n <= opening.day
  <2>1. j.from \in Days /\ opening.day \in Days
    BY <1>1, <1>2, <1>3 DEF JobOK, MeatTypes, FactTypes
  <2>2. /\ {j.from, opening.day} \in SUBSET Nat /\ {j.from, opening.day} # {}
        /\ opening.day \in {j.from, opening.day}
    BY <2>1, Constants
  <2>3. n \in {j.from, opening.day} /\ n <= opening.day
    BY <1>1, <2>2, LeastOf DEF StartDay
  <2>4. QED
    BY <2>1, <2>3
<1>5. DOMAIN j = {"at", "from", "pending", "day", "read"} /\ j.from \in Days
  BY <1>1, <1>2, <1>3 DEF JobOK
<1>6. /\ job'.at = "read" /\ job'.pending = FALSE /\ job'.day = n /\ job'.from = j.from
      /\ DOMAIN job' = {"at", "from", "pending", "day", "read"}
  BY <1>2, <1>5
<1>7. JobOK'
  <2>1. n \in 1 .. LastDay + 1
    BY <1>4, Constants
  <2>2. QED
    BY <1>5, <1>6, <2>1 DEF JobOK
<1>8. ChainHolds'
  <2>1. \A d \in opening.day .. LastDay : InWork(d)'
    BY <1>3, <1>4, <1>6, Constants DEF InWork, MeatTypes, FactTypes
  <2>2. QED
    BY <1>3, <1>6, <2>1 DEF ChainHolds
<1>9. MeatTypes'
  BY <1>2, <1>3 DEF MeatTypes, FactTypes
<1>10. QED
  BY <1>2, <1>7, <1>8, <1>9, JobAlone

LEMMA JobReadStep ==
  ASSUME MeatInv, JobRead
  PROVE  MeatInv'
<1>1. PICK j : j = job
  OBVIOUS
<1> DEFINE row == Compute(j.day)
<1>2. /\ j.at = "read" /\ j.day <= LastDay /\ job' = [j EXCEPT !.at = "write", !.read = {row}]
      /\ UNCHANGED <<facts, snap, counter, thread, history, requests, failures>>
  BY <1>1 DEF JobRead
<1>3. MeatTypes /\ JobOK /\ UNCHANGED <<opening, loads, taken, counted, carried, raced, dirty>>
  BY <1>2, InvParts DEF facts, history
<1>4. /\ j.day \in Days
      /\ DOMAIN j = {"at", "from", "pending", "day", "read"} /\ j.from \in Days /\ j.pending \in BOOLEAN
  BY <1>1, <1>2, <1>3, Constants DEF JobOK
<1>5. row \in DayRow
  BY <1>3, <1>4, ComputeTyped
<1>6. \A d \in Days : Compute(d)' = Compute(d)
  BY <1>2, ComputeSame
<1>7. row = Compute(j.day)'
  BY <1>4, <1>6
<1> HIDE DEF row
<1>8. /\ job'.at = "write" /\ job'.pending = j.pending /\ job'.day = j.day /\ job'.from = j.from
      /\ job'.read = {row} /\ DOMAIN job' = {"at", "from", "pending", "day", "read"}
  BY <1>2, <1>4
<1>9. JobOK'
  BY <1>4, <1>5, <1>8, Constants DEF JobOK, ReadRow
<1>10. MeatTypes'
  BY <1>2, <1>3 DEF MeatTypes, FactTypes
<1>11. RoundDue' \/ ChainHolds'
  <2>1. CASE RoundDue
    <3>1. dirty \/ job.pending \/ \E w \in Threads : WillTrigger(thread[w])
      BY <1>1, <1>2, <2>1 DEF RoundDue
    <3>2. thread' = thread /\ job'.pending = job.pending
      BY <1>1, <1>2, <1>8
    <3>3. QED
      BY <1>3, <3>1, <3>2 DEF RoundDue
  <2>2. CASE ChainHolds
    <3>1. \A d \in opening.day .. LastDay : d \in Days
      BY <1>3, Constants DEF MeatTypes, FactTypes
    <3>2. \A d \in opening.day .. LastDay : InWork(d) => InWork(d)'
      BY <1>1, <1>2, <1>8 DEF InWork
    <3>3. (\A d \in opening.day .. LastDay : snap[d] = {Compute(d)} \/ InWork(d))'
      BY <1>2, <1>3, <1>6, <2>2, <3>1, <3>2 DEF ChainHolds
    <3>4. (job.read = {Compute(job.day)})'
      BY <1>7, <1>8 DEF Compute, OpeningOf, ClosingOf
    <3>5. QED
      BY <3>3, <3>4 DEF ChainHolds
  <2>3. QED
    BY <2>1, <2>2 DEF MeatInv
<1>12. QED
  BY <1>2, <1>3, <1>9, <1>10, <1>11, JobAlone

LEMMA JobWriteStep ==
  ASSUME MeatInv, JobWrite
  PROVE  MeatInv'
<1>1. PICK j, d : j = job /\ d = j.day
  OBVIOUS
<1>2. /\ j.at = "write" /\ snap' = [snap EXCEPT ![d] = j.read]
      /\ job' = [j EXCEPT !.at = "read", !.day = d + 1, !.read = {}]
      /\ UNCHANGED <<facts, counter, thread, history, requests, failures>>
  BY <1>1 DEF JobWrite
<1>3. MeatTypes /\ JobOK /\ UNCHANGED <<opening, loads, taken, counted, carried, raced, dirty>>
  BY <1>2, InvParts DEF facts, history
<1>4. /\ d \in Days /\ ReadRow(j.read) /\ j.from \in Days /\ j.pending \in BOOLEAN
      /\ DOMAIN j = {"at", "from", "pending", "day", "read"}
  BY <1>1, <1>2, <1>3 DEF JobOK
<1>5. /\ job'.at = "read" /\ job'.pending = j.pending /\ job'.day = d + 1 /\ job'.from = j.from
      /\ DOMAIN job' = {"at", "from", "pending", "day", "read"}
  BY <1>2, <1>4
<1>6. JobOK'
  <2>1. d + 1 \in 1 .. LastDay + 1
    BY <1>4, Constants
  <2>2. QED
    BY <1>4, <1>5, <2>1 DEF JobOK
<1>7. MeatTypes'
  <2>1. j.read \in SUBSET DayRow /\ OneAtMost(j.read)
    BY <1>4 DEF ReadRow, OneAtMost
  <2>2. snap' \in [Days -> SUBSET DayRow] /\ \A e \in Days : OneAtMost(snap'[e])
    BY <1>2, <1>3, <2>1 DEF MeatTypes, FactTypes
  <2>3. QED
    BY <1>2, <1>3, <2>2 DEF MeatTypes, FactTypes
<1>8. RoundDue' \/ ChainHolds'
  <2>1. CASE RoundDue
    <3>1. dirty \/ job.pending \/ \E w \in Threads : WillTrigger(thread[w])
      BY <1>1, <1>2, <2>1 DEF RoundDue
    <3>2. thread' = thread /\ job'.pending = job.pending
      BY <1>1, <1>2, <1>5
    <3>3. QED
      BY <1>3, <3>1, <3>2 DEF RoundDue
  <2>2. CASE ChainHolds
    <3>1. opening.day \in Days /\ Days = 1 .. LastDay /\ LastDay \in Nat
      BY <1>3, Constants DEF MeatTypes, FactTypes
    <3>2. \A e \in Days : e = opening.day \/ e # d + 1 => Compute(e)' = Compute(e)
      BY <1>2, <1>3, <1>4, OthersStand
    <3>3. (\A e \in opening.day .. LastDay : snap[e] = {Compute(e)} \/ InWork(e))'
      <4>1. SUFFICES ASSUME NEW e \in opening.day .. LastDay
                     PROVE  snap'[e] = {Compute(e)'} \/ InWork(e)'
        BY <1>3
      <4>2. e \in Days
        BY <3>1
      <4>3. CASE e > d
        <5>1. InWork(e)'
          BY <1>4, <1>5, <3>1, <4>2, <4>3 DEF InWork
        <5>2. QED
          BY <5>1
      <4>4. CASE e = d
        <5>1. j.read = {Compute(d)}
          BY <1>1, <1>2, <2>2, <3>1, <4>1, <4>4 DEF ChainHolds
        <5>2. d # d + 1 /\ snap'[d] = {Compute(d)}
          BY <1>2, <1>3, <1>4, <3>1, <5>1 DEF MeatTypes, FactTypes
        <5>3. QED
          BY <1>4, <3>2, <4>4, <5>2
      <4>5. CASE e < d
        <5>1. ~InWork(e)
          BY <1>1, <1>4, <3>1, <4>2, <4>5 DEF InWork
        <5>2. snap[e] = {Compute(e)} /\ e # d
          BY <1>4, <2>2, <3>1, <4>5, <5>1 DEF ChainHolds
        <5>3. snap'[e] = snap[e] /\ e # d + 1
          BY <1>2, <1>3, <1>4, <3>1, <4>2, <4>5 DEF MeatTypes, FactTypes
        <5>4. QED
          BY <3>2, <4>2, <5>2, <5>3
      <4>6. QED
        BY <1>4, <3>1, <4>2, <4>3, <4>4, <4>5
    <3>4. QED
      BY <1>5, <3>3 DEF ChainHolds
  <2>3. QED
    BY <2>1, <2>2 DEF MeatInv
<1>9. QED
  BY <1>2, <1>3, <1>6, <1>7, <1>8, JobAlone

LEMMA NextRoundIs ==
  ASSUME JobOK, job.at # "off", NextRound
  PROVE  /\ JobOK' /\ (job.pending => job'.at = "start") /\ (~job.pending => job'.at = "off")
<1>1. PICK j : j = job
  OBVIOUS
<1>2. DOMAIN j = {"at", "from", "pending", "day", "read"} /\ j.from \in Days /\ j.pending \in BOOLEAN
  BY <1>1 DEF JobOK
<1>3. CASE j.pending
  <2>1. job' = [j EXCEPT !.at = "start", !.read = {}]
    BY <1>1, <1>3 DEF NextRound
  <2>2. job'.at = "start" /\ job'.pending = j.pending /\ job'.from = j.from /\ DOMAIN job' = DOMAIN j
    BY <1>2, <2>1
  <2>3. QED
    BY <1>1, <1>2, <1>3, <2>2 DEF JobOK
<1>4. CASE ~j.pending
  <2>1. job' = Off
    BY <1>1, <1>4 DEF NextRound
  <2>2. job'.at = "off" /\ job'.pending = FALSE /\ DOMAIN job' = {"at", "from", "pending", "day", "read"}
    BY <2>1 DEF Off
  <2>3. QED
    BY <1>1, <1>4, <2>2 DEF JobOK
<1>5. QED
  BY <1>2, <1>3, <1>4

LEMMA EndRoundStep ==
  ASSUME MeatInv, EndRound
  PROVE  MeatInv'
<1>1. /\ job.at = "read" /\ job.day > LastDay /\ NextRound
      /\ UNCHANGED <<facts, snap, counter, thread, history, requests, failures>>
  BY DEF EndRound
<1>2. MeatTypes /\ JobOK /\ UNCHANGED <<opening, loads, taken, counted, carried, raced, dirty>>
  BY <1>1, InvParts DEF facts, history
<1>3. JobOK' /\ (job.pending => job'.at = "start") /\ (~job.pending => job'.at = "off")
  BY <1>1, <1>2, NextRoundIs
<1>4. MeatTypes'
  BY <1>1, <1>2 DEF MeatTypes, FactTypes
<1>5. RoundDue' \/ ChainHolds'
  <2>1. CASE job.pending
    BY <1>3, <2>1 DEF RoundDue
  <2>2. CASE RoundDue /\ ~job.pending
    <3>1. dirty \/ \E w \in Threads : WillTrigger(thread[w])
      BY <1>1, <2>2 DEF RoundDue
    <3>2. thread' = thread
      BY <1>1
    <3>3. QED
      BY <1>2, <3>1, <3>2 DEF RoundDue
  <2>3. CASE ChainHolds /\ ~job.pending
    <3>1. opening.day \in Days /\ Days = 1 .. LastDay /\ LastDay \in Nat /\ job.day \in 1 .. LastDay + 1
      BY <1>1, <1>2, Constants DEF MeatTypes, FactTypes, JobOK
    <3>2. \A d \in opening.day .. LastDay : snap[d] = {Compute(d)} /\ d \in Days
      BY <1>1, <2>3, <3>1 DEF ChainHolds, InWork
    <3>3. \A d \in Days : Compute(d)' = Compute(d)
      BY <1>1, ComputeSame
    <3>4. (\A d \in opening.day .. LastDay : snap[d] = {Compute(d)} \/ InWork(d))'
      BY <1>1, <1>2, <3>2, <3>3
    <3>5. job'.at # "write"
      BY <1>3, <2>3
    <3>6. QED
      BY <3>4, <3>5 DEF ChainHolds
  <2>4. QED
    BY <1>2, <2>1, <2>2, <2>3 DEF MeatInv
<1>6. QED
  BY <1>1, <1>2, <1>3, <1>4, <1>5, JobAlone

LEMMA FaultCounts ==
  ASSUME MeatTypes, Fault, UNCHANGED <<facts, snap, counter, carried, raced, requests>>
  PROVE  MeatTypes' /\ RoundDue'
<1>1. failures' \in 0 .. MaxFailures /\ dirty' = TRUE
  BY MeatAssumption DEF Fault, MeatTypes, FactTypes
<1>2. MeatTypes'
  BY <1>1 DEF MeatTypes, FactTypes, facts
<1>3. QED
  BY <1>1, <1>2 DEF RoundDue

LEMMA JobFailsStep ==
  ASSUME MeatInv, JobFails
  PROVE  MeatInv'
<1>1. /\ job.at # "off" /\ NextRound /\ Fault
      /\ UNCHANGED <<facts, snap, counter, thread, carried, raced, requests>>
  BY DEF JobFails
<1>2. JobOK' /\ MeatTypes' /\ RoundDue'
  BY <1>1, InvParts, NextRoundIs, FaultCounts
<1>3. QED
  BY <1>1, <1>2, JobAlone

LEMMA MeatRestartStep ==
  ASSUME MeatInv, Restart
  PROVE  MeatInv'
<1>1. /\ Fault /\ thread' = [w \in Threads |-> Idle] /\ job' = Off
      /\ UNCHANGED <<facts, snap, counter, carried, raced, requests>>
  BY DEF Restart
<1>2. MeatTypes' /\ RoundDue'
  BY <1>1, InvParts, FaultCounts
<1>3. JobOK'
  BY <1>1 DEF Off, JobOK
<1>4. RequestOK(Idle)
  BY IdleIs DEF RequestOK
<1>5. RequestsOK'
  <2>1. \A w \in Threads : thread'[w] = Idle
    BY <1>1
  <2>2. thread' = [w \in Threads |-> thread'[w]]
    BY <1>1
  <2>3. \A w \in Threads : RequestOK(thread'[w])
    BY <1>4, <2>1
  <2>4. QED
    BY <2>2, <2>3 DEF RequestsOK
<1>6. Books'
  <2>1. Books /\ opening' = opening /\ loads' = loads
    BY <1>1, InvParts DEF facts
  <2>2. QED
    BY <1>1, <2>1, BooksKept
<1>7. QED
  BY <1>2, <1>3, <1>5, <1>6 DEF MeatInv, Books

-----------------------------------------------------------------------------
LEMMA OneLoadAtFirst == MeatInit => Books /\ FactTypes
<1> SUFFICES ASSUME MeatInit PROVE Books /\ FactTypes
  OBVIOUS
<1>1. /\ opening.day = 1 /\ opening.kg = 2
      /\ loads = [d \in Days |-> [i \in Seqs |-> IF d = 2 /\ i = 0 THEN {1} ELSE {}]]
      /\ counter = 0 /\ carried = IF 2 \in Days THEN 1 ELSE 0
  BY DEF MeatInit
<1>2. 0 \in Seqs /\ IsFiniteSet(Seqs) /\ IsFiniteSet(Days) /\ Days = 1 .. LastDay /\ 1 \in Days
  BY Constants, MeatAssumption
<1>3. OneAtMost({}) /\ OneAtMost({1}) /\ {1} \in SUBSET Nat
  BY DEF OneAtMost
<1>4. FactTypes
  <2>1. loads \in [Days -> [Seqs -> SUBSET Nat]] /\ \A d \in Days : \A i \in Seqs : OneAtMost(loads[d][i])
    BY <1>1, <1>3
  <2>2. taken = Days \intersect {2} /\ counted = [d \in Days |-> IF d = 2 THEN {1} ELSE {}]
    BY DEF MeatInit
  <2>3. counted \in [Days -> SUBSET Nat] /\ \A d \in Days : OneAtMost(counted[d])
    BY <1>3, <2>2
  <2>4. \A d \in Days : counted[d] # {} => d \in taken
    BY <2>2
  <2>5. QED
    BY <1>1, <1>2, <2>1, <2>2, <2>3, <2>4 DEF FactTypes
<1> DEFINE F == [d \in 1 .. LastDay |-> LoadOf(d)]
<1>5. ASSUME NEW d \in Days, d # 2 PROVE LoadOf(d) = 0
  <2>1. PICK f : f = [i \in Seqs |-> SetSum(loads[d][i])]
    OBVIOUS
  <2>2. \A i \in Seqs : f[i] = 0
    BY <1>1, <1>5, <2>1, WeightOfNone
  <2>3. QED
    BY <1>2, <2>1, <2>2, SumZero DEF LoadOf
<1>6. ASSUME 2 \in Days PROVE LoadOf(2) = 1
  <2>1. PICK f : f = [i \in Seqs |-> SetSum(loads[2][i])]
    OBVIOUS
  <2>2. f[0] = 1 /\ \A i \in Seqs \ {0} : f[i] = 0
    BY <1>1, <1>2, <1>6, <2>1, WeightOfNone, WeightOfOne
  <2>3. \A i \in Seqs : f[i] \in Int
    BY <2>2
  <2>4. SumFunctionOnSet(f, Seqs) = f[0] + SumFunctionOnSet(f, Seqs \ {0})
    BY <1>2, <2>3, SumRemove
  <2>5. SumFunctionOnSet(f, Seqs \ {0}) = 0
    BY <1>2, <2>2, SumZero, FS_RemoveElement
  <2>6. QED
    BY <2>1, <2>2, <2>4, <2>5 DEF LoadOf
<1>7. LoadUpTo(LastDay) = IF 2 \in Days THEN 1 ELSE 0
  <2>1. PICK f : f = F
    OBVIOUS
  <2>2. (\A d \in Days \ {2} : f[d] = 0) /\ (2 \in Days => f[2] = 1)
    BY <1>2, <1>5, <1>6, <2>1
  <2>3. LoadUpTo(LastDay) = SumFunctionOnSet(f, Days)
    BY <1>2, <2>1 DEF LoadUpTo
  <2>4. CASE 2 \in Days
    <3>1. \A d \in Days : f[d] \in Int
      BY <2>2, <2>4
    <3>2. SumFunctionOnSet(f, Days) = f[2] + SumFunctionOnSet(f, Days \ {2})
      BY <1>2, <2>4, <3>1, SumRemove
    <3>3. SumFunctionOnSet(f, Days \ {2}) = 0
      BY <1>2, <2>2, SumZero, FS_RemoveElement
    <3>4. QED
      BY <2>2, <2>3, <2>4, <3>2, <3>3
  <2>5. CASE 2 \notin Days
    <3>1. \A d \in Days : f[d] = 0
      BY <2>2, <2>5
    <3>2. SumFunctionOnSet(f, Days) = 0
      BY <1>2, <3>1, SumZero
    <3>3. QED
      BY <2>3, <2>5, <3>2
  <2>6. QED
    BY <2>4, <2>5
<1>8. CounterIsRows
  BY <1>1, <1>7 DEF CounterIsRows
<1>9. NoLoadBeforeStart
  BY <1>1 DEF NoLoadBeforeStart
<1>10. QED
  BY <1>4, <1>8, <1>9 DEF Books

LEMMA InitMeatInv == MeatInit => MeatInv
<1> SUFFICES ASSUME MeatInit PROVE MeatInv
  OBVIOUS
<1>1. Books /\ FactTypes
  BY OneLoadAtFirst
<1>2. /\ opening.day = 1 /\ snap = [d \in Days |-> {Chain[d]}]
      /\ thread = [w \in Threads |-> Idle] /\ job = Off
      /\ counter \in Int /\ carried \in Int /\ raced = FALSE /\ dirty = FALSE /\ requests = 0 /\ failures = 0
  BY DEF MeatInit
<1>3. \A d \in Days : Chain[d] \in DayRow
  BY <1>1, <1>2, ChainIs, Constants
<1>4. MeatTypes
  <2>1. snap \in [Days -> SUBSET DayRow] /\ \A d \in Days : OneAtMost(snap[d])
    BY <1>2, <1>3 DEF OneAtMost
  <2>2. requests \in 0 .. MaxRequests /\ failures \in 0 .. MaxFailures
    BY <1>2, MeatAssumption
  <2>3. QED
    BY <1>1, <1>2, <2>1, <2>2 DEF MeatTypes
<1>5. RequestsOK
  <2>1. RequestOK(Idle)
    BY IdleIs DEF RequestOK
  <2>2. QED
    BY <1>2, <2>1 DEF RequestsOK
<1>6. JobOK /\ job.at = "off"
  BY <1>2 DEF JobOK, Off
<1>7. ChainHolds
  <2>1. \A d \in opening.day .. LastDay : snap[d] = {Chain[d]}
    BY <1>2, Constants
  <2>2. \A d \in opening.day .. LastDay : snap[d] = {Compute(d)}
    BY <1>1, <2>1, RowsAreChain
  <2>3. QED
    BY <1>6, <2>2 DEF ChainHolds
<1>8. QED
  BY <1>1, <1>4, <1>5, <1>6, <1>7 DEF MeatInv, Books

LEMMA NextMeatInv == MeatInv /\ [MeatNext]_meatVars => MeatInv'
<1> SUFFICES ASSUME MeatInv, [MeatNext]_meatVars PROVE MeatInv'
  OBVIOUS
<1>1. CASE StartRound
  BY <1>1, StartRoundStep
<1>2. CASE JobRead
  BY <1>2, JobReadStep
<1>3. CASE JobWrite
  BY <1>3, JobWriteStep
<1>4. CASE EndRound
  BY <1>4, EndRoundStep
<1>5. CASE JobFails
  BY <1>5, JobFailsStep
<1>6. CASE Restart
  BY <1>6, MeatRestartStep
<1>7. ASSUME NEW w \in Threads, Step(w) PROVE MeatInv'
  BY <1>7, NumberStep, CounterLoadStep, ChangeRowStep, ReadCounterStep, applyOvernightMoveStep,
     dropStaleStep, ListDaysStep, ReadDayStep, WriteDayStep, ScheduleStep, FinishStep, RecomputeFailsStep
     DEF Step
<1>8. ASSUME NEW w \in Threads, NEW d \in Days, NEW k \in Kgs,
             LookLoad(w, d, k) \/ SaveOpening(w, d, k)
      PROVE  MeatInv'
  BY <1>8, LookLoadStep, SaveOpeningStep
<1>9. ASSUME NEW w \in Threads, NEW d \in Days, NEW k \in Kgs, NEW i \in Seqs, NEW op \in {"edit", "delete"},
             LookRow(w, op, d, i, k)
      PROVE  MeatInv'
  BY <1>9, LookRowStep
<1>10. ASSUME NEW w \in Threads, NEW d \in Days, NEW found \in {{}} \union {{k} : k \in Kgs},
              TakeStock(w, d, found)
       PROVE  MeatInv'
  BY <1>10, TakeStockStep
<1>11. ASSUME NEW w \in Threads, NEW d \in Days, LookMaterialize(w, d) PROVE MeatInv'
  BY <1>11, LookMaterializeStep
<1>12. CASE UNCHANGED meatVars
  <2>1. /\ UNCHANGED <<facts, snap, counter, thread, job, carried, raced, dirty, requests, failures>>
    BY <1>12 DEF meatVars, history
  <2>2. MeatTypes' /\ JobOK'
    <3>1. MeatTypes'
      BY <2>1, InvParts, TypesKept DEF MeatTypes
    <3>2. QED
      BY <2>1, <3>1, InvParts, JobKept
  <2>3. RoundDue' \/ ChainHolds'
    <3>1. CASE RoundDue
      BY <2>1, <3>1 DEF RoundDue
    <3>2. CASE ChainHolds
      BY <2>1, <3>2, InvParts, ChainKept
    <3>3. QED
      BY <3>1, <3>2 DEF MeatInv
  <2>4. QED
    BY <2>1, <2>2, <2>3, JobAlone
<1>13. QED
  BY <1>1, <1>2, <1>3, <1>4, <1>5, <1>6, <1>7, <1>8, <1>9, <1>10, <1>11, <1>12 DEF MeatNext

(* MeatInv is an invariant of every instance of MeatChain.                  *)
THEOREM MeatInvariance == MeatSpec => []MeatInv
BY InitMeatInv, NextMeatInv, PTL DEF MeatSpec

(* A day has one load of a number, one count and one snapshot at most, and  *)
(* the weights of a snapshot are never negative (Clamp), for any number of  *)
(* days, requests and failures.                                             *)
THEOREM MeatTypeCorrect == MeatSpec => []MeatTypes
<1>1. MeatInv => MeatTypes
  BY DEF MeatInv
<1>2. QED
  BY <1>1, MeatInvariance, PTL

(* The job and the requests leave no stale snapshot behind: when they rest, *)
(* every day from the start of the chain on is what the facts give, unless  *)
(* since the last round something failed or a write came late that no round *)
(* follows (recomputeCostSnapshots, runChainMaterialize, cut_chain.go).     *)
THEOREM RestIsFresh == MeatSpec => []QuietIsFresh
<1>1. MeatInv => QuietIsFresh
  <2>1. SUFFICES ASSUME MeatInv, Quiet, ~dirty
                 PROVE  \A d \in opening.day .. LastDay : snap[d] = {Chain[d]}
    BY DEF QuietIsFresh
  <2>2. job.at = "off" /\ ~job.pending /\ FactTypes
    BY <2>1, InvParts DEF Quiet, JobOK, MeatTypes
  <2>3. \A w \in Threads : ~WillTrigger(thread[w])
    BY <2>1 DEF Quiet, At, WillTrigger
  <2>4. ChainHolds
    BY <2>1, <2>2, <2>3 DEF MeatInv, RoundDue
  <2>5. \A d \in opening.day .. LastDay : snap[d] = {Compute(d)}
    BY <2>2, <2>4 DEF ChainHolds, InWork
  <2>6. QED
    BY <2>2, <2>5, RowsAreChain
<1>2. QED
  BY <1>1, MeatInvariance, PTL

(* The counter of the positions is what the loads say less what went back   *)
(* overnight, through loads, corrections, deletions and a new start of the  *)
(* chain, unless two requests worked on one row (counter_load.go).          *)
THEOREM CounterIsTheRows == MeatSpec => []CounterIsRows
<1>1. MeatInv => CounterIsRows
  BY DEF MeatInv
<1>2. QED
  BY <1>1, MeatInvariance, PTL

(* A new start of the chain leaves no load before it, and none comes later, *)
(* unless it was checked before (stock_openings_cleanup.go).                *)
THEOREM NoneBeforeStart == MeatSpec => []NoLoadBeforeStart
<1>1. MeatInv => NoLoadBeforeStart
  BY DEF MeatInv
<1>2. QED
  BY <1>1, MeatInvariance, PTL

-----------------------------------------------------------------------------
(* The split.                                                               *)

(* Div rounds a quotient to a whole number next to it.                      *)
LEMMA Divides ==
  ASSUME NEW x \in Int, NEW y \in Int, y > 0
  PROVE  x \div y \in Int /\ y * (x \div y) <= x /\ x < y * (x \div y) + y
OBVIOUS

LEMMA DivIs ==
  ASSUME NEW n \in Int, NEW d \in Int, d > 0
  PROVE  /\ Div(n, d) \in Int
         /\ 2 * (d * Div(n, d)) <= 2 * n + d /\ 2 * n - d < 2 * (d * Div(n, d))
<1> DEFINE q == (2 * n + d) \div (2 * d)
<1>1. 2 * n + d \in Int /\ 2 * d \in Int /\ 2 * d > 0
  OBVIOUS
<1>2. q \in Int /\ (2 * d) * q <= 2 * n + d /\ 2 * n + d < (2 * d) * q + 2 * d
  BY <1>1, Divides
<1> HIDE DEF q
<1>3. (2 * d) * q = 2 * (d * q)
  BY <1>2
<1>4. QED
  BY <1>2, <1>3 DEF Div, q

LEMMA DivBounds ==
  ASSUME NEW n \in Int, NEW d \in Int, d > 0, NEW b \in Int
  PROVE  /\ n <= d * b => Div(n, d) <= b
         /\ d * b <= n => b <= Div(n, d)
<1> DEFINE q == Div(n, d)
<1>1. q \in Int /\ 2 * (d * q) <= 2 * n + d /\ 2 * n - d < 2 * (d * q)
  BY DivIs
<1> HIDE DEF q
<1>2. ASSUME n <= d * b, q >= b + 1 PROVE FALSE
  <2>1. d * q >= d * (b + 1) /\ d * (b + 1) = d * b + d /\ d * b \in Int
    BY <1>1, <1>2
  <2>2. QED
    BY <1>1, <1>2, <2>1
<1>3. ASSUME d * b <= n, q <= b - 1 PROVE FALSE
  <2>1. d * q <= d * (b - 1) /\ d * (b - 1) = d * b - d /\ d * b \in Int
    BY <1>1, <1>3
  <2>2. QED
    BY <1>1, <1>3, <2>1
<1>4. QED
  BY <1>1, <1>2, <1>3 DEF q

LEMMA CancelRounds ==
  ASSUME NEW d \in Int, d > 0, NEW T \in Int, NEW m \in Int, NEW k \in Int,
         2 * (d * T) - 2 * (m * d) \in -(d * k) .. d * k
  PROVE  2 * (T - m) \in -k .. k
<1> DEFINE v == 2 * (T - m)
<1>1. 2 * (d * T) - 2 * (m * d) = d * v
  OBVIOUS
<1>2. v \in Int /\ d * v <= d * k /\ d * (-k) <= d * v
  BY <1>1
<1> HIDE DEF v
<1>3. v <= k /\ -k <= v
  BY <1>2
<1>4. QED
  BY <1>2, <1>3 DEF v

(* One round: every cut gives its share of m, as long as it has it.         *)
Gives(t, pool, m, S) ==
  \A c \in S : pool[c] \in Nat /\ t[c] = AtMost(pool[c], Div(m * pool[c], SumFunctionOnSet(pool, S)))

LEMMA OneRound ==
  ASSUME NEW S, IsFiniteSet(S), NEW pool, NEW t, NEW m \in Nat, Gives(t, pool, m, S),
         SumFunctionOnSet(pool, S) > 0
  PROVE  LET d == SumFunctionOnSet(pool, S)
         IN /\ \A c \in S : t[c] \in Nat /\ t[c] <= pool[c] /\ t[c] <= m
            /\ m <= d => 2 * (SumFunctionOnSet(t, S) - m) \in -Cardinality(S) .. Cardinality(S)
            /\ d <= m => SumFunctionOnSet(t, S) = d /\ \A c \in S : t[c] = pool[c]
<1> DEFINE d == SumFunctionOnSet(pool, S)
<1>1. d \in Nat /\ d > 0 /\ \A c \in S : pool[c] \in Nat /\ pool[c] <= d
  BY SumNat DEF Gives
<1>2. \A c \in S : t[c] = AtMost(pool[c], Div(m * pool[c], d))
  BY DEF Gives
<1>3. Cardinality(S) \in Nat
  BY FS_CardinalityType
<1> HIDE DEF d
<1>4. ASSUME NEW c \in S
      PROVE  /\ m * pool[c] \in Int /\ Div(m * pool[c], d) \in Int
             /\ 2 * (d * Div(m * pool[c], d)) - 2 * (m * pool[c]) \in -d .. d
             /\ 0 <= Div(m * pool[c], d) /\ Div(m * pool[c], d) <= m
             /\ m <= d => Div(m * pool[c], d) <= pool[c]
             /\ d <= m => pool[c] <= Div(m * pool[c], d)
  <2> DEFINE x == pool[c]
  <2> DEFINE n == m * x
  <2>1. x \in Nat /\ x <= d
    BY <1>1
  <2> HIDE DEF x
  <2>2. n \in Int /\ d * 0 <= n /\ n <= d * m
    BY <1>1, <2>1
  <2>3. m <= d => n <= d * x
    BY <1>1, <2>1
  <2>4. d <= m => d * x <= n
    BY <1>1, <2>1
  <2> HIDE DEF n
  <2>5. /\ Div(n, d) \in Int /\ 2 * (d * Div(n, d)) <= 2 * n + d /\ 2 * n - d < 2 * (d * Div(n, d))
    BY <1>1, <2>2, DivIs
  <2>6. 2 * (d * Div(n, d)) - 2 * n \in -d .. d
    BY <1>1, <2>2, <2>5
  <2>7. /\ 0 <= Div(n, d) /\ Div(n, d) <= m
        /\ m <= d => Div(n, d) <= x
        /\ d <= m => x <= Div(n, d)
    <3>1. 0 \in Int /\ m \in Int /\ x \in Int /\ d \in Int /\ d > 0
      BY <1>1, <2>1
    <3>2. QED
      BY <2>2, <2>3, <2>4, <3>1, DivBounds
  <2>8. QED
    BY <2>2, <2>5, <2>6, <2>7 DEF n, x
<1>5. \A c \in S : t[c] \in Nat /\ t[c] <= pool[c] /\ t[c] <= m
  BY <1>1, <1>2, <1>4 DEF AtMost
<1>6. ASSUME m <= d
      PROVE  2 * (SumFunctionOnSet(t, S) - m) \in -Cardinality(S) .. Cardinality(S)
  <2>1. \A c \in S : t[c] = Div(m * pool[c], d)
    BY <1>1, <1>2, <1>4, <1>6 DEF AtMost
  <2>2. \A c \in S : t[c] \in Int /\ pool[c] \in Int /\ 2 * (d * t[c]) - 2 * (m * pool[c]) \in -d .. d
    BY <1>1, <1>4, <2>1
  <2> DEFINE T == SumFunctionOnSet(t, S)
  <2> DEFINE k == Cardinality(S)
  <2>3. T \in Int
    BY <1>5, SumInt
  <2>4. 2 * (d * T) - 2 * (m * SumFunctionOnSet(pool, S)) \in -(d * k) .. d * k
    BY <1>1, <2>2, SumRounded
  <2> HIDE DEF T, k
  <2>5. 2 * (d * T) - 2 * (m * d) \in -(d * k) .. d * k
    BY <2>4 DEF d
  <2>6. k \in Int
    BY <1>3 DEF k
  <2>7. 2 * (T - m) \in -k .. k
    BY <1>1, <2>3, <2>5, <2>6, CancelRounds
  <2>8. QED
    BY <2>7 DEF T, k
<1>7. ASSUME d <= m PROVE SumFunctionOnSet(t, S) = d /\ \A c \in S : t[c] = pool[c]
  <2>1. \A c \in S : t[c] = pool[c]
    BY <1>1, <1>2, <1>4, <1>7 DEF AtMost
  <2>2. \A c \in S : t[c] \in Int
    BY <1>5
  <2>3. SumFunctionOnSet(t, S) = SumFunctionOnSet(pool, S)
    BY <2>1, <2>2, SumCongruence
  <2>4. QED
    BY <2>1, <2>3 DEF d
<1>8. QED
  BY <1>5, <1>6, <1>7 DEF d

(* What a cut gave beyond what it should, and what the others can give.     *)
LEMMA OverAndPool ==
  ASSUME NEW s \in Weights, NEW a \in Weights
  PROVE  LET over == Over(s, a)
             others == Cuts \ over
             pool == Pool(s, a)
         IN /\ over \in SUBSET Cuts /\ others \in SUBSET Cuts /\ IsFiniteSet(over) /\ IsFiniteSet(others)
            /\ Cardinality(others) \in Nat /\ Cardinality(Cuts) \in Nat /\ Cardinality(others) <= Cardinality(Cuts)
            /\ \A c \in over : a[c] > s[c] /\ pool[c] = 0
            /\ \A c \in others : a[c] <= s[c] /\ pool[c] = s[c] - a[c]
            /\ pool \in Weights /\ sumKgOf(pool) \in Nat /\ sumKgOf(pool) = SumFunctionOnSet(pool, others)
            /\ Excess(s, a) \in Nat /\ (Excess(s, a) <= 0 => over = {})
            /\ SumFunctionOnSet(a, over) = SumFunctionOnSet(s, over) + Excess(s, a)
<1> DEFINE over == Over(s, a)
<1> DEFINE others == Cuts \ over
<1> DEFINE pool == Pool(s, a)
<1> DEFINE more == [c \in Cuts |-> a[c] - s[c]]
<1>1. \A c \in Cuts : s[c] \in Nat /\ a[c] \in Nat
  BY DEF Weights
<1>2. over \in SUBSET Cuts /\ others \in SUBSET Cuts
  BY DEF Over
<1>3. /\ IsFiniteSet(Cuts) /\ IsFiniteSet(over) /\ IsFiniteSet(others)
      /\ Cardinality(others) \in Nat /\ Cardinality(Cuts) \in Nat /\ Cardinality(others) <= Cardinality(Cuts)
  <2> HIDE DEF over, others
  <2>1. QED
    BY <1>2, CutAssumption, FS_Subset, FS_CardinalityType
<1>4. /\ \A c \in over : a[c] > s[c] /\ pool[c] = 0 /\ more[c] \in Nat /\ more[c] >= 1
      /\ \A c \in others : a[c] <= s[c] /\ pool[c] = s[c] - a[c]
      /\ \A c \in Cuts : pool[c] \in Nat /\ more[c] \in Int /\ a[c] = s[c] + more[c]
  BY <1>1 DEF Over, Pool, AtLeast0
<1>5. pool \in Weights
  BY <1>4 DEF Weights, Pool
<1> HIDE DEF over, others, pool, more
<1>6. SumFunctionOnSet(pool, Cuts) \in Nat
  BY <1>3, <1>4, SumNat
<1>7. SumFunctionOnSet(pool, Cuts) = SumFunctionOnSet(pool, others)
  <2>1. SumFunctionOnSet(pool, over) = 0
    BY <1>3, <1>4, SumZero
  <2>2. SumFunctionOnSet(pool, Cuts) = SumFunctionOnSet(pool, over) + SumFunctionOnSet(pool, Cuts \ over)
    BY <1>2, <1>3, <1>4, SumSplit
  <2>3. \A c \in others : pool[c] \in Int
    BY <1>2, <1>4
  <2>4. SumFunctionOnSet(pool, others) \in Int
    BY <1>3, <2>3, SumInt
  <2>5. QED
    BY <2>1, <2>2, <2>4 DEF others
<1>8. SumFunctionOnSet(more, over) \in Nat /\ \A c \in over : more[c] <= SumFunctionOnSet(more, over)
  BY <1>3, <1>4, SumNat
<1>9. SumFunctionOnSet(more, over) <= 0 => over = {}
  BY <1>4, <1>8
<1>10. SumFunctionOnSet(a, over) = SumFunctionOnSet(s, over) + SumFunctionOnSet(more, over)
  <2>1. \A c \in over : s[c] \in Int /\ more[c] \in Int /\ a[c] = s[c] + more[c]
    BY <1>1, <1>2, <1>4
  <2>2. QED
    BY <1>3, <2>1, SumPlus
<1>11. Excess(s, a) = SumFunctionOnSet(more, over)
  BY DEF Excess, more, over
<1>12. QED
  BY <1>2, <1>3, <1>4, <1>5, <1>6, <1>7, <1>8, <1>9, <1>10, <1>11 DEF over, others, pool, sumKgOf

(* The weights when something is to be moved, in whole numbers: E is what   *)
(* is over, P what the others can give, S what they should have given.      *)
LEMMA SplitArithmetic ==
  ASSUME NEW E \in Int, NEW P \in Int, NEW S \in Int, NEW n \in Int, NEW k \in Int,
         NEW F \in Int, NEW T \in Int, NEW U \in Int,
         0 <= k, k <= n, P > 0, E > 0, F >= 0, U >= 0,
         F = S - T,
         E <= P => 2 * (T - E) \in -n .. n,
         P <= E => T = P,
         E - T <= 0 \/ F <= 0 => U = 0,
         E - T > 0 /\ F > 0 /\ E - T <= F => 2 * (U - (E - T)) \in -k .. k,
         E - T > 0 /\ F > 0 /\ F <= E - T => U = F
  PROVE  /\ E <= S => 2 * (E - T - U) \in -n .. n
         /\ E <= P => 2 * (E - T) <= n
OBVIOUS

(* The first round takes from the others what is over, or all they can      *)
(* give, and leaves each of them what it gave.                              *)
LEMMA FirstGives ==
  ASSUME NEW s \in Weights, NEW a \in Weights, sumKgOf(Pool(s, a)) > 0
  PROVE  LET others == Cuts \ Over(s, a)
             first == FirstRound(s, a)
             E == Excess(s, a)
             P == sumKgOf(Pool(s, a))
             T == SumFunctionOnSet(s, others) - SumFunctionOnSet(first, others)
             n == Cardinality(Cuts)
         IN /\ \A c \in others : first[c] \in Nat /\ a[c] <= first[c]
            /\ SumFunctionOnSet(s, others) \in Nat /\ SumFunctionOnSet(first, others) \in Nat
            /\ E <= P => 2 * (T - E) \in -n .. n
            /\ P <= E => T = P
<1> DEFINE over == Over(s, a)
<1> DEFINE others == Cuts \ over
<1> DEFINE pool == Pool(s, a)
<1> DEFINE first == FirstRound(s, a)
<1> DEFINE E == Excess(s, a)
<1> DEFINE P == sumKgOf(pool)
<1> DEFINE t == [c \in Cuts |-> AtMost(pool[c], Div(E * pool[c], P))]
<1> DEFINE n == Cardinality(Cuts)
<1>1. /\ over \in SUBSET Cuts /\ others \in SUBSET Cuts /\ IsFiniteSet(over) /\ IsFiniteSet(others)
      /\ \A c \in over : pool[c] = 0
      /\ \A c \in others : a[c] <= s[c] /\ pool[c] = s[c] - a[c]
      /\ pool \in Weights /\ P \in Nat /\ E \in Nat /\ P > 0
  BY OverAndPool
<1>2. \A c \in Cuts : s[c] \in Nat /\ a[c] \in Nat /\ pool[c] \in Nat
  BY <1>1 DEF Weights
<1>3. P = SumFunctionOnSet(pool, Cuts)
  BY DEF sumKgOf
<1>4. \A c \in Cuts : first[c] = s[c] - t[c]
  BY DEF FirstRound
<1>5. IsFiniteSet(Cuts)
  BY CutAssumption
<1>6. \A c \in Cuts : t[c] = AtMost(pool[c], Div(E * pool[c], P))
  OBVIOUS
<1> HIDE DEF over, others, pool, first, E, P, t
<1>7. Gives(t, pool, E, Cuts)
  BY <1>2, <1>3, <1>6 DEF Gives
<1>8. /\ \A c \in Cuts : t[c] \in Nat /\ t[c] <= pool[c]
      /\ E <= P => 2 * (SumFunctionOnSet(t, Cuts) - E) \in -n .. n
      /\ P <= E => SumFunctionOnSet(t, Cuts) = P
  <2>1. E \in Nat /\ SumFunctionOnSet(pool, Cuts) > 0
    BY <1>1, <1>3
  <2>2. /\ \A c \in Cuts : t[c] \in Nat /\ t[c] <= pool[c] /\ t[c] <= E
        /\ E <= SumFunctionOnSet(pool, Cuts) => 2 * (SumFunctionOnSet(t, Cuts) - E) \in -n .. n
        /\ SumFunctionOnSet(pool, Cuts) <= E
             => SumFunctionOnSet(t, Cuts) = SumFunctionOnSet(pool, Cuts) /\ \A c \in Cuts : t[c] = pool[c]
    BY <1>5, <1>7, <2>1, OneRound
  <2>3. QED
    BY <1>3, <2>2
<1>9. \A c \in others : first[c] \in Nat /\ a[c] <= first[c] /\ s[c] = first[c] + t[c]
  BY <1>1, <1>2, <1>4, <1>8
<1>10. SumFunctionOnSet(t, Cuts) = SumFunctionOnSet(t, others)
  <2>1. \A c \in over : t[c] = 0
    BY <1>1, <1>2, <1>8
  <2>2. SumFunctionOnSet(t, over) = 0
    BY <1>1, <2>1, SumZero
  <2>3. \A c \in Cuts : t[c] \in Int
    BY <1>8
  <2>4. SumFunctionOnSet(t, Cuts) = SumFunctionOnSet(t, over) + SumFunctionOnSet(t, Cuts \ over)
    BY <1>1, <1>5, <2>3, SumSplit
  <2>5. \A c \in others : t[c] \in Int
    BY <1>1, <1>8
  <2>6. SumFunctionOnSet(t, others) \in Int
    BY <1>1, <2>5, SumInt
  <2>7. QED
    BY <2>2, <2>4, <2>6 DEF others
<1>11. SumFunctionOnSet(s, others) = SumFunctionOnSet(first, others) + SumFunctionOnSet(t, others)
  <2>1. \A c \in others : first[c] \in Int /\ t[c] \in Int /\ s[c] = first[c] + t[c]
    BY <1>1, <1>8, <1>9
  <2>2. QED
    BY <1>1, <2>1, SumPlus
<1>12. SumFunctionOnSet(first, others) \in Nat
  BY <1>1, <1>9, SumNat
<1>13. SumFunctionOnSet(t, others) \in Nat
  <2>1. \A c \in others : t[c] \in Nat
    BY <1>1, <1>8
  <2>2. QED
    BY <1>1, <2>1, SumNat
<1> DEFINE T == SumFunctionOnSet(s, others) - SumFunctionOnSet(first, others)
<1>14. T = SumFunctionOnSet(t, Cuts)
  BY <1>10, <1>11, <1>12, <1>13
<1>15. SumFunctionOnSet(s, others) \in Nat
  BY <1>11, <1>12, <1>13
<1>16. /\ E <= P => 2 * (T - E) \in -n .. n
       /\ P <= E => T = P
  BY <1>8, <1>14
<1>17. QED
  BY <1>9, <1>12, <1>15, <1>16 DEF over, others, pool, first, E, P

(* The second takes what is still over from what the others have.           *)
LEMMA SecondGives ==
  ASSUME NEW S \in SUBSET Cuts, NEW w, \A c \in S : w[c] \in Nat, NEW rest \in Int
  PROVE  LET second == SecondRound(w, rest, S)
             F == SumFunctionOnSet(w, S)
             U == F - SumFunctionOnSet(second, S)
             k == Cardinality(S)
         IN /\ F \in Nat /\ SumFunctionOnSet(second, S) \in Nat /\ U >= 0
            /\ \A c \in S : second[c] \in Nat
            /\ \A c \in S : w[c] - second[c] <= 0 \/ w[c] - second[c] <= rest
            /\ rest <= 0 \/ F <= 0 => U = 0
            /\ rest > 0 /\ F > 0 /\ rest <= F => 2 * (U - rest) \in -k .. k
            /\ rest > 0 /\ F > 0 /\ F <= rest => U = F
<1> DEFINE second == SecondRound(w, rest, S)
<1> DEFINE F == SumFunctionOnSet(w, S)
<1> DEFINE k == Cardinality(S)
<1>1. IsFiniteSet(S)
  BY CutAssumption, FS_Subset
<1>2. F \in Nat
  BY <1>1, SumNat
<1>3. CASE rest <= 0 \/ F <= 0
  <2>1. second = w
    BY <1>3 DEF SecondRound
  <2> HIDE DEF second, F
  <2>2. SumFunctionOnSet(second, S) = F
    BY <2>1 DEF F
  <2>3. \A c \in S : second[c] \in Nat /\ w[c] - second[c] <= 0
    BY <2>1
  <2>4. F - SumFunctionOnSet(second, S) = 0
    BY <1>2, <2>2
  <2>5. QED
    BY <1>2, <1>3, <2>2, <2>3, <2>4 DEF second, F
<1>4. CASE rest > 0 /\ F > 0
  <2> DEFINE t == [c \in S |-> AtMost(w[c], Div(rest * w[c], F))]
  <2>1. \A c \in S : second[c] = w[c] - t[c] /\ t[c] = AtMost(w[c], Div(rest * w[c], F))
    BY <1>2, <1>4 DEF SecondRound
  <2> HIDE DEF second, t
  <2>2. Gives(t, w, rest, S)
    BY <2>1 DEF Gives
  <2>3. rest \in Nat
    BY <1>4
  <2> DEFINE Ts == SumFunctionOnSet(t, S)
  <2>4. /\ \A c \in S : t[c] \in Nat /\ t[c] <= w[c] /\ t[c] <= rest
        /\ rest <= F => 2 * (Ts - rest) \in -k .. k
        /\ F <= rest => Ts = F
    BY <1>1, <1>4, <2>2, <2>3, OneRound
  <2>5. \A c \in S : second[c] \in Nat /\ t[c] \in Int /\ w[c] = second[c] + t[c] /\ w[c] - second[c] <= rest
    BY <2>1, <2>4
  <2>6. F = SumFunctionOnSet(second, S) + Ts
    <3>1. \A c \in S : second[c] \in Int /\ t[c] \in Int /\ w[c] = second[c] + t[c]
      BY <2>5
    <3>2. QED
      BY <1>1, <3>1, SumPlus
  <2>7. SumFunctionOnSet(second, S) \in Nat
    BY <1>1, <2>5, SumNat
  <2>8. Ts \in Nat
    BY <1>1, <2>4, SumNat
  <2> HIDE DEF F, Ts, k
  <2>9. F - SumFunctionOnSet(second, S) = Ts
    BY <2>6, <2>7, <2>8
  <2>10. QED
    BY <1>2, <1>4, <2>4, <2>5, <2>7, <2>8, <2>9 DEF second, F, Ts, k
<1>5. QED
  BY <1>2, <1>3, <1>4

LEMMA TwoRounds ==
  ASSUME NEW s \in Weights, NEW a \in Weights, sumKgOf(Pool(s, a)) > 0, Over(s, a) # {}
  PROVE  LET others == Cuts \ Over(s, a)
             first == FirstRound(s, a)
             E == Excess(s, a)
             S == SumFunctionOnSet(s, others)
             F == SumFunctionOnSet(first, others)
             rest == E - (S - F)
             second == SecondRound(first, rest, others)
             left == rest - (F - SumFunctionOnSet(second, others))
             n == Cardinality(Cuts)
         IN /\ S \in Nat /\ SumFunctionOnSet(second, others) \in Nat /\ left = E - S + SumFunctionOnSet(second, others)
            /\ \A c \in others : second[c] \in Nat
            /\ E <= sumKgOf(Pool(s, a)) => \A c \in others : 2 * (a[c] - second[c]) <= n
            /\ E <= S => 2 * left \in -n .. n
<1> DEFINE others == Cuts \ Over(s, a)
<1> DEFINE first == FirstRound(s, a)
<1> DEFINE E == Excess(s, a)
<1> DEFINE P == sumKgOf(Pool(s, a))
<1> DEFINE S == SumFunctionOnSet(s, others)
<1> DEFINE F == SumFunctionOnSet(first, others)
<1> DEFINE T == S - F
<1> DEFINE rest == E - T
<1> DEFINE second == SecondRound(first, rest, others)
<1> DEFINE R == SumFunctionOnSet(second, others)
<1> DEFINE U == F - R
<1> DEFINE n == Cardinality(Cuts)
<1> DEFINE k == Cardinality(others)
<1>1. /\ others \in SUBSET Cuts /\ k \in Nat /\ n \in Nat /\ k <= n
      /\ P \in Nat /\ P > 0 /\ E \in Nat /\ E > 0
  <2>1. /\ others \in SUBSET Cuts /\ k \in Nat /\ n \in Nat /\ k <= n
        /\ P \in Nat /\ E \in Nat /\ (E <= 0 => Over(s, a) = {})
    BY OverAndPool
  <2> HIDE DEF others, E, P, k, n
  <2>2. E > 0
    BY <2>1
  <2>3. P > 0
    BY DEF P
  <2>4. QED
    BY <2>1, <2>2, <2>3
<1>2. /\ \A c \in others : first[c] \in Nat /\ a[c] <= first[c]
      /\ S \in Nat /\ F \in Nat
      /\ E <= P => 2 * (T - E) \in -n .. n
      /\ P <= E => T = P
  BY FirstGives
<1>3. rest \in Int
  BY <1>1, <1>2
<1> HIDE DEF others, first, E, P, S, rest
<1>4. /\ R \in Nat /\ U >= 0
      /\ \A c \in others : second[c] \in Nat
      /\ \A c \in others : first[c] - second[c] <= 0 \/ first[c] - second[c] <= rest
      /\ rest <= 0 \/ F <= 0 => U = 0
      /\ rest > 0 /\ F > 0 /\ rest <= F => 2 * (U - rest) \in -k .. k
      /\ rest > 0 /\ F > 0 /\ F <= rest => U = F
  <2>1. \A c \in others : first[c] \in Nat
    BY <1>2
  <2>2. QED
    BY <1>1, <1>3, <2>1, SecondGives
<1> HIDE DEF second, R, F, n, k
<1>5. /\ E <= S => 2 * (E - T - U) \in -n .. n
      /\ E <= P => 2 * (E - T) <= n
  <2> DEFINE TT == T
  <2> DEFINE UU == U
  <2>1. /\ E \in Int /\ P \in Int /\ S \in Int /\ n \in Int /\ k \in Int /\ F \in Int /\ TT \in Int /\ UU \in Int
        /\ 0 <= k /\ k <= n /\ P > 0 /\ E > 0 /\ F >= 0 /\ UU >= 0 /\ F = S - TT
    BY <1>1, <1>2, <1>4
  <2>2. /\ E <= P => 2 * (TT - E) \in -n .. n
        /\ P <= E => TT = P
    BY <1>2
  <2>3. /\ E - TT <= 0 \/ F <= 0 => UU = 0
        /\ E - TT > 0 /\ F > 0 /\ E - TT <= F => 2 * (UU - (E - TT)) \in -k .. k
        /\ E - TT > 0 /\ F > 0 /\ F <= E - TT => UU = F
    BY <1>4 DEF rest
  <2> HIDE DEF TT, UU
  <2>4. /\ E <= S => 2 * (E - TT - UU) \in -n .. n
        /\ E <= P => 2 * (E - TT) <= n
    BY <2>1, <2>2, <2>3, SplitArithmetic
  <2>5. QED
    BY <2>4 DEF TT, UU
<1>6. E <= P => \A c \in others : 2 * (a[c] - second[c]) <= n
  <2>1. \A c \in others : a[c] \in Nat
    BY <1>1 DEF Weights
  <2>2. rest = E - T
    BY DEF rest
  <2>3. ASSUME E <= P, NEW c \in others PROVE 2 * (a[c] - second[c]) <= n
    <3>1. a[c] \in Nat /\ first[c] \in Nat /\ second[c] \in Nat /\ a[c] <= first[c]
      BY <1>2, <1>4, <2>1
    <3>2. first[c] - second[c] <= 0 \/ first[c] - second[c] <= rest
      BY <1>4
    <3>3. 2 * rest <= n
      BY <1>5, <2>2, <2>3
    <3>4. QED
      BY <1>1, <1>3, <3>1, <3>2, <3>3
  <2>4. QED
    BY <2>3
<1>7. rest - U = E - S + R /\ rest - U = E - T - U
  BY <1>1, <1>2, <1>4 DEF rest
<1>8. E <= S => 2 * (rest - U) \in -n .. n
  BY <1>5, <1>7
<1>9. QED
  BY <1>2, <1>4, <1>6, <1>7, <1>8 DEF others, first, E, P, S, F, rest, second, R, n

(* The weights, whatever case they are in.                                  *)
Redistributes(s, a, r) ==
  LET others == Cuts \ Over(s, a)
      n == Cardinality(Cuts)
  IN /\ r.w \in Weights
     /\ Excess(s, a) <= SumFunctionOnSet(s, others) => Near(sumKgOf(r.w), sumKgOf(s))
     /\ Excess(s, a) <= sumKgOf(Pool(s, a)) =>
          /\ \A c \in Over(s, a) : r.w[c] = a[c]
          /\ \A c \in others : 2 * (a[c] - r.w[c]) <= n
     /\ sumKgOf(s) > 0 /\ Excess(s, a) > SumFunctionOnSet(s, others) => r.note

(* Where nothing is moved.                                                  *)
LEMMA Unmoved ==
  ASSUME NEW s \in Weights, NEW a \in Weights, NEW note \in BOOLEAN,
         sumKgOf(s) <= 0 \/ Over(s, a) = {} \/ (sumKgOf(Pool(s, a)) <= 0 /\ note)
  PROVE  Redistributes(s, a, [w |-> s, note |-> note])
<1> DEFINE over == Over(s, a)
<1> DEFINE others == Cuts \ over
<1> DEFINE pool == Pool(s, a)
<1> DEFINE E == Excess(s, a)
<1> DEFINE n == Cardinality(Cuts)
<1> DEFINE S == SumFunctionOnSet(s, others)
<1>1. /\ others \in SUBSET Cuts /\ IsFiniteSet(others) /\ n \in Nat
      /\ \A c \in others : a[c] <= s[c]
      /\ pool \in Weights /\ sumKgOf(pool) \in Nat /\ E \in Nat /\ (E <= 0 => over = {})
  BY OverAndPool
<1>2. \A c \in Cuts : s[c] \in Nat /\ a[c] \in Nat /\ pool[c] \in Nat /\ pool[c] <= s[c]
  BY DEF Weights, Pool, AtLeast0
<1>3. IsFiniteSet(Cuts)
  BY CutAssumption
<1> HIDE DEF others, pool, E, n, S
<1>4. sumKgOf(s) \in Nat
  BY <1>2, <1>3, SumNat DEF sumKgOf
<1>5. S \in Nat
  <2>1. \A c \in others : s[c] \in Nat
    BY <1>1, <1>2
  <2>2. QED
    BY <1>1, <2>1, SumNat DEF S
<1>6. sumKgOf(pool) <= sumKgOf(s)
  <2>1. \A c \in Cuts : pool[c] \in Int /\ s[c] \in Int /\ pool[c] <= s[c]
    BY <1>2
  <2>2. QED
    BY <1>3, <2>1, SumMonotone DEF sumKgOf
<1>7. Near(sumKgOf(s), sumKgOf(s))
  BY <1>1, <1>4 DEF Near, n
<1>8. ASSUME E <= sumKgOf(pool) PROVE over = {}
  <2>1. CASE over = {}
    BY <2>1
  <2>2. CASE sumKgOf(s) <= 0 \/ sumKgOf(pool) <= 0
    BY <1>1, <1>4, <1>6, <1>8, <2>2
  <2>3. QED
    BY <2>1, <2>2 DEF pool
<1>9. \A c \in others : 2 * (a[c] - s[c]) <= n
  <2>1. ASSUME NEW c \in others PROVE 2 * (a[c] - s[c]) <= n
    <3>1. a[c] \in Nat /\ s[c] \in Nat /\ a[c] <= s[c]
      BY <1>1, <1>2
    <3>2. QED
      BY <1>1, <3>1
  <2>2. QED
    BY <2>1
<1>10. ASSUME sumKgOf(s) > 0, E > S PROVE note
  <2>1. CASE over = {}
    <3>1. E = 0
      BY <2>1, SumEmpty DEF E, Excess
    <3>2. QED
      BY <1>5, <1>10, <3>1
  <2>2. CASE sumKgOf(s) <= 0
    BY <1>4, <1>10, <2>2
  <2>3. QED
    BY <2>1, <2>2
<1>11. QED
  BY <1>7, <1>8, <1>9, <1>10 DEF Redistributes, others, pool, E, n, S

(* Where something is.                                                      *)
LEMMA Moved ==
  ASSUME NEW s \in Weights, NEW a \in Weights, NEW second, NEW left \in Int,
         LET others == Cuts \ Over(s, a)
             E == Excess(s, a)
             S == SumFunctionOnSet(s, others)
             n == Cardinality(Cuts)
         IN /\ S \in Nat /\ SumFunctionOnSet(second, others) \in Nat /\ left = E - S + SumFunctionOnSet(second, others)
            /\ \A c \in others : second[c] \in Nat
            /\ E <= sumKgOf(Pool(s, a)) => \A c \in others : 2 * (a[c] - second[c]) <= n
            /\ E <= S => 2 * left \in -n .. n
  PROVE  Redistributes(s, a, [w |-> [c \in Cuts |-> IF c \in Over(s, a) THEN a[c] ELSE second[c]],
                              note |-> left > 0])
<1> DEFINE over == Over(s, a)
<1> DEFINE others == Cuts \ over
<1> DEFINE w == [c \in Cuts |-> IF c \in over THEN a[c] ELSE second[c]]
<1> DEFINE E == Excess(s, a)
<1> DEFINE n == Cardinality(Cuts)
<1> DEFINE S == SumFunctionOnSet(s, others)
<1> DEFINE R == SumFunctionOnSet(second, others)
<1>1. /\ over \in SUBSET Cuts /\ others \in SUBSET Cuts /\ IsFiniteSet(over) /\ IsFiniteSet(others)
      /\ n \in Nat /\ E \in Nat
      /\ SumFunctionOnSet(a, over) = SumFunctionOnSet(s, over) + E
  BY OverAndPool
<1>2. /\ S \in Nat /\ R \in Nat /\ left = E - S + R
      /\ \A c \in others : second[c] \in Nat
      /\ E <= sumKgOf(Pool(s, a)) => \A c \in others : 2 * (a[c] - second[c]) <= n
      /\ E <= S => 2 * left \in -n .. n
  OBVIOUS
<1>3. \A c \in Cuts : s[c] \in Nat /\ a[c] \in Nat
  BY DEF Weights
<1>4. IsFiniteSet(Cuts)
  BY CutAssumption
<1>5. w \in Weights
  BY <1>2, <1>3 DEF Weights
<1>6. /\ \A c \in over : w[c] = a[c]
      /\ \A c \in others : w[c] = second[c]
      /\ \A c \in Cuts : w[c] \in Nat
  BY <1>1, <1>2, <1>3
<1> HIDE DEF over, w, E, n
<1>7. sumKgOf(w) = SumFunctionOnSet(a, over) + R
  <2>1. \A c \in Cuts : w[c] \in Int
    BY <1>6
  <2>2. SumFunctionOnSet(w, Cuts) = SumFunctionOnSet(w, over) + SumFunctionOnSet(w, others)
    BY <1>1, <1>4, <2>1, SumSplit
  <2> HIDE DEF others
  <2>3. SumFunctionOnSet(w, over) = SumFunctionOnSet(a, over)
    <3>1. \A c \in over : w[c] \in Int /\ w[c] = a[c]
      BY <1>1, <1>6
    <3>2. QED
      BY <1>1, <3>1, SumCongruence
  <2>4. SumFunctionOnSet(w, others) = SumFunctionOnSet(second, others)
    <3>1. \A c \in others : w[c] \in Int /\ w[c] = second[c]
      BY <1>1, <1>6
    <3>2. QED
      BY <1>1, <3>1, SumCongruence
  <2>5. QED
    BY <2>2, <2>3, <2>4 DEF sumKgOf
<1>8. sumKgOf(s) = SumFunctionOnSet(s, over) + S
  <2>1. \A c \in Cuts : s[c] \in Int
    BY <1>3
  <2>2. QED
    BY <1>1, <1>4, <2>1, SumSplit DEF sumKgOf
<1>9. SumFunctionOnSet(s, over) \in Nat
  <2>1. \A c \in over : s[c] \in Nat
    BY <1>1, <1>3
  <2>2. QED
    BY <1>1, <2>1, SumNat
<1> HIDE DEF S, R
<1>10. sumKgOf(w) - sumKgOf(s) = left
  BY <1>1, <1>2, <1>7, <1>8, <1>9
<1>11. E <= S => Near(sumKgOf(w), sumKgOf(s))
  BY <1>2, <1>10 DEF Near, n
<1>12. E <= sumKgOf(Pool(s, a)) => \A c \in others : 2 * (a[c] - w[c]) <= n
  BY <1>2, <1>6
<1>13. E > S => left > 0
  BY <1>1, <1>2
<1>14. QED
  <2>1. Redistributes(s, a, [w |-> w, note |-> left > 0])
    BY <1>5, <1>6, <1>11, <1>12, <1>13 DEF Redistributes, over, E, n, S
  <2>2. QED
    BY <2>1 DEF w, over

LEMMA Redistributed ==
  ASSUME NEW s \in Weights, NEW a \in Weights
  PROVE  Redistributes(s, a, redistributeSplitWeights(s, a))
<1> DEFINE over == Over(s, a)
<1>1. CASE sumKgOf(s) <= 0 \/ over = {}
  <2>1. redistributeSplitWeights(s, a) = [w |-> s, note |-> FALSE]
    BY <1>1 DEF redistributeSplitWeights
  <2>2. Redistributes(s, a, [w |-> s, note |-> FALSE])
    BY <1>1, Unmoved
  <2>3. QED
    BY <2>1, <2>2
<1>2. CASE ~(sumKgOf(s) <= 0 \/ over = {}) /\ sumKgOf(Pool(s, a)) <= 0
  <2>1. redistributeSplitWeights(s, a) = [w |-> s, note |-> TRUE]
    BY <1>2 DEF redistributeSplitWeights
  <2>2. Redistributes(s, a, [w |-> s, note |-> TRUE])
    BY <1>2, Unmoved
  <2>3. QED
    BY <2>1, <2>2
<1>3. CASE ~(sumKgOf(s) <= 0 \/ over = {}) /\ ~(sumKgOf(Pool(s, a)) <= 0)
  <2> DEFINE others == Cuts \ over
  <2> DEFINE first == FirstRound(s, a)
  <2> DEFINE rest == Excess(s, a) - (SumFunctionOnSet(s, others) - SumFunctionOnSet(first, others))
  <2> DEFINE second == SecondRound(first, rest, others)
  <2> DEFINE left == rest - (SumFunctionOnSet(first, others) - SumFunctionOnSet(second, others))
  <2>1. redistributeSplitWeights(s, a) =
          [w |-> [c \in Cuts |-> IF c \in over THEN a[c] ELSE second[c]], note |-> left > 0]
    BY <1>3 DEF redistributeSplitWeights
  <2>2. sumKgOf(Pool(s, a)) > 0
    <3>1. sumKgOf(Pool(s, a)) \in Nat
      BY OverAndPool
    <3>2. QED
      BY <1>3, <3>1
  <2> DEFINE E == Excess(s, a)
  <2> DEFINE S == SumFunctionOnSet(s, others)
  <2> DEFINE n == Cardinality(Cuts)
  <2>3. /\ S \in Nat /\ SumFunctionOnSet(second, others) \in Nat /\ left = E - S + SumFunctionOnSet(second, others)
        /\ \A c \in others : second[c] \in Nat
        /\ E <= sumKgOf(Pool(s, a)) => \A c \in others : 2 * (a[c] - second[c]) <= n
        /\ E <= S => 2 * left \in -n .. n
    BY <1>3, <2>2, TwoRounds
  <2>4. E \in Nat
    BY OverAndPool
  <2> HIDE DEF second, left
  <2>5. left \in Int
    BY <2>3, <2>4
  <2>6. Redistributes(s, a, [w |-> [c \in Cuts |-> IF c \in Over(s, a) THEN a[c] ELSE second[c]],
                             note |-> left > 0])
    BY <2>3, <2>5, Moved
  <2>7. QED
    BY <2>1, <2>6 DEF second, left
<1>4. QED
  BY <1>1, <1>2, <1>3

(* The cost of the day, spread by the weights.                              *)
LEMMA CostSpread ==
  ASSUME NEW w \in Weights, NEW kg \in Weights, NEW amt \in Weights
  PROVE  LET after == applySplitWeights(w, kg, amt)
         IN /\ Near(sumKgOf(after.amt), sumKgOf(amt))
            /\ \A c \in Cuts : after.amt[c] > 0 /\ w # Nothing => after.kg[c] > 0
<1> DEFINE after == applySplitWeights(w, kg, amt)
<1> DEFINE total == sumKgOf(w)
<1> DEFINE T == sumKgOf(amt)
<1> DEFINE n == Cardinality(Cuts)
<1>1. \A c \in Cuts : w[c] \in Nat /\ amt[c] \in Nat
  BY DEF Weights
<1>2. IsFiniteSet(Cuts) /\ n \in Nat
  BY CutAssumption, FS_CardinalityType
<1>3. T \in Nat /\ total \in Nat /\ \A c \in Cuts : w[c] <= total
  BY <1>1, <1>2, SumNat DEF sumKgOf
<1>4. CASE total <= 0
  <2>1. after.amt = amt
    BY <1>4 DEF applySplitWeights
  <2> HIDE DEF after, T, n
  <2>2. Near(T, T)
    BY <1>2, <1>3 DEF Near, n
  <2>3. w = Nothing
    <3>1. \A c \in Cuts : w[c] = 0
      BY <1>1, <1>3, <1>4
    <3>2. QED
      BY <3>1 DEF Weights, Nothing
  <2>4. QED
    BY <2>1, <2>2, <2>3 DEF after, T
<1>5. CASE total > 0
  <2> DEFINE t == [c \in Cuts |-> IF w[c] <= 0 THEN 0 ELSE Div(T * w[c], total)]
  <2>1. after = [kg |-> [c \in Cuts |-> AtLeast0(w[c])], amt |-> t]
    <3>1. ~(total <= 0)
      BY <1>3, <1>5
    <3>2. QED
      BY <3>1 DEF applySplitWeights
  <2>2. after.amt = t /\ \A c \in Cuts : after.kg[c] = AtLeast0(w[c])
    BY <2>1
  <2>3. \A c \in Cuts : t[c] = IF w[c] <= 0 THEN 0 ELSE Div(T * w[c], total)
    OBVIOUS
  <2> HIDE DEF after, T, total, t, n
  <2>4. ASSUME NEW c \in Cuts
        PROVE  t[c] \in Int /\ w[c] \in Int /\ 2 * (total * t[c]) - 2 * (T * w[c]) \in -total .. total
    <3> DEFINE x == w[c]
    <3> DEFINE m == T * x
    <3>1. x \in Nat /\ m \in Int
      BY <1>1, <1>3
    <3>2. CASE x <= 0
      <4>1. t[c] = 0 /\ x = 0
        BY <2>3, <3>1, <3>2
      <4>2. QED
        BY <1>3, <1>5, <4>1
    <3>3. CASE ~(x <= 0)
      <4>1. t[c] = Div(m, total)
        BY <2>3, <3>3
      <4> HIDE DEF x, m
      <4>2. /\ Div(m, total) \in Int
            /\ 2 * (total * Div(m, total)) <= 2 * m + total /\ 2 * m - total < 2 * (total * Div(m, total))
        BY <1>3, <1>5, <3>1, DivIs
      <4>3. t[c] \in Int /\ 2 * (total * t[c]) - 2 * m \in -total .. total
        BY <1>3, <3>1, <4>1, <4>2
      <4>4. QED
        BY <3>1, <4>3 DEF x, m
    <3>4. QED
      BY <3>2, <3>3
  <2> DEFINE s == SumFunctionOnSet(t, Cuts)
  <2>5. s \in Int
    BY <1>2, <2>4, SumInt
  <2>6. 2 * (total * s) - 2 * (T * SumFunctionOnSet(w, Cuts)) \in -(total * n) .. total * n
    BY <1>2, <1>3, <1>5, <2>4, SumRounded DEF n
  <2> HIDE DEF s
  <2>7. 2 * (total * s) - 2 * (T * total) \in -(total * n) .. total * n
    BY <2>6 DEF total, sumKgOf
  <2>8. 2 * (s - T) \in -n .. n
    BY <1>2, <1>3, <1>5, <2>5, <2>7, CancelRounds
  <2>9. Near(sumKgOf(after.amt), T)
    BY <2>2, <2>8 DEF Near, n, s, sumKgOf
  <2>10. \A c \in Cuts : after.amt[c] > 0 => after.kg[c] > 0
    <3>1. ASSUME NEW c \in Cuts, after.amt[c] > 0 PROVE after.kg[c] > 0
      <4>1. w[c] > 0
        BY <1>1, <2>2, <2>3, <3>1
      <4>2. QED
        BY <1>1, <2>2, <4>1 DEF AtLeast0
    <3>2. QED
      BY <3>1
  <2>11. QED
    BY <2>9, <2>10 DEF after, T
<1>6. QED
  BY <1>3, <1>4, <1>5

(* A pig gives no more than it weighs.                                      *)
LEMMA Largest ==
  ASSUME NEW s \in Weights, Cuts # {}
  PROVE  \E c \in Cuts : \A d \in Cuts : s[d] < s[c] \/ (s[d] = s[c] /\ c <= d)
<1> DEFINE k == sumKgOf(s)
<1>1. \A c \in Cuts : c \in Nat /\ s[c] \in Nat
  BY CutAssumption DEF Weights
<1>2. IsFiniteSet(Cuts)
  BY CutAssumption
<1>3. k \in Nat /\ \A c \in Cuts : s[c] <= k
  BY <1>1, <1>2, SumNat DEF sumKgOf
<1> HIDE DEF k
<1> DEFINE lacks == {k - s[c] : c \in Cuts}
<1>4. lacks \in SUBSET Nat /\ lacks # {}
  BY <1>1, <1>3
<1> HIDE DEF lacks
<1>5. PICK m \in lacks : \A y \in lacks : m <= y
  BY <1>4, LeastNat
<1> DEFINE best == {c \in Cuts : k - s[c] = m}
<1>6. best \in SUBSET Nat /\ best # {}
  BY <1>1, <1>5 DEF lacks
<1> HIDE DEF best
<1>7. PICK c \in best : \A d \in best : c <= d
  BY <1>6, LeastNat
<1>8. c \in Cuts /\ k - s[c] = m
  BY <1>7 DEF best
<1>9. ASSUME NEW d \in Cuts PROVE s[d] < s[c] \/ (s[d] = s[c] /\ c <= d)
  <2>1. m <= k - s[d]
    BY <1>5 DEF lacks
  <2>2. k - s[d] = m => c <= d
    BY <1>7 DEF best
  <2>3. QED
    BY <1>1, <1>3, <1>8, <2>1, <2>2
<1>10. QED
  BY <1>8, <1>9

LEMMA Scaled ==
  ASSUME NEW s \in Weights, NEW gross \in Nat \ {0}
  PROVE  LET w == scaleSplitToPigWeight(s, gross)
         IN /\ \A c \in Cuts : w[c] \in Int
            /\ sumKgOf(w) \in Int /\ sumKgOf(w) <= gross
            /\ sumKgOf(s) <= gross => w = s
<1> DEFINE w == scaleSplitToPigWeight(s, gross)
<1> DEFINE sum == sumKgOf(s)
<1> DEFINE large(c) == \A d \in Cuts : s[d] < s[c] \/ (s[d] = s[c] /\ c <= d)
<1> DEFINE largest == CHOOSE c \in Cuts : large(c)
<1> DEFINE share == [c \in Cuts |-> Div(s[c] * gross, sum)]
<1> DEFINE rest == SumFunctionOnSet(share, Cuts \ {largest})
<1>1. \A c \in Cuts : s[c] \in Nat
  BY DEF Weights
<1>2. IsFiniteSet(Cuts)
  BY CutAssumption
<1>3. sum \in Nat
  BY <1>1, <1>2, SumNat DEF sumKgOf
<1>4. CASE sum <= gross
  <2>1. w = s
    BY <1>4 DEF scaleSplitToPigWeight
  <2>2. QED
    BY <1>1, <1>3, <1>4, <2>1
<1>5. CASE ~(sum <= gross)
  <2>1. w = [share EXCEPT ![largest] = gross - rest]
    BY <1>5 DEF scaleSplitToPigWeight
  <2>2. Cuts # {}
    <3>1. ASSUME Cuts = {} PROVE FALSE
      <4>1. sum = 0
        BY <3>1, SumEmpty DEF sumKgOf
      <4>2. QED
        BY <1>5, <4>1
    <3>2. QED
      BY <3>1
  <2>3. \E c \in Cuts : large(c)
    BY <2>2, Largest
  <2> HIDE DEF large
  <2>4. largest \in Cuts
    BY <2>3
  <2> HIDE DEF largest, w, sum
  <2>5. \A c \in Cuts : share[c] \in Int
    <3>1. ASSUME NEW c \in Cuts PROVE Div(s[c] * gross, sum) \in Int
      <4> DEFINE n == s[c] * gross
      <4>1. n \in Int
        BY <1>1
      <4>2. sum \in Int /\ sum > 0
        BY <1>3, <1>5
      <4> HIDE DEF n
      <4>3. Div(n, sum) \in Int
        BY <4>1, <4>2, DivIs
      <4>4. QED
        BY <4>3 DEF n
    <3>2. QED
      BY <3>1
  <2>6. DOMAIN share = Cuts
    OBVIOUS
  <2> HIDE DEF share
  <2> DEFINE D == Cuts \ {largest}
  <2>7. D \in SUBSET Cuts /\ IsFiniteSet(D)
    BY <1>2, FS_Subset
  <2>8. rest \in Int
    <3>1. \A c \in D : share[c] \in Int
      BY <2>5
    <3>2. QED
      BY <2>7, <3>1, SumInt
  <2> HIDE DEF rest
  <2>9. w[largest] = gross - rest /\ \A c \in D : w[c] = share[c]
    BY <2>1, <2>4, <2>6
  <2>10. \A c \in Cuts : w[c] \in Int
    BY <2>5, <2>8, <2>9
  <2>11. SumFunctionOnSet(w, Cuts) = w[largest] + SumFunctionOnSet(w, D)
    BY <1>2, <2>4, <2>10, SumRemove
  <2>12. SumFunctionOnSet(w, D) = rest
    <3>1. \A c \in D : w[c] \in Int /\ w[c] = share[c]
      BY <2>9, <2>10
    <3>2. SumFunctionOnSet(w, D) = SumFunctionOnSet(share, D)
      BY <2>7, <3>1, SumCongruence
    <3>3. QED
      BY <3>2 DEF rest
  <2>13. sumKgOf(w) = gross
    BY <2>8, <2>9, <2>11, <2>12 DEF sumKgOf
  <2>14. QED
    BY <1>5, <2>10, <2>13 DEF w, sum
<1>6. QED
  BY <1>4, <1>5

LEMMA PigGives ==
  ASSUME NEW p \in Pig
  PROVE  LET w == loadSuggestedSplitPerPig(p)
         IN (\A c \in Cuts : w[c] \in Int) /\ sumKgOf(w) \in Int /\ sumKgOf(w) <= p.gross
<1> DEFINE s == [c \in Cuts |-> IF p.mode # "llm" /\ p.base[c] > 0 THEN p.base[c]
                                ELSE IF p.mode # "baseline" THEN p.advice[c] ELSE 0]
<1>1. p.base \in Weights /\ p.advice \in Weights /\ p.gross \in Nat \ {0}
  BY DEF Pig
<1>2. s \in Weights
  BY <1>1 DEF Weights
<1>3. loadSuggestedSplitPerPig(p) = scaleSplitToPigWeight(s, p.gross)
  BY DEF loadSuggestedSplitPerPig
<1> HIDE DEF s
<1>4. QED
  BY <1>1, <1>2, <1>3, Scaled

(* Together they give no more than they weigh together.                     *)
LEMMA Fits ==
  ASSUME NEW pigs \in SUBSET Pig, IsFiniteSet(pigs)
  PROVE  SuggestionFits(pigs)
<1> DEFINE of(c) == [p \in pigs |-> loadSuggestedSplitPerPig(p)[c]]
<1> DEFINE all(T) == [c \in Cuts |-> SumFunctionOnSet(of(c), T)]
<1> DEFINE gross == [p \in pigs |-> p.gross]
<1> DEFINE Holds(T) == sumKgOf(all(T)) <= SumFunctionOnSet(gross, T)
<1> DEFINE G == {T \in SUBSET pigs : Holds(T)}
<1>1. IsFiniteSet(Cuts)
  BY CutAssumption
<1>2. ASSUME NEW p \in pigs
      PROVE  LET w == loadSuggestedSplitPerPig(p)
             IN /\ \A c \in Cuts : w[c] \in Int /\ of(c)[p] = w[c]
                /\ sumKgOf(w) \in Int /\ sumKgOf(w) <= p.gross
                /\ gross[p] = p.gross /\ p.gross \in Int
  <2>1. p \in Pig
    OBVIOUS
  <2>2. p.gross \in Int
    BY <2>1 DEF Pig
  <2>3. QED
    BY <2>1, <2>2, PigGives
<1>3. \A p \in pigs : gross[p] \in Int /\ \A c \in Cuts : of(c)[p] \in Int
  BY <1>2
<1>4. ASSUME NEW T \in SUBSET pigs
      PROVE  /\ IsFiniteSet(T) /\ SumFunctionOnSet(gross, T) \in Int
             /\ \A c \in Cuts : SumFunctionOnSet(of(c), T) \in Int
             /\ sumKgOf(all(T)) \in Int
  <2>1. IsFiniteSet(T)
    BY FS_Subset
  <2>2. SumFunctionOnSet(gross, T) \in Int
    <3>1. \A p \in T : gross[p] \in Int
      BY <1>3
    <3> HIDE DEF gross
    <3>2. QED
      BY <2>1, <3>1, SumInt
  <2>3. ASSUME NEW c \in Cuts PROVE SumFunctionOnSet(of(c), T) \in Int
    <3> DEFINE f == of(c)
    <3>1. \A p \in T : f[p] \in Int
      BY <1>3
    <3> HIDE DEF f
    <3>2. SumFunctionOnSet(f, T) \in Int
      BY <2>1, <3>1, SumInt
    <3>3. QED
      BY <3>2 DEF f
  <2> DEFINE h == all(T)
  <2>4. \A c \in Cuts : h[c] \in Int
    BY <2>3
  <2> HIDE DEF h
  <2>5. SumFunctionOnSet(h, Cuts) \in Int
    BY <1>1, <2>4, SumInt
  <2>6. QED
    BY <2>1, <2>2, <2>3, <2>5 DEF h, sumKgOf
<1>5. {} \in G
  <2>1. \A c \in Cuts : all({})[c] = 0
    BY SumEmpty
  <2> DEFINE h == all({})
  <2>2. \A c \in Cuts : h[c] = 0
    BY <2>1
  <2> HIDE DEF h
  <2>3. SumFunctionOnSet(h, Cuts) = 0
    BY <1>1, <2>2, SumZero
  <2>4. sumKgOf(all({})) = 0
    BY <2>3 DEF h, sumKgOf
  <2>5. SumFunctionOnSet(gross, {}) = 0
    BY SumEmpty
  <2> HIDE DEF all, gross
  <2>6. Holds({})
    BY <2>4, <2>5
  <2>7. QED
    BY <2>6
<1>6. ASSUME NEW T \in G, NEW x \in pigs \ T PROVE T \union {x} \in G
  <2> DEFINE U == T \union {x}
  <2> DEFINE w == loadSuggestedSplitPerPig(x)
  <2>1. T \in SUBSET pigs /\ U \in SUBSET pigs /\ Holds(T)
    OBVIOUS
  <2>2. IsFiniteSet(T) /\ x \notin T
    BY <1>4, <2>1
  <2>3. SumFunctionOnSet(gross, U) = SumFunctionOnSet(gross, T) + gross[x]
    <3>1. (\A p \in T : gross[p] \in Int) /\ gross[x] \in Int
      BY <1>3, <2>1
    <3> HIDE DEF gross
    <3>2. QED
      BY <2>2, <3>1, SumAdd
  <2>4. ASSUME NEW c \in Cuts PROVE all(U)[c] = all(T)[c] + w[c]
    <3> DEFINE f == of(c)
    <3>1. (\A p \in T : f[p] \in Int) /\ f[x] \in Int
      BY <1>3, <2>1
    <3>2. f[x] = w[c]
      BY <1>2
    <3> HIDE DEF f
    <3>3. SumFunctionOnSet(f, U) = SumFunctionOnSet(f, T) + f[x]
      BY <2>2, <3>1, SumAdd
    <3>4. QED
      BY <3>2, <3>3 DEF f
  <2>5. /\ \A c \in Cuts : w[c] \in Int
        /\ sumKgOf(w) \in Int /\ sumKgOf(w) <= gross[x] /\ gross[x] \in Int
    <3>1. x \in pigs
      OBVIOUS
    <3>2. QED
      BY <1>2, <3>1
  <2>6. \A c \in Cuts : all(T)[c] \in Int
    BY <1>4, <2>1
  <2> DEFINE hT == all(T)
  <2> DEFINE hU == all(U)
  <2>7. \A c \in Cuts : hT[c] \in Int /\ w[c] \in Int /\ hU[c] = hT[c] + w[c]
    BY <2>4, <2>5, <2>6
  <2> HIDE DEF hT, hU, w
  <2>8. SumFunctionOnSet(hU, Cuts) = SumFunctionOnSet(hT, Cuts) + SumFunctionOnSet(w, Cuts)
    BY <1>1, <2>7, SumPlus
  <2>9. sumKgOf(all(U)) = sumKgOf(all(T)) + sumKgOf(w)
    BY <2>8 DEF hT, hU, sumKgOf
  <2>10. sumKgOf(all(T)) \in Int /\ SumFunctionOnSet(gross, T) \in Int
         /\ sumKgOf(all(T)) <= SumFunctionOnSet(gross, T)
    BY <1>4, <2>1
  <2> HIDE DEF all, gross
  <2>11. Holds(U)
    BY <2>3, <2>5, <2>9, <2>10
  <2>12. QED
    BY <2>1, <2>11
<1>7. G \in SUBSET (SUBSET pigs)
  OBVIOUS
<1> HIDE DEF G
<1>8. pigs \in G
  BY <1>5, <1>6, <1>7, SubsetInduction
<1>9. sumKgOf(all(pigs)) <= SumFunctionOnSet(gross, pigs)
  BY <1>8 DEF G
<1>10. all(pigs) = loadSuggestedSplitKg(pigs)
  BY DEF loadSuggestedSplitKg
<1>11. QED
  BY <1>9, <1>10 DEF SuggestionFits

(* A pig of the suggested weights suggests them.                            *)
LEMMA OnePig ==
  ASSUME NEW s \in Weights
  PROVE  loadSuggestedSplitKg({[id |-> 1, mode |-> "auto", base |-> s, advice |-> Nothing,
                                gross |-> sumKgOf(s) + 1]}) = s
<1> DEFINE gross == sumKgOf(s) + 1
<1> DEFINE p == [id |-> 1, mode |-> "auto", base |-> s, advice |-> Nothing, gross |-> gross]
<1> DEFINE of(c) == [q \in {p} |-> loadSuggestedSplitPerPig(q)[c]]
<1>1. \A c \in Cuts : s[c] \in Nat
  BY DEF Weights
<1>2. sumKgOf(s) \in Nat
  BY <1>1, CutAssumption, SumNat DEF sumKgOf
<1>3. [c \in Cuts |-> IF p.mode # "llm" /\ p.base[c] > 0 THEN p.base[c]
                      ELSE IF p.mode # "baseline" THEN p.advice[c] ELSE 0] = s
  <2> DEFINE v == [c \in Cuts |-> IF p.mode # "llm" /\ p.base[c] > 0 THEN p.base[c]
                                  ELSE IF p.mode # "baseline" THEN p.advice[c] ELSE 0]
  <2>1. \A c \in Cuts : v[c] = s[c]
    BY <1>1 DEF Nothing
  <2>2. DOMAIN s = Cuts /\ DOMAIN v = Cuts /\ s = [c \in Cuts |-> s[c]]
    BY DEF Weights
  <2> HIDE DEF v
  <2>3. v = [c \in Cuts |-> v[c]]
    BY <2>1 DEF v
  <2>4. v = s
    BY <2>1, <2>2, <2>3
  <2>5. QED
    BY <2>4 DEF v
<1>4. loadSuggestedSplitPerPig(p) = scaleSplitToPigWeight(s, gross)
  BY <1>3 DEF loadSuggestedSplitPerPig
<1>5. scaleSplitToPigWeight(s, gross) = s
  <2>1. gross \in Nat \ {0} /\ sumKgOf(s) <= gross
    BY <1>2
  <2> HIDE DEF gross
  <2>2. QED
    BY <2>1, Scaled
<1> HIDE DEF p
<1>6. ASSUME NEW c \in Cuts PROVE SumFunctionOnSet(of(c), {p}) = s[c]
  <2> DEFINE f == of(c)
  <2>1. f[p] = s[c] /\ s[c] \in Int
    BY <1>1, <1>4, <1>5
  <2> HIDE DEF f
  <2>2. SumFunctionOnSet(f, {}) = 0
    BY SumEmpty
  <2>3. SumFunctionOnSet(f, {} \union {p}) = SumFunctionOnSet(f, {}) + f[p]
    <3>1. IsFiniteSet({}) /\ p \notin {} /\ f[p] \in Int /\ \A x \in {} : f[x] \in Int
      BY <2>1, FS_EmptySet
    <3>2. QED
      BY <3>1, SumAdd
  <2>4. {} \union {p} = {p}
    OBVIOUS
  <2>5. SumFunctionOnSet(f, {p}) = s[c]
    BY <2>1, <2>2, <2>3, <2>4
  <2>6. QED
    BY <2>5 DEF f
<1>7. loadSuggestedSplitKg({p}) = [c \in Cuts |-> SumFunctionOnSet(of(c), {p})]
  BY DEF loadSuggestedSplitKg
<1>8. s = [c \in Cuts |-> s[c]]
  BY DEF Weights
<1>9. loadSuggestedSplitKg({p}) = s
  BY <1>6, <1>7, <1>8
<1>10. QED
  BY <1>9 DEF p

(* What was recorded is what the cuts gave, on a day nothing else happens.  *)
LEMMA RecordedIsActual ==
  ASSUME NEW a \in Weights
  PROVE  deriveActualSplits(a, [sold |-> Nothing, bulk |-> Nothing, waste |-> Nothing, open |-> Nothing,
                                load |-> Nothing], loadStocktakeCutKg({})) = a
<1> DEFINE idle == [sold |-> Nothing, bulk |-> Nothing, waste |-> Nothing, open |-> Nothing, load |-> Nothing]
<1> DEFINE v == deriveActualSplits(a, idle, loadStocktakeCutKg({}))
<1>1. loadStocktakeCutKg({}) = [complete |-> FALSE, counter |-> Nothing, cold |-> Nothing]
  BY DEF loadStocktakeCutKg
<1>2. \A c \in Cuts : a[c] \in Nat
  BY DEF Weights
<1>3. ASSUME NEW c \in Cuts PROVE v[c] = a[c]
  BY <1>1, <1>2 DEF deriveActualSplits, Nothing, AtLeast0
<1>4. v = [c \in Cuts |-> v[c]]
  BY DEF deriveActualSplits
<1>5. a = [c \in Cuts |-> a[c]]
  BY DEF Weights
<1> HIDE DEF v
<1>6. v = a
  BY <1>3, <1>4, <1>5
<1>7. QED
  BY <1>6 DEF v

LEMMA Counted ==
  ASSUME NEW x \in CountDays
  PROVE  CountTellsCut(x)
<1> DEFINE day == [sold |-> x.sold, bulk |-> x.bulk, waste |-> Nothing, open |-> x.open, load |-> x.load]
<1> DEFINE cold == [c \in Cuts |-> Closing(x, c) - x.here[c]]
<1> DEFINE old == [at |-> 1, complete |-> FALSE, counter |-> Nothing, cold |-> Nothing]
<1> DEFINE new == [at |-> 2, complete |-> TRUE, counter |-> x.here, cold |-> cold]
<1> DEFINE sheets == {old, new}
<1> DEFINE v == deriveActualSplits(Nothing, day, loadStocktakeCutKg(sheets))
<1>1. x \in CountDay
  BY CutAssumption
<1>2. x.made \in Weights /\ x.open \in Weights /\ x.sold \in Weights /\ x.bulk \in Weights /\ x.here \in Weights
  BY <1>1 DEF CountDay
<1>3. \A c \in Cuts :
        /\ x.made[c] \in Nat /\ x.open[c] \in Nat /\ x.sold[c] \in Nat /\ x.bulk[c] \in Nat /\ x.here[c] \in Nat
        /\ Closing(x, c) \in Int
  BY <1>2 DEF Weights, Closing
<1>4. old.at = 1 /\ new.at = 2
  OBVIOUS
<1>5. new.complete = TRUE /\ new.counter = x.here /\ new.cold = cold
  OBVIOUS
<1> DEFINE latest == CHOOSE t \in sheets : \A u \in sheets : u.at <= t.at
<1>6. latest = new
  <2> HIDE DEF old, new
  <2>1. new \in sheets /\ \A u \in sheets : u.at <= new.at
    BY <1>4
  <2>2. latest \in sheets /\ \A u \in sheets : u.at <= latest.at
    BY <2>1
  <2>3. latest # old
    BY <1>4, <2>2
  <2>4. QED
    BY <2>2, <2>3
<1>7. loadStocktakeCutKg(sheets) = [complete |-> TRUE, cold |-> cold, counter |-> x.here]
  <2>1. sheets # {}
    OBVIOUS
  <2> HIDE DEF sheets, new, cold
  <2>2. loadStocktakeCutKg(sheets) =
          [complete |-> latest.complete, cold |-> latest.cold,
           counter |-> IF latest.complete THEN latest.counter ELSE Nothing]
    BY <2>1 DEF loadStocktakeCutKg
  <2> HIDE DEF latest
  <2>3. QED
    BY <1>5, <1>6, <2>2
<1> DEFINE count == [complete |-> TRUE, cold |-> cold, counter |-> x.here]
<1> HIDE DEF sheets
<1>8. ASSUME NEW c \in Cuts PROVE v[c] = x.made[c]
  <2>1. v[c] = AtLeast0(count.counter[c] + count.cold[c] + (x.sold[c] + x.bulk[c] + Nothing[c]) - x.open[c])
    BY <1>7 DEF deriveActualSplits, Nothing
  <2>2. Nothing[c] = 0
    BY DEF Nothing
  <2>3. count.counter[c] = x.here[c] /\ count.cold[c] = x.open[c] + x.made[c] - x.sold[c] - x.bulk[c] - x.here[c]
    <3>1. count.counter = x.here /\ count.cold = cold
      OBVIOUS
    <3>2. cold[c] = Closing(x, c) - x.here[c]
      OBVIOUS
    <3> HIDE DEF count, cold
    <3>3. QED
      BY <1>3, <3>1, <3>2 DEF Closing
  <2> HIDE DEF v, count
  <2>4. QED
    BY <1>3, <2>1, <2>2, <2>3 DEF AtLeast0
<1>9. v = [c \in Cuts |-> v[c]]
  BY DEF deriveActualSplits
<1>10. x.made = [c \in Cuts |-> x.made[c]]
  BY <1>2 DEF Weights
<1> HIDE DEF v
<1>11. v = x.made
  BY <1>8, <1>9, <1>10
<1>12. QED
  BY <1>11 DEF v, sheets, CountTellsCut

LEMMA SplitKept ==
  ASSUME NEW x \in Splits
  PROVE  SplitIsKept(x)
<1> DEFINE s == x.suggested
<1> DEFINE a == x.actual
<1> DEFINE pig == [id |-> 1, mode |-> "auto", base |-> s, advice |-> Nothing, gross |-> sumKgOf(s) + 1]
<1> DEFINE idle == [sold |-> Nothing, bulk |-> Nothing, waste |-> Nothing, open |-> Nothing, load |-> Nothing]
<1> DEFINE r == computeCutSplit({pig}, a, idle, {})
<1> DEFINE others == Cuts \ Over(s, a)
<1> DEFINE after == applySplitWeights(r.w, s, x.amounts)
<1>1. s \in Weights /\ a \in Weights /\ x.amounts \in Weights
  BY CutAssumption DEF Split
<1>2. r = redistributeSplitWeights(s, a)
  <2>1. loadSuggestedSplitKg({pig}) = s
    BY <1>1, OnePig
  <2>2. deriveActualSplits(a, idle, loadStocktakeCutKg({})) = a
    BY <1>1, RecordedIsActual
  <2>3. QED
    BY <2>1, <2>2 DEF computeCutSplit
<1> HIDE DEF s, a, r
<1>3. Redistributes(s, a, r)
  BY <1>1, <1>2, Redistributed
<1>4. r.w \in Weights /\ \A c \in Cuts : r.w[c] >= 0
  BY <1>3 DEF Redistributes, Weights
<1>5. /\ Near(sumKgOf(after.amt), sumKgOf(x.amounts))
      /\ \A c \in Cuts : after.amt[c] > 0 /\ r.w # Nothing => after.kg[c] > 0
  BY <1>1, <1>4, CostSpread
<1>6. QED
  BY <1>3, <1>4, <1>5 DEF Redistributes, SplitIsKept, s, a, r

(* The split of a day's pigs over the cuts, for any number of cuts and any  *)
(* weights: what the pigs should give is not more than they weigh, a count  *)
(* gives back what was cut, and the weights that spread the day's cost keep *)
(* the weight and the cost, as SplitIsKept says.                            *)
THEOREM DaySplitIsKept == SplitsAreKept
<1>1. \A pigs \in PigDays : SuggestionFits(pigs)
  BY CutAssumption, Fits
<1>2. QED
  BY <1>1, Counted, SplitKept DEF SplitsAreKept

(* The property of the runs, at the start and ever after.                   *)
THEOREM SplitAlwaysKept == MeatSpec => []SplitKeepsWeightAndCost
<1>1. SplitKeepsWeightAndCost
  BY DaySplitIsKept DEF SplitKeepsWeightAndCost
<1>2. QED
  BY <1>1, PTL
=============================================================================
