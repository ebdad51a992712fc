---------------------------- MODULE MCReconPeriod ----------------------------
(***************************************************************************)
(* Instances of ReconPeriod for TLC, a batch of one day and one of two,    *)
(* and the pairing of ReconEngine on small inputs.                         *)
(***************************************************************************)
EXTENDS ReconPeriod, TLC

CONSTANTS b1, b2, t1, t2, f1

MCFrom == (b1 :> 1) @@ (b2 :> 1)
MCTo == (b1 :> 1) @@ (b2 :> 2)
MCFlowDay == (f1 :> 1)
MCCountedBefore == (1 :> {}) @@ (2 :> {2}) @@ (3 :> {})

Symmetry == Permutations(Threads)

UpTo(k, S) == UNION {kSubset(n, S) : n \in 0 .. k}

(* Up to two takings of two days, of a method that is paired with the bank  *)
(* or of none, nothing, a common amount or another one.                     *)
MCTakings ==
  {T \in UpTo(2, {[day |-> d, method |-> m, way |-> m, net |-> n] :
                   d \in 1 .. 2, m \in {1, Unmapped}, n \in {0, 10, 13}}) :
     \A c, d \in T : c # d => CashOrder(c) # CashOrder(d)}

(* Up to three lines of three days, with or without a fee, some of them     *)
(* equal but for their id.                                                  *)
MCLines ==
  UpTo(3, {[day |-> d, channel |-> 1, amount |-> 10 - f, fee |-> f, id |-> i] :
             d \in 1 .. 3, f \in {0, 2}, i \in {1, 2}})

MCInputs ==
  {[takings |-> T, lines |-> L, from |-> 1, to |-> 2, tolerance |-> 1] : T \in MCTakings, L \in MCLines}
=============================================================================
