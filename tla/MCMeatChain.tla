---------------------------- MODULE MCMeatChain ----------------------------
(***************************************************************************)
(* An instance of MeatChain for TLC: three days, the last one today.  And  *)
(* small inputs for the split of CutSplit.                                 *)
(***************************************************************************)
EXTENDS MeatChain, TLC

CONSTANTS t1, t2

MCNet == (1 :> 1) @@ (2 :> 0) @@ (3 :> -1)

Symmetry == Permutations(Threads)

-----------------------------------------------------------------------------
PigOf(i, mode, base, advice, gross) ==
  [id |-> i, mode |-> mode, base |-> base, advice |-> advice, gross |-> gross]

(* Single pigs in every mode, and two.                                      *)
MCPigDays ==
  {{PigOf(1, mode, base, advice, gross)} :
     mode \in {"auto", "baseline", "llm"}, base, advice \in [Cuts -> {0, 10, 25}], gross \in {20, 37}}
  \union {{PigOf(1, "auto", base, Nothing, 20), PigOf(2, "llm", Nothing, advice, 37)} :
            base, advice \in [Cuts -> {0, 10, 25}]}

(* The same for all cuts.                                                   *)
MCCountDays ==
  {x \in {[f \in {"made", "open", "sold", "bulk", "load", "here"} |-> [c \in Cuts |-> n[f]]] :
            n \in [{"made", "open", "sold", "bulk", "load", "here"} -> {0, 1, 3}]} :
     \A c \in Cuts : x.here[c] <= Closing(x, c)}

MCSplits ==
  {[suggested |-> s, actual |-> a, amounts |-> [c \in Cuts |-> 100]] : s, a \in [Cuts -> {0, 10, 25, 40}]}
=============================================================================
