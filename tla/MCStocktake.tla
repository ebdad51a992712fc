----------------------------- MODULE MCStocktake -----------------------------
(* Instances of Stocktake for TLC.                                          *)
EXTENDS Stocktake, TLC

CONSTANTS h1, A, B, w1, w2, none

Rq(id, kind, n, items) == [id |-> id, kind |-> kind, n |-> n, items |-> items]

MCRequests ==
  {Rq("add1", "add", 3, {A}), Rq("plus", "accumulate", 2, {}), Rq("minus", "accumulate", -2, {}),
   Rq("set", "overwrite", 1, {}), Rq("why", "reason", 0, {}), Rq("del", "deleteLine", 0, {}),
   Rq("s1", "submit", 0, {}), Rq("s2", "submit", 0, {}), Rq("ok", "approve", 0, {}),
   Rq("drop", "deleteHeader", 0, {}), Rq("plan", "plan", 0, {A}), Rq("more", "plan", 0, {A}),
   Rq("main", "setDefault", 0, {})}

MCBook == {2}

WorkerSymmetry == Permutations(Workers)
=============================================================================
