------------------------------ MODULE MCMember ------------------------------
(* Instances of Member for TLC.                                             *)
EXTENDS Member, TLC

CONSTANTS w1, w2

Q(op, kind, n) == [op |-> op, kind |-> kind, n |-> n, status |-> "none"]
St(op, s) == [op |-> op, kind |-> "status", n |-> 0, status |-> s]

(* A sale of 1.00 (1 point), a partial return of 0.70 (1 point), a sale too *)
(* small for a point.                                                       *)
MCSales == {Q("s1", "sale", 100), Q("s2", "return", 70), Q("s3", "sale", 40)}
MCChanges == {Q("p1", "earn", 2), Q("p2", "deduct", 2)}
MCAccounts == {Q("a1", "recharge", 3), Q("a2", "payout", 2)}
MCStatuses == {St("m1", "frozen"), St("m2", "normal"), St("m3", "unknown")}

(* Points and stored value share only the status, so a behaviour leaves out *)
(* the grant, or the changes of stored value.                               *)
VARIABLE without

MemberInit == Init /\ without \in {{"p1"}, {"a1", "a2"}}

MemberNext == Next /\ UNCHANGED without /\ \A w \in Workers : job'[w].op \notin without

MemberSpec == MemberInit /\ [][MemberNext]_<<vars, without>>

WorkerSymmetry == Permutations(Workers)
=============================================================================
