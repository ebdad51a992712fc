------------------------------ MODULE MCApproval ------------------------------
(* Instances of Approval and MonthlyFlow for TLC: two approvals that share  *)
(* a settlement, and payments without settlements.  The two are explored    *)
(* side by side: a behaviour is one of the first or of the second, and they *)
(* share the names of bills and goroutines.                                 *)
EXTENDS Approval, MCMonthlyFlow

CONSTANT s1

MCWant == [a \in Approvals |-> {s1}]

VARIABLE part     \* the kind of approvals this behaviour is about

AuditorInit ==
  /\ Init /\ FlowInit
  /\ \/ part = "payments" /\ flow = "logic"
     \/ part = "settlements" /\ flow = "none" /\ state[b0] = "rejected"

AuditorNext ==
  \/ part = "settlements" /\ Next /\ UNCHANGED <<flowVars, part>>
  \/ part = "payments" /\ FlowNext /\ UNCHANGED <<vars, part>>

AuditorSpec == AuditorInit /\ [][AuditorNext]_<<vars, flowVars, part>>
=============================================================================
