----------------------------- MODULE MCNotifyHub -----------------------------
(* An instance of NotifyHub for TLC: two users of one tenant, in different  *)
(* branches; an event for one branch, and a body that is not JSON, which    *)
(* names no tenant and goes to everybody.                                   *)
EXTENDS NotifyHub

MCClaims == [c \in Clients |-> [user |-> c, tenant |-> "t", branches |-> {c}, admin |-> FALSE]]

MCEnvelopes ==
  {[strategy |-> "tenant", tenant |-> "t", branch |-> "a", user |-> "", json |-> TRUE],
   [strategy |-> "tenant", tenant |-> "", branch |-> "", user |-> "", json |-> FALSE]}
==============================================================================
