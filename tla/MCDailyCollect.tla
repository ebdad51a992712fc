--------------------------- MODULE MCDailyCollect ---------------------------
(* Instances of DailyCollect for TLC.                                       *)
EXTENDS DailyCollect

OneJob == <<"initial">>
=============================================================================
