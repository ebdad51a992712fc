------------------------------ MODULE MCCubeSync ------------------------------
(* Instances of CubeSync for TLC.                                           *)
EXTENDS CubeSync

TwoRows == 1..2
===============================================================================
