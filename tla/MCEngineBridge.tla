--------------------------- MODULE MCEngineBridge ---------------------------
(* Windows and configurations of bar data.                                 *)
EXTENDS EngineBridge, TLC

CONSTANTS k1, c1, c2, none
=============================================================================
