--------------------------- MODULE MCCommandServer ---------------------------
(* Two configurations of bar data.                                         *)
EXTENDS CommandServer, TLC

CONSTANTS c1, c2
=============================================================================
