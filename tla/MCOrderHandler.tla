--------------------------- MODULE MCOrderHandler ---------------------------
(* Constants for model checking OrderHandler. *)
EXTENDS OrderHandler, TLC

CONSTANTS btc, eth, a, b, x1, x2, ca

\* Values a configuration file cannot write.
MCLosses == {-1, 1}
MCWideLosses == {-3, 1}
MCFundings == {-1, 1}
MCNoFundings == {0}
=============================================================================
