--------------------------- MODULE MCBacktestLoop ---------------------------
(* Model values for the names; an exit is named x or y, an entry a or b.   *)
EXTENDS BacktestLoop, TLC

CONSTANTS a, b, x, y
=============================================================================
