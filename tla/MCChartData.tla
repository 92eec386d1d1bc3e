---------------------------- MODULE MCChartData ----------------------------
(* Symbols.                                                                 *)
EXTENDS ChartData, TLC

CONSTANTS s1, s2
=============================================================================
