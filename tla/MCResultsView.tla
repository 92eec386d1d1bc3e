--------------------------- MODULE MCResultsView ---------------------------
(* Results.                                                                 *)
EXTENDS ResultsView, TLC

CONSTANTS r1, r2, none
=============================================================================
