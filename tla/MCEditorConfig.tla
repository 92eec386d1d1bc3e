--------------------------- MODULE MCEditorConfig ---------------------------
(* Model values for EditorConfig.                                          *)
EXTENDS EditorConfig, TLC

CONSTANTS k1, k2, sd, s1, s2, none

ClientSymmetry == Permutations({k1, k2})
=============================================================================
