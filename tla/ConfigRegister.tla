--------------------------- MODULE ConfigRegister ---------------------------
(***************************************************************************)
(* What saving the editor's configuration promises: one stored value,      *)
(* replaced as a whole by the value being written or not at all.  A write  *)
(* that fails, or that a crash cuts, leaves what was stored.               *)
(***************************************************************************)
CONSTANTS Values, Nothing

VARIABLES stored, writing

TypeOK == stored \in Values \cup {Nothing} /\ writing \in Values \cup {Nothing}

Init == stored \in Values \cup {Nothing} /\ writing = Nothing

Begin(v) == writing = Nothing /\ writing' = v /\ UNCHANGED stored

Commit == writing # Nothing /\ stored' = writing /\ writing' = Nothing

Abort == writing # Nothing /\ writing' = Nothing /\ UNCHANGED stored

Next == (\E v \in Values : Begin(v)) \/ Commit \/ Abort

Spec == Init /\ [][Next]_<<stored, writing>>
=============================================================================
