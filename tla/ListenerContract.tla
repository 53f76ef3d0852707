---------------------------- MODULE ListenerContract ----------------------------
(***************************************************************************)
(* What the recording session promises to those who follow its published   *)
(* status, of which meeting end detection is one: the status names one     *)
(* note from the beginning of a recording to its end, is not live when it  *)
(* begins, and names no note in between.                                   *)
(***************************************************************************)
CONSTANTS Notes, NoNote

VARIABLES
  shown,  \* the note that the status names
  live    \* whether its phase is one of a pipeline that is up

vars == <<shown, live>>

Init == shown = NoNote /\ live = FALSE

Begins(n) ==
  /\ shown = NoNote
  /\ shown' = n /\ live' = FALSE

PhaseChanges ==
  /\ shown # NoNote
  /\ live' = ~live
  /\ UNCHANGED shown

Ends ==
  /\ shown # NoNote
  /\ shown' = NoNote /\ live' = FALSE

Next == (\E n \in Notes : Begins(n)) \/ PhaseChanges \/ Ends

Spec == Init /\ [][Next]_vars
=============================================================================
