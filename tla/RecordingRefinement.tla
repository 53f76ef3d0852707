-------------------------- MODULE RecordingRefinement --------------------------
(***************************************************************************)
(* The recording session implements the contract of RecordingContract, for *)
(* those who read the row, and that of ListenerContract, for those who     *)
(* follow the status.                                                      *)
(***************************************************************************)
EXTENDS RecordingSession

(* The note that is being recorded: a recovery that falls back to a setup  *)
(* from nothing clears session_id, but its handler goes on for that note.  *)
Recorded == IF session # NoSession THEN session ELSE handler.target

Closed == [s \in Sessions |-> rows[s].ended]
Queued == [s \in Sessions |-> rows[s].needs]

Contract == INSTANCE RecordingContract WITH
  recording <- Recorded, lossy <- gap, closed <- Closed, queued <- Queued

(* Over rebuilds, retries, coordinators, failed starts and crashes, a row  *)
(* changes only as the contract says: in particular a recording that lost  *)
(* transcript in any of its pipelines is never queued, and no row is       *)
(* reopened or lost while another note is recorded.                        *)
ImplementsRow == Contract!Spec

(* A status that is inactive, or that a recovery which lost its session    *)
(* left without a note, names none.                                        *)
Shown == IF status.phase = "inactive" THEN NoSession ELSE status.session
ShownLive ==
  Shown # NoSession /\ status.phase \in {"active", "paused", "reconnecting"}

Listener == INSTANCE ListenerContract WITH
  Notes <- Sessions, NoNote <- NoSession, shown <- Shown, live <- ShownLive

(* No task, coordinator, rebuild or failed start of one recording gives    *)
(* the status of another its note, and a recording whose note the status   *)
(* has lost does not show it again: who stops what the status names, as    *)
(* stop_session_if_matching does, stops the recording it was asked for.    *)
ImplementsStatus == Listener!Spec

(* A handler that finds the status naming a note, as                       *)
(* stop_session_if_matching does under the lock, finds that note running:  *)
(* its third condition, on the state, follows from the first two.          *)
ShownIsBound == Idle /\ Shown # NoSession => Running /\ session = Shown

Implements == ImplementsRow /\ ImplementsStatus

(* The transcript task belongs to the note that is being recorded, and so  *)
(* does session_id, except between a fallback's teardown and its setup or  *)
(* after that setup failed: then there is no task at all.                  *)
OneNote ==
  /\ task \in Monitors => monitors[task].session = Recorded
  /\ handler.kind = "recover" /\ session # handler.target =>
       /\ session = NoSession /\ task = NoMonitor
       /\ handler.pc \in {"resetting", "judging"}

(* While a session runs, the status names the note it is bound to, or, in  *)
(* a fallback, the note it was and will be bound to.                       *)
StatusNote ==
  state # "inactive" =>
    status.session = IF handler.pc = "resetting" THEN handler.target ELSE session
=============================================================================
