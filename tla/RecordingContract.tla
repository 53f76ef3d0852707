--------------------------- MODULE RecordingContract ---------------------------
(***************************************************************************)
(* What the recording session promises to the readers of a note's row, of  *)
(* which the summary worker is one: at most one note is recorded; a note   *)
(* is closed when its recording ends; and it is queued for a summary only  *)
(* when nothing of that recording was lost.  How many pipelines a recording*)
(* went through is not seen here.                                          *)
(***************************************************************************)
CONSTANTS Sessions, NoSession

VARIABLES
  recording,  \* the note that is being recorded
  lossy,      \* whether transcript of a note's last recording was lost
  closed,     \* record_end is set
  queued      \* needs_enhance is set

vars == <<recording, lossy, closed, queued>>

Nowhere == [s \in Sessions |-> FALSE]

Init ==
  /\ recording = NoSession
  /\ lossy = Nowhere /\ closed = Nowhere /\ queued = Nowhere

Reopen(s) ==
  /\ closed' = [closed EXCEPT ![s] = FALSE]
  /\ queued' = [queued EXCEPT ![s] = FALSE]

Begin(s) ==
  /\ recording = NoSession
  /\ recording' = s
  /\ lossy' = [lossy EXCEPT ![s] = FALSE]
  /\ Reopen(s)

(* A start that fails after begin_recording leaves the note open.          *)
BeginFails(s) ==
  /\ recording = NoSession
  /\ Reopen(s)
  /\ UNCHANGED <<recording, lossy>>

Lose ==
  /\ recording # NoSession
  /\ lossy' = [lossy EXCEPT ![recording] = TRUE]
  /\ UNCHANGED <<recording, closed, queued>>

(* The recording is completed: queued if it is whole, and long enough.     *)
Finish ==
  /\ recording # NoSession
  /\ recording' = NoSession
  /\ closed' = [closed EXCEPT ![recording] = TRUE]
  /\ \E enough \in BOOLEAN :
       queued' = [queued EXCEPT ![recording] = enough /\ ~lossy[recording]]
  /\ UNCHANGED lossy

(* The recording ends without completion: a crash, a row that could not be *)
(* written, a session lost in a recovery that failed.                      *)
Vanish ==
  /\ recording # NoSession
  /\ recording' = NoSession
  /\ UNCHANGED <<lossy, closed, queued>>

Next ==
  \/ \E s \in Sessions : Begin(s) \/ BeginFails(s)
  \/ Lose \/ Finish \/ Vanish

Spec == Init /\ [][Next]_vars
=============================================================================
