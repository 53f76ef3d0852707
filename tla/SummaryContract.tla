---------------------------- MODULE SummaryContract ----------------------------
(***************************************************************************)
(* What becomes of a recording in its row, for those who read the row: the *)
(* recording goes as RecordingContract says, which alone opens, closes and *)
(* queues a note; its transcript grows while it goes on; and a note that is*)
(* queued gets, once, the summary of the transcript it is queued with.     *)
(***************************************************************************)
EXTENDS Naturals

CONSTANTS Sessions, NoSession

VARIABLES
  recording, lossy, closed, queued,  \* as in RecordingContract
  transcript,  \* how far the transcript of a note has grown
  summary      \* the transcript that its generated summary is of

Recording == INSTANCE RecordingContract

vars == <<recording, lossy, closed, queued, transcript, summary>>

Init ==
  /\ Recording!Init
  /\ transcript = [s \in Sessions |-> 0] /\ summary = [s \in Sessions |-> 0]

Record ==
  /\ Recording!Next
  /\ UNCHANGED <<transcript, summary>>

Grow ==
  /\ recording # NoSession
  /\ transcript' = [transcript EXCEPT ![recording] = @ + 1]
  /\ UNCHANGED <<recording, lossy, closed, queued, summary>>

Summarize(s) ==
  /\ queued[s]
  /\ queued' = [queued EXCEPT ![s] = FALSE]
  /\ summary' = [summary EXCEPT ![s] = transcript[s]]
  /\ UNCHANGED <<recording, lossy, closed, transcript>>

Next == Record \/ Grow \/ \E s \in Sessions : Summarize(s)

Spec == Init /\ [][Next]_vars
=============================================================================
