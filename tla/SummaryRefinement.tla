--------------------------- MODULE SummaryRefinement ---------------------------
(***************************************************************************)
(* The workers of all windows, the title generations, the user and the     *)
(* listener, who write the same row, implement SummaryContract together.   *)
(***************************************************************************)
EXTENDS SummaryWorker

CONSTANT NoNote  \* no note is being recorded

ASSUME NoNoteAssumption == NoNote \notin Notes

Recorded ==
  IF \E n \in Notes : live[n] = "on" THEN CHOOSE n \in Notes : live[n] = "on"
  ELSE NoNote

Closed == [n \in Notes |-> rows[n].end # 0]
Queued == [n \in Notes |-> rows[n].needs]
Transcript == [n \in Notes |-> rows[n].words]
Summary == [n \in Notes |-> rows[n].auto]

(* What a recording lost is decided before its row is written: completion  *)
(* queues the note or not, which the contract leaves open.                 *)
Lossless == [n \in Notes |-> FALSE]

Contract == INSTANCE SummaryContract WITH
  Sessions <- Notes, NoSession <- NoNote,
  recording <- Recorded, lossy <- Lossless, closed <- Closed,
  queued <- Queued, transcript <- Transcript, summary <- Summary

(* Without imports: nothing that the workers, the titles or the user write *)
(* opens, closes or queues a note, or brings an old value of these columns *)
(* back; a mark is taken once, and only together with the summary of the   *)
(* very transcript that the listener marked.                               *)
Implements == Contract!Spec
=============================================================================
