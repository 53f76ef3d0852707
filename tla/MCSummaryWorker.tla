---------------------------- MODULE MCSummaryWorker ----------------------------
(***************************************************************************)
(* SummaryWorker for TLC.                                                  *)
(***************************************************************************)
EXTENDS SummaryRefinement
=============================================================================
