---------------------------- MODULE MCKnowledgeJobs ----------------------------
(***************************************************************************)
(* KnowledgeJobs for TLC.                                                  *)
(***************************************************************************)
EXTENDS KnowledgeJobs
=============================================================================
