----------------------------- MODULE MCNoteStore -----------------------------
(* The store of one note on a small instance: the values of the constants    *)
(* are in the configuration.                                                 *)
EXTENDS NoteStore
=============================================================================
