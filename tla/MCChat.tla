------------------------------- MODULE MCChat -------------------------------
(* The chat of one note on a small instance: the values of the constants are *)
(* in the configurations.                                                    *)
EXTENDS Chat
=============================================================================
