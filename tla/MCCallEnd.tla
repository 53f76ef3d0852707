------------------------------ MODULE MCCallEnd ------------------------------
(* The end of a meeting on a small instance: the values of the constants are *)
(* in the configuration.                                                     *)
EXTENDS CallEnd
=============================================================================
