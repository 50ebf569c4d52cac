---------------------------- MODULE MCEternalTCP ----------------------------
(* EternalTCP on a small instance. *)
EXTENDS EternalTCP
=============================================================================
