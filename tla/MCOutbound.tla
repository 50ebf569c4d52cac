----------------------------- MODULE MCOutbound -----------------------------
(***************************************************************************)
(* Outbound on a small instance.  Sizes are in bytes: sealing adds one, so *)
(* the payloads below seal to 1 and 3 bytes, and the largest is refused.   *)
(***************************************************************************)
EXTENDS Outbound, TLC

WriterSymmetry == Permutations(Writers)
=============================================================================
