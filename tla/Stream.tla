------------------------------- MODULE Stream -------------------------------
(***************************************************************************)
(* What one direction of an etcp.Conn promises: the packets the sender     *)
(* queued are received exactly once, in order, whatever happens to the     *)
(* links.  Packets are numbered by their sender from 0.                    *)
(***************************************************************************)
EXTENDS Naturals, Sequences

VARIABLES
  sent,     \* how many packets the sender has queued
  received  \* the packets the receiver has been given, in order

Init == sent = 0 /\ received = <<>>

Send == sent' = sent + 1 /\ UNCHANGED received

(* One packet, or the several of a catchup. *)
Receive ==
  /\ \E n \in (Len(received) + 1) .. sent : received' = [i \in 1 .. n |-> i - 1]
  /\ UNCHANGED sent

Next == Send \/ Receive

vars == <<sent, received>>

Spec == Init /\ [][Next]_vars
=============================================================================
