-------------------------------- MODULE Ring --------------------------------
(***************************************************************************)
(* The replay ring of an etcp.Conn (internal/etcp/ring.go): the sealed     *)
(* outbound packets, by sequence number, kept for the link writer and for  *)
(* replay after a reconnect.                                               *)
(*                                                                         *)
(* A packet is abstracted to its place in the sealed byte stream: packet s *)
(* is the bytes Off(r, s) .. Off(r, s + 1) - 1, so ring.entries is the     *)
(* range of sequence numbers r.first .. NextSeq(r) - 1 and the length of an   *)
(* entry is the difference of two offsets.  Offsets of trimmed packets are *)
(* kept as history; no operation below reads one.  ring.bytes is kept as   *)
(* the counter the code keeps, so that its bookkeeping can go wrong.       *)
(***************************************************************************)
EXTENDS Integers, Sequences

CONSTANT Limit  \* ring.limit, the ReplayLimit in bytes (0 selects the default)

ASSUME LimitAssumption == Limit \in Nat \ {0}

Rings == [first : Nat, off : Seq(Nat), bytes : Int, held : BOOLEAN, hold : Nat]

EmptyRing == [first |-> 0, off |-> <<0>>, bytes |-> 0, held |-> FALSE, hold |-> 0]

(***************************************************************************)
(* ring.next: the sequence number the next pushed packet gets, which is    *)
(* also the number of packets sealed so far.                               *)
(***************************************************************************)
NextSeq(r) == Len(r.off) - 1

Off(r, s) == r.off[s + 1]

(* Faulty: the difference the wrong way round. *)
BytesBetweenReversed(r, from, to) == Off(r, from) - Off(r, to)

(* ring.bytesBetween: the size of the entries [from, to). *)
BytesBetween(r, from, to) == Off(r, to) - Off(r, from)

(* ring.push of a packet of n sealed bytes. *)
Push(r, n) ==
  [r EXCEPT !.off = Append(@, Off(r, NextSeq(r)) + n), !.bytes = @ + n]

(***************************************************************************)
(* ring.since reports whether the entries [from, to) can be replayed.      *)
(***************************************************************************)
Since(r, from, to) == r.first <= from /\ from <= to /\ to <= NextSeq(r)

-----------------------------------------------------------------------------
(***************************************************************************)
(* ring.trim(keep, unsent) drops the oldest written entries one by one     *)
(* until its loop condition fails.  WrittenFrom is the loop's              *)
(* r.bytes - unsent once the entries before f are gone; TrimStops is the   *)
(* negated loop condition together with the break for a held catchup.      *)
(***************************************************************************)
WrittenFrom(r, unsent, f) == r.bytes - BytesBetween(r, r.first, f) - unsent

(* Faulty: the loop without its break, which ignores the hold. *)
TrimStopsUnheld(r, keep, unsent, f) ==
  f >= NextSeq(r) \/ WrittenFrom(r, unsent, f) <= Limit \/ f >= keep

(* Faulty: a hold that nothing bounds. *)
TrimStopsHeld(r, keep, unsent, f) ==
  TrimStopsUnheld(r, keep, unsent, f) \/ (r.held /\ f >= r.hold)

TrimStops(r, keep, unsent, f) ==
  \/ f >= NextSeq(r)
  \/ WrittenFrom(r, unsent, f) <= Limit
  \/ f >= keep
  \/ r.held /\ f >= r.hold /\ WrittenFrom(r, unsent, f) <= 2 * Limit

(* The first sequence number at which the loop stops. *)
TrimPoint(r, keep, unsent) ==
  CHOOSE f \in r.first .. NextSeq(r) :
    /\ TrimStops(r, keep, unsent, f)
    /\ \A g \in r.first .. (f - 1) : ~TrimStops(r, keep, unsent, g)

(* Faulty: the dropped entries stay in ring.bytes. *)
TrimUncounted(r, keep, unsent) == [r EXCEPT !.first = TrimPoint(r, keep, unsent)]

Trim(r, keep, unsent) ==
  LET f == TrimPoint(r, keep, unsent)
  IN  [r EXCEPT !.first = f, !.bytes = @ - BytesBetween(r, r.first, f)]
=============================================================================
