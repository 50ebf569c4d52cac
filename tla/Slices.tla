------------------------------- MODULE Slices -------------------------------
(***************************************************************************)
(* What the conversions do with a slice: Go's p[i:], counting from 1, and  *)
(* a loop over p, each round of which turns the state f into the next one. *)
(***************************************************************************)
EXTENDS Naturals, Sequences

From(p, i) == SubSeq(p, i, Len(p))

Loop(round(_, _), f, p) ==
  LET after[i \in 0 .. Len(p)] == IF i = 0 THEN f ELSE round(after[i - 1], p[i])
  IN  after[Len(p)]
=============================================================================
