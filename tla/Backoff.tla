------------------------------- MODULE Backoff -------------------------------
(***************************************************************************)
(* The delays between reconnects (internal/etcp/backoff.go), in units of   *)
(* 50 ms and in signed integers below Half.                                *)
(***************************************************************************)
EXTENDS Integers, Sequences, SequencesExt, FiniteSetsExt

CONSTANT Half  \* 2^63 in the code; enough for the last exponential

ASSUME BackoffAssumption == Half \in Nat /\ Half > 160

backoffBase == 5
backoffMax == 100
Jitters == 0 .. 2  \* 0, a half and the limit of jitter's [0, 1)
Reset == -1        \* stands for a call of reset

Wrap(v) == ((v + Half) % (2 * Half)) - Half

(* The attempts so far, and what next gave last. *)
BackoffInit == [attempt |-> 0, delay |-> 0]

Shift(n) == Min({n - 1, 5})

next(b, j) ==
  LET n == b.attempt
      d == Min({Wrap(backoffBase * 2 ^ Shift(n)), backoffMax})
  IN  [attempt |-> n + 1,
       delay |-> IF n = 0 THEN 0 ELSE Min({(d * (4 + j)) \div 5, backoffMax})]

reset(b) == BackoffInit

Asks(b, x) == IF x = Reset THEN reset(b) ELSE next(b, x)

(***************************************************************************)
(* The first attempt after a reset is immediate; the others wait within    *)
(* 20 % of a delay that doubles up to the cap, and never longer.           *)
(***************************************************************************)
BackoffRule(in, b) ==
  LET n == Len(in) - Max({i \in DOMAIN in : in[i] = Reset} \cup {0}) - 1
      exact[i \in 1 .. n] ==
        IF i = 1 THEN backoffBase ELSE Min({2 * exact[i - 1], backoffMax})
  IN  IF n <= 0 THEN b.delay = 0
      ELSE /\ 4 * exact[n] <= 5 * b.delay /\ 5 * b.delay <= 6 * exact[n]
           /\ b.delay <= backoffMax
=============================================================================
