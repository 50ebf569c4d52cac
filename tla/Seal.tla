-------------------------------- MODULE Seal --------------------------------
(***************************************************************************)
(* The counter nonce of internal/seal, for both directions of a connection *)
(* that share one key. A nonce is a little-endian number whose last byte   *)
(* is the direction.                                                       *)
(***************************************************************************)
EXTENDS Naturals, Sequences, SequencesExt

CONSTANTS NonceDigit, NonceLen  \* 256 and 24 in the code

ASSUME SealAssumption == {NonceDigit, NonceLen} \subseteq Nat \ {0, 1}

Directions == {0, 1}  \* ClientToServer, ServerToClient

(* New, for each direction; used collects the nonces boxes were sealed with *)
StreamsInit ==
  [d \in Directions |-> [nonce |-> [i \in 1 .. NonceLen |-> IF i = NonceLen THEN d ELSE 0],
                         used |-> <<>>]]

(* increment: each byte up to the first that does not wrap to zero *)
increment(nonce) ==
  [i \in DOMAIN nonce |->
     IF \A j \in 1 .. i - 1 : nonce[j] + 1 = NonceDigit THEN (nonce[i] + 1) % NonceDigit
     ELSE nonce[i]]

(* The counter would carry into the direction. *)
Spent(nonce) == \A i \in 1 .. NonceLen - 1 : nonce[i] + 1 = NonceDigit

Seal(s, d) ==
  LET nonce == increment(s[d].nonce)
  IN  [s EXCEPT ![d] = [nonce |-> nonce, used |-> Append(@.used, nonce)]]

(***************************************************************************)
(* No nonce is used twice under the key, by either direction.              *)
(***************************************************************************)
NonceRule(s) ==
  /\ \A d \in Directions : IsInjective(s[d].used)
  /\ ToSet(s[0].used) \cap ToSet(s[1].used) = {}
=============================================================================
