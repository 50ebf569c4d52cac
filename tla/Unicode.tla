------------------------------- MODULE Unicode -------------------------------
(***************************************************************************)
(* The Windows console's conversions (internal/console/utf16.go), which    *)
(* hold back half a character at the end of one call for the next, and     *)
(* what each must make of the stream as a whole.                           *)
(*                                                                         *)
(* A character is the sequence of units or bytes it was decoded from;      *)
(* U+FFFD is the empty sequence.                                           *)
(***************************************************************************)
EXTENDS Naturals, Sequences, SequencesExt, Slices

Bad == <<>>   \* U+FFFD

(* UTF-16 units: a high surrogate, a low one, anything else. *)
Units == {"H", "L", "u"}

DecoderInit == [high |-> <<>>, dst |-> <<>>]

(* One round of utf16Decoder.append's loop. *)
DecodeUnit(d, u) ==
  IF d.high # <<>> /\ u = "L" THEN [high |-> <<>>, dst |-> Append(d.dst, <<"H", "L">>)]
  ELSE LET dst == IF d.high # <<>> THEN Append(d.dst, Bad) ELSE d.dst
       IN  CASE u = "H" -> [high |-> <<u>>, dst |-> dst]
             [] u = "L" -> [high |-> <<>>, dst |-> Append(dst, Bad)]
             [] u = "u" -> [high |-> <<>>, dst |-> Append(dst, <<u>>)]

(* Faulty: a call starts with no surrogate pending. *)
decodeAfresh(d, units) == Loop(DecodeUnit, [d EXCEPT !.high = <<>>], units)

decode(d, units) == Loop(DecodeUnit, d, units)

(* What the unit at i gives: a pair is written at its high surrogate. *)
UnitGives(in, i) ==
  LET Pair(j) == j \in 1 .. Len(in) - 1 /\ in[j] = "H" /\ in[j + 1] = "L"
  IN  CASE Pair(i) -> <<<<"H", "L">>>>
        [] Pair(i - 1) \/ (i = Len(in) /\ in[i] = "H") -> <<>>
        [] in[i] = "u" -> <<<<"u">>>>
        [] OTHER -> <<Bad>>

(* Every pair is one character, every other surrogate U+FFFD, once the     *)
(* unit after a high one is known.                                         *)
DecoderRule(in, d) == d.dst = FlattenSeq([i \in DOMAIN in |-> UnitGives(in, i)])
-----------------------------------------------------------------------------
(***************************************************************************)
(* UTF-8 bytes: ASCII; the first of two, of three (E0, which needs a       *)
(* second byte from A0 on) and of four; continuations below A0 and from    *)
(* A0 on; a byte that is never valid.                                      *)
(***************************************************************************)
Bytes == {"a", "2", "E", "4", "c", "d", "x"}
Size(b) == CASE b = "2" -> 2 [] b = "E" -> 3 [] b = "4" -> 4 [] OTHER -> 1

(* Whether p, after its first byte, can be the start of a character. *)
Continues(p) ==
  /\ \A i \in 2 .. Len(p) : i <= Size(p[1]) => p[i] \in {"c", "d"}
  /\ (p[1] = "E" /\ Len(p) > 1) => p[2] = "d"

(* utf8.FullRune and utf8.DecodeRune *)
FullRune(p) == Len(p) >= Size(p[1]) \/ ~Continues(p)
Valid(p) == p[1] \notin {"c", "d", "x"} /\ Len(p) >= Size(p[1]) /\ Continues(p)
DecodeRune(p) == IF Valid(p) THEN SubSeq(p, 1, Size(p[1])) ELSE Bad
Width(r) == IF r = Bad THEN 1 ELSE Len(r)

EncoderInit == [carry |-> <<>>, dst |-> <<>>]

(* Both loops of utf8Encoder.append: each takes one character off the      *)
(* bytes it holds, and the rounds are at most as many as the bytes.        *)
Take(s) ==
  IF s.carry = <<>> \/ ~FullRune(s.carry) THEN s
  ELSE LET r == DecodeRune(s.carry)
       IN  [carry |-> From(s.carry, Width(r) + 1), dst |-> Append(s.dst, r)]

Encodes(dst, p) == Loop(LAMBDA s, i : Take(s), [carry |-> p, dst |-> dst], p)

(***************************************************************************)
(* append: the carried bytes are joined with at most UTFMax of p, which    *)
(* finishes or rejects them; the rest of p follows.                        *)
(***************************************************************************)
TakeJoined(joined, n, s) ==
  IF s.stop \/ s.used >= n THEN s
  ELSE IF ~FullRune(From(joined, s.used + 1)) THEN [s EXCEPT !.stop = TRUE]
  ELSE LET r == DecodeRune(From(joined, s.used + 1))
       IN  [s EXCEPT !.used = @ + Width(r), !.dst = Append(@, r)]

encode(e, p) ==
  LET joined == e.carry \o SubSeq(p, 1, IF Len(p) < 4 THEN Len(p) ELSE 4)
      j == Loop(LAMBDA s, i : TakeJoined(joined, Len(e.carry), s),
                [used |-> 0, dst |-> e.dst, stop |-> FALSE], e.carry)
  IN  IF j.stop THEN [carry |-> From(joined, j.used + 1), dst |-> j.dst]
      ELSE Encodes(j.dst, From(p, j.used - Len(e.carry) + 1))

(* What the byte at i gives: a character is written at its first byte, and *)
(* an unfinished one at the end is held.                                   *)
ByteGives(in, i) ==
  LET Within(j) == Valid(From(in, j)) /\ j < i /\ i < j + Size(in[j])
      Held(j) == j <= i /\ ~FullRune(From(in, j))
  IN  IF Valid(From(in, i)) THEN <<DecodeRune(From(in, i))>>
      ELSE IF \E j \in 1 .. i : Within(j) \/ Held(j) THEN <<>> ELSE <<Bad>>

(* The units of a character, and those of several. *)
UnitsOf(rs) ==
  FlattenSeq([k \in DOMAIN rs |-> IF Len(rs[k]) = 4 THEN <<"H", "L">> ELSE <<"u">>])

chunkLen(units, limit) ==
  CASE Len(units) <= limit -> Len(units)
    [] Len(units) > limit /\ units[limit] = "H" /\ units[limit + 1] = "L" -> limit - 1
    [] OTHER -> limit

(***************************************************************************)
(* A stream of bytes becomes what a conversion of all of it would give,    *)
(* but for an unfinished character at its end; and the chunks its units    *)
(* are written in, from any character on, are not empty and end with one.  *)
(***************************************************************************)
EncoderRule(in, e) ==
  /\ e.dst = FlattenSeq([i \in DOMAIN in |-> ByteGives(in, i)])
  /\ Len(e.carry) < 4
  /\ \A k \in DOMAIN e.dst, limit \in 2 .. 3 :
       LET units == UnitsOf(From(e.dst, k))
           n == chunkLen(units, limit)
       IN  n \in 1 .. limit /\ units[n] # "H"
=============================================================================
