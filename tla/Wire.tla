-------------------------------- MODULE Wire --------------------------------
(***************************************************************************)
(* The framing of the byte stream (internal/wire): a length, then a body   *)
(* whose buffer grows with the bytes that arrive, and the two bytes of a   *)
(* packet that are written around its payload in place.                    *)
(*                                                                         *)
(* A byte is a digit, a length has PrefixLen of them: big-endian for a     *)
(* "frame", little-endian and signed for a handshake "message".            *)
(***************************************************************************)
EXTENDS Integers, Sequences, SequencesExt, FiniteSetsExt, Slices

CONSTANTS Digit,      \* values of a byte: 256 in the code
          PrefixLen,  \* 4 for frames, 8 for messages
          MaxFrameSize, MaxMessageSize,
          GrowChunk

(* Digit to the power of i *)
Power[i \in 0 .. PrefixLen] == IF i = 0 THEN 1 ELSE Digit * Power[i - 1]
Lengths == Power[PrefixLen]  \* the lengths a prefix can state

ASSUME WireAssumption ==
  /\ Digit \in Nat \ {0, 1} /\ {PrefixLen, GrowChunk} \subseteq Nat \ {0}
  /\ MaxFrameSize \in 1 .. Lengths - 1
  /\ MaxMessageSize \in Nat \ {0} /\ 2 * MaxMessageSize < Lengths

Lower(a, b) == Min({a, b})
Higher(a, b) == Max({a, b})

(* binary.BigEndian.Uint32 and binary.LittleEndian.Uint64 *)
Value(p) == Loop(LAMBDA v, b : Digit * v + b, 0, p)
Declared(kind, p) == Value(IF kind = "frame" THEN p ELSE Reverse(p))

(* int64 of a Uint64 *)
Signed(v) == IF 2 * v >= Lengths THEN v - Lengths ELSE v
Length(kind, p) == IF kind = "frame" THEN Declared(kind, p) ELSE Signed(Declared(kind, p))

MaxSize(kind) == IF kind = "frame" THEN MaxFrameSize ELSE MaxMessageSize
TooLarge(kind, n) == n < 0 \/ n > MaxSize(kind)

(* AppendFrame and WriteMessage *)
Prefix(n) == [i \in 1 .. PrefixLen |-> (n \div Power[PrefixLen - i]) % Digit]
AppendFrame(kind, body) ==
  (IF kind = "frame" THEN Prefix(Len(body)) ELSE Reverse(Prefix(Len(body)))) \o body
-----------------------------------------------------------------------------
(***************************************************************************)
(* A reader that passes its buffer back: what it returned, the bytes of    *)
(* the length or the body it is reading, the body's length once known,     *)
(* where the current read step ends, and the buffer's capacity. ReadFrame  *)
(* reads the length into the buffer; ReadMessage has a new one each time.  *)
(***************************************************************************)
Unknown == -1
HeaderCap(kind, cap) == IF kind = "frame" THEN Higher(cap, PrefixLen) ELSE 0

ReaderInit(kind) ==
  [kind |-> kind, got |-> <<>>, held |-> <<>>, n |-> Unknown, next |-> 0,
   cap |-> HeaderCap(kind, 0), tooLarge |-> FALSE]

(* Faulty: the buffer is allocated at the length the peer declared. *)
GrownToDeclared(cap, next, n) == n

Grown(cap, next, n) == Lower(Higher(next, 2 * cap), Higher(n, GrowChunk))

(* readBody, at the start of a read step *)
readBody(r) ==
  LET len == Len(r.held)
      next == IF r.cap >= r.n THEN r.n ELSE Lower(r.n, Higher(2 * len, GrowChunk))
  IN  IF len = r.n
      THEN [r EXCEPT !.got = Append(@, r.held), !.held = <<>>, !.n = Unknown,
                     !.cap = HeaderCap(r.kind, @)]
      ELSE [r EXCEPT !.next = next, !.cap = IF @ < next THEN Grown(@, next, r.n) ELSE @]

(* ReadFrame or ReadMessage, as one more byte arrives *)
ReadByte(r, b) ==
  LET held == Append(r.held, b)
      n == Length(r.kind, held)
  IN  CASE r.tooLarge -> r
        [] ~r.tooLarge /\ r.n = Unknown /\ Len(held) < PrefixLen -> [r EXCEPT !.held = held]
        [] ~r.tooLarge /\ r.n = Unknown /\ Len(held) = PrefixLen ->
             IF TooLarge(r.kind, n) THEN [r EXCEPT !.tooLarge = TRUE]
             ELSE readBody([r EXCEPT !.held = <<>>, !.n = n])
        [] ~r.tooLarge /\ r.n # Unknown ->
             IF Len(held) < r.next THEN [r EXCEPT !.held = held]
             ELSE readBody([r EXCEPT !.held = held])

(* headerErr and bodyErr: what the reader returns if the stream ends now. *)
AtEOF(r) ==
  CASE r.tooLarge -> "ErrTooLarge"
    [] ~r.tooLarge /\ r.n = Unknown /\ r.held = <<>> -> "EOF"
    [] OTHER -> "ErrUnexpectedEOF"

(* The most bytes of one body the peer ever sent. *)
Arrived(r) ==
  Max({Len(r.got[i]) : i \in DOMAIN r.got} \cup {IF r.n = Unknown THEN 0 ELSE Len(r.held)})

(***************************************************************************)
(* Every complete body, written again, is the stream read so far, and the  *)
(* rest is no complete one; a length beyond the limit ends it; a stream    *)
(* that ends between two bodies ends cleanly; and the memory a peer costs  *)
(* is in proportion to what it sent, not to what it declared.              *)
(***************************************************************************)
ReaderRule(in, r) ==
  LET out == FlattenSeq([i \in DOMAIN r.got |-> AppendFrame(r.kind, r.got[i])])
      rest == From(in, Len(out) + 1)
      n == Declared(r.kind, SubSeq(rest, 1, PrefixLen))
  IN  /\ IsPrefix(out, in)
      /\ r.tooLarge = (Len(rest) >= PrefixLen /\ n > MaxSize(r.kind))
      /\ r.tooLarge \/ Len(rest) < PrefixLen \/ Len(rest) < PrefixLen + n
      /\ AtEOF(r) = CASE r.tooLarge -> "ErrTooLarge" [] rest = <<>> -> "EOF"
                      [] OTHER -> "ErrUnexpectedEOF"
      /\ r.cap <= Max({PrefixLen, 2 * GrowChunk, 4 * Arrived(r)})
-----------------------------------------------------------------------------
(***************************************************************************)
(* AppendPacket on memory m, whose first n bytes are b and which has       *)
(* capacity for the packet: the payload, anywhere in m, is copied before   *)
(* the flag and the header are written.                                    *)
(***************************************************************************)
Copied(m, n, from, len) ==
  [i \in DOMAIN m |-> IF i \in n + 3 .. n + 2 + len THEN m[from + i - n - 2] ELSE m[i]]
AppendPacket(m, n, flag, h, from, len) ==
  SubSeq([Copied(m, n, from, len) EXCEPT ![n + 1] = flag, ![n + 2] = h], 1, n + 2 + len)

ParsePacket(p) ==
  IF Len(p) < 2 THEN [err |-> TRUE]
  ELSE [err |-> FALSE, encrypted |-> p[1] # 0, h |-> p[2], payload |-> From(p, 3)]

(***************************************************************************)
(* Wherever the payload lies, the packet holds it, after what b held.      *)
(***************************************************************************)
PacketRule(in) ==
  \A n \in 0 .. Len(in) - 2, flag \in {0, 1} : \A len \in 0 .. Len(in) - n - 2 :
    \A from \in 0 .. Len(in) - len :
      LET b == AppendPacket(in, n, flag, 1, from, len)
      IN  /\ SubSeq(b, 1, n) = SubSeq(in, 1, n)
          /\ ParsePacket(From(b, n + 1)) =
               [err |-> FALSE, encrypted |-> flag = 1, h |-> 1,
                payload |-> SubSeq(in, from + 1, from + len)]
=============================================================================
