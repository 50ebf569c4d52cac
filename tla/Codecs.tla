------------------------------- MODULE Codecs -------------------------------
(***************************************************************************)
(* The program's stateful conversions, each fed its input piece by piece,  *)
(* against the rule for the input as a whole. A piece is what one call is  *)
(* given: a keyboard read, a console read or write, a byte from the        *)
(* connection, a box to seal, an attempt to reconnect, a character.        *)
(***************************************************************************)
EXTENDS Escape, Unicode, Arguments, Wire, Seal, Backoff

CONSTANTS ReadBuf,   \* the longest piece
          MaxInput   \* the longest input, by conversion

VARIABLES alg,  \* the conversion
          in,   \* its input so far
          st    \* its state and its output so far

vars == <<alg, in, st>>

Starts == [escape |-> EscapeInit, decode |-> DecoderInit, encode |-> EncoderInit,
           destination |-> <<>>, frame |-> ReaderInit("frame"),
           message |-> ReaderInit("message"), packet |-> <<>>,
           seal |-> StreamsInit, backoff |-> BackoffInit]

ASSUME CodecsAssumption ==
  ReadBuf \in Nat \ {0} /\ MaxInput \in [DOMAIN Starts -> Nat]

Init ==
  /\ alg \in DOMAIN Starts
  /\ in = <<>>
  /\ st = Starts[alg]

(* The conversion a is given one more piece, made of the elements of S. *)
Given(a, piece) ==
  /\ alg = a
  /\ Len(in) + Len(piece) <= MaxInput[a]
  /\ in' = in \o piece
  /\ UNCHANGED alg
Pieces(S) == BoundedSeq(S, ReadBuf) \ {<<>>}

Filters == \E p \in Pieces(KeyBytes) : Given("escape", p) /\ st' = filter(st, p)
Decodes == \E p \in Pieces(Units) : Given("decode", p) /\ st' = decode(st, p)
EncodesBytes == \E p \in Pieces(Bytes) : Given("encode", p) /\ st' = encode(st, p)
Parses == \E c \in Characters : Given("destination", <<c>>) /\ st' = st
Receives ==
  \E a \in {"frame", "message"}, b \in 0 .. Digit - 1 : Given(a, <<b>>) /\ st' = ReadByte(st, b)
Packs == \E b \in 0 .. Digit : Given("packet", <<b>>) /\ st' = st
Seals ==
  \E d \in Directions : Given("seal", <<d>>) /\ ~Spent(st[d].nonce) /\ st' = Seal(st, d)
Reconnects == \E x \in Jitters \cup {Reset} : Given("backoff", <<x>>) /\ st' = Asks(st, x)

Next ==
  \/ Filters \/ Decodes \/ EncodesBytes \/ Parses
  \/ Receives \/ Packs \/ Seals \/ Reconnects

Spec == Init /\ [][Next]_vars
-----------------------------------------------------------------------------
(***************************************************************************)
(* However the text is cut into calls, the keyboard filter detaches and    *)
(* sends as escape.go's comment says, the console's decoder and encoder    *)
(* give what a conversion of the whole text gives, with only an unfinished *)
(* character held back, and a command line is refused or means what its    *)
(* usage text says, with nothing that was given ignored.                   *)
(***************************************************************************)
TextFollowsRule ==
  CASE alg = "escape" -> EscapeRule(in, st)
    [] alg = "decode" -> DecoderRule(in, st)
    [] alg = "encode" -> EncoderRule(in, st)
    [] alg = "destination" -> ArgumentsRule(in)
    [] OTHER -> TRUE

(***************************************************************************)
(* Whatever arrives, readers of frames and handshake messages find the     *)
(* bodies that were written and no others, with a buffer in proportion to  *)
(* what arrived; a packet holds its payload wherever that lay; no nonce is *)
(* used twice under a key; and reconnect delays stay within their bounds,  *)
(* also where the exponential no longer fits an integer.                   *)
(***************************************************************************)
WireFollowsRule ==
  CASE alg \in {"frame", "message"} -> ReaderRule(in, st)
    [] alg = "packet" -> PacketRule(in)
    [] alg = "seal" -> NonceRule(st)
    [] alg = "backoff" -> BackoffRule(in, st)
    [] OTHER -> TRUE
=============================================================================
