------------------------------- MODULE Escape -------------------------------
(***************************************************************************)
(* The local escape (internal/session/escape.go): a filter on the keyboard *)
(* stream whose state carries over from one read to the next, and the rule *)
(* its comment gives for the stream as a whole.                            *)
(***************************************************************************)
EXTENDS Naturals, Sequences, SequencesExt, Slices

Newlines == {"CR", "LF"}
KeyBytes == {"~", ".", "a"} \cup Newlines  \* "a" is any other byte

(* The escapeFilter, its output so far, and whether it detached. *)
EscapeInit == [midLine |-> FALSE, tilde |-> FALSE, dst |-> <<>>, detached |-> FALSE]

(* The bytes bs are sent after a "~" that was held, if any. *)
Sends(g, bs, mid) ==
  [g EXCEPT !.tilde = FALSE, !.midLine = mid,
            !.dst = (IF g.tilde /\ bs # <<"~">> THEN Append(@, "~") ELSE @) \o bs]

(* One round of filter's loop. *)
Round(g, b) ==
  CASE g.detached -> g
    [] ~g.detached /\ g.tilde /\ b = "." -> [g EXCEPT !.tilde = FALSE, !.detached = TRUE]
    [] ~g.detached /\ ~g.tilde /\ ~g.midLine /\ b = "~" -> [g EXCEPT !.tilde = TRUE]
    [] OTHER -> Sends(g, <<b>>, b \notin Newlines)

filter(f, src) == Loop(Round, f, src)
-----------------------------------------------------------------------------
(* A "~" at the start of the input or right after CR or LF. *)
Opens(in, i) == in[i] = "~" /\ (i = 1 \/ in[i - 1] \in Newlines)

Followed(in, i, b) == i < Len(in) /\ in[i + 1] = b

(* The position of the first "~." or, if there is none, past the end. *)
Detach(in) ==
  LET at == {i \in DOMAIN in : Opens(in, i) /\ Followed(in, i, ".")}
  IN  IF at = {} THEN Len(in) + 1 ELSE CHOOSE i \in at : \A j \in at : i <= j

(* The bytes sent: not the first of "~~", and not a "~" still undecided. *)
Kept(in, i) == i < Detach(in) /\ ~(Opens(in, i) /\ (i = Len(in) \/ Followed(in, i, "~")))

(***************************************************************************)
(* The filter detaches at the first "~." that begins a line and sends      *)
(* everything before it but the first "~" of a "~~" that begins a line.    *)
(***************************************************************************)
EscapeRule(in, f) ==
  /\ f.detached = (Detach(in) <= Len(in))
  /\ f.dst = FlattenSeq([i \in DOMAIN in |-> IF Kept(in, i) THEN <<in[i]>> ELSE <<>>])
=============================================================================
