---------------------------- MODULE TerminalInput ----------------------------
(***************************************************************************)
(* What the terminal service sends (internal/session/terminal.go): the     *)
(* keyboard reader and the resize watcher on one side, the one sender      *)
(* goroutine on the other, with pendingInput and latestSize between them.  *)
(*                                                                         *)
(* A byte of input is its number; a window size is a number, 0 for one     *)
(* with no rows or columns.  Locks, channel operations and blocking calls  *)
(* are steps of their own.  Resizes is both consoles': Unix waits for      *)
(* SIGWINCH, Windows polls.                                                *)
(***************************************************************************)
EXTENDS Naturals, Sequences, FiniteSets, Functions

CONSTANTS
  Max,          \* maxPending
  Chunk,        \* MaxInputPacket
  ReadBuf,      \* the size of one console read
  Sizes,        \* the window sizes, 0 among them or not
  FirstSize,    \* the window's size at the start
  DefaultSize,  \* defaultSize
  MaxTyped,     \* model bound: bytes typed
  MaxResizes    \* model bound: window size changes

ASSUME InputAssumption ==
  /\ {Max, Chunk, ReadBuf} \subseteq Nat \ {0}
  /\ Sizes \subseteq Nat /\ FirstSize \in Sizes /\ DefaultSize \in Nat \ {0}
  /\ MaxTyped \in Nat /\ MaxResizes \in Nat

VARIABLES
  polls,    \* Resizes polls the window's size, as on Windows
  over,     \* the session's context has ended
  (* the reader and pendingInput *)
  typed,    \* bytes that left the escape filter
  rd,       \* where terminalService.read is
  rest,     \* push's b: the bytes not yet in the buffer
  buf, stalled, ready, space,
  dropped,  \* the bytes push gave up
  (* the sender *)
  sd,       \* where terminalService.send is
  chunk,    \* the bytes it took and has not sent
  sent,     \* the bytes it sent
  info,     \* the last TERMINAL_INFO it sent, 0 for none
  (* window sizes *)
  win,      \* the window's size
  resizes,  \* how often it changed
  winch,    \* SIGWINCH is pending in Resizes' channel
  rz,       \* where start, then the resize goroutine, is
  last,     \* Resizes' last
  sz, dirty, changed,  \* latestSize
  taken,    \* the size the sender took
  blind     \* a call of Size failed

input == <<typed, rd, rest, buf, stalled, ready, space, dropped>>
sending == <<sd, chunk, sent, info, taken>>
window == <<win, resizes, winch>>
size == <<sz, dirty, changed>>
watching == <<rz, last, blind>>
vars == <<polls, over, input, sending, window, size, watching>>

Init ==
  /\ polls \in BOOLEAN /\ over = FALSE
  /\ typed = 0 /\ rd = "off" /\ rest = <<>>
  /\ buf = <<>> /\ stalled = FALSE /\ ready = FALSE /\ space = FALSE /\ dropped = {}
  /\ sd = "off" /\ chunk = <<>> /\ sent = <<>> /\ info = 0
  /\ win = FirstSize /\ resizes = 0 /\ winch = FALSE
  /\ rz = "resizes" /\ last = 0
  /\ sz = 0 /\ dirty = FALSE /\ changed = FALSE
  /\ taken = 0 /\ blind = FALSE
-----------------------------------------------------------------------------
(***************************************************************************)
(* start: Resizes takes its baseline, the first size is read and stored,   *)
(* and the goroutines are launched.  A size that cannot be read is zero.   *)
(***************************************************************************)
(* Console.Size: the window's size, or an error *)
SizeRead == {[z |-> win, err |-> FALSE], [z |-> 0, err |-> TRUE]}

StartResizes ==
  /\ rz = "resizes"
  /\ \E r \in SizeRead : last' = r.z /\ blind' = (blind \/ r.err)
  /\ rz' = "size"
  /\ UNCHANGED <<polls, over, input, sending, window, size>>

(* latestSize.set, without its signal *)
SetSize(z) == sz' = z /\ dirty' = TRUE

StartSize ==
  /\ rz = "size"
  /\ \E r \in SizeRead : SetSize(r.z) /\ blind' = (blind \/ r.err)
  /\ changed' = TRUE
  /\ rd' = "read" /\ sd' = "wait" /\ rz' = "notify"
  /\ UNCHANGED <<polls, over, typed, rest, buf, stalled, ready, space, dropped, chunk, sent, info,
                 taken, window, last>>
-----------------------------------------------------------------------------
(***************************************************************************)
(* The reader: what a read leaves after the escape filter is pushed.       *)
(***************************************************************************)
ReaderReads ==
  /\ rd = "read"
  /\ \E n \in 1 .. ReadBuf :
       /\ typed + n <= MaxTyped
       /\ typed' = typed + n /\ rest' = [i \in 1 .. n |-> typed + i]
  /\ rd' = "push"
  /\ UNCHANGED <<polls, over, buf, stalled, ready, space, dropped, sending, window, size, watching>>

(* The escape, an error, or Run has closed the terminal. *)
ReaderReturns ==
  /\ rd = "read"
  /\ rd' = "done" /\ over' = TRUE
  /\ UNCHANGED <<polls, typed, rest, buf, stalled, ready, space, dropped, sending, window,
                 size, watching>>

Fits == IF Len(rest) <= Max - Len(buf) THEN Len(rest) ELSE Max - Len(buf)

AppendsUpTo(n) ==
  /\ rd = "push" /\ Fits > 0
  /\ buf' = buf \o SubSeq(rest, 1, Fits)
  /\ rest' = SubSeq(rest, n + 1, Len(rest))
  /\ rd' = "signal"
  /\ UNCHANGED <<polls, over, typed, stalled, ready, space, dropped, sending, window, size, watching>>

(* Faulty: a byte too many is counted as buffered. *)
PushSkipsByte == AppendsUpTo(Fits + 1)

PushAppends == AppendsUpTo(Fits)

(* Faulty: the sender is not told. *)
PushSignalsNot ==
  /\ rd = "signal"
  /\ rd' = IF rest = <<>> THEN "read" ELSE "push"
  /\ UNCHANGED <<polls, over, typed, rest, buf, stalled, ready, space, dropped, sending, window,
                 size, watching>>

PushSignals ==
  /\ rd = "signal"
  /\ ready' = TRUE
  /\ rd' = IF rest = <<>> THEN "read" ELSE "push"
  /\ UNCHANGED <<polls, over, typed, rest, buf, stalled, space, dropped, sending, window, size,
                 watching>>

GiveUp ==
  /\ dropped' = dropped \cup Range(rest) /\ rest' = <<>> /\ rd' = "read"
  /\ UNCHANGED <<polls, over, typed, buf, ready, space, sending, window, size, watching>>

PushDrops == rd = "push" /\ Fits = 0 /\ stalled /\ GiveUp /\ UNCHANGED stalled

PushWaits ==
  /\ rd = "push" /\ Fits = 0 /\ ~stalled
  /\ rd' = "grace"
  /\ UNCHANGED <<polls, over, typed, rest, buf, stalled, ready, space, dropped, sending, window,
                 size, watching>>

(* The select: p.space, the timer, ctx.Done. *)
PushWoken ==
  /\ rd = "grace" /\ space
  /\ space' = FALSE /\ rd' = "push"
  /\ UNCHANGED <<polls, over, typed, rest, buf, stalled, ready, dropped, sending, window, size,
                 watching>>

(* Faulty: only the sender ends the wait. *)
PushNeverTimesOut == FALSE /\ UNCHANGED vars

PushTimesOut ==
  /\ rd = "grace"
  /\ rd' = "timeout"
  /\ UNCHANGED <<polls, over, typed, rest, buf, stalled, ready, space, dropped, sending, window,
                 size, watching>>

PushStalls == rd = "timeout" /\ stalled' = TRUE /\ GiveUp

PushStops == rd = "grace" /\ over /\ GiveUp /\ UNCHANGED stalled
-----------------------------------------------------------------------------
(***************************************************************************)
(* The sender: the latest size if it changed, then all pending input.      *)
(***************************************************************************)
SenderReady ==
  /\ sd = "wait" /\ ready
  /\ ready' = FALSE /\ sd' = "size"
  /\ UNCHANGED <<polls, over, typed, rd, rest, buf, stalled, space, dropped, chunk, sent, info, taken,
                 window, size, watching>>

SenderChanged ==
  /\ sd = "wait" /\ changed
  /\ changed' = FALSE /\ sd' = "size"
  /\ UNCHANGED <<polls, over, input, chunk, sent, info, taken, window, sz, dirty, watching>>

SenderStops ==
  /\ sd = "wait" /\ over
  /\ sd' = "done"
  /\ UNCHANGED <<polls, over, input, chunk, sent, info, taken, window, size, watching>>

(* latestSize.take *)
SenderTakesSize ==
  /\ sd = "size"
  /\ IF dirty THEN taken' = sz /\ sd' = "info" ELSE sd' = "take" /\ UNCHANGED taken
  /\ dirty' = FALSE
  /\ UNCHANGED <<polls, over, input, chunk, sent, info, window, sz, changed, watching>>

terminalInfo(z) == IF z = 0 THEN DefaultSize ELSE z

SenderSendsSize ==
  /\ sd = "info"
  /\ info' = terminalInfo(taken) /\ sd' = "take"
  /\ UNCHANGED <<polls, over, input, chunk, sent, taken, window, size, watching>>

(* pendingInput.take; its signal is a step of its own. *)
SenderTakes ==
  LET n == IF Chunk <= Len(buf) THEN Chunk ELSE Len(buf)
  IN  /\ sd = "take" /\ n > 0
      /\ chunk' = SubSeq(buf, 1, n) /\ buf' = SubSeq(buf, n + 1, Len(buf))
      /\ stalled' = FALSE
      /\ sd' = "space"
      /\ UNCHANGED <<polls, over, typed, rd, rest, ready, space, dropped, sent, info, taken, window,
                     size, watching>>

SenderFindsNothing ==
  /\ sd = "take" /\ buf = <<>>
  /\ sd' = "wait"
  /\ UNCHANGED <<polls, over, input, chunk, sent, info, taken, window, size, watching>>

SenderSignals ==
  /\ sd = "space"
  /\ space' = TRUE /\ sd' = "write"
  /\ UNCHANGED <<polls, over, typed, rd, rest, buf, stalled, ready, dropped, chunk, sent, info, taken,
                 window, size, watching>>

(* Faulty: one packet, and back to waiting. *)
SenderSendsOnce ==
  /\ sd = "write"
  /\ sent' = sent \o chunk /\ chunk' = <<>> /\ sd' = "wait"
  /\ UNCHANGED <<polls, over, input, info, taken, window, size, watching>>

SenderSends ==
  /\ sd = "write"
  /\ sent' = sent \o chunk /\ chunk' = <<>> /\ sd' = "take"
  /\ UNCHANGED <<polls, over, input, info, taken, window, size, watching>>

(* WritePacket fails. *)
SenderFails ==
  /\ sd \in {"info", "write"}
  /\ sd' = "done" /\ over' = TRUE
  /\ UNCHANGED <<polls, input, chunk, sent, info, taken, window, size, watching>>
-----------------------------------------------------------------------------
(***************************************************************************)
(* Window sizes: the user resizes at any time.  On Unix Resizes registers  *)
(* for SIGWINCH, compares once, then compares on every signal; on Windows  *)
(* it compares at every tick.                                              *)
(***************************************************************************)
Listening == rz \notin {"resizes", "size", "notify", "done"}

Resize ==
  /\ resizes < MaxResizes
  /\ win' \in Sizes \ {win} /\ resizes' = resizes + 1
  /\ winch' = (winch \/ (Listening /\ ~polls))
  /\ UNCHANGED <<polls, over, input, sending, size, watching>>

Moves(pc) ==
  /\ rz' = pc
  /\ UNCHANGED <<polls, over, input, sending, window, size, last, blind>>

(* Faulty: the loop starts with the first signal. *)
ResizerWaitsFirst == rz = "notify" /\ Moves("wait")

ResizerNotifies == rz = "notify" /\ Moves(IF polls THEN "wait" ELSE "check")

ResizerTicks == polls /\ rz = "wait" /\ Moves("check")

ResizerSignalled ==
  /\ rz = "wait" /\ winch
  /\ winch' = FALSE /\ rz' = "check"
  /\ UNCHANGED <<polls, over, input, sending, win, resizes, size, last, blind>>

ResizerStops == rz \in {"wait", "check"} /\ over /\ Moves("done")

(* resizeCheck: a changed size is yielded, an unreadable one skipped. *)
ResizerChecks ==
  /\ rz = "check"
  /\ \/ win = last /\ rz' = "wait" /\ UNCHANGED <<last, blind>>
     \/ win # last /\ last' = win /\ rz' = (IF over THEN "done" ELSE "set") /\ UNCHANGED blind
     \/ rz' = "wait" /\ blind' = TRUE /\ UNCHANGED last
  /\ UNCHANGED <<polls, over, input, sending, window, size>>

(* latestSize.set, then signal(l.changed). *)
ResizerSets ==
  /\ rz = "set"
  /\ SetSize(last) /\ rz' = "signal"
  /\ UNCHANGED <<polls, over, input, sending, window, changed, last, blind>>

ResizerSignals ==
  /\ rz = "signal"
  /\ changed' = TRUE /\ rz' = "wait"
  /\ UNCHANGED <<polls, over, input, sending, window, sz, dirty, last, blind>>

(* Anything else that ends the session. *)
SessionEnds ==
  /\ ~over /\ over' = TRUE
  /\ UNCHANGED <<polls, input, sending, window, size, watching>>
-----------------------------------------------------------------------------
Start == StartResizes \/ StartSize

Push ==
  \/ PushAppends \/ PushSignals \/ PushDrops \/ PushWaits
  \/ PushWoken \/ PushTimesOut \/ PushStalls \/ PushStops

Sender ==
  \/ SenderReady \/ SenderChanged \/ SenderStops \/ SenderTakesSize \/ SenderSendsSize
  \/ SenderTakes \/ SenderFindsNothing \/ SenderSignals \/ SenderSends

Resizer ==
  \/ ResizerNotifies \/ ResizerTicks \/ ResizerSignalled \/ ResizerChecks
  \/ ResizerSets \/ ResizerSignals \/ ResizerStops

Next ==
  \/ Start \/ ReaderReads \/ ReaderReturns \/ Push \/ Sender \/ SenderFails
  \/ Resize \/ Resizer \/ SessionEnds

Spec == Init /\ [][Next]_vars

(***************************************************************************)
(* Fairness: each goroutine runs.  For the reader that includes its timer. *)
(* For the sender it includes WritePacket, which etcp's backpressure       *)
(* delays and does not stop for ever: a property that needs that says so.  *)
(***************************************************************************)
ReaderFairness == WF_vars(Push)

FairSpec == Spec /\ ReaderFairness

SenderRuns == WF_vars(Sender)
ResizerRuns == WF_vars(Start \/ Resizer)

SendingSpec == FairSpec /\ SenderRuns /\ ResizerRuns
-----------------------------------------------------------------------------
(* Every variable of the terminal's input side keeps its type. *)
TypeOK ==
  /\ {polls, over, stalled, ready, space, winch, dirty, changed, blind} \subseteq BOOLEAN
  /\ typed \in 0 .. MaxTyped /\ dropped \subseteq 1 .. typed
  /\ {rest, buf, chunk, sent} \subseteq Seq(1 .. typed)
  /\ Len(buf) <= Max /\ Len(chunk) <= Chunk /\ Len(rest) <= ReadBuf
  /\ rd \in {"off", "read", "push", "signal", "grace", "timeout", "done"}
  /\ sd \in {"off", "wait", "size", "info", "take", "space", "write", "done"}
  /\ rz \in {"resizes", "size", "notify", "check", "wait", "set", "signal", "done"}
  /\ win \in Sizes /\ {last, sz, taken} \subseteq Sizes \cup {0}
  /\ info \in Sizes \cup {0, DefaultSize} /\ resizes \in 0 .. MaxResizes

(***************************************************************************)
(* Every byte typed is in exactly one place, and those that were not given *)
(* up keep the order they were typed in, through splits into pushes and    *)
(* packets, waits and drops.                                               *)
(***************************************************************************)
InputInOrder ==
  LET line == sent \o chunk \o buf \o rest
  IN  /\ \A i \in 1 .. Len(line) - 1 : line[i] < line[i + 1]
      /\ Range(line) = (1 .. typed) \ dropped

(***************************************************************************)
(* No lost wakeup: the sender never sleeps on input or on a size it has    *)
(* not sent, nor does the reader sit out its grace period with room in the *)
(* buffer, unless somebody is about to wake them.                          *)
(***************************************************************************)
NobodyStranded ==
  /\ sd = "wait" =>
       /\ buf # <<>> => ready \/ rd = "signal"
       /\ dirty => changed \/ rz = "signal"
  /\ (rd = "grace" /\ Len(buf) < Max) => space \/ sd = "space"

(***************************************************************************)
(* read does not wait on the network: every push ends, so that the escape  *)
(* is seen while the connection is stalled.                                *)
(***************************************************************************)
PushReturns == rd \in {"push", "signal", "grace", "timeout"} ~> rd \in {"read", "done"}

(***************************************************************************)
(* Input that was not given up is sent, if the sender runs: it catches up  *)
(* again and again, and with the last byte typed for good.                 *)
(***************************************************************************)
CaughtUp == over \/ Range(sent) \cup dropped = 1 .. typed

TypedIsSent == SenderRuns => []<>CaughtUp

(* The server knows the window's size, or nobody can tell it any more. *)
ToldSize == info = terminalInfo(win) \/ over \/ blind

(***************************************************************************)
(* When the window stops changing, as MaxResizes makes it, the size the    *)
(* server was told last is the window's, whenever the changes came: a      *)
(* resize between Resizes and the first Size is reported rather than lost  *)
(* (the comment in start), and none falls in the gap before the            *)
(* registration for SIGWINCH (the comment on Resizes).                     *)
(***************************************************************************)
NoResizeIsLost == <>[]ToldSize

(***************************************************************************)
(* The same, but for a window that changed between Resizes and the first   *)
(* Size and was back at Resizes' baseline when that was next compared: the *)
(* size compared is then not the one stored, and none was ever reported.   *)
(***************************************************************************)
LatestSizeIsSent ==
  (SenderRuns /\ ResizerRuns) => \/ <>[]ToldSize
                                 \/ [](rz # "set") /\ <>[](sz # last)
=============================================================================
