------------------------------- MODULE Session -------------------------------
(***************************************************************************)
(* session.Run (internal/session): the router that reads the transport,    *)
(* the goroutines of the terminal service, and Run, which waits for the    *)
(* first of them to end the session, closes the terminal and joins them.   *)
(*                                                                         *)
(* A packet of terminal output is its number; other packets have no        *)
(* content but an exit status.  Keyboard input and window sizes are in     *)
(* module TerminalInput: here the reader and the sender only end.          *)
(***************************************************************************)
EXTENDS Naturals, Sequences

CONSTANTS
  QueueLen,   \* queueLen
  Codes,      \* the exit statuses a server sends
  MaxPackets  \* model bound: packets the transport delivers

ASSUME SessionAssumption ==
  /\ QueueLen \in Nat \ {0} /\ MaxPackets \in Nat
  /\ Codes \cap {"none", "ended", "detached", "signal", "read", "output", "input", "send"} = {}

VARIABLES
  term,      \* opts.Terminal is set
  strands,   \* closeMayStrandReader
  cause,     \* why the session's context ended, or "none"
  router,    \* where router.run is
  arrived,   \* packets ReadPacket has returned
  routed,    \* those of them that were terminal output
  held,      \* the packet the router is queueing, as a sequence
  exit,      \* the exit status received, or "none"
  ch,        \* queue.ch of the terminal service
  closed,    \* it is closed
  drained,   \* queue.drained is closed
  output,    \* where terminalService.output is
  item,      \* the packet it is writing, as a sequence
  written,   \* the packets the terminal was given
  garbled,   \* output returned an error of its own
  reader, sender, resizer,  \* the other goroutines: "run" or "done"
  console,   \* the terminal: "open", "closing", or what Close made of it
  run        \* where Run is

routing == <<router, arrived, routed, held, exit>>
queue == <<ch, closed, drained>>
writing == <<output, item, written, garbled>>
others == <<reader, sender, resizer>>
fixed == <<term, strands>>
vars == <<fixed, cause, routing, queue, writing, others, console, run>>

(* A session without a terminal has the router as its only goroutine. *)
Init ==
  /\ term \in BOOLEAN /\ strands \in BOOLEAN
  /\ cause = "none"
  /\ router = "read" /\ arrived = 0 /\ routed = 0 /\ held = <<>> /\ exit = "none"
  /\ ch = <<>> /\ closed = FALSE /\ drained = ~term
  /\ output = (IF term THEN "recv" ELSE "done")
  /\ item = <<>> /\ written = <<>> /\ garbled = FALSE
  /\ reader = (IF term THEN "run" ELSE "done") /\ sender = reader /\ resizer = reader
  /\ console = "open" /\ run = "wait"

Done == cause # "none"                                 \* ctx.Done
Cancel(c) == cause' = IF Done THEN cause ELSE c        \* the first cause stays
-----------------------------------------------------------------------------
(***************************************************************************)
(* The router.  ReadPacket may still return packets after ctx is done.     *)
(***************************************************************************)
Arrives == router = "read" /\ arrived < MaxPackets /\ arrived' = arrived + 1

(* KEEP_ALIVE, a header nobody registered, an exit status without a code. *)
RouterSkips ==
  /\ Arrives
  /\ UNCHANGED <<fixed, cause, router, routed, held, exit, queue, writing, others,
                 console, run>>

RouterTakesStatus ==
  /\ Arrives /\ exit' \in Codes
  /\ UNCHANGED <<fixed, cause, router, routed, held, queue, writing, others, console, run>>

RouterTakesOutput ==
  /\ term /\ Arrives
  /\ routed' = routed + 1 /\ held' = <<routed'>> /\ router' = "push"
  /\ UNCHANGED <<fixed, cause, exit, queue, writing, others, console, run>>

Queues(q) ==
  /\ router = "push"
  /\ ch' = q /\ held' = <<>> /\ router' = "read"
  /\ UNCHANGED <<fixed, cause, arrived, routed, exit, closed, drained, writing, others,
                 console, run>>

QueueRoom == Len(ch) < QueueLen

(* Faulty: a full queue drops the packet instead of stalling the router. *)
RouterQueuesOrDrops == Queues(IF QueueRoom THEN ch \o held ELSE ch)

RouterQueues == QueueRoom /\ Queues(ch \o held)

EndsWith(c) ==
  /\ router = "read"
  /\ closed' = c /\ router' = "drain"
  /\ UNCHANGED <<fixed, cause, arrived, routed, held, exit, ch, drained, writing, others,
                 console, run>>

(* Faulty: the queue is left open. *)
RouterEndsOpen == EndsWith(closed)

(* An error wrapping io.EOF, or TERMINAL_CLOSE: ended closes the queues. *)
RouterEnds == EndsWith(TRUE)

RouterReturns(c) ==
  /\ Cancel(c) /\ router' = "done"
  /\ UNCHANGED <<fixed, arrived, routed, held, exit, queue, writing, others, console, run>>

Normal == IF exit = "none" THEN "ended" ELSE exit

(* Faulty: the end is reported without waiting for the services. *)
RouterHasEnded == router = "drain" /\ RouterReturns(Normal)

RouterDrained == router = "drain" /\ drained /\ RouterReturns(Normal)

(* Any other error, or an exit status that does not decode. *)
RouterFails == router = "read" /\ RouterReturns("read")

RouterStops == router # "done" /\ Done /\ RouterReturns(cause)
-----------------------------------------------------------------------------
(***************************************************************************)
(* The terminal service.  output ranges over router.packets, whose         *)
(* deferred markDrained runs when the range ends, before output returns.   *)
(***************************************************************************)
(* A Write that starts after Close has is refused. *)
OutputTakes ==
  /\ output = "recv" /\ ch # <<>>
  /\ item' = <<Head(ch)>> /\ ch' = Tail(ch)
  /\ output' = IF console = "open" THEN "write" ELSE "refused"
  /\ UNCHANGED <<fixed, cause, routing, closed, drained, written, garbled, others, console,
                 run>>

OutputWrites ==
  /\ output = "write" /\ console \in {"open", "closing"}
  /\ written' = written \o item /\ item' = <<>> /\ output' = "recv"
  /\ UNCHANGED <<fixed, cause, routing, queue, garbled, others, console, run>>

(* The queue is closed and empty, or ctx is done. *)
OutputEnds ==
  /\ output = "recv" /\ ((closed /\ ch = <<>>) \/ Done)
  /\ drained' = TRUE /\ output' = "done"
  /\ UNCHANGED <<fixed, cause, routing, ch, closed, item, written, garbled, others, console,
                 run>>

(* The packet does not decode, or the terminal's Write fails. *)
OutputFails ==
  /\ output \in {"write", "refused"}
  /\ garbled' = TRUE /\ drained' = TRUE /\ output' = "cancel"
  /\ UNCHANGED <<fixed, cause, routing, ch, closed, item, written, others, console, run>>

OutputCancels ==
  /\ output = "cancel"
  /\ Cancel("output") /\ output' = "done"
  /\ UNCHANGED <<fixed, routing, queue, item, written, garbled, others, console, run>>

(***************************************************************************)
(* read returns on the escape, on an error, and once the terminal is       *)
(* closed; a Close that failed on Windows may leave it blocked.            *)
(***************************************************************************)
ReaderReturns(c) ==
  /\ reader = "run" /\ Cancel(c) /\ reader' = "done"
  /\ UNCHANGED <<fixed, routing, queue, writing, sender, resizer, console, run>>

ReaderDetaches == console = "open" /\ ReaderReturns("detached")
ReaderFails == console = "open" /\ ReaderReturns("input")
ReaderUnblocked == console \in {"closing", "closed", "failed"} /\ ReaderReturns(cause)

(* send returns when WritePacket fails, and when ctx is done. *)
SenderReturns(c) ==
  /\ sender = "run" /\ Cancel(c) /\ sender' = "done"
  /\ UNCHANGED <<fixed, routing, queue, writing, reader, resizer, console, run>>

SenderFails == SenderReturns("send")
SenderStops == Done /\ SenderReturns(cause)

ResizerStops ==
  /\ resizer = "run" /\ Done /\ resizer' = "done"
  /\ UNCHANGED <<fixed, cause, routing, queue, writing, reader, sender, console, run>>
-----------------------------------------------------------------------------
(***************************************************************************)
(* Run.                                                                    *)
(***************************************************************************)
(* The caller's context ends: a signal, or Ctrl+Break. *)
CallerCancels ==
  /\ ~Done /\ run = "wait" /\ \E c \in {"signal", "detached"} : Cancel(c)
  /\ UNCHANGED <<fixed, routing, queue, writing, others, console, run>>

(* Close on Windows: from here on no Write starts, and the reader is woken. *)
RunStartsClose ==
  /\ run = "wait" /\ Done /\ term /\ strands
  /\ console' = "closing" /\ run' = "close"
  /\ UNCHANGED <<fixed, cause, routing, queue, writing, others>>

(***************************************************************************)
(* Close returns.  On Windows it takes wmu first, and so waits, with no    *)
(* bound, for the Write that was in flight when it started.                *)
(***************************************************************************)
RunCloses ==
  /\ run = (IF term /\ strands THEN "close" ELSE "wait") /\ Done
  /\ strands => output # "write"
  /\ console' \in IF ~term THEN {"open"}
                  ELSE {"closed", "failed"} \cup (IF strands THEN {"stuck"} ELSE {})
  /\ run' = "join"
  /\ UNCHANGED <<fixed, cause, routing, queue, writing, others>>

RunJoins ==
  /\ run = "join"
  /\ router = "done" /\ output = "done" /\ sender = "done" /\ resizer = "done"
  /\ run' = "reader"
  /\ UNCHANGED <<fixed, cause, routing, queue, writing, others, console>>

ReaderStuck == strands /\ console \in {"failed", "stuck"}

RunReturns ==
  /\ run = "reader" /\ (reader = "done" \/ ReaderStuck)
  /\ run' = "returned"
  /\ UNCHANGED <<fixed, cause, routing, queue, writing, others, console>>

(* Nothing is left to do. *)
Returned == run = "returned" /\ UNCHANGED vars
-----------------------------------------------------------------------------
Router ==
  \/ RouterSkips \/ RouterTakesStatus \/ RouterTakesOutput \/ RouterQueues
  \/ RouterEnds \/ RouterDrained \/ RouterFails \/ RouterStops

Output == OutputTakes \/ OutputWrites \/ OutputEnds \/ OutputFails \/ OutputCancels

Run == RunStartsClose \/ RunCloses \/ RunJoins \/ RunReturns

Next ==
  \/ Router \/ Output \/ Run \/ CallerCancels \/ Returned
  \/ ReaderDetaches \/ ReaderFails \/ ReaderUnblocked
  \/ SenderFails \/ SenderStops \/ ResizerStops

Spec == Init /\ [][Next]_vars

(***************************************************************************)
(* Fairness: goroutines that can run do.  A select with several ready      *)
(* cases picks any of them, so a Done that stays ready is taken in the     *)
(* end.  Nothing is assumed of the server, the user or of a Write to the   *)
(* terminal, until it is refused or the terminal is closed under it, as on *)
(* Unix; nor of the reader while Close is trying to wake it.               *)
(***************************************************************************)
WriteOver == output = "refused" \/ console \notin {"open", "closing"}

Fairness ==
  /\ WF_vars(RouterQueues) /\ WF_vars(RouterDrained) /\ WF_vars(RouterStops)
  /\ WF_vars(OutputTakes \/ OutputEnds) /\ WF_vars(OutputCancels)
  /\ WF_vars(WriteOver /\ OutputFails)
  /\ WF_vars(console # "closing" /\ ReaderUnblocked) /\ WF_vars(SenderStops) /\ WF_vars(ResizerStops)
  /\ WF_vars(Run)

FairSpec == Spec /\ Fairness
-----------------------------------------------------------------------------
Numbers(n) == [i \in 1 .. n |-> i]
Causes == {"ended", "detached", "signal", "read", "output", "input", "send"} \cup Codes

(* Every variable of Run and of its goroutines keeps its type. *)
TypeOK ==
  /\ term \in BOOLEAN /\ strands \in BOOLEAN
  /\ cause \in Causes \cup {"none"} /\ exit \in Codes \cup {"none"}
  /\ router \in {"read", "push", "drain", "done"}
  /\ arrived \in 0 .. MaxPackets /\ routed \in 0 .. arrived
  /\ held \in Seq(1 .. routed) /\ ch \in Seq(1 .. routed) /\ item \in Seq(1 .. routed)
  /\ written \in Seq(1 .. routed)
  /\ Len(ch) <= QueueLen
  /\ closed \in BOOLEAN /\ drained \in BOOLEAN /\ garbled \in BOOLEAN
  /\ output \in {"recv", "write", "refused", "cancel", "done"}
  /\ {reader, sender, resizer} \subseteq {"run", "done"}
  /\ console \in {"open", "closing", "closed", "failed", "stuck"}
  /\ run \in {"wait", "close", "join", "reader", "returned"}

(***************************************************************************)
(* While the session runs, remote output is on its way to the terminal in  *)
(* the order it arrived, with nothing dropped however far the terminal     *)
(* falls behind.                                                           *)
(***************************************************************************)
OutputInOrder ==
  (~Done /\ ~garbled) => written \o item \o ch \o held = Numbers(routed)

(***************************************************************************)
(* service.start's promise: output the server sent just before ending      *)
(* still reaches the terminal, unless the terminal failed; and the exit    *)
(* status the server sent is what the session ends with.                   *)
(***************************************************************************)
NormalEndDrains ==
  cause \in {"ended"} \cup Codes =>
    /\ written = Numbers(routed) \/ garbled
    /\ cause = Normal
=============================================================================
