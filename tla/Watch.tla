------------------------------- MODULE Watch -------------------------------
(***************************************************************************)
(* The liveness watcher of one link (internal/etcp/link.go: watch and      *)
(* probeBehind; conn.go: probeOnce) with the writer and the reader that    *)
(* feed it, in discrete time.                                              *)
(*                                                                         *)
(* An entry of the ring is one piece of the writer, "data" or "probe".     *)
(* What was written sits in the socket's send buffer until the uplink      *)
(* carries it to the server, which sends nothing but the echo of a probe   *)
(* and what it likes.  Goroutines are prompt: time passes only when none   *)
(* of them can move.  A live path carries one piece in Drain ticks and     *)
(* brings an echo within Echo ticks.                                       *)
(***************************************************************************)
EXTENDS Naturals, Sequences, Functions, SequencesExt

CONSTANTS
  KeepAlive,  \* Conn.keepAlive, in ticks
  Drain,      \* ticks in which a live uplink carries one piece
  Echo,       \* ticks in which an echo arrives
  SndBuf,     \* pieces the socket's send buffer holds
  MaxBatch,   \* pieces of a batch: writeBufSize over progressChunk
  MaxQueue,   \* model bound: packets of the caller in the queue
  MaxFrames   \* model bound: frames that wait to be read

(* What KeepAlive's comment asks for: a piece and a full send buffer ahead *)
(* of the probe, and its echo, take less than the quiet period.            *)
ASSUME WatchAssumption ==
  /\ {KeepAlive, Drain, SndBuf, MaxBatch} \subseteq Nat \ {0}
  /\ Echo \in Nat /\ MaxQueue \in Nat /\ MaxFrames \in Nat
  /\ (SndBuf + 1) * Drain + Echo < KeepAlive

VARIABLES
  timer,       \* ticks until t.C, which is ready at 0
  probed,      \* watch's probed
  alive,       \* l.alive
  dead,        \* watch returned errLinkDead
  delivering,  \* l.delivering
  frames,      \* frames the reader has not read yet
  sealed,      \* a packet was sealed
  queue,       \* the ring after the writer's batch
  batch,       \* what is left of the batch
  flushing,    \* the batch is not committed: flushed is at its start
  probeIn,     \* the batch holds the last probe: probeAt >= 0
  snd,         \* the send buffer
  drained,     \* ticks since a piece left it
  echoes,      \* the ages of the echoes under way
  up,          \* the path is alive
  quiet,       \* history: ticks since a proof of life
  refused      \* history: probed, though nothing draws an answer

watcher == <<timer, probed, dead>>
writer == <<queue, batch, flushing, probeIn>>
network == <<snd, drained, echoes, up>>
vars == <<watcher, alive, delivering, frames, sealed, writer, network, quiet, refused>>

Init ==
  /\ timer = KeepAlive /\ probed = FALSE /\ alive = FALSE /\ dead = FALSE
  /\ delivering = FALSE /\ frames = 0 /\ sealed = FALSE
  /\ queue = <<>> /\ batch = <<>> /\ flushing = FALSE /\ probeIn = FALSE
  /\ snd = <<>> /\ drained = 0 /\ echoes = <<>> /\ up = TRUE
  /\ quiet = 0 /\ refused = FALSE

Waiting(q) == "probe" \in Range(q)
-----------------------------------------------------------------------------
(***************************************************************************)
(* The watcher.  A token and the timer may be ready together.              *)
(***************************************************************************)
Restarts == timer' = KeepAlive  \* t.Reset

WatchAlive ==
  /\ ~dead /\ alive
  /\ alive' = FALSE /\ probed' = FALSE /\ refused' = FALSE /\ Restarts
  /\ UNCHANGED <<dead, delivering, frames, sealed, writer, network, quiet>>

Expired == ~dead /\ timer = 0

(* The reader is blocked, or no probe may be sent yet. *)
WatchExcuses ==
  /\ Expired /\ (delivering \/ ~sealed)
  /\ probed' = FALSE /\ refused' = FALSE /\ Restarts
  /\ UNCHANGED <<dead, alive, delivering, frames, sealed, writer, network, quiet>>

(* Not while lastProbe >= flushed: a probe waits, or its batch does. *)
probeOnce == queue' = IF Waiting(queue) \/ probeIn THEN queue ELSE Append(queue, "probe")

(* Faulty: probed is not set. *)
WatchProbesForgets ==
  /\ Expired /\ ~delivering /\ sealed /\ ~probed
  /\ probeOnce /\ Restarts
  /\ refused' = (probeIn /\ ~Waiting(batch))
  /\ UNCHANGED <<probed, dead, alive, delivering, frames, sealed, batch, flushing, probeIn,
                 network, quiet>>

WatchProbes ==
  /\ Expired /\ ~delivering /\ sealed /\ ~probed
  /\ probeOnce /\ probed' = TRUE /\ Restarts
  /\ refused' = (probeIn /\ ~Waiting(batch))
  /\ UNCHANGED <<dead, alive, delivering, frames, sealed, batch, flushing, probeIn, network,
                 quiet>>

WatchGivesUp ==
  /\ Expired /\ ~delivering /\ sealed /\ probed
  /\ dead' = TRUE
  /\ UNCHANGED <<timer, probed, alive, delivering, frames, sealed, writer, network, quiet, refused>>
-----------------------------------------------------------------------------
(***************************************************************************)
(* The caller and the writer.                                              *)
(***************************************************************************)
WritePacket ==
  /\ ~dead /\ Len(SelectSeq(queue, LAMBDA e : e = "data")) < MaxQueue
  /\ queue' = Append(queue, "data") /\ sealed' = TRUE
  /\ UNCHANGED <<watcher, alive, delivering, frames, batch, flushing, probeIn, network, quiet, refused>>

(* A batch is framed. *)
WriterTakes ==
  /\ ~dead /\ ~flushing /\ queue # <<>>
  /\ LET n == IF Len(queue) < MaxBatch THEN Len(queue) ELSE MaxBatch
     IN  /\ batch' = SubSeq(queue, 1, n) /\ queue' = SubSeq(queue, n + 1, Len(queue))
         /\ probeIn' = Waiting(batch')
  /\ flushing' = TRUE
  /\ UNCHANGED <<watcher, alive, delivering, frames, sealed, network, quiet, refused>>

(* Faulty: a probe queued after the batch does not count. *)
probeBehindInBatch(rest) == Waiting(rest)

(* A probe waits behind what was written, in the batch or after it. *)
probeBehind(rest) == IF probeIn THEN Waiting(rest) ELSE Waiting(queue)

(* l.alive is signalled, which proves life if s. *)
Signals(s) == alive' = (alive \/ s) /\ quiet' = IF s THEN 0 ELSE quiet

WriterWrites ==
  /\ ~dead /\ batch # <<>> /\ Len(snd) < SndBuf
  /\ batch' = Tail(batch) /\ snd' = Append(snd, Head(batch))
  /\ drained' = IF snd = <<>> THEN 0 ELSE drained
  /\ Signals(probeBehind(batch'))
  /\ UNCHANGED <<watcher, delivering, frames, sealed, queue, flushing, probeIn, echoes, up, refused>>

WriterCommits ==
  /\ ~dead /\ flushing /\ batch = <<>>
  /\ flushing' = FALSE /\ probeIn' = FALSE
  /\ UNCHANGED <<watcher, alive, delivering, frames, sealed, queue, batch, network, quiet, refused>>
-----------------------------------------------------------------------------
(* The reader signals l.alive for a frame, then hands its packet over. *)
ReaderReads ==
  /\ ~dead /\ ~delivering /\ frames > 0
  /\ frames' = frames - 1 /\ delivering' = TRUE
  /\ Signals(TRUE)
  /\ UNCHANGED <<watcher, sealed, writer, network, refused>>

ReaderHandsOver ==
  /\ ~dead /\ delivering
  /\ delivering' = FALSE
  /\ UNCHANGED <<watcher, alive, frames, sealed, writer, network, quiet, refused>>
-----------------------------------------------------------------------------
(***************************************************************************)
(* The network and the server.                                             *)
(***************************************************************************)
UplinkCarries ==
  /\ ~dead /\ up /\ snd # <<>>
  /\ snd' = Tail(snd) /\ drained' = 0
  /\ echoes' = IF Head(snd) = "probe" THEN Append(echoes, 0) ELSE echoes
  /\ UNCHANGED <<watcher, alive, delivering, frames, sealed, writer, up, quiet, refused>>

EchoArrives ==
  /\ ~dead /\ up /\ echoes # <<>>
  /\ echoes' = Tail(echoes) /\ frames' = frames + 1
  /\ UNCHANGED <<watcher, alive, delivering, sealed, writer, snd, drained, up, quiet, refused>>

ServerSpeaks ==
  /\ ~dead /\ up /\ frames < MaxFrames
  /\ frames' = frames + 1
  /\ UNCHANGED <<watcher, alive, delivering, sealed, writer, network, quiet, refused>>

PathDies ==
  /\ ~dead /\ up
  /\ up' = FALSE /\ drained' = 0 /\ echoes' = <<>>
  /\ UNCHANGED <<watcher, alive, delivering, frames, sealed, writer, snd, quiet, refused>>

(* A goroutine can move, or the network must. *)
Urgent ==
  \/ alive \/ timer = 0
  \/ batch # <<>> /\ Len(snd) < SndBuf
  \/ batch = <<>> /\ (flushing \/ queue # <<>>)
  \/ ~delivering /\ frames > 0
  \/ up /\ snd # <<>> /\ drained >= Drain
  \/ up /\ echoes # <<>> /\ Head(echoes) >= Echo

Tick ==
  /\ ~dead /\ ~Urgent
  /\ timer' = timer - 1
  /\ drained' = IF up /\ snd # <<>> THEN drained + 1 ELSE 0
  /\ echoes' = [i \in DOMAIN echoes |-> echoes[i] + 1]
  /\ quiet' = IF delivering \/ ~sealed THEN 0 ELSE quiet + 1
  /\ UNCHANGED <<probed, dead, alive, delivering, frames, sealed, writer, snd, up, refused>>
-----------------------------------------------------------------------------
Next ==
  \/ WatchAlive \/ WatchExcuses \/ WatchProbes \/ WatchGivesUp
  \/ WritePacket \/ WriterTakes \/ WriterWrites \/ WriterCommits
  \/ ReaderReads \/ ReaderHandsOver
  \/ UplinkCarries \/ EchoArrives \/ ServerSpeaks \/ PathDies \/ Tick

Spec == Init /\ [][Next]_vars
-----------------------------------------------------------------------------
Entries == {"data", "probe"}

(* Every variable of the watcher and of what it watches keeps its type. *)
TypeOK ==
  /\ timer \in 0 .. KeepAlive
  /\ {probed, alive, dead, delivering, sealed, flushing, probeIn, up, refused} \subseteq BOOLEAN
  /\ frames \in Nat /\ drained \in 0 .. Drain
  /\ {queue, batch, snd} \subseteq Seq(Entries)
  /\ Len(queue) <= MaxQueue + 1 /\ Len(batch) <= MaxBatch /\ Len(snd) <= SndBuf
  /\ echoes \in Seq(0 .. Echo)
  /\ quiet \in Nat

(***************************************************************************)
(* A slow uplink that is still moving is a live link (the comment of       *)
(* TestLivenessSlowUploadKeepsLink).  It is not given up while the writer  *)
(* is part way through the batch that held the last probe and the uplink   *)
(* carries a piece of it every Drain ticks.                                *)
(***************************************************************************)
MovingLinkKept == dead /\ up => ~(probeIn /\ batch # <<>>)

(***************************************************************************)
(* watch gives a live link up in one case only: the last probe had been    *)
(* written, but not the batch it was part of, so probeOnce queued no other *)
(* one and nothing was left to draw an answer or to make writes count.     *)
(***************************************************************************)
LiveLinkKept == dead => ~up \/ refused

(***************************************************************************)
(* A link without proof of life (a frame, a write ahead of a waiting       *)
(* probe, a reader blocked by its caller) is given up after two quiet      *)
(* periods: stale tokens and writes into a full buffer do not prolong it.  *)
(***************************************************************************)
DeadLinkFound == quiet <= 2 * KeepAlive
=============================================================================
