# et-go in TLA+

et-go is an Eternal Terminal client. It starts a terminal on a remote host
over ssh, then keeps a session with `etserver` over TCP connections that come
and go: whatever a dead connection lost is sent again on the next one, so that
the user's shell sees a stream without gaps.

This directory models the parts of it where that can go wrong and checks them
with TLC on small instances. With TLAPS it proves every safety property that a run
checks for every value of the constants: the outbound queue, the whole protocol
between client and server down to the reliable stream it promises in each
direction, one connect, the liveness watcher, the session, the `et` command, the
terminal's input, the Windows console, and the conversions that see a stream in
pieces, for streams of any length.

## The system

| part | state | operations | talks to |
|---|---|---|---|
| replay ring (`etcp/ring.go`) | retained packets, `first`, `bytes`, `hold` | push, trim, since, appendRange, bytesBetween | its Conn, under `c.mu` |
| outbound half of Conn (`etcp/conn.go`, `link.go`) | ring, `flushed`, `unsent`, `lastProbe`, channels `wake` and `space` | WritePacket (many callers), writeLoop, probeOnce, releaseHold | supervisor, server |
| inbound half of Conn (`etcp/conn.go`, `link.go`) | `recvSeq`, `pending`, `inbox` | readLoop, deliver, handOver, ReadPacket | router, supervisor |
| supervisor (`etcp/recover.go`, `backoff.go`) | the current link, attempts | supervise, reconnect, backoff | dialer |
| connect and recover (`etcp/dialer.go`, `recover.go`, `idleconn.go`) | one connection | dial, handshake, the two goroutines of recover | server |
| watcher (`etcp/link.go`) | timer, `alive`, `delivering`, probe position | probes a quiet link, ends a dead one | both loops |
| sealing, wire (`seal`, `wire`) | a nonce counter per direction | Seal, Open, frame and message codecs | both ends |
| session (`session/run.go`, `router.go`, `session.go`) | the group's first error, the service's queue, exit status | Start, Run, router.run, push | Conn, terminal service |
| terminal service (`session/terminal.go`, `escape.go`) | `pendingInput`, `latestSize`, the escape filter | start, read, send, output | console, Conn |
| Unix console (`console/console_unix.go`) | the terminal's baseline state, `closed` | Open, MakeRaw, Read, Write, Size, Resizes, Close | terminal service, client |
| Windows console (`console/console_windows.go`, `utf16.go`) | baseline modes, `closing`, `reading`, decoded bytes, half characters | the same, and OnBreak | terminal service, client, other processes |
| client (`cmd/et`) | console, connection, Ctrl+Break handler, deferred calls | arguments, connect, exit statuses | all of the above |
| bootstrap (`bootstrap`) | a child process, its captured output | Run, parseCredentials, describeFailure | client, ssh |

The server is `etservertest/server.go`, the repository's own, which stands for
`etserver`.

What is hard here is the same almost everywhere: state read under a lock and
used after it was released (a batch being written, the snapshot of a recovery),
wakeups carried by one-element channels, links that die between any two steps,
two ends whose counts disagree until a recovery settles it, ends of the session
that race the output and input still on their way, resources that have to be
given back whichever step fails, and conversions that see a stream in pieces. `PROJECT.json` lists
these hazards one by one, each at its line.

## Modules

**Ring** holds the operators of the replay ring. A packet is abstracted to the
byte offset where it ends, so that sizes and trimming are exact and contents
are left out. `Trim` is stated by what the loop computes: the least `first` at
or below the hold, or at or below what was written, that fits the limit.

**Outbound** is the sending half of a Conn. An action is one critical section of
`c.mu`, one channel operation or one write to a socket:

| action | code |
|---|---|
| WriteCall, WriteRefused, WriteEnqueue, WriteBlocks, WriteWoken, WriteCancelled, WriteEnds, WriteSignalWake, WriteSignalSpace | `WritePacket`, any number of callers |
| LinkTakesBatch, LinkFindsNothing, LinkWoken, LinkWrites, LinkWriteFails, LinkCommits, LinkSignalsSpace, LinkWriterStops | `writeLoop` |
| Probe, ProbeSignals | `probeOnce` |
| ReleaseHold | `releaseHold`, on the first frame of a new link |
| LinkFails, LinkJoined, TakeOver, RecoverSnapshots, RecoverExceeded, RecoverWritesCatchup, RecoverFails, RecoverCommits, RecoverSignalsSpace, LinkStarts, LinkUnusable, RedialStops, RedialRejected | `supervise`, `reconnect`, `recover` and the start of the next link |
| Close | `Conn.Close` |
| ServerAccepts, ServerDecodesCatchup | the server counts a packet, or all of a catchup |

The server is reduced to what it has counted, what is on its way to it, and a
catchup it may still decode. A link may fail in any state, with any part of a
batch delivered.

**EternalTCP** is a whole client and a whole server over several links, in both
directions, one action per message. It extends Ring and takes packets to have
size 1; it leaves out the callers and wakeups that Outbound has. A link is two
FIFO queues that may stop delivering at any point. The old link's Serve keeps
reading until a new one takes over.

**Stream** is the abstract specification of one direction: packets are received
exactly once and in order. EternalTCP implements it twice, upstream with `sent
<- next, received <- accepted` and downstream with `received <- read`.

**Connect** is one call of `connect` against one `Serve`: the dial, the handshake
with every status, and `recover`'s two goroutines, over a connection whose
buffers are bounded and whose `idleConn` deadlines are counted in ticks. The
caller's context, the AfterFunc that closes the connection, a connection that
breaks and a message that does not decode all interleave with it. Sequence
numbers wrap as `int32` does, at a smaller width. EternalTCP runs many attempts,
each reduced to its messages; Connect runs one in full. What a successful
`recover` does to the ring is in Outbound.

**Watch** is the liveness watcher of one link with the writer and the reader that
signal it, in discrete time. An entry of the ring is one piece of the writer. The
socket's send buffer takes pieces until it is full, the uplink carries one every
`Drain` ticks, and the server echoes a probe. Goroutines are prompt: the clock
moves only when none of them can. Outbound and EternalTCP let the watcher end a
link whenever it likes; Watch says when it does.

**Client** is one invocation of `et`: the arguments, the log, the console, ssh, the
dial, `session.Start`, Ctrl+Break, raw mode, `session.Run`, then the deferred
calls and the exit status. Every step may fail, a signal or Ctrl+Break may come
at any time, and Run may panic. It extends the two modules that model its long
calls, and takes their steps while it is in them:

- **Bootstrap**, `bootstrap.Run` with the ssh process. Output is a sequence of
  tokens (noise, the marker, a well-formed id, a passkey, a malformed one, an echo
  of the passkey et sent), so that the scan, the cap and the excerpt are exact and
  the text is left out. A descendant may keep ssh's stdout, a prompt may leave
  the terminal's echo off, and ssh may ignore the interrupt.
- **Session**, `Run` with the router, the output goroutine, the reader, the sender
  and the resize goroutine, with and without a terminal, on a console whose Close
  may fail and may leave the reader stranded. On Windows Close takes two steps: from
  the first on a Write is refused, and the second waits for the Write that was in
  flight. On Unix a Write in flight returns because the terminal is closed under it.

The Unix console is in Client where it matters to it: the mode, whether setting
it failed, and whether the handle is closed. What a step leaves behind and nobody
looks at again is reset (`BootForgets`, `RunForgets`), which keeps the state
small and changes nothing.

**TerminalInput** is the other side of the terminal service: the keyboard
reader, `pendingInput` with its grace period, the sender, `latestSize` and
`Resizes`, which waits for SIGWINCH on Unix and polls on Windows. Here the session
may end at any moment (`SessionEnds`); in Session, the reader and the sender only
end.

**WindowsConsole** is the console of Windows: Read, Write, MakeRaw, the restore
functions, and Close, which wakes a reader blocked in ReadConsoleW by injecting
an Enter key, waits for it up to a deadline, flushes, waits for a Write and
restores both modes. The input buffer belongs to every process on the console:
another one may take a key or a wake record. Every console call may fail.

**Codecs** feeds the program's stateful conversions their input piece by piece and
compares with a rule for the input as a whole. Each has its own module:

| module | code | rule |
|---|---|---|
| Escape | `escapeFilter.filter` | the comment on `escapeFilter`, for the whole stream |
| Unicode | `utf16Decoder`, `utf8Encoder`, `chunkLen` | a conversion of all the input, but for a half character at its end; chunks of whole characters |
| Arguments | `parseDestination`, `parseArgs` | the ways to write a destination, generated from it, the port as any numeral `strconv.Atoi` reads, with a sign or leading zeros; nothing given is ignored |
| Wire | `ReadFrame`, `ReadMessage`, `readBody`, `AppendFrame`, `AppendPacket`, `ParsePacket` | what was written, by any cut; a buffer in proportion to what arrived |
| Seal | `Seal`, `increment` | no nonce twice, in either direction |
| Backoff | `next`, `reset` | delays within 20 % of a doubling one, under the cap |

Bytes, UTF-16 units and characters are classes that the code tells apart. In Wire
a byte is a digit of a small base, so that lengths have the code's arithmetic at
a smaller width. **Slices** has Go's `p[i:]` and `Loop`, a loop over a slice that
carries a state from round to round. A nonce counts up to the byte that holds the
direction and no further (`Spent`): the code would get there after 256^23 boxes.

**OutboundProofs** (Ring included), **EternalTCPProofs**, **ConnectProofs**,
**WatchProofs**, **ClientProofs** (Session and Bootstrap included),
**TerminalInputProofs**, **WindowsConsoleProofs** and **CodecsProofs** hold the
proofs; each extends the module it is about. The MC modules instantiate a component for TLC. Operators commented "Faulty" are plausible bugs
in the definition that follows them; `PROJECT.json` pairs each property with
one that breaks it, and nothing else uses them. The type invariant of a module
documents its state and is where a proof starts; only Outbound's is a property of
a run, as the others say nothing a run asks.

## Runs

Deadlock is checked for Client, where every behaviour must get to its exit. The
other models may stop: nobody has to type, write or redial, and the bounds use
up.

| run | bounds | shows |
|---|---|---|
| outbound_safety | two writers, Limit 2, sealed sizes 1, 3 and 4 (one too large), 3 sealed packets | RingAccounting, RingBounded, Resumable, NoLostSpace, NoLostWake, NeverCorrupt |
| outbound_liveness | two writers, Limit 1, packets of 2 bytes, 2 sealed packets | BlockedWriteReturns, SealedIsReceived |
| stream_safety | 3 links, 2 packets each way, Limit 1, inbox of 1 | NothingCountedIsLost, NoIntegrityFailure, refinement of Stream in both directions |
| stream_liveness | 2 links, 1 packet up and 2 down | EverythingArrives, TailIsRead |
| client | queue of 1, 3 packets, output of 4 tokens with an excerpt of 2 and 5 printed, statuses 0 and 256 | OutputInOrder, NormalEndDrains, KeyNotQuoted, ConsoleGivenBack, StatusSound, CancelledExits, EndIsReported |
| terminal_input | buffer of 2, packets of 1, reads of up to 2, 4 bytes typed, 1 resize from size zero | InputInOrder, NobodyStranded, PushReturns, TypedIsSent, LatestSizeIsSent |
| resize_gap | 2 resizes between 2 sizes, nothing typed | NoResizeIsLost is violated, see below |
| connect | buffers of one piece, timeout of 1 tick, numbers that wrap at 4 and counts of 0, 1 and 5, a window of 3 packets, either end up to 2 behind, catchups of at most 1 | NoMutualWait, DefinitiveAnswerStands, SuccessIsSound, TimeoutMeansIdle, ConnectReturns |
| watch | keepAlive 4, a piece per tick, echo 1, send buffer 1, batches of 10 | LiveLinkKept, DeadLinkFound |
| slow_upload | keepAlive 3, a piece per tick, echo at once, send buffer 1, batches of 10 | MovingLinkKept is violated, see below |
| codecs | texts of 6 (destinations of 5 characters, ports from 1 to 11) in pieces of up to 3, frames from 16 bytes and messages from 12 of base 2 with lengths of 4 digits, 12 boxes of 3-digit nonces, 8 attempts in integers below 256 | TextFollowsRule, WireFollowsRule |
| windows_console | two calls of Close, 2 keys, a Write of up to 3 units in chunks of 2, 2 calls of MakeRaw, 2 wake records | KeysInOrder, CleanClose, NoWriteAfterRestore, CloseReturns |

Why the bounds are enough for the cases that matter:

- *Outbound*: Limit 2 is exceeded by one packet and reached by two, so writers
  block, one token meets two blocked writers, trim drops one packet and keeps
  another, and a catchup is held across a second failure. The number of link
  failures is not bounded: the sequence numbers are the only counters.
- *EternalTCP*: with three links there are two recoveries in a row, the second
  while the first one's packets are still in `pending`, and two Serves of the
  server at once. Limit 1 makes `ErrReplayExceeded` reachable; an inbox of 1
  with two packets makes the hand over block.
- *Client*: three packets fill the queue, the item being written and the packet
  the router holds, all at once. Status 256 is one that eight bits turn into
  success. Four tokens of output hold a marker with what follows and noise before
  it, or overflow with one more; an excerpt of two can reach past a marker. The
  run also starts in `Run` without a terminal, as the package's tests call it.
- *TerminalInput*: a buffer of 2 is two packets of 1, and four bytes in reads of
  up to 2 overfill it twice, so one push can append, wait, append again or drop, a
  later one finds it stalled, and the sender must empty it in two packets. A resize and the size
  read at the start replace each other in `latestSize`; the two resizes of
  resize_gap bring a window back to its first size. With the one resize here the
  case that LatestSizeIsSent excuses does not arise.
- *WindowsConsole*: two keys, one of them a carriage return, are a read in raw mode,
  a line, and a line that does not end. Two wake records are one that another
  process takes and one that arrives; a Write of 3 units in chunks of 2 spans the
  start of Close. A second Close finds the first at every step.
- *Connect*: a buffer of one piece is full after the first write, so both ends
  meet a peer that is not reading; a timeout of one tick lets every deadline
  expire while the other direction moves or does not; with numbers that wrap at
  4 and counts of 1 and 5 both the refusal to state a count and a truncated
  position are reached.
- *Watch*: the assumption in the module is what KeepAlive's comment asks for: a
  full send buffer, the probe and its echo take less than a quiet period. A batch
  of ten pieces outlasts two periods, so probes wait in a batch, behind one, and
  at the head of one. The path may die and the reader block at any tick.
- *Codecs*: the state carried between pieces is two flags (Escape), one surrogate
  or up to three bytes (Unicode), which six elements set and clear more than once
  with a cut anywhere. Frames of up to 12 bytes exceed a first step of 5 and a
  doubled one; a second frame reuses the buffer of the first. Nonces of base 3
  carry through both counting digits. Integers below 256 hold the last delay before
  the clamp of the shift and overflow one step past it.

## Fairness

- *Outbound*: every goroutine that can run does (weak fairness per goroutine).
  The steps of a recovery get strong fairness: the network may break any
  attempt, but not every attempt for ever. Without that `reconnect`, which
  redials for ever, promises nothing. Writers are not assumed to call again.
- *EternalTCP*: weak fairness of both programs. Nothing is assumed of the
  network: links are finitely many, and a behaviour that used them all up is
  excused by `Exhausted`.
- *Connect*: weak fairness of connect, of the goroutine that reads, and of the
  clock; nothing of the server, the network or the caller. That connect returns
  rests on its deadlines alone.
- *Watch*: none. DeadLinkFound bounds a count of ticks, which is safety.
- *Client*: connect and the goroutines of Run go on where they can, and calls given
  a context return once it is done, the dial and `session.Start` also after their
  timeouts. Nothing is assumed of ssh (BootKills is `waitDelay` passing), of the
  server, the user, or a Write to an open terminal. On Unix a Write in progress
  returns once the terminal is closed. On Windows Close waits for it with no bound,
  and the comment on Close says that it is not known whether WriteConsoleW can
  stall. So CancelledExits has for Windows, and EndIsReported for both, the
  explicit premise that the terminal blocks no Write for ever; without it TLC
  finds `et` waiting in Close after a signal.
- *WindowsConsole*: the callers of Close run on and their deadline passes, the
  reader runs on once ReadConsoleW has returned. ReadConsoleW itself may never
  return. CloseReturns has as a premise that no Write stalls for ever, which the
  comment on Close says is not known.
- *TerminalInput*: PushReturns needs the reader and its timer alone, which is
  the point: input never waits on the network. TypedIsSent and LatestSizeIsSent
  have as premises that the sender runs, whose WritePacket returns
  (BlockedWriteReturns of Outbound), and the resize goroutine.
- *Codecs*: none.

## Proofs

A theorem holds for every value of the constants that meets the assumptions of the
modules. The bounds TLC needs (`MaxLinks`, `MaxTyped` and the like) are arbitrary
naturals in the proofs, so they bound nothing.

| assumption | says | why the code justifies it |
|---|---|---|
| LimitAssumption (Ring) | the limit is positive | `newConn` has a positive default |
| SizeAssumption (Outbound) | sizes are naturals, sealing adds at least one byte, a probe fits into a frame | secretbox's overhead; a probe has a fixed small payload |
| BoundAssumption (EternalTCP) | the inbox has room for one, the bounds are naturals | `inboxSize` is a positive constant |
| ConnectAssumption | buffers, timeout and width are positive; the window is narrower than the numbers' range | a ring is bounded by ReplayLimit bytes, far fewer than 2^32 packets |
| WatchAssumption | a full send buffer, the probe and its echo take less than a quiet period | what the comment on KeepAlive asks for |
| SessionAssumption, CodeAssumption | the queue has room for one; an exit status is none of the model's words for other ends | `queueLen` is positive; they are distinct errors in the code |
| BootstrapAssumption | the cap and the excerpt are positive | both are constants |
| WireAssumption | a byte has at least two values, prefix and first read step are positive, a prefix can state more than the limit, twice that if it is signed | 256; 4 or 8 bytes; `MaxFrameSize` and `MaxMessageSize` are far below 2^32 and 2^63 |
| SealAssumption | a digit of a nonce has two values, and there is one besides the direction | 256 and 24 |
| BackoffAssumption | integers hold the longest delay before the cap | 8 s in nanoseconds is below 2^63 |
| ArgumentsAssumption | the largest port is a natural number | 65535 |
| CodecsAssumption | pieces may have one element, the bounds are naturals | bounds of the model |
| InputAssumption, ConsoleAssumption | buffer, packet, read and chunk sizes are positive, a chunk holds a surrogate pair | all are constants |

Nothing is assumed of the set of writers or of the callers of Close. Every inductive
invariant below was also checked by TLC as an invariant of a small instance, the
existential parts of `ReaderOK` with their witnesses computed.

**The ring.** OutboundProofs first shows what the operators do: `PushFacts` (one more offset,
the rest unchanged), `TrimPointFacts` (the trim point exists; this rests on
`LeastNatural`, the least element of a set of naturals) and `TrimFacts` (trim
only moves `first` forward, never past the hold or what was written, leaves the
limit kept, and keeps `bytes` exact).

**The outbound half.** `RingAccounting` is not inductive: between taking a batch and
committing it the lock is released, so the commit subtracts a number computed
earlier. `Inv` therefore adds

- `BatchOK`: the batch's byte count is that of the packets after `flushed`;
- `OneSender`: the link writer and the recovery never run together, so nobody
  else moves `flushed` in between;
- `SnapOK`, `FromOK`: the recovery's snapshot and starting point stay within the
  ring while WritePacket goes on queueing, because trim stops at `flushed`, and
  the hold stays at or below the starting point;
- `CatchupOK`, `ServerOK`: what the server may decode is the snapshot, and the
  hold never lies beyond what the server has counted or may yet count;
- `QueueInv`: the shape of the queue, including the bound on the backlog, which
  depends on whether a probe waits in it.

`TypeCorrect`, `Accounting`, `Bounded`, `Resumption` and `NoCorruption` follow from
`Inv`. `SpaceNotLost` and `WakeNotLost`, the absence of lost wakeups, are inductive
relative to `Inv`.

**The protocol.** That a packet's number is the one expected when it is opened says
nothing of the messages still under way, and these were written by an end that
may have moved on since. `Inv` of EternalTCPProofs says what each queue of each
link may hold, given where its two ends are: `UpShape` for what a Serve has yet to
read, and `Responding`, `Stating`, `Catching` and `Linked` for the link the client
is on, one for each phase of its exchange. Around them stand the facts that keep
old links harmless: `CurOK` (only the link that took over last is counted), `NewOK`
(NEW_CLIENT is answered once, before any takeover), `FirstOK` and `KnownOK` (nothing
is counted before the session is established), `DialOK` (the client listens to one
link). `CountedIsKept` and `IntegrityKept` follow from it. For the refinements
`UpstreamImplementsStream` and `DownstreamImplementsStream` each action is shown to
be a step of Stream or to leave its variables alone, from `Inv`: what is accepted, or
returned by ReadPacket, is the next number and had been sent.

**One connect.** `NoMutualWait` is about three parties that wait at one time. Its
invariant `Queues` says what the connection holds at every point before: the
server's answer comes first, its position after it, its catchup after that, and
ours is the last thing we wrote. `Where` excludes impossible pairs of places of the
two goroutines, `ClosedWhy` says that a connection is closed only for a reason that
is then reported, `Resumable` what was checked of the positions, `Answers` which
error stands for which answer, and `Deadlines` that a deadline and the time since the
last progress add up to the timeout, in either direction. From the last follows
the action property `TimeoutOnlyIdle`.

**The watcher.** That a link is not given up is a race between the timer and a probe.
`AnswerInv` says where the probe is while an answer is awaited on a live path
(waiting, in the send buffer at some place, echoed, arrived, or its signal given)
and how many ticks the timer can have run in each case; `Ahead` counts the pieces in
front of it. `TimerRuns` adds these up against WatchAssumption: the timer is not
out. `QuietInv` bounds the quiet time and the timer together by one period, or two
once probed, which is `DeadLinkFound`.

**The session and the command.** `SessionInv` says where the packets of output are
(`Packets`) and what each stage of an end has waited for (`Ending`): once the queue
is drained without an error the router is past its last push. It is proved for Run
on its own and for Run within `et`. `BootInv` says that a passkey in ssh's output
comes after a marker; that the excerpt then leaves it out uses the first marker of
a sequence. `ClientInv` ties the stack of deferred calls to the phase of connect
(`Registered`), the console to the stack (`Given`), and the error to what really
happened (`Reasons`).

**Terminal input.** `Wakeups` extends NobodyStranded from the places where a
goroutine sleeps to all places it may be in, which makes it inductive; `LineKept`
says that the bytes sent, taken, buffered and about to be pushed rise without a
repetition and are all those typed and not given up.

**The Windows console.** `OneCloser`: one Close works, the one that set `closing`. What it
has established at a stage (`ReaderKnown`, `Flushed`, `ModesBack`) stays true at the
later ones, because no reader enters ReadConsoleW and no Write starts once `closing`
is set. For `KeysInOrder`, `StageTypes` adds
that a batch only ever meets an empty `pending` and that no wake record exists before
`closing` is set, so that a batch that holds one is discarded.

**The conversions.** A rule speaks of the whole input and a state of what was kept of
it, so `ConversionInv` gives for each conversion what its state is in terms of all
the input so far:

- `EscapeOK`: the filter has detached just if an escape is complete in the input,
  its two flags say how the input ends, and its output is what each key shows;
- `DecoderOK`: a high surrogate is held just if the input ends with one, and the
  output is what each unit gives, seen with its neighbours;
- `EncoderOK`: the output is that of a prefix of the input which ends between two
  characters, and what is carried is the rest, too short to be one. That a prefix may
  be converted on its own rests on `DecodeRune` looking no further than the character
  it finds, and that joining the carry with four bytes is enough on no character being
  longer;
- `ReaderOK`: the stream is the bodies returned, each written again, and a rest that
  is part of a prefix, a prefix and part of its body, or a prefix that states too
  much. `PrefixOfValue` shows that a prefix is the only one to state its value. For
  the buffer, `CapOK` ties the capacity to a body that really arrived: it grows only
  beyond what the last step filled, and at most doubles;
- `StreamsOK`: every nonce used is, as a number, the current one or below it, no two
  are equal, and the last digit is the direction;
- `BackoffOK`: the attempts since the last reset and the exact delay they stand for.

`ArgumentsHold` and `PacketHolds` need no state: a destination is taken apart at the
places where it could have been put together, and a payload is followed through the
copy that may overlap it. Of the value of a numeral the former uses only that it is a
natural number, so that a sign and an empty port are told from the rest.

Each of these needs an induction, over the rounds of a loop, the elements of a
sequence or the digits of a number. The library's induction rules take a predicate as
a parameter, which no installed prover can instantiate. CodecsProofs derives rules
that take a set instead: `Induction` and `InductionTo` (a set of numbers that holds 0
and is closed under successor), from the least element of a set of naturals, and
`Recursion` (a function on numbers given by its start and a step, both ordinary
values, exists). With those `Loop`, `FlattenSeq`, `Power` and `Value` are shown to
be what they look like, and the rest is one step each.

Only model-checked:

- every liveness property, as the prover does not handle fairness or ENABLED;
- the type invariants of Connect, Watch, Session, Client, TerminalInput and
  WindowsConsole as they are written: the bounds among them (of a queue by
  `MaxQueue`, of a count by its maximum) concern the models and not the code. The
  part of them that a proof needs is in its invariant.

## Findings

`resize_gap`: `start` calls `Resizes`, which records the window's size as a
baseline, and then `Size`. The comment there says a resize between the two is
reported rather than lost, and `Resizes` says that none can fall in the gap. If
the window changes from A to B before `Size` and is back at A before the resize
goroutine registers for SIGWINCH, the server is told B, the first comparison
finds A equal to the baseline, and the server keeps B until the next resize.
LatestSizeIsSent is the same property without that case, and holds.

`slow_upload`: `probeOnce` queues no probe while `lastProbe >= flushed`, and
`flushed` moves only when a whole batch (up to 64 KiB) is written. A probe at the
head of a batch is written and answered early. While the rest of the batch
drains, writes do not count, since no probe waits behind them; after a quiet
period `probeOnce` refuses, and `watch` sets `probed` all the same. Nothing can
draw an answer any more, and a second period ends a link whose uplink moves. The
comment on `probeOnce` says it refuses only for a probe that is still unwritten,
and the one on `TestLivenessSlowUploadKeepsLink` that a slow uplink that is
still moving is a live link; that test queues all its data ahead of the probe,
so the probe is never at the head of a batch. LiveLinkKept shows this is the only
way a live link is given up.

Two things the runs show that no comment denies, and that are worth knowing:

- A hold keeps a catchup for a server that has not decoded it, but only up to
  twice ReplayLimit. Beyond that the next recovery may end in
  `ErrReplayExceeded`; `Resumable` states exactly when.
- `router.go` marks the queue drained before the error of a failed output ends
  the session, so a session whose last output could not be written may be
  reported as a normal end. `NormalEndDrains` admits that one exception.

## Assumptions about the outside

- The server speaks on a link only after it decoded our catchup, and the link
  that was answered NEW_CLIENT takes over before one that is answered
  RETURNING_CLIENT (`etservertest/server.go`, `admit` and `takeOver`).
- TCP delivers a prefix of what was written, in order. Nobody tampers with it: a
  frame that does not open is a failure of the protocol, and NoIntegrityFailure
  shows there is none.

## Not modelled

Of the modelled parts: a caller's own ctx on ReadPacket (it only makes the call
return), the text of errors, logging, the contents of packets; a panic in a
goroutine of `session` or `etcp`, which ends the process without a deferred call,
as the comment in `connect` says; a panic inside the console's own Close; what `Config.validate` accepts, beyond that it
may refuse; which host name `ssh -G` gives; flags that nothing depends on; when a
link has lived long enough to reset its backoff.

Not modelled at all: generated protocol code, constants and redacted formats (no
state, and text), lint rules (not part of the program), the cryptography of
secretbox, the bookkeeping of the test network.

## What is left

The system's own logic is modelled, and every safety property that a run checks is
proved. One thing would be worth adding: that Outbound, with its callers, wakeups
and sizes, implements the sending half of EternalTCP, which takes a packet to have
size 1.
