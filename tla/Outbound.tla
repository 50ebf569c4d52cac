------------------------------ MODULE Outbound ------------------------------
(***************************************************************************)
(* The outbound half of an etcp.Conn: everything c.mu guards, and every    *)
(* goroutine that touches it.                                              *)
(*                                                                         *)
(*   - the callers of WritePacket, any number at once (conn.go);           *)
(*   - the link's writer, watcher and reader goroutines (link.go);         *)
(*   - the supervisor, which redials and runs the recover exchange         *)
(*     (recover.go);                                                       *)
(*   - the server, as far as it decides where a replay starts: its count   *)
(*     of the packets it accepted (etservertest/server.go).                *)
(*                                                                         *)
(* One action is one critical section of c.mu, or one channel operation,   *)
(* or one socket write, so that every interleaving of the goroutines is a  *)
(* behaviour.  A packet is its sealed size: see module Ring.               *)
(***************************************************************************)
EXTENDS Ring, FiniteSets

CONSTANTS
  Writers,       \* the goroutines that call WritePacket
  Payloads,      \* the payload sizes they pass
  ProbePayload,  \* the size of Dialer.Probe's payload
  Overhead,      \* what sealing and the packet header add to a payload
  MaxFrame,      \* wire.MaxFrameSize
  FrameHeader,   \* the length prefix AppendFrame adds
  WriteBuf,      \* writeBufSize
  EntryTag,      \* what CatchupBuffer's encoding adds to an entry
  MaxCatchup,    \* maxCatchupSize
  MaxSealed      \* model bound: how many packets are ever sealed

maxPayload == MaxFrame - Overhead

SealedSize(n) == n + Overhead

(* Dial refuses a probe payload larger than maxPayload. *)
ASSUME SizeAssumption ==
  /\ Payloads \subseteq Nat
  /\ Overhead \in Nat \ {0} /\ MaxFrame \in Nat /\ Overhead <= MaxFrame
  /\ ProbePayload \in 0 .. maxPayload
  /\ FrameHeader \in Nat /\ WriteBuf \in Nat
  /\ EntryTag \in Nat /\ MaxCatchup \in Nat /\ MaxSealed \in Nat

VARIABLES
  ring,       \* Conn.ring
  flushed,    \* Conn.flushed: the next packet the link writer sends
  unsent,     \* Conn.unsent: the bytes of the entries at or after flushed
  lastProbe,  \* Conn.lastProbe, or -1
  wake,       \* Conn.wake holds a token: new data for the link writer
  space,      \* Conn.space holds a token: the backlog has room
  status,     \* "open", or the cause Conn.ctx ended with
  pc,         \* where each caller of WritePacket is
  want,       \* the sealed size of the packet it is yet to queue, or 0
  lw,         \* where the link's writeLoop is, "off" when no link runs
  batch,      \* the batch writeLoop is sending: entries and bytes, or none
  watcher,    \* where the link's watch goroutine is
  sup,        \* where the supervisor is
  link,       \* the context of the running link has not ended
  snap,       \* recover's snap, the end of our catchup, or 0
  from,       \* recover's peer, the position the server stated, or 0
  got,        \* the server's recvSeq
  wire,       \* packets below this are on the newest socket
  catchup     \* end of a catchup written to it and not decoded, or -1

callers == <<pc, want>>
channels == <<wake, space>>
queue == <<ring, flushed, unsent, lastProbe>>
linkState == <<lw, batch, watcher, link>>
recovery == <<sup, snap, from>>
server == <<got, wire, catchup>>
vars == <<queue, channels, status, callers, linkState, recovery, server>>

next == NextSeq(ring)
NoBatch == [sent |-> 0, bytes |-> 0]
Open == status = "open"
Room(u) == u <= Limit

(***************************************************************************)
(* The first connect ends with NEW_CLIENT, or with a recover exchange of   *)
(* empty state that leaves the ring held; then the supervisor starts.      *)
(***************************************************************************)
Init ==
  /\ ring \in {EmptyRing, [EmptyRing EXCEPT !.held = TRUE]}
  /\ flushed = 0 /\ unsent = 0 /\ lastProbe = -1
  /\ wake = FALSE /\ space = ring.held
  /\ status = "open"
  /\ pc = [w \in Writers |-> "idle"] /\ want = [w \in Writers |-> 0]
  /\ lw = "lock" /\ batch = NoBatch
  /\ watcher = "idle" /\ link = TRUE
  /\ sup = "link" /\ snap = 0 /\ from = 0
  /\ got = 0 /\ wire = 0 /\ catchup = -1
-----------------------------------------------------------------------------
(***************************************************************************)
(* WritePacket.  The callers that have passed its checks and have not yet  *)
(* queued their packet are counted against MaxSealed, so that the bound    *)
(* never stops a caller half way.                                          *)
(***************************************************************************)
InFlight == {w \in Writers : pc[w] \in {"lock", "wait"}}
BelowBound == next + Cardinality(InFlight) < MaxSealed

(* Faulty: the limit of a frame applied to the payload alone. *)
AcceptsFrame(n) == n <= MaxFrame

(* An oversized payload, and a ctx already done, are refused at entry. *)
Accepts(n) == n <= maxPayload

WriteCall(w) ==
  /\ pc[w] = "idle"
  /\ BelowBound
  /\ \E n \in Payloads :
       /\ Accepts(n)
       /\ want' = [want EXCEPT ![w] = SealedSize(n)]
  /\ pc' = [pc EXCEPT ![w] = "lock"]
  /\ UNCHANGED <<queue, channels, status, linkState, recovery, server>>

(* enqueueLocked *)
Enqueue(n) == ring' = Push(ring, n) /\ unsent' = unsent + n

(* The caller returns without queueing its packet. *)
Returns(w) == pc' = [pc EXCEPT ![w] = "idle"] /\ want' = [want EXCEPT ![w] = 0]

(* The critical section, when the Conn has ended while it was waited for. *)
WriteRefused(w) ==
  /\ pc[w] = "lock" /\ ~Open
  /\ Returns(w)
  /\ UNCHANGED <<queue, channels, status, linkState, recovery, server>>

(* Faulty: the writer that took the wakeup does not pass the turn. *)
WriteEnqueueKeepsTurn(w) ==
  /\ pc[w] = "lock" /\ Open /\ Room(unsent)
  /\ Enqueue(want[w])
  /\ pc' = [pc EXCEPT ![w] = "wake"]
  /\ want' = [want EXCEPT ![w] = 0]
  /\ UNCHANGED <<flushed, lastProbe, channels, status, linkState, recovery, server>>

(* The critical section, when the backlog has room. *)
WriteEnqueue(w) ==
  /\ pc[w] = "lock" /\ Open /\ Room(unsent)
  /\ Enqueue(want[w])
  /\ pc' = [pc EXCEPT ![w] = IF Room(unsent') THEN "wake+space" ELSE "wake"]
  /\ want' = [want EXCEPT ![w] = 0]
  /\ UNCHANGED <<flushed, lastProbe, channels, status, linkState, recovery, server>>

(* The critical section, when it has none: go and wait on c.space. *)
WriteBlocks(w) ==
  /\ pc[w] = "lock" /\ Open /\ ~Room(unsent)
  /\ pc' = [pc EXCEPT ![w] = "wait"]
  /\ UNCHANGED <<queue, channels, status, want, linkState, recovery, server>>

(* signal(c.wake), then signal(c.space) if the packet left room. *)
WriteSignalWake(w) ==
  /\ pc[w] \in {"wake", "wake+space"}
  /\ wake' = TRUE
  /\ pc' = [pc EXCEPT ![w] = IF @ = "wake" THEN "idle" ELSE "space"]
  /\ UNCHANGED <<queue, space, status, want, linkState, recovery, server>>

WriteSignalSpace(w) ==
  /\ pc[w] = "space"
  /\ space' = TRUE
  /\ pc' = [pc EXCEPT ![w] = "idle"]
  /\ UNCHANGED <<queue, wake, status, want, linkState, recovery, server>>

(* The select of a blocked write: c.space, ctx.Done, c.ctx.Done. *)
WriteWoken(w) ==
  /\ pc[w] = "wait" /\ space
  /\ space' = FALSE
  /\ pc' = [pc EXCEPT ![w] = "lock"]
  /\ UNCHANGED <<queue, wake, status, want, linkState, recovery, server>>

WriteCancelled(w) ==
  /\ pc[w] = "wait"
  /\ Returns(w)
  /\ UNCHANGED <<queue, channels, status, linkState, recovery, server>>

WriteEnds(w) == ~Open /\ WriteCancelled(w)
-----------------------------------------------------------------------------
(***************************************************************************)
(* The link: its writer (writeLoop), and what its watcher and its reader   *)
(* do to the outbound state.                                               *)
(***************************************************************************)
LinkEnded == ~link \/ ~Open

maxBatchEntries == (WriteBuf \div (FrameHeader + Overhead)) + 1

(***************************************************************************)
(* A batch is at least one entry, then as many as fit the buffer framed.   *)
(***************************************************************************)
Taken == IF next <= flushed + maxBatchEntries THEN next ELSE flushed + maxBatchEntries

FitsBuffer(e) ==
  \/ e = flushed + 1
  \/ BytesBetween(ring, flushed, e) + FrameHeader * (e - flushed) <= WriteBuf

IsBatch(e) ==
  /\ e \in (flushed + 1) .. Taken
  /\ FitsBuffer(e)
  /\ e < Taken => ~FitsBuffer(e + 1)

(* AppendFrame refuses an entry above MaxFrame. *)
Framable(e) == \A s \in flushed .. (e - 1) : BytesBetween(ring, s, s + 1) <= MaxFrame

LinkTakesBatch ==
  /\ lw = "lock"
  /\ \E e \in (flushed + 1) .. next :
       /\ IsBatch(e)
       /\ batch' = [sent |-> e - flushed, bytes |-> BytesBetween(ring, flushed, e)]
       /\ status' = IF Open /\ ~Framable(e) THEN "integrity" ELSE status
       /\ lw' = IF Framable(e) THEN "write" ELSE "off"
  /\ UNCHANGED <<queue, channels, callers, watcher, link, recovery, server>>

LinkFindsNothing ==
  /\ lw = "lock" /\ flushed = next
  /\ lw' = "wait"
  /\ UNCHANGED <<queue, channels, status, callers, batch, watcher, link,
                 recovery, server>>

LinkWoken ==
  /\ lw = "wait" /\ wake
  /\ wake' = FALSE /\ lw' = "lock"
  /\ UNCHANGED <<queue, space, status, callers, batch, watcher, link,
                 recovery, server>>

LinkWriterStops ==
  /\ lw = "wait" /\ LinkEnded
  /\ lw' = "off"
  /\ UNCHANGED <<queue, channels, status, callers, batch, watcher, link,
                 recovery, server>>

LinkWrites ==
  /\ lw = "write"
  /\ wire' = flushed + batch.sent
  /\ lw' = "commit"
  /\ UNCHANGED <<queue, channels, status, callers, batch, watcher, link,
                 recovery, got, catchup>>

(* A failed Write: any prefix of the batch may have left the host. *)
LinkWriteFails ==
  /\ lw = "write"
  /\ \E n \in 0 .. batch.sent : wire' = flushed + n
  /\ lw' = "off" /\ link' = FALSE /\ batch' = NoBatch
  /\ UNCHANGED <<queue, channels, status, callers, watcher, recovery, got, catchup>>

(* releaseLocked trims; its result is Room(unsent'). *)
Release(r, f, u) == flushed' = f /\ unsent' = u /\ ring' = Trim(r, f, u)

(* Faulty: the freed room is not announced. *)
LinkCommitsSilently ==
  /\ lw = "commit"
  /\ Release(ring, flushed + batch.sent, unsent - batch.bytes)
  /\ lw' = "lock"
  /\ batch' = NoBatch
  /\ UNCHANGED <<lastProbe, channels, status, callers, watcher, link, recovery, server>>

LinkCommits ==
  /\ lw = "commit"
  /\ Release(ring, flushed + batch.sent, unsent - batch.bytes)
  /\ lw' = IF Room(unsent') THEN "signal" ELSE "lock"
  /\ batch' = NoBatch
  /\ UNCHANGED <<lastProbe, channels, status, callers, watcher, link, recovery, server>>

LinkSignalsSpace ==
  /\ lw = "signal"
  /\ space' = TRUE /\ lw' = "lock"
  /\ UNCHANGED <<queue, wake, status, callers, batch, watcher, link,
                 recovery, server>>

(***************************************************************************)
(* watch: a quiet period after the first packet runs probeOnce.  The check *)
(* sealedNone and probeOnce lock c.mu one after the other, and next only   *)
(* grows between them.                                                     *)
(***************************************************************************)
ProbeAllowed == next > 0 /\ lastProbe < flushed

Probe ==
  /\ sup = "link" /\ watcher = "idle"
  /\ BelowBound
  /\ ProbeAllowed
  /\ lastProbe' = next
  /\ Enqueue(SealedSize(ProbePayload))
  /\ watcher' = "signal"
  /\ UNCHANGED <<flushed, channels, status, callers, lw, batch, link,
                 recovery, server>>

(* Faulty: the probe is queued and the writer not woken. *)
ProbeStaysQueued ==
  /\ watcher = "signal" /\ watcher' = "idle"
  /\ UNCHANGED <<queue, channels, status, callers, lw, batch, link, recovery, server>>

ProbeSignals ==
  /\ watcher = "signal"
  /\ wake' = TRUE /\ watcher' = "idle"
  /\ UNCHANGED <<queue, space, status, callers, lw, batch, link, recovery, server>>

(***************************************************************************)
(* readLoop: the first frame on a link ends the hold.  The server speaks   *)
(* only after it has decoded our whole catchup.                            *)
(***************************************************************************)
ReleaseHold ==
  /\ sup = "link" /\ ring.held /\ catchup = -1
  /\ Release([ring EXCEPT !.held = FALSE], flushed, unsent)
  /\ UNCHANGED <<lastProbe, channels, status, callers, linkState, recovery, server>>

(* The reader or the watcher ends the link. *)
LinkFails ==
  /\ sup = "link" /\ link
  /\ link' = FALSE
  /\ UNCHANGED <<queue, channels, status, callers, lw, batch, watcher,
                 recovery, server>>
-----------------------------------------------------------------------------
(***************************************************************************)
(* The supervisor: supervise, reconnect and recover.                       *)
(***************************************************************************)
(* runLink has joined its goroutines. *)
LinkJoined ==
  /\ sup = "link" /\ LinkEnded /\ lw = "off" /\ watcher = "idle"
  /\ sup' = IF Open THEN "dial" ELSE "done"
  /\ UNCHANGED <<queue, channels, status, callers, linkState, snap, from, server>>

(* The server admits the redial, drops the old socket and sends its count. *)
TakeOver ==
  /\ sup = "dial" /\ Open
  /\ from' = got /\ wire' = got /\ catchup' = -1
  /\ sup' = "snap"
  /\ UNCHANGED <<queue, channels, status, callers, linkState, snap, got>>

(* proto.Size of the CatchupBuffer with the entries [a, b). *)
CatchupSize(a, b) == BytesBetween(ring, a, b) + EntryTag * (b - a)

Replayable(a, b) == Since(ring, a, b) /\ CatchupSize(a, b) <= MaxCatchup

(* writeRecover's critical section, and the size check that follows it. *)
RecoverSnapshots ==
  /\ sup = "snap"
  /\ Replayable(from, next)
  /\ snap' = next
  /\ sup' = "write"
  /\ UNCHANGED <<queue, channels, status, callers, linkState, from, server>>

RecoverExceeded ==
  /\ sup = "snap"
  /\ ~Replayable(from, next)
  /\ status' = IF Open THEN "exceeded" ELSE status
  /\ sup' = "done" /\ snap' = 0 /\ from' = 0
  /\ UNCHANGED <<queue, channels, callers, linkState, server>>

RecoverWritesCatchup ==
  /\ sup = "write"
  /\ wire' = snap /\ catchup' = snap
  /\ sup' = "exchange"
  /\ UNCHANGED <<queue, channels, status, callers, linkState, snap, from, got>>

(* Any I/O error of the exchange: the connection is closed and redialed. *)
RecoverFails ==
  /\ sup \in {"snap", "write", "exchange"}
  /\ sup' = (IF Open THEN "dial" ELSE "done") /\ snap' = 0 /\ from' = 0
  /\ UNCHANGED <<queue, channels, status, callers, linkState, server>>

(* Faulty: ring.next() is read again instead of using the snapshot. *)
RecoverCommitsReread ==
  /\ sup = "exchange"
  /\ Release([ring EXCEPT !.held = TRUE, !.hold = from],
             next, unsent - BytesBetween(ring, flushed, next))
  /\ sup' = (IF Room(unsent') THEN "signal" ELSE "ready") /\ snap' = 0 /\ from' = 0
  /\ UNCHANGED <<lastProbe, channels, status, callers, linkState, server>>

(* recover's critical section, once both halves of the exchange are done. *)
RecoverCommits ==
  /\ sup = "exchange"
  /\ Release([ring EXCEPT !.held = TRUE, !.hold = from],
             snap, unsent - BytesBetween(ring, flushed, snap))
  /\ sup' = (IF Room(unsent') THEN "signal" ELSE "ready") /\ snap' = 0 /\ from' = 0
  /\ UNCHANGED <<lastProbe, channels, status, callers, linkState, server>>

RecoverSignalsSpace ==
  /\ sup = "signal"
  /\ space' = TRUE /\ sup' = "ready"
  /\ UNCHANGED <<queue, wake, status, callers, linkState, snap, from, server>>

LinkStarts ==
  /\ sup = "ready" /\ Open
  /\ sup' = "link" /\ link' = TRUE /\ lw' = "lock"
  /\ UNCHANGED <<queue, channels, status, callers, batch, watcher, snap, from, server>>

(* connect fails after recover: the deadline cannot be reset, or ctx ended. *)
LinkUnusable ==
  /\ sup = "ready"
  /\ sup' = IF Open THEN "dial" ELSE "done"
  /\ UNCHANGED <<queue, channels, status, callers, linkState, snap, from, server>>

(* The Conn ends while reconnect waits or dials. *)
RedialStops ==
  /\ sup = "dial" /\ ~Open
  /\ sup' = "done"
  /\ UNCHANGED <<queue, channels, status, callers, linkState, snap, from, server>>

(* A definitive answer to the redial: INVALID_KEY, a version mismatch... *)
RedialRejected ==
  /\ sup = "dial" /\ Open
  /\ status' = "rejected" /\ sup' = "done"
  /\ UNCHANGED <<queue, channels, callers, linkState, snap, from, server>>

(* Close, or an integrity failure found by the link's reader. *)
Close ==
  /\ Open
  /\ status' = "closed"
  /\ UNCHANGED <<queue, channels, callers, linkState, recovery, server>>
-----------------------------------------------------------------------------
(***************************************************************************)
(* The server: it opens and counts the frames of its current socket one by *)
(* one, and a catchup only as a whole.                                     *)
(***************************************************************************)
ServerAccepts ==
  /\ catchup = -1 /\ got < wire
  /\ got' = got + 1
  /\ UNCHANGED <<queue, channels, status, callers, linkState, recovery, wire, catchup>>

ServerDecodesCatchup ==
  /\ catchup # -1
  /\ got' = catchup /\ catchup' = -1
  /\ UNCHANGED <<queue, channels, status, callers, linkState, recovery, wire>>
-----------------------------------------------------------------------------
WriteStep(w) ==
  \/ WriteRefused(w) \/ WriteEnqueue(w) \/ WriteBlocks(w)
  \/ WriteSignalWake(w) \/ WriteSignalSpace(w) \/ WriteWoken(w) \/ WriteEnds(w)

LinkWriterStep ==
  \/ LinkTakesBatch \/ LinkFindsNothing \/ LinkWoken
  \/ LinkWriterStops \/ LinkWrites \/ LinkWriteFails \/ LinkCommits
  \/ LinkSignalsSpace

Next ==
  \/ \E w \in Writers : WriteCall(w) \/ WriteStep(w) \/ WriteCancelled(w)
  \/ LinkWriterStep
  \/ Probe \/ ProbeSignals \/ ReleaseHold \/ LinkFails
  \/ LinkJoined \/ TakeOver \/ RecoverSnapshots \/ RecoverExceeded
  \/ RecoverWritesCatchup \/ RecoverFails \/ RecoverCommits
  \/ RecoverSignalsSpace \/ LinkStarts \/ LinkUnusable \/ RedialStops
  \/ RedialRejected \/ Close
  \/ ServerAccepts \/ ServerDecodesCatchup

Spec == Init /\ [][Next]_vars

(***************************************************************************)
(* Fairness.  A goroutine that can run eventually runs (weak fairness on   *)
(* each thread).  The network is allowed to fail every attempt to recover  *)
(* but not for ever: each step of the exchange that keeps becoming         *)
(* possible is eventually taken (strong fairness), which is the condition  *)
(* under which reconnect's endless redialing is of use.  The server reads  *)
(* what reaches it.  Nothing is assumed of the callers' contexts, of       *)
(* Close, or of how often links fail.                                      *)
(***************************************************************************)
Fairness ==
  /\ \A w \in Writers : WF_vars(WriteStep(w))
  /\ WF_vars(LinkWriterStep) /\ WF_vars(ProbeSignals)
  /\ WF_vars(LinkJoined) /\ WF_vars(RedialStops) /\ WF_vars(RecoverSignalsSpace)
  /\ SF_vars(TakeOver) /\ SF_vars(RecoverSnapshots \/ RecoverExceeded)
  /\ SF_vars(RecoverWritesCatchup) /\ SF_vars(RecoverCommits) /\ SF_vars(LinkStarts)
  /\ WF_vars(ServerAccepts) /\ SF_vars(ServerDecodesCatchup)

FairSpec == Spec /\ Fairness
-----------------------------------------------------------------------------
(* Every field of Conn and of its goroutines keeps its type. *)
TypeOK ==
  /\ ring \in Rings
  /\ flushed \in Nat /\ unsent \in Int /\ lastProbe \in Nat \cup {-1}
  /\ wake \in BOOLEAN /\ space \in BOOLEAN
  /\ status \in {"open", "closed", "rejected", "exceeded", "integrity"}
  /\ pc \in [Writers -> {"idle", "lock", "wait", "wake", "wake+space", "space"}]
  /\ want \in [Writers -> Nat]
  /\ lw \in {"off", "lock", "wait", "write", "commit", "signal"}
  /\ batch \in [sent : Nat, bytes : Nat]
  /\ watcher \in {"idle", "signal"}
  /\ sup \in {"link", "dial", "snap", "write", "exchange", "signal", "ready", "done"}
  /\ link \in BOOLEAN
  /\ snap \in Nat /\ from \in Nat
  /\ got \in Nat /\ wire \in Nat /\ catchup \in Nat \cup {-1}

(***************************************************************************)
(* ring.bytes and Conn.unsent are counters that five places update by      *)
(* hand.  They always agree with the entries they count, and flushed stays *)
(* in the retained window, so that appendRange and bytesBetween are only   *)
(* called within the bounds their comments ask for.                        *)
(***************************************************************************)
RingAccounting ==
  /\ ring.first <= flushed /\ flushed <= next
  /\ ring.bytes = BytesBetween(ring, ring.first, next)
  /\ unsent = BytesBetween(ring, flushed, next)

(* The bytes of a probe that waits to be written. *)
UnwrittenProbe == IF lastProbe >= flushed THEN SealedSize(ProbePayload) ELSE 0

(***************************************************************************)
(* ReplayLimit's documentation: written packets are trimmed down to it,    *)
(* or to twice it while a catchup is held; the backlog exceeds it by one   *)
(* packet and one probe at most; so the ring holds about three times       *)
(* ReplayLimit plus one packet, however many callers, probes and           *)
(* reconnects there are.                                                   *)
(***************************************************************************)
RingBounded ==
  /\ ring.bytes - unsent <= (IF ring.held THEN 2 * Limit ELSE Limit)
  /\ unsent <= Limit + MaxFrame + UnwrittenProbe

(***************************************************************************)
(* What the ring is for: wherever the server's count is when a link dies,  *)
(* the packets it lacks are retained unless more than ReplayLimit bytes of *)
(* them had been written to a socket; and more than twice that, when the   *)
(* server has not spoken since the last recover exchange and may still     *)
(* lack the catchup of that exchange.                                      *)
(***************************************************************************)
Resumable ==
  /\ got <= next
  /\ got < ring.first =>
       BytesBetween(ring, got, flushed) > (IF ring.held THEN 2 * Limit ELSE Limit)

(***************************************************************************)
(* No lost wakeup: a caller parked on c.space while the backlog has room   *)
(* can count on a token in the channel, or on somebody who is about to put *)
(* one there, or who took the token and will pass the turn on.             *)
(***************************************************************************)
NoLostSpace ==
  (Open /\ Room(unsent) /\ \E w \in Writers : pc[w] = "wait") =>
    \/ space
    \/ \E w \in Writers : pc[w] \in {"lock", "wake+space", "space"}
    \/ lw = "signal" \/ sup = "signal"

(* The same for the link writer, parked on c.wake with packets to send. *)
NoLostWake ==
  (lw = "wait" /\ flushed < next) =>
    \/ wake \/ watcher = "signal"
    \/ \E w \in Writers : pc[w] \in {"wake", "wake+space"}

(***************************************************************************)
(* Nothing WritePacket or the watcher queues is too large for AppendFrame: *)
(* such an entry would be met by every link, and ends the Conn with        *)
(* ErrIntegrity.                                                           *)
(***************************************************************************)
NeverCorrupt == status # "integrity"

(***************************************************************************)
(* A caller blocked by backpressure gets its turn, whatever the links do.  *)
(***************************************************************************)
BlockedWriteReturns == \A w \in Writers : pc[w] = "wait" ~> pc[w] = "idle"

(***************************************************************************)
(* Every packet WritePacket queued is eventually counted by the server,    *)
(* unless the Conn ends: the writer never sleeps on a backlog, and a       *)
(* recover skips nothing queued while it ran.                              *)
(***************************************************************************)
SealedIsReceived ==
  \A s \in 1 .. MaxSealed : (next >= s) ~> (got >= s \/ ~Open)
=============================================================================
