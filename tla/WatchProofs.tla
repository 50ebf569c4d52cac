---------------------------- MODULE WatchProofs ----------------------------
(***************************************************************************)
(* What the liveness watcher promises, for every quiet period, speed of    *)
(* the uplink and size of the buffers that KeepAlive's comment allows.     *)
(*                                                                         *)
(* The watcher gives up a quiet period after its probe.  The invariant     *)
(* follows the probe through the writer's queue and batch, the send        *)
(* buffer, the echo under way and the frame the reader has yet to read,    *)
(* and bounds at each of these places the time since the timer started.    *)
(***************************************************************************)
EXTENDS Watch, SequenceTheorems, TLAPS

(* At most n ticks have passed since the timer was started. *)
Within(n) == KeepAlive <= timer + n

(* Ticks by which a live uplink has the p-th piece of the buffer at its    *)
(* head, counted from the probe; p = 0 is a piece that has left.           *)
Ahead(p) == (SndBuf - p + 1) * Drain

(* One probe at most waits to be written. *)
OneProbe(q) == \A i, j \in DOMAIN q : q[i] = "probe" /\ q[j] = "probe" => i = j

WriterInv ==
  /\ queue \in Seq(Entries) /\ batch \in Seq(Entries) /\ snd \in Seq(Entries)
  /\ Len(snd) <= SndBuf
  /\ ~flushing => batch = <<>>
  /\ probeIn => flushing /\ ~Waiting(queue)
  /\ Waiting(batch) => probeIn
  /\ OneProbe(queue)

(* The uplink is no slower than Drain, an echo no slower than Echo. *)
PathInv ==
  /\ drained \in 0 .. Drain
  /\ echoes \in Seq(Nat)
  /\ \A i \in DOMAIN echoes : echoes[i] <= Echo
  /\ \A i, j \in DOMAIN echoes : i <= j => echoes[j] <= echoes[i]
  /\ ~up => echoes = <<>>
  /\ frames \in Nat

(* What the timer says of the time without a proof of life. *)
QuietInv ==
  /\ timer \in 0 .. KeepAlive /\ quiet \in Nat
  /\ alive \/ delivering \/ ~sealed => quiet = 0
  /\ delivering => alive \/ ~probed
  /\ quiet + timer <= (IF probed THEN 2 * KeepAlive ELSE KeepAlive)

(* Where the probe is. *)
Unwritten ==
  /\ Waiting(queue) \/ Waiting(batch)
  /\ Within(Drain) /\ (Len(snd) = SndBuf => Within(drained))
Buffered == \E p \in DOMAIN snd : snd[p] = "probe" /\ Within(Ahead(p) + drained)
Echoed == \E i \in DOMAIN echoes : Within(Ahead(0) + echoes[i])
Arrived == frames > 0 /\ Within(Ahead(0) + Echo)

Signalled == alive /\ timer > 0

Coming == Signalled \/ Unwritten \/ Buffered \/ Echoed \/ Arrived

(* While the watcher waits for an answer on a live path, one is coming. *)
AnswerInv == probed /\ up /\ ~refused /\ ~dead => Coming

Inv == WriterInv /\ PathInv /\ QuietInv /\ AnswerInv /\ LiveLinkKept
-----------------------------------------------------------------------------
(***************************************************************************)
(* Probes in sequences of entries, and the arithmetic of the uplink.       *)
(***************************************************************************)
(* What is appended waits behind the rest. *)
LEMMA WaitingAppend ==
  ASSUME NEW s \in Seq(Entries), NEW e \in Entries
  PROVE  /\ Append(s, e) \in Seq(Entries)
         /\ Waiting(Append(s, e)) <=> Waiting(s) \/ e = "probe"
         /\ OneProbe(s) /\ (e # "probe" \/ ~Waiting(s)) => OneProbe(Append(s, e))
<1> DEFINE t == Append(s, e)
<1>1. /\ t \in Seq(Entries) /\ Len(s) \in Nat /\ DOMAIN s = 1 .. Len(s)
      /\ DOMAIN t = 1 .. (Len(s) + 1) /\ t[Len(s) + 1] = e
      /\ \A i \in 1 .. Len(s) : t[i] = s[i]
  OBVIOUS
<1> HIDE DEF t
<1>2. Waiting(t) <=> Waiting(s) \/ e = "probe"
  BY <1>1 DEF Waiting, Range
<1>3. ASSUME OneProbe(s), e # "probe" \/ ~Waiting(s) PROVE OneProbe(t)
  <2>1. \A i \in 1 .. Len(s) : t[i] = "probe" => Waiting(s)
    BY <1>1 DEF Waiting, Range
  <2> QED BY <1>1, <1>3, <2>1 DEF OneProbe
<1> QED BY <1>1, <1>2, <1>3 DEF t

(* What waits is the first entry, or waits behind it. *)
LEMMA WaitingTail ==
  ASSUME NEW s \in Seq(Entries), s # <<>>
  PROVE  /\ Tail(s) \in Seq(Entries) /\ Head(s) \in Entries
         /\ Waiting(s) <=> Head(s) = "probe" \/ Waiting(Tail(s))
<1>1. /\ Len(s) \in Nat \ {0} /\ DOMAIN s = 1 .. Len(s)
      /\ Tail(s) \in Seq(Entries) /\ Head(s) = s[1] /\ Head(s) \in Entries
  BY EmptySeq
<1>2. DOMAIN Tail(s) = 1 .. (Len(s) - 1) /\ \A i \in 1 .. (Len(s) - 1) : Tail(s)[i] = s[i + 1]
  BY <1>1
<1>3. \A i \in 1 .. Len(s) : i = 1 \/ (i - 1 \in 1 .. (Len(s) - 1) /\ (i - 1) + 1 = i)
  BY <1>1
<1>4. Waiting(s) => Head(s) = "probe" \/ Waiting(Tail(s))
  <2>1. SUFFICES ASSUME NEW i \in 1 .. Len(s), s[i] = "probe", i # 1 PROVE Waiting(Tail(s))
    BY <1>1 DEF Waiting, Range
  <2>2. Tail(s)[i - 1] = "probe" /\ i - 1 \in DOMAIN Tail(s)
    BY <1>2, <1>3, <2>1
  <2> QED BY <2>2 DEF Waiting, Range
<1>5. Waiting(Tail(s)) => Waiting(s)
  <2>1. SUFFICES ASSUME NEW i \in 1 .. (Len(s) - 1), Tail(s)[i] = "probe" PROVE Waiting(s)
    BY <1>2 DEF Waiting, Range
  <2>2. i + 1 \in DOMAIN s /\ s[i + 1] = "probe"
    BY <1>1, <1>2, <2>1
  <2> QED BY <2>2 DEF Waiting, Range
<1>6. Head(s) = "probe" => Waiting(s)
  BY <1>1 DEF Waiting, Range
<1> QED BY <1>1, <1>4, <1>5, <1>6

(* A probe waits in the batch that is framed, or behind it. *)
LEMMA WaitingSplit ==
  ASSUME NEW s \in Seq(Entries), NEW n \in 0 .. Len(s), OneProbe(s)
  PROVE  /\ SubSeq(s, 1, n) \in Seq(Entries) /\ SubSeq(s, n + 1, Len(s)) \in Seq(Entries)
         /\ Waiting(s) => Waiting(SubSeq(s, 1, n)) \/ Waiting(SubSeq(s, n + 1, Len(s)))
         /\ ~(Waiting(SubSeq(s, 1, n)) /\ Waiting(SubSeq(s, n + 1, Len(s))))
         /\ OneProbe(SubSeq(s, n + 1, Len(s)))
<1> DEFINE a == SubSeq(s, 1, n)
<1> DEFINE b == SubSeq(s, n + 1, Len(s))
<1>1. Len(s) \in Nat /\ n \in Nat /\ n <= Len(s) /\ DOMAIN s = 1 .. Len(s)
  OBVIOUS
<1>2. a \in Seq(Entries) /\ DOMAIN a = 1 .. n /\ \A i \in 1 .. n : a[i] = s[i]
  BY <1>1
<1>3. /\ b \in Seq(Entries) /\ DOMAIN b = 1 .. (Len(s) - n)
      /\ \A i \in 1 .. (Len(s) - n) : b[i] = s[n + i]
  BY <1>1
<1> HIDE DEF a, b
<1>4. Waiting(s) => Waiting(a) \/ Waiting(b)
  <2>1. SUFFICES ASSUME NEW i \in 1 .. Len(s), s[i] = "probe" PROVE Waiting(a) \/ Waiting(b)
    BY <1>1 DEF Waiting, Range
  <2>2. CASE i <= n
    <3>1. i \in DOMAIN a /\ a[i] = "probe"
      BY <1>1, <1>2, <2>1, <2>2
    <3> QED BY <3>1 DEF Waiting, Range
  <2>3. CASE i > n
    <3>1. i - n \in 1 .. (Len(s) - n) /\ n + (i - n) = i
      BY <1>1, <2>3
    <3>2. i - n \in DOMAIN b /\ b[i - n] = "probe"
      BY <1>3, <2>1, <3>1
    <3> QED BY <3>2 DEF Waiting, Range
  <2> QED BY <1>1, <2>2, <2>3
<1>5. ~(Waiting(a) /\ Waiting(b))
  <2>1. SUFFICES ASSUME NEW i \in 1 .. n, a[i] = "probe",
                        NEW j \in 1 .. (Len(s) - n), b[j] = "probe"
                 PROVE  FALSE
    BY <1>2, <1>3 DEF Waiting, Range
  <2>2. s[i] = "probe" /\ s[n + j] = "probe" /\ i \in DOMAIN s /\ n + j \in DOMAIN s
    BY <1>1, <1>2, <1>3, <2>1
  <2>3. i = n + j
    BY <2>2 DEF OneProbe
  <2> QED BY <1>1, <2>1, <2>3
<1>6. OneProbe(b)
  <2>1. SUFFICES ASSUME NEW i \in 1 .. (Len(s) - n), b[i] = "probe",
                        NEW j \in 1 .. (Len(s) - n), b[j] = "probe"
                 PROVE  i = j
    BY <1>3 DEF OneProbe
  <2>2. /\ s[n + i] = "probe" /\ s[n + j] = "probe"
        /\ n + i \in DOMAIN s /\ n + j \in DOMAIN s
    BY <1>1, <1>3, <2>1
  <2>3. n + i = n + j
    BY <2>2 DEF OneProbe
  <2> QED BY <1>1, <2>1, <2>3
<1> QED BY <1>2, <1>3, <1>4, <1>5, <1>6 DEF a, b

(* The constants, as the steps below use them. *)
LEMMA Sizes ==
  /\ KeepAlive \in Nat /\ KeepAlive > 0 /\ Drain \in Nat /\ Drain > 0 /\ SndBuf \in Nat
  /\ SndBuf > 0 /\ MaxBatch \in Nat /\ MaxBatch > 0 /\ Echo \in Nat
  /\ Ahead(0) \in Nat /\ Ahead(0) + Echo < KeepAlive
<1>1. /\ KeepAlive \in Nat /\ KeepAlive > 0 /\ Drain \in Nat /\ Drain > 0 /\ SndBuf \in Nat
      /\ SndBuf > 0 /\ MaxBatch \in Nat /\ MaxBatch > 0 /\ Echo \in Nat
  BY WatchAssumption
<1>2. SndBuf - 0 + 1 = SndBuf + 1
  BY <1>1
<1>3. Ahead(0) = (SndBuf + 1) * Drain
  BY <1>2 DEF Ahead
<1>4. (SndBuf + 1) * Drain \in Nat
  BY <1>1
<1> QED BY <1>1, <1>3, <1>4, WatchAssumption

(* A piece that leaves the buffer brings the others nearer. *)
LEMMA AheadSteps ==
  ASSUME NEW p \in 1 .. SndBuf
  PROVE  /\ Ahead(p) \in Nat /\ Ahead(p) >= Drain
         /\ Ahead(p - 1) = Ahead(p) + Drain /\ Ahead(p) + Drain <= Ahead(0)
<1>1. Drain \in Nat /\ SndBuf \in Nat /\ p \in Nat /\ p >= 1 /\ p <= SndBuf
  BY Sizes
<1> DEFINE k == SndBuf - p
<1>2. k \in Nat /\ SndBuf - p + 1 = k + 1 /\ SndBuf - (p - 1) + 1 = (k + 1) + 1
      /\ SndBuf - 0 + 1 = (k + 1) + p /\ p - 1 \in Nat
  BY <1>1
<1> HIDE DEF k
<1>3. Ahead(p) = (k + 1) * Drain /\ Ahead(p - 1) = ((k + 1) + 1) * Drain
      /\ Ahead(0) = ((k + 1) + p) * Drain
  BY <1>2 DEF Ahead
<1>4. k * Drain \in Nat /\ (k + 1) * Drain = k * Drain + Drain
  BY <1>1, <1>2
<1>5. ((k + 1) + 1) * Drain = (k + 1) * Drain + Drain
  BY <1>1, <1>2
<1>6. ((k + 1) + p) * Drain = (k + 1) * Drain + p * Drain
  BY <1>1, <1>2
<1>7. p * Drain = (p - 1) * Drain + Drain /\ (p - 1) * Drain \in Nat
  BY <1>1, <1>2
<1> QED BY <1>1, <1>3, <1>4, <1>5, <1>6, <1>7
-----------------------------------------------------------------------------
(***************************************************************************)
(* The writer and the path.                                                *)
(***************************************************************************)
(* probeOnce leaves a probe in the queue, unless the batch has it. *)
LEMMA ProbeQueued ==
  ASSUME WriterInv, probeOnce
  PROVE  /\ queue' \in Seq(Entries) /\ OneProbe(queue')
         /\ probeIn => queue' = queue
         /\ ~probeIn => Waiting(queue')
<1>1. "probe" \in Entries
  BY DEF Entries
<1>2. CASE Waiting(queue) \/ probeIn
  BY <1>2 DEF probeOnce, WriterInv
<1>3. CASE ~(Waiting(queue) \/ probeIn)
  <2>1. queue' = Append(queue, "probe")
    BY <1>3 DEF probeOnce
  <2> QED BY <1>1, <1>3, <2>1, WaitingAppend DEF WriterInv
<1> QED BY <1>2, <1>3

(* WritePacket queues behind what waits. *)
LEMMA DataQueued ==
  ASSUME WriterInv, WritePacket
  PROVE  /\ queue' \in Seq(Entries) /\ OneProbe(queue') /\ (Waiting(queue') <=> Waiting(queue))
         /\ UNCHANGED <<watcher, alive, delivering, frames, batch, flushing, probeIn, network,
                        quiet, refused>>
         /\ ~dead /\ sealed' = TRUE
<1>1. "data" \in Entries /\ "data" # "probe"
  BY DEF Entries
<1>2. queue' = Append(queue, "data") /\ queue \in Seq(Entries) /\ OneProbe(queue)
  BY DEF WritePacket, WriterInv
<1>3. /\ queue' \in Seq(Entries) /\ OneProbe(queue') /\ (Waiting(queue') <=> Waiting(queue))
  BY <1>1, <1>2, WaitingAppend
<1>4. /\ UNCHANGED <<watcher, alive, delivering, frames, batch, flushing, probeIn, network,
                     quiet, refused>>
      /\ ~dead /\ sealed' = TRUE
  BY DEF WritePacket
<1> QED BY <1>3, <1>4

(* A batch is framed from the front of the queue. *)
LEMMA BatchTaken ==
  ASSUME WriterInv, WriterTakes
  PROVE  /\ queue' \in Seq(Entries) /\ batch' \in Seq(Entries) /\ OneProbe(queue')
         /\ Waiting(queue) => Waiting(batch') \/ Waiting(queue')
         /\ ~(Waiting(batch') /\ Waiting(queue'))
         /\ (probeIn' <=> Waiting(batch')) /\ flushing' = TRUE /\ ~flushing /\ batch = <<>>
         /\ UNCHANGED <<watcher, alive, delivering, frames, sealed, network, quiet, refused>>
<1> DEFINE n == IF Len(queue) < MaxBatch THEN Len(queue) ELSE MaxBatch
<1>1. queue \in Seq(Entries) /\ OneProbe(queue) /\ (~flushing => batch = <<>>)
  BY DEF WriterInv
<1>2. n \in 0 .. Len(queue)
  BY <1>1, Sizes
<1>3. /\ batch' = SubSeq(queue, 1, n) /\ queue' = SubSeq(queue, n + 1, Len(queue))
      /\ probeIn' = Waiting(batch') /\ flushing' = TRUE /\ ~flushing
      /\ UNCHANGED <<watcher, alive, delivering, frames, sealed, network, quiet, refused>>
  BY DEF WriterTakes
<1> HIDE DEF n
<1>4. /\ queue' \in Seq(Entries) /\ batch' \in Seq(Entries) /\ OneProbe(queue')
      /\ Waiting(queue) => Waiting(batch') \/ Waiting(queue')
      /\ ~(Waiting(batch') /\ Waiting(queue'))
  BY <1>1, <1>2, <1>3, WaitingSplit
<1> QED BY <1>1, <1>3, <1>4

(* A piece goes into the send buffer. *)
LEMMA PieceWritten ==
  ASSUME WriterInv, WriterWrites
  PROVE  /\ batch \in Seq(Entries) /\ batch # <<>> /\ Head(batch) \in Entries
         /\ batch' = Tail(batch) /\ batch' \in Seq(Entries)
         /\ Waiting(batch) <=> Head(batch) = "probe" \/ Waiting(batch')
         /\ snd \in Seq(Entries) /\ Len(snd) \in Nat /\ Len(snd) < SndBuf
         /\ snd' = Append(snd, Head(batch)) /\ snd' \in Seq(Entries)
         /\ Len(snd') = Len(snd) + 1 /\ snd'[Len(snd) + 1] = Head(batch)
         /\ DOMAIN snd' = 1 .. (Len(snd) + 1) /\ DOMAIN snd = 1 .. Len(snd)
         /\ \A i \in 1 .. Len(snd) : snd'[i] = snd[i]
         /\ drained' = (IF snd = <<>> THEN 0 ELSE drained)
         /\ UNCHANGED <<timer, probed, dead, delivering, frames, sealed, queue, flushing, probeIn,
                        echoes, up, refused>>
         /\ ~dead /\ Signals(probeBehind(batch'))
<1>1. /\ batch \in Seq(Entries) /\ snd \in Seq(Entries) /\ Len(snd) \in Nat
  BY DEF WriterInv
<1>2. /\ batch # <<>> /\ Len(snd) < SndBuf
      /\ batch' = Tail(batch) /\ snd' = Append(snd, Head(batch))
      /\ drained' = (IF snd = <<>> THEN 0 ELSE drained)
      /\ UNCHANGED <<timer, probed, dead, delivering, frames, sealed, queue, flushing, probeIn,
                     echoes, up, refused>>
      /\ ~dead /\ Signals(probeBehind(batch'))
  BY DEF WriterWrites, watcher
<1>3. /\ Head(batch) \in Entries /\ batch' \in Seq(Entries)
      /\ Waiting(batch) <=> Head(batch) = "probe" \/ Waiting(batch')
  BY <1>1, <1>2, WaitingTail
<1> DEFINE h == Head(batch)
<1>4. h \in Entries /\ snd' = Append(snd, h)
  BY <1>2, <1>3
<1> HIDE DEF h
<1>5. /\ snd' \in Seq(Entries) /\ Len(snd') = Len(snd) + 1 /\ snd'[Len(snd) + 1] = h
      /\ DOMAIN snd' = 1 .. (Len(snd) + 1) /\ DOMAIN snd = 1 .. Len(snd)
      /\ \A i \in 1 .. Len(snd) : snd'[i] = snd[i]
  BY <1>1, <1>4
<1> QED BY <1>1, <1>2, <1>3, <1>5 DEF h

(* The uplink takes a piece out of it. *)
LEMMA PieceCarried ==
  ASSUME WriterInv, UplinkCarries
  PROVE  /\ snd \in Seq(Entries) /\ snd # <<>> /\ Len(snd) \in Nat \ {0}
         /\ DOMAIN snd = 1 .. Len(snd) /\ Head(snd) = snd[1]
         /\ snd' \in Seq(Entries) /\ Len(snd') = Len(snd) - 1
         /\ DOMAIN snd' = 1 .. (Len(snd) - 1)
         /\ \A i \in 1 .. (Len(snd) - 1) : snd'[i] = snd[i + 1]
         /\ drained' = 0 /\ up /\ ~dead
         /\ echoes' = (IF Head(snd) = "probe" THEN Append(echoes, 0) ELSE echoes)
         /\ UNCHANGED <<timer, probed, dead, alive, delivering, frames, sealed, queue, batch,
                        flushing, probeIn, up, quiet, refused>>
<1>1. /\ snd \in Seq(Entries) /\ snd # <<>> /\ snd' = Tail(snd)
      /\ drained' = 0 /\ up /\ ~dead
      /\ echoes' = (IF Head(snd) = "probe" THEN Append(echoes, 0) ELSE echoes)
      /\ UNCHANGED <<timer, probed, dead, alive, delivering, frames, sealed, queue, batch,
                     flushing, probeIn, up, quiet, refused>>
  BY DEF UplinkCarries, WriterInv, watcher, writer
<1>2. /\ Len(snd) \in Nat \ {0} /\ DOMAIN snd = 1 .. Len(snd) /\ Head(snd) = snd[1]
  BY <1>1, EmptySeq
<1>3. /\ snd' \in Seq(Entries) /\ Len(snd') = Len(snd) - 1
      /\ DOMAIN snd' = 1 .. (Len(snd) - 1)
      /\ \A i \in 1 .. (Len(snd) - 1) : snd'[i] = snd[i + 1]
  BY <1>1, <1>2
<1> QED BY <1>1, <1>2, <1>3

(* The steps that leave the writer and its buffer alone. *)
Aside ==
  \/ WatchAlive \/ WatchExcuses \/ WatchGivesUp \/ ReaderReads \/ ReaderHandsOver
  \/ EchoArrives \/ ServerSpeaks \/ PathDies \/ Tick \/ UNCHANGED vars

(* The writer, its queue and the send buffer. *)
LEMMA WriterStep ==
  ASSUME WriterInv, [Next]_vars
  PROVE  WriterInv'
<1>1. CASE Aside
  <2>1. UNCHANGED <<queue, batch, flushing, probeIn, snd>>
    BY <1>1 DEF Aside, WatchAlive, WatchExcuses, WatchGivesUp, ReaderReads, ReaderHandsOver,
       EchoArrives, ServerSpeaks, PathDies, Tick, vars, writer, network
  <2> QED BY <2>1 DEF WriterInv, Waiting, OneProbe
<1>2. CASE WatchProbes
  <2>1. probeOnce /\ UNCHANGED <<batch, flushing, probeIn, snd>>
    BY <1>2 DEF WatchProbes, network
  <2> QED BY <2>1, ProbeQueued DEF WriterInv, Waiting
<1>3. CASE WritePacket
  <2>1. UNCHANGED <<batch, flushing, probeIn, snd>>
    BY <1>3, DataQueued DEF network
  <2>2. /\ queue' \in Seq(Entries) /\ OneProbe(queue') /\ (Waiting(queue') <=> Waiting(queue))
    BY <1>3, DataQueued
  <2> QED BY <2>1, <2>2 DEF WriterInv
<1>4. CASE WriterTakes
  BY <1>4, BatchTaken DEF WriterInv, network
<1>5. CASE WriterWrites
  <2>1. flushing
    BY <1>5, PieceWritten DEF WriterInv
  <2>2. Len(snd') <= SndBuf
    BY <1>5, PieceWritten, Sizes
  <2>3. /\ batch' \in Seq(Entries) /\ snd' \in Seq(Entries) /\ (Waiting(batch') => Waiting(batch))
        /\ UNCHANGED <<queue, flushing, probeIn>>
    BY <1>5, PieceWritten
  <2> QED BY <2>1, <2>2, <2>3 DEF WriterInv
<1>6. CASE WriterCommits
  <2>1. /\ batch = <<>> /\ flushing' = FALSE /\ probeIn' = FALSE /\ UNCHANGED <<queue, batch, snd>>
    BY <1>6 DEF WriterCommits, network
  <2>2. ~Waiting(<<>>)
    BY DEF Waiting, Range
  <2> QED BY <2>1, <2>2 DEF WriterInv, OneProbe
<1>7. CASE UplinkCarries
  <2>1. Len(snd') <= SndBuf
    BY <1>7, PieceCarried, Sizes DEF WriterInv
  <2> QED BY <1>7, <2>1, PieceCarried DEF WriterInv
<1> QED BY <1>1, <1>2, <1>3, <1>4, <1>5, <1>6, <1>7 DEF Next, Aside

(* An echo that arrives leaves the younger ones. *)
LEMMA EchoTaken ==
  ASSUME PathInv, EchoArrives
  PROVE  /\ Len(echoes) \in Nat \ {0} /\ DOMAIN echoes = 1 .. Len(echoes)
         /\ echoes' \in Seq(Nat) /\ DOMAIN echoes' = 1 .. (Len(echoes) - 1)
         /\ \A i \in 1 .. (Len(echoes) - 1) : echoes'[i] = echoes[i + 1]
         /\ frames' = frames + 1 /\ frames \in Nat /\ ~dead /\ up
         /\ UNCHANGED <<timer, probed, dead, alive, delivering, sealed, queue, batch, flushing,
                        probeIn, snd, drained, up, quiet, refused>>
<1>1. /\ echoes \in Seq(Nat) /\ echoes # <<>> /\ echoes' = Tail(echoes)
      /\ frames' = frames + 1 /\ frames \in Nat /\ ~dead /\ up
      /\ UNCHANGED <<timer, probed, dead, alive, delivering, sealed, queue, batch, flushing,
                     probeIn, snd, drained, up, quiet, refused>>
  BY DEF EchoArrives, PathInv, watcher, writer
<1>2. Len(echoes) \in Nat \ {0} /\ DOMAIN echoes = 1 .. Len(echoes)
  BY <1>1, EmptySeq
<1>3. /\ echoes' \in Seq(Nat) /\ DOMAIN echoes' = 1 .. (Len(echoes) - 1)
      /\ \A i \in 1 .. (Len(echoes) - 1) : echoes'[i] = echoes[i + 1]
  BY <1>1, <1>2
<1> QED BY <1>1, <1>2, <1>3

(* Time passes for the echoes under way. *)
LEMMA EchoesAge ==
  ASSUME PathInv, Tick
  PROVE  /\ DOMAIN echoes = 1 .. Len(echoes) /\ DOMAIN echoes' = DOMAIN echoes
         /\ echoes' \in Seq(Nat) /\ \A i \in DOMAIN echoes : echoes'[i] = echoes[i] + 1
         /\ \A i \in DOMAIN echoes : echoes[i] \in Nat /\ echoes[i] < Echo
<1>1. echoes \in Seq(Nat) /\ Len(echoes) \in Nat
  BY DEF PathInv
<1>2. DOMAIN echoes = 1 .. Len(echoes) /\ \A i \in DOMAIN echoes : echoes[i] \in Nat
  BY <1>1
<1>3. echoes' = [i \in DOMAIN echoes |-> echoes[i] + 1]
  BY DEF Tick
<1>4. \A i \in 1 .. Len(echoes) : echoes[i] + 1 \in Nat
  BY <1>2
<1>5. echoes' \in Seq(Nat)
  BY <1>1, <1>2, <1>3, <1>4
<1>6. ASSUME NEW i \in DOMAIN echoes PROVE echoes[i] < Echo
  <2>1. echoes # <<>> /\ 1 \in DOMAIN echoes /\ 1 <= i /\ Head(echoes) = echoes[1]
    BY <1>1, <1>2, <1>6, EmptySeq
  <2>2. up
    BY <2>1 DEF PathInv
  <2>3. ~(Head(echoes) >= Echo)
    BY <2>1, <2>2 DEF Tick, Urgent
  <2>4. echoes[i] <= echoes[1] /\ echoes[1] \in Nat /\ echoes[i] \in Nat
    BY <1>2, <1>6, <2>1 DEF PathInv
  <2> QED BY <2>1, <2>3, <2>4, Sizes
<1> QED BY <1>2, <1>3, <1>5, <1>6

(* The uplink and the echoes. *)
LEMMA PathStep ==
  ASSUME WriterInv, PathInv, [Next]_vars
  PROVE  PathInv'
<1>1. CASE \/ WatchAlive \/ WatchExcuses \/ WatchProbes \/ WatchGivesUp
           \/ WriterTakes \/ WriterCommits \/ ReaderHandsOver \/ UNCHANGED vars
  BY <1>1 DEF WatchAlive, WatchExcuses, WatchProbes, WatchGivesUp, WriterTakes, WriterCommits,
     ReaderHandsOver, vars, network, PathInv
<1>2. CASE WritePacket
  BY <1>2, DataQueued DEF network, PathInv
<1>3. CASE WriterWrites
  <2>1. drained' \in {0, drained} /\ UNCHANGED <<echoes, up, frames>>
    BY <1>3 DEF WriterWrites
  <2> QED BY <2>1, Sizes DEF PathInv
<1>4. CASE ReaderReads \/ ServerSpeaks
  <2>1. UNCHANGED <<drained, echoes, up>> /\ frames' \in Nat
    <3>1. frames \in Nat
      BY DEF PathInv
    <3>2. UNCHANGED <<drained, echoes, up>>
      BY <1>4 DEF ReaderReads, ServerSpeaks, network
    <3>3. (frames > 0 /\ frames' = frames - 1) \/ frames' = frames + 1
      BY <1>4 DEF ReaderReads, ServerSpeaks
    <3> QED BY <3>1, <3>2, <3>3
  <2> QED BY <2>1 DEF PathInv
<1>5. CASE UplinkCarries
  <2>1. drained' = 0 /\ up' /\ UNCHANGED frames
    BY <1>5, PieceCarried
  <2>2. CASE echoes' = echoes
    BY <2>1, <2>2, Sizes DEF PathInv
  <2>3. CASE echoes' = Append(echoes, 0)
    <3>1. echoes \in Seq(Nat) /\ 0 \in Nat /\ Len(echoes) \in Nat /\ DOMAIN echoes = 1 .. Len(echoes)
      BY DEF PathInv
    <3>2. /\ echoes' \in Seq(Nat) /\ DOMAIN echoes' = 1 .. (Len(echoes) + 1)
          /\ echoes'[Len(echoes) + 1] = 0
          /\ \A i \in 1 .. Len(echoes) : echoes'[i] = echoes[i] /\ echoes[i] \in Nat
      BY <2>3, <3>1
    <3>3. \A i \in DOMAIN echoes' : i \in 1 .. Len(echoes) \/ i = Len(echoes) + 1
      BY <3>1, <3>2
    <3>4. /\ \A i \in 1 .. Len(echoes) : echoes[i] <= Echo
          /\ \A i, j \in 1 .. Len(echoes) : i <= j => echoes[j] <= echoes[i]
      BY <3>1 DEF PathInv
    <3>5. \A i \in DOMAIN echoes' : echoes'[i] <= Echo
      BY <3>2, <3>3, <3>4, Sizes
    <3>6. \A i, j \in DOMAIN echoes' : i <= j => echoes'[j] <= echoes'[i]
      <4>1. SUFFICES ASSUME NEW i \in DOMAIN echoes', NEW j \in DOMAIN echoes', i <= j
                     PROVE  echoes'[j] <= echoes'[i]
        OBVIOUS
      <4>2. CASE j = Len(echoes) + 1
        BY <3>2, <3>3, <4>1, <4>2
      <4>3. CASE j \in 1 .. Len(echoes)
        <5>1. i \in 1 .. Len(echoes)
          BY <3>1, <3>3, <4>1, <4>3
        <5> QED BY <3>2, <3>4, <4>1, <4>3, <5>1
      <4> QED BY <3>3, <4>2, <4>3
    <3> QED BY <2>1, <3>2, <3>5, <3>6, Sizes DEF PathInv
  <2> QED BY <1>5, <2>2, <2>3, PieceCarried
<1>6. CASE EchoArrives
  <2>1. \A i \in 1 .. (Len(echoes) - 1) : i + 1 \in DOMAIN echoes /\ i \in Nat
    BY <1>6, EchoTaken
  <2>2. \A i \in DOMAIN echoes' : echoes'[i] <= Echo
    BY <1>6, <2>1, EchoTaken DEF PathInv
  <2>3. \A i, j \in DOMAIN echoes' : i <= j => echoes'[j] <= echoes'[i]
    <3>1. SUFFICES ASSUME NEW i \in DOMAIN echoes', NEW j \in DOMAIN echoes', i <= j
                   PROVE  echoes'[j] <= echoes'[i]
      OBVIOUS
    <3>2. /\ echoes'[i] = echoes[i + 1] /\ echoes'[j] = echoes[j + 1]
          /\ i + 1 \in DOMAIN echoes /\ j + 1 \in DOMAIN echoes /\ i + 1 <= j + 1
      BY <1>6, <2>1, <3>1, EchoTaken
    <3> QED BY <3>2 DEF PathInv
  <2> QED BY <1>6, <2>2, <2>3, EchoTaken DEF PathInv
<1>7. CASE PathDies
  <2>1. drained' = 0 /\ echoes' = <<>> /\ UNCHANGED frames
    BY <1>7 DEF PathDies
  <2>2. <<>> \in Seq(Nat) /\ DOMAIN <<>> = {}
    OBVIOUS
  <2> QED BY <2>1, <2>2, Sizes DEF PathInv
<1>8. CASE Tick
  <2>1. drained' \in 0 .. Drain /\ UNCHANGED <<up, frames>>
    <3>1. drained \in 0 .. Drain
      BY DEF PathInv
    <3>2. CASE up /\ snd # <<>>
      BY <1>8, <3>1, <3>2, Sizes DEF Tick, Urgent
    <3>3. CASE ~(up /\ snd # <<>>)
      BY <1>8, <3>3, Sizes DEF Tick
    <3> QED BY <1>8, <3>2, <3>3 DEF Tick
  <2>2. \A i \in DOMAIN echoes' : echoes'[i] <= Echo
    BY <1>8, EchoesAge, Sizes
  <2>3. \A i, j \in DOMAIN echoes' : i <= j => echoes'[j] <= echoes'[i]
    BY <1>8, EchoesAge DEF PathInv
  <2>4. ~up' => echoes' = <<>>
    <3>1. ASSUME ~up PROVE echoes' = <<>>
      <4>1. echoes = <<>>
        BY <3>1 DEF PathInv
      <4>2. DOMAIN echoes' = {} /\ echoes' \in Seq(Nat)
        BY <1>8, <4>1, EchoesAge
      <4> QED BY <4>2
    <3> QED BY <2>1, <3>1
  <2> QED BY <1>8, <2>1, <2>2, <2>3, <2>4, EchoesAge DEF PathInv
<1> QED BY <1>1, <1>2, <1>3, <1>4, <1>5, <1>6, <1>7, <1>8 DEF Next
-----------------------------------------------------------------------------
(***************************************************************************)
(* The timer and the time without a proof of life.                         *)
(***************************************************************************)
(* A signal is a proof of life. *)
LEMMA SignalsQuiet ==
  ASSUME QuietInv, NEW s, Signals(s)
  PROVE  /\ quiet' \in Nat /\ quiet' <= quiet /\ (alive => alive') /\ (quiet = 0 => quiet' = 0)
         /\ alive' /\ ~alive => quiet' = 0
         /\ s => alive' /\ quiet' = 0
<1>1. quiet \in Nat
  BY DEF QuietInv
<1>2. CASE s
  <2>1. quiet' = 0
    BY <1>2 DEF Signals
  <2>2. alive'
    BY <1>2 DEF Signals
  <2> QED BY <1>1, <2>1, <2>2
<1>3. CASE ~s
  <2>1. quiet' = quiet
    BY <1>3 DEF Signals
  <2>2. alive' <=> alive
    BY <1>3 DEF Signals
  <2> QED BY <1>1, <1>3, <2>1, <2>2
<1> QED BY <1>2, <1>3

(* The watcher's steps restart the timer for a reason. *)
LEMMA QuietStep ==
  ASSUME QuietInv, [Next]_vars
  PROVE  QuietInv'
<1>0. /\ timer \in 0 .. KeepAlive /\ quiet \in Nat /\ KeepAlive \in Nat
      /\ quiet + timer <= (IF probed THEN 2 * KeepAlive ELSE KeepAlive)
      /\ alive \/ delivering \/ ~sealed => quiet = 0
      /\ delivering => alive \/ ~probed
  BY Sizes DEF QuietInv
<1>1. CASE WatchAlive
  <2>1. /\ alive /\ alive' = FALSE /\ probed' = FALSE /\ timer' = KeepAlive
        /\ UNCHANGED <<delivering, sealed, quiet>>
    BY <1>1 DEF WatchAlive, Restarts
  <2> QED BY <1>0, <2>1 DEF QuietInv
<1>2. CASE WatchExcuses
  <2>2. quiet = 0 /\ probed' = FALSE /\ timer' = KeepAlive
    BY <1>0, <1>2 DEF WatchExcuses, Restarts
  <2>3. UNCHANGED <<delivering, sealed, quiet, alive>>
    BY <1>2 DEF WatchExcuses
  <2> QED BY <1>0, <2>2, <2>3 DEF QuietInv
<1>3. CASE WatchProbes
  <2>1. /\ timer = 0 /\ ~probed /\ ~delivering /\ probed' = TRUE /\ timer' = KeepAlive
        /\ UNCHANGED <<delivering, sealed, quiet, alive>>
    BY <1>3 DEF WatchProbes, Expired, Restarts
  <2> QED BY <1>0, <2>1 DEF QuietInv
<1>4. CASE \/ WatchGivesUp \/ WriterTakes \/ WriterCommits \/ UplinkCarries \/ EchoArrives
           \/ ServerSpeaks \/ PathDies \/ UNCHANGED vars
  <2>1. UNCHANGED <<timer, probed, alive, delivering, sealed, quiet>>
    BY <1>4 DEF WatchGivesUp, WriterTakes, WriterCommits, UplinkCarries, EchoArrives, ServerSpeaks,
       PathDies, vars, watcher
  <2> QED BY <2>1 DEF QuietInv
<1>5. CASE WritePacket
  <2>1. /\ UNCHANGED <<timer, probed, alive, delivering, quiet>> /\ sealed' = TRUE
    BY <1>5 DEF WritePacket, watcher
  <2> QED BY <1>0, <2>1 DEF QuietInv
<1>6. CASE WriterWrites
  <2>1. UNCHANGED <<timer, probed, delivering, sealed>>
    BY <1>6 DEF WriterWrites, watcher
  <2>2. Signals(probeBehind(batch'))
    BY <1>6 DEF WriterWrites
  <2>3. /\ quiet' \in Nat /\ quiet' <= quiet /\ (alive => alive') /\ (quiet = 0 => quiet' = 0)
        /\ alive' /\ ~alive => quiet' = 0
    BY <2>2, SignalsQuiet
  <2>4. quiet' + timer' <= (IF probed' THEN 2 * KeepAlive ELSE KeepAlive)
    <3>1. \A q, r, t, b \in Nat : r <= q /\ q + t <= b => r + t <= b
      OBVIOUS
    <3>2. timer \in Nat /\ quiet \in Nat /\ quiet' \in Nat /\ quiet' <= quiet /\ timer' = timer
      BY <1>0, <2>1, <2>3
    <3>3. KeepAlive \in Nat /\ 2 * KeepAlive \in Nat
      BY <1>0
    <3>4. CASE probed
      BY <1>0, <2>1, <3>1, <3>2, <3>3, <3>4
    <3>5. CASE ~probed
      BY <1>0, <2>1, <3>1, <3>2, <3>3, <3>5
    <3> QED BY <3>4, <3>5
  <2>5. alive' \/ delivering' \/ ~sealed' => quiet' = 0
    BY <1>0, <2>1, <2>3
  <2>6. delivering' => alive' \/ ~probed'
    BY <1>0, <2>1, <2>3
  <2> QED BY <1>0, <2>1, <2>3, <2>4, <2>5, <2>6 DEF QuietInv
<1>7. CASE ReaderReads
  <2>1. /\ UNCHANGED <<timer, probed, sealed>> /\ Signals(TRUE)
    BY <1>7 DEF ReaderReads, watcher
  <2>2. alive' /\ quiet' = 0
    BY <2>1, SignalsQuiet
  <2> QED BY <1>0, <2>1, <2>2 DEF QuietInv
<1>8. CASE ReaderHandsOver
  <2>1. /\ UNCHANGED <<timer, probed, alive, sealed, quiet>> /\ delivering /\ delivering' = FALSE
    BY <1>8 DEF ReaderHandsOver, watcher
  <2> QED BY <1>0, <2>1 DEF QuietInv
<1>9. CASE Tick
  <2>1. /\ ~alive /\ timer # 0 /\ timer' = timer - 1
        /\ quiet' = (IF delivering \/ ~sealed THEN 0 ELSE quiet + 1)
        /\ UNCHANGED <<probed, alive, delivering, sealed>>
    BY <1>9 DEF Tick, Urgent
  <2>2. CASE delivering \/ ~sealed
    <3>1. quiet' = 0
      BY <2>1, <2>2
    <3> QED BY <1>0, <2>1, <3>1 DEF QuietInv
  <2>3. CASE ~(delivering \/ ~sealed)
    <3>1. quiet' = quiet + 1
      BY <2>1, <2>3
    <3>2. quiet' + timer' = quiet + timer /\ quiet' \in Nat /\ timer' \in 0 .. KeepAlive
      BY <1>0, <2>1, <3>1
    <3> QED BY <1>0, <2>1, <2>3, <3>2 DEF QuietInv
  <2> QED BY <2>2, <2>3
<1> QED BY <1>1, <1>2, <1>3, <1>4, <1>5, <1>6, <1>7, <1>8, <1>9 DEF Next
-----------------------------------------------------------------------------
(***************************************************************************)
(* The probe, from the queue to the frame that answers it.                 *)
(***************************************************************************)
(* The timer cannot be out while an answer is coming. *)
LEMMA TimerRuns ==
  ASSUME WriterInv, PathInv, QuietInv, Coming
  PROVE  timer > 0
<1>0. timer \in Nat /\ drained \in Nat /\ drained <= Drain
  BY Sizes DEF PathInv, QuietInv
<1>1. CASE Signalled
  BY <1>1 DEF Signalled
<1>2. CASE Unwritten
  <2>1. KeepAlive <= timer + Drain
    BY <1>2 DEF Unwritten, Within
  <2>2. Drain < KeepAlive
    <3>1. 1 \in 1 .. SndBuf
      BY Sizes
    <3>2. Ahead(1) \in Nat /\ Ahead(1) >= Drain /\ Ahead(1) + Drain <= Ahead(0)
      BY <3>1, AheadSteps
    <3> QED BY <3>2, Sizes
  <2> QED BY <1>0, <2>1, <2>2, Sizes
<1>3. CASE Buffered
  <2>1. PICK p \in DOMAIN snd : KeepAlive <= timer + (Ahead(p) + drained)
    BY <1>3 DEF Buffered, Within
  <2>2. p \in 1 .. SndBuf
    BY <2>1, Sizes DEF WriterInv
  <2>3. Ahead(p) \in Nat /\ Ahead(p) + Drain <= Ahead(0)
    BY <2>2, AheadSteps
  <2> QED BY <1>0, <2>1, <2>3, Sizes
<1>4. CASE Echoed
  <2>1. PICK i \in DOMAIN echoes : KeepAlive <= timer + (Ahead(0) + echoes[i])
    BY <1>4 DEF Echoed, Within
  <2>2. echoes[i] \in Nat /\ echoes[i] <= Echo
    BY <2>1 DEF PathInv
  <2> QED BY <1>0, <2>1, <2>2, Sizes
<1>5. CASE Arrived
  <2>1. KeepAlive <= timer + (Ahead(0) + Echo)
    BY <1>5 DEF Arrived, Within
  <2> QED BY <1>0, <2>1, Sizes
<1> QED BY <1>1, <1>2, <1>3, <1>4, <1>5 DEF Coming

(* A step that leaves the probe where it is. *)
LEMMA ComingKept ==
  ASSUME Coming, UNCHANGED <<timer, drained, snd, echoes>>,
         alive => alive', frames > 0 => frames' > 0,
         Waiting(queue) \/ Waiting(batch) => Waiting(queue') \/ Waiting(batch')
  PROVE  Coming'
<1>1. CASE Signalled
  BY <1>1 DEF Signalled, Coming
<1>2. CASE Unwritten
  BY <1>2 DEF Unwritten, Within, Coming
<1>3. CASE Buffered
  <2>1. Buffered'
    BY <1>3 DEF Buffered, Within, Ahead
  <2> QED BY <2>1 DEF Coming
<1>4. CASE Echoed
  <2>1. Echoed'
    BY <1>4 DEF Echoed, Within, Ahead
  <2> QED BY <2>1 DEF Coming
<1>5. CASE Arrived
  <2>1. Arrived'
    BY <1>5 DEF Arrived, Within, Ahead
  <2> QED BY <2>1 DEF Coming
<1> QED BY <1>1, <1>2, <1>3, <1>4, <1>5 DEF Coming

(* The writer writes a piece: the probe, one ahead of it, or another. *)
LEMMA WriteComing ==
  ASSUME WriterInv, PathInv, QuietInv, Coming, WriterWrites
  PROVE  Coming'
<1>0. timer > 0 /\ UNCHANGED <<timer, frames, echoes, queue, probeIn>>
  BY TimerRuns, PieceWritten
<1>1. CASE alive \/ probeBehind(batch')
  <2>1. Signals(probeBehind(batch'))
    BY PieceWritten
  <2>2. alive'
    BY <1>1, <2>1 DEF Signals
  <2> QED BY <1>0, <2>2 DEF Coming, Signalled
<1>2. CASE ~alive /\ ~probeBehind(batch')
  <2>1. CASE Unwritten
    <3>1. /\ Waiting(batch) /\ ~Waiting(batch') /\ Head(batch) = "probe"
      <4>1. Waiting(batch)
        BY <1>2, <2>1 DEF Unwritten, probeBehind, WriterInv
      <4>2. probeIn
        BY <4>1 DEF WriterInv
      <4>3. ~Waiting(batch')
        BY <1>2, <4>2 DEF probeBehind
      <4> QED BY <4>1, <4>3, PieceWritten
    <3> DEFINE p == Len(snd) + 1
    <3>2. p \in 1 .. SndBuf /\ p \in DOMAIN snd' /\ snd'[p] = "probe"
      BY <3>1, PieceWritten, Sizes
    <3>3. drained' \in Nat
      BY PieceWritten, Sizes DEF PathInv
    <3>4. Ahead(p) \in Nat /\ Ahead(p) >= Drain
      <4> HIDE DEF p
      <4> QED BY <3>2, AheadSteps
    <3>5. KeepAlive <= timer + Drain /\ timer \in Nat
      BY <2>1 DEF Unwritten, Within, QuietInv
    <3> HIDE DEF p
    <3>6. KeepAlive <= timer' + (Ahead(p) + drained')
      BY <1>0, <3>3, <3>4, <3>5, Sizes
    <3>7. Buffered'
      BY <3>2, <3>6 DEF Buffered, Within, Ahead
    <3> QED BY <3>7 DEF Coming
  <2>2. CASE Buffered
    <3>1. PICK p \in DOMAIN snd : snd[p] = "probe" /\ Within(Ahead(p) + drained)
      BY <2>2 DEF Buffered
    <3>2. p \in 1 .. Len(snd) /\ p \in DOMAIN snd' /\ snd'[p] = "probe" /\ snd # <<>>
      BY <3>1, PieceWritten
    <3>3. drained' = drained
      BY <3>2, PieceWritten
    <3>4. Buffered'
      BY <1>0, <3>1, <3>2, <3>3 DEF Buffered, Within, Ahead
    <3> QED BY <3>4 DEF Coming
  <2>3. CASE Echoed \/ Arrived
    BY <1>0, <2>3 DEF Echoed, Arrived, Within, Ahead, Coming
  <2> QED BY <1>2, <2>1, <2>2, <2>3 DEF Coming, Signalled
<1> QED BY <1>1, <1>2

(* The uplink carries a piece: the probe, or one ahead of it. *)
LEMMA CarryComing ==
  ASSUME WriterInv, PathInv, QuietInv, Coming, UplinkCarries
  PROVE  Coming'
<1>0. /\ UNCHANGED <<timer, alive, frames, queue, batch>> /\ drained' = 0
      /\ timer \in Nat /\ drained \in Nat /\ drained <= Drain
      /\ echoes \in Seq(Nat) /\ Len(echoes) \in Nat /\ DOMAIN echoes = 1 .. Len(echoes)
  BY PieceCarried, Sizes DEF PathInv, QuietInv
<1>1. CASE Signalled
  BY <1>0, <1>1 DEF Signalled, Coming
<1>2. CASE Unwritten
  <2>1. Len(snd') # SndBuf
    BY PieceCarried, Sizes DEF WriterInv
  <2>2. Unwritten'
    BY <1>0, <1>2, <2>1 DEF Unwritten, Within
  <2> QED BY <2>2 DEF Coming
<1>3. CASE Buffered
  <2>1. PICK p \in DOMAIN snd : snd[p] = "probe" /\ KeepAlive <= timer + (Ahead(p) + drained)
    BY <1>3 DEF Buffered, Within
  <2>2. p \in 1 .. SndBuf /\ p \in 1 .. Len(snd)
    BY <2>1, PieceCarried, Sizes DEF WriterInv
  <2>3. Ahead(p) \in Nat /\ Ahead(p - 1) = Ahead(p) + Drain
    BY <2>2, AheadSteps
  <2>4. KeepAlive <= timer' + (Ahead(p - 1) + 0)
    BY <1>0, <2>1, <2>3, Sizes
  <2>5. CASE p = 1
    <3>1. echoes' = Append(echoes, 0)
      BY <2>1, <2>5, PieceCarried
    <3>2. Len(echoes) + 1 \in DOMAIN echoes' /\ echoes'[Len(echoes) + 1] = 0
      BY <1>0, <3>1
    <3>3. Ahead(p - 1) = Ahead(0)
      BY <2>5
    <3>4. Echoed'
      BY <2>4, <3>2, <3>3 DEF Echoed, Within, Ahead
    <3> QED BY <3>4 DEF Coming
  <2>6. CASE p # 1
    <3> DEFINE k == p - 1
    <3>1. k \in 1 .. (Len(snd) - 1) /\ k + 1 = p
      BY <2>2, <2>6, PieceCarried
    <3>2. k \in DOMAIN snd' /\ snd'[k] = "probe"
      BY <2>1, <3>1, PieceCarried
    <3>3. KeepAlive <= timer' + (Ahead(k) + drained')
      BY <1>0, <2>4
    <3> HIDE DEF k
    <3>4. Buffered'
      BY <3>2, <3>3 DEF Buffered, Within, Ahead
    <3> QED BY <3>4 DEF Coming
  <2> QED BY <2>5, <2>6
<1>4. CASE Echoed
  <2>1. PICK i \in DOMAIN echoes : Within(Ahead(0) + echoes[i])
    BY <1>4 DEF Echoed
  <2>2. i \in DOMAIN echoes' /\ echoes'[i] = echoes[i]
    <3>1. CASE echoes' = echoes
      BY <2>1, <3>1
    <3>2. CASE echoes' = Append(echoes, 0)
      BY <1>0, <2>1, <3>2
    <3> QED BY <3>1, <3>2, PieceCarried
  <2>3. Echoed'
    BY <1>0, <2>1, <2>2 DEF Echoed, Within, Ahead
  <2> QED BY <2>3 DEF Coming
<1>5. CASE Arrived
  BY <1>0, <1>5 DEF Arrived, Within, Ahead, Coming
<1> QED BY <1>1, <1>2, <1>3, <1>4, <1>5 DEF Coming

(* An echo arrives: the probe's, or another. *)
LEMMA EchoComing ==
  ASSUME WriterInv, PathInv, QuietInv, Coming, EchoArrives
  PROVE  Coming'
<1>0. /\ UNCHANGED <<timer, alive, queue, batch, snd, drained>>
      /\ frames' = frames + 1 /\ frames \in Nat /\ timer \in Nat
  BY EchoTaken DEF QuietInv
<1>1. CASE Echoed
  <2>1. PICK i \in DOMAIN echoes : KeepAlive <= timer + (Ahead(0) + echoes[i])
    BY <1>1 DEF Echoed, Within
  <2>2. CASE i = 1
    <3>1. echoes[i] \in Nat /\ echoes[i] <= Echo
      BY <2>1 DEF PathInv
    <3>2. KeepAlive <= timer' + (Ahead(0) + Echo) /\ frames' > 0
      BY <1>0, <2>1, <3>1, Sizes
    <3> QED BY <3>2 DEF Arrived, Within, Ahead, Coming
  <2>3. CASE i # 1
    <3> DEFINE k == i - 1
    <3>1. k \in 1 .. (Len(echoes) - 1) /\ k + 1 = i
      BY <2>1, <2>3, EchoTaken
    <3>2. k \in DOMAIN echoes' /\ echoes'[k] = echoes[i]
      BY <3>1, EchoTaken
    <3> HIDE DEF k
    <3>3. Echoed'
      BY <1>0, <2>1, <3>2 DEF Echoed, Within, Ahead
    <3> QED BY <3>3 DEF Coming
  <2> QED BY <2>2, <2>3
<1>2. CASE Arrived
  BY <1>0, <1>2, Sizes DEF Arrived, Within, Ahead, Coming
<1>3. CASE Signalled \/ Unwritten
  BY <1>0, <1>3 DEF Signalled, Unwritten, Within, Coming
<1>4. CASE Buffered
  BY <1>0, <1>4 DEF Buffered, Within, Ahead, Coming
<1> QED BY <1>1, <1>2, <1>3, <1>4 DEF Coming

(* Time passes only while the probe is on its way. *)
LEMMA TickComing ==
  ASSUME WriterInv, PathInv, QuietInv, Coming, Tick, probed, up
  PROVE  Coming'
<1>0. /\ ~alive /\ timer' = timer - 1 /\ timer # 0
      /\ drained' = (IF up /\ snd # <<>> THEN drained + 1 ELSE 0)
      /\ UNCHANGED <<queue, batch, snd, frames>>
      /\ timer \in Nat /\ drained \in Nat
  BY Sizes DEF Tick, Urgent, writer, QuietInv, PathInv
<1>1. ~Signalled
  BY <1>0 DEF Signalled
<1>2. ~Arrived
  <2>1. ~delivering
    BY <1>0 DEF QuietInv
  <2>2. ~(frames > 0)
    BY <2>1 DEF Tick, Urgent
  <2> QED BY <2>2 DEF Arrived
<1>3. CASE Unwritten
  <2>1. batch # <<>>
    <3>1. ~Waiting(<<>>)
      BY DEF Waiting, Range
    <3>2. batch = <<>> => queue = <<>>
      BY DEF Tick, Urgent
    <3> QED BY <1>3, <3>1, <3>2 DEF Unwritten
  <2>2. Len(snd) = SndBuf /\ snd # <<>>
    <3>1. ~(Len(snd) < SndBuf)
      BY <2>1 DEF Tick, Urgent
    <3>2. snd \in Seq(Entries) /\ Len(snd) <= SndBuf /\ Len(snd) \in Nat
      BY DEF WriterInv
    <3> QED BY <3>1, <3>2, Sizes
  <2>3. drained < Drain /\ drained' = drained + 1
    BY <1>0, <2>2, Sizes DEF Tick, Urgent
  <2>4. KeepAlive <= timer + drained
    BY <1>3, <2>2 DEF Unwritten, Within
  <2>5. KeepAlive <= timer' + drained' /\ KeepAlive <= timer' + Drain
    BY <1>0, <2>3, <2>4, Sizes
  <2> QED BY <1>0, <1>3, <2>5 DEF Unwritten, Within, Coming
<1>4. CASE Buffered
  <2>1. PICK p \in DOMAIN snd : snd[p] = "probe" /\ KeepAlive <= timer + (Ahead(p) + drained)
    BY <1>4 DEF Buffered, Within
  <2>2. snd # <<>> /\ p \in 1 .. SndBuf
    BY <2>1, Sizes DEF WriterInv
  <2>3. drained' = drained + 1
    BY <1>0, <2>2
  <2>4. Ahead(p) \in Nat
    BY <2>2, AheadSteps
  <2>5. KeepAlive <= timer' + (Ahead(p) + drained')
    BY <1>0, <2>1, <2>3, <2>4, Sizes
  <2>6. Buffered'
    BY <1>0, <2>1, <2>5 DEF Buffered, Within, Ahead
  <2> QED BY <2>6 DEF Coming
<1>5. CASE Echoed
  <2>1. PICK i \in DOMAIN echoes : KeepAlive <= timer + (Ahead(0) + echoes[i])
    BY <1>5 DEF Echoed, Within
  <2>2. i \in DOMAIN echoes' /\ echoes'[i] = echoes[i] + 1 /\ echoes[i] \in Nat
    BY <2>1, EchoesAge
  <2>3. KeepAlive <= timer' + (Ahead(0) + echoes'[i])
    BY <1>0, <2>1, <2>2, Sizes
  <2>4. Echoed'
    BY <2>2, <2>3 DEF Echoed, Within, Ahead
  <2> QED BY <2>4 DEF Coming
<1> QED BY <1>1, <1>2, <1>3, <1>4, <1>5 DEF Coming

(* The watcher probes: the timer starts with a probe that waits. *)
LEMMA ProbeComing ==
  ASSUME WriterInv, PathInv, WatchProbes, ~refused'
  PROVE  Coming'
<1>1. /\ probeOnce /\ timer' = KeepAlive /\ UNCHANGED <<batch, snd, drained>>
      /\ refused' = (probeIn /\ ~Waiting(batch))
  BY DEF WatchProbes, Restarts, network
<1>2. Waiting(queue') \/ Waiting(batch')
  BY <1>1, ProbeQueued
<1>3. drained' \in Nat
  BY <1>1, Sizes DEF PathInv
<1>4. KeepAlive <= timer' + Drain /\ KeepAlive <= timer' + drained'
  BY <1>1, <1>3, Sizes
<1> QED BY <1>2, <1>4 DEF Unwritten, Within, Coming

(* On a live path an answer keeps coming. *)
LEMMA AnswerStep ==
  ASSUME WriterInv, PathInv, QuietInv, AnswerInv, [Next]_vars
  PROVE  AnswerInv'
<1>1. CASE WatchAlive \/ WatchExcuses
  BY <1>1 DEF WatchAlive, WatchExcuses, AnswerInv
<1>2. CASE WatchProbes
  BY <1>2, ProbeComing DEF AnswerInv
<1>3. CASE WatchGivesUp \/ PathDies
  BY <1>3 DEF WatchGivesUp, PathDies, AnswerInv
<1>4. CASE WritePacket
  <2>1. UNCHANGED <<timer, drained, snd, echoes, alive, frames, batch, probed, up, refused, dead>>
    BY <1>4, DataQueued DEF watcher, network
  <2>2. Waiting(queue) \/ Waiting(batch) => Waiting(queue') \/ Waiting(batch')
    BY <1>4, <2>1, DataQueued
  <2> QED BY <2>1, <2>2, ComingKept DEF AnswerInv
<1>5. CASE WriterTakes
  <2>1. UNCHANGED <<timer, drained, snd, echoes, alive, frames, probed, up, refused, dead>>
    BY <1>5, BatchTaken DEF watcher, network
  <2>2. ~Waiting(<<>>)
    BY DEF Waiting, Range
  <2>3. Waiting(queue) \/ Waiting(batch) => Waiting(queue') \/ Waiting(batch')
    BY <1>5, <2>2, BatchTaken
  <2> QED BY <2>1, <2>3, ComingKept DEF AnswerInv
<1>6. CASE WriterWrites
  <2>1. UNCHANGED <<probed, up, refused, dead>>
    BY <1>6, PieceWritten
  <2> QED BY <1>6, <2>1, WriteComing DEF AnswerInv
<1>7. CASE WriterCommits \/ ReaderHandsOver \/ UNCHANGED vars
  <2>1. UNCHANGED <<timer, drained, snd, echoes, alive, frames, queue, batch, probed, up, refused,
                    dead>>
    BY <1>7 DEF WriterCommits, ReaderHandsOver, vars, watcher, writer, network
  <2> QED BY <2>1, ComingKept DEF AnswerInv
<1>8. CASE ServerSpeaks
  <2>1. /\ UNCHANGED <<timer, drained, snd, echoes, alive, queue, batch, probed, up, refused, dead>>
        /\ frames' = frames + 1
    BY <1>8 DEF ServerSpeaks, watcher, writer, network
  <2>2. frames > 0 => frames' > 0
    BY <2>1 DEF PathInv
  <2> QED BY <2>1, <2>2, ComingKept DEF AnswerInv
<1>9. CASE ReaderReads
  <2>1. UNCHANGED <<timer, probed, up, refused, dead>> /\ Signals(TRUE)
    BY <1>9 DEF ReaderReads, watcher, network
  <2>2. alive'
    BY <2>1 DEF Signals
  <2>3. Coming => Coming'
    BY <2>1, <2>2, TimerRuns DEF Coming, Signalled
  <2> QED BY <2>1, <2>3 DEF AnswerInv
<1>10. CASE UplinkCarries
  <2>1. UNCHANGED <<probed, up, refused, dead>>
    BY <1>10, PieceCarried
  <2> QED BY <1>10, <2>1, CarryComing DEF AnswerInv
<1>11. CASE EchoArrives
  <2>1. UNCHANGED <<probed, up, refused, dead>>
    BY <1>11 DEF EchoArrives, watcher
  <2> QED BY <1>11, <2>1, EchoComing DEF AnswerInv
<1>12. CASE Tick
  <2>1. UNCHANGED <<probed, up, refused, dead>>
    BY <1>12 DEF Tick
  <2> QED BY <1>12, <2>1, TickComing DEF AnswerInv
<1> QED BY <1>1, <1>2, <1>3, <1>4, <1>5, <1>6, <1>7, <1>8, <1>9, <1>10, <1>11, <1>12 DEF Next

(* The watcher gives up at the end of a quiet period: no answer was coming. *)
LEMMA KeptStep ==
  ASSUME Inv, [Next]_vars
  PROVE  LiveLinkKept'
<1>0. WriterInv /\ PathInv /\ QuietInv /\ AnswerInv /\ LiveLinkKept
  BY DEF Inv
<1>1. CASE WatchGivesUp
  <2>1. timer = 0 /\ ~dead /\ probed /\ UNCHANGED <<up, refused>>
    BY <1>1 DEF WatchGivesUp, Expired, network
  <2>2. ~(timer > 0)
    BY <2>1
  <2>3. ~Coming
    BY <1>0, <2>2, TimerRuns
  <2> QED BY <1>0, <2>1, <2>3 DEF AnswerInv, LiveLinkKept
<1>2. CASE Next /\ ~WatchGivesUp
  <2>1. ~dead /\ dead' = dead
    BY <1>2 DEF Next, WatchAlive, WatchExcuses, WatchProbes, Expired, WritePacket, WriterTakes,
       WriterWrites, WriterCommits, ReaderReads, ReaderHandsOver, UplinkCarries, EchoArrives,
       ServerSpeaks, PathDies, Tick, watcher
  <2> QED BY <2>1 DEF LiveLinkKept
<1>3. CASE UNCHANGED vars
  BY <1>0, <1>3 DEF LiveLinkKept, vars, watcher, network
<1> QED BY <1>1, <1>2, <1>3

(* A new link has been quiet for no time, and nothing has been sent. *)
LEMMA WatchStart == Init => Inv
<1> SUFFICES ASSUME Init PROVE Inv
  OBVIOUS
<1>1. /\ <<>> \in Seq(Entries) /\ <<>> \in Seq(Nat) /\ DOMAIN <<>> = {} /\ Len(<<>>) = 0
  OBVIOUS
<1>2. ~Waiting(<<>>) /\ OneProbe(<<>>)
  BY <1>1 DEF Waiting, Range, OneProbe
<1>3. WriterInv
  BY <1>1, <1>2, Sizes DEF Init, WriterInv
<1>4. PathInv
  BY <1>1, Sizes DEF Init, PathInv
<1>5. QuietInv
  <2>1. /\ timer = KeepAlive /\ quiet = 0 /\ KeepAlive \in Nat
        /\ probed = FALSE /\ delivering = FALSE
    BY Sizes DEF Init
  <2> QED BY <2>1 DEF QuietInv
<1>6. AnswerInv /\ LiveLinkKept
  BY DEF Init, AnswerInv, LiveLinkKept
<1> QED BY <1>3, <1>4, <1>5, <1>6 DEF Inv
-----------------------------------------------------------------------------
(***************************************************************************)
(* In every reachable state a probe that was sent on a live path is where  *)
(* the invariant says, and young enough for its answer to come in time.    *)
(***************************************************************************)
THEOREM WatchInvariance == Spec => []Inv
<1>1. Init => Inv
  BY WatchStart
<1>2. Inv /\ [Next]_vars => Inv'
  <2> SUFFICES ASSUME Inv, [Next]_vars PROVE Inv'
    OBVIOUS
  <2>1. WriterInv /\ PathInv /\ QuietInv /\ AnswerInv
    BY DEF Inv
  <2>2. WriterInv'
    BY <2>1, WriterStep
  <2>3. PathInv'
    BY <2>1, PathStep
  <2>4. QuietInv'
    BY <2>1, QuietStep
  <2>5. AnswerInv'
    BY <2>1, AnswerStep
  <2>6. LiveLinkKept'
    BY KeptStep
  <2> QED BY <2>2, <2>3, <2>4, <2>5, <2>6 DEF Inv
<1> QED BY <1>1, <1>2, PTL DEF Spec

(***************************************************************************)
(* watch (link.go) gives up a live link in no case but the one named in    *)
(* LiveLinkKept: wherever the probe is, its echo or the writes ahead of it *)
(* restart the timer before it is out.                                     *)
(***************************************************************************)
THEOREM LiveLinksStay == Spec => []LiveLinkKept
<1>1. Inv => LiveLinkKept
  BY DEF Inv
<1> QED BY <1>1, WatchInvariance, PTL

(***************************************************************************)
(* watch (link.go) lets no link live two quiet periods without a proof of  *)
(* life: stale tokens in l.alive, probes and writes into a full buffer     *)
(* never add up to a longer wait.                                          *)
(***************************************************************************)
THEOREM DeadLinksFound == Spec => []DeadLinkFound
<1>1. Inv => DeadLinkFound
  <2> SUFFICES ASSUME Inv PROVE DeadLinkFound
    OBVIOUS
  <2>1. /\ timer \in 0 .. KeepAlive /\ quiet \in Nat /\ KeepAlive \in Nat
        /\ quiet + timer <= (IF probed THEN 2 * KeepAlive ELSE KeepAlive)
    BY Sizes DEF Inv, QuietInv
  <2>2. quiet + timer <= 2 * KeepAlive
    <3>1. CASE probed
      BY <2>1, <3>1
    <3>2. CASE ~probed
      <4>1. quiet + timer <= KeepAlive
        BY <2>1, <3>2
      <4> QED BY <2>1, <4>1
    <3> QED BY <3>1, <3>2
  <2> QED BY <2>1, <2>2 DEF DeadLinkFound
<1> QED BY <1>1, WatchInvariance, PTL
=============================================================================
