---------------------------- MODULE ConnectProofs ----------------------------
(***************************************************************************)
(* What connect promises, for every size of the connection's buffers, any  *)
(* timeout, any positions of the two sides and any width of the sequence   *)
(* numbers in messages.                                                    *)
(*                                                                         *)
(* The inductive invariant has six parts: where the two goroutines can be  *)
(* together (Where), why the connection is closed (ClosedWhy), what was    *)
(* checked of the positions so far (Resumable), which error stands for     *)
(* which answer (Answers), how the deadlines relate to the last progress   *)
(* (Deadlines), and what the connection holds (Queues).                    *)
(***************************************************************************)
EXTENDS Connect, SequenceTheorems, TLAPS

Handshaking == {"dial", "request", "response"}
Recovering == {"seq", "gotSeq", "catchup", "join"}
Leaving == {"stop", "deadline", "failed", "returned"}

Where ==
  /\ main \in Handshaking \cup Recovering \cup Leaving
  /\ reader \in {"off", "seq", "theirs", "close", "done"}
  /\ main \in Handshaking => reader = "off"
  /\ main \in Recovering => reader # "off"
  /\ main \in Leaving => reader \in {"off", "done"}
  /\ reader = "off" => gotSeq = "none" /\ rerr = "none"
  /\ gotSeq = "none" => reader \in {"off", "seq"}
  /\ gotSeq \notin {"none", "ok"} => rerr = gotSeq
  /\ reader \in {"seq", "theirs"} => rerr = "none"
  /\ reader = "close" => rerr # "none"
  /\ main \notin {"join", "failed", "returned"} => err = "none"
  /\ main = "failed" => err # "none"
  /\ main \in {"stop", "deadline"} => rerr = "none"
  /\ main # "returned" => res = "none"

ClosedWhy ==
  /\ closed => after = "fired" \/ err # "none" \/ rerr # "none"
  /\ main = "join" /\ err # "none" => closed
  /\ reader = "done" /\ rerr # "none" => closed
  /\ main = "dial" => after = "off"
  /\ main = "deadline" => after = "stopped"
  /\ res = "ok" => after = "stopped" /\ err = "none" /\ rerr = "none"

Resumable ==
  /\ {recvSeq, got, oldest, next} \subseteq Nat
  /\ got <= next /\ oldest <= next /\ next - oldest <= Window
  /\ reader # "off" =>
       /\ main \in {"gotSeq", "catchup"} => ~TooManyReceived
       /\ main = "catchup" => Replayable
       /\ (main \in {"join", "stop", "deadline"} /\ err = "none") \/ res = "ok"
            => ~TooManyReceived /\ Replayable
  /\ err = "exceeded" => TooManyReceived \/ ~Replayable

(* The error that connect returns for e, if it is definitive. *)
Final(e) == IF e = "bad" THEN "integrity" ELSE e

Answers ==
  /\ main \in Handshaking \cup {"stop", "deadline"} => seen = "none"
  /\ reader # "off" => seen = IF rerr = "bad" THEN "integrity" ELSE "none"
  /\ rerr \in IOErrors
  /\ main = "join" => err \in IOErrors \cup {"exceeded"}
  /\ main = "join" /\ err = "bad" => rerr = "bad"
  /\ main = "failed" =>
       /\ seen # "none" => Final(err) = seen
       /\ Final(err) \in Fatal \ {"exceeded"} => seen = Final(err)
  /\ seen \in (Fatal \ {"exceeded"}) \cup {"none"}
  /\ DefinitiveAnswerStands

Deadlines ==
  /\ readBy \in 0 .. Timeout /\ writeBy \in 0 .. Timeout /\ quiet \in 0 .. Timeout
  /\ main \notin {"dial", "returned"} => quiet + readBy >= Timeout /\ quiet + writeBy >= Timeout

Answered == Statuses \cup {"bad"}
Counts == {"seq", "bad"}

Queues ==
  /\ up \in Seq(Pieces) /\ down \in Seq(Pieces)
  /\ main \in {"dial", "request"} => srv = "request" /\ up = <<>> /\ down = <<>>
  /\ main = "response" =>
       \/ srv \in {"request", "respond"} /\ down = <<>>
       \/ srv \notin {"request", "respond"} /\ down # <<>> /\ down[1] \in Answered
  /\ main = "response" /\ down # <<>> /\ down[1] = "returning" =>
       \/ srv = "seq" /\ Len(down) = 1
       \/ srv # "seq" /\ Len(down) >= 2 /\ down[2] \in Counts
  /\ reader = "seq" =>
       \/ srv = "seq" /\ down = <<>>
       \/ srv \notin {"request", "respond", "seq"} /\ down # <<>> /\ down[1] \in Counts
  /\ (\E i \in 1 .. Len(down) : down[i] = "catchup") => srv \in {"theirs", "done"}
  /\ reader = "done" /\ rerr = "none" => srv \in {"theirs", "done"}
  /\ main = "join" /\ err = "none" /\ srv \notin {"done", "end"} =>
       up # <<>> /\ up[Len(up)] = "catchup"

Inv == Where /\ ClosedWhy /\ Resumable /\ Answers /\ Deadlines /\ Queues
-----------------------------------------------------------------------------
(***************************************************************************)
(* The two halves of connect: where they are, and why the connection is    *)
(* closed.                                                                 *)
(***************************************************************************)
(* connect and handshake. *)
LEMMA ConnectPlaces ==
  ASSUME Where, ClosedWhy,
         \/ Dials \/ DialFails \/ ConnectFails \/ ConnectStops \/ ConnectSucceeds
         \/ HandshakeRequests \/ HandshakeAnswered \/ HandshakeFails
  PROVE  Where' /\ ClosedWhy'
<1> USE DEF Where, ClosedWhy, Handshaking, Recovering, Leaving, recovery, context
<1>1. CASE Dials
  BY <1>1 DEF Dials
<1>2. CASE DialFails
  BY <1>2 DEF DialFails
<1>3. CASE ConnectFails
  BY <1>3 DEF ConnectFails, Verdict, Fatal
<1>4. CASE ConnectStops
  BY <1>4 DEF ConnectStops
<1>5. CASE ConnectSucceeds
  BY <1>5 DEF ConnectSucceeds
<1>6. CASE HandshakeRequests
  BY <1>6 DEF HandshakeRequests
<1>7. CASE HandshakeAnswered
  BY <1>7 DEF HandshakeAnswered
<1>8. CASE HandshakeFails
  BY <1>8 DEF HandshakeFails, Errors
<1> QED BY <1>1, <1>2, <1>3, <1>4, <1>5, <1>6, <1>7, <1>8

(* recover: the writer, the join, and the reader. *)
LEMMA RecoverPlaces ==
  ASSUME Where, ClosedWhy, Queues,
         \/ RecoverStatesCount \/ RecoverOverflows \/ RecoverSnapshots \/ RecoverExceeded
         \/ RecoverWritesCatchup \/ RecoverWriteFails \/ RecoverJoins
         \/ ReaderReads \/ ReaderFails \/ ReaderCloses
  PROVE  Where' /\ ClosedWhy'
<1> USE DEF Where, ClosedWhy, Handshaking, Recovering, Leaving, recovery, context
<1>1. CASE RecoverStatesCount
  BY <1>1 DEF RecoverStatesCount
<1>2. CASE RecoverOverflows
  BY <1>2 DEF RecoverOverflows, WriterEnds
<1>3. CASE RecoverSnapshots
  BY <1>3 DEF RecoverSnapshots
<1>4. CASE RecoverExceeded
  BY <1>4 DEF RecoverExceeded, WriterEnds
<1>5. CASE RecoverWritesCatchup
  BY <1>5 DEF RecoverWritesCatchup
<1>6. CASE RecoverWriteFails
  BY <1>6 DEF RecoverWriteFails, WriterEnds, Errors
<1>7. CASE RecoverJoins
  BY <1>7 DEF RecoverJoins
<1>8. CASE ReaderReads
  <2>1. reader = "seq" => Head(down) \in {"seq", "bad"}
    <3>1. down # <<>> /\ down \in Seq(Pieces)
      BY <1>8 DEF ReaderReads, Reads, Queues
    <3>2. Head(down) = down[1]
      BY <3>1
    <3> QED BY <3>1, <3>2 DEF Queues, Counts
  <2>2. /\ reader \in {"seq", "theirs"}
        /\ UNCHANGED <<main, err, res, context, closed>>
        /\ \/ Head(down) = "bad" /\ ReaderEnds("bad")
           \/ Head(down) = "seq" /\ gotSeq' = "ok" /\ reader' = "theirs" /\ rerr' = rerr
           \/ Head(down) = "packet" /\ UNCHANGED <<gotSeq, reader, rerr>>
           \/ Head(down) = "catchup" /\ reader' = "done" /\ UNCHANGED <<gotSeq, rerr>>
    BY <1>8 DEF ReaderReads, ReaderTurn
  <2> QED BY <2>1, <2>2 DEF ReaderEnds
<1>9. CASE ReaderFails
  BY <1>9 DEF ReaderFails, ReaderTurn, ReaderEnds, Errors
<1>10. CASE ReaderCloses
  BY <1>10 DEF ReaderCloses
<1> QED BY <1>1, <1>2, <1>3, <1>4, <1>5, <1>6, <1>7, <1>8, <1>9, <1>10

(* Nobody else moves them. *)
LEMMA OtherPlaces ==
  ASSUME Where, ClosedWhy,
         \/ Server \/ Tick \/ CtxEnds \/ AfterFuncFires \/ AfterFuncCloses \/ ConnectionBreaks
         \/ UNCHANGED vars
  PROVE  Where' /\ ClosedWhy'
<1>1. UNCHANGED <<main, reader, gotSeq, rerr, err, res>>
  BY DEF Server, ServeAdmits, ServeResponds, ServeStatesCount, ServeSnapshots, ServeWritesCatchup,
     ServeReadsCatchup, ServeGarbles, Tick, CtxEnds, AfterFuncFires, AfterFuncCloses,
     ConnectionBreaks, recovery, vars
<1>2. /\ after' = after \/ (after = "armed" /\ after' = "fired")
      /\ closed' = closed \/ (after = "fired" /\ after' = "fired")
  BY DEF Server, ServeAdmits, ServeResponds, ServeStatesCount, ServeSnapshots, ServeWritesCatchup,
     ServeReadsCatchup, ServeGarbles, Tick, CtxEnds, AfterFuncFires, AfterFuncCloses,
     ConnectionBreaks, context, vars
<1>3. (closed => closed') /\ (closed' => closed \/ after' = "fired")
  BY <1>2 DEF Server, ServeAdmits, ServeResponds, ServeStatesCount, ServeSnapshots, ServeWritesCatchup,
     ServeReadsCatchup, ServeGarbles, Tick, CtxEnds, AfterFuncFires, AfterFuncCloses,
     ConnectionBreaks, context, vars
<1> QED BY <1>1, <1>2, <1>3 DEF Where, ClosedWhy
-----------------------------------------------------------------------------
(***************************************************************************)
(* The positions do not change during the exchange, so what was checked of *)
(* them stays true.                                                        *)
(***************************************************************************)
LEMMA PositionsFixed ==
  ASSUME [Next]_vars
  PROVE  /\ UNCHANGED positions
         /\ (Replayable' <=> Replayable) /\ (TooManyReceived' <=> TooManyReceived)
<1>1. UNCHANGED positions
  BY DEF Next, Main, Reader, Server, Dials, DialFails, ConnectFails, ConnectStops, ConnectSucceeds,
     HandshakeRequests, HandshakeAnswered, HandshakeFails, RecoverStatesCount, RecoverOverflows,
     RecoverSnapshots, RecoverExceeded, RecoverWritesCatchup, RecoverWriteFails, RecoverJoins,
     ReaderReads, ReaderFails, ReaderCloses, ServeAdmits, ServeResponds, ServeStatesCount,
     ServeSnapshots, ServeWritesCatchup, ServeReadsCatchup, ServeGarbles, Tick, CtxEnds,
     AfterFuncFires, AfterFuncCloses, ConnectionBreaks, vars
<1> QED BY <1>1 DEF positions, Replayable, TooManyReceived, Int32

(* The first piece the handshake reads is an answer. *)
LEMMA HeadAnswers ==
  ASSUME Queues, main = "response", down # <<>>
  PROVE  /\ Head(down) = down[1] /\ Head(down) \in Answered
         /\ Definitive(Head(down)) \in {"none", "rejected", "ended", "version", "bad"}
<1>1. down \in Seq(Pieces) /\ down[1] \in Answered
  BY DEF Queues
<1>2. Head(down) = down[1]
  BY <1>1
<1>3. Head(down) \in {"new", "returning", "invalid", "mismatched", "unknown", "bad"}
  BY <1>1, <1>2 DEF Answered, Statuses
<1> QED BY <1>1, <1>2, <1>3 DEF Definitive

(* A step that moves neither half past a check keeps what was checked. *)
LEMMA ResumableKept ==
  ASSUME Resumable, [Next]_vars,
         UNCHANGED <<main, err, res>>, reader' = reader \/ reader # "off"
  PROVE  Resumable'
<1>1. /\ UNCHANGED <<recvSeq, got, oldest, next>>
      /\ (Replayable' <=> Replayable) /\ (TooManyReceived' <=> TooManyReceived)
  BY PositionsFixed DEF positions
<1> QED BY <1>1 DEF Resumable, Recovering

(* connect and handshake check nothing of the positions. *)
LEMMA ConnectResumable ==
  ASSUME Inv,
         \/ Dials \/ DialFails \/ ConnectFails \/ ConnectStops \/ ConnectSucceeds
         \/ HandshakeRequests \/ HandshakeAnswered \/ HandshakeFails
  PROVE  Resumable'
<1>0. [Next]_vars
  BY DEF Next, Main
<1>1. /\ UNCHANGED <<recvSeq, got, oldest, next>>
      /\ (Replayable' <=> Replayable) /\ (TooManyReceived' <=> TooManyReceived)
  BY <1>0, PositionsFixed DEF positions
<1> USE DEF Inv, Where, Resumable, Handshaking, Recovering, Leaving, recovery
<1>2. CASE Dials
  BY <1>1, <1>2 DEF Dials
<1>3. CASE DialFails
  BY <1>1, <1>3 DEF DialFails, context
<1>4. CASE ConnectFails
  <2>1. res' # "ok"
    BY <1>4 DEF ConnectFails, Verdict, Fatal
  <2> QED BY <1>1, <1>4, <2>1 DEF ConnectFails
<1>5. CASE ConnectStops
  BY <1>1, <1>5 DEF ConnectStops
<1>6. CASE ConnectSucceeds
  BY <1>1, <1>6 DEF ConnectSucceeds
<1>7. CASE HandshakeRequests
  BY <1>1, <1>7 DEF HandshakeRequests
<1>8. CASE HandshakeAnswered
  <2>1. err' # "exceeded" /\ err' = Definitive(Head(down))
    BY <1>8, HeadAnswers DEF HandshakeAnswered, Reads
  <2>2. main = "response" /\ main' \in {"failed", "seq", "stop"} /\ res' = res
        /\ reader' = (IF main' = "seq" THEN "seq" ELSE "off")
    BY <1>8 DEF HandshakeAnswered
  <2> QED BY <1>1, <2>1, <2>2
<1>9. CASE HandshakeFails
  BY <1>1, <1>9 DEF HandshakeFails, Errors
<1> QED BY <1>2, <1>3, <1>4, <1>5, <1>6, <1>7, <1>8, <1>9

(* recover checks them. *)
LEMMA RecoverResumable ==
  ASSUME Inv,
         \/ RecoverStatesCount \/ RecoverOverflows \/ RecoverSnapshots \/ RecoverExceeded
         \/ RecoverWritesCatchup \/ RecoverWriteFails \/ RecoverJoins
         \/ ReaderReads \/ ReaderFails \/ ReaderCloses
  PROVE  Resumable'
<1>0. [Next]_vars
  BY DEF Next, Main, Reader
<1>1. /\ UNCHANGED <<recvSeq, got, oldest, next>>
      /\ (Replayable' <=> Replayable) /\ (TooManyReceived' <=> TooManyReceived)
  BY <1>0, PositionsFixed DEF positions
<1> USE DEF Inv, Where, Resumable, Handshaking, Recovering, Leaving, recovery
<1>2. CASE RecoverStatesCount
  BY <1>1, <1>2 DEF RecoverStatesCount
<1>3. CASE RecoverOverflows
  BY <1>1, <1>3 DEF RecoverOverflows, WriterEnds
<1>4. CASE RecoverSnapshots
  BY <1>1, <1>4 DEF RecoverSnapshots
<1>5. CASE RecoverExceeded
  BY <1>1, <1>5 DEF RecoverExceeded, WriterEnds
<1>6. CASE RecoverWritesCatchup
  BY <1>1, <1>6 DEF RecoverWritesCatchup
<1>7. CASE RecoverWriteFails
  BY <1>1, <1>7 DEF RecoverWriteFails, WriterEnds, Errors
<1>8. CASE RecoverJoins
  <2>1. rerr # "exceeded"
    BY DEF Answers, IOErrors, Errors
  <2> QED BY <1>1, <1>8, <2>1 DEF RecoverJoins
<1>9. CASE ReaderReads \/ ReaderFails \/ ReaderCloses
  <2>1. UNCHANGED <<main, err, res>> /\ reader # "off"
    BY <1>9 DEF ReaderReads, ReaderFails, ReaderCloses, ReaderTurn
  <2> QED BY <1>0, <2>1, ResumableKept
<1> QED BY <1>2, <1>3, <1>4, <1>5, <1>6, <1>7, <1>8, <1>9

(* Nobody else concerns them. *)
LEMMA OtherResumable ==
  ASSUME Inv,
         \/ Server \/ Tick \/ CtxEnds \/ AfterFuncFires \/ AfterFuncCloses \/ ConnectionBreaks
         \/ UNCHANGED vars
  PROVE  Resumable'
<1>1. [Next]_vars
  BY DEF Next
<1>2. UNCHANGED <<main, reader, err, res>>
  BY DEF Server, ServeAdmits, ServeResponds, ServeStatesCount, ServeSnapshots, ServeWritesCatchup,
     ServeReadsCatchup, ServeGarbles, Tick, CtxEnds, AfterFuncFires, AfterFuncCloses,
     ConnectionBreaks, recovery, vars
<1> QED BY <1>1, <1>2, ResumableKept DEF Inv
-----------------------------------------------------------------------------
(***************************************************************************)
(* Which error stands for which answer.                                    *)
(***************************************************************************)
(* connect and handshake. *)
LEMMA ConnectAnswers ==
  ASSUME Inv,
         \/ Dials \/ DialFails \/ ConnectFails \/ ConnectStops \/ ConnectSucceeds
         \/ HandshakeRequests \/ HandshakeAnswered \/ HandshakeFails
  PROVE  Answers'
<1>0. [Next]_vars
  BY DEF Next, Main
<1>1. (Replayable' <=> Replayable) /\ (TooManyReceived' <=> TooManyReceived)
  BY <1>0, PositionsFixed
<1> USE DEF Inv, Where, Answers, DefinitiveAnswerStands, Handshaking, Recovering, Leaving, recovery,
        Final, Fatal, IOErrors
<1>2. CASE Dials
  BY <1>1, <1>2 DEF Dials
<1>3. CASE DialFails
  BY <1>1, <1>3 DEF DialFails, context
<1>4. CASE ConnectFails
  <2>1. main = "failed" /\ main' = "returned" /\ res' = Verdict(err) /\ UNCHANGED <<reader, rerr, err, over, seen>>
    BY <1>4 DEF ConnectFails
  <2>2. res' \in Fatal => res' = Final(err)
    BY <2>1 DEF Verdict
  <2>3. Final(err) \in Fatal => res' = Final(err)
    BY <2>1 DEF Verdict
  <2>4. res' = "cause" => over
    BY <2>1 DEF Verdict
  <2>5. res' = "exceeded" => TooManyReceived \/ ~Replayable
    BY <2>2 DEF Resumable
  <2>6. DefinitiveAnswerStands'
    BY <1>1, <2>1, <2>2, <2>3, <2>4, <2>5
  <2> QED BY <2>1, <2>6
<1>5. CASE ConnectStops
  BY <1>1, <1>5 DEF ConnectStops
<1>6. CASE ConnectSucceeds
  BY <1>1, <1>6 DEF ConnectSucceeds
<1>7. CASE HandshakeRequests
  BY <1>1, <1>7 DEF HandshakeRequests
<1>8. CASE HandshakeAnswered
  <2>1. err' \in {"none", "rejected", "ended", "version", "bad"} /\ err' = Definitive(Head(down))
    BY <1>8, HeadAnswers DEF HandshakeAnswered, Reads
  <2>2. /\ main = "response" /\ main' = (IF err' # "none" THEN "failed"
             ELSE IF Head(down) = "returning" THEN "seq" ELSE "stop")
        /\ seen' = Final(err') /\ rerr' = rerr
        /\ reader' = (IF main' = "seq" THEN "seq" ELSE "off")
    BY <1>8 DEF HandshakeAnswered, Seen
  <2> QED BY <2>1, <2>2
<1>9. CASE HandshakeFails
  BY <1>1, <1>9 DEF HandshakeFails, Errors
<1> QED BY <1>2, <1>3, <1>4, <1>5, <1>6, <1>7, <1>8, <1>9

(* recover. *)
LEMMA RecoverAnswers ==
  ASSUME Inv,
         \/ RecoverStatesCount \/ RecoverOverflows \/ RecoverSnapshots \/ RecoverExceeded
         \/ RecoverWritesCatchup \/ RecoverWriteFails \/ RecoverJoins
         \/ ReaderReads \/ ReaderFails \/ ReaderCloses
  PROVE  Answers'
<1> USE DEF Inv, Where, Answers, DefinitiveAnswerStands, Handshaking, Recovering, Leaving, recovery,
        Final, Fatal, IOErrors, Errors
<1>2. CASE RecoverStatesCount
  BY <1>2 DEF RecoverStatesCount
<1>3. CASE RecoverOverflows
  BY <1>3 DEF RecoverOverflows, WriterEnds
<1>4. CASE RecoverSnapshots
  BY <1>4 DEF RecoverSnapshots
<1>5. CASE RecoverExceeded
  BY <1>5 DEF RecoverExceeded, WriterEnds
<1>6. CASE RecoverWritesCatchup
  BY <1>6 DEF RecoverWritesCatchup
<1>7. CASE RecoverWriteFails
  <2>1. PICK e \in Errors \cup {"bad"} :
          /\ \/ main \in {"seq", "catchup"} /\ WriteError(e)
             \/ main = "gotSeq" /\ gotSeq = e
          /\ WriterEnds(e)
    BY <1>7 DEF RecoverWriteFails
  <2>2. e = "bad" => rerr = "bad"
    BY <2>1 DEF WriteError, IOError
  <2> QED BY <1>7, <2>1, <2>2 DEF RecoverWriteFails, WriterEnds
<1>8. CASE RecoverJoins
  BY <1>8 DEF RecoverJoins, readerErrWins
<1>9. CASE ReaderReads
  BY <1>9 DEF ReaderReads, ReaderTurn, ReaderEnds, Seen
<1>10. CASE ReaderFails
  <2>1. PICK e \in Errors : ReaderEnds(e)
    BY <1>10 DEF ReaderFails
  <2> QED BY <1>10, <2>1 DEF ReaderFails, ReaderTurn, ReaderEnds
<1>11. CASE ReaderCloses
  BY <1>11 DEF ReaderCloses
<1> QED BY <1>2, <1>3, <1>4, <1>5, <1>6, <1>7, <1>8, <1>9, <1>10, <1>11

(* Nobody else takes or changes an answer. *)
LEMMA OtherAnswers ==
  ASSUME Inv,
         \/ Server \/ Tick \/ CtxEnds \/ AfterFuncFires \/ AfterFuncCloses \/ ConnectionBreaks
         \/ UNCHANGED vars
  PROVE  Answers'
<1>1. [Next]_vars
  BY DEF Next
<1>2. (Replayable' <=> Replayable) /\ (TooManyReceived' <=> TooManyReceived)
  BY <1>1, PositionsFixed
<1>3. UNCHANGED <<main, reader, rerr, err, res, seen>> /\ (over => over')
  BY DEF Server, ServeAdmits, ServeResponds, ServeStatesCount, ServeSnapshots, ServeWritesCatchup,
     ServeReadsCatchup, ServeGarbles, Tick, CtxEnds, AfterFuncFires, AfterFuncCloses,
     ConnectionBreaks, recovery, context, vars
<1> QED BY <1>2, <1>3 DEF Inv, Answers, DefinitiveAnswerStands
-----------------------------------------------------------------------------
(***************************************************************************)
(* The deadlines never run out before a whole Timeout without progress.    *)
(***************************************************************************)
LEMMA DeadlinesStep ==
  ASSUME Deadlines, [Next]_vars
  PROVE  Deadlines'
<1>0. Timeout \in Nat /\ Timeout >= 1
  BY ConnectAssumption
<1>1. CASE Tick
  BY <1>0, <1>1 DEF Tick, Deadlines
<1>2. CASE /\ main' \in {"dial", "returned"} \/ main \notin {"dial", "returned"}
           /\ UNCHANGED clock
  BY <1>2 DEF Deadlines, clock
<1>3. CASE Moves
  BY <1>0, <1>3 DEF Moves, Deadlines
<1>4. CASE RecoverSnapshots
  BY <1>0, <1>4 DEF RecoverSnapshots, Deadlines
<1>5. CASE Dials
  BY <1>0, <1>5 DEF Dials, Deadlines
<1>6. CASE HandshakeRequests \/ HandshakeAnswered \/ RecoverStatesCount \/ RecoverWritesCatchup
           \/ ReaderReads
  BY <1>3, <1>6 DEF HandshakeRequests, HandshakeAnswered, RecoverStatesCount, RecoverWritesCatchup,
     ReaderReads, Reads, Writes, ReadMoves
<1>7. CASE \/ DialFails \/ ConnectFails \/ ConnectStops \/ ConnectSucceeds \/ HandshakeFails
           \/ RecoverOverflows \/ RecoverExceeded \/ RecoverWriteFails \/ RecoverJoins
  BY <1>2, <1>7 DEF DialFails, ConnectFails, ConnectStops, ConnectSucceeds, HandshakeFails,
     RecoverOverflows, RecoverExceeded, RecoverWriteFails, RecoverJoins, WriterEnds
<1>8. CASE \/ ReaderFails \/ ReaderCloses \/ Server \/ CtxEnds \/ AfterFuncFires \/ AfterFuncCloses
           \/ ConnectionBreaks \/ UNCHANGED vars
  <2>1. main' = main /\ UNCHANGED clock
    BY <1>8 DEF ReaderFails, ReaderCloses, Server, ServeAdmits, ServeResponds, ServeStatesCount,
       ServeSnapshots, ServeWritesCatchup, ServeReadsCatchup, ServeGarbles, CtxEnds,
       AfterFuncFires, AfterFuncCloses, ConnectionBreaks, vars
  <2> QED BY <2>1 DEF Deadlines, clock
<1> QED BY <1>1, <1>4, <1>5, <1>6, <1>7, <1>8 DEF Next, Main, Reader
-----------------------------------------------------------------------------
(***************************************************************************)
(* What the connection holds.                                              *)
(***************************************************************************)
(* A piece more at the end. *)
LEMMA PutFacts ==
  ASSUME NEW s \in Seq(Pieces), NEW p \in Pieces
  PROVE  /\ Append(s, p) \in Seq(Pieces) /\ Append(s, p) # <<>>
         /\ Len(Append(s, p)) = Len(s) + 1 /\ Len(s) \in Nat
         /\ \A i \in 1 .. Len(s) : Append(s, p)[i] = s[i]
         /\ Append(s, p)[Len(s) + 1] = p
         /\ s = <<>> <=> Len(s) = 0
  BY AppendProperties, EmptySeq

(* A piece less at the front. *)
LEMMA TakeFacts ==
  ASSUME NEW s \in Seq(Pieces), s # <<>>
  PROVE  /\ Tail(s) \in Seq(Pieces) /\ Len(s) \in Nat \ {0} /\ Head(s) = s[1]
         /\ Len(Tail(s)) = Len(s) - 1 /\ \A i \in 1 .. Len(s) - 1 : Tail(s)[i] = s[i + 1]
         /\ Tail(s) = <<>> <=> Len(s) = 1
<1>1. Tail(s) \in Seq(Pieces) /\ Len(s) \in Nat \ {0} /\ Len(Tail(s)) = Len(s) - 1
  BY HeadTailProperties, EmptySeq
<1>2. \A i \in 1 .. Len(s) - 1 : Tail(s)[i] = s[i + 1]
  BY <1>1, HeadTailProperties
<1>3. Tail(s) = <<>> <=> Len(Tail(s)) = 0
  BY <1>1, EmptySeq
<1>4. Head(s) = s[1]
  OBVIOUS
<1> QED BY <1>1, <1>2, <1>3, <1>4

(* The server puts a piece. *)
LEMMA DownGrows ==
  ASSUME Where, Queues, NEW p \in Pieces, down' = Append(down, p), up' = up,
         UNCHANGED <<main, reader, rerr, err>>,
         srv \in {"respond", "seq", "catchup"},
         srv = "respond" => srv' \notin {"request", "respond"} /\ p \in Answered,
         srv = "respond" /\ p = "returning" => srv' = "seq",
         srv = "seq" => srv' \notin {"request", "respond", "seq"} /\ p \in Counts,
         srv = "catchup" => srv' \notin {"request", "respond", "seq"},
         srv = "catchup" /\ srv' # "catchup" => srv' \in {"theirs", "end"},
         srv' \in {"theirs", "done"} \/ p # "catchup",
         srv # "catchup" => srv' \notin {"catchup", "theirs"}
  PROVE  Queues'
<1>1. /\ down' \in Seq(Pieces) /\ down' # <<>> /\ Len(down') = Len(down) + 1 /\ Len(down) \in Nat
      /\ \A i \in 1 .. Len(down) : down'[i] = down[i]
      /\ down'[Len(down) + 1] = p /\ (down = <<>> <=> Len(down) = 0)
  BY PutFacts DEF Queues
<1>2. down # <<>> => down'[1] = down[1]
  BY <1>1
<1>3. down = <<>> => down'[1] = p /\ Len(down') = 1
  BY <1>1
<1>4. Len(down) = 1 => down'[2] = p /\ Len(down') = 2
  BY <1>1
<1>5. Len(down) >= 2 => down'[2] = down[2] /\ Len(down') >= 2
  BY <1>1
<1>6. ASSUME NEW i \in 1 .. Len(down'), down'[i] = "catchup" PROVE srv' \in {"theirs", "done"}
  <2>1. CASE i = Len(down) + 1
    BY <1>1, <1>6, <2>1
  <2>2. CASE i # Len(down) + 1
    <3>1. i \in 1 .. Len(down)
      BY <1>1, <2>2
    <3> QED BY <1>1, <1>6, <3>1 DEF Queues
  <2> QED BY <2>1, <2>2
<1>7. main = "response" => srv' \notin {"request", "respond"} /\ down'[1] \in Answered
  BY <1>1, <1>2, <1>3 DEF Queues
<1>8. main = "response" /\ down'[1] = "returning" =>
        \/ srv' = "seq" /\ Len(down') = 1
        \/ srv' # "seq" /\ Len(down') >= 2 /\ down'[2] \in Counts
  <2>1. SUFFICES ASSUME main = "response", down'[1] = "returning"
                 PROVE  \/ srv' = "seq" /\ Len(down') = 1
                        \/ srv' # "seq" /\ Len(down') >= 2 /\ down'[2] \in Counts
    OBVIOUS
  <2>2. CASE srv = "respond"
    BY <1>3, <2>1, <2>2 DEF Queues
  <2>3. CASE srv = "seq"
    <3>1. Len(down) = 1
      BY <1>2, <2>1, <2>3 DEF Queues
    <3> QED BY <1>4, <2>3, <3>1
  <2>4. CASE srv = "catchup"
    <3>1. Len(down) >= 2 /\ down[2] \in Counts
      BY <1>2, <2>1, <2>4 DEF Queues
    <3> QED BY <1>5, <2>4, <3>1
  <2> QED BY <2>2, <2>3, <2>4
<1>9. reader = "seq" => srv' # "seq" /\ down'[1] \in Counts
  <2>1. reader = "seq" => main # "response"
    BY DEF Where, Handshaking
  <2> QED BY <1>2, <1>3, <2>1 DEF Queues
<1> QED BY <1>1, <1>6, <1>7, <1>8, <1>9 DEF Queues

(* The server takes a piece. *)
LEMMA UpShrinks ==
  ASSUME Queues, up # <<>>, up' = Tail(up), down' = down,
         UNCHANGED <<main, reader, rerr, err>>,
         \/ srv = "request" /\ srv' = "respond"
         \/ srv = "peer" /\ srv' \in {"catchup", "end"}
         \/ srv = "theirs" /\ srv' \in {"theirs", "done"},
         Head(up) # "catchup" \/ srv' = "done"
  PROVE  Queues'
<1>1. /\ up \in Seq(Pieces) /\ up' \in Seq(Pieces) /\ Len(up) \in Nat \ {0} /\ Head(up) = up[1]
      /\ Len(up') = Len(up) - 1 /\ \A i \in 1 .. Len(up) - 1 : up'[i] = up[i + 1]
      /\ up' = <<>> <=> Len(up) = 1
  BY TakeFacts DEF Queues
<1>2. main = "join" /\ err = "none" /\ srv' \notin {"done", "end"} =>
        up' # <<>> /\ up'[Len(up')] = "catchup"
  <2>1. SUFFICES ASSUME main = "join", err = "none", srv' \notin {"done", "end"}
                 PROVE  up' # <<>> /\ up'[Len(up')] = "catchup"
    OBVIOUS
  <2>2. up[Len(up)] = "catchup" /\ up[1] # "catchup"
    BY <1>1, <2>1 DEF Queues
  <2>3. Len(up) # 1 /\ Len(up) - 1 \in 1 .. Len(up) - 1 /\ (Len(up) - 1) + 1 = Len(up)
    BY <1>1, <2>2
  <2> QED BY <1>1, <2>2, <2>3
<1> QED BY <1>1, <1>2 DEF Queues

(* The client writes a piece. *)
LEMMA UpGrows ==
  ASSUME Queues, NEW p \in Pieces, up' = Append(up, p), down' = down, srv' = srv,
         UNCHANGED <<reader, rerr, err>>,
         \/ main = "request" /\ main' = "response"
         \/ main = "seq" /\ main' = "gotSeq"
         \/ main = "catchup" /\ main' = "catchup"
         \/ main = "catchup" /\ main' = "join" /\ p = "catchup"
  PROVE  Queues'
<1>1. /\ up' \in Seq(Pieces) /\ up' # <<>> /\ up'[Len(up')] = p
  <2>1. /\ Append(up, p) \in Seq(Pieces) /\ Append(up, p) # <<>>
        /\ Len(Append(up, p)) = Len(up) + 1 /\ Append(up, p)[Len(up) + 1] = p
    BY PutFacts DEF Queues
  <2> QED BY <2>1
<1> QED BY <1>1 DEF Queues

(* The client reads a piece. *)
LEMMA DownShrinks ==
  ASSUME Where, Queues, down # <<>>, down' = Tail(down), up' = up, srv' = srv,
         \/ /\ main = "response" /\ UNCHANGED rerr
            /\ main' \in {"failed", "stop"} /\ reader' = "off"
         \/ /\ main = "response" /\ UNCHANGED <<rerr, err>> /\ Head(down) = "returning"
            /\ main' = "seq" /\ reader' = "seq"
         \/ /\ reader \in {"seq", "theirs"} /\ UNCHANGED <<main, err>>
            /\ \/ reader' = "theirs"
               \/ reader' = "close"
               \/ Head(down) = "catchup" /\ reader' = "done"
  PROVE  Queues'
<1>1. /\ down' \in Seq(Pieces) /\ Len(down) \in Nat \ {0} /\ Head(down) = down[1]
      /\ Len(down') = Len(down) - 1 /\ \A i \in 1 .. Len(down) - 1 : down'[i] = down[i + 1]
      /\ down' = <<>> <=> Len(down) = 1
  BY TakeFacts DEF Queues
<1>2. main \notin {"dial", "request"} /\ main' \notin {"dial", "request", "response"}
  BY DEF Where, Handshaking, Queues
<1>3. (\E i \in 1 .. Len(down') : down'[i] = "catchup") => srv' \in {"theirs", "done"}
  <2>1. ASSUME NEW i \in 1 .. Len(down'), down'[i] = "catchup" PROVE srv \in {"theirs", "done"}
    <3>1. i + 1 \in 1 .. Len(down) /\ down[i + 1] = "catchup"
      BY <1>1, <2>1
    <3> QED BY <3>1 DEF Queues
  <2> QED BY <2>1
<1>4. reader' = "seq" =>
        \/ srv' = "seq" /\ down' = <<>>
        \/ srv' \notin {"request", "respond", "seq"} /\ down' # <<>> /\ down'[1] \in Counts
  <2>1. SUFFICES ASSUME reader' = "seq"
                 PROVE  \/ srv' = "seq" /\ down' = <<>>
                        \/ srv' \notin {"request", "respond", "seq"} /\ down' # <<>> /\ down'[1] \in Counts
    OBVIOUS
  <2>2. main = "response" /\ down[1] = "returning" /\ srv \notin {"request", "respond"}
    BY <1>1, <2>1 DEF Queues
  <2>3. CASE Len(down) = 1
    BY <1>1, <2>2, <2>3 DEF Queues
  <2>4. CASE Len(down) # 1
    <3>1. srv # "seq" /\ Len(down) >= 2 /\ down[2] \in Counts
      BY <1>1, <2>2, <2>4 DEF Queues
    <3>2. down'[1] = down[2]
      BY <1>1, <3>1
    <3> QED BY <1>1, <2>2, <3>1, <3>2
  <2> QED BY <2>3, <2>4
<1>5. reader' = "done" => srv' \in {"theirs", "done"}
  <2>1. Head(down) = "catchup" => \E i \in 1 .. Len(down) : down[i] = "catchup"
    BY <1>1
  <2> QED BY <2>1 DEF Queues
<1>6. main' = "join" /\ err' = "none" /\ srv' \notin {"done", "end"} =>
        up' # <<>> /\ up'[Len(up')] = "catchup"
  BY DEF Queues
<1> QED BY <1>1, <1>2, <1>3, <1>4, <1>5, <1>6 DEF Queues

(* Steps that neither read nor write. *)
LEMMA QueuesKept ==
  ASSUME Queues, UNCHANGED <<up, down, srv>>,
         \/ main' = main /\ err' = err
         \/ main = "dial" /\ main' = "request"
         \/ main' \in Leaving \cup {"catchup"}
         \/ main' = "join" /\ err' # "none",
         \/ reader' = reader /\ rerr' = rerr
         \/ reader' = "close"
         \/ reader' = "done" /\ rerr' # "none"
  PROVE  Queues'
  BY DEF Queues, Leaving

(* connect and its goroutine. *)
LEMMA ClientQueues ==
  ASSUME Inv, Main \/ Reader
  PROVE  Queues'
<1> USE DEF Inv
<1>1. CASE \/ Dials \/ DialFails \/ ConnectFails \/ ConnectStops \/ ConnectSucceeds \/ HandshakeFails
           \/ RecoverOverflows \/ RecoverSnapshots \/ RecoverExceeded \/ RecoverJoins
  <2>1. UNCHANGED <<up, down, srv, reader, rerr>>
    BY <1>1 DEF Dials, DialFails, ConnectFails, ConnectStops, ConnectSucceeds, HandshakeFails,
       RecoverOverflows, RecoverSnapshots, RecoverExceeded, RecoverJoins, recovery, server
  <2>2. \/ main = "dial" /\ main' = "request"
        \/ main' \in Leaving \cup {"catchup"}
        \/ main' = "join" /\ err' # "none"
    BY <1>1 DEF Dials, DialFails, ConnectFails, ConnectStops, ConnectSucceeds, HandshakeFails,
       RecoverOverflows, RecoverSnapshots, RecoverExceeded, RecoverJoins, WriterEnds, Leaving
  <2> QED BY <2>1, <2>2, QueuesKept
<1>2. CASE RecoverWriteFails
  <2>1. UNCHANGED <<up, down, srv, reader, rerr>> /\ main' = "join" /\ err' # "none"
    BY <1>2 DEF RecoverWriteFails, WriterEnds, Errors, server
  <2> QED BY <2>1, QueuesKept
<1>3. CASE HandshakeRequests
  <2>1. "request" \in Pieces
    BY DEF Pieces
  <2> QED
    BY <1>3, <2>1, UpGrows DEF HandshakeRequests, Writes, recovery, server
<1>4. CASE RecoverStatesCount
  <2>1. "seq" \in Pieces
    BY DEF Pieces
  <2> QED
    BY <1>4, <2>1, UpGrows DEF RecoverStatesCount, Writes, recovery, server
<1>5. CASE RecoverWritesCatchup
  <2> DEFINE p == IF left = 1 THEN "catchup" ELSE "packet"
  <2>1. p \in Pieces /\ up' = Append(up, p) /\ UNCHANGED <<down, srv, reader, rerr, err>>
    BY <1>5 DEF RecoverWritesCatchup, Writes, Pieces, server
  <2>2. \/ main = "catchup" /\ main' = "catchup"
        \/ main = "catchup" /\ main' = "join" /\ p = "catchup"
    BY <1>5 DEF RecoverWritesCatchup
  <2> HIDE DEF p
  <2> QED BY <2>1, <2>2, UpGrows
<1>6. CASE HandshakeAnswered
  <2>1. /\ main = "response" /\ down # <<>> /\ down' = Tail(down)
        /\ UNCHANGED <<up, srv, rerr>> /\ err' = Definitive(Head(down))
        /\ main' = (IF err' # "none" THEN "failed"
                    ELSE IF Head(down) = "returning" THEN "seq" ELSE "stop")
        /\ reader' = (IF main' = "seq" THEN "seq" ELSE "off")
    BY <1>6 DEF HandshakeAnswered, Reads, server
  <2>2. err = "none"
    BY <2>1 DEF Where
  <2> QED BY <2>1, <2>2, DownShrinks
<1>7. CASE ReaderReads
  <2>1. /\ reader \in {"seq", "theirs"} /\ down # <<>> /\ down' = Tail(down)
        /\ UNCHANGED <<main, up, srv, err>>
        /\ \/ Head(down) = "bad" /\ reader' = "close"
           \/ Head(down) = "seq" /\ reader' = "theirs"
           \/ Head(down) = "packet" /\ reader' = reader
           \/ Head(down) = "catchup" /\ reader' = "done"
    BY <1>7 DEF ReaderReads, Reads, ReaderTurn, ReaderEnds, server
  <2>2. down \in Seq(Pieces)
    BY DEF Queues
  <2>3. Head(down) = down[1]
    BY <2>1, <2>2
  <2>4. reader = "seq" => Head(down) \in {"seq", "bad"}
    BY <2>1, <2>3 DEF Queues, Counts
  <2> QED BY <2>1, <2>4, DownShrinks
<1>8. CASE ReaderFails
  <2>1. UNCHANGED <<main, err, up, down, srv>> /\ reader' = "close"
    BY <1>8 DEF ReaderFails, ReaderEnds, server
  <2> QED BY <2>1, QueuesKept
<1>9. CASE ReaderCloses
  <2>1. UNCHANGED <<main, err, up, down, srv>> /\ reader' = "done" /\ rerr' # "none"
    BY <1>9 DEF ReaderCloses, Where, server
  <2> QED BY <2>1, QueuesKept
<1> QED
  BY <1>1, <1>2, <1>3, <1>4, <1>5, <1>6, <1>7, <1>8, <1>9 DEF Main, Reader

(* The server. *)
LEMMA ServerQueues ==
  ASSUME Inv, Server
  PROVE  Queues'
<1> USE DEF Inv
<1>0. UNCHANGED <<main, reader, rerr, err>>
  BY DEF Server, ServeAdmits, ServeResponds, ServeStatesCount, ServeSnapshots, ServeWritesCatchup,
     ServeReadsCatchup, ServeGarbles, recovery
<1>1. CASE ServeAdmits
  <2>1. up # <<>> /\ up' = Tail(up) /\ down' = down /\ Head(up) # "catchup"
        /\ srv = "request" /\ srv' = "respond"
    BY <1>1 DEF ServeAdmits, ServerTakes
  <2> QED BY <1>0, <2>1, UpShrinks
<1>2. CASE ServeSnapshots
  <2>1. up # <<>> /\ up' = Tail(up) /\ down' = down /\ Head(up) # "catchup"
        /\ srv = "peer" /\ srv' \in {"catchup", "end"}
    BY <1>2 DEF ServeSnapshots, ServerTakes
  <2> QED BY <1>0, <2>1, UpShrinks
<1>3. CASE ServeReadsCatchup
  <2>1. up # <<>> /\ up' = Tail(up) /\ down' = down /\ (Head(up) # "catchup" \/ srv' = "done")
        /\ srv = "theirs" /\ srv' \in {"theirs", "done"}
    BY <1>3 DEF ServeReadsCatchup, ServerTakes
  <2> QED BY <1>0, <2>1, UpShrinks
<1>4. CASE ServeResponds
  <2>1. PICK status \in Statuses :
          /\ ServerPuts(status)
          /\ srv' = CASE status = "returning" -> "seq" [] status = "new" -> "done" [] OTHER -> "end"
    BY <1>4 DEF ServeResponds
  <2>2. /\ srv = "respond" /\ down' = Append(down, status) /\ up' = up
        /\ srv' \in {"seq", "done", "end"} /\ (status = "returning" => srv' = "seq")
    BY <1>4, <2>1 DEF ServeResponds, ServerPuts
  <2>3. status \in Pieces /\ status \in Answered /\ status # "catchup"
    BY DEF Pieces, Answered, Statuses
  <2> QED BY <1>0, <2>2, <2>3, DownGrows
<1>5. CASE ServeStatesCount
  <2>1. "seq" \in Pieces /\ "seq" \in Counts
    BY DEF Pieces, Counts
  <2>2. srv = "seq" /\ srv' = "peer" /\ down' = Append(down, "seq") /\ up' = up
    BY <1>5 DEF ServeStatesCount, ServerPuts
  <2> QED BY <1>0, <2>1, <2>2, DownGrows
<1>6. CASE ServeWritesCatchup
  <2> DEFINE p == IF sleft = 1 THEN "catchup" ELSE "packet"
  <2>1. /\ p \in Pieces /\ srv = "catchup" /\ down' = Append(down, p) /\ up' = up
        /\ srv' \in {"theirs", "catchup"} /\ (srv' = "theirs" \/ p # "catchup")
    BY <1>6 DEF ServeWritesCatchup, ServerPuts, Pieces
  <2> HIDE DEF p
  <2> QED BY <1>0, <2>1, DownGrows
<1>7. CASE ServeGarbles
  <2>1. "bad" \in Pieces /\ "bad" \in Counts /\ "bad" \in Answered
    BY DEF Pieces, Counts, Answered
  <2>2. srv \in {"respond", "seq", "catchup"} /\ srv' = "end" /\ down' = Append(down, "bad") /\ up' = up
    BY <1>7 DEF ServeGarbles, ServerPuts
  <2> QED BY <1>0, <2>1, <2>2, DownGrows
<1> QED BY <1>1, <1>2, <1>3, <1>4, <1>5, <1>6, <1>7 DEF Server

(* Nobody else touches the connection's buffers. *)
LEMMA OtherQueues ==
  ASSUME Inv,
         Tick \/ CtxEnds \/ AfterFuncFires \/ AfterFuncCloses \/ ConnectionBreaks \/ UNCHANGED vars
  PROVE  Queues'
<1>1. UNCHANGED <<main, reader, rerr, err, up, down, srv>>
  BY DEF Tick, CtxEnds, AfterFuncFires, AfterFuncCloses, ConnectionBreaks, recovery, server, vars
<1> QED BY <1>1, QueuesKept DEF Inv
-----------------------------------------------------------------------------
(* Every start satisfies the invariant. *)
LEMMA InvInit == Init => Inv
<1> SUFFICES ASSUME Init PROVE Inv
  OBVIOUS
<1>1. <<>> \in Seq(Pieces) /\ Len(<<>>) = 0
  OBVIOUS
<1>2. Where /\ ClosedWhy /\ Answers
  BY DEF Init, Where, ClosedWhy, Answers, DefinitiveAnswerStands, Handshaking, Recovering, Leaving,
     IOErrors
<1>3. Queues
  BY <1>1 DEF Init, Queues
<1>4. Deadlines
  BY ConnectAssumption DEF Init, Deadlines
<1>5. Resumable
  <2>1. recvSeq \in Nat /\ got \in Nat /\ MaxLag \in Nat
    BY ConnectAssumption DEF Init
  <2>2. next \in Nat /\ got <= next
    BY <2>1 DEF Init
  <2>3. oldest \in Nat /\ oldest <= next /\ next - oldest <= Window
    BY <2>2 DEF Init
  <2> QED BY <2>1, <2>2, <2>3 DEF Init, Resumable
<1> QED BY <1>2, <1>3, <1>4, <1>5 DEF Inv

(* The invariant is kept by every step. *)
LEMMA InvNext == Inv /\ [Next]_vars => Inv'
<1> SUFFICES ASSUME Inv, [Next]_vars PROVE Inv'
  OBVIOUS
<1>1. Where' /\ ClosedWhy'
  BY ConnectPlaces, RecoverPlaces, OtherPlaces DEF Inv, Next, Main, Reader
<1>2. Resumable'
  BY ConnectResumable, RecoverResumable, OtherResumable DEF Next, Main, Reader
<1>3. Answers'
  BY ConnectAnswers, RecoverAnswers, OtherAnswers DEF Next, Main, Reader
<1>4. Deadlines'
  BY DeadlinesStep DEF Inv
<1>5. Queues'
  BY ClientQueues, ServerQueues, OtherQueues DEF Next
<1> QED BY <1>1, <1>2, <1>3, <1>4, <1>5 DEF Inv

(***************************************************************************)
(* What is promised of every state of one connect.                         *)
(***************************************************************************)
THEOREM ConnectInvariance == Spec => []Inv
  BY InvInit, InvNext, PTL DEF Spec
-----------------------------------------------------------------------------
(* A count below 2^31 survives the conversion to int32. *)
LEMMA Int32Small ==
  ASSUME NEW n \in Nat, n < Half
  PROVE  Int32(n) = n
<1>1. Half \in Nat /\ n + Half \in Nat /\ n + Half < 2 * Half
  BY ConnectAssumption
<1>2. (n + Half) % (2 * Half) = n + Half
  BY <1>1
<1> QED BY <1>1, <1>2 DEF Int32

(* The remainder of a number that is not below its modulus takes one      *)
(* modulus away, at least.                                                 *)
LEMMA RemainderTakesAway ==
  ASSUME NEW m \in Nat \ {0}, NEW x \in Nat, x >= m
  PROVE  x % m \in Nat /\ x - (x % m) >= m
<1> DEFINE q == x \div m
<1> DEFINE r == x % m
<1>1. r \in 0 .. (m - 1)
  OBVIOUS
<1>2. q \in Int
  OBVIOUS
<1>3. x = m * q + r
  OBVIOUS
<1> HIDE DEF q, r
<1>4. q >= 1
  <2>1. SUFFICES ASSUME q <= 0 PROVE FALSE
    BY <1>2
  <2>2. m * q <= 0
    BY <1>2, <2>1
  <2> QED BY <1>1, <1>2, <1>3, <2>2
<1>5. m * q >= m
  <2>1. q - 1 \in Nat /\ m * (q - 1) \in Nat
    BY <1>2, <1>4
  <2>2. m * q = m * (q - 1) + m
    BY <1>2
  <2> QED BY <2>1, <2>2
<1>6. x - r >= m
  BY <1>1, <1>2, <1>3, <1>5
<1> QED BY <1>1, <1>6 DEF r

(* The conversion takes 2^32 away, at least, from what has no place in it. *)
LEMMA Int32Wraps ==
  ASSUME NEW n \in Nat, n >= Half
  PROVE  Int32(n) \in Int /\ n - Int32(n) >= 2 * Half
<1> DEFINE m == 2 * Half
<1> DEFINE x == n + Half
<1>1. Half \in Nat \ {0} /\ m \in Nat \ {0} /\ x \in Nat /\ x >= m
  BY ConnectAssumption
<1>2. x % m \in Nat /\ x - (x % m) >= m
  <2> HIDE DEF x, m
  <2> QED BY <1>1, RemainderTakesAway
<1>3. Int32(n) = (x % m) - Half
  BY DEF Int32
<1> DEFINE r == x % m
<1>4. r \in Nat /\ x - r >= m /\ Int32(n) = r - Half
  BY <1>2, <1>3
<1> HIDE DEF r
<1> QED BY <1>1, <1>4

(* What both sides checked of their positions makes them the true ones. *)
LEMMA CheckedIsTrue ==
  ASSUME {recvSeq, got, oldest, next} \subseteq Nat,
         got <= next, next - oldest <= Window, ~TooManyReceived, Replayable
  PROVE  Int32(got) = got /\ Int32(recvSeq) = recvSeq
<1>1. Half \in Nat /\ Window \in Nat /\ Window < 2 * Half
  BY ConnectAssumption
<1>2. Int32(recvSeq) = recvSeq
  BY <1>1, Int32Small DEF TooManyReceived
<1>3. got < Half
  <2>1. SUFFICES ASSUME got >= Half PROVE FALSE
    BY <1>1
  <2>2. Int32(got) \in Int /\ got - Int32(got) >= 2 * Half
    BY <2>1, Int32Wraps
  <2>3. oldest <= Int32(got)
    BY DEF Replayable
  <2> QED BY <1>1, <2>2, <2>3
<1> QED BY <1>2, <1>3, Int32Small

(***************************************************************************)
(* A connection that connect returns is open, its AfterFunc will not close *)
(* it, and both sides resumed from their true positions: the checks of     *)
(* writeRecover (the count against 2^31, the position against the ring)    *)
(* leave no sequence number that the 32 bits of a message could truncate.  *)
(***************************************************************************)
THEOREM ConnectSuccessSound == Spec => []SuccessIsSound
<1>1. Inv => SuccessIsSound
  <2>1. SUFFICES ASSUME Inv, res = "ok" PROVE SuccessIsSound
    BY DEF SuccessIsSound
  <2>2. ~closed /\ after = "stopped"
    BY <2>1 DEF Inv, ClosedWhy
  <2>3. ASSUME reader # "off"
        PROVE  Int32(got) = got /\ Int32(recvSeq) = recvSeq
    <3>1. ~TooManyReceived /\ Replayable
      BY <2>1, <2>3 DEF Inv, Resumable
    <3> QED BY <2>1, <3>1, CheckedIsTrue DEF Inv, Resumable
  <2> QED BY <2>2, <2>3 DEF SuccessIsSound
<1> QED BY <1>1, ConnectInvariance, PTL

(***************************************************************************)
(* A definitive answer that handshake or recover read is what connect      *)
(* returns, and nothing else ends the session but what cannot be resumed,  *)
(* whatever ctx and the two goroutines do meanwhile.                       *)
(***************************************************************************)
THEOREM AnswerStands == Spec => []DefinitiveAnswerStands
<1>1. Inv => DefinitiveAnswerStands
  BY DEF Inv, Answers
<1> QED BY <1>1, ConnectInvariance, PTL

(***************************************************************************)
(* recover's writer, its reader and the server never all wait for one      *)
(* another, whatever the connection buffers.                               *)
(***************************************************************************)
THEOREM RecoverNeverStuck == Spec => []NoMutualWait
<1>1. Inv => NoMutualWait
  <2>1. SUFFICES ASSUME Inv, ~closed, ReaderWaits, WriterWaits, ServerWaits PROVE FALSE
    BY DEF NoMutualWait
  <2>2. up \in Seq(Pieces) /\ down \in Seq(Pieces) /\ Buf \in Nat \ {0}
    BY <2>1, ConnectAssumption DEF Inv, Queues
  <2>3. (Len(up) = Buf => up # <<>>) /\ (Len(down) = Buf => down # <<>>)
    BY <2>2
  <2>4. reader \in {"seq", "theirs", "done"}
    BY <2>1 DEF Inv, Where, Recovering, WriterWaits, ReaderWaits
  <2>5. CASE reader \in {"seq", "theirs"}
    <3>1. down = <<>>
      BY <2>1, <2>5 DEF ReaderWaits, ReaderTurn
    <3>2. srv \in {"peer", "theirs"} /\ up = <<>>
      BY <2>1, <2>3, <3>1 DEF ServerWaits
    <3>3. reader = "theirs" /\ gotSeq # "none"
      BY <2>1, <2>5, <3>1, <3>2 DEF Inv, Where, Queues
    <3>4. main = "join"
      BY <2>1, <2>3, <3>2, <3>3 DEF WriterWaits
    <3>5. err = "none"
      BY <2>1, <3>4 DEF Inv, ClosedWhy
    <3> QED BY <2>1, <3>2, <3>4, <3>5 DEF Inv, Queues
  <2>6. CASE reader = "done"
    <3>1. rerr = "none" /\ gotSeq # "none"
      BY <2>1, <2>6 DEF Inv, ClosedWhy, Where
    <3>2. srv \in {"theirs", "done"}
      BY <2>1, <2>6, <3>1 DEF Inv, Queues
    <3>3. up = <<>>
      BY <2>1, <3>2 DEF ServerWaits
    <3> QED BY <2>1, <2>3, <2>6, <3>1, <3>3 DEF WriterWaits
  <2> QED BY <2>4, <2>5, <2>6
<1> QED BY <1>1, ConnectInvariance, PTL

(* A deadline is out only when nothing has moved since it was set. *)
LEMMA DeadlineMeansIdle ==
  ASSUME Inv, main \notin {"dial", "returned"}, readBy = 0 \/ writeBy = 0
  PROVE  quiet = Timeout
<1>1. /\ readBy \in 0 .. Timeout /\ writeBy \in 0 .. Timeout /\ quiet \in 0 .. Timeout
      /\ quiet + readBy >= Timeout /\ quiet + writeBy >= Timeout
  BY DEF Inv, Deadlines
<1>2. Timeout \in Nat
  BY ConnectAssumption
<1> QED BY <1>1, <1>2

(***************************************************************************)
(* handshake and recover report a timeout only when neither direction has  *)
(* moved for the whole of handshakeIdle: idleConn's promise.               *)
(***************************************************************************)
THEOREM TimeoutOnlyIdle == Spec => TimeoutMeansIdle
<1> DEFINE Idle == ("timeout" \in {err', rerr'} /\ "timeout" \notin {err, rerr}) => quiet = Timeout
<1>1. ASSUME Inv, [Next]_vars PROVE [Idle]_vars
  <2>1. SUFFICES ASSUME Next, "timeout" \in {err', rerr'}, "timeout" \notin {err, rerr}
                 PROVE  quiet = Timeout
    BY <1>1
  <2>2. Where
    BY <1>1 DEF Inv
  <2>3. CASE HandshakeFails
    <3>1. main \in {"request", "response"} /\ (readBy = 0 \/ writeBy = 0)
      BY <2>1, <2>3 DEF HandshakeFails, Errors, ReadError, WriteError, IOError, recovery
    <3> QED BY <1>1, <3>1, DeadlineMeansIdle
  <2>4. CASE RecoverWriteFails
    <3>1. main \in {"seq", "catchup"} /\ writeBy = 0
      BY <2>1, <2>2, <2>4 DEF RecoverWriteFails, WriterEnds, Errors, WriteError, IOError, Where
    <3> QED BY <1>1, <3>1, DeadlineMeansIdle
  <2>5. CASE ReaderFails
    <3>1. readBy = 0 /\ reader \in {"seq", "theirs"}
      BY <2>1, <2>5 DEF ReaderFails, ReaderEnds, ReaderTurn, Errors, ReadError, IOError
    <3>2. main \notin {"dial", "returned"}
      BY <2>2, <3>1 DEF Where, Handshaking, Leaving
    <3> QED BY <1>1, <3>1, <3>2, DeadlineMeansIdle
  <2>6. CASE HandshakeAnswered
    <3>1. err' = Definitive(Head(down)) /\ rerr' = rerr /\ main = "response" /\ down # <<>>
      BY <2>6 DEF HandshakeAnswered, Reads
    <3>2. Definitive(Head(down)) # "timeout"
      BY <1>1, <3>1, HeadAnswers DEF Inv
    <3> QED BY <2>1, <3>1, <3>2
  <2>7. CASE Main /\ ~(HandshakeFails \/ RecoverWriteFails \/ HandshakeAnswered)
    BY <2>1, <2>7 DEF Main, Dials, DialFails, ConnectFails, ConnectStops, ConnectSucceeds,
       HandshakeRequests, RecoverStatesCount, RecoverOverflows, RecoverSnapshots, RecoverExceeded,
       RecoverWritesCatchup, RecoverJoins, WriterEnds, recovery
  <2>8. CASE ReaderReads \/ ReaderCloses
    BY <2>1, <2>8 DEF ReaderReads, ReaderCloses, ReaderEnds
  <2>9. CASE \/ Server \/ Tick \/ CtxEnds \/ AfterFuncFires \/ AfterFuncCloses
             \/ ConnectionBreaks
    BY <2>1, <2>9 DEF Server, ServeAdmits, ServeResponds, ServeStatesCount, ServeSnapshots,
       ServeWritesCatchup, ServeReadsCatchup, ServeGarbles, Tick, CtxEnds, AfterFuncFires,
       AfterFuncCloses, ConnectionBreaks, recovery
  <2> QED BY <2>1, <2>3, <2>4, <2>5, <2>6, <2>7, <2>8, <2>9 DEF Next, Main, Reader
<1>2. Inv /\ [Next]_vars => [Idle]_vars
  BY <1>1
<1> QED BY <1>2, ConnectInvariance, PTL DEF Spec, TimeoutMeansIdle
=============================================================================
