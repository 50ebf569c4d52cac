------------------------------ MODULE Connect ------------------------------
(***************************************************************************)
(* One attempt of Conn.connect (internal/etcp/dialer.go, recover.go and    *)
(* idleconn.go) against one Serve of the server, on a connection that      *)
(* buffers a bounded number of pieces in each direction: dial, handshake,  *)
(* the recover exchange with its two goroutines, the idle deadlines, and   *)
(* ctx ending at any moment.                                               *)
(*                                                                         *)
(* A message is one piece, except a CatchupBuffer, which is one piece per  *)
(* packet and a last one.  What the commit of recover does to the ring is  *)
(* in module Outbound; the positions of both sides do not change here      *)
(* until the exchange is over, so any of them is an initial state.         *)
(***************************************************************************)
EXTENDS Integers, Sequences

CONSTANTS
  Buf,         \* pieces a direction of the connection buffers
  Timeout,     \* handshakeIdle, in ticks
  Half,        \* 2^31: sequence numbers in messages are below it
  Window,      \* the most packets a ring retains
  MaxCatchup,  \* maxCatchupSize, in packets
  Received,    \* the values of Conn.recvSeq to start from
  Counted,     \* the values of Server.recvSeq to start from
  MaxLag       \* model bound: packets one side may be ahead of the other

(* A ring of a few ReplayLimits holds far fewer than 2^32 packets. *)
ASSUME ConnectAssumption ==
  /\ {Buf, Timeout, Half} \subseteq Nat \ {0}
  /\ Window \in Nat /\ Window < 2 * Half
  /\ MaxCatchup \in Nat /\ MaxLag \in Nat
  /\ Received \subseteq Nat /\ Counted \subseteq Nat

VARIABLES
  first,            \* connect's argument
  recvSeq, oldest, next,  \* Conn.recvSeq, ring.first and ring.next
  got, sent,        \* Server.recvSeq and the packets in Server.sent
  main,             \* where connect, handshake and recover are
  left,             \* pieces of our catchup still to write
  reader,           \* where recover's reader goroutine is
  gotSeq,           \* what it sent on gotSeq, or "none"
  err, rerr,        \* the error of the writing and of the reading half
  res,              \* connect's result
  over,             \* ctx has ended
  after,            \* its AfterFunc: "armed", "fired", "stopped", or "off"
  closed,           \* nc.Close was called
  readBy, writeBy,  \* ticks left until the deadlines
  quiet,            \* ticks since a Read or a Write moved bytes
  seen,             \* the definitive answer that was read, or "none"
  srv, sleft,       \* where Serve is, and the pieces it has to write
  broken,           \* the server or the network ended the connection
  up, down          \* the pieces in the connection

positions == <<first, recvSeq, oldest, next, got, sent>>
recovery == <<left, reader, gotSeq, rerr>>
context == <<over, after>>
clock == <<readBy, writeBy, quiet>>
server == <<srv, sleft, broken>>
vars == <<positions, main, recovery, err, res, context, closed, clock, seen, server, up, down>>

Init ==
  /\ first \in BOOLEAN
  /\ recvSeq \in Received /\ got \in Counted
  /\ sent \in recvSeq .. (recvSeq + MaxLag) /\ next \in got .. (got + MaxLag)
  /\ oldest \in {n \in 0 .. next : next - n <= Window}
  /\ first => recvSeq = 0 /\ got = 0 /\ next = 0
  /\ main = "dial" /\ left = 0 /\ reader = "off" /\ gotSeq = "none"
  /\ err = "none" /\ rerr = "none" /\ res = "none"
  /\ over = FALSE /\ after = "off" /\ closed = FALSE
  /\ readBy = 0 /\ writeBy = 0 /\ quiet = 0
  /\ seen = "none"
  /\ srv = "request" /\ sleft = 0 /\ broken = FALSE
  /\ up = <<>> /\ down = <<>>
-----------------------------------------------------------------------------
(***************************************************************************)
(* idleConn.  A Read or a Write that moves bytes gives both directions a   *)
(* fresh deadline; one that starts gives its own direction one.            *)
(***************************************************************************)
Moves == quiet' = 0 /\ readBy' = Timeout /\ writeBy' = Timeout

(* Faulty: progress of a Read leaves the deadline of the Write alone. *)
ReadMovesAlone == quiet' = 0 /\ readBy' = Timeout /\ UNCHANGED writeBy

ReadMoves == Moves

(* Read returns the next piece. *)
Reads == ~closed /\ down # <<>> /\ down' = Tail(down) /\ ReadMoves

(* Write moves one piece. *)
Writes(piece) == ~closed /\ Len(up) < Buf /\ up' = Append(up, piece) /\ Moves

IOError(e, deadline) ==
  \/ e = "closed" /\ closed
  \/ e = "io" /\ broken /\ ~closed
  \/ e = "timeout" /\ deadline = 0 /\ ~closed

Errors == {"closed", "io", "timeout"}

(* Faulty: a Read without a deadline. *)
ReadErrorUntimed(e) == IOError(e, Timeout)

ReadError(e) == IOError(e, readBy)
WriteError(e) == IOError(e, writeBy)

Tick ==
  /\ main \notin {"dial", "returned"}
  /\ quiet < Timeout \/ readBy > 0 \/ writeBy > 0
  /\ quiet' = (IF quiet < Timeout THEN quiet + 1 ELSE Timeout)
  /\ readBy' = (IF readBy > 0 THEN readBy - 1 ELSE 0)
  /\ writeBy' = (IF writeBy > 0 THEN writeBy - 1 ELSE 0)
  /\ UNCHANGED <<positions, main, recovery, err, res, context, closed, seen, server, up, down>>
-----------------------------------------------------------------------------
(***************************************************************************)
(* connect.                                                                *)
(***************************************************************************)
Fatal == {"ended", "version", "exceeded", "rejected", "integrity"}  \* isFatal

Dials ==
  /\ main = "dial"
  /\ main' = "request" /\ after' = "armed"
  /\ readBy' = Timeout /\ writeBy' = Timeout /\ quiet' = 0
  /\ UNCHANGED <<positions, recovery, err, res, over, closed, seen, server, up, down>>

DialFails ==
  /\ main = "dial"
  /\ main' = "returned" /\ res' = IF over THEN "cause" ELSE "retry"
  /\ UNCHANGED <<positions, recovery, err, context, closed, clock, seen, server, up, down>>

(***************************************************************************)
(* What connect makes of an error: a bad message is an integrity failure,  *)
(* and the end of ctx replaces an error that is not definitive.            *)
(***************************************************************************)
Verdict(e) ==
  LET d == IF e = "bad" THEN "integrity" ELSE e
  IN  IF d \in Fatal THEN d ELSE IF over THEN "cause" ELSE "retry"

ConnectFails ==
  /\ main = "failed"
  /\ main' = "returned" /\ res' = Verdict(err) /\ closed' = TRUE
  /\ after' = IF after = "armed" THEN "stopped" ELSE after
  /\ UNCHANGED <<positions, recovery, err, over, clock, seen, server, up, down>>

(* stop(): if it comes too late the connection is, or will be, closed. *)
ConnectStops ==
  /\ main = "stop"
  /\ IF after = "armed"
       THEN after' = "stopped" /\ main' = "deadline" /\ UNCHANGED err
       ELSE err' = "cause" /\ main' = "failed" /\ UNCHANGED after
  /\ UNCHANGED <<positions, recovery, res, over, closed, clock, seen, server, up, down>>

(* SetDeadline, which may fail. *)
ConnectSucceeds ==
  /\ main = "deadline"
  /\ \/ main' = "returned" /\ res' = "ok" /\ UNCHANGED err
     \/ main' = "failed" /\ err' = "io" /\ UNCHANGED res
  /\ UNCHANGED <<positions, recovery, context, closed, clock, seen, server, up, down>>

CtxEnds ==
  /\ ~over /\ main # "returned"
  /\ over' = TRUE
  /\ UNCHANGED <<positions, main, recovery, err, res, after, closed, clock, seen, server, up, down>>

AfterFuncFires ==
  /\ over /\ after = "armed"
  /\ after' = "fired"
  /\ UNCHANGED <<positions, main, recovery, err, res, over, closed, clock, seen, server, up, down>>

AfterFuncCloses ==
  /\ after = "fired" /\ ~closed
  /\ closed' = TRUE
  /\ UNCHANGED <<positions, main, recovery, err, res, context, clock, seen, server, up, down>>
-----------------------------------------------------------------------------
(***************************************************************************)
(* handshake.                                                              *)
(***************************************************************************)
HandshakeRequests ==
  /\ main = "request" /\ Writes("request")
  /\ main' = "response"
  /\ UNCHANGED <<positions, recovery, err, res, context, closed, seen, server, down>>

(* What the answer means, if it ends the session. *)
Definitive(piece) ==
  CASE piece = "new" -> IF first THEN "none" ELSE "rejected"
    [] piece = "returning" -> "none"
    [] piece = "invalid" -> IF first THEN "rejected" ELSE "ended"
    [] piece = "mismatched" -> "version"
    [] piece = "unknown" -> "rejected"
    [] piece = "bad" -> "bad"

Seen(e) == seen' = IF e = "bad" THEN "integrity" ELSE e

(* RETURNING_CLIENT starts recover and its reader. *)
HandshakeAnswered ==
  /\ main = "response" /\ Reads
  /\ LET answer == Head(down)
         e == Definitive(answer)
     IN  /\ main' = (IF e # "none" THEN "failed"
                     ELSE IF answer = "returning" THEN "seq" ELSE "stop")
         /\ err' = e /\ Seen(e)
         /\ reader' = IF main' = "seq" THEN "seq" ELSE "off"
  /\ UNCHANGED <<positions, left, gotSeq, rerr, res, context, closed, server, up>>

HandshakeFails ==
  /\ \E e \in Errors :
       /\ \/ main = "request" /\ WriteError(e)
          \/ main = "response" /\ ReadError(e)
       /\ err' = e
  /\ main' = "failed"
  /\ UNCHANGED <<positions, recovery, res, context, closed, clock, seen, server, up, down>>
-----------------------------------------------------------------------------
(***************************************************************************)
(* recover: its reader.                                                    *)
(***************************************************************************)
ReaderEnds(e) ==
  /\ rerr' = e /\ reader' = "close"
  /\ gotSeq' = IF reader = "seq" THEN e ELSE gotSeq

(* Faulty: the peer's catchup is read only when ours has been written. *)
ReaderTurnInSequence == reader = "seq" \/ (reader = "theirs" /\ main = "join")

ReaderTurn == reader \in {"seq", "theirs"}

ReaderReads ==
  /\ ReaderTurn /\ Reads
  /\ LET piece == Head(down)
     IN  \/ piece = "bad" /\ ReaderEnds("bad") /\ Seen("bad")
         \/ piece = "seq" /\ gotSeq' = "ok" /\ reader' = "theirs" /\ UNCHANGED <<rerr, seen>>
         \/ piece = "packet" /\ UNCHANGED <<gotSeq, reader, rerr, seen>>
         \/ piece = "catchup" /\ reader' = "done" /\ UNCHANGED <<gotSeq, rerr, seen>>
  /\ UNCHANGED <<positions, main, left, err, res, context, closed, server, up>>

ReaderFails ==
  /\ ReaderTurn
  /\ \E e \in Errors : ReadError(e) /\ ReaderEnds(e)
  /\ UNCHANGED <<positions, main, left, err, res, context, closed, clock, seen, server, up, down>>

(* The reader unblocks the writer. *)
ReaderCloses ==
  /\ reader = "close"
  /\ closed' = TRUE /\ reader' = "done"
  /\ UNCHANGED <<positions, main, left, gotSeq, rerr, err, res, context, clock, seen, server,
                 up, down>>
-----------------------------------------------------------------------------
(***************************************************************************)
(* recover: writeRecover, then the join of both halves.                    *)
(***************************************************************************)
Int32(n) == ((n + Half) % (2 * Half)) - Half

(* Faulty: the count is sent whatever its size. *)
TooManyReceivedIgnored == FALSE

TooManyReceived == recvSeq >= Half

(* The writer failed: it unblocks the reader. *)
WriterEnds(e) == err' = e /\ closed' = TRUE /\ main' = "join"

RecoverStatesCount ==
  /\ main = "seq" /\ ~TooManyReceived
  /\ Writes("seq")
  /\ main' = "gotSeq"
  /\ UNCHANGED <<positions, recovery, err, res, context, closed, seen, server, down>>

RecoverOverflows ==
  /\ main = "seq" /\ TooManyReceived
  /\ WriterEnds("exceeded")
  /\ UNCHANGED <<positions, recovery, res, context, clock, seen, server, up, down>>

(* The server's position is in the ring, and our catchup in one message. *)
Replayable ==
  LET from == Int32(got) IN oldest <= from /\ from <= next /\ next - from <= MaxCatchup

RecoverSnapshots ==
  /\ main = "gotSeq" /\ gotSeq = "ok" /\ Replayable
  /\ left' = next - Int32(got) + 1
  /\ main' = "catchup" /\ writeBy' = Timeout
  /\ UNCHANGED <<positions, reader, gotSeq, rerr, err, res, context, closed, readBy, quiet,
                 seen, server, up, down>>

RecoverExceeded ==
  /\ main = "gotSeq" /\ gotSeq = "ok" /\ ~Replayable
  /\ WriterEnds("exceeded")
  /\ UNCHANGED <<positions, recovery, res, context, clock, seen, server, up, down>>

RecoverWritesCatchup ==
  /\ main = "catchup" /\ Writes(IF left = 1 THEN "catchup" ELSE "packet")
  /\ left' = left - 1
  /\ main' = IF left = 1 THEN "join" ELSE "catchup"
  /\ UNCHANGED <<positions, reader, gotSeq, rerr, err, res, context, closed, seen, server, down>>

RecoverWriteFails ==
  /\ \E e \in Errors \cup {"bad"} :
       /\ \/ main \in {"seq", "catchup"} /\ WriteError(e)
          \/ main = "gotSeq" /\ gotSeq = e
       /\ WriterEnds(e)
  /\ left' = 0
  /\ UNCHANGED <<positions, reader, gotSeq, rerr, res, context, clock, seen, server, up, down>>

(* Faulty: the reader's error counts only where its close hit the writer. *)
readerErrWinsIfClosed(e, re) == e = "closed"

readerErrWins(e, re) == re = "bad" \/ e = "closed"

RecoverJoins ==
  /\ main = "join" /\ reader = "done"
  /\ err' = IF rerr # "none" /\ (err = "none" \/ readerErrWins(err, rerr)) THEN rerr ELSE err
  /\ main' = IF err' = "none" THEN "stop" ELSE "failed"
  /\ UNCHANGED <<positions, recovery, res, context, closed, clock, seen, server, up, down>>
-----------------------------------------------------------------------------
(***************************************************************************)
(* The server: Serve and its recover, in upstream's order.  Any message of *)
(* it may be bad, and it or the network may end the connection.            *)
(***************************************************************************)
ServerPuts(piece) == ~broken /\ Len(down) < Buf /\ down' = Append(down, piece)
ServerTakes(piece) == ~broken /\ up # <<>> /\ Head(up) = piece /\ up' = Tail(up)

Statuses == {"new", "returning", "invalid", "mismatched", "unknown"}

ServeAdmits ==
  /\ srv = "request" /\ ServerTakes("request")
  /\ srv' = "respond"
  /\ UNCHANGED <<positions, main, recovery, err, res, context, closed, clock, seen, sleft,
                 broken, down>>

ServeResponds ==
  /\ srv = "respond"
  /\ \E status \in Statuses :
       /\ ServerPuts(status)
       /\ srv' = CASE status = "returning" -> "seq" [] status = "new" -> "done" [] OTHER -> "end"
  /\ UNCHANGED <<positions, main, recovery, err, res, context, closed, clock, seen, sleft,
                 broken, up>>

ServeStatesCount ==
  /\ srv = "seq" /\ ServerPuts("seq")
  /\ srv' = "peer"
  /\ UNCHANGED <<positions, main, recovery, err, res, context, closed, clock, seen, sleft,
                 broken, up>>

(* The position is checked, and the catchup from it is taken. *)
ServeSnapshots ==
  /\ srv = "peer" /\ ServerTakes("seq")
  /\ LET from == Int32(recvSeq)
     IN  IF from \in 0 .. sent
           THEN srv' = "catchup" /\ sleft' = sent - from + 1
           ELSE srv' = "end" /\ UNCHANGED sleft
  /\ UNCHANGED <<positions, main, recovery, err, res, context, closed, clock, seen, broken, down>>

ServeWritesCatchup ==
  /\ srv = "catchup" /\ ServerPuts(IF sleft = 1 THEN "catchup" ELSE "packet")
  /\ sleft' = sleft - 1
  /\ srv' = IF sleft = 1 THEN "theirs" ELSE "catchup"
  /\ UNCHANGED <<positions, main, recovery, err, res, context, closed, clock, seen, broken, up>>

ServeReadsCatchup ==
  /\ srv = "theirs"
  /\ \/ ServerTakes("packet") /\ UNCHANGED srv
     \/ ServerTakes("catchup") /\ srv' = "done"
  /\ UNCHANGED <<positions, main, recovery, err, res, context, closed, clock, seen, sleft,
                 broken, down>>

(* A message above the limit, or one that does not decode. *)
ServeGarbles ==
  /\ srv \in {"respond", "seq", "catchup"} /\ ServerPuts("bad")
  /\ srv' = "end" /\ sleft' = 0
  /\ UNCHANGED <<positions, main, recovery, err, res, context, closed, clock, seen, broken, up>>

ConnectionBreaks ==
  /\ ~broken /\ main \notin {"dial", "returned"}
  /\ broken' = TRUE
  /\ UNCHANGED <<positions, main, recovery, err, res, context, closed, clock, seen, srv, sleft,
                 up, down>>
-----------------------------------------------------------------------------
Main ==
  \/ Dials \/ DialFails \/ ConnectFails \/ ConnectStops \/ ConnectSucceeds
  \/ HandshakeRequests \/ HandshakeAnswered \/ HandshakeFails
  \/ RecoverStatesCount \/ RecoverOverflows \/ RecoverSnapshots \/ RecoverExceeded
  \/ RecoverWritesCatchup \/ RecoverWriteFails \/ RecoverJoins

Reader == ReaderReads \/ ReaderFails \/ ReaderCloses

Server ==
  \/ ServeAdmits \/ ServeResponds \/ ServeStatesCount \/ ServeSnapshots
  \/ ServeWritesCatchup \/ ServeReadsCatchup \/ ServeGarbles

Next ==
  \/ Main \/ Reader \/ Server \/ Tick
  \/ CtxEnds \/ AfterFuncFires \/ AfterFuncCloses \/ ConnectionBreaks

Spec == Init /\ [][Next]_vars

(***************************************************************************)
(* Fairness: the two goroutines of connect run and time passes.  The       *)
(* server owes nothing.                                                    *)
(***************************************************************************)
FairSpec == Spec /\ WF_vars(Main) /\ WF_vars(Reader) /\ WF_vars(Tick)
-----------------------------------------------------------------------------
Pieces == Statuses \cup {"request", "seq", "packet", "catchup", "bad"}
IOErrors == Errors \cup {"none", "bad"}

(* Every variable of one connect and of its Serve keeps its type. *)
TypeOK ==
  /\ {first, over, closed, broken} \subseteq BOOLEAN
  /\ {recvSeq, oldest, next, got, sent, left, sleft} \subseteq Nat
  /\ main \in {"dial", "request", "response", "seq", "gotSeq", "catchup", "join", "stop",
               "deadline", "failed", "returned"}
  /\ reader \in {"off", "seq", "theirs", "close", "done"}
  /\ gotSeq \in IOErrors \cup {"ok"} /\ rerr \in IOErrors
  /\ err \in IOErrors \cup (Fatal \ {"integrity"}) \cup {"cause"}
  /\ res \in Fatal \cup {"none", "ok", "cause", "retry"} /\ seen \in Fatal \cup {"none"}
  /\ after \in {"off", "armed", "fired", "stopped"}
  /\ {readBy, writeBy, quiet} \subseteq 0 .. Timeout
  /\ srv \in {"request", "respond", "seq", "peer", "catchup", "theirs", "done", "end"}
  /\ up \in Seq(Pieces) /\ down \in Seq(Pieces) /\ Len(up) <= Buf /\ Len(down) <= Buf

(* None of the three can move but by what another of them does. *)
ReaderWaits == reader # "close" /\ ~(ReaderTurn /\ down # <<>>)
WriterWaits ==
  \/ main = "gotSeq" /\ gotSeq = "none"
  \/ main \in {"seq", "catchup"} /\ Len(up) = Buf
  \/ main = "join" /\ reader # "done"
ServerWaits ==
  \/ srv \in {"peer", "theirs"} /\ up = <<>>
  \/ srv \in {"seq", "catchup"} /\ Len(down) = Buf

(***************************************************************************)
(* Both sides write before they read, yet they never all wait for one      *)
(* another, however little the connection buffers: recover's comment.      *)
(***************************************************************************)
NoMutualWait ==
  ~closed /\ ~broken => ~(ReaderWaits /\ WriterWaits /\ ServerWaits)

(***************************************************************************)
(* The handshake times out only when neither direction moved for the whole *)
(* of the timeout: a Write stuck behind the peer's catchup does not while  *)
(* that is still arriving.                                                 *)
(***************************************************************************)
TimeoutMeansIdle ==
  [][("timeout" \in {err', rerr'} /\ "timeout" \notin {err, rerr}) => quiet = Timeout]_vars

(***************************************************************************)
(* connect's promise: a definitive answer that was read is what connect    *)
(* returns, whatever ctx, the other half of recover and the connection do  *)
(* meanwhile; nothing else ends the session but a position or a count that *)
(* cannot be resumed from; and a cancelled ctx is reported as its cause.   *)
(***************************************************************************)
DefinitiveAnswerStands ==
  main = "returned" =>
    /\ seen # "none" => res = seen
    /\ res \in Fatal \ {"exceeded"} => seen = res
    /\ res = "exceeded" => TooManyReceived \/ ~Replayable
    /\ res = "cause" => over

(***************************************************************************)
(* A connection that connect returns is open and stays so, and the two     *)
(* sides have resumed from their true positions, although a message has    *)
(* only 32 bits for them.                                                  *)
(***************************************************************************)
SuccessIsSound ==
  res = "ok" =>
    /\ ~closed /\ after = "stopped"
    /\ reader # "off" => Int32(got) = got /\ Int32(recvSeq) = recvSeq

(* connect returns, even when the server never says a word. *)
ConnectReturns == <>(main = "returned")
=============================================================================
