----------------------------- MODULE EternalTCP -----------------------------
(***************************************************************************)
(* A client Conn (internal/etcp) and a server (etservertest/server.go)     *)
(* over TCP links that fail at any moment.  Each direction numbers its     *)
(* packets; a packet is its number, and its seal opens only as the next    *)
(* one expected, because both sides derive the nonce from their own count  *)
(* (internal/seal).                                                        *)
(*                                                                         *)
(* A link is two FIFO queues.  A side that fails or closes stops reading   *)
(* and its peer's writes are lost from then on; what it wrote before may   *)
(* still be read, in order, up to any point: that is what TCP leaves of a  *)
(* broken connection.  A server may go on reading a link the client gave   *)
(* up, until a newer one takes over.                                       *)
(*                                                                         *)
(* The client's callers, goroutine wakeups and byte limits are in module   *)
(* Outbound.  Here every packet has size 1 and one action is one message   *)
(* handled, with the critical section that goes with it.                   *)
(***************************************************************************)
EXTENDS Ring

CONSTANTS
  InboxSize,  \* capacity of Conn.inbox
  MaxLinks,   \* model bound: TCP connections ever dialed
  MaxUp,      \* model bound: packets the client seals
  MaxDown     \* model bound: packets the server seals

ASSUME BoundAssumption ==
  InboxSize \in Nat \ {0} /\ MaxLinks \in Nat /\ MaxUp \in Nat /\ MaxDown \in Nat

Links == 1 .. MaxLinks

VARIABLES
  \* the client
  ring, flushed,  \* as in module Outbound
  put,            \* the next packet the link writer puts on the link
  recvSeq,        \* Conn.recvSeq: packets opened so far
  todo,           \* the peer's catchup entries not yet delivered
  hand,           \* the packet in handOver, as a sequence of at most one
  pending,        \* Conn.pending
  inbox,          \* Conn.inbox
  read,           \* the packets ReadPacket has returned
  sup,            \* where Dial, then the supervisor, is
  first,          \* the session is not established yet
  snap, peer,     \* recover's snap and the position the server stated, or 0
  status,         \* "open", or the cause Conn.ctx ended with
  link,           \* the client's open link, 0 for none
  dialed,         \* links dialed so far
  \* the server
  sent,           \* packets in Server.sent
  accepted,       \* Server.recvSeq, as the sequence of packets accepted
  known, registered,
  cur,            \* Server.cur, 0 for none
  serve,          \* where the Serve of each link is
  sflushed,       \* each link's writeLoop position
  garbled,        \* accept failed to open a packet
  \* the links
  up, down        \* client to server, server to client

client == <<ring, flushed, put, recvSeq, todo, hand, pending, inbox, read, sup, first,
            snap, peer, status, link, dialed>>
inbound == <<recvSeq, todo, hand, pending, inbox, read>>
outbound == <<ring, flushed, put>>
session == <<sup, first, snap, peer, status, link, dialed>>
server == <<sent, accepted, known, registered, cur, serve, sflushed, garbled>>
wires == <<up, down>>
vars == <<client, server, wires>>

next == NextSeq(ring)
Unsent == next - flushed
Numbers(a, b) == [i \in 1 .. (b - a) |-> a + i - 1]  \* the packets [a, b)

(* Messages.  A catchup carries the packets [a, b). *)
Msg(t, a, b) == [type |-> t, a |-> a, b |-> b]
HasMsg(q, t) == q # <<>> /\ Head(q).type = t

(* What a side writes is lost when the other has closed the link. *)
ToServer(l, m) == IF serve[l] = "done" THEN up ELSE [up EXCEPT ![l] = Append(@, m)]
ToClient(l, m) == IF link = l THEN [down EXCEPT ![l] = Append(@, m)] ELSE down

Init ==
  /\ ring = EmptyRing /\ flushed = 0 /\ put = 0
  /\ recvSeq = 0 /\ todo = <<>> /\ hand = <<>> /\ pending = <<>> /\ inbox = <<>>
  /\ read = <<>>
  /\ sup = "dial" /\ first = TRUE /\ snap = 0 /\ peer = 0 /\ status = "open" /\ link = 0
  /\ dialed = 0
  /\ sent = 0 /\ accepted = <<>> /\ known = FALSE /\ registered = TRUE /\ cur = 0
  /\ serve = [l \in Links |-> "request"] /\ sflushed = [l \in Links |-> 0]
  /\ garbled = FALSE
  /\ up = [l \in Links |-> <<>>] /\ down = [l \in Links |-> <<>>]
-----------------------------------------------------------------------------
(***************************************************************************)
(* The client connects: connect, handshake, recover.                       *)
(***************************************************************************)
Open == status = "open"

Dial ==
  /\ sup = "dial" /\ Open /\ dialed < MaxLinks
  /\ dialed' = dialed + 1 /\ link' = dialed'
  /\ up' = ToServer(link', Msg("request", 0, 0))
  /\ sup' = "response"
  /\ UNCHANGED <<outbound, inbound, first, snap, peer, status, down, server>>

(* The client is done with its link: nothing more is read from it. *)
Drop == link' = 0 /\ down' = [down EXCEPT ![link] = <<>>]

(* connect ends with an error isFatal accepts. *)
Fatal(cause) ==
  /\ status' = IF Open THEN cause ELSE status
  /\ sup' = "done" /\ Drop /\ snap' = 0 /\ peer' = 0
  /\ UNCHANGED <<outbound, inbound, first, dialed, up, server>>

Rest(l) == [down EXCEPT ![l] = Tail(@)]

HandshakeNew ==
  /\ sup = "response" /\ HasMsg(down[link], "new") /\ first
  /\ down' = Rest(link)
  /\ sup' = "link" /\ first' = FALSE
  /\ UNCHANGED <<outbound, inbound, snap, peer, status, link, dialed, up, server>>

HandshakeReturning ==
  /\ sup = "response" /\ HasMsg(down[link], "returning")
  /\ down' = Rest(link)
  /\ up' = ToServer(link, Msg("seq", recvSeq, 0))
  /\ sup' = "seq"
  /\ UNCHANGED <<outbound, inbound, first, snap, peer, status, link, dialed, server>>

(* NEW_CLIENT or INVALID_KEY where it ends the session. *)
HandshakeRejected ==
  /\ sup = "response"
  /\ \/ HasMsg(down[link], "new") /\ ~first /\ Fatal("rejected")
     \/ HasMsg(down[link], "invalid") /\ Fatal(IF first THEN "rejected" ELSE "ended")

(* writeRecover: the peer's position arrives, our catchup goes out. *)
RecoverSends ==
  /\ sup = "seq" /\ HasMsg(down[link], "seq")
  /\ Since(ring, Head(down[link]).a, next)
  /\ peer' = Head(down[link]).a /\ snap' = next
  /\ up' = ToServer(link, Msg("catchup", peer', snap'))
  /\ down' = Rest(link)
  /\ sup' = "catchup"
  /\ UNCHANGED <<outbound, inbound, first, status, link, dialed, server>>

RecoverExceeded ==
  /\ sup = "seq" /\ HasMsg(down[link], "seq")
  /\ ~Since(ring, Head(down[link]).a, next)
  /\ Fatal("exceeded")

RecoverCommitsAt(n, start) ==
  /\ sup = "catchup" /\ HasMsg(down[link], "catchup")
  /\ todo' = Numbers(Head(down[link]).a, Head(down[link]).b)
  /\ flushed' = n /\ put' = start
  /\ ring' = Trim([ring EXCEPT !.held = TRUE, !.hold = peer], n, next - n)
  /\ down' = Rest(link)
  /\ sup' = "link" /\ first' = FALSE /\ snap' = 0 /\ peer' = 0
  /\ UNCHANGED <<recvSeq, hand, pending, inbox, read, status, link, dialed, up, server>>

(* Faulty: ring.next() is read again instead of using the snapshot. *)
RecoverCommitsReread == RecoverCommitsAt(next, next)

(* Faulty: the new link starts where the old one stopped. *)
RecoverCommitsResend == RecoverCommitsAt(snap, flushed)

(* recover's commit; the new link starts with the peer's catchup. *)
RecoverCommits == RecoverCommitsAt(snap, snap)

(***************************************************************************)
(* An I/O error or a timeout before the link is up.  A first Dial returns  *)
(* it; a caller that dials again starts from the same empty state.         *)
(***************************************************************************)
ConnectFails ==
  /\ sup \in {"response", "seq", "catchup"}
  /\ Drop /\ sup' = (IF Open THEN "dial" ELSE "done") /\ snap' = 0 /\ peer' = 0
  /\ UNCHANGED <<outbound, inbound, first, status, dialed, up, server>>

RedialStops ==
  /\ sup = "dial" /\ ~Open
  /\ sup' = "done"
  /\ UNCHANGED <<outbound, inbound, first, snap, peer, status, link, dialed, wires, server>>
-----------------------------------------------------------------------------
(***************************************************************************)
(* The client's link: writeLoop puts the frames of a batch on the socket   *)
(* and then commits it; readLoop hands over what an earlier link left, the *)
(* peer's catchup, then frames.                                            *)
(***************************************************************************)
LinkPuts ==
  /\ sup = "link" /\ put < next
  /\ up' = ToServer(link, Msg("frame", put, 0))
  /\ put' = put + 1
  /\ UNCHANGED <<ring, flushed, inbound, session, down, server>>

LinkCommits ==
  /\ sup = "link" /\ flushed < put
  /\ flushed' = put
  /\ ring' = Trim(ring, put, next - put)
  /\ UNCHANGED <<put, inbound, session, wires, server>>

(***************************************************************************)
(* deliver: a packet that opens is counted at once and then handed over;   *)
(* one that does not ends the Conn.                                        *)
(***************************************************************************)
Deliver(k) ==
  /\ recvSeq' = IF k = recvSeq THEN recvSeq + 1 ELSE recvSeq
  /\ hand' = IF k = recvSeq THEN <<k>> ELSE <<>>
  /\ status' = IF k # recvSeq /\ Open THEN "integrity" ELSE status

ReaderIdle == sup = "link" /\ pending = <<>> /\ hand = <<>>

ReadCatchup ==
  /\ ReaderIdle /\ todo # <<>>
  /\ Deliver(Head(todo)) /\ todo' = Tail(todo)
  /\ UNCHANGED <<outbound, pending, inbox, read, sup, first, snap, peer, link, dialed,
                 wires, server>>

(* releaseHold on the first frame of a link. *)
ReadFrame ==
  /\ ReaderIdle /\ todo = <<>> /\ HasMsg(down[link], "frame")
  /\ Deliver(Head(down[link]).a) /\ down' = Rest(link)
  /\ ring' = IF ring.held THEN Trim([ring EXCEPT !.held = FALSE], flushed, next - flushed)
             ELSE ring
  /\ UNCHANGED <<flushed, put, todo, pending, inbox, read, sup, first, snap, peer, link,
                 dialed, up, server>>

InboxRoom == Len(inbox) < InboxSize

HandOver ==
  /\ sup = "link" /\ pending = <<>> /\ hand # <<>> /\ InboxRoom
  /\ inbox' = inbox \o hand /\ hand' = <<>>
  /\ UNCHANGED <<outbound, recvSeq, todo, pending, read, session, wires, server>>

(* Faulty: the packet handed over stays in pending. *)
HandOverPendingTwice ==
  /\ sup = "link" /\ pending # <<>> /\ InboxRoom
  /\ inbox' = Append(inbox, Head(pending))
  /\ UNCHANGED <<outbound, recvSeq, todo, hand, pending, read, session, wires, server>>

HandOverPending ==
  /\ sup = "link" /\ pending # <<>> /\ InboxRoom
  /\ inbox' = Append(inbox, Head(pending)) /\ pending' = Tail(pending)
  /\ UNCHANGED <<outbound, recvSeq, todo, hand, read, session, wires, server>>

(* Faulty: the packet in handOver is dropped with the link. *)
LinkFailsDropping ==
  /\ sup = "link"
  /\ Drop /\ sup' = IF Open THEN "dial" ELSE "done"
  /\ hand' = <<>> /\ todo' = <<>>
  /\ UNCHANGED <<outbound, recvSeq, pending, inbox, read, first, snap, peer, status,
                 dialed, up, server>>

(* A packet in handOver is kept; an undelivered catchup will be resent. *)
LinkFails ==
  /\ sup = "link"
  /\ Drop /\ sup' = IF Open THEN "dial" ELSE "done"
  /\ pending' = pending \o hand /\ hand' = <<>> /\ todo' = <<>>
  /\ UNCHANGED <<outbound, recvSeq, inbox, read, first, snap, peer, status, dialed, up,
                 server>>
-----------------------------------------------------------------------------
(***************************************************************************)
(* The client's callers.                                                   *)
(***************************************************************************)
(* Faulty: the packet is queued again. *)
WritePacketTwice ==
  /\ Open /\ ~first /\ Unsent <= Limit /\ next < MaxUp
  /\ ring' = Push(Push(ring, 1), 1)
  /\ UNCHANGED <<flushed, put, inbound, session, wires, server>>

WritePacket ==
  /\ Open /\ ~first /\ Unsent <= Limit /\ next < MaxUp
  /\ ring' = Push(ring, 1)
  /\ UNCHANGED <<flushed, put, inbound, session, wires, server>>

ReadPacket ==
  /\ inbox # <<>>
  /\ read' = Append(read, Head(inbox)) /\ inbox' = Tail(inbox)
  /\ UNCHANGED <<outbound, recvSeq, todo, hand, pending, session, wires, server>>

(* Faulty: pending is returned only after Close. *)
ReadTailClosed ==
  /\ sup = "done" /\ status = "closed" /\ inbox = <<>> /\ pending # <<>>
  /\ read' = Append(read, Head(pending)) /\ pending' = Tail(pending)
  /\ UNCHANGED <<outbound, recvSeq, todo, hand, inbox, session, wires, server>>

(* Once every reader has exited, ReadPacket goes on to pending. *)
ReadTail ==
  /\ sup = "done" /\ ~first /\ inbox = <<>> /\ pending # <<>>
  /\ read' = Append(read, Head(pending)) /\ pending' = Tail(pending)
  /\ UNCHANGED <<outbound, recvSeq, todo, hand, inbox, session, wires, server>>

Close ==
  /\ Open /\ ~first
  /\ status' = "closed"
  /\ UNCHANGED <<outbound, inbound, sup, first, snap, peer, link, dialed, wires, server>>
-----------------------------------------------------------------------------
(***************************************************************************)
(* The server: Serve of each link, and its callers.                        *)
(***************************************************************************)
UpRest(l) == [up EXCEPT ![l] = Tail(@)]

(* Where the server's Serve of link l is. *)
Serve(l, at) == serve' = [serve EXCEPT ![l] = at]

(* admit, and the ConnectResponse. *)
Admit(l) ==
  /\ serve[l] = "request" /\ HasMsg(up[l], "request")
  /\ LET answer == IF ~registered THEN "invalid" ELSE IF known THEN "returning" ELSE "new"
     IN  /\ known' = (known \/ answer = "new")
         /\ down' = ToClient(l, Msg(answer, 0, 0))
         /\ Serve(l, IF answer = "invalid" THEN "done" ELSE answer)
  /\ up' = UpRest(l)
  /\ UNCHANGED <<client, sent, accepted, registered, cur, sflushed, garbled>>

(***************************************************************************)
(* takeOver ends the previous Serve; then recover states our count.  Links *)
(* take over in the order they get there, so a late one may end the link   *)
(* that is in use.  Serve's comment leaves one case to its callers, who    *)
(* let a first link settle before the next connects: a link answered with  *)
(* NEW_CLIENT takes over before any that returns.                          *)
(***************************************************************************)
TakeOver(l) ==
  /\ serve[l] \in {"new", "returning"}
  /\ \A k \in Links : serve[k] = "new" => k = l
  /\ cur' = l
  /\ serve' = [k \in Links |-> IF k = l THEN IF serve[l] = "new" THEN "stream" ELSE "seq"
                               ELSE IF k = cur THEN "done" ELSE serve[k]]
  /\ up' = [k \in Links |-> IF k = cur THEN <<>> ELSE up[k]]
  /\ down' = IF serve[l] = "new" THEN down ELSE ToClient(l, Msg("seq", Len(accepted), 0))
  /\ UNCHANGED <<client, sent, accepted, known, registered, sflushed, garbled>>

(* recover: the client's position arrives, our catchup goes out. *)
ServeRecover(l) ==
  /\ serve[l] = "seq" /\ HasMsg(up[l], "seq")
  /\ LET n == Head(up[l]).a
     IN  IF n <= sent
         THEN /\ down' = ToClient(l, Msg("catchup", n, sent))
              /\ sflushed' = [sflushed EXCEPT ![l] = sent]
              /\ Serve(l, "catchup") /\ UNCHANGED garbled
         ELSE /\ Serve(l, "done") /\ garbled' = TRUE /\ UNCHANGED <<down, sflushed>>
  /\ up' = UpRest(l)
  /\ UNCHANGED <<client, sent, accepted, known, registered, cur>>

(***************************************************************************)
(* accept: the packets [a, b) open if they are the next ones expected.     *)
(***************************************************************************)
Accept(l, a, b) ==
  IF a = Len(accepted) \/ a = b
  THEN accepted' = accepted \o Numbers(a, b) /\ Serve(l, "stream") /\ UNCHANGED garbled
  ELSE Serve(l, "done") /\ garbled' = TRUE /\ UNCHANGED accepted

ServeCatchup(l) ==
  /\ serve[l] = "catchup" /\ HasMsg(up[l], "catchup")
  /\ Accept(l, Head(up[l]).a, Head(up[l]).b)
  /\ up' = UpRest(l)
  /\ UNCHANGED <<client, sent, known, registered, cur, sflushed, down>>

ServeReads(l) ==
  /\ serve[l] = "stream" /\ HasMsg(up[l], "frame")
  /\ Accept(l, Head(up[l]).a, Head(up[l]).a + 1)
  /\ up' = UpRest(l)
  /\ UNCHANGED <<client, sent, known, registered, cur, sflushed, down>>

ServeWrites(l) ==
  /\ serve[l] = "stream" /\ sflushed[l] < sent
  /\ down' = ToClient(l, Msg("frame", sflushed[l], 0))
  /\ sflushed' = [sflushed EXCEPT ![l] = @ + 1]
  /\ UNCHANGED <<client, sent, accepted, known, registered, cur, serve, garbled, up>>

(* Serve returns: an I/O error, or the session ended and all is flushed. *)
ServeEnds(l) ==
  /\ Serve(l, "done")
  /\ up' = [up EXCEPT ![l] = <<>>]
  /\ UNCHANGED <<client, sent, accepted, known, registered, cur, sflushed, garbled, down>>

ServeFails(l) == l <= dialed /\ serve[l] # "done" /\ ServeEnds(l)

ServeFlushed(l) ==
  serve[l] = "stream" /\ sflushed[l] = sent /\ ~registered /\ ServeEnds(l)

ServerSend ==
  /\ sent < MaxDown
  /\ sent' = sent + 1
  /\ UNCHANGED <<client, accepted, known, registered, cur, serve, sflushed, garbled, wires>>

EndSession ==
  /\ registered
  /\ registered' = FALSE
  /\ UNCHANGED <<client, sent, accepted, known, cur, serve, sflushed, garbled, wires>>
-----------------------------------------------------------------------------
ClientConnects ==
  \/ Dial \/ HandshakeNew \/ HandshakeReturning \/ HandshakeRejected
  \/ RecoverSends \/ RecoverExceeded \/ RecoverCommits \/ RedialStops

LinkWriter == LinkPuts \/ LinkCommits

LinkReader == ReadCatchup \/ ReadFrame \/ HandOver \/ HandOverPending

ServeStep(l) ==
  \/ Admit(l) \/ TakeOver(l) \/ ServeRecover(l) \/ ServeCatchup(l)
  \/ ServeReads(l) \/ ServeWrites(l) \/ ServeFlushed(l)

Next ==
  \/ ClientConnects \/ LinkWriter \/ LinkReader \/ ConnectFails \/ LinkFails
  \/ WritePacket \/ ReadPacket \/ ReadTail \/ Close
  \/ \E l \in Links : ServeStep(l) \/ ServeFails(l)
  \/ ServerSend \/ EndSession

Spec == Init /\ [][Next]_vars

(***************************************************************************)
(* Fairness.  The goroutines of both programs run, the application reads,  *)
(* and a side learns that its peer closed the link once it has read all it *)
(* was sent.  Links may fail at any time, but MaxLinks bounds how often,   *)
(* so that no assumption on the network is needed: a behaviour in which    *)
(* every link has been used up is excused by Exhausted.                    *)
(***************************************************************************)
LinkOver == ~Open \/ (serve[link] = "done" /\ down[link] = <<>>)

Fairness ==
  /\ WF_vars(ClientConnects) /\ WF_vars(LinkPuts) /\ WF_vars(LinkCommits)
  /\ WF_vars(LinkReader) /\ WF_vars(ReadPacket) /\ WF_vars(ReadTail)
  /\ WF_vars(link # 0 /\ LinkOver /\ (LinkFails \/ ConnectFails))
  /\ \A l \in Links : WF_vars(ServeStep(l))

FairSpec == Spec /\ Fairness

Exhausted == dialed = MaxLinks /\ sup = "dial"
-----------------------------------------------------------------------------
Packets == Seq(Nat)

(* Every variable of both ends and of the links keeps its type. *)
TypeOK ==
  /\ ring \in Rings /\ flushed \in 0 .. next /\ put \in 0 .. next
  /\ recvSeq \in Nat
  /\ {todo, hand, pending, inbox, read, accepted} \subseteq Packets
  /\ Len(hand) <= 1 /\ Len(inbox) <= InboxSize
  /\ sup \in {"dial", "response", "seq", "catchup", "link", "done"}
  /\ first \in BOOLEAN /\ snap \in Nat /\ peer \in Nat
  /\ status \in {"open", "closed", "rejected", "ended", "exceeded", "integrity"}
  /\ link \in Links \cup {0} /\ cur \in Links \cup {0} /\ dialed \in Nat
  /\ sent \in Nat /\ known \in BOOLEAN /\ registered \in BOOLEAN
  /\ serve \in [Links -> {"request", "new", "returning", "seq", "catchup", "stream", "done"}]
  /\ sflushed \in [Links -> 0 .. sent] /\ garbled \in BOOLEAN

(***************************************************************************)
(* Every packet the client counts in recvSeq, which the server will never  *)
(* resend, is still on its way to ReadPacket or was returned by it: once,  *)
(* and in order, however often links die in the middle of a hand over.     *)
(***************************************************************************)
NothingCountedIsLost == read \o inbox \o pending \o hand = Numbers(0, recvSeq)

(***************************************************************************)
(* Neither side ever meets a packet it cannot open, or a position outside  *)
(* what it sent: with no tampering, integrity errors do not happen, and a  *)
(* returning client is never mistaken for a new one.                       *)
(***************************************************************************)
NoIntegrityFailure ==
  /\ ~garbled /\ status # "integrity"
  /\ status = "rejected" => first

(***************************************************************************)
(* Both directions implement the abstract stream: Upstream from            *)
(* WritePacket to the server, Downstream from the server to ReadPacket.    *)
(***************************************************************************)
Upstream == INSTANCE Stream WITH sent <- next, received <- accepted
Downstream == INSTANCE Stream WITH received <- read

(***************************************************************************)
(* What WritePacket queued reaches the server exactly once and in order,   *)
(* although a recovery sends again what an earlier link already carried.   *)
(***************************************************************************)
UpstreamReliable == Upstream!Spec

(***************************************************************************)
(* ReadPacket returns what the server sent exactly once and in order,      *)
(* whether it came over a link or in the catchup of a recovery.            *)
(***************************************************************************)
DownstreamReliable == Downstream!Spec

(***************************************************************************)
(* Every packet either side queues reaches the other's application, unless *)
(* the Conn ends.                                                          *)
(***************************************************************************)
EverythingArrives ==
  /\ \A k \in 1 .. MaxUp : (next >= k) ~> (Len(accepted) >= k \/ ~Open \/ Exhausted)
  /\ \A k \in 1 .. MaxDown :
       (sent >= k) ~> (Len(read) >= k \/ ~Open \/ Exhausted)

(***************************************************************************)
(* ReadPacket's promise for the end of a session: what arrived before the  *)
(* Conn failed is still returned, with a packet a dead link was holding.   *)
(***************************************************************************)
TailIsRead ==
  \A k \in 1 .. MaxDown : (recvSeq >= k) ~> (Len(read) >= k \/ Exhausted)
=============================================================================
