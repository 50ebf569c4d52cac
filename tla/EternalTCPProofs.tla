-------------------------- MODULE EternalTCPProofs --------------------------
(***************************************************************************)
(* Proofs about EternalTCP, for any limits, any number of links and any    *)
(* number of packets: the bounds of the model play no part in them.        *)
(***************************************************************************)
EXTENDS EternalTCP, SequenceTheorems, WellFoundedInduction, TLAPS

Types == {"request", "new", "returning", "invalid", "seq", "catchup", "frame"}
Places == {"request", "new", "returning", "seq", "catchup", "stream", "done"}
Phases == {"dial", "response", "seq", "catchup", "link", "done"}
Messages == [type : Types, a : Nat, b : Nat]

(* From its i-th message on, q carries the packets n, n + 1, ... *)
Frames(q, i, n) == \A j \in i .. Len(q) : q[j].type = "frame" /\ q[j].a = n + j - i

(* Serve counts what a link in one of these places brings. *)
Live == {"seq", "catchup", "stream"}
-----------------------------------------------------------------------------
(***************************************************************************)
(* The inductive invariant.  A message in flight was right when it was     *)
(* sent; what has to be shown is that it is still right when it is read.   *)
(* The invariant therefore says what each queue may hold, given where the  *)
(* two ends of the link are: acc, nx and st are the packets the server     *)
(* accepted, the client sealed and the server sealed.                      *)
(***************************************************************************)
(* What a link's Serve may still read. *)
UpShape(at, q, acc, nx, st) ==
  /\ at = "request" => Len(q) <= 1 /\ (q # <<>> => q[1].type = "request")
  /\ at = "new" => Frames(q, 1, 0) /\ Len(q) <= nx
  /\ at = "returning" => Len(q) <= 1
  /\ at \in {"returning", "seq"} /\ q # <<>> => q[1].type = "seq" /\ q[1].a <= st
  /\ at = "seq" => Len(q) <= 2
  /\ at = "seq" /\ Len(q) = 2 =>
       q[2].type = "catchup" /\ q[2].a = acc /\ acc <= q[2].b /\ q[2].b <= nx
  /\ at = "catchup" /\ q # <<>> =>
       /\ q[1].type = "catchup" /\ q[1].a = acc /\ acc <= q[1].b
       /\ q[1].b + Len(q) - 1 <= nx /\ Frames(q, 2, q[1].b)
  /\ at = "stream" => Frames(q, 1, acc) /\ acc + Len(q) <= nx
  /\ at = "done" => q = <<>>

(* The answer to a request, with what may follow it. *)
NewFlow(d, fi, st) == d[1].type = "new" /\ fi /\ Frames(d, 2, 0) /\ Len(d) - 1 <= st

ReturningFlow(d) ==
  d[1].type = "returning" /\ Len(d) <= 2 /\ (Len(d) = 2 => d[2].type = "seq")

(* The server's catchup at i, for a client that has opened rs packets. *)
CatchupFlow(d, i, rs, st) ==
  /\ d[i].type = "catchup" /\ d[i].a = rs /\ rs <= d[i].b
  /\ Frames(d, i + 1, d[i].b) /\ d[i].b + Len(d) - i <= st

(* The client waits for the ConnectResponse: q is up, d is down, f sflushed. *)
Responding(at, q, d, f, acc, fi, st) ==
  /\ at \in {"request", "new", "returning", "seq", "stream", "done"}
  /\ at # "request" => q = <<>>
  /\ at = "stream" => acc = 0 /\ d # <<>> /\ d[1].type = "new" /\ Len(d) - 1 = f
  /\ d # <<>> => \/ Len(d) = 1 /\ d[1].type = "invalid"
                 \/ NewFlow(d, fi, st) \/ ReturningFlow(d)
  /\ at = "request" => d = <<>>
  /\ at = "new" => Len(d) = 1 /\ d[1].type = "new"
  /\ at = "returning" => Len(d) = 1 /\ d[1].type = "returning"
  /\ at = "seq" => Len(d) = 2 /\ d[1].type = "returning" /\ d[2].a = acc

(* The client has stated its position rs and waits for the server's. *)
Stating(at, q, d, f, acc, rs, st) ==
  /\ at \in {"returning", "seq", "catchup", "done"}
  /\ at \in {"returning", "seq"} => Len(q) = 1 /\ q[1].a = rs
  /\ at = "catchup" => q = <<>>
  /\ d # <<>> => d[1].type = "seq" /\ Len(d) <= 2
  /\ Len(d) = 2 => CatchupFlow(d, 2, rs, st)
  /\ at = "returning" => d = <<>>
  /\ at = "seq" => Len(d) = 1 /\ d[1].a = acc
  /\ at = "catchup" => Len(d) = 2 /\ d[1].a = acc /\ d[2].b = f

(* The client has sent its catchup, up to sn, and waits for the server's. *)
Catching(at, q, d, f, acc, rs, sn, st) ==
  /\ at \in {"seq", "catchup", "stream", "done"}
  /\ at = "seq" => Len(q) = 2 /\ q[1].a = rs /\ q[2].b = sn
  /\ at = "catchup" => Len(q) = 1 /\ q[1].b = sn
  /\ at = "stream" => q = <<>> /\ acc = sn
  /\ d # <<>> => CatchupFlow(d, 1, rs, st)
  /\ at = "seq" => d = <<>>
  /\ at = "catchup" => Len(d) = 1 /\ d[1].b = f
  /\ at = "stream" => d # <<>> /\ d[1].b + Len(d) - 1 = f

(* The link is up: pt is put, and got counts the packets up to todo's end. *)
Linked(at, q, d, f, acc, got, pt, st) ==
  /\ at \in {"new", "catchup", "stream", "done"}
  /\ at = "new" => Len(q) = pt
  /\ at = "catchup" => q # <<>> /\ q[1].b + Len(q) - 1 = pt
  /\ at = "stream" => acc + Len(q) = pt
  /\ Frames(d, 1, got) /\ got + Len(d) <= st
  /\ at \in {"new", "catchup"} => d = <<>>
  /\ at \in {"new", "catchup", "stream"} => got + Len(d) = f

(* Where the client is, s, decides which of these the link satisfies. *)
Talk(s, at, q, d, f, acc, fi, rs, sn, got, pt, st) ==
  /\ s = "response" => Responding(at, q, d, f, acc, fi, st)
  /\ s = "seq" => Stating(at, q, d, f, acc, rs, st)
  /\ s = "catchup" => Catching(at, q, d, f, acc, rs, sn, st)
  /\ s = "link" => Linked(at, q, d, f, acc, got, pt, st)

(* The ring never has a gap, and its trimmed part was flushed. *)
RingOK(r, n) ==
  /\ r \in Rings /\ Len(r.off) >= 1
  /\ n \in Nat /\ r.first <= n /\ n <= NextSeq(r)
  /\ \A s \in 0 .. NextSeq(r) : Off(r, s) = s

SnapOK == sup = "catchup" => ring.first <= snap /\ snap <= next

(* Before the session is established nothing has been counted. *)
FirstOK ==
  first => /\ next = 0 /\ put = 0 /\ recvSeq = 0
           /\ todo = <<>> /\ hand = <<>> /\ pending = <<>> /\ inbox = <<>> /\ read = <<>>

(* Only the link that took over last is counted. *)
CurOK ==
  /\ \A k \in Links : serve[k] \in Live => k = cur
  /\ cur # 0 => serve[cur] \in Live \cup {"done"}
  /\ cur = 0 => accepted = <<>>

(* NEW_CLIENT is answered once, before any link takes over. *)
NewOK ==
  \A k \in Links : serve[k] = "new" =>
    cur = 0 /\ known /\ \A j \in Links : serve[j] = "new" => j = k

KnownOK ==
  ~known => /\ first /\ cur = 0 /\ sup \in {"dial", "response", "done"}
            /\ \A k \in Links : /\ serve[k] \in {"request", "done"}
                                /\ down[k] # <<>> => down[k][1].type = "invalid"

(* A link's writer starts at 0 until its catchup says otherwise. *)
UnusedOK ==
  \A k \in Links : serve[k] \in {"request", "new", "returning", "seq"} => sflushed[k] = 0

(* The client listens to one link; the links not dialed are untouched. *)
DialOK ==
  /\ dialed <= MaxLinks /\ link <= dialed
  /\ link = 0 <=> sup \in {"dial", "done"}
  /\ \A k \in Links : k > dialed => serve[k] = "request" /\ up[k] = <<>>
  /\ \A k \in Links : k # link => down[k] = <<>>

WiresOK == up \in [Links -> Seq(Messages)] /\ down \in [Links -> Seq(Messages)]

UpOK == \A k \in Links : UpShape(serve[k], up[k], Len(accepted), next, sent)

TalkOK ==
  Talk(sup, serve[link], up[link], down[link], sflushed[link], Len(accepted), first,
       recvSeq, snap, recvSeq + Len(todo), put, sent)

ReaderOK ==
  /\ recvSeq <= sent
  /\ sup = "link" => ~first /\ \A i \in 1 .. Len(todo) : todo[i] = recvSeq + i - 1
  /\ sup # "link" => todo = <<>> /\ hand = <<>>
  /\ status = "rejected" => sup = "done"

AcceptedOK == accepted = Numbers(0, Len(accepted)) /\ Len(accepted) <= next

Inv ==
  /\ TypeOK /\ WiresOK /\ RingOK(ring, flushed) /\ SnapOK /\ FirstOK
  /\ CurOK /\ NewOK /\ KnownOK /\ UnusedOK /\ DialOK
  /\ UpOK /\ TalkOK /\ ReaderOK /\ AcceptedOK
  /\ NothingCountedIsLost /\ NoIntegrityFailure
-----------------------------------------------------------------------------
(***************************************************************************)
(* Messages and queues.                                                    *)
(***************************************************************************)
(* A message has the fields it was made of. *)
LEMMA MsgFacts ==
  ASSUME NEW t \in Types, NEW a \in Nat, NEW b \in Nat
  PROVE  /\ Msg(t, a, b) \in Messages
         /\ Msg(t, a, b).type = t /\ Msg(t, a, b).a = a /\ Msg(t, a, b).b = b
BY DEF Msg, Messages

(* The fields of a message in a queue. *)
LEMMA FieldTypes ==
  ASSUME NEW q \in Seq(Messages), NEW i \in 1 .. Len(q)
  PROVE  q[i] \in Messages /\ q[i].type \in Types /\ q[i].a \in Nat /\ q[i].b \in Nat
<1>1. q[i] \in Messages
  OBVIOUS
<1> QED
  BY <1>1 DEF Messages

(* Taking the first element of a queue. *)
LEMMA Taken ==
  ASSUME NEW S, NEW q \in Seq(S), q # <<>>
  PROVE  /\ Len(q) \in Nat /\ Len(q) >= 1 /\ Head(q) = q[1] /\ Head(q) \in S
         /\ Tail(q) \in Seq(S) /\ Len(Tail(q)) = Len(q) - 1
         /\ \A i \in 1 .. Len(q) - 1 : Tail(q)[i] = q[i + 1]
OBVIOUS

(* Adding an element to a queue. *)
LEMMA Added ==
  ASSUME NEW S, NEW q \in Seq(S), NEW e \in S
  PROVE  /\ Append(q, e) \in Seq(S) /\ Append(q, e) # <<>>
         /\ Len(q) \in Nat /\ Len(Append(q, e)) = Len(q) + 1
         /\ \A i \in 1 .. Len(q) : Append(q, e)[i] = q[i]
         /\ Append(q, e)[Len(q) + 1] = e
OBVIOUS

(* A queue is empty when its length is 0. *)
LEMMA Emptiness ==
  ASSUME NEW S, NEW q \in Seq(S)
  PROVE  Len(q) \in Nat /\ (q = <<>> <=> Len(q) = 0)
OBVIOUS

(* A run of packets loses its first one, or the message before it. *)
LEMMA FramesTail ==
  ASSUME NEW q \in Seq(Messages), q # <<>>, NEW n \in Nat
  PROVE  /\ \A i \in Nat \ {0} : Frames(q, i + 1, n) => Frames(Tail(q), i, n)
         /\ Frames(q, 1, n) => /\ Frames(Tail(q), 1, n + 1)
                               /\ q[1].type = "frame" /\ q[1].a = n
BY Taken DEF Frames

(* A run of packets is continued. *)
LEMMA FramesAppend ==
  ASSUME NEW q \in Seq(Messages), NEW n \in Nat, NEW i \in 1 .. Len(q) + 1,
         Frames(q, i, n), NEW m \in Messages, m.type = "frame", m.a = n + Len(q) + 1 - i
  PROVE  Frames(Append(q, m), i, n)
BY Added DEF Frames

(* An empty run. *)
LEMMA NoFrames ==
  ASSUME NEW q \in Seq(Messages), NEW n \in Nat, NEW i \in Nat, i > Len(q)
  PROVE  Frames(q, i, n)
BY DEF Frames
-----------------------------------------------------------------------------
(***************************************************************************)
(* What a link may hold, when the other side's counters move on or the     *)
(* Serve of the link ends.                                                 *)
(***************************************************************************)
(* Sealing more packets, and counting those of another link, is harmless. *)
LEMMA UpShapeKept ==
  ASSUME NEW at \in Places, NEW q \in Seq(Messages), NEW acc \in Nat, NEW nx \in Nat,
         NEW st \in Nat, UpShape(at, q, acc, nx, st),
         NEW acc2 \in Nat, NEW nx2 \in Nat, NEW st2 \in Nat,
         nx <= nx2, st <= st2, acc = acc2 \/ at \notin Live
  PROVE  UpShape(at, q, acc2, nx2, st2)
<1>1. q # <<>> => Len(q) \in Nat /\ q[1].a \in Nat /\ q[1].b \in Nat
  BY FieldTypes, Emptiness
<1>2. Len(q) = 2 => q[2].a \in Nat /\ q[2].b \in Nat
  BY FieldTypes
<1>3. Len(q) \in Nat
  OBVIOUS
<1> QED
  BY <1>1, <1>2, <1>3 DEF UpShape, Live, Places

(* A Serve that ended reads nothing. *)
LEMMA UpShapeDone ==
  ASSUME NEW acc, NEW nx, NEW st
  PROVE  UpShape("done", <<>>, acc, nx, st)
BY DEF UpShape

(* A client waiting for an answer. *)
LEMMA RespondingKept ==
  ASSUME NEW at \in Places, NEW q \in Seq(Messages), NEW d \in Seq(Messages), NEW f \in Nat,
         NEW acc \in Nat, NEW fi, NEW st \in Nat,
         Responding(at, q, d, f, acc, fi, st),
         NEW acc2 \in Nat, NEW st2 \in Nat, st <= st2
  PROVE  /\ acc = acc2 \/ at \notin Live => Responding(at, q, d, f, acc2, fi, st2)
         /\ Responding("done", <<>>, d, f, acc2, fi, st2)
BY DEF Responding, NewFlow, Live, Places

(* A client waiting for the server's position. *)
LEMMA StatingKept ==
  ASSUME NEW at \in Places, NEW q \in Seq(Messages), NEW d \in Seq(Messages), NEW f \in Nat,
         NEW acc \in Nat, NEW rs \in Nat, NEW st \in Nat,
         Stating(at, q, d, f, acc, rs, st),
         NEW acc2 \in Nat, NEW st2 \in Nat, st <= st2
  PROVE  /\ acc = acc2 \/ at \notin Live => Stating(at, q, d, f, acc2, rs, st2)
         /\ Stating("done", <<>>, d, f, acc2, rs, st2)
<1>1. Len(d) = 2 => d[2].b \in Nat
  BY FieldTypes
<1> QED
  BY <1>1 DEF Stating, CatchupFlow, Live, Places

(* A client waiting for the server's catchup. *)
LEMMA CatchingKept ==
  ASSUME NEW at \in Places, NEW q \in Seq(Messages), NEW d \in Seq(Messages), NEW f \in Nat,
         NEW acc \in Nat, NEW rs \in Nat, NEW sn \in Nat, NEW st \in Nat,
         Catching(at, q, d, f, acc, rs, sn, st),
         NEW acc2 \in Nat, NEW st2 \in Nat, st <= st2
  PROVE  /\ acc = acc2 \/ at \notin Live => Catching(at, q, d, f, acc2, rs, sn, st2)
         /\ Catching("done", <<>>, d, f, acc2, rs, sn, st2)
<1>1. d # <<>> => d[1].b \in Nat /\ Len(d) \in Nat
  BY FieldTypes, Emptiness
<1> QED
  BY <1>1 DEF Catching, CatchupFlow, Live, Places

(* A client whose link is up. *)
LEMMA LinkedKept ==
  ASSUME NEW at \in Places, NEW q \in Seq(Messages), NEW d \in Seq(Messages), NEW f \in Nat,
         NEW acc \in Nat, NEW got \in Nat, NEW pt \in Nat, NEW st \in Nat,
         Linked(at, q, d, f, acc, got, pt, st),
         NEW acc2 \in Nat, NEW st2 \in Nat, st <= st2
  PROVE  /\ acc = acc2 \/ at \notin Live => Linked(at, q, d, f, acc2, got, pt, st2)
         /\ Linked("done", <<>>, d, f, acc2, got, pt, st2)
BY DEF Linked, Live, Places

(* Sealing more packets, or the end of the Serve, whatever the client does. *)
LEMMA TalkKept ==
  ASSUME NEW s \in Phases, NEW at \in Places, NEW q \in Seq(Messages),
         NEW d \in Seq(Messages), NEW f \in Nat, NEW acc \in Nat, NEW fi,
         NEW rs \in Nat, NEW sn \in Nat, NEW got \in Nat, NEW pt \in Nat, NEW st \in Nat,
         Talk(s, at, q, d, f, acc, fi, rs, sn, got, pt, st),
         NEW acc2 \in Nat, NEW st2 \in Nat, st <= st2
  PROVE  /\ acc = acc2 \/ at \notin Live =>
              Talk(s, at, q, d, f, acc2, fi, rs, sn, got, pt, st2)
         /\ Talk(s, "done", <<>>, d, f, acc2, fi, rs, sn, got, pt, st2)
<1>1. s = "response" => /\ acc = acc2 \/ at \notin Live => Responding(at, q, d, f, acc2, fi, st2)
                        /\ Responding("done", <<>>, d, f, acc2, fi, st2)
  BY RespondingKept DEF Talk
<1>2. s = "seq" => /\ acc = acc2 \/ at \notin Live => Stating(at, q, d, f, acc2, rs, st2)
                   /\ Stating("done", <<>>, d, f, acc2, rs, st2)
  BY StatingKept DEF Talk
<1>3. s = "catchup" => /\ acc = acc2 \/ at \notin Live => Catching(at, q, d, f, acc2, rs, sn, st2)
                       /\ Catching("done", <<>>, d, f, acc2, rs, sn, st2)
  BY CatchingKept DEF Talk
<1>4. s = "link" => /\ acc = acc2 \/ at \notin Live => Linked(at, q, d, f, acc2, got, pt, st2)
                    /\ Linked("done", <<>>, d, f, acc2, got, pt, st2)
  BY LinkedKept DEF Talk
<1> QED
  BY <1>1, <1>2, <1>3, <1>4 DEF Talk

(* Packets accepted from another link do not disturb this one. *)
LEMMA TalkCounted ==
  ASSUME NEW s \in Phases, NEW at \in Places, NEW q \in Seq(Messages),
         NEW d \in Seq(Messages), NEW f \in Nat, NEW acc \in Nat, NEW fi,
         NEW rs \in Nat, NEW sn \in Nat, NEW got \in Nat, NEW pt \in Nat, NEW st \in Nat,
         Talk(s, at, q, d, f, acc, fi, rs, sn, got, pt, st),
         NEW acc2 \in Nat, acc2 = acc \/ at \notin Live
  PROVE  Talk(s, at, q, d, f, acc2, fi, rs, sn, got, pt, st)
<1>1. st <= st
  OBVIOUS
<1> QED
  BY <1>1, TalkKept

(* A client goes on reading what a Serve that ended had written. *)
LEMMA TalkEnded ==
  ASSUME NEW s \in Phases, NEW at \in Places, NEW q \in Seq(Messages),
         NEW d \in Seq(Messages), NEW f \in Nat, NEW acc \in Nat, NEW fi,
         NEW rs \in Nat, NEW sn \in Nat, NEW got \in Nat, NEW pt \in Nat, NEW st \in Nat,
         Talk(s, at, q, d, f, acc, fi, rs, sn, got, pt, st),
         NEW acc2 \in Nat
  PROVE  Talk(s, "done", <<>>, d, f, acc2, fi, rs, sn, got, pt, st)
<1>1. st <= st
  OBVIOUS
<1> QED
  BY <1>1, TalkKept

(* The server seals more packets. *)
LEMMA TalkSealed ==
  ASSUME NEW s \in Phases, NEW at \in Places, NEW q \in Seq(Messages),
         NEW d \in Seq(Messages), NEW f \in Nat, NEW acc \in Nat, NEW fi,
         NEW rs \in Nat, NEW sn \in Nat, NEW got \in Nat, NEW pt \in Nat, NEW st \in Nat,
         Talk(s, at, q, d, f, acc, fi, rs, sn, got, pt, st),
         NEW st2 \in Nat, st <= st2
  PROVE  Talk(s, at, q, d, f, acc, fi, rs, sn, got, pt, st2)
BY TalkKept
-----------------------------------------------------------------------------
(***************************************************************************)
(* The server's messages: each step of Serve keeps both queues of its link *)
(* in shape.                                                               *)
(***************************************************************************)
(* The request was all there was to read. *)
LEMMA AdmitShape ==
  ASSUME NEW q \in Seq(Messages), NEW acc \in Nat, NEW nx \in Nat, NEW st \in Nat, q # <<>>,
         UpShape("request", q, acc, nx, st), NEW at \in {"new", "returning", "done"}
  PROVE  Tail(q) = <<>> /\ UpShape(at, Tail(q), acc, nx, st)
<1>1. Tail(q) = <<>>
  BY Taken, Emptiness DEF UpShape
<1>2. <<>> \in Seq(Messages) /\ Len(<<>>) = 0
  OBVIOUS
<1>3. Frames(<<>>, 1, 0)
  BY <1>2 DEF Frames
<1>4. UpShape(at, <<>>, acc, nx, st)
  BY <1>2, <1>3 DEF UpShape
<1> QED
  BY <1>1, <1>4

(* The ConnectResponse. *)
LEMMA AdmitFlow ==
  ASSUME NEW s \in Phases, NEW q \in Seq(Messages), NEW d \in Seq(Messages), NEW f \in Nat,
         NEW acc \in Nat, NEW fi, NEW rs \in Nat, NEW sn \in Nat,
         NEW got \in Nat, NEW pt \in Nat, NEW nx \in Nat, NEW st \in Nat, q # <<>>,
         NEW answer \in {"new", "returning", "invalid"}, answer = "new" => fi = TRUE,
         NEW at, at = (IF answer = "invalid" THEN "done" ELSE answer),
         UpShape("request", q, acc, nx, st),
         Talk(s, "request", q, d, f, acc, fi, rs, sn, got, pt, st)
  PROVE  Talk(s, at, Tail(q), Append(d, Msg(answer, 0, 0)), f, acc, fi, rs, sn, got, pt, st)
<1>1. Tail(q) = <<>>
  <2>1. at \in {"new", "returning", "done"}
    OBVIOUS
  <2> QED
    BY <2>1, AdmitShape
<1>3. Talk(s, at, <<>>, Append(d, Msg(answer, 0, 0)), f, acc, fi, rs, sn, got, pt, st)
  <2> DEFINE m == Msg(answer, 0, 0)
             e == Append(d, m)
  <2>1. m \in Messages /\ m.type = answer
    <3>1. answer \in Types /\ 0 \in Nat
      BY DEF Types
    <3> QED
      BY <3>1, MsgFacts
  <2>2. s \notin {"seq", "catchup", "link"}
    BY DEF Talk, Stating, Catching, Linked
  <2>3. ASSUME s = "response" PROVE Responding(at, <<>>, e, f, acc, fi, st)
    <3>1. d = <<>> /\ Len(d) = 0
      BY <2>3 DEF Talk, Responding
    <3>2. /\ e \in Seq(Messages) /\ e # <<>> /\ Len(e) = Len(d) + 1
          /\ e[Len(d) + 1] = m
      BY <2>1, Added
    <3> HIDE DEF e, m
    <3>3. e \in Seq(Messages) /\ e # <<>> /\ Len(e) = 1 /\ e[1] = m
      BY <3>1, <3>2
    <3>4. Frames(e, 2, 0)
      BY <3>3 DEF Frames
    <3>5. CASE answer = "new"
      BY <2>1, <3>3, <3>4, <3>5 DEF NewFlow, Responding
    <3>6. CASE answer # "new"
      BY <2>1, <3>3, <3>6 DEF ReturningFlow, Responding
    <3> QED
      BY <3>5, <3>6
  <2> QED
    BY <2>2, <2>3 DEF Talk
<1> QED
  BY <1>1, <1>3

(* A first link takes over. *)
LEMMA TakeOverNewFlow ==
  ASSUME NEW s \in Phases, NEW q \in Seq(Messages), NEW d \in Seq(Messages),
         NEW fi, NEW rs \in Nat, NEW sn \in Nat,
         NEW got \in Nat, NEW pt \in Nat, NEW st \in Nat,
         Talk(s, "new", q, d, 0, 0, fi, rs, sn, got, pt, st)
  PROVE  Talk(s, "stream", q, d, 0, 0, fi, rs, sn, got, pt, st)
<1>2. Responding("new", q, d, 0, 0, fi, st) => Responding("stream", q, d, 0, 0, fi, st)
  <2> SUFFICES ASSUME Responding("new", q, d, 0, 0, fi, st)
               PROVE  Responding("stream", q, d, 0, 0, fi, st)
    OBVIOUS
  <2>1. Len(d) = 1 /\ d[1].type = "new"
    BY DEF Responding
  <2>2. d # <<>>
    <3>1. Len(d) # 0
      BY <2>1
    <3>2. d = <<>> <=> Len(d) = 0
      BY Emptiness
    <3> QED
      BY <3>1, <3>2
  <2>3. Len(d) - 1 = 0
    BY <2>1
  <2> QED
    BY <2>1, <2>2, <2>3 DEF Responding
<1>3. Linked("new", q, d, 0, 0, got, pt, st) => Linked("stream", q, d, 0, 0, got, pt, st)
  BY DEF Linked
<1> QED
  BY <1>2, <1>3 DEF Talk, Stating, Catching

(* A returning link takes over, and Serve states how much it has accepted. *)
LEMMA TakeOverReturningFlow ==
  ASSUME NEW s \in Phases, NEW q \in Seq(Messages), NEW d \in Seq(Messages), NEW f \in Nat,
         NEW acc \in Nat, NEW fi, NEW rs \in Nat, NEW sn \in Nat,
         NEW got \in Nat, NEW pt \in Nat, NEW st \in Nat,
         Talk(s, "returning", q, d, f, acc, fi, rs, sn, got, pt, st)
  PROVE  Talk(s, "seq", q, Append(d, Msg("seq", acc, 0)), f, acc, fi, rs, sn, got, pt, st)
<1> DEFINE m == Msg("seq", acc, 0)
           e == Append(d, m)
<1>1. m \in Messages /\ m.type = "seq" /\ m.a = acc
  <2>1. "seq" \in Types /\ 0 \in Nat
    BY DEF Types
  <2> QED
    BY <2>1, MsgFacts
<1>2. /\ e \in Seq(Messages) /\ e # <<>> /\ Len(e) = Len(d) + 1
      /\ \A i \in 1 .. Len(d) : e[i] = d[i]
      /\ e[Len(d) + 1] = m
  BY <1>1, Added
<1> HIDE DEF e, m
<1>4. Responding("returning", q, d, f, acc, fi, st) => Responding("seq", q, e, f, acc, fi, st)
  <2> SUFFICES ASSUME Responding("returning", q, d, f, acc, fi, st)
               PROVE  Responding("seq", q, e, f, acc, fi, st)
    OBVIOUS
  <2>1. Len(d) = 1 /\ d[1].type = "returning" /\ q = <<>>
    BY DEF Responding
  <2>2. Len(e) = 2 /\ e[1].type = "returning" /\ e[2].type = "seq" /\ e[2].a = acc
    BY <1>1, <1>2, <2>1
  <2> QED
    BY <2>1, <2>2 DEF Responding, ReturningFlow
<1>5. Stating("returning", q, d, f, acc, rs, st) => Stating("seq", q, e, f, acc, rs, st)
  BY <1>1, <1>2 DEF Stating
<1> QED
  BY <1>4, <1>5 DEF Talk, Catching, Linked, e, m

(* The client's position is one the server can resume from. *)
LEMMA ServeRecoverShape ==
  ASSUME NEW q \in Seq(Messages), NEW acc \in Nat, NEW nx \in Nat, NEW st \in Nat,
         q # <<>>, UpShape("seq", q, acc, nx, st)
  PROVE  /\ Head(q).a \in Nat /\ Head(q).a <= st /\ Tail(q) \in Seq(Messages)
         /\ UpShape("catchup", Tail(q), acc, nx, st)
<1> DEFINE t == Tail(q)
<1>1. /\ Len(q) \in Nat /\ Len(q) >= 1 /\ Head(q) = q[1] /\ t \in Seq(Messages)
      /\ Len(t) = Len(q) - 1 /\ \A i \in 1 .. Len(t) : t[i] = q[i + 1]
      /\ q[1].a \in Nat
  BY Taken, FieldTypes
<1>2. Len(q) <= 2 /\ q[1].a <= st
  BY DEF UpShape
<1>3. Frames(t, 2, t[1].b) \/ t = <<>>
  <2>1. t # <<>> => Len(t) = 1 /\ t[1].b \in Nat
    BY <1>1, <1>2, FieldTypes, Emptiness
  <2> HIDE DEF t
  <2> QED
    BY <1>1, <2>1, NoFrames
<1>4. UpShape("catchup", t, acc, nx, st)
  <2>1. t # <<>> => t[1] = q[2] /\ Len(q) = 2 /\ Len(t) = 1 /\ q[2].b \in Nat
    BY <1>1, <1>2, Emptiness, FieldTypes
  <2> HIDE DEF t
  <2>2. t # <<>> => /\ t[1].type = "catchup" /\ t[1].a = acc /\ acc <= t[1].b
                    /\ t[1].b + Len(t) - 1 <= nx
    <3>1. Len(q) = 2 =>
            q[2].type = "catchup" /\ q[2].a = acc /\ acc <= q[2].b /\ q[2].b <= nx
      BY DEF UpShape
    <3>2. t # <<>> => Len(q) = 2 /\ t[1] = q[2]
      BY <2>1
    <3>3. Len(q) = 2 /\ Len(t) = 1 => q[2].b + Len(t) - 1 = q[2].b
      BY <2>1, <1>1, FieldTypes
    <3> QED
      BY <1>1, <2>1, <3>1, <3>2, <3>3
  <2> QED
    BY <1>3, <2>2 DEF UpShape
<1> QED
  BY <1>1, <1>2, <1>4 DEF t

(* Serve reads the client's position and sends its catchup. *)
LEMMA ServeRecoverFlow ==
  ASSUME NEW s \in Phases, NEW q \in Seq(Messages), NEW d \in Seq(Messages), NEW f \in Nat,
         NEW acc \in Nat, NEW fi, NEW rs \in Nat, NEW sn \in Nat,
         NEW got \in Nat, NEW pt \in Nat, NEW nx \in Nat, NEW st \in Nat,
         q # <<>>, UpShape("seq", q, acc, nx, st), rs <= st,
         Talk(s, "seq", q, d, f, acc, fi, rs, sn, got, pt, st)
  PROVE  Talk(s, "catchup", Tail(q), Append(d, Msg("catchup", Head(q).a, st)), st, acc,
              fi, rs, sn, got, pt, st)
<1> DEFINE m == Msg("catchup", Head(q).a, st)
           e == Append(d, m)
           t == Tail(q)
<1>1. /\ Len(q) \in Nat /\ Len(q) >= 1 /\ Head(q) = q[1] /\ t \in Seq(Messages)
      /\ Len(t) = Len(q) - 1 /\ \A i \in 1 .. Len(t) : t[i] = q[i + 1]
      /\ q[1].a \in Nat
  BY Taken, FieldTypes
<1>2. Len(q) <= 2 /\ q[1].a <= st
  BY DEF UpShape
<1>5. m \in Messages /\ m.type = "catchup" /\ m.a = q[1].a /\ m.b = st
  <2>1. Head(q).a \in Nat /\ "catchup" \in Types
    BY <1>1 DEF Types
  <2>2. m \in Messages /\ m.type = "catchup" /\ m.a = Head(q).a /\ m.b = st
    BY <2>1, MsgFacts
  <2> QED
    BY <1>1, <2>2
<1>6. /\ e \in Seq(Messages) /\ e # <<>> /\ Len(e) = Len(d) + 1
      /\ \A i \in 1 .. Len(d) : e[i] = d[i]
      /\ e[Len(d) + 1] = m
  BY <1>5, Added
<1> HIDE DEF e, m, t
<1>7. Frames(e, Len(e) + 1, st)
  BY <1>6, NoFrames, Emptiness
<1>8. Stating("seq", q, d, f, acc, rs, st) => Stating("catchup", t, e, st, acc, rs, st)
  <2> SUFFICES ASSUME Stating("seq", q, d, f, acc, rs, st)
               PROVE  Stating("catchup", t, e, st, acc, rs, st)
    OBVIOUS
  <2>1. Len(q) = 1 /\ q[1].a = rs /\ Len(d) = 1 /\ d[1].a = acc
    BY DEF Stating
  <2>2. d[1].type = "seq"
    BY <2>1, Emptiness DEF Stating
  <2>3. Len(t) = 0 /\ Len(e) = 2 /\ e[1] = d[1] /\ e[2] = m
    BY <1>1, <1>6, <2>1
  <2>4. t = <<>>
    BY <1>1, <2>3, Emptiness
  <2>5. CatchupFlow(e, 2, rs, st)
    BY <1>1, <1>5, <1>7, <2>1, <2>3 DEF CatchupFlow
  <2> QED
    BY <1>5, <2>1, <2>2, <2>3, <2>4, <2>5 DEF Stating
<1>9. Catching("seq", q, d, f, acc, rs, sn, st) => Catching("catchup", t, e, st, acc, rs, sn, st)
  <2> SUFFICES ASSUME Catching("seq", q, d, f, acc, rs, sn, st)
               PROVE  Catching("catchup", t, e, st, acc, rs, sn, st)
    OBVIOUS
  <2>1. Len(q) = 2 /\ q[1].a = rs /\ q[2].b = sn /\ Len(d) = 0
    BY Emptiness DEF Catching
  <2>2. Len(t) = 1 /\ t[1].b = sn /\ Len(e) = 1 /\ e[1] = m
    BY <1>1, <1>6, <2>1
  <2>3. CatchupFlow(e, 1, rs, st)
    BY <1>1, <1>5, <1>7, <2>1, <2>2 DEF CatchupFlow
  <2> QED
    BY <1>5, <2>2, <2>3 DEF Catching
<1>10. ~Responding("seq", q, d, f, acc, fi, st) /\ ~Linked("seq", q, d, f, acc, got, pt, st)
  BY DEF Responding, Linked
<1> QED
  BY <1>8, <1>9, <1>10 DEF Talk, e, m, t

(* The catchup is the next packets the server expects. *)
LEMMA ServeCatchupShape ==
  ASSUME NEW q \in Seq(Messages), NEW acc \in Nat, NEW nx \in Nat, NEW st \in Nat,
         q # <<>>, UpShape("catchup", q, acc, nx, st)
  PROVE  /\ Head(q).b \in Nat /\ Head(q).a = acc /\ acc <= Head(q).b /\ Head(q).b <= nx
         /\ Tail(q) \in Seq(Messages) /\ UpShape("stream", Tail(q), Head(q).b, nx, st)
<1> DEFINE t == Tail(q)
           n == Head(q).b
<1>1. /\ Len(q) \in Nat /\ Len(q) >= 1 /\ Head(q) = q[1] /\ t \in Seq(Messages)
      /\ Len(t) = Len(q) - 1 /\ n \in Nat /\ n = q[1].b
  BY Taken, FieldTypes
<1>2. /\ q[1].a = acc /\ acc <= n /\ n + Len(q) - 1 <= nx /\ Frames(q, 2, n)
  BY <1>1 DEF UpShape
<1>3. Frames(t, 1, n)
  BY <1>1, <1>2, FramesTail
<1> HIDE DEF t, n
<1>4. UpShape("stream", t, n, nx, st)
  BY <1>1, <1>2, <1>3 DEF UpShape
<1> QED
  BY <1>1, <1>2, <1>4 DEF t, n

(* The client has been told so, and goes on from the end of its catchup. *)
LEMMA ServeCatchupFlow ==
  ASSUME NEW s \in Phases, NEW q \in Seq(Messages), NEW d \in Seq(Messages), NEW f \in Nat,
         NEW acc \in Nat, NEW fi, NEW rs \in Nat, NEW sn \in Nat,
         NEW got \in Nat, NEW pt \in Nat, NEW st \in Nat, q # <<>>,
         Talk(s, "catchup", q, d, f, acc, fi, rs, sn, got, pt, st)
  PROVE  Talk(s, "stream", Tail(q), d, f, Head(q).b, fi, rs, sn, got, pt, st)
<1> DEFINE t == Tail(q)
           n == Head(q).b
<1>1. /\ Len(q) \in Nat /\ Len(q) >= 1 /\ Head(q) = q[1] /\ t \in Seq(Messages)
      /\ Len(t) = Len(q) - 1 /\ n \in Nat /\ n = q[1].b
  BY Taken, FieldTypes
<1> HIDE DEF t, n
<1>5. Catching("catchup", q, d, f, acc, rs, sn, st) => Catching("stream", t, d, f, n, rs, sn, st)
  <2> SUFFICES ASSUME Catching("catchup", q, d, f, acc, rs, sn, st)
               PROVE  Catching("stream", t, d, f, n, rs, sn, st)
    OBVIOUS
  <2>1. Len(q) = 1 /\ n = sn /\ Len(d) = 1 /\ d[1].b = f
    BY <1>1 DEF Catching
  <2>2. t = <<>> /\ d # <<>> /\ d[1].b + Len(d) - 1 = f
    BY <1>1, <2>1, Emptiness
  <2> QED
    BY <2>1, <2>2 DEF Catching
<1>6. Linked("catchup", q, d, f, acc, got, pt, st) => Linked("stream", t, d, f, n, got, pt, st)
  BY <1>1 DEF Linked
<1>7. ~Stating("catchup", q, d, f, acc, rs, st) /\ ~Responding("catchup", q, d, f, acc, fi, st)
  BY DEF Stating, Responding
<1> QED
  BY <1>5, <1>6, <1>7 DEF Talk, t, n

(* A frame is the next packet the server expects. *)
LEMMA ServeReadsShape ==
  ASSUME NEW q \in Seq(Messages), NEW acc \in Nat, NEW nx \in Nat, NEW st \in Nat,
         q # <<>>, UpShape("stream", q, acc, nx, st)
  PROVE  /\ Head(q).a = acc /\ acc + 1 <= nx
         /\ Tail(q) \in Seq(Messages) /\ UpShape("stream", Tail(q), acc + 1, nx, st)
<1> DEFINE t == Tail(q)
<1>1. /\ Len(q) \in Nat /\ Len(q) >= 1 /\ Head(q) = q[1] /\ t \in Seq(Messages)
      /\ Len(t) = Len(q) - 1
  BY Taken
<1>2. Frames(q, 1, acc) /\ acc + Len(q) <= nx
  BY DEF UpShape
<1>3. Frames(t, 1, acc + 1) /\ q[1].a = acc
  BY <1>2, FramesTail
<1> HIDE DEF t
<1>4. UpShape("stream", t, acc + 1, nx, st)
  BY <1>1, <1>2, <1>3 DEF UpShape
<1> QED
  BY <1>1, <1>2, <1>3, <1>4 DEF t

(* The client's writer had it on the link. *)
LEMMA ServeReadsFlow ==
  ASSUME NEW s \in Phases, NEW q \in Seq(Messages), NEW d \in Seq(Messages), NEW f \in Nat,
         NEW acc \in Nat, NEW fi, NEW rs \in Nat, NEW sn \in Nat,
         NEW got \in Nat, NEW pt \in Nat, NEW st \in Nat, q # <<>>,
         Talk(s, "stream", q, d, f, acc, fi, rs, sn, got, pt, st)
  PROVE  Talk(s, "stream", Tail(q), d, f, acc + 1, fi, rs, sn, got, pt, st)
<1> DEFINE t == Tail(q)
<1>1. /\ Len(q) \in Nat /\ Len(q) >= 1 /\ Head(q) = q[1] /\ t \in Seq(Messages)
      /\ Len(t) = Len(q) - 1
  BY Taken
<1> HIDE DEF t
<1>5. Linked("stream", q, d, f, acc, got, pt, st) => Linked("stream", t, d, f, acc + 1, got, pt, st)
  <2>1. acc + Len(q) = pt => acc + 1 + Len(t) = pt
    BY <1>1
  <2> QED
    BY <2>1 DEF Linked
<1>6. /\ ~Catching("stream", q, d, f, acc, rs, sn, st)
      /\ ~Stating("stream", q, d, f, acc, rs, st)
      /\ ~Responding("stream", q, d, f, acc, fi, st)
  BY DEF Catching, Stating, Responding
<1> QED
  BY <1>5, <1>6 DEF Talk, t

(* The server's writer puts its next packet on the link. *)
LEMMA ServeWritesFlow ==
  ASSUME NEW s \in Phases, NEW q \in Seq(Messages), NEW d \in Seq(Messages), NEW f \in Nat,
         NEW acc \in Nat, NEW fi, NEW rs \in Nat, NEW sn \in Nat,
         NEW got \in Nat, NEW pt \in Nat, NEW st \in Nat, f < st,
         Talk(s, "stream", q, d, f, acc, fi, rs, sn, got, pt, st)
  PROVE  Talk(s, "stream", q, Append(d, Msg("frame", f, 0)), f + 1, acc, fi, rs, sn, got,
              pt, st)
<1> DEFINE m == Msg("frame", f, 0)
           e == Append(d, m)
<1>1. m \in Messages /\ m.type = "frame" /\ m.a = f
  <2>1. "frame" \in Types /\ 0 \in Nat
    BY DEF Types
  <2> QED
    BY <2>1, MsgFacts
<1>2. /\ e \in Seq(Messages) /\ e # <<>> /\ Len(e) = Len(d) + 1 /\ Len(d) \in Nat
      /\ \A i \in 1 .. Len(d) : e[i] = d[i]
      /\ e[Len(d) + 1] = m
  BY <1>1, Added
<1>3. ASSUME NEW n \in Nat, NEW i \in 1 .. Len(d) + 1, Frames(d, i, n),
             n + Len(d) + 1 - i = f
      PROVE  Frames(e, i, n)
  BY <1>1, <1>3, FramesAppend
<1> HIDE DEF m, e
<1>4. ASSUME s = "response" PROVE Responding("stream", q, e, f + 1, acc, fi, st)
  <2>1. Responding("stream", q, d, f, acc, fi, st)
    BY <1>4 DEF Talk
  <2>2. /\ q = <<>> /\ acc = 0 /\ d # <<>> /\ d[1].type = "new" /\ Len(d) - 1 = f
        /\ NewFlow(d, fi, st)
    BY <2>1 DEF Responding, ReturningFlow
  <2>3. Frames(e, 2, 0)
    BY <1>2, <1>3, <2>2, Emptiness DEF NewFlow
  <2>4. e[1].type = "new" /\ Len(e) - 1 = f + 1 /\ f + 1 <= st
    BY <1>2, <2>2, Emptiness
  <2>5. NewFlow(e, fi, st)
    BY <2>2, <2>3, <2>4 DEF NewFlow
  <2> QED
    BY <1>2, <2>2, <2>4, <2>5 DEF Responding
<1>5. ASSUME s = "catchup" PROVE Catching("stream", q, e, f + 1, acc, rs, sn, st)
  <2>1. Catching("stream", q, d, f, acc, rs, sn, st)
    BY <1>5 DEF Talk
  <2>2. /\ q = <<>> /\ acc = sn /\ d # <<>> /\ d[1].b + Len(d) - 1 = f
        /\ CatchupFlow(d, 1, rs, st)
    BY <2>1 DEF Catching
  <2>3. d[1].b \in Nat /\ e[1] = d[1] /\ Len(d) >= 1
    <3>1. Len(d) >= 1
      BY <2>2, Emptiness
    <3>2. 1 \in 1 .. Len(d)
      BY <1>2, <3>1
    <3> QED
      BY <1>2, <3>1, <3>2, FieldTypes
  <2>4. Frames(e, 2, d[1].b)
    <3>1. Frames(d, 2, d[1].b)
      BY <2>2 DEF CatchupFlow
    <3>2. 2 \in 1 .. Len(d) + 1 /\ d[1].b + Len(d) + 1 - 2 = f
      BY <1>2, <2>2, <2>3
    <3> QED
      BY <1>3, <2>3, <3>1, <3>2
  <2>5. CatchupFlow(e, 1, rs, st)
    BY <1>2, <2>2, <2>3, <2>4 DEF CatchupFlow
  <2>6. d[1].b + Len(e) - 1 = f + 1
    BY <1>2, <2>2, <2>3
  <2> QED
    BY <1>2, <2>2, <2>3, <2>5, <2>6 DEF Catching
<1>6. ASSUME s = "link" PROVE Linked("stream", q, e, f + 1, acc, got, pt, st)
  <2>1. Linked("stream", q, d, f, acc, got, pt, st)
    BY <1>6 DEF Talk
  <2>2. acc + Len(q) = pt /\ Frames(d, 1, got) /\ got + Len(d) = f
    BY <2>1 DEF Linked
  <2>3. Frames(e, 1, got)
    BY <1>2, <1>3, <2>2
  <2>4. got + Len(e) = f + 1 /\ got + Len(e) <= st
    <3>1. Len(d) \in Nat /\ Len(e) = Len(d) + 1
      BY <1>2
    <3>2. got + (Len(d) + 1) = (got + Len(d)) + 1
      BY <3>1
    <3>3. f + 1 <= st
      OBVIOUS
    <3> QED
      BY <2>2, <3>1, <3>2, <3>3
  <2> QED
    BY <2>2, <2>3, <2>4 DEF Linked
<1>7. ~Stating("stream", q, d, f, acc, rs, st)
  BY DEF Stating
<1> QED
  BY <1>4, <1>5, <1>6, <1>7 DEF Talk, m, e
-----------------------------------------------------------------------------
(***************************************************************************)
(* The client's messages.  What a Serve that ended would have read is      *)
(* lost: the queue stays empty.                                            *)
(***************************************************************************)
Sent(at, q, m) == IF at = "done" THEN q ELSE Append(q, m)

(* The client was admitted as new: nothing has been sent on either side. *)
LEMMA HandshakeNewFlow ==
  ASSUME NEW at \in Places, NEW q \in Seq(Messages), NEW d \in Seq(Messages), NEW f \in Nat,
         NEW acc \in Nat, NEW fi, NEW st \in Nat,
         d # <<>>, Head(d).type = "new", at = "new" => f = 0,
         Responding(at, q, d, f, acc, fi, st)
  PROVE  fi = TRUE /\ Linked(at, q, Tail(d), f, acc, 0, 0, st)
<1> DEFINE t == Tail(d)
<1>1. /\ Len(d) \in Nat /\ Len(d) >= 1 /\ Head(d) = d[1] /\ t \in Seq(Messages)
      /\ Len(t) = Len(d) - 1
  BY Taken
<1>2. NewFlow(d, fi, st) /\ d[1].type = "new"
  BY <1>1 DEF Responding, ReturningFlow
<1>3. Frames(t, 1, 0) /\ 0 + Len(t) <= st
  BY <1>1, <1>2, FramesTail DEF NewFlow
<1>4. at \in {"new", "stream", "done"} /\ q = <<>> /\ Len(q) = 0
  BY <1>1, <1>2 DEF Responding
<1>5. fi = TRUE
  BY <1>2 DEF NewFlow
<1> HIDE DEF t
<1>6. at = "new" => t = <<>> /\ 0 + Len(t) = f
  BY <1>1, Emptiness DEF Responding
<1>7. at = "stream" => acc + Len(q) = 0 /\ 0 + Len(t) = f
  BY <1>1, <1>4 DEF Responding
<1> QED
  BY <1>3, <1>4, <1>5, <1>6, <1>7 DEF Linked, t

(* The client was admitted as returning, and states its position. *)
LEMMA HandshakeReturningFlow ==
  ASSUME NEW at \in Places, NEW q \in Seq(Messages), NEW d \in Seq(Messages), NEW f \in Nat,
         NEW acc \in Nat, NEW fi, NEW nx \in Nat, NEW st \in Nat, NEW rs \in Nat,
         d # <<>>, Head(d).type = "returning", rs <= st,
         UpShape(at, q, acc, nx, st), Responding(at, q, d, f, acc, fi, st)
  PROVE  /\ UpShape(at, Sent(at, q, Msg("seq", rs, 0)), acc, nx, st)
         /\ Stating(at, Sent(at, q, Msg("seq", rs, 0)), Tail(d), f, acc, rs, st)
<1> DEFINE t == Tail(d)
           m == Msg("seq", rs, 0)
           p == Sent(at, q, m)
<1>1. /\ Len(d) \in Nat /\ Len(d) >= 1 /\ Head(d) = d[1] /\ t \in Seq(Messages)
      /\ Len(t) = Len(d) - 1 /\ \A i \in 1 .. Len(d) - 1 : t[i] = d[i + 1]
  BY Taken
<1>2. m \in Messages /\ m.type = "seq" /\ m.a = rs
  <2>1. "seq" \in Types /\ 0 \in Nat
    BY DEF Types
  <2> QED
    BY <2>1, MsgFacts
<1>3. at \in {"returning", "seq", "done"} /\ q = <<>> /\ Len(q) = 0 /\ ReturningFlow(d)
  BY <1>1 DEF Responding, NewFlow
<1>4. at # "done" => p \in Seq(Messages) /\ p # <<>> /\ Len(p) = 1 /\ p[1] = m
  BY <1>2, <1>3, Added DEF Sent
<1>5. at = "done" => p = <<>>
  BY <1>3 DEF Sent
<1> HIDE DEF t, m, p
<1>6. UpShape(at, p, acc, nx, st)
  <2>1. CASE at = "done"
    BY <1>5, <2>1, UpShapeDone
  <2>2. CASE at # "done"
    <3>1. at \in {"returning", "seq"} /\ Len(p) = 1 /\ p[1].type = "seq" /\ p[1].a <= st
      BY <1>2, <1>3, <1>4, <2>2
    <3> QED
      BY <3>1 DEF UpShape
  <2> QED
    BY <2>1, <2>2
<1>7. t # <<>> => t[1].type = "seq" /\ Len(t) = 1
  BY <1>1, <1>3, Emptiness DEF ReturningFlow
<1>8. at = "returning" => t = <<>>
  BY <1>1, Emptiness DEF Responding
<1>9. at = "seq" => Len(t) = 1 /\ t[1].a = acc
  BY <1>1 DEF Responding
<1>10. Len(t) # 2
  BY <1>1, <1>3 DEF ReturningFlow
<1>11. Stating(at, p, t, f, acc, rs, st)
  <2>1. at \in {"returning", "seq"} => Len(p) = 1 /\ p[1].a = rs
    BY <1>2, <1>4
  <2>2. t # <<>> => t[1].type = "seq" /\ Len(t) <= 2
    BY <1>1, <1>7
  <2>3. at # "catchup"
    BY <1>3
  <2> QED
    BY <1>3, <1>8, <1>9, <1>10, <2>1, <2>2, <2>3 DEF Stating
<1> QED
  BY <1>6, <1>11 DEF t, m, p

(* The server's position arrives; the client's catchup answers it. *)
LEMMA RecoverSendsFlow ==
  ASSUME NEW at \in Places, NEW q \in Seq(Messages), NEW d \in Seq(Messages), NEW f \in Nat,
         NEW acc \in Nat, NEW nx \in Nat, NEW st \in Nat, NEW rs \in Nat,
         d # <<>>, Head(d).a <= nx,
         UpShape(at, q, acc, nx, st), Stating(at, q, d, f, acc, rs, st)
  PROVE  /\ Head(d).a \in Nat
         /\ UpShape(at, Sent(at, q, Msg("catchup", Head(d).a, nx)), acc, nx, st)
         /\ Catching(at, Sent(at, q, Msg("catchup", Head(d).a, nx)), Tail(d), f, acc, rs, nx,
                     st)
<1> DEFINE t == Tail(d)
           n == Head(d).a
           m == Msg("catchup", n, nx)
           p == Sent(at, q, m)
<1>1. /\ Len(d) \in Nat /\ Len(d) >= 1 /\ Head(d) = d[1] /\ t \in Seq(Messages)
      /\ Len(t) = Len(d) - 1 /\ \A i \in 1 .. Len(d) - 1 : t[i] = d[i + 1]
      /\ n = d[1].a /\ n \in Nat
  BY Taken, FieldTypes
<1> HIDE DEF n
<1>2. m \in Messages /\ m.type = "catchup" /\ m.a = n /\ m.b = nx
  <2>1. "catchup" \in Types
    BY DEF Types
  <2> QED
    BY <1>1, <2>1, MsgFacts
<1>3. at \in {"seq", "catchup", "done"} /\ Len(d) <= 2 /\ (at # "done" => n = acc)
  BY <1>1 DEF Stating
<1>4. at # "done" => /\ p \in Seq(Messages) /\ Len(p) = Len(q) + 1 /\ p[Len(q) + 1] = m
                     /\ \A i \in 1 .. Len(q) : p[i] = q[i]
  BY <1>2, Added DEF Sent
<1>5. at = "done" => p = <<>>
  BY DEF Sent, UpShape
<1>6. t # <<>> => CatchupFlow(t, 1, rs, st)
  <2> SUFFICES ASSUME t # <<>> PROVE CatchupFlow(t, 1, rs, st)
    OBVIOUS
  <2>1. Len(d) = 2 /\ Len(t) = 1 /\ t[1] = d[2] /\ d[2].b \in Nat
    <3>1. Len(t) # 0
      BY <1>1, Emptiness
    <3>2. Len(d) = 2 /\ Len(t) = 1
      BY <1>1, <1>3, <3>1
    <3>3. 2 \in 1 .. Len(d)
      BY <3>2
    <3> QED
      BY <1>1, <3>2, <3>3, FieldTypes
  <2>2. CatchupFlow(d, 2, rs, st)
    BY <2>1 DEF Stating
  <2> HIDE DEF t
  <2>3. Frames(t, 2, t[1].b)
    BY <1>1, <2>1 DEF Frames
  <2> QED
    BY <2>1, <2>2, <2>3 DEF CatchupFlow
<1> HIDE DEF t, m, p
<1>7. CASE at = "done"
  <2>1. UpShape(at, p, acc, nx, st)
    BY <1>5, <1>7, UpShapeDone
  <2>2. Catching(at, p, t, f, acc, rs, nx, st)
    BY <1>6, <1>7 DEF Catching
  <2> QED
    BY <1>1, <2>1, <2>2 DEF t, n, m, p
<1>8. CASE at = "seq"
  <2>1. Len(q) = 1 /\ q[1].a = rs /\ q[1].type = "seq" /\ q[1].a <= st /\ Len(d) = 1
    BY <1>8, Emptiness DEF Stating, UpShape
  <2>2. Len(p) = 2 /\ p[1] = q[1] /\ p[2] = m /\ t = <<>>
    BY <1>1, <1>4, <1>8, <2>1, Emptiness
  <2>3. p[2].type = "catchup" /\ p[2].a = acc /\ acc <= p[2].b /\ p[2].b <= nx /\ p[2].b = nx
    BY <1>1, <1>2, <1>3, <1>8, <2>2
  <2>4. UpShape(at, p, acc, nx, st)
    BY <1>8, <2>1, <2>2, <2>3 DEF UpShape
  <2>5. Catching(at, p, t, f, acc, rs, nx, st)
    BY <1>8, <2>1, <2>2, <2>3 DEF Catching
  <2> QED
    BY <1>1, <2>4, <2>5 DEF t, n, m, p
<1>9. CASE at = "catchup"
  <2>1. Len(q) = 0 /\ Len(d) = 2 /\ d[2].b = f
    BY <1>9, Emptiness DEF Stating
  <2>2. Len(p) = 1 /\ p[1] = m /\ Len(t) = 1 /\ t[1] = d[2] /\ p \in Seq(Messages)
    BY <1>1, <1>4, <1>9, <2>1
  <2>3. p[1].type = "catchup" /\ p[1].a = acc /\ acc <= p[1].b /\ p[1].b = nx
    BY <1>1, <1>2, <1>3, <1>9, <2>2
  <2>4. Frames(p, 2, p[1].b)
    BY <2>2 DEF Frames
  <2>5. p[1].b + Len(p) - 1 <= nx
    BY <2>2, <2>3
  <2>6. UpShape(at, p, acc, nx, st)
    BY <1>9, <2>3, <2>4, <2>5 DEF UpShape
  <2>7. Catching(at, p, t, f, acc, rs, nx, st)
    BY <1>6, <1>9, <2>1, <2>2, <2>3 DEF Catching
  <2> QED
    BY <1>1, <2>6, <2>7 DEF t, n, m, p
<1> QED
  BY <1>3, <1>7, <1>8, <1>9

(* The server's catchup arrives: the link starts after both catchups. *)
LEMMA RecoverCommitsFlow ==
  ASSUME NEW at \in Places, NEW q \in Seq(Messages), NEW d \in Seq(Messages), NEW f \in Nat,
         NEW acc \in Nat, NEW sn \in Nat, NEW st \in Nat, NEW rs \in Nat,
         d # <<>>, Catching(at, q, d, f, acc, rs, sn, st)
  PROVE  /\ Head(d).a = rs /\ Head(d).b \in Nat /\ rs <= Head(d).b
         /\ Linked(at, q, Tail(d), f, acc, Head(d).b, sn, st)
<1> DEFINE t == Tail(d)
           n == Head(d).b
<1>1. /\ Len(d) \in Nat /\ Len(d) >= 1 /\ Head(d) = d[1] /\ t \in Seq(Messages)
      /\ Len(t) = Len(d) - 1 /\ n = d[1].b /\ n \in Nat
  BY Taken, FieldTypes
<1>2. d[1].a = rs /\ rs <= n /\ Frames(d, 2, n) /\ n + Len(d) - 1 <= st
  BY <1>1 DEF Catching, CatchupFlow
<1>3. Frames(t, 1, n)
  BY <1>1, <1>2, FramesTail
<1>4. at \in {"catchup", "stream", "done"}
  BY DEF Catching
<1> HIDE DEF t, n
<1>5. at = "catchup" => /\ Len(q) = 1 /\ q[1].b = sn /\ Len(d) = 1 /\ n = f
  BY <1>1 DEF Catching
<1>6. at = "stream" => q = <<>> /\ acc = sn /\ n + Len(d) - 1 = f
  BY <1>1 DEF Catching
<1>7. at = "catchup" => q # <<>> /\ q[1].b + Len(q) - 1 = sn /\ t = <<>>
  BY <1>1, <1>5, Emptiness
<1>8. at = "stream" => acc + Len(q) = sn
  BY <1>6
<1>9. n + Len(t) <= st
  BY <1>1, <1>2
<1>10. at \in {"catchup", "stream"} => n + Len(t) = f
  BY <1>1, <1>5, <1>6
<1>11. Linked(at, q, t, f, acc, n, sn, st)
  BY <1>3, <1>4, <1>7, <1>8, <1>9, <1>10 DEF Linked
<1> QED
  BY <1>1, <1>2, <1>11 DEF t, n

(* The client's writer puts its next packet on the link. *)
LEMMA LinkPutsFlow ==
  ASSUME NEW at \in Places, NEW q \in Seq(Messages), NEW d \in Seq(Messages), NEW f \in Nat,
         NEW acc \in Nat, NEW got \in Nat, NEW pt \in Nat, NEW nx \in Nat, NEW st \in Nat,
         pt < nx, UpShape(at, q, acc, nx, st), Linked(at, q, d, f, acc, got, pt, st)
  PROVE  /\ UpShape(at, Sent(at, q, Msg("frame", pt, 0)), acc, nx, st)
         /\ Linked(at, Sent(at, q, Msg("frame", pt, 0)), d, f, acc, got, pt + 1, st)
<1> DEFINE m == Msg("frame", pt, 0)
           p == Sent(at, q, m)
<1>1. m \in Messages /\ m.type = "frame" /\ m.a = pt
  <2>1. "frame" \in Types /\ 0 \in Nat
    BY DEF Types
  <2> QED
    BY <2>1, MsgFacts
<1>2. at # "done" => /\ p \in Seq(Messages) /\ p # <<>> /\ Len(p) = Len(q) + 1
                     /\ \A i \in 1 .. Len(q) : p[i] = q[i]
  BY <1>1, Added DEF Sent
<1>3. at = "done" => p = <<>>
  BY DEF Sent, UpShape
<1>4. ASSUME NEW n \in Nat, NEW i \in 1 .. Len(q) + 1, Frames(q, i, n), at # "done",
             n + Len(q) + 1 - i = pt
      PROVE  Frames(p, i, n)
  BY <1>1, <1>4, FramesAppend DEF Sent
<1>5. Len(q) \in Nat
  OBVIOUS
<1> HIDE DEF m, p
<1>6. CASE at = "done"
  BY <1>3, <1>6, UpShapeDone DEF Linked, p, m
<1>7. CASE at = "new"
  <2>1. Len(q) = pt /\ Frames(q, 1, 0)
    BY <1>7 DEF Linked, UpShape
  <2>2. Frames(p, 1, 0) /\ Len(p) = pt + 1
    BY <1>2, <1>4, <1>5, <1>7, <2>1
  <2>3. UpShape(at, p, acc, nx, st)
    BY <1>7, <2>2 DEF UpShape
  <2>4. Linked(at, p, d, f, acc, got, pt + 1, st)
    BY <1>7, <2>2 DEF Linked
  <2> QED
    BY <2>3, <2>4 DEF p, m
<1>8. CASE at = "catchup"
  <2>1. /\ q # <<>> /\ q[1].b + Len(q) - 1 = pt /\ Frames(q, 2, q[1].b)
        /\ q[1].type = "catchup" /\ q[1].a = acc /\ acc <= q[1].b
    BY <1>8 DEF Linked, UpShape
  <2>2. Len(q) >= 1 /\ q[1].b \in Nat /\ 1 \in 1 .. Len(q)
    BY <2>1, Emptiness, FieldTypes
  <2>3. p[1] = q[1] /\ Len(p) = Len(q) + 1
    BY <1>2, <1>8, <2>2
  <2>4. Frames(p, 2, q[1].b)
    <3>1. 2 \in 1 .. Len(q) + 1 /\ q[1].b + Len(q) + 1 - 2 = pt
      BY <1>5, <2>1, <2>2
    <3> QED
      BY <1>4, <1>8, <2>1, <2>2, <3>1
  <2>5. q[1].b + Len(p) - 1 = pt + 1 /\ q[1].b + Len(p) - 1 <= nx
    <3>1. q[1].b + Len(q) - 1 = pt /\ q[1].b \in Nat /\ Len(p) = Len(q) + 1
      BY <2>1, <2>2, <2>3
    <3>2. \A b, l \in Nat : b + l - 1 = pt => b + (l + 1) - 1 = pt + 1 /\ b + (l + 1) - 1 <= nx
      OBVIOUS
    <3> QED
      BY <1>5, <3>1, <3>2, Zenon
  <2>6. UpShape(at, p, acc, nx, st)
    BY <1>2, <1>8, <2>1, <2>3, <2>4, <2>5 DEF UpShape
  <2>7. Linked(at, p, d, f, acc, got, pt + 1, st)
    BY <1>2, <1>8, <2>3, <2>5 DEF Linked
  <2> QED
    BY <2>6, <2>7 DEF p, m
<1>9. CASE at = "stream"
  <2>1. acc + Len(q) = pt /\ Frames(q, 1, acc)
    BY <1>9 DEF Linked, UpShape
  <2>2. Frames(p, 1, acc) /\ acc + Len(p) = pt + 1
    <3>1. 1 \in 1 .. Len(q) + 1 /\ acc + Len(q) + 1 - 1 = pt
      BY <1>5, <2>1
    <3>2. Frames(p, 1, acc)
      BY <1>4, <1>9, <2>1, <3>1
    <3> QED
      BY <1>2, <1>5, <1>9, <2>1, <3>2
  <2>3. UpShape(at, p, acc, nx, st)
    BY <1>9, <2>2 DEF UpShape
  <2>4. Linked(at, p, d, f, acc, got, pt + 1, st)
    BY <1>9, <2>2 DEF Linked
  <2> QED
    BY <2>3, <2>4 DEF p, m
<1> QED
  BY <1>6, <1>7, <1>8, <1>9 DEF Linked

(* The client's reader takes the next frame. *)
LEMMA ReadFrameFlow ==
  ASSUME NEW at \in Places, NEW q \in Seq(Messages), NEW d \in Seq(Messages), NEW f \in Nat,
         NEW acc \in Nat, NEW got \in Nat, NEW pt \in Nat, NEW st \in Nat,
         d # <<>>, Linked(at, q, d, f, acc, got, pt, st)
  PROVE  /\ Head(d).a = got /\ got + 1 <= st
         /\ Linked(at, q, Tail(d), f, acc, got + 1, pt, st)
<1> DEFINE t == Tail(d)
<1>1. /\ Len(d) \in Nat /\ Len(d) >= 1 /\ Head(d) = d[1] /\ t \in Seq(Messages)
      /\ Len(t) = Len(d) - 1
  BY Taken
<1>2. Frames(d, 1, got) /\ got + Len(d) <= st /\ at \in {"stream", "done"}
  BY DEF Linked
<1>3. Frames(t, 1, got + 1) /\ d[1].a = got
  BY <1>2, FramesTail
<1> HIDE DEF t
<1>4. Linked(at, q, t, f, acc, got + 1, pt, st)
  BY <1>1, <1>2, <1>3 DEF Linked
<1> QED
  BY <1>1, <1>2, <1>3, <1>4 DEF t
-----------------------------------------------------------------------------
(***************************************************************************)
(* The ring, where every packet has size 1.                                *)
(***************************************************************************)
(* A non-empty set of naturals has a least element. *)
LEMMA LeastNatural ==
  ASSUME NEW T \in SUBSET Nat, T # {}
  PROVE  \E m \in T : \A k \in T : m <= k
<1>1. \E m \in T : \A k \in T : ~(<<k, m>> \in OpToRel(<, Nat))
  BY NatLessThanWellFounded, WFMin
<1>2. ASSUME NEW k \in Nat, NEW m \in Nat, k < m
      PROVE  <<k, m>> \in OpToRel(<, Nat)
  BY <1>2 DEF OpToRel
<1>3. PICK m \in T : \A k \in T : ~(<<k, m>> \in OpToRel(<, Nat))
  BY <1>1
<1>4. \A k \in T : ~(k < m)
  BY <1>2, <1>3
<1>5. \A k \in T : m <= k
  BY <1>4
<1> QED
  BY <1>5

(* A ring stays one when an operation replaces fields. *)
LEMMA RingWith ==
  ASSUME NEW r \in Rings
  PROVE  /\ \A o \in Seq(Nat), b \in Int : [r EXCEPT !.off = o, !.bytes = b] \in Rings
         /\ \A f \in Nat, b \in Int : [r EXCEPT !.first = f, !.bytes = b] \in Rings
         /\ [r EXCEPT !.held = FALSE] \in Rings
         /\ \A h \in Nat : [r EXCEPT !.held = TRUE, !.hold = h] \in Rings
BY Zenon DEF Rings

(* The numbers of a ring. *)
LEMMA RingFacts ==
  ASSUME NEW r, NEW n, RingOK(r, n)
  PROVE  /\ r \in Rings /\ r.first \in Nat /\ n \in Nat /\ NextSeq(r) \in Nat
         /\ r.first <= n /\ n <= NextSeq(r)
BY DEF RingOK, Rings, NextSeq

(* ring.push. *)
LEMMA RingPush ==
  ASSUME NEW r, NEW n, RingOK(r, n)
  PROVE  /\ RingOK(Push(r, 1), n) /\ NextSeq(Push(r, 1)) = NextSeq(r) + 1
         /\ Push(r, 1).first = r.first
<1> DEFINE p == Push(r, 1)
           end == Off(r, NextSeq(r)) + 1
<1>1. /\ r \in Rings /\ r.off \in Seq(Nat) /\ r.bytes \in Int /\ r.first \in Nat
      /\ n \in Nat /\ NextSeq(r) \in Nat /\ r.first <= n /\ n <= NextSeq(r)
  BY RingFacts DEF Rings
<1>2. end = NextSeq(r) + 1 /\ end \in Nat
  BY <1>1 DEF RingOK
<1> HIDE DEF end
<1>3. /\ Append(r.off, end) \in Seq(Nat) /\ Len(Append(r.off, end)) = Len(r.off) + 1
      /\ \A i \in 1 .. Len(r.off) : Append(r.off, end)[i] = r.off[i]
      /\ Append(r.off, end)[Len(r.off) + 1] = end
  BY <1>1, <1>2
<1>4. p = [r EXCEPT !.off = Append(r.off, end), !.bytes = r.bytes + 1]
  BY DEF Push, end
<1> HIDE DEF p
<1>5. p \in Rings
  <2>1. r.bytes + 1 \in Int
    BY <1>1
  <2> QED
    BY <1>1, <1>3, <1>4, <2>1, RingWith
<1>6. p.off = Append(r.off, end) /\ p.first = r.first
  BY <1>1, <1>4 DEF Rings
<1>7. NextSeq(p) = NextSeq(r) + 1
  BY <1>1, <1>3, <1>6 DEF NextSeq
<1>8. Off(p, NextSeq(r) + 1) = NextSeq(r) + 1
  BY <1>1, <1>2, <1>3, <1>6 DEF Off, NextSeq
<1>9. \A s \in 0 .. NextSeq(r) : Off(p, s) = s
  BY <1>1, <1>3, <1>6 DEF Off, NextSeq, RingOK
<1>10. \A s \in 0 .. NextSeq(p) : Off(p, s) = s
  BY <1>1, <1>7, <1>8, <1>9
<1> QED
  BY <1>1, <1>3, <1>5, <1>6, <1>7, <1>10 DEF RingOK, p

(* An operation that leaves the packets where they are. *)
LEMMA RingKept ==
  ASSUME NEW r, NEW n, RingOK(r, n), NEW r2 \in Rings, r2.off = r.off,
         NEW k \in Nat, r2.first <= k, k <= NextSeq(r)
  PROVE  RingOK(r2, k) /\ NextSeq(r2) = NextSeq(r)
<1>1. NextSeq(r2) = NextSeq(r) /\ \A s : Off(r2, s) = Off(r, s)
  BY DEF NextSeq, Off
<1> QED
  BY <1>1 DEF RingOK

(* The hold of a recovery, and its release. *)
LEMMA RingHold ==
  ASSUME NEW r, NEW n, RingOK(r, n), NEW r2,
         \/ r2 = [r EXCEPT !.held = FALSE]
         \/ \E h \in Nat : r2 = [r EXCEPT !.held = TRUE, !.hold = h]
  PROVE  RingOK(r2, n) /\ NextSeq(r2) = NextSeq(r) /\ r2.first = r.first
<1>1. r \in Rings /\ n \in Nat /\ r.first <= n /\ n <= NextSeq(r)
  BY RingFacts
<1>2. r2 \in Rings /\ r2.off = r.off /\ r2.first = r.first
  <2>1. CASE r2 = [r EXCEPT !.held = FALSE]
    BY <1>1, <2>1, RingWith DEF Rings
  <2>2. CASE \E h \in Nat : r2 = [r EXCEPT !.held = TRUE, !.hold = h]
    <3>1. PICK h \in Nat : r2 = [r EXCEPT !.held = TRUE, !.hold = h]
      BY <2>2
    <3>2. r2 \in Rings
      BY <1>1, <3>1, RingWith
    <3> QED
      BY <1>1, <3>1, <3>2 DEF Rings
  <2> QED
    BY <2>1, <2>2
<1> QED
  BY <1>1, <1>2, RingKept

(* ring.trim at the position k, which it never passes. *)
LEMMA RingTrim ==
  ASSUME NEW r, NEW n, RingOK(r, n), NEW k \in Nat, r.first <= k, k <= NextSeq(r)
  PROVE  /\ RingOK(Trim(r, k, NextSeq(r) - k), k)
         /\ NextSeq(Trim(r, k, NextSeq(r) - k)) = NextSeq(r)
<1> DEFINE u == NextSeq(r) - k
           t == Trim(r, k, u)
           p == TrimPoint(r, k, u)
           T == {f \in r.first .. NextSeq(r) : TrimStops(r, k, u, f)}
           b == r.bytes - BytesBetween(r, r.first, p)
<1>1. r \in Rings /\ r.first \in Nat /\ NextSeq(r) \in Nat /\ r.bytes \in Int
  BY RingFacts DEF Rings
<1>2. k \in T
  BY <1>1 DEF TrimStops
<1>3. PICK m \in T : \A g \in T : m <= g
  <2>1. T \in SUBSET Nat
    BY <1>1
  <2> QED
    BY <1>2, <2>1, LeastNatural
<1>4. /\ m \in r.first .. NextSeq(r) /\ TrimStops(r, k, u, m)
      /\ \A g \in r.first .. (m - 1) : ~TrimStops(r, k, u, g)
  BY <1>1, <1>3
<1>5. /\ p \in r.first .. NextSeq(r) /\ \A g \in r.first .. (p - 1) : ~TrimStops(r, k, u, g)
  BY <1>4 DEF TrimPoint
<1> HIDE DEF p
<1>6. TrimStops(r, k, u, k)
  BY <1>2
<1>7. p \in Nat /\ p <= k
  BY <1>1, <1>5, <1>6
<1>8. Off(r, r.first) = r.first /\ Off(r, p) = p
  BY <1>1, <1>5, <1>7 DEF RingOK
<1>9. b \in Int
  BY <1>1, <1>7, <1>8 DEF BytesBetween
<1>10. t = [r EXCEPT !.first = p, !.bytes = b]
  BY DEF Trim, p
<1> HIDE DEF b, t
<1>11. t \in Rings
  BY <1>1, <1>7, <1>9, <1>10, RingWith
<1>12. t.off = r.off /\ t.first = p
  BY <1>1, <1>10 DEF Rings
<1> QED
  BY <1>7, <1>11, <1>12, RingKept DEF t
-----------------------------------------------------------------------------
(***************************************************************************)
(* Sequences of packets.                                                   *)
(***************************************************************************)
(* What Numbers holds. *)
LEMMA NumbersFacts ==
  ASSUME NEW a \in Nat, NEW b \in Nat, a <= b
  PROVE  /\ Numbers(a, b) \in Packets /\ Len(Numbers(a, b)) = b - a
         /\ \A i \in 1 .. (b - a) : Numbers(a, b)[i] = a + i - 1
BY DEF Numbers, Packets

(* Two runs make one. *)
LEMMA NumbersJoin ==
  ASSUME NEW a \in Nat, NEW b \in Nat, a <= b
  PROVE  Numbers(0, a) \o Numbers(a, b) = Numbers(0, b)
<1> DEFINE s == Numbers(0, a)
           t == Numbers(a, b)
           u == Numbers(0, b)
<1>1. /\ s \in Seq(Nat) /\ Len(s) = a /\ \A i \in 1 .. a : s[i] = i - 1
      /\ t \in Seq(Nat) /\ Len(t) = b - a /\ \A i \in 1 .. (b - a) : t[i] = a + i - 1
      /\ u \in Seq(Nat) /\ Len(u) = b /\ \A i \in 1 .. b : u[i] = i - 1
  <2>1. \A c \in Nat : /\ Numbers(0, c) \in Seq(Nat) /\ Len(Numbers(0, c)) = c
                       /\ \A i \in 1 .. c : Numbers(0, c)[i] = i - 1
    BY NumbersFacts DEF Numbers
  <2>2. /\ t \in Seq(Nat) /\ Len(t) = b - a /\ \A i \in 1 .. (b - a) : t[i] = a + i - 1
    BY NumbersFacts DEF Packets
  <2> HIDE DEF t
  <2> QED
    BY <2>1, <2>2
<1> HIDE DEF s, t, u
<1>2. s \o t \in Seq(Nat) /\ Len(s \o t) = Len(u) /\ \A i \in 1 .. Len(s \o t) : (s \o t)[i] = u[i]
  BY <1>1
<1>3. s \o t = u
  BY <1>1, <1>2, SeqEqual
<1> QED
  BY <1>3 DEF s, t, u

(* A run of one packet. *)
LEMMA NumbersOne ==
  ASSUME NEW a \in Nat
  PROVE  Numbers(a, a + 1) = <<a>> /\ Numbers(a, a) = <<>>
<1>1. Numbers(a, a + 1) \in Seq(Nat) /\ Len(Numbers(a, a + 1)) = 1 /\ Numbers(a, a + 1)[1] = a
  BY DEF Numbers
<1>2. Numbers(a, a) \in Seq(Nat) /\ Len(Numbers(a, a)) = 0
  BY DEF Numbers
<1> QED
  BY <1>1, <1>2

(* Moving an element from the front of a queue to the end of the one before it. *)
LEMMA MoveHead ==
  ASSUME NEW S, NEW s \in Seq(S), NEW t \in Seq(S), t # <<>>
  PROVE  /\ Append(s, Head(t)) \in Seq(S) /\ Tail(t) \in Seq(S)
         /\ Append(s, Head(t)) \o Tail(t) = s \o t
<1> DEFINE h == Head(t)
           r == Tail(t)
           p == Append(s, h)
<1>1. h \in S /\ h = t[1] /\ r \in Seq(S) /\ Len(r) = Len(t) - 1 /\ Len(t) \in Nat /\ Len(t) >= 1
      /\ \A i \in 1 .. Len(t) - 1 : r[i] = t[i + 1]
  BY Taken
<1>2. p \in Seq(S) /\ Len(p) = Len(s) + 1 /\ p[Len(s) + 1] = h
      /\ \A i \in 1 .. Len(s) : p[i] = s[i]
  BY <1>1, Added
<1> HIDE DEF h, r, p
<1>3. /\ p \o r \in Seq(S) /\ s \o t \in Seq(S) /\ Len(p \o r) = Len(s \o t)
      /\ \A i \in 1 .. Len(p \o r) : (p \o r)[i] = (s \o t)[i]
  <2>1. /\ p \o r \in Seq(S) /\ s \o t \in Seq(S) /\ Len(p \o r) = Len(s) + Len(t)
        /\ Len(s \o t) = Len(s) + Len(t) /\ Len(s) \in Nat
    <3>1. Len(p \o r) = Len(p) + Len(r) /\ p \o r \in Seq(S)
      BY <1>1, <1>2, ConcatProperties
    <3>2. Len(s \o t) = Len(s) + Len(t) /\ s \o t \in Seq(S) /\ Len(s) \in Nat
      BY ConcatProperties
    <3> QED
      BY <1>1, <1>2, <3>1, <3>2
  <2>2. ASSUME NEW i \in 1 .. Len(s) + Len(t) PROVE (p \o r)[i] = (s \o t)[i]
    <3>1. CASE i <= Len(s)
      BY <1>1, <1>2, <2>1, <3>1
    <3>2. CASE i = Len(s) + 1
      BY <1>1, <1>2, <2>1, <3>2
    <3>3. CASE i > Len(s) + 1
      <4>1. (p \o r)[i] = r[i - (Len(s) + 1)] /\ (s \o t)[i] = t[i - Len(s)]
        BY <1>1, <1>2, <2>1, <3>3
      <4>2. i - (Len(s) + 1) \in 1 .. Len(t) - 1
        BY <1>1, <2>1, <3>3
      <4>3. r[i - (Len(s) + 1)] = t[(i - (Len(s) + 1)) + 1]
        BY <1>1, <4>2
      <4>4. (i - (Len(s) + 1)) + 1 = i - Len(s)
        BY <2>1
      <4> QED
        BY <4>1, <4>3, <4>4
    <3> QED
      BY <2>1, <3>1, <3>2, <3>3
  <2> QED
    BY <2>1, <2>2
<1>4. p \o r = s \o t
  BY <1>3, SeqEqual
<1> QED
  BY <1>1, <1>2, <1>4 DEF p, h, r

(* Putting queues of packets one after the other. *)
LEMMA Queues ==
  ASSUME NEW s \in Seq(Nat), NEW t \in Seq(Nat)
  PROVE  s \o t \in Seq(Nat) /\ s \o <<>> = s
BY ConcatProperties, ConcatEmptySeq

(* Queues one after another. *)
LEMMA Regroup ==
  ASSUME NEW s \in Seq(Nat), NEW t \in Seq(Nat), NEW u \in Seq(Nat)
  PROVE  (s \o t) \o u = s \o (t \o u)
BY ConcatAssociative

(* MoveHead for packets, with what comes before and after. *)
LEMMA MovePacket ==
  ASSUME NEW s \in Seq(Nat), NEW t \in Seq(Nat), t # <<>>
  PROVE  /\ Append(s, Head(t)) \in Seq(Nat) /\ Tail(t) \in Seq(Nat)
         /\ Append(s, Head(t)) \o Tail(t) = s \o t
BY MoveHead
-----------------------------------------------------------------------------
(***************************************************************************)
(* The steps, one conjunct of the invariant after the other.               *)
(***************************************************************************)
(* Every process writes its own variables only. *)
ServerStep == (\E l \in Links : ServeStep(l) \/ ServeFails(l)) \/ ServerSend \/ EndSession

(* The server writes none of the client's variables. *)
LEMMA ServerStepFrame == ServerStep => UNCHANGED client
BY DEF ServerStep, ServeStep, ServeFails, ServeEnds, Admit, TakeOver, ServeRecover,
       ServeCatchup, ServeReads, ServeWrites, ServeFlushed, ServerSend, EndSession

ClientStep ==
  \/ ClientConnects \/ LinkWriter \/ LinkReader \/ ConnectFails \/ LinkFails
  \/ WritePacket \/ ReadPacket \/ ReadTail \/ Close

(* The client writes none of the server's variables. *)
LEMMA ClientStepFrame == ClientStep => UNCHANGED server
BY DEF ClientStep, ClientConnects, LinkWriter, LinkReader, Dial, HandshakeNew,
       HandshakeReturning, HandshakeRejected, RecoverSends, RecoverExceeded,
       RecoverCommits, RecoverCommitsAt, RedialStops, LinkPuts, LinkCommits, ReadCatchup,
       ReadFrame, HandOver, HandOverPending, ConnectFails, LinkFails, WritePacket,
       ReadPacket, ReadTail, Close, Fatal

(* The types the lemmas above ask for. *)
LEMMA Typed ==
  ASSUME Inv
  PROVE  /\ next \in Nat /\ sent \in Nat /\ recvSeq \in Nat /\ snap \in Nat /\ put \in Nat
         /\ Len(accepted) \in Nat /\ Len(todo) \in Nat /\ recvSeq + Len(todo) \in Nat
         /\ sup \in Phases /\ first \in BOOLEAN
         /\ \A k \in Links : /\ serve[k] \in Places /\ sflushed[k] \in Nat
                             /\ sflushed[k] <= sent
                             /\ up[k] \in Seq(Messages) /\ down[k] \in Seq(Messages)
<1>1. next \in Nat
  BY RingFacts DEF Inv, next
<1>2. TypeOK /\ WiresOK
  BY DEF Inv
<1>3. sent \in Nat /\ recvSeq \in Nat /\ snap \in Nat /\ put \in Nat
  BY <1>1, <1>2 DEF TypeOK
<1>4. accepted \in Seq(Nat) /\ todo \in Seq(Nat)
  BY <1>2 DEF TypeOK, Packets
<1>5. sup \in Phases /\ first \in BOOLEAN
  BY <1>2 DEF TypeOK, Phases
<1>6. \A k \in Links : serve[k] \in Places /\ sflushed[k] \in Nat /\ sflushed[k] <= sent
  BY <1>2, <1>3 DEF TypeOK, Places
<1>7. \A k \in Links : up[k] \in Seq(Messages) /\ down[k] \in Seq(Messages)
  BY <1>2 DEF WiresOK
<1> QED
  BY <1>1, <1>3, <1>4, <1>5, <1>6, <1>7

(* The client has a link while it connects and while the link is up. *)
LEMMA LinkIsOpen ==
  ASSUME Inv, sup \in {"response", "seq", "catchup", "link"}
  PROVE  link \in Links /\ link <= dialed
BY DEF Inv, TypeOK, DialOK

(* recover's commit trims at its snapshot. *)
LEMMA RecoverCommitsRing ==
  ASSUME Inv, RecoverCommits
  PROVE  RingOK(ring', snap) /\ next' = next
<1> DEFINE r == [ring EXCEPT !.held = TRUE, !.hold = peer]
<1>1. sup = "catchup" /\ ring' = Trim(r, snap, NextSeq(ring) - snap)
  BY DEF RecoverCommits, RecoverCommitsAt, next
<1>2. /\ RingOK(ring, flushed) /\ peer \in Nat /\ snap \in Nat
      /\ ring.first <= snap /\ snap <= NextSeq(ring)
  BY <1>1 DEF Inv, TypeOK, SnapOK, next
<1>3. RingOK(r, flushed) /\ NextSeq(r) = NextSeq(ring) /\ r.first = ring.first
  BY <1>2, RingHold
<1> HIDE DEF r
<1> QED
  BY <1>1, <1>2, <1>3, RingTrim DEF next

(* releaseHold trims at the written position. *)
LEMMA ReadFrameRing ==
  ASSUME Inv, ReadFrame
  PROVE  RingOK(ring', flushed) /\ next' = next
<1> DEFINE r == [ring EXCEPT !.held = FALSE]
<1>1. ring' = IF ring.held THEN Trim(r, flushed, NextSeq(ring) - flushed) ELSE ring
  BY DEF ReadFrame, next
<1>2. RingOK(ring, flushed)
  BY DEF Inv
<1>3. flushed \in Nat /\ ring.first <= flushed /\ flushed <= NextSeq(ring)
  BY <1>2, RingFacts
<1>4. RingOK(r, flushed) /\ NextSeq(r) = NextSeq(ring) /\ r.first = ring.first
  BY <1>2, RingHold
<1> HIDE DEF r
<1> QED
  BY <1>1, <1>2, <1>3, <1>4, RingTrim DEF next

(* The ring, flushed and put. *)
LEMMA OutboundStep ==
  ASSUME Inv, [Next]_vars
  PROVE  RingOK(ring, flushed)' /\ put' \in 0 .. next' /\ SnapOK' /\ next <= next'
<1>1. RingOK(ring, flushed) /\ put \in 0 .. next /\ SnapOK /\ TypeOK
  BY DEF Inv, TypeOK
<1>2. next \in Nat /\ ring.first \in Nat /\ flushed \in Nat /\ ring.first <= flushed
      /\ flushed <= next /\ peer \in Nat /\ snap \in Nat
  BY <1>1, RingFacts DEF next, TypeOK
<1> USE DEF next
<1>3. CASE WritePacket
  <2>1. ring' = Push(ring, 1) /\ UNCHANGED <<flushed, put, sup, snap>>
    BY <1>3 DEF WritePacket, session
  <2>2. /\ RingOK(Push(ring, 1), flushed) /\ NextSeq(Push(ring, 1)) = NextSeq(ring) + 1
        /\ Push(ring, 1).first = ring.first
    BY <1>1, RingPush
  <2> QED
    BY <1>1, <1>2, <2>1, <2>2 DEF SnapOK
<1>4. CASE RecoverCommits
  <2>1. sup = "catchup" /\ sup' = "link" /\ flushed' = snap /\ put' = snap
    BY <1>4 DEF RecoverCommits, RecoverCommitsAt
  <2>2. RingOK(ring', snap) /\ next' = next
    BY <1>4, RecoverCommitsRing
  <2> QED
    BY <1>1, <1>2, <2>1, <2>2 DEF SnapOK
<1>5. CASE LinkCommits
  <2>1. /\ sup = "link" /\ flushed < put /\ flushed' = put /\ UNCHANGED <<put, sup, snap>>
        /\ ring' = Trim(ring, put, NextSeq(ring) - put)
    BY <1>5 DEF LinkCommits, session
  <2>2. RingOK(ring', put) /\ NextSeq(ring') = NextSeq(ring)
    BY <1>1, <1>2, <2>1, RingTrim
  <2> QED
    BY <1>1, <1>2, <2>1, <2>2 DEF SnapOK
<1>6. CASE ReadFrame
  <2>1. sup = "link" /\ UNCHANGED <<flushed, put, sup, snap>>
    BY <1>6 DEF ReadFrame, ReaderIdle
  <2>2. RingOK(ring', flushed) /\ next' = next
    BY <1>6, ReadFrameRing
  <2> QED
    BY <1>1, <1>2, <2>1, <2>2 DEF SnapOK
<1>7. CASE LinkPuts
  BY <1>1, <1>2, <1>7 DEF LinkPuts, session, SnapOK
<1>8. CASE RecoverSends
  BY <1>1, <1>2, <1>8 DEF RecoverSends, outbound, SnapOK
<1>9. CASE \/ Dial \/ HandshakeNew \/ HandshakeReturning \/ HandshakeRejected
           \/ RecoverExceeded \/ RedialStops \/ ReadCatchup \/ HandOver \/ HandOverPending
           \/ ConnectFails \/ LinkFails \/ ReadPacket \/ ReadTail \/ Close
           \/ UNCHANGED client
  <2>1. UNCHANGED <<ring, flushed, put>> /\ (sup' = "catchup" => sup = "catchup" /\ snap' = snap)
    BY <1>9 DEF Dial, HandshakeNew, HandshakeReturning, HandshakeRejected, RecoverExceeded,
                RedialStops, ReadCatchup, HandOver, HandOverPending, ConnectFails, LinkFails,
                ReadPacket, ReadTail, Close, Fatal, ReaderIdle, outbound, session, client
  <2> QED
    BY <1>1, <1>2, <2>1 DEF SnapOK
<1> QED
  BY <1>3, <1>4, <1>5, <1>6, <1>7, <1>8, <1>9, ServerStepFrame
     DEF Next, ServerStep, ClientConnects, LinkWriter, LinkReader, vars

(* What a client on a live link reads next is what it expects next. *)
LEMMA DeliverOK ==
  ASSUME Inv, ReadCatchup \/ ReadFrame
  PROVE  /\ sup = "link" /\ pending = <<>> /\ hand = <<>>
         /\ recvSeq' = recvSeq + 1 /\ hand' = <<recvSeq>> /\ UNCHANGED status
         /\ recvSeq + 1 <= sent
<1>1. sup = "link" /\ pending = <<>> /\ hand = <<>>
  BY DEF ReadCatchup, ReadFrame, ReaderIdle
<1> DEFINE got == recvSeq + Len(todo)
           d == down[link]
<1>2. Linked(serve[link], up[link], d, sflushed[link], Len(accepted), got, put, sent)
  BY <1>1 DEF Inv, TalkOK, Talk
<1>3. link \in Links
  BY <1>1, LinkIsOpen
<1>4. /\ recvSeq \in Nat /\ Len(todo) \in Nat /\ sent \in Nat /\ put \in Nat /\ got \in Nat
      /\ serve[link] \in Places /\ up[link] \in Seq(Messages) /\ d \in Seq(Messages)
      /\ sflushed[link] \in Nat /\ Len(accepted) \in Nat
  BY <1>3, Typed
<1> HIDE DEF got, d
<1>5. todo \in Seq(Nat)
  BY DEF Inv, TypeOK, Packets
<1>6. CASE ReadCatchup
  <2>1. todo # <<>> /\ Deliver(Head(todo))
    BY <1>6 DEF ReadCatchup
  <2>2. Len(todo) >= 1 /\ Head(todo) = todo[1]
    BY <1>5, <2>1
  <2>3. todo[1] = recvSeq
    BY <1>1, <1>4, <2>2 DEF Inv, ReaderOK
  <2>4. got + Len(d) <= sent /\ Len(d) \in Nat
    BY <1>2, <1>4 DEF Linked
  <2>5. recvSeq + 1 <= sent
    BY <1>4, <2>2, <2>4 DEF got
  <2> QED
    BY <1>1, <2>1, <2>2, <2>3, <2>5 DEF Deliver
<1>7. CASE ReadFrame
  <2>1. todo = <<>> /\ d # <<>> /\ Deliver(Head(d).a)
    BY <1>7 DEF ReadFrame, HasMsg, d
  <2>2. got = recvSeq
    BY <1>4, <2>1 DEF got
  <2>3. Head(d).a = got /\ got + 1 <= sent
    BY <1>2, <1>4, <2>1, ReadFrameFlow
  <2> QED
    BY <1>1, <2>1, <2>2, <2>3 DEF Deliver
<1> QED
  BY <1>6, <1>7

(* The catchup a client commits starts where the client stopped. *)
LEMMA CommitOK ==
  ASSUME Inv, RecoverCommits
  PROVE  /\ link \in Links /\ sup = "catchup" /\ sup' = "link" /\ put' = snap
         /\ Head(down[link]).b \in Nat /\ recvSeq <= Head(down[link]).b
         /\ todo' = Numbers(recvSeq, Head(down[link]).b)
         /\ todo' \in Seq(Nat) /\ Len(todo') = Head(down[link]).b - recvSeq
         /\ \A i \in 1 .. Len(todo') : todo'[i] = recvSeq + i - 1
         /\ Linked(serve[link], up[link], Tail(down[link]), sflushed[link], Len(accepted),
                   Head(down[link]).b, snap, sent)
<1> DEFINE d == down[link]
<1>1. /\ sup = "catchup" /\ sup' = "link" /\ put' = snap /\ d # <<>>
      /\ todo' = Numbers(Head(d).a, Head(d).b)
  BY DEF RecoverCommits, RecoverCommitsAt, HasMsg
<1>2. link \in Links
  BY <1>1, LinkIsOpen
<1>3. /\ recvSeq \in Nat /\ sent \in Nat /\ snap \in Nat /\ Len(accepted) \in Nat
      /\ serve[link] \in Places /\ up[link] \in Seq(Messages) /\ d \in Seq(Messages)
      /\ sflushed[link] \in Nat
  BY <1>2, Typed
<1>4. Catching(serve[link], up[link], d, sflushed[link], Len(accepted), recvSeq, snap, sent)
  BY <1>1 DEF Inv, TalkOK, Talk
<1> HIDE DEF d
<1>5. /\ Head(d).a = recvSeq /\ Head(d).b \in Nat /\ recvSeq <= Head(d).b
      /\ Linked(serve[link], up[link], Tail(d), sflushed[link], Len(accepted), Head(d).b,
                snap, sent)
  BY <1>1, <1>3, <1>4, RecoverCommitsFlow
<1>6. /\ todo' \in Seq(Nat) /\ Len(todo') = Head(d).b - recvSeq
      /\ \A i \in 1 .. (Head(d).b - recvSeq) : todo'[i] = recvSeq + i - 1
  BY <1>1, <1>3, <1>5, NumbersFacts DEF Packets
<1> QED
  BY <1>1, <1>2, <1>5, <1>6 DEF d

(* The packets on their way to ReadPacket. *)
InboundOK ==
  /\ recvSeq \in Nat
  /\ todo \in Packets /\ hand \in Packets /\ pending \in Packets /\ inbox \in Packets
  /\ read \in Packets
  /\ Len(hand) <= 1 /\ Len(inbox) <= InboxSize
  /\ NothingCountedIsLost

(* Every step keeps what was counted between deliver and ReadPacket. *)
LEMMA InboundStep ==
  ASSUME Inv, [Next]_vars
  PROVE  InboundOK'
<1>1. InboundOK
  BY DEF Inv, TypeOK, InboundOK
<1>2. /\ todo \in Seq(Nat) /\ hand \in Seq(Nat) /\ pending \in Seq(Nat) /\ inbox \in Seq(Nat)
      /\ read \in Seq(Nat) /\ recvSeq \in Nat /\ InboxSize \in Nat
      /\ read \o inbox \o pending \o hand = Numbers(0, recvSeq)
      /\ Len(hand) <= 1 /\ Len(inbox) <= InboxSize
  BY <1>1, BoundAssumption DEF InboundOK, Packets, NothingCountedIsLost
<1>queues. /\ hand \in Seq(Nat) /\ pending \in Seq(Nat) /\ inbox \in Seq(Nat)
      /\ read \in Seq(Nat)
  BY <1>2
<1> USE DEF Packets
<1>3. CASE ReadCatchup \/ ReadFrame
  <2>1. /\ pending = <<>> /\ hand = <<>> /\ recvSeq' = recvSeq + 1 /\ hand' = <<recvSeq>>
    BY <1>3, DeliverOK
  <2>2. UNCHANGED <<pending, inbox, read>> /\ todo' \in Seq(Nat)
    <3>1. UNCHANGED <<pending, inbox, read>> /\ (UNCHANGED todo \/ (todo # <<>> /\ todo' = Tail(todo)))
      BY <1>3 DEF ReadCatchup, ReadFrame
    <3>2. todo # <<>> => Tail(todo) \in Seq(Nat)
      BY <1>2
    <3> QED
      BY <1>2, <3>1, <3>2
  <2>3. hand' \in Seq(Nat) /\ Len(hand') <= 1 /\ recvSeq' \in Nat
    BY <1>2, <2>1
  <2>4. read \o inbox \o pending = Numbers(0, recvSeq)
    <3>1. read \o inbox \o pending \in Seq(Nat)
      BY <1>2
    <3> QED
      BY <1>2, <2>1, <3>1, Queues
  <2>5. Numbers(0, recvSeq) \o <<recvSeq>> = Numbers(0, recvSeq + 1)
    <3>1. Numbers(0, recvSeq) \o Numbers(recvSeq, recvSeq + 1) = Numbers(0, recvSeq + 1)
      <4>1. recvSeq \in Nat /\ recvSeq + 1 \in Nat /\ recvSeq <= recvSeq + 1
        BY <1>2
      <4> QED
        BY <4>1, NumbersJoin
    <3>2. recvSeq \in Nat
      BY <1>2
    <3> QED
      BY <3>1, <3>2, NumbersOne
  <2> QED
    BY <1>2, <2>1, <2>2, <2>3, <2>4, <2>5 DEF InboundOK, NothingCountedIsLost
<1>4. CASE RecoverCommits
  <2>1. UNCHANGED <<recvSeq, hand, pending, inbox, read>>
    BY <1>4 DEF RecoverCommits, RecoverCommitsAt
  <2>2. todo' \in Seq(Nat)
    BY <1>4, CommitOK
  <2> QED
    BY <1>1, <2>1, <2>2 DEF InboundOK, NothingCountedIsLost
<1>5. CASE HandOver
  <2>1. /\ pending = <<>> /\ inbox' = inbox \o hand /\ hand' = <<>> /\ Len(inbox) < InboxSize
        /\ UNCHANGED <<recvSeq, todo, pending, read>>
    BY <1>5 DEF HandOver, InboxRoom
  <2>2. inbox' \in Seq(Nat) /\ Len(inbox') <= InboxSize
    BY <1>2, <2>1
  <2>3. read \o inbox \o pending \o hand = read \o inbox' \o pending' \o hand'
    <3>1. read \o inbox \in Seq(Nat) /\ read \o inbox' \in Seq(Nat)
      BY <1>2, <2>2
    <3>2. (read \o inbox) \o hand = read \o (inbox \o hand)
      BY <1>queues, Regroup
    <3> QED
      BY <1>queues, <2>1, <3>1, <3>2, Queues
  <2>4. hand' \in Seq(Nat) /\ Len(hand') <= 1
    BY <2>1
  <2> QED
    BY <1>2, <2>1, <2>2, <2>3, <2>4 DEF InboundOK, NothingCountedIsLost
<1>6. CASE HandOverPending
  <2>1. /\ pending # <<>> /\ inbox' = Append(inbox, Head(pending)) /\ pending' = Tail(pending)
        /\ Len(inbox) < InboxSize /\ UNCHANGED <<recvSeq, todo, hand, read>>
    BY <1>6 DEF HandOverPending, InboxRoom
  <2>2. inbox' \in Seq(Nat) /\ pending' \in Seq(Nat) /\ inbox' \o pending' = inbox \o pending
    BY <1>queues, <2>1, MovePacket
  <2>3. Len(inbox') <= InboxSize
    BY <1>2, <2>1
  <2>4. read \o inbox' \o pending' = read \o inbox \o pending
    <3>1. (read \o inbox') \o pending' = read \o (inbox' \o pending')
      BY <1>queues, <2>2, Regroup
    <3>2. (read \o inbox) \o pending = read \o (inbox \o pending)
      BY <1>queues, Regroup
    <3> QED
      BY <2>2, <3>1, <3>2
  <2> QED
    BY <1>2, <2>1, <2>2, <2>3, <2>4 DEF InboundOK, NothingCountedIsLost
<1>7. CASE LinkFails
  <2>1. /\ pending' = pending \o hand /\ hand' = <<>> /\ todo' = <<>>
        /\ UNCHANGED <<recvSeq, inbox, read>>
    BY <1>7 DEF LinkFails
  <2>2. pending' \in Seq(Nat)
    BY <1>2, <2>1
  <2>3. read \o inbox \in Seq(Nat)
    BY <1>2
  <2>4. (read \o inbox) \o pending' = read \o inbox \o pending \o hand
    <3>1. ((read \o inbox) \o pending) \o hand = (read \o inbox) \o (pending \o hand)
      BY <1>queues, <2>3, Regroup
    <3> QED
      BY <2>1, <3>1
  <2>5. ((read \o inbox) \o pending') \o <<>> = (read \o inbox) \o pending'
    BY <2>2, <2>3, Queues
  <2>6. <<>> \in Seq(Nat) /\ Len(<<>>) <= 1
    OBVIOUS
  <2> QED
    BY <1>2, <2>1, <2>2, <2>4, <2>5, <2>6 DEF InboundOK, NothingCountedIsLost
<1>8. CASE ReadPacket
  <2>1. /\ inbox # <<>> /\ read' = Append(read, Head(inbox)) /\ inbox' = Tail(inbox)
        /\ UNCHANGED <<recvSeq, todo, hand, pending>>
    BY <1>8 DEF ReadPacket
  <2>2. read' \in Seq(Nat) /\ inbox' \in Seq(Nat) /\ read' \o inbox' = read \o inbox
    BY <1>queues, <2>1, MovePacket
  <2>3. Len(inbox') <= InboxSize
    BY <1>2, <2>1
  <2> QED
    BY <1>2, <2>1, <2>2, <2>3 DEF InboundOK, NothingCountedIsLost
<1>9. CASE ReadTail
  <2>1. /\ inbox = <<>> /\ pending # <<>>
        /\ read' = Append(read, Head(pending)) /\ pending' = Tail(pending)
        /\ UNCHANGED <<recvSeq, todo, hand, inbox>>
    BY <1>9 DEF ReadTail
  <2>2. read' \in Seq(Nat) /\ pending' \in Seq(Nat) /\ read' \o pending' = read \o pending
    BY <1>queues, <2>1, MovePacket
  <2>3. read \o inbox = read /\ read' \o inbox' = read'
    BY <1>queues, <2>1, <2>2, Queues
  <2> QED
    BY <1>2, <2>1, <2>2, <2>3 DEF InboundOK, NothingCountedIsLost
<1>10. CASE \/ Dial \/ HandshakeNew \/ HandshakeReturning \/ HandshakeRejected
            \/ RecoverSends \/ RecoverExceeded \/ RedialStops \/ LinkPuts \/ LinkCommits
            \/ ConnectFails \/ WritePacket \/ Close \/ UNCHANGED client
  <2>1. UNCHANGED inbound
    BY <1>10 DEF Dial, HandshakeNew, HandshakeReturning, HandshakeRejected, RecoverSends,
                 RecoverExceeded, RedialStops, LinkPuts, LinkCommits, ConnectFails,
                 WritePacket, Close, Fatal, inbound, client
  <2> QED
    BY <1>1, <2>1 DEF InboundOK, NothingCountedIsLost, inbound
<1> QED
  BY <1>3, <1>4, <1>5, <1>6, <1>7, <1>8, <1>9, <1>10, ServerStepFrame
     DEF Next, ServerStep, ClientConnects, LinkWriter, LinkReader, vars

(* The variables of Dial and of the supervisor. *)
SessionOK ==
  /\ sup \in Phases /\ first \in BOOLEAN /\ snap \in Nat /\ peer \in Nat
  /\ status \in {"open", "closed", "rejected", "ended", "exceeded", "integrity"}
  /\ link \in Links \cup {0} /\ dialed \in Nat

(* Every step keeps the types of Dial and the supervisor. *)
LEMMA SessionStep ==
  ASSUME Inv, [Next]_vars
  PROVE  SessionOK'
<1>1. SessionOK /\ next \in Nat
  BY Typed DEF Inv, TypeOK, SessionOK, Phases
<1>2. MaxLinks \in Nat
  BY BoundAssumption
<1> USE DEF SessionOK, Phases
<1>3. CASE Dial
  BY <1>1, <1>2, <1>3 DEF Dial, Links
<1>4. CASE RecoverSends
  <2>1. link \in Links /\ sup = "seq" /\ down[link] # <<>>
    BY <1>4, LinkIsOpen DEF RecoverSends, HasMsg
  <2>2. down[link] \in Seq(Messages)
    BY <2>1, Typed
  <2>3. Head(down[link]).a \in Nat
    BY <2>1, <2>2, Taken, FieldTypes
  <2>4. /\ peer' = Head(down[link]).a /\ snap' = next /\ sup' = "catchup"
        /\ UNCHANGED <<first, status, link, dialed>>
    BY <1>4 DEF RecoverSends
  <2> QED
    BY <1>1, <2>3, <2>4
<1>5. CASE HandshakeRejected \/ RecoverExceeded
  <2>1. /\ sup' = "done" /\ snap' = 0 /\ peer' = 0 /\ link' = 0 /\ UNCHANGED <<first, dialed>>
        /\ status' \in {status, "rejected", "ended", "exceeded"}
    BY <1>5 DEF HandshakeRejected, RecoverExceeded, Fatal, Drop
  <2> QED
    BY <1>1, <2>1
<1>6. CASE HandshakeNew \/ HandshakeReturning
  <2>1. UNCHANGED <<snap, peer, status, link, dialed>>
    BY <1>6 DEF HandshakeNew, HandshakeReturning
  <2>2. first' = first \/ first' = FALSE
    BY <1>6 DEF HandshakeNew, HandshakeReturning
  <2>3. sup' = "link" \/ sup' = "seq"
    BY <1>6 DEF HandshakeNew, HandshakeReturning
  <2> QED
    BY <1>1, <2>1, <2>2, <2>3
<1>7. CASE RecoverCommits \/ ConnectFails \/ LinkFails \/ RedialStops
  <2>1. /\ sup' \in {"link", "dial", "done"}
        /\ snap' \in {snap, 0} /\ peer' \in {peer, 0} /\ link' \in {link, 0}
        /\ UNCHANGED <<status, dialed>>
    BY <1>7 DEF RecoverCommits, RecoverCommitsAt, ConnectFails, LinkFails, Drop, RedialStops
  <2>2. first' = first \/ first' = FALSE
    BY <1>7 DEF RecoverCommits, RecoverCommitsAt, ConnectFails, LinkFails, RedialStops
  <2>3. first' \in BOOLEAN
    BY <1>1, <2>2
  <2>4. sup' \in Phases /\ snap' \in Nat /\ peer' \in Nat /\ link' \in Links \cup {0}
    BY <1>1, <2>1
  <2> QED
    BY <1>1, <2>1, <2>3, <2>4
<1>8. CASE ReadCatchup \/ ReadFrame
  <2>1. UNCHANGED session
    BY <1>8, DeliverOK DEF ReadCatchup, ReadFrame, session
  <2> QED
    BY <1>1, <2>1 DEF session
<1>9. CASE Close
  BY <1>1, <1>9 DEF Close
<1>10. CASE \/ LinkPuts \/ LinkCommits \/ HandOver \/ HandOverPending \/ WritePacket
            \/ ReadPacket \/ ReadTail \/ UNCHANGED client
  BY <1>1, <1>10 DEF LinkPuts, LinkCommits, HandOver, HandOverPending, WritePacket,
                     ReadPacket, ReadTail, session, client
<1> QED
  BY <1>3, <1>4, <1>5, <1>6, <1>7, <1>8, <1>9, <1>10, ServerStepFrame
     DEF Next, ServerStep, ClientConnects, LinkWriter, LinkReader, vars

(* Nothing is counted before the session is established. *)
LEMMA FirstStep ==
  ASSUME Inv, [Next]_vars
  PROVE  FirstOK' /\ (first' => first)
<1>1. FirstOK /\ first \in BOOLEAN /\ (sup = "link" => ~first)
  BY DEF Inv, TypeOK, ReaderOK
<1>2. CASE \/ RecoverCommits \/ HandshakeNew
  <2>1. first' = FALSE
    BY <1>2 DEF RecoverCommits, RecoverCommitsAt, HandshakeNew
  <2> QED
    BY <2>1 DEF FirstOK
<1>3. CASE \/ LinkPuts \/ LinkCommits \/ HandOver \/ HandOverPending \/ LinkFails
           \/ ReadCatchup \/ ReadFrame
  <2>1. sup = "link" /\ UNCHANGED first
    BY <1>3 DEF LinkPuts, LinkCommits, HandOver, HandOverPending, LinkFails, ReadCatchup,
                ReadFrame, ReaderIdle, session
  <2> QED
    BY <1>1, <2>1 DEF FirstOK
<1>4. CASE WritePacket \/ ReadTail
  BY <1>4 DEF WritePacket, ReadTail, session, FirstOK
<1>5. CASE ReadPacket
  BY <1>1, <1>5 DEF ReadPacket, session, FirstOK
<1>6. CASE \/ Dial \/ HandshakeReturning \/ HandshakeRejected \/ RecoverSends
           \/ RecoverExceeded \/ RedialStops \/ ConnectFails \/ Close \/ UNCHANGED client
  <2>1. UNCHANGED <<outbound, inbound, first>>
    BY <1>6 DEF Dial, HandshakeReturning, HandshakeRejected, RecoverSends, RecoverExceeded,
                RedialStops, ConnectFails, Close, Fatal, client, outbound, inbound
  <2> QED
    BY <1>1, <2>1 DEF FirstOK, outbound, inbound, next
<1> QED
  BY <1>2, <1>3, <1>4, <1>5, <1>6, ServerStepFrame
     DEF Next, ServerStep, ClientConnects, LinkWriter, LinkReader, vars

(* A client is rejected only before its session is established. *)
LEMMA RejectedOK ==
  ASSUME Inv, HandshakeRejected
  PROVE  status' = "rejected" => first
<1>1. sup = "response" /\ (status = "rejected" => sup = "done")
  BY DEF HandshakeRejected, Inv, ReaderOK
<1>2. link \in Links
  BY <1>1, LinkIsOpen
<1>3. Responding(serve[link], up[link], down[link], sflushed[link], Len(accepted), first, sent)
  BY <1>1 DEF Inv, TalkOK, Talk
<1>4. CASE HasMsg(down[link], "new") /\ ~first
  <2>1. down[link] # <<>> /\ Head(down[link]).type = "new"
    BY <1>4 DEF HasMsg
  <2>2. down[link] \in Seq(Messages)
    BY <1>2, Typed
  <2>3. Head(down[link]) = down[link][1]
    BY <2>1, <2>2
  <2>4. NewFlow(down[link], first, sent)
    BY <1>3, <2>1, <2>3 DEF Responding, ReturningFlow
  <2> QED
    BY <2>4 DEF NewFlow
<1>5. CASE HasMsg(down[link], "invalid") /\ Fatal(IF first THEN "rejected" ELSE "ended")
  BY <1>1, <1>5 DEF Fatal, Open
<1> QED
  BY <1>4, <1>5 DEF HandshakeRejected

(* The reader's queues, and the causes Conn.ctx ends with. *)
LEMMA ReaderStep ==
  ASSUME Inv, [Next]_vars, sent' \in Nat, sent <= sent'
  PROVE  ReaderOK' /\ status' # "integrity" /\ (status' = "rejected" => first')
<1>1. /\ ReaderOK /\ status # "integrity" /\ (status = "rejected" => first)
      /\ recvSeq \in Nat /\ sent \in Nat /\ todo \in Seq(Nat)
      /\ sup \in Phases
  BY Typed DEF Inv, NoIntegrityFailure, TypeOK, Packets
<1> USE DEF ReaderOK
<1>2. CASE ReadCatchup \/ ReadFrame
  <2>1. /\ sup = "link" /\ recvSeq' = recvSeq + 1 /\ UNCHANGED status /\ recvSeq + 1 <= sent
    BY <1>2, DeliverOK
  <2>2. UNCHANGED <<sup, first>>
    BY <1>2 DEF ReadCatchup, ReadFrame
  <2>3. \A i \in 1 .. Len(todo') : todo'[i] = recvSeq + 1 + i - 1
    <3>1. CASE ReadCatchup
      <4>1. todo # <<>> /\ todo' = Tail(todo)
        BY <3>1 DEF ReadCatchup
      <4>2. /\ Len(todo) \in Nat /\ Len(todo') = Len(todo) - 1
            /\ \A i \in 1 .. Len(todo) - 1 : todo'[i] = todo[i + 1]
        BY <1>1, <4>1, Taken
      <4>3. \A i \in 1 .. Len(todo) : todo[i] = recvSeq + i - 1
        BY <1>1, <2>1
      <4> QED
        BY <1>1, <4>2, <4>3
    <3>2. CASE ReadFrame
      BY <3>2 DEF ReadFrame
    <3> QED
      BY <1>2, <3>1, <3>2
  <2> QED
    BY <1>1, <2>1, <2>2, <2>3
<1>3. CASE RecoverCommits
  <2>1. /\ sup = "catchup" /\ sup' = "link" /\ first' = FALSE /\ UNCHANGED <<status, recvSeq, hand>>
    BY <1>3 DEF RecoverCommits, RecoverCommitsAt
  <2>2. \A i \in 1 .. Len(todo') : todo'[i] = recvSeq + i - 1
    BY <1>3, CommitOK
  <2> QED
    BY <1>1, <2>1, <2>2
<1>4. CASE HandshakeRejected
  <2>1. /\ sup' = "done" /\ sup = "response" /\ UNCHANGED <<first, recvSeq, todo, hand>>
        /\ status' \in {status, "rejected", "ended"}
    BY <1>4 DEF HandshakeRejected, Fatal, inbound
  <2> QED
    BY <1>1, <1>4, <2>1, RejectedOK
<1>5. CASE RecoverExceeded
  <2>1. /\ sup' = "done" /\ sup = "seq" /\ UNCHANGED <<first, recvSeq, todo, hand>>
        /\ status' \in {status, "exceeded"}
    BY <1>5 DEF RecoverExceeded, Fatal, inbound
  <2> QED
    BY <1>1, <2>1
<1>6. CASE HandshakeNew
  <2>1. sup = "response" /\ sup' = "link" /\ first' = FALSE /\ UNCHANGED <<status, recvSeq, todo, hand>>
    BY <1>6 DEF HandshakeNew, inbound
  <2> QED
    BY <1>1, <2>1
<1>7. CASE LinkFails
  <2>1. /\ sup = "link" /\ sup' \in {"dial", "done"} /\ todo' = <<>> /\ hand' = <<>>
        /\ UNCHANGED <<first, recvSeq, status>>
    BY <1>7 DEF LinkFails
  <2> QED
    BY <1>1, <2>1
<1>8. CASE Close
  BY <1>1, <1>8 DEF Close, inbound, Open
<1>9. CASE Dial \/ HandshakeReturning \/ RecoverSends \/ RedialStops \/ ConnectFails
  <2>1. /\ sup \in {"dial", "response", "seq", "catchup"}
        /\ sup' \in {"dial", "response", "seq", "catchup", "done"}
        /\ UNCHANGED <<status, first, recvSeq, todo, hand>>
    BY <1>9 DEF Dial, HandshakeReturning, RecoverSends, RedialStops, ConnectFails, inbound
  <2>2. sup = "dial" /\ sup' # "done" => status # "rejected"
    BY <1>1
  <2> QED
    BY <1>1, <2>1
<1>10. CASE \/ LinkPuts \/ LinkCommits \/ HandOver \/ HandOverPending \/ WritePacket
            \/ ReadPacket \/ ReadTail \/ UNCHANGED client
  <2>1. UNCHANGED <<recvSeq, todo, sup, first, status>> /\ hand' \in {hand, <<>>}
    BY <1>10 DEF LinkPuts, LinkCommits, HandOver, HandOverPending, WritePacket,
                 ReadPacket, ReadTail, session, inbound, client
  <2> QED
    BY <1>1, <2>1
<1> QED
  BY <1>2, <1>3, <1>4, <1>5, <1>6, <1>7, <1>8, <1>9, <1>10, ServerStepFrame
     DEF Next, ServerStep, ClientConnects, LinkWriter, LinkReader, vars
-----------------------------------------------------------------------------
(***************************************************************************)
(* What the messages in flight are worth after a step of the client.       *)
(***************************************************************************)
WireInv == WiresOK /\ DialOK /\ KnownOK /\ UpOK /\ TalkOK

(* A queue of links with one of them replaced. *)
LEMMA Replaced ==
  ASSUME NEW w \in [Links -> Seq(Messages)], NEW l \in Links, NEW q \in Seq(Messages)
  PROVE  /\ [w EXCEPT ![l] = q] \in [Links -> Seq(Messages)]
         /\ [w EXCEPT ![l] = q][l] = q
         /\ \A k \in Links : k # l => [w EXCEPT ![l] = q][k] = w[k]
OBVIOUS

(* What writing to a link does. *)
LEMMA ToServerFacts ==
  ASSUME WiresOK, NEW l \in Links, NEW m \in Messages
  PROVE  /\ ToServer(l, m) = [up EXCEPT ![l] = Sent(serve[l], up[l], m)]
         /\ Sent(serve[l], up[l], m) \in Seq(Messages)
<1>1. up \in [Links -> Seq(Messages)] /\ up[l] \in Seq(Messages)
  BY DEF WiresOK
<1>2. Append(up[l], m) \in Seq(Messages)
  BY <1>1
<1>3. [up EXCEPT ![l] = up[l]] = up
  BY <1>1
<1> QED
  BY <1>1, <1>2, <1>3 DEF ToServer, Sent

(* What the server writes reaches the client while it has the link. *)
LEMMA ToClientFacts ==
  ASSUME WiresOK, NEW l \in Links, NEW m \in Messages
  PROVE  /\ link = l => ToClient(l, m) = [down EXCEPT ![l] = Append(down[l], m)]
         /\ link # l => ToClient(l, m) = down
         /\ Append(down[l], m) \in Seq(Messages)
<1>1. down[l] \in Seq(Messages)
  BY DEF WiresOK
<1> QED
  BY <1>1 DEF ToClient

(* The client talks on its link: it replaces its two queues there. *)
LEMMA ClientTalks ==
  ASSUME Inv, link \in Links, known, UNCHANGED <<server, link, dialed, next>>,
         sup \in {"response", "seq", "catchup", "link"},
         sup' \in {"response", "seq", "catchup", "link"},
         NEW q \in Seq(Messages), NEW d \in Seq(Messages),
         up' = [up EXCEPT ![link] = q], down' = [down EXCEPT ![link] = d],
         UpShape(serve[link], q, Len(accepted), next, sent),
         Talk(sup', serve[link], q, d, sflushed[link], Len(accepted), first',
              recvSeq', snap', recvSeq' + Len(todo'), put', sent)
  PROVE  WireInv'
<1>1. /\ up' \in [Links -> Seq(Messages)] /\ up'[link] = q
      /\ \A k \in Links : k # link => up'[k] = up[k]
  BY Replaced DEF Inv, WiresOK
<1>2. /\ down' \in [Links -> Seq(Messages)] /\ down'[link] = d
      /\ \A k \in Links : k # link => down'[k] = down[k]
  BY Replaced DEF Inv, WiresOK
<1>3. UNCHANGED <<serve, sflushed, accepted, sent, known>>
  BY DEF server
<1>4. WiresOK'
  BY <1>1, <1>2 DEF WiresOK
<1>5. DialOK'
  <2>1. DialOK /\ link \in Nat /\ dialed \in Nat
    BY DEF Inv, TypeOK, Links
  <2>2. \A k \in Links : k > dialed => k # link
    BY <2>1 DEF DialOK, Links
  <2> QED
    BY <1>1, <1>2, <1>3, <2>1, <2>2 DEF DialOK, Links
<1>6. KnownOK'
  BY <1>3 DEF KnownOK
<1>7. UpOK'
  <2>1. UpOK
    BY DEF Inv
  <2>2. ASSUME NEW k \in Links PROVE UpShape(serve'[k], up'[k], Len(accepted'), next', sent')
    <3>1. CASE k = link
      BY <1>1, <1>3, <3>1
    <3>2. CASE k # link
      BY <1>1, <1>3, <2>1, <3>2 DEF UpOK
    <3> QED
      BY <3>1, <3>2
  <2> QED
    BY <2>2 DEF UpOK
<1>8. TalkOK'
  BY <1>1, <1>2, <1>3 DEF TalkOK
<1> QED
  BY <1>4, <1>5, <1>6, <1>7, <1>8 DEF WireInv

(* The client gives its link up. *)
LEMMA ClientDrops ==
  ASSUME Inv, sup \in {"response", "seq", "catchup", "link"}, sup' \in {"dial", "done"}, Drop,
         UNCHANGED <<server, up, dialed, first, next>>
  PROVE  WireInv'
<1>1. link \in Links /\ link' = 0
  BY LinkIsOpen DEF Drop
<1>2. /\ down' \in [Links -> Seq(Messages)] /\ down'[link] = <<>>
      /\ \A k \in Links : k # link => down'[k] = down[k]
  <2>1. <<>> \in Seq(Messages) /\ down \in [Links -> Seq(Messages)]
    BY DEF Inv, WiresOK
  <2> QED
    BY <1>1, <2>1, Replaced DEF Drop
<1>3. UNCHANGED <<serve, sflushed, accepted, sent, known, cur>>
  BY DEF server
<1>4. WiresOK'
  BY <1>2 DEF WiresOK, Inv
<1>5. DialOK'
  <2>1. DialOK /\ dialed \in Nat
    BY DEF Inv, TypeOK
  <2>2. \A k \in Links : down'[k] = <<>>
    BY <1>2, <2>1 DEF DialOK
  <2>3. link' <= dialed' /\ (link' = 0 <=> sup' \in {"dial", "done"})
    BY <1>1, <2>1
  <2> QED
    BY <1>3, <2>1, <2>2, <2>3 DEF DialOK
<1>6. KnownOK'
  BY <1>2, <1>3 DEF KnownOK, Inv, DialOK
<1>7. UpOK'
  BY <1>3 DEF UpOK, Inv
<1>8. TalkOK'
  BY DEF TalkOK, Talk
<1> QED
  BY <1>4, <1>5, <1>6, <1>7, <1>8 DEF WireInv

(* A step that leaves the links alone. *)
LEMMA LinksUntouched ==
  ASSUME Inv, UNCHANGED <<serve, sflushed, accepted, sent, known, cur, up, down>>,
         UNCHANGED <<link, dialed, first, snap>>, next' \in Nat, next <= next',
         (sup' = sup /\ put' = put) \/ (sup = "dial" /\ sup' = "done"),
         recvSeq' = recvSeq \/ sup = "link",
         recvSeq' + Len(todo') = recvSeq + Len(todo)
  PROVE  WireInv'
<1>1. WiresOK' /\ DialOK' /\ KnownOK'
  BY DEF Inv, WiresOK, DialOK, KnownOK
<1>2. UpOK'
  <2>1. /\ next \in Nat /\ sent \in Nat /\ Len(accepted) \in Nat
        /\ \A k \in Links : serve[k] \in Places /\ up[k] \in Seq(Messages)
    BY Typed
  <2>2. \A k \in Links : UpShape(serve[k], up[k], Len(accepted), next, sent)
    BY DEF Inv, UpOK
  <2>3. ASSUME NEW k \in Links PROVE UpShape(serve[k], up[k], Len(accepted), next', sent)
    BY <2>1, <2>2, UpShapeKept
  <2> QED
    BY <2>3 DEF UpOK
<1>3. TalkOK'
  <2>1. TalkOK
    BY DEF Inv
  <2>2. CASE sup = "dial" /\ sup' = "done"
    BY <2>2 DEF TalkOK, Talk
  <2>3. CASE sup' = sup /\ put' = put /\ recvSeq' = recvSeq
    BY <2>1, <2>3 DEF TalkOK
  <2>4. CASE sup' = sup /\ put' = put /\ sup = "link"
    BY <2>1, <2>4 DEF TalkOK, Talk
  <2> QED
    BY <2>2, <2>3, <2>4
<1> QED
  BY <1>1, <1>2, <1>3 DEF WireInv

(* Each message of the client. *)
LEMMA DialWires ==
  ASSUME Inv, Dial
  PROVE  WireInv'
<1> DEFINE l == dialed + 1
           m == Msg("request", 0, 0)
<1>1. /\ sup = "dial" /\ dialed < MaxLinks /\ dialed' = l /\ link' = l /\ sup' = "response"
      /\ up' = ToServer(l, m)
      /\ UNCHANGED <<outbound, inbound, first, snap, peer, status, down, server>>
  BY DEF Dial
<1>2. dialed \in Nat /\ MaxLinks \in Nat /\ l \in Links /\ l > dialed /\ link = 0
  BY <1>1, BoundAssumption DEF Inv, TypeOK, Links, DialOK
<1>3. serve[l] = "request" /\ up[l] = <<>> /\ down[l] = <<>>
  BY <1>2 DEF Inv, DialOK, Links
<1>4. m \in Messages /\ m.type = "request"
  <2>1. "request" \in Types /\ 0 \in Nat
    BY DEF Types
  <2> QED
    BY <2>1, MsgFacts
<1> DEFINE q == Append(up[l], m)
<1>5. q \in Seq(Messages) /\ q = <<m>> /\ Len(q) = 1 /\ q[1] = m
  BY <1>3, <1>4
<1> HIDE DEF m, l
<1>6. up' = [up EXCEPT ![l] = q]
  BY <1>1, <1>3 DEF ToServer
<1> HIDE DEF q
<1>7. /\ up' \in [Links -> Seq(Messages)] /\ up'[l] = q
      /\ \A k \in Links : k # l => up'[k] = up[k]
  BY <1>2, <1>5, <1>6, Replaced DEF Inv, WiresOK
<1>8. UNCHANGED <<serve, sflushed, accepted, sent, known, cur, ring, recvSeq, todo, put>>
  BY <1>1 DEF server, outbound, inbound
<1>9. WiresOK'
  BY <1>1, <1>7 DEF Inv, WiresOK
<1>10. DialOK'
  <2>1. l = dialed + 1
    BY DEF l
  <2>2. DialOK
    BY DEF Inv
  <2>3. \A k \in Links : k > l => k > dialed /\ k # l
    BY <1>2, <2>1 DEF Links
  <2>4. \A k \in Links : k > dialed' => serve'[k] = "request" /\ up'[k] = <<>>
    BY <1>1, <1>7, <1>8, <2>2, <2>3 DEF DialOK
  <2>5. \A k \in Links : k # link' => down'[k] = <<>>
    BY <1>1, <1>2, <2>2 DEF DialOK, Links
  <2>6. dialed' <= MaxLinks /\ link' <= dialed' /\ link' # 0
    BY <1>1, <1>2, <2>1 DEF Links
  <2> QED
    BY <1>1, <2>4, <2>5, <2>6 DEF DialOK
<1>11. KnownOK'
  BY <1>1, <1>8 DEF Inv, KnownOK
<1>12. UpShape("request", q, Len(accepted), next, sent)
  BY <1>4, <1>5 DEF UpShape
<1>13. UpOK'
  <2>1. ASSUME NEW k \in Links PROVE UpShape(serve'[k], up'[k], Len(accepted'), next', sent')
    <3>1. CASE k = l
      BY <1>3, <1>7, <1>8, <1>12, <3>1 DEF next
    <3>2. CASE k # l
      BY <1>7, <1>8, <3>2 DEF Inv, UpOK, next
    <3> QED
      BY <3>1, <3>2
  <2> QED
    BY <2>1 DEF UpOK
<1>14. Responding("request", q, <<>>, sflushed[l], Len(accepted), first, sent)
  BY DEF Responding
<1>15. TalkOK'
  BY <1>1, <1>3, <1>7, <1>8, <1>14 DEF TalkOK, Talk
<1> QED
  BY <1>9, <1>10, <1>11, <1>13, <1>15 DEF WireInv

(* What the lemmas on the client's messages ask for. *)
LEMMA OnLink ==
  ASSUME Inv, sup \in {"response", "seq", "catchup", "link"}
  PROVE  /\ link \in Links /\ serve[link] \in Places /\ up[link] \in Seq(Messages)
         /\ down[link] \in Seq(Messages) /\ sflushed[link] \in Nat
         /\ (serve[link] = "new" => sflushed[link] = 0)
         /\ UpShape(serve[link], up[link], Len(accepted), next, sent)
         /\ up = [up EXCEPT ![link] = up[link]] /\ down = [down EXCEPT ![link] = down[link]]
         /\ sup # "response" => known
<1>1. link \in Links
  BY LinkIsOpen
<1>2. up = [up EXCEPT ![link] = up[link]] /\ down = [down EXCEPT ![link] = down[link]]
  BY <1>1 DEF Inv, WiresOK
<1>3. /\ (serve[link] = "new" => sflushed[link] = 0)
      /\ UpShape(serve[link], up[link], Len(accepted), next, sent)
      /\ sup # "response" => known
  BY <1>1 DEF Inv, UnusedOK, UpOK, KnownOK
<1> QED
  BY <1>1, <1>2, <1>3, Typed

(* NEW_CLIENT: the link is up at once. *)
LEMMA HandshakeNewWires ==
  ASSUME Inv, HandshakeNew
  PROVE  WireInv'
<1> DEFINE d == down[link]
<1>1. /\ sup = "response" /\ sup' = "link" /\ d # <<>> /\ Head(d).type = "new" /\ first
      /\ down' = [down EXCEPT ![link] = Tail(d)]
      /\ UNCHANGED <<outbound, inbound, snap, peer, status, link, dialed, up, server>>
  BY DEF HandshakeNew, HasMsg, Rest
<1>2. /\ link \in Links /\ serve[link] \in Places /\ up[link] \in Seq(Messages)
      /\ d \in Seq(Messages) /\ sflushed[link] \in Nat
      /\ (serve[link] = "new" => sflushed[link] = 0)
      /\ UpShape(serve[link], up[link], Len(accepted), next, sent)
      /\ up = [up EXCEPT ![link] = up[link]]
  BY <1>1, OnLink
<1>3. Len(accepted) \in Nat /\ sent \in Nat /\ first \in BOOLEAN /\ next \in Nat
  BY Typed
<1>4. put = 0 /\ recvSeq = 0 /\ todo = <<>> /\ Len(todo) = 0
  BY <1>1 DEF Inv, FirstOK
<1>5. Responding(serve[link], up[link], d, sflushed[link], Len(accepted), first, sent)
  BY <1>1 DEF Inv, TalkOK, Talk
<1>6. known
  <2>1. d[1].type = "new"
    BY <1>1, <1>2
  <2> QED
    BY <1>1, <1>2, <2>1 DEF Inv, KnownOK
<1> HIDE DEF d
<1>7. Tail(d) \in Seq(Messages)
  BY <1>1, <1>2, Taken
<1>8. Linked(serve[link], up[link], Tail(d), sflushed[link], Len(accepted), 0, 0, sent)
  BY <1>1, <1>2, <1>3, <1>5, HandshakeNewFlow
<1>9. UNCHANGED <<put, recvSeq, todo, ring, next>>
  BY <1>1 DEF outbound, inbound, next
<1>10. recvSeq' + Len(todo') = 0
  BY <1>4, <1>9
<1>11. Talk(sup', serve[link], up[link], Tail(d), sflushed[link], Len(accepted), first',
            recvSeq', snap', recvSeq' + Len(todo'), put', sent)
  BY <1>1, <1>4, <1>8, <1>9, <1>10 DEF Talk
<1> QED
  BY <1>1, <1>2, <1>6, <1>7, <1>9, <1>11, ClientTalks

(* RETURNING_CLIENT: the client states its position. *)
LEMMA HandshakeReturningWires ==
  ASSUME Inv, HandshakeReturning
  PROVE  WireInv'
<1> DEFINE d == down[link]
           q == Sent(serve[link], up[link], Msg("seq", recvSeq, 0))
<1>1. /\ sup = "response" /\ sup' = "seq" /\ d # <<>> /\ Head(d).type = "returning"
      /\ down' = [down EXCEPT ![link] = Tail(d)]
      /\ up' = ToServer(link, Msg("seq", recvSeq, 0))
      /\ UNCHANGED <<outbound, inbound, first, snap, peer, status, link, dialed, server>>
  BY DEF HandshakeReturning, HasMsg, Rest
<1>2. /\ link \in Links /\ serve[link] \in Places /\ up[link] \in Seq(Messages)
      /\ d \in Seq(Messages) /\ sflushed[link] \in Nat
      /\ UpShape(serve[link], up[link], Len(accepted), next, sent)
  BY <1>1, OnLink
<1>3. /\ Len(accepted) \in Nat /\ sent \in Nat /\ first \in BOOLEAN /\ next \in Nat
      /\ recvSeq \in Nat /\ recvSeq <= sent /\ WiresOK
  BY Typed DEF Inv, ReaderOK
<1>4. Responding(serve[link], up[link], d, sflushed[link], Len(accepted), first, sent)
  BY <1>1 DEF Inv, TalkOK, Talk
<1>5. known
  <2>1. d[1].type = "returning"
    BY <1>1, <1>2
  <2> QED
    BY <1>1, <1>2, <2>1 DEF Inv, KnownOK
<1>6. Msg("seq", recvSeq, 0) \in Messages
  <2>1. "seq" \in Types /\ 0 \in Nat
    BY DEF Types
  <2> QED
    BY <1>3, <2>1, MsgFacts
<1>7. up' = [up EXCEPT ![link] = q] /\ q \in Seq(Messages)
  BY <1>1, <1>2, <1>3, <1>6, ToServerFacts
<1> HIDE DEF d
<1>8. Tail(d) \in Seq(Messages)
  BY <1>1, <1>2, Taken
<1>9. /\ UpShape(serve[link], q, Len(accepted), next, sent)
      /\ Stating(serve[link], q, Tail(d), sflushed[link], Len(accepted), recvSeq, sent)
  BY <1>1, <1>2, <1>3, <1>4, HandshakeReturningFlow
<1> HIDE DEF q
<1>10. UNCHANGED <<recvSeq, next>>
  BY <1>1 DEF outbound, inbound, next
<1>11. Talk(sup', serve[link], q, Tail(d), sflushed[link], Len(accepted), first',
            recvSeq', snap', recvSeq' + Len(todo'), put', sent)
  BY <1>1, <1>9, <1>10 DEF Talk
<1> QED
  BY <1>1, <1>2, <1>5, <1>7, <1>8, <1>9, <1>10, <1>11, ClientTalks

(* The server stated its position: the client sends its catchup. *)
LEMMA RecoverSendsWires ==
  ASSUME Inv, RecoverSends
  PROVE  WireInv'
<1> DEFINE d == down[link]
           m == Msg("catchup", Head(d).a, next)
           q == Sent(serve[link], up[link], m)
<1>1. /\ sup = "seq" /\ sup' = "catchup" /\ d # <<>> /\ Since(ring, Head(d).a, next)
      /\ down' = [down EXCEPT ![link] = Tail(d)]
      /\ up' = ToServer(link, m) /\ snap' = next
      /\ UNCHANGED <<outbound, inbound, first, status, link, dialed, server>>
  BY DEF RecoverSends, HasMsg, Rest
<1>2. /\ link \in Links /\ serve[link] \in Places /\ up[link] \in Seq(Messages)
      /\ d \in Seq(Messages) /\ sflushed[link] \in Nat
      /\ UpShape(serve[link], up[link], Len(accepted), next, sent) /\ known
  BY <1>1, OnLink
<1>3. /\ Len(accepted) \in Nat /\ sent \in Nat /\ next \in Nat /\ recvSeq \in Nat /\ WiresOK
  BY Typed DEF Inv
<1>4. Stating(serve[link], up[link], d, sflushed[link], Len(accepted), recvSeq, sent)
  BY <1>1 DEF Inv, TalkOK, Talk
<1>5. Head(d).a <= next
  BY <1>1 DEF Since
<1> HIDE DEF d
<1>6. /\ Head(d).a \in Nat
      /\ UpShape(serve[link], q, Len(accepted), next, sent)
      /\ Catching(serve[link], q, Tail(d), sflushed[link], Len(accepted), recvSeq, next, sent)
  BY <1>1, <1>2, <1>3, <1>4, <1>5, RecoverSendsFlow
<1>7. m \in Messages
  <2>1. "catchup" \in Types
    BY DEF Types
  <2> QED
    BY <1>3, <1>6, <2>1, MsgFacts
<1> HIDE DEF m
<1>8. up' = [up EXCEPT ![link] = q] /\ q \in Seq(Messages)
  BY <1>1, <1>2, <1>3, <1>7, ToServerFacts
<1>9. Tail(d) \in Seq(Messages)
  BY <1>1, <1>2, Taken
<1> HIDE DEF q
<1>10. UNCHANGED <<recvSeq, next>>
  BY <1>1 DEF outbound, inbound, next
<1>11. Talk(sup', serve[link], q, Tail(d), sflushed[link], Len(accepted), first',
            recvSeq', snap', recvSeq' + Len(todo'), put', sent)
  BY <1>1, <1>6, <1>10 DEF Talk
<1> QED
  BY <1>1, <1>2, <1>6, <1>8, <1>9, <1>10, <1>11, ClientTalks

(* The server's catchup arrived: the link is up from the snapshot on. *)
LEMMA RecoverCommitsWires ==
  ASSUME Inv, RecoverCommits
  PROVE  WireInv'
<1> DEFINE d == down[link]
<1>1. /\ d # <<>> /\ down' = [down EXCEPT ![link] = Tail(d)] /\ sup = "catchup"
      /\ UNCHANGED <<recvSeq, link, dialed, up, server>>
  BY DEF RecoverCommits, RecoverCommitsAt, HasMsg, Rest
<1>2. /\ link \in Links /\ sup' = "link" /\ put' = snap
      /\ Head(d).b \in Nat /\ recvSeq <= Head(d).b /\ Len(todo') = Head(d).b - recvSeq
      /\ Linked(serve[link], up[link], Tail(d), sflushed[link], Len(accepted), Head(d).b,
                snap, sent)
  BY CommitOK
<1>3. /\ up[link] \in Seq(Messages) /\ d \in Seq(Messages) /\ known
      /\ UpShape(serve[link], up[link], Len(accepted), next, sent)
      /\ up = [up EXCEPT ![link] = up[link]]
  BY <1>1, OnLink
<1>4. recvSeq \in Nat
  BY Typed
<1> HIDE DEF d
<1>5. Tail(d) \in Seq(Messages)
  BY <1>1, <1>3, Taken
<1>6. recvSeq' + Len(todo') = Head(d).b
  BY <1>1, <1>2, <1>4
<1>7. Talk(sup', serve[link], up[link], Tail(d), sflushed[link], Len(accepted), first',
           recvSeq', snap', recvSeq' + Len(todo'), put', sent)
  BY <1>2, <1>6 DEF Talk
<1> QED
  BY <1>1, <1>2, <1>3, <1>5, <1>7, RecoverCommitsRing, ClientTalks

(* The client's writer puts the next packet on the link. *)
LEMMA LinkPutsWires ==
  ASSUME Inv, LinkPuts
  PROVE  WireInv'
<1> DEFINE m == Msg("frame", put, 0)
           q == Sent(serve[link], up[link], m)
<1>1. /\ sup = "link" /\ put < next /\ up' = ToServer(link, m) /\ put' = put + 1
      /\ UNCHANGED <<ring, inbound, session, down, server>>
  BY DEF LinkPuts
<1>2. /\ link \in Links /\ serve[link] \in Places /\ up[link] \in Seq(Messages)
      /\ down[link] \in Seq(Messages) /\ sflushed[link] \in Nat
      /\ UpShape(serve[link], up[link], Len(accepted), next, sent) /\ known
      /\ down = [down EXCEPT ![link] = down[link]]
  BY <1>1, OnLink
<1>3. /\ Len(accepted) \in Nat /\ sent \in Nat /\ next \in Nat /\ put \in Nat
      /\ recvSeq + Len(todo) \in Nat /\ WiresOK
  BY Typed DEF Inv
<1>4. Linked(serve[link], up[link], down[link], sflushed[link], Len(accepted),
             recvSeq + Len(todo), put, sent)
  BY <1>1 DEF Inv, TalkOK, Talk
<1>5. m \in Messages
  <2>1. "frame" \in Types /\ 0 \in Nat
    BY DEF Types
  <2> QED
    BY <1>3, <2>1, MsgFacts
<1>6. up' = [up EXCEPT ![link] = q] /\ q \in Seq(Messages)
  BY <1>1, <1>2, <1>3, <1>5, ToServerFacts
<1>7. /\ UpShape(serve[link], q, Len(accepted), next, sent)
      /\ Linked(serve[link], q, down[link], sflushed[link], Len(accepted),
                recvSeq + Len(todo), put + 1, sent)
  BY <1>1, <1>2, <1>3, <1>4, LinkPutsFlow
<1> HIDE DEF m, q
<1>8. UNCHANGED <<recvSeq, todo, next, link, dialed, sup>>
  BY <1>1 DEF inbound, session, next
<1>9. Talk(sup', serve[link], q, down[link], sflushed[link], Len(accepted), first',
           recvSeq', snap', recvSeq' + Len(todo'), put', sent)
  BY <1>1, <1>7, <1>8 DEF Talk
<1> QED
  BY <1>1, <1>2, <1>6, <1>7, <1>8, <1>9, ClientTalks

(* The client's reader takes a frame off the link. *)
LEMMA ReadFrameWires ==
  ASSUME Inv, ReadFrame
  PROVE  WireInv'
<1> DEFINE d == down[link]
<1>1. /\ sup = "link" /\ todo = <<>> /\ d # <<>> /\ down' = [down EXCEPT ![link] = Tail(d)]
      /\ UNCHANGED <<put, todo, sup, first, snap, link, dialed, up, server>>
  BY DEF ReadFrame, ReaderIdle, HasMsg, Rest
<1>2. recvSeq' = recvSeq + 1
  BY DeliverOK
<1>3. /\ link \in Links /\ serve[link] \in Places /\ up[link] \in Seq(Messages)
      /\ d \in Seq(Messages) /\ sflushed[link] \in Nat
      /\ UpShape(serve[link], up[link], Len(accepted), next, sent) /\ known
      /\ up = [up EXCEPT ![link] = up[link]]
  BY <1>1, OnLink
<1>4. /\ Len(accepted) \in Nat /\ sent \in Nat /\ put \in Nat /\ recvSeq \in Nat
      /\ recvSeq + Len(todo) \in Nat
  BY Typed
<1>5. Linked(serve[link], up[link], d, sflushed[link], Len(accepted),
             recvSeq + Len(todo), put, sent)
  BY <1>1 DEF Inv, TalkOK, Talk
<1> HIDE DEF d
<1>6. Tail(d) \in Seq(Messages)
  BY <1>1, <1>3, Taken
<1>7. Linked(serve[link], up[link], Tail(d), sflushed[link], Len(accepted),
             recvSeq + Len(todo) + 1, put, sent)
  BY <1>1, <1>3, <1>4, <1>5, ReadFrameFlow
<1>8. recvSeq' + Len(todo') = recvSeq + Len(todo) + 1
  BY <1>1, <1>2, <1>4
<1>9. Talk(sup', serve[link], up[link], Tail(d), sflushed[link], Len(accepted), first',
           recvSeq', snap', recvSeq' + Len(todo'), put', sent)
  BY <1>1, <1>7, <1>8 DEF Talk
<1> QED
  BY <1>1, <1>3, <1>6, <1>9, ReadFrameRing, ClientTalks

(* The links after any step of the client. *)
LEMMA ClientWires ==
  ASSUME Inv, ClientStep
  PROVE  WireInv'
<1>1. [Next]_vars
  BY DEF ClientStep, Next
<1>2. next \in Nat /\ next' \in Nat /\ next <= next'
  BY <1>1, OutboundStep, RingFacts, Typed DEF next
<1>3. UNCHANGED server
  BY ClientStepFrame
<1>4. UNCHANGED <<serve, sflushed, accepted, sent, known, cur>>
  BY <1>3 DEF server
<1>5. CASE HandshakeRejected \/ RecoverExceeded
  <2>1. /\ sup \in {"response", "seq"} /\ sup' = "done" /\ Drop
        /\ UNCHANGED <<ring, up, dialed, first>>
    BY <1>5 DEF HandshakeRejected, RecoverExceeded, Fatal, outbound
  <2> QED
    BY <1>3, <2>1, ClientDrops DEF next
<1>6. CASE ConnectFails \/ LinkFails
  <2>1. /\ sup \in {"response", "seq", "catchup", "link"} /\ sup' \in {"dial", "done"} /\ Drop
        /\ UNCHANGED <<ring, up, dialed, first>>
    BY <1>6 DEF ConnectFails, LinkFails, outbound
  <2> QED
    BY <1>3, <2>1, ClientDrops DEF next
<1>7. CASE ReadCatchup
  <2>1. sup = "link" /\ recvSeq' = recvSeq + 1 /\ todo # <<>> /\ todo' = Tail(todo)
    BY <1>7, DeliverOK DEF ReadCatchup
  <2>2. todo \in Seq(Nat) /\ recvSeq \in Nat
    BY DEF Inv, TypeOK, Packets
  <2>3. Len(todo') = Len(todo) - 1 /\ Len(todo) \in Nat
    BY <2>1, <2>2, Taken
  <2>4. recvSeq' + Len(todo') = recvSeq + Len(todo)
    BY <2>1, <2>2, <2>3
  <2>5. UNCHANGED <<sup, put>> /\ UNCHANGED <<up, down>> /\ UNCHANGED <<link, dialed, first, snap>>
    BY <1>7 DEF ReadCatchup, wires, outbound
  <2> QED
    BY <1>2, <1>4, <2>1, <2>4, <2>5, LinksUntouched
<1>8. CASE \/ LinkCommits \/ HandOver \/ HandOverPending \/ WritePacket
           \/ ReadPacket \/ ReadTail \/ Close
  <2>1. /\ UNCHANGED <<up, down>> /\ UNCHANGED <<link, dialed, first, snap>>
        /\ UNCHANGED <<recvSeq, todo>> /\ UNCHANGED <<sup, put>>
    BY <1>8 DEF LinkCommits, HandOver, HandOverPending, WritePacket,
                ReadPacket, ReadTail, Close, wires, session, inbound, outbound
  <2> QED
    BY <1>2, <1>4, <2>1, LinksUntouched
<1>9. CASE RedialStops
  <2>1. /\ UNCHANGED <<up, down>> /\ UNCHANGED <<link, dialed, first, snap>>
        /\ UNCHANGED <<recvSeq, todo>> /\ sup = "dial" /\ sup' = "done"
    BY <1>9 DEF RedialStops, wires, inbound
  <2> QED
    BY <1>2, <1>4, <2>1, LinksUntouched
<1> QED
  BY <1>5, <1>6, <1>7, <1>8, <1>9, DialWires, HandshakeNewWires, HandshakeReturningWires,
     RecoverSendsWires, RecoverCommitsWires, LinkPutsWires, ReadFrameWires
     DEF ClientStep, ClientConnects, LinkWriter, LinkReader
-----------------------------------------------------------------------------
(***************************************************************************)
(* The steps of the server.                                                *)
(***************************************************************************)
ServerOK ==
  /\ sent \in Nat /\ accepted \in Packets /\ known \in BOOLEAN /\ registered \in BOOLEAN
  /\ cur \in Links \cup {0} /\ serve \in [Links -> Places]
  /\ sflushed \in [Links -> 0 .. sent] /\ garbled = FALSE
  /\ CurOK /\ NewOK /\ UnusedOK /\ AcceptedOK

(* The invariant holds of the server's own variables. *)
LEMMA ServerTyped ==
  ASSUME Inv
  PROVE  ServerOK
BY DEF Inv, TypeOK, ServerOK, Places, NoIntegrityFailure, Packets

(***************************************************************************)
(* Serve moves on link l: it replaces the link's queues and its own place. *)
(* It may end the Serve of other links.                                    *)
(***************************************************************************)
LEMMA ServeTakes ==
  ASSUME Inv, UNCHANGED client, UNCHANGED sent, NEW l \in Links, l <= dialed,
         NEW at \in Places, NEW q \in Seq(Messages), NEW d \in Seq(Messages), NEW f \in Nat,
         up' \in [Links -> Seq(Messages)], serve'[l] = at, up'[l] = q, sflushed'[l] = f,
         \A k \in Links : k # l =>
           \/ serve'[k] = serve[k] /\ up'[k] = up[k]
           \/ k <= dialed /\ serve'[k] = "done" /\ up'[k] = <<>>,
         \A k \in Links : k # l => sflushed'[k] = sflushed[k],
         down' = (IF link = l THEN [down EXCEPT ![l] = d] ELSE down),
         accepted' = accepted \/ (serve[l] \in Live /\ accepted' \in Packets),
         UpShape(at, q, Len(accepted'), next, sent),
         link = l => Talk(sup, at, q, d, f, Len(accepted'), first, recvSeq, snap,
                          recvSeq + Len(todo), put, sent),
         KnownOK'
  PROVE  WireInv'
<1>2. /\ down' \in [Links -> Seq(Messages)] /\ (link = l => down'[l] = d)
      /\ \A k \in Links : k # l \/ link # l => down'[k] = down[k]
  BY Replaced DEF Inv, WiresOK
<1>4. UNCHANGED <<link, dialed, sup, first, recvSeq, snap, todo, put>> /\ next' = next
  BY DEF client, next
<1>5. ASSUME NEW k \in Links, k # l
      PROVE  Len(accepted') = Len(accepted) \/ serve[k] \notin Live
  BY <1>5 DEF Inv, CurOK
<1>6. Len(accepted') \in Nat
  BY Typed DEF Packets
<1>7. WiresOK'
  BY <1>2 DEF WiresOK
<1>8. DialOK'
  <2>1. DialOK /\ dialed \in Nat /\ link \in Links \cup {0} /\ \A k \in Links : k \in Nat
    BY DEF Inv, TypeOK, Links
  <2>3. ASSUME NEW k \in Links, k > dialed PROVE serve'[k] = "request" /\ up'[k] = <<>>
    <3>1. k # l /\ ~(k <= dialed)
      BY <2>1, <2>3
    <3>2. serve'[k] = serve[k] /\ up'[k] = up[k]
      BY <3>1
    <3> QED
      BY <2>1, <2>3, <3>2 DEF DialOK
  <2>4. \A k \in Links : k # link' => down'[k] = <<>>
    BY <1>2, <1>4, <2>1 DEF DialOK
  <2> QED
    BY <1>4, <2>1, <2>3, <2>4 DEF DialOK
<1>9. UpOK'
  <2>1. ASSUME NEW k \in Links PROVE UpShape(serve'[k], up'[k], Len(accepted'), next', sent')
    <3>1. CASE k = l
      BY <1>4, <3>1
    <3>2. CASE k # l /\ serve'[k] = serve[k] /\ up'[k] = up[k]
      <4>1. UpShape(serve[k], up[k], Len(accepted), next, sent)
        BY DEF Inv, UpOK
      <4>2. UpShape(serve[k], up[k], Len(accepted'), next, sent)
        <5>1. /\ serve[k] \in Places /\ up[k] \in Seq(Messages) /\ Len(accepted) \in Nat
              /\ next \in Nat /\ sent \in Nat /\ next <= next /\ sent <= sent
          BY Typed
        <5>2. Len(accepted) = Len(accepted') \/ serve[k] \notin Live
          BY <1>5, <3>2
        <5> QED
          BY <1>6, <4>1, <5>1, <5>2, UpShapeKept
      <4> QED
        BY <1>4, <3>2, <4>2
    <3>3. CASE k # l /\ serve'[k] = "done" /\ up'[k] = <<>>
      BY <3>3, UpShapeDone
    <3> QED
      BY <3>1, <3>2, <3>3
  <2> QED
    BY <2>1 DEF UpOK
<1>10. TalkOK'
  <2>1. CASE link = l
    BY <1>2, <1>4, <2>1 DEF TalkOK
  <2>2. CASE link # l /\ link \in Links
    <3>1. /\ sup \in Phases /\ serve[link] \in Places /\ up[link] \in Seq(Messages)
          /\ down[link] \in Seq(Messages) /\ sflushed[link] \in Nat /\ Len(accepted) \in Nat
          /\ first \in BOOLEAN /\ recvSeq \in Nat /\ snap \in Nat
          /\ recvSeq + Len(todo) \in Nat /\ put \in Nat /\ sent \in Nat
      BY <2>2, Typed
    <3>2. Len(accepted') = Len(accepted) \/ serve[link] \notin Live
      BY <1>5, <2>2
    <3>3. Talk(sup, serve[link], up[link], down[link], sflushed[link], Len(accepted), first,
               recvSeq, snap, recvSeq + Len(todo), put, sent)
      BY DEF Inv, TalkOK
    <3>4. Talk(sup, serve[link], up[link], down[link], sflushed[link], Len(accepted'), first,
               recvSeq, snap, recvSeq + Len(todo), put, sent)
      BY <1>6, <3>1, <3>2, <3>3, TalkCounted
    <3>5. Talk(sup, "done", <<>>, down[link], sflushed[link], Len(accepted'), first,
               recvSeq, snap, recvSeq + Len(todo), put, sent)
      BY <1>6, <3>1, <3>3, TalkEnded
    <3>6. /\ down'[link] = down[link] /\ sflushed'[link] = sflushed[link]
          /\ \/ serve'[link] = serve[link] /\ up'[link] = up[link]
             \/ serve'[link] = "done" /\ up'[link] = <<>>
      BY <1>2, <2>2
    <3>7. CASE serve'[link] = serve[link] /\ up'[link] = up[link]
      BY <1>4, <3>4, <3>6, <3>7 DEF TalkOK
    <3>8. CASE serve'[link] = "done" /\ up'[link] = <<>>
      BY <1>4, <3>5, <3>6, <3>8 DEF TalkOK
    <3> QED
      BY <3>6, <3>7, <3>8
  <2>3. CASE link = 0
    BY <1>4, <2>3 DEF Inv, DialOK, TalkOK, Talk
  <2> QED
    BY <2>1, <2>2, <2>3 DEF Inv, TypeOK
<1> QED
  BY <1>7, <1>8, <1>9, <1>10 DEF WireInv

(* The same, when no other Serve ends. *)
LEMMA ServeTalks ==
  ASSUME Inv, UNCHANGED client, UNCHANGED sent, NEW l \in Links, l <= dialed,
         NEW at \in Places, NEW q \in Seq(Messages), NEW d \in Seq(Messages), NEW f \in Nat,
         serve' = [serve EXCEPT ![l] = at], up' = [up EXCEPT ![l] = q],
         down' = (IF link = l THEN [down EXCEPT ![l] = d] ELSE down),
         sflushed' = [sflushed EXCEPT ![l] = f],
         accepted' = accepted \/ (serve[l] \in Live /\ accepted' \in Packets),
         UpShape(at, q, Len(accepted'), next, sent),
         link = l => Talk(sup, at, q, d, f, Len(accepted'), first, recvSeq, snap,
                          recvSeq + Len(todo), put, sent),
         KnownOK'
  PROVE  WireInv'
<1>1. /\ up' \in [Links -> Seq(Messages)] /\ up'[l] = q
      /\ \A k \in Links : k # l => up'[k] = up[k]
  BY Replaced DEF Inv, WiresOK
<1>2. /\ serve'[l] = at /\ sflushed'[l] = f
      /\ \A k \in Links : k # l => serve'[k] = serve[k] /\ sflushed'[k] = sflushed[k]
  BY ServerTyped DEF ServerOK
<1> QED
  BY <1>1, <1>2, ServeTakes

(* A link the server has heard of was dialed. *)
LEMMA HeardOf ==
  ASSUME Inv, NEW l \in Links, serve[l] # "request" \/ up[l] # <<>>
  PROVE  /\ l <= dialed /\ serve[l] \in Places /\ up[l] \in Seq(Messages)
         /\ down[l] \in Seq(Messages) /\ sflushed[l] \in Nat /\ sflushed[l] <= sent
         /\ UpShape(serve[l], up[l], Len(accepted), next, sent)
         /\ link = l => Talk(sup, serve[l], up[l], down[l], sflushed[l], Len(accepted), first,
                             recvSeq, snap, recvSeq + Len(todo), put, sent)
<1>1. l <= dialed
  <2>1. dialed \in Nat /\ l \in Nat
    BY DEF Inv, TypeOK, Links
  <2> QED
    BY <2>1 DEF Inv, DialOK
<1>2. UpShape(serve[l], up[l], Len(accepted), next, sent)
  BY DEF Inv, UpOK
<1>3. link = l => Talk(sup, serve[l], up[l], down[l], sflushed[l], Len(accepted), first,
                       recvSeq, snap, recvSeq + Len(todo), put, sent)
  BY DEF Inv, TalkOK
<1> QED
  BY <1>1, <1>2, <1>3, Typed

(* A Serve ends, and what it had not read is lost. *)
LEMMA ServeEndsOK ==
  ASSUME Inv, NEW l \in Links, l <= dialed, ServeEnds(l)
  PROVE  ServerOK' /\ WireInv'
<1>1. /\ serve' = [serve EXCEPT ![l] = "done"] /\ up' = [up EXCEPT ![l] = <<>>]
      /\ UNCHANGED client
      /\ UNCHANGED <<sent, accepted, known, registered, cur, sflushed, garbled, down>>
  BY DEF ServeEnds, Serve
<1>2. ServerOK
  BY ServerTyped
<1>3. /\ serve' \in [Links -> Places] /\ serve'[l] = "done"
      /\ \A k \in Links : k # l => serve'[k] = serve[k]
  BY <1>1, <1>2 DEF ServerOK, Places
<1>4. ServerOK'
  <2>1. CurOK' /\ NewOK' /\ UnusedOK'
    BY <1>1, <1>2, <1>3 DEF ServerOK, CurOK, NewOK, UnusedOK, Live
  <2>2. AcceptedOK'
    BY <1>1, <1>2 DEF ServerOK, AcceptedOK, client, next
  <2> QED
    BY <1>1, <1>2, <1>3, <2>1, <2>2 DEF ServerOK
<1>5. KnownOK'
  BY <1>1, <1>3 DEF Inv, KnownOK, client
<1>6. /\ serve[l] \in Places /\ up[l] \in Seq(Messages) /\ down[l] \in Seq(Messages)
      /\ sflushed[l] \in Nat /\ Len(accepted) \in Nat /\ sent \in Nat
      /\ sup \in Phases /\ first \in BOOLEAN /\ recvSeq \in Nat /\ snap \in Nat
      /\ recvSeq + Len(todo) \in Nat /\ put \in Nat
  BY Typed
<1>7. link = l => Talk(sup, "done", <<>>, down[l], sflushed[l], Len(accepted), first,
                       recvSeq, snap, recvSeq + Len(todo), put, sent)
  <2>1. link = l => Talk(sup, serve[l], up[l], down[l], sflushed[l], Len(accepted), first,
                         recvSeq, snap, recvSeq + Len(todo), put, sent)
    BY DEF Inv, TalkOK
  <2> QED
    BY <1>6, <2>1, TalkEnded
<1>8. UpShape("done", <<>>, Len(accepted), next, sent)
  BY UpShapeDone
<1>9. /\ down' = (IF link = l THEN [down EXCEPT ![l] = down[l]] ELSE down)
      /\ sflushed' = [sflushed EXCEPT ![l] = sflushed[l]]
  BY <1>1, <1>2 DEF Inv, WiresOK, ServerOK
<1>10. "done" \in Places /\ <<>> \in Seq(Messages)
  BY DEF Places
<1>11. WireInv'
  BY <1>1, <1>5, <1>6, <1>7, <1>8, <1>9, <1>10, ServeTalks
<1> QED
  BY <1>4, <1>11

(* A Serve past admit belongs to a session the server knows. *)
LEMMA KnownBy ==
  ASSUME Inv, NEW l \in Links, serve[l] \notin {"request", "done"}
  PROVE  known
BY DEF Inv, KnownOK

(* admit answers, and only the first link ever is told that it is new. *)
LEMMA AdmitOK ==
  ASSUME Inv, NEW l \in Links, Admit(l)
  PROVE  ServerOK' /\ WireInv'
<1> DEFINE answer == IF ~registered THEN "invalid" ELSE IF known THEN "returning" ELSE "new"
           at == IF answer = "invalid" THEN "done" ELSE answer
           m == Msg(answer, 0, 0)
           d == Append(down[l], m)
<1>1. /\ serve[l] = "request" /\ up[l] # <<>>
      /\ known' = (known \/ answer = "new") /\ down' = ToClient(l, m)
      /\ serve' = [serve EXCEPT ![l] = at] /\ up' = [up EXCEPT ![l] = Tail(up[l])]
      /\ UNCHANGED client
      /\ UNCHANGED <<sent, accepted, registered, cur, sflushed, garbled>>
  BY DEF Admit, HasMsg, Serve, UpRest
<1>2. /\ answer \in {"new", "returning", "invalid"} /\ (answer = "new" => ~known)
      /\ at \in {"new", "returning", "done"} /\ at \in Places /\ (at = "new" => answer = "new")
      /\ (answer = "returning" => known) /\ (answer = "invalid" => at = "done")
  BY DEF Places
<1>3. m \in Messages /\ m.type = answer
  <2>1. answer \in Types /\ 0 \in Nat
    BY <1>2 DEF Types
  <2> QED
    BY <2>1, MsgFacts
<1>4. WiresOK /\ ServerOK /\ KnownOK /\ first \in BOOLEAN
  BY ServerTyped DEF Inv, TypeOK
<1>5. down' = (IF link = l THEN [down EXCEPT ![l] = d] ELSE down) /\ d \in Seq(Messages)
  BY <1>1, <1>3, <1>4, ToClientFacts
<1> HIDE DEF answer, at
<1>6. /\ l <= dialed /\ up[l] \in Seq(Messages)
      /\ down[l] \in Seq(Messages) /\ sflushed[l] \in Nat
      /\ UpShape("request", up[l], Len(accepted), next, sent)
      /\ link = l => Talk(sup, "request", up[l], down[l], sflushed[l], Len(accepted), first,
                          recvSeq, snap, recvSeq + Len(todo), put, sent)
  BY <1>1, HeardOf
<1>7. /\ Tail(up[l]) \in Seq(Messages)
      /\ UpShape(at, Tail(up[l]), Len(accepted), next, sent)
      /\ link = l => Talk(sup, at, Tail(up[l]), d, sflushed[l], Len(accepted), first,
                          recvSeq, snap, recvSeq + Len(todo), put, sent)
  <2>1. answer = "new" => first = TRUE
    BY <1>2, <1>4 DEF KnownOK
  <2>2. at = (IF answer = "invalid" THEN "done" ELSE answer)
    BY DEF at
  <2>3. /\ sup \in Phases /\ Len(accepted) \in Nat /\ recvSeq \in Nat /\ snap \in Nat
        /\ recvSeq + Len(todo) \in Nat /\ put \in Nat /\ next \in Nat /\ sent \in Nat
    BY Typed
  <2>4. Tail(up[l]) \in Seq(Messages)
    BY <1>1, <1>6, Taken
  <2>5. UpShape(at, Tail(up[l]), Len(accepted), next, sent)
    BY <1>1, <1>2, <1>6, <2>3, AdmitShape
  <2>6. ASSUME link = l
        PROVE  Talk(sup, at, Tail(up[l]), Append(down[l], Msg(answer, 0, 0)), sflushed[l],
                    Len(accepted), first, recvSeq, snap, recvSeq + Len(todo), put, sent)
    <3>1. Talk(sup, "request", up[l], down[l], sflushed[l], Len(accepted), first,
               recvSeq, snap, recvSeq + Len(todo), put, sent)
      BY <1>6, <2>6
    <3> QED
      BY <1>1, <1>2, <1>6, <2>1, <2>2, <2>3, <3>1, AdmitFlow
  <2> QED
    BY <2>4, <2>5, <2>6
<1>8. /\ serve' \in [Links -> Places] /\ serve'[l] = at
      /\ \A k \in Links : k # l => serve'[k] = serve[k]
  BY <1>1, <1>2, <1>4 DEF ServerOK
<1>9. ServerOK'
  <2>1. CurOK'
    BY <1>1, <1>2, <1>4, <1>8 DEF ServerOK, CurOK, Live
  <2>2. NewOK'
    <3>1. ASSUME NEW k \in Links, serve'[k] = "new", k # l
          PROVE  serve[k] = "new" /\ known /\ at # "new"
      BY <1>2, <1>4, <1>8, <3>1 DEF ServerOK, NewOK
    <3>2. CASE at = "new"
      <4>1. ~known /\ known' /\ cur = 0 /\ \A k \in Links : k # l => serve'[k] # "new"
        BY <1>1, <1>2, <1>4, <1>8, <3>2 DEF KnownOK
      <4> QED
        BY <1>1, <4>1 DEF NewOK
    <3>3. CASE at # "new"
      BY <1>1, <1>4, <1>8, <3>1, <3>3 DEF ServerOK, NewOK
    <3> QED
      BY <3>2, <3>3
  <2>3. UnusedOK'
    BY <1>1, <1>4, <1>8 DEF ServerOK, UnusedOK
  <2>4. AcceptedOK'
    BY <1>1, <1>4 DEF ServerOK, AcceptedOK, client, next
  <2>5. known' \in BOOLEAN
    BY <1>1, <1>4 DEF ServerOK
  <2> QED
    BY <1>1, <1>4, <1>8, <2>1, <2>2, <2>3, <2>4, <2>5 DEF ServerOK
<1>10. KnownOK'
  <2> SUFFICES ASSUME ~known' PROVE KnownOK'
    BY DEF KnownOK
  <2>1. ~known /\ answer = "invalid" /\ at = "done"
    BY <1>1, <1>2
  <2>2. ASSUME link = l PROVE d[1].type = "invalid"
    <3>1. sup = "response"
      BY <1>4, <2>1, <2>2 DEF KnownOK, Inv, DialOK, Links
    <3>2. down[l] = <<>>
      BY <1>6, <2>2, <3>1 DEF Talk, Responding
    <3>3. d[1] = m
      BY <1>3, <1>6, <3>2
    <3> QED
      BY <1>3, <2>1, <3>3
  <2>3. ASSUME NEW k \in Links, down'[k] # <<>> PROVE down'[k][1].type = "invalid"
    <3>1. CASE k = l /\ link = l
      BY <1>4, <1>5, <2>2, <3>1 DEF WiresOK
    <3>2. CASE k # l \/ link # l
      <4>1. down'[k] = down[k]
        BY <1>4, <1>5, <3>2 DEF WiresOK
      <4> QED
        BY <1>4, <2>1, <2>3, <4>1 DEF KnownOK
    <3> QED
      BY <3>1, <3>2
  <2>4. \A k \in Links : serve'[k] \in {"request", "done"}
    BY <1>4, <1>8, <2>1 DEF KnownOK
  <2>5. first' /\ cur' = 0 /\ sup' \in {"dial", "response", "done"}
    BY <1>1, <1>4, <2>1 DEF KnownOK, client
  <2> QED
    BY <2>3, <2>4, <2>5 DEF KnownOK
<1>11. sflushed' = [sflushed EXCEPT ![l] = sflushed[l]]
  BY <1>1, <1>4 DEF ServerOK
<1>12. WireInv'
  BY <1>1, <1>2, <1>5, <1>6, <1>7, <1>10, <1>11, ServeTalks
<1> QED
  BY <1>9, <1>12

(* A first link takes over: nothing was accepted before it. *)
LEMMA TakeOverNewOK ==
  ASSUME Inv, NEW l \in Links, TakeOver(l), serve[l] = "new"
  PROVE  ServerOK' /\ WireInv'
<1>1. ServerOK /\ WiresOK /\ known
  BY ServerTyped, KnownBy DEF Inv
<1>2. /\ cur = 0 /\ (\A k \in Links : k # cur) /\ Len(accepted) = 0 /\ sflushed[l] = 0
      /\ \A k \in Links : serve[k] \notin Live
      /\ \A k \in Links : serve[k] = "new" => k = l
  <2>1. cur = 0 /\ sflushed[l] = 0 /\ \A k \in Links : serve[k] = "new" => k = l
    BY <1>1 DEF ServerOK, NewOK, UnusedOK
  <2>2. \A k \in Links : k # 0
    BY DEF Links
  <2>3. accepted = <<>>
    BY <1>1, <2>1 DEF ServerOK, CurOK
  <2> QED
    BY <1>1, <2>1, <2>2, <2>3 DEF ServerOK, CurOK
<1>3. /\ cur' = l /\ UNCHANGED client /\ UNCHANGED down
      /\ UNCHANGED <<sent, accepted, known, registered, sflushed, garbled>>
  BY DEF TakeOver
<1>4. serve' = [serve EXCEPT ![l] = "stream"] /\ up' = [up EXCEPT ![l] = up[l]]
  <2>1. serve' = [k \in Links |-> IF k = l THEN "stream" ELSE serve[k]]
    BY <1>2 DEF TakeOver
  <2>2. up' = [k \in Links |-> up[k]]
    BY <1>2 DEF TakeOver
  <2>3. DOMAIN serve = Links /\ DOMAIN up = Links
    BY <1>1 DEF ServerOK, WiresOK
  <2> QED
    BY <1>1, <2>1, <2>2, <2>3 DEF ServerOK, WiresOK
<1>5. /\ l <= dialed /\ up[l] \in Seq(Messages) /\ down[l] \in Seq(Messages)
      /\ UpShape("new", up[l], 0, next, sent)
      /\ link = l => Talk(sup, "new", up[l], down[l], 0, 0, first, recvSeq, snap,
                          recvSeq + Len(todo), put, sent)
  BY <1>2, HeardOf
<1>6. /\ sup \in Phases /\ recvSeq \in Nat /\ snap \in Nat
      /\ recvSeq + Len(todo) \in Nat /\ put \in Nat /\ next \in Nat /\ sent \in Nat
  BY Typed
<1>7. /\ UpShape("stream", up[l], Len(accepted'), next, sent)
      /\ link = l => Talk(sup, "stream", up[l], down[l], 0, Len(accepted'), first, recvSeq,
                          snap, recvSeq + Len(todo), put, sent)
  <2>1. UpShape("stream", up[l], 0, next, sent)
    BY <1>5 DEF UpShape
  <2>2. ASSUME link = l
        PROVE  Talk(sup, "stream", up[l], down[l], 0, 0, first, recvSeq, snap,
                    recvSeq + Len(todo), put, sent)
    <3>1. Talk(sup, "new", up[l], down[l], 0, 0, first, recvSeq, snap, recvSeq + Len(todo),
               put, sent)
      BY <1>5, <2>2
    <3> QED
      BY <1>5, <1>6, <3>1, TakeOverNewFlow
  <2>3. Len(accepted') = 0
    BY <1>2, <1>3
  <2> QED
    BY <2>1, <2>2, <2>3
<1>8. /\ serve' \in [Links -> Places] /\ serve'[l] = "stream"
      /\ \A k \in Links : k # l => serve'[k] = serve[k]
  BY <1>1, <1>4 DEF ServerOK, Places
<1>9. ServerOK'
  <2>1. CurOK' /\ NewOK' /\ UnusedOK'
    <3>1. l # 0
      BY DEF Links
    <3>2. CurOK'
      BY <1>2, <1>3, <1>8, <3>1 DEF CurOK, Live
    <3> QED
      BY <1>1, <1>2, <1>3, <1>8, <3>2 DEF ServerOK, NewOK, UnusedOK
  <2>2. AcceptedOK'
    BY <1>1, <1>3 DEF ServerOK, AcceptedOK, client, next
  <2> QED
    BY <1>1, <1>3, <1>8, <2>1, <2>2 DEF ServerOK
<1>10. KnownOK'
  BY <1>1, <1>3 DEF KnownOK
<1>11. /\ down' = (IF link = l THEN [down EXCEPT ![l] = down[l]] ELSE down)
       /\ sflushed' = [sflushed EXCEPT ![l] = 0]
  BY <1>1, <1>2, <1>3 DEF ServerOK, WiresOK
<1>12. "stream" \in Places /\ 0 \in Nat
  BY DEF Places
<1>13. WireInv'
  BY <1>3, <1>4, <1>5, <1>7, <1>10, <1>11, <1>12, ServeTalks
<1> QED
  BY <1>9, <1>13

(* A returning link takes over: the Serve of the previous one ends. *)
LEMMA TakeOverReturningOK ==
  ASSUME Inv, NEW l \in Links, TakeOver(l), serve[l] = "returning"
  PROVE  ServerOK' /\ WireInv'
<1> DEFINE m == Msg("seq", Len(accepted), 0)
           d == Append(down[l], m)
<1>1. ServerOK /\ WiresOK /\ known /\ Len(accepted) \in Nat
  BY ServerTyped, KnownBy, Typed DEF Inv
<1>2. /\ cur' = l /\ UNCHANGED client /\ down' = ToClient(l, m)
      /\ UNCHANGED <<sent, accepted, known, registered, sflushed, garbled>>
      /\ \A k \in Links : serve[k] = "new" => k = l
      /\ serve' = [k \in Links |-> IF k = l THEN "seq" ELSE IF k = cur THEN "done" ELSE serve[k]]
      /\ up' = [k \in Links |-> IF k = cur THEN <<>> ELSE up[k]]
  BY DEF TakeOver
<1>3. l # cur /\ l # 0 /\ \A k \in Links : serve[k] # "new"
  BY <1>1, <1>2 DEF ServerOK, CurOK, Live, Links
<1>4. /\ serve' \in [Links -> Places] /\ serve'[l] = "seq"
      /\ \A k \in Links : k # l /\ k # cur => serve'[k] = serve[k]
      /\ \A k \in Links : k = cur => serve'[k] = "done"
  BY <1>1, <1>2, <1>3 DEF ServerOK, Places
<1>5. /\ up' \in [Links -> Seq(Messages)] /\ up'[l] = up[l]
      /\ \A k \in Links : k # l /\ k # cur => up'[k] = up[k]
      /\ \A k \in Links : k = cur => up'[k] = <<>>
  BY <1>1, <1>2, <1>3 DEF WiresOK
<1>6. /\ l <= dialed /\ up[l] \in Seq(Messages) /\ down[l] \in Seq(Messages)
      /\ sflushed[l] \in Nat /\ UpShape("returning", up[l], Len(accepted), next, sent)
      /\ link = l => Talk(sup, "returning", up[l], down[l], sflushed[l], Len(accepted), first,
                          recvSeq, snap, recvSeq + Len(todo), put, sent)
  BY HeardOf
<1>7. /\ UpShape("seq", up[l], Len(accepted), next, sent)
      /\ link = l => Talk(sup, "seq", up[l], d, sflushed[l], Len(accepted), first, recvSeq,
                          snap, recvSeq + Len(todo), put, sent)
  <2>1. /\ sup \in Phases /\ recvSeq \in Nat /\ snap \in Nat
        /\ recvSeq + Len(todo) \in Nat /\ put \in Nat /\ next \in Nat /\ sent \in Nat
    BY Typed
  <2>2. UpShape("seq", up[l], Len(accepted), next, sent)
    BY <1>6, Emptiness DEF UpShape
  <2>3. ASSUME link = l
        PROVE  Talk(sup, "seq", up[l], Append(down[l], Msg("seq", Len(accepted), 0)),
                    sflushed[l], Len(accepted), first, recvSeq, snap, recvSeq + Len(todo),
                    put, sent)
    <3>1. Talk(sup, "returning", up[l], down[l], sflushed[l], Len(accepted), first, recvSeq,
               snap, recvSeq + Len(todo), put, sent)
      BY <1>6, <2>3
    <3> QED
      BY <1>1, <1>6, <2>1, <3>1, TakeOverReturningFlow
  <2> QED
    BY <2>2, <2>3
<1>8. m \in Messages
  <2>1. "seq" \in Types /\ 0 \in Nat
    BY DEF Types
  <2> QED
    BY <1>1, <2>1, MsgFacts
<1>9. down' = (IF link = l THEN [down EXCEPT ![l] = d] ELSE down) /\ d \in Seq(Messages)
  BY <1>1, <1>2, <1>8, ToClientFacts
<1> HIDE DEF m, d
<1>10. ServerOK'
  <2>1. CurOK'
    BY <1>1, <1>2, <1>3, <1>4 DEF ServerOK, CurOK, Live
  <2>2. NewOK' /\ UnusedOK'
    BY <1>1, <1>2, <1>3, <1>4 DEF ServerOK, NewOK, UnusedOK
  <2>3. AcceptedOK'
    BY <1>1, <1>2 DEF ServerOK, AcceptedOK, client, next
  <2> QED
    BY <1>1, <1>2, <1>4, <2>1, <2>2, <2>3 DEF ServerOK
<1>11. KnownOK'
  BY <1>1, <1>2 DEF KnownOK
<1>12. \A k \in Links : k = cur => k <= dialed
  <2>1. ASSUME NEW k \in Links, k = cur PROVE k <= dialed
    <3>1. serve[k] # "request"
      BY <1>1, <2>1 DEF ServerOK, CurOK, Live, Links
    <3> QED
      BY <3>1, HeardOf
  <2> QED
    BY <2>1
<1>13. \A k \in Links : k # l =>
         \/ serve'[k] = serve[k] /\ up'[k] = up[k]
         \/ k <= dialed /\ serve'[k] = "done" /\ up'[k] = <<>>
  BY <1>4, <1>5, <1>12
<1>14. "seq" \in Places /\ accepted' = accepted /\ sflushed' = sflushed /\ UNCHANGED sent
  BY <1>2 DEF Places
<1>15. WireInv'
  BY <1>2, <1>4, <1>5, <1>6, <1>7, <1>9, <1>11, <1>13, <1>14, ServeTakes
<1> QED
  BY <1>10, <1>15

(* recover on the server: the client's position is one it has sent. *)
LEMMA ServeRecoverOK ==
  ASSUME Inv, NEW l \in Links, ServeRecover(l)
  PROVE  ServerOK' /\ WireInv'
<1> DEFINE n == Head(up[l]).a
           m == Msg("catchup", n, sent)
           d == Append(down[l], m)
<1>1. serve[l] = "seq" /\ up[l] # <<>>
  BY DEF ServeRecover, HasMsg
<1>2. ServerOK /\ WiresOK /\ known /\ Len(accepted) \in Nat
  BY <1>1, ServerTyped, KnownBy, Typed DEF Inv
<1>3. /\ l <= dialed /\ up[l] \in Seq(Messages) /\ down[l] \in Seq(Messages)
      /\ sflushed[l] \in Nat /\ UpShape("seq", up[l], Len(accepted), next, sent)
      /\ link = l => Talk(sup, "seq", up[l], down[l], sflushed[l], Len(accepted), first,
                          recvSeq, snap, recvSeq + Len(todo), put, sent)
  BY <1>1, HeardOf
<1>4. /\ sup \in Phases /\ recvSeq \in Nat /\ snap \in Nat /\ recvSeq <= sent
      /\ recvSeq + Len(todo) \in Nat /\ put \in Nat /\ next \in Nat /\ sent \in Nat
  BY Typed DEF Inv, ReaderOK
<1>5. /\ n \in Nat /\ n <= sent /\ Tail(up[l]) \in Seq(Messages)
      /\ UpShape("catchup", Tail(up[l]), Len(accepted), next, sent)
  BY <1>1, <1>2, <1>3, <1>4, ServeRecoverShape
<1>6. /\ down' = ToClient(l, m) /\ sflushed' = [sflushed EXCEPT ![l] = sent]
      /\ serve' = [serve EXCEPT ![l] = "catchup"] /\ up' = [up EXCEPT ![l] = Tail(up[l])]
      /\ UNCHANGED client
      /\ UNCHANGED <<sent, accepted, known, registered, cur, garbled>>
  BY <1>5 DEF ServeRecover, Serve, UpRest
<1>7. ASSUME link = l
      PROVE  Talk(sup, "catchup", Tail(up[l]), Append(down[l], Msg("catchup", Head(up[l]).a, sent)),
                  sent, Len(accepted), first, recvSeq, snap, recvSeq + Len(todo), put, sent)
  <2>1. Talk(sup, "seq", up[l], down[l], sflushed[l], Len(accepted), first,
             recvSeq, snap, recvSeq + Len(todo), put, sent)
    BY <1>3, <1>7
  <2> QED
    BY <1>1, <1>2, <1>3, <1>4, <2>1, ServeRecoverFlow
<1>8. m \in Messages
  <2>1. "catchup" \in Types
    BY DEF Types
  <2> QED
    BY <1>4, <1>5, <2>1, MsgFacts
<1>9. down' = (IF link = l THEN [down EXCEPT ![l] = d] ELSE down) /\ d \in Seq(Messages)
  BY <1>2, <1>6, <1>8, ToClientFacts
<1>10. /\ serve' \in [Links -> Places] /\ serve'[l] = "catchup" /\ sflushed'[l] = sent
       /\ sflushed' \in [Links -> 0 .. sent]
       /\ \A k \in Links : k # l => serve'[k] = serve[k] /\ sflushed'[k] = sflushed[k]
  <2>1. sent \in 0 .. sent
    BY <1>4
  <2> QED
    BY <1>2, <1>6, <2>1 DEF ServerOK, Places
<1>11. ServerOK'
  <2>1. CurOK' /\ NewOK' /\ UnusedOK'
    BY <1>1, <1>2, <1>6, <1>10 DEF ServerOK, CurOK, NewOK, UnusedOK, Live
  <2>2. AcceptedOK'
    BY <1>2, <1>6 DEF ServerOK, AcceptedOK, client, next
  <2> QED
    BY <1>2, <1>6, <1>10, <2>1, <2>2 DEF ServerOK
<1>12. KnownOK'
  BY <1>2, <1>6 DEF KnownOK
<1>13. "catchup" \in Places /\ accepted' = accepted /\ UNCHANGED sent
  BY <1>6 DEF Places
<1>14. link = l => Talk(sup, "catchup", Tail(up[l]), d, sent, Len(accepted), first, recvSeq,
                        snap, recvSeq + Len(todo), put, sent)
  BY <1>7
<1> HIDE DEF n, m, d
<1>15. WireInv'
  BY <1>3, <1>4, <1>5, <1>6, <1>9, <1>12, <1>13, <1>14, ServeTalks
<1> QED
  BY <1>11, <1>15

(***************************************************************************)
(* accept: what a link that took over brings are the next packets the      *)
(* server expects, up to n, so they open.                                  *)
(***************************************************************************)
LEMMA AcceptOK ==
  ASSUME Inv, NEW l \in Links, serve[l] \in {"catchup", "stream"}, NEW n \in Nat,
         Len(accepted) <= n, n <= next, Accept(l, Len(accepted), n),
         UNCHANGED client, UNCHANGED <<sent, known, registered, cur, sflushed>>
  PROVE  /\ ServerOK' /\ KnownOK' /\ serve' = [serve EXCEPT ![l] = "stream"]
         /\ accepted' = Numbers(0, n) /\ accepted' \in Packets /\ Len(accepted') = n
<1>1. ServerOK /\ known /\ Len(accepted) \in Nat /\ next \in Nat
  BY ServerTyped, KnownBy, Typed
<1>2. /\ accepted' = accepted \o Numbers(Len(accepted), n) /\ UNCHANGED garbled
      /\ serve' = [serve EXCEPT ![l] = "stream"]
  BY DEF Accept, Serve
<1>3. accepted' = Numbers(0, n) /\ accepted' \in Packets /\ Len(accepted') = n
  <2>1. accepted = Numbers(0, Len(accepted))
    BY <1>1 DEF ServerOK, AcceptedOK
  <2>2. Numbers(0, Len(accepted)) \o Numbers(Len(accepted), n) = Numbers(0, n)
    BY <1>1, NumbersJoin
  <2>3. Numbers(0, n) \in Packets /\ Len(Numbers(0, n)) = n
    <3>1. 0 \in Nat /\ 0 <= n /\ n - 0 = n
      OBVIOUS
    <3> QED
      BY <3>1, NumbersFacts
  <2>4. accepted' = Numbers(0, n)
    BY <1>2, <2>1, <2>2
  <2> QED
    BY <2>3, <2>4
<1>4. /\ serve' \in [Links -> Places] /\ serve'[l] = "stream"
      /\ \A k \in Links : k # l => serve'[k] = serve[k]
  BY <1>1, <1>2 DEF ServerOK, Places
<1>5. CurOK'
  <2>1. cur = l /\ l # 0
    BY <1>1 DEF ServerOK, CurOK, Live, Links
  <2> QED
    BY <1>1, <1>4, <2>1 DEF ServerOK, CurOK, Live
<1>6. NewOK' /\ UnusedOK'
  BY <1>1, <1>4 DEF ServerOK, NewOK, UnusedOK
<1>7. AcceptedOK'
  BY <1>3 DEF AcceptedOK, client, next
<1>8. KnownOK'
  BY <1>1 DEF KnownOK
<1> QED
  BY <1>1, <1>2, <1>3, <1>4, <1>5, <1>6, <1>7, <1>8 DEF ServerOK

(* The client's catchup is accepted. *)
LEMMA ServeCatchupOK ==
  ASSUME Inv, NEW l \in Links, ServeCatchup(l)
  PROVE  ServerOK' /\ WireInv' /\ \E n \in Len(accepted) .. next : accepted' = Numbers(0, n)
<1> DEFINE n == Head(up[l]).b
<1>1. /\ serve[l] = "catchup" /\ up[l] # <<>> /\ Accept(l, Head(up[l]).a, n)
      /\ up' = [up EXCEPT ![l] = Tail(up[l])] /\ UNCHANGED client
      /\ UNCHANGED <<sent, known, registered, cur, sflushed, down>>
  BY DEF ServeCatchup, HasMsg, UpRest
<1>2. ServerOK /\ WiresOK /\ Len(accepted) \in Nat
  BY ServerTyped, Typed DEF Inv
<1>3. /\ l <= dialed /\ up[l] \in Seq(Messages) /\ down[l] \in Seq(Messages)
      /\ sflushed[l] \in Nat /\ UpShape("catchup", up[l], Len(accepted), next, sent)
      /\ link = l => Talk(sup, "catchup", up[l], down[l], sflushed[l], Len(accepted), first,
                          recvSeq, snap, recvSeq + Len(todo), put, sent)
  BY <1>1, HeardOf
<1>4. /\ sup \in Phases /\ recvSeq \in Nat /\ snap \in Nat
      /\ recvSeq + Len(todo) \in Nat /\ put \in Nat /\ next \in Nat /\ sent \in Nat
  BY Typed
<1>5. /\ n \in Nat /\ Head(up[l]).a = Len(accepted) /\ Len(accepted) <= n /\ n <= next
      /\ Tail(up[l]) \in Seq(Messages) /\ UpShape("stream", Tail(up[l]), n, next, sent)
  BY <1>1, <1>2, <1>3, <1>4, ServeCatchupShape
<1>6. ASSUME link = l
      PROVE  Talk(sup, "stream", Tail(up[l]), down[l], sflushed[l], Head(up[l]).b, first, recvSeq,
                  snap, recvSeq + Len(todo), put, sent)
  <2>1. Talk(sup, "catchup", up[l], down[l], sflushed[l], Len(accepted), first, recvSeq, snap,
             recvSeq + Len(todo), put, sent)
    BY <1>3, <1>6
  <2> QED
    BY <1>1, <1>2, <1>3, <1>4, <2>1, ServeCatchupFlow
<1>7. link = l => Talk(sup, "stream", Tail(up[l]), down[l], sflushed[l], n, first, recvSeq,
                       snap, recvSeq + Len(todo), put, sent)
  BY <1>6
<1> HIDE DEF n
<1>8. /\ ServerOK' /\ KnownOK' /\ serve' = [serve EXCEPT ![l] = "stream"]
      /\ accepted' = Numbers(0, n) /\ accepted' \in Packets /\ Len(accepted') = n
  BY <1>1, <1>5, AcceptOK
<1>9. /\ down' = (IF link = l THEN [down EXCEPT ![l] = down[l]] ELSE down)
      /\ sflushed' = [sflushed EXCEPT ![l] = sflushed[l]]
  BY <1>1, <1>2 DEF ServerOK, WiresOK
<1>10. "stream" \in Places /\ serve[l] \in Live /\ UNCHANGED sent
  BY <1>1 DEF Places, Live
<1>11. WireInv'
  BY <1>1, <1>3, <1>5, <1>7, <1>8, <1>9, <1>10, ServeTalks
<1>12. n \in Len(accepted) .. next
  BY <1>2, <1>4, <1>5
<1> QED
  BY <1>8, <1>11, <1>12

(* A frame is accepted. *)
LEMMA ServeReadsOK ==
  ASSUME Inv, NEW l \in Links, ServeReads(l)
  PROVE  ServerOK' /\ WireInv' /\ \E n \in Len(accepted) .. next : accepted' = Numbers(0, n)
<1> DEFINE n == Len(accepted) + 1
<1>1. /\ serve[l] = "stream" /\ up[l] # <<>> /\ Accept(l, Head(up[l]).a, Head(up[l]).a + 1)
      /\ up' = [up EXCEPT ![l] = Tail(up[l])] /\ UNCHANGED client
      /\ UNCHANGED <<sent, known, registered, cur, sflushed, down>>
  BY DEF ServeReads, HasMsg, UpRest
<1>2. ServerOK /\ WiresOK /\ Len(accepted) \in Nat
  BY ServerTyped, Typed DEF Inv
<1>3. /\ l <= dialed /\ up[l] \in Seq(Messages) /\ down[l] \in Seq(Messages)
      /\ sflushed[l] \in Nat /\ UpShape("stream", up[l], Len(accepted), next, sent)
      /\ link = l => Talk(sup, "stream", up[l], down[l], sflushed[l], Len(accepted), first,
                          recvSeq, snap, recvSeq + Len(todo), put, sent)
  BY <1>1, HeardOf
<1>4. /\ sup \in Phases /\ recvSeq \in Nat /\ snap \in Nat
      /\ recvSeq + Len(todo) \in Nat /\ put \in Nat /\ next \in Nat /\ sent \in Nat
  BY Typed
<1>5. /\ Head(up[l]).a = Len(accepted) /\ n <= next
      /\ Tail(up[l]) \in Seq(Messages) /\ UpShape("stream", Tail(up[l]), n, next, sent)
  BY <1>1, <1>2, <1>3, <1>4, ServeReadsShape
<1>6. ASSUME link = l
      PROVE  Talk(sup, "stream", Tail(up[l]), down[l], sflushed[l], Len(accepted) + 1, first,
                  recvSeq, snap, recvSeq + Len(todo), put, sent)
  <2>1. Talk(sup, "stream", up[l], down[l], sflushed[l], Len(accepted), first, recvSeq, snap,
             recvSeq + Len(todo), put, sent)
    BY <1>3, <1>6
  <2> QED
    BY <1>1, <1>2, <1>3, <1>4, <2>1, ServeReadsFlow
<1>7. link = l => Talk(sup, "stream", Tail(up[l]), down[l], sflushed[l], n, first, recvSeq,
                       snap, recvSeq + Len(todo), put, sent)
  BY <1>6
<1>8. n \in Nat /\ Len(accepted) <= n /\ Accept(l, Len(accepted), n)
  BY <1>1, <1>2, <1>5
<1> HIDE DEF n
<1>9. /\ ServerOK' /\ KnownOK' /\ serve' = [serve EXCEPT ![l] = "stream"]
      /\ accepted' = Numbers(0, n) /\ accepted' \in Packets /\ Len(accepted') = n
  BY <1>1, <1>5, <1>8, AcceptOK
<1>10. /\ down' = (IF link = l THEN [down EXCEPT ![l] = down[l]] ELSE down)
       /\ sflushed' = [sflushed EXCEPT ![l] = sflushed[l]]
  BY <1>1, <1>2 DEF ServerOK, WiresOK
<1>11. "stream" \in Places /\ serve[l] \in Live /\ UNCHANGED sent
  BY <1>1 DEF Places, Live
<1>12. WireInv'
  <2>1. /\ UpShape("stream", Tail(up[l]), Len(accepted'), next, sent)
        /\ link = l => Talk(sup, "stream", Tail(up[l]), down[l], sflushed[l], Len(accepted'),
                            first, recvSeq, snap, recvSeq + Len(todo), put, sent)
    BY <1>5, <1>7, <1>9
  <2>2. Tail(up[l]) \in Seq(Messages) /\ accepted' \in Packets /\ KnownOK'
    BY <1>5, <1>9
  <2>3. /\ serve' = [serve EXCEPT ![l] = "stream"] /\ up' = [up EXCEPT ![l] = Tail(up[l])]
        /\ UNCHANGED client
    BY <1>1, <1>9
  <2> QED
    BY <1>3, <1>10, <1>11, <2>1, <2>2, <2>3, ServeTalks
<1>13. n \in Len(accepted) .. next
  BY <1>2, <1>4, <1>5, <1>8
<1> QED
  BY <1>9, <1>12, <1>13

(* The writer puts the next packet on the link. *)
LEMMA ServeWritesOK ==
  ASSUME Inv, NEW l \in Links, ServeWrites(l)
  PROVE  ServerOK' /\ WireInv'
<1> DEFINE f == sflushed[l]
           m == Msg("frame", f, 0)
           d == Append(down[l], m)
<1>1. /\ serve[l] = "stream" /\ f < sent /\ down' = ToClient(l, m)
      /\ sflushed' = [sflushed EXCEPT ![l] = f + 1] /\ UNCHANGED client
      /\ UNCHANGED <<sent, accepted, known, registered, cur, serve, garbled, up>>
  BY DEF ServeWrites
<1>2. ServerOK /\ WiresOK /\ known /\ Len(accepted) \in Nat
  BY <1>1, ServerTyped, KnownBy, Typed DEF Inv
<1>3. /\ l <= dialed /\ up[l] \in Seq(Messages) /\ down[l] \in Seq(Messages)
      /\ f \in Nat /\ UpShape("stream", up[l], Len(accepted), next, sent)
      /\ link = l => Talk(sup, "stream", up[l], down[l], f, Len(accepted), first,
                          recvSeq, snap, recvSeq + Len(todo), put, sent)
  BY <1>1, HeardOf
<1>4. /\ sup \in Phases /\ recvSeq \in Nat /\ snap \in Nat
      /\ recvSeq + Len(todo) \in Nat /\ put \in Nat /\ next \in Nat /\ sent \in Nat
  BY Typed
<1>5. ASSUME link = l
      PROVE  Talk(sup, "stream", up[l], Append(down[l], Msg("frame", sflushed[l], 0)),
                  sflushed[l] + 1, Len(accepted), first, recvSeq, snap, recvSeq + Len(todo),
                  put, sent)
  <2>1. Talk(sup, "stream", up[l], down[l], sflushed[l], Len(accepted), first, recvSeq, snap,
             recvSeq + Len(todo), put, sent)
    BY <1>3, <1>5
  <2> QED
    BY <1>1, <1>2, <1>3, <1>4, <2>1, ServeWritesFlow
<1>6. link = l => Talk(sup, "stream", up[l], d, f + 1, Len(accepted), first, recvSeq, snap,
                       recvSeq + Len(todo), put, sent)
  BY <1>5
<1>7. m \in Messages
  <2>1. "frame" \in Types /\ 0 \in Nat
    BY DEF Types
  <2> QED
    BY <1>3, <2>1, MsgFacts
<1>8. down' = (IF link = l THEN [down EXCEPT ![l] = d] ELSE down) /\ d \in Seq(Messages)
  BY <1>1, <1>2, <1>7, ToClientFacts
<1> HIDE DEF f, m, d
<1>9. f + 1 \in 0 .. sent /\ f + 1 \in Nat
  BY <1>1, <1>3, <1>4
<1>10. sflushed' \in [Links -> 0 .. sent] /\ \A k \in Links : k # l => sflushed'[k] = sflushed[k]
  BY <1>1, <1>2, <1>9 DEF ServerOK
<1>11. ServerOK'
  <2>1. CurOK' /\ NewOK' /\ UnusedOK'
    BY <1>1, <1>2, <1>10 DEF ServerOK, CurOK, NewOK, UnusedOK
  <2>2. AcceptedOK'
    BY <1>1, <1>2 DEF ServerOK, AcceptedOK, client, next
  <2> QED
    BY <1>1, <1>2, <1>10, <2>1, <2>2 DEF ServerOK
<1>12. KnownOK'
  BY <1>1, <1>2 DEF KnownOK
<1>13. serve' = [serve EXCEPT ![l] = "stream"] /\ up' = [up EXCEPT ![l] = up[l]]
  BY <1>1, <1>2 DEF ServerOK, WiresOK
<1>14. "stream" \in Places /\ accepted' = accepted /\ UNCHANGED sent
  BY <1>1 DEF Places
<1>15. WireInv'
  BY <1>1, <1>3, <1>6, <1>8, <1>9, <1>12, <1>13, <1>14, ServeTalks
<1> QED
  BY <1>11, <1>15

(* The server seals a packet. *)
LEMMA ServerSendOK ==
  ASSUME Inv, ServerSend
  PROVE  ServerOK' /\ WireInv'
<1>1. /\ sent' = sent + 1 /\ UNCHANGED client /\ UNCHANGED <<up, down>>
      /\ UNCHANGED <<accepted, known, registered, cur, serve, sflushed, garbled>>
  BY DEF ServerSend, wires
<1>2. ServerOK /\ WireInv
  BY ServerTyped DEF Inv, WireInv
<1>3. UNCHANGED <<link, dialed, sup, first, recvSeq, snap, todo, put>> /\ next' = next
  BY <1>1 DEF client, next
<1>4. sent \in Nat /\ sent' \in Nat /\ sent <= sent'
  BY <1>1, <1>2 DEF ServerOK
<1>5. ServerOK'
  <2>1. CurOK' /\ NewOK' /\ UnusedOK' /\ AcceptedOK'
    BY <1>1, <1>2, <1>3 DEF ServerOK, CurOK, NewOK, UnusedOK, AcceptedOK
  <2>2. sflushed' \in [Links -> 0 .. sent']
    BY <1>1, <1>2, <1>4 DEF ServerOK
  <2> QED
    BY <1>1, <1>2, <1>4, <2>1, <2>2 DEF ServerOK
<1>6. WiresOK' /\ DialOK' /\ KnownOK'
  BY <1>1, <1>2, <1>3 DEF WireInv, WiresOK, DialOK, KnownOK
<1>7. UpOK'
  <2>1. /\ next \in Nat /\ Len(accepted) \in Nat /\ next <= next
        /\ \A k \in Links : serve[k] \in Places /\ up[k] \in Seq(Messages)
    BY Typed
  <2>2. \A k \in Links : UpShape(serve[k], up[k], Len(accepted), next, sent)
    BY <1>2 DEF WireInv, UpOK
  <2>3. ASSUME NEW k \in Links PROVE UpShape(serve[k], up[k], Len(accepted), next, sent')
    BY <1>4, <2>1, <2>2, UpShapeKept
  <2> QED
    BY <1>1, <1>3, <2>3 DEF UpOK
<1>8. TalkOK'
  <2>1. CASE link = 0
    BY <1>2, <1>3, <2>1 DEF WireInv, DialOK, TalkOK, Talk
  <2>2. CASE link \in Links
    <3>1. /\ sup \in Phases /\ serve[link] \in Places /\ up[link] \in Seq(Messages)
          /\ down[link] \in Seq(Messages) /\ sflushed[link] \in Nat /\ Len(accepted) \in Nat
          /\ recvSeq \in Nat /\ snap \in Nat /\ recvSeq + Len(todo) \in Nat /\ put \in Nat
      BY <2>2, Typed
    <3>2. Talk(sup, serve[link], up[link], down[link], sflushed[link], Len(accepted), first,
               recvSeq, snap, recvSeq + Len(todo), put, sent)
      BY <1>2 DEF WireInv, TalkOK
    <3>3. Talk(sup, serve[link], up[link], down[link], sflushed[link], Len(accepted), first,
               recvSeq, snap, recvSeq + Len(todo), put, sent')
      BY <1>4, <3>1, <3>2, TalkSealed
    <3> QED
      BY <1>1, <1>3, <3>3 DEF TalkOK
  <2> QED
    BY <2>1, <2>2 DEF Inv, TypeOK
<1> QED
  BY <1>5, <1>6, <1>7, <1>8 DEF WireInv

(* The program on the server ends, and nothing in flight changes. *)
LEMMA EndSessionOK ==
  ASSUME Inv, EndSession
  PROVE  ServerOK' /\ WireInv'
<1>1. /\ registered' = FALSE /\ UNCHANGED client /\ UNCHANGED <<up, down>>
      /\ UNCHANGED <<sent, accepted, known, cur, serve, sflushed, garbled>>
  BY DEF EndSession, wires
<1>2. ServerOK /\ WireInv
  BY ServerTyped DEF Inv, WireInv
<1>3. UNCHANGED <<link, dialed, sup, first, recvSeq, snap, todo, put>> /\ next' = next
  BY <1>1 DEF client, next
<1>4. ServerOK'
  BY <1>1, <1>2, <1>3 DEF ServerOK, CurOK, NewOK, UnusedOK, AcceptedOK
<1>5. WireInv'
  BY <1>1, <1>2, <1>3 DEF WireInv, WiresOK, DialOK, KnownOK, UpOK, TalkOK
<1> QED
  BY <1>4, <1>5

(* Every step of the server. *)
LEMMA ServerStepOK ==
  ASSUME Inv, ServerStep
  PROVE  ServerOK' /\ WireInv' /\ sent <= sent'
<1>1. sent \in Nat
  BY Typed
<1>2. sent <= sent'
  BY <1>1 DEF ServerStep, ServeStep, ServeFails, ServeEnds, Admit, TakeOver, ServeRecover,
       ServeCatchup, ServeReads, ServeWrites, ServeFlushed, ServerSend, EndSession
<1>3. CASE ServerSend \/ EndSession
  BY <1>2, <1>3, ServerSendOK, EndSessionOK
<1>4. ASSUME NEW l \in Links, ServeStep(l) \/ ServeFails(l) PROVE ServerOK' /\ WireInv'
  <2>1. CASE ServeFails(l)
    BY <2>1, ServeEndsOK DEF ServeFails
  <2>2. CASE ServeFlushed(l)
    <3>1. serve[l] # "request" /\ ServeEnds(l)
      BY <2>2 DEF ServeFlushed
    <3> QED
      BY <3>1, HeardOf, ServeEndsOK
  <2>3. CASE TakeOver(l)
    BY <2>3, TakeOverNewOK, TakeOverReturningOK DEF TakeOver
  <2> QED
    BY <1>4, <2>1, <2>2, <2>3, AdmitOK, ServeRecoverOK, ServeCatchupOK, ServeReadsOK,
       ServeWritesOK DEF ServeStep
<1> QED
  BY <1>2, <1>3, <1>4 DEF ServerStep
-----------------------------------------------------------------------------
(***************************************************************************)
(* The invariant holds throughout.                                         *)
(***************************************************************************)
(* The client's steps leave the server alone; it only has more to accept. *)
LEMMA ClientStepOK ==
  ASSUME Inv, ClientStep
  PROVE  ServerOK' /\ WireInv' /\ sent' = sent
<1>1. ServerOK /\ WireInv' /\ UNCHANGED server
  BY ServerTyped, ClientWires, ClientStepFrame
<1>2. UNCHANGED <<sent, accepted, known, registered, cur, serve, sflushed, garbled>>
  BY <1>1 DEF server
<1>3. next \in Nat /\ next' \in Nat /\ next <= next' /\ Len(accepted) \in Nat
  <2>1. [Next]_vars
    BY DEF ClientStep, Next
  <2> QED
    BY <2>1, OutboundStep, RingFacts, Typed DEF next
<1>4. AcceptedOK'
  BY <1>1, <1>2, <1>3 DEF ServerOK, AcceptedOK
<1>5. CurOK' /\ NewOK' /\ UnusedOK'
  BY <1>1, <1>2 DEF ServerOK, CurOK, NewOK, UnusedOK
<1> QED
  BY <1>1, <1>2, <1>4, <1>5 DEF ServerOK

(* Nothing happens. *)
LEMMA StutterOK ==
  ASSUME Inv, UNCHANGED vars
  PROVE  ServerOK' /\ WireInv' /\ sent' = sent
<1>1. UNCHANGED client /\ UNCHANGED server /\ UNCHANGED <<up, down>>
  BY DEF vars, wires
<1>2. ServerOK /\ WireInv
  BY ServerTyped DEF Inv, WireInv
<1>3. UNCHANGED <<link, dialed, sup, first, recvSeq, snap, todo, put>> /\ next' = next
  BY <1>1 DEF client, next
<1>4. UNCHANGED <<sent, accepted, known, registered, cur, serve, sflushed, garbled>>
  BY <1>1 DEF server
<1>5. ServerOK'
  BY <1>2, <1>3, <1>4 DEF ServerOK, CurOK, NewOK, UnusedOK, AcceptedOK
<1>6. WireInv'
  BY <1>1, <1>2, <1>3, <1>4 DEF WireInv, WiresOK, DialOK, KnownOK, UpOK, TalkOK
<1> QED
  BY <1>4, <1>5, <1>6

(* The parts of the invariant say all that TypeOK says. *)
Parts == RingOK(ring, flushed) /\ put \in 0 .. next /\ InboundOK /\ SessionOK /\ ServerOK

(* Together they give the type of every variable. *)
LEMMA TypesFollow == Parts => TypeOK
<1> SUFFICES ASSUME Parts PROVE TypeOK
  OBVIOUS
<1> USE DEF Parts
<1>1. ring \in Rings /\ flushed \in 0 .. next
  BY RingFacts DEF next
<1>2. {todo, hand, pending, inbox, read, accepted} \subseteq Packets
  BY DEF InboundOK, ServerOK
<1>3. recvSeq \in Nat /\ Len(hand) <= 1 /\ Len(inbox) <= InboxSize
  BY DEF InboundOK
<1>4. /\ sup \in {"dial", "response", "seq", "catchup", "link", "done"}
      /\ first \in BOOLEAN /\ snap \in Nat /\ peer \in Nat
      /\ status \in {"open", "closed", "rejected", "ended", "exceeded", "integrity"}
      /\ link \in Links \cup {0} /\ dialed \in Nat
  BY DEF SessionOK, Phases
<1>5. /\ cur \in Links \cup {0} /\ sent \in Nat /\ known \in BOOLEAN /\ registered \in BOOLEAN
      /\ serve \in [Links -> {"request", "new", "returning", "seq", "catchup", "stream", "done"}]
      /\ sflushed \in [Links -> 0 .. sent] /\ garbled \in BOOLEAN
  BY DEF ServerOK, Places
<1> QED
  BY <1>1, <1>2, <1>3, <1>4, <1>5 DEF TypeOK

(* Every step, of either side, keeps the invariant. *)
LEMMA InvStep == Inv /\ [Next]_vars => Inv'
<1> SUFFICES ASSUME Inv, [Next]_vars PROVE Inv'
  OBVIOUS
<1>1. ServerOK' /\ WireInv' /\ sent <= sent'
  <2>1. sent \in Nat /\ sent <= sent
    BY Typed
  <2>2. ClientStep \/ ServerStep \/ UNCHANGED vars
    BY DEF Next, ClientStep, ServerStep
  <2> QED
    BY <2>1, <2>2, ClientStepOK, ServerStepOK, StutterOK
<1>2. RingOK(ring, flushed)' /\ put' \in 0 .. next' /\ SnapOK'
  BY OutboundStep
<1>3. InboundOK' /\ SessionOK' /\ FirstOK'
  BY InboundStep, SessionStep, FirstStep
<1>4. ReaderOK' /\ status' # "integrity" /\ (status' = "rejected" => first')
  <2>1. sent' \in Nat
    BY <1>1 DEF ServerOK
  <2> QED
    BY <1>1, <2>1, ReaderStep
<1>5. TypeOK'
  <2>1. Parts'
    BY <1>1, <1>2, <1>3 DEF Parts
  <2> QED
    BY <2>1, TypesFollow, PTL
<1>6. NoIntegrityFailure'
  BY <1>1, <1>4 DEF NoIntegrityFailure, ServerOK
<1>7. CurOK' /\ NewOK' /\ UnusedOK' /\ AcceptedOK'
  BY <1>1 DEF ServerOK
<1>8. WiresOK' /\ DialOK' /\ KnownOK' /\ UpOK' /\ TalkOK'
  BY <1>1 DEF WireInv
<1>9. NothingCountedIsLost'
  BY <1>3 DEF InboundOK
<1> QED
  BY <1>2, <1>3, <1>4, <1>5, <1>6, <1>7, <1>8, <1>9 DEF Inv

(* A ring without packets. *)
LEMMA RingEmpty == RingOK(EmptyRing, 0) /\ NextSeq(EmptyRing) = 0
<1>1. EmptyRing \in Rings
  BY DEF EmptyRing, Rings
<1>2. /\ EmptyRing.first = 0 /\ EmptyRing.off = <<0>> /\ EmptyRing.bytes = 0
      /\ Len(EmptyRing.off) = 1
  BY DEF EmptyRing
<1>3. NextSeq(EmptyRing) = 0 /\ Off(EmptyRing, 0) = 0
  BY <1>2 DEF NextSeq, Off
<1>4. \A s \in 0 .. NextSeq(EmptyRing) : s = 0
  BY <1>3
<1>5. \A s \in 0 .. NextSeq(EmptyRing) : Off(EmptyRing, s) = s
  BY <1>3, <1>4
<1> QED
  BY <1>1, <1>2, <1>3, <1>5 DEF RingOK

(* The invariant holds before anything was dialed. *)
LEMMA InvInit == Init => Inv
<1> SUFFICES ASSUME Init PROVE Inv
  OBVIOUS
<1>1. ring = EmptyRing /\ flushed = 0
  BY DEF Init
<1>2. RingOK(ring, flushed) /\ next = 0
  <2>1. RingOK(EmptyRing, 0) /\ NextSeq(EmptyRing) = 0
    BY RingEmpty
  <2> QED
    BY <1>1, <2>1 DEF next
<1>3. <<>> \in Packets /\ <<>> \in Seq(Messages) /\ Len(<<>>) = 0 /\ InboxSize \in Nat
  BY BoundAssumption DEF Packets
<1>4. Numbers(0, 0) = <<>>
  BY NumbersOne
<1>5. NothingCountedIsLost
  <2>1. <<>> \o <<>> = <<>>
    BY <1>3, Queues DEF Packets
  <2> QED
    BY <1>4, <2>1 DEF Init, NothingCountedIsLost
<1>6. InboundOK
  BY <1>3, <1>5 DEF Init, InboundOK
<1>7. SessionOK
  BY DEF Init, SessionOK, Phases
<1>8. CurOK /\ NewOK /\ UnusedOK
  BY DEF Init, CurOK, NewOK, UnusedOK, Live
<1>9. AcceptedOK
  BY <1>2, <1>3, <1>4 DEF Init, AcceptedOK
<1>10. ServerOK
  <2>1. serve \in [Links -> Places] /\ sflushed \in [Links -> 0 .. sent]
    BY DEF Init, Places
  <2> QED
    BY <1>3, <1>8, <1>9, <2>1 DEF Init, ServerOK
<1>11. TypeOK
  <2>1. put \in 0 .. next
    BY <1>2 DEF Init
  <2> QED
    BY <1>2, <1>6, <1>7, <1>10, <2>1, TypesFollow DEF Parts
<1>12. WiresOK /\ KnownOK
  BY <1>3 DEF Init, WiresOK, KnownOK
<1>13. DialOK
  BY BoundAssumption DEF Init, DialOK
<1>14. UpOK
  <2>1. \A k \in Links : serve[k] = "request" /\ up[k] = <<>>
    BY DEF Init
  <2>2. UpShape("request", <<>>, Len(accepted), next, sent)
    BY <1>3 DEF UpShape
  <2> QED
    BY <2>1, <2>2 DEF UpOK
<1>15. SnapOK /\ FirstOK /\ TalkOK /\ ReaderOK /\ NoIntegrityFailure
  BY <1>2 DEF Init, SnapOK, FirstOK, TalkOK, Talk, ReaderOK, NoIntegrityFailure
<1> QED
  BY <1>2, <1>5, <1>8, <1>9, <1>11, <1>12, <1>13, <1>14, <1>15 DEF Inv
-----------------------------------------------------------------------------
(***************************************************************************)
(* The theorems.                                                           *)
(***************************************************************************)
(* The invariant holds in every state of every behaviour. *)
THEOREM Invariance == Spec => []Inv
<1>1. Init => Inv
  BY InvInit
<1>2. Inv /\ [Next]_vars => Inv'
  BY InvStep
<1> QED
  BY <1>1, <1>2, PTL DEF Spec

(* Both ends and the links between them are type correct. *)
THEOREM ProtocolTypeCorrect == Spec => []TypeOK
<1>1. Inv => TypeOK
  BY DEF Inv
<1> QED
  BY <1>1, Invariance, PTL

(***************************************************************************)
(* deliver counts a packet before it hands it over, and the server never   *)
(* resends what was counted: whatever links die in between, the packet is  *)
(* in the reader's hand, in pending, in the inbox or returned, once and in *)
(* order.                                                                  *)
(***************************************************************************)
THEOREM CountedIsKept == Spec => []NothingCountedIsLost
<1>1. Inv => NothingCountedIsLost
  BY DEF Inv
<1> QED
  BY <1>1, Invariance, PTL

(***************************************************************************)
(* However links fail, overlap and take over from one another, every       *)
(* packet that reaches accept or deliver is the one whose nonce is next,   *)
(* every position stated can be resumed from, and no session in use is     *)
(* taken for a new one.                                                    *)
(***************************************************************************)
THEOREM IntegrityKept == Spec => []NoIntegrityFailure
<1>1. Inv => NoIntegrityFailure
  BY DEF Inv
<1> QED
  BY <1>1, Invariance, PTL
-----------------------------------------------------------------------------
(***************************************************************************)
(* Refinement: each direction is a reliable stream.                        *)
(***************************************************************************)
(* What the server accepts, and how many packets the client has sealed. *)
LEMMA UpstreamStep == Inv /\ [Next]_vars => [Upstream!Next]_(Upstream!vars)
<1> SUFFICES ASSUME Inv, [Next]_vars PROVE [Upstream!Next]_(Upstream!vars)
  OBVIOUS
<1> USE DEF Upstream!Next, Upstream!vars, Upstream!Send, Upstream!Receive
<1>1. /\ next \in Nat /\ Len(accepted) \in Nat /\ Len(accepted) <= next
      /\ accepted = Numbers(0, Len(accepted))
  BY Typed DEF Inv, AcceptedOK
<1>2. CASE WritePacket
  <2>1. RingOK(ring, flushed) /\ ring' = Push(ring, 1) /\ UNCHANGED accepted
    BY <1>2 DEF Inv, WritePacket, server
  <2>2. next' = next + 1
    BY <2>1, RingPush DEF next
  <2> QED
    BY <2>1, <2>2
<1>3. ASSUME NEW l \in Links, ServeCatchup(l) \/ ServeReads(l)
      PROVE  [Upstream!Next]_(Upstream!vars)
  <2>1. PICK n \in Len(accepted) .. next : accepted' = Numbers(0, n)
    BY <1>3, ServeCatchupOK, ServeReadsOK
  <2>2. next' = next
    BY <1>3 DEF ServeCatchup, ServeReads, client, next
  <2>3. CASE n = Len(accepted)
    BY <1>1, <2>1, <2>2, <2>3
  <2>4. CASE n # Len(accepted)
    <3>1. n \in Len(accepted) + 1 .. next
      BY <1>1, <2>1, <2>4
    <3>2. accepted' = [i \in 1 .. n |-> i - 1]
      <4>1. n - 0 = n /\ \A i \in 1 .. n : 0 + i - 1 = i - 1
        BY <1>1, <3>1
      <4> QED
        BY <2>1, <4>1 DEF Numbers
    <3> QED
      BY <2>2, <3>1, <3>2
  <2> QED
    BY <2>3, <2>4
<1>4. CASE RecoverCommits
  BY <1>4, RecoverCommitsRing DEF RecoverCommits, RecoverCommitsAt, server
<1>5. CASE ReadFrame
  BY <1>5, ReadFrameRing DEF ReadFrame, server
<1>6. CASE LinkCommits
  <2>1. /\ flushed < put /\ UNCHANGED accepted
        /\ ring' = Trim(ring, put, NextSeq(ring) - put)
    BY <1>6 DEF LinkCommits, server, next
  <2>2. RingOK(ring, flushed) /\ put \in 0 .. NextSeq(ring)
    BY DEF Inv, TypeOK, next
  <2>3. put \in Nat /\ ring.first <= put /\ put <= NextSeq(ring)
    BY <2>1, <2>2, RingFacts
  <2> QED
    BY <2>1, <2>2, <2>3, RingTrim DEF next
<1>7. CASE \/ Dial \/ HandshakeNew \/ HandshakeReturning \/ HandshakeRejected
           \/ RecoverSends \/ RecoverExceeded \/ RedialStops \/ LinkPuts \/ ReadCatchup
           \/ HandOver \/ HandOverPending \/ ConnectFails \/ LinkFails
           \/ ReadPacket \/ ReadTail \/ Close \/ ServerSend \/ EndSession \/ UNCHANGED vars
  <2>1. UNCHANGED <<ring, accepted>>
    BY <1>7 DEF Dial, HandshakeNew, HandshakeReturning, HandshakeRejected, RecoverSends,
                RecoverExceeded, RedialStops, LinkPuts, ReadCatchup, HandOver,
                HandOverPending, ConnectFails, LinkFails, ReadPacket, ReadTail, Close,
                Fatal, ServerSend, EndSession, outbound, client, server, vars
  <2> QED
    BY <2>1 DEF next
<1>8. ASSUME NEW l \in Links, \/ Admit(l) \/ TakeOver(l) \/ ServeRecover(l) \/ ServeWrites(l)
                              \/ ServeFlushed(l) \/ ServeFails(l)
      PROVE  [Upstream!Next]_(Upstream!vars)
  <2>1. UNCHANGED <<ring, accepted>>
    BY <1>8 DEF Admit, TakeOver, ServeRecover, ServeWrites, ServeFlushed, ServeFails,
                ServeEnds, client
  <2> QED
    BY <2>1 DEF next
<1> QED
  BY <1>2, <1>3, <1>4, <1>5, <1>6, <1>7, <1>8
     DEF Next, ClientConnects, LinkWriter, LinkReader, ServeStep

(***************************************************************************)
(* What WritePacket queued reaches the server exactly once and in order,   *)
(* although recoveries send again what earlier links carried.              *)
(***************************************************************************)
THEOREM UpstreamImplementsStream == Spec => UpstreamReliable
<1>1. Init => Upstream!Init
  <2>1. Init => next = 0
    BY RingEmpty DEF Init, next
  <2> QED
    BY <2>1 DEF Init, Upstream!Init
<1>2. Inv /\ [Next]_vars => [Upstream!Next]_(Upstream!vars)
  BY UpstreamStep
<1> QED
  BY <1>1, <1>2, Invariance, PTL DEF Spec, UpstreamReliable, Upstream!Spec

(* The beginning of a run of packets. *)
LEMMA PrefixFacts ==
  ASSUME NEW s \in Seq(Nat), NEW t \in Seq(Nat), NEW n \in Nat, s \o t = Numbers(0, n)
  PROVE  Len(s) <= n /\ s = [i \in 1 .. Len(s) |-> i - 1]
<1>1. Len(s) \in Nat /\ Len(t) \in Nat
  OBVIOUS
<1>2. Len(s \o t) = Len(s) + Len(t) /\ \A i \in 1 .. Len(s) : (s \o t)[i] = s[i]
  BY ConcatProperties
<1>3. Len(Numbers(0, n)) = n - 0 /\ \A i \in 1 .. (n - 0) : Numbers(0, n)[i] = 0 + i - 1
  <2>1. 0 \in Nat /\ 0 <= n
    OBVIOUS
  <2> QED
    BY <2>1, NumbersFacts
<1>4. Len(s) + Len(t) = n
  <2>1. Len(s \o t) = Len(Numbers(0, n)) /\ n - 0 = n
    OBVIOUS
  <2> QED
    BY <1>2, <1>3, <2>1
<1>5. Len(s) <= n
  BY <1>1, <1>4
<1>6. ASSUME NEW i \in 1 .. Len(s) PROVE s[i] = i - 1
  <2>1. i \in 1 .. (n - 0) /\ 0 + i - 1 = i - 1
    BY <1>1, <1>5
  <2> QED
    BY <1>2, <1>3, <2>1
<1>7. s = [i \in 1 .. Len(s) |-> s[i]]
  BY <1>1
<1> QED
  BY <1>5, <1>6, <1>7

(* ReadPacket returns one more packet, and it is the next one. *)
LEMMA ReadOK ==
  ASSUME Inv, ReadPacket \/ ReadTail
  PROVE  \E n \in Len(read) + 1 .. sent : read' = [i \in 1 .. n |-> i - 1]
<1>1. InboundOK'
  <2>1. [Next]_vars
    BY DEF Next
  <2> QED
    BY <2>1, InboundStep
<1>2. /\ read' \in Seq(Nat) /\ inbox' \in Seq(Nat) /\ pending' \in Seq(Nat)
      /\ hand' \in Seq(Nat) /\ recvSeq' = recvSeq
      /\ read' \o inbox' \o pending' \o hand' = Numbers(0, recvSeq')
  BY <1>1 DEF InboundOK, Packets, NothingCountedIsLost, ReadPacket, ReadTail
<1>3. read \in Seq(Nat) /\ recvSeq \in Nat /\ recvSeq <= sent /\ sent \in Nat
  BY Typed DEF Inv, TypeOK, Packets, ReaderOK
<1>4. Len(read') = Len(read) + 1 /\ Len(read) \in Nat
  <2>1. \/ inbox # <<>> /\ read' = Append(read, Head(inbox))
        \/ pending # <<>> /\ read' = Append(read, Head(pending))
    BY DEF ReadPacket, ReadTail
  <2>2. inbox \in Seq(Nat) /\ pending \in Seq(Nat)
    BY DEF Inv, TypeOK, Packets
  <2>3. (inbox # <<>> => Head(inbox) \in Nat) /\ (pending # <<>> => Head(pending) \in Nat)
    BY <2>2
  <2> QED
    BY <1>3, <2>1, <2>3, Added
<1> DEFINE s == read'
           t == inbox' \o (pending' \o hand')
<1>5. t \in Seq(Nat) /\ s \o t = Numbers(0, recvSeq)
  <2>1. /\ pending' \o hand' \in Seq(Nat) /\ read' \o inbox' \in Seq(Nat)
    BY <1>2, Queues
  <2>2. t \in Seq(Nat)
    BY <1>2, <2>1, Queues
  <2>3. (read' \o inbox') \o pending' \o hand' = (read' \o inbox') \o (pending' \o hand')
    BY <1>2, <2>1, Regroup
  <2>4. (read' \o inbox') \o (pending' \o hand') = read' \o (inbox' \o (pending' \o hand'))
    BY <1>2, <2>1, Regroup
  <2> QED
    BY <1>2, <2>2, <2>3, <2>4
<1>6. s \in Seq(Nat)
  BY <1>2
<1> HIDE DEF s, t
<1>7. Len(s) <= recvSeq /\ s = [i \in 1 .. Len(s) |-> i - 1]
  BY <1>3, <1>5, <1>6, PrefixFacts
<1>8. Len(s) = Len(read) + 1
  BY <1>4 DEF s
<1>9. Len(s) \in Len(read) + 1 .. sent
  BY <1>3, <1>4, <1>7, <1>8
<1> QED
  BY <1>7, <1>9 DEF s

(* What ReadPacket returns, and how many packets the server has sealed. *)
LEMMA DownstreamStep == Inv /\ [Next]_vars => [Downstream!Next]_(Downstream!vars)
<1> SUFFICES ASSUME Inv, [Next]_vars PROVE [Downstream!Next]_(Downstream!vars)
  OBVIOUS
<1> USE DEF Downstream!Next, Downstream!vars, Downstream!Send, Downstream!Receive
<1>1. CASE ServerSend
  BY <1>1 DEF ServerSend, client
<1>2. CASE ReadPacket \/ ReadTail
  <2>1. UNCHANGED sent
    BY <1>2 DEF ReadPacket, ReadTail, server
  <2> QED
    BY <1>2, <2>1, ReadOK
<1>3. CASE ClientConnects \/ ConnectFails
  <2>1. UNCHANGED <<sent, read>>
    BY <1>3 DEF ClientConnects, Dial, HandshakeNew, HandshakeReturning, HandshakeRejected,
                RecoverSends, RecoverExceeded, RecoverCommits, RecoverCommitsAt, RedialStops,
                ConnectFails, Fatal, inbound, server
  <2> QED
    BY <2>1
<1>4. CASE LinkWriter \/ LinkReader \/ LinkFails \/ WritePacket \/ Close
  <2>1. UNCHANGED <<sent, read>>
    BY <1>4 DEF LinkWriter, LinkReader, LinkPuts, LinkCommits, ReadCatchup, ReadFrame,
                HandOver, HandOverPending, LinkFails, WritePacket, Close, inbound, server
  <2> QED
    BY <2>1
<1>5. ASSUME NEW l \in Links, ServeStep(l) \/ ServeFails(l)
      PROVE  [Downstream!Next]_(Downstream!vars)
  <2>1. UNCHANGED <<sent, read>>
    BY <1>5 DEF ServeStep, Admit, TakeOver, ServeRecover, ServeCatchup, ServeReads,
                ServeWrites, ServeFlushed, ServeFails, ServeEnds, client
  <2> QED
    BY <2>1
<1>6. CASE EndSession \/ UNCHANGED vars
  <2>1. UNCHANGED <<sent, read>>
    BY <1>6 DEF EndSession, vars, client, server
  <2> QED
    BY <2>1
<1> QED
  BY <1>1, <1>2, <1>3, <1>4, <1>5, <1>6 DEF Next

(***************************************************************************)
(* ReadPacket returns what the server sent exactly once and in order,      *)
(* whether it came over a link or in the catchup of a recovery.            *)
(***************************************************************************)
THEOREM DownstreamImplementsStream == Spec => DownstreamReliable
<1>1. Init => Downstream!Init
  BY DEF Init, Downstream!Init
<1>2. Inv /\ [Next]_vars => [Downstream!Next]_(Downstream!vars)
  BY DownstreamStep
<1> QED
  BY <1>1, <1>2, Invariance, PTL DEF Spec, DownstreamReliable, Downstream!Spec
=============================================================================
