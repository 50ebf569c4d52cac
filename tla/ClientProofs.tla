---------------------------- MODULE ClientProofs ----------------------------
(***************************************************************************)
(* What session.Run and the et command promise, for every length of the    *)
(* queues, any exit statuses, and any output of ssh.                       *)
(*                                                                         *)
(* Three inductive invariants: SessionInv of the goroutines of Run, on     *)
(* its own and inside et, BootInv of what ssh printed, and ClientInv of    *)
(* what connect has acquired.                                              *)
(***************************************************************************)
EXTENDS Client, WellFoundedInduction, SequenceTheorems, TLAPS

NormalCauses == {"ended"} \cup Codes

(* Where the packets of terminal output are. *)
Packets ==
  /\ routed \in Nat
  /\ {held, ch, item, written} \subseteq Seq(Nat)
  /\ router = "push" => Len(held) = 1
  /\ router # "push" /\ ~Done => held = <<>>
  /\ output \in {"write", "refused"} => Len(item) = 1
  /\ output \notin {"write", "refused"} /\ ~garbled => item = <<>>
  /\ ~term => routed = 0 /\ written = <<>> /\ output = "done"
  /\ OutputInOrder

(* What the end of the session has waited for. *)
Ending ==
  /\ router \in {"read", "push", "drain", "done"}
  /\ output \in {"recv", "write", "refused", "cancel", "done"}
  /\ closed => router \in {"drain", "done"}
  /\ router = "drain" => closed
  /\ output = "cancel" => garbled
  /\ drained /\ term => output \in {"cancel", "done"}
  /\ drained /\ term /\ ~garbled /\ ~Done => router \in {"drain", "done"} /\ ch = <<>>
  /\ exit \in Codes \cup {"none"}
  /\ cause \in NormalCauses => router = "done" /\ closed /\ (garbled \/ output = "done")
  /\ NormalEndDrains

SessionInv == Packets /\ Ending

(* Passkeys come after a marker. *)
Marked(o) ==
  \A i \in 1 .. Len(o) :
    o[i] \in {"key", "part"} => \E j \in 1 .. (i - 1) : o[j] = "marker"

(* A passkey is printed, and kept, after a marker. *)
BootInv ==
  /\ out \in Seq(Tokens) /\ dropped \in Nat
  /\ dropped > 0 => Len(out) >= MaxOutput
  /\ Marked(out)
  /\ KeyNotQuoted

Stack0 == <<>>
Stack1 == <<"log">>
Stack2 == <<"console", "log">>
Stack3 == <<"conn", "console", "log">>
Stack4 == <<"onbreak", "conn", "console", "log">>
Stack5 == <<"restore", "onbreak", "conn", "console", "log">>

Connecting == {"args", "log", "open", "boot", "resolve", "dial", "start", "onbreak", "raw"}
Leaving == {"unwind", "exited"}

(* The deferred calls that are registered at each point of connect. *)
Registered ==
  /\ phase \in Connecting \cup Leaving \cup {"run"}
  /\ defers \in {Stack0, Stack1, Stack2, Stack3, Stack4, Stack5}
  /\ phase \in {"args", "log"} => defers = Stack0
  /\ phase = "open" => defers = Stack1
  /\ phase \in {"boot", "resolve", "dial"} => defers = Stack2
  /\ phase \in {"start", "onbreak"} => defers = Stack3
  /\ phase = "raw" => defers = Stack4
  /\ phase = "run" => defers = Stack5
  /\ onbreak \in BOOLEAN
  /\ onbreak => defers \in {Stack4, Stack5}
  /\ conn = "open" => defers \in {Stack3, Stack4, Stack5}
  /\ phase \notin Leaving => err = "none" /\ status = -1
  /\ phase = "exited" => status # -1 /\ defers = Stack0
  /\ status # -1 => defers \in {Stack0, Stack1}

(* The terminal is in the mode it had, or the error was met. *)
ModeKept == mode = "base" \/ modeErr

(* What became of the console. *)
Given ==
  /\ term
  /\ phase \in Connecting => console = "open" /\ run = "wait"
  /\ phase \in {"args", "log", "open"} => mode = "base"
  /\ run = "wait" => console = "open" \/ defers \in {Stack0, Stack1}
  /\ run = "close" => console # "open" /\ phase = "run"
  /\ run \notin {"wait", "close"} => console # "open" /\ ModeKept
  /\ phase = "unwind" /\ err = "panic" /\ defers # Stack5 => ModeKept
  /\ phase = "unwind" /\ err = "console" => ModeKept
  /\ phase \in Leaving /\ defers \in {Stack0, Stack1} =>
        /\ err \notin {"none", "console", "panic"} => console # "open"
        /\ ModeKept

(* Why connect returned what it did. *)
Reasons ==
  /\ phase \in Connecting \ {"raw"} => cause \in {"none", "signal"} /\ ~onbreak
  /\ phase = "raw" => cause \in {"none", "signal", "detached"}
  /\ boot = "cancelled" => Done
  /\ run \in {"join", "reader", "returned"} => Done
  /\ phase \in Leaving =>
       \/ err \in {"none", "console", "signal", "bootstrap", "dial", "start", "raw", "panic"}
       \/ err = cause /\ run = "returned"
  /\ StatusSound

ClientInv == SessionInv /\ BootInv /\ Registered /\ Given /\ Reasons
-----------------------------------------------------------------------------
(***************************************************************************)
(* session.Run: the packets of terminal output, and the end.               *)
(***************************************************************************)
(* Concatenation is associative, and the empty sequence neutral. *)
LEMMA Cats ==
  /\ <<>> \in Seq(Nat)
  /\ \A a, b \in Seq(Nat) : a \o b \in Seq(Nat)
  /\ \A a, b, c \in Seq(Nat) : (a \o b) \o c = a \o (b \o c)
  /\ \A a \in Seq(Nat) : a \o <<>> = a /\ <<>> \o a = a
<1>1. <<>> \in Seq(Nat)
  OBVIOUS
<1>2. \A a, b \in Seq(Nat) : a \o b \in Seq(Nat)
  BY ConcatProperties
<1>3. \A a, b, c \in Seq(Nat) : (a \o b) \o c = a \o (b \o c)
  BY ConcatAssociative
<1>4. \A a \in Seq(Nat) : a \o <<>> = a /\ <<>> \o a = a
  BY ConcatEmptySeq
<1> QED BY <1>1, <1>2, <1>3, <1>4

(* A sequence that is not empty is its head and its tail. *)
LEMMA HeadTail ==
  ASSUME NEW s \in Seq(Nat), s # <<>>
  PROVE  /\ <<Head(s)>> \in Seq(Nat) /\ Len(<<Head(s)>>) = 1
         /\ Tail(s) \in Seq(Nat) /\ <<Head(s)>> \o Tail(s) = s
<1>1. Head(s) \in Nat /\ Tail(s) \in Seq(Nat) /\ Len(s) \in Nat \ {0}
  BY EmptySeq
<1>2. <<Head(s)>> \in Seq(Nat) /\ Len(<<Head(s)>>) = 1
  BY <1>1
<1>3. <<Head(s)>> \o Tail(s) = s
  BY <1>1, <1>2
<1> QED BY <1>1, <1>2, <1>3

(* The packets are numbered as they arrive. *)
LEMMA NumbersGrow ==
  /\ Numbers(0) = <<>>
  /\ \A n \in Nat : /\ Numbers(n) \in Seq(Nat) /\ <<n + 1>> \in Seq(Nat)
                    /\ Numbers(n) \o <<n + 1>> = Numbers(n + 1)
<1>1. Numbers(0) = <<>>
  BY DEF Numbers
<1>2. ASSUME NEW n \in Nat
      PROVE  /\ Numbers(n) \in Seq(Nat) /\ <<n + 1>> \in Seq(Nat)
             /\ Numbers(n) \o <<n + 1>> = Numbers(n + 1)
  <2>1. Numbers(n) \in Seq(Nat) /\ Len(Numbers(n)) = n /\ <<n + 1>> \in Seq(Nat)
    BY DEF Numbers
  <2>2. Numbers(n + 1) \in Seq(Nat) /\ Len(Numbers(n + 1)) = n + 1
    BY DEF Numbers
  <2>3. Numbers(n) \o <<n + 1>> \in Seq(Nat) /\ Len(Numbers(n) \o <<n + 1>>) = n + 1
    BY <2>1
  <2>4. \A i \in 1 .. (n + 1) : (Numbers(n) \o <<n + 1>>)[i] = Numbers(n + 1)[i]
    BY <2>1 DEF Numbers
  <2> QED BY <2>1, <2>2, <2>3, <2>4, SeqEqual
<1> QED BY <1>1, <1>2

(* A step that moves no packet. *)
LEMMA PacketsKept ==
  ASSUME Packets, UNCHANGED <<term, routed, held, ch, item, written>>,
         Done => Done', garbled => garbled',
         router' # router => router' # "push" /\ (router # "push" \/ Done'),
         output = "done" => output' = "done",
         output' # output => /\ output' \notin {"write", "refused"}
                             /\ output \notin {"write", "refused"} \/ garbled'
  PROVE  Packets'
<1>1. OutputInOrder'
  BY DEF Packets, OutputInOrder
<1> QED BY <1>1 DEF Packets

(* The router numbers a packet. *)
LEMMA PacketTaken ==
  ASSUME Packets, RouterTakesOutput
  PROVE  Packets'
<1>1. /\ term /\ router = "read" /\ router' = "push"
      /\ routed' = routed + 1 /\ held' = <<routed + 1>>
      /\ UNCHANGED <<term, cause, ch, output, item, written, garbled>>
  BY DEF RouterTakesOutput, Arrives, fixed, queue, writing
<1>2. /\ routed \in Nat /\ held \in Seq(Nat) /\ ch \in Seq(Nat) /\ item \in Seq(Nat)
      /\ written \in Seq(Nat) /\ (~Done => held = <<>>)
  BY <1>1 DEF Packets
<1>3. held' \in Seq(Nat) /\ Len(held') = 1 /\ routed' \in Nat
  BY <1>1, <1>2
<1>4. ASSUME ~Done, ~garbled
      PROVE  written \o item \o ch \o held' = Numbers(routed')
  <2> DEFINE line == written \o item \o ch
  <2>1. line \in Seq(Nat)
    BY <1>2, Cats
  <2>2. line \o <<>> = Numbers(routed)
    BY <1>2, <1>4 DEF Packets, OutputInOrder
  <2>3. line = Numbers(routed)
    <3> HIDE DEF line
    <3> QED BY <2>1, <2>2, Cats
  <2> HIDE DEF line
  <2>4. line \o held' = Numbers(routed')
    BY <1>1, <1>2, <2>3, NumbersGrow
  <2> QED BY <2>4 DEF line
<1>5. OutputInOrder'
  BY <1>1, <1>4 DEF OutputInOrder, Done
<1> QED BY <1>1, <1>2, <1>3, <1>5 DEF Packets, Done

(* The router queues it. *)
LEMMA PacketQueued ==
  ASSUME Packets, RouterQueues
  PROVE  Packets'
<1>1. /\ router = "push" /\ router' = "read"
      /\ ch' = ch \o held /\ held' = <<>>
      /\ UNCHANGED <<term, cause, routed, output, item, written, garbled>>
  BY DEF RouterQueues, Queues, fixed, writing
<1>2. /\ routed \in Nat /\ held \in Seq(Nat) /\ ch \in Seq(Nat) /\ item \in Seq(Nat)
      /\ written \in Seq(Nat)
  BY DEF Packets
<1>3. held' \in Seq(Nat) /\ ch' \in Seq(Nat)
  BY <1>1, <1>2, Cats
<1>4. written \o item \o ch' \o held' = written \o item \o ch \o held
  <2>1. written \o item \in Seq(Nat) /\ (written \o item) \o ch' \in Seq(Nat)
    BY <1>2, <1>3, Cats
  <2>2. ((written \o item) \o ch') \o <<>> = (written \o item) \o ch'
    BY <2>1, Cats
  <2>3. written \o item \in Seq(Nat) /\ ch \in Seq(Nat) /\ held \in Seq(Nat)
    BY <1>2, <2>1
  <2>4. (written \o item) \o (ch \o held) = ((written \o item) \o ch) \o held
    BY <2>3, Cats, Zenon
  <2> QED BY <1>1, <2>2, <2>4
<1>5. OutputInOrder'
  BY <1>1, <1>4 DEF Packets, OutputInOrder, Done
<1> QED BY <1>1, <1>2, <1>3, <1>5 DEF Packets, Done

(* output receives it. *)
LEMMA PacketReceived ==
  ASSUME Packets, OutputTakes
  PROVE  Packets'
<1>1. /\ output = "recv" /\ output' \in {"write", "refused"} /\ ch # <<>>
      /\ item' = <<Head(ch)>> /\ ch' = Tail(ch)
      /\ UNCHANGED <<term, cause, router, routed, held, written, garbled>>
  BY DEF OutputTakes, fixed, routing
<1>2. /\ routed \in Nat /\ held \in Seq(Nat) /\ ch \in Seq(Nat) /\ item \in Seq(Nat)
      /\ written \in Seq(Nat) /\ (~garbled => item = <<>>)
  BY <1>1 DEF Packets
<1>3. /\ item' \in Seq(Nat) /\ Len(item') = 1
      /\ ch' \in Seq(Nat) /\ item' \o ch' = ch
  BY <1>1, <1>2, HeadTail
<1>4. ASSUME ~garbled
      PROVE  written \o item' \o ch' \o held = written \o item \o ch \o held
  <2>1. (written \o item') \o ch' = written \o (item' \o ch')
    <3>1. written \in Seq(Nat) /\ item' \in Seq(Nat) /\ ch' \in Seq(Nat)
      BY <1>2, <1>3
    <3> QED BY <3>1, Cats, Zenon
  <2>2. written \o item = written
    BY <1>2, <1>4, Cats
  <2> QED BY <1>3, <2>1, <2>2
<1>5. OutputInOrder'
  BY <1>1, <1>4 DEF Packets, OutputInOrder, Done
<1> QED BY <1>1, <1>2, <1>3, <1>5 DEF Packets, Done

(* output has written it. *)
LEMMA PacketWritten ==
  ASSUME Packets, OutputWrites
  PROVE  Packets'
<1>1. /\ output = "write" /\ output' = "recv"
      /\ item' = <<>> /\ written' = written \o item
      /\ UNCHANGED <<term, cause, router, routed, held, ch, garbled>>
  BY DEF OutputWrites, fixed, routing, queue
<1>2. /\ routed \in Nat /\ held \in Seq(Nat) /\ ch \in Seq(Nat) /\ item \in Seq(Nat)
      /\ written \in Seq(Nat)
  BY DEF Packets
<1>3. item' \in Seq(Nat) /\ written' \in Seq(Nat) /\ written' \o item' = written \o item
  BY <1>1, <1>2, Cats
<1>4. OutputInOrder'
  BY <1>1, <1>3 DEF Packets, OutputInOrder, Done
<1> QED BY <1>1, <1>2, <1>3, <1>4 DEF Packets, Done

(* What Run leaves behind when connect returns. *)
LEMMA PacketsForgotten ==
  ASSUME Packets, RunForgets
  PROVE  Packets'
<1>1. /\ router' = "done" /\ routed' = 0 /\ held' = <<>> /\ ch' = <<>> /\ output' = "done"
      /\ item' = <<>> /\ written' = <<>> /\ UNCHANGED term
  BY DEF RunForgets, fixed
<1>2. <<>> \in Seq(Nat) /\ <<>> \o <<>> = <<>> /\ 0 \in Nat /\ Numbers(0) = <<>>
  BY Cats, NumbersGrow
<1>3. written' \o item' \o ch' \o held' = Numbers(routed')
  BY <1>1, <1>2
<1>4. OutputInOrder'
  BY <1>3 DEF OutputInOrder
<1> QED BY <1>1, <1>2, <1>4 DEF Packets

(* The steps of Run and of its goroutines that move no packet. *)
Quiet ==
  \/ RouterSkips \/ RouterTakesStatus \/ RouterEnds \/ RouterDrained \/ RouterFails \/ RouterStops
  \/ OutputEnds \/ OutputFails \/ OutputCancels
  \/ ReaderDetaches \/ ReaderFails \/ ReaderUnblocked
  \/ SenderFails \/ SenderStops \/ ResizerStops

(* What the rest of the process does to the variables of Run. *)
Elsewhere ==
  /\ UNCHANGED <<term, routing, queue, writing>>
  /\ \E c \in {cause, "signal", "detached"} : Cancel(c)

(* A context that is done stays so, and its cause stands. *)
LEMMA CauseStands ==
  ASSUME NEW c, Cancel(c)
  PROVE  (Done => Done' /\ cause' = cause) /\ (~Done => cause' = c)
  BY DEF Cancel, Done

(* Quiet steps and those of others keep the packets. *)
LEMMA QuietPackets ==
  ASSUME Packets, Quiet \/ Elsewhere
  PROVE  Packets'
<1>1. CASE \/ RouterSkips \/ RouterTakesStatus \/ RouterEnds
  BY <1>1, PacketsKept DEF RouterSkips, RouterTakesStatus, RouterEnds, EndsWith, Arrives, fixed,
     queue, writing, Done
<1>2. CASE RouterDrained
  BY <1>2, PacketsKept, CauseStands DEF RouterDrained, RouterReturns, fixed, queue, writing
<1>3. CASE RouterFails
  BY <1>3, PacketsKept, CauseStands DEF RouterFails, RouterReturns, fixed, queue, writing
<1>4. CASE RouterStops
  BY <1>4, PacketsKept, CauseStands DEF RouterStops, RouterReturns, fixed, queue, writing
<1>5. CASE OutputEnds \/ OutputFails
  BY <1>5, PacketsKept DEF OutputEnds, OutputFails, fixed, routing, Done
<1>6. CASE OutputCancels
  BY <1>6, PacketsKept, CauseStands DEF OutputCancels, fixed, routing, queue
<1>7. CASE ReaderDetaches \/ ReaderFails \/ ReaderUnblocked
  <2>1. PICK c : ReaderReturns(c)
    BY <1>7 DEF ReaderDetaches, ReaderFails, ReaderUnblocked
  <2> QED BY <2>1, PacketsKept, CauseStands DEF ReaderReturns, fixed, routing, queue, writing
<1>8. CASE SenderFails \/ SenderStops
  <2>1. PICK c : SenderReturns(c)
    BY <1>8 DEF SenderFails, SenderStops
  <2> QED BY <2>1, PacketsKept, CauseStands DEF SenderReturns, fixed, routing, queue, writing
<1>9. CASE ResizerStops
  BY <1>9, PacketsKept DEF ResizerStops, fixed, routing, queue, writing, Done
<1>10. CASE Elsewhere
  BY <1>10, PacketsKept, CauseStands DEF Elsewhere, routing, queue, writing
<1> QED BY <1>1, <1>2, <1>3, <1>4, <1>5, <1>6, <1>7, <1>8, <1>9, <1>10 DEF Quiet

(* A cause that is an exit status is no other. *)
LEMMA CausesApart ==
  /\ {"none", "detached", "signal", "read", "output", "input", "send"} \cap NormalCauses = {}
  /\ "none" \notin Codes /\ "ended" \notin Codes
  BY SessionAssumption DEF NormalCauses

(* A step that changes nothing of how the session ends, but for a cause. *)
LEMMA EndingKept ==
  ASSUME Ending,
         UNCHANGED <<term, router, routed, exit, ch, closed, drained, output, written, garbled>>,
         NEW c, Cancel(c), c \notin NormalCauses \/ Done
  PROVE  Ending'
<1>1. Done => Done' /\ cause' = cause
  BY CauseStands
<1>2. cause' \in NormalCauses => cause = cause'
  BY CauseStands
<1> QED BY <1>1, <1>2 DEF Ending, NormalEndDrains, Normal, NormalCauses

(* The router: what it takes, and how it ends. *)
LEMMA RouterEnding ==
  ASSUME SessionInv, Router
  PROVE  Ending'
<1> USE DEF SessionInv, Ending, NormalEndDrains, NormalCauses, Normal, fixed, queue, writing
<1>0. "none" \notin NormalCauses /\ "read" \notin NormalCauses /\ "none" \notin Codes
  BY CausesApart
<1>1. CASE RouterSkips \/ RouterTakesStatus \/ RouterTakesOutput
  <2>1. /\ router = "read" /\ UNCHANGED <<term, cause, ch, closed, drained, output, garbled>>
        /\ exit' = exit \/ exit' \in Codes
        /\ router' = "read" \/ (router' = "push" /\ term)
    BY <1>1 DEF RouterSkips, RouterTakesStatus, RouterTakesOutput, Arrives
  <2> QED BY <2>1 DEF Done
<1>2. CASE RouterQueues
  <2>1. /\ router = "push" /\ router' = "read"
        /\ UNCHANGED <<term, cause, exit, closed, drained, output, garbled>>
    BY <1>2 DEF RouterQueues, Queues
  <2> QED BY <2>1 DEF Done
<1>3. CASE RouterEnds
  <2>1. /\ router = "read" /\ router' = "drain" /\ closed' = TRUE
        /\ UNCHANGED <<term, cause, routed, exit, ch, drained, output, written, garbled>>
    BY <1>3 DEF RouterEnds, EndsWith
  <2> QED BY <2>1 DEF Done
<1>4. CASE RouterDrained
  <2>1. /\ router = "drain" /\ router' = "done" /\ drained
        /\ UNCHANGED <<term, routed, exit, ch, closed, drained, output, written, garbled>>
    BY <1>4 DEF RouterDrained, RouterReturns
  <2>2. (Done => Done' /\ cause' = cause) /\ (~Done => cause' = Normal)
    BY <1>4, CauseStands DEF RouterDrained, RouterReturns
  <2>3. CASE Done
    BY <2>1, <2>2, <2>3
  <2>4. CASE ~Done
    <3>1. garbled \/ (output = "done" /\ written = Numbers(routed))
      <4>1. CASE term
        <5>1. SUFFICES ASSUME ~garbled
                       PROVE  output = "done" /\ written = Numbers(routed)
          OBVIOUS
        <5>2. output = "done" /\ ch = <<>> /\ held = <<>> /\ item = <<>>
          BY <2>1, <2>4, <4>1, <5>1 DEF Packets
        <5>3. written \o <<>> \o <<>> \o <<>> = Numbers(routed) /\ written \in Seq(Nat)
          BY <2>4, <5>1, <5>2 DEF Packets, OutputInOrder
        <5>4. written = Numbers(routed)
          BY <5>3, Cats
        <5> QED BY <5>2, <5>4
      <4>2. CASE ~term
        BY <4>2, NumbersGrow DEF Packets
      <4> QED BY <4>1, <4>2
    <3>2. cause' = Normal /\ Normal' = Normal /\ Normal \in NormalCauses /\ Done'
      BY <1>0, <2>1, <2>2, <2>4 DEF Done
    <3> QED BY <2>1, <3>1, <3>2
  <2> QED BY <2>3, <2>4
<1>5. CASE RouterFails
  <2>1. /\ router = "read" /\ router' = "done"
        /\ UNCHANGED <<term, routed, exit, ch, closed, drained, output, written, garbled>>
    BY <1>5 DEF RouterFails, RouterReturns
  <2>2. (Done => Done' /\ cause' = cause) /\ (~Done => cause' = "read")
    BY <1>5, CauseStands DEF RouterFails, RouterReturns
  <2> QED BY <1>0, <2>1, <2>2
<1>6. CASE RouterStops
  <2>1. /\ router # "done" /\ router' = "done" /\ Done
        /\ UNCHANGED <<term, routed, exit, ch, closed, drained, output, written, garbled>>
    BY <1>6 DEF RouterStops, RouterReturns
  <2>2. Done' /\ cause' = cause
    BY <1>6, CauseStands DEF RouterStops, RouterReturns
  <2> QED BY <2>1, <2>2
<1> QED BY <1>1, <1>2, <1>3, <1>4, <1>5, <1>6 DEF Router

(* output: what the end has drained. *)
LEMMA OutputEnding ==
  ASSUME SessionInv, Output
  PROVE  Ending'
<1> USE DEF SessionInv, Ending, NormalEndDrains, NormalCauses, Normal, fixed, queue, routing
<1>0. "output" \notin NormalCauses
  BY CausesApart
<1>1. CASE OutputTakes
  <2>1. /\ output = "recv" /\ output' \in {"write", "refused"}
        /\ UNCHANGED <<term, cause, router, routed, exit, closed, drained, written, garbled>>
    BY <1>1 DEF OutputTakes
  <2>2. term
    BY <2>1 DEF Packets
  <2> QED BY <2>1, <2>2 DEF Done
<1>2. CASE OutputWrites
  <2>1. /\ output = "write" /\ output' = "recv"
        /\ UNCHANGED <<term, cause, router, routed, exit, ch, closed, drained, garbled>>
    BY <1>2 DEF OutputWrites
  <2> QED BY <2>1 DEF Done
<1>3. CASE OutputEnds
  <2>1. /\ output = "recv" /\ output' = "done" /\ ((closed /\ ch = <<>>) \/ Done)
        /\ UNCHANGED <<term, cause, router, routed, exit, ch, closed, written, garbled>>
    BY <1>3 DEF OutputEnds
  <2> QED BY <2>1 DEF Done
<1>4. CASE OutputFails
  <2>1. /\ output \in {"write", "refused"} /\ output' = "cancel" /\ garbled' = TRUE
        /\ UNCHANGED <<term, cause, router, routed, exit, ch, closed, written>>
    BY <1>4 DEF OutputFails
  <2> QED BY <2>1 DEF Done
<1>5. CASE OutputCancels
  <2>1. /\ output = "cancel" /\ output' = "done"
        /\ UNCHANGED <<term, router, routed, exit, ch, closed, drained, written, garbled>>
    BY <1>5 DEF OutputCancels
  <2>2. (Done => Done' /\ cause' = cause) /\ (~Done => cause' = "output")
    BY <1>5, CauseStands DEF OutputCancels
  <2> QED BY <1>0, <2>1, <2>2
<1> QED BY <1>1, <1>2, <1>3, <1>4, <1>5 DEF Output

(* Every step of Run, of its goroutines and of the rest of the process. *)
LEMMA SessionStep ==
  ASSUME SessionInv,
         \/ Router \/ Output \/ Elsewhere
         \/ ReaderDetaches \/ ReaderFails \/ ReaderUnblocked
         \/ SenderFails \/ SenderStops \/ ResizerStops
  PROVE  SessionInv'
<1>1. Packets'
  BY PacketTaken, PacketQueued, PacketReceived, PacketWritten, QuietPackets
     DEF SessionInv, Router, Output, Quiet
<1>2. Ending'
  <2>1. CASE Router
    BY <2>1, RouterEnding
  <2>2. CASE Output
    BY <2>2, OutputEnding
  <2>3. CASE ReaderDetaches \/ ReaderFails \/ ReaderUnblocked
    <3>1. /\ cause' \in {cause, "detached", "input"} /\ (Done => cause' = cause)
          /\ UNCHANGED <<term, routing, queue, writing>>
      BY <2>3 DEF ReaderDetaches, ReaderFails, ReaderUnblocked, ReaderReturns, Cancel, fixed
    <3>2. PICK c \in {cause, "detached", "input"} : Cancel(c)
      BY <3>1 DEF Cancel, Done
    <3>3. c \notin NormalCauses \/ Done
      BY CausesApart DEF Done
    <3> QED BY <3>1, <3>2, <3>3, EndingKept DEF SessionInv, routing, queue, writing
  <2>4. CASE SenderFails \/ SenderStops
    <3>1. /\ cause' \in {cause, "send"} /\ (Done => cause' = cause)
          /\ UNCHANGED <<term, routing, queue, writing>>
      BY <2>4 DEF SenderFails, SenderStops, SenderReturns, Cancel, fixed
    <3>2. PICK c \in {cause, "send"} : Cancel(c)
      BY <3>1 DEF Cancel, Done
    <3>3. c \notin NormalCauses \/ Done
      BY CausesApart DEF Done
    <3> QED BY <3>1, <3>2, <3>3, EndingKept DEF SessionInv, routing, queue, writing
  <2>5. CASE ResizerStops
    <3>1. Cancel(cause) /\ Done /\ UNCHANGED <<term, routing, queue, writing>>
      BY <2>5 DEF ResizerStops, Cancel, fixed
    <3> QED BY <3>1, EndingKept DEF SessionInv, routing, queue, writing
  <2>6. CASE Elsewhere
    <3>1. PICK c \in {cause, "signal", "detached"} : Cancel(c)
      BY <2>6 DEF Elsewhere
    <3>2. c \notin NormalCauses \/ Done
      BY CausesApart DEF Done
    <3> QED BY <2>6, <3>1, <3>2, EndingKept DEF Elsewhere, SessionInv, routing, queue, writing
  <2> QED BY <2>1, <2>2, <2>3, <2>4, <2>5, <2>6
<1> QED BY <1>1, <1>2 DEF SessionInv

(* The steps of Run itself, and of its caller, are the rest's. *)
LEMMA RunElsewhere ==
  ASSUME \/ RunStartsClose \/ RunCloses \/ RunJoins \/ RunReturns \/ CallerCancels \/ Returned
         \/ UNCHANGED vars
  PROVE  Elsewhere
<1>1. UNCHANGED <<term, routing, queue, writing>>
  BY DEF RunStartsClose, RunCloses, RunJoins, RunReturns, CallerCancels, Returned, vars, fixed
<1>2. cause' = cause \/ CallerCancels
  BY DEF RunStartsClose, RunCloses, RunJoins, RunReturns, Returned, vars
<1>3. cause' = cause => Cancel(cause)
  BY DEF Cancel
<1>4. CallerCancels => \E c \in {"signal", "detached"} : Cancel(c)
  BY DEF CallerCancels
<1> QED BY <1>1, <1>2, <1>3, <1>4 DEF Elsewhere

(* A session starts with nothing on its way. *)
LEMMA SessionStart == Init => SessionInv
<1> SUFFICES ASSUME Init PROVE SessionInv
  OBVIOUS
<1>1. /\ routed = 0 /\ held = <<>> /\ ch = <<>> /\ item = <<>> /\ written = <<>>
      /\ router = "read" /\ output \in {"recv", "done"} /\ (~term => output = "done")
      /\ closed = FALSE /\ garbled = FALSE /\ exit = "none" /\ cause = "none"
  BY DEF Init
<1>2. term => ~drained
  BY DEF Init
<1>3. <<>> \in Seq(Nat) /\ <<>> \o <<>> = <<>> /\ 0 \in Nat /\ Numbers(0) = <<>>
  BY Cats, NumbersGrow
<1>4. written \o item \o ch \o held = Numbers(routed)
  BY <1>1, <1>3
<1>5. Packets
  BY <1>1, <1>3, <1>4 DEF Packets, OutputInOrder
<1>6. cause \notin NormalCauses
  BY <1>1, CausesApart
<1>7. Ending
  BY <1>1, <1>2, <1>6 DEF Ending, NormalEndDrains, NormalCauses
<1> QED BY <1>5, <1>7 DEF SessionInv

(***************************************************************************)
(* session.Run, with a terminal or without, keeps SessionInv.              *)
(***************************************************************************)
THEOREM SessionInvariance == Spec => []SessionInv
<1>1. SessionInv /\ [Next]_vars => SessionInv'
  BY SessionStep, RunElsewhere DEF Next, Run
<1> QED BY <1>1, SessionStart, PTL DEF Spec

(***************************************************************************)
(* session.Run loses and reorders no remote output while the session runs, *)
(* whatever the length of the queue and however slow the terminal is.      *)
(***************************************************************************)
THEOREM OutputKeepsOrder == Spec => []OutputInOrder
<1>1. SessionInv => OutputInOrder
  BY DEF SessionInv, Packets
<1> QED BY <1>1, SessionInvariance, PTL

(***************************************************************************)
(* A session that the server ended has written all of its output, unless   *)
(* the terminal failed, and ends with the status the server sent.          *)
(***************************************************************************)
THEOREM EndWaitsForOutput == Spec => []NormalEndDrains
<1>1. SessionInv => NormalEndDrains
  BY DEF SessionInv, Ending
<1> QED BY <1>1, SessionInvariance, PTL
-----------------------------------------------------------------------------
(***************************************************************************)
(* bootstrap.Run: what the error text quotes.                              *)
(***************************************************************************)
(* A non-empty set of naturals has a least element. *)
LEMMA LeastNatural ==
  ASSUME NEW T \in SUBSET Nat, T # {}
  PROVE  \E m \in T : \A k \in T : m <= k
<1>1. PICK m \in T : \A k \in T : ~(<<k, m>> \in OpToRel(<, Nat))
  BY NatLessThanWellFounded, WFMin
<1>2. \A k \in Nat, n \in Nat : k < n => <<k, n>> \in OpToRel(<, Nat)
  BY DEF OpToRel
<1>3. \A k \in T : ~(k < m)
  BY <1>1, <1>2
<1>4. \A k \in T : m <= k
  BY <1>3
<1> QED BY <1>4

(* Nothing before the first marker is a marker. *)
LEMMA CutIsFirst ==
  ASSUME NEW o \in Seq(Tokens)
  PROVE  /\ Cut(o) \in 1 .. (Len(o) + 1)
         /\ \A i \in 1 .. (Cut(o) - 1) : i \in 1 .. Len(o) /\ o[i] # "marker"
<1> DEFINE s == Append(o, "marker")
<1> DEFINE I == {i \in 1 .. Len(s) : s[i] = "marker"}
<1>1. "marker" \in Tokens
  BY DEF Tokens
<1>2. /\ s \in Seq(Tokens) /\ Len(s) = Len(o) + 1 /\ s[Len(o) + 1] = "marker"
      /\ \A i \in 1 .. Len(o) : s[i] = o[i]
  BY <1>1
<1>3. Len(o) \in Nat
  OBVIOUS
<1>4. I \in SUBSET Nat /\ Len(o) + 1 \in I
  BY <1>2, <1>3
<1>5. Cut(o) = Min(I)
  BY <1>4 DEF Cut, SelectInSeq
<1>6. PICK m \in I : \A k \in I : m <= k
  <2> HIDE DEF I
  <2> QED BY <1>4, LeastNatural
<1>7. Min(I) \in I /\ \A k \in I : Min(I) <= k
  <2> HIDE DEF I
  <2> QED BY <1>6 DEF Min
<1>8. Cut(o) \in I /\ \A k \in I : Cut(o) <= k
  BY <1>5, <1>7
<1> QED BY <1>2, <1>3, <1>8

(* The end of a text is part of it. *)
LEMMA TailingIsPart ==
  ASSUME NEW o \in Seq(Tokens), NEW n \in Nat
  PROVE  ToSet(Tailing(o, n)) \subseteq ToSet(o)
<1>1. CASE Len(o) <= n
  BY <1>1 DEF Tailing
<1>2. CASE ~(Len(o) <= n)
  <2> DEFINE t == SubSeq(o, Len(o) - n + 1, Len(o))
  <2>1. Len(o) \in Nat /\ n < Len(o)
    BY <1>2
  <2>2. DOMAIN t = 1 .. n /\ \A i \in 1 .. n : t[i] = o[Len(o) - n + i] /\ Len(o) - n + i \in DOMAIN o
    BY <2>1
  <2>3. Tailing(o, n) = t
    BY <1>2 DEF Tailing
  <2> HIDE DEF t
  <2> QED BY <2>2, <2>3 DEF ToSet
<1> QED BY <1>1, <1>2

(* The excerpt of such a text, without a passkey of ours, has none. *)
LEMMA ExcerptIsClean ==
  ASSUME NEW o \in Seq(Tokens), Marked(o), "own" \notin ToSet(o)
  PROVE  ToSet(excerpt(o)) \cap Secrets = {}
<1> DEFINE c == Cut(o)
<1> DEFINE t == SubSeq(o, 1, c - 1)
<1>1. /\ c \in 1 .. (Len(o) + 1) /\ Len(o) \in Nat
      /\ \A i \in 1 .. (c - 1) : i \in 1 .. Len(o) /\ o[i] # "marker"
  BY CutIsFirst
<1> HIDE DEF c
<1>2. t \in Seq(Tokens) /\ DOMAIN t = 1 .. (c - 1) /\ \A i \in 1 .. (c - 1) : t[i] = o[i]
  BY <1>1
<1>3. excerpt(o) = Tailing(t, ExcerptLen)
  BY DEF excerpt, c
<1> HIDE DEF t
<1>4. \A i \in 1 .. (c - 1) : o[i] \notin Secrets
  <2>1. SUFFICES ASSUME NEW i \in 1 .. (c - 1), o[i] \in Secrets PROVE FALSE
    OBVIOUS
  <2>2. i \in 1 .. Len(o) /\ o[i] \in ToSet(o)
    BY <1>1, <2>1 DEF ToSet
  <2>3. o[i] \in {"key", "part"}
    BY <2>1, <2>2 DEF Secrets
  <2>4. PICK j \in 1 .. (i - 1) : o[j] = "marker"
    BY <2>2, <2>3 DEF Marked
  <2> QED BY <1>1, <2>1, <2>4
<1>5. ToSet(t) \cap Secrets = {}
  BY <1>2, <1>4 DEF ToSet
<1>6. ToSet(Tailing(t, ExcerptLen)) \subseteq ToSet(t)
  BY <1>2, TailingIsPart, BootstrapAssumption
<1> QED BY <1>3, <1>5, <1>6

(* A step that prints nothing and quotes nothing. *)
LEMMA BootKept ==
  ASSUME BootInv, UNCHANGED <<out, dropped, quoted>>
  PROVE  BootInv'
  BY DEF BootInv, Marked, KeyNotQuoted

(* ssh prints: cappedBuffer.Write. *)
LEMMA SshPrintsStep ==
  ASSUME BootInv, SshPrints
  PROVE  BootInv'
<1>1. PICK t \in Tokens :
        /\ t \in {"key", "part"} => "marker" \in ToSet(out) \/ dropped > 0
        /\ IF Len(out) < MaxOutput THEN out' = Append(out, t) /\ dropped' = dropped
           ELSE out' = out /\ dropped' = dropped + 1
  BY DEF SshPrints
<1>2. /\ quoted' = quoted /\ out \in Seq(Tokens) /\ dropped \in Nat /\ Len(out) \in Nat
      /\ Marked(out) /\ (dropped > 0 => Len(out) >= MaxOutput) /\ MaxOutput \in Nat
  BY BootstrapAssumption DEF SshPrints, BootInv
<1>3. KeyNotQuoted'
  BY <1>2 DEF BootInv, KeyNotQuoted
<1>4. CASE Len(out) < MaxOutput
  <2>1. /\ out' = Append(out, t) /\ dropped' = dropped /\ dropped = 0
    BY <1>1, <1>2, <1>4
  <2>2. /\ out' \in Seq(Tokens) /\ Len(out') = Len(out) + 1 /\ out'[Len(out) + 1] = t
        /\ \A i \in 1 .. Len(out) : out'[i] = out[i]
    BY <1>2, <2>1
  <2>3. Marked(out')
    <3>1. SUFFICES ASSUME NEW i \in 1 .. Len(out'), out'[i] \in {"key", "part"}
                   PROVE  \E j \in 1 .. (i - 1) : out'[j] = "marker"
      BY DEF Marked
    <3>2. CASE i \in 1 .. Len(out)
      <4>1. PICK j \in 1 .. (i - 1) : out[j] = "marker"
        BY <1>2, <2>2, <3>1, <3>2 DEF Marked
      <4> QED BY <1>2, <2>2, <3>2, <4>1
    <3>3. CASE i = Len(out) + 1
      <4>1. "marker" \in ToSet(out)
        BY <1>1, <2>1, <2>2, <3>1, <3>3
      <4>2. PICK j \in 1 .. Len(out) : out[j] = "marker"
        BY <1>2, <4>1 DEF ToSet
      <4> QED BY <1>2, <2>2, <3>3, <4>2
    <3> QED BY <1>2, <2>2, <3>2, <3>3
  <2> QED BY <1>2, <1>3, <2>1, <2>2, <2>3 DEF BootInv
<1>5. CASE ~(Len(out) < MaxOutput)
  <2>1. out' = out /\ dropped' = dropped + 1
    BY <1>1, <1>5
  <2> QED BY <1>2, <1>3, <1>5, <2>1 DEF BootInv
<1> QED BY <1>4, <1>5

(* Run returns: the output is quoted or not, and forgotten. *)
LEMMA BootReturnsStep ==
  ASSUME BootInv, NEW cancelled, BootReturns(cancelled)
  PROVE  BootInv'
<1>1. out' = <<>> /\ dropped' = 0
  BY DEF BootReturns, BootForgets
<1>2. <<>> \in Seq(Tokens) /\ Len(<<>>) = 0 /\ 0 \in Nat
  OBVIOUS
<1>3. Marked(<<>>) /\ "own" \notin ToSet(<<>>) /\ ToSet(<<>>) = {}
  BY DEF Marked, ToSet
<1>4. quoted' = <<>> \/ quoted' = excerpt(Shown)
  BY DEF BootReturns, describeFailure
<1>5. Shown \in Seq(Tokens) /\ Marked(Shown) /\ "own" \notin ToSet(Shown)
  BY <1>2, <1>3 DEF Shown, containsPiece, BootInv
<1>6. ToSet(excerpt(Shown)) \cap Secrets = {}
  <2> DEFINE o == Shown
  <2>1. o \in Seq(Tokens) /\ Marked(o) /\ "own" \notin ToSet(o)
    BY <1>5
  <2> HIDE DEF o
  <2>2. ToSet(excerpt(o)) \cap Secrets = {}
    BY <2>1, ExcerptIsClean
  <2> QED BY <2>2 DEF o
<1>7. KeyNotQuoted'
  BY <1>3, <1>4, <1>6 DEF KeyNotQuoted
<1> QED BY <1>1, <1>2, <1>3, <1>7 DEF BootInv

(* Every step of bootstrap.Run and of ssh. *)
LEMMA BootStep ==
  ASSUME BootInv, NEW cancelled, NEW onWindows, BootNext(cancelled, onWindows)
  PROVE  BootInv'
<1>1. CASE SshPrints
  BY <1>1, SshPrintsStep
<1>2. CASE BootReturns(cancelled)
  BY <1>2, BootReturnsStep
<1>3. CASE \/ BootRefuses(cancelled) \/ BootStarts(cancelled)
           \/ SshPrompts \/ SshExits \/ HolderEnds
           \/ BootInterrupts(cancelled, onWindows) \/ BootKills \/ BootJoins
  BY <1>3, BootKept DEF BootRefuses, BootStarts, SshPrompts, SshExits, HolderEnds, BootInterrupts,
     BootKills, BootJoins, captured
<1> QED BY <1>1, <1>2, <1>3 DEF BootNext, Ssh
-----------------------------------------------------------------------------
(***************************************************************************)
(* The et command: its steps, as the sessions' and the bootstrap's see     *)
(* them.                                                                   *)
(***************************************************************************)
(* How the session ended survives what connect forgets of it. *)
LEMMA EndingForgotten ==
  ASSUME SessionInv, RunForgets
  PROVE  Ending'
<1>1. /\ router' = "done" /\ routed' = 0 /\ ch' = <<>> /\ output' = "done"
      /\ written' = <<>> /\ UNCHANGED <<term, cause, exit, closed>>
  BY DEF RunForgets, fixed
<1>2. written' = Numbers(routed')
  BY <1>1, NumbersGrow
<1> QED BY <1>1, <1>2 DEF SessionInv, Ending, NormalEndDrains, Normal, NormalCauses

(* connect on its way to the session. *)
Connects ==
  \/ Arguments \/ OpensLog \/ Opens \/ Boots \/ Booted \/ Resolves \/ Dials \/ Starts
  \/ RegistersBreak \/ MakesRaw

(* None of these steps looks into the session. *)
LEMMA OutsideRun ==
  ASSUME Connects \/ Unwinds \/ Exited \/ UNCHANGED clientVars
  PROVE  /\ UNCHANGED <<fixed, cause, routing, queue, writing, run>>
         /\ ~ClosesConsole => UNCHANGED console
<1>1. CASE Connects
  BY <1>1 DEF Connects, Arguments, OpensLog, Opens, Boots, InBoot, Booted, Resolves, Dials, Starts,
     RegistersBreak, MakesRaw, vars
<1>2. CASE Unwinds
  BY <1>2 DEF Unwinds, Restores, ForgetsBreak, ClosesConn, ClosesConsole, ClosesLog, PicksStatus,
     Dies, Ends, vars
<1>3. CASE Exited \/ UNCHANGED clientVars
  BY <1>3 DEF Exited, clientVars, vars
<1> QED BY <1>1, <1>2, <1>3

(* The session is what module Session says of it. *)
LEMMA ClientSession ==
  ASSUME SessionInv, [ClientNext]_clientVars
  PROVE  SessionInv'
<1>1. CASE Connects \/ Unwinds \/ Exited \/ UNCHANGED clientVars
  <2>1. UNCHANGED <<fixed, cause, routing, queue, writing, run>>
    BY <1>1, OutsideRun
  <2>2. Elsewhere
    BY <2>1 DEF Elsewhere, Cancel, fixed
  <2> QED BY <2>2, SessionStep
<1>2. CASE Services
  <2>1. CASE InRun(RunJoins) \/ InRun(RunReturns)
    BY <2>1, RunElsewhere, SessionStep DEF InRun
  <2>2. CASE ~(InRun(RunJoins) \/ InRun(RunReturns))
    BY <1>2, <2>2, SessionStep DEF Services, InRun
  <2> QED BY <2>1, <2>2
<1>3. CASE RunStartsToStop \/ RunStops
  BY <1>3, RunElsewhere, SessionStep DEF RunStartsToStop, InRun, RunStops
<1>4. CASE Ran \/ Panics
  BY <1>4, PacketsForgotten, EndingForgotten DEF Ran, Panics, SessionInv
<1>5. CASE Signalled \/ CtrlBreak
  <2>1. PICK c \in {"signal", "detached"} : Cancels(c)
    BY <1>5 DEF Signalled, CtrlBreak
  <2>2. Elsewhere
    BY <2>1 DEF Elsewhere, Cancels, fixed
  <2> QED BY <2>2, SessionStep
<1> QED BY <1>1, <1>2, <1>3, <1>4, <1>5 DEF ClientNext, Connects

(* What ssh printed is what module Bootstrap says of it. *)
LEMMA ClientBoot ==
  ASSUME BootInv, [ClientNext]_clientVars
  PROVE  BootInv'
<1>1. CASE Boots
  BY <1>1, BootStep DEF Boots, InBoot, BootNext
<1>2. CASE ~Boots
  <2>1. UNCHANGED <<out, dropped, quoted>>
    BY <1>2 DEF ClientNext, clientVars, bootVars, captured, Arguments, OpensLog, Opens, Booted,
       Resolves, Dials, Starts, RegistersBreak, MakesRaw, Services, InRun, RunStartsToStop, RunStops, ModeSet, Ran,
       Panics, RunForgets, Unwinds, Restores, ForgetsBreak, ClosesConn, ClosesConsole, ClosesLog,
       PicksStatus, Dies, Ends, Signalled, CtrlBreak, Cancels, Exited
  <2> QED BY <2>1, BootKept
<1> QED BY <1>1, <1>2
-----------------------------------------------------------------------------
(***************************************************************************)
(* connect and its deferred calls.                                         *)
(***************************************************************************)
Calls == {"restore", "onbreak", "conn", "console", "log"}

(* How many calls each stack holds. *)
LEMMA StackLengths ==
  /\ Len(Stack0) = 0 /\ Len(Stack1) = 1 /\ Len(Stack2) = 2
  /\ Len(Stack3) = 3 /\ Len(Stack4) = 4 /\ Len(Stack5) = 5
  BY DEF Stack0, Stack1, Stack2, Stack3, Stack4, Stack5

(* They hold calls. *)
LEMMA StacksOfCalls ==
  /\ Stack0 \in Seq(Calls) /\ Stack1 \in Seq(Calls) /\ Stack2 \in Seq(Calls)
  /\ Stack3 \in Seq(Calls) /\ Stack4 \in Seq(Calls) /\ Stack5 \in Seq(Calls)
  /\ "log" \in Calls /\ "console" \in Calls /\ "conn" \in Calls /\ "onbreak" \in Calls
  /\ "restore" \in Calls
  BY DEF Stack0, Stack1, Stack2, Stack3, Stack4, Stack5, Calls

(* A call pushed on a sequence of them. *)
LEMMA Pushed ==
  ASSUME NEW d \in Calls, NEW s \in Seq(Calls), NEW t \in Seq(Calls), NEW n \in Nat,
         Len(s) = n, Len(t) = n + 1, t[1] = d, \A i \in 1 .. n : t[i + 1] = s[i]
  PROVE  <<d>> \o s = t
<1>1. <<d>> \in Seq(Calls) /\ Len(<<d>>) = 1 /\ <<d>>[1] = d /\ Len(s) \in Nat
  OBVIOUS
<1>2. <<d>> \o s \in Seq(Calls) /\ Len(<<d>> \o s) = Len(s) + 1
  BY <1>1
<1>3. \A i \in 1 .. (Len(s) + 1) : (<<d>> \o s)[i] = t[i]
  <2>1. SUFFICES ASSUME NEW i \in 1 .. (Len(s) + 1) PROVE (<<d>> \o s)[i] = t[i]
    OBVIOUS
  <2>2. CASE i = 1
    BY <1>1, <2>2
  <2>3. CASE i # 1
    <3>1. i - 1 \in 1 .. Len(s) /\ (i - 1) + 1 = i
      BY <1>1, <2>3
    <3>2. (<<d>> \o s)[i] = s[i - 1]
      BY <1>1, <3>1
    <3> QED BY <3>1, <3>2
  <2> QED BY <2>2, <2>3
<1> QED BY <1>2, <1>3, SeqEqual

(* The stacks of deferred calls, and how they grow and shrink. *)
LEMMA Stacks ==
  /\ <<>> = Stack0 /\ <<"log">> = Stack1
  /\ <<"log">> \o Stack0 = Stack1 /\ <<"console">> \o Stack1 = Stack2
  /\ <<"conn">> \o Stack2 = Stack3 /\ <<"onbreak">> \o Stack3 = Stack4
  /\ <<"restore">> \o Stack4 = Stack5
  /\ Head(Stack1) = "log" /\ Head(Stack2) = "console" /\ Head(Stack3) = "conn"
  /\ Head(Stack4) = "onbreak" /\ Head(Stack5) = "restore"
  /\ Tail(Stack1) = Stack0 /\ Tail(Stack2) = Stack1 /\ Tail(Stack3) = Stack2
  /\ Tail(Stack4) = Stack3 /\ Tail(Stack5) = Stack4
  /\ Stack0 # Stack1 /\ Stack0 # Stack2 /\ Stack0 # Stack3 /\ Stack0 # Stack4 /\ Stack0 # Stack5
  /\ Stack1 # Stack2 /\ Stack1 # Stack3 /\ Stack1 # Stack4 /\ Stack1 # Stack5
  /\ Stack2 # Stack3 /\ Stack2 # Stack4 /\ Stack2 # Stack5
  /\ Stack3 # Stack4 /\ Stack3 # Stack5 /\ Stack4 # Stack5
<1>1. <<>> = Stack0 /\ <<"log">> = Stack1
  BY DEF Stack0, Stack1
<1>2. Stack1[1] = "log" /\ \A i \in 1 .. 0 : Stack1[i + 1] = Stack0[i]
  BY DEF Stack0, Stack1
<1>3. Stack2[1] = "console" /\ \A i \in 1 .. 1 : Stack2[i + 1] = Stack1[i]
  BY DEF Stack1, Stack2
<1>4. Stack3[1] = "conn" /\ \A i \in 1 .. 2 : Stack3[i + 1] = Stack2[i]
  BY DEF Stack2, Stack3
<1>5. Stack4[1] = "onbreak" /\ \A i \in 1 .. 3 : Stack4[i + 1] = Stack3[i]
  BY DEF Stack3, Stack4
<1>6. Stack5[1] = "restore" /\ \A i \in 1 .. 4 : Stack5[i + 1] = Stack4[i]
  BY DEF Stack4, Stack5
<1>7. <<"log">> \o Stack0 = Stack1 /\ <<"console">> \o Stack1 = Stack2
  <2>1. <<"log">> \o Stack0 = Stack1
    <3>1. Len(Stack0) = 0 /\ Len(Stack1) = 0 + 1 /\ 0 \in Nat
      BY StackLengths
    <3> QED BY <1>2, <3>1, StacksOfCalls, Pushed
  <2>2. <<"console">> \o Stack1 = Stack2
    <3>1. Len(Stack1) = 1 /\ Len(Stack2) = 1 + 1 /\ 1 \in Nat
      BY StackLengths
    <3> QED BY <1>3, <3>1, StacksOfCalls, Pushed
  <2> QED BY <2>1, <2>2
<1>8. <<"conn">> \o Stack2 = Stack3 /\ <<"onbreak">> \o Stack3 = Stack4
  <2>1. <<"conn">> \o Stack2 = Stack3
    <3>1. Len(Stack2) = 2 /\ Len(Stack3) = 2 + 1 /\ 2 \in Nat
      BY StackLengths
    <3> QED BY <1>4, <3>1, StacksOfCalls, Pushed
  <2>2. <<"onbreak">> \o Stack3 = Stack4
    <3>1. Len(Stack3) = 3 /\ Len(Stack4) = 3 + 1 /\ 3 \in Nat
      BY StackLengths
    <3> QED BY <1>5, <3>1, StacksOfCalls, Pushed
  <2> QED BY <2>1, <2>2
<1>9. <<"restore">> \o Stack4 = Stack5
  <2>1. <<"restore">> \o Stack4 = Stack5
    <3>1. Len(Stack4) = 4 /\ Len(Stack5) = 4 + 1 /\ 4 \in Nat
      BY StackLengths
    <3> QED BY <1>6, <3>1, StacksOfCalls, Pushed
  <2> QED BY <2>1
<1>10. /\ Head(Stack1) = "log" /\ Head(Stack2) = "console" /\ Head(Stack3) = "conn"
       /\ Head(Stack4) = "onbreak" /\ Head(Stack5) = "restore"
  BY DEF Stack1, Stack2, Stack3, Stack4, Stack5
<1>11. Tail(Stack1) = Stack0 /\ Tail(Stack2) = Stack1 /\ Tail(Stack3) = Stack2
  BY DEF Stack0, Stack1, Stack2, Stack3
<1>12. Tail(Stack4) = Stack3 /\ Tail(Stack5) = Stack4
  BY DEF Stack3, Stack4, Stack5
<1>13. /\ Stack0 # Stack1 /\ Stack0 # Stack2 /\ Stack0 # Stack3 /\ Stack0 # Stack4
       /\ Stack0 # Stack5
  BY DEF Stack0, Stack1, Stack2, Stack3, Stack4, Stack5
<1>14. Stack1 # Stack2 /\ Stack1 # Stack3 /\ Stack1 # Stack4 /\ Stack1 # Stack5
  BY StackLengths
<1>15. Stack2 # Stack3 /\ Stack2 # Stack4 /\ Stack2 # Stack5
  BY StackLengths
<1>16. Stack3 # Stack4 /\ Stack3 # Stack5 /\ Stack4 # Stack5
  BY DEF Stack3, Stack4, Stack5
<1> QED BY <1>1, <1>7, <1>8, <1>9, <1>10, <1>11, <1>12, <1>13, <1>14, <1>15, <1>16

(* A deferred call is the last registered. *)
LEMMA DeferredPops ==
  ASSUME Registered, NEW d, Deferred(d)
  PROVE  /\ phase = "unwind" /\ UNCHANGED <<phase, err, status>>
         /\ \/ d = "restore" /\ defers = Stack5 /\ defers' = Stack4
            \/ d = "onbreak" /\ defers = Stack4 /\ defers' = Stack3
            \/ d = "conn" /\ defers = Stack3 /\ defers' = Stack2
            \/ d = "console" /\ defers = Stack2 /\ defers' = Stack1
            \/ d = "log" /\ defers = Stack1 /\ defers' = Stack0
  BY Stacks DEF Registered, Deferred

(* Each call is deferred once what it undoes was done. *)
LEMMA ConnectsRegistered ==
  ASSUME Registered, Connects
  PROVE  Registered'
<1> USE Stacks DEF Registered, Connecting, Leaving
<1>1. CASE Arguments \/ OpensLog \/ Opens
  <2>1. CASE Arguments
    BY <2>1 DEF Arguments, Exits
  <2>2. CASE OpensLog
    BY <2>2 DEF OpensLog, Exits, Defers
  <2>3. CASE Opens
    BY <2>3 DEF Opens, Defers, Returns
  <2> QED BY <1>1, <2>1, <2>2, <2>3
<1>2. CASE Boots
  BY <1>2 DEF Boots, InBoot, own
<1>3. CASE Booted \/ Resolves \/ Starts
  BY <1>3 DEF Booted, Resolves, Starts, Returns
<1>4. CASE Dials
  BY <1>4 DEF Dials, Defers, Returns
<1>5. CASE RegistersBreak
  BY <1>5 DEF RegistersBreak, Defers
<1>6. CASE MakesRaw
  BY <1>6 DEF MakesRaw, Defers, Returns
<1> QED BY <1>1, <1>2, <1>3, <1>4, <1>5, <1>6 DEF Connects

(* While the session runs, and when connect unwinds. *)
LEMMA OthersRegistered ==
  ASSUME Registered,
         \/ Services \/ RunStartsToStop \/ RunStops \/ Ran \/ Panics \/ Unwinds \/ Signalled \/ CtrlBreak \/ Exited
         \/ UNCHANGED clientVars
  PROVE  Registered'
<1>1. CASE Services \/ Signalled \/ CtrlBreak \/ Exited \/ UNCHANGED clientVars
  BY <1>1 DEF Registered, Services, InRun, Signalled, CtrlBreak, Cancels, Exited, clientVars, own
<1>2. CASE RunStartsToStop \/ RunStops
  BY <1>2 DEF Registered, RunStartsToStop, InRun, RunStops, own
<1>3. CASE Ran \/ Panics
  BY <1>3 DEF Registered, Ran, Panics, RunForgets, Returns, Leaving, Connecting
<1>4. CASE Restores
  BY <1>4, DeferredPops, Stacks DEF Registered, Restores, Leaving
<1>5. CASE ForgetsBreak
  BY <1>5, DeferredPops, Stacks DEF Registered, ForgetsBreak, Leaving
<1>6. CASE ClosesConn
  BY <1>6, DeferredPops, Stacks DEF Registered, ClosesConn, Leaving
<1>7. CASE ClosesConsole
  BY <1>7, DeferredPops, Stacks DEF Registered, ClosesConsole, Leaving
<1>8. CASE ClosesLog
  BY <1>8, DeferredPops, Stacks DEF Registered, ClosesLog, Leaving
<1>9. CASE PicksStatus \/ Dies \/ Ends
  BY <1>9, Stacks DEF Registered, PicksStatus, Dies, Ends, Leaving, Connecting
<1> QED BY <1>1, <1>2, <1>3, <1>4, <1>5, <1>6, <1>7, <1>8, <1>9 DEF Unwinds
-----------------------------------------------------------------------------
(***************************************************************************)
(* The terminal's mode and the console.                                    *)
(***************************************************************************)
(* Setting the mode either succeeds or leaves the error. *)
LEMMA ModeSetKept ==
  ASSUME ModeSet
  PROVE  ModeKept'
  BY DEF ModeSet, ModeKept

(* On its way to the session connect keeps the console open. *)
LEMMA ConnectsGiven ==
  ASSUME Registered, Given, Reasons, Connects
  PROVE  Given'
<1>1. UNCHANGED <<term, console, run>>
  <2>1. ~ClosesConsole
    BY DEF Connects, ClosesConsole, Deferred, Arguments, OpensLog, Opens, Boots, InBoot, Booted,
       Resolves, Dials, Starts, RegistersBreak, MakesRaw
  <2> QED BY <2>1, OutsideRun DEF fixed
<1> USE Stacks, <1>1 DEF Given, Registered, Connecting, Leaving, ModeKept
<1>2. CASE Arguments \/ OpensLog
  BY <1>2 DEF Arguments, OpensLog, Exits, Defers, bootVars
<1>3. CASE Opens
  BY <1>3 DEF Opens, Defers, Returns, bootVars
<1>4. CASE Boots
  BY <1>4 DEF Boots, InBoot, own
<1>5. CASE Booted
  <2>1. /\ phase = "boot" /\ phase' \in {"resolve", "unwind"} /\ UNCHANGED defers
        /\ err' \in {"none", "signal", "bootstrap"}
    BY <1>5 DEF Booted, Returns, Reasons
  <2> QED BY <2>1
<1>6. CASE Resolves \/ Dials
  BY <1>6 DEF Resolves, Dials, Defers, Returns
<1>7. CASE Starts \/ RegistersBreak
  BY <1>7 DEF Starts, RegistersBreak, Defers, Returns
<1>8. CASE MakesRaw
  BY <1>8 DEF MakesRaw, Defers, Returns
<1> QED BY <1>2, <1>3, <1>4, <1>5, <1>6, <1>7, <1>8 DEF Connects

(* What the goroutines of the session leave alone. *)
LEMMA ServicesFrame ==
  ASSUME Services
  PROVE  /\ phase = "run" /\ UNCHANGED <<bootVars, own, term, console>>
         /\ (Done => Done' /\ cause' = cause)
         /\ run' = run \/ (run \in {"join", "reader"} /\ run' \in {"reader", "returned"})
<1>1. phase = "run" /\ UNCHANGED <<bootVars, own>>
  BY DEF Services, InRun
<1>2. UNCHANGED <<term, console>>
  BY DEF Services, InRun, Router, Output, RunJoins, RunReturns, ReaderDetaches, ReaderFails,
     ReaderUnblocked, ReaderReturns, SenderFails, SenderStops, SenderReturns, ResizerStops,
     RouterSkips, RouterTakesStatus, RouterTakesOutput, RouterQueues, Queues, RouterEnds, EndsWith,
     RouterDrained, RouterFails, RouterStops, RouterReturns, OutputTakes, OutputWrites,
     OutputEnds, OutputFails, OutputCancels, fixed
<1>3. Done => Done' /\ cause' = cause
  BY DEF Services, InRun, Router, Output, RunJoins, RunReturns, ReaderDetaches, ReaderFails,
     ReaderUnblocked, ReaderReturns, SenderFails, SenderStops, SenderReturns, ResizerStops,
     RouterSkips, RouterTakesStatus, RouterTakesOutput, RouterQueues, Queues, RouterEnds, EndsWith,
     RouterDrained, RouterFails, RouterStops, RouterReturns, OutputTakes, OutputWrites,
     OutputEnds, OutputFails, OutputCancels, Cancel, Done
<1>4. run' = run \/ (run \in {"join", "reader"} /\ run' \in {"reader", "returned"})
  BY DEF Services, InRun, Router, Output, RunJoins, RunReturns, ReaderDetaches, ReaderFails,
     ReaderUnblocked, ReaderReturns, SenderFails, SenderStops, SenderReturns, ResizerStops,
     RouterSkips, RouterTakesStatus, RouterTakesOutput, RouterQueues, Queues, RouterEnds, EndsWith,
     RouterDrained, RouterFails, RouterStops, RouterReturns, OutputTakes, OutputWrites,
     OutputEnds, OutputFails, OutputCancels
<1> QED BY <1>1, <1>2, <1>3, <1>4

(* The session, a signal, and the end. *)
LEMMA OthersGiven ==
  ASSUME Registered, Given,
         \/ Services \/ RunStartsToStop \/ RunStops \/ Ran \/ Panics \/ Signalled \/ CtrlBreak \/ Exited
         \/ UNCHANGED clientVars
  PROVE  Given'
<1>1. CASE Services
  <2>1. /\ phase = "run" /\ UNCHANGED <<phase, defers, err, mode, modeErr, term, console>>
        /\ run' = run \/ (run \notin {"wait", "close"} /\ run' \notin {"wait", "close"})
    BY <1>1, ServicesFrame DEF own, bootVars
  <2> QED BY <2>1 DEF Given, ModeKept
<1>2. CASE RunStops
  <2>1. /\ phase = "run" /\ UNCHANGED <<phase, defers, err, term>>
        /\ run' = "join" /\ console' # "open"
    BY <1>2 DEF RunStops, RunCloses, fixed, Given
  <2>2. ModeKept'
    BY <1>2, ModeSetKept DEF RunStops
  <2> QED BY <2>1, <2>2 DEF Given, Connecting, Leaving
<1>2a. CASE RunStartsToStop
  <2>1. /\ phase = "run" /\ UNCHANGED <<phase, defers, err, mode, modeErr, term>>
        /\ run' = "close" /\ console' = "closing"
    BY <1>2a DEF RunStartsToStop, InRun, RunStartsClose, fixed, own, bootVars
  <2> QED BY <2>1 DEF Given, Connecting, Leaving
<1>3. CASE Ran \/ Panics
  <2>1. /\ phase = "run" /\ phase' = "unwind" /\ UNCHANGED <<term, console, run, mode, modeErr, defers>>
        /\ defers = Stack5
    BY <1>3 DEF Ran, Panics, RunForgets, Returns, fixed, bootVars, Registered
  <2>2. run # "close" /\ (run # "wait" \/ err' = "panic")
    BY <1>3 DEF Ran, Panics, Returns
  <2> QED BY <2>1, <2>2, Stacks DEF Given, ModeKept, Connecting, Leaving
<1>4. CASE Signalled \/ CtrlBreak \/ Exited \/ UNCHANGED clientVars
  BY <1>4 DEF Given, ModeKept, Signalled, CtrlBreak, Cancels, Exited, clientVars, vars, fixed, own,
     bootVars
<1> QED BY <1>1, <1>2, <1>2a, <1>3, <1>4

(* The deferred calls give the console back. *)
LEMMA UnwindsGiven ==
  ASSUME Registered, Given, Unwinds
  PROVE  Given'
<1>1. UNCHANGED <<term, run>> /\ (~ClosesConsole => UNCHANGED console)
  BY OutsideRun DEF fixed
<1> USE Stacks DEF Given, Connecting, Leaving
<1>2. CASE Restores
  <2>1. /\ phase = "unwind" /\ UNCHANGED <<phase, err>> /\ defers = Stack5 /\ defers' = Stack4
    BY <1>2, DeferredPops DEF Restores
  <2>2. UNCHANGED console
    BY <1>2 DEF Restores, vars
  <2>3. ModeKept'
    <3>1. CASE console = "open"
      BY <1>2, <3>1, ModeSetKept DEF Restores
    <3>2. CASE console # "open"
      BY <1>2, <2>1, <3>2 DEF Restores, bootVars, ModeKept
    <3> QED BY <3>1, <3>2
  <2> QED BY <1>1, <2>1, <2>2, <2>3
<1>3. CASE ForgetsBreak \/ ClosesConn
  <2>1. /\ phase = "unwind" /\ UNCHANGED <<phase, err, mode, modeErr, console>>
        /\ defers \in {Stack3, Stack4} /\ defers' \in {Stack2, Stack3}
    BY <1>3, DeferredPops DEF ForgetsBreak, ClosesConn, bootVars, vars
  <2> QED BY <1>1, <2>1 DEF ModeKept
<1>4. CASE ClosesConsole
  <2>1. phase = "unwind" /\ UNCHANGED <<phase, err>> /\ defers = Stack2 /\ defers' = Stack1
    BY <1>4, DeferredPops DEF ClosesConsole
  <2>2. CASE RunStarted
    <3>1. UNCHANGED <<console, mode, modeErr>>
      BY <1>4, <2>2 DEF ClosesConsole, bootVars
    <3>2. (run # "wait" \/ err = "panic") /\ ModeKept
      BY <2>1, <2>2 DEF RunStarted
    <3> QED BY <1>1, <2>1, <3>1, <3>2 DEF ModeKept
  <2>3. CASE ~RunStarted
    <3>1. ModeSet /\ console' \in {"closed", "failed"}
      BY <1>4, <2>3 DEF ClosesConsole
    <3>2. ModeKept'
      BY <3>1, ModeSetKept
    <3> QED BY <1>1, <2>1, <3>1, <3>2
  <2> QED BY <2>2, <2>3
<1>5. CASE ClosesLog
  <2>1. /\ phase = "unwind" /\ UNCHANGED <<phase, err, mode, modeErr, console>>
        /\ defers = Stack1 /\ defers' = Stack0
    BY <1>5, DeferredPops DEF ClosesLog, bootVars, vars
  <2> QED BY <1>1, <2>1 DEF ModeKept
<1>6. CASE PicksStatus \/ Dies
  <2>1. UNCHANGED <<phase, defers, err, mode, modeErr, console>>
    BY <1>6 DEF PicksStatus, Dies, bootVars, vars
  <2> QED BY <1>1, <2>1 DEF ModeKept
<1>7. CASE Ends
  <2>1. phase = "unwind" /\ phase' = "exited" /\ UNCHANGED <<defers, err, mode, modeErr, console>>
    BY <1>7 DEF Ends, bootVars, vars
  <2> QED BY <1>1, <2>1 DEF ModeKept
<1> QED BY <1>2, <1>3, <1>4, <1>5, <1>6, <1>7 DEF Unwinds
-----------------------------------------------------------------------------
(***************************************************************************)
(* The error connect returns and the status it becomes.                    *)
(***************************************************************************)
(* Only a normal end, a detach or a status of zero exit with zero. *)
LEMMA ZeroMeansSuccess ==
  ASSUME NEW e, Byte(exitCode(e)) = 0
  PROVE  e \in {"ended", "detached"} \/ (e \in Codes /\ CodeOf[e] = 0)
<1>1. 255 % 256 = 255 /\ \A n \in 0 .. 255 : n % 256 = n
  OBVIOUS
<1>2. CASE e \in Codes /\ e \notin {"ended", "detached"}
  <2>1. exitCode(e) = IF CodeOf[e] \in 0 .. 255 THEN CodeOf[e] ELSE 255
    BY <1>2 DEF exitCode
  <2> QED BY <1>1, <1>2, <2>1 DEF Byte
<1>3. CASE e \notin Codes /\ e \notin {"ended", "detached"}
  <2>1. exitCode(e) = 255
    BY <1>3 DEF exitCode
  <2> QED BY <1>1, <2>1 DEF Byte
<1> QED BY <1>2, <1>3

OwnErrors == {"none", "console", "signal", "bootstrap", "dial", "start", "raw", "panic"}

(* The errors connect makes itself are no statuses. *)
LEMMA OwnErrorsFail ==
  ASSUME NEW e \in OwnErrors
  PROVE  e \notin Codes /\ e \notin {"ended", "detached"}
  BY SessionAssumption, CodeAssumption DEF OwnErrors

(* The status PicksStatus sets is sound. *)
LEMMA PickedIsSound ==
  ASSUME SessionInv, Registered, Reasons, PicksStatus
  PROVE  StatusSound'
<1>1. /\ phase = "unwind" /\ status' = Byte(exitCode(err))
      /\ UNCHANGED <<err, run, cause, closed, exit>>
  BY DEF PicksStatus, vars, routing, queue
<1>2. SUFFICES ASSUME status' = 0
               PROVE  \/ err = "none"
                      \/ run = "returned" /\ cause = "detached"
                      \/ run = "returned" /\ closed /\ (exit = "none" \/ CodeOf[exit] = 0)
  BY <1>1 DEF StatusSound
<1>3. err \in {"ended", "detached"} \/ (err \in Codes /\ CodeOf[err] = 0)
  BY <1>1, <1>2, ZeroMeansSuccess
<1>4. err = cause /\ run = "returned"
  BY <1>1, <1>3, OwnErrorsFail DEF Reasons, Leaving, OwnErrors
<1>5. cause \in NormalCauses => closed /\ cause = Normal
  BY DEF SessionInv, Ending, NormalEndDrains, NormalCauses
<1>6. exit \in Codes \cup {"none"} /\ "ended" \notin Codes
  BY CausesApart DEF SessionInv, Ending
<1> QED BY <1>3, <1>4, <1>5, <1>6 DEF NormalCauses, Normal

(* Why connect returns, on its way to the session. *)
LEMMA ConnectsReasons ==
  ASSUME Registered, Given, Reasons, Connects
  PROVE  Reasons'
<1>1. UNCHANGED <<cause, closed, exit, run>>
  BY OutsideRun DEF routing, queue
<1>2. boot' = "cancelled" => Done
  BY DEF Connects, Arguments, OpensLog, Opens, Boots, InBoot, Booted, Resolves, Dials, Starts,
     RegistersBreak, MakesRaw, bootVars, BootRefuses, BootStarts, Ssh, SshPrints, SshPrompts,
     SshExits, HolderEnds, BootInterrupts, BootKills, BootJoins, BootReturns, Reasons
<1>3. phase \in Connecting /\ err = "none" /\ status = -1
  BY DEF Connects, Arguments, OpensLog, Opens, Boots, InBoot, Booted, Resolves, Dials, Starts,
     RegistersBreak, MakesRaw, Registered, Connecting, Leaving
<1>4. err' \in OwnErrors
  BY <1>3 DEF Connects, Arguments, OpensLog, Opens, Boots, InBoot, own, Booted, Resolves, Dials,
     Starts, RegistersBreak, MakesRaw, Returns, Reasons, Connecting, OwnErrors
<1>5. /\ phase' \in Connecting \ {"raw"} =>
           phase \in Connecting \ {"raw"} /\ UNCHANGED onbreak
      /\ phase' = "raw" => phase \in {"onbreak", "raw"}
  BY <1>3 DEF Connects, Arguments, OpensLog, Opens, Boots, InBoot, own, Booted, Resolves, Dials,
     Starts, RegistersBreak, MakesRaw, Returns, Exits, Connecting
<1>6. StatusSound'
  <2>1. status' = -1 \/ err' = "none"
    BY <1>3 DEF Connects, Arguments, OpensLog, Opens, Boots, InBoot, own, Booted, Resolves, Dials,
       Starts, RegistersBreak, MakesRaw, Returns, Exits
  <2> QED BY <2>1 DEF StatusSound
<1> QED BY <1>1, <1>2, <1>4, <1>5, <1>6 DEF Reasons, Done, OwnErrors, Connecting, Leaving

(* Everywhere else. *)
LEMMA OthersReasons ==
  ASSUME ClientInv,
         \/ Services \/ RunStartsToStop \/ RunStops \/ Ran \/ Panics \/ Unwinds \/ Signalled \/ CtrlBreak \/ Exited
         \/ UNCHANGED clientVars
  PROVE  Reasons'
<1> USE DEF ClientInv
<1>1. CASE Services
  <2>1. /\ phase = "run" /\ UNCHANGED <<phase, err, status, onbreak, boot>>
        /\ run' = run \/ (run \in {"join", "reader"} /\ run' \in {"reader", "returned"})
        /\ (Done => Done' /\ cause' = cause)
    BY <1>1, ServicesFrame DEF own, bootVars
  <2>2. StatusSound'
    BY <2>1 DEF Registered, Leaving, StatusSound
  <2> QED BY <2>1, <2>2 DEF Reasons, Connecting, Leaving
<1>2. CASE RunStops
  <2>1. /\ phase = "run" /\ UNCHANGED <<phase, err, status, onbreak, boot, cause>>
        /\ run' = "join" /\ Done
    BY <1>2 DEF RunStops, RunCloses, ModeSet
  <2>2. StatusSound'
    BY <2>1 DEF Registered, Leaving, StatusSound
  <2> QED BY <2>1, <2>2 DEF Reasons, Connecting, Leaving, Done
<1>2a. CASE RunStartsToStop
  <2>1. /\ phase = "run" /\ UNCHANGED <<phase, err, status, onbreak, boot, cause>> /\ run' = "close"
    BY <1>2a DEF RunStartsToStop, InRun, RunStartsClose, own, bootVars
  <2>2. StatusSound'
    BY <2>1 DEF Registered, Leaving, StatusSound
  <2> QED BY <2>1, <2>2 DEF Reasons, Connecting, Leaving, Done
<1>3. CASE Ran \/ Panics
  <2>1. /\ phase = "run" /\ phase' = "unwind" /\ UNCHANGED <<status, onbreak, boot, cause, run>>
        /\ (err' = cause /\ run = "returned") \/ err' = "panic"
    BY <1>3 DEF Ran, Panics, RunForgets, Returns, bootVars
  <2>2. StatusSound'
    BY <2>1 DEF Registered, Leaving, StatusSound
  <2> QED BY <2>1, <2>2 DEF Reasons, Connecting, Leaving, Done
<1>4. CASE Signalled \/ CtrlBreak
  <2>1. PICK c \in {"signal", "detached"} : Cancels(c) /\ (c = "detached" => onbreak)
    BY <1>4 DEF Signalled, CtrlBreak
  <2>2. /\ ~Done /\ cause' = c
        /\ UNCHANGED <<phase, err, status, onbreak, boot, run, closed, exit>>
    BY <2>1 DEF Cancels, Cancel, routing, queue, bootVars, own
  <2>3. run = "wait" \/ run \notin {"join", "reader", "returned"}
    BY <2>2 DEF Reasons
  <2> QED BY <2>1, <2>2, <2>3 DEF Reasons, StatusSound, Connecting, Leaving, Done
<1>5. CASE Unwinds \/ Exited \/ UNCHANGED clientVars
  <2>1. UNCHANGED <<cause, closed, exit, run>>
    BY <1>5, OutsideRun DEF routing, queue
  <2>2. UNCHANGED <<boot, err>>
    BY <1>5 DEF Unwinds, Restores, ForgetsBreak, ClosesConn, ClosesConsole, ClosesLog, PicksStatus,
       Dies, Ends, Deferred, ModeSet, Exited, clientVars, bootVars, own
  <2>3. UNCHANGED <<phase, onbreak>> \/ (phase = "unwind" /\ phase' \in Leaving)
    BY <1>5 DEF Unwinds, Restores, ForgetsBreak, ClosesConn, ClosesConsole, ClosesLog, PicksStatus,
       Dies, Ends, Deferred, Exited, clientVars, own, Leaving
  <2>4. StatusSound'
    <3>1. CASE PicksStatus
      BY <3>1, PickedIsSound
    <3>2. CASE Dies
      BY <3>2 DEF Dies, StatusSound
    <3>3. CASE ~PicksStatus /\ ~Dies
      <4>1. UNCHANGED status
        BY <1>5, <3>3 DEF Unwinds, Restores, ForgetsBreak, ClosesConn, ClosesConsole, ClosesLog,
           Ends, Deferred, Exited, clientVars, own
      <4> QED BY <2>1, <2>2, <4>1 DEF Reasons, StatusSound
    <3> QED BY <3>1, <3>2, <3>3
  <2> QED BY <2>1, <2>2, <2>3, <2>4 DEF Reasons, Connecting, Leaving, Done
<1> QED BY <1>1, <1>2, <1>2a, <1>3, <1>4, <1>5
-----------------------------------------------------------------------------
(***************************************************************************)
(* What et promises of every state of an invocation.                       *)
(***************************************************************************)
(* It starts with nothing acquired. *)
LEMMA ClientStart == ClientInit => ClientInv
<1> SUFFICES ASSUME ClientInit PROVE ClientInv
  OBVIOUS
<1>1. SessionInv
  BY SessionStart DEF ClientInit
<1>2. BootInv
  <2>1. out = <<>> /\ dropped = 0 /\ quoted = <<>>
    BY DEF ClientInit, BootInit
  <2>2. <<>> \in Seq(Tokens) /\ Len(<<>>) = 0 /\ 0 \in Nat
    OBVIOUS
  <2>3. Marked(<<>>) /\ ToSet(<<>>) = {}
    BY DEF Marked, ToSet
  <2> QED BY <2>1, <2>2, <2>3 DEF BootInv, KeyNotQuoted
<1>3. /\ phase = "args" /\ defers = Stack0 /\ onbreak = FALSE /\ conn = "none" /\ err = "none"
      /\ status = -1 /\ term /\ cause = "none" /\ console = "open" /\ run = "wait"
      /\ mode = "base" /\ boot = "idle"
  BY Stacks DEF ClientInit, Init, BootInit
<1>4. Registered
  BY <1>3 DEF Registered, Connecting, Leaving
<1>5. Given
  BY <1>3 DEF Given, Connecting, Leaving
<1>6. Reasons
  BY <1>3 DEF Reasons, Connecting, Leaving, StatusSound
<1> QED BY <1>1, <1>2, <1>4, <1>5, <1>6 DEF ClientInv

(* Every step of et keeps it. *)
LEMMA ClientStep == ClientInv /\ [ClientNext]_clientVars => ClientInv'
<1> SUFFICES ASSUME ClientInv, [ClientNext]_clientVars PROVE ClientInv'
  OBVIOUS
<1>1. SessionInv' /\ BootInv'
  BY ClientSession, ClientBoot DEF ClientInv
<1>2. CASE Connects
  BY <1>1, <1>2, ConnectsRegistered, ConnectsGiven, ConnectsReasons DEF ClientInv
<1>3. CASE Unwinds
  BY <1>1, <1>3, OthersRegistered, UnwindsGiven, OthersReasons DEF ClientInv
<1>4. CASE \/ Services \/ RunStartsToStop \/ RunStops \/ Ran \/ Panics \/ Signalled \/ CtrlBreak \/ Exited
           \/ UNCHANGED clientVars
  BY <1>1, <1>4, OthersRegistered, OthersGiven, OthersReasons DEF ClientInv
<1> QED BY <1>2, <1>3, <1>4 DEF ClientNext, Connects

(* The invariant of an invocation of et, from its start to its exit. *)
THEOREM ClientInvariance == ClientSpec => []ClientInv
  BY ClientStart, ClientStep, PTL DEF ClientSpec

(***************************************************************************)
(* The session inside et: no output is lost or reordered, and a normal end *)
(* has written all of it.                                                  *)
(***************************************************************************)
THEOREM ClientKeepsSession == ClientSpec => [](OutputInOrder /\ NormalEndDrains)
<1>1. ClientInv => OutputInOrder /\ NormalEndDrains
  BY DEF ClientInv, SessionInv, Packets, Ending
<1> QED BY <1>1, ClientInvariance, PTL

(***************************************************************************)
(* bootstrap.Run's error never quotes passkey material, whatever ssh and   *)
(* the login shell print and wherever cappedBuffer cuts it.                *)
(***************************************************************************)
THEOREM PasskeyStaysPrivate == ClientSpec => []KeyNotQuoted
<1>1. ClientInv => KeyNotQuoted
  BY DEF ClientInv, BootInv
<1> QED BY <1>1, ClientInvariance, PTL

(***************************************************************************)
(* When et prints an error or a status, or has died of a panic, the        *)
(* terminal has its mode back or setting it failed, the connection and     *)
(* the console are closed and the Ctrl+Break handler is gone.              *)
(***************************************************************************)
THEOREM TerminalGivenBack == ClientSpec => []ConsoleGivenBack
<1>1. ClientInv => ConsoleGivenBack
  <2>1. SUFFICES ASSUME ClientInv, Over PROVE ConsoleGivenBack
    BY DEF ConsoleGivenBack
  <2>2. status # -1 /\ defers \in {Stack0, Stack1}
    BY <2>1, Stacks DEF Over
  <2>3. phase \in Leaving
    BY <2>1, <2>2 DEF ClientInv, Registered
  <2>4. onbreak = FALSE /\ conn # "open"
    BY <2>1, <2>2, Stacks DEF ClientInv, Registered
  <2>5. (err \notin {"none", "console", "panic"} => console # "open") /\ ModeKept
    BY <2>1, <2>2, <2>3 DEF ClientInv, Given
  <2> QED BY <2>4, <2>5 DEF ConsoleGivenBack, ModeKept
<1> QED BY <1>1, ClientInvariance, PTL

(***************************************************************************)
(* et exits with zero only if there was nothing to connect, the user       *)
(* detached, or the server ended the session and reported no failure.      *)
(***************************************************************************)
THEOREM ZeroIsSuccess == ClientSpec => []StatusSound
<1>1. ClientInv => StatusSound
  BY DEF ClientInv, Reasons
<1> QED BY <1>1, ClientInvariance, PTL
=============================================================================
