------------------------ MODULE WindowsConsoleProofs ------------------------
(***************************************************************************)
(* What a Close of the Windows console leaves behind, for any number of    *)
(* callers of Close, any keys, any writes and any switches of the modes.   *)
(*                                                                         *)
(* The invariant follows the one Close that does the work: the first to    *)
(* set closing.  Nobody is past "idle" before closing is set, nobody       *)
(* enters the console or starts a Write after it, and what that Close has  *)
(* established at a stage stays true at the later ones.                    *)
(***************************************************************************)
EXTENDS WindowsConsole, SequenceTheorems, TLAPS

Stages == {"idle", "wait", "wake", "select", "flush", "lock", "returned"}

(* The stages of the Close that found closing unset. *)
Working == {"wake", "select", "flush", "lock"}

ConsoleTypes ==
  /\ closing \in BOOLEAN /\ reading \in BOOLEAN /\ exited \in BOOLEAN
  /\ failed \in BOOLEAN /\ restored \in BOOLEAN
  /\ closer \in [Closers -> Stages]
  /\ typed \in Nat /\ buffer \in Seq(Nat) /\ left \in Nat

(* One Close works, it starts with closing set, and it ends restored. *)
OneCloser ==
  /\ \A c \in Closers : closer[c] # "idle" => closing
  /\ \A c, d \in Closers : closer[c] \in Working /\ closer[d] \in Working => c = d
  /\ restored => closing /\ left = 0 /\ \A c \in Closers : closer[c] \notin Working

(* reading says whether the reader is in ReadConsoleW, or back from it and *)
(* not yet past mu; the token says that it has left for good.              *)
ReaderKnown ==
  /\ reading <=> reader \in {"console", "back"}
  /\ exited => reader = "closed"
  /\ (closing /\ ~failed /\ (restored \/ \E c \in Closers : closer[c] \in {"flush", "lock"}))
       => ~reading

(* Once flushed the buffer holds no wake record. *)
Flushed ==
  (~failed /\ (restored \/ \E c \in Closers : closer[c] = "lock")) => Wake \notin ToSet(buffer)

ModesBack == (restored /\ ~failed) => inMode = "base" /\ outMode = "base"

Inv == ConsoleTypes /\ OneCloser /\ ReaderKnown /\ Flushed /\ ModesBack
-----------------------------------------------------------------------------
(* An empty buffer holds no wake record. *)
LEMMA NoWakeEmpty == Wake \notin ToSet(<<>>)
  BY DEF ToSet, Wake

(* A key that is typed is no wake record. *)
LEMMA NoWakeAppend ==
  ASSUME NEW s \in Seq(Nat), NEW k \in Nat, k # Wake, Wake \notin ToSet(s)
  PROVE  Append(s, k) \in Seq(Nat) /\ Wake \notin ToSet(Append(s, k))
  BY DEF ToSet, Wake

(* What another process leaves of the buffer is part of it. *)
LEMMA NoWakeTail ==
  ASSUME NEW s \in Seq(Nat), s # <<>>
  PROVE  Tail(s) \in Seq(Nat) /\ (Wake \notin ToSet(s) => Wake \notin ToSet(Tail(s)))
  BY DEF ToSet, Wake

(* So is what a read leaves of it. *)
LEMMA NoWakeSubSeq ==
  ASSUME NEW s \in Seq(Nat), NEW n \in 1 .. Len(s)
  PROVE  /\ SubSeq(s, n + 1, Len(s)) \in Seq(Nat)
         /\ Wake \notin ToSet(s) => Wake \notin ToSet(SubSeq(s, n + 1, Len(s)))
<1> DEFINE t == SubSeq(s, n + 1, Len(s))
<1>1. t \in Seq(Nat) /\ Len(t) = Len(s) - n /\ \A i \in 1 .. Len(t) : t[i] = s[n + i]
  OBVIOUS
<1>2. ASSUME NEW i \in 1 .. Len(t), t[i] = Wake PROVE Wake \in ToSet(s)
  <2>1. n + i \in DOMAIN s /\ s[n + i] = Wake
    BY <1>1, <1>2
  <2> QED BY <2>1 DEF ToSet
<1>3. DOMAIN t = 1 .. Len(t)
  BY <1>1
<1> HIDE DEF t
<1>4. Wake \in ToSet(t) => \E i \in 1 .. Len(t) : t[i] = Wake
  BY <1>3 DEF ToSet
<1> QED BY <1>1, <1>2, <1>4 DEF t
-----------------------------------------------------------------------------
(* A freshly opened console satisfies the invariant. *)
LEMMA InvInit == Init => Inv
<1> SUFFICES ASSUME Init PROVE Inv
  OBVIOUS
<1>1. \A c \in Closers : closer[c] = "idle"
  BY DEF Init
<1>2. ConsoleTypes
  <2>1. <<>> \in Seq(Nat) /\ 0 \in Nat
    OBVIOUS
  <2>2. closer \in [Closers -> Stages]
    BY DEF Init, Stages
  <2> QED BY <2>1, <2>2 DEF Init, ConsoleTypes
<1>3. OneCloser /\ Flushed
  BY <1>1 DEF Init, OneCloser, Flushed, Working
<1>4. ReaderKnown /\ ModesBack
  BY <1>1 DEF Init, ReaderKnown, ModesBack
<1> QED BY <1>2, <1>3, <1>4 DEF Inv

(* A change of the buffer alone keeps the invariant if it adds no wake     *)
(* record to a buffer without one.                                         *)
LEMMA BufferStep ==
  ASSUME Inv, buffer' \in Seq(Nat), typed' \in Nat,
         Wake \notin ToSet(buffer) => Wake \notin ToSet(buffer'),
         UNCHANGED <<flags, reader, modes, left, close>>
  PROVE  Inv'
  BY DEF Inv, ConsoleTypes, OneCloser, ReaderKnown, Flushed, ModesBack, flags, modes, close

(* The console host: keys typed, keys taken, a mode left by ssh. *)
LEMMA HostStep ==
  ASSUME Inv, UserTypes \/ OtherProcessTakes \/ SshLeavesMode
  PROVE  Inv'
<1>1. buffer \in Seq(Nat) /\ typed \in Nat
  BY DEF Inv, ConsoleTypes
<1>2. CASE UserTypes
  <2>1. typed + 1 \in Nat /\ typed + 1 # Wake
    BY <1>1 DEF Wake
  <2>2. /\ typed' = typed + 1 /\ buffer' = Append(buffer, typed + 1)
        /\ UNCHANGED <<flags, reader, modes, left, close>>
    BY <1>2 DEF UserTypes, input
  <2>3. buffer' \in Seq(Nat)
    BY <1>1, <2>1, <2>2
  <2>4. Wake \notin ToSet(buffer) => Wake \notin ToSet(buffer')
    BY <1>1, <2>1, <2>2, NoWakeAppend
  <2> QED BY <2>1, <2>2, <2>3, <2>4, BufferStep
<1>3. CASE OtherProcessTakes
  <2>1. /\ buffer # <<>> /\ buffer' = Tail(buffer) /\ typed' = typed
        /\ UNCHANGED <<flags, reader, modes, left, close>>
    BY <1>3 DEF OtherProcessTakes, input
  <2> QED BY <1>1, <2>1, NoWakeTail, BufferStep
<1>4. CASE SshLeavesMode
  BY <1>4 DEF SshLeavesMode, Inv, ConsoleTypes, OneCloser, ReaderKnown, Flushed, ModesBack,
     flags, input, keys, close
<1> QED BY <1>2, <1>3, <1>4

(***************************************************************************)
(* The reader: it enters the console only while closing is unset, and once *)
(* the first Close knows that it is out of it, it stays out.               *)
(***************************************************************************)
LEMMA ReadStep ==
  ASSUME Inv, Read
  PROVE  Inv'
<1> USE DEF Inv, ConsoleTypes, OneCloser, ReaderKnown, Flushed, ModesBack, flags, keys, modes, close
<1>1. CASE ReadEnters
  <2>1. ~closing /\ ~restored /\ \A c \in Closers : closer[c] = "idle"
    BY <1>1 DEF ReadEnters
  <2> QED BY <1>1, <2>1 DEF ReadEnters, Enters
<1>2. CASE ReadFindsPending
  BY <1>2 DEF ReadFindsPending
<1>3. CASE ReadRefused
  BY <1>3 DEF ReadRefused
<1>4. CASE ConsoleDelivers
  <2>1. PICK n \in Deliverable : buffer' = SubSeq(buffer, n + 1, Len(buffer))
    BY <1>4 DEF ConsoleDelivers
  <2>2. n \in 1 .. Len(buffer)
    BY DEF Deliverable, LineEnds
  <2>3. buffer' \in Seq(Nat) /\ (Wake \notin ToSet(buffer) => Wake \notin ToSet(buffer'))
    BY <2>1, <2>2, NoWakeSubSeq
  <2> QED BY <1>4, <2>3 DEF ConsoleDelivers
<1>5. CASE ConsoleReturnsNothing
  BY <1>5 DEF ConsoleReturnsNothing
<1>6. CASE ReadDecodes
  BY <1>6 DEF ReadDecodes, KeepsBatch
<1>7. CASE ReadDiscards
  BY <1>7 DEF ReadDiscards
<1>8. CASE ReadCopies
  BY <1>8 DEF ReadCopies
<1> QED BY <1>1, <1>2, <1>3, <1>4, <1>5, <1>6, <1>7, <1>8 DEF Read

(* The writer: no Write starts once closing is set. *)
LEMMA WriteStep ==
  ASSUME Inv, Write
  PROVE  Inv'
<1> USE DEF Inv, ConsoleTypes, OneCloser, ReaderKnown, Flushed, ModesBack, flags, input, keys,
        modes, close
<1>0. MaxWrite \in Nat /\ WriteUnits \in Nat
  BY ConsoleAssumption
<1>1. CASE WriteStarts
  BY <1>0, <1>1 DEF WriteStarts
<1>2. CASE WriteChunk
  <2>1. left' \in Nat
    BY <1>0, <1>2 DEF WriteChunk
  <2>2. ~restored
    BY <1>2 DEF WriteChunk
  <2> QED BY <1>2, <2>1, <2>2 DEF WriteChunk
<1>3. CASE WriteFails
  BY <1>3 DEF WriteFails
<1> QED BY <1>1, <1>2, <1>3 DEF Write

(* The modes change only while closing is unset. *)
LEMMA ModeStep ==
  ASSUME Inv, MakeRaw \/ Restore
  PROVE  Inv'
<1>1. ~closing /\ UNCHANGED <<flags, input, keys, left, close>>
  BY DEF MakeRaw, Restore
<1> QED
  BY <1>1 DEF Inv, ConsoleTypes, OneCloser, ReaderKnown, Flushed, ModesBack, flags, input, keys,
     close

(* Close, stage by stage. *)
LEMMA CloseStep ==
  ASSUME Inv, NEW c \in Closers, Close(c)
  PROVE  Inv'
<1> USE DEF Inv, ConsoleTypes, OneCloser, ReaderKnown, Flushed, ModesBack, flags, input, keys,
        modes, Moves, Stages, Working
<1>1. CASE CloseStarts(c)
  BY <1>1 DEF CloseStarts
<1>2. CASE CloseWaits(c)
  BY <1>2 DEF CloseWaits
<1>3. CASE WakeReader(c)
  <2>1. buffer' \in Seq(Nat)
    BY <1>3 DEF WakeReader, Injects, Wake
  <2>2. ~restored /\ \A d \in Closers : closer[d] # "lock" /\ closer'[d] # "lock"
    BY <1>3 DEF WakeReader
  <2> QED BY <1>3, <2>1, <2>2 DEF WakeReader
<1>4. CASE WakeAgain(c)
  BY <1>4 DEF WakeAgain
<1>5. CASE ReaderExited(c)
  BY <1>5 DEF ReaderExited
<1>6. CASE WakeDeadline(c)
  BY <1>6 DEF WakeDeadline
<1>7. CASE FlushInput(c)
  <2>1. /\ closer[c] = "flush" /\ closer' = [closer EXCEPT ![c] = "lock"]
        /\ UNCHANGED <<closing, reading, exited, reader, typed, inMode, outMode, left, restored>>
        /\ \/ buffer' = <<>> /\ failed' = failed
           \/ buffer' = buffer /\ failed' = TRUE
    BY <1>7 DEF FlushInput
  <2>2. buffer' \in Seq(Nat)
    <3>1. <<>> \in Seq(Nat)
      OBVIOUS
    <3> QED BY <2>1, <3>1
  <2>3. Flushed'
    BY <2>1, NoWakeEmpty
  <2>4. ~restored
    BY <2>1
  <2>5. ConsoleTypes' /\ OneCloser'
    BY <2>1, <2>2
  <2>6. ReaderKnown' /\ ModesBack'
    BY <2>1, <2>4
  <2> QED BY <2>3, <2>5, <2>6
<1>8. CASE CloseRestores(c)
  BY <1>8 DEF CloseRestores, Restores, RestoreLocked, Handles
<1> QED
  BY <1>1, <1>2, <1>3, <1>4, <1>5, <1>6, <1>7, <1>8 DEF Close

(* The invariant is kept by every step. *)
LEMMA InvNext == Inv /\ [Next]_vars => Inv'
<1> SUFFICES ASSUME Inv, [Next]_vars PROVE Inv'
  OBVIOUS
<1>1. CASE UNCHANGED vars
  BY <1>1 DEF vars, flags, input, keys, modes, close, Inv, ConsoleTypes, OneCloser, ReaderKnown,
     Flushed, ModesBack
<1>2. CASE Next
  BY <1>2, HostStep, ReadStep, WriteStep, ModeStep, CloseStep DEF Next
<1> QED BY <1>1, <1>2

(***************************************************************************)
(* The console's invariant holds in every state.                           *)
(***************************************************************************)
THEOREM ConsoleInvariance == Spec => []Inv
  BY InvInit, InvNext, PTL DEF Spec

(***************************************************************************)
(* A Close that reports no error leaves no reader in ReadConsoleW, no wake *)
(* record in the input buffer and both modes at their baseline, for good,  *)
(* with any number of callers of Close.                                    *)
(***************************************************************************)
THEOREM CloseIsClean == Spec => []CleanClose
<1>1. Inv => CleanClose
  BY DEF Inv, ConsoleTypes, OneCloser, ReaderKnown, Flushed, ModesBack, CleanClose
<1> QED BY <1>1, ConsoleInvariance, PTL

(***************************************************************************)
(* Close restores the modes under wmu: no Write is in progress then, and   *)
(* none begins afterwards.                                                 *)
(***************************************************************************)
THEOREM WritesEndBeforeRestore == Spec => []NoWriteAfterRestore
<1>1. Inv => NoWriteAfterRestore
  BY DEF Inv, OneCloser, NoWriteAfterRestore
<1> QED BY <1>1, ConsoleInvariance, PTL
-----------------------------------------------------------------------------
(***************************************************************************)
(* The order of the keys.  They pass from the console's buffer through the *)
(* batch ReadConsoleW returned and the pending bytes to the caller; a step *)
(* moves the ends of those four, drops one of them, or adds at the end.    *)
(***************************************************************************)
Keys(s) == ToSet(s) \ {Wake}
Before(S, T) == \A x \in S, y \in T : x < y
Rising(s) ==
  \A i, j \in DOMAIN s : (i < j /\ Wake \notin {s[i], s[j]}) => s[i] < s[j]

Line == got \o pending \o batch \o buffer

(* Each stage is empty where the reader has yet to fill it, and only Close *)
(* puts wake records into the console's buffer.                            *)
StageTypes ==
  /\ got \in Seq(Nat) /\ pending \in Seq(Nat) /\ batch \in Seq(Nat) /\ buffer \in Seq(Nat)
  /\ typed \in Nat /\ taken \subseteq 0 .. typed
  /\ batch # <<>> => reader = "back"
  /\ reader \in {"console", "back"} => pending = <<>>
  /\ ~closing => Wake \notin ToSet(batch) /\ Wake \notin ToSet(buffer)
  /\ Wake \notin ToSet(got) /\ Wake \notin ToSet(pending)

LineKept == Rising(Line) /\ Keys(Line) = (1 .. typed) \ taken

(* What a concatenation holds. *)
LEMMA CatShape ==
  ASSUME NEW a \in Seq(Nat), NEW b \in Seq(Nat)
  PROVE  /\ a \o b \in Seq(Nat) /\ DOMAIN (a \o b) = 1 .. (Len(a) + Len(b))
         /\ DOMAIN a = 1 .. Len(a) /\ DOMAIN b = 1 .. Len(b)
         /\ Len(a) \in Nat /\ Len(b) \in Nat
         /\ \A i \in 1 .. Len(a) : (a \o b)[i] = a[i] /\ a[i] \in Nat
         /\ \A i \in 1 .. Len(b) : (a \o b)[Len(a) + i] = b[i] /\ b[i] \in Nat
  OBVIOUS

(* A concatenation holds what its parts hold. *)
LEMMA CatSet ==
  ASSUME NEW a \in Seq(Nat), NEW b \in Seq(Nat)
  PROVE  /\ ToSet(a \o b) = ToSet(a) \cup ToSet(b)
         /\ Keys(a \o b) = Keys(a) \cup Keys(b)
<1>1. ToSet(a \o b) = ToSet(a) \cup ToSet(b)
  <2>1. ASSUME NEW x \in ToSet(a) PROVE x \in ToSet(a \o b)
    <3>1. PICK i \in DOMAIN a : x = a[i]
      BY <2>1 DEF ToSet
    <3>2. i \in DOMAIN (a \o b) /\ (a \o b)[i] = x
      BY <3>1, CatShape
    <3> QED BY <3>2 DEF ToSet
  <2>2. ASSUME NEW x \in ToSet(b) PROVE x \in ToSet(a \o b)
    <3>1. PICK i \in DOMAIN b : x = b[i]
      BY <2>2 DEF ToSet
    <3>2. Len(a) + i \in DOMAIN (a \o b) /\ (a \o b)[Len(a) + i] = x
      BY <3>1, CatShape
    <3> QED BY <3>2 DEF ToSet
  <2>3. ASSUME NEW x \in ToSet(a \o b) PROVE x \in ToSet(a) \cup ToSet(b)
    <3>1. PICK i \in DOMAIN (a \o b) : x = (a \o b)[i]
      BY <2>3 DEF ToSet
    <3>2. CASE i <= Len(a)
      BY <3>1, <3>2, CatShape DEF ToSet
    <3>3. CASE i > Len(a)
      <4>1. i - Len(a) \in DOMAIN b /\ b[i - Len(a)] = x
        <5>1. i - Len(a) \in 1 .. Len(b) /\ Len(a) + (i - Len(a)) = i
          BY <3>1, <3>3, CatShape
        <5> QED BY <3>1, <5>1, CatShape
      <4> QED BY <4>1 DEF ToSet
    <3> QED BY <3>1, <3>2, <3>3, CatShape
  <2> QED BY <2>1, <2>2, <2>3
<1> QED BY <1>1 DEF Keys

(* A concatenation is in order if its parts are and the one is before the  *)
(* other.                                                                  *)
LEMMA CatRises ==
  ASSUME NEW a \in Seq(Nat), NEW b \in Seq(Nat)
  PROVE  Rising(a \o b) <=> Rising(a) /\ Rising(b) /\ Before(Keys(a), Keys(b))
<1> DEFINE c == a \o b
<1>0. /\ DOMAIN c = 1 .. (Len(a) + Len(b)) /\ DOMAIN a = 1 .. Len(a) /\ DOMAIN b = 1 .. Len(b)
      /\ Len(a) \in Nat /\ Len(b) \in Nat
      /\ \A i \in 1 .. Len(a) : c[i] = a[i] /\ a[i] \in Nat
      /\ \A i \in 1 .. Len(b) : c[Len(a) + i] = b[i] /\ b[i] \in Nat
  BY CatShape
<1> HIDE DEF c
<1>1. ASSUME Rising(c) PROVE Rising(a) /\ Rising(b)
  <2>1. ASSUME NEW i \in DOMAIN a, NEW j \in DOMAIN a, i < j, Wake \notin {a[i], a[j]}
        PROVE  a[i] < a[j]
    <3>1. i \in DOMAIN c /\ j \in DOMAIN c /\ c[i] = a[i] /\ c[j] = a[j]
      BY <1>0
    <3> QED BY <1>1, <2>1, <3>1 DEF Rising
  <2>2. ASSUME NEW i \in DOMAIN b, NEW j \in DOMAIN b, i < j, Wake \notin {b[i], b[j]}
        PROVE  b[i] < b[j]
    <3>1. /\ Len(a) + i \in DOMAIN c /\ Len(a) + j \in DOMAIN c /\ Len(a) + i < Len(a) + j
          /\ c[Len(a) + i] = b[i] /\ c[Len(a) + j] = b[j]
      BY <1>0, <2>2
    <3> QED BY <1>1, <2>2, <3>1 DEF Rising
  <2> QED BY <2>1, <2>2 DEF Rising
<1>2. ASSUME Rising(c), NEW x \in Keys(a), NEW y \in Keys(b) PROVE x < y
  <2>1. PICK i \in DOMAIN a : x = a[i] /\ x # Wake
    BY <1>2 DEF Keys, ToSet
  <2>2. PICK j \in DOMAIN b : y = b[j] /\ y # Wake
    BY <1>2 DEF Keys, ToSet
  <2>3. i \in DOMAIN c /\ Len(a) + j \in DOMAIN c /\ i < Len(a) + j
    BY <1>0, <2>1, <2>2
  <2>4. c[i] = x /\ c[Len(a) + j] = y
    BY <1>0, <2>1, <2>2
  <2> QED BY <1>2, <2>1, <2>2, <2>3, <2>4 DEF Rising
<1>3. ASSUME Rising(a), Rising(b), Before(Keys(a), Keys(b)) PROVE Rising(c)
  <2> SUFFICES ASSUME NEW i \in DOMAIN c, NEW j \in DOMAIN c, i < j, c[i] # Wake, c[j] # Wake
               PROVE  c[i] < c[j]
    BY DEF Rising
  <2>1. CASE j <= Len(a)
    <3>1. i \in DOMAIN a /\ j \in DOMAIN a /\ c[i] = a[i] /\ c[j] = a[j]
      BY <1>0, <2>1
    <3> QED BY <1>3, <3>1 DEF Rising
  <2>2. CASE i > Len(a)
    <3>1. /\ i - Len(a) \in 1 .. Len(b) /\ Len(a) + (i - Len(a)) = i
          /\ j - Len(a) \in 1 .. Len(b) /\ Len(a) + (j - Len(a)) = j
      BY <1>0, <2>2
    <3>2. c[i] = b[i - Len(a)] /\ c[j] = b[j - Len(a)] /\ i - Len(a) < j - Len(a)
      BY <1>0, <3>1
    <3> QED BY <1>0, <1>3, <3>1, <3>2 DEF Rising
  <2>3. CASE i <= Len(a) /\ j > Len(a)
    <3>1. i \in 1 .. Len(a) /\ j - Len(a) \in 1 .. Len(b) /\ Len(a) + (j - Len(a)) = j
      BY <1>0, <2>3
    <3>2. c[i] = a[i] /\ c[j] = b[j - Len(a)]
      BY <1>0, <3>1
    <3>3. c[i] \in Keys(a) /\ c[j] \in Keys(b)
      BY <1>0, <3>1, <3>2 DEF Keys, ToSet
    <3> QED BY <1>3, <3>3 DEF Before
  <2> QED BY <1>0, <2>1, <2>2, <2>3
<1> QED BY <1>1, <1>2, <1>3 DEF Before, c

(* A part that is dropped takes its keys with it and leaves the order. *)
LEMMA Drops ==
  ASSUME NEW a \in Seq(Nat), NEW m \in Seq(Nat), NEW b \in Seq(Nat), Rising((a \o m) \o b)
  PROVE  Rising(a \o b) /\ Keys(a \o b) = Keys((a \o m) \o b) \ ToSet(m)
<1>1. a \o m \in Seq(Nat)
  OBVIOUS
<1>2. Rising(a \o m) /\ Rising(b) /\ Before(Keys(a \o m), Keys(b))
  BY <1>1, CatRises
<1>3. Rising(a) /\ Before(Keys(a), Keys(m))
  BY <1>2, CatRises
<1>4. Before(Keys(a), Keys(b)) /\ Before(Keys(m), Keys(b))
  BY <1>2, CatSet DEF Before
<1>5. Rising(a \o b)
  BY <1>2, <1>3, <1>4, CatRises
<1>6. /\ Keys((a \o m) \o b) = Keys(a) \cup Keys(m) \cup Keys(b)
      /\ Keys(a \o b) = Keys(a) \cup Keys(b) /\ Keys(m) = ToSet(m) \ {Wake}
  BY <1>1, CatSet DEF Keys
<1>7. Keys(a) \subseteq Nat /\ Keys(m) \subseteq Nat /\ Keys(b) \subseteq Nat
  BY DEF Keys, ToSet
<1>8. ASSUME NEW x \in Keys(a) \cup Keys(b) PROVE x \notin Keys(m) /\ x # Wake
  <2>1. ~(x < x)
    BY <1>7
  <2> QED BY <1>3, <1>4, <2>1 DEF Before, Keys
<1>9. Keys(a \o b) = Keys((a \o m) \o b) \ ToSet(m)
  BY <1>6, <1>8
<1> QED BY <1>5, <1>9

(* How the stages are cut and joined. *)
LEMMA Cuts ==
  ASSUME NEW s \in Seq(Nat), NEW n \in 1 .. Len(s)
  PROVE  /\ SubSeq(s, 1, n) \in Seq(Nat) /\ SubSeq(s, n + 1, Len(s)) \in Seq(Nat)
         /\ SubSeq(s, 1, n) \o SubSeq(s, n + 1, Len(s)) = s
<1>1. SubSeq(s, 1, n) \in Seq(Nat) /\ SubSeq(s, n + 1, Len(s)) \in Seq(Nat)
  OBVIOUS
<1>2. SubSeq(s, 1, n) \o SubSeq(s, n + 1, Len(s)) = SubSeq(s, 1, Len(s))
  BY ConcatAdjacentSubSeq
<1> QED BY <1>1, <1>2, SubSeqFull

(* A sequence that is not empty is its head and its tail. *)
LEMMA HeadJoins ==
  ASSUME NEW s \in Seq(Nat), s # <<>>
  PROVE  /\ Head(s) \in Nat /\ <<Head(s)>> \in Seq(Nat) /\ Tail(s) \in Seq(Nat)
         /\ <<Head(s)>> \o Tail(s) = s /\ ToSet(<<Head(s)>>) = {Head(s)}
<1>1. Len(s) \in Nat /\ Len(s) # 0
  OBVIOUS
<1>2. Head(s) \in Nat /\ Tail(s) \in Seq(Nat) /\ <<Head(s)>> \in Seq(Nat)
  BY <1>1
<1>3. <<Head(s)>> \o Tail(s) = s
  BY <1>1, <1>2
<1>4. ToSet(<<Head(s)>>) = {Head(s)}
  BY DEF ToSet
<1> QED BY <1>2, <1>3, <1>4

(* Concatenation is associative. *)
LEMMA Joins ==
  \A a, b, c \in Seq(Nat) : (a \o b) \o c = a \o (b \o c)
  BY ConcatAssociative

(* So an element appended to the second is appended to both. *)
LEMMA JoinsNew ==
  \A a, b \in Seq(Nat), k \in Nat : a \o Append(b, k) = (a \o b) \o <<k>>
<1> SUFFICES ASSUME NEW a \in Seq(Nat), NEW b \in Seq(Nat), NEW k \in Nat
             PROVE  a \o Append(b, k) = (a \o b) \o <<k>>
  OBVIOUS
<1>1. <<k>> \in Seq(Nat) /\ Append(b, k) = b \o <<k>>
  BY AppendIsConcat
<1> QED BY <1>1, ConcatAssociative

(* Something new at the end. *)
LEMMA Appends ==
  ASSUME NEW k \in Nat
  PROVE  /\ <<k>> \in Seq(Nat)
         /\ Rising(<<k>>) /\ Keys(<<k>>) = {k} \ {Wake}
<1>1. <<k>> \in Seq(Nat)
  OBVIOUS
<1>2. DOMAIN <<k>> = {1} /\ <<k>>[1] = k
  OBVIOUS
<1>3. Rising(<<k>>)
  BY <1>2 DEF Rising
<1>4. Keys(<<k>>) = {k} \ {Wake}
  BY <1>2 DEF Keys, ToSet
<1> QED BY <1>1, <1>3, <1>4
-----------------------------------------------------------------------------
KeysInv == StageTypes /\ LineKept

(* Before the first key there is nothing to order. *)
LEMMA KeysInit == Init => KeysInv
<1> SUFFICES ASSUME Init PROVE KeysInv
  OBVIOUS
<1>1. <<>> \in Seq(Nat) /\ <<>> \o <<>> = <<>>
  BY ConcatEmptySeq
<1>2. ToSet(<<>>) = {} /\ DOMAIN <<>> = {}
  BY DEF ToSet
<1>3. Line = <<>>
  BY <1>1 DEF Init, Line
<1>4. LineKept
  BY <1>2, <1>3 DEF Init, LineKept, Rising, Keys
<1>5. StageTypes
  BY <1>1, <1>2 DEF Init, StageTypes
<1> QED BY <1>4, <1>5 DEF KeysInv

(* The elements of the line are keys that were typed, and wake records. *)
LEMMA LineElements ==
  ASSUME KeysInv
  PROVE  /\ Line \in Seq(Nat) /\ got \o pending \in Seq(Nat) /\ (got \o pending) \o batch \in Seq(Nat)
         /\ Line = ((got \o pending) \o batch) \o buffer
         /\ ToSet(Line) \subseteq 0 .. typed
         /\ ToSet(batch) \subseteq 0 .. typed /\ ToSet(buffer) \subseteq 0 .. typed
<1>1. /\ got \in Seq(Nat) /\ pending \in Seq(Nat) /\ batch \in Seq(Nat) /\ buffer \in Seq(Nat)
      /\ typed \in Nat
  BY DEF KeysInv, StageTypes
<1>2. got \o pending \in Seq(Nat)
  BY <1>1
<1>3. (got \o pending) \o batch \in Seq(Nat)
  BY <1>1, <1>2
<1>4. ((got \o pending) \o batch) \o buffer \in Seq(Nat)
  BY <1>1, <1>3
<1>5. ToSet(Line) \subseteq 0 .. typed
  BY <1>1 DEF KeysInv, LineKept, Keys, Wake
<1>6. ToSet(Line) = ToSet((got \o pending) \o batch) \cup ToSet(buffer)
  BY <1>1, <1>3, CatSet DEF Line
<1>7. ToSet((got \o pending) \o batch) = ToSet(got \o pending) \cup ToSet(batch)
  BY <1>1, <1>2, CatSet
<1> QED BY <1>2, <1>3, <1>4, <1>5, <1>6, <1>7 DEF Line

(* The line grows at its end by a key that is new, or by a wake record. *)
LEMMA LineGrows ==
  ASSUME KeysInv, NEW k \in Nat, k = typed + 1 \/ k = Wake,
         Line' = Line \o <<k>>, taken' = taken, typed' = IF k = Wake THEN typed ELSE k
  PROVE  LineKept'
<1>1. Line \in Seq(Nat) /\ <<k>> \in Seq(Nat) /\ Rising(<<k>>) /\ Keys(<<k>>) = {k} \ {Wake}
  BY LineElements, Appends
<1>2. /\ typed \in Nat /\ taken \subseteq 0 .. typed /\ Rising(Line)
      /\ Keys(Line) = (1 .. typed) \ taken
  BY DEF KeysInv, StageTypes, LineKept
<1>3. Before(Keys(Line), Keys(<<k>>))
  BY <1>1, <1>2 DEF Before
<1>4. Rising(Line \o <<k>>) /\ Keys(Line \o <<k>>) = Keys(Line) \cup Keys(<<k>>)
  BY <1>1, <1>2, <1>3, CatRises, CatSet
<1>5. Keys(Line) \cup Keys(<<k>>) = (1 .. typed') \ taken'
  BY <1>1, <1>2 DEF Wake
<1>6. Rising(Line') /\ Keys(Line') = (1 .. typed') \ taken'
  BY <1>4, <1>5
<1> QED BY <1>6 DEF LineKept, Rising, Keys

(* A part of the line is dropped, and taken has it. *)
LEMMA LineShrinks ==
  ASSUME KeysInv, NEW a \in Seq(Nat), NEW m \in Seq(Nat), NEW b \in Seq(Nat),
         Line = (a \o m) \o b, Line' = a \o b, taken' = taken \cup ToSet(m), typed' = typed
  PROVE  LineKept'
<1>1. Rising(Line) /\ Keys(Line) = (1 .. typed) \ taken
  BY DEF KeysInv, LineKept
<1>2. Rising(a \o b) /\ Keys(a \o b) = Keys(Line) \ ToSet(m)
  BY <1>1, Drops
<1>3. Rising(Line') /\ Keys(Line') = (1 .. typed') \ taken'
  BY <1>1, <1>2
<1> QED BY <1>3 DEF LineKept, Rising, Keys

(* Keys move within the line. *)
LEMMA LineStays ==
  ASSUME KeysInv, Line' = Line, taken' = taken, typed' = typed
  PROVE  LineKept'
  BY DEF KeysInv, LineKept, Rising, Keys

(* The console host adds keys at the end or takes the first of its buffer. *)
LEMMA HostKeys ==
  ASSUME KeysInv, UserTypes \/ OtherProcessTakes
  PROVE  KeysInv'
<1>1. /\ got \in Seq(Nat) /\ pending \in Seq(Nat) /\ batch \in Seq(Nat) /\ buffer \in Seq(Nat)
      /\ typed \in Nat /\ taken \subseteq 0 .. typed
  BY DEF KeysInv, StageTypes
<1> DEFINE a == (got \o pending) \o batch
<1>2. a \in Seq(Nat) /\ Line = a \o buffer /\ ToSet(buffer) \subseteq 0 .. typed
  BY LineElements
<1>3. UNCHANGED <<closing, reader, got, pending, batch>> /\ Line' = a \o buffer'
  BY DEF UserTypes, OtherProcessTakes, flags, input, Line
<1>4. CASE UserTypes
  <2>1. typed' = typed + 1 /\ buffer' = Append(buffer, typed + 1) /\ taken' = taken
    BY <1>4 DEF UserTypes
  <2>2. typed + 1 \in Nat /\ typed + 1 # Wake
    BY <1>1 DEF Wake
  <2> HIDE DEF a
  <2>3. Line' = Line \o <<typed + 1>>
    <3>1. a \o Append(buffer, typed + 1) = (a \o buffer) \o <<typed + 1>>
      BY <1>1, <1>2, <2>2, JoinsNew, Zenon
    <3> QED BY <1>2, <1>3, <2>1, <3>1
  <2>4. LineKept'
    BY <2>1, <2>2, <2>3, LineGrows
  <2>5. buffer' \in Seq(Nat) /\ (Wake \notin ToSet(buffer) => Wake \notin ToSet(buffer'))
    BY <1>1, <2>1, <2>2, NoWakeAppend
  <2>6. typed' \in Nat /\ taken' \subseteq 0 .. typed'
    BY <1>1, <2>1
  <2>7. StageTypes'
    BY <1>3, <2>5, <2>6 DEF KeysInv, StageTypes
  <2> QED BY <2>4, <2>7 DEF KeysInv
<1>5. CASE OtherProcessTakes
  <2>1. /\ buffer # <<>> /\ typed' = typed /\ buffer' = Tail(buffer)
        /\ taken' = taken \cup {Head(buffer)}
    BY <1>5 DEF OtherProcessTakes
  <2> HIDE DEF a
  <2>2. /\ <<Head(buffer)>> \in Seq(Nat) /\ Tail(buffer) \in Seq(Nat)
        /\ <<Head(buffer)>> \o Tail(buffer) = buffer /\ ToSet(<<Head(buffer)>>) = {Head(buffer)}
    BY <1>1, <2>1, HeadJoins
  <2>3. Line = (a \o <<Head(buffer)>>) \o Tail(buffer)
    BY <1>2, <2>2, ConcatAssociative
  <2>4. LineKept'
    BY <1>2, <1>3, <2>1, <2>2, <2>3, LineShrinks
  <2>5. buffer' \in Seq(Nat) /\ (Wake \notin ToSet(buffer) => Wake \notin ToSet(buffer'))
    BY <1>1, <2>1, NoWakeTail
  <2>6. Head(buffer) \in ToSet(buffer)
    <3>1. Len(buffer) \in Nat /\ Len(buffer) # 0
      BY <1>1, <2>1
    <3>2. 1 \in DOMAIN buffer /\ Head(buffer) = buffer[1]
      BY <1>1, <3>1
    <3> QED BY <3>2 DEF ToSet
  <2>7. StageTypes'
    BY <1>1, <1>2, <1>3, <2>1, <2>5, <2>6 DEF KeysInv, StageTypes
  <2> QED BY <2>4, <2>7 DEF KeysInv
<1> QED BY <1>4, <1>5

(* Read hands keys on, from stage to stage; only a Read that finds closing *)
(* set drops its batch.                                                    *)
LEMMA ReadKeys ==
  ASSUME Inv, KeysInv, Read
  PROVE  KeysInv'
<1>1. /\ got \in Seq(Nat) /\ pending \in Seq(Nat) /\ batch \in Seq(Nat) /\ buffer \in Seq(Nat)
      /\ typed \in Nat /\ taken \subseteq 0 .. typed
  BY DEF KeysInv, StageTypes
<1>2. <<>> \in Seq(Nat) /\ ToSet(<<>>) = {}
  BY DEF ToSet
<1>3. got \o pending \in Seq(Nat) /\ ToSet(batch) \subseteq 0 .. typed
  BY LineElements
<1>4. CASE ReadEnters \/ ReadFindsPending \/ ReadRefused \/ ConsoleReturnsNothing
  <2>1. UNCHANGED <<closing, got, pending, batch, buffer, typed, taken>>
    BY <1>4 DEF ReadEnters, Enters, ReadFindsPending, ReadRefused, ConsoleReturnsNothing, flags, keys
  <2>2. LineKept'
    BY <2>1, LineStays DEF Line
  <2>3. (reader' = "console" /\ pending = <<>>) \/ reader' = "copy" \/ reader' = "closed"
          \/ (reader = "console" /\ reader' = "back")
    BY <1>4 DEF ReadEnters, Enters, ReadFindsPending, ReadRefused, ConsoleReturnsNothing
  <2>4. reader # "back"
    BY <1>4 DEF ReadEnters, ReadFindsPending, ReadRefused, ConsoleReturnsNothing
  <2>5. StageTypes'
    BY <2>1, <2>3, <2>4 DEF KeysInv, StageTypes
  <2> QED BY <2>2, <2>5 DEF KeysInv
<1>5. CASE ConsoleDelivers
  <2>1. PICK n \in Deliverable :
          batch' = SubSeq(buffer, 1, n) /\ buffer' = SubSeq(buffer, n + 1, Len(buffer))
    BY <1>5 DEF ConsoleDelivers
  <2>2. n \in 1 .. Len(buffer)
    BY <1>1 DEF Deliverable, LineEnds
  <2>3. /\ reader = "console" /\ reader' = "back" /\ batch = <<>> /\ pending = <<>>
        /\ UNCHANGED <<closing, got, pending, typed, taken>>
    BY <1>5 DEF ConsoleDelivers, KeysInv, StageTypes, flags
  <2>4. batch' \in Seq(Nat) /\ buffer' \in Seq(Nat) /\ batch' \o buffer' = buffer
    BY <1>1, <2>1, <2>2, Cuts
  <2>5. Line' = Line
    <3>1. Line' = (got \o pending) \o (batch' \o buffer')
      <4>1. ((got \o pending) \o batch') \o buffer' = (got \o pending) \o (batch' \o buffer')
        BY <1>3, <2>4, Joins
      <4> QED BY <2>3, <4>1 DEF Line
    <3>2. (got \o pending) \o <<>> = got \o pending
      BY <1>3, ConcatEmptySeq
    <3> QED BY <2>3, <2>4, <3>1, <3>2 DEF Line
  <2>6. LineKept'
    BY <2>3, <2>5, LineStays
  <2>7. ToSet(buffer) = ToSet(batch') \cup ToSet(buffer')
    BY <2>4, CatSet
  <2>8. StageTypes'
    BY <1>1, <2>3, <2>4, <2>7 DEF KeysInv, StageTypes
  <2> QED BY <2>6, <2>8 DEF KeysInv
<1>6. CASE ReadDecodes
  <2>1. /\ reader = "back" /\ ~closing /\ reader' = "idle" /\ pending' = batch /\ batch' = <<>>
        /\ UNCHANGED <<closing, got, buffer, typed, taken>> /\ pending = <<>>
    BY <1>6 DEF ReadDecodes, KeepsBatch, KeysInv, StageTypes, keys
  <2>2. Line' = Line
    <3>1. got \o batch \in Seq(Nat)
      BY <1>1
    <3>2. (got \o batch) \o <<>> = got \o batch /\ got \o <<>> = got
      BY <1>1, <3>1, ConcatEmptySeq
    <3> QED BY <2>1, <3>2 DEF Line
  <2>3. LineKept'
    BY <2>1, <2>2, LineStays
  <2>4. StageTypes'
    BY <1>1, <1>2, <2>1 DEF KeysInv, StageTypes
  <2> QED BY <2>3, <2>4 DEF KeysInv
<1>7. CASE ReadDiscards
  <2>1. /\ closing /\ reader' = "closed" /\ batch' = <<>> /\ taken' = taken \cup ToSet(batch)
        /\ UNCHANGED <<closing, got, pending, buffer, typed>>
    BY <1>7 DEF ReadDiscards
  <2>2. Line = ((got \o pending) \o batch) \o buffer /\ Line' = (got \o pending) \o buffer
    BY <1>3, <2>1, ConcatEmptySeq DEF Line
  <2>3. LineKept'
    BY <1>1, <1>3, <2>1, <2>2, LineShrinks
  <2>4. StageTypes'
    BY <1>1, <1>2, <1>3, <2>1 DEF KeysInv, StageTypes
  <2> QED BY <2>3, <2>4 DEF KeysInv
<1>8. CASE ReadCopies
  <2>1. PICK n \in 1 .. Len(pending) :
          /\ got' = got \o SubSeq(pending, 1, n)
          /\ pending' = SubSeq(pending, n + 1, Len(pending))
    BY <1>8 DEF ReadCopies
  <2>2. reader = "copy" /\ reader' = "idle" /\ UNCHANGED <<closing, batch, buffer, typed, taken>>
    BY <1>8 DEF ReadCopies, flags, keys
  <2> DEFINE p == SubSeq(pending, 1, n)
  <2>3. p \in Seq(Nat) /\ pending' \in Seq(Nat) /\ p \o pending' = pending
    BY <1>1, <2>1, Cuts
  <2>4. got' = got \o p
    BY <2>1
  <2> HIDE DEF p
  <2>5. got' \o pending' = got \o pending
    <3>1. got \in Seq(Nat) /\ p \in Seq(Nat) /\ pending' \in Seq(Nat)
      BY <1>1, <2>3
    <3>2. (got \o p) \o pending' = got \o (p \o pending')
      BY <3>1, Joins, Zenon
    <3> QED BY <2>3, <2>4, <3>2
  <2>6. LineKept'
    BY <2>2, <2>5, LineStays DEF Line
  <2>7. ToSet(pending) = ToSet(p) \cup ToSet(pending') /\ ToSet(got') = ToSet(got) \cup ToSet(p)
    BY <1>1, <2>3, <2>4, CatSet
  <2>8. got' \in Seq(Nat)
    BY <1>1, <2>3, <2>4
  <2>9. StageTypes'
    BY <1>1, <2>2, <2>3, <2>7, <2>8 DEF KeysInv, StageTypes
  <2> QED BY <2>6, <2>9 DEF KeysInv
<1> QED BY <1>4, <1>5, <1>6, <1>7, <1>8 DEF Read

(* Close adds wake records to the console's buffer and empties it. *)
LEMMA CloseKeys ==
  ASSUME Inv, KeysInv, NEW c \in Closers, Close(c)
  PROVE  KeysInv'
<1>1. /\ got \in Seq(Nat) /\ pending \in Seq(Nat) /\ batch \in Seq(Nat) /\ buffer \in Seq(Nat)
      /\ typed \in Nat /\ taken \subseteq 0 .. typed
  BY DEF KeysInv, StageTypes
<1> DEFINE a == (got \o pending) \o batch
<1>2. a \in Seq(Nat) /\ Line = a \o buffer /\ ToSet(buffer) \subseteq 0 .. typed
  BY LineElements
<1>3. /\ UNCHANGED <<reader, got, pending, batch, typed>> /\ Line' = a \o buffer'
      /\ closing' = closing \/ closing' = TRUE
  BY DEF Close, CloseStarts, CloseWaits, WakeReader, WakeAgain, ReaderExited, WakeDeadline,
     FlushInput, CloseRestores, Restores, flags, input, keys, Line
<1>4. CASE UNCHANGED <<buffer, taken>>
  <2>1. LineKept'
    BY <1>2, <1>3, <1>4, LineStays
  <2>2. StageTypes'
    BY <1>3, <1>4 DEF KeysInv, StageTypes
  <2> QED BY <2>1, <2>2 DEF KeysInv
<1>5. CASE WakeReader(c) /\ buffer' = Append(buffer, Wake)
  <2>1. closing /\ closing' = closing /\ taken' = taken /\ buffer' = Append(buffer, 0)
    BY <1>5 DEF WakeReader, Inv, OneCloser, flags, Wake
  <2> HIDE DEF a
  <2>2. Line' = Line \o <<0>>
    <3>1. 0 \in Nat
      OBVIOUS
    <3>2. a \o Append(buffer, 0) = (a \o buffer) \o <<0>>
      BY <1>1, <1>2, <3>1, JoinsNew, Zenon
    <3> QED BY <1>2, <1>3, <2>1, <3>2
  <2>3. LineKept'
    BY <1>3, <2>1, <2>2, LineGrows DEF Wake
  <2>4. buffer' \in Seq(Nat)
    BY <1>1, <2>1
  <2>5. StageTypes'
    BY <1>3, <2>1, <2>4 DEF KeysInv, StageTypes
  <2> QED BY <2>3, <2>5 DEF KeysInv
<1>6. CASE FlushInput(c) /\ buffer' = <<>> /\ taken' = taken \cup ToSet(buffer)
  <2>1. <<>> \in Seq(Nat) /\ ToSet(<<>>) = {}
    BY DEF ToSet
  <2> HIDE DEF a
  <2>2. Line = (a \o buffer) \o <<>> /\ Line' = a \o <<>>
    BY <1>1, <1>2, <1>3, <1>6, ConcatEmptySeq, ConcatProperties
  <2>3. LineKept'
    BY <1>1, <1>2, <1>3, <1>6, <2>1, <2>2, LineShrinks
  <2>4. StageTypes'
    BY <1>1, <1>2, <1>3, <1>6, <2>1 DEF KeysInv, StageTypes
  <2> QED BY <2>3, <2>4 DEF KeysInv
<1> QED
  BY <1>4, <1>5, <1>6 DEF Close, CloseStarts, CloseWaits, WakeReader, WakeAgain, ReaderExited,
     WakeDeadline, FlushInput, CloseRestores, Restores, Injects, keys

(* Every step keeps the line. *)
LEMMA KeysNext == Inv /\ KeysInv /\ [Next]_vars => KeysInv'
<1> SUFFICES ASSUME Inv, KeysInv, [Next]_vars PROVE KeysInv'
  OBVIOUS
<1>1. CASE UNCHANGED <<closing, reader, got, pending, batch, buffer, typed, taken>>
  <2>1. LineKept'
    BY <1>1, LineStays DEF Line
  <2>2. StageTypes'
    BY <1>1 DEF KeysInv, StageTypes
  <2> QED BY <2>1, <2>2 DEF KeysInv
<1>2. CASE SshLeavesMode \/ Write \/ MakeRaw \/ Restore \/ UNCHANGED vars
  BY <1>1, <1>2 DEF SshLeavesMode, Write, WriteStarts, WriteChunk, WriteFails, MakeRaw, Restore,
     vars, flags, input, keys
<1> QED BY <1>2, HostKeys, ReadKeys, CloseKeys DEF Next

(***************************************************************************)
(* Read returns the keys in the order they were typed, each once, missing  *)
(* only those another process or a flush took, and never a wake record.    *)
(***************************************************************************)
THEOREM KeysKeepOrder == Spec => []KeysInOrder
<1>1. Inv /\ KeysInv => KeysInOrder
  <2> SUFFICES ASSUME KeysInv PROVE KeysInOrder
    OBVIOUS
  <2>1. ToSet(got \o pending) = ToSet(got) \cup ToSet(pending)
    BY CatSet DEF KeysInv, StageTypes
  <2>2. Wake \notin ToSet(got \o pending)
    BY <2>1 DEF KeysInv, StageTypes
  <2>3. Rising(Line) /\ Keys(Line) = (1 .. typed) \ taken
    BY DEF KeysInv, LineKept
  <2> QED BY <2>2, <2>3 DEF KeysInOrder, Line, Rising, Keys
<1>2. Init => KeysInv
  BY KeysInit
<1>3. Inv /\ KeysInv /\ [Next]_vars => KeysInv'
  BY KeysNext
<1> QED BY <1>1, <1>2, <1>3, ConsoleInvariance, PTL DEF Spec
=============================================================================
