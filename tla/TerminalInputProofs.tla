------------------------- MODULE TerminalInputProofs -------------------------
(***************************************************************************)
(* No input is reordered and nobody sleeps through a wakeup, for every     *)
(* size of pendingInput, of a packet and of a console read, and however    *)
(* much is typed.                                                          *)
(*                                                                         *)
(* Two invariants.  Wakeups says what each of the two goroutines owes the  *)
(* other at every place it can be in, and not only where one of them       *)
(* sleeps.  LineInv follows the bytes from the reader to the server.       *)
(***************************************************************************)
EXTENDS TerminalInput, SequenceTheorems, TLAPS

Sending == {"size", "info", "take", "space", "write", "done"}

(* Where the goroutines are and what they hold there. *)
Places ==
  /\ typed \in Nat /\ dropped \subseteq 1 .. typed
  /\ rest \in Seq(Nat) /\ buf \in Seq(Nat) /\ chunk \in Seq(Nat) /\ sent \in Seq(Nat)
  /\ Len(buf) <= Max
  /\ rd = "off" => buf = <<>> /\ sd = "off"
  /\ rz \in {"resizes", "size"} => rd = "off"
  /\ sd = "off" => rd = "off"
  /\ sd \in {"off", "wait"} \cup Sending
  /\ rd \in {"off", "read", "done"} => rest = <<>>
  /\ rd \in {"push", "grace"} => rest # <<>>
  /\ sd \notin {"space", "write", "done"} => chunk = <<>>

(* A byte in the buffer, or a size not taken, has its signal, or somebody  *)
(* on the way to give it, or the sender on the way to look.                *)
Wakeups ==
  /\ buf # <<>> => ready \/ rd = "signal" \/ sd \in Sending
  /\ dirty => changed \/ rz = "signal" \/ sd = "size" \/ sd = "done"
  /\ (rd = "grace" /\ Len(buf) < Max) => space \/ sd = "space"

Rising(s) == \A i, j \in DOMAIN s : i < j => s[i] < s[j]
Before(S, T) == \A x \in S, y \in T : x < y

Line == ((sent \o chunk) \o buf) \o rest

(* Every byte typed and not given up is in the line, in order. *)
LineKept == Rising(Line) /\ Range(Line) = (1 .. typed) \ dropped

Inv == Places /\ Wakeups /\ LineKept
-----------------------------------------------------------------------------
(* What a concatenation holds. *)
LEMMA CatShape ==
  ASSUME NEW a \in Seq(Nat), NEW b \in Seq(Nat)
  PROVE  /\ a \o b \in Seq(Nat) /\ DOMAIN (a \o b) = 1 .. (Len(a) + Len(b))
         /\ DOMAIN a = 1 .. Len(a) /\ DOMAIN b = 1 .. Len(b)
         /\ Len(a) \in Nat /\ Len(b) \in Nat
         /\ \A i \in 1 .. Len(a) : (a \o b)[i] = a[i] /\ a[i] \in Nat
         /\ \A i \in 1 .. Len(b) : (a \o b)[Len(a) + i] = b[i] /\ b[i] \in Nat
  OBVIOUS

(* A concatenation holds what its parts hold. *)
LEMMA CatSet ==
  ASSUME NEW a \in Seq(Nat), NEW b \in Seq(Nat)
  PROVE  Range(a \o b) = Range(a) \cup Range(b)
  BY RangeConcatenation

(* A concatenation is in order if its parts are and the one is before the  *)
(* other.                                                                  *)
LEMMA CatRises ==
  ASSUME NEW a \in Seq(Nat), NEW b \in Seq(Nat)
  PROVE  Rising(a \o b) <=> Rising(a) /\ Rising(b) /\ Before(Range(a), Range(b))
<1> DEFINE c == a \o b
<1>0. /\ DOMAIN c = 1 .. (Len(a) + Len(b)) /\ DOMAIN a = 1 .. Len(a) /\ DOMAIN b = 1 .. Len(b)
      /\ Len(a) \in Nat /\ Len(b) \in Nat
      /\ \A i \in 1 .. Len(a) : c[i] = a[i] /\ a[i] \in Nat
      /\ \A i \in 1 .. Len(b) : c[Len(a) + i] = b[i] /\ b[i] \in Nat
  BY CatShape
<1> HIDE DEF c
<1>1. ASSUME Rising(c) PROVE Rising(a) /\ Rising(b)
  <2>1. ASSUME NEW i \in DOMAIN a, NEW j \in DOMAIN a, i < j
        PROVE  a[i] < a[j]
    <3>1. i \in DOMAIN c /\ j \in DOMAIN c /\ c[i] = a[i] /\ c[j] = a[j]
      BY <1>0
    <3> QED BY <1>1, <2>1, <3>1 DEF Rising
  <2>2. ASSUME NEW i \in DOMAIN b, NEW j \in DOMAIN b, i < j
        PROVE  b[i] < b[j]
    <3>1. /\ Len(a) + i \in DOMAIN c /\ Len(a) + j \in DOMAIN c /\ Len(a) + i < Len(a) + j
          /\ c[Len(a) + i] = b[i] /\ c[Len(a) + j] = b[j]
      BY <1>0, <2>2
    <3> QED BY <1>1, <2>2, <3>1 DEF Rising
  <2> QED BY <2>1, <2>2 DEF Rising
<1>2. ASSUME Rising(c), NEW x \in Range(a), NEW y \in Range(b) PROVE x < y
  <2>1. PICK i \in DOMAIN a : x = a[i]
    BY <1>2 DEF Range
  <2>2. PICK j \in DOMAIN b : y = b[j]
    BY <1>2 DEF Range
  <2>3. i \in DOMAIN c /\ Len(a) + j \in DOMAIN c /\ i < Len(a) + j
    BY <1>0, <2>1, <2>2
  <2>4. c[i] = x /\ c[Len(a) + j] = y
    BY <1>0, <2>1, <2>2
  <2> QED BY <1>2, <2>1, <2>2, <2>3, <2>4 DEF Rising
<1>3. ASSUME Rising(a), Rising(b), Before(Range(a), Range(b)) PROVE Rising(c)
  <2> SUFFICES ASSUME NEW i \in DOMAIN c, NEW j \in DOMAIN c, i < j
               PROVE  c[i] < c[j]
    BY DEF Rising
  <2>1. CASE j <= Len(a)
    <3>1. i \in DOMAIN a /\ j \in DOMAIN a /\ c[i] = a[i] /\ c[j] = a[j]
      BY <1>0, <2>1
    <3> QED BY <1>3, <3>1 DEF Rising
  <2>2. CASE i > Len(a)
    <3>1. /\ i - Len(a) \in 1 .. Len(b) /\ Len(a) + (i - Len(a)) = i
          /\ j - Len(a) \in 1 .. Len(b) /\ Len(a) + (j - Len(a)) = j
      BY <1>0, <2>2
    <3>2. c[i] = b[i - Len(a)] /\ c[j] = b[j - Len(a)] /\ i - Len(a) < j - Len(a)
      BY <1>0, <3>1
    <3> QED BY <1>0, <1>3, <3>1, <3>2 DEF Rising
  <2>3. CASE i <= Len(a) /\ j > Len(a)
    <3>1. i \in 1 .. Len(a) /\ j - Len(a) \in 1 .. Len(b) /\ Len(a) + (j - Len(a)) = j
      BY <1>0, <2>3
    <3>2. c[i] = a[i] /\ c[j] = b[j - Len(a)]
      BY <1>0, <3>1
    <3>3. c[i] \in Range(a) /\ c[j] \in Range(b)
      BY <1>0, <3>1, <3>2 DEF Range
    <3> QED BY <1>3, <3>3 DEF Before
  <2> QED BY <1>0, <2>1, <2>2, <2>3
<1> QED BY <1>1, <1>2, <1>3 DEF Before, c

(* How a sequence is cut and joined. *)
LEMMA Cuts ==
  ASSUME NEW s \in Seq(Nat), NEW n \in 1 .. Len(s)
  PROVE  /\ SubSeq(s, 1, n) \in Seq(Nat) /\ SubSeq(s, n + 1, Len(s)) \in Seq(Nat)
         /\ Len(SubSeq(s, 1, n)) = n /\ Len(SubSeq(s, n + 1, Len(s))) = Len(s) - n
         /\ SubSeq(s, 1, n) \o SubSeq(s, n + 1, Len(s)) = s
<1>1. /\ SubSeq(s, 1, n) \in Seq(Nat) /\ SubSeq(s, n + 1, Len(s)) \in Seq(Nat)
      /\ Len(SubSeq(s, 1, n)) = n /\ Len(SubSeq(s, n + 1, Len(s))) = Len(s) - n
  OBVIOUS
<1>2. SubSeq(s, 1, n) \o SubSeq(s, n + 1, Len(s)) = SubSeq(s, 1, Len(s))
  BY ConcatAdjacentSubSeq
<1> QED BY <1>1, <1>2, SubSeqFull

(* Concatenation is associative. *)
LEMMA Joins ==
  \A a, b, c \in Seq(Nat) : (a \o b) \o c = a \o (b \o c)
  BY ConcatAssociative

(* The empty sequence is neutral, and the only one of length zero. *)
LEMMA Empties ==
  /\ <<>> \in Seq(Nat) /\ Range(<<>>) = {} /\ Rising(<<>>)
  /\ \A s \in Seq(Nat) : /\ s \o <<>> = s /\ <<>> \o s = s
                         /\ Len(s) \in Nat /\ (Len(s) = 0 <=> s = <<>>)
<1>1. <<>> \in Seq(Nat) /\ DOMAIN <<>> = {}
  OBVIOUS
<1>2. Range(<<>>) = {} /\ Rising(<<>>)
  BY <1>1 DEF Range, Rising
<1>3. ASSUME NEW s \in Seq(Nat)
      PROVE  s \o <<>> = s /\ <<>> \o s = s /\ Len(s) \in Nat /\ (Len(s) = 0 <=> s = <<>>)
  BY ConcatEmptySeq, EmptySeq
<1> QED BY <1>1, <1>2, <1>3

(* The bytes of one read are consecutive. *)
LEMMA ReadRises ==
  ASSUME NEW t \in Nat, NEW n \in Nat \ {0}
  PROVE  /\ [i \in 1 .. n |-> t + i] \in Seq(Nat) /\ [i \in 1 .. n |-> t + i] # <<>>
         /\ Rising([i \in 1 .. n |-> t + i]) /\ Range([i \in 1 .. n |-> t + i]) = (t + 1) .. (t + n)
<1> DEFINE r == [i \in 1 .. n |-> t + i]
<1>1. r \in Seq(Nat) /\ Len(r) = n /\ DOMAIN r = 1 .. n /\ \A i \in 1 .. n : r[i] = t + i
  BY IsASeq
<1>2. ASSUME NEW x \in (t + 1) .. (t + n) PROVE \E i \in DOMAIN r : x = r[i]
  <2>1. x - t \in 1 .. n /\ t + (x - t) = x
    OBVIOUS
  <2> QED BY <1>1, <2>1
<1> HIDE DEF r
<1>3. r # <<>>
  BY <1>1, Empties
<1>4. Rising(r)
  BY <1>1 DEF Rising
<1>5. Range(r) = (t + 1) .. (t + n)
  <2>1. ASSUME NEW x \in Range(r) PROVE x \in (t + 1) .. (t + n)
    BY <1>1 DEF Range
  <2>2. ASSUME NEW x \in (t + 1) .. (t + n) PROVE x \in Range(r)
    BY <1>2 DEF Range
  <2> QED BY <2>1, <2>2
<1> QED BY <1>1, <1>3, <1>4, <1>5 DEF r
-----------------------------------------------------------------------------
bytes == <<typed, rest, buf, chunk, sent, dropped>>

(* Before anything is typed. *)
LEMMA InvInit == Init => Inv
<1> SUFFICES ASSUME Init PROVE Inv
  OBVIOUS
<1>1. <<>> \in Seq(Nat) /\ <<>> \o <<>> = <<>> /\ Len(<<>>) = 0 /\ Range(<<>>) = {} /\ Rising(<<>>)
  BY Empties
<1>2. Max \in Nat
  BY InputAssumption
<1>3. Line = <<>>
  BY <1>1 DEF Init, Line
<1>4. LineKept
  BY <1>1, <1>3 DEF Init, LineKept
<1>5. Places
  BY <1>1, <1>2 DEF Init, Places
<1>6. Wakeups
  BY DEF Init, Wakeups
<1> QED BY <1>4, <1>5, <1>6 DEF Inv

(* The parts of the line. *)
LEMMA LineParts ==
  ASSUME Inv
  PROVE  /\ typed \in Nat /\ dropped \subseteq 1 .. typed
         /\ rest \in Seq(Nat) /\ buf \in Seq(Nat) /\ chunk \in Seq(Nat) /\ sent \in Seq(Nat)
         /\ sent \o chunk \in Seq(Nat) /\ (sent \o chunk) \o buf \in Seq(Nat) /\ Line \in Seq(Nat)
         /\ Rising(Line) /\ Range(Line) = (1 .. typed) \ dropped
<1>1. /\ typed \in Nat /\ dropped \subseteq 1 .. typed
      /\ rest \in Seq(Nat) /\ buf \in Seq(Nat) /\ chunk \in Seq(Nat) /\ sent \in Seq(Nat)
  BY DEF Inv, Places
<1>2. sent \o chunk \in Seq(Nat)
  BY <1>1
<1>3. (sent \o chunk) \o buf \in Seq(Nat)
  BY <1>1, <1>2
<1>4. Line \in Seq(Nat)
  BY <1>1, <1>3 DEF Line
<1> QED BY <1>1, <1>2, <1>3, <1>4 DEF Inv, LineKept

(* A step that moves bytes within the line keeps it. *)
LEMMA LineStays ==
  ASSUME Inv, Line' = Line, typed' = typed, dropped' = dropped
  PROVE  LineKept'
  BY DEF Inv, LineKept, Rising

(* The numbers of new bytes follow the old ones. *)
LEMMA NumbersGrow ==
  ASSUME NEW t \in Nat, NEW n \in Nat, NEW D \in SUBSET (1 .. t)
  PROVE  /\ ((1 .. t) \ D) \cup ((t + 1) .. (t + n)) = (1 .. (t + n)) \ D
         /\ t + n \in Nat /\ D \subseteq 1 .. (t + n)
  OBVIOUS

(* The reader gets new bytes. *)
LEMMA ReadStep ==
  ASSUME Inv, ReaderReads
  PROVE  Inv'
<1>1. PICK n \in 1 .. ReadBuf : typed' = typed + n /\ rest' = [i \in 1 .. n |-> typed + i]
  BY DEF ReaderReads
<1>2. /\ rd = "read" /\ rd' = "push" /\ rest = <<>>
      /\ UNCHANGED <<buf, dropped, ready, space, sd, chunk, sent, dirty, changed, rz>>
  BY DEF ReaderReads, sending, size, watching, Inv, Places
<1>3. n \in Nat \ {0}
  BY <1>1, InputAssumption
<1> DEFINE a == (sent \o chunk) \o buf
<1>4. /\ typed \in Nat /\ dropped \subseteq 1 .. typed /\ a \in Seq(Nat)
      /\ Rising(Line) /\ Range(Line) = (1 .. typed) \ dropped
  BY LineParts
<1>5. Line = a /\ Line' = a \o rest'
  BY <1>2, <1>4, Empties DEF Line
<1>6. /\ rest' \in Seq(Nat) /\ rest' # <<>> /\ Rising(rest')
      /\ Range(rest') = (typed + 1) .. (typed + n)
  BY <1>1, <1>3, <1>4, ReadRises
<1> HIDE DEF a
<1>7. Before(Range(a), Range(rest'))
  BY <1>3, <1>4, <1>5, <1>6 DEF Before
<1>8. Rising(a \o rest') /\ Range(a \o rest') = Range(a) \cup Range(rest')
  BY <1>4, <1>5, <1>6, <1>7, CatRises, CatSet
<1>9. /\ Range(a) \cup Range(rest') = (1 .. typed') \ dropped'
      /\ typed' \in Nat /\ dropped' \subseteq 1 .. typed'
  BY <1>1, <1>2, <1>3, <1>4, <1>5, <1>6, NumbersGrow
<1>10. LineKept'
  <2>1. Rising(Line') /\ Range(Line') = (1 .. typed') \ dropped'
    BY <1>5, <1>8, <1>9
  <2> QED BY <2>1 DEF LineKept, Rising
<1>11. Places'
  BY <1>2, <1>6, <1>9 DEF Inv, Places
<1>12. Wakeups'
  BY <1>2 DEF Inv, Wakeups
<1> QED BY <1>10, <1>11, <1>12 DEF Inv

(* push moves what fits into the buffer. *)
LEMMA AppendStep ==
  ASSUME Inv, PushAppends
  PROVE  Inv'
<1>1. /\ rd = "push" /\ Fits > 0 /\ rd' = "signal"
      /\ buf' = buf \o SubSeq(rest, 1, Fits) /\ rest' = SubSeq(rest, Fits + 1, Len(rest))
      /\ UNCHANGED <<typed, dropped, ready, space, sd, chunk, sent, dirty, changed, rz>>
  BY DEF PushAppends, AppendsUpTo, sending, size, watching
<1>2. /\ rest \in Seq(Nat) /\ buf \in Seq(Nat) /\ sent \o chunk \in Seq(Nat)
      /\ Len(rest) \in Nat /\ Len(buf) \in Nat /\ Len(buf) <= Max /\ Max \in Nat
  BY LineParts, Empties, InputAssumption DEF Inv, Places
<1>3. Fits \in 1 .. Len(rest) /\ Fits <= Max - Len(buf)
  BY <1>1, <1>2 DEF Fits
<1> DEFINE p == SubSeq(rest, 1, Fits)
<1>4. p \in Seq(Nat) /\ rest' \in Seq(Nat) /\ Len(p) = Fits /\ p \o rest' = rest /\ buf' = buf \o p
  BY <1>1, <1>2, <1>3, Cuts
<1> HIDE DEF p
<1>5. buf' \in Seq(Nat) /\ Len(buf') <= Max
  <2>1. buf \o p \in Seq(Nat) /\ Len(buf \o p) = Len(buf) + Len(p)
    BY <1>2, <1>4, ConcatProperties
  <2> QED BY <1>2, <1>3, <1>4, <2>1
<1>6. Line' = Line
  <2>1. (sent \o chunk) \o (buf \o p) = ((sent \o chunk) \o buf) \o p
    BY <1>2, <1>4, Joins, Zenon
  <2>2. (sent \o chunk) \o buf \in Seq(Nat) /\ p \in Seq(Nat) /\ rest' \in Seq(Nat)
    BY <1>4, LineParts
  <2>3. (((sent \o chunk) \o buf) \o p) \o rest' = ((sent \o chunk) \o buf) \o (p \o rest')
    BY <2>2, Joins, Zenon
  <2> QED BY <1>1, <1>4, <2>1, <2>3 DEF Line
<1>7. LineKept'
  BY <1>1, <1>6, LineStays
<1>8. Places'
  BY <1>1, <1>4, <1>5 DEF Inv, Places
<1>9. Wakeups'
  BY <1>1 DEF Inv, Wakeups
<1> QED BY <1>7, <1>8, <1>9 DEF Inv

(* push gives up the bytes it has left. *)
LEMMA GiveUpStep ==
  ASSUME Inv, GiveUp, rd # "signal", rd # "off"
  PROVE  Inv'
<1>1. /\ dropped' = dropped \cup Range(rest) /\ rest' = <<>> /\ rd' = "read"
      /\ UNCHANGED <<typed, buf, ready, space, sd, chunk, sent, dirty, changed, rz>>
  BY DEF GiveUp, sending, size, watching
<1> DEFINE a == (sent \o chunk) \o buf
<1>2. /\ typed \in Nat /\ dropped \subseteq 1 .. typed /\ a \in Seq(Nat) /\ rest \in Seq(Nat)
      /\ Rising(Line) /\ Range(Line) = (1 .. typed) \ dropped
  BY LineParts
<1>3. Line = a \o rest /\ Line' = a
  BY <1>1, <1>2, Empties DEF Line
<1> HIDE DEF a
<1>4. /\ Rising(a) /\ Before(Range(a), Range(rest)) /\ Range(Line) = Range(a) \cup Range(rest)
  BY <1>2, <1>3, CatRises, CatSet
<1>5. Range(a) \cap Range(rest) = {}
  <2>1. ASSUME NEW x \in Range(a), x \in Range(rest) PROVE FALSE
    <3>1. x < x /\ x \in Nat
      BY <1>2, <1>4, <2>1 DEF Before
    <3> QED BY <3>1
  <2> QED BY <2>1
<1>6. Range(a) = (1 .. typed') \ dropped'
  BY <1>1, <1>2, <1>4, <1>5
<1>7. LineKept'
  <2>1. Rising(Line') /\ Range(Line') = (1 .. typed') \ dropped'
    BY <1>3, <1>4, <1>6
  <2> QED BY <2>1 DEF LineKept, Rising
<1>8. Places'
  BY <1>1, <1>2, <1>4, Empties DEF Inv, Places
<1>9. Wakeups'
  BY <1>1 DEF Inv, Wakeups
<1> QED BY <1>7, <1>8, <1>9 DEF Inv

(* The sender takes a packet's worth from the buffer. *)
LEMMA TakeStep ==
  ASSUME Inv, SenderTakes
  PROVE  Inv'
<1> DEFINE n == IF Chunk <= Len(buf) THEN Chunk ELSE Len(buf)
<1>1. /\ sd = "take" /\ n > 0 /\ sd' = "space"
      /\ chunk' = SubSeq(buf, 1, n) /\ buf' = SubSeq(buf, n + 1, Len(buf))
      /\ UNCHANGED <<typed, rd, rest, ready, space, dropped, sent, dirty, changed, rz>>
  BY DEF SenderTakes, size, watching
<1>2. /\ rest \in Seq(Nat) /\ buf \in Seq(Nat) /\ sent \in Seq(Nat) /\ chunk = <<>>
      /\ Len(buf) \in Nat /\ Len(buf) <= Max /\ Max \in Nat /\ Chunk \in Nat \ {0}
  BY <1>1, LineParts, Empties, InputAssumption DEF Inv, Places
<1>3. n \in 1 .. Len(buf)
  BY <1>1, <1>2
<1> HIDE DEF n
<1>4. /\ chunk' \in Seq(Nat) /\ buf' \in Seq(Nat) /\ chunk' \o buf' = buf
      /\ Len(buf') = Len(buf) - n
  BY <1>1, <1>2, <1>3, Cuts
<1>5. Line' = Line
  <2>1. sent \in Seq(Nat) /\ chunk' \in Seq(Nat) /\ buf' \in Seq(Nat)
    BY <1>2, <1>4
  <2>2. (sent \o chunk') \o buf' = sent \o (chunk' \o buf')
    BY <2>1, Joins, Zenon
  <2>3. sent \o <<>> = sent
    BY <1>2, Empties
  <2> QED BY <1>1, <1>2, <1>4, <2>2, <2>3 DEF Line
<1>6. LineKept'
  BY <1>1, <1>5, LineStays
<1>7. Len(buf') <= Max /\ buf # <<>>
  BY <1>2, <1>3, <1>4, Empties
<1>8. Places'
  BY <1>1, <1>4, <1>7 DEF Inv, Places, Sending
<1>9. Wakeups'
  BY <1>1 DEF Inv, Wakeups, Sending
<1> QED BY <1>6, <1>8, <1>9 DEF Inv

(* The sender sends its packet. *)
LEMMA SendStep ==
  ASSUME Inv, SenderSends
  PROVE  Inv'
<1>1. /\ sd = "write" /\ sd' = "take" /\ sent' = sent \o chunk /\ chunk' = <<>>
      /\ UNCHANGED <<typed, rd, rest, buf, ready, space, dropped, dirty, changed, rz>>
  BY DEF SenderSends, input, size, watching
<1>2. sent' \in Seq(Nat) /\ chunk' \in Seq(Nat) /\ sent' \o chunk' = sent \o chunk
  BY <1>1, LineParts, Empties
<1>3. LineKept'
  BY <1>1, <1>2, LineStays DEF Line
<1>4. Places'
  BY <1>1, <1>2 DEF Inv, Places, Sending
<1>5. Wakeups'
  BY <1>1 DEF Inv, Wakeups, Sending
<1> QED BY <1>3, <1>4, <1>5 DEF Inv

(* Steps that move no byte keep the line; what is left is who is where. *)
LEMMA QuietStep ==
  ASSUME Inv, UNCHANGED bytes, Places', Wakeups'
  PROVE  Inv'
  BY LineStays DEF bytes, Line, Inv

(* start launches the goroutines, with the first size signalled. *)
LEMMA StartStep ==
  ASSUME Inv, Start
  PROVE  Inv'
<1>1. CASE StartResizes
  <2>1. rz = "resizes" /\ rz' = "size" /\ UNCHANGED <<bytes, rd, ready, space, sd, dirty, changed>>
    BY <1>1 DEF StartResizes, input, sending, size, bytes
  <2>2. Places' /\ Wakeups'
    BY <2>1 DEF Inv, Places, Wakeups, bytes
  <2> QED BY <2>1, <2>2, QuietStep
<1>2. CASE StartSize
  <2>1. /\ rz = "size" /\ rz' = "notify" /\ rd' = "read" /\ sd' = "wait"
        /\ UNCHANGED <<bytes, ready, space>> /\ changed' = TRUE
    BY <1>2 DEF StartSize, window, bytes
  <2>2. rd = "off" /\ buf = <<>> /\ rest = <<>>
    BY <2>1 DEF Inv, Places
  <2>3. chunk = <<>>
    BY <1>2, <2>1, <2>2 DEF Inv, Places
  <2>4. Places' /\ Wakeups'
    BY <2>1, <2>2, <2>3 DEF Inv, Places, Wakeups, bytes
  <2> QED BY <2>1, <2>4, QuietStep
<1> QED BY <1>1, <1>2 DEF Start

(* The reader, and push where it moves no byte. *)
LEMMA PushStep ==
  ASSUME Inv,
         ReaderReturns \/ PushSignals \/ PushWaits \/ PushWoken \/ PushTimesOut
  PROVE  Inv'
<1>1. CASE ReaderReturns
  <2>1. rd = "read" /\ rd' = "done" /\ UNCHANGED <<bytes, ready, space, sd, dirty, changed, rz>>
    BY <1>1 DEF ReaderReturns, sending, size, watching, bytes
  <2>2. Places' /\ Wakeups'
    BY <2>1 DEF Inv, Places, Wakeups, bytes
  <2> QED BY <2>1, <2>2, QuietStep
<1>2. CASE PushSignals
  <2>1. /\ rd = "signal" /\ ready' = TRUE /\ rd' = (IF rest = <<>> THEN "read" ELSE "push")
        /\ UNCHANGED <<bytes, space, sd, dirty, changed, rz>>
    BY <1>2 DEF PushSignals, sending, size, watching, bytes
  <2>2. Places' /\ Wakeups'
    BY <2>1 DEF Inv, Places, Wakeups, bytes
  <2> QED BY <2>1, <2>2, QuietStep
<1>3. CASE PushWaits
  <2>1. /\ rd = "push" /\ rd' = "grace" /\ Fits = 0
        /\ UNCHANGED <<bytes, ready, space, sd, dirty, changed, rz>>
    BY <1>3 DEF PushWaits, sending, size, watching, bytes
  <2>2. /\ rest \in Seq(Nat) /\ rest # <<>> /\ Max \in Nat /\ Len(buf) \in Nat /\ Len(buf) <= Max
        /\ Len(rest) \in Nat /\ Len(rest) # 0
    BY <2>1, LineParts, Empties, InputAssumption DEF Inv, Places
  <2>3. Len(buf) = Max
    BY <2>1, <2>2 DEF Fits
  <2>4. ~(Len(buf') < Max)
    BY <2>1, <2>2, <2>3 DEF bytes
  <2>5. Places' /\ Wakeups'
    BY <2>1, <2>4 DEF Inv, Places, Wakeups, bytes
  <2> QED BY <2>1, <2>5, QuietStep
<1>4. CASE PushWoken
  <2>1. /\ rd = "grace" /\ rd' = "push" /\ UNCHANGED <<bytes, ready, sd, dirty, changed, rz>>
    BY <1>4 DEF PushWoken, sending, size, watching, bytes
  <2>2. Places' /\ Wakeups'
    BY <2>1 DEF Inv, Places, Wakeups, bytes
  <2> QED BY <2>1, <2>2, QuietStep
<1>5. CASE PushTimesOut
  <2>1. rd = "grace" /\ rd' = "timeout" /\ UNCHANGED <<bytes, ready, space, sd, dirty, changed, rz>>
    BY <1>5 DEF PushTimesOut, sending, size, watching, bytes
  <2>2. Places' /\ Wakeups'
    BY <2>1 DEF Inv, Places, Wakeups, bytes
  <2> QED BY <2>1, <2>2, QuietStep
<1> QED BY <1>1, <1>2, <1>3, <1>4, <1>5

(* The sender where it moves no byte. *)
LEMMA SenderStep ==
  ASSUME Inv,
         \/ SenderReady \/ SenderChanged \/ SenderStops \/ SenderTakesSize \/ SenderSendsSize
         \/ SenderFindsNothing \/ SenderSignals \/ SenderFails
  PROVE  Inv'
<1> USE DEF Sending
<1>1. CASE SenderReady
  <2>1. sd = "wait" /\ sd' = "size" /\ UNCHANGED <<bytes, rd, space, dirty, changed, rz>>
    BY <1>1 DEF SenderReady, window, size, watching, bytes
  <2>2. Places' /\ Wakeups'
    BY <2>1 DEF Inv, Places, Wakeups, bytes
  <2> QED BY <2>1, <2>2, QuietStep
<1>2. CASE SenderChanged
  <2>1. sd = "wait" /\ sd' = "size" /\ UNCHANGED <<bytes, rd, ready, space, dirty, rz>>
    BY <1>2 DEF SenderChanged, input, watching, bytes
  <2>2. Places' /\ Wakeups'
    BY <2>1 DEF Inv, Places, Wakeups, bytes
  <2> QED BY <2>1, <2>2, QuietStep
<1>3. CASE SenderStops
  <2>1. sd = "wait" /\ sd' = "done" /\ UNCHANGED <<bytes, rd, ready, space, dirty, changed, rz>>
    BY <1>3 DEF SenderStops, input, size, watching, bytes
  <2>2. Places' /\ Wakeups'
    BY <2>1 DEF Inv, Places, Wakeups, bytes
  <2> QED BY <2>1, <2>2, QuietStep
<1>4. CASE SenderTakesSize
  <2>1. /\ sd = "size" /\ sd' \in {"info", "take"} /\ dirty' = FALSE
        /\ UNCHANGED <<bytes, rd, ready, space, changed, rz>>
    BY <1>4 DEF SenderTakesSize, input, watching, bytes
  <2>2. Places' /\ Wakeups'
    BY <2>1 DEF Inv, Places, Wakeups, bytes
  <2> QED BY <2>1, <2>2, QuietStep
<1>5. CASE SenderSendsSize
  <2>1. sd = "info" /\ sd' = "take" /\ UNCHANGED <<bytes, rd, ready, space, dirty, changed, rz>>
    BY <1>5 DEF SenderSendsSize, input, size, watching, bytes
  <2>2. Places' /\ Wakeups'
    BY <2>1 DEF Inv, Places, Wakeups, bytes
  <2> QED BY <2>1, <2>2, QuietStep
<1>6. CASE SenderFindsNothing
  <2>1. /\ sd = "take" /\ sd' = "wait" /\ buf = <<>>
        /\ UNCHANGED <<bytes, rd, ready, space, dirty, changed, rz>>
    BY <1>6 DEF SenderFindsNothing, input, size, watching, bytes
  <2>2. Places' /\ Wakeups'
    BY <2>1 DEF Inv, Places, Wakeups, bytes
  <2> QED BY <2>1, <2>2, QuietStep
<1>7. CASE SenderSignals
  <2>1. /\ sd = "space" /\ sd' = "write" /\ space' = TRUE
        /\ UNCHANGED <<bytes, rd, ready, dirty, changed, rz>>
    BY <1>7 DEF SenderSignals, size, watching, bytes
  <2>2. Places' /\ Wakeups'
    BY <2>1 DEF Inv, Places, Wakeups, bytes
  <2> QED BY <2>1, <2>2, QuietStep
<1>8. CASE SenderFails
  <2>1. /\ sd \in {"info", "write"} /\ sd' = "done"
        /\ UNCHANGED <<bytes, rd, ready, space, dirty, changed, rz>>
    BY <1>8 DEF SenderFails, input, size, watching, bytes
  <2>2. Places' /\ Wakeups'
    BY <2>1 DEF Inv, Places, Wakeups, bytes
  <2> QED BY <2>1, <2>2, QuietStep
<1> QED BY <1>1, <1>2, <1>3, <1>4, <1>5, <1>6, <1>7, <1>8

(* The window and its watcher: a size that is set is signalled next. *)
LEMMA ResizeStep ==
  ASSUME Inv, Resize \/ Resizer \/ SessionEnds
  PROVE  Inv'
<1>1. CASE Resize \/ SessionEnds
  <2>1. UNCHANGED <<bytes, rd, ready, space, sd, dirty, changed, rz>>
    BY <1>1 DEF Resize, SessionEnds, input, sending, size, watching, bytes
  <2>2. Places' /\ Wakeups'
    BY <2>1 DEF Inv, Places, Wakeups, bytes
  <2> QED BY <2>1, <2>2, QuietStep
<1>2. CASE ResizerSets
  <2>1. rz = "set" /\ rz' = "signal" /\ UNCHANGED <<bytes, rd, ready, space, sd, changed>>
    BY <1>2 DEF ResizerSets, input, sending, bytes
  <2>2. Places' /\ Wakeups'
    BY <2>1 DEF Inv, Places, Wakeups, bytes
  <2> QED BY <2>1, <2>2, QuietStep
<1>3. CASE ResizerSignals
  <2>1. rz' = "wait" /\ changed' = TRUE /\ UNCHANGED <<bytes, rd, ready, space, sd, dirty>>
    BY <1>3 DEF ResizerSignals, input, sending, bytes
  <2>2. Places' /\ Wakeups'
    BY <2>1 DEF Inv, Places, Wakeups, bytes
  <2> QED BY <2>1, <2>2, QuietStep
<1>4. CASE ResizerNotifies \/ ResizerTicks \/ ResizerSignalled \/ ResizerChecks \/ ResizerStops
  <2>1. /\ rz # "signal" /\ rz' \in {"wait", "check", "done", "set"}
        /\ UNCHANGED <<bytes, rd, ready, space, sd, dirty, changed>>
    BY <1>4 DEF ResizerNotifies, ResizerTicks, ResizerSignalled, ResizerChecks, ResizerStops, Moves,
       input, sending, size, bytes
  <2>2. Places' /\ Wakeups'
    BY <2>1 DEF Inv, Places, Wakeups, bytes
  <2> QED BY <2>1, <2>2, QuietStep
<1> QED BY <1>1, <1>2, <1>3, <1>4 DEF Resizer

(* The invariant is kept by every step. *)
LEMMA InvNext == Inv /\ [Next]_vars => Inv'
<1> SUFFICES ASSUME Inv, [Next]_vars PROVE Inv'
  OBVIOUS
<1>1. CASE UNCHANGED vars
  <2>1. UNCHANGED <<bytes, rd, ready, space, sd, dirty, changed, rz>>
    BY <1>1 DEF vars, input, sending, size, watching, bytes
  <2>2. Places' /\ Wakeups'
    BY <2>1 DEF Inv, Places, Wakeups, bytes
  <2> QED BY <2>1, <2>2, QuietStep
<1>2. CASE PushDrops \/ PushStalls \/ PushStops
  <2>1. GiveUp /\ rd # "signal" /\ rd # "off"
    BY <1>2 DEF PushDrops, PushStalls, PushStops
  <2> QED BY <2>1, GiveUpStep
<1>3. CASE Push
  BY <1>2, <1>3, AppendStep, PushStep DEF Push
<1>4. CASE Sender \/ SenderFails
  BY <1>4, TakeStep, SendStep, SenderStep DEF Sender
<1> QED BY <1>1, <1>3, <1>4, ReadStep, StartStep, PushStep, ResizeStep DEF Next

(***************************************************************************)
(* What is promised of every state of the terminal's input side.           *)
(***************************************************************************)
THEOREM InputInvariance == Spec => []Inv
  BY InvInit, InvNext, PTL DEF Spec

(***************************************************************************)
(* No lost wakeup: the sender never sleeps on input or on a size it has    *)
(* not sent, nor does push sit out its grace period with room in the       *)
(* buffer, unless somebody is about to wake them.                          *)
(***************************************************************************)
THEOREM NobodyIsStranded == Spec => []NobodyStranded
<1>1. Inv => NobodyStranded
  BY DEF Inv, Wakeups, NobodyStranded, Sending
<1> QED BY <1>1, InputInvariance, PTL

(***************************************************************************)
(* Every byte typed is in exactly one place, and those that push did not   *)
(* give up keep the order they were typed in.                              *)
(***************************************************************************)
THEOREM InputKeepsOrder == Spec => []InputInOrder
<1>1. Inv => InputInOrder
  <2> SUFFICES ASSUME Inv PROVE InputInOrder
    OBVIOUS
  <2>1. Line \in Seq(Nat) /\ Rising(Line) /\ Range(Line) = (1 .. typed) \ dropped
    BY LineParts
  <2>2. ASSUME NEW i \in 1 .. Len(Line) - 1 PROVE Line[i] < Line[i + 1]
    <3>1. i \in DOMAIN Line /\ i + 1 \in DOMAIN Line /\ i < i + 1
      BY <2>1
    <3> QED BY <2>1, <3>1 DEF Rising
  <2> QED BY <2>1, <2>2 DEF InputInOrder, Line
<1> QED BY <1>1, InputInvariance, PTL
=============================================================================
