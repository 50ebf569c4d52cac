--------------------------- MODULE OutboundProofs ---------------------------
(***************************************************************************)
(* Proofs about Outbound, for any number of callers, any packet sizes and  *)
(* any ReplayLimit.  The bound MaxSealed plays no part in them.            *)
(***************************************************************************)
EXTENDS Outbound, WellFoundedInduction, TLAPS
-----------------------------------------------------------------------------
(***************************************************************************)
(* What the operations of the replay ring do, for every limit and every    *)
(* sequence of packet sizes.                                               *)
(***************************************************************************)
(* A ring whose offsets are those of a sequence of packets. *)
Offsets(r) ==
  /\ r \in Rings
  /\ Len(r.off) >= 1
  /\ \A i, j \in 0 .. NextSeq(r) : i <= j => Off(r, i) <= Off(r, j)

(* The counters agree with the entries: keep is flushed. *)
Counted(r, keep, u) ==
  /\ Offsets(r)
  /\ keep \in Nat /\ r.first <= keep /\ keep <= NextSeq(r)
  /\ r.bytes = BytesBetween(r, r.first, NextSeq(r))
  /\ u = BytesBetween(r, keep, NextSeq(r))

(* A non-empty set of naturals has a least element. *)
LEMMA LeastNatural ==
  ASSUME NEW T \in SUBSET Nat, T # {}
  PROVE  \E m \in T : \A k \in T : m <= k
<1>1. \E m \in T : \A k \in T : ~(<<k, m>> \in OpToRel(<, Nat))
  BY NatLessThanWellFounded, WFMin
<1>2. ASSUME NEW k \in Nat, NEW m \in Nat, k < m
      PROVE  <<k, m>> \in OpToRel(<, Nat)
  BY <1>2 DEF OpToRel
<1>3. PICK m \in T : \A k \in T : ~(<<k, m>> \in OpToRel(<, Nat))
  BY <1>1
<1>4. \A k \in T : ~(k < m)
  BY <1>2, <1>3
<1>5. \A k \in T : m <= k
  BY <1>4
<1> QED
  BY <1>5

(* A ring stays one when an operation replaces fields. *)
LEMMA RingWith ==
  ASSUME NEW r \in Rings
  PROVE  /\ \A o \in Seq(Nat), b \in Int : [r EXCEPT !.off = o, !.bytes = b] \in Rings
         /\ \A f \in Nat, b \in Int : [r EXCEPT !.first = f, !.bytes = b] \in Rings
         /\ [r EXCEPT !.held = FALSE] \in Rings
         /\ \A h \in Nat : [r EXCEPT !.held = TRUE, !.hold = h] \in Rings
BY Zenon DEF Rings

(* The offsets of a ring are natural numbers. *)
LEMMA OffsetType ==
  ASSUME NEW r, Offsets(r)
  PROVE  /\ NextSeq(r) \in Nat
         /\ \A s \in 0 .. NextSeq(r) : Off(r, s) \in Nat
BY DEF Offsets, NextSeq, Off, Rings

(* ring.push leaves the older entries as they were. *)
LEMMA PushFacts ==
  ASSUME NEW r, Offsets(r), NEW n \in Nat
  PROVE  /\ Offsets(Push(r, n))
         /\ NextSeq(Push(r, n)) = NextSeq(r) + 1
         /\ \A s \in 0 .. NextSeq(r) : Off(Push(r, n), s) = Off(r, s)
         /\ Off(Push(r, n), NextSeq(r) + 1) = Off(r, NextSeq(r)) + n
         /\ Push(r, n).first = r.first
         /\ Push(r, n).bytes = r.bytes + n
         /\ Push(r, n).held = r.held
         /\ Push(r, n).hold = r.hold
<1> DEFINE p == Push(r, n)
<1>1. NextSeq(r) \in Nat /\ \A s \in 0 .. NextSeq(r) : Off(r, s) \in Nat
  BY OffsetType
<1>2. /\ p.off = Append(r.off, Off(r, NextSeq(r)) + n)
      /\ p.first = r.first /\ p.bytes = r.bytes + n
      /\ p.held = r.held /\ p.hold = r.hold
  BY DEF Push, Offsets, Rings
<1>3. p \in Rings
  <2>1. /\ Append(r.off, Off(r, NextSeq(r)) + n) \in Seq(Nat)
        /\ r.bytes + n \in Int
    BY <1>1 DEF Offsets, Rings
  <2>2. r \in Rings
    BY DEF Offsets
  <2> QED
    BY <2>1, <2>2, RingWith DEF Push
<1>4. /\ Len(p.off) = Len(r.off) + 1
      /\ \A i \in 1 .. Len(r.off) : p.off[i] = r.off[i]
      /\ p.off[Len(r.off) + 1] = Off(r, NextSeq(r)) + n
  BY <1>1, <1>2 DEF Offsets, Rings
<1>5. NextSeq(p) = NextSeq(r) + 1
  BY <1>1, <1>4 DEF NextSeq, Offsets, Rings
<1>6. \A s \in 0 .. NextSeq(r) : Off(p, s) = Off(r, s)
  BY <1>1, <1>4 DEF Off, NextSeq
<1>7. Off(p, NextSeq(r) + 1) = Off(r, NextSeq(r)) + n
  BY <1>1, <1>4 DEF Off, NextSeq
<1>8. \A i, j \in 0 .. NextSeq(p) : i <= j => Off(p, i) <= Off(p, j)
  <2> SUFFICES ASSUME NEW i \in 0 .. NextSeq(p), NEW j \in 0 .. NextSeq(p), i <= j
               PROVE  Off(p, i) <= Off(p, j)
    OBVIOUS
  <2>1. CASE j <= NextSeq(r)
    BY <1>1, <1>6, <2>1 DEF Offsets
  <2>2. CASE j = NextSeq(r) + 1 /\ i <= NextSeq(r)
    <3>1. Off(r, i) <= Off(r, NextSeq(r))
      BY <1>1, <2>2 DEF Offsets
    <3> QED
      BY <1>1, <1>6, <1>7, <2>2, <3>1
  <2>3. CASE j = NextSeq(r) + 1 /\ i = NextSeq(r) + 1
    BY <1>1, <1>7, <2>3
  <2> QED
    BY <1>1, <1>5, <2>1, <2>2, <2>3
<1>9. Offsets(p)
  BY <1>3, <1>4, <1>8 DEF Offsets, Rings
<1> HIDE DEF p
<1> QED
  BY <1>2, <1>5, <1>6, <1>7, <1>9 DEF p

(* ring.trim's loop stops, at the first entry its condition spares. *)
LEMMA TrimPointFacts ==
  ASSUME NEW r, NEW keep, NEW u, Counted(r, keep, u)
  PROVE  LET p == TrimPoint(r, keep, u) IN
         /\ p \in r.first .. NextSeq(r)
         /\ TrimStops(r, keep, u, p)
         /\ \A g \in r.first .. (p - 1) : ~TrimStops(r, keep, u, g)
<1> DEFINE T == {f \in r.first .. NextSeq(r) : TrimStops(r, keep, u, f)}
<1>1. NextSeq(r) \in Nat /\ r.first \in Nat /\ r.first <= NextSeq(r)
  BY OffsetType DEF Counted, Offsets, Rings
<1>2. T \in SUBSET Nat
  BY <1>1
<1>3. NextSeq(r) \in T
  BY <1>1 DEF TrimStops
<1>4. PICK m \in T : \A k \in T : m <= k
  BY <1>2, <1>3, LeastNatural
<1>5. \A g \in r.first .. (m - 1) : ~TrimStops(r, keep, u, g)
  BY <1>1, <1>4
<1>6. m \in r.first .. NextSeq(r) /\ TrimStops(r, keep, u, m)
  BY <1>4
<1> QED
  BY <1>5, <1>6 DEF TrimPoint

(* ring.trim on a ring whose counters are right. *)
LEMMA TrimFacts ==
  ASSUME NEW r, NEW keep, NEW u, Counted(r, keep, u)
  PROVE  LET t == Trim(r, keep, u) IN
         /\ Counted(t, keep, u)
         /\ t.off = r.off /\ t.held = r.held /\ t.hold = r.hold
         /\ r.first <= t.first
         /\ t.bytes - u = Off(r, keep) - Off(r, t.first)
         /\ Off(r, keep) - Off(r, t.first) <= (IF r.held THEN 2 * Limit ELSE Limit)
         /\ \A g \in r.first .. (t.first - 1) :
              /\ Off(r, keep) - Off(r, g) > Limit
              /\ r.held /\ r.hold <= g => Off(r, keep) - Off(r, g) > 2 * Limit
<1> DEFINE p == TrimPoint(r, keep, u)
           t == Trim(r, keep, u)
<1>1. /\ p \in r.first .. NextSeq(r)
      /\ TrimStops(r, keep, u, p)
      /\ \A g \in r.first .. (p - 1) : ~TrimStops(r, keep, u, g)
  BY TrimPointFacts
<1> HIDE DEF p
<1>2. /\ NextSeq(r) \in Nat /\ r.first \in Nat /\ keep \in Nat
      /\ r.first <= keep /\ keep <= NextSeq(r) /\ r.hold \in Nat
      /\ \A s \in 0 .. NextSeq(r) : Off(r, s) \in Nat
      /\ Limit \in Nat
  BY OffsetType, LimitAssumption DEF Counted, Offsets, Rings
<1>3. \A f \in r.first .. NextSeq(r) :
        WrittenFrom(r, u, f) = Off(r, keep) - Off(r, f)
  BY <1>2 DEF WrittenFrom, BytesBetween, Counted
<1>4. p <= keep
  <2>1. TrimStops(r, keep, u, keep)
    BY <1>2 DEF TrimStops
  <2> QED
    BY <1>1, <1>2, <2>1
<1>5. t = [r EXCEPT !.first = p, !.bytes = @ - BytesBetween(r, r.first, p)]
  BY DEF Trim, p
<1>6. /\ t.off = r.off /\ t.held = r.held /\ t.hold = r.hold
      /\ t.first = p /\ t.bytes = r.bytes - BytesBetween(r, r.first, p)
  BY <1>5 DEF Counted, Offsets, Rings
<1>7. t \in Rings
  <2> DEFINE b == r.bytes - BytesBetween(r, r.first, p)
  <2>1. p \in Nat /\ Off(r, p) \in Nat /\ Off(r, r.first) \in Nat
    BY <1>1, <1>2
  <2>2. r \in Rings /\ r.bytes \in Int
    BY DEF Counted, Offsets, Rings
  <2>3. b \in Int
    BY <2>1, <2>2 DEF BytesBetween
  <2>4. t = [r EXCEPT !.first = p, !.bytes = b]
    BY <1>5
  <2> HIDE DEF b, t
  <2> QED
    BY <2>1, <2>2, <2>3, <2>4, RingWith
<1> HIDE DEF t
<1>8. /\ NextSeq(t) = NextSeq(r)
      /\ \A s \in 0 .. NextSeq(r) : Off(t, s) = Off(r, s)
  BY <1>6 DEF NextSeq, Off
<1>9. Offsets(t)
  BY <1>6, <1>7, <1>8 DEF Counted, Offsets
<1>10. t.bytes = Off(r, NextSeq(r)) - Off(r, p)
  BY <1>1, <1>2, <1>6 DEF Counted, BytesBetween
<1>11. Counted(t, keep, u)
  BY <1>1, <1>2, <1>4, <1>6, <1>8, <1>9, <1>10 DEF Counted, BytesBetween
<1>12. t.bytes - u = Off(r, keep) - Off(r, p)
  BY <1>1, <1>2, <1>10 DEF Counted, BytesBetween
<1>13. Off(r, keep) - Off(r, p) <= (IF r.held THEN 2 * Limit ELSE Limit)
  <2>1. CASE p >= NextSeq(r) \/ p >= keep
    <3>1. p = keep
      BY <1>1, <1>2, <1>4, <2>1
    <3> QED
      BY <1>2, <3>1
  <2>2. CASE WrittenFrom(r, u, p) <= Limit
    BY <1>1, <1>2, <1>3, <2>2
  <2>3. CASE r.held /\ WrittenFrom(r, u, p) <= 2 * Limit
    BY <1>1, <1>2, <1>3, <2>3
  <2> QED
    BY <1>1, <2>1, <2>2, <2>3 DEF TrimStops
<1>14. ASSUME NEW g \in r.first .. (p - 1)
       PROVE  /\ Off(r, keep) - Off(r, g) > Limit
              /\ r.held /\ r.hold <= g => Off(r, keep) - Off(r, g) > 2 * Limit
  <2>1. g \in r.first .. NextSeq(r) /\ ~TrimStops(r, keep, u, g)
    BY <1>1, <1>2
  <2>2. WrittenFrom(r, u, g) = Off(r, keep) - Off(r, g)
    BY <1>3, <2>1
  <2>3. Off(r, keep) \in Nat /\ Off(r, g) \in Nat
    BY <1>2, <2>1
  <2> QED
    BY <1>2, <2>1, <2>2, <2>3 DEF TrimStops
<1> QED
  BY <1>1, <1>2, <1>6, <1>11, <1>12, <1>13, <1>14 DEF t
-----------------------------------------------------------------------------

ProbeSize == SealedSize(ProbePayload)

HoldLimit(r) == IF r.held THEN 2 * Limit ELSE Limit

(***************************************************************************)
(* The inductive invariant of what c.mu guards.  It adds to the accounting *)
(* and to the bounds why an entry was ever dropped: at that time more than *)
(* Limit bytes of it and its successors had been written, twice that for a *)
(* held entry.                                                             *)
(***************************************************************************)
DroppedLate(r, f) ==
  \A s \in 0 .. (r.first - 1) :
    /\ Off(r, f) - Off(r, s) > Limit
    /\ r.held /\ r.hold <= s => Off(r, f) - Off(r, s) > 2 * Limit

QueueOK(r, f, u, lp) ==
  /\ Counted(r, f, u)
  /\ DroppedLate(r, f)
  /\ r.bytes - u <= HoldLimit(r)
  /\ u <= Limit + MaxFrame + (IF lp >= f THEN ProbeSize ELSE 0)
  /\ lp \in Nat \cup {-1} /\ lp < NextSeq(r)
  /\ lp >= 0 => Off(r, lp + 1) - Off(r, lp) = ProbeSize
  /\ \A s \in 0 .. (NextSeq(r) - 1) : Off(r, s + 1) - Off(r, s) <= MaxFrame

(* The sizes the lemmas below do arithmetic with. *)
LEMMA Sizes ==
  /\ Limit \in Nat /\ Limit > 0 /\ MaxFrame \in Nat
  /\ ProbeSize \in Nat /\ ProbeSize <= MaxFrame
BY LimitAssumption, SizeAssumption DEF ProbeSize, SealedSize, maxPayload

(* What QueueOK says of the numbers involved. *)
LEMMA QueueTypes ==
  ASSUME NEW r, NEW f, NEW u, NEW lp, QueueOK(r, f, u, lp)
  PROVE  /\ r \in Rings /\ r.first \in Nat /\ r.hold \in Nat /\ r.bytes \in Int
         /\ f \in Nat /\ u \in Nat /\ lp \in Int
         /\ NextSeq(r) \in Nat /\ \A s \in 0 .. NextSeq(r) : Off(r, s) \in Nat
         /\ r.first <= f /\ f <= NextSeq(r)
<1>1. NextSeq(r) \in Nat /\ \A s \in 0 .. NextSeq(r) : Off(r, s) \in Nat
  BY OffsetType DEF QueueOK, Counted
<1>2. /\ r \in Rings /\ r.first \in Nat /\ r.hold \in Nat /\ r.bytes \in Int
      /\ f \in Nat /\ lp \in Int /\ r.first <= f /\ f <= NextSeq(r)
  BY DEF QueueOK, Counted, Offsets, Rings
<1>3. Off(r, f) <= Off(r, NextSeq(r)) /\ u = Off(r, NextSeq(r)) - Off(r, f)
  BY <1>1, <1>2 DEF QueueOK, Counted, Offsets, BytesBetween
<1> QED
  BY <1>1, <1>2, <1>3

(* enqueueLocked, for a packet that had room and for a probe. *)
LEMMA EnqueueOK ==
  ASSUME NEW r, NEW f, NEW u, NEW lp, QueueOK(r, f, u, lp),
         NEW n \in 0 .. MaxFrame, NEW lp2,
         \/ lp2 = lp /\ u <= Limit
         \/ lp2 = NextSeq(r) /\ lp < f /\ n = ProbeSize
  PROVE  QueueOK(Push(r, n), f, u + n, lp2)
<1> DEFINE p == Push(r, n)
<1>1. /\ r.first \in Nat /\ r.hold \in Nat /\ r.bytes \in Int
      /\ f \in Nat /\ u \in Nat /\ lp \in Int /\ NextSeq(r) \in Nat
      /\ \A s \in 0 .. NextSeq(r) : Off(r, s) \in Nat
      /\ r.first <= f /\ f <= NextSeq(r)
  BY QueueTypes
<1>2. /\ Offsets(p)
      /\ NextSeq(p) = NextSeq(r) + 1
      /\ \A s \in 0 .. NextSeq(r) : Off(p, s) = Off(r, s)
      /\ Off(p, NextSeq(r) + 1) = Off(r, NextSeq(r)) + n
      /\ p.first = r.first /\ p.bytes = r.bytes + n
      /\ p.held = r.held /\ p.hold = r.hold
  <2>1. n \in Nat /\ Offsets(r)
    BY Sizes DEF QueueOK, Counted
  <2> QED
    BY <2>1, PushFacts
<1> HIDE DEF p
<1>3. Counted(p, f, u + n)
  BY <1>1, <1>2 DEF QueueOK, Counted, BytesBetween
<1>4. DroppedLate(p, f)
  BY <1>1, <1>2, Sizes DEF QueueOK, DroppedLate
<1>5. p.bytes - (u + n) <= HoldLimit(p)
  BY <1>1, <1>2, Sizes DEF QueueOK, HoldLimit
<1>6. u + n <= Limit + MaxFrame + (IF lp2 >= f THEN ProbeSize ELSE 0)
  BY <1>1, Sizes DEF QueueOK
<1>7. lp2 \in Nat \cup {-1} /\ lp2 < NextSeq(p)
  BY <1>1, <1>2 DEF QueueOK
<1>8. lp2 >= 0 => Off(p, lp2 + 1) - Off(p, lp2) = ProbeSize
  <2>1. CASE lp2 = lp
    BY <1>1, <1>2, <2>1 DEF QueueOK
  <2>2. CASE lp2 = NextSeq(r) /\ n = ProbeSize
    BY <1>1, <1>2, <2>2, Sizes
  <2> QED
    BY <2>1, <2>2
<1>9. \A s \in 0 .. (NextSeq(p) - 1) : Off(p, s + 1) - Off(p, s) <= MaxFrame
  <2> SUFFICES ASSUME NEW s \in 0 .. (NextSeq(p) - 1)
               PROVE  Off(p, s + 1) - Off(p, s) <= MaxFrame
    OBVIOUS
  <2>1. CASE s = NextSeq(r)
    BY <1>1, <1>2, <2>1, Sizes
  <2>2. CASE s < NextSeq(r)
    BY <1>1, <1>2, <2>2 DEF QueueOK
  <2> QED
    BY <1>1, <1>2, <2>1, <2>2
<1> QED
  BY <1>3, <1>4, <1>5, <1>6, <1>7, <1>8, <1>9 DEF QueueOK, p

(***************************************************************************)
(* releaseLocked after flushed moves up to g, with the hold set to h and k *)
(* first.  A new hold may only start where nothing was dropped yet.        *)
(***************************************************************************)
LEMMA ReleaseOK ==
  ASSUME NEW r, NEW f, NEW u, NEW lp, QueueOK(r, f, u, lp),
         NEW g \in f .. NextSeq(r), NEW r1, r1 \in Rings,
         r1.off = r.off, r1.first = r.first, r1.bytes = r.bytes,
         r1.held => (r.held /\ r1.hold = r.hold) \/ r.first <= r1.hold,
         NEW v, v = u - BytesBetween(r, f, g),
         NEW t, t = Trim(r1, g, v)
  PROVE  /\ QueueOK(t, g, v, lp)
         /\ t.off = r.off /\ t.held = r1.held /\ t.hold = r1.hold
         /\ NextSeq(t) = NextSeq(r)
<1>1. /\ r.first \in Nat /\ r.hold \in Nat /\ r.bytes \in Int
      /\ f \in Nat /\ u \in Nat /\ lp \in Int /\ NextSeq(r) \in Nat
      /\ \A s \in 0 .. NextSeq(r) : Off(r, s) \in Nat
      /\ r.first <= f /\ f <= NextSeq(r)
  BY QueueTypes
<1>2. r1.hold \in Nat
  BY DEF Rings
<1>3. /\ NextSeq(r1) = NextSeq(r)
      /\ \A s \in 0 .. NextSeq(r) : Off(r1, s) = Off(r, s)
  BY DEF NextSeq, Off
<1>4. Offsets(r1)
  BY <1>3 DEF QueueOK, Counted, Offsets
<1>5. \A i, j \in 0 .. NextSeq(r) : i <= j => Off(r, i) <= Off(r, j)
  BY DEF QueueOK, Counted, Offsets
<1>6. /\ r.bytes = Off(r, NextSeq(r)) - Off(r, r.first)
      /\ u = Off(r, NextSeq(r)) - Off(r, f)
      /\ v = Off(r, NextSeq(r)) - Off(r, g)
  BY <1>1 DEF QueueOK, Counted, BytesBetween
<1>7. Counted(r1, g, v)
  BY <1>1, <1>3, <1>4, <1>6 DEF Counted, BytesBetween
<1>8. /\ Counted(t, g, v)
      /\ t.off = r1.off /\ t.held = r1.held /\ t.hold = r1.hold
      /\ r1.first <= t.first
      /\ t.bytes - v = Off(r1, g) - Off(r1, t.first)
      /\ Off(r1, g) - Off(r1, t.first) <= (IF r1.held THEN 2 * Limit ELSE Limit)
      /\ \A s \in r1.first .. (t.first - 1) :
           /\ Off(r1, g) - Off(r1, s) > Limit
           /\ r1.held /\ r1.hold <= s => Off(r1, g) - Off(r1, s) > 2 * Limit
  BY <1>7, TrimFacts
<1>9. /\ NextSeq(t) = NextSeq(r)
      /\ \A s \in 0 .. NextSeq(r) : Off(t, s) = Off(r, s)
  BY <1>8 DEF NextSeq, Off
<1>10. t.first \in Nat /\ t.first <= g /\ t.bytes \in Int /\ g \in Nat
  BY <1>1, <1>8 DEF Counted, Offsets, Rings
<1>11. DroppedLate(t, g)
  <2> SUFFICES ASSUME NEW s \in 0 .. (t.first - 1)
               PROVE  /\ Off(t, g) - Off(t, s) > Limit
                      /\ t.held /\ t.hold <= s => Off(t, g) - Off(t, s) > 2 * Limit
    BY DEF DroppedLate
  <2>1. s \in 0 .. NextSeq(r) /\ Off(t, s) = Off(r, s) /\ Off(t, g) = Off(r, g)
    BY <1>1, <1>9, <1>10
  <2>2. CASE s >= r.first
    <3>1. s \in r1.first .. (t.first - 1)
      BY <1>1, <1>10, <2>2
    <3> QED
      BY <1>1, <1>3, <1>8, <1>10, <2>1, <3>1
  <2>3. CASE s < r.first
    <3>1. /\ Off(r, f) - Off(r, s) > Limit
          /\ r.held /\ r.hold <= s => Off(r, f) - Off(r, s) > 2 * Limit
      BY <1>1, <2>3 DEF QueueOK, DroppedLate
    <3>2. Off(r, f) <= Off(r, g)
      BY <1>1, <1>5
    <3>3. Off(r, f) \in Nat /\ Off(r, g) \in Nat /\ Off(r, s) \in Nat
      BY <1>1, <2>1
    <3>4. Off(t, g) - Off(t, s) > Limit
      BY <2>1, <3>1, <3>2, <3>3, Sizes
    <3>5. ASSUME t.held, t.hold <= s
          PROVE  Off(t, g) - Off(t, s) > 2 * Limit
      <4>1. r.held /\ r.hold <= s
        BY <1>1, <1>2, <1>8, <2>3, <3>5
      <4> QED
        BY <2>1, <3>1, <3>2, <3>3, <4>1, Sizes
    <3> QED
      BY <3>4, <3>5
  <2> QED
    BY <1>1, <2>2, <2>3
<1>12. t.bytes - v <= HoldLimit(t)
  BY <1>8 DEF HoldLimit
<1>13. v <= Limit + MaxFrame + (IF lp >= g THEN ProbeSize ELSE 0)
  <2>1. /\ Off(r, f) <= Off(r, g) /\ v <= u
        /\ Off(r, f) \in Nat /\ Off(r, g) \in Nat /\ Off(r, NextSeq(r)) \in Nat
    BY <1>1, <1>5, <1>6
  <2>2. u <= Limit + MaxFrame + (IF lp >= f THEN ProbeSize ELSE 0)
    BY DEF QueueOK
  <2>3. CASE lp >= g \/ lp < f
    BY <1>1, <2>1, <2>2, <2>3, Sizes
  <2>4. CASE f <= lp /\ lp < g
    <3>1. /\ Off(r, f) <= Off(r, lp) /\ Off(r, lp + 1) <= Off(r, g)
          /\ Off(r, lp) \in Nat /\ Off(r, lp + 1) \in Nat
      BY <1>1, <1>5, <2>4
    <3>2. Off(r, lp + 1) - Off(r, lp) = ProbeSize
      BY <1>1, <2>4 DEF QueueOK
    <3>3. v <= u - ProbeSize
      BY <1>6, <2>1, <3>1, <3>2, Sizes
    <3> QED
      BY <1>1, <1>6, <2>1, <2>2, <2>4, <3>3, Sizes
  <2> QED
    BY <1>1, <2>3, <2>4
<1>14. /\ lp \in Nat \cup {-1} /\ lp < NextSeq(t)
       /\ lp >= 0 => Off(t, lp + 1) - Off(t, lp) = ProbeSize
  BY <1>1, <1>9 DEF QueueOK
<1>15. \A s \in 0 .. (NextSeq(t) - 1) : Off(t, s + 1) - Off(t, s) <= MaxFrame
  BY <1>1, <1>9 DEF QueueOK
<1> QED
  BY <1>8, <1>9, <1>11, <1>12, <1>13, <1>14, <1>15 DEF QueueOK
-----------------------------------------------------------------------------
(***************************************************************************)
(* The invariant of the goroutines: who may move flushed, what the batch   *)
(* and the snapshot stand for while the lock is not held, and where the    *)
(* server can be.                                                          *)
(***************************************************************************)
BatchOK ==
  lw \in {"write", "commit"} =>
    /\ flushed + batch.sent <= next
    /\ batch.bytes = BytesBetween(ring, flushed, flushed + batch.sent)

(* The link writer and the recover exchange never run at the same time. *)
OneSender == lw # "off" => sup = "link"

SnapOK ==
  sup \in {"write", "exchange"} =>
    /\ flushed <= snap /\ snap <= next
    /\ ring.first <= from /\ from <= snap

FromOK ==
  sup \in {"snap", "write", "exchange"} =>
    from <= got /\ (ring.held => ring.hold <= from)

CatchupOK ==
  /\ sup \in {"snap", "write"} => catchup = -1
  /\ sup = "exchange" => catchup \in {-1, snap}

ServerOK ==
  /\ got <= next /\ wire <= next /\ catchup <= next
  /\ ring.held => ring.hold <= got
  /\ ring.held /\ catchup # -1 => ring.hold <= catchup

WantOK == \A w \in Writers : want[w] <= MaxFrame

QueueInv == QueueOK(ring, flushed, unsent, lastProbe)

Inv ==
  /\ TypeOK /\ QueueInv /\ WantOK /\ NeverCorrupt
  /\ BatchOK /\ OneSender /\ SnapOK /\ FromOK /\ CatchupOK /\ ServerOK

(* The initial state of a Conn satisfies the invariant. *)
LEMMA InitInv == Init => Inv
<1> SUFFICES ASSUME Init PROVE Inv
  OBVIOUS
<1>1. ring \in Rings /\ ring.first = 0 /\ ring.off = <<0>> /\ ring.bytes = 0 /\ ring.hold = 0
  <2>1. EmptyRing \in Rings
    BY DEF EmptyRing, Rings
  <2>2. ring = EmptyRing \/ ring = [EmptyRing EXCEPT !.held = TRUE]
    BY DEF Init
  <2>3. ring \in Rings
    BY <2>1, <2>2, Zenon DEF Rings
  <2> QED
    BY <2>2, <2>3 DEF EmptyRing
<1>2. next = 0 /\ NextSeq(ring) = 0 /\ Off(ring, 0) = 0
  BY <1>1 DEF next, NextSeq, Off
<1>3. TypeOK
  <2>1. space \in BOOLEAN
    BY <1>1 DEF Init, Rings
  <2>2. /\ pc \in [Writers -> {"idle", "lock", "wait", "wake", "wake+space", "space"}]
        /\ want \in [Writers -> Nat]
    BY DEF Init
  <2>3. batch \in [sent : Nat, bytes : Nat]
    BY DEF Init, NoBatch
  <2>4. flushed \in Nat /\ unsent \in Int /\ lastProbe \in Nat \cup {-1}
    BY DEF Init
  <2> QED
    BY <1>1, <2>1, <2>2, <2>3, <2>4 DEF Init, TypeOK
<1>4. Offsets(ring)
  BY <1>1, <1>2 DEF Offsets
<1>5. QueueInv
  BY <1>1, <1>2, <1>4, Sizes
  DEF Init, QueueInv, QueueOK, Counted, BytesBetween, DroppedLate, HoldLimit
<1>6. WantOK /\ NeverCorrupt
  BY Sizes DEF Init, WantOK, NeverCorrupt
<1>7. BatchOK /\ OneSender /\ SnapOK /\ FromOK /\ CatchupOK /\ ServerOK
  BY <1>1, <1>2 DEF Init, BatchOK, OneSender, SnapOK, FromOK, CatchupOK, ServerOK
<1> QED
  BY <1>3, <1>5, <1>6, <1>7 DEF Inv

(***************************************************************************)
(* Steps that leave alone what the invariant relates.                      *)
(***************************************************************************)
LEMMA QueueFrame ==
  ASSUME Inv, UNCHANGED queue
  PROVE  QueueInv'
BY DEF Inv, QueueInv, queue

(* A step that leaves the queue, the link writer, the recovery and the server alone. *)
LEMMA ControlFrame ==
  ASSUME Inv, UNCHANGED queue, UNCHANGED <<lw, batch>>,
         UNCHANGED recovery, UNCHANGED server
  PROVE  /\ QueueInv'
         /\ BatchOK' /\ OneSender' /\ SnapOK' /\ FromOK' /\ CatchupOK' /\ ServerOK'
<1>1. QueueInv'
  BY QueueFrame
<1>2. BatchOK' /\ OneSender' /\ SnapOK' /\ FromOK' /\ CatchupOK' /\ ServerOK'
  BY DEF Inv, queue, recovery, server, next, BatchOK, OneSender, SnapOK, FromOK,
         CatchupOK, ServerOK
<1> QED
  BY <1>1, <1>2

(* The steps of a caller that do not queue a packet. *)
LEMMA CallerStep ==
  ASSUME Inv, NEW w \in Writers,
         \/ WriteCall(w) \/ WriteRefused(w) \/ WriteBlocks(w) \/ WriteSignalWake(w)
         \/ WriteSignalSpace(w) \/ WriteWoken(w) \/ WriteCancelled(w)
  PROVE  Inv'
<1> USE DEF WriteCall, WriteRefused, WriteBlocks, WriteSignalWake, WriteSignalSpace,
            WriteWoken, WriteCancelled, Returns
<1>1. /\ UNCHANGED queue /\ UNCHANGED linkState /\ UNCHANGED recovery
      /\ UNCHANGED server /\ UNCHANGED status
  OBVIOUS
<1>2. /\ QueueInv'
      /\ BatchOK' /\ OneSender' /\ SnapOK' /\ FromOK' /\ CatchupOK' /\ ServerOK'
  BY <1>1, ControlFrame DEF linkState
<1>3. want' \in [Writers -> Nat] /\ WantOK'
  <2>1. \A n \in Payloads : Accepts(n) => SealedSize(n) \in Nat /\ SealedSize(n) <= MaxFrame
    BY SizeAssumption DEF Accepts, SealedSize, maxPayload
  <2>2. want \in [Writers -> Nat] /\ WantOK /\ MaxFrame \in Nat
    BY Sizes DEF Inv, TypeOK
  <2>3. CASE WriteCall(w)
    BY <2>1, <2>2, <2>3 DEF WantOK
  <2>4. CASE want' = want \/ want' = [want EXCEPT ![w] = 0]
    BY <2>2, <2>4 DEF WantOK
  <2> QED
    BY <2>3, <2>4
<1>4. /\ pc' \in [Writers -> {"idle", "lock", "wait", "wake", "wake+space", "space"}]
      /\ wake' \in BOOLEAN /\ space' \in BOOLEAN
  BY DEF Inv, TypeOK, channels
<1>5. TypeOK'
  BY <1>1, <1>3, <1>4 DEF Inv, TypeOK, queue, linkState, recovery, server
<1>6. NeverCorrupt'
  BY <1>1 DEF Inv, NeverCorrupt
<1> QED
  BY <1>2, <1>3, <1>5, <1>6 DEF Inv

(* A packet is sealed and nothing else moves. *)
LEMMA EnqueueFrame ==
  ASSUME Inv, NEW n \in 0 .. MaxFrame, Enqueue(n), flushed' = flushed,
         \/ lastProbe' = lastProbe /\ Room(unsent)
         \/ lastProbe' = next /\ lastProbe < flushed /\ n = ProbeSize,
         UNCHANGED <<lw, batch>>, UNCHANGED recovery, UNCHANGED server
  PROVE  /\ QueueInv' /\ ring' \in Rings /\ unsent' \in Int /\ lastProbe' \in Nat \cup {-1}
         /\ BatchOK' /\ OneSender' /\ SnapOK' /\ FromOK' /\ CatchupOK' /\ ServerOK'
<1>1. QueueOK(ring, flushed, unsent, lastProbe)
  BY DEF Inv, QueueInv
<1>2. QueueOK(ring', flushed', unsent', lastProbe')
  BY <1>1, EnqueueOK DEF Enqueue, Room, next
<1>3. /\ ring' \in Rings /\ unsent' \in Int /\ lastProbe' \in Nat \cup {-1}
  BY <1>2, QueueTypes DEF QueueOK
<1>4. /\ NextSeq(ring') = NextSeq(ring) + 1
      /\ \A s \in 0 .. NextSeq(ring) : Off(ring', s) = Off(ring, s)
      /\ ring'.first = ring.first /\ ring'.held = ring.held /\ ring'.hold = ring.hold
  <2>1. n \in Nat /\ Offsets(ring)
    BY <1>1, Sizes DEF QueueOK, Counted
  <2> QED
    BY <2>1, PushFacts DEF Enqueue
<1>5. /\ NextSeq(ring) \in Nat /\ flushed \in Nat /\ flushed <= NextSeq(ring)
  BY <1>1, QueueTypes
<1>6. BatchOK'
  <2> SUFFICES ASSUME lw \in {"write", "commit"}
               PROVE  /\ flushed + batch.sent <= NextSeq(ring')
                      /\ batch.bytes = BytesBetween(ring', flushed, flushed + batch.sent)
    BY DEF BatchOK, next
  <2>1. /\ flushed + batch.sent <= NextSeq(ring) /\ batch.sent \in Nat
        /\ batch.bytes = BytesBetween(ring, flushed, flushed + batch.sent)
    BY DEF Inv, BatchOK, TypeOK, next
  <2> QED
    BY <1>4, <1>5, <2>1 DEF BytesBetween
<1>7. SnapOK' /\ ServerOK'
  BY <1>4, <1>5 DEF Inv, TypeOK, SnapOK, ServerOK, next, recovery, server
<1>8. OneSender' /\ FromOK' /\ CatchupOK'
  BY <1>4 DEF Inv, OneSender, FromOK, CatchupOK, recovery, server
<1> QED
  BY <1>2, <1>3, <1>6, <1>7, <1>8 DEF QueueInv

(* WritePacket's second critical section queues a packet and trims. *)
LEMMA WriteEnqueueStep ==
  ASSUME Inv, NEW w \in Writers, WriteEnqueue(w)
  PROVE  Inv'
<1> USE DEF WriteEnqueue
<1>1. want[w] \in 0 .. MaxFrame
  BY Sizes DEF Inv, TypeOK, WantOK
<1>2. /\ UNCHANGED linkState /\ UNCHANGED recovery /\ UNCHANGED server
      /\ UNCHANGED status /\ UNCHANGED channels /\ UNCHANGED <<flushed, lastProbe>>
  OBVIOUS
<1>3. /\ QueueInv' /\ ring' \in Rings /\ unsent' \in Int /\ lastProbe' \in Nat \cup {-1}
      /\ BatchOK' /\ OneSender' /\ SnapOK' /\ FromOK' /\ CatchupOK' /\ ServerOK'
  BY <1>1, <1>2, EnqueueFrame DEF linkState
<1>4. want' \in [Writers -> Nat] /\ WantOK'
  BY Sizes DEF Inv, TypeOK, WantOK
<1>5. pc' \in [Writers -> {"idle", "lock", "wait", "wake", "wake+space", "space"}]
  BY DEF Inv, TypeOK
<1>6. TypeOK' /\ NeverCorrupt'
  BY <1>2, <1>3, <1>4, <1>5
  DEF Inv, TypeOK, NeverCorrupt, linkState, recovery, server, channels
<1> QED
  BY <1>3, <1>4, <1>6 DEF Inv

(* probeOnce queues a probe, which the limit on the backlog does not hold back. *)
LEMMA ProbeStep ==
  ASSUME Inv, Probe
  PROVE  Inv'
<1> USE DEF Probe
<1>1. ProbeSize \in 0 .. MaxFrame
  BY Sizes
<1>2. /\ UNCHANGED callers /\ UNCHANGED recovery /\ UNCHANGED server
      /\ UNCHANGED <<lw, batch, link>> /\ UNCHANGED status /\ UNCHANGED channels
      /\ UNCHANGED flushed /\ watcher' = "signal"
      /\ Enqueue(ProbeSize) /\ lastProbe' = next /\ lastProbe < flushed
  BY DEF ProbeAllowed, ProbeSize
<1>3. /\ QueueInv' /\ ring' \in Rings /\ unsent' \in Int /\ lastProbe' \in Nat \cup {-1}
      /\ BatchOK' /\ OneSender' /\ SnapOK' /\ FromOK' /\ CatchupOK' /\ ServerOK'
  BY <1>1, <1>2, EnqueueFrame
<1>4. TypeOK' /\ NeverCorrupt' /\ WantOK'
  BY <1>2, <1>3
  DEF Inv, TypeOK, NeverCorrupt, WantOK, callers, recovery, server, channels
<1> QED
  BY <1>3, <1>4 DEF Inv

(* The link's steps that leave the queue alone. *)
LEMMA LinkStep ==
  ASSUME Inv,
         \/ LinkTakesBatch \/ LinkFindsNothing \/ LinkWoken
         \/ LinkWriterStops \/ LinkWrites \/ LinkWriteFails \/ LinkSignalsSpace
         \/ ProbeSignals \/ LinkFails
  PROVE  Inv'
<1> USE DEF LinkTakesBatch, LinkFindsNothing, LinkWoken, LinkWriterStops, LinkWrites,
            LinkWriteFails, LinkSignalsSpace, ProbeSignals, LinkFails
<1>1. \A e \in (flushed + 1) .. next : Framable(e)
  <2> SUFFICES ASSUME NEW e \in (flushed + 1) .. next PROVE Framable(e)
    OBVIOUS
  <2>1. /\ NextSeq(ring) \in Nat /\ flushed \in Nat
        /\ \A s \in 0 .. (NextSeq(ring) - 1) : Off(ring, s + 1) - Off(ring, s) <= MaxFrame
    BY QueueTypes DEF Inv, QueueInv, QueueOK
  <2> QED
    BY <2>1 DEF Framable, BytesBetween, next
<1>2. /\ UNCHANGED queue /\ UNCHANGED callers /\ UNCHANGED recovery
      /\ UNCHANGED <<got, catchup>> /\ UNCHANGED status
  BY <1>1 DEF server
<1>3. QueueInv' /\ next' = next /\ ring' = ring /\ flushed' = flushed
  BY <1>2, QueueFrame DEF queue, next
<1>4. /\ NextSeq(ring) \in Nat /\ flushed \in Nat /\ flushed <= NextSeq(ring)
      /\ \A s \in 0 .. NextSeq(ring) : Off(ring, s) \in Nat
      /\ \A a, b \in 0 .. NextSeq(ring) : a <= b => Off(ring, a) <= Off(ring, b)
  BY QueueTypes DEF Inv, QueueInv, QueueOK, Counted, Offsets
<1>5. batch' \in [sent : Nat, bytes : Nat] /\ BatchOK'
  <2>1. CASE LinkTakesBatch
    <3>1. PICK e \in (flushed + 1) .. next :
            batch' = [sent |-> e - flushed, bytes |-> BytesBetween(ring, flushed, e)]
      BY <2>1
    <3>2. e \in 0 .. NextSeq(ring) /\ e - flushed \in Nat /\ flushed + (e - flushed) = e
      BY <1>4, <3>1 DEF next
    <3>3. BytesBetween(ring, flushed, e) \in Nat
      BY <1>4, <3>1, <3>2 DEF BytesBetween
    <3>4. /\ batch' \in [sent : Nat, bytes : Nat]
          /\ batch'.sent = e - flushed
          /\ batch'.bytes = BytesBetween(ring, flushed, e)
      BY <3>1, <3>2, <3>3
    <3> QED
      BY <1>3, <1>4, <3>1, <3>2, <3>4 DEF BatchOK, next
  <2>2. CASE batch' = batch /\ (lw' = lw \/ lw' \notin {"write", "commit"} \/ lw = "write")
    BY <1>3, <2>2 DEF Inv, TypeOK, BatchOK
  <2>3. CASE batch' = NoBatch /\ lw' = "off"
    BY <2>3 DEF NoBatch, BatchOK
  <2> QED
    BY <1>1, <2>1, <2>2, <2>3 DEF linkState
<1>6. wire' \in Nat /\ wire' <= next
  <2>1. CASE wire' = wire
    BY <2>1 DEF Inv, TypeOK, ServerOK
  <2>2. CASE lw = "write" /\ \E n \in 0 .. batch.sent : wire' = flushed + n
    <3>1. batch.sent \in Nat /\ flushed + batch.sent <= next
      BY <2>2 DEF Inv, TypeOK, BatchOK
    <3> QED
      BY <1>4, <2>2, <3>1 DEF next
  <2>3. batch.sent \in Nat /\ batch.sent \in 0 .. batch.sent
    BY DEF Inv, TypeOK
  <2> QED
    BY <1>1, <2>1, <2>2, <2>3 DEF server
<1>7. /\ wake' \in BOOLEAN /\ space' \in BOOLEAN /\ link' \in BOOLEAN
      /\ watcher' \in {"idle", "signal"}
      /\ lw' \in {"off", "lock", "wait", "write", "commit", "signal"}
  BY <1>1 DEF Inv, TypeOK, channels
<1>8. TypeOK'
  BY <1>2, <1>5, <1>6, <1>7 DEF Inv, TypeOK, queue, callers, recovery
<1>9. OneSender'
  BY <1>1, <1>2 DEF Inv, OneSender, recovery
<1>10. SnapOK' /\ FromOK' /\ CatchupOK' /\ ServerOK' /\ WantOK' /\ NeverCorrupt'
  BY <1>2, <1>3, <1>6
  DEF Inv, SnapOK, FromOK, CatchupOK, ServerOK, WantOK, NeverCorrupt, recovery, callers
<1> QED
  BY <1>3, <1>5, <1>8, <1>9, <1>10 DEF Inv

(***************************************************************************)
(* The three callers of trim.  Each one passes ReleaseOK the ring it       *)
(* trims, with the hold it sets, and how far it moves flushed.             *)
(***************************************************************************)
LEMMA LinkCommitsStep ==
  ASSUME Inv, LinkCommits
  PROVE  Inv'
<1> USE DEF LinkCommits
<1>1. /\ UNCHANGED lastProbe /\ UNCHANGED channels /\ UNCHANGED status /\ UNCHANGED callers
      /\ UNCHANGED <<watcher, link>> /\ UNCHANGED recovery /\ UNCHANGED server
      /\ batch' = NoBatch /\ lw' \in {"signal", "lock"} /\ lw = "commit"
  OBVIOUS
<1>2. QueueOK(ring, flushed, unsent, lastProbe)
  BY DEF Inv, QueueInv
<1>3. /\ flushed \in Nat /\ NextSeq(ring) \in Nat /\ ring \in Rings
  BY <1>2, QueueTypes
<1>4. /\ flushed + batch.sent \in flushed .. NextSeq(ring)
      /\ batch.bytes = BytesBetween(ring, flushed, flushed + batch.sent)
  BY <1>3 DEF Inv, TypeOK, BatchOK, next
<1>5. /\ flushed' = flushed + batch.sent
      /\ unsent' = unsent - BytesBetween(ring, flushed, flushed')
      /\ ring' = Trim(ring, flushed', unsent')
  BY <1>4 DEF Release
<1>6. /\ QueueOK(ring', flushed', unsent', lastProbe')
      /\ ring'.held = ring.held /\ ring'.hold = ring.hold
      /\ NextSeq(ring') = NextSeq(ring)
  BY <1>1, <1>2, <1>3, <1>4, <1>5, ReleaseOK
<1>7. /\ ring' \in Rings /\ flushed' \in Nat /\ unsent' \in Int
  BY <1>6, QueueTypes
<1>8. batch' \in [sent : Nat, bytes : Nat]
  BY <1>1 DEF NoBatch
<1>9. TypeOK' /\ WantOK' /\ NeverCorrupt'
  BY <1>1, <1>7, <1>8
  DEF Inv, TypeOK, WantOK, NeverCorrupt, channels, callers, recovery, server
<1>10. BatchOK' /\ OneSender'
  BY <1>1 DEF Inv, BatchOK, OneSender, recovery
<1>11. SnapOK' /\ FromOK' /\ CatchupOK'
  BY <1>1 DEF Inv, OneSender, SnapOK, FromOK, CatchupOK, recovery, server
<1>12. ServerOK'
  BY <1>1, <1>6 DEF Inv, ServerOK, server, next
<1> QED
  BY <1>6, <1>9, <1>10, <1>11, <1>12 DEF Inv, QueueInv

(* releaseHold trims what the hold of a catchup kept. *)
LEMMA ReleaseHoldStep ==
  ASSUME Inv, ReleaseHold
  PROVE  Inv'
<1> USE DEF ReleaseHold
<1> DEFINE r1 == [ring EXCEPT !.held = FALSE]
<1>1. /\ UNCHANGED lastProbe /\ UNCHANGED channels /\ UNCHANGED status /\ UNCHANGED callers
      /\ UNCHANGED linkState /\ UNCHANGED recovery /\ UNCHANGED server /\ sup = "link"
  OBVIOUS
<1>2. QueueOK(ring, flushed, unsent, lastProbe)
  BY DEF Inv, QueueInv
<1>3. /\ flushed \in Nat /\ NextSeq(ring) \in Nat /\ ring \in Rings /\ unsent \in Nat
      /\ Off(ring, flushed) \in Nat /\ flushed <= NextSeq(ring)
  BY <1>2, QueueTypes
<1>4. /\ r1 \in Rings /\ r1.off = ring.off /\ r1.first = ring.first
      /\ r1.bytes = ring.bytes /\ r1.hold = ring.hold /\ r1.held = FALSE
  <2>1. r1 \in Rings
    BY <1>3, RingWith
  <2> QED
    BY <1>3, <2>1 DEF Rings
<1>5. /\ flushed' = flushed /\ unsent' = unsent
      /\ unsent = unsent - BytesBetween(ring, flushed, flushed)
      /\ ring' = Trim(r1, flushed, unsent)
  BY <1>3 DEF Release, BytesBetween
<1> HIDE DEF r1
<1>6. /\ QueueOK(ring', flushed, unsent, lastProbe)
      /\ ring'.held = FALSE /\ ring'.off = ring.off
      /\ NextSeq(ring') = NextSeq(ring)
  <2>1. flushed \in flushed .. NextSeq(ring)
    BY <1>3
  <2> QED
    BY <1>2, <1>4, <1>5, <2>1, ReleaseOK
<1>7. ring' \in Rings
  BY <1>6, QueueTypes
<1>8. TypeOK' /\ WantOK' /\ NeverCorrupt'
  BY <1>1, <1>5, <1>7
  DEF Inv, TypeOK, WantOK, NeverCorrupt, channels, callers, linkState, recovery, server
<1>9. BatchOK'
  BY <1>1, <1>5, <1>6 DEF Inv, BatchOK, linkState, next, BytesBetween, Off
<1>10. OneSender' /\ SnapOK' /\ FromOK' /\ CatchupOK'
  BY <1>1 DEF Inv, OneSender, SnapOK, FromOK, CatchupOK, linkState, recovery, server
<1>11. ServerOK'
  BY <1>1, <1>6 DEF Inv, ServerOK, server, next
<1> QED
  BY <1>1, <1>5, <1>6, <1>8, <1>9, <1>10, <1>11 DEF Inv, QueueInv

(* recover's commit moves flushed past the catchup the server takes. *)
LEMMA RecoverCommitsStep ==
  ASSUME Inv, RecoverCommits
  PROVE  Inv'
<1> USE DEF RecoverCommits
<1> DEFINE r1 == [ring EXCEPT !.held = TRUE, !.hold = from]
<1>1. /\ UNCHANGED lastProbe /\ UNCHANGED channels /\ UNCHANGED status /\ UNCHANGED callers
      /\ UNCHANGED linkState /\ UNCHANGED server /\ sup = "exchange"
      /\ sup' \in {"signal", "ready"} /\ snap' = 0 /\ from' = 0
  OBVIOUS
<1>2. QueueOK(ring, flushed, unsent, lastProbe)
  BY DEF Inv, QueueInv
<1>3. flushed \in Nat /\ NextSeq(ring) \in Nat /\ ring \in Rings
  BY <1>2, QueueTypes
<1>4. /\ snap \in flushed .. NextSeq(ring) /\ from \in Nat /\ ring.first <= from
      /\ from <= snap /\ from <= got
  BY <1>1, <1>3 DEF Inv, TypeOK, SnapOK, FromOK, next
<1>5. /\ r1 \in Rings /\ r1.off = ring.off /\ r1.first = ring.first
      /\ r1.bytes = ring.bytes /\ r1.hold = from /\ r1.held = TRUE
  <2>1. r1 \in Rings
    BY <1>3, <1>4, RingWith
  <2> QED
    BY <1>3, <2>1 DEF Rings
<1>6. /\ flushed' = snap
      /\ unsent' = unsent - BytesBetween(ring, flushed, flushed')
      /\ ring' = Trim(r1, flushed', unsent')
  BY DEF Release
<1> HIDE DEF r1
<1>7. /\ QueueOK(ring', flushed', unsent', lastProbe)
      /\ ring'.hold = from /\ NextSeq(ring') = NextSeq(ring)
  BY <1>2, <1>4, <1>5, <1>6, ReleaseOK
<1>8. ring' \in Rings /\ flushed' \in Nat /\ unsent' \in Int
  BY <1>7, QueueTypes
<1>9. TypeOK' /\ WantOK' /\ NeverCorrupt'
  BY <1>1, <1>8
  DEF Inv, TypeOK, WantOK, NeverCorrupt, channels, callers, linkState, server
<1>10. lw = "off" /\ BatchOK' /\ OneSender' /\ SnapOK' /\ FromOK' /\ CatchupOK'
  BY <1>1 DEF Inv, BatchOK, OneSender, SnapOK, FromOK, CatchupOK, linkState
<1>11. ServerOK'
  BY <1>1, <1>4, <1>7 DEF Inv, ServerOK, CatchupOK, server, next
<1> QED
  BY <1>1, <1>7, <1>9, <1>10, <1>11 DEF Inv, QueueInv

(* The supervisor's steps that leave the queue alone, Close, the server. *)
LEMMA OtherStep ==
  ASSUME Inv,
         \/ LinkJoined \/ TakeOver \/ RecoverSnapshots \/ RecoverExceeded
         \/ RecoverWritesCatchup \/ RecoverFails \/ RecoverSignalsSpace
         \/ LinkStarts \/ LinkUnusable \/ RedialStops \/ RedialRejected \/ Close
         \/ ServerAccepts \/ ServerDecodesCatchup
  PROVE  Inv'
<1> USE DEF LinkJoined, TakeOver, RecoverSnapshots, RecoverExceeded,
            RecoverWritesCatchup, RecoverFails, RecoverSignalsSpace, LinkStarts,
            LinkUnusable, RedialStops, RedialRejected, Close, ServerAccepts,
            ServerDecodesCatchup
<1>1. UNCHANGED queue /\ UNCHANGED callers /\ UNCHANGED <<batch, watcher>>
  BY DEF linkState
<1>2. QueueInv' /\ next' = next /\ ring' = ring /\ flushed' = flushed
  BY <1>1, QueueFrame DEF queue, next
<1>3. /\ next \in Nat /\ flushed \in Nat /\ flushed <= next
      /\ ring.first \in Nat /\ ring.hold \in Nat
  BY QueueTypes DEF Inv, QueueInv, next
<1>4. /\ snap \in Nat /\ from \in Nat /\ got \in Nat /\ wire \in Nat
      /\ catchup \in Nat \cup {-1}
  BY DEF Inv, TypeOK
<1>5. /\ wake' \in BOOLEAN /\ space' \in BOOLEAN /\ link' \in BOOLEAN
      /\ status' \in {"open", "closed", "rejected", "exceeded"}
      /\ lw' \in {"off", "lock", "wait", "write", "commit", "signal"}
  BY DEF Inv, TypeOK, NeverCorrupt, channels, linkState
<1>6. /\ sup' \in {"link", "dial", "snap", "write", "exchange", "signal", "ready", "done"}
      /\ snap' \in Nat /\ from' \in Nat
      /\ got' \in Nat /\ wire' \in Nat /\ catchup' \in Nat \cup {-1}
  BY <1>3, <1>4 DEF Inv, TypeOK, recovery, server
<1>7. TypeOK' /\ WantOK' /\ NeverCorrupt'
  BY <1>1, <1>5, <1>6 DEF Inv, TypeOK, WantOK, NeverCorrupt, queue, callers
<1>8. BatchOK' /\ OneSender'
  BY <1>1, <1>2 DEF Inv, BatchOK, OneSender, linkState, recovery
<1>9. SnapOK'
  BY <1>2, <1>3, <1>4 DEF Inv, SnapOK, Replayable, Since, next, recovery
<1>10. FromOK' /\ CatchupOK'
  BY <1>2, <1>3, <1>4 DEF Inv, FromOK, CatchupOK, SnapOK, ServerOK, recovery, server
<1>11. ServerOK'
  BY <1>2, <1>3, <1>4 DEF Inv, ServerOK, SnapOK, FromOK, CatchupOK, server
<1> QED
  BY <1>2, <1>7, <1>8, <1>9, <1>10, <1>11 DEF Inv

(* One step per disjunct of Next. *)
LEMMA StepInv == Inv /\ [Next]_vars => Inv'
<1> SUFFICES ASSUME Inv, [Next]_vars PROVE Inv'
  OBVIOUS
<1>1. ASSUME NEW w \in Writers, WriteCall(w) \/ WriteStep(w) \/ WriteCancelled(w)
      PROVE  Inv'
  <2>1. CASE WriteEnqueue(w)
    BY <2>1, WriteEnqueueStep
  <2>2. CASE ~WriteEnqueue(w)
    BY <1>1, <2>2, CallerStep DEF WriteStep, WriteEnds
  <2> QED
    BY <2>1, <2>2
<1>2. CASE LinkWriterStep
  BY <1>2, LinkStep, LinkCommitsStep DEF LinkWriterStep
<1>3. CASE Probe
  BY <1>3, ProbeStep
<1>4. CASE ProbeSignals \/ LinkFails
  BY <1>4, LinkStep
<1>5. CASE ReleaseHold
  BY <1>5, ReleaseHoldStep
<1>6. CASE RecoverCommits
  BY <1>6, RecoverCommitsStep
<1>7. CASE \/ LinkJoined \/ TakeOver \/ RecoverSnapshots \/ RecoverExceeded
           \/ RecoverWritesCatchup \/ RecoverFails \/ RecoverSignalsSpace
           \/ LinkStarts \/ LinkUnusable \/ RedialStops \/ RedialRejected \/ Close
           \/ ServerAccepts \/ ServerDecodesCatchup
  BY <1>7, OtherStep
<1>8. CASE UNCHANGED vars
  <2>1. /\ UNCHANGED queue /\ UNCHANGED <<lw, batch>> /\ UNCHANGED recovery
        /\ UNCHANGED server
    BY <1>8 DEF vars, linkState
  <2>2. TypeOK' /\ WantOK' /\ NeverCorrupt'
    BY <1>8 DEF Inv, TypeOK, WantOK, NeverCorrupt, vars, queue, channels, callers,
                linkState, recovery, server
  <2> QED
    BY <2>1, <2>2, ControlFrame DEF Inv
<1> QED
  BY <1>1, <1>2, <1>3, <1>4, <1>5, <1>6, <1>7, <1>8 DEF Next

(* Inv is an invariant of the outbound half. *)
THEOREM Invariance == Spec => []Inv
<1>1. Init => Inv
  BY InitInv
<1>2. Inv /\ [Next]_vars => Inv'
  BY StepInv
<1> QED
  BY <1>1, <1>2, PTL DEF Spec
-----------------------------------------------------------------------------
(***************************************************************************)
(* Type correctness of the outbound half.                                  *)
(***************************************************************************)
THEOREM TypeCorrect == Spec => []TypeOK
<1>1. Inv => TypeOK
  BY DEF Inv
<1> QED
  BY <1>1, Invariance, PTL

(***************************************************************************)
(* ring.bytes, Conn.unsent and Conn.flushed always describe the entries,   *)
(* across WritePacket, probes, writeLoop, releaseHold and recover.         *)
(***************************************************************************)
THEOREM Accounting == Spec => []RingAccounting
<1>1. Inv => RingAccounting
  BY DEF Inv, QueueInv, QueueOK, Counted, RingAccounting, next
<1> QED
  BY <1>1, Invariance, PTL

(***************************************************************************)
(* The memory bound documented for ReplayLimit, for any number of callers, *)
(* any packet sizes and any sequence of reconnects.                        *)
(***************************************************************************)
THEOREM Bounded == Spec => []RingBounded
<1>1. Inv => RingBounded
  BY DEF Inv, QueueInv, QueueOK, RingBounded, HoldLimit, UnwrittenProbe, ProbeSize
<1> QED
  BY <1>1, Invariance, PTL

(***************************************************************************)
(* A redial finds what the server lacks unless more than ReplayLimit bytes *)
(* of it were written, twice that before the server has spoken again.      *)
(***************************************************************************)
THEOREM Resumption == Spec => []Resumable
<1>1. Inv => Resumable
  <2> SUFFICES ASSUME Inv PROVE Resumable
    OBVIOUS
  <2>1. got <= next /\ got \in Nat
    BY DEF Inv, ServerOK, TypeOK
  <2>2. ASSUME got < ring.first
        PROVE  BytesBetween(ring, got, flushed) > (IF ring.held THEN 2 * Limit ELSE Limit)
    <3>1. got \in 0 .. (ring.first - 1)
      BY <2>1, <2>2, QueueTypes DEF Inv, QueueInv
    <3>2. ring.held => ring.hold <= got
      BY DEF Inv, ServerOK
    <3>3. /\ Off(ring, flushed) - Off(ring, got) > Limit
          /\ ring.held => Off(ring, flushed) - Off(ring, got) > 2 * Limit
      BY <3>1, <3>2 DEF Inv, QueueInv, QueueOK, DroppedLate
    <3> QED
      BY <3>3 DEF BytesBetween
  <2> QED
    BY <2>1, <2>2 DEF Resumable
<1> QED
  BY <1>1, Invariance, PTL

(***************************************************************************)
(* writeLoop never meets an entry it cannot frame: maxPayload leaves room  *)
(* for what sealing adds.                                                  *)
(***************************************************************************)
THEOREM NoCorruption == Spec => []NeverCorrupt
<1>1. Inv => NeverCorrupt
  BY DEF Inv
<1> QED
  BY <1>1, Invariance, PTL
-----------------------------------------------------------------------------
(***************************************************************************)
(* No wakeup is lost.  Both invariants are inductive next to Inv: every    *)
(* step that makes room or takes the token leaves someone responsible.     *)
(***************************************************************************)
LEMMA NextSeqOfRelease ==
  ASSUME Inv, ReleaseHold
  PROVE  next' = next /\ flushed' = flushed
<1>1. ring \in Rings
  BY DEF Inv, TypeOK
<1>2. ring'.off = ring.off
  BY <1>1 DEF ReleaseHold, Release, Trim, Rings
<1> QED
  BY <1>2 DEF ReleaseHold, Release, next, NextSeq

(* Each step keeps the wakeup of a writer parked on c.space. *)
LEMMA SpaceStep == Inv /\ NoLostSpace /\ [Next]_vars => NoLostSpace'
<1> SUFFICES ASSUME Inv, NoLostSpace, [Next]_vars PROVE NoLostSpace'
  OBVIOUS
<1>1. pc \in [Writers -> {"idle", "lock", "wait", "wake", "wake+space", "space"}]
  BY DEF Inv, TypeOK
<1> USE DEF NoLostSpace, Open
<1>2. ASSUME NEW w \in Writers, WriteCall(w) \/ WriteStep(w) \/ WriteCancelled(w)
      PROVE  NoLostSpace'
  <2>1. CASE WriteEnqueue(w)
    BY <1>1, <2>1 DEF WriteEnqueue
  <2>2. CASE WriteCall(w)
    BY <1>1, <2>2 DEF WriteCall, queue, channels, linkState, recovery
  <2>3. CASE WriteRefused(w)
    BY <1>1, <2>3 DEF WriteRefused
  <2>4. CASE WriteBlocks(w)
    BY <1>1, <2>4 DEF WriteBlocks, queue
  <2>5. CASE WriteSignalWake(w)
    BY <1>1, <2>5 DEF WriteSignalWake, queue, linkState, recovery
  <2>6. CASE WriteSignalSpace(w)
    BY <2>6 DEF WriteSignalSpace
  <2>7. CASE WriteWoken(w)
    BY <1>1, <2>7 DEF WriteWoken
  <2>8. CASE WriteCancelled(w)
    BY <1>1, <2>8 DEF WriteCancelled, Returns, queue, channels, linkState, recovery
  <2> QED
    BY <1>2, <2>1, <2>2, <2>3, <2>4, <2>5, <2>6, <2>7, <2>8 DEF WriteStep, WriteEnds
<1>3. CASE LinkCommits
  BY <1>3 DEF LinkCommits
<1>4. CASE LinkSignalsSpace \/ RecoverSignalsSpace
  BY <1>4 DEF LinkSignalsSpace, RecoverSignalsSpace
<1>5. CASE RecoverCommits
  BY <1>5 DEF RecoverCommits
<1>6. CASE Probe
  <2>1. unsent' >= unsent
    BY <1>6, Sizes DEF Probe, Enqueue, ProbeSize, Inv, TypeOK
  <2>2. Room(unsent') => Room(unsent)
    BY <2>1, <1>6, Sizes DEF Room, Inv, TypeOK, Probe, Enqueue, ProbeSize
  <2> QED
    BY <1>6, <2>2 DEF Probe, channels, callers, recovery
<1>7. CASE \/ LinkTakesBatch \/ LinkFindsNothing \/ LinkWoken \/ LinkWriterStops
           \/ LinkWrites \/ LinkWriteFails
           \/ ProbeSignals \/ ReleaseHold \/ LinkFails
  BY <1>7 DEF LinkTakesBatch, LinkFindsNothing, LinkWoken, LinkWriterStops, LinkWrites,
              LinkWriteFails, ProbeSignals, ReleaseHold, Release,
              LinkFails, queue, channels, callers, linkState, recovery
<1>8. CASE \/ LinkJoined \/ TakeOver \/ RecoverSnapshots \/ RecoverExceeded
           \/ RecoverWritesCatchup \/ RecoverFails \/ LinkStarts \/ LinkUnusable
           \/ RedialStops \/ RedialRejected \/ Close
           \/ ServerAccepts \/ ServerDecodesCatchup \/ UNCHANGED vars
  <2>1. UNCHANGED <<unsent, space, pc>> /\ (lw = "signal" => lw' = "signal")
    BY <1>8 DEF LinkJoined, TakeOver, RecoverSnapshots, RecoverExceeded,
                RecoverWritesCatchup, RecoverFails, LinkStarts, LinkUnusable, RedialStops,
                RedialRejected, Close, ServerAccepts, ServerDecodesCatchup, vars,
                queue, channels, callers, linkState, recovery, Inv, OneSender
  <2>2. (sup = "signal" => sup' = "signal") /\ (status' = "open" => status = "open")
    BY <1>8 DEF LinkJoined, TakeOver, RecoverSnapshots, RecoverExceeded,
                RecoverWritesCatchup, RecoverFails, LinkStarts, LinkUnusable, RedialStops,
                RedialRejected, Close, ServerAccepts, ServerDecodesCatchup, vars, recovery
  <2> QED
    BY <2>1, <2>2
<1> QED
  BY <1>2, <1>3, <1>4, <1>5, <1>6, <1>7, <1>8 DEF Next, LinkWriterStep

(***************************************************************************)
(* A caller blocked in WritePacket is never left parked with room in the   *)
(* backlog and nobody to wake it.                                          *)
(***************************************************************************)
THEOREM SpaceNotLost == Spec => []NoLostSpace
<1>1. Init => NoLostSpace
  BY DEF Init, NoLostSpace
<1>2. Inv /\ NoLostSpace /\ [Next]_vars => NoLostSpace'
  BY SpaceStep
<1> QED
  BY <1>1, <1>2, Invariance, PTL DEF Spec

(* Each step keeps the wakeup of the link writer parked on c.wake. *)
LEMMA WakeStep == Inv /\ NoLostWake /\ [Next]_vars => NoLostWake'
<1> SUFFICES ASSUME Inv, NoLostWake, [Next]_vars PROVE NoLostWake'
  OBVIOUS
<1>1. pc \in [Writers -> {"idle", "lock", "wait", "wake", "wake+space", "space"}]
  BY DEF Inv, TypeOK
<1> USE DEF NoLostWake, next
<1>2. ASSUME NEW w \in Writers, WriteCall(w) \/ WriteStep(w) \/ WriteCancelled(w)
      PROVE  NoLostWake'
  <2>1. CASE WriteEnqueue(w)
    BY <1>1, <2>1 DEF WriteEnqueue
  <2>2. CASE WriteSignalWake(w)
    BY <2>2 DEF WriteSignalWake
  <2>3. CASE \/ WriteCall(w) \/ WriteRefused(w) \/ WriteBlocks(w) \/ WriteSignalSpace(w)
             \/ WriteWoken(w) \/ WriteCancelled(w)
    BY <1>1, <2>3 DEF WriteCall, WriteRefused, WriteBlocks, WriteSignalSpace, WriteWoken,
                      WriteCancelled, Returns, queue, channels, linkState
  <2> QED
    BY <1>2, <2>1, <2>2, <2>3 DEF WriteStep, WriteEnds
<1>3. CASE LinkFindsNothing
  BY <1>3, QueueTypes DEF LinkFindsNothing, queue, Inv, QueueInv
<1>4. CASE LinkWriterStep /\ ~LinkFindsNothing
  BY <1>4 DEF LinkWriterStep, LinkTakesBatch, LinkWoken, LinkWriterStops, LinkWrites,
              LinkWriteFails, LinkCommits, LinkSignalsSpace
<1>5. CASE Probe \/ ProbeSignals
  BY <1>5 DEF Probe, ProbeSignals
<1>6. CASE ReleaseHold
  BY <1>6, NextSeqOfRelease DEF ReleaseHold, linkState, channels, callers
<1>7. CASE RecoverCommits
  BY <1>7 DEF RecoverCommits, linkState, Inv, OneSender
<1>8. CASE \/ LinkFails \/ LinkJoined \/ TakeOver \/ RecoverSnapshots \/ RecoverExceeded
           \/ RecoverWritesCatchup \/ RecoverFails \/ RecoverSignalsSpace \/ LinkStarts
           \/ LinkUnusable \/ RedialStops \/ RedialRejected \/ Close
           \/ ServerAccepts \/ ServerDecodesCatchup \/ UNCHANGED vars
  BY <1>8 DEF LinkFails, LinkJoined, TakeOver, RecoverSnapshots, RecoverExceeded,
              RecoverWritesCatchup, RecoverFails, RecoverSignalsSpace, LinkStarts,
              LinkUnusable, RedialStops, RedialRejected, Close, ServerAccepts,
              ServerDecodesCatchup, vars, queue, channels, callers, linkState
<1> QED
  BY <1>2, <1>3, <1>4, <1>5, <1>6, <1>7, <1>8 DEF Next

(***************************************************************************)
(* The link writer never sleeps on c.wake with packets to send and nobody  *)
(* about to wake it.                                                       *)
(***************************************************************************)
THEOREM WakeNotLost == Spec => []NoLostWake
<1>1. Init => NoLostWake
  BY DEF Init, NoLostWake
<1>2. Inv /\ NoLostWake /\ [Next]_vars => NoLostWake'
  BY WakeStep
<1> QED
  BY <1>1, <1>2, Invariance, PTL DEF Spec
=============================================================================
