----------------------------- MODULE CodecsProofs -----------------------------
(***************************************************************************)
(* Proofs about the conversions: each, fed its input in pieces of any      *)
(* length, follows the rule for the input as a whole. First come rules for *)
(* induction and recursion that take sets and functions, then lemmas about *)
(* sequences, then one part for each conversion.                           *)
(***************************************************************************)
EXTENDS Codecs, SequenceTheorems, FiniteSetTheorems, WellFoundedInduction, TLAPS

-----------------------------------------------------------------------------
(***************************************************************************)
(* Induction and recursion, with sets and functions as parameters.         *)
(***************************************************************************)
(* A non-empty set of naturals has a least element. *)
LEMMA LeastNatural ==
  ASSUME NEW T \in SUBSET Nat, T # {}
  PROVE  \E m \in T : \A k \in T : m <= k
<1>1. \E m \in T : \A k \in T : ~(<<k, m>> \in OpToRel(<, Nat))
  BY NatLessThanWellFounded, WFMin
<1>2. ASSUME NEW k \in Nat, NEW m \in Nat, k < m
      PROVE  <<k, m>> \in OpToRel(<, Nat)
  BY <1>2 DEF OpToRel
<1>3. PICK m \in T : \A k \in T : ~(<<k, m>> \in OpToRel(<, Nat))
  BY <1>1
<1>4. \A k \in T : ~(k < m)
  BY <1>2, <1>3
<1>5. \A k \in T : m <= k
  BY <1>4
<1> QED
  BY <1>5

(* A set of naturals with 0 and every successor has them all. *)
LEMMA Induction ==
  ASSUME NEW S, 0 \in S, \A n \in Nat : n \in S => n + 1 \in S
  PROVE  \A n \in Nat : n \in S
<1> DEFINE T == {n \in Nat : n \notin S}
<1> SUFFICES ASSUME T # {} PROVE FALSE
  OBVIOUS
<1>1. T \in SUBSET Nat
  OBVIOUS
<1>2. PICK m \in T : \A k \in T : m <= k
  BY <1>1, LeastNatural
<1>3. m \in Nat /\ m # 0 /\ m - 1 \in Nat /\ ~(m <= m - 1) /\ (m - 1) + 1 = m
  OBVIOUS
<1>4. m - 1 \in S
  BY <1>2, <1>3
<1> QED
  BY <1>2, <1>3, <1>4

(* The same up to n. *)
LEMMA InductionTo ==
  ASSUME NEW n \in Nat, NEW S, 0 \in S, \A i \in 0 .. n - 1 : i \in S => i + 1 \in S
  PROVE  \A i \in 0 .. n : i \in S
<1> DEFINE T == {i \in Nat : i <= n => i \in S}
<1>1. 0 \in T
  OBVIOUS
<1>2. \A i \in Nat : i \in T => i + 1 \in T
  OBVIOUS
<1> HIDE DEF T
<1>3. \A i \in Nat : i \in T
  BY <1>1, <1>2, Induction
<1> QED
  BY <1>3 DEF T

(* The function g is given by its value at 0 and by a step. *)
Iterates(g, n, D, f0, step) ==
  g \in [0 .. n -> D] /\ g[0] = f0 /\ \A i \in 1 .. n : g[i] = step[<<g[i - 1], i>>]

(* There is such a function. *)
LEMMA Recursion ==
  ASSUME NEW n \in Nat, NEW D, NEW f0 \in D, NEW step,
         \A y \in D, i \in 1 .. n : step[<<y, i>>] \in D
  PROVE  \E g : Iterates(g, n, D, f0, step)
<1> DEFINE P(m, g) == g[0] = f0 /\ \A i \in 1 .. m : g[i] = step[<<g[i - 1], i>>]
           S == {m \in 0 .. n : \E g \in [0 .. m -> D] : P(m, g)}
<1>1. 0 \in S
  <2>1. [i \in 0 .. 0 |-> f0] \in [0 .. 0 -> D] /\ P(0, [i \in 0 .. 0 |-> f0])
    OBVIOUS
  <2>2. 0 \in 0 .. n
    OBVIOUS
  <2> HIDE DEF P
  <2> QED
    BY <2>1, <2>2
<1>2. ASSUME NEW m \in 0 .. n - 1, m \in S
      PROVE  m + 1 \in S
  <2>1. PICK g \in [0 .. m -> D] : P(m, g)
    BY <1>2
  <2> DEFINE h == [i \in 0 .. m + 1 |-> IF i <= m THEN g[i] ELSE step[<<g[m], m + 1>>]]
  <2>2. m \in Nat /\ m + 1 \in 1 .. n /\ g[m] \in D
    OBVIOUS
  <2>3. step[<<g[m], m + 1>>] \in D
    BY <2>2
  <2>4. h \in [0 .. m + 1 -> D]
    BY <2>2, <2>3
  <2>5. h[0] = f0
    BY <2>1, <2>2
  <2>6. ASSUME NEW i \in 1 .. m + 1
        PROVE  h[i] = step[<<h[i - 1], i>>]
    <3>1. CASE i <= m
      <4>1. h[i] = g[i] /\ h[i - 1] = g[i - 1] /\ i \in 1 .. m
        BY <2>2, <3>1
      <4> QED
        BY <2>1, <4>1
    <3>2. CASE i = m + 1
      <4>1. h[i] = step[<<g[m], m + 1>>] /\ h[i - 1] = g[m]
        BY <2>2, <3>2
      <4> QED
        BY <3>2, <4>1
    <3> QED
      BY <2>2, <3>1, <3>2
  <2> HIDE DEF h
  <2>7. P(m + 1, h)
    BY <2>5, <2>6
  <2>8. m + 1 \in 0 .. n
    BY <2>2
  <2> HIDE DEF P
  <2> QED
    BY <2>4, <2>7, <2>8
<1> HIDE DEF S
<1>3. n \in S
  <2>1. \A i \in 0 .. n : i \in S
    BY <1>1, <1>2, InductionTo
  <2> QED
    BY <2>1
<1> QED
  BY <1>3 DEF S, Iterates
-----------------------------------------------------------------------------
(***************************************************************************)
(* FlattenSeq.                                                             *)
(***************************************************************************)
(* Of no sequences, and of one more. *)
LEMMA FlattenNone == FlattenSeq(<<>>) = <<>>
BY DEF FlattenSeq

(* What FlattenSeq computes: the sequences up to each one, joined. *)
LEMMA FlattenBy ==
  ASSUME NEW T, NEW s \in Seq(Seq(T)),
         NEW g, DOMAIN g = 0 .. Len(s), g[0] = <<>>,
         \A i \in 1 .. Len(s) : g[i] = g[i - 1] \o s[i]
  PROVE  FlattenSeq(s) = g[Len(s)] /\ \A i \in 0 .. Len(s) : g[i] \in Seq(T)
<1> DEFINE n == Len(s)
<1>0. n \in Nat
  OBVIOUS
<1>1. \A i \in 0 .. n : g[i] \in Seq(T)
  <2> DEFINE S == {i \in 0 .. n : g[i] \in Seq(T)}
  <2>1. 0 \in S
    <3>1. 0 \in 0 .. n /\ <<>> \in Seq(T)
      BY <1>0, EmptySeq
    <3> QED
      BY <3>1
  <2>2. ASSUME NEW i \in 0 .. n - 1, i \in S
        PROVE  i + 1 \in S
    <3>1. i + 1 \in 1 .. n /\ (i + 1) - 1 = i
      BY <1>0
    <3>2. g[i + 1] = g[i] \o s[i + 1] /\ g[i] \in Seq(T) /\ s[i + 1] \in Seq(T)
      BY <2>2, <3>1, ElementOfSeq
    <3> QED
      BY <1>0, <3>1, <3>2, ConcatProperties
  <2> HIDE DEF S, n
  <2>3. \A i \in 0 .. n : i \in S
    BY <1>0, <2>1, <2>2, InductionTo
  <2> QED
    BY <2>3 DEF S
<1>2. CASE n = 0
  <2>1. s = <<>>
    BY <1>2
  <2> QED
    BY <1>1, <1>2, <2>1 DEF FlattenSeq
<1>3. CASE n # 0
  <2> DEFINE Q(f) == f = [i \in 1 .. n |-> IF i = 1 THEN s[i] ELSE f[i - 1] \o s[i]]
             c == CHOOSE f : Q(f)
             h == [i \in 1 .. n |-> g[i]]
  <2>1. Q(h)
    <3>1. ASSUME NEW i \in 1 .. n, i # 1
          PROVE  h[i] = h[i - 1] \o s[i]
      <4>1. i - 1 \in 1 .. n
        BY <1>0, <3>1
      <4> QED
        BY <4>1
    <3>2. h[1] = s[1]
      <4>1. 1 \in 1 .. n /\ 1 - 1 = 0 /\ s[1] \in Seq(T)
        BY <1>0, <1>3
      <4>2. h[1] = <<>> \o s[1]
        BY <4>1
      <4> QED
        BY <4>1, <4>2, ConcatEmptySeq
    <3>3. \A i \in 1 .. n : h[i] = IF i = 1 THEN s[i] ELSE h[i - 1] \o s[i]
      BY <3>1, <3>2
    <3> QED
      BY <3>3
  <2>2. Q(c)
    <3> HIDE DEF Q, h
    <3> QED
      BY <2>1
  <2>3. \A i \in 1 .. n : c[i] = IF i = 1 THEN s[i] ELSE c[i - 1] \o s[i]
    BY <2>2
  <2>4. \A i \in 1 .. n : h[i] = IF i = 1 THEN s[i] ELSE h[i - 1] \o s[i]
    BY <2>1
  <2>5. FlattenSeq(s) = c[n]
    BY <1>3 DEF FlattenSeq
  <2> HIDE DEF c, Q
  <2>6. \A i \in 0 .. n : i # 0 => c[i] = g[i]
    <3> DEFINE S == {i \in 0 .. n : i # 0 => c[i] = g[i]}
    <3>1. 0 \in S
      BY <1>0
    <3>2. ASSUME NEW i \in 0 .. n - 1, i \in S
          PROVE  i + 1 \in S
      <4>1. i + 1 \in 1 .. n /\ (i + 1) - 1 = i /\ i \in Nat /\ i + 1 \in 0 .. n
        BY <1>0
      <4>2. CASE i = 0
        <5>1. 1 \in 1 .. n
          BY <4>1, <4>2
        <5>2. c[1] = s[1] /\ h[1] = s[1]
          BY <2>3, <2>4, <5>1
        <5> QED
          BY <4>1, <4>2, <5>1, <5>2
      <4>3. CASE i # 0
        <5>1. c[i + 1] = c[i] \o s[i + 1]
          <6>1. i + 1 # 1
            BY <4>1, <4>3
          <6>2. c[i + 1] = c[(i + 1) - 1] \o s[i + 1]
            BY <2>3, <4>1, <6>1
          <6> QED
            BY <4>1, <6>2
        <5> QED
          BY <3>2, <4>1, <4>3, <5>1
      <4> QED
        BY <4>2, <4>3
    <3> HIDE DEF S, n
    <3>3. \A i \in 0 .. n : i \in S
      BY <1>0, <3>1, <3>2, InductionTo
    <3> QED
      BY <3>3 DEF S
  <2> QED
    BY <1>0, <1>1, <1>3, <2>5, <2>6
<1> QED
  BY <1>2, <1>3

(* There is such a g. *)
LEMMA Joins ==
  ASSUME NEW T, NEW s \in Seq(Seq(T))
  PROVE  \E g \in [0 .. Len(s) -> Seq(T)] :
           g[0] = <<>> /\ \A i \in 1 .. Len(s) : g[i] = g[i - 1] \o s[i]
<1> DEFINE n == Len(s)
           step == [x \in Seq(T) \X (1 .. n) |-> x[1] \o s[x[2]]]
           none == <<>>
<1>1. n \in Nat /\ none \in Seq(T)
  OBVIOUS
<1>3. \A y \in Seq(T), i \in 1 .. n : step[<<y, i>>] = y \o s[i]
  OBVIOUS
<1>2. \A y \in Seq(T), i \in 1 .. n : step[<<y, i>>] \in Seq(T)
  BY <1>3, ElementOfSeq, ConcatProperties
<1> HIDE DEF step
<1>4. PICK g : Iterates(g, n, Seq(T), none, step)
  <2> HIDE DEF n, none
  <2> QED
    BY <1>1, <1>2, Recursion
<1>5. ASSUME NEW i \in 1 .. n PROVE g[i] = g[i - 1] \o s[i]
  <2>1. i - 1 \in 0 .. n
    BY <1>1
  <2> QED
    BY <1>3, <1>4, <2>1 DEF Iterates
<1> QED
  BY <1>4, <1>5 DEF Iterates

(* Joined sequences, with one more at the end. *)
LEMMA FlattenAppend ==
  ASSUME NEW T, NEW s \in Seq(Seq(T)), NEW e \in Seq(T)
  PROVE  /\ FlattenSeq(s) \in Seq(T)
         /\ FlattenSeq(Append(s, e)) = FlattenSeq(s) \o e
<1> DEFINE t == Append(s, e)
           n == Len(s)
<1>1. /\ t \in Seq(Seq(T)) /\ Len(t) = n + 1 /\ n \in Nat
      /\ \A i \in 1 .. n : t[i] = s[i]
      /\ t[n + 1] = e
  OBVIOUS
<1> HIDE DEF t, n
<1>2. PICK g \in [0 .. n + 1 -> Seq(T)] :
        g[0] = <<>> /\ \A i \in 1 .. n + 1 : g[i] = g[i - 1] \o t[i]
  <2>1. \E g \in [0 .. Len(t) -> Seq(T)] :
           g[0] = <<>> /\ \A i \in 1 .. Len(t) : g[i] = g[i - 1] \o t[i]
    BY <1>1, Joins
  <2> QED
    BY <1>1, <2>1
<1>3. FlattenSeq(t) = g[n + 1]
  BY <1>1, <1>2, FlattenBy
<1> DEFINE h == [i \in 0 .. n |-> g[i]]
<1>4. DOMAIN h = 0 .. Len(s) /\ h[0] = <<>> /\ h[n] = g[n]
  BY <1>1, <1>2 DEF n
<1>5. ASSUME NEW i \in 1 .. Len(s) PROVE h[i] = h[i - 1] \o s[i]
  <2>1. i \in 1 .. n + 1 /\ i \in 1 .. n /\ i - 1 \in 0 .. n
    BY <1>1 DEF n
  <2>2. g[i] = g[i - 1] \o t[i] /\ t[i] = s[i]
    BY <1>1, <1>2, <2>1
  <2>3. h[i] = g[i] /\ h[i - 1] = g[i - 1]
    BY <1>1, <2>1
  <2> HIDE DEF h
  <2> QED
    BY <2>2, <2>3
<1> HIDE DEF h
<1>6. FlattenSeq(s) = h[n] /\ h[n] \in Seq(T)
  <2>1. FlattenSeq(s) = h[Len(s)] /\ \A i \in 0 .. Len(s) : h[i] \in Seq(T)
    BY <1>4, <1>5, FlattenBy
  <2> QED
    BY <1>1, <2>1 DEF n
<1>7. n + 1 \in 1 .. n + 1 /\ (n + 1) - 1 = n
  BY <1>1
<1> QED
  BY <1>1, <1>2, <1>3, <1>4, <1>6, <1>7 DEF t

(* A part of a sequence. *)
LEMMA Cut ==
  ASSUME NEW S, NEW s \in Seq(S), NEW m \in 1 .. Len(s) + 1, NEW n \in m - 1 .. Len(s)
  PROVE  /\ SubSeq(s, m, n) \in Seq(S) /\ Len(SubSeq(s, m, n)) = n - m + 1
         /\ \A i \in 1 .. n - m + 1 : SubSeq(s, m, n)[i] = s[m + i - 1]
<1>1. \A i \in m .. n : s[i] \in S
  OBVIOUS
<1>2. m \in Int /\ n \in Int /\ m - 1 <= n
  OBVIOUS
<1> QED
  BY <1>1, <1>2, SubSeqProperties

(* A prefix of one. *)
LEMMA Start ==
  ASSUME NEW S, NEW s \in Seq(S), NEW n \in 0 .. Len(s)
  PROVE  /\ SubSeq(s, 1, n) \in Seq(S) /\ Len(SubSeq(s, 1, n)) = n
         /\ \A i \in 1 .. n : SubSeq(s, 1, n)[i] = s[i]
<1>1. 1 \in 1 .. Len(s) + 1 /\ n \in 1 - 1 .. Len(s) /\ n - 1 + 1 = n
  OBVIOUS
<1>2. \A i \in 1 .. n : 1 + i - 1 = i
  OBVIOUS
<1> QED
  BY <1>1, <1>2, Cut

(* The rest of one. *)
LEMMA Rest ==
  ASSUME NEW S, NEW s \in Seq(S), NEW m \in 1 .. Len(s) + 1
  PROVE  /\ From(s, m) \in Seq(S) /\ Len(From(s, m)) = Len(s) - m + 1
         /\ \A i \in 1 .. Len(s) - m + 1 : From(s, m)[i] = s[m + i - 1]
<1>1. Len(s) \in m - 1 .. Len(s)
  OBVIOUS
<1> QED
  BY <1>1, Cut DEF From

(* A sequence and its elements but the last. *)
LEMMA FrontAndLast ==
  ASSUME NEW S, NEW t \in Seq(S), NEW s \in Seq(S), Len(t) = Len(s) + 1,
         \A i \in 1 .. Len(s) : t[i] = s[i]
  PROVE  t = Append(s, t[Len(t)])
<1> DEFINE e == t[Len(t)]
           a == Append(s, e)
<1>1. Len(s) \in Nat /\ Len(t) \in 1 .. Len(t)
  OBVIOUS
<1>2. e \in S
  BY <1>1, ElementOfSeq
<1>3. /\ a \in Seq(S) /\ Len(a) = Len(s) + 1 /\ a[Len(s) + 1] = e
      /\ \A i \in 1 .. Len(s) : a[i] = s[i]
  BY <1>2, AppendProperties
<1>4. \A i \in 1 .. Len(t) : t[i] = a[i]
  BY <1>1, <1>3
<1> HIDE DEF a, e
<1>5. t = a
  BY <1>3, <1>4, SeqEqual
<1> QED
  BY <1>5 DEF a, e

(* The same, of a sequence that is one longer. *)
LEMMA FlattenGrow ==
  ASSUME NEW T, NEW s \in Seq(Seq(T)), NEW t \in Seq(Seq(T)), Len(t) = Len(s) + 1,
         \A i \in 1 .. Len(s) : t[i] = s[i]
  PROVE  /\ FlattenSeq(s) \in Seq(T)
         /\ FlattenSeq(t) = FlattenSeq(s) \o t[Len(t)]
<1>1. t = Append(s, t[Len(t)])
  BY FrontAndLast
<1>2. t[Len(t)] \in Seq(T)
  <2>1. Len(t) \in 1 .. Len(t)
    OBVIOUS
  <2> QED
    BY <2>1, ElementOfSeq
<1>3. \A e \in Seq(T) : FlattenSeq(Append(s, e)) = FlattenSeq(s) \o e
  BY FlattenAppend
<1>4. FlattenSeq(Append(s, t[Len(t)])) = FlattenSeq(s) \o t[Len(t)]
  BY <1>2, <1>3
<1>5. FlattenSeq(s) \in Seq(T)
  BY <1>2, FlattenAppend
<1> QED
  BY <1>1, <1>4, <1>5

(* The last of s gave nothing and now gives something, and one more follows. *)
LEMMA FlattenRevise ==
  ASSUME NEW T, NEW s \in Seq(Seq(T)), NEW t \in Seq(Seq(T)), Len(s) > 0,
         Len(t) = Len(s) + 1, s[Len(s)] = <<>>,
         \A i \in 1 .. Len(s) - 1 : t[i] = s[i]
  PROVE  FlattenSeq(t) = (FlattenSeq(s) \o t[Len(s)]) \o t[Len(t)]
<1> DEFINE n == Len(s)
           f == SubSeq(s, 1, n - 1)
           u == SubSeq(t, 1, n)
<1>1. n \in Nat \ {0}
  OBVIOUS
<1>2. f \in Seq(Seq(T)) /\ Len(f) = n - 1 /\ \A i \in 1 .. n - 1 : f[i] = s[i]
  <2>1. n - 1 \in 0 .. Len(s)
    BY <1>1
  <2> QED
    BY <2>1, Start
<1>3. u \in Seq(Seq(T)) /\ Len(u) = n /\ \A i \in 1 .. n : u[i] = t[i]
  <2>1. n \in 0 .. Len(t)
    BY <1>1
  <2> QED
    BY <2>1, Start
<1> HIDE DEF f, u, n
<1>4. /\ FlattenSeq(f) \in Seq(T)
      /\ FlattenSeq(s) = FlattenSeq(f) \o s[n]
  <2>1. Len(s) = Len(f) + 1 /\ \A i \in 1 .. Len(f) : s[i] = f[i]
    BY <1>1, <1>2 DEF n
  <2> QED
    BY <1>2, <2>1, FlattenGrow DEF n
<1>5. FlattenSeq(s) = FlattenSeq(f)
  BY <1>4, ConcatEmptySeq DEF n
<1>6. FlattenSeq(u) = FlattenSeq(f) \o u[n]
  <2>1. Len(u) = Len(f) + 1
    BY <1>1, <1>2, <1>3
  <2>2. ASSUME NEW i \in 1 .. n - 1 PROVE u[i] = f[i]
    <3>1. i \in 1 .. n
      BY <1>1
    <3>2. t[i] = s[i]
      BY DEF n
    <3> QED
      BY <1>2, <1>3, <3>1, <3>2
  <2> QED
    BY <1>2, <1>3, <2>1, <2>2, FlattenGrow, ZenonT(30)
<1>7. FlattenSeq(t) = FlattenSeq(u) \o t[Len(t)]
  <2>1. Len(t) = Len(u) + 1 /\ \A i \in 1 .. Len(u) : t[i] = u[i]
    BY <1>1, <1>3 DEF n
  <2> QED
    BY <1>3, <2>1, FlattenGrow
<1>8. u[n] = t[n]
  <2>1. n \in 1 .. n
    BY <1>1
  <2> QED
    BY <1>3, <2>1
<1> QED
  BY <1>5, <1>6, <1>7, <1>8 DEF n

(* The elements of t after those of s give nothing. *)
LEMMA FlattenEmpties ==
  ASSUME NEW T, NEW s \in Seq(Seq(T)), NEW t \in Seq(Seq(T)), Len(s) <= Len(t),
         \A i \in 1 .. Len(s) : t[i] = s[i],
         \A i \in Len(s) + 1 .. Len(t) : t[i] = <<>>
  PROVE  FlattenSeq(t) = FlattenSeq(s)
<1> DEFINE n == Len(s)
           m == Len(t) - n
           P(k) == FlattenSeq(SubSeq(t, 1, n + k)) = FlattenSeq(s)
           S == {k \in 0 .. m : P(k)}
<1>1. n \in Nat /\ m \in Nat /\ n + m = Len(t)
  OBVIOUS
<1>2. ASSUME NEW k \in 0 .. m
      PROVE  /\ SubSeq(t, 1, n + k) \in Seq(Seq(T)) /\ Len(SubSeq(t, 1, n + k)) = n + k
             /\ \A i \in 1 .. n + k : SubSeq(t, 1, n + k)[i] = t[i]
  <2>1. n + k \in 0 .. Len(t)
    BY <1>1
  <2> QED
    BY <2>1, Start
<1>3. 0 \in S
  <2>1. /\ SubSeq(t, 1, n + 0) \in Seq(Seq(T)) /\ Len(SubSeq(t, 1, n + 0)) = n
        /\ \A i \in 1 .. n : SubSeq(t, 1, n + 0)[i] = t[i]
    BY <1>1, <1>2
  <2>2. SubSeq(t, 1, n + 0) = s
    BY <2>1, SeqEqual
  <2>3. 0 \in 0 .. m
    BY <1>1
  <2> QED
    BY <2>2, <2>3
<1>4. ASSUME NEW k \in 0 .. m - 1, k \in S
      PROVE  k + 1 \in S
  <2> DEFINE a == SubSeq(t, 1, n + k)
             b == SubSeq(t, 1, n + (k + 1))
  <2>1. k \in 0 .. m /\ k + 1 \in 0 .. m /\ n + (k + 1) \in Len(s) + 1 .. Len(t)
        /\ n + (k + 1) = (n + k) + 1 /\ n + k \in Nat
    BY <1>1
  <2>2. /\ a \in Seq(Seq(T)) /\ Len(a) = n + k /\ \A i \in 1 .. n + k : a[i] = t[i]
        /\ b \in Seq(Seq(T)) /\ Len(b) = (n + k) + 1
        /\ \A i \in 1 .. (n + k) + 1 : b[i] = t[i]
    BY <1>2, <2>1
  <2> HIDE DEF a, b, n, m
  <2>3. FlattenSeq(b) = FlattenSeq(a) \o b[Len(b)] /\ FlattenSeq(a) \in Seq(T)
    <3>1. Len(b) = Len(a) + 1
      BY <2>2
    <3>2. \A i \in 1 .. n + k : i \in 1 .. (n + k) + 1
      BY <2>1
    <3>3. \A i \in 1 .. Len(a) : b[i] = a[i]
      BY <2>2, <3>2
    <3> QED
      BY <2>2, <3>1, <3>3, FlattenGrow
  <2>4. b[Len(b)] = <<>>
    <3>1. (n + k) + 1 \in 1 .. (n + k) + 1
      BY <2>1
    <3> QED
      BY <2>1, <2>2, <3>1
  <2>5. FlattenSeq(a) = FlattenSeq(s)
    BY <1>4 DEF a
  <2>6. FlattenSeq(b) = FlattenSeq(s)
    BY <2>3, <2>4, <2>5, ConcatEmptySeq
  <2> QED
    BY <2>1, <2>6 DEF b
<1> HIDE DEF S
<1>5. m \in S
  <2>1. \A i \in 0 .. m : i \in S
    <3> HIDE DEF m
    <3> QED
      BY <1>1, <1>3, <1>4, InductionTo
  <2> QED
    BY <1>1, <2>1
<1>6. SubSeq(t, 1, Len(t)) = t
  BY SubSeqFull
<1> QED
  BY <1>1, <1>5, <1>6 DEF S

(* After those of s, t has one that gives e and others that give nothing. *)
AddsOne(s, t, e) ==
  /\ Len(s) < Len(t) /\ \A i \in 1 .. Len(s) : t[i] = s[i]
  /\ t[Len(s) + 1] = <<e>> /\ \A i \in Len(s) + 2 .. Len(t) : t[i] = <<>>

(* One more element joins the result. *)
LEMMA FlattenOne ==
  ASSUME NEW T, NEW s \in Seq(Seq(T)), NEW t \in Seq(Seq(T)), NEW e \in T, AddsOne(s, t, e)
  PROVE  FlattenSeq(t) = Append(FlattenSeq(s), e) /\ FlattenSeq(s) \in Seq(T)
<1> DEFINE u == Append(s, <<e>>)
<1>1. <<e>> \in Seq(T) /\ Len(s) \in Nat
  OBVIOUS
<1>2. /\ u \in Seq(Seq(T)) /\ Len(u) = Len(s) + 1 /\ u[Len(s) + 1] = <<e>>
      /\ \A i \in 1 .. Len(s) : u[i] = s[i]
  BY <1>1, AppendProperties
<1>3. FlattenSeq(u) = FlattenSeq(s) \o <<e>> /\ FlattenSeq(s) \in Seq(T)
  BY <1>1, FlattenAppend
<1> HIDE DEF u
<1>4. FlattenSeq(t) = FlattenSeq(u)
  <2>1. Len(u) <= Len(t)
    BY <1>1, <1>2 DEF AddsOne
  <2>3. ASSUME NEW i \in 1 .. Len(u) PROVE t[i] = u[i]
    <3>1. i \in 1 .. Len(s) \/ i = Len(s) + 1
      BY <1>1, <1>2
    <3> QED
      BY <1>2, <3>1 DEF AddsOne
  <2>2. \A i \in Len(u) + 1 .. Len(t) : t[i] = <<>>
    <3>1. Len(u) + 1 = Len(s) + 2
      BY <1>1, <1>2
    <3> QED
      BY <3>1 DEF AddsOne
  <2> QED
    BY <1>2, <2>1, <2>2, <2>3, FlattenEmpties
<1>5. Append(FlattenSeq(s), e) = FlattenSeq(s) \o <<e>>
  BY <1>3, AppendIsConcat
<1> QED
  BY <1>3, <1>4, <1>5

(* The input with one more element of a piece. *)
LEMMA PieceNext ==
  ASSUME NEW S, NEW xs \in Seq(S), NEW p \in Seq(S), NEW i \in 0 .. Len(p) - 1
  PROVE  /\ xs \o SubSeq(p, 1, i) \in Seq(S) /\ p[i + 1] \in S
         /\ xs \o SubSeq(p, 1, i + 1) = Append(xs \o SubSeq(p, 1, i), p[i + 1])
<1> DEFINE a == SubSeq(p, 1, i)
           b == SubSeq(p, 1, i + 1)
           e == p[i + 1]
           one == <<e>>
<1>1. i \in 0 .. Len(p) /\ i + 1 \in 0 .. Len(p) /\ i + 1 \in 1 .. Len(p) /\ i \in Nat
  OBVIOUS
<1>2. e \in S
  BY <1>1, ElementOfSeq
<1>3. /\ a \in Seq(S) /\ Len(a) = i /\ \A k \in 1 .. i : a[k] = p[k]
      /\ b \in Seq(S) /\ Len(b) = i + 1 /\ \A k \in 1 .. i + 1 : b[k] = p[k]
  BY <1>1, Start
<1>4. i + 1 \in 1 .. i + 1 /\ \A k \in 1 .. i : k \in 1 .. i + 1
  BY <1>1
<1> HIDE DEF a, b, e
<1>5. b = Append(a, b[Len(b)])
  BY <1>3, <1>4, FrontAndLast
<1>6. b = Append(a, e)
  BY <1>3, <1>4, <1>5 DEF e
<1>7. Append(a, e) = a \o one /\ one \in Seq(S)
  BY <1>2, <1>3, AppendIsConcat
<1>8. xs \o a \in Seq(S)
  BY <1>3, ConcatProperties
<1>9. Append(xs \o a, e) = (xs \o a) \o one
  BY <1>2, <1>8, AppendIsConcat
<1> HIDE DEF one
<1>10. (xs \o a) \o one = xs \o (a \o one)
  <2>1. a \in Seq(S) /\ one \in Seq(S)
    BY <1>3, <1>7
  <2> QED
    BY <2>1, ConcatAssociative, SMTT(30)
<1> QED
  BY <1>2, <1>6, <1>7, <1>8, <1>9, <1>10 DEF a, b, e

(* The input with none, and with all of them. *)
LEMMA PieceEnds ==
  ASSUME NEW S, NEW xs \in Seq(S), NEW p \in Seq(S)
  PROVE  xs \o SubSeq(p, 1, 0) = xs /\ xs \o SubSeq(p, 1, Len(p)) = xs \o p
<1>1. SubSeq(p, 1, 0) = <<>>
  BY SubSeqEmpty
<1> QED
  BY <1>1, SubSeqFull, ConcatEmptySeq

(* The rest of a rest. *)
LEMMA RestOfRest ==
  ASSUME NEW S, NEW xs \in Seq(S), NEW k \in 0 .. Len(xs), NEW w \in 0 .. Len(xs) - k
  PROVE  From(From(xs, k + 1), w + 1) = From(xs, (k + w) + 1)
<1> DEFINE p == From(xs, k + 1)
           x == From(p, w + 1)
           y == From(xs, (k + w) + 1)
<1>1. /\ k + 1 \in 1 .. Len(xs) + 1 /\ (k + w) + 1 \in 1 .. Len(xs) + 1
      /\ Len(xs) \in Nat /\ k \in Nat /\ w \in Nat
      /\ Len(xs) - (k + 1) + 1 = Len(xs) - k /\ Len(xs) - ((k + w) + 1) + 1 = Len(xs) - k - w
  OBVIOUS
<1>2. /\ p \in Seq(S) /\ Len(p) = Len(xs) - k
      /\ \A i \in 1 .. Len(xs) - k : p[i] = xs[k + 1 + i - 1]
  BY <1>1, Rest, ZenonT(30)
<1>3. /\ y \in Seq(S) /\ Len(y) = Len(xs) - k - w
      /\ \A i \in 1 .. Len(xs) - k - w : y[i] = xs[(k + w) + 1 + i - 1]
  BY <1>1, Rest
<1> HIDE DEF p, y
<1>4. w + 1 \in 1 .. Len(p) + 1 /\ Len(p) - (w + 1) + 1 = Len(xs) - k - w
  BY <1>1, <1>2
<1>5. /\ x \in Seq(S) /\ Len(x) = Len(xs) - k - w
      /\ \A i \in 1 .. Len(xs) - k - w : x[i] = p[w + 1 + i - 1]
  BY <1>2, <1>4, Rest, SMTT(30)
<1> HIDE DEF x
<1>6. ASSUME NEW i \in 1 .. Len(x) PROVE x[i] = y[i]
  <2>1. /\ i \in 1 .. Len(xs) - k - w /\ w + 1 + i - 1 \in 1 .. Len(xs) - k
        /\ k + 1 + (w + 1 + i - 1) - 1 = (k + w) + 1 + i - 1
    BY <1>1, <1>5
  <2>2. x[i] = p[w + 1 + i - 1]
    BY <1>5, <2>1
  <2>3. p[w + 1 + i - 1] = xs[k + 1 + (w + 1 + i - 1) - 1]
    BY <1>2, <2>1
  <2>4. y[i] = xs[(k + w) + 1 + i - 1]
    BY <1>3, <2>1
  <2> QED
    BY <2>1, <2>2, <2>3, <2>4
<1>7. x = y
  BY <1>3, <1>5, <1>6, SeqEqual
<1> QED
  BY <1>7 DEF p, x, y
-----------------------------------------------------------------------------
(***************************************************************************)
(* The keyboard filter.                                                    *)
(***************************************************************************)
EscapeStates ==
  [midLine : BOOLEAN, tilde : BOOLEAN, dst : Seq(KeyBytes), detached : BOOLEAN]

(* Where the escapes "~." of in are, and what each byte adds to the output. *)
Escapes(xs) == {i \in DOMAIN xs : Opens(xs, i) /\ Followed(xs, i, ".")}
Shown(xs) == [i \in DOMAIN xs |-> IF Kept(xs, i) THEN <<xs[i]>> ELSE <<>>]

(* The filter's state is a function of the input: what it remembers of the *)
(* last byte decides what the next one does.                               *)
EscapeOK(xs, f) ==
  /\ f \in EscapeStates
  /\ f.detached <=> Detach(xs) <= Len(xs)
  /\ ~f.detached => (f.tilde <=> xs # <<>> /\ Opens(xs, Len(xs)))
  /\ ~f.detached => (~f.tilde /\ ~f.midLine <=> xs = <<>> \/ xs[Len(xs)] \in Newlines)
  /\ f.dst = FlattenSeq(Shown(xs))

(* Detach is the first escape. *)
LEMMA DetachFacts ==
  ASSUME NEW xs \in Seq(KeyBytes)
  PROVE  /\ Escapes(xs) = {} => Detach(xs) = Len(xs) + 1
         /\ Escapes(xs) # {} => /\ Detach(xs) \in Escapes(xs)
                                /\ \A j \in Escapes(xs) : Detach(xs) <= j
                                /\ Detach(xs) < Len(xs)
<1>1. Escapes(xs) \in SUBSET Nat /\ \A j \in Escapes(xs) : j < Len(xs)
  BY DEF Escapes, Followed
<1>2. Detach(xs) = IF Escapes(xs) = {} THEN Len(xs) + 1
                   ELSE CHOOSE i \in Escapes(xs) : \A j \in Escapes(xs) : i <= j
  BY DEF Detach, Escapes
<1>3. CASE Escapes(xs) # {}
  <2>1. \E i \in Escapes(xs) : \A j \in Escapes(xs) : i <= j
    BY <1>1, <1>3, LeastNatural
  <2> QED
    BY <1>1, <1>2, <1>3, <2>1
<1> QED
  BY <1>2, <1>3

(* The properties of positions, as one more byte comes. *)
LEMMA OneMore ==
  ASSUME NEW xs \in Seq(KeyBytes), NEW b \in KeyBytes
  PROVE  LET a == Append(xs, b)  n == Len(xs) IN
         /\ a \in Seq(KeyBytes) /\ Len(a) = n + 1 /\ n \in Nat /\ a[n + 1] = b /\ a # <<>>
         /\ \A i \in 1 .. n : a[i] = xs[i]
         /\ \A i \in 1 .. n : Opens(a, i) <=> Opens(xs, i)
         /\ \A i \in 1 .. n, c \in KeyBytes :
              Followed(a, i, c) <=> Followed(xs, i, c) \/ (i = n /\ b = c)
         /\ Opens(a, n + 1) <=> b = "~" /\ (xs = <<>> \/ xs[n] \in Newlines)
         /\ \A c \in KeyBytes : ~Followed(a, n + 1, c)
         /\ \A i \in 1 .. n : Followed(xs, i, "~") => i < n
<1> DEFINE a == Append(xs, b)
           n == Len(xs)
<1>1. /\ a \in Seq(KeyBytes) /\ Len(a) = n + 1 /\ n \in Nat /\ a[n + 1] = b /\ a # <<>>
      /\ \A i \in 1 .. n : a[i] = xs[i]
  BY AppendProperties
<1>2. xs = <<>> <=> n = 0
  OBVIOUS
<1> HIDE DEF a, n
<1>3. ASSUME NEW i \in 1 .. n PROVE Opens(a, i) <=> Opens(xs, i)
  <2>1. a[i] = xs[i] /\ (i # 1 => a[i - 1] = xs[i - 1])
    BY <1>1
  <2> QED
    BY <2>1 DEF Opens
<1>4. ASSUME NEW i \in 1 .. n, NEW c \in KeyBytes
      PROVE  Followed(a, i, c) <=> Followed(xs, i, c) \/ (i = n /\ b = c)
  <2>1. CASE i < n
    <3>1. a[i + 1] = xs[i + 1] /\ i < Len(a)
      BY <1>1, <2>1
    <3> QED
      BY <1>1, <2>1, <3>1 DEF Followed, n
  <2>2. CASE i = n
    BY <1>1, <2>2 DEF Followed, n
  <2> QED
    BY <1>1, <2>1, <2>2
<1>5. Opens(a, n + 1) <=> b = "~" /\ (xs = <<>> \/ xs[n] \in Newlines)
  <2>1. n # 0 => a[(n + 1) - 1] = xs[n]
    BY <1>1
  <2>2. n + 1 = 1 <=> n = 0
    BY <1>1
  <2> QED
    BY <1>1, <1>2, <2>1, <2>2 DEF Opens
<1>6. \A c \in KeyBytes : ~Followed(a, n + 1, c)
  BY <1>1 DEF Followed
<1>7. \A i \in 1 .. n : Followed(xs, i, "~") => i < n
  BY DEF Followed, n
<1> QED
  BY <1>1, <1>3, <1>4, <1>5, <1>6, <1>7 DEF a, n

(* A sequence of what each byte shows. *)
LEMMA ShownType ==
  ASSUME NEW xs \in Seq(KeyBytes)
  PROVE  /\ Shown(xs) \in Seq(Seq(KeyBytes)) /\ Len(Shown(xs)) = Len(xs)
         /\ \A i \in 1 .. Len(xs) : Shown(xs)[i] = IF Kept(xs, i) THEN <<xs[i]>> ELSE <<>>
<1>1. DOMAIN xs = 1 .. Len(xs) /\ Len(xs) \in Nat
  OBVIOUS
<1>2. \A i \in 1 .. Len(xs) : (IF Kept(xs, i) THEN <<xs[i]>> ELSE <<>>) \in Seq(KeyBytes)
  OBVIOUS
<1> QED
  BY <1>1, <1>2 DEF Shown

(* Which bytes are kept, by whether the filter detached before. *)
LEMMA KeptAlready ==
  ASSUME NEW xs \in Seq(KeyBytes), NEW b \in KeyBytes, NEW i \in 1 .. Len(xs),
         i < Detach(Append(xs, b)) <=> i < Detach(xs),
         i = Len(xs) => ~Opens(xs, i)
  PROVE  Kept(Append(xs, b), i) <=> Kept(xs, i)
<1> DEFINE a == Append(xs, b)
           n == Len(xs)
<1>1. "~" \in KeyBytes
  BY DEF KeyBytes
<1>2. /\ Opens(a, i) <=> Opens(xs, i)
      /\ Followed(a, i, "~") <=> Followed(xs, i, "~") \/ (i = n /\ b = "~")
      /\ Len(a) = n + 1 /\ n \in Nat
  BY <1>1, OneMore
<1> HIDE DEF a, n
<1>3. i # Len(a)
  BY <1>2 DEF n
<1>4. Kept(a, i) <=> i < Detach(a) /\ ~(Opens(xs, i) /\ (Followed(xs, i, "~") \/ (i = n /\ b = "~")))
  BY <1>2, <1>3 DEF Kept
<1>5. Kept(xs, i) <=> i < Detach(xs) /\ ~(Opens(xs, i) /\ (i = n \/ Followed(xs, i, "~")))
  BY DEF Kept, n
<1> QED
  BY <1>4, <1>5 DEF a, n

(* The escapes, as one more byte comes. *)
LEMMA EscapesMore ==
  ASSUME NEW xs \in Seq(KeyBytes), NEW b \in KeyBytes
  PROVE  Escapes(Append(xs, b)) =
           Escapes(xs) \cup {i \in {Len(xs)} : i # 0 /\ Opens(xs, i) /\ b = "."}
<1> DEFINE a == Append(xs, b)
           n == Len(xs)
<1>1. "." \in KeyBytes
  BY DEF KeyBytes
<1>2. /\ Len(a) = n + 1 /\ n \in Nat /\ a \in Seq(KeyBytes)
      /\ \A i \in 1 .. n : Opens(a, i) <=> Opens(xs, i)
      /\ \A i \in 1 .. n : Followed(a, i, ".") <=> Followed(xs, i, ".") \/ (i = n /\ b = ".")
      /\ ~Followed(a, n + 1, ".")
  BY <1>1, OneMore
<1>3. DOMAIN a = 1 .. n + 1 /\ DOMAIN xs = 1 .. n
  BY <1>2
<1>4. ~Followed(xs, n, ".")
  BY DEF Followed
<1> HIDE DEF a, n
<1>5. ASSUME NEW i
      PROVE  i \in Escapes(a) <=>
               i \in Escapes(xs) \cup {j \in {n} : j # 0 /\ Opens(xs, j) /\ b = "."}
  <2>1. i \in Escapes(a) <=> i \in 1 .. n + 1 /\ Opens(a, i) /\ Followed(a, i, ".")
    BY <1>3 DEF Escapes
  <2>2. i \in Escapes(xs) <=> i \in 1 .. n /\ Opens(xs, i) /\ Followed(xs, i, ".")
    BY <1>3 DEF Escapes
  <2>3. CASE i \in 1 .. n
    BY <1>2, <1>4, <2>1, <2>2, <2>3
  <2>4. CASE i \notin 1 .. n
    <3>1. i \in 1 .. n + 1 => i = n + 1
      BY <1>2, <2>4
    <3>2. i = n => i = 0
      BY <1>2, <2>4
    <3> QED
      BY <1>2, <2>1, <2>2, <2>4, <3>1, <3>2
  <2> QED
    BY <2>3, <2>4
<1> QED
  BY <1>5 DEF a, n

(* The output, if the earlier bytes show what they showed. *)
LEMMA ShownMore ==
  ASSUME NEW xs \in Seq(KeyBytes), NEW b \in KeyBytes,
         \A i \in 1 .. Len(xs) : Kept(Append(xs, b), i) <=> Kept(xs, i)
  PROVE  /\ FlattenSeq(Shown(xs)) \in Seq(KeyBytes)
         /\ FlattenSeq(Shown(Append(xs, b))) =
              IF Kept(Append(xs, b), Len(xs) + 1) THEN Append(FlattenSeq(Shown(xs)), b)
              ELSE FlattenSeq(Shown(xs))
<1> DEFINE a == Append(xs, b)
           n == Len(xs)
           s == Shown(xs)
           t == Shown(a)
<1>1. /\ a \in Seq(KeyBytes) /\ Len(a) = n + 1 /\ n \in Nat /\ a[n + 1] = b
      /\ \A i \in 1 .. n : a[i] = xs[i]
  BY OneMore
<1>2. /\ s \in Seq(Seq(KeyBytes)) /\ Len(s) = n
      /\ \A i \in 1 .. n : s[i] = IF Kept(xs, i) THEN <<xs[i]>> ELSE <<>>
  BY ShownType
<1>3. /\ t \in Seq(Seq(KeyBytes)) /\ Len(t) = n + 1
      /\ \A i \in 1 .. n + 1 : t[i] = IF Kept(a, i) THEN <<a[i]>> ELSE <<>>
  <2> HIDE DEF a
  <2> QED
    BY <1>1, ShownType
<1>4. \A i \in 1 .. n : Kept(a, i) <=> Kept(xs, i)
  OBVIOUS
<1> HIDE DEF a, n, s, t
<1>5. \A i \in 1 .. n : t[i] = s[i]
  <2>1. \A i \in 1 .. n : i \in 1 .. n + 1
    BY <1>1
  <2> QED
    BY <1>1, <1>2, <1>3, <1>4, <2>1
<1>6. FlattenSeq(s) \in Seq(KeyBytes) /\ FlattenSeq(t) = FlattenSeq(s) \o t[n + 1]
  BY <1>2, <1>3, <1>5, FlattenGrow
<1>7. t[n + 1] = IF Kept(a, n + 1) THEN <<b>> ELSE <<>>
  <2>1. n + 1 \in 1 .. n + 1
    BY <1>1
  <2> QED
    BY <1>1, <1>3, <2>1
<1>8. Append(FlattenSeq(s), b) = FlattenSeq(s) \o <<b>>
  BY <1>6, AppendIsConcat
<1>9. FlattenSeq(s) \o <<>> = FlattenSeq(s)
  BY <1>6, ConcatEmptySeq
<1> QED
  BY <1>6, <1>7, <1>8, <1>9 DEF a, n, s, t

(* One round of the loop. *)
LEMMA EscapeRound ==
  ASSUME NEW xs \in Seq(KeyBytes), NEW b \in KeyBytes, NEW f, EscapeOK(xs, f)
  PROVE  EscapeOK(Append(xs, b), Round(f, b))
<1> DEFINE a == Append(xs, b)
           n == Len(xs)
           r == Round(f, b)
           d == FlattenSeq(Shown(xs))
<1>1. /\ a \in Seq(KeyBytes) /\ Len(a) = n + 1 /\ n \in Nat /\ a[n + 1] = b /\ a # <<>>
      /\ \A i \in 1 .. n : Opens(a, i) <=> Opens(xs, i)
      /\ Opens(a, n + 1) <=> b = "~" /\ (xs = <<>> \/ xs[n] \in Newlines)
      /\ \A c \in KeyBytes : ~Followed(a, n + 1, c)
  BY OneMore
<1>2. Escapes(a) = Escapes(xs) \cup {i \in {n} : i # 0 /\ Opens(xs, i) /\ b = "."}
  BY EscapesMore
<1>3. /\ Escapes(xs) = {} => Detach(xs) = n + 1
      /\ Escapes(xs) # {} => /\ Detach(xs) \in Escapes(xs) /\ Detach(xs) < n
                             /\ \A j \in Escapes(xs) : Detach(xs) <= j
  BY DetachFacts
<1>4. /\ Escapes(a) = {} => Detach(a) = n + 2
      /\ Escapes(a) # {} => /\ Detach(a) \in Escapes(a) /\ Detach(a) < n + 1
                            /\ \A j \in Escapes(a) : Detach(a) <= j
  <2> HIDE DEF a
  <2>1. Len(a) + 1 = n + 2
    BY <1>1
  <2> QED
    BY <1>1, <2>1, DetachFacts
<1>5. "~" \in KeyBytes /\ "." \in KeyBytes /\ "~" \notin Newlines /\ "." \notin Newlines
  BY DEF KeyBytes, Newlines
<1>6. xs = <<>> <=> n = 0
  OBVIOUS
<1>7. \A i \in Escapes(xs) : i \in 1 .. n
  BY DEF Escapes
<1>8. f \in EscapeStates /\ f.dst = d /\ (f.detached <=> Detach(xs) <= n)
  BY DEF EscapeOK
<1>9. ~f.detached => /\ f.tilde <=> n # 0 /\ Opens(xs, n)
                     /\ ~f.tilde /\ ~f.midLine <=> n = 0 \/ xs[n] \in Newlines
  BY <1>6 DEF EscapeOK
<1>10. Kept(a, n + 1) <=> n + 1 < Detach(a) /\ ~Opens(a, n + 1)
  <2>1. Len(a) = n + 1
    BY <1>1
  <2> QED
    BY <1>5, <1>1, <2>1 DEF Kept
<1>11. f.detached <=> Escapes(xs) # {}
  <2>1. Detach(xs) <= n <=> Escapes(xs) # {}
    BY <1>1, <1>3, <1>7
  <2> QED
    BY <1>8, <2>1
<1>12. /\ f.midLine \in BOOLEAN /\ f.tilde \in BOOLEAN /\ f.dst \in Seq(KeyBytes)
       /\ f.detached \in BOOLEAN
  BY <1>8 DEF EscapeStates
<1>20. CASE f.detached
  <2>1. r = f
    BY <1>20 DEF Round
  <2>2. Detach(a) = Detach(xs)
    <3>1. Detach(xs) \in Escapes(a) /\ \A j \in Escapes(a) : Detach(xs) <= j
      BY <1>1, <1>2, <1>3, <1>7, <1>11, <1>20
    <3>2. Detach(xs) \in Int /\ Detach(a) \in Int
      <4>1. Detach(a) \in Escapes(a) /\ Escapes(a) \subseteq Int
        BY <1>1, <1>2, <1>4, <1>7, <3>1
      <4> QED
        BY <3>1, <4>1
    <3>3. Detach(a) <= Detach(xs) /\ Detach(xs) <= Detach(a)
      BY <1>4, <3>1
    <3> QED
      BY <3>2, <3>3
  <2>3. Detach(xs) < n /\ Detach(xs) \in 1 .. n
    BY <1>3, <1>7, <1>11, <1>20
  <2>4. ASSUME NEW i \in 1 .. n PROVE Kept(a, i) <=> Kept(xs, i)
    <3>1. CASE i < n
      BY <2>2, <3>1, KeptAlready
    <3>2. CASE i = n
      BY <1>1, <2>2, <2>3, <3>2 DEF Kept
    <3> QED
      BY <1>1, <3>1, <3>2
  <2>5. FlattenSeq(Shown(a)) = d
    <3>1. ~Kept(a, n + 1)
      BY <1>1, <1>10, <2>2, <2>3
    <3> QED
      BY <2>4, <3>1, ShownMore
  <2>6. Detach(a) <= Len(a)
    BY <1>1, <2>2, <2>3
  <2> HIDE DEF a, r, d, n
  <2> QED
    BY <1>8, <1>20, <2>1, <2>5, <2>6 DEF EscapeOK, a, r
<1>21. CASE ~f.detached /\ f.tilde /\ b = "."
  <2>1. r = [f EXCEPT !.tilde = FALSE, !.detached = TRUE]
    BY <1>21 DEF Round
  <2>2. r \in EscapeStates /\ r.detached /\ r.dst = f.dst
    BY <1>8, <2>1 DEF EscapeStates
  <2>3. Detach(a) = n /\ n \in 1 .. n
    <3>1. n # 0 /\ Opens(xs, n) /\ Escapes(xs) = {}
      BY <1>9, <1>11, <1>21
    <3>2. Escapes(a) = {n}
      BY <1>2, <1>21, <3>1
    <3> QED
      BY <1>1, <1>4, <3>1, <3>2
  <2>4. Detach(xs) = n + 1 /\ Opens(xs, n)
    BY <1>3, <1>9, <1>11, <1>21
  <2>5. ASSUME NEW i \in 1 .. n PROVE Kept(a, i) <=> Kept(xs, i)
    <3>1. CASE i < n
      <4>1. i < Detach(a) /\ i < Detach(xs)
        BY <1>1, <2>3, <2>4, <3>1
      <4> QED
        BY <3>1, <4>1, KeptAlready
    <3>2. CASE i = n
      BY <1>1, <2>3, <2>4, <3>2 DEF Kept
    <3> QED
      BY <1>1, <3>1, <3>2
  <2>6. FlattenSeq(Shown(a)) = d
    <3>1. ~Kept(a, n + 1)
      BY <1>1, <1>10, <2>3
    <3> QED
      BY <2>5, <3>1, ShownMore
  <2>7. Detach(a) <= Len(a)
    BY <1>1, <2>3
  <2> HIDE DEF a, r, d, n
  <2> QED
    BY <1>8, <2>2, <2>6, <2>7 DEF EscapeOK, a, r
<1>22. CASE ~f.detached /\ ~f.tilde /\ ~f.midLine /\ b = "~"
  <2>1. r = [f EXCEPT !.tilde = TRUE]
    BY <1>22 DEF Round
  <2>2. r \in EscapeStates /\ ~r.detached /\ r.dst = f.dst /\ r.tilde
    BY <1>8, <1>22, <2>1 DEF EscapeStates
  <2>3. (n = 0 \/ xs[n] \in Newlines) /\ Opens(a, n + 1)
    BY <1>1, <1>6, <1>9, <1>22
  <2>4. Detach(a) = n + 2 /\ Detach(xs) = n + 1
    <3>1. Escapes(a) = {}
      BY <1>2, <1>5, <1>11, <1>22
    <3> QED
      BY <1>3, <1>4, <1>11, <1>22, <3>1
  <2>5. ASSUME NEW i \in 1 .. n PROVE Kept(a, i) <=> Kept(xs, i)
    <3>1. i < Detach(a) /\ i < Detach(xs)
      BY <1>1, <2>4
    <3>2. i = n => ~Opens(xs, i)
      BY <1>1, <1>5, <2>3 DEF Opens
    <3> QED
      BY <3>1, <3>2, KeptAlready
  <2>6. FlattenSeq(Shown(a)) = d
    <3>1. ~Kept(a, n + 1)
      BY <1>10, <2>3
    <3> QED
      BY <2>5, <3>1, ShownMore
  <2>7. ~(Detach(a) <= Len(a))
    BY <1>1, <2>4
  <2>8. Opens(a, Len(a)) /\ a[Len(a)] \notin Newlines
    <3>1. Len(a) = n + 1 /\ a[n + 1] = "~"
      BY <1>1, <1>22
    <3> QED
      BY <1>5, <2>3, <3>1
  <2> HIDE DEF a, r, d, n
  <2> QED
    BY <1>1, <1>8, <2>2, <2>6, <2>7, <2>8 DEF EscapeOK, a, r
<1>23. CASE ~(\/ f.detached
              \/ ~f.detached /\ f.tilde /\ b = "."
              \/ ~f.detached /\ ~f.tilde /\ ~f.midLine /\ b = "~")
  <2> DEFINE e == IF f.tilde /\ b # "~" THEN Append(d, "~") ELSE d
  <2>1. r = [f EXCEPT !.tilde = FALSE, !.midLine = b \notin Newlines, !.dst = e \o <<b>>]
    <3>1. <<b>> # <<"~">> <=> b # "~"
      OBVIOUS
    <3>2. r = Sends(f, <<b>>, b \notin Newlines)
      BY <1>23 DEF Round
    <3> QED
      BY <1>8, <3>1, <3>2 DEF Sends
  <2>2. e \in Seq(KeyBytes) /\ d \in Seq(KeyBytes)
    BY <1>5, <1>8, <1>12
  <2>3. e \o <<b>> = Append(e, b) /\ Append(e, b) \in Seq(KeyBytes)
    BY <2>2, AppendIsConcat, AppendProperties
  <2> HIDE DEF e
  <2>4. /\ r \in EscapeStates /\ ~r.detached /\ ~r.tilde /\ r.dst = Append(e, b)
        /\ ~r.midLine <=> b \in Newlines
    <3>1. (b \notin Newlines) \in BOOLEAN
      OBVIOUS
    <3> QED
      BY <1>8, <1>23, <2>1, <2>3, <3>1 DEF EscapeStates
  <2>5. ~Opens(a, n + 1)
    BY <1>1, <1>5, <1>6, <1>9, <1>23 DEF Opens
  <2>6. Detach(a) = n + 2 /\ Detach(xs) = n + 1
    <3>1. Escapes(a) = {}
      BY <1>2, <1>9, <1>11, <1>23
    <3> QED
      BY <1>3, <1>4, <1>11, <1>23, <3>1
  <2>7. Kept(a, n + 1)
    BY <1>1, <1>10, <2>5, <2>6
  <2>8. ASSUME NEW i \in 1 .. n, i # n PROVE Kept(a, i) <=> Kept(xs, i)
    <3>1. i < Detach(a) /\ i < Detach(xs)
      BY <1>1, <2>6
    <3> QED
      BY <2>8, <3>1, KeptAlready
  <2>9. FlattenSeq(Shown(a)) = Append(e, b)
    <3>1. CASE ~f.tilde
      <4>1. ASSUME NEW i \in 1 .. n PROVE Kept(a, i) <=> Kept(xs, i)
        <5>1. i < Detach(a) /\ i < Detach(xs)
          BY <1>1, <2>6
        <5>2. i = n => ~Opens(xs, i)
          BY <1>1, <1>9, <1>23, <3>1
        <5> QED
          BY <5>1, <5>2, KeptAlready
      <4>2. FlattenSeq(Shown(a)) = Append(d, b)
        BY <2>7, <4>1, ShownMore
      <4> QED
        BY <3>1, <4>2 DEF e
    <3>2. CASE f.tilde
      <4>1. n # 0 /\ n \in 1 .. n /\ Opens(xs, n) /\ xs[n] = "~"
        BY <1>1, <1>9, <1>23, <3>2 DEF Opens
      <4>2. ~Kept(xs, n)
        BY <4>1 DEF Kept
      <4>3. Kept(a, n) <=> b # "~"
        <5>1. /\ Followed(a, n, "~") <=> Followed(xs, n, "~") \/ (n = n /\ b = "~")
              /\ Opens(a, n) /\ n # Len(a) /\ n < Detach(a)
          BY <1>1, <1>5, <2>6, <4>1, OneMore
        <5>2. ~Followed(xs, n, "~")
          BY DEF Followed
        <5> QED
          BY <5>1, <5>2 DEF Kept
      <4>4. CASE b = "~"
        <5>1. ASSUME NEW i \in 1 .. n PROVE Kept(a, i) <=> Kept(xs, i)
          BY <2>8, <4>2, <4>3, <4>4
        <5>2. FlattenSeq(Shown(a)) = Append(d, b)
          BY <2>7, <5>1, ShownMore
        <5> QED
          BY <4>4, <5>2 DEF e
      <4>5. CASE b # "~"
        <5> DEFINE s == Shown(xs)
                   t == Shown(a)
        <5>1. /\ s \in Seq(Seq(KeyBytes)) /\ Len(s) = n
              /\ \A i \in 1 .. n : s[i] = IF Kept(xs, i) THEN <<xs[i]>> ELSE <<>>
          BY ShownType
        <5>2. /\ t \in Seq(Seq(KeyBytes)) /\ Len(t) = n + 1
              /\ \A i \in 1 .. n + 1 : t[i] = IF Kept(a, i) THEN <<a[i]>> ELSE <<>>
          <6> HIDE DEF a
          <6> QED
            BY <1>1, ShownType
        <5>3. \A i \in 1 .. n : a[i] = xs[i] /\ i \in 1 .. n + 1
          BY <1>1, OneMore
        <5> HIDE DEF s, t, a, n
        <5>4. \A i \in 1 .. n - 1 : t[i] = s[i]
          <6>1. \A i \in 1 .. n - 1 : i \in 1 .. n /\ i # n
            BY <1>1
          <6> QED
            BY <2>8, <5>1, <5>2, <5>3, <6>1
        <5>5. s[n] = <<>> /\ t[n] = <<"~">>
          BY <4>1, <4>2, <4>3, <4>5, <5>1, <5>2, <5>3
        <5>6. n + 1 \in 1 .. n + 1 /\ n > 0
          BY <1>1, <4>1
        <5>7. t[n + 1] = <<b>>
          BY <1>1, <2>7, <5>2, <5>6
        <5>8. FlattenSeq(t) = (FlattenSeq(s) \o <<"~">>) \o <<b>>
          <6>1. /\ Len(s) > 0 /\ Len(t) = Len(s) + 1 /\ s[Len(s)] = <<>>
                /\ \A i \in 1 .. Len(s) - 1 : t[i] = s[i]
                /\ t[Len(s)] = <<"~">> /\ t[Len(t)] = <<b>>
            BY <5>1, <5>2, <5>4, <5>5, <5>6, <5>7
          <6>2. FlattenSeq(t) = (FlattenSeq(s) \o t[Len(s)]) \o t[Len(t)]
            BY <5>1, <5>2, <6>1, FlattenRevise
          <6> QED
            BY <6>1, <6>2
        <5>9. e = d \o <<"~">>
          BY <1>5, <2>2, <3>2, <4>5, AppendIsConcat DEF e
        <5> QED
          BY <2>3, <5>8, <5>9 DEF s, t
      <4> QED
        BY <4>4, <4>5
    <3> QED
      BY <3>1, <3>2
  <2>10. ~(Detach(a) <= Len(a))
    BY <1>1, <2>6
  <2>11. ~Opens(a, Len(a)) /\ a[Len(a)] = b
    <3>1. Len(a) = n + 1 /\ a[n + 1] = b
      BY <1>1
    <3> QED
      BY <2>5, <3>1
  <2> HIDE DEF a, r, d, n
  <2> QED
    BY <1>1, <2>4, <2>9, <2>10, <2>11 DEF EscapeOK, a, r
<1> QED
  BY <1>20, <1>21, <1>22, <1>23

(* The loop of filter is a sequence of rounds. *)
LEMMA FilterRounds ==
  ASSUME NEW xs \in Seq(KeyBytes), NEW p \in Seq(KeyBytes), NEW f, EscapeOK(xs, f)
  PROVE  EscapeOK(xs \o p, filter(f, p))
<1> DEFINE n == Len(p)
           D == EscapeStates
           step == [x \in D \X (1 .. n) |-> Round(x[1], p[x[2]])]
<1>1. n \in Nat /\ f \in D
  BY DEF EscapeOK
<1>2. \A y \in D, i \in 1 .. n : step[<<y, i>>] = Round(y, p[i])
  OBVIOUS
<1>3. ASSUME NEW y \in D, NEW i \in 1 .. n PROVE step[<<y, i>>] \in D
  <2>1. p[i] \in KeyBytes /\ "~" \in KeyBytes
    BY ElementOfSeq DEF KeyBytes
  <2> DEFINE b == p[i]
             e == IF y.tilde /\ <<b>> # <<"~">> THEN Append(y.dst, "~") ELSE y.dst
  <2>2. y.dst \in Seq(KeyBytes) /\ e \in Seq(KeyBytes) /\ e \o <<b>> \in Seq(KeyBytes)
    BY <2>1 DEF EscapeStates
  <2>3. (b \notin Newlines) \in BOOLEAN
    OBVIOUS
  <2>4. Sends(y, <<b>>, b \notin Newlines) \in D
    <3>1. Sends(y, <<b>>, b \notin Newlines) =
            [y EXCEPT !.tilde = FALSE, !.midLine = b \notin Newlines, !.dst = e \o <<b>>]
      BY DEF Sends
    <3> HIDE DEF e, b
    <3> QED
      BY <2>2, <2>3, <3>1 DEF EscapeStates
  <2>5. /\ [y EXCEPT !.tilde = FALSE, !.detached = TRUE] \in D
        /\ [y EXCEPT !.tilde = TRUE] \in D
    BY DEF EscapeStates
  <2>6. Round(y, b) \in D
    <3> HIDE DEF b, D
    <3> QED
      BY <2>4, <2>5 DEF Round
  <2> QED
    BY <1>2, <2>6
<1> HIDE DEF step
<1>4. PICK g : Iterates(g, n, D, f, step)
  <2> HIDE DEF n, D
  <2> QED
    BY <1>1, <1>3, Recursion
<1> DEFINE P(h) == h = [i \in 0 .. Len(p) |-> IF i = 0 THEN f ELSE Round(h[i - 1], p[i])]
           c == CHOOSE h : P(h)
<1>5. P(g)
  <2>1. ASSUME NEW i \in 1 .. n PROVE g[i] = Round(g[i - 1], p[i])
    <3>1. i - 1 \in 0 .. n
      BY <1>1
    <3> QED
      BY <1>2, <1>4, <3>1 DEF Iterates
  <2>2. \A i \in 0 .. n : g[i] = IF i = 0 THEN f ELSE Round(g[i - 1], p[i])
    BY <1>1, <1>4, <2>1 DEF Iterates
  <2> QED
    BY <1>4, <2>2 DEF Iterates
<1>6. P(c)
  <2> HIDE DEF P
  <2> QED
    BY <1>5
<1>7. filter(f, p) = c[n]
  BY DEF filter, Loop
<1> HIDE DEF c
<1>8. \A i \in 0 .. n : c[i] = IF i = 0 THEN f ELSE Round(c[i - 1], p[i])
  BY <1>6
<1> HIDE DEF P
<1> DEFINE S == {i \in 0 .. n : EscapeOK(xs \o SubSeq(p, 1, i), c[i])}
<1>9. 0 \in S
  <2>1. 0 \in 0 .. n /\ c[0] = f
    BY <1>1, <1>8
  <2>2. xs \o SubSeq(p, 1, 0) = xs
    BY PieceEnds
  <2> QED
    BY <2>1, <2>2
<1>10. ASSUME NEW i \in 0 .. n - 1, i \in S
       PROVE  i + 1 \in S
  <2>1. i + 1 \in 0 .. n /\ i + 1 # 0 /\ (i + 1) - 1 = i
    BY <1>1
  <2>2. /\ xs \o SubSeq(p, 1, i) \in Seq(KeyBytes) /\ p[i + 1] \in KeyBytes
        /\ xs \o SubSeq(p, 1, i + 1) = Append(xs \o SubSeq(p, 1, i), p[i + 1])
    BY PieceNext
  <2>3. c[i + 1] = Round(c[i], p[i + 1])
    BY <1>8, <2>1
  <2>4. EscapeOK(xs \o SubSeq(p, 1, i), c[i])
    BY <1>10
  <2> QED
    BY <2>1, <2>2, <2>3, <2>4, EscapeRound
<1> HIDE DEF S, n
<1>11. \A i \in 0 .. n : i \in S
  BY <1>1, <1>9, <1>10, InductionTo
<1>12. EscapeOK(xs \o SubSeq(p, 1, n), c[n])
  BY <1>1, <1>11 DEF S
<1> QED
  BY <1>7, <1>12, PieceEnds DEF n

(* The filter's rule, and what it begins with. *)
LEMMA EscapeHolds ==
  /\ EscapeOK(<<>>, EscapeInit)
  /\ \A xs \in Seq(KeyBytes) : \A f : EscapeOK(xs, f) => EscapeRule(xs, f)
<1>1. EscapeOK(<<>>, EscapeInit)
  <2>1. EscapeInit \in EscapeStates /\ ~EscapeInit.detached /\ ~EscapeInit.tilde
        /\ ~EscapeInit.midLine /\ EscapeInit.dst = <<>>
    BY DEF EscapeInit, EscapeStates
  <2>2. Escapes(<<>>) = {} /\ <<>> \in Seq(KeyBytes) /\ Len(<<>>) = 0
    BY DEF Escapes
  <2>3. Detach(<<>>) = 1
    <3>1. Detach(<<>>) = Len(<<>>) + 1
      BY <2>2, DetachFacts
    <3> QED
      BY <2>2, <3>1
  <2>4. Shown(<<>>) = <<>>
    <3>1. Shown(<<>>) \in Seq(Seq(KeyBytes)) /\ Len(Shown(<<>>)) = 0
      BY <2>2, ShownType
    <3> QED
      BY <3>1
  <2>5. ~(Detach(<<>>) <= Len(<<>>))
    BY <2>2, <2>3
  <2> QED
    BY <2>1, <2>4, <2>5, FlattenNone DEF EscapeOK
<1>2. ASSUME NEW xs \in Seq(KeyBytes), NEW f, EscapeOK(xs, f)
      PROVE  EscapeRule(xs, f)
  <2>1. f.detached \in BOOLEAN /\ (f.detached <=> Detach(xs) <= Len(xs))
    BY <1>2 DEF EscapeOK, EscapeStates
  <2>2. (Detach(xs) <= Len(xs)) \in BOOLEAN
    OBVIOUS
  <2>3. f.detached = (Detach(xs) <= Len(xs))
    BY <2>1, <2>2
  <2>4. f.dst = FlattenSeq(Shown(xs))
    BY <1>2 DEF EscapeOK
  <2> QED
    BY <2>3, <2>4 DEF EscapeRule, Shown
<1> QED
  BY <1>1, <1>2
-----------------------------------------------------------------------------
(***************************************************************************)
(* The decoder of UTF-16.                                                  *)
(***************************************************************************)
Decoded == {Bad, <<"H", "L">>, <<"u">>}
DecoderStates == [high : {<<>>, <<"H">>}, dst : Seq(Decoded)]

EndsHigh(xs) == xs # <<>> /\ xs[Len(xs)] = "H"
PairAt(xs, j) == j \in 1 .. Len(xs) - 1 /\ xs[j] = "H" /\ xs[j + 1] = "L"
Wide(xs) == [i \in DOMAIN xs |-> UnitGives(xs, i)]

(* The decoder holds back a high surrogate, and nothing else. *)
DecoderOK(xs, d) ==
  /\ d \in DecoderStates
  /\ d.high # <<>> <=> EndsHigh(xs)
  /\ d.dst = FlattenSeq(Wide(xs))

(* What each unit gives. *)
LEMMA WideType ==
  ASSUME NEW xs \in Seq(Units)
  PROVE  /\ Wide(xs) \in Seq(Seq(Decoded)) /\ Len(Wide(xs)) = Len(xs)
         /\ \A i \in 1 .. Len(xs) : Wide(xs)[i] = UnitGives(xs, i)
<1>1. DOMAIN xs = 1 .. Len(xs) /\ Len(xs) \in Nat
  OBVIOUS
<1>2. \A i \in 1 .. Len(xs) : UnitGives(xs, i) \in Seq(Decoded)
  <2>1. <<>> \in Seq(Decoded) /\ \A x \in Decoded : <<x>> \in Seq(Decoded)
    OBVIOUS
  <2>2. <<"H", "L">> \in Decoded /\ <<"u">> \in Decoded /\ Bad \in Decoded
    BY DEF Decoded
  <2>3. /\ <<<<"H", "L">>>> \in Seq(Decoded) /\ <<<<"u">>>> \in Seq(Decoded)
        /\ <<Bad>> \in Seq(Decoded)
    BY <2>1, <2>2
  <2> QED
    BY <2>1, <2>3 DEF UnitGives
<1> QED
  BY <1>1, <1>2 DEF Wide

(* The cases of UnitGives. *)
LEMMA Gives ==
  ASSUME NEW xs \in Seq(Units), NEW i \in 1 .. Len(xs)
  PROVE  /\ PairAt(xs, i) => UnitGives(xs, i) = <<<<"H", "L">>>>
         /\ PairAt(xs, i - 1) => UnitGives(xs, i) = <<>>
         /\ i = Len(xs) /\ xs[i] = "H" => UnitGives(xs, i) = <<>>
         /\ xs[i] = "u" => UnitGives(xs, i) = <<<<"u">>>>
         /\ xs[i] = "L" /\ ~PairAt(xs, i - 1) => UnitGives(xs, i) = <<Bad>>
         /\ xs[i] = "H" /\ i # Len(xs) /\ ~PairAt(xs, i) => UnitGives(xs, i) = <<Bad>>
<1>1. /\ ~PairAt(xs, Len(xs))
      /\ PairAt(xs, i) => xs[i] = "H"
      /\ PairAt(xs, i - 1) => xs[i] = "L"
  BY DEF PairAt
<1>2. UnitGives(xs, i) =
        CASE PairAt(xs, i) -> <<<<"H", "L">>>>
          [] PairAt(xs, i - 1) \/ (i = Len(xs) /\ xs[i] = "H") -> <<>>
          [] xs[i] = "u" -> <<<<"u">>>>
          [] OTHER -> <<Bad>>
  BY DEF UnitGives, PairAt
<1> QED
  BY <1>1, <1>2

(* One round of the loop. *)
LEMMA DecoderRound ==
  ASSUME NEW xs \in Seq(Units), NEW u \in Units, NEW d, DecoderOK(xs, d)
  PROVE  DecoderOK(Append(xs, u), DecodeUnit(d, u))
<1> DEFINE a == Append(xs, u)
           n == Len(xs)
           s == Wide(xs)
           t == Wide(a)
           dst == FlattenSeq(s)
<1>1. /\ a \in Seq(Units) /\ Len(a) = n + 1 /\ n \in Nat /\ a[n + 1] = u /\ a # <<>>
      /\ \A i \in 1 .. n : a[i] = xs[i]
  BY AppendProperties
<1>2. /\ s \in Seq(Seq(Decoded)) /\ Len(s) = n
      /\ \A i \in 1 .. n : s[i] = UnitGives(xs, i)
  BY WideType
<1>3. /\ t \in Seq(Seq(Decoded)) /\ Len(t) = n + 1
      /\ \A i \in 1 .. n + 1 : t[i] = UnitGives(a, i)
  <2> HIDE DEF a
  <2> QED
    BY <1>1, WideType
<1>4. EndsHigh(xs) <=> n # 0 /\ xs[n] = "H"
  BY DEF EndsHigh
<1>5. d \in DecoderStates /\ d.dst = dst /\ (d.high # <<>> <=> EndsHigh(xs))
  BY DEF DecoderOK
<1>6. u = "H" \/ u = "L" \/ u = "u"
  BY DEF Units
<1>7. \A i \in 1 .. n : xs[i] \in Units
  OBVIOUS
<1> HIDE DEF a, s, t, n, dst
<1>8. \A j \in 0 .. n - 1 : PairAt(a, j) <=> PairAt(xs, j)
  BY <1>1 DEF PairAt, n
<1>9. PairAt(a, n) <=> EndsHigh(xs) /\ u = "L"
  BY <1>1, <1>4 DEF PairAt
<1>10. ~PairAt(a, n + 1) /\ ~PairAt(xs, n)
  BY <1>1 DEF PairAt, n
<1>11. ASSUME NEW i \in 1 .. n, i # n \/ ~EndsHigh(xs)
       PROVE  t[i] = s[i]
  <2>1. i \in 1 .. Len(a) /\ i # Len(a) /\ i \in 1 .. Len(xs) /\ i \in 1 .. n + 1 /\ a[i] = xs[i]
    BY <1>1 DEF n
  <2>2. PairAt(a, i) <=> PairAt(xs, i)
    <3>1. CASE i = n
      BY <1>9, <1>10, <1>11, <3>1
    <3>2. CASE i # n
      <4>1. i \in 0 .. n - 1
        BY <1>1, <3>2
      <4> QED
        BY <1>8, <4>1
    <3> QED
      BY <3>1, <3>2
  <2>3. PairAt(a, i - 1) <=> PairAt(xs, i - 1)
    <3>1. i - 1 \in 0 .. n - 1
      BY <1>1
    <3> QED
      BY <1>8, <3>1
  <2>4. i = Len(xs) => xs[i] # "H"
    BY <1>4, <1>11, <2>1 DEF n
  <2>5. xs[i] \in Units
    BY <1>7
  <2>6. UnitGives(a, i) = UnitGives(xs, i)
    <3>1. /\ PairAt(a, i) => UnitGives(a, i) = <<<<"H", "L">>>>
          /\ PairAt(a, i - 1) => UnitGives(a, i) = <<>>
          /\ a[i] = "u" => UnitGives(a, i) = <<<<"u">>>>
          /\ a[i] = "L" /\ ~PairAt(a, i - 1) => UnitGives(a, i) = <<Bad>>
          /\ a[i] = "H" /\ i # Len(a) /\ ~PairAt(a, i) => UnitGives(a, i) = <<Bad>>
      BY <1>1, <2>1, Gives
    <3>2. /\ PairAt(xs, i) => UnitGives(xs, i) = <<<<"H", "L">>>>
          /\ PairAt(xs, i - 1) => UnitGives(xs, i) = <<>>
          /\ xs[i] = "u" => UnitGives(xs, i) = <<<<"u">>>>
          /\ xs[i] = "L" /\ ~PairAt(xs, i - 1) => UnitGives(xs, i) = <<Bad>>
          /\ xs[i] = "H" /\ i # Len(xs) /\ ~PairAt(xs, i) => UnitGives(xs, i) = <<Bad>>
      BY <2>1, Gives
    <3> QED
      BY <2>1, <2>2, <2>3, <2>4, <2>5, <3>1, <3>2 DEF Units
  <2> QED
    BY <1>2, <1>3, <2>1, <2>6
<1>12. /\ u = "H" => t[n + 1] = <<>>
       /\ u = "u" => t[n + 1] = <<<<"u">>>>
       /\ u = "L" => t[n + 1] = IF EndsHigh(xs) THEN <<>> ELSE <<Bad>>
  <2>1. n + 1 \in 1 .. Len(a) /\ n + 1 = Len(a) /\ n + 1 \in 1 .. n + 1 /\ (n + 1) - 1 = n
    BY <1>1
  <2>2. /\ PairAt(a, n) => UnitGives(a, n + 1) = <<>>
        /\ n + 1 = Len(a) /\ a[n + 1] = "H" => UnitGives(a, n + 1) = <<>>
        /\ a[n + 1] = "u" => UnitGives(a, n + 1) = <<<<"u">>>>
        /\ a[n + 1] = "L" /\ ~PairAt(a, n) => UnitGives(a, n + 1) = <<Bad>>
    <3>1. /\ PairAt(a, (n + 1) - 1) => UnitGives(a, n + 1) = <<>>
          /\ n + 1 = Len(a) /\ a[n + 1] = "H" => UnitGives(a, n + 1) = <<>>
          /\ a[n + 1] = "u" => UnitGives(a, n + 1) = <<<<"u">>>>
          /\ a[n + 1] = "L" /\ ~PairAt(a, (n + 1) - 1) => UnitGives(a, n + 1) = <<Bad>>
      BY <1>1, <2>1, Gives
    <3> QED
      BY <2>1, <3>1
  <2>3. t[n + 1] = UnitGives(a, n + 1)
    BY <1>3, <2>1
  <2> QED
    BY <1>1, <1>9, <2>1, <2>2, <2>3
<1>13. ASSUME EndsHigh(xs)
       PROVE  n \in 1 .. n /\ s[n] = <<>> /\ t[n] = IF u = "L" THEN <<<<"H", "L">>>> ELSE <<Bad>>
  <2>1. n \in 1 .. n /\ n \in 1 .. Len(xs) /\ n = Len(xs) /\ xs[n] = "H"
    BY <1>1, <1>4, <1>13 DEF n
  <2>2. n \in 1 .. Len(a) /\ n # Len(a) /\ n \in 1 .. n + 1 /\ a[n] = "H"
    BY <1>1, <2>1
  <2>3. UnitGives(xs, n) = <<>>
    BY <2>1, Gives
  <2>4. /\ PairAt(a, n) => UnitGives(a, n) = <<<<"H", "L">>>>
        /\ ~PairAt(a, n) => UnitGives(a, n) = <<Bad>>
    BY <1>1, <2>2, Gives
  <2> QED
    BY <1>2, <1>3, <1>9, <1>13, <2>1, <2>2, <2>3, <2>4
<1>14. EndsHigh(a) <=> u = "H"
  BY <1>1 DEF EndsHigh
<1>15. dst \in Seq(Decoded)
  BY <1>5 DEF DecoderStates
<1>16. \A x \in Decoded : Append(dst, x) = dst \o <<x>> /\ Append(dst, x) \in Seq(Decoded)
  BY <1>15, AppendIsConcat, AppendProperties
<1>17. \A z \in Seq(Decoded) : z \o <<>> = z
  BY ConcatEmptySeq
<1>18. <<"H", "L">> \in Decoded /\ <<"u">> \in Decoded /\ Bad \in Decoded
  BY DEF Decoded
<1>19. \A z \in Seq(Decoded), x \in Decoded : /\ Append(z, x) = z \o <<x>>
                                              /\ Append(z, x) \in Seq(Decoded)
  BY AppendIsConcat, AppendProperties
<1>20. ASSUME NEW h \in {<<>>, <<"H">>}, NEW z \in Seq(Decoded), FlattenSeq(t) = z,
              h # <<>> <=> u = "H"
       PROVE  DecoderOK(a, [high |-> h, dst |-> z])
  <2> DEFINE e == [high |-> h, dst |-> z]
  <2>1. e \in DecoderStates /\ e.high = h /\ e.dst = z
    BY DEF DecoderStates
  <2> HIDE DEF e
  <2>2. DecoderOK(a, e)
    BY <1>14, <1>20, <2>1 DEF DecoderOK, t
  <2> QED
    BY <2>2 DEF e
<1>21. <<>> \in {<<>>, <<"H">>} /\ <<"H">> \in {<<>>, <<"H">>} /\ <<"H">> # <<>>
  OBVIOUS
<1>22. CASE EndsHigh(xs)
  <2>1. FlattenSeq(t) = (dst \o t[n]) \o t[n + 1]
    <3>1. /\ Len(s) > 0 /\ Len(t) = Len(s) + 1 /\ s[Len(s)] = <<>>
          /\ \A i \in 1 .. Len(s) - 1 : t[i] = s[i]
      BY <1>1, <1>2, <1>3, <1>11, <1>13, <1>22
    <3>2. FlattenSeq(t) = (FlattenSeq(s) \o t[Len(s)]) \o t[Len(t)]
      BY <1>2, <1>3, <3>1, FlattenRevise
    <3> QED
      BY <1>2, <1>3, <3>2 DEF dst
  <2>2. CASE u = "L"
    <3>1. DecodeUnit(d, u) = [high |-> <<>>, dst |-> Append(dst, <<"H", "L">>)]
      BY <1>5, <1>22, <2>2 DEF DecodeUnit
    <3>2. FlattenSeq(t) = Append(dst, <<"H", "L">>)
      BY <1>12, <1>13, <1>16, <1>17, <1>18, <1>22, <2>1, <2>2
    <3>3. Append(dst, <<"H", "L">>) \in Seq(Decoded)
      BY <1>16, <1>18
    <3> QED
      BY <1>20, <1>21, <2>2, <3>1, <3>2, <3>3 DEF a
  <2>3. CASE u # "L"
    <3> DEFINE b == Append(dst, Bad)
    <3>1. b \in Seq(Decoded) /\ b = dst \o <<Bad>>
      BY <1>16, <1>18
    <3>2. FlattenSeq(t) = b \o t[n + 1]
      BY <1>13, <1>22, <2>1, <2>3, <3>1
    <3>3. CASE u = "H"
      <4>1. DecodeUnit(d, u) = [high |-> <<u>>, dst |-> b]
        BY <1>5, <1>22, <2>3, <3>3 DEF DecodeUnit
      <4>2. FlattenSeq(t) = b
        BY <1>12, <1>17, <3>1, <3>2, <3>3
      <4> HIDE DEF b
      <4> QED
        BY <1>20, <1>21, <3>1, <3>3, <4>1, <4>2 DEF a
    <3>4. CASE u = "u"
      <4>1. DecodeUnit(d, u) = [high |-> <<>>, dst |-> Append(b, <<u>>)]
        BY <1>5, <1>22, <2>3, <3>4 DEF DecodeUnit
      <4> HIDE DEF b
      <4>2. FlattenSeq(t) = Append(b, <<u>>) /\ Append(b, <<u>>) \in Seq(Decoded)
        BY <1>12, <1>18, <1>19, <3>1, <3>2, <3>4
      <4> QED
        BY <1>20, <1>21, <3>4, <4>1, <4>2 DEF a
    <3> QED
      BY <1>6, <2>3, <3>3, <3>4
  <2> QED
    BY <2>2, <2>3
<1>23. CASE ~EndsHigh(xs)
  <2>1. FlattenSeq(t) = dst \o t[n + 1]
    <3>1. \A i \in 1 .. Len(s) : t[i] = s[i]
      BY <1>2, <1>11, <1>23
    <3> QED
      BY <1>2, <1>3, <3>1, FlattenGrow DEF dst
  <2>2. CASE u = "H"
    <3>1. DecodeUnit(d, u) = [high |-> <<u>>, dst |-> dst]
      BY <1>5, <1>23, <2>2 DEF DecodeUnit
    <3>2. FlattenSeq(t) = dst
      BY <1>12, <1>15, <1>17, <2>1, <2>2
    <3> QED
      BY <1>15, <1>20, <1>21, <2>2, <3>1, <3>2 DEF a
  <2>3. CASE u # "H"
    <3> DEFINE x == IF u = "L" THEN Bad ELSE <<u>>
    <3>1. DecodeUnit(d, u) = [high |-> <<>>, dst |-> Append(dst, x)]
      BY <1>5, <1>6, <1>23, <2>3 DEF DecodeUnit
    <3>2. x \in Decoded /\ t[n + 1] = <<x>>
      BY <1>6, <1>12, <1>18, <1>23, <2>3
    <3> HIDE DEF x
    <3>3. FlattenSeq(t) = Append(dst, x) /\ Append(dst, x) \in Seq(Decoded)
      BY <1>16, <2>1, <3>2
    <3> QED
      BY <1>20, <1>21, <2>3, <3>1, <3>3 DEF a
  <2> QED
    BY <2>2, <2>3
<1> QED
  BY <1>22, <1>23

(* The loop of append is a sequence of rounds. *)
LEMMA DecodeRounds ==
  ASSUME NEW xs \in Seq(Units), NEW p \in Seq(Units), NEW d, DecoderOK(xs, d)
  PROVE  DecoderOK(xs \o p, decode(d, p))
<1> DEFINE n == Len(p)
           D == DecoderStates
           step == [x \in D \X (1 .. n) |-> DecodeUnit(x[1], p[x[2]])]
<1>1. n \in Nat /\ d \in D
  BY DEF DecoderOK
<1>2. \A y \in D, i \in 1 .. n : step[<<y, i>>] = DecodeUnit(y, p[i])
  OBVIOUS
<1>3. ASSUME NEW y \in D, NEW i \in 1 .. n PROVE step[<<y, i>>] \in D
  <2>1. p[i] = "H" \/ p[i] = "L" \/ p[i] = "u"
    BY ElementOfSeq DEF Units
  <2>2. /\ \A z \in Seq(Decoded), x \in Decoded : Append(z, x) \in Seq(Decoded)
        /\ y.dst \in Seq(Decoded)
    BY AppendProperties DEF DecoderStates
  <2>3. <<"H", "L">> \in Decoded /\ <<"u">> \in Decoded /\ Bad \in Decoded
    BY DEF Decoded
  <2>4. \A z \in Seq(Decoded) : [high |-> <<>>, dst |-> z] \in D /\ [high |-> <<"H">>, dst |-> z] \in D
    BY DEF DecoderStates
  <2>5. DecodeUnit(y, p[i]) \in D
    <3> HIDE DEF D
    <3> QED
      BY <2>1, <2>2, <2>3, <2>4 DEF DecodeUnit
  <2> QED
    BY <1>2, <2>5
<1> HIDE DEF step
<1>4. PICK g : Iterates(g, n, D, d, step)
  <2> HIDE DEF n, D
  <2> QED
    BY <1>1, <1>3, Recursion
<1> DEFINE P(h) == h = [i \in 0 .. Len(p) |-> IF i = 0 THEN d ELSE DecodeUnit(h[i - 1], p[i])]
           c == CHOOSE h : P(h)
<1>5. P(g)
  <2>1. ASSUME NEW i \in 1 .. n PROVE g[i] = DecodeUnit(g[i - 1], p[i])
    <3>1. i - 1 \in 0 .. n
      BY <1>1
    <3> QED
      BY <1>2, <1>4, <3>1 DEF Iterates
  <2>2. \A i \in 0 .. n : g[i] = IF i = 0 THEN d ELSE DecodeUnit(g[i - 1], p[i])
    BY <1>1, <1>4, <2>1 DEF Iterates
  <2> QED
    BY <1>4, <2>2 DEF Iterates
<1>6. P(c)
  <2> HIDE DEF P
  <2> QED
    BY <1>5
<1>7. decode(d, p) = c[n]
  BY DEF decode, Loop
<1> HIDE DEF c
<1>8. \A i \in 0 .. n : c[i] = IF i = 0 THEN d ELSE DecodeUnit(c[i - 1], p[i])
  BY <1>6
<1> HIDE DEF P
<1> DEFINE S == {i \in 0 .. n : DecoderOK(xs \o SubSeq(p, 1, i), c[i])}
<1>9. 0 \in S
  <2>1. 0 \in 0 .. n /\ c[0] = d
    BY <1>1, <1>8
  <2>2. xs \o SubSeq(p, 1, 0) = xs
    BY PieceEnds
  <2> QED
    BY <2>1, <2>2
<1>10. ASSUME NEW i \in 0 .. n - 1, i \in S
       PROVE  i + 1 \in S
  <2>1. i + 1 \in 0 .. n /\ i + 1 # 0 /\ (i + 1) - 1 = i
    BY <1>1
  <2>2. /\ xs \o SubSeq(p, 1, i) \in Seq(Units) /\ p[i + 1] \in Units
        /\ xs \o SubSeq(p, 1, i + 1) = Append(xs \o SubSeq(p, 1, i), p[i + 1])
    BY PieceNext
  <2>3. c[i + 1] = DecodeUnit(c[i], p[i + 1])
    BY <1>8, <2>1
  <2>4. DecoderOK(xs \o SubSeq(p, 1, i), c[i])
    BY <1>10
  <2> QED
    BY <2>1, <2>2, <2>3, <2>4, DecoderRound
<1> HIDE DEF S, n
<1>11. \A i \in 0 .. n : i \in S
  BY <1>1, <1>9, <1>10, InductionTo
<1>12. DecoderOK(xs \o SubSeq(p, 1, n), c[n])
  BY <1>1, <1>11 DEF S
<1> QED
  BY <1>7, <1>12, PieceEnds DEF n

(* The decoder's rule, and what it begins with. *)
LEMMA DecoderHolds ==
  /\ DecoderOK(<<>>, DecoderInit)
  /\ \A xs \in Seq(Units) : \A d : DecoderOK(xs, d) => DecoderRule(xs, d)
<1>1. DecoderOK(<<>>, DecoderInit)
  <2>1. DecoderInit \in DecoderStates /\ DecoderInit.high = <<>> /\ DecoderInit.dst = <<>>
    BY DEF DecoderInit, DecoderStates
  <2>2. <<>> \in Seq(Units) /\ Len(<<>>) = 0
    OBVIOUS
  <2>3. Wide(<<>>) = <<>>
    <3>1. Wide(<<>>) \in Seq(Seq(Decoded)) /\ Len(Wide(<<>>)) = 0
      BY <2>2, WideType
    <3> QED
      BY <3>1
  <2> QED
    BY <2>1, <2>3, FlattenNone DEF DecoderOK, EndsHigh
<1>2. \A xs \in Seq(Units) : \A d : DecoderOK(xs, d) => DecoderRule(xs, d)
  BY DEF DecoderOK, DecoderRule, Wide
<1> QED
  BY <1>1, <1>2
-----------------------------------------------------------------------------
(***************************************************************************)
(* The encoder of UTF-8: characters at the start of a sequence of bytes.   *)
(***************************************************************************)
Rune == Seq(Bytes)

(* A character has one to four bytes. *)
LEMMA SizeFacts == \A b : Size(b) \in 1 .. 4 /\ (b \in {"c", "d"} => Size(b) = 1)
BY DEF Size

(* Only the first four bytes matter, and of a full rune only its own. *)
LEMMA SameRune ==
  ASSUME NEW p \in Seq(Bytes), NEW r \in Seq(Bytes), p # <<>>, Len(p) <= Len(r),
         \A i \in 1 .. Len(p) : p[i] = r[i],
         Len(p) = Len(r) \/ Len(p) >= 4 \/ FullRune(p)
  PROVE  /\ FullRune(p) <=> FullRune(r)
         /\ Valid(p) <=> Valid(r)
         /\ DecodeRune(p) = DecodeRune(r)
<1> DEFINE k == Size(p[1])
<1>1. Len(p) \in Nat /\ Len(r) \in Nat /\ Len(p) >= 1 /\ k \in 1 .. 4 /\ p[1] = r[1]
  BY SizeFacts
<1>2. Continues(r) => Continues(p)
  <2> SUFFICES ASSUME Continues(r) PROVE Continues(p)
    OBVIOUS
  <2>1. ASSUME NEW i \in 2 .. Len(p), i <= k PROVE p[i] \in {"c", "d"}
    BY <1>1, <2>1 DEF Continues
  <2>2. p[1] = "E" /\ Len(p) > 1 => p[2] = "d"
    BY <1>1 DEF Continues
  <2> QED
    BY <2>1, <2>2 DEF Continues
<1>3. ASSUME Len(p) >= k \/ Len(p) = Len(r), Continues(p) PROVE Continues(r)
  <2>1. ASSUME NEW i \in 2 .. Len(r), i <= Size(r[1]) PROVE r[i] \in {"c", "d"}
    <3>1. i \in 2 .. Len(p) /\ i \in 1 .. Len(p) /\ i <= k
      BY <1>1, <1>3, <2>1
    <3> QED
      BY <1>3, <3>1 DEF Continues
  <2>2. ASSUME r[1] = "E", Len(r) > 1 PROVE r[2] = "d"
    <3>1. k = 3
      BY <1>1, <2>2 DEF Size
    <3>2. Len(p) > 1 /\ 2 \in 1 .. Len(p)
      BY <1>1, <1>3, <2>2, <3>1
    <3> QED
      BY <1>1, <1>3, <2>2, <3>2 DEF Continues
  <2> QED
    BY <2>1, <2>2 DEF Continues
<1>4. Len(r) >= k /\ Len(p) < k /\ Continues(p) => Len(p) # Len(r) /\ Len(p) < 4 /\ ~FullRune(p)
  BY <1>1 DEF FullRune
<1>5. FullRune(p) <=> FullRune(r)
  BY <1>1, <1>2, <1>3, <1>4 DEF FullRune
<1>6. Valid(p) <=> Valid(r)
  <2>1. CASE Len(p) >= k
    BY <1>1, <1>2, <1>3, <2>1 DEF Valid
  <2>2. CASE Len(p) < k
    <3>1. Len(r) >= k => ~Continues(p)
      BY <1>1, <1>4, <2>2
    <3> QED
      BY <1>1, <1>2, <2>2, <3>1 DEF Valid
  <2> QED
    BY <1>1, <2>1, <2>2
<1>7. ASSUME Valid(p) PROVE SubSeq(p, 1, k) = SubSeq(r, 1, k)
  <2>1. k \in 0 .. Len(p) /\ k \in 0 .. Len(r)
    BY <1>1, <1>7 DEF Valid
  <2>2. /\ SubSeq(p, 1, k) \in Seq(Bytes) /\ Len(SubSeq(p, 1, k)) = k
        /\ \A i \in 1 .. k : SubSeq(p, 1, k)[i] = p[i]
        /\ SubSeq(r, 1, k) \in Seq(Bytes) /\ Len(SubSeq(r, 1, k)) = k
        /\ \A i \in 1 .. k : SubSeq(r, 1, k)[i] = r[i]
    BY <2>1, Start
  <2>3. \A i \in 1 .. k : p[i] = r[i]
    BY <1>1, <2>1
  <2> HIDE DEF k
  <2> QED
    BY <2>2, <2>3, SeqEqual
<1> QED
  BY <1>1, <1>5, <1>6, <1>7 DEF DecodeRune

(* What a decoded rune takes from a sequence that begins with it. *)
LEMMA RuneFacts ==
  ASSUME NEW p \in Seq(Bytes)
  PROVE  /\ DecodeRune(p) \in Rune
         /\ Valid(p) => Width(DecodeRune(p)) = Size(p[1]) /\ Size(p[1]) <= Len(p)
         /\ ~Valid(p) => DecodeRune(p) = Bad /\ Width(DecodeRune(p)) = 1
         /\ Width(DecodeRune(p)) \in 1 .. 4
         /\ p # <<>> => Width(DecodeRune(p)) <= Len(p)
<1> DEFINE k == Size(p[1])
<1>1. k \in 1 .. 4 /\ Len(p) \in Nat
  BY SizeFacts
<1>2. CASE Valid(p)
  <2>1. k \in 0 .. Len(p)
    BY <1>1, <1>2 DEF Valid
  <2>2. SubSeq(p, 1, k) \in Seq(Bytes) /\ Len(SubSeq(p, 1, k)) = k
    BY <2>1, Start
  <2>3. DecodeRune(p) = SubSeq(p, 1, k)
    BY <1>2 DEF DecodeRune
  <2> HIDE DEF k
  <2>4. DecodeRune(p) # Bad
    <3>1. Len(Bad) = 0
      BY DEF Bad
    <3> QED
      BY <1>1, <2>2, <2>3, <3>1
  <2>5. Width(DecodeRune(p)) = k /\ DecodeRune(p) \in Rune
    BY <2>2, <2>3, <2>4 DEF Width, Rune
  <2> QED
    BY <1>1, <1>2, <2>1, <2>5 DEF k
<1>3. CASE ~Valid(p)
  <2>1. DecodeRune(p) = Bad /\ Bad \in Rune
    BY <1>3 DEF DecodeRune, Bad, Rune
  <2>2. p # <<>> => 1 <= Len(p)
    OBVIOUS
  <2> QED
    BY <1>3, <2>1, <2>2 DEF Width
<1> QED
  BY <1>2, <1>3

(* The bytes after a position of the input. *)
LEMMA Suffix ==
  ASSUME NEW xs \in Seq(Bytes), NEW j \in 1 .. Len(xs)
  PROVE  /\ From(xs, j) \in Seq(Bytes) /\ Len(From(xs, j)) = Len(xs) - j + 1
         /\ Len(From(xs, j)) >= 1 /\ From(xs, j) # <<>> /\ From(xs, j)[1] = xs[j]
         /\ \A i \in 1 .. Len(xs) - j + 1 : From(xs, j)[i] = xs[j + i - 1]
         /\ xs[j] \in {"c", "d"} => FullRune(From(xs, j)) /\ ~Valid(From(xs, j))
<1> DEFINE p == From(xs, j)
<1>1. j \in 1 .. Len(xs) + 1
  OBVIOUS
<1>2. /\ p \in Seq(Bytes) /\ Len(p) = Len(xs) - j + 1
      /\ \A i \in 1 .. Len(xs) - j + 1 : p[i] = xs[j + i - 1]
  BY <1>1, Rest
<1> HIDE DEF p
<1>3. Len(p) >= 1 /\ p # <<>>
  BY <1>2
<1>4. 1 \in 1 .. Len(xs) - j + 1 /\ j + 1 - 1 = j
  OBVIOUS
<1>5. p[1] = xs[j]
  BY <1>2, <1>4
<1>6. xs[j] \in {"c", "d"} => FullRune(p) /\ ~Valid(p)
  BY <1>3, <1>5, SizeFacts DEF FullRune, Valid
<1> QED
  BY <1>2, <1>3, <1>5, <1>6 DEF p

(* The cases of ByteGives. *)
LEMMA ByteCases ==
  ASSUME NEW xs, NEW i \in Nat
  PROVE  /\ Valid(From(xs, i)) => ByteGives(xs, i) = <<DecodeRune(From(xs, i))>>
         /\ ~Valid(From(xs, i)) =>
              ByteGives(xs, i) =
                IF \E j \in 1 .. i : \/ Valid(From(xs, j)) /\ j < i /\ i < j + Size(xs[j])
                                     \/ j <= i /\ ~FullRune(From(xs, j))
                THEN <<>> ELSE <<Bad>>
BY DEF ByteGives
-----------------------------------------------------------------------------
(***************************************************************************)
(* The encoder of UTF-8: how far it got.                                   *)
(***************************************************************************)
Narrow(xs, q) == [i \in 1 .. q |-> ByteGives(xs, i)]

(* The characters up to position q, where one ends, are written. *)
Written(xs, q, dst) ==
  /\ q \in 0 .. Len(xs)
  /\ \A j \in 1 .. q : FullRune(From(xs, j))
  /\ \A j \in 1 .. q : Valid(From(xs, j)) => j + Size(xs[j]) <= q + 1
  /\ dst = FlattenSeq(Narrow(xs, q))

(* The bytes after q are held back: they are no full rune. *)
HeldBack(xs, q) == q < Len(xs) => ~FullRune(From(xs, q + 1))

EncoderOK(xs, e) ==
  /\ e \in [carry : Seq(Bytes), dst : Seq(Rune)]
  /\ \E q \in 0 .. Len(xs) :
       e.carry = From(xs, q + 1) /\ Written(xs, q, e.dst) /\ HeldBack(xs, q)

(* What each byte gives. *)
LEMMA NarrowType ==
  ASSUME NEW xs \in Seq(Bytes), NEW q \in 0 .. Len(xs)
  PROVE  /\ Narrow(xs, q) \in Seq(Seq(Rune)) /\ Len(Narrow(xs, q)) = q
         /\ \A i \in 1 .. q : Narrow(xs, q)[i] = ByteGives(xs, i)
<1>1. ASSUME NEW i \in 1 .. q PROVE ByteGives(xs, i) \in Seq(Rune)
  <2>1. i \in 1 .. Len(xs) /\ i \in Nat
    OBVIOUS
  <2>2. DecodeRune(From(xs, i)) \in Rune /\ Bad \in Rune
    BY <2>1, Suffix, RuneFacts DEF Bad, Rune
  <2>3. <<>> \in Seq(Rune) /\ <<DecodeRune(From(xs, i))>> \in Seq(Rune) /\ <<Bad>> \in Seq(Rune)
    BY <2>2
  <2> QED
    BY <2>1, <2>3, ByteCases
<1> QED
  BY <1>1 DEF Narrow

(* One more rune is written. *)
LEMMA WrittenMore ==
  ASSUME NEW xs \in Seq(Bytes), NEW q, NEW dst, Written(xs, q, dst), q < Len(xs),
         FullRune(From(xs, q + 1))
  PROVE  LET r == DecodeRune(From(xs, q + 1)) IN
         /\ q + Width(r) \in 0 .. Len(xs) /\ Width(r) >= 1 /\ r \in Rune
         /\ Written(xs, q + Width(r), Append(dst, r))
<1> DEFINE p == From(xs, q + 1)
           r == DecodeRune(p)
           w == Width(r)
<1>1. q \in 0 .. Len(xs) /\ q + 1 \in 1 .. Len(xs) /\ q \in Nat /\ Len(xs) \in Nat
  BY DEF Written
<1>2. /\ p \in Seq(Bytes) /\ Len(p) = Len(xs) - q /\ p # <<>> /\ p[1] = xs[q + 1]
      /\ \A i \in 1 .. Len(xs) - q : p[i] = xs[q + i]
  <2>1. /\ p \in Seq(Bytes) /\ Len(p) = Len(xs) - (q + 1) + 1 /\ p # <<>> /\ p[1] = xs[q + 1]
        /\ \A i \in 1 .. Len(xs) - (q + 1) + 1 : p[i] = xs[q + 1 + i - 1]
    BY <1>1, Suffix
  <2>2. Len(xs) - (q + 1) + 1 = Len(xs) - q /\ \A i \in 1 .. Len(xs) - q : q + 1 + i - 1 = q + i
    BY <1>1
  <2> QED
    BY <2>1, <2>2
<1>3. FullRune(p)
  OBVIOUS
<1> HIDE DEF p
<1>4. /\ r \in Rune /\ w \in 1 .. 4 /\ w <= Len(p)
      /\ Valid(p) => w = Size(p[1])
      /\ ~Valid(p) => r = Bad /\ w = 1
  BY <1>2, RuneFacts
<1> HIDE DEF r, w
<1>5. q + w \in 0 .. Len(xs) /\ w >= 1 /\ w \in Nat
  BY <1>1, <1>2, <1>4
<1>6. ASSUME NEW i \in q + 2 .. q + w
      PROVE  xs[i] \in {"c", "d"} /\ i \in 1 .. Len(xs)
  <2>1. Valid(p) /\ w = Size(p[1])
    BY <1>1, <1>4, <1>5, <1>6
  <2>2. i - q \in 2 .. Len(p) /\ i - q <= Size(p[1]) /\ i - q \in 1 .. Len(xs) - q /\ q + (i - q) = i
    BY <1>1, <1>2, <1>4, <1>5, <2>1
  <2>3. p[i - q] \in {"c", "d"}
    BY <2>1, <2>2 DEF Valid, Continues
  <2>4. p[i - q] = xs[i]
    BY <1>2, <2>2
  <2>5. i \in 1 .. Len(xs)
    BY <1>1, <1>5
  <2> QED
    BY <2>3, <2>4, <2>5
<1>7. \A i \in q + 2 .. q + w : FullRune(From(xs, i)) /\ ~Valid(From(xs, i))
  BY <1>6, Suffix
<1>8. ASSUME NEW j \in 1 .. q + w
      PROVE  /\ FullRune(From(xs, j))
             /\ Valid(From(xs, j)) => j + Size(xs[j]) <= (q + w) + 1
  <2>1. CASE j \in 1 .. q
    <3>1. FullRune(From(xs, j)) /\ (Valid(From(xs, j)) => j + Size(xs[j]) <= q + 1)
      BY <2>1 DEF Written
    <3>2. Size(xs[j]) \in Nat
      BY SizeFacts
    <3> QED
      BY <1>1, <1>5, <3>1, <3>2
  <2>2. CASE j = q + 1
    BY <1>1, <1>2, <1>3, <1>4, <1>5, <2>2 DEF p
  <2>3. CASE j \in q + 2 .. q + w
    BY <1>7, <2>3
  <2>4. j \in 1 .. q \/ j = q + 1 \/ j \in q + 2 .. q + w
    BY <1>1, <1>5
  <2> QED
    BY <2>1, <2>2, <2>3, <2>4
<1> DEFINE s == Narrow(xs, q)
           t == Narrow(xs, q + w)
<1>9. /\ s \in Seq(Seq(Rune)) /\ Len(s) = q /\ \A i \in 1 .. q : s[i] = ByteGives(xs, i)
      /\ t \in Seq(Seq(Rune)) /\ Len(t) = q + w
      /\ \A i \in 1 .. q + w : t[i] = ByteGives(xs, i)
  BY <1>1, <1>5, NarrowType
<1> HIDE DEF s, t
<1>10. t[q + 1] = <<r>>
  <2>1. q + 1 \in 1 .. q + w /\ q + 1 \in Nat
    BY <1>1, <1>5
  <2>2. ByteGives(xs, q + 1) = <<r>>
    <3>1. CASE Valid(p)
      BY <2>1, <3>1, ByteCases DEF p, r
    <3>2. CASE ~Valid(p)
      <4>1. ASSUME NEW j \in 1 .. q + 1
            PROVE  /\ ~(Valid(From(xs, j)) /\ j < q + 1 /\ q + 1 < j + Size(xs[j]))
                   /\ FullRune(From(xs, j))
        <5>1. CASE j = q + 1
          BY <1>1, <1>3, <5>1 DEF p
        <5>2. CASE j # q + 1
          <6>1. j \in 1 .. q /\ Size(xs[j]) \in Nat
            BY <1>1, <5>2, SizeFacts
          <6> QED
            BY <1>1, <6>1 DEF Written
        <5> QED
          BY <5>1, <5>2
      <4>2. ByteGives(xs, q + 1) = <<Bad>>
        BY <2>1, <3>2, <4>1, ByteCases DEF p
      <4> QED
        BY <1>4, <3>2, <4>2
    <3> QED
      BY <3>1, <3>2
  <2> QED
    BY <1>9, <2>1, <2>2
<1>11. ASSUME NEW i \in q + 2 .. q + w PROVE t[i] = <<>>
  <2>1. i \in 1 .. q + w /\ i \in Nat /\ q + 1 \in 1 .. i /\ q + 1 < i
    BY <1>1, <1>5
  <2>2. Valid(p) /\ i < (q + 1) + Size(xs[q + 1])
    BY <1>1, <1>2, <1>4, <1>5, <1>11, <2>1
  <2>3. ~Valid(From(xs, i))
    BY <1>7
  <2>4. ByteGives(xs, i) = <<>>
    BY <2>1, <2>2, <2>3, ByteCases DEF p
  <2> QED
    BY <1>9, <2>1, <2>4
<1>12. FlattenSeq(t) = Append(FlattenSeq(s), r)
  <2>1. Len(s) < Len(t) /\ t[Len(s) + 1] = <<r>>
    BY <1>1, <1>5, <1>9, <1>10
  <2>2. \A i \in 1 .. Len(s) : t[i] = s[i]
    <3>1. \A i \in 1 .. q : i \in 1 .. q + w
      BY <1>1, <1>5
    <3> QED
      BY <1>9, <3>1
  <2>3. \A i \in Len(s) + 2 .. Len(t) : t[i] = <<>>
    BY <1>9, <1>11
  <2>4. s \in Seq(Seq(Rune)) /\ t \in Seq(Seq(Rune)) /\ r \in Rune
    BY <1>4, <1>9
  <2>5. AddsOne(s, t, r)
    BY <2>1, <2>2, <2>3 DEF AddsOne
  <2> QED
    BY <2>4, <2>5, FlattenOne
<1>13. dst = FlattenSeq(s)
  BY DEF Written, s
<1>14. Written(xs, q + w, Append(dst, r))
  BY <1>5, <1>8, <1>12, <1>13 DEF Written, t
<1> QED
  BY <1>4, <1>5, <1>14 DEF p, r, w

(* More bytes do not change what is written. *)
LEMMA WrittenKept ==
  ASSUME NEW xs \in Seq(Bytes), NEW p \in Seq(Bytes), NEW q, NEW dst, Written(xs, q, dst)
  PROVE  Written(xs \o p, q, dst)
<1> DEFINE a == xs \o p
<1>1. /\ a \in Seq(Bytes) /\ Len(a) = Len(xs) + Len(p) /\ Len(xs) \in Nat /\ Len(p) \in Nat
      /\ \A i \in 1 .. Len(xs) : a[i] = xs[i]
  <2>1. /\ a \in Seq(Bytes) /\ Len(a) = Len(xs) + Len(p) /\ Len(xs) \in Nat /\ Len(p) \in Nat
        /\ \A i \in 1 .. Len(xs) + Len(p) : a[i] = IF i <= Len(xs) THEN xs[i] ELSE p[i - Len(xs)]
    BY ConcatProperties
  <2>2. \A i \in 1 .. Len(xs) : i \in 1 .. Len(xs) + Len(p) /\ i <= Len(xs)
    BY <2>1
  <2> QED
    BY <2>1, <2>2
<1> HIDE DEF a
<1>2. q \in 0 .. Len(xs) /\ q \in 0 .. Len(a) /\ q \in Nat
  BY <1>1 DEF Written
<1>3. ASSUME NEW j \in 1 .. q
      PROVE  /\ FullRune(From(a, j)) /\ FullRune(From(xs, j)) /\ a[j] = xs[j]
             /\ Valid(From(a, j)) <=> Valid(From(xs, j))
             /\ DecodeRune(From(a, j)) = DecodeRune(From(xs, j))
  <2> DEFINE x == From(xs, j)
             y == From(a, j)
  <2>1. j \in 1 .. Len(xs) /\ j \in 1 .. Len(a) /\ a[j] = xs[j]
    BY <1>1, <1>2
  <2>2. /\ x \in Seq(Bytes) /\ Len(x) = Len(xs) - j + 1 /\ x # <<>>
        /\ \A i \in 1 .. Len(xs) - j + 1 : x[i] = xs[j + i - 1]
    BY <2>1, Suffix
  <2>3. /\ y \in Seq(Bytes) /\ Len(y) = Len(a) - j + 1
        /\ \A i \in 1 .. Len(a) - j + 1 : y[i] = a[j + i - 1]
    BY <1>1, <2>1, Suffix
  <2>4. Len(x) <= Len(y)
    BY <1>1, <2>1, <2>2, <2>3
  <2>5. ASSUME NEW i \in 1 .. Len(x) PROVE x[i] = y[i]
    <3>1. i \in 1 .. Len(xs) - j + 1 /\ i \in 1 .. Len(a) - j + 1 /\ j + i - 1 \in 1 .. Len(xs)
      BY <1>1, <2>1, <2>2
    <3> QED
      BY <1>1, <2>2, <2>3, <3>1
  <2>6. FullRune(x)
    BY DEF Written
  <2> HIDE DEF x, y
  <2>7. /\ FullRune(x) <=> FullRune(y)
        /\ Valid(x) <=> Valid(y)
        /\ DecodeRune(x) = DecodeRune(y)
    BY <2>2, <2>3, <2>4, <2>5, <2>6, SameRune
  <2> QED
    BY <2>1, <2>6, <2>7 DEF x, y
<1>4. ASSUME NEW i \in 1 .. q PROVE ByteGives(a, i) = ByteGives(xs, i)
  <2>1. i \in Nat /\ \A j \in 1 .. i : j \in 1 .. q
    BY <1>2
  <2>2. CASE Valid(From(xs, i))
    BY <1>3, <2>1, <2>2, ByteCases
  <2>3. CASE ~Valid(From(xs, i))
    <3>1. (\E j \in 1 .. i : \/ Valid(From(a, j)) /\ j < i /\ i < j + Size(a[j])
                             \/ j <= i /\ ~FullRune(From(a, j))) <=>
          (\E j \in 1 .. i : \/ Valid(From(xs, j)) /\ j < i /\ i < j + Size(xs[j])
                             \/ j <= i /\ ~FullRune(From(xs, j)))
      BY <1>3, <2>1
    <3>2. ~Valid(From(a, i))
      BY <1>3, <2>3
    <3> QED
      BY <2>1, <2>3, <3>1, <3>2, ByteCases
  <2> QED
    BY <2>2, <2>3
<1>5. Narrow(a, q) = Narrow(xs, q)
  BY <1>4 DEF Narrow
<1>6. \A j \in 1 .. q : Valid(From(a, j)) => j + Size(a[j]) <= q + 1
  BY <1>3 DEF Written
<1> QED
  BY <1>2, <1>3, <1>5, <1>6 DEF Written, a

(* Once only the start of a character is left, the rule holds. *)
LEMMA WrittenAll ==
  ASSUME NEW xs \in Seq(Bytes), NEW q \in 0 .. Len(xs), NEW dst, Written(xs, q, dst),
         HeldBack(xs, q)
  PROVE  /\ dst = FlattenSeq([i \in DOMAIN xs |-> ByteGives(xs, i)])
         /\ Len(From(xs, q + 1)) < 4
<1>1. q \in 0 .. Len(xs) /\ q \in Nat /\ Len(xs) \in Nat /\ DOMAIN xs = 1 .. Len(xs)
  BY DEF Written
<1> DEFINE p == From(xs, q + 1)
<1>2. /\ p \in Seq(Bytes) /\ Len(p) = Len(xs) - q
      /\ \A i \in 1 .. Len(xs) - q : p[i] = xs[q + i]
  <2>1. q + 1 \in 1 .. Len(xs) + 1
    BY <1>1
  <2>2. /\ p \in Seq(Bytes) /\ Len(p) = Len(xs) - (q + 1) + 1
        /\ \A i \in 1 .. Len(xs) - (q + 1) + 1 : p[i] = xs[q + 1 + i - 1]
    BY <2>1, Rest
  <2>3. Len(xs) - (q + 1) + 1 = Len(xs) - q /\ \A i \in 1 .. Len(xs) - q : q + 1 + i - 1 = q + i
    BY <1>1
  <2> QED
    BY <2>2, <2>3
<1>3. q < Len(xs) => ~FullRune(p)
  BY DEF HeldBack
<1> HIDE DEF p
<1>0. Size(p[1]) \in 1 .. 4
  BY SizeFacts
<1>4. q < Len(xs) => Continues(p) /\ Len(p) < Size(p[1])
  BY <1>0, <1>1, <1>2, <1>3 DEF FullRune
<1>5. Len(p) < 4
  BY <1>0, <1>1, <1>2, <1>4
<1>6. ASSUME NEW i \in q + 1 .. Len(xs) PROVE ByteGives(xs, i) = <<>>
  <2>0. i \in Int /\ q + 1 <= i /\ i <= Len(xs)
    BY <1>1
  <2>1. q < Len(xs) /\ i \in Nat /\ i \in 1 .. Len(xs) /\ q + 1 \in 1 .. i /\ q + 1 <= i
    BY <1>1, <2>0
  <2>2. ~FullRune(From(xs, q + 1))
    BY <1>3, <2>1 DEF p
  <2>3. ~Valid(From(xs, i))
    <3>1. CASE i = q + 1
      BY <2>2, <3>1 DEF FullRune, Valid
    <3>2. CASE i # q + 1
      <4>1. i - q \in 2 .. Len(p) /\ i - q \in 1 .. Len(xs) - q /\ q + (i - q) = i
        BY <1>1, <1>2, <2>0, <3>2
      <4>2. i - q <= Size(p[1])
        BY <1>0, <1>1, <1>2, <1>4, <2>0, <2>1
      <4>3. p[i - q] \in {"c", "d"}
        BY <1>4, <2>1, <4>1, <4>2 DEF Continues
      <4>4. xs[i] \in {"c", "d"}
        BY <1>2, <4>1, <4>3
      <4> QED
        BY <2>1, <4>4, Suffix
    <3> QED
      BY <3>1, <3>2
  <2> QED
    BY <2>1, <2>2, <2>3, ByteCases
<1> DEFINE s == Narrow(xs, q)
           t == Narrow(xs, Len(xs))
<1>7. /\ s \in Seq(Seq(Rune)) /\ Len(s) = q /\ \A i \in 1 .. q : s[i] = ByteGives(xs, i)
      /\ t \in Seq(Seq(Rune)) /\ Len(t) = Len(xs)
      /\ \A i \in 1 .. Len(xs) : t[i] = ByteGives(xs, i)
  <2>1. Len(xs) \in 0 .. Len(xs)
    BY <1>1
  <2> QED
    BY <1>1, <2>1, NarrowType
<1> HIDE DEF s, t
<1>8. FlattenSeq(t) = FlattenSeq(s)
  <2>1. Len(s) <= Len(t)
    BY <1>1, <1>7
  <2>2. \A i \in 1 .. Len(s) : t[i] = s[i]
    <3>1. \A i \in 1 .. q : i \in 1 .. Len(xs)
      BY <1>1
    <3> QED
      BY <1>7, <3>1
  <2>3. \A i \in Len(s) + 1 .. Len(t) : t[i] = <<>>
    <3>1. \A i \in q + 1 .. Len(xs) : i \in 1 .. Len(xs)
      BY <1>1
    <3> QED
      BY <1>6, <1>7, <3>1
  <2> QED
    BY <1>7, <2>1, <2>2, <2>3, FlattenEmpties
<1>9. t = [i \in DOMAIN xs |-> ByteGives(xs, i)]
  BY <1>1 DEF t, Narrow
<1>10. dst = FlattenSeq(s)
  BY DEF Written, s
<1> QED
  BY <1>5, <1>8, <1>9, <1>10 DEF p
-----------------------------------------------------------------------------
(***************************************************************************)
(* The encoder of UTF-8: its two loops.                                    *)
(***************************************************************************)
EncoderStates == [carry : Seq(Bytes), dst : Seq(Rune)]

(* One round of the second loop. *)
LEMMA TakeType ==
  ASSUME NEW y \in EncoderStates
  PROVE  Take(y) \in EncoderStates
<1> DEFINE r == DecodeRune(y.carry)
<1>1. y.carry \in Seq(Bytes) /\ y.dst \in Seq(Rune)
  BY DEF EncoderStates
<1>2. CASE y.carry = <<>> \/ ~FullRune(y.carry)
  BY <1>2 DEF Take
<1>3. CASE ~(y.carry = <<>> \/ ~FullRune(y.carry))
  <2>1. r \in Rune /\ Width(r) + 1 \in 1 .. Len(y.carry) + 1
    BY <1>1, <1>3, RuneFacts
  <2>2. From(y.carry, Width(r) + 1) \in Seq(Bytes)
    BY <1>1, <2>1, Rest
  <2>3. Append(y.dst, r) \in Seq(Rune)
    BY <1>1, <2>1, AppendProperties
  <2>4. Take(y) = [carry |-> From(y.carry, Width(r) + 1), dst |-> Append(y.dst, r)]
    BY <1>3 DEF Take
  <2> HIDE DEF r
  <2> QED
    BY <2>2, <2>3, <2>4 DEF EncoderStates
<1> QED
  BY <1>2, <1>3

(* The second loop leaves only the start of a character. *)
LEMMA EncodesRest ==
  ASSUME NEW xs \in Seq(Bytes), NEW q \in 0 .. Len(xs), NEW dst \in Seq(Rune),
         Written(xs, q, dst)
  PROVE  EncoderOK(xs, Encodes(dst, From(xs, q + 1)))
<1> DEFINE p == From(xs, q + 1)
           n == Len(p)
           D == EncoderStates
           f == [carry |-> p, dst |-> dst]
           step == [x \in D \X (1 .. n) |-> Take(x[1])]
<1>1. /\ Len(xs) \in Nat /\ q \in Nat /\ p \in Seq(Bytes) /\ n = Len(xs) - q /\ n \in Nat
  <2>1. /\ q + 1 \in 1 .. Len(xs) + 1 /\ Len(xs) - (q + 1) + 1 = Len(xs) - q
        /\ Len(xs) \in Nat /\ q \in Nat /\ Len(xs) - q \in Nat
    OBVIOUS
  <2>2. p \in Seq(Bytes) /\ Len(p) = Len(xs) - (q + 1) + 1
    BY <2>1, Rest
  <2> HIDE DEF p
  <2> QED
    BY <2>1, <2>2
<1> HIDE DEF p
<1>2. f \in D /\ f.carry = p /\ f.dst = dst
  BY <1>1 DEF EncoderStates
<1>3. \A y \in D, i \in 1 .. n : step[<<y, i>>] = Take(y)
  OBVIOUS
<1> HIDE DEF step, f
<1>4. PICK g : Iterates(g, n, D, f, step)
  <2>1. \A y \in D, i \in 1 .. n : step[<<y, i>>] \in D
    BY <1>3, TakeType
  <2> HIDE DEF n, D
  <2> QED
    BY <1>1, <1>2, <2>1, Recursion
<1> DEFINE P(h) == h = [i \in 0 .. Len(p) |-> IF i = 0 THEN f ELSE Take(h[i - 1])]
           c == CHOOSE h : P(h)
<1>5. P(g)
  <2>1. ASSUME NEW i \in 1 .. n PROVE g[i] = Take(g[i - 1])
    <3>1. i - 1 \in 0 .. n
      BY <1>1
    <3> QED
      BY <1>3, <1>4, <3>1 DEF Iterates
  <2>2. \A i \in 0 .. n : g[i] = IF i = 0 THEN f ELSE Take(g[i - 1])
    BY <1>1, <1>4, <2>1 DEF Iterates
  <2> QED
    BY <1>4, <2>2 DEF Iterates
<1>6. P(c)
  <2> HIDE DEF P
  <2> QED
    BY <1>5
<1>7. Encodes(dst, p) = c[n]
  BY DEF Encodes, Loop, f
<1> HIDE DEF c
<1>8. \A i \in 0 .. n : c[i] = IF i = 0 THEN f ELSE Take(c[i - 1])
  BY <1>6
<1> HIDE DEF P
<1> DEFINE At2(s, i, k) == /\ s.carry = From(xs, k + 1) /\ Written(xs, k, s.dst)
                           /\ k >= q + i \/ HeldBack(xs, k)
           S == {i \in 0 .. n : c[i] \in D /\ \E k \in 0 .. Len(xs) : At2(c[i], i, k)}
<1>9. 0 \in S
  <2>1. 0 \in 0 .. n /\ c[0] = f
    BY <1>1, <1>8
  <2>2. At2(f, 0, q)
    BY <1>1, <1>2 DEF p
  <2> HIDE DEF At2
  <2> QED
    BY <1>2, <2>1, <2>2
<1>10. ASSUME NEW i \in 0 .. n - 1, i \in S
       PROVE  i + 1 \in S
  <2>1. i + 1 \in 0 .. n /\ i + 1 # 0 /\ (i + 1) - 1 = i /\ i \in Nat
    BY <1>1
  <2> DEFINE s == c[i]
  <2>2. s \in D /\ c[i + 1] = Take(s)
    BY <1>8, <1>10, <2>1
  <2>3. PICK k \in 0 .. Len(xs) : At2(s, i, k)
    BY <1>10
  <2> HIDE DEF s
  <2>4. Take(s) \in D
    BY <2>2, TakeType
  <2>5. /\ s.carry \in Seq(Bytes) /\ s.dst \in Seq(Rune) /\ Len(s.carry) = Len(xs) - k /\ k \in Nat
    <3>1. k + 1 \in 1 .. Len(xs) + 1 /\ Len(xs) - (k + 1) + 1 = Len(xs) - k /\ k \in Nat
      BY <1>1
    <3>2. s.carry = From(xs, k + 1)
      BY <2>3
    <3>3. Len(From(xs, k + 1)) = Len(xs) - (k + 1) + 1
      BY <3>1, Rest
    <3>4. s.carry \in Seq(Bytes) /\ s.dst \in Seq(Rune)
      BY <2>2 DEF EncoderStates
    <3> QED
      BY <3>1, <3>2, <3>3, <3>4
  <2>6. CASE s.carry = <<>> \/ ~FullRune(s.carry)
    <3>1. Take(s) = s
      BY <2>6 DEF Take
    <3>2. HeldBack(xs, k)
      <4>1. CASE s.carry = <<>>
        <5>1. Len(s.carry) = 0
          BY <4>1
        <5> QED
          BY <1>1, <2>5, <5>1 DEF HeldBack
      <4>2. CASE ~FullRune(s.carry)
        BY <2>3, <4>2 DEF HeldBack
      <4> QED
        BY <2>6, <4>1, <4>2
    <3>3. At2(s, i + 1, k)
      BY <2>3, <3>2
    <3> HIDE DEF At2
    <3> QED
      BY <2>1, <2>2, <3>1, <3>3
  <2>7. CASE ~(s.carry = <<>> \/ ~FullRune(s.carry))
    <3> DEFINE r == DecodeRune(s.carry)
               w == Width(r)
    <3>1. k < Len(xs) /\ FullRune(From(xs, k + 1))
      BY <1>1, <2>3, <2>5, <2>7
    <3>2. /\ k + w \in 0 .. Len(xs) /\ w >= 1 /\ Written(xs, k + w, Append(s.dst, r))
      BY <2>3, <3>1, WrittenMore
    <3>3. w \in 1 .. 4
      BY <2>5, RuneFacts
    <3>4. Take(s) = [carry |-> From(s.carry, w + 1), dst |-> Append(s.dst, r)]
      BY <2>7 DEF Take
    <3> HIDE DEF r, w
    <3>5. w \in 0 .. Len(xs) - k
      BY <1>1, <2>5, <3>2, <3>3
    <3>6. From(s.carry, w + 1) = From(xs, (k + w) + 1)
      BY <2>3, <3>5, RestOfRest
    <3>7. k >= q + i
      BY <2>3, <3>1 DEF HeldBack
    <3>8. k + w >= q + (i + 1)
      BY <1>1, <2>1, <2>5, <3>3, <3>7
    <3>9. Take(s).carry = From(xs, (k + w) + 1) /\ Take(s).dst = Append(s.dst, r)
      BY <3>4, <3>6
    <3>10. At2(Take(s), i + 1, k + w)
      BY <3>2, <3>8, <3>9
    <3> HIDE DEF At2
    <3> QED
      BY <2>1, <2>2, <2>4, <3>2, <3>10
  <2> QED
    BY <2>6, <2>7
<1>11. n \in S
  <2> HIDE DEF S, n
  <2>1. \A i \in 0 .. n : i \in S
    BY <1>1, <1>9, <1>10, InductionTo
  <2> QED
    BY <1>1, <2>1
<1>12. PICK k \in 0 .. Len(xs) : At2(c[n], n, k)
  BY <1>11
<1>13. HeldBack(xs, k)
  <2>1. q + n = Len(xs)
    BY <1>1
  <2> QED
    BY <1>1, <1>12, <2>1 DEF HeldBack
<1>14. c[n] \in D
  BY <1>11
<1> HIDE DEF n
<1>15. EncoderOK(xs, c[n])
  BY <1>12, <1>13, <1>14 DEF EncoderOK, EncoderStates
<1> QED
  BY <1>7, <1>15 DEF p

(* The carried bytes, joined with the first of the piece. *)
Joined(c, p) == c \o SubSeq(p, 1, IF Len(p) < 4 THEN Len(p) ELSE 4)

(* The joined bytes decide about a carried one as the whole input would. *)
LEMMA JoinedRune ==
  ASSUME NEW xs \in Seq(Bytes), NEW p \in Seq(Bytes), NEW q \in 0 .. Len(xs),
         NEW u \in 0 .. Len(xs) - q - 1
  PROVE  LET x == From(Joined(From(xs, q + 1), p), u + 1)
             y == From(xs \o p, (q + u) + 1)
         IN  /\ x \in Seq(Bytes) /\ y \in Seq(Bytes) /\ q + u < Len(xs \o p)
             /\ FullRune(x) <=> FullRune(y)
             /\ DecodeRune(x) = DecodeRune(y)
             /\ ~FullRune(x) => x = y
<1> DEFINE c == From(xs, q + 1)
           m == IF Len(p) < 4 THEN Len(p) ELSE 4
           b == SubSeq(p, 1, m)
           j == c \o b
           a == xs \o p
           x == From(j, u + 1)
           y == From(a, (q + u) + 1)
<1>1. /\ Len(xs) \in Nat /\ Len(p) \in Nat /\ q \in Nat /\ u \in Nat /\ m \in 0 .. Len(p)
      /\ q + 1 \in 1 .. Len(xs) + 1 /\ Len(xs) - (q + 1) + 1 = Len(xs) - q
      /\ Len(p) = m \/ m >= 4
  OBVIOUS
<1> HIDE DEF m
<1>2. /\ c \in Seq(Bytes) /\ Len(c) = Len(xs) - q
      /\ \A i \in 1 .. Len(xs) - q : c[i] = xs[q + 1 + i - 1]
  BY <1>1, Rest
<1>3. b \in Seq(Bytes) /\ Len(b) = m /\ \A i \in 1 .. m : b[i] = p[i]
  BY <1>1, Start
<1> HIDE DEF c, b
<1>4. /\ j \in Seq(Bytes) /\ Len(j) = Len(c) + Len(b)
      /\ \A i \in 1 .. Len(c) + Len(b) : j[i] = IF i <= Len(c) THEN c[i] ELSE b[i - Len(c)]
  BY <1>2, <1>3, ConcatProperties
<1>5. /\ a \in Seq(Bytes) /\ Len(a) = Len(xs) + Len(p)
      /\ \A i \in 1 .. Len(xs) + Len(p) : a[i] = IF i <= Len(xs) THEN xs[i] ELSE p[i - Len(xs)]
  BY ConcatProperties
<1> HIDE DEF j, a
<1>6. ASSUME NEW i \in 1 .. Len(j) PROVE j[i] = a[q + i] /\ q + i \in 1 .. Len(a)
  <2>1. i \in Nat /\ i >= 1 /\ i \in 1 .. Len(c) + Len(b) /\ q + i \in 1 .. Len(xs) + Len(p)
    BY <1>1, <1>2, <1>3, <1>4
  <2>2. CASE i <= Len(c)
    <3>1. i \in 1 .. Len(xs) - q /\ q + 1 + i - 1 = q + i /\ q + i <= Len(xs)
      BY <1>1, <1>2, <2>1, <2>2
    <3>2. j[i] = c[i] /\ c[i] = xs[q + i]
      BY <1>2, <1>4, <2>1, <2>2, <3>1
    <3> QED
      BY <1>5, <2>1, <3>1, <3>2
  <2>3. CASE ~(i <= Len(c))
    <3>1. i - Len(c) \in 1 .. m /\ q + i - Len(xs) = i - Len(c) /\ ~(q + i <= Len(xs))
      BY <1>1, <1>2, <1>3, <1>4, <2>1, <2>3
    <3>2. j[i] = b[i - Len(c)] /\ b[i - Len(c)] = p[i - Len(c)]
      BY <1>3, <1>4, <2>1, <2>3, <3>1
    <3>3. a[q + i] = p[q + i - Len(xs)]
      BY <1>5, <2>1, <3>1
    <3> QED
      BY <1>5, <2>1, <3>1, <3>2, <3>3
  <2> QED
    BY <2>2, <2>3
<1>7. /\ u + 1 \in 1 .. Len(j) /\ (q + u) + 1 \in 1 .. Len(a)
      /\ Len(j) - (u + 1) + 1 = Len(j) - u /\ Len(a) - ((q + u) + 1) + 1 = Len(a) - q - u
  BY <1>1, <1>2, <1>3, <1>4, <1>5
<1>8. /\ x \in Seq(Bytes) /\ Len(x) = Len(j) - u /\ x # <<>>
      /\ \A i \in 1 .. Len(j) - u : x[i] = j[u + 1 + i - 1]
  BY <1>4, <1>7, Suffix, ZenonT(30)
<1>9. /\ y \in Seq(Bytes) /\ Len(y) = Len(a) - q - u
      /\ \A i \in 1 .. Len(a) - q - u : y[i] = a[(q + u) + 1 + i - 1]
  BY <1>5, <1>7, Suffix, ZenonT(30)
<1> HIDE DEF x, y
<1>10. Len(x) <= Len(y) /\ (Len(x) = Len(y) \/ Len(x) >= 4)
  <2>1. m \in Nat /\ m <= Len(p) /\ u <= Len(xs) - q - 1
    BY <1>1
  <2>2. Len(x) = Len(xs) - q + m - u /\ Len(y) = Len(xs) + Len(p) - q - u
    BY <1>1, <1>2, <1>3, <1>4, <1>5, <1>8, <1>9, <2>1
  <2> QED
    BY <1>1, <2>1, <2>2
<1>11. ASSUME NEW i \in 1 .. Len(x) PROVE x[i] = y[i]
  <2>1. /\ i \in 1 .. Len(j) - u /\ i \in 1 .. Len(a) - q - u /\ u + 1 + i - 1 \in 1 .. Len(j)
        /\ q + (u + 1 + i - 1) = (q + u) + 1 + i - 1
    BY <1>1, <1>4, <1>5, <1>7, <1>8, <1>9, <1>10
  <2>2. x[i] = j[u + 1 + i - 1]
    BY <1>8, <2>1
  <2>3. j[u + 1 + i - 1] = a[q + (u + 1 + i - 1)]
    BY <1>6, <2>1
  <2>4. y[i] = a[(q + u) + 1 + i - 1]
    BY <1>9, <2>1
  <2> QED
    BY <2>1, <2>2, <2>3, <2>4
<1>12. /\ FullRune(x) <=> FullRune(y)
       /\ DecodeRune(x) = DecodeRune(y)
  BY <1>8, <1>9, <1>10, <1>11, SameRune
<1>13. ASSUME ~FullRune(x) PROVE x = y
  <2>1. Size(x[1]) \in 1 .. 4 /\ Len(x) \in Nat
    BY <1>8, SizeFacts
  <2>2. Len(x) < Size(x[1])
    BY <1>13, <2>1 DEF FullRune
  <2>3. Len(x) = Len(y)
    BY <1>10, <2>1, <2>2
  <2> QED
    BY <1>8, <1>9, <1>11, <2>3, SeqEqual
<1>14. q + u < Len(a)
  BY <1>1, <1>5
<1>15. x = From(Joined(From(xs, q + 1), p), u + 1) /\ y = From(xs \o p, (q + u) + 1) /\ a = xs \o p
  BY DEF x, y, j, b, c, m, a, Joined
<1> QED
  BY <1>8, <1>9, <1>12, <1>13, <1>14, <1>15

(* The rest of the piece is the rest of the input. *)
LEMMA PieceRest ==
  ASSUME NEW xs \in Seq(Bytes), NEW p \in Seq(Bytes), NEW k \in Len(xs) .. Len(xs) + Len(p)
  PROVE  From(p, k - Len(xs) + 1) = From(xs \o p, k + 1)
<1> DEFINE a == xs \o p
           x == From(p, k - Len(xs) + 1)
           y == From(a, k + 1)
<1>1. /\ Len(xs) \in Nat /\ Len(p) \in Nat /\ k \in Nat
      /\ k - Len(xs) + 1 \in 1 .. Len(p) + 1
      /\ Len(p) - (k - Len(xs) + 1) + 1 = Len(xs) + Len(p) - k
  OBVIOUS
<1>2. /\ x \in Seq(Bytes) /\ Len(x) = Len(xs) + Len(p) - k
      /\ \A i \in 1 .. Len(xs) + Len(p) - k : x[i] = p[k - Len(xs) + 1 + i - 1]
  BY <1>1, Rest
<1>3. /\ a \in Seq(Bytes) /\ Len(a) = Len(xs) + Len(p)
      /\ \A i \in 1 .. Len(xs) + Len(p) : a[i] = IF i <= Len(xs) THEN xs[i] ELSE p[i - Len(xs)]
  BY ConcatProperties
<1> HIDE DEF a, x
<1>4. k + 1 \in 1 .. Len(a) + 1 /\ Len(a) - (k + 1) + 1 = Len(xs) + Len(p) - k
  BY <1>1, <1>3
<1>5. /\ y \in Seq(Bytes) /\ Len(y) = Len(xs) + Len(p) - k
      /\ \A i \in 1 .. Len(xs) + Len(p) - k : y[i] = a[k + 1 + i - 1]
  BY <1>3, <1>4, Rest
<1> HIDE DEF y
<1>6. ASSUME NEW i \in 1 .. Len(x) PROVE x[i] = y[i]
  <2>1. /\ i \in 1 .. Len(xs) + Len(p) - k /\ k + 1 + i - 1 \in 1 .. Len(xs) + Len(p)
        /\ ~(k + 1 + i - 1 <= Len(xs)) /\ (k + 1 + i - 1) - Len(xs) = k - Len(xs) + 1 + i - 1
    BY <1>1, <1>2
  <2>2. y[i] = a[k + 1 + i - 1]
    BY <1>5, <2>1
  <2>3. a[k + 1 + i - 1] = p[(k + 1 + i - 1) - Len(xs)]
    BY <1>3, <2>1
  <2>4. x[i] = p[k - Len(xs) + 1 + i - 1]
    BY <1>2, <2>1
  <2> QED
    BY <2>1, <2>2, <2>3, <2>4
<1>7. x = y
  BY <1>2, <1>5, <1>6, SeqEqual
<1> QED
  BY <1>7 DEF x, y, a

JoinStates == [used : Nat, dst : Seq(Rune), stop : BOOLEAN]

(* How far the first loop got on the input a, of which q bytes were done. *)
JoinOK(a, q, joined, n, i, s) ==
  /\ s \in JoinStates
  /\ Written(a, q + s.used, s.dst)
  /\ s.stop => s.used < n /\ ~FullRune(From(joined, s.used + 1))
  /\ ~s.stop => s.used >= i

(* One round of the first loop. *)
LEMMA JoinRound ==
  ASSUME NEW xs \in Seq(Bytes), NEW p \in Seq(Bytes), NEW q \in 0 .. Len(xs),
         NEW i \in 0 .. Len(xs) - q - 1, NEW s, NEW j, NEW n,
         j = Joined(From(xs, q + 1), p), n = Len(xs) - q,
         JoinOK(xs \o p, q, j, n, i, s)
  PROVE  JoinOK(xs \o p, q, j, n, i + 1, TakeJoined(j, n, s))
<1> DEFINE a == xs \o p
           u == s.used
           x == From(j, u + 1)
           r == DecodeRune(x)
           w == Width(r)
<1>1. /\ a \in Seq(Bytes) /\ q \in Nat /\ i \in Nat /\ n \in Nat /\ i + 1 <= n
  BY ConcatProperties
<1>2. s \in JoinStates /\ u \in Nat /\ s.dst \in Seq(Rune) /\ s.stop \in BOOLEAN
  BY DEF JoinOK, JoinStates
<1> HIDE DEF a
<1>3. CASE s.stop
  BY <1>3 DEF JoinOK, TakeJoined
<1>4. CASE ~s.stop /\ u >= n
  BY <1>1, <1>2, <1>4 DEF JoinOK, TakeJoined
<1>5. CASE ~s.stop /\ ~(u >= n)
  <2>1. u \in 0 .. Len(xs) - q - 1 /\ u < n
    BY <1>1, <1>2, <1>5
  <2>2. /\ FullRune(x) <=> FullRune(From(a, (q + u) + 1))
        /\ r = DecodeRune(From(a, (q + u) + 1)) /\ q + u < Len(a)
    BY <2>1, JoinedRune DEF a
  <2>3. Written(a, q + u, s.dst) /\ u >= i
    BY <1>5 DEF JoinOK, a
  <2>4. CASE ~FullRune(x)
    <3>1. TakeJoined(j, n, s) = [s EXCEPT !.stop = TRUE]
      BY <1>5, <2>4 DEF TakeJoined
    <3>2. /\ [s EXCEPT !.stop = TRUE] \in JoinStates /\ [s EXCEPT !.stop = TRUE].used = u
          /\ [s EXCEPT !.stop = TRUE].dst = s.dst /\ [s EXCEPT !.stop = TRUE].stop = TRUE
      BY <1>2 DEF JoinStates
    <3> QED
      BY <2>1, <2>3, <2>4, <3>1, <3>2 DEF JoinOK, a
  <2>5. CASE FullRune(x)
    <3>1. w >= 1 /\ r \in Rune /\ Written(a, (q + u) + w, Append(s.dst, r))
      BY <1>1, <2>2, <2>3, <2>5, WrittenMore
    <3>2. w \in 1 .. 4
      <4>1. x \in Seq(Bytes)
        BY <2>1, JoinedRune
      <4> QED
        BY <4>1, RuneFacts
    <3>3. TakeJoined(j, n, s) = [s EXCEPT !.used = @ + w, !.dst = Append(@, r)]
      BY <1>5, <2>5 DEF TakeJoined
    <3> DEFINE z == [s EXCEPT !.used = @ + w, !.dst = Append(@, r)]
    <3> HIDE DEF w, r
    <3>4. Append(s.dst, r) \in Seq(Rune) /\ u + w \in Nat
      BY <1>2, <3>1, <3>2, AppendProperties
    <3>5. z \in JoinStates /\ z.used = u + w /\ z.dst = Append(s.dst, r) /\ z.stop = s.stop
      BY <1>2, <3>4 DEF JoinStates
    <3> HIDE DEF z
    <3>6. Written(a, q + z.used, z.dst) /\ z.used >= i + 1 /\ ~z.stop
      <4>1. (q + u) + w = q + (u + w) /\ u + w >= i + 1
        BY <1>1, <1>2, <2>3, <3>2, SMTT(30)
      <4> QED
        BY <1>5, <3>1, <3>5, <4>1
    <3>7. JoinOK(a, q, j, n, i + 1, z)
      BY <3>5, <3>6 DEF JoinOK
    <3> QED
      BY <3>3, <3>7 DEF z, a
  <2> QED
    BY <2>4, <2>5
<1> QED
  BY <1>3, <1>4, <1>5

(* A call of append leaves only the start of a character. *)
LEMMA EncodeRounds ==
  ASSUME NEW xs \in Seq(Bytes), NEW p \in Seq(Bytes), NEW e, EncoderOK(xs, e)
  PROVE  EncoderOK(xs \o p, encode(e, p))
<1>1. e \in [carry : Seq(Bytes), dst : Seq(Rune)] /\ e.carry \in Seq(Bytes) /\ e.dst \in Seq(Rune)
  BY DEF EncoderOK
<1>2. PICK q \in 0 .. Len(xs) : e.carry = From(xs, q + 1) /\ Written(xs, q, e.dst)
  BY DEF EncoderOK
<1> DEFINE a == xs \o p
           joined == Joined(e.carry, p)
           n == Len(e.carry)
           D == JoinStates
           f == [used |-> 0, dst |-> e.dst, stop |-> FALSE]
           step == [x \in D \X (1 .. n) |-> TakeJoined(joined, n, x[1])]
<1>3. /\ Len(xs) \in Nat /\ Len(p) \in Nat /\ q \in Nat /\ n \in Nat /\ n = Len(xs) - q
      /\ a \in Seq(Bytes) /\ Len(a) = Len(xs) + Len(p) /\ joined = Joined(From(xs, q + 1), p)
  <2>1. q + 1 \in 1 .. Len(xs) + 1 /\ Len(xs) - (q + 1) + 1 = Len(xs) - q
    OBVIOUS
  <2>2. Len(From(xs, q + 1)) = Len(xs) - q
    BY <2>1, Rest
  <2> QED
    BY <1>1, <1>2, <2>2, ConcatProperties
<1>4. f \in D /\ f.used = 0 /\ f.dst = e.dst /\ f.stop = FALSE
  BY <1>1 DEF JoinStates
<1>5. \A y \in D, i \in 1 .. n : step[<<y, i>>] = TakeJoined(joined, n, y)
  OBVIOUS
<1> DEFINE back == LET j == Loop(LAMBDA s, i : TakeJoined(joined, n, s), f, e.carry)
                   IN  IF j.stop THEN [carry |-> From(joined, j.used + 1), dst |-> j.dst]
                       ELSE Encodes(j.dst, From(p, j.used - n + 1))
<1>6. encode(e, p) = back
  BY DEF encode, Joined
<1> HIDE DEF step, f, joined
<1>7. ASSUME NEW y \in D PROVE TakeJoined(joined, n, y) \in D
  <2>1. y.used \in Nat /\ y.dst \in Seq(Rune) /\ y.stop \in BOOLEAN
    BY DEF JoinStates
  <2>2. CASE y.stop \/ y.used >= n
    BY <2>2 DEF TakeJoined
  <2>3. CASE ~(y.stop \/ y.used >= n)
    <3> DEFINE x == From(joined, y.used + 1)
               r == DecodeRune(x)
               w == Width(r)
    <3>1. y.used \in 0 .. Len(xs) - q - 1
      BY <1>3, <2>1, <2>3
    <3>2. x \in Seq(Bytes)
      BY <1>3, <3>1, JoinedRune
    <3>3. r \in Rune /\ w \in 1 .. 4
      BY <3>2, RuneFacts
    <3>4. \/ TakeJoined(joined, n, y) = [y EXCEPT !.stop = TRUE]
          \/ TakeJoined(joined, n, y) = [y EXCEPT !.used = @ + w, !.dst = Append(@, r)]
      BY <2>3 DEF TakeJoined
    <3> HIDE DEF w, r
    <3>5. Append(y.dst, r) \in Seq(Rune) /\ y.used + w \in Nat
      BY <2>1, <3>3, AppendProperties
    <3> QED
      BY <3>4, <3>5 DEF JoinStates
  <2> QED
    BY <2>2, <2>3
<1>8. PICK g : Iterates(g, n, D, f, step)
  <2>1. \A y \in D, i \in 1 .. n : step[<<y, i>>] \in D
    BY <1>5, <1>7
  <2> HIDE DEF n, D
  <2> QED
    BY <1>3, <1>4, <2>1, Recursion
<1> DEFINE P(h) == h = [i \in 0 .. Len(e.carry) |-> IF i = 0 THEN f
                                                    ELSE TakeJoined(joined, n, h[i - 1])]
           c == CHOOSE h : P(h)
<1>9. P(g)
  <2>1. ASSUME NEW i \in 1 .. n PROVE g[i] = TakeJoined(joined, n, g[i - 1])
    <3>1. i - 1 \in 0 .. n
      BY <1>3
    <3> QED
      BY <1>5, <1>8, <3>1 DEF Iterates
  <2>2. \A i \in 0 .. n : g[i] = IF i = 0 THEN f ELSE TakeJoined(joined, n, g[i - 1])
    BY <1>3, <1>8, <2>1 DEF Iterates
  <2> QED
    BY <1>8, <2>2 DEF Iterates
<1>10. P(c)
  <2> HIDE DEF P
  <2> QED
    BY <1>9
<1>11. back = IF c[n].stop THEN [carry |-> From(joined, c[n].used + 1), dst |-> c[n].dst]
              ELSE Encodes(c[n].dst, From(p, c[n].used - n + 1))
  BY DEF Loop
<1> HIDE DEF c, back
<1>12. \A i \in 0 .. n : c[i] = IF i = 0 THEN f ELSE TakeJoined(joined, n, c[i - 1])
  BY <1>10
<1> HIDE DEF P
<1> DEFINE S == {i \in 0 .. n : JoinOK(a, q, joined, n, i, c[i])}
<1>13. 0 \in S
  <2>1. 0 \in 0 .. n /\ c[0] = f
    BY <1>3, <1>12
  <2>2. Written(a, q, e.dst)
    BY <1>2, WrittenKept
  <2>3. q + 0 = q
    BY <1>3
  <2>4. JoinOK(a, q, joined, n, 0, f)
    BY <1>4, <2>2, <2>3 DEF JoinOK
  <2> QED
    BY <2>1, <2>4
<1>14. ASSUME NEW i \in 0 .. n - 1, i \in S PROVE i + 1 \in S
  <2>1. i + 1 \in 0 .. n /\ i + 1 # 0 /\ (i + 1) - 1 = i /\ i \in 0 .. Len(xs) - q - 1
    BY <1>3
  <2>2. c[i + 1] = TakeJoined(joined, n, c[i])
    BY <1>12, <2>1
  <2>3. JoinOK(a, q, joined, n, i, c[i])
    BY <1>14
  <2> HIDE DEF n, a
  <2>4. JoinOK(a, q, joined, n, i + 1, TakeJoined(joined, n, c[i]))
    BY <1>3, <2>1, <2>3, JoinRound DEF a
  <2> QED
    BY <2>1, <2>2, <2>4
<1>15. n \in S
  <2> HIDE DEF S, n
  <2>1. \A i \in 0 .. n : i \in S
    BY <1>3, <1>13, <1>14, InductionTo
  <2> QED
    BY <1>3, <2>1
<1> DEFINE s == c[n]
           k == q + s.used
<1>16. JoinOK(a, q, joined, n, n, s)
  BY <1>15
<1> HIDE DEF n, a, s
<1>17. s.used \in Nat /\ s.dst \in Seq(Rune) /\ s.stop \in BOOLEAN
  BY <1>16 DEF JoinOK, JoinStates
<1>18. k \in 0 .. Len(a) /\ Written(a, k, s.dst)
  BY <1>16 DEF JoinOK, Written
<1>19. CASE s.stop
  <2>1. s.used \in 0 .. Len(xs) - q - 1 /\ ~FullRune(From(joined, s.used + 1))
    BY <1>3, <1>16, <1>17, <1>19 DEF JoinOK
  <2>2. From(joined, s.used + 1) = From(a, k + 1) /\ ~FullRune(From(a, k + 1))
        /\ From(a, k + 1) \in Seq(Bytes)
    BY <1>3, <2>1, JoinedRune DEF a
  <2>3. back = [carry |-> From(a, k + 1), dst |-> s.dst]
    BY <1>11, <1>19, <2>2 DEF s
  <2>4. back.carry = From(a, k + 1) /\ back.dst = s.dst
        /\ back \in [carry : Seq(Bytes), dst : Seq(Rune)]
    BY <1>17, <2>2, <2>3
  <2>5. HeldBack(a, k)
    BY <2>2 DEF HeldBack
  <2> HIDE DEF k
  <2>6. EncoderOK(a, back)
    BY <1>18, <2>4, <2>5 DEF EncoderOK
  <2> QED
    BY <1>6, <2>6 DEF a
<1>20. CASE ~s.stop
  <2>1. s.used >= n
    BY <1>16, <1>20 DEF JoinOK
  <2>2. k \in Len(xs) .. Len(xs) + Len(p) /\ k - Len(xs) = s.used - n
    BY <1>3, <1>17, <1>18, <2>1, SMTT(30)
  <2> HIDE DEF k
  <2>3. From(p, k - Len(xs) + 1) = From(a, k + 1)
    BY <2>2, PieceRest DEF a
  <2>4. back = Encodes(s.dst, From(a, k + 1))
    BY <1>11, <1>20, <2>2, <2>3 DEF s
  <2>5. EncoderOK(a, Encodes(s.dst, From(a, k + 1)))
    BY <1>3, <1>17, <1>18, EncodesRest
  <2> QED
    BY <1>6, <2>4, <2>5 DEF a
<1> QED
  BY <1>17, <1>19, <1>20
-----------------------------------------------------------------------------
(***************************************************************************)
(* The chunks the encoder's units are written in.                          *)
(***************************************************************************)
(* Every high surrogate is followed by its low one. *)
Paired(us) ==
  us \in Seq(Units) /\ \A i \in 1 .. Len(us) : us[i] = "H" => i < Len(us) /\ us[i + 1] = "L"

PieceUnits == {<<"H", "L">>, <<"u">>}

(* The units of one character. *)
LEMMA PieceFacts ==
  ASSUME NEW x \in PieceUnits
  PROVE  /\ x \in Seq(Units)
         /\ \/ Len(x) = 1 /\ x[1] = "u"
            \/ Len(x) = 2 /\ x[1] = "H" /\ x[2] = "L"
<1> DEFINE one == <<"u">>
           two == <<"H", "L">>
<1>1. one \in Seq(Units) /\ Len(one) = 1 /\ one[1] = "u"
  BY DEF Units
<1>2. two \in Seq(Units) /\ Len(two) = 2 /\ two[1] = "H" /\ two[2] = "L"
  BY DEF Units
<1>3. x = one \/ x = two
  BY DEF PieceUnits
<1> HIDE DEF one, two
<1> QED
  BY <1>1, <1>2, <1>3

(* One more character's units. *)
LEMMA PairedMore ==
  ASSUME NEW us, Paired(us), NEW x \in PieceUnits
  PROVE  Paired(us \o x) /\ Len(us \o x) >= Len(us) + 1
<1> DEFINE t == us \o x
<1>1. /\ us \in Seq(Units) /\ Len(us) \in Nat
      /\ \A i \in 1 .. Len(us) : us[i] = "H" => i < Len(us) /\ us[i + 1] = "L"
  BY DEF Paired
<1>2. /\ x \in Seq(Units)
      /\ \/ Len(x) = 1 /\ x[1] = "u"
         \/ Len(x) = 2 /\ x[1] = "H" /\ x[2] = "L"
  BY PieceFacts
<1>3. /\ t \in Seq(Units) /\ Len(t) = Len(us) + Len(x)
      /\ \A i \in 1 .. Len(us) + Len(x) : t[i] = IF i <= Len(us) THEN us[i] ELSE x[i - Len(us)]
  BY <1>1, <1>2, ConcatProperties
<1> HIDE DEF t
<1>4. ASSUME NEW i \in 1 .. Len(t), t[i] = "H" PROVE i < Len(t) /\ t[i + 1] = "L"
  <2>1. i \in 1 .. Len(us) + Len(x) /\ i \in Nat /\ i >= 1 /\ i <= Len(us) + Len(x)
    BY <1>1, <1>2, <1>3
  <2>2. CASE i <= Len(us)
    <3>1. us[i] = "H" /\ i \in 1 .. Len(us)
      BY <1>3, <1>4, <2>1, <2>2
    <3>2. i < Len(us) /\ us[i + 1] = "L"
      BY <1>1, <3>1
    <3>3. i + 1 \in 1 .. Len(us) + Len(x) /\ i + 1 <= Len(us)
      BY <1>1, <1>2, <2>1, <3>2
    <3> QED
      BY <1>1, <1>2, <1>3, <3>2, <3>3
  <2>3. CASE ~(i <= Len(us))
    <3>1. x[i - Len(us)] = "H"
      BY <1>3, <1>4, <2>1, <2>3
    <3>2. i - Len(us) = 1 \/ i - Len(us) = 2
      <4>1. Len(x) = 1 \/ Len(x) = 2
        BY <1>2
      <4>2. i \in Nat /\ i >= 1 /\ i <= Len(us) + Len(x) /\ Len(us) \in Nat /\ i > Len(us)
        BY <1>1, <2>1, <2>3
      <4>3. CASE Len(x) = 1
        BY <4>2, <4>3
      <4>4. CASE Len(x) = 2
        BY <4>2, <4>4
      <4> QED
        BY <4>1, <4>3, <4>4
    <3>3. i - Len(us) = 1 /\ Len(x) = 2 /\ x[2] = "L"
      BY <1>1, <1>2, <2>1, <2>3, <3>1, <3>2
    <3>4. i + 1 \in 1 .. Len(us) + Len(x) /\ ~(i + 1 <= Len(us)) /\ i + 1 - Len(us) = 2
      BY <1>1, <2>1, <3>3
    <3> QED
      BY <1>1, <1>3, <3>3, <3>4
  <2> QED
    BY <2>2, <2>3
<1>5. Len(t) >= Len(us) + 1
  BY <1>1, <1>2, <1>3
<1> QED
  BY <1>3, <1>4, <1>5 DEF Paired, t

(* The units of characters are paired, and there are some. *)
LEMMA UnitsPaired ==
  ASSUME NEW rs \in Seq(Rune), rs # <<>>
  PROVE  Paired(UnitsOf(rs)) /\ Len(UnitsOf(rs)) >= 1
<1> DEFINE s == [k \in DOMAIN rs |-> IF Len(rs[k]) = 4 THEN <<"H", "L">> ELSE <<"u">>]
           n == Len(rs)
<1>0. n \in Nat /\ n >= 1 /\ DOMAIN rs = 1 .. n
  OBVIOUS
<1>1. \A x \in PieceUnits : x \in Seq(Units)
  BY PieceFacts
<1>2. \A i \in 1 .. n : s[i] \in PieceUnits
  BY <1>0 DEF PieceUnits
<1>3. UnitsOf(rs) = FlattenSeq(s)
  BY DEF UnitsOf
<1>4. s \in Seq(Seq(Units)) /\ Len(s) = n
  <2>1. DOMAIN s = 1 .. n /\ s = [k \in 1 .. n |-> s[k]]
    BY <1>0
  <2>2. \A k \in 1 .. n : s[k] \in Seq(Units)
    BY <1>1, <1>2
  <2>3. s \in [1 .. n -> Seq(Units)]
    BY <2>1, <2>2
  <2> HIDE DEF s, n
  <2> QED
    BY <1>0, <2>3
<1> HIDE DEF s, n
<1>5. PICK g \in [0 .. Len(s) -> Seq(Units)] :
        g[0] = <<>> /\ \A i \in 1 .. Len(s) : g[i] = g[i - 1] \o s[i]
  BY <1>4, Joins
<1>6. FlattenSeq(s) = g[Len(s)]
  <2>1. DOMAIN g = 0 .. Len(s)
    BY <1>5
  <2> QED
    BY <1>4, <1>5, <2>1, FlattenBy
<1> DEFINE S == {i \in 0 .. n : Paired(g[i]) /\ Len(g[i]) >= i}
<1>7. 0 \in S
  <2>1. Paired(<<>>) /\ Len(<<>>) = 0
    BY DEF Paired
  <2> QED
    BY <1>0, <1>5, <2>1
<1>8. ASSUME NEW i \in 0 .. n - 1, i \in S PROVE i + 1 \in S
  <2>1. i + 1 \in 1 .. n /\ (i + 1) - 1 = i /\ i \in Nat /\ i + 1 \in 0 .. n
    BY <1>0
  <2>2. g[i + 1] = g[i] \o s[i + 1]
    BY <1>4, <1>5, <2>1
  <2>3. s[i + 1] \in PieceUnits
    BY <1>2, <2>1
  <2>4. Paired(g[i]) /\ Len(g[i]) >= i /\ Len(g[i]) \in Nat
    BY <1>8 DEF Paired
  <2>5. Paired(g[i + 1]) /\ Len(g[i + 1]) >= Len(g[i]) + 1
    BY <2>2, <2>3, <2>4, PairedMore
  <2>6. Len(g[i + 1]) \in Nat
    BY <2>5 DEF Paired
  <2> QED
    BY <2>1, <2>4, <2>5, <2>6
<1>9. n \in S
  <2> HIDE DEF S
  <2>1. \A i \in 0 .. n : i \in S
    BY <1>0, <1>7, <1>8, InductionTo
  <2> QED
    BY <1>0, <2>1
<1>10. Len(g[n]) \in Nat
  BY <1>9 DEF Paired
<1> QED
  BY <1>0, <1>3, <1>4, <1>6, <1>9, <1>10

(* A chunk is not empty and ends with a character. *)
LEMMA ChunkEnds ==
  ASSUME NEW us, Paired(us), Len(us) >= 1, NEW limit \in 2 .. 3
  PROVE  chunkLen(us, limit) \in 1 .. limit /\ us[chunkLen(us, limit)] # "H"
<1>1. /\ Len(us) \in Nat
      /\ \A i \in 1 .. Len(us) : us[i] = "H" => i < Len(us) /\ us[i + 1] = "L"
  BY DEF Paired
<1>2. CASE Len(us) <= limit
  <2>1. chunkLen(us, limit) = Len(us)
    BY <1>1, <1>2 DEF chunkLen
  <2> QED
    BY <1>1, <1>2, <2>1
<1>3. CASE Len(us) > limit /\ us[limit] = "H" /\ us[limit + 1] = "L"
  <2>1. chunkLen(us, limit) = limit - 1
    BY <1>1, <1>3 DEF chunkLen
  <2>2. limit - 1 \in 1 .. Len(us) /\ limit - 1 + 1 = limit /\ limit - 1 \in 1 .. limit
    BY <1>1, <1>3
  <2> QED
    BY <1>1, <1>3, <2>1, <2>2
<1>4. CASE Len(us) > limit /\ ~(us[limit] = "H" /\ us[limit + 1] = "L")
  <2>1. chunkLen(us, limit) = limit
    BY <1>1, <1>4 DEF chunkLen
  <2>2. limit \in 1 .. Len(us) /\ limit \in 1 .. limit
    BY <1>1, <1>4
  <2> QED
    BY <1>1, <1>4, <2>1, <2>2
<1> QED
  BY <1>1, <1>2, <1>3, <1>4

(* The encoder starts as the rule says, and its invariant gives the rule. *)
LEMMA EncoderHolds ==
  /\ EncoderOK(<<>>, EncoderInit)
  /\ \A xs \in Seq(Bytes) : \A e : EncoderOK(xs, e) => EncoderRule(xs, e)
<1>1. EncoderOK(<<>>, EncoderInit)
  <2> DEFINE none == <<>>
  <2>1. /\ none \in Seq(Bytes) /\ none \in Seq(Rune) /\ Len(none) = 0 /\ 0 \in 0 .. Len(none)
    OBVIOUS
  <2>2. From(none, 0 + 1) = none
    BY SubSeqEmpty DEF From
  <2>3. Narrow(none, 0) = none
    BY DEF Narrow
  <2>4. Written(none, 0, none)
    BY <2>1, <2>3, FlattenNone DEF Written
  <2>5. HeldBack(none, 0)
    BY DEF HeldBack
  <2>6. /\ EncoderInit.carry = none /\ EncoderInit.dst = none
        /\ EncoderInit \in [carry : Seq(Bytes), dst : Seq(Rune)]
    BY <2>1 DEF EncoderInit
  <2> HIDE DEF none
  <2>7. EncoderOK(none, EncoderInit)
    BY <2>1, <2>2, <2>4, <2>5, <2>6 DEF EncoderOK
  <2> QED
    BY <2>7 DEF none
<1>2. ASSUME NEW xs \in Seq(Bytes), NEW e, EncoderOK(xs, e) PROVE EncoderRule(xs, e)
  <2>1. e.dst \in Seq(Rune)
    BY <1>2 DEF EncoderOK
  <2>2. PICK q \in 0 .. Len(xs) :
          e.carry = From(xs, q + 1) /\ Written(xs, q, e.dst) /\ HeldBack(xs, q)
    BY <1>2 DEF EncoderOK
  <2>3. e.dst = FlattenSeq([i \in DOMAIN xs |-> ByteGives(xs, i)]) /\ Len(e.carry) < 4
    BY <2>2, WrittenAll
  <2>4. ASSUME NEW k \in DOMAIN e.dst, NEW limit \in 2 .. 3
        PROVE  /\ chunkLen(UnitsOf(From(e.dst, k)), limit) \in 1 .. limit
               /\ UnitsOf(From(e.dst, k))[chunkLen(UnitsOf(From(e.dst, k)), limit)] # "H"
    <3>1. k \in 1 .. Len(e.dst) + 1 /\ Len(e.dst) - k + 1 >= 1
      BY <2>1
    <3>2. From(e.dst, k) \in Seq(Rune) /\ Len(From(e.dst, k)) = Len(e.dst) - k + 1
      BY <2>1, <3>1, Rest
    <3>3. From(e.dst, k) # <<>>
      BY <3>1, <3>2
    <3> QED
      BY <3>2, <3>3, UnitsPaired, ChunkEnds
  <2> QED
    BY <2>3, <2>4 DEF EncoderRule
<1> QED
  BY <1>1, <1>2
-----------------------------------------------------------------------------
(***************************************************************************)
(* The command line: where a sequence is cut.                              *)
(***************************************************************************)
(* A sequence of two parts, and each of them. *)
LEMMA Halves ==
  ASSUME NEW S, NEW x \in Seq(S), NEW y \in Seq(S)
  PROVE  LET a == x \o y IN
         /\ a \in Seq(S) /\ Len(a) = Len(x) + Len(y) /\ Len(x) \in Nat /\ Len(y) \in Nat
         /\ \A i \in 1 .. Len(x) : a[i] = x[i]
         /\ \A i \in 1 .. Len(y) : a[Len(x) + i] = y[i]
         /\ SubSeq(a, 1, Len(x)) = x
         /\ From(a, Len(x) + 1) = y
<1> DEFINE a == x \o y
<1>1. /\ a \in Seq(S) /\ Len(a) = Len(x) + Len(y) /\ Len(x) \in Nat /\ Len(y) \in Nat
      /\ \A i \in 1 .. Len(x) + Len(y) : a[i] = IF i <= Len(x) THEN x[i] ELSE y[i - Len(x)]
  BY ConcatProperties
<1> HIDE DEF a
<1>2. ASSUME NEW i \in 1 .. Len(x) PROVE a[i] = x[i]
  <2>1. i \in 1 .. Len(x) + Len(y) /\ i <= Len(x)
    BY <1>1
  <2> QED
    BY <1>1, <2>1
<1>3. ASSUME NEW i \in 1 .. Len(y) PROVE a[Len(x) + i] = y[i]
  <2>1. Len(x) + i \in 1 .. Len(x) + Len(y) /\ ~(Len(x) + i <= Len(x)) /\ (Len(x) + i) - Len(x) = i
    BY <1>1
  <2> QED
    BY <1>1, <2>1
<1>4. SubSeq(a, 1, Len(x)) = x
  <2> DEFINE z == SubSeq(a, 1, Len(x))
  <2>1. Len(x) \in 0 .. Len(a)
    BY <1>1
  <2>2. z \in Seq(S) /\ Len(z) = Len(x) /\ \A i \in 1 .. Len(x) : z[i] = a[i]
    BY <1>1, <2>1, Start
  <2> HIDE DEF z
  <2>3. z = x
    BY <1>2, <2>2, SeqEqual
  <2> QED
    BY <2>3 DEF z
<1>5. From(a, Len(x) + 1) = y
  <2> DEFINE z == From(a, Len(x) + 1)
  <2>1. Len(x) + 1 \in 1 .. Len(a) + 1 /\ Len(a) - (Len(x) + 1) + 1 = Len(y)
    BY <1>1
  <2>2. z \in Seq(S) /\ Len(z) = Len(y) /\ \A i \in 1 .. Len(y) : z[i] = a[Len(x) + 1 + i - 1]
    BY <1>1, <2>1, Rest
  <2> HIDE DEF z
  <2>3. \A i \in 1 .. Len(z) : Len(x) + 1 + i - 1 = Len(x) + i /\ i \in 1 .. Len(y)
    BY <1>1, <2>2
  <2>4. \A i \in 1 .. Len(z) : z[i] = y[i]
    BY <1>3, <2>2, <2>3
  <2>5. z = y
    BY <2>2, <2>4, SeqEqual
  <2> QED
    BY <2>5 DEF z
<1> QED
  BY <1>1, <1>2, <1>3, <1>4, <1>5 DEF a

(* A sequence, cut. *)
LEMMA CutAt ==
  ASSUME NEW S, NEW s \in Seq(S), NEW k \in 0 .. Len(s)
  PROVE  s = SubSeq(s, 1, k) \o From(s, k + 1)
<1> DEFINE x == SubSeq(s, 1, k)
           y == From(s, k + 1)
           a == x \o y
<1>1. x \in Seq(S) /\ Len(x) = k /\ \A i \in 1 .. k : x[i] = s[i]
  BY Start
<1>2. k + 1 \in 1 .. Len(s) + 1 /\ Len(s) - (k + 1) + 1 = Len(s) - k /\ k \in Nat /\ Len(s) \in Nat
  OBVIOUS
<1>3. y \in Seq(S) /\ Len(y) = Len(s) - k /\ \A i \in 1 .. Len(s) - k : y[i] = s[k + 1 + i - 1]
  BY <1>2, Rest
<1> HIDE DEF x, y
<1>4. /\ a \in Seq(S) /\ Len(a) = Len(x) + Len(y)
      /\ \A i \in 1 .. Len(x) : a[i] = x[i]
      /\ \A i \in 1 .. Len(y) : a[Len(x) + i] = y[i]
  <2>1. x \in Seq(S) /\ y \in Seq(S)
    BY <1>1, <1>3
  <2> QED
    BY <2>1, Halves
<1> HIDE DEF a
<1>5. Len(a) = Len(s)
  BY <1>1, <1>2, <1>3, <1>4
<1>6. ASSUME NEW i \in 1 .. Len(a) PROVE a[i] = s[i]
  <2>1. i \in Nat /\ i >= 1 /\ i <= Len(s)
    BY <1>2, <1>5
  <2>2. CASE i <= k
    BY <1>1, <1>2, <1>4, <2>1, <2>2
  <2>3. CASE i > k
    <3>1. i - k \in 1 .. Len(s) - k /\ k + (i - k) = i /\ k + 1 + (i - k) - 1 = i
      BY <1>2, <2>1, <2>3
    <3>2. a[k + (i - k)] = y[i - k]
      BY <1>1, <1>3, <1>4, <3>1
    <3>3. y[i - k] = s[k + 1 + (i - k) - 1]
      BY <1>3, <3>1
    <3> QED
      BY <3>1, <3>2, <3>3
  <2> QED
    BY <1>2, <2>1, <2>2, <2>3
<1>7. a = s
  BY <1>4, <1>5, <1>6, SeqEqual
<1> QED
  BY <1>7 DEF a, x, y

(* Parts of a sequence are sequences, empty ones too. *)
LEMMA PartOf ==
  ASSUME NEW S, NEW s \in Seq(S), NEW i \in Nat, NEW j \in Int, i >= 1, j <= Len(s)
  PROVE  SubSeq(s, i, j) \in Seq(S)
<1>1. \A k \in i .. j : s[k] \in S
  OBVIOUS
<1> QED
  BY <1>1, SubSeqProperties

(* The least and the greatest of a set of numbers. *)
LEMMA MinOf ==
  ASSUME NEW T \in SUBSET Int, NEW m \in T, \A k \in T : m <= k
  PROVE  Min(T) = m
<1> DEFINE P(x) == x \in T /\ \A y \in T : x <= y
           c == CHOOSE x : P(x)
<1>1. P(m)
  OBVIOUS
<1>2. P(c)
  <2> HIDE DEF P
  <2> QED
    BY <1>1
<1>3. Min(T) = c
  BY DEF Min
<1> HIDE DEF c
<1>4. c <= m /\ m <= c /\ c \in Int /\ m \in Int
  BY <1>1, <1>2
<1> HIDE DEF P
<1> QED
  BY <1>3, <1>4

(* The greatest, likewise. *)
LEMMA MaxOf ==
  ASSUME NEW T \in SUBSET Int, NEW m \in T, \A k \in T : m >= k
  PROVE  Max(T) = m
<1> DEFINE P(x) == x \in T /\ \A y \in T : x >= y
           c == CHOOSE x : P(x)
<1>1. P(m)
  OBVIOUS
<1>2. P(c)
  <2> HIDE DEF P
  <2> QED
    BY <1>1
<1>3. Max(T) = c
  BY DEF Max
<1> HIDE DEF c
<1>4. c <= m /\ m <= c /\ c \in Int /\ m \in Int
  BY <1>1, <1>2
<1> HIDE DEF P
<1> QED
  BY <1>3, <1>4

(* A set of naturals that is not empty has a least. *)
LEMMA MinIn ==
  ASSUME NEW T \in SUBSET Nat, T # {}
  PROVE  Min(T) \in T /\ \A k \in T : Min(T) <= k
<1>1. PICK m \in T : \A k \in T : m <= k
  BY LeastNatural
<1>2. T \in SUBSET Int
  OBVIOUS
<1>3. Min(T) = m
  BY <1>1, <1>2, MinOf
<1> QED
  BY <1>1, <1>3

(* And, if it is bounded, a greatest. *)
LEMMA MaxIn ==
  ASSUME NEW n \in Nat, NEW T \in SUBSET (0 .. n), T # {}
  PROVE  Max(T) \in T /\ \A k \in T : Max(T) >= k
<1> DEFINE U == {k \in Nat : k <= n /\ n - k \in T}
<1>1. U \in SUBSET Nat /\ U # {}
  <2>1. PICK k \in T : TRUE
    OBVIOUS
  <2>2. k \in 0 .. n /\ n - k \in Nat /\ n - k <= n /\ n - (n - k) = k
    OBVIOUS
  <2>3. n - k \in U
    BY <2>1, <2>2
  <2> QED
    BY <2>3
<1>2. PICK u \in U : \A k \in U : u <= k
  <2> HIDE DEF U
  <2> QED
    BY <1>1, LeastNatural
<1>3. n - u \in T /\ u \in Nat
  BY <1>2
<1>4. ASSUME NEW k \in T PROVE n - u >= k
  <2>1. k \in 0 .. n /\ n - k \in Nat /\ n - k <= n /\ n - (n - k) = k
    OBVIOUS
  <2>2. n - k \in U
    BY <2>1
  <2>3. u <= n - k
    BY <1>2, <2>2
  <2> QED
    BY <1>3, <2>1, <2>3
<1>5. T \in SUBSET Int
  OBVIOUS
<1>6. Max(T) = n - u
  BY <1>3, <1>4, <1>5, MaxOf
<1> QED
  BY <1>3, <1>4, <1>6

(* How often a character occurs. *)
LEMMA AtFacts ==
  ASSUME NEW s \in Seq(Characters), NEW c
  PROVE  /\ At(s, c) \in SUBSET (1 .. Len(s)) /\ At(s, c) \in SUBSET Nat
         /\ IsFiniteSet(At(s, c)) /\ Cardinality(At(s, c)) \in Nat
         /\ Cardinality(At(s, c)) = 0 <=> At(s, c) = {}
         /\ Cardinality(At(s, c)) = 1 <=> \E i : At(s, c) = {i}
         /\ \A i : i \in At(s, c) <=> i \in 1 .. Len(s) /\ s[i] = c
<1>1. DOMAIN s = 1 .. Len(s) /\ Len(s) \in Nat
  OBVIOUS
<1>2. At(s, c) \in SUBSET (1 .. Len(s)) /\ \A i : i \in At(s, c) <=> i \in 1 .. Len(s) /\ s[i] = c
  BY <1>1 DEF At
<1>3. IsFiniteSet(At(s, c))
  <2>1. IsFiniteSet(1 .. Len(s))
    BY <1>1, FS_Interval
  <2> QED
    BY <1>2, <2>1, FS_Subset
<1>4. Cardinality(At(s, c)) \in Nat
  BY <1>3, FS_CardinalityType
<1>5. Cardinality(At(s, c)) = 0 <=> At(s, c) = {}
  BY <1>3, FS_EmptySet
<1>6. Cardinality(At(s, c)) = 1 <=> \E i : At(s, c) = {i}
  BY <1>3, FS_Singleton
<1>7. At(s, c) \in SUBSET Nat
  BY <1>1, <1>2
<1> QED
  BY <1>2, <1>3, <1>4, <1>5, <1>6, <1>7
-----------------------------------------------------------------------------
(***************************************************************************)
(* The command line: the user before the last "@".                         *)
(***************************************************************************)
UserPart(u) == IF u = <<>> THEN <<>> ELSE Append(u, "@")
PortPart(p) == IF p = <<>> THEN <<>> ELSE <<":">> \o p

(* Where the user ends: at the last "@". *)
LEMMA UserEndIs ==
  ASSUME NEW s \in Seq(Characters), NEW e \in 0 .. Len(s), e = 0 \/ s[e] = "@",
         \A i \in e + 1 .. Len(s) : s[i] # "@"
  PROVE  UserEnd(s) = e
<1> DEFINE T == At(s, "@") \cup {0}
<1>1. /\ At(s, "@") \in SUBSET (1 .. Len(s)) /\ Len(s) \in Nat /\ e \in Nat
      /\ \A i : i \in At(s, "@") <=> i \in 1 .. Len(s) /\ s[i] = "@"
  BY AtFacts
<1>2. T \in SUBSET Int
  BY <1>1
<1>3. e \in T
  <2>1. e # 0 => e \in 1 .. Len(s)
    BY <1>1
  <2> QED
    BY <1>1, <2>1
<1>4. ASSUME NEW k \in T PROVE e >= k
  <2>1. CASE k = 0
    BY <1>1, <2>1
  <2>2. CASE k # 0
    <3>1. k \in 1 .. Len(s) /\ s[k] = "@"
      BY <1>1, <2>2
    <3>2. k \notin e + 1 .. Len(s)
      BY <3>1
    <3> QED
      BY <1>1, <3>1, <3>2
  <2> QED
    BY <2>1, <2>2
<1> HIDE DEF T
<1>5. Max(T) = e
  BY <1>2, <1>3, <1>4, MaxOf
<1> QED
  BY <1>5 DEF UserEnd, T

(* There is such a place. *)
LEMMA UserEndFacts ==
  ASSUME NEW s \in Seq(Characters)
  PROVE  /\ UserEnd(s) \in 0 .. Len(s)
         /\ UserEnd(s) = 0 \/ s[UserEnd(s)] = "@"
         /\ \A i \in UserEnd(s) + 1 .. Len(s) : s[i] # "@"
<1> DEFINE T == At(s, "@") \cup {0}
           e == Max(T)
<1>1. /\ At(s, "@") \in SUBSET (1 .. Len(s)) /\ Len(s) \in Nat
      /\ \A i : i \in At(s, "@") <=> i \in 1 .. Len(s) /\ s[i] = "@"
  BY AtFacts
<1>2. T \in SUBSET (0 .. Len(s)) /\ T # {}
  BY <1>1
<1>3. e \in T /\ \A k \in T : e >= k
  <2> HIDE DEF T
  <2> QED
    BY <1>1, <1>2, MaxIn
<1>4. UserEnd(s) = e
  BY DEF UserEnd
<1> HIDE DEF e
<1>5. e \in 0 .. Len(s) /\ (e = 0 \/ s[e] = "@")
  BY <1>1, <1>2, <1>3
<1>6. ASSUME NEW i \in e + 1 .. Len(s) PROVE s[i] # "@"
  <2>1. i \in 1 .. Len(s) /\ ~(e >= i)
    BY <1>1, <1>5
  <2>2. i \notin T
    BY <1>3, <2>1
  <2> QED
    BY <1>1, <2>1, <2>2
<1> QED
  BY <1>4, <1>5, <1>6

(* A text that is written with a user is cut there. *)
LEMMA UserCut ==
  ASSUME NEW u \in Seq(Characters), NEW t \in Seq(Characters), At(t, "@") = {},
         NEW s, s = UserPart(u) \o t
  PROVE  /\ s \in Seq(Characters) /\ UserEnd(s) # 1
         /\ SubSeq(s, 1, UserEnd(s) - 1) = u
         /\ From(s, UserEnd(s) + 1) = t
<1> DEFINE x == UserPart(u)
           e == Len(x)
<1>0. ASSUME NEW i \in 1 .. Len(t) PROVE t[i] # "@"
  BY AtFacts
<1>1. CASE u = <<>>
  <2>1. x = <<>> /\ x \in Seq(Characters) /\ e = 0
    BY <1>1 DEF UserPart
  <2>2. s = t
    BY <2>1, ConcatEmptySeq
  <2>3. UserEnd(t) = 0
    <3>1. 0 \in 0 .. Len(t) /\ \A i \in 0 + 1 .. Len(t) : t[i] # "@"
      BY <1>0
    <3> QED
      BY <3>1, UserEndIs
  <2>4. SubSeq(t, 1, UserEnd(t) - 1) = <<>>
    BY <2>3, SubSeqEmpty
  <2>5. From(t, UserEnd(t) + 1) = t
    BY <2>3, SubSeqFull DEF From
  <2>6. SubSeq(s, 1, UserEnd(s) - 1) = u
    BY <1>1, <2>2, <2>4, Zenon
  <2>7. From(s, UserEnd(s) + 1) = t
    BY <2>2, <2>5, Zenon
  <2> QED
    BY <2>2, <2>3, <2>6, <2>7
<1>2. CASE u # <<>>
  <2>1. x = Append(u, "@") /\ "@" \in Characters
    BY <1>2 DEF UserPart, Characters
  <2>2. /\ x \in Seq(Characters) /\ e = Len(u) + 1 /\ x[e] = "@" /\ Len(u) \in Nat
        /\ \A i \in 1 .. Len(u) : x[i] = u[i]
    BY <2>1, AppendProperties
  <2>3. Len(u) >= 1 /\ s = x \o t
    BY <1>2, <2>2
  <2> HIDE DEF x
  <2>4. /\ s \in Seq(Characters) /\ Len(s) = e + Len(t) /\ Len(t) \in Nat
        /\ \A i \in 1 .. e : s[i] = x[i]
        /\ \A i \in 1 .. Len(t) : s[e + i] = t[i]
        /\ From(s, e + 1) = t
    <3>1. LET a == x \o t IN
          /\ a \in Seq(Characters) /\ Len(a) = e + Len(t) /\ Len(t) \in Nat
          /\ \A i \in 1 .. e : a[i] = x[i]
          /\ \A i \in 1 .. Len(t) : a[e + i] = t[i]
          /\ From(a, e + 1) = t
      <4>1. x \in Seq(Characters)
        BY <2>2
      <4> QED
        BY <4>1, Halves
    <3> QED
      BY <2>3, <3>1, Zenon
  <2>5. e \in 1 .. e /\ e \in 0 .. Len(s) /\ e \in Nat
    BY <2>2, <2>4
  <2>6. s[e] = "@"
    BY <2>2, <2>4, <2>5
  <2>7. ASSUME NEW i \in e + 1 .. Len(s) PROVE s[i] # "@"
    <3>1. i - e \in 1 .. Len(t) /\ e + (i - e) = i
      BY <2>2, <2>4, <2>5
    <3>2. s[e + (i - e)] = t[i - e]
      BY <2>4, <3>1
    <3> QED
      BY <1>0, <3>1, <3>2
  <2> HIDE DEF e
  <2>8. UserEnd(s) = e
    BY <2>4, <2>5, <2>6, <2>7, UserEndIs
  <2>9. SubSeq(s, 1, e - 1) = u
    <3> DEFINE z == SubSeq(s, 1, e - 1)
    <3>1. e - 1 \in 0 .. Len(s) /\ e - 1 = Len(u)
      BY <2>2, <2>4, <2>5
    <3>2. z \in Seq(Characters) /\ Len(z) = Len(u) /\ \A i \in 1 .. Len(u) : z[i] = s[i]
      BY <2>4, <3>1, Start
    <3>3. \A i \in 1 .. Len(u) : i \in 1 .. e
      BY <2>2
    <3>4. \A i \in 1 .. Len(z) : z[i] = u[i]
      BY <2>2, <2>4, <3>2, <3>3
    <3> HIDE DEF z
    <3>5. z = u
      BY <3>2, <3>4, SeqEqual
    <3> QED
      BY <3>5 DEF z
  <2> QED
    BY <2>2, <2>3, <2>4, <2>8, <2>9
<1> QED
  BY <1>1, <1>2

(* And a text with a user is written with it. *)
LEMMA UserJoin ==
  ASSUME NEW s \in Seq(Characters), UserEnd(s) # 1
  PROVE  LET u == SubSeq(s, 1, UserEnd(s) - 1)
             t == From(s, UserEnd(s) + 1)
         IN  /\ u \in Seq(Characters) /\ t \in Seq(Characters) /\ At(t, "@") = {}
             /\ s = UserPart(u) \o t
             /\ \E i \in 0 .. Len(s) : u = SubSeq(s, 1, i)
<1> DEFINE e == UserEnd(s)
           u == SubSeq(s, 1, e - 1)
           t == From(s, e + 1)
<1>1. /\ e \in 0 .. Len(s) /\ (e = 0 \/ s[e] = "@") /\ e \in Nat /\ Len(s) \in Nat
      /\ \A i \in e + 1 .. Len(s) : s[i] # "@"
  BY UserEndFacts
<1> HIDE DEF e
<1>2. /\ t \in Seq(Characters) /\ Len(t) = Len(s) - e
      /\ \A i \in 1 .. Len(s) - e : t[i] = s[e + 1 + i - 1]
  <2>1. e + 1 \in 1 .. Len(s) + 1 /\ Len(s) - (e + 1) + 1 = Len(s) - e
    BY <1>1
  <2> QED
    BY <2>1, Rest
<1>3. At(t, "@") = {}
  <2>1. ASSUME NEW i \in 1 .. Len(t) PROVE t[i] # "@"
    <3>1. i \in 1 .. Len(s) - e /\ e + 1 + i - 1 \in e + 1 .. Len(s)
      BY <1>1, <1>2
    <3> QED
      BY <1>1, <1>2, <3>1
  <2>2. \A i : i \in At(t, "@") <=> i \in 1 .. Len(t) /\ t[i] = "@"
    BY <1>2, AtFacts
  <2> QED
    BY <2>1, <2>2
<1>4. s = SubSeq(s, 1, e) \o t
  BY <1>1, CutAt
<1>5. CASE e = 0
  <2>1. u = <<>> /\ SubSeq(s, 1, e) = <<>> /\ SubSeq(s, 1, 0) = <<>>
    BY <1>5, SubSeqEmpty
  <2> HIDE DEF u, t
  <2>2. UserPart(u) = <<>> /\ u \in Seq(Characters)
    BY <2>1 DEF UserPart
  <2>3. 0 \in 0 .. Len(s)
    BY <1>1
  <2> QED
    BY <1>2, <1>3, <1>4, <2>1, <2>2, <2>3 DEF e, u, t
<1>6. CASE e # 0
  <2>0. e - 1 \in 0 .. Len(s) /\ e >= 2 /\ e \in 0 .. Len(s)
    BY <1>1, <1>6 DEF e
  <2>1. u \in Seq(Characters) /\ Len(u) = e - 1 /\ \A i \in 1 .. e - 1 : u[i] = s[i]
    BY <2>0, Start
  <2> DEFINE z == SubSeq(s, 1, e)
  <2>2. z \in Seq(Characters) /\ Len(z) = e /\ \A i \in 1 .. e : z[i] = s[i]
    BY <2>0, Start
  <2> HIDE DEF u, z
  <2>3. Len(z) = Len(u) + 1 /\ Len(z) \in 1 .. e
    BY <1>1, <2>0, <2>1, <2>2
  <2>4. \A i \in 1 .. Len(u) : z[i] = u[i]
    <3>1. \A i \in 1 .. e - 1 : i \in 1 .. e
      BY <1>1
    <3> QED
      BY <2>1, <2>2, <3>1
  <2>5. z = Append(u, z[Len(z)])
    BY <2>1, <2>2, <2>3, <2>4, FrontAndLast
  <2>6. z[Len(z)] = "@"
    BY <1>1, <1>6, <2>2, <2>3
  <2>7. u # <<>>
    <3>1. Len(u) # 0
      BY <1>1, <2>0, <2>1
    <3> QED
      BY <3>1
  <2>8. z = UserPart(u)
    BY <2>5, <2>6, <2>7 DEF UserPart
  <2>9. \E i \in 0 .. Len(s) : u = SubSeq(s, 1, i)
    BY <2>0 DEF u
  <2> HIDE DEF t
  <2> QED
    BY <1>2, <1>3, <1>4, <2>1, <2>8, <2>9 DEF z, u, t, e
<1> QED
  BY <1>5, <1>6
-----------------------------------------------------------------------------
(***************************************************************************)
(* The command line: the host, in brackets or not, and the port after it.  *)
(***************************************************************************)
PortChars == {"+"} \cup Digits
Bracketed(h) == (<<"[">> \o h) \o <<"]">>
Plain(h, p) ==
  /\ ~Brackets(h)
  /\ Cardinality(At(h, ":")) = 0 \/ (Cardinality(At(h, ":")) > 1 /\ p = <<>>)

(* x is a way to write the host h before the port p. *)
HostPart(x, h, p) == (Plain(h, p) /\ x = h) \/ (At(h, "]") = {} /\ x = Bracketed(h))

(* The text of a port. *)
LEMMA PortFacts ==
  ASSUME NEW p \in Seq(PortChars)
  PROVE  /\ p \in Seq(Characters) /\ PortPart(p) \in Seq(Characters)
         /\ PortPart(p) = <<>> <=> p = <<>>
         /\ From(PortPart(p), 2) = p
         /\ p # <<>> => /\ Len(PortPart(p)) = Len(p) + 1 /\ Len(PortPart(p)) # 1
                        /\ PortPart(p)[1] = ":"
                        /\ \A i \in 2 .. Len(PortPart(p)) : PortPart(p)[i] # ":"
         /\ \A i \in 1 .. Len(PortPart(p)) : PortPart(p)[i] # "@" /\ PortPart(p)[i] # "]"
<1>1. p \in Seq(Characters) /\ Len(p) \in Nat /\ \A i \in 1 .. Len(p) : p[i] \in PortChars
  <2>1. PortChars \subseteq Characters
    BY DEF PortChars, Digits, Characters
  <2>2. p \in Seq(Characters)
    BY <2>1, SeqMonotonic
  <2> QED
    BY <2>2, ElementOfSeq
<1>2. CASE p = <<>>
  <2>1. PortPart(p) = <<>> /\ Len(<<>>) = 0
    BY <1>2 DEF PortPart
  <2>2. From(<<>>, 2) = <<>> /\ <<>> \in Seq(Characters)
    BY SubSeqEmpty DEF From
  <2>3. \A i \in 1 .. Len(<<>>) : FALSE
    BY <2>1
  <2> QED
    BY <1>1, <1>2, <2>1, <2>2, <2>3, Zenon
<1>3. CASE p # <<>>
  <2> DEFINE c == <<":">>
             r == c \o p
  <2>1. c \in Seq(Characters) /\ Len(c) = 1 /\ c[1] = ":"
    BY DEF Characters
  <2>2. PortPart(p) = r
    BY <1>3 DEF PortPart
  <2> HIDE DEF c
  <2>3. /\ r \in Seq(Characters) /\ Len(r) = 1 + Len(p)
        /\ \A i \in 1 .. 1 : r[i] = c[i]
        /\ \A i \in 1 .. Len(p) : r[1 + i] = p[i]
        /\ From(r, 1 + 1) = p
    <3>1. /\ r \in Seq(Characters) /\ Len(r) = Len(c) + Len(p)
          /\ \A i \in 1 .. Len(c) : r[i] = c[i]
          /\ \A i \in 1 .. Len(p) : r[Len(c) + i] = p[i]
          /\ From(r, Len(c) + 1) = p
      <4>1. p \in Seq(Characters) /\ c \in Seq(Characters)
        BY <1>1, <2>1
      <4> QED
        BY <4>1, Halves
    <3>2. Len(c) = 1
      BY <2>1
    <3> HIDE DEF r
    <3> QED
      BY <3>1, <3>2
  <2> HIDE DEF r
  <2>4. r[1] = ":"
    BY <2>1, <2>3
  <2>5. ASSUME NEW i \in 2 .. Len(r) PROVE r[i] \in PortChars
    <3>1. i - 1 \in 1 .. Len(p) /\ 1 + (i - 1) = i
      BY <1>1, <2>3
    <3> QED
      BY <1>1, <2>3, <3>1
  <2>6. Len(p) >= 1 /\ Len(r) = Len(p) + 1 /\ Len(r) # 1 /\ Len(r) \in Nat
    BY <1>1, <1>3, <2>3
  <2>7. \A i \in 1 .. Len(r) : r[i] # "@" /\ r[i] # "]"
    <3>1. \A i \in 1 .. Len(r) : i = 1 \/ i \in 2 .. Len(r)
      BY <2>6
    <3> QED
      BY <2>4, <2>5, <3>1 DEF PortChars, Digits
  <2>8. r # <<>> /\ \A i \in 2 .. Len(r) : r[i] # ":"
    BY <2>5, <2>6 DEF PortChars, Digits
  <2>9. From(r, 2) = p
    BY <2>3
  <2> QED
    BY <1>1, <1>3, <2>2, <2>3, <2>4, <2>6, <2>7, <2>8, <2>9
<1> QED
  BY <1>2, <1>3

(* What may follow a host is the text of a port. *)
LEMMA PortIs ==
  ASSUME NEW r \in Seq(Characters), r = <<>> \/ (r[1] = ":" /\ Len(r) # 1)
  PROVE  r = PortPart(From(r, 2)) /\ From(r, 2) \in Seq(Characters)
<1>1. CASE r = <<>>
  <2>1. From(<<>>, 2) = <<>>
    BY SubSeqEmpty DEF From
  <2>2. PortPart(<<>>) = <<>>
    BY DEF PortPart
  <2> QED
    BY <1>1, <2>1, <2>2
<1>2. CASE r # <<>>
  <2> DEFINE p == From(r, 2)
  <2>1. 1 \in 0 .. Len(r) /\ 2 \in 1 .. Len(r) + 1 /\ Len(r) - 2 + 1 >= 1 /\ r[1] = ":"
    BY <1>2
  <2>2. r = SubSeq(r, 1, 1) \o From(r, 1 + 1)
    BY <2>1, CutAt
  <2>3. SubSeq(r, 1, 1) = <<":">>
    <3> DEFINE a == SubSeq(r, 1, 1)
               c == <<":">>
    <3>1. a \in Seq(Characters) /\ Len(a) = 1 /\ \A i \in 1 .. 1 : a[i] = r[i]
      BY <2>1, Start
    <3>2. c \in Seq(Characters) /\ Len(c) = 1 /\ c[1] = ":"
      BY DEF Characters
    <3> HIDE DEF a, c
    <3>3. \A i \in 1 .. Len(a) : a[i] = c[i]
      BY <2>1, <3>1, <3>2
    <3>4. a = c
      BY <3>1, <3>2, <3>3, SeqEqual
    <3> QED
      BY <3>4 DEF a, c
  <2>4. p \in Seq(Characters) /\ Len(p) = Len(r) - 2 + 1
    BY <2>1, Rest
  <2>5. r = <<":">> \o p
    BY <2>2, <2>3
  <2> HIDE DEF p
  <2>6. p # <<>>
    BY <2>1, <2>4
  <2> QED
    BY <2>4, <2>5, <2>6 DEF p, PortPart
<1> QED
  BY <1>1, <1>2

(* A host without brackets is cut before its port. *)
LEMMA PlainCut ==
  ASSUME NEW h \in Seq(Characters), h # <<>>, NEW p \in Seq(PortChars), Plain(h, p),
         NEW t, t = h \o PortPart(p)
  PROVE  t \in Seq(Characters) /\ ~BadRest(t) /\ Host(t) = h /\ From(AfterHost(t), 2) = p
<1> DEFINE r == PortPart(p)
<1>1. /\ r \in Seq(Characters) /\ (r = <<>> <=> p = <<>>) /\ From(r, 2) = p
      /\ p # <<>> => /\ Len(r) # 1 /\ r[1] = ":" /\ Len(r) = Len(p) + 1
                     /\ \A i \in 2 .. Len(r) : r[i] # ":"
  BY PortFacts
<1>2. ~(h[1] = "[") /\ Len(h) \in Nat /\ Len(h) >= 1
  BY DEF Plain, Brackets, HasPrefix
<1> HIDE DEF r
<1>3. t = h \o r
  BY DEF r
<1>4. /\ t \in Seq(Characters) /\ Len(t) = Len(h) + Len(r) /\ Len(r) \in Nat
      /\ \A i \in 1 .. Len(h) : t[i] = h[i]
      /\ \A i \in 1 .. Len(r) : t[Len(h) + i] = r[i]
      /\ SubSeq(t, 1, Len(h)) = h /\ From(t, Len(h) + 1) = r
  <2>1. LET a == h \o r IN
        /\ a \in Seq(Characters) /\ Len(a) = Len(h) + Len(r) /\ Len(r) \in Nat
        /\ \A i \in 1 .. Len(h) : a[i] = h[i]
        /\ \A i \in 1 .. Len(r) : a[Len(h) + i] = r[i]
        /\ SubSeq(a, 1, Len(h)) = h /\ From(a, Len(h) + 1) = r
    BY <1>1, Halves
  <2> QED
    BY <1>3, <2>1, Zenon
<1>5. ~Brackets(t)
  <2>1. 1 \in 1 .. Len(h)
    BY <1>2
  <2> QED
    BY <1>2, <1>4, <2>1 DEF Brackets, HasPrefix
<1>6. CASE p = <<>>
  <2>1. r = <<>> /\ t = h
    BY <1>1, <1>3, <1>6, ConcatEmptySeq
  <2>2. Cardinality(At(t, ":")) # 1
    BY <2>1 DEF Plain
  <2>3. HostEnd(t) = Len(t) + 1
    BY <1>5, <2>2 DEF HostEnd
  <2>4. Host(t) = SubSeq(t, 1, (Len(t) + 1) - 1) /\ AfterHost(t) = From(t, (Len(t) + 1) + 0)
    BY <1>5, <2>3 DEF Host, AfterHost
  <2>5. (Len(t) + 1) - 1 = Len(h) /\ (Len(t) + 1) + 0 = Len(h) + 1
    BY <1>2, <2>1
  <2>6. Host(t) = h /\ AfterHost(t) = <<>>
    BY <1>4, <2>1, <2>4, <2>5
  <2>7. ~BadRest(t)
    BY <1>5, <2>6 DEF BadRest
  <2> QED
    BY <1>1, <1>4, <2>1, <2>6, <2>7
<1>7. CASE p # <<>>
  <2>0. p \in Seq(Characters) /\ Len(p) \in Nat /\ Len(r) >= 1
    BY <1>1, <1>4, <1>7, PortFacts
  <2>1. At(h, ":") = {}
    <3>1. Cardinality(At(h, ":")) = 0
      BY <1>7 DEF Plain
    <3> QED
      BY <3>1, AtFacts
  <2>2. /\ \A i : i \in At(t, ":") <=> i \in 1 .. Len(t) /\ t[i] = ":"
        /\ \A i \in 1 .. Len(h) : h[i] # ":"
    <3>1. t \in Seq(Characters)
      BY <1>4
    <3>2. \A i : i \in At(t, ":") <=> i \in 1 .. Len(t) /\ t[i] = ":"
      BY <3>1, AtFacts
    <3>3. \A i : i \in At(h, ":") <=> i \in 1 .. Len(h) /\ h[i] = ":"
      BY AtFacts
    <3> QED
      BY <2>1, <3>2, <3>3
  <2> DEFINE e == Len(h) + 1
  <2>3. t[e] = ":" /\ e \in 1 .. Len(t)
    <3>1. 1 \in 1 .. Len(r)
      BY <1>4, <2>0
    <3>2. t[Len(h) + 1] = r[1]
      BY <1>4, <3>1
    <3> QED
      BY <1>1, <1>2, <1>4, <1>7, <2>0, <3>2
  <2>4. ASSUME NEW i \in 1 .. Len(t), t[i] = ":" PROVE i = e
    <3>1. i \in Nat /\ i >= 1 /\ i <= Len(h) + Len(r)
      BY <1>2, <1>4
    <3>2. ~(i <= Len(h))
      <4> SUFFICES ASSUME i <= Len(h) PROVE FALSE
        OBVIOUS
      <4>1. i \in 1 .. Len(h)
        BY <1>2, <3>1
      <4> QED
        BY <1>4, <2>2, <2>4, <4>1
    <3>3. ~(i > e)
      <4> SUFFICES ASSUME i > e PROVE FALSE
        OBVIOUS
      <4>1. i - Len(h) \in 1 .. Len(r) /\ i - Len(h) \in 2 .. Len(r) /\ Len(h) + (i - Len(h)) = i
        BY <1>2, <1>4, <3>1
      <4>2. t[Len(h) + (i - Len(h))] = r[i - Len(h)]
        BY <1>4, <4>1
      <4> QED
        BY <1>1, <1>7, <2>4, <4>1, <4>2
    <3> QED
      BY <1>2, <3>1, <3>2, <3>3
  <2> HIDE DEF e
  <2>5. At(t, ":") = {e}
    BY <2>2, <2>3, <2>4
  <2>6. Cardinality(At(t, ":")) = 1
    <3>1. t \in Seq(Characters)
      BY <1>4
    <3>2. Cardinality(At(t, ":")) = 1 <=> \E i : At(t, ":") = {i}
      BY <3>1, AtFacts
    <3> QED
      BY <2>5, <3>2
  <2>7. Min({e}) = e
    <3>1. e \in Int /\ e \in {e} /\ {e} \in SUBSET Int /\ \A k \in {e} : e <= k
      BY <1>2 DEF e
    <3> QED
      BY <3>1, MinOf
  <2>8. HostEnd(t) = e
    BY <1>5, <2>5, <2>6, <2>7 DEF HostEnd
  <2>9. Host(t) = SubSeq(t, 1, e - 1) /\ AfterHost(t) = From(t, e + 0)
    BY <1>5, <2>8 DEF Host, AfterHost
  <2>10. e - 1 = Len(h) /\ e + 0 = Len(h) + 1
    BY <1>2 DEF e
  <2>11. Host(t) = h /\ AfterHost(t) = r
    BY <1>4, <2>9, <2>10
  <2>12. ~BadRest(t)
    BY <1>1, <1>5, <1>7, <2>11 DEF BadRest
  <2> QED
    BY <1>1, <1>4, <2>11, <2>12
<1> QED
  BY <1>6, <1>7

(* A host in brackets, character by character. *)
LEMMA BracketedFacts ==
  ASSUME NEW h \in Seq(Characters)
  PROVE  /\ Bracketed(h) \in Seq(Characters) /\ Len(Bracketed(h)) = Len(h) + 2
         /\ Bracketed(h)[1] = "[" /\ Bracketed(h)[Len(h) + 2] = "]"
         /\ \A i \in 1 .. Len(h) : Bracketed(h)[1 + i] = h[i]
<1> DEFINE a == <<"[">>
           b == <<"]">>
           x == a \o h
           y == x \o b
<1>1. /\ a \in Seq(Characters) /\ Len(a) = 1 /\ a[1] = "["
      /\ b \in Seq(Characters) /\ Len(b) = 1 /\ b[1] = "]"
  BY DEF Characters
<1>0. Bracketed(h) = y
  BY DEF Bracketed
<1> HIDE DEF a, b
<1>2. /\ x \in Seq(Characters) /\ Len(x) = Len(a) + Len(h) /\ Len(h) \in Nat
      /\ \A i \in 1 .. Len(a) : x[i] = a[i]
      /\ \A i \in 1 .. Len(h) : x[Len(a) + i] = h[i]
  <2>1. a \in Seq(Characters)
    BY <1>1
  <2> QED
    BY <2>1, Halves
<1> HIDE DEF x
<1>3. /\ y \in Seq(Characters) /\ Len(y) = Len(x) + Len(b)
      /\ \A i \in 1 .. Len(x) : y[i] = x[i]
      /\ \A i \in 1 .. Len(b) : y[Len(x) + i] = b[i]
  <2>1. x \in Seq(Characters) /\ b \in Seq(Characters)
    BY <1>1, <1>2
  <2> QED
    BY <2>1, Halves
<1> HIDE DEF y
<1>4. Len(x) = Len(h) + 1 /\ Len(y) = Len(h) + 2
  BY <1>1, <1>2, <1>3
<1>5. y[1] = "["
  <2>1. 1 \in 1 .. Len(x) /\ 1 \in 1 .. Len(a)
    BY <1>1, <1>2, <1>4
  <2> QED
    BY <1>1, <1>2, <1>3, <2>1
<1>6. y[Len(h) + 2] = "]"
  <2>1. 1 \in 1 .. Len(b) /\ Len(x) + 1 = Len(h) + 2
    BY <1>1, <1>2, <1>4
  <2>2. y[Len(x) + 1] = b[1]
    BY <1>3, <2>1
  <2> QED
    BY <1>1, <2>1, <2>2
<1>7. ASSUME NEW i \in 1 .. Len(h) PROVE y[1 + i] = h[i]
  <2>1. 1 + i \in 1 .. Len(x) /\ Len(a) + i = 1 + i
    BY <1>1, <1>2, <1>4
  <2>2. x[Len(a) + i] = h[i]
    BY <1>2
  <2> QED
    BY <1>3, <2>1, <2>2
<1> QED
  BY <1>0, <1>3, <1>4, <1>5, <1>6, <1>7

(* A host in brackets is cut after them. *)
LEMMA BracketedCut ==
  ASSUME NEW h \in Seq(Characters), NEW p \in Seq(PortChars), At(h, "]") = {},
         NEW t, t = Bracketed(h) \o PortPart(p)
  PROVE  t \in Seq(Characters) /\ ~BadRest(t) /\ Host(t) = h /\ From(AfterHost(t), 2) = p
<1> DEFINE r == PortPart(p)
           y == Bracketed(h)
           e == Len(h) + 2
<1>1. /\ r \in Seq(Characters) /\ (r = <<>> <=> p = <<>>) /\ From(r, 2) = p
      /\ p # <<>> => Len(r) # 1 /\ r[1] = ":"
  BY PortFacts
<1>2. /\ y \in Seq(Characters) /\ Len(y) = e /\ y[1] = "[" /\ y[e] = "]"
      /\ \A i \in 1 .. Len(h) : y[1 + i] = h[i]
  BY BracketedFacts
<1>0. Len(h) \in Nat /\ e \in Nat /\ e >= 2
  OBVIOUS
<1>3. t = y \o r
  OBVIOUS
<1> HIDE DEF r, y
<1>4. /\ t \in Seq(Characters) /\ Len(t) = Len(y) + Len(r) /\ Len(r) \in Nat
      /\ \A i \in 1 .. Len(y) : t[i] = y[i]
      /\ From(t, Len(y) + 1) = r
  <2>1. y \in Seq(Characters) /\ r \in Seq(Characters)
    BY <1>1, <1>2
  <2>2. LET a == y \o r IN
        /\ a \in Seq(Characters) /\ Len(a) = Len(y) + Len(r) /\ Len(r) \in Nat
        /\ \A i \in 1 .. Len(y) : a[i] = y[i]
        /\ From(a, Len(y) + 1) = r
    BY <2>1, Halves
  <2> QED
    BY <1>3, <2>2, Zenon
<1>5. t[1] = "[" /\ t[e] = "]" /\ e \in 1 .. Len(t) /\ Len(t) \in Nat
  <2>1. 1 \in 1 .. Len(y) /\ e \in 1 .. Len(y)
    BY <1>0, <1>2
  <2>2. t[1] = y[1] /\ t[e] = y[e]
    BY <1>4, <2>1
  <2>3. Len(t) = e + Len(r) /\ Len(r) \in Nat
    BY <1>2, <1>4
  <2>4. e \in 1 .. Len(t) /\ Len(t) \in Nat
    BY <1>0, <2>3
  <2> QED
    BY <1>2, <2>2, <2>4
<1>6. Brackets(t)
  <2>1. t # <<>>
    BY <1>0, <1>5
  <2> QED
    BY <1>5, <2>1 DEF Brackets, HasPrefix
<1>7. ASSUME NEW i \in 1 .. Len(h) PROVE t[1 + i] = h[i]
  <2>1. 1 + i \in 1 .. Len(y)
    BY <1>0, <1>2
  <2> QED
    BY <1>2, <1>4, <2>1
<1>8. ASSUME NEW i \in 1 .. Len(t), t[i] = "]" PROVE e <= i
  <2> SUFFICES ASSUME i < e PROVE FALSE
    BY <1>0, <1>4
  <2>1. i # 1
    BY <1>5, <1>8
  <2>2. i - 1 \in 1 .. Len(h) /\ 1 + (i - 1) = i
    BY <1>0, <1>5, <2>1
  <2>3. h[i - 1] = "]"
    BY <1>7, <1>8, <2>2
  <2>4. i - 1 \in At(h, "]")
    <3>1. \A k : k \in At(h, "]") <=> k \in 1 .. Len(h) /\ h[k] = "]"
      BY AtFacts
    <3> QED
      BY <2>2, <2>3, <3>1
  <2> QED
    BY <2>4
<1> DEFINE T == At(t, "]") \cup {Len(t) + 1}
<1> HIDE DEF e
<1>9. e \in At(t, "]") /\ Min(T) = e
  <2>1. t \in Seq(Characters)
    BY <1>4
  <2>2. \A k : k \in At(t, "]") <=> k \in 1 .. Len(t) /\ t[k] = "]"
    BY <2>1, AtFacts
  <2>3. e \in At(t, "]")
    BY <1>5, <2>2
  <2>4. T \in SUBSET Int /\ e \in T
    BY <1>5, <2>2, <2>3
  <2>5. ASSUME NEW k \in T PROVE e <= k
    <3>1. CASE k = Len(t) + 1
      BY <1>5, <3>1
    <3>2. CASE k \in At(t, "]")
      BY <1>8, <2>2, <3>2
    <3> QED
      BY <3>1, <3>2
  <2> HIDE DEF T
  <2> QED
    BY <2>3, <2>4, <2>5, MinOf
<1>10. HostEnd(t) = e
  BY <1>6, <1>9 DEF HostEnd
<1>11. Host(t) = SubSeq(t, 2, e - 1) /\ AfterHost(t) = From(t, e + 1)
  BY <1>6, <1>10 DEF Host, AfterHost
<1>12. AfterHost(t) = r
  BY <1>2, <1>4, <1>11
<1>13. Host(t) = h
  <2> DEFINE z == SubSeq(t, 2, e - 1)
  <2>1. 2 \in 1 .. Len(t) + 1 /\ e - 1 \in 2 - 1 .. Len(t) /\ (e - 1) - 2 + 1 = Len(h)
    BY <1>0, <1>5 DEF e
  <2>2. z \in Seq(Characters) /\ Len(z) = Len(h) /\ \A i \in 1 .. Len(h) : z[i] = t[2 + i - 1]
    <3>1. t \in Seq(Characters)
      BY <1>4
    <3>2. /\ z \in Seq(Characters) /\ Len(z) = (e - 1) - 2 + 1
          /\ \A i \in 1 .. (e - 1) - 2 + 1 : z[i] = t[2 + i - 1]
      BY <2>1, <3>1, Cut, SMTT(30)
    <3> HIDE DEF z
    <3> QED
      BY <2>1, <3>2
  <2> HIDE DEF z
  <2>3. \A i \in 1 .. Len(h) : 2 + i - 1 = 1 + i
    BY <1>0
  <2>4. \A i \in 1 .. Len(z) : z[i] = h[i]
    BY <1>7, <2>2, <2>3
  <2>5. z = h
    BY <2>2, <2>4, SeqEqual
  <2> QED
    BY <1>11, <2>5 DEF z
<1>14. ~BadRest(t)
  BY <1>1, <1>9, <1>12 DEF BadRest
<1> QED
  BY <1>1, <1>4, <1>12, <1>13, <1>14

(* A text that is taken apart is written so. *)
LEMMA HostJoin ==
  ASSUME NEW t \in Seq(Characters), ~BadRest(t), Host(t) # <<>>
  PROVE  LET h == Host(t)
             p == From(AfterHost(t), 2)
         IN  /\ h \in Seq(Characters) /\ p \in Seq(Characters)
             /\ \E x : HostPart(x, h, p) /\ t = x \o PortPart(p)
<1> DEFINE h == Host(t)
           r == AfterHost(t)
           p == From(r, 2)
           e == HostEnd(t)
<1>0. /\ Len(t) \in Nat
      /\ \A c : \A i : i \in At(t, c) <=> i \in 1 .. Len(t) /\ t[i] = c
  <2>1. \A c : \A i : i \in At(t, c) <=> i \in 1 .. Len(t) /\ t[i] = c
    BY AtFacts
  <2> QED
    BY <2>1
<1>1. r = <<>> \/ (r[1] = ":" /\ Len(r) # 1)
  BY DEF BadRest
<1>2. CASE Brackets(t)
  <2> DEFINE T == At(t, "]") \cup {Len(t) + 1}
  <2>1. e = Min(T) /\ h = SubSeq(t, 2, e - 1) /\ r = From(t, e + 1)
    BY <1>2 DEF HostEnd, Host, AfterHost
  <2>2. PICK d : d \in At(t, "]")
    BY <1>2 DEF BadRest
  <2>3. T \in SUBSET Nat /\ T # {} /\ d \in T /\ d \in 1 .. Len(t)
    BY <1>0, <2>2
  <2>4. Min(T) \in T /\ \A k \in T : Min(T) <= k
    <3> HIDE DEF T
    <3> QED
      BY <2>3, MinIn
  <2>5. e \in T /\ e <= d /\ \A k \in T : e <= k
    BY <2>1, <2>3, <2>4
  <2>6. e \in 1 .. Len(t) /\ t[e] = "]" /\ t[1] = "["
    <3>1. e # Len(t) + 1
      BY <1>0, <2>3, <2>5
    <3>2. e \in At(t, "]")
      BY <2>5, <3>1
    <3> QED
      BY <1>0, <1>2, <3>2 DEF Brackets, HasPrefix
  <2>7. \A i \in 1 .. e - 1 : t[i] # "]"
    <3>1. \A i \in 1 .. e - 1 : i \in 1 .. Len(t) /\ ~(e <= i)
      BY <1>0, <2>6
    <3>2. \A i \in 1 .. e - 1 : i \notin T
      BY <2>5, <3>1
    <3> QED
      BY <1>0, <3>1, <3>2
  <2> HIDE DEF T, e
  <2>8. e >= 2 /\ e \in Nat
    BY <2>6
  <2>9. r \in Seq(Characters)
    <3>1. e + 1 \in 1 .. Len(t) + 1
      BY <1>0, <2>6
    <3> QED
      BY <2>1, <3>1, Rest
  <2>10. /\ h \in Seq(Characters) /\ Len(h) = e - 2
         /\ \A i \in 1 .. e - 2 : h[i] = t[2 + i - 1]
    <3>1. 2 \in 1 .. Len(t) + 1 /\ e - 1 \in 2 - 1 .. Len(t) /\ (e - 1) - 2 + 1 = e - 2
      BY <1>0, <2>6, <2>8
    <3> QED
      BY <2>1, <3>1, Cut
  <2>11. p \in Seq(Characters) /\ r = PortPart(p)
    <3> HIDE DEF r
    <3> QED
      BY <1>1, <2>9, PortIs
  <2>12. t = SubSeq(t, 1, e) \o From(t, e + 1)
    <3>1. e \in 0 .. Len(t)
      BY <2>6
    <3> QED
      BY <3>1, CutAt
  <2> HIDE DEF h, r, p
  <2>13. At(h, "]") = {}
    <3>1. \A i : i \in At(h, "]") <=> i \in 1 .. Len(h) /\ h[i] = "]"
      BY <2>10, AtFacts
    <3>2. ASSUME NEW i \in 1 .. Len(h) PROVE h[i] # "]"
      <4>1. i \in 1 .. e - 2 /\ 2 + i - 1 \in 1 .. e - 1
        BY <2>8, <2>10
      <4> QED
        BY <2>7, <2>10, <4>1
    <3> QED
      BY <3>1, <3>2
  <2>14. SubSeq(t, 1, e) = Bracketed(h)
    <3> DEFINE a == SubSeq(t, 1, e)
               y == Bracketed(h)
    <3>1. e \in 0 .. Len(t)
      BY <2>6
    <3>2. a \in Seq(Characters) /\ Len(a) = e /\ \A i \in 1 .. e : a[i] = t[i]
      BY <3>1, Start
    <3>3. /\ y \in Seq(Characters) /\ Len(y) = Len(h) + 2
          /\ y[1] = "[" /\ y[Len(h) + 2] = "]"
          /\ \A i \in 1 .. Len(h) : y[1 + i] = h[i]
      BY <2>10, BracketedFacts
    <3> HIDE DEF a, y
    <3>4. Len(h) + 2 = e
      BY <2>8, <2>10
    <3>5. ASSUME NEW i \in 1 .. Len(a) PROVE a[i] = y[i]
      <4>1. i \in 1 .. e
        BY <3>2
      <4>2. CASE i = 1
        BY <2>6, <3>2, <3>3, <4>1, <4>2
      <4>3. CASE i = e
        BY <2>6, <3>2, <3>3, <3>4, <4>1, <4>3
      <4>4. CASE i # 1 /\ i # e
        <5>1. i - 1 \in 1 .. Len(h) /\ i - 1 \in 1 .. e - 2 /\ 1 + (i - 1) = i /\ 2 + (i - 1) - 1 = i
          BY <2>8, <2>10, <4>1, <4>4
        <5>2. y[1 + (i - 1)] = h[i - 1]
          BY <3>3, <5>1
        <5>3. h[i - 1] = t[2 + (i - 1) - 1]
          BY <2>10, <5>1
        <5> QED
          BY <3>2, <4>1, <5>1, <5>2, <5>3
      <4> QED
        BY <4>2, <4>3, <4>4
    <3>6. a = y
      BY <3>2, <3>3, <3>4, <3>5, SeqEqual
    <3> QED
      BY <3>6 DEF a, y
  <2>15. t = Bracketed(h) \o PortPart(p)
    BY <2>1, <2>11, <2>12, <2>14
  <2>16. HostPart(Bracketed(h), h, p)
    BY <2>13 DEF HostPart
  <2> QED
    BY <2>10, <2>11, <2>15, <2>16 DEF h, p, r
<1>3. CASE ~Brackets(t) /\ Cardinality(At(t, ":")) = 1
  <2>1. PICK d : At(t, ":") = {d}
    BY <1>3, AtFacts
  <2>2. d \in 1 .. Len(t) /\ t[d] = ":" /\ \A i \in 1 .. Len(t) : t[i] = ":" => i = d
    BY <1>0, <2>1
  <2>3. Min(At(t, ":")) = d
    <3>1. d \in {d} /\ {d} \in SUBSET Int /\ \A k \in {d} : d <= k
      BY <2>2
    <3> QED
      BY <2>1, <3>1, MinOf
  <2>4. e = d
    BY <1>3, <2>3 DEF HostEnd
  <2>5. h = SubSeq(t, 1, d - 1) /\ r = From(t, d + 0)
    BY <1>3, <2>4 DEF Host, AfterHost
  <2> HIDE DEF e
  <2>6. d - 1 \in 0 .. Len(t) /\ d \in 1 .. Len(t) + 1 /\ d + 0 = d /\ (d - 1) + 1 = d
    BY <1>0, <2>2
  <2>7. h \in Seq(Characters) /\ Len(h) = d - 1 /\ \A i \in 1 .. d - 1 : h[i] = t[i]
    BY <2>5, <2>6, Start
  <2>8. r \in Seq(Characters)
    BY <2>5, <2>6, Rest
  <2>9. t = SubSeq(t, 1, d - 1) \o From(t, (d - 1) + 1)
    BY <2>6, CutAt
  <2>10. p \in Seq(Characters) /\ r = PortPart(p)
    <3> HIDE DEF r
    <3> QED
      BY <1>1, <2>8, PortIs
  <2> HIDE DEF h, r, p
  <2>11. t = h \o PortPart(p)
    BY <2>5, <2>6, <2>9, <2>10
  <2>12. At(h, ":") = {}
    <3>1. \A i : i \in At(h, ":") <=> i \in 1 .. Len(h) /\ h[i] = ":"
      BY <2>7, AtFacts
    <3>2. ASSUME NEW i \in 1 .. Len(h) PROVE h[i] # ":"
      <4>1. i \in 1 .. d - 1 /\ i \in 1 .. Len(t) /\ i # d
        BY <2>2, <2>6, <2>7
      <4> QED
        BY <2>2, <2>7, <4>1
    <3> QED
      BY <3>1, <3>2
  <2>13. Cardinality(At(h, ":")) = 0
    BY <2>7, <2>12, AtFacts
  <2>14. h # <<>>
    BY DEF h
  <2>15. ~Brackets(h)
    <3>1. 1 \in 1 .. d - 1
      BY <2>2, <2>7, <2>14
    <3>2. h[1] = t[1] /\ t # <<>>
      BY <2>2, <2>7, <3>1
    <3> QED
      BY <1>3, <3>2 DEF Brackets, HasPrefix
  <2>16. HostPart(h, h, p)
    BY <2>13, <2>15 DEF HostPart, Plain
  <2> QED
    BY <2>7, <2>10, <2>11, <2>16 DEF h, p, r
<1>4. CASE ~Brackets(t) /\ Cardinality(At(t, ":")) # 1
  <2>1. e = Len(t) + 1
    BY <1>4 DEF HostEnd
  <2>2. h = SubSeq(t, 1, (Len(t) + 1) - 1) /\ r = From(t, (Len(t) + 1) + 0)
    BY <1>4, <2>1 DEF Host, AfterHost
  <2> HIDE DEF e
  <2>3. (Len(t) + 1) - 1 = Len(t) /\ (Len(t) + 1) + 0 = Len(t) + 1
    BY <1>0
  <2>4. SubSeq(t, 1, Len(t)) = t /\ From(t, Len(t) + 1) = <<>>
    BY <1>0, SubSeqFull, SubSeqEmpty DEF From
  <2>5. h = t /\ r = <<>>
    BY <2>2, <2>3, <2>4
  <2>6. r \in Seq(Characters)
    <3> HIDE DEF r
    <3> QED
      BY <2>5
  <2>7. p \in Seq(Characters) /\ r = PortPart(p)
    <3> HIDE DEF r
    <3> QED
      BY <1>1, <2>6, PortIs
  <2>8. p = <<>>
    <3>1. From(<<>>, 2) = <<>>
      BY SubSeqEmpty DEF From
    <3> HIDE DEF r
    <3> QED
      BY <2>5, <3>1
  <2> HIDE DEF h, r, p
  <2>9. t = h \o PortPart(p)
    BY <2>5, <2>7, ConcatEmptySeq
  <2>10. Cardinality(At(h, ":")) \in Nat /\ Cardinality(At(h, ":")) # 1
    BY <1>4, <2>5, AtFacts
  <2>11. HostPart(h, h, p)
    BY <1>4, <2>5, <2>8, <2>10 DEF HostPart, Plain
  <2> QED
    BY <2>5, <2>7, <2>9, <2>11 DEF h, p, r
<1> QED
  BY <1>2, <1>3, <1>4
-----------------------------------------------------------------------------
(***************************************************************************)
(* The command line: a destination is accepted as what it means.           *)
(***************************************************************************)
(* The text of a port: what stands for it after the ":". *)
PortText(g, n) == IF n = <<>> THEN <<>> ELSE g \o n
PortValue(p) == IF p = <<>> THEN 0 ELSE Atoi(p)
Signs == {<<>>, <<"+">>}
PortDigits(n) == n = <<>> \/ (ToSet(n) \subseteq Digits /\ InRange(Number(n)))

(* s writes the user u, the host h and the text p of a port. *)
Writes(s, u, h, p) == \E x : HostPart(x, h, p) /\ s = (UserPart(u) \o x) \o PortPart(p)

(* The spellings of a destination. *)
LEMMA SpelledAs ==
  ASSUME NEW u, NEW h, NEW g, NEW n, NEW p \in Seq(Characters), p = PortText(g, n),
         p = <<>> <=> n = <<>>, NEW s
  PROVE  s \in Spellings(u, h, g, n) <=> Writes(s, u, h, p)
<1> DEFINE plain == IF Cardinality(At(h, ":")) = 0 \/ (Cardinality(At(h, ":")) > 1 /\ p = <<>>)
                    THEN {h} ELSE {}
           bracketed == IF At(h, "]") = {} THEN {Bracketed(h)} ELSE {}
           X == (IF Brackets(h) THEN {} ELSE plain) \cup bracketed
           port == IF n = <<>> THEN <<>> ELSE <<":">> \o (g \o n)
<1>1. port = PortPart(p)
  BY DEF PortText, PortPart
<1>2. PortPart(p) = <<>> <=> p = <<>>
  <2>1. CASE p = <<>>
    BY <2>1 DEF PortPart
  <2>2. CASE p # <<>>
    <3> DEFINE c == <<":">>
    <3>1. c \in Seq(Characters)
      BY DEF Characters
    <3>2. PortPart(p) = c \o p
      BY <2>2 DEF PortPart
    <3> HIDE DEF c
    <3>3. c \o p # <<>>
      BY <2>2, <3>1, ConcatEqualIffEmpty
    <3> QED
      BY <2>2, <3>2, <3>3
  <2> QED
    BY <2>1, <2>2
<1>3. Spellings(u, h, g, n) = {(UserPart(u) \o x) \o PortPart(p) : x \in X}
  <2>1. Spellings(u, h, g, n) =
          {(UserPart(u) \o x) \o port :
             x \in (IF Brackets(h) THEN {}
                   ELSE IF Cardinality(At(h, ":")) = 0 \/ (Cardinality(At(h, ":")) > 1 /\ port = <<>>)
                        THEN {h} ELSE {}) \cup bracketed}
    BY DEF Spellings, UserPart, Bracketed
  <2> HIDE DEF port
  <2> QED
    BY <1>1, <1>2, <2>1
<1>4. \A x : x \in X <=> HostPart(x, h, p)
  BY DEF HostPart, Plain
<1> HIDE DEF X
<1> QED
  BY <1>3, <1>4 DEF Writes

(* Digits stand for a natural number, and none for 0. *)
LEMMA NumberFacts ==
  ASSUME NEW p \in Seq(Characters)
  PROVE  Number(p) \in Nat /\ Number(<<>>) = 0
<1> DEFINE R(y, x) == 10 * y + (IF x = "1" THEN 1 ELSE 0)
<1>1. ASSUME NEW q \in Seq(Characters)
      PROVE  Number(q) \in Nat /\ (Len(q) = 0 => Number(q) = 0)
  <2> DEFINE n == Len(q)
             step == [x \in Nat \X (1 .. n) |-> R(x[1], q[x[2]])]
  <2>1. n \in Nat
    OBVIOUS
  <2>2. \A y \in Nat, i \in 1 .. n : step[<<y, i>>] = R(y, q[i]) /\ R(y, q[i]) \in Nat
    <3>1. \A y \in Nat : \A x : R(y, x) \in Nat
      OBVIOUS
    <3> HIDE DEF R
    <3>2. \A y \in Nat, i \in 1 .. n : step[<<y, i>>] = R(y, q[i])
      OBVIOUS
    <3> QED
      BY <3>1, <3>2
  <2> HIDE DEF step
  <2>3. PICK a : Iterates(a, n, Nat, 0, step)
    <3>1. \A y \in Nat, i \in 1 .. n : step[<<y, i>>] \in Nat
      BY <2>2
    <3> HIDE DEF n
    <3> QED
      BY <2>1, <3>1, Recursion
  <2> DEFINE P(b) == b = [i \in 0 .. Len(q) |-> IF i = 0 THEN 0 ELSE R(b[i - 1], q[i])]
             c == CHOOSE b : P(b)
  <2>4. P(a)
    <3>1. ASSUME NEW i \in 1 .. n PROVE a[i] = R(a[i - 1], q[i])
      <4>1. i - 1 \in 0 .. n
        BY <2>1
      <4>2. a[i - 1] \in Nat /\ a[i] = step[<<a[i - 1], i>>]
        BY <2>3, <4>1 DEF Iterates
      <4> HIDE DEF R
      <4> QED
        BY <2>2, <4>2
    <3>2. a \in [0 .. n -> Nat] /\ a[0] = 0
      BY <2>3 DEF Iterates
    <3> HIDE DEF R
    <3>3. \A i \in 0 .. n : a[i] = IF i = 0 THEN 0 ELSE R(a[i - 1], q[i])
      BY <2>1, <3>1, <3>2
    <3> QED
      BY <3>2, <3>3
  <2>5. P(c)
    <3> HIDE DEF P
    <3> QED
      BY <2>4
  <2>6. Number(q) = c[n]
    BY DEF Number, Loop
  <2> HIDE DEF c
  <2>7. \A i \in 0 .. n : c[i] = IF i = 0 THEN 0 ELSE R(c[i - 1], q[i])
    <3> HIDE DEF R
    <3> QED
      BY <2>5
  <2> HIDE DEF P
  <2> DEFINE S == {i \in 0 .. n : c[i] \in Nat}
  <2>8. c[0] = 0 /\ 0 \in S
    BY <2>1, <2>7
  <2>9. ASSUME NEW i \in 0 .. n - 1, i \in S
        PROVE  i + 1 \in S
    <3>1. i + 1 \in 0 .. n /\ i + 1 # 0 /\ (i + 1) - 1 = i
      BY <2>1
    <3>2. c[i + 1] = R(c[i], q[i + 1])
      BY <2>7, <3>1
    <3>3. c[i] \in Nat
      BY <2>9
    <3> QED
      BY <3>1, <3>2, <3>3
  <2> HIDE DEF S, n
  <2>10. \A i \in 0 .. n : i \in S
    BY <2>1, <2>8, <2>9, InductionTo
  <2> QED
    BY <2>1, <2>6, <2>8, <2>10 DEF S, n
<1>2. <<>> \in Seq(Characters) /\ Len(<<>>) = 0
  OBVIOUS
<1> QED
  BY <1>1, <1>2

(* A text of digits, its sign and what it is read as. *)
LEMMA PortReads ==
  ASSUME NEW g \in Signs, NEW n \in Seq(Characters), PortDigits(n), NEW p, p = PortText(g, n)
  PROVE  /\ p \in Seq(PortChars) /\ p \in Seq(Characters) /\ (p = <<>> <=> n = <<>>)
         /\ PortValue(p) = Number(n)
         /\ p # <<>> => InRange(PortValue(p))
<1>0. PortChars \subseteq Characters
  BY DEF PortChars, Digits, Characters
<1>1. CASE n = <<>>
  <2>1. p = <<>> /\ PortValue(p) = 0
    BY <1>1 DEF PortText, PortValue
  <2>2. Number(<<>>) = 0 /\ <<>> \in Seq(PortChars) /\ <<>> \in Seq(Characters)
    BY NumberFacts
  <2> QED
    BY <1>1, <2>1, <2>2, Zenon
<1>2. CASE n # <<>>
  <2>1. ToSet(n) \subseteq Digits /\ InRange(Number(n)) /\ p = g \o n
    BY <1>2 DEF PortDigits, PortText
  <2>2. Len(n) \in Nat /\ Len(n) >= 1 /\ \A i \in 1 .. Len(n) : n[i] \in Digits
    BY <1>2, <2>1 DEF ToSet
  <2>3. n \in Seq(PortChars)
    <3>1. n \in [1 .. Len(n) -> PortChars]
      BY <2>2 DEF PortChars
    <3> QED
      BY <2>2, <3>1
  <2>4. ~HasPrefix(n, "+") /\ ~HasPrefix(n, "-")
    BY <2>2 DEF HasPrefix, Digits
  <2>5. CASE g = <<>>
    <3>1. p = n
      BY <2>1, <2>5, ConcatEmptySeq
    <3>2. Atoi(p) = Number(n)
      BY <1>2, <2>1, <2>4, <3>1 DEF Atoi
    <3> QED
      BY <1>2, <2>1, <2>3, <3>1, <3>2 DEF PortValue
  <2>6. CASE g # <<>>
    <3> DEFINE c == <<"+">>
    <3>1. g = c /\ c \in Seq(PortChars) /\ Len(c) = 1 /\ c[1] = "+"
      BY <2>6 DEF Signs, PortChars
    <3> HIDE DEF c
    <3>2. /\ p \in Seq(PortChars) /\ Len(p) = Len(c) + Len(n)
          /\ \A i \in 1 .. Len(c) : p[i] = c[i]
          /\ From(p, Len(c) + 1) = n
      <4>1. LET a == c \o n IN
            /\ a \in Seq(PortChars) /\ Len(a) = Len(c) + Len(n)
            /\ \A i \in 1 .. Len(c) : a[i] = c[i]
            /\ From(a, Len(c) + 1) = n
        BY <2>3, <3>1, Halves
      <4> QED
        BY <2>1, <3>1, <4>1, Zenon
    <3>3. p[1] = "+" /\ From(p, 2) = n /\ p # <<>>
      BY <2>2, <3>1, <3>2
    <3>4. Atoi(p) = Number(n)
      BY <1>2, <2>1, <3>3 DEF Atoi, HasPrefix
    <3>5. p \in Seq(Characters)
      BY <1>0, <3>2, SeqMonotonic
    <3> QED
      BY <1>2, <2>1, <3>2, <3>3, <3>4, <3>5 DEF PortValue
  <2> QED
    BY <2>5, <2>6
<1> QED
  BY <1>1, <1>2

(* A text that is read as a port is digits, with a sign or not. *)
LEMMA PortMeans ==
  ASSUME NEW p \in Seq(Characters), p = <<>> \/ InRange(Atoi(p))
  PROVE  \E g \in Signs, k \in 0 .. Len(p) :
           /\ From(p, k + 1) \in Seq(Characters) /\ PortDigits(From(p, k + 1))
           /\ p = PortText(g, From(p, k + 1))
<1>1. CASE ~HasPrefix(p, "+") /\ ~HasPrefix(p, "-")
  <2>1. From(p, 0 + 1) = p /\ 0 \in 0 .. Len(p) /\ <<>> \in Signs
    BY SubSeqFull DEF From, Signs
  <2>2. PortDigits(p)
    <3>1. CASE p = <<>>
      BY <3>1 DEF PortDigits
    <3>2. CASE p # <<>>
      <4>1. InRange(Atoi(p)) /\ ~(0 \in 1 .. MaxPort)
        BY <3>2, ArgumentsAssumption
      <4>2. Atoi(p) = IF ToSet(p) \subseteq Digits THEN Number(p) ELSE 0
        BY <1>1, <3>2 DEF Atoi
      <4> QED
        BY <4>1, <4>2 DEF PortDigits, InRange
    <3> QED
      BY <3>1, <3>2
  <2>3. p = PortText(<<>>, p)
    BY ConcatEmptySeq DEF PortText
  <2> QED
    BY <2>1, <2>2, <2>3
<1>2. CASE HasPrefix(p, "+") \/ HasPrefix(p, "-")
  <2> DEFINE n == From(p, 2)
  <2>1. p # <<>> /\ Len(p) \in Nat /\ Len(p) >= 1 /\ p[1] \in {"+", "-"}
    BY <1>2 DEF HasPrefix
  <2>2. n \in Seq(Characters)
    <3>1. 2 \in 1 .. Len(p) + 1
      BY <2>1
    <3> QED
      BY <3>1, Rest
  <2>3. InRange(Atoi(p)) /\ ~(0 \in 1 .. MaxPort)
    BY <2>1, ArgumentsAssumption
  <2>4. Atoi(p) = IF n = <<>> \/ ~(ToSet(n) \subseteq Digits) THEN 0
                  ELSE IF HasPrefix(p, "-") THEN -Number(n) ELSE Number(n)
    BY <1>2 DEF Atoi
  <2> HIDE DEF n
  <2>5. Number(n) \in Nat /\ ~(-Number(n) \in 1 .. MaxPort)
    <3>1. Number(n) \in Nat
      BY <2>2, NumberFacts
    <3> QED
      BY <3>1, ArgumentsAssumption
  <2>6. n # <<>> /\ PortDigits(n) /\ ~HasPrefix(p, "-")
    BY <2>3, <2>4, <2>5 DEF PortDigits, InRange
  <2>7. p[1] = "+"
    BY <1>2, <2>6 DEF HasPrefix
  <2>8. p = <<"+">> \o n
    <3> DEFINE a == SubSeq(p, 1, 1)
               c == <<"+">>
    <3>0. 1 \in 0 .. Len(p)
      BY <2>1
    <3>1. p = a \o From(p, 1 + 1)
      BY <3>0, CutAt
    <3>2. a \in Seq(Characters) /\ Len(a) = 1 /\ \A i \in 1 .. 1 : a[i] = p[i]
      BY <3>0, Start
    <3>3. c \in Seq(Characters) /\ Len(c) = 1 /\ c[1] = "+"
      BY DEF Characters
    <3> HIDE DEF a, c
    <3>4. \A i \in 1 .. Len(a) : a[i] = c[i]
      BY <2>7, <3>2, <3>3
    <3>5. a = c
      BY <3>2, <3>3, <3>4, SeqEqual
    <3>6. p = c \o n
      BY <3>1, <3>5 DEF n
    <3> QED
      BY <3>6 DEF c
  <2>9. 1 \in 0 .. Len(p) /\ From(p, 1 + 1) = n /\ <<"+">> \in Signs
    BY <2>1 DEF n, Signs
  <2>10. p = PortText(<<"+">>, n)
    BY <2>6, <2>8 DEF PortText
  <2> QED
    BY <2>2, <2>6, <2>9, <2>10
<1> QED
  BY <1>1, <1>2

(* A part of a sequence, by its place. *)
LEMMA PlaceOf ==
  ASSUME NEW S, NEW s \in Seq(S), NEW b \in Seq(S), NEW k \in 0 .. Len(s) - Len(b),
         \A i \in 1 .. Len(b) : b[i] = s[k + i]
  PROVE  k \in 0 .. Len(s) /\ k + Len(b) \in 0 .. Len(s) /\ b = SubSeq(s, k + 1, k + Len(b))
<1> DEFINE z == SubSeq(s, k + 1, k + Len(b))
<1>1. /\ Len(s) \in Nat /\ Len(b) \in Nat /\ k \in Nat
      /\ k + 1 \in 1 .. Len(s) + 1 /\ k + Len(b) \in (k + 1) - 1 .. Len(s)
      /\ (k + Len(b)) - (k + 1) + 1 = Len(b)
  BY SMTT(30)
<1>2. z \in Seq(S) /\ Len(z) = Len(b) /\ \A i \in 1 .. Len(b) : z[i] = s[k + 1 + i - 1]
  <2>1. /\ z \in Seq(S) /\ Len(z) = (k + Len(b)) - (k + 1) + 1
        /\ \A i \in 1 .. (k + Len(b)) - (k + 1) + 1 : z[i] = s[k + 1 + i - 1]
    BY <1>1, Cut
  <2> HIDE DEF z
  <2> QED
    BY <1>1, <2>1
<1> HIDE DEF z
<1>3. \A i \in 1 .. Len(b) : k + 1 + i - 1 = k + i
  BY <1>1
<1>4. \A i \in 1 .. Len(b) : b[i] = z[i]
  BY <1>2, <1>3
<1>5. b = z
  BY <1>2, <1>4, SeqEqual
<1>6. k \in 0 .. Len(s) /\ k + Len(b) \in 0 .. Len(s)
  BY <1>1
<1> QED
  BY <1>5, <1>6, Zenon DEF z

(* The sequence x holds h. *)
IsPartOf(h, x) == \E k \in 0 .. Len(x) - Len(h) : \A i \in 1 .. Len(h) : h[i] = x[k + i]

(* The ways to write a host hold it, and no "@" it has not. *)
LEMMA HostPartFacts ==
  ASSUME NEW h \in Seq(Characters), NEW p, NEW x, HostPart(x, h, p)
  PROVE  /\ x \in Seq(Characters)
         /\ At(h, "@") = {} => \A i \in 1 .. Len(x) : x[i] # "@"
         /\ IsPartOf(h, x)
<1>1. CASE x = h
  <2>1. \A i : i \in At(h, "@") <=> i \in 1 .. Len(h) /\ h[i] = "@"
    BY AtFacts
  <2>2. 0 \in 0 .. Len(x) - Len(h) /\ \A i \in 1 .. Len(h) : h[i] = x[0 + i]
    BY <1>1
  <2>3. IsPartOf(h, x)
    BY <2>2 DEF IsPartOf
  <2> QED
    BY <1>1, <2>1, <2>3
<1>2. CASE x = Bracketed(h)
  <2>1. \A i : i \in At(h, "@") <=> i \in 1 .. Len(h) /\ h[i] = "@"
    BY AtFacts
  <2>2. /\ x \in Seq(Characters) /\ Len(x) = Len(h) + 2 /\ Len(h) \in Nat
        /\ x[1] = "[" /\ x[Len(h) + 2] = "]"
        /\ \A i \in 1 .. Len(h) : x[1 + i] = h[i]
    BY <1>2, BracketedFacts
  <2>3. ASSUME At(h, "@") = {}, NEW i \in 1 .. Len(x) PROVE x[i] # "@"
    <3>1. i = 1 \/ i = Len(h) + 2 \/ (i - 1 \in 1 .. Len(h) /\ 1 + (i - 1) = i)
      BY <2>2
    <3> QED
      BY <2>1, <2>2, <2>3, <3>1
  <2>4. 1 \in 0 .. Len(x) - Len(h)
    BY <2>2
  <2>5. IsPartOf(h, x)
    BY <2>2, <2>4 DEF IsPartOf
  <2> QED
    BY <2>2, <2>3, <2>5
<1> QED
  BY <1>1, <1>2 DEF HostPart

(* However a host is written, it is read. *)
LEMMA HostCut ==
  ASSUME NEW h \in Seq(Characters), h # <<>>, NEW p \in Seq(PortChars), NEW x,
         HostPart(x, h, p), NEW t, t = x \o PortPart(p)
  PROVE  t \in Seq(Characters) /\ ~BadRest(t) /\ Host(t) = h /\ From(AfterHost(t), 2) = p
<1>1. CASE Plain(h, p) /\ x = h
  BY <1>1, PlainCut
<1>2. CASE At(h, "]") = {} /\ x = Bracketed(h)
  BY <1>2, BracketedCut
<1> QED
  BY <1>1, <1>2 DEF HostPart

(* The parts of s that u, h and n are, and what they must be. *)
PartsOf(s, u, h, g, n) ==
  /\ (\E i \in 0 .. Len(s) : u = SubSeq(s, 1, i)) /\ ~HasPrefix(u, "-")
  /\ \E i, j \in 0 .. Len(s) : h = SubSeq(s, i + 1, j)
  /\ h # <<>> /\ ~HasPrefix(h, "-") /\ At(h, "@") = {}
  /\ g \in Signs /\ (\E i \in 0 .. Len(s) : n = From(s, i + 1)) /\ PortDigits(n)

(* What a text may mean. *)
LEMMA MeantIs ==
  ASSUME NEW s, NEW d
  PROVE  d \in Meant(s) <=>
           \E u, h, g, n : /\ PartsOf(s, u, h, g, n) /\ d = Found(u, h, Number(n))
                          /\ s \in Spellings(u, h, g, n)
<1> DEFINE Cuts == 0 .. Len(s)
           hosts == {h \in {SubSeq(s, i + 1, j) : i, j \in Cuts} :
                       h # <<>> /\ ~HasPrefix(h, "-") /\ At(h, "@") = {}}
           users == {u \in {SubSeq(s, 1, i) : i \in Cuts} : ~HasPrefix(u, "-")}
           numbers == {n \in {From(s, i + 1) : i \in Cuts} : PortDigits(n)}
           parts == {w \in users \X hosts \X Signs \X numbers :
                       s \in Spellings(w[1], w[2], w[3], w[4])}
<1>1. Meant(s) = {Found(w[1], w[2], Number(w[4])) : w \in parts}
  BY DEF Meant, PortDigits, Signs
<1>2. \A u, h, g, n : u \in users /\ h \in hosts /\ g \in Signs /\ n \in numbers <=> PartsOf(s, u, h, g, n)
  BY DEF PartsOf
<1> HIDE DEF hosts, users, numbers
<1>3. d \in Meant(s) <=> \E w \in parts : d = Found(w[1], w[2], Number(w[4]))
  <2> HIDE DEF parts
  <2> QED
    BY <1>1
<1>4. (\E w \in parts : d = Found(w[1], w[2], Number(w[4]))) <=>
        \E u \in users, h \in hosts, g \in Signs, n \in numbers :
          d = Found(u, h, Number(n)) /\ s \in Spellings(u, h, g, n)
  <2>1. ASSUME NEW w \in parts, d = Found(w[1], w[2], Number(w[4]))
        PROVE  \E u \in users, h \in hosts, g \in Signs, n \in numbers :
                 d = Found(u, h, Number(n)) /\ s \in Spellings(u, h, g, n)
    <3>1. w[1] \in users /\ w[2] \in hosts /\ w[3] \in Signs /\ w[4] \in numbers
      OBVIOUS
    <3>2. s \in Spellings(w[1], w[2], w[3], w[4])
      OBVIOUS
    <3> QED
      BY <2>1, <3>1, <3>2, Zenon
  <2>2. ASSUME NEW u \in users, NEW h \in hosts, NEW g \in Signs, NEW n \in numbers,
               d = Found(u, h, Number(n)), s \in Spellings(u, h, g, n)
        PROVE  \E w \in parts : d = Found(w[1], w[2], Number(w[4]))
    <3> DEFINE w == <<u, h, g, n>>
    <3>1. w \in users \X hosts \X Signs \X numbers /\ w[1] = u /\ w[2] = h /\ w[3] = g /\ w[4] = n
      OBVIOUS
    <3> HIDE DEF w
    <3>2. w \in parts
      BY <2>2, <3>1
    <3> QED
      BY <2>2, <3>1, <3>2
  <2> QED
    BY <2>1, <2>2
<1> HIDE DEF parts
<1> QED
  BY <1>2, <1>3, <1>4, Zenon

(* What a text means is what it is read as. *)
LEMMA MeantIsParsed ==
  ASSUME NEW s \in Seq(Characters), ~IsURI(s), NEW d \in Meant(s)
  PROVE  parseDestination(s) = d /\ d.ok
<1> DEFINE Cuts == 0 .. Len(s)
<1>0. PICK u, h, g, n : /\ PartsOf(s, u, h, g, n) /\ d = Found(u, h, Number(n))
                        /\ s \in Spellings(u, h, g, n)
  BY MeantIs
<1> DEFINE p == PortText(g, n)
<1>1. /\ \E i \in Cuts : u = SubSeq(s, 1, i)
      /\ ~HasPrefix(u, "-")
      /\ \E i \in Cuts, j \in Cuts : h = SubSeq(s, i + 1, j)
      /\ h # <<>> /\ ~HasPrefix(h, "-") /\ At(h, "@") = {}
      /\ g \in Signs /\ \E i \in Cuts : n = From(s, i + 1)
      /\ PortDigits(n)
  BY <1>0 DEF PartsOf
<1>2. u \in Seq(Characters)
  <2>1. PICK i \in Cuts : u = SubSeq(s, 1, i)
    BY <1>1
  <2>2. i \in Int /\ i <= Len(s)
    OBVIOUS
  <2> QED
    BY <2>1, <2>2, PartOf
<1>3. h \in Seq(Characters)
  <2>1. PICK i \in Cuts, j \in Cuts : h = SubSeq(s, i + 1, j)
    BY <1>1
  <2>2. i + 1 \in Nat /\ i + 1 >= 1 /\ j \in Int /\ j <= Len(s)
    OBVIOUS
  <2> QED
    BY <2>1, <2>2, PartOf
<1>4. n \in Seq(Characters)
  <2>1. PICK i \in Cuts : n = From(s, i + 1)
    BY <1>1
  <2>2. i + 1 \in Nat /\ i + 1 >= 1 /\ Len(s) \in Int /\ Len(s) <= Len(s)
    OBVIOUS
  <2> QED
    BY <2>1, <2>2, PartOf DEF From
<1>5. /\ p \in Seq(PortChars) /\ p \in Seq(Characters) /\ (p = <<>> <=> n = <<>>)
      /\ PortValue(p) = Number(n) /\ (p # <<>> => InRange(PortValue(p)))
      /\ p = PortText(g, n)
  BY <1>1, <1>4, PortReads
<1> HIDE DEF p
<1>6. PICK x : HostPart(x, h, p) /\ s = (UserPart(u) \o x) \o PortPart(p)
  <2>1. s \in Spellings(u, h, g, n) <=> Writes(s, u, h, p)
    BY <1>5, SpelledAs
  <2> QED
    BY <1>0, <2>1, Zenon DEF Writes
<1> DEFINE r == PortPart(p)
           t == x \o r
           U == UserPart(u)
<1>7. x \in Seq(Characters) /\ \A i \in 1 .. Len(x) : x[i] # "@"
  <2>1. HostPart(x, h, p)
    BY <1>6
  <2>2. x \in Seq(Characters) /\ (At(h, "@") = {} => \A i \in 1 .. Len(x) : x[i] # "@")
    BY <1>3, <2>1, HostPartFacts
  <2> QED
    BY <1>1, <2>2
<1>8. r \in Seq(Characters) /\ \A i \in 1 .. Len(r) : r[i] # "@"
  BY <1>5, PortFacts
<1>9. t \in Seq(Characters) /\ ~BadRest(t) /\ Host(t) = h /\ From(AfterHost(t), 2) = p
  <2>1. HostPart(x, h, p) /\ h # <<>>
    BY <1>1, <1>6
  <2> QED
    BY <1>3, <1>5, <2>1, HostCut, Zenon
<1>10. U \in Seq(Characters)
  <2>1. "@" \in Characters
    BY DEF Characters
  <2>2. Append(u, "@") \in Seq(Characters) /\ <<>> \in Seq(Characters)
    BY <1>2, <2>1, AppendProperties
  <2> QED
    BY <2>2 DEF UserPart
<1> HIDE DEF r, U
<1>11. At(t, "@") = {}
  <2>1. /\ Len(t) = Len(x) + Len(r) /\ Len(x) \in Nat /\ Len(r) \in Nat
        /\ \A i \in 1 .. Len(x) : t[i] = x[i]
        /\ \A i \in 1 .. Len(r) : t[Len(x) + i] = r[i]
    <3>1. x \in Seq(Characters) /\ r \in Seq(Characters)
      BY <1>7, <1>8
    <3> QED
      BY <3>1, Halves
  <2> HIDE DEF t
  <2>2. ASSUME NEW i \in 1 .. Len(t) PROVE t[i] # "@"
    <3>1. i \in 1 .. Len(x) \/ (i - Len(x) \in 1 .. Len(r) /\ Len(x) + (i - Len(x)) = i)
      BY <2>1
    <3> QED
      BY <1>7, <1>8, <2>1, <3>1
  <2>3. \A i : i \in At(t, "@") <=> i \in 1 .. Len(t) /\ t[i] = "@"
    BY <1>9, AtFacts
  <2> QED
    BY <2>2, <2>3
<1>12. s = U \o t
  <2>1. (U \o x) \o r = U \o (x \o r)
    BY <1>7, <1>8, <1>10, ConcatAssociative, SMTT(30)
  <2> QED
    BY <1>6, <2>1 DEF U, r
<1> HIDE DEF t
<1>13. /\ UserEnd(s) # 1 /\ SubSeq(s, 1, UserEnd(s) - 1) = u
       /\ From(s, UserEnd(s) + 1) = t
  BY <1>2, <1>9, <1>11, <1>12, UserCut DEF U
<1>14. parseDestination(s) = Found(u, h, PortValue(p))
  BY <1>1, <1>5, <1>9, <1>13 DEF parseDestination, PortValue
<1> QED
  BY <1>0, <1>5, <1>14 DEF Found

(* And what it is read as, if it is accepted, it means. *)
LEMMA ParsedIsMeant ==
  ASSUME NEW s \in Seq(Characters), parseDestination(s).ok
  PROVE  ~IsURI(s) /\ parseDestination(s) \in Meant(s)
<1> DEFINE e == UserEnd(s)
           u == SubSeq(s, 1, e - 1)
           t == From(s, e + 1)
           h == Host(t)
           p == From(AfterHost(t), 2)
           U == UserPart(u)
           r == PortPart(p)
           Cuts == 0 .. Len(s)
<1>1. /\ ~IsURI(s) /\ e # 1 /\ ~HasPrefix(u, "-") /\ ~BadRest(t)
      /\ h # <<>> /\ ~HasPrefix(h, "-") /\ (p = <<>> \/ InRange(Atoi(p)))
      /\ parseDestination(s) = Found(u, h, PortValue(p))
  BY DEF parseDestination, UsageError, PortValue
<1>2. /\ u \in Seq(Characters) /\ t \in Seq(Characters) /\ At(t, "@") = {} /\ s = U \o t
      /\ \E i \in Cuts : u = SubSeq(s, 1, i)
  BY <1>1, UserJoin
<1> HIDE DEF e, u, t
<1>3. /\ h \in Seq(Characters) /\ p \in Seq(Characters)
      /\ \E x : HostPart(x, h, p) /\ t = x \o r
  BY <1>1, <1>2, HostJoin
<1> HIDE DEF h, p
<1>4. PICK x : HostPart(x, h, p) /\ t = x \o r
  BY <1>3
<1>5a. PICK g \in Signs, k0 \in 0 .. Len(p) :
         /\ From(p, k0 + 1) \in Seq(Characters) /\ PortDigits(From(p, k0 + 1))
         /\ p = PortText(g, From(p, k0 + 1))
  BY <1>1, <1>3, PortMeans
<1> DEFINE n == From(p, k0 + 1)
<1>5. /\ p \in Seq(PortChars) /\ (p = <<>> <=> n = <<>>) /\ p = PortText(g, n)
      /\ PortValue(p) = Number(n) /\ PortDigits(n)
  BY <1>5a, PortReads
<1>6. r \in Seq(Characters) /\ From(r, 2) = p /\ (p # <<>> => Len(r) = Len(p) + 1)
      /\ (p = <<>> => r = <<>>) /\ Len(p) \in Nat
  BY <1>5, PortFacts
<1>7. x \in Seq(Characters) /\ IsPartOf(h, x)
  <2>1. HostPart(x, h, p)
    BY <1>4
  <2> QED
    BY <1>3, <2>1, HostPartFacts
<1>8. U \in Seq(Characters)
  <2>1. "@" \in Characters
    BY DEF Characters
  <2>2. Append(u, "@") \in Seq(Characters) /\ <<>> \in Seq(Characters)
    BY <1>2, <2>1, AppendProperties
  <2> QED
    BY <2>2 DEF UserPart
<1> HIDE DEF U, r
<1>9. /\ Len(t) = Len(x) + Len(r) /\ Len(x) \in Nat /\ Len(r) \in Nat
      /\ \A i \in 1 .. Len(x) : t[i] = x[i]
      /\ From(t, Len(x) + 1) = r
  <2>1. x \in Seq(Characters) /\ r \in Seq(Characters)
    BY <1>6, <1>7
  <2>2. LET a == x \o r IN
        /\ Len(a) = Len(x) + Len(r) /\ Len(x) \in Nat /\ Len(r) \in Nat
        /\ \A i \in 1 .. Len(x) : a[i] = x[i]
        /\ From(a, Len(x) + 1) = r
    BY <2>1, Halves
  <2> QED
    BY <1>4, <2>2, Zenon
<1>10. /\ Len(s) = Len(U) + Len(t) /\ Len(U) \in Nat
       /\ \A i \in 1 .. Len(t) : s[Len(U) + i] = t[i]
       /\ From(s, Len(U) + 1) = t
  <2>2. LET a == U \o t IN
        /\ Len(a) = Len(U) + Len(t) /\ Len(U) \in Nat
        /\ \A i \in 1 .. Len(t) : a[Len(U) + i] = t[i]
        /\ From(a, Len(U) + 1) = t
    BY <1>2, <1>8, Halves
  <2> QED
    BY <1>2, <2>2, Zenon
<1>11. \E i \in Cuts, j \in Cuts : h = SubSeq(s, i + 1, j)
  <2>1. PICK k \in 0 .. Len(x) - Len(h) : \A i \in 1 .. Len(h) : h[i] = x[k + i]
    BY <1>7 DEF IsPartOf
  <2> DEFINE m == Len(U) + k
  <2>2. Len(h) \in Nat /\ k \in Nat /\ m \in 0 .. Len(s) - Len(h)
    BY <1>3, <1>9, <1>10
  <2>3. ASSUME NEW i \in 1 .. Len(h) PROVE h[i] = s[m + i]
    <3>1. k + i \in 1 .. Len(x) /\ k + i \in 1 .. Len(t) /\ Len(U) + (k + i) = m + i
      BY <1>9, <1>10, <2>2
    <3>2. s[Len(U) + (k + i)] = t[k + i]
      BY <1>10, <3>1
    <3>3. t[k + i] = x[k + i]
      BY <1>9, <3>1
    <3> QED
      BY <2>1, <3>1, <3>2, <3>3
  <2> HIDE DEF m
  <2>4. m \in Cuts /\ m + Len(h) \in Cuts /\ h = SubSeq(s, m + 1, m + Len(h))
    BY <1>3, <2>2, <2>3, PlaceOf
  <2> QED
    BY <2>4
<1>12. \E i \in Cuts : p = From(s, i + 1)
  <2>1. CASE p = <<>>
    <3>1. Len(s) \in Cuts /\ From(s, Len(s) + 1) = <<>>
      BY SubSeqEmpty DEF From
    <3> QED
      BY <2>1, <3>1
  <2>2. CASE p # <<>>
    <3>1. Len(U) + 1 \in Nat /\ Len(r) >= 1
      BY <1>6, <1>10, <2>2
    <3> DEFINE k == Len(U) + Len(x)
    <3>2. From(s, k + 1) = r
      <4>1. Len(U) \in 0 .. Len(s) /\ Len(x) \in 0 .. Len(s) - Len(U)
        BY <1>9, <1>10
      <4>2. From(From(s, Len(U) + 1), Len(x) + 1) = From(s, (Len(U) + Len(x)) + 1)
        BY <4>1, RestOfRest
      <4> QED
        BY <1>9, <1>10, <4>2
    <3>3. k \in 0 .. Len(s) /\ 1 \in 0 .. Len(s) - k /\ k + 1 \in Cuts
      BY <1>9, <1>10, <3>1
    <3> HIDE DEF k
    <3>4. From(From(s, k + 1), 1 + 1) = From(s, (k + 1) + 1)
      BY <3>3, RestOfRest
    <3>5. From(r, 2) = From(s, (k + 1) + 1)
      BY <3>2, <3>4
    <3> QED
      BY <1>6, <3>3, <3>5
  <2> QED
    BY <2>1, <2>2
<1>12a. \E i \in Cuts : n = From(s, i + 1)
  <2>1. PICK i \in Cuts : p = From(s, i + 1)
    BY <1>12
  <2>2. Len(s) \in Nat /\ i \in 0 .. Len(s) /\ Len(p) = Len(s) - i
    <3>1. Len(s) \in Nat /\ i + 1 \in 1 .. Len(s) + 1
      OBVIOUS
    <3>2. Len(From(s, i + 1)) = Len(s) - (i + 1) + 1
      BY <3>1, Rest
    <3> QED
      BY <2>1, <3>1, <3>2
  <2>3. k0 \in 0 .. Len(s) - i /\ i + k0 \in Cuts
    BY <2>2
  <2>4. From(From(s, i + 1), k0 + 1) = From(s, (i + k0) + 1)
    BY <2>2, <2>3, RestOfRest
  <2> QED
    BY <2>1, <2>3, <2>4
<1>13. At(h, "@") = {}
  <2>1. PICK k \in 0 .. Len(x) - Len(h) : \A i \in 1 .. Len(h) : h[i] = x[k + i]
    BY <1>7 DEF IsPartOf
  <2>2. \A i : i \in At(t, "@") <=> i \in 1 .. Len(t) /\ t[i] = "@"
    BY <1>2, AtFacts
  <2>3. \A i : i \in At(h, "@") <=> i \in 1 .. Len(h) /\ h[i] = "@"
    BY <1>3, AtFacts
  <2>4. ASSUME NEW i \in 1 .. Len(h) PROVE h[i] # "@"
    <3>1. k + i \in 1 .. Len(x) /\ k + i \in 1 .. Len(t)
      BY <1>3, <1>9, <2>1
    <3>2. h[i] = t[k + i]
      BY <1>9, <2>1, <3>1
    <3> QED
      BY <1>2, <2>2, <3>1, <3>2
  <2> QED
    BY <2>3, <2>4
<1>14. s \in Spellings(u, h, g, n)
  <2>1. (U \o x) \o r = U \o (x \o r)
    BY <1>6, <1>7, <1>8, ConcatAssociative, SMTT(30)
  <2>2. s = (U \o x) \o r
    BY <1>2, <1>4, <2>1
  <2>3. Writes(s, u, h, p)
    <3>1. HostPart(x, h, p) /\ s = (UserPart(u) \o x) \o PortPart(p)
      BY <1>4, <2>2 DEF U, r
    <3> QED
      BY <3>1 DEF Writes
  <2> HIDE DEF n
  <2> QED
    BY <1>3, <1>5, <2>3, SpelledAs
<1> HIDE DEF n
<1>15. PartsOf(s, u, h, g, n)
  BY <1>1, <1>2, <1>5, <1>11, <1>12a, <1>13 DEF PartsOf
<1>16. Found(u, h, Number(n)) \in Meant(s)
  BY <1>14, <1>15, MeantIs
<1> QED
  BY <1>1, <1>5, <1>16

(* Every text is refused or read as what it means. *)
LEMMA ArgumentsHold == \A s \in Seq(Characters) : ArgumentsRule(s)
<1> SUFFICES ASSUME NEW s \in Seq(Characters) PROVE ArgumentsRule(s)
  OBVIOUS
<1> DEFINE d == parseDestination(s)
<1>1. d.ok \in BOOLEAN
  BY DEF parseDestination, UsageError, Found
<1>2. {x \in {d} : x.ok} = IF IsURI(s) THEN {} ELSE Meant(s)
  <2>1. CASE d.ok
    <3>1. ~IsURI(s) /\ d \in Meant(s)
      BY <2>1, ParsedIsMeant
    <3>2. \A x \in Meant(s) : x = d
      BY <3>1, MeantIsParsed
    <3> HIDE DEF d
    <3> QED
      BY <2>1, <3>1, <3>2
  <2>2. CASE ~d.ok
    <3>1. ~IsURI(s) => \A x \in Meant(s) : d = x /\ x.ok
      BY MeantIsParsed
    <3> HIDE DEF d
    <3> QED
      BY <2>2, <3>1
  <2> QED
    BY <2>1, <2>2
<1>3. ASSUME NEW f \in Flags, parseArgs(s, f).ok
      PROVE  LET o == parseArgs(s, f) IN
             /\ \A v \in {d.User, f.user} \ {<<>>} : o.User = v
             /\ (d.Port # 0 => o.Port = d.Port) /\ (f.portSet => o.Port = f.port)
             /\ InRange(o.Port) /\ ~HasPrefix(o.User, "-")
             /\ f.keepAlive # 0
  <2> HIDE DEF d
  <2> DEFINE port == IF d.Port = 0 THEN f.port ELSE d.Port
             user == IF d.User = <<>> THEN f.user ELSE d.User
  <2>1. /\ ~(d.Port # 0 /\ f.portSet /\ d.Port # f.port) /\ InRange(port)
        /\ ~(d.User # <<>> /\ f.user # <<>> /\ d.User # f.user) /\ ~HasPrefix(user, "-")
        /\ f.keepAlive \in 1 .. 5
        /\ parseArgs(s, f) = Found(user, d.Host, port)
    BY <1>3 DEF parseArgs, UsageError, d
  <2>2. parseArgs(s, f).User = user /\ parseArgs(s, f).Port = port
    BY <2>1 DEF Found
  <2>3. \A v \in {d.User, f.user} \ {<<>>} : user = v
    BY <2>1
  <2>4. (d.Port # 0 => port = d.Port) /\ (f.portSet => port = f.port)
    BY <2>1
  <2>6. f.keepAlive # 0
    BY <2>1
  <2> HIDE DEF port, user
  <2> QED
    BY <2>1, <2>2, <2>3, <2>4, <2>6
<1> QED
  BY <1>2, <1>3 DEF ArgumentsRule
-----------------------------------------------------------------------------
(***************************************************************************)
(* The packet written in place.                                            *)
(***************************************************************************)
(* Wherever the payload lies, the packet holds it. *)
LEMMA PacketHolds == \A m \in Seq(Nat) : PacketRule(m)
<1> SUFFICES ASSUME NEW m \in Seq(Nat), NEW n \in 0 .. Len(m) - 2, NEW flag \in {0, 1},
                    NEW len \in 0 .. Len(m) - n - 2, NEW from \in 0 .. Len(m) - len
             PROVE  LET b == AppendPacket(m, n, flag, 1, from, len)
                    IN  /\ SubSeq(b, 1, n) = SubSeq(m, 1, n)
                        /\ ParsePacket(From(b, n + 1)) =
                             [err |-> FALSE, encrypted |-> flag = 1, h |-> 1,
                              payload |-> SubSeq(m, from + 1, from + len)]
  BY DEF PacketRule
<1> DEFINE c == Copied(m, n, from, len)
           e == [c EXCEPT ![n + 1] = flag, ![n + 2] = 1]
           b == AppendPacket(m, n, flag, 1, from, len)
           p == From(b, n + 1)
<1>1. /\ Len(m) \in Nat /\ n \in Nat /\ len \in Nat /\ from \in Nat
      /\ n + 2 + len <= Len(m) /\ from + len <= Len(m) /\ DOMAIN m = 1 .. Len(m)
      /\ flag \in Nat
  OBVIOUS
<1>2. /\ DOMAIN c = 1 .. Len(m)
      /\ \A i \in 1 .. n : c[i] = m[i]
      /\ \A i \in n + 3 .. n + 2 + len : c[i] = m[from + i - n - 2]
      /\ \A i \in 1 .. Len(m) : c[i] \in Nat
  <2>1. c = [i \in 1 .. Len(m) |-> IF i \in n + 3 .. n + 2 + len THEN m[from + i - n - 2] ELSE m[i]]
    BY <1>1 DEF Copied
  <2> HIDE DEF c
  <2>2. ASSUME NEW i \in n + 3 .. n + 2 + len
        PROVE  i \in 1 .. Len(m) /\ from + i - n - 2 \in 1 .. Len(m)
    BY <1>1
  <2>3. ASSUME NEW i \in 1 .. n PROVE i \in 1 .. Len(m) /\ i \notin n + 3 .. n + 2 + len
    BY <1>1
  <2>4. \A i \in 1 .. Len(m) : m[i] \in Nat
    OBVIOUS
  <2> QED
    BY <2>1, <2>2, <2>3, <2>4
<1> HIDE DEF c
<1>3. /\ DOMAIN e = 1 .. Len(m) /\ e[n + 1] = flag /\ e[n + 2] = 1
      /\ \A i \in 1 .. Len(m) : i # n + 1 /\ i # n + 2 => e[i] = c[i]
      /\ \A i \in 1 .. Len(m) : e[i] \in Nat
  <2>1. n + 1 \in 1 .. Len(m) /\ n + 2 \in 1 .. Len(m) /\ n + 1 # n + 2
    BY <1>1
  <2>2. e = [i \in 1 .. Len(m) |-> IF i = n + 2 THEN 1 ELSE IF i = n + 1 THEN flag ELSE c[i]]
    BY <1>2, <2>1
  <2> HIDE DEF e
  <2> QED
    BY <1>1, <1>2, <2>1, <2>2
<1>4. b = SubSeq(e, 1, n + 2 + len)
  BY DEF AppendPacket, c
<1> HIDE DEF e, b
<1>5. e \in Seq(Nat) /\ Len(e) = Len(m)
  <2>1. e \in [1 .. Len(m) -> Nat]
    <3>1. e = [i \in DOMAIN e |-> e[i]]
      BY DEF e
    <3> QED
      BY <1>3, <3>1
  <2> QED
    BY <1>1, <2>1, SMTT(30)
<1>6. /\ b \in Seq(Nat) /\ Len(b) = n + 2 + len
      /\ \A i \in 1 .. n + 2 + len : b[i] = e[i]
  <2>1. n + 2 + len \in 0 .. Len(e)
    BY <1>1, <1>5
  <2> QED
    BY <1>4, <1>5, <2>1, Start
<1>7. SubSeq(b, 1, n) = SubSeq(m, 1, n)
  <2> DEFINE x == SubSeq(b, 1, n)
             y == SubSeq(m, 1, n)
  <2>1. n \in 0 .. Len(b) /\ n \in 0 .. Len(m)
    <3>1. Len(b) = n + 2 + len
      BY <1>6
    <3> QED
      BY <1>1, <3>1
  <2>2. x \in Seq(Nat) /\ Len(x) = n /\ \A i \in 1 .. n : x[i] = b[i]
    BY <1>6, <2>1, Start
  <2>3. y \in Seq(Nat) /\ Len(y) = n /\ \A i \in 1 .. n : y[i] = m[i]
    BY <2>1, Start
  <2> HIDE DEF x, y
  <2>4. ASSUME NEW i \in 1 .. Len(x) PROVE x[i] = y[i]
    <3>1. i \in 1 .. n /\ i \in 1 .. n + 2 + len /\ i \in 1 .. Len(m) /\ i # n + 1 /\ i # n + 2
      BY <1>1, <2>2
    <3> QED
      BY <1>2, <1>3, <1>6, <2>2, <2>3, <3>1, ZenonT(30)
  <2>5. x = y
    BY <2>2, <2>3, <2>4, SeqEqual
  <2> QED
    BY <2>5 DEF x, y
<1>8. /\ p \in Seq(Nat) /\ Len(p) = 2 + len
      /\ \A i \in 1 .. 2 + len : p[i] = e[n + i]
  <2>1. n + 1 \in 1 .. Len(b) + 1 /\ Len(b) - (n + 1) + 1 = 2 + len
    BY <1>1, <1>6
  <2>2. /\ p \in Seq(Nat) /\ Len(p) = Len(b) - (n + 1) + 1
        /\ \A i \in 1 .. Len(b) - (n + 1) + 1 : p[i] = b[n + 1 + i - 1]
    BY <1>6, <2>1, Rest
  <2> HIDE DEF p
  <2>3. ASSUME NEW i \in 1 .. 2 + len PROVE p[i] = e[n + i]
    <3>1. n + 1 + i - 1 = n + i /\ n + i \in 1 .. n + 2 + len
      BY <1>1
    <3> QED
      BY <1>6, <2>1, <2>2, <3>1
  <2> QED
    BY <2>1, <2>2, <2>3
<1> HIDE DEF p
<1>9. p[1] = flag /\ p[2] = 1
  <2>1. 1 \in 1 .. 2 + len /\ 2 \in 1 .. 2 + len
    BY <1>1
  <2> QED
    BY <1>3, <1>8, <2>1
<1>10. From(p, 3) = SubSeq(m, from + 1, from + len)
  <2> DEFINE x == From(p, 3)
             y == SubSeq(m, from + 1, from + len)
  <2>1. /\ 3 \in 1 .. Len(p) + 1 /\ Len(p) - 3 + 1 = len
        /\ from + 1 \in 1 .. Len(m) + 1 /\ from + len \in (from + 1) - 1 .. Len(m)
        /\ (from + len) - (from + 1) + 1 = len
    BY <1>1, <1>8
  <2>2. x \in Seq(Nat) /\ Len(x) = Len(p) - 3 + 1 /\ \A i \in 1 .. Len(p) - 3 + 1 : x[i] = p[3 + i - 1]
    BY <1>8, <2>1, Rest
  <2>3. /\ y \in Seq(Nat) /\ Len(y) = (from + len) - (from + 1) + 1
        /\ \A i \in 1 .. (from + len) - (from + 1) + 1 : y[i] = m[from + 1 + i - 1]
    BY <2>1, Cut, SMTT(30)
  <2> HIDE DEF x, y
  <2>4. ASSUME NEW i \in 1 .. len PROVE x[i] = y[i]
    <3>1. /\ 3 + i - 1 \in 1 .. 2 + len /\ n + (3 + i - 1) \in n + 3 .. n + 2 + len
          /\ n + (3 + i - 1) \in 1 .. Len(m) /\ n + (3 + i - 1) # n + 1 /\ n + (3 + i - 1) # n + 2
          /\ from + (n + (3 + i - 1)) - n - 2 = from + 1 + i - 1
      BY <1>1
    <3>2. x[i] = p[3 + i - 1] /\ y[i] = m[from + 1 + i - 1]
      BY <2>1, <2>2, <2>3
    <3>3. p[3 + i - 1] = e[n + (3 + i - 1)]
      BY <1>8, <3>1
    <3>4. e[n + (3 + i - 1)] = c[n + (3 + i - 1)]
      BY <1>3, <3>1
    <3>5. c[n + (3 + i - 1)] = m[from + (n + (3 + i - 1)) - n - 2]
      BY <1>2, <3>1
    <3> QED
      BY <3>1, <3>2, <3>3, <3>4, <3>5
  <2>5. x = y
    BY <2>1, <2>2, <2>3, <2>4, SeqEqual
  <2> QED
    BY <2>5 DEF x, y
<1>11. (p[1] # 0) = (flag = 1)
  BY <1>9
<1>12. ParsePacket(p) = [err |-> FALSE, encrypted |-> p[1] # 0, h |-> p[2], payload |-> From(p, 3)]
  <2>1. ~(Len(p) < 2)
    BY <1>1, <1>8
  <2> QED
    BY <2>1 DEF ParsePacket
<1> QED
  BY <1>7, <1>9, <1>10, <1>11, <1>12 DEF p, b
-----------------------------------------------------------------------------
(***************************************************************************)
(* Nonces, ordered as the numbers they are.                                *)
(***************************************************************************)
Nonce == [1 .. NonceLen -> 0 .. NonceDigit - 1]
Below(x, y) ==
  \E k \in 1 .. NonceLen : x[k] < y[k] /\ \A j \in k + 1 .. NonceLen : x[j] = y[j]

StreamOK(d, r) ==
  /\ r \in [nonce : Nonce, used : Seq(Nonce)]
  /\ r.nonce[NonceLen] = d
  /\ \A i \in 1 .. Len(r.used) :
       /\ r.used[i][NonceLen] = d
       /\ r.used[i] = r.nonce \/ Below(r.used[i], r.nonce)
  /\ \A i, j \in 1 .. Len(r.used) : r.used[i] = r.used[j] => i = j

StreamsOK(s) == s = [d \in Directions |-> s[d]] /\ \A d \in Directions : StreamOK(d, s[d])

(* Remainders of a number that is less than the divisor, or equal to it. *)
LEMMA Remainder ==
  ASSUME NEW m \in Nat, m > 0, NEW x \in Nat, x <= m
  PROVE  x % m = IF x = m THEN 0 ELSE x
<1>1. CASE x = m
  BY <1>1
<1>2. CASE x < m
  BY <1>2
<1> QED
  BY <1>1, <1>2

(* The order is strict. *)
LEMMA BelowFacts ==
  ASSUME NEW x \in Nonce, NEW y \in Nonce, Below(x, y)
  PROVE  x # y /\ \A z \in Nonce : Below(y, z) => Below(x, z)
<1>0. NonceLen \in Nat
  BY SealAssumption
<1>1. PICK k \in 1 .. NonceLen : x[k] < y[k] /\ \A j \in k + 1 .. NonceLen : x[j] = y[j]
  BY DEF Below
<1>2. \A i \in 1 .. NonceLen : x[i] \in Int /\ y[i] \in Int
  BY SealAssumption DEF Nonce
<1>3. x # y
  BY <1>1, <1>2
<1>4. ASSUME NEW z \in Nonce, Below(y, z) PROVE Below(x, z)
  <2>1. PICK l \in 1 .. NonceLen : y[l] < z[l] /\ \A j \in l + 1 .. NonceLen : y[j] = z[j]
    BY <1>4 DEF Below
  <2>2. \A i \in 1 .. NonceLen : z[i] \in Int
    BY SealAssumption DEF Nonce
  <2>3. k \in Int /\ l \in Int
    BY <1>0
  <2>4. CASE k <= l
    <3>1. x[l] < z[l]
      <4>1. CASE k = l
        BY <1>1, <1>2, <2>1, <2>2, <4>1
      <4>2. CASE k < l
        <5>1. l \in k + 1 .. NonceLen
          BY <1>0, <2>3, <4>2
        <5> QED
          BY <1>1, <2>1, <5>1
      <4> QED
        BY <2>3, <2>4, <4>1, <4>2
    <3>2. \A j \in l + 1 .. NonceLen : j \in k + 1 .. NonceLen
      BY <1>0, <2>3, <2>4
    <3>3. \A j \in l + 1 .. NonceLen : x[j] = z[j]
      BY <1>1, <2>1, <3>2
    <3> QED
      BY <3>1, <3>3 DEF Below
  <2>5. CASE l < k
    <3>1. k \in l + 1 .. NonceLen
      BY <1>0, <2>3, <2>5
    <3>2. x[k] < z[k]
      BY <1>1, <2>1, <3>1
    <3>3. \A j \in k + 1 .. NonceLen : j \in l + 1 .. NonceLen
      BY <1>0, <2>3, <2>5
    <3>4. \A j \in k + 1 .. NonceLen : x[j] = z[j]
      BY <1>1, <2>1, <3>3
    <3> QED
      BY <3>2, <3>4 DEF Below
  <2> QED
    BY <2>3, <2>4, <2>5
<1> QED
  BY <1>3, <1>4

(* A nonce that is not spent grows and keeps its direction. *)
LEMMA IncrementGrows ==
  ASSUME NEW x \in Nonce, ~Spent(x)
  PROVE  increment(x) \in Nonce /\ Below(x, increment(x)) /\ increment(x)[NonceLen] = x[NonceLen]
<1> DEFINE y == increment(x)
           T == {i \in Nat : i \in 1 .. NonceLen - 1 /\ x[i] + 1 # NonceDigit}
<1>0. /\ NonceLen \in Nat /\ NonceLen >= 2 /\ NonceDigit \in Nat /\ NonceDigit >= 2
      /\ DOMAIN x = 1 .. NonceLen
      /\ \A i \in 1 .. NonceLen : x[i] \in Nat /\ x[i] + 1 <= NonceDigit /\ x[i] + 1 \in Nat
  BY SealAssumption DEF Nonce
<1>1. T \in SUBSET Nat /\ T # {}
  <2>1. PICK i \in 1 .. NonceLen - 1 : x[i] + 1 # NonceDigit
    BY DEF Spent
  <2>2. i \in Nat
    BY <1>0
  <2>3. i \in T
    BY <2>1, <2>2
  <2> QED
    BY <2>3
<1>2. PICK k \in T : \A i \in T : k <= i
  <2> HIDE DEF T
  <2> QED
    BY <1>1, LeastNatural
<1>3. k \in 1 .. NonceLen - 1 /\ k \in 1 .. NonceLen /\ x[k] + 1 # NonceDigit /\ k \in Nat
  BY <1>0, <1>2
<1>4. ASSUME NEW i \in 1 .. k - 1 PROVE x[i] + 1 = NonceDigit
  <2>1. i \in Nat /\ i \in 1 .. NonceLen - 1 /\ ~(k <= i)
    BY <1>0, <1>3
  <2> QED
    BY <1>2, <2>1
<1> HIDE DEF T
<1>5. y = [i \in 1 .. NonceLen |->
             IF \A j \in 1 .. i - 1 : x[j] + 1 = NonceDigit THEN (x[i] + 1) % NonceDigit ELSE x[i]]
  BY <1>0 DEF increment
<1> HIDE DEF y
<1>6. \A i \in 1 .. NonceLen : (x[i] + 1) % NonceDigit = IF x[i] + 1 = NonceDigit THEN 0 ELSE x[i] + 1
  <2> SUFFICES ASSUME NEW i \in 1 .. NonceLen
               PROVE  (x[i] + 1) % NonceDigit = IF x[i] + 1 = NonceDigit THEN 0 ELSE x[i] + 1
    OBVIOUS
  <2> DEFINE n == x[i] + 1
  <2>1. n \in Nat /\ n <= NonceDigit /\ NonceDigit > 0
    BY <1>0
  <2> HIDE DEF n
  <2>2. n % NonceDigit = IF n = NonceDigit THEN 0 ELSE n
    BY <1>0, <2>1, Remainder
  <2> QED
    BY <2>2 DEF n
<1>7. y[k] = x[k] + 1
  BY <1>3, <1>4, <1>5, <1>6
<1>8. ASSUME NEW i \in k + 1 .. NonceLen PROVE y[i] = x[i]
  <2>1. i \in 1 .. NonceLen /\ k \in 1 .. i - 1
    BY <1>0, <1>3
  <2> QED
    BY <1>3, <1>5, <2>1
<1>9. y \in Nonce
  <2>1. \A i \in 1 .. NonceLen : (IF x[i] + 1 = NonceDigit THEN 0 ELSE x[i] + 1) \in 0 .. NonceDigit - 1
    BY <1>0
  <2>2. \A i \in 1 .. NonceLen : x[i] \in 0 .. NonceDigit - 1
    BY DEF Nonce
  <2> QED
    BY <1>5, <1>6, <2>1, <2>2 DEF Nonce
<1>10. Below(x, y)
  <2>1. x[k] < y[k]
    BY <1>0, <1>3, <1>7
  <2> QED
    BY <1>3, <1>8, <2>1 DEF Below
<1>11. y[NonceLen] = x[NonceLen]
  <2>1. NonceLen \in k + 1 .. NonceLen
    BY <1>0, <1>3
  <2> QED
    BY <1>8, <2>1
<1> QED
  BY <1>9, <1>10, <1>11 DEF y

(* A box is sealed. *)
LEMMA SealKeeps ==
  ASSUME NEW s, StreamsOK(s), NEW d \in Directions, ~Spent(s[d].nonce)
  PROVE  StreamsOK(Seal(s, d))
<1> DEFINE r == s[d]
           x == r.nonce
           y == increment(x)
           q == [nonce |-> y, used |-> Append(r.used, y)]
<1>0. NonceLen \in 1 .. NonceLen
  BY SealAssumption
<1>1. /\ r.nonce \in Nonce /\ r.used \in Seq(Nonce) /\ x[NonceLen] = d
      /\ \A i \in 1 .. Len(r.used) :
           r.used[i][NonceLen] = d /\ (r.used[i] = x \/ Below(r.used[i], x))
      /\ \A i, j \in 1 .. Len(r.used) : r.used[i] = r.used[j] => i = j
      /\ Len(r.used) \in Nat
  BY DEF StreamsOK, StreamOK
<1>2. y \in Nonce /\ Below(x, y) /\ y[NonceLen] = d
  BY <1>1, IncrementGrows
<1>3. Seal(s, d) = [s EXCEPT ![d] = q]
  BY DEF Seal
<1> DEFINE u == r.used
           v == Append(u, y)
<1> HIDE DEF r, x, y
<1>4. /\ v \in Seq(Nonce) /\ Len(v) = Len(u) + 1 /\ v[Len(u) + 1] = y
      /\ \A i \in 1 .. Len(u) : v[i] = u[i]
  BY <1>1, <1>2, AppendProperties
<1>5. q.nonce = y /\ q.used = v /\ q \in [nonce : Nonce, used : Seq(Nonce)]
  BY <1>2, <1>4
<1> HIDE DEF u, v, q
<1>6. \A i \in 1 .. Len(u) : u[i] \in Nonce /\ u[i] # y /\ Below(u[i], y) /\ u[i][NonceLen] = d
  <2>1. ASSUME NEW i \in 1 .. Len(u) PROVE u[i] \in Nonce /\ u[i] # y /\ Below(u[i], y)
    <3>1. u[i] \in Nonce /\ (u[i] = x \/ Below(u[i], x))
      BY <1>1, ElementOfSeq DEF u
    <3>2. Below(u[i], y)
      <4>1. CASE u[i] = x
        BY <1>2, <4>1
      <4>2. CASE Below(u[i], x)
        BY <1>1, <1>2, <3>1, <4>2, BelowFacts DEF x
      <4> QED
        BY <3>1, <4>1, <4>2
    <3> QED
      BY <1>2, <3>1, <3>2, BelowFacts
  <2> QED
    BY <1>1, <2>1 DEF u
<1>7. \A i \in 1 .. Len(v) : i \in 1 .. Len(u) \/ i = Len(u) + 1
  BY <1>1, <1>4 DEF u
<1>8. \A i \in 1 .. Len(v) : v[i][NonceLen] = d /\ (v[i] = y \/ Below(v[i], y))
  BY <1>2, <1>4, <1>6, <1>7
<1>9. \A i, j \in 1 .. Len(v) : v[i] = v[j] => i = j
  BY <1>1, <1>4, <1>6, <1>7 DEF u
<1>10. StreamOK(d, q)
  BY <1>2, <1>5, <1>8, <1>9 DEF StreamOK
<1> DEFINE t == [s EXCEPT ![d] = q]
<1>11. t = [c \in Directions |-> t[c]] /\ t[d] = q /\ \A c \in Directions : c # d => t[c] = s[c]
  BY DEF StreamsOK
<1> HIDE DEF t
<1>12. \A c \in Directions : StreamOK(c, t[c])
  BY <1>10, <1>11 DEF StreamsOK
<1> QED
  BY <1>3, <1>11, <1>12 DEF StreamsOK, t

(* No nonce was used twice. *)
LEMMA SealHolds == StreamsOK(StreamsInit) /\ \A s : StreamsOK(s) => NonceRule(s)
<1>0. NonceLen \in 1 .. NonceLen /\ 0 \in 0 .. NonceDigit - 1 /\ 1 \in 0 .. NonceDigit - 1
  BY SealAssumption
<1>1. StreamsOK(StreamsInit)
  <2>1. ASSUME NEW d \in Directions PROVE StreamOK(d, StreamsInit[d])
    <3> DEFINE x == [i \in 1 .. NonceLen |-> IF i = NonceLen THEN d ELSE 0]
               r == [nonce |-> x, used |-> <<>>]
    <3>1. StreamsInit[d] = r
      BY DEF StreamsInit
    <3>2. x \in Nonce /\ x[NonceLen] = d
      BY <1>0 DEF Nonce, Directions
    <3> HIDE DEF x
    <3>3. r.nonce = x /\ r.used = <<>> /\ r \in [nonce : Nonce, used : Seq(Nonce)] /\ Len(r.used) = 0
      BY <3>2
    <3> HIDE DEF r
    <3>4. StreamOK(d, r)
      BY <3>2, <3>3 DEF StreamOK
    <3> QED
      BY <3>1, <3>4
  <2>2. StreamsInit = [d \in Directions |-> StreamsInit[d]]
    BY DEF StreamsInit
  <2> QED
    BY <2>1, <2>2 DEF StreamsOK
<1>2. ASSUME NEW s, StreamsOK(s) PROVE NonceRule(s)
  <2>0. 0 \in Directions /\ 1 \in Directions /\ Directions = {0, 1}
    BY DEF Directions
  <2>1. \A d \in Directions : /\ s[d].used \in Seq(Nonce)
                              /\ \A i \in 1 .. Len(s[d].used) : s[d].used[i][NonceLen] = d
                              /\ \A i, j \in 1 .. Len(s[d].used) : s[d].used[i] = s[d].used[j] => i = j
    BY <1>2 DEF StreamsOK, StreamOK
  <2>2. \A d \in Directions : DOMAIN s[d].used = 1 .. Len(s[d].used)
    BY <2>1
  <2>3. \A d \in Directions : IsInjective(s[d].used)
    BY <2>1, <2>2 DEF IsInjective
  <2>4. ToSet(s[0].used) \cap ToSet(s[1].used) = {}
    <3>1. \A x \in ToSet(s[0].used) : x[NonceLen] = 0
      BY <2>0, <2>1, <2>2 DEF ToSet
    <3>2. \A x \in ToSet(s[1].used) : x[NonceLen] = 1
      BY <2>0, <2>1, <2>2 DEF ToSet
    <3> QED
      BY <3>1, <3>2
  <2> QED
    BY <2>3, <2>4 DEF NonceRule
<1> QED
  BY <1>1, <1>2
-----------------------------------------------------------------------------
(***************************************************************************)
(* The delays between reconnects.                                          *)
(***************************************************************************)
(* The delays before jitter. *)
Exact(i) ==
  IF i = 1 THEN 5 ELSE IF i = 2 THEN 10 ELSE IF i = 3 THEN 20
  ELSE IF i = 4 THEN 40 ELSE IF i = 5 THEN 80 ELSE 100

Calls == Jitters \cup {Reset}
LastReset(xs) == Max({i \in DOMAIN xs : xs[i] = Reset} \cup {0})

BackoffOK(xs, b) ==
  /\ b \in [attempt : Nat, delay : Nat]
  /\ b.attempt = Len(xs) - LastReset(xs)
  /\ b.attempt <= 1 => b.delay = 0
  /\ b.attempt > 1 => /\ 4 * Exact(b.attempt - 1) <= 5 * b.delay
                      /\ 5 * b.delay <= 6 * Exact(b.attempt - 1)
                      /\ b.delay <= backoffMax

(* The lesser of two. *)
LEMMA MinTwo ==
  ASSUME NEW a \in Int, NEW b \in Int
  PROVE  Min({a, b}) = IF a <= b THEN a ELSE b
<1>1. {a, b} \in SUBSET Int /\ a \in {a, b} /\ b \in {a, b}
  OBVIOUS
<1>2. CASE a <= b
  <2>1. \A k \in {a, b} : a <= k
    BY <1>2
  <2>2. Min({a, b}) = a
    BY <1>1, <2>1, MinOf
  <2> QED
    BY <1>2, <2>2
<1>3. CASE ~(a <= b)
  <2>1. \A k \in {a, b} : b <= k
    BY <1>3
  <2>2. Min({a, b}) = b
    BY <1>1, <2>1, MinOf
  <2> QED
    BY <1>3, <2>2
<1> QED
  BY <1>2, <1>3

(* An exponential that fits does not wrap. *)
LEMMA WrapFits ==
  ASSUME NEW v \in Nat, v <= 160
  PROVE  Wrap(v) = v
<1>1. Half \in Nat /\ v + Half \in Nat /\ 2 * Half \in Nat /\ v + Half < 2 * Half
  BY BackoffAssumption
<1>2. (v + Half) % (2 * Half) = v + Half
  <2>1. \A x \in Nat, m \in Nat : x < m => x % m = x
    OBVIOUS
  <2> QED
    BY <1>1, <2>1
<1> QED
  BY <1>1, <1>2 DEF Wrap

(* What the delay doubles from. *)
LEMMA DelayIs ==
  ASSUME NEW n \in Nat, n > 0
  PROVE  Min({Wrap(backoffBase * 2 ^ Shift(n)), backoffMax}) = Exact(n)
<1>1. Shift(n) = IF n - 1 <= 5 THEN n - 1 ELSE 5
  BY MinTwo DEF Shift
<1>2. 2 ^ 0 = 1 /\ 2 ^ 1 = 2 /\ 2 ^ 2 = 4 /\ 2 ^ 3 = 8 /\ 2 ^ 4 = 16 /\ 2 ^ 5 = 32
  OBVIOUS
<1> DEFINE v == backoffBase * 2 ^ Shift(n)
<1>3. v = IF n = 1 THEN 5 ELSE IF n = 2 THEN 10 ELSE IF n = 3 THEN 20
          ELSE IF n = 4 THEN 40 ELSE IF n = 5 THEN 80 ELSE 160
  <2>1. CASE n = 1
    BY <1>1, <1>2, <2>1 DEF backoffBase
  <2>2. CASE n = 2
    BY <1>1, <1>2, <2>2 DEF backoffBase
  <2>3. CASE n = 3
    BY <1>1, <1>2, <2>3 DEF backoffBase
  <2>4. CASE n = 4
    BY <1>1, <1>2, <2>4 DEF backoffBase
  <2>5. CASE n = 5
    BY <1>1, <1>2, <2>5 DEF backoffBase
  <2>6. CASE n > 5
    <3>1. Shift(n) = 5
      BY <1>1, <2>6
    <3> QED
      BY <1>2, <2>6, <3>1 DEF backoffBase
  <2> QED
    BY <2>1, <2>2, <2>3, <2>4, <2>5, <2>6
<1> HIDE DEF v
<1>4. v \in Nat /\ v <= 160
  BY <1>3
<1>5. Wrap(v) = v
  BY <1>4, WrapFits
<1>6. Min({v, backoffMax}) = IF v <= 100 THEN v ELSE 100
  BY <1>4, MinTwo DEF backoffMax
<1> QED
  BY <1>3, <1>5, <1>6 DEF v, Exact

(* One more call. *)
LEMMA AskKeeps ==
  ASSUME NEW xs \in Seq(Calls), NEW b, BackoffOK(xs, b), NEW x \in Calls
  PROVE  BackoffOK(Append(xs, x), Asks(b, x))
<1> DEFINE a == Append(xs, x)
           T == {i \in DOMAIN xs : xs[i] = Reset} \cup {0}
           U == {i \in DOMAIN a : a[i] = Reset} \cup {0}
<1>1. /\ a \in Seq(Calls) /\ Len(a) = Len(xs) + 1 /\ a[Len(xs) + 1] = x /\ Len(xs) \in Nat
      /\ \A i \in 1 .. Len(xs) : a[i] = xs[i]
      /\ DOMAIN a = 1 .. Len(xs) + 1 /\ DOMAIN xs = 1 .. Len(xs)
  BY AppendProperties
<1> HIDE DEF a
<1>2. /\ b \in [attempt : Nat, delay : Nat] /\ b.attempt \in Nat /\ b.delay \in Nat
      /\ b.attempt = Len(xs) - LastReset(xs)
  BY DEF BackoffOK
<1>3. CASE x = Reset
  <2>1. U \in SUBSET Int /\ Len(xs) + 1 \in U /\ \A k \in U : Len(xs) + 1 >= k
    BY <1>1, <1>3
  <2> HIDE DEF U
  <2>2. Max(U) = Len(xs) + 1
    BY <2>1, MaxOf
  <2>3. LastReset(a) = Len(xs) + 1
    BY <2>2 DEF LastReset, U
  <2>4. Asks(b, x) = [attempt |-> 0, delay |-> 0]
    BY <1>3 DEF Asks, reset, BackoffInit
  <2>5. Len(a) - LastReset(a) = 0
    BY <1>1, <2>3
  <2> QED
    BY <2>4, <2>5 DEF BackoffOK, a
<1>4. CASE x # Reset
  <2>1. x \in 0 .. 2
    BY <1>4 DEF Calls, Jitters
  <2>2. U = T
    <3>1. \A i \in 1 .. Len(xs) + 1 : i \in 1 .. Len(xs) \/ i = Len(xs) + 1
      BY <1>1
    <3>2. \A i \in 1 .. Len(xs) : i \in 1 .. Len(xs) + 1
      BY <1>1
    <3> QED
      BY <1>1, <1>4, <3>1, <3>2
  <2>3. LastReset(a) = LastReset(xs)
    BY <2>2 DEF LastReset
  <2>0. LastReset(xs) \in Int
    <3>1. T \in SUBSET (0 .. Len(xs)) /\ T # {}
      BY <1>1
    <3> HIDE DEF T
    <3>2. Max(T) \in T
      BY <1>1, <3>1, MaxIn
    <3> QED
      BY <1>1, <3>1, <3>2 DEF LastReset, T
  <2> DEFINE n == b.attempt
             d == Min({Wrap(backoffBase * 2 ^ Shift(n)), backoffMax})
             D == IF n = 0 THEN 0 ELSE Min({(d * (4 + x)) \div 5, backoffMax})
  <2>4. Asks(b, x) = [attempt |-> n + 1, delay |-> D]
    BY <1>4 DEF Asks, next
  <2>5. n + 1 = Len(a) - LastReset(a)
    BY <1>1, <1>2, <2>0, <2>3
  <2>6. CASE n = 0
    <3>0. D = 0 /\ n + 1 = 1
      BY <2>6
    <3>1. Asks(b, x) = [attempt |-> 1, delay |-> 0]
      BY <2>4, <3>0, Zenon
    <3> QED
      BY <2>5, <2>6, <3>1 DEF BackoffOK, a
  <2>7. CASE n > 0
    <3>1. d = Exact(n)
      BY <1>2, <2>7, DelayIs
    <3> HIDE DEF d
    <3>2. d \in {5, 10, 20, 40, 80, 100}
      BY <3>1 DEF Exact
    <3>3. D = Min({(d * (4 + x)) \div 5, 100})
      BY <1>2, <2>7 DEF backoffMax
    <3> DEFINE w == (d * (4 + x)) \div 5
    <3>4. w \in Nat /\ 4 * d <= 5 * w /\ 5 * w <= 6 * d
      BY <2>1, <3>2
    <3> HIDE DEF w
    <3>5. D = IF w <= 100 THEN w ELSE 100
      BY <3>3, <3>4, MinTwo DEF w
    <3> HIDE DEF D
    <3>6. D \in Nat /\ 4 * d <= 5 * D /\ 5 * D <= 6 * d /\ D <= 100
      BY <3>2, <3>4, <3>5
    <3> DEFINE c == [attempt |-> n + 1, delay |-> D]
    <3>7. c \in [attempt : Nat, delay : Nat] /\ c.attempt = n + 1 /\ c.delay = D
      BY <1>2, <3>6
    <3>8. c.attempt > 1 /\ ~(c.attempt <= 1) /\ c.attempt - 1 = n
      BY <1>2, <2>7, <3>7
    <3> HIDE DEF c
    <3>9. BackoffOK(a, c)
      BY <2>5, <3>1, <3>6, <3>7, <3>8 DEF BackoffOK, backoffMax
    <3> QED
      BY <2>4, <3>9 DEF c, a
  <2> QED
    BY <1>2, <2>6, <2>7
<1> QED
  BY <1>3, <1>4

(* The delays stay within their bounds. *)
LEMMA BackoffHolds ==
  /\ BackoffOK(<<>>, BackoffInit)
  /\ \A xs \in Seq(Calls) : \A b : BackoffOK(xs, b) => BackoffRule(xs, b)
<1>1. BackoffOK(<<>>, BackoffInit)
  <2> DEFINE none == <<>>
             T == {i \in DOMAIN none : none[i] = Reset} \cup {0}
  <2>1. T = {0} /\ Len(none) = 0
    OBVIOUS
  <2>2. Max({0}) = 0
    <3>1. {0} \in SUBSET Int /\ 0 \in {0} /\ \A k \in {0} : 0 >= k
      OBVIOUS
    <3> QED
      BY <3>1, MaxOf
  <2>3. LastReset(none) = 0
    BY <2>1, <2>2 DEF LastReset
  <2> HIDE DEF none
  <2>4. BackoffOK(none, BackoffInit)
    BY <2>1, <2>3 DEF BackoffOK, BackoffInit
  <2> QED
    BY <2>4 DEF none
<1>2. ASSUME NEW xs \in Seq(Calls), NEW b, BackoffOK(xs, b) PROVE BackoffRule(xs, b)
  <2> DEFINE n == Len(xs) - LastReset(xs) - 1
             P(h) == h = [i \in 1 .. n |-> IF i = 1 THEN backoffBase
                                           ELSE Min({2 * h[i - 1], backoffMax})]
             c == CHOOSE h : P(h)
             g == [i \in 1 .. n |-> Exact(i)]
  <2>1. b.attempt \in Nat /\ b.attempt = Len(xs) - LastReset(xs)
    BY <1>2 DEF BackoffOK
  <2>2. n = b.attempt - 1 /\ n \in Int
    BY <2>1
  <2> HIDE DEF n
  <2>3. \A i \in 1 .. n : i # 1 => Min({2 * Exact(i - 1), backoffMax}) = Exact(i)
    <3> SUFFICES ASSUME NEW i \in 1 .. n, i # 1
                 PROVE  Min({2 * Exact(i - 1), backoffMax}) = Exact(i)
      OBVIOUS
    <3>1. i \in Nat /\ i >= 2
      BY <2>2
    <3>2. Exact(i - 1) \in Int
      BY DEF Exact
    <3>3. Min({2 * Exact(i - 1), 100}) = IF 2 * Exact(i - 1) <= 100 THEN 2 * Exact(i - 1) ELSE 100
      BY <3>2, MinTwo
    <3> QED
      BY <3>1, <3>3 DEF Exact, backoffMax
  <2>4. P(g)
    <3>1. \A i \in 1 .. n : i # 1 => g[i - 1] = Exact(i - 1)
      BY <2>2
    <3>2. Exact(1) = backoffBase
      BY DEF Exact, backoffBase
    <3> QED
      BY <2>3, <3>1, <3>2
  <2>5. P(c)
    <3> HIDE DEF P
    <3> QED
      BY <2>4
  <2>6. BackoffRule(xs, b) <=> (IF n <= 0 THEN b.delay = 0
                                ELSE /\ 4 * c[n] <= 5 * b.delay /\ 5 * b.delay <= 6 * c[n]
                                     /\ b.delay <= backoffMax)
    BY DEF BackoffRule, LastReset, n
  <2> HIDE DEF c
  <2>7. CASE n <= 0
    BY <1>2, <2>1, <2>2, <2>6, <2>7 DEF BackoffOK
  <2>8. CASE n > 0
    <3>1. \A i \in 1 .. n : c[i] = IF i = 1 THEN backoffBase ELSE Min({2 * c[i - 1], backoffMax})
      BY <2>5
    <3> HIDE DEF P
    <3> DEFINE m == n - 1
               S == {i \in 0 .. m : c[i + 1] = Exact(i + 1)}
    <3>2. m \in Nat /\ n = m + 1
      BY <2>2, <2>8
    <3>3. 0 \in S
      <4>1. 1 \in 1 .. n
        BY <2>2, <2>8
      <4>2. c[1] = 5 /\ Exact(1) = 5
        BY <3>1, <4>1 DEF backoffBase, Exact
      <4>3. 0 + 1 = 1 /\ 0 \in 0 .. m
        BY <3>2
      <4> QED
        BY <4>2, <4>3
    <3>4. ASSUME NEW i \in 0 .. m - 1, i \in S PROVE i + 1 \in S
      <4>1. /\ (i + 1) + 1 \in 1 .. n /\ (i + 1) + 1 # 1 /\ ((i + 1) + 1) - 1 = i + 1
            /\ i + 1 \in 0 .. m
        BY <3>2
      <4>2. c[i + 1] = Exact(i + 1)
        BY <3>4
      <4>3. c[(i + 1) + 1] = Min({2 * c[i + 1], backoffMax})
        BY <3>1, <4>1
      <4>4. Min({2 * Exact(i + 1), backoffMax}) = Exact((i + 1) + 1)
        BY <2>3, <4>1
      <4> QED
        BY <4>1, <4>2, <4>3, <4>4
    <3>5. m \in S
      <4> HIDE DEF S, m
      <4>1. \A i \in 0 .. m : i \in S
        BY <3>2, <3>3, <3>4, InductionTo
      <4> QED
        BY <3>2, <4>1
    <3>6. c[n] = Exact(n)
      BY <3>2, <3>5
    <3> QED
      BY <1>2, <2>1, <2>2, <2>6, <2>8, <3>6 DEF BackoffOK
  <2> QED
    BY <2>2, <2>7, <2>8
<1> QED
  BY <1>1, <1>2
-----------------------------------------------------------------------------
(***************************************************************************)
(* Lengths and the bytes that state them.                                  *)
(***************************************************************************)
Octets == 0 .. Digit - 1

(* Powers of the digit. *)
LEMMA PowerFacts ==
  /\ Power[0] = 1
  /\ \A i \in 1 .. PrefixLen : Power[i] = Digit * Power[i - 1]
  /\ \A i \in 0 .. PrefixLen : Power[i] \in Nat /\ Power[i] >= 1
  /\ Lengths = Power[PrefixLen]
<1>0. PrefixLen \in Nat /\ Digit \in Nat /\ Digit >= 2
  BY WireAssumption
<1> DEFINE N == Nat \ {0}
           step == [x \in N \X (1 .. PrefixLen) |-> Digit * x[1]]
<1>1. \A y \in N, i \in 1 .. PrefixLen : step[<<y, i>>] = Digit * y
  OBVIOUS
<1>2. \A y \in N, i \in 1 .. PrefixLen : step[<<y, i>>] \in N
  <2>1. ASSUME NEW y \in N PROVE Digit * y \in Nat /\ Digit * y # 0
    <3>1. y \in Nat /\ y >= 1
      OBVIOUS
    <3> QED
      BY <1>0, <3>1
  <2>2. \A y \in N : Digit * y \in N
    BY <2>1
  <2> HIDE DEF N, step
  <2> QED
    BY <1>1, <2>2
<1> HIDE DEF step
<1>3. PICK g : Iterates(g, PrefixLen, N, 1, step)
  <2>1. 1 \in N
    OBVIOUS
  <2> HIDE DEF N
  <2> QED
    BY <1>0, <1>2, <2>1, Recursion
<1> DEFINE P(h) == h = [i \in 0 .. PrefixLen |-> IF i = 0 THEN 1 ELSE Digit * h[i - 1]]
           c == CHOOSE h : P(h)
<1>4. P(g)
  <2>1. \A i \in 1 .. PrefixLen : i - 1 \in 0 .. PrefixLen
    BY <1>0
  <2>2. \A i \in 1 .. PrefixLen : g[i] = Digit * g[i - 1]
    BY <1>1, <1>3, <2>1 DEF Iterates
  <2>3. \A i \in 0 .. PrefixLen : g[i] = IF i = 0 THEN 1 ELSE Digit * g[i - 1]
    BY <1>0, <1>3, <2>2 DEF Iterates
  <2> QED
    BY <1>3, <2>3 DEF Iterates
<1>5. P(c)
  <2> HIDE DEF P
  <2> QED
    BY <1>4
<1>6. Power = c
  BY DEF Power
<1> HIDE DEF c
<1>7. \A i \in 0 .. PrefixLen : Power[i] = IF i = 0 THEN 1 ELSE Digit * Power[i - 1]
  BY <1>5, <1>6
<1> HIDE DEF P
<1>8. Power[0] = 1 /\ \A i \in 1 .. PrefixLen : Power[i] = Digit * Power[i - 1]
  BY <1>0, <1>7
<1> DEFINE S == {i \in 0 .. PrefixLen : Power[i] \in Nat /\ Power[i] >= 1}
<1>9. 0 \in S
  BY <1>0, <1>8
<1>10. ASSUME NEW i \in 0 .. PrefixLen - 1, i \in S PROVE i + 1 \in S
  <2>1. i + 1 \in 1 .. PrefixLen /\ i + 1 \in 0 .. PrefixLen /\ (i + 1) - 1 = i
    BY <1>0
  <2>2. Power[i + 1] = Digit * Power[i] /\ Power[i] \in Nat /\ Power[i] >= 1
    BY <1>8, <1>10, <2>1
  <2>3. Digit * Power[i] \in Nat /\ Digit * Power[i] >= 1
    BY <1>0, <2>2
  <2> QED
    BY <2>1, <2>2, <2>3
<1>11. \A i \in 0 .. PrefixLen : i \in S
  <2> HIDE DEF S
  <2> QED
    BY <1>0, <1>9, <1>10, InductionTo
<1> QED
  BY <1>8, <1>11 DEF Lengths

(* A number, digit by digit. *)
Values(c, p) ==
  /\ c \in [0 .. Len(p) -> Nat] /\ c[0] = 0
  /\ \A i \in 1 .. Len(p) : c[i] = Digit * c[i - 1] + p[i]
  /\ Value(p) = c[Len(p)]

(* There is such a computation of Value. *)
LEMMA ValueOf ==
  ASSUME NEW p \in Seq(Octets)
  PROVE  \E c : Values(c, p)
<1> DEFINE n == Len(p)
           step == [x \in Nat \X (1 .. n) |-> Digit * x[1] + p[x[2]]]
<1>0. n \in Nat /\ Digit \in Nat /\ \A i \in 1 .. n : p[i] \in Nat
  BY WireAssumption, ElementOfSeq DEF Octets
<1>1. \A y \in Nat, i \in 1 .. n : step[<<y, i>>] = Digit * y + p[i]
  OBVIOUS
<1>2. \A y \in Nat, i \in 1 .. n : step[<<y, i>>] \in Nat
  <2> SUFFICES ASSUME NEW y \in Nat, NEW i \in 1 .. n PROVE step[<<y, i>>] \in Nat
    OBVIOUS
  <2>1. p[i] \in Nat /\ Digit * y \in Nat
    BY <1>0
  <2>2. Digit * y + p[i] \in Nat
    BY <2>1
  <2> HIDE DEF step, n
  <2> QED
    BY <1>1, <2>2
<1> HIDE DEF step
<1>3. PICK g : Iterates(g, n, Nat, 0, step)
  <2> HIDE DEF n
  <2> QED
    BY <1>0, <1>2, Recursion
<1> DEFINE P(h) == h = [i \in 0 .. Len(p) |-> IF i = 0 THEN 0 ELSE Digit * h[i - 1] + p[i]]
           c == CHOOSE h : P(h)
<1>4. P(g)
  <2>1. \A i \in 1 .. n : i - 1 \in 0 .. n
    BY <1>0
  <2>2. \A i \in 1 .. n : g[i] = Digit * g[i - 1] + p[i]
    BY <1>1, <1>3, <2>1 DEF Iterates
  <2>3. \A i \in 0 .. n : g[i] = IF i = 0 THEN 0 ELSE Digit * g[i - 1] + p[i]
    BY <1>0, <1>3, <2>2 DEF Iterates
  <2> QED
    BY <1>3, <2>3 DEF Iterates
<1>5. P(c)
  <2> HIDE DEF P
  <2> QED
    BY <1>4
<1>6. Value(p) = c[n]
  BY DEF Value, Loop
<1> HIDE DEF c
<1>7. DOMAIN c = 0 .. n /\ c = [i \in 0 .. n |-> c[i]]
      /\ \A i \in 0 .. n : c[i] = IF i = 0 THEN 0 ELSE Digit * c[i - 1] + p[i]
  BY <1>5
<1> HIDE DEF P
<1>8. c[0] = 0 /\ \A i \in 1 .. n : c[i] = Digit * c[i - 1] + p[i]
  <2>1. 0 \in 0 .. n /\ \A i \in 1 .. n : i \in 0 .. n /\ i # 0
    BY <1>0
  <2> HIDE DEF n
  <2> QED
    BY <1>7, <2>1
<1> DEFINE S == {i \in 0 .. n : c[i] \in Nat}
<1>9. 0 \in S
  BY <1>0, <1>8
<1>10. ASSUME NEW i \in 0 .. n - 1, i \in S PROVE i + 1 \in S
  <2>1. i + 1 \in 1 .. n /\ i + 1 \in 0 .. n /\ (i + 1) - 1 = i
    BY <1>0
  <2>2. c[i + 1] = Digit * c[i] + p[i + 1] /\ c[i] \in Nat /\ p[i + 1] \in Nat
    BY <1>0, <1>8, <1>10, <2>1
  <2>3. Digit * c[i] + p[i + 1] \in Nat
    BY <1>0, <2>2, SMTT(30)
  <2> QED
    BY <2>1, <2>2, <2>3
<1>11. \A i \in 0 .. n : i \in S
  <2> HIDE DEF S, n
  <2> QED
    BY <1>0, <1>9, <1>10, InductionTo
<1>12. c \in [0 .. n -> Nat]
  BY <1>7, <1>11
<1> QED
  BY <1>6, <1>8, <1>12 DEF Values

(* Facts of arithmetic: a number is its digits. *)
LEMMA DigitFacts ==
  ASSUME NEW d \in Nat, d > 0
  PROVE  /\ \A v \in Nat, b \in 0 .. d - 1 : (d * v + b) \div d = v /\ (d * v + b) % d = b
         /\ \A n \in Nat, e \in Nat : e > 0 => (n \div e) \div d = n \div (d * e)
<1>1. ASSUME NEW v \in Nat, NEW b \in 0 .. d - 1 PROVE (d * v + b) \div d = v /\ (d * v + b) % d = b
  <2>1. b \in Nat /\ b < d
    OBVIOUS
  <2> QED
    BY <2>1
<1>2. ASSUME NEW n \in Nat, NEW e \in Nat, e > 0 PROVE (n \div e) \div d = n \div (d * e)
  BY <1>2
<1> QED
  BY <1>1, <1>2

(* A prefix states its value, and only a prefix can. *)
LEMMA PrefixOfValue ==
  ASSUME NEW p \in Seq(Octets), Len(p) = PrefixLen
  PROVE  Prefix(Value(p)) = p /\ Value(p) \in 0 .. Lengths - 1
<1> DEFINE n == PrefixLen
<1>0. n \in Nat /\ Digit \in Nat /\ Digit > 0 /\ Digit - 1 \in Nat
  BY WireAssumption
<1>1. PICK c : Values(c, p)
  BY ValueOf
<1>2. /\ c[0] = 0 /\ \A i \in 0 .. n : c[i] \in Nat
      /\ \A i \in 1 .. n : c[i] = Digit * c[i - 1] + p[i]
      /\ Value(p) = c[n]
  BY <1>1 DEF Values
<1>3. \A i \in 1 .. n : p[i] \in 0 .. Digit - 1 /\ i - 1 \in 0 .. n /\ i \in 0 .. n
  BY <1>0, ElementOfSeq DEF Octets
<1>4. \A i \in 1 .. n : c[i] \div Digit = c[i - 1] /\ c[i] % Digit = p[i]
  <2> SUFFICES ASSUME NEW i \in 1 .. n PROVE c[i] \div Digit = c[i - 1] /\ c[i] % Digit = p[i]
    OBVIOUS
  <2>1. c[i - 1] \in Nat /\ p[i] \in 0 .. Digit - 1 /\ c[i] = Digit * c[i - 1] + p[i]
    BY <1>2, <1>3
  <2>2. /\ (Digit * c[i - 1] + p[i]) \div Digit = c[i - 1]
        /\ (Digit * c[i - 1] + p[i]) % Digit = p[i]
    BY <1>0, <2>1, DigitFacts
  <2> QED
    BY <2>1, <2>2
<1> DEFINE S == {i \in 0 .. n : c[i] + 1 <= Power[i]}
<1>5. 0 \in S
  BY <1>0, <1>2, PowerFacts
<1>6. ASSUME NEW i \in 0 .. n - 1, i \in S PROVE i + 1 \in S
  <2>1. i + 1 \in 1 .. n /\ i + 1 \in 0 .. n /\ (i + 1) - 1 = i /\ i \in 0 .. n
    BY <1>0
  <2> DEFINE x == c[i]
             y == Power[i]
             b == p[i + 1]
  <2>a. x \in Nat /\ c[i + 1] = Digit * x + b
    BY <1>2, <2>1
  <2>b. y \in Nat /\ Power[i + 1] = Digit * y
    BY <2>1, PowerFacts
  <2>c. b \in 0 .. Digit - 1 /\ x + 1 <= y
    BY <1>3, <1>6, <2>1
  <2> HIDE DEF x, y, b
  <2>2. /\ x \in Nat /\ y \in Nat /\ x + 1 <= y /\ b \in Nat /\ b <= Digit - 1
        /\ c[i + 1] = Digit * x + b /\ Power[i + 1] = Digit * y
    BY <1>0, <2>a, <2>b, <2>c
  <2>3. Digit * (x + 1) <= Digit * y
    BY <1>0, <2>2
  <2>4. (Digit * x + b) + 1 <= Digit * y
    BY <1>0, <2>2, <2>3
  <2> QED
    BY <2>1, <2>2, <2>4
<1>7. n \in S
  <2> HIDE DEF S, n
  <2>1. \A i \in 0 .. n : i \in S
    BY <1>0, <1>5, <1>6, InductionTo
  <2> QED
    BY <1>0, <2>1
<1>8. Value(p) \in 0 .. Lengths - 1
  <2>1. n \in 0 .. n
    BY <1>0
  <2>2. c[n] \in Nat /\ c[n] + 1 <= Lengths /\ Lengths \in Nat
    BY <1>2, <1>7, <2>1, PowerFacts
  <2> QED
    BY <1>2, <2>2
<1> DEFINE V == Value(p)
           T == {k \in 0 .. n : V \div Power[k] = c[n - k]}
<1>9. 0 \in T
  <2>1. V \in Nat /\ V \div 1 = V
    BY <1>0, <1>2
  <2>2. n - 0 = n /\ Power[0] = 1 /\ 0 \in 0 .. n
    BY <1>0, PowerFacts
  <2> QED
    BY <1>2, <2>1, <2>2
<1>10. ASSUME NEW k \in 0 .. n - 1, k \in T PROVE k + 1 \in T
  <2>1. /\ k + 1 \in 1 .. n /\ k + 1 \in 0 .. n /\ (k + 1) - 1 = k /\ k \in 0 .. n
        /\ n - k \in 1 .. n /\ (n - k) - 1 = n - (k + 1)
    BY <1>0
  <2>2. V \in Nat /\ Power[k] \in Nat /\ Power[k] > 0 /\ Power[k + 1] = Digit * Power[k]
    BY <1>0, <1>2, <2>1, PowerFacts
  <2>3. (V \div Power[k]) \div Digit = V \div (Digit * Power[k])
    <3> DEFINE e == Power[k]
    <3>1. V \in Nat /\ e \in Nat /\ e > 0 /\ Digit \in Nat /\ Digit > 0
      BY <1>0, <2>2
    <3> HIDE DEF e, V, T
    <3>2. (V \div e) \div Digit = V \div (Digit * e)
      BY <3>1, DigitFacts
    <3> QED
      BY <3>2 DEF e
  <2>4. V \div Power[k] = c[n - k]
    BY <1>10
  <2>5. c[n - k] \div Digit = c[(n - k) - 1]
    BY <1>4, <2>1
  <2>6. V \div Power[k + 1] = c[n - (k + 1)]
    BY <2>1, <2>2, <2>3, <2>4, <2>5
  <2> QED
    BY <2>1, <2>6
<1>11. \A k \in 0 .. n : k \in T
  <2> HIDE DEF T, n
  <2> QED
    BY <1>0, <1>9, <1>10, InductionTo
<1>12. ASSUME NEW i \in 1 .. n PROVE (V \div Power[n - i]) % Digit = p[i]
  <2>1. n - i \in 0 .. n /\ n - (n - i) = i
    BY <1>0
  <2>2. V \div Power[n - i] = c[n - (n - i)]
    BY <1>11, <2>1
  <2> QED
    BY <1>4, <2>1, <2>2
<1>13. Prefix(V) = p
  <2>1. Prefix(V) = [i \in 1 .. n |-> p[i]]
    BY <1>12 DEF Prefix
  <2>2. p = [i \in 1 .. n |-> p[i]]
    OBVIOUS
  <2> QED
    BY <2>1, <2>2
<1> QED
  BY <1>8, <1>13
-----------------------------------------------------------------------------
(***************************************************************************)
(* The reader of frames and of handshake messages.                         *)
(***************************************************************************)
Kinds == {"frame", "message"}
ReaderStates ==
  [kind : Kinds, got : Seq(Seq(Octets)), held : Seq(Octets), n : Int, next : Int,
   cap : Nat, tooLarge : BOOLEAN]

(* The greater of two. *)
LEMMA MaxTwo ==
  ASSUME NEW a \in Int, NEW b \in Int
  PROVE  Max({a, b}) = IF a >= b THEN a ELSE b
<1>1. {a, b} \in SUBSET Int /\ a \in {a, b} /\ b \in {a, b}
  OBVIOUS
<1>2. CASE a >= b
  <2>1. \A k \in {a, b} : a >= k
    BY <1>2
  <2>2. Max({a, b}) = a
    BY <1>1, <2>1, MaxOf
  <2> QED
    BY <1>2, <2>2
<1>3. CASE ~(a >= b)
  <2>1. \A k \in {a, b} : b >= k
    BY <1>3
  <2>2. Max({a, b}) = b
    BY <1>1, <2>1, MaxOf
  <2> QED
    BY <1>3, <2>2
<1> QED
  BY <1>2, <1>3

(* A sequence turned round, twice. *)
LEMMA ReverseTwice ==
  ASSUME NEW S, NEW p \in Seq(S)
  PROVE  Reverse(p) \in Seq(S) /\ Len(Reverse(p)) = Len(p) /\ Reverse(Reverse(p)) = p
<1> DEFINE n == Len(p)
           q == Reverse(p)
           t == Reverse(q)
<1>0. n \in Nat /\ DOMAIN p = 1 .. n /\ \A i \in 1 .. n : p[i] \in S
  OBVIOUS
<1>1. \A i \in 1 .. n : (n - i) + 1 \in 1 .. n /\ (n - ((n - i) + 1)) + 1 = i
  BY <1>0
<1>2. q = [i \in 1 .. n |-> p[(n - i) + 1]]
  BY DEF Reverse
<1> HIDE DEF q
<1>3. q \in Seq(S) /\ Len(q) = n
  <2>1. q \in [1 .. n -> S]
    BY <1>0, <1>1, <1>2
  <2> QED
    BY <1>0, <2>1
<1>4. t = [i \in 1 .. n |-> q[(n - i) + 1]]
  BY <1>3 DEF Reverse
<1> HIDE DEF t
<1>5. \A i \in 1 .. n : t[i] = p[i]
  <2> SUFFICES ASSUME NEW i \in 1 .. n PROVE t[i] = p[i]
    OBVIOUS
  <2>1. t[i] = q[(n - i) + 1]
    BY <1>4
  <2>2. q[(n - i) + 1] = p[(n - ((n - i) + 1)) + 1]
    BY <1>1, <1>2
  <2> QED
    BY <1>1, <2>1, <2>2
<1>6. t = p
  <2>1. t = [i \in 1 .. n |-> p[i]]
    BY <1>4, <1>5
  <2>2. p = [i \in 1 .. n |-> p[i]]
    BY <1>0
  <2> QED
    BY <2>1, <2>2
<1> QED
  BY <1>3, <1>6 DEF q, t

(* A length stated is a prefix. *)
LEMMA PrefixType ==
  ASSUME NEW n \in Nat
  PROVE  Prefix(n) \in Seq(Octets) /\ Len(Prefix(n)) = PrefixLen
<1>1. PrefixLen \in Nat /\ Digit \in Nat /\ Digit > 0
  BY WireAssumption
<1>2. ASSUME NEW i \in 1 .. PrefixLen PROVE (n \div Power[PrefixLen - i]) % Digit \in Octets
  <2>1. PrefixLen - i \in 0 .. PrefixLen
    BY <1>1
  <2> DEFINE y == Power[PrefixLen - i]
             q == n \div y
  <2>2. y \in Nat /\ y > 0
    BY <2>1, PowerFacts
  <2> HIDE DEF y
  <2>3. q \in Nat
    BY <2>2
  <2> HIDE DEF q
  <2>4. q % Digit \in 0 .. Digit - 1
    BY <1>1, <2>3
  <2> QED
    BY <2>4 DEF Octets, q, y
<1>3. Prefix(n) \in [1 .. PrefixLen -> Octets]
  BY <1>2 DEF Prefix
<1> QED
  BY <1>1, <1>3

(* A body written is one of bytes. *)
LEMMA AppendFrameType ==
  ASSUME NEW kind \in Kinds, NEW body \in Seq(Octets)
  PROVE  AppendFrame(kind, body) \in Seq(Octets)
<1> DEFINE p == Prefix(Len(body))
<1>1. p \in Seq(Octets)
  BY PrefixType
<1> HIDE DEF p
<1>2. Reverse(p) \in Seq(Octets)
  BY <1>1, ReverseTwice
<1>3. AppendFrame(kind, body) = (IF kind = "frame" THEN p ELSE Reverse(p)) \o body
  BY DEF AppendFrame, p
<1> DEFINE x == IF kind = "frame" THEN p ELSE Reverse(p)
<1>4. x \in Seq(Octets)
  BY <1>1, <1>2
<1> HIDE DEF x
<1>5. x \o body \in Seq(Octets)
  BY <1>4, ConcatProperties
<1> QED
  BY <1>3, <1>5 DEF x

(* What a prefix states, and who states it. *)
LEMMA DeclaredFacts ==
  ASSUME NEW kind \in Kinds, NEW pre \in Seq(Octets), Len(pre) = PrefixLen
  PROVE  /\ Declared(kind, pre) \in 0 .. Lengths - 1
         /\ \A body \in Seq(Octets) :
              Len(body) = Declared(kind, pre) => AppendFrame(kind, body) = pre \o body
<1> DEFINE q == Reverse(pre)
<1>1. q \in Seq(Octets) /\ Len(q) = PrefixLen /\ Reverse(q) = pre
  BY ReverseTwice
<1> HIDE DEF q
<1>2. Prefix(Value(pre)) = pre /\ Value(pre) \in 0 .. Lengths - 1
  BY PrefixOfValue
<1>3. Prefix(Value(q)) = q /\ Value(q) \in 0 .. Lengths - 1
  BY <1>1, PrefixOfValue
<1>4. CASE kind = "frame"
  <2>1. Declared(kind, pre) = Value(pre)
    BY <1>4 DEF Declared
  <2>2. ASSUME NEW body \in Seq(Octets), Len(body) = Declared(kind, pre)
        PROVE  AppendFrame(kind, body) = pre \o body
    <3>1. AppendFrame(kind, body) = Prefix(Len(body)) \o body
      BY <1>4 DEF AppendFrame
    <3>2. Prefix(Len(body)) = pre
      BY <1>2, <2>1, <2>2, Zenon
    <3> QED
      BY <3>1, <3>2
  <2> QED
    BY <1>2, <2>1, <2>2
<1>5. CASE kind # "frame"
  <2>1. Declared(kind, pre) = Value(q)
    BY <1>5 DEF Declared, q
  <2>2. ASSUME NEW body \in Seq(Octets), Len(body) = Declared(kind, pre)
        PROVE  AppendFrame(kind, body) = pre \o body
    <3>1. AppendFrame(kind, body) = Reverse(Prefix(Len(body))) \o body
      BY <1>5 DEF AppendFrame
    <3>2. Prefix(Len(body)) = q
      BY <1>3, <2>1, <2>2, Zenon
    <3>3. Reverse(Prefix(Len(body))) = pre
      BY <1>1, <3>2, Zenon
    <3> QED
      BY <3>1, <3>3
  <2> QED
    BY <1>3, <2>1, <2>2
<1> QED
  BY <1>4, <1>5

(* The test of the limit is a test of the length declared. *)
LEMMA LengthFacts ==
  ASSUME NEW kind \in Kinds, NEW pre \in Seq(Octets), Len(pre) = PrefixLen
  PROVE  /\ MaxSize(kind) \in Nat /\ Declared(kind, pre) \in Nat
         /\ TooLarge(kind, Length(kind, pre)) => Declared(kind, pre) > MaxSize(kind)
         /\ ~TooLarge(kind, Length(kind, pre)) =>
              Length(kind, pre) = Declared(kind, pre) /\ Declared(kind, pre) <= MaxSize(kind)
<1> DEFINE d == Declared(kind, pre)
           m == MaxSize(kind)
           l == Length(kind, pre)
<1>1. d \in 0 .. Lengths - 1
  BY DeclaredFacts
<1>2. Lengths \in Nat
  <2>1. PrefixLen \in 0 .. PrefixLen
    BY WireAssumption
  <2> QED
    BY <2>1, PowerFacts
<1>3. MaxFrameSize \in Nat /\ MaxMessageSize \in Nat /\ 2 * MaxMessageSize < Lengths
  BY <1>2, WireAssumption
<1>4. TooLarge(kind, l) <=> (l < 0 \/ l > m)
  BY DEF TooLarge
<1>5. CASE kind = "frame"
  <2>1. l = d /\ m = MaxFrameSize
    BY <1>5 DEF Length, MaxSize
  <2> HIDE DEF l, d, m
  <2>2. m \in Nat /\ d \in Nat /\ (TooLarge(kind, l) => d > m)
        /\ (~TooLarge(kind, l) => l = d /\ d <= m)
    BY <1>1, <1>2, <1>3, <1>4, <2>1
  <2> QED
    BY <2>2 DEF l, d, m
<1>6. CASE kind # "frame"
  <2>1. l = (IF 2 * d >= Lengths THEN d - Lengths ELSE d) /\ m = MaxMessageSize
    BY <1>6 DEF Length, MaxSize, Signed
  <2> HIDE DEF l, d, m
  <2>2. m \in Nat /\ d \in Nat /\ (TooLarge(kind, l) => d > m)
        /\ (~TooLarge(kind, l) => l = d /\ d <= m)
    BY <1>1, <1>2, <1>3, <1>4, <2>1
  <2> QED
    BY <2>2 DEF l, d, m
<1> QED
  BY <1>5, <1>6
-----------------------------------------------------------------------------
(* What was written to make the reader return what it returned. *)
Frames(r) == [i \in DOMAIN r.got |-> AppendFrame(r.kind, r.got[i])]
Out(r) == FlattenSeq(Frames(r))

(* The buffer, and the bodies it was needed for. *)
CapOK(r) ==
  \/ r.cap <= PrefixLen \/ r.cap <= 2 * GrowChunk
  \/ r.n # Unknown /\ r.cap <= 4 * Len(r.held)
  \/ \E i \in DOMAIN r.got : r.cap <= 4 * Len(r.got[i])
Bodies(r) == \A i \in DOMAIN r.got : Len(r.got[i]) <= MaxSize(r.kind)

(* What is left of the stream: part of a prefix, a prefix and part of its *)
(* body, or a prefix that states too much, and what follows it.           *)
States(kind, pre, n) == pre \in Seq(Octets) /\ Len(pre) = PrefixLen /\ Declared(kind, pre) = n
InPrefix(r, rest) == ~r.tooLarge /\ r.n = Unknown /\ rest = r.held /\ Len(r.held) < PrefixLen
InBody(r, rest) ==
  /\ ~r.tooLarge /\ r.n \in 0 .. MaxSize(r.kind)
  /\ \E pre : States(r.kind, pre, r.n) /\ rest = pre \o r.held
Refused(r, rest) ==
  /\ r.tooLarge /\ r.n = Unknown
  /\ \E pre, tail \in Seq(Octets) :
       Len(pre) = PrefixLen /\ Declared(r.kind, pre) > MaxSize(r.kind) /\ rest = pre \o tail
RestOK(r, rest) ==
  \/ InPrefix(r, rest)
  \/ InBody(r, rest) /\ Len(r.held) < r.next /\ r.next <= r.n
  \/ Refused(r, rest)

Left(s, r, rest) == rest \in Seq(Octets) /\ s = Out(r) \o rest
ReaderOK(s, r) ==
  /\ r \in ReaderStates /\ CapOK(r) /\ Bodies(r)
  /\ \E rest : Left(s, r, rest) /\ RestOK(r, rest)

(* What readBody may be called with. *)
BodyStep(s, r) ==
  /\ r \in ReaderStates /\ CapOK(r) /\ Bodies(r)
  /\ \E rest : Left(s, r, rest) /\ InBody(r, rest) /\ Len(r.held) <= r.n

(* The bodies returned, written again, are bytes; one more body adds itself. *)
LEMMA OutGrows ==
  ASSUME NEW kind \in Kinds, NEW got \in Seq(Seq(Octets)), NEW body \in Seq(Octets)
  PROVE  LET f == [i \in DOMAIN got |-> AppendFrame(kind, got[i])]
             new == Append(got, body)
             g == [i \in DOMAIN new |-> AppendFrame(kind, new[i])]
         IN  /\ FlattenSeq(f) \in Seq(Octets)
             /\ FlattenSeq(g) = FlattenSeq(f) \o AppendFrame(kind, body)
<1> DEFINE f == [i \in DOMAIN got |-> AppendFrame(kind, got[i])]
           new == Append(got, body)
           g == [i \in DOMAIN new |-> AppendFrame(kind, new[i])]
           n == Len(got)
           B == Seq(Octets)
<1>1. n \in Nat /\ DOMAIN got = 1 .. n /\ \A i \in 1 .. n : got[i] \in B
  OBVIOUS
<1>2. new \in Seq(B) /\ Len(new) = n + 1 /\ new[n + 1] = body /\ \A i \in 1 .. n : new[i] = got[i]
  BY AppendProperties
<1> HIDE DEF new
<1>3. \A x \in B : AppendFrame(kind, x) \in B
  BY AppendFrameType
<1>4. f \in Seq(B) /\ Len(f) = n
  <2>1. f \in [1 .. n -> B]
    <3> HIDE DEF n, B
    <3> QED
      BY <1>1, <1>3
  <2> HIDE DEF f, B, n
  <2> QED
    BY <1>1, <2>1
<1>5. g \in Seq(B) /\ Len(g) = n + 1
  <2>0. DOMAIN new = 1 .. n + 1 /\ \A i \in 1 .. n + 1 : new[i] \in B
    BY <1>1, <1>2
  <2>1. g \in [1 .. n + 1 -> B]
    <3> HIDE DEF n, B
    <3> QED
      BY <1>3, <2>0
  <2> HIDE DEF g, B
  <2> QED
    BY <1>1, <2>1
<1>6. (\A i \in 1 .. n : g[i] = f[i]) /\ g[n + 1] = AppendFrame(kind, body)
  <2>1. DOMAIN new = 1 .. n + 1 /\ n + 1 \in 1 .. n + 1 /\ \A i \in 1 .. n : i \in 1 .. n + 1
    BY <1>1, <1>2
  <2> HIDE DEF n
  <2> QED
    BY <1>1, <1>2, <2>1
<1>7. FlattenSeq(f) \in Seq(Octets) /\ FlattenSeq(g) = FlattenSeq(f) \o g[Len(g)]
  <2> HIDE DEF f, g
  <2>1. f \in Seq(Seq(Octets)) /\ g \in Seq(Seq(Octets)) /\ Len(g) = Len(f) + 1
        /\ \A i \in 1 .. Len(f) : g[i] = f[i]
    BY <1>4, <1>5, <1>6
  <2> QED
    BY <2>1, FlattenGrow
<1> HIDE DEF f, g
<1>8. FlattenSeq(g) = FlattenSeq(f) \o AppendFrame(kind, body)
  BY <1>5, <1>6, <1>7
<1> QED
  BY <1>7, <1>8 DEF f, g, new

(* Where a read step ends. *)
StepEnd(len, n, cap) == IF cap >= n THEN n ELSE Lower(n, Higher(2 * len, GrowChunk))

(* It ends beyond its start, and needs a buffer no larger than twice that. *)
LEMMA StepFacts ==
  ASSUME NEW len \in Nat, NEW n \in Nat, NEW cap \in Nat, len < n
  PROVE  LET stop == StepEnd(len, n, cap)
         IN  /\ stop \in Nat /\ len < stop /\ stop <= n
             /\ cap < stop => /\ Grown(cap, stop, n) \in Nat
                              /\ \/ Grown(cap, stop, n) <= 2 * GrowChunk
                                 \/ Grown(cap, stop, n) <= 4 * len
<1> DEFINE stop == StepEnd(len, n, cap)
<1>1. GrowChunk \in Nat /\ GrowChunk >= 1
  BY WireAssumption
<1>2. /\ \A a, b \in Nat : Lower(a, b) = IF a <= b THEN a ELSE b
      /\ \A a, b \in Nat : Higher(a, b) = IF a >= b THEN a ELSE b
  BY MinTwo, MaxTwo DEF Lower, Higher
<1> DEFINE h == Higher(2 * len, GrowChunk)
<1>3. 2 * len \in Nat /\ 2 * cap \in Nat /\ h = IF 2 * len >= GrowChunk THEN 2 * len ELSE GrowChunk
  BY <1>1, <1>2
<1> HIDE DEF h
<1>4. h \in Nat /\ h > len
  BY <1>1, <1>3
<1>5. stop = IF cap >= n THEN n ELSE IF n <= h THEN n ELSE h
  BY <1>2, <1>4 DEF h, StepEnd
<1> HIDE DEF stop
<1>6. stop \in Nat /\ len < stop /\ stop <= n
  BY <1>4, <1>5
<1>7. ASSUME cap < stop
      PROVE  /\ Grown(cap, stop, n) \in Nat
             /\ Grown(cap, stop, n) <= 2 * GrowChunk \/ Grown(cap, stop, n) <= 4 * len
  <2> DEFINE a == Higher(stop, 2 * cap)
             b == Higher(n, GrowChunk)
  <2>1. a = (IF stop >= 2 * cap THEN stop ELSE 2 * cap) /\ b = IF n >= GrowChunk THEN n ELSE GrowChunk
    BY <1>1, <1>2, <1>3, <1>6
  <2>2. Grown(cap, stop, n) = Lower(a, b)
    BY DEF Grown
  <2> HIDE DEF a, b
  <2>3. a \in Nat /\ b \in Nat
    BY <1>1, <1>3, <1>6, <2>1
  <2>4. Grown(cap, stop, n) = IF a <= b THEN a ELSE b
    BY <1>2, <2>2, <2>3
  <2>5. a <= 2 * h
    BY <1>4, <1>5, <1>6, <1>7, <2>1
  <2> QED
    BY <1>1, <1>3, <1>4, <2>3, <2>4, <2>5
<1> QED
  BY <1>6, <1>7 DEF stop

(* readBody, from a state it may be called in. *)
LEMMA BodyKeeps ==
  ASSUME NEW s, NEW r, BodyStep(s, r)
  PROVE  ReaderOK(s, readBody(r))
<1> DEFINE q == readBody(r)
           len == Len(r.held)
           stop == IF r.cap >= r.n THEN r.n ELSE Lower(r.n, Higher(2 * len, GrowChunk))
           B == Seq(Octets)
<1>1. /\ r \in ReaderStates /\ CapOK(r) /\ Bodies(r) /\ len <= r.n
      /\ ~r.tooLarge /\ r.n \in 0 .. MaxSize(r.kind)
  BY DEF BodyStep, InBody
<1>2. PICK rest : Left(s, r, rest) /\ InBody(r, rest)
  BY DEF BodyStep
<1>3. PICK pre : States(r.kind, pre, r.n) /\ rest = pre \o r.held
  BY <1>2 DEF InBody
<1>4. /\ r.kind \in Kinds /\ r.got \in Seq(B) /\ r.held \in B /\ r.cap \in Nat
      /\ len \in Nat /\ r.tooLarge = FALSE
  BY <1>1 DEF ReaderStates
<1>5. PrefixLen \in Nat /\ PrefixLen >= 1 /\ GrowChunk \in Nat /\ Unknown = -1
  BY WireAssumption DEF Unknown
<1>6. MaxSize(r.kind) \in Nat /\ r.n \in Nat /\ r.n <= MaxSize(r.kind) /\ r.n # Unknown
  <2>1. MaxSize(r.kind) \in Nat
    BY <1>3, <1>4, LengthFacts DEF States
  <2> QED
    BY <1>1, <1>5, <2>1
<1>7. CASE len = r.n
  <2>1. q = [r EXCEPT !.got = Append(@, r.held), !.held = <<>>, !.n = Unknown,
                      !.cap = HeaderCap(r.kind, @)]
    BY <1>7 DEF readBody
  <2> HIDE DEF q
  <2>2. /\ q.kind = r.kind /\ q.got = Append(r.got, r.held) /\ q.held = <<>> /\ q.n = Unknown
        /\ q.next = r.next /\ q.cap = HeaderCap(r.kind, r.cap) /\ q.tooLarge = FALSE
    BY <1>1, <1>4, <2>1 DEF ReaderStates
  <2>3. HeaderCap(r.kind, r.cap) \in Nat
        /\ (HeaderCap(r.kind, r.cap) <= PrefixLen \/ HeaderCap(r.kind, r.cap) = r.cap)
    <3>1. Higher(r.cap, PrefixLen) = IF r.cap >= PrefixLen THEN r.cap ELSE PrefixLen
      <4>1. r.cap \in Int /\ PrefixLen \in Int
        BY <1>4, <1>5
      <4> QED
        BY <4>1, MaxTwo DEF Higher
    <3> QED
      BY <1>4, <1>5, <3>1 DEF HeaderCap
  <2>4. /\ q.got \in Seq(B) /\ Len(q.got) = Len(r.got) + 1 /\ q.got[Len(r.got) + 1] = r.held
        /\ (\A i \in 1 .. Len(r.got) : q.got[i] = r.got[i]) /\ Len(r.got) \in Nat
        /\ DOMAIN q.got = 1 .. Len(r.got) + 1 /\ DOMAIN r.got = 1 .. Len(r.got)
    BY <1>4, <2>2, AppendProperties
  <2>5. q \in ReaderStates
    <3>1. <<>> \in B /\ Unknown \in Int
      BY <1>5
    <3>2. q = [kind |-> q.kind, got |-> q.got, held |-> q.held, n |-> q.n, next |-> q.next,
               cap |-> q.cap, tooLarge |-> q.tooLarge]
      BY <1>1, <2>1 DEF ReaderStates
    <3>3. r.next \in Int
      BY <1>1 DEF ReaderStates
    <3> HIDE DEF B
    <3>4. q.kind \in Kinds /\ q.got \in Seq(B) /\ q.held \in B /\ q.n \in Int /\ q.next \in Int
          /\ q.cap \in Nat /\ q.tooLarge \in BOOLEAN
      BY <1>4, <2>2, <2>3, <2>4, <3>1, <3>3
    <3> QED
      BY <3>2, <3>4 DEF ReaderStates, B
  <2>6. CapOK(q)
    <3> DEFINE k == Len(r.got) + 1
    <3>1. k \in DOMAIN q.got /\ Len(q.got[k]) = len
      BY <2>4
    <3>2. \A i \in DOMAIN r.got : i \in DOMAIN q.got /\ q.got[i] = r.got[i]
      BY <2>4
    <3>3. CASE HeaderCap(r.kind, r.cap) <= PrefixLen
      BY <2>2, <3>3 DEF CapOK
    <3>4. CASE q.cap = r.cap
      <4>1. CASE r.cap <= PrefixLen \/ r.cap <= 2 * GrowChunk
        BY <3>4, <4>1 DEF CapOK
      <4>2. CASE r.cap <= 4 * len
        <5>1. q.cap <= 4 * Len(q.got[k])
          BY <3>1, <3>4, <4>2
        <5> QED
          BY <3>1, <5>1 DEF CapOK
      <4>3. CASE \E i \in DOMAIN r.got : r.cap <= 4 * Len(r.got[i])
        BY <3>2, <3>4, <4>3 DEF CapOK
      <4> QED
        BY <1>1, <4>1, <4>2, <4>3 DEF CapOK
    <3> QED
      BY <2>2, <2>3, <3>3, <3>4
  <2>7. Bodies(q)
    <3> SUFFICES ASSUME NEW i \in DOMAIN q.got PROVE Len(q.got[i]) <= MaxSize(r.kind)
      BY <2>2 DEF Bodies
    <3>1. CASE i = Len(r.got) + 1
      BY <1>6, <1>7, <2>4, <3>1
    <3>2. CASE i # Len(r.got) + 1
      <4>1. i \in DOMAIN r.got /\ q.got[i] = r.got[i]
        BY <2>4, <3>2
      <4> QED
        BY <1>1, <4>1 DEF Bodies
    <3> QED
      BY <3>1, <3>2
  <2> DEFINE none == <<>>
  <2>8. Left(s, q, none) /\ RestOK(q, none)
    <3>1. Out(r) \in B /\ Out(q) = Out(r) \o AppendFrame(r.kind, r.held)
      BY <1>4, <2>2, OutGrows DEF Out, Frames
    <3>2. AppendFrame(r.kind, r.held) = pre \o r.held
      BY <1>3, <1>4, <1>7, DeclaredFacts DEF States
    <3>3. s = Out(q)
      BY <1>2, <1>3, <3>1, <3>2 DEF Left
    <3>4. Out(q) \in B
      <4>1. AppendFrame(r.kind, r.held) \in B
        BY <1>4, AppendFrameType
      <4> HIDE DEF Out, AppendFrame
      <4> QED
        BY <3>1, <4>1, ConcatProperties
    <3>5. none \in B /\ Out(q) \o none = Out(q) /\ Len(none) = 0
      BY <3>4, ConcatEmptySeq
    <3>6. Left(s, q, none)
      BY <3>3, <3>5 DEF Left
    <3>7. InPrefix(q, none)
      BY <1>5, <2>2, <3>5 DEF InPrefix
    <3> QED
      BY <3>6, <3>7 DEF RestOK
  <2> QED
    BY <2>5, <2>6, <2>7, <2>8 DEF ReaderOK, q
<1>8. CASE len # r.n
  <2>1. q = [r EXCEPT !.next = stop, !.cap = IF @ < stop THEN Grown(@, stop, r.n) ELSE @]
    BY <1>8 DEF readBody
  <2>2. /\ stop \in Nat /\ len < stop /\ stop <= r.n
        /\ r.cap < stop => /\ Grown(r.cap, stop, r.n) \in Nat
                           /\ Grown(r.cap, stop, r.n) <= 2 * GrowChunk
                              \/ Grown(r.cap, stop, r.n) <= 4 * len
    <3>1. len < r.n
      BY <1>1, <1>4, <1>6, <1>8
    <3>2. len \in Nat /\ r.n \in Nat /\ r.cap \in Nat
      BY <1>4, <1>6
    <3>3. stop = StepEnd(len, r.n, r.cap)
      BY DEF StepEnd
    <3> HIDE DEF len, stop
    <3> QED
      BY <3>1, <3>2, <3>3, StepFacts
  <2> HIDE DEF q, stop
  <2>3. /\ q.kind = r.kind /\ q.got = r.got /\ q.held = r.held /\ q.n = r.n
        /\ q.next = stop /\ q.cap = (IF r.cap < stop THEN Grown(r.cap, stop, r.n) ELSE r.cap)
        /\ q.tooLarge = FALSE
    BY <1>1, <1>4, <2>1 DEF ReaderStates
  <2>4. q.cap \in Nat /\ (q.cap = r.cap \/ q.cap <= 2 * GrowChunk \/ q.cap <= 4 * len)
    BY <1>4, <2>2, <2>3
  <2>5. q \in ReaderStates
    <3>2. q = [kind |-> q.kind, got |-> q.got, held |-> q.held, n |-> q.n, next |-> q.next,
               cap |-> q.cap, tooLarge |-> q.tooLarge]
      BY <1>1, <2>1 DEF ReaderStates
    <3> HIDE DEF B
    <3>4. q.kind \in Kinds /\ q.got \in Seq(B) /\ q.held \in B /\ q.n \in Int /\ q.next \in Int
          /\ q.cap \in Nat /\ q.tooLarge \in BOOLEAN
      <4>1. r.n \in Int /\ stop \in Int
        BY <1>6, <2>2
      <4> QED
        BY <1>4, <2>3, <2>4, <4>1
    <3> QED
      BY <3>2, <3>4 DEF ReaderStates, B
  <2>6. CapOK(q)
    <3>1. CASE q.cap = r.cap
      BY <1>1, <2>3, <3>1 DEF CapOK
    <3>2. CASE q.cap <= 2 * GrowChunk
      BY <3>2 DEF CapOK
    <3>3. CASE q.cap <= 4 * len
      BY <1>6, <2>3, <3>3 DEF CapOK
    <3> QED
      BY <2>4, <3>1, <3>2, <3>3
  <2>7. Bodies(q)
    BY <1>1, <2>3 DEF Bodies
  <2>8. Left(s, q, rest)
    BY <1>2, <2>3 DEF Left, Out, Frames
  <2>9. RestOK(q, rest)
    <3>1. InBody(q, rest)
      BY <1>2, <2>3 DEF InBody
    <3> QED
      BY <2>2, <2>3, <3>1 DEF RestOK
  <2> QED
    BY <2>5, <2>6, <2>7, <2>8, <2>9 DEF ReaderOK, q
<1> QED
  BY <1>7, <1>8

(* The reader, given one more byte. *)
LEMMA ByteKeeps ==
  ASSUME NEW s, NEW r, ReaderOK(s, r), NEW b \in Octets
  PROVE  ReaderOK(s \o <<b>>, ReadByte(r, b))
<1> DEFINE q == ReadByte(r, b)
           one == <<b>>
           held == Append(r.held, b)
           n == Length(r.kind, held)
           B == Seq(Octets)
<1>1. r \in ReaderStates /\ CapOK(r) /\ Bodies(r)
  BY DEF ReaderOK
<1>2. PICK rest : Left(s, r, rest) /\ RestOK(r, rest)
  BY DEF ReaderOK
<1>3. /\ r.kind \in Kinds /\ r.got \in Seq(B) /\ r.held \in B /\ r.n \in Int /\ r.next \in Int
      /\ r.cap \in Nat /\ r.tooLarge \in BOOLEAN /\ Len(r.held) \in Nat
  BY <1>1 DEF ReaderStates
<1>4. PrefixLen \in Nat /\ PrefixLen >= 1 /\ Unknown = -1
  BY WireAssumption DEF Unknown
<1>5. held = r.held \o one /\ held \in B /\ Len(held) = Len(r.held) + 1 /\ one \in B
  <2> DEFINE h == r.held
  <2>1. h \in Seq(Octets)
    BY <1>3
  <2> HIDE DEF h
  <2>2. Append(h, b) \in Seq(Octets) /\ Len(Append(h, b)) = Len(h) + 1
    BY <2>1, AppendProperties
  <2>3. Append(h, b) = h \o <<b>>
    BY <2>1, AppendIsConcat
  <2> QED
    BY <2>2, <2>3 DEF h
<1>6. Out(r) \in B
  BY <1>3, OutGrows DEF Out, Frames
<1> HIDE DEF one, held
<1>7. rest \o one \in B /\ s \o one = Out(r) \o (rest \o one)
  <2>1. rest \in B /\ s = Out(r) \o rest
    BY <1>2 DEF Left
  <2> HIDE DEF Out, B
  <2>2. rest \o one \in B
    BY <1>5, <2>1, ConcatProperties DEF B
  <2>3. (Out(r) \o rest) \o one = Out(r) \o (rest \o one)
    BY <1>5, <1>6, <2>1, ConcatAssociative, SMTT(30) DEF B
  <2> QED
    BY <2>1, <2>2, <2>3
<1>8. ASSUME NEW x \in B, NEW y \in B PROVE (x \o y) \o one = x \o (y \o one) /\ y \o one \in B
  <2> HIDE DEF B
  <2>1. (x \o y) \o one = x \o (y \o one)
    BY <1>5, ConcatAssociative, SMTT(30) DEF B
  <2>2. y \o one \in B
    BY <1>5, ConcatProperties DEF B
  <2> QED
    BY <2>1, <2>2
<1>9. CASE Refused(r, rest)
  <2>1. r.tooLarge = TRUE
    BY <1>3, <1>9 DEF Refused
  <2>2. q = r
    BY <2>1 DEF ReadByte
  <2>3. PICK pre \in B, tail \in B : Len(pre) = PrefixLen /\ Declared(r.kind, pre) > MaxSize(r.kind)
                                     /\ rest = pre \o tail
    BY <1>9 DEF Refused
  <2>4. rest \o one = pre \o (tail \o one) /\ tail \o one \in B
    BY <1>8, <2>3
  <2>5. Refused(r, rest \o one)
    BY <1>9, <2>3, <2>4 DEF Refused
  <2>6. Left(s \o one, r, rest \o one)
    BY <1>7 DEF Left
  <2> HIDE DEF q
  <2> QED
    BY <1>1, <2>2, <2>5, <2>6 DEF ReaderOK, RestOK, q, one
<1>10. CASE InPrefix(r, rest)
  <2>1. /\ r.tooLarge = FALSE /\ r.n = Unknown /\ rest = r.held /\ Len(r.held) < PrefixLen
        /\ rest \o one = held
    BY <1>3, <1>5, <1>10 DEF InPrefix
  <2>2. Len(held) <= PrefixLen
    BY <1>3, <1>4, <1>5, <2>1
  <2>3. CASE Len(held) < PrefixLen
    <3>1. q = [r EXCEPT !.held = held]
      <4>1. Len(held) # PrefixLen
        BY <1>3, <1>4, <1>5, <2>3
      <4> QED
        BY <2>1, <2>3, <4>1 DEF ReadByte, held
    <3> HIDE DEF q
    <3>2. /\ q.kind = r.kind /\ q.got = r.got /\ q.held = held /\ q.n = r.n
          /\ q.next = r.next /\ q.cap = r.cap /\ q.tooLarge = FALSE
      BY <1>1, <2>1, <3>1 DEF ReaderStates
    <3>3. q \in ReaderStates
      BY <1>1, <1>5, <3>1 DEF ReaderStates
    <3>4. CapOK(q) /\ Bodies(q)
      BY <1>1, <2>1, <3>2 DEF CapOK, Bodies
    <3>5. Left(s \o one, q, held) /\ InPrefix(q, held)
      BY <1>7, <2>1, <2>3, <3>2 DEF Left, InPrefix, Out, Frames
    <3> QED
      BY <3>3, <3>4, <3>5 DEF ReaderOK, RestOK, q, one
  <2>4. CASE Len(held) = PrefixLen
    <3>0. ~(Len(held) < PrefixLen)
      BY <1>4, <2>4
    <3>1. /\ MaxSize(r.kind) \in Nat /\ Declared(r.kind, held) \in Nat
          /\ TooLarge(r.kind, n) => Declared(r.kind, held) > MaxSize(r.kind)
          /\ ~TooLarge(r.kind, n) =>
               n = Declared(r.kind, held) /\ Declared(r.kind, held) <= MaxSize(r.kind)
      BY <1>3, <1>5, <2>4, LengthFacts
    <3> DEFINE none == <<>>
    <3>2. held \o none = held /\ none \in B /\ Len(none) = 0
      BY <1>5, ConcatEmptySeq
    <3>3. CASE TooLarge(r.kind, n)
      <4>1. q = [r EXCEPT !.tooLarge = TRUE]
        BY <2>1, <2>4, <3>0, <3>3 DEF ReadByte, held
      <4> HIDE DEF q, n
      <4>2. /\ q.kind = r.kind /\ q.got = r.got /\ q.held = r.held /\ q.n = r.n
            /\ q.next = r.next /\ q.cap = r.cap /\ q.tooLarge = TRUE
        BY <1>1, <4>1 DEF ReaderStates
      <4>3. q \in ReaderStates
        BY <1>1, <4>1 DEF ReaderStates
      <4>4. CapOK(q) /\ Bodies(q)
        BY <1>1, <2>1, <4>2 DEF CapOK, Bodies
      <4>5. Left(s \o one, q, held)
        BY <1>7, <2>1, <4>2 DEF Left, Out, Frames
      <4>6. Refused(q, held)
        <5>1. Declared(q.kind, held) > MaxSize(q.kind)
          BY <3>1, <3>3, <4>2
        <5> HIDE DEF none
        <5> QED
          BY <1>5, <2>1, <2>4, <3>2, <4>2, <5>1 DEF Refused
      <4> QED
        BY <4>3, <4>4, <4>5, <4>6 DEF ReaderOK, RestOK, q, one
    <3>4. CASE ~TooLarge(r.kind, n)
      <4> DEFINE m == [r EXCEPT !.held = <<>>, !.n = n]
      <4>1. q = readBody(m)
        BY <2>1, <2>4, <3>0, <3>4 DEF ReadByte, held
      <4>2. n \in 0 .. MaxSize(r.kind) /\ n \in Nat /\ n = Declared(r.kind, held)
        BY <3>1, <3>4
      <4> HIDE DEF q, n
      <4>3. /\ m.kind = r.kind /\ m.got = r.got /\ m.held = none /\ m.n = n
            /\ m.next = r.next /\ m.cap = r.cap /\ m.tooLarge = FALSE
        BY <1>1, <2>1 DEF ReaderStates
      <4>4. m \in ReaderStates
        <5>1. n \in Int /\ <<>> \in B
          BY <4>2
        <5> QED
          BY <1>1, <5>1 DEF ReaderStates
      <4> HIDE DEF m
      <4>5. CapOK(m) /\ Bodies(m)
        BY <1>1, <2>1, <4>3 DEF CapOK, Bodies
      <4>6. Left(s \o one, m, held)
        BY <1>7, <2>1, <4>3 DEF Left, Out, Frames
      <4>7. InBody(m, held)
        <5>1. States(m.kind, held, m.n) /\ held = held \o m.held
          BY <1>5, <2>4, <3>2, <4>2, <4>3 DEF States
        <5> QED
          BY <4>2, <4>3, <5>1 DEF InBody
      <4>8. Len(m.held) <= m.n
        BY <3>2, <4>2, <4>3
      <4>9. BodyStep(s \o one, m)
        BY <4>4, <4>5, <4>6, <4>7, <4>8 DEF BodyStep
      <4> QED
        BY <4>1, <4>9, BodyKeeps DEF q, one
    <3> QED
      BY <3>3, <3>4
  <2> QED
    BY <1>4, <1>5, <2>2, <2>3, <2>4
<1>11. CASE InBody(r, rest) /\ Len(r.held) < r.next /\ r.next <= r.n
  <2>1. PICK pre : States(r.kind, pre, r.n) /\ rest = pre \o r.held
    BY <1>11 DEF InBody
  <2>2. r.tooLarge = FALSE /\ r.n \in 0 .. MaxSize(r.kind) /\ pre \in B
    BY <1>3, <1>11, <2>1 DEF InBody, States
  <2>3. r.n # Unknown
    <3>1. MaxSize(r.kind) \in Nat
      BY <1>3, <2>1, LengthFacts DEF States
    <3> QED
      BY <1>4, <2>2, <3>1
  <2>4. rest \o one = pre \o held
    BY <1>3, <1>5, <1>8, <2>1, <2>2
  <2> DEFINE m == [r EXCEPT !.held = held]
  <2>5. q = IF Len(held) < r.next THEN m ELSE readBody(m)
    BY <2>2, <2>3 DEF ReadByte, held
  <2> HIDE DEF q
  <2>6. /\ m.kind = r.kind /\ m.got = r.got /\ m.held = held /\ m.n = r.n
        /\ m.next = r.next /\ m.cap = r.cap /\ m.tooLarge = FALSE
    BY <1>1, <2>2 DEF ReaderStates
  <2>7. m \in ReaderStates
    BY <1>1, <1>5 DEF ReaderStates
  <2> HIDE DEF m
  <2>8. CapOK(m)
    <3>1. r.cap <= 4 * Len(r.held) => r.cap <= 4 * Len(held)
      BY <1>3, <1>5
    <3> QED
      BY <1>1, <2>3, <2>6, <3>1 DEF CapOK
  <2>9. Bodies(m) /\ Left(s \o one, m, rest \o one)
    BY <1>1, <1>7, <2>6 DEF Bodies, Left, Out, Frames
  <2>10. InBody(m, rest \o one)
    BY <2>1, <2>2, <2>4, <2>6 DEF InBody
  <2>11. CASE Len(held) < r.next
    <3>1. Len(m.held) < m.next /\ m.next <= m.n
      BY <1>11, <2>6, <2>11
    <3>2. ReaderOK(s \o one, m)
      BY <2>7, <2>8, <2>9, <2>10, <3>1 DEF ReaderOK, RestOK
    <3> QED
      BY <2>5, <2>11, <3>2 DEF q, one
  <2>12. CASE ~(Len(held) < r.next)
    <3>1. Len(m.held) <= m.n
      BY <1>3, <1>5, <1>11, <2>6
    <3>2. BodyStep(s \o one, m)
      BY <2>7, <2>8, <2>9, <2>10, <3>1 DEF BodyStep
    <3>3. ReaderOK(s \o one, readBody(m))
      BY <3>2, BodyKeeps
    <3> QED
      BY <2>5, <2>12, <3>3 DEF q, one
  <2> QED
    BY <2>11, <2>12
<1> QED
  BY <1>2, <1>9, <1>10, <1>11 DEF RestOK

(* A reader starts with nothing, and has read nothing. *)
LEMMA ReaderStarts ==
  ASSUME NEW kind \in Kinds
  PROVE  ReaderOK(<<>>, ReaderInit(kind))
<1> DEFINE r == ReaderInit(kind)
           none == <<>>
<1>1. PrefixLen \in Nat /\ PrefixLen >= 1 /\ Unknown = -1
  BY WireAssumption DEF Unknown
<1>2. HeaderCap(kind, 0) \in Nat /\ HeaderCap(kind, 0) <= PrefixLen
  <2>1. Higher(0, PrefixLen) = IF 0 >= PrefixLen THEN 0 ELSE PrefixLen
    <3>1. 0 \in Int /\ PrefixLen \in Int
      BY <1>1
    <3> QED
      BY <3>1, MaxTwo DEF Higher
  <2> QED
    BY <1>1, <2>1 DEF HeaderCap
<1>3. none \in Seq(Octets) /\ none \in Seq(Seq(Octets)) /\ Len(none) = 0 /\ DOMAIN none = {}
      /\ none \o none = none
  <2>1. none \in Seq(Octets)
    OBVIOUS
  <2> QED
    BY <2>1, ConcatEmptySeq
<1>4. r.kind = kind /\ r.got = none /\ r.held = none /\ r.n = Unknown /\ r.cap = HeaderCap(kind, 0)
      /\ r.tooLarge = FALSE
  BY DEF ReaderInit
<1>5. r \in ReaderStates
  <2>1. Unknown \in Int /\ 0 \in Int
    BY <1>1
  <2> QED
    BY <1>2, <1>3, <2>1 DEF ReaderStates, ReaderInit
<1> HIDE DEF r
<1>6. Frames(r) = none
  <2>1. Frames(r) = [i \in DOMAIN none |-> AppendFrame(r.kind, none[i])]
    BY <1>4 DEF Frames
  <2> QED
    BY <1>3, <2>1
<1>7. Out(r) = none
  BY <1>6, FlattenNone DEF Out
<1> HIDE DEF none
<1>8. CapOK(r) /\ Bodies(r)
  BY <1>2, <1>3, <1>4 DEF CapOK, Bodies
<1>9. Left(none, r, none) /\ InPrefix(r, none)
  BY <1>1, <1>3, <1>4, <1>7 DEF Left, InPrefix
<1> QED
  BY <1>5, <1>8, <1>9 DEF ReaderOK, RestOK, r, none

(* The buffer is in proportion to what arrived. *)
LEMMA CapHolds ==
  ASSUME NEW s, NEW r, ReaderOK(s, r)
  PROVE  r.cap <= Max({PrefixLen, 2 * GrowChunk, 4 * Arrived(r)})
<1> DEFINE m == MaxSize(r.kind)
           last == IF r.n = Unknown THEN 0 ELSE Len(r.held)
           T == {Len(r.got[i]) : i \in DOMAIN r.got} \cup {last}
           a == Arrived(r)
           U == {PrefixLen, 2 * GrowChunk, 4 * a}
<1>1. r \in ReaderStates /\ CapOK(r) /\ Bodies(r)
  BY DEF ReaderOK
<1>2. PICK rest : RestOK(r, rest)
  BY DEF ReaderOK
<1>3. /\ r.kind \in Kinds /\ r.got \in Seq(Seq(Octets)) /\ Len(r.held) \in Nat /\ r.cap \in Nat
      /\ r.n \in Int /\ r.next \in Int
  BY <1>1 DEF ReaderStates
<1>4. m \in Nat
  BY <1>3, WireAssumption, PowerFacts DEF MaxSize, Kinds
<1>5. last \in 0 .. m
  <2>1. CASE r.n = Unknown
    BY <1>4, <2>1
  <2>2. CASE r.n # Unknown
    <3>1. r.n \in 0 .. m /\ Len(r.held) < r.next /\ r.next <= r.n
      BY <1>2, <2>2 DEF RestOK, InPrefix, InBody, Refused
    <3> QED
      BY <1>3, <1>4, <2>2, <3>1
  <2> QED
    BY <2>1, <2>2
<1>6. \A i \in DOMAIN r.got : Len(r.got[i]) \in 0 .. m
  <2>1. \A i \in DOMAIN r.got : Len(r.got[i]) \in Nat
    BY <1>3
  <2>2. \A i \in DOMAIN r.got : Len(r.got[i]) <= m
    BY <1>1 DEF Bodies
  <2> HIDE DEF m
  <2> QED
    BY <1>4, <2>1, <2>2
<1>7. a \in 0 .. m /\ \A k \in T : k <= a
  <2>1. a = Max(T)
    BY DEF Arrived
  <2>2. T \in SUBSET (0 .. m) /\ T # {}
    BY <1>5, <1>6
  <2> HIDE DEF T, m, a
  <2>3. Max(T) \in T /\ \A k \in T : Max(T) >= k
    BY <1>4, <2>2, MaxIn
  <2>4. \A k \in T : k \in Nat
    BY <1>4, <2>2
  <2> QED
    BY <1>4, <2>1, <2>2, <2>3, <2>4
<1>8. /\ PrefixLen \in Nat /\ GrowChunk \in Nat /\ a \in Nat
      /\ 2 * GrowChunk \in Nat /\ 4 * a \in Nat
  BY <1>4, <1>7, WireAssumption
<1>9. PrefixLen <= Max(U) /\ 2 * GrowChunk <= Max(U) /\ 4 * a <= Max(U) /\ Max(U) \in Nat
  <2> HIDE DEF a
  <2> DEFINE u == PrefixLen + 2 * GrowChunk + 4 * a
  <2>1. u \in Nat /\ U \in SUBSET (0 .. u) /\ U # {}
    BY <1>8
  <2>2. PrefixLen \in U /\ 2 * GrowChunk \in U /\ 4 * a \in U
    OBVIOUS
  <2> HIDE DEF U, u
  <2>3. Max(U) \in U /\ \A k \in U : Max(U) >= k
    BY <2>1, MaxIn
  <2>4. Max(U) \in Nat
    <3>1. \A k \in U : k \in Nat
      BY <2>1
    <3> QED
      BY <2>3, <3>1
  <2> QED
    BY <1>8, <2>2, <2>3, <2>4
<1> DEFINE M == Max(U)
<1>10. CASE r.cap <= PrefixLen \/ r.cap <= 2 * GrowChunk
  <2>1. r.cap <= M
    <3> HIDE DEF M, a
    <3>1. PrefixLen <= M /\ 2 * GrowChunk <= M /\ M \in Nat
      BY <1>9 DEF M
    <3> QED
      BY <1>3, <1>8, <1>10, <3>1
  <2> QED
    BY <2>1
<1>11. CASE \E k \in T : r.cap <= 4 * k
  <2>1. PICK k \in T : r.cap <= 4 * k
    BY <1>11
  <2>2. k <= a /\ k \in Nat
    BY <1>4, <1>5, <1>6, <1>7
  <2>3. 4 * a <= M /\ M \in Nat
    BY <1>9
  <2> HIDE DEF M, a
  <2>4. r.cap <= M
    BY <1>3, <1>8, <2>1, <2>2, <2>3
  <2> QED
    BY <2>4 DEF M, a
<1>12. r.cap <= PrefixLen \/ r.cap <= 2 * GrowChunk \/ \E k \in T : r.cap <= 4 * k
  BY <1>1 DEF CapOK
<1> QED
  BY <1>10, <1>11, <1>12

(* What the reader promises of the stream. *)
LEMMA ReaderHolds ==
  ASSUME NEW s \in Seq(Octets), NEW r, ReaderOK(s, r)
  PROVE  ReaderRule(s, r)
<1> DEFINE out == Out(r)
           left == From(s, Len(out) + 1)
           n == Declared(r.kind, SubSeq(left, 1, PrefixLen))
           B == Seq(Octets)
<1>1. r \in ReaderStates
  BY DEF ReaderOK
<1>2. PICK rest : Left(s, r, rest) /\ RestOK(r, rest)
  BY DEF ReaderOK
<1>3. /\ r.kind \in Kinds /\ r.got \in Seq(B) /\ r.held \in B /\ r.n \in Int /\ r.next \in Int
      /\ r.tooLarge \in BOOLEAN /\ Len(r.held) \in Nat
  BY <1>1 DEF ReaderStates
<1>4. PrefixLen \in Nat /\ PrefixLen >= 1 /\ Unknown = -1
  BY WireAssumption DEF Unknown
<1>5. out \in B
  BY <1>3, OutGrows DEF Out, Frames
<1>6. rest \in B /\ s = out \o rest
  BY <1>2 DEF Left
<1> HIDE DEF out
<1>7. /\ Len(s) = Len(out) + Len(rest) /\ Len(out) \in Nat /\ Len(rest) \in Nat
      /\ SubSeq(s, 1, Len(out)) = out /\ left = rest
  BY <1>5, <1>6, Halves
<1>8. IsPrefix(out, s)
  <2>1. SubSeq(out, 1, Len(out)) = out
    BY <1>5, SubSeqFull
  <2>2. Len(out) <= Len(s)
    BY <1>7
  <2> QED
    BY <1>7, <2>1, <2>2 DEF IsPrefix
<1> HIDE DEF left
<1> DEFINE Big == Len(left) >= PrefixLen /\ n > MaxSize(r.kind)
           Open == Len(left) < PrefixLen \/ Len(left) < PrefixLen + n
           Eof == AtEOF(r) = CASE r.tooLarge -> "ErrTooLarge" [] left = <<>> -> "EOF"
                               [] OTHER -> "ErrUnexpectedEOF"
           Goal == r.tooLarge = Big /\ (r.tooLarge \/ Open) /\ Eof
<1>9. ASSUME InPrefix(r, rest) PROVE Goal
  <2>1. r.tooLarge = FALSE /\ r.n = Unknown /\ left = r.held /\ Len(r.held) < PrefixLen
    BY <1>3, <1>7, <1>9 DEF InPrefix
  <2> HIDE DEF n
  <2>2. ~(Len(left) >= PrefixLen)
    BY <1>3, <1>4, <2>1
  <2>3. Eof
    BY <2>1 DEF AtEOF
  <2>4. Big = FALSE /\ Open
    BY <2>1, <2>2
  <2> HIDE DEF Big, Open, Eof
  <2> QED
    BY <2>1, <2>3, <2>4
<1>10. ASSUME InBody(r, rest), Len(r.held) < r.next, r.next <= r.n PROVE Goal
  <2>1. PICK pre : States(r.kind, pre, r.n) /\ rest = pre \o r.held
    BY <1>10 DEF InBody
  <2>2. r.tooLarge = FALSE /\ r.n \in 0 .. MaxSize(r.kind) /\ pre \in B /\ Len(pre) = PrefixLen
        /\ Declared(r.kind, pre) = r.n
    BY <1>3, <1>10, <2>1 DEF InBody, States
  <2>3. Len(left) = PrefixLen + Len(r.held) /\ SubSeq(left, 1, PrefixLen) = pre
    <3> DEFINE h == r.held
    <3>1. h \in Seq(Octets) /\ pre \in Seq(Octets) /\ left = pre \o h
      BY <1>3, <1>7, <2>1, <2>2
    <3> HIDE DEF h
    <3>2. Len(left) = Len(pre) + Len(h) /\ SubSeq(left, 1, Len(pre)) = pre
      BY <3>1, Halves
    <3> QED
      BY <2>2, <3>2 DEF h
  <2>4. n = r.n /\ MaxSize(r.kind) \in Nat
    BY <1>3, <2>2, <2>3, LengthFacts
  <2> HIDE DEF n
  <2>5. n <= MaxSize(r.kind) /\ Len(left) < PrefixLen + n /\ Len(left) # 0 /\ r.n # Unknown
        /\ ~(n > MaxSize(r.kind))
    BY <1>3, <1>4, <1>10, <2>2, <2>3, <2>4
  <2>6. left # <<>>
    BY <2>5
  <2>7. Eof
    BY <2>2, <2>5, <2>6 DEF AtEOF
  <2>8. Big = FALSE /\ Open
    BY <2>5
  <2> HIDE DEF Big, Open, Eof
  <2> QED
    BY <2>2, <2>7, <2>8
<1>11. ASSUME Refused(r, rest) PROVE Goal
  <2>1. PICK pre \in B, tail \in B : Len(pre) = PrefixLen /\ Declared(r.kind, pre) > MaxSize(r.kind)
                                     /\ rest = pre \o tail
    BY <1>11 DEF Refused
  <2>2. r.tooLarge = TRUE
    BY <1>3, <1>11 DEF Refused
  <2>3. Len(left) = PrefixLen + Len(tail) /\ SubSeq(left, 1, PrefixLen) = pre /\ Len(tail) \in Nat
    BY <1>7, <2>1, Halves
  <2>4. n > MaxSize(r.kind) /\ Len(left) >= PrefixLen
    <3>1. n > MaxSize(r.kind)
      BY <2>1, <2>3
    <3> HIDE DEF n
    <3> QED
      BY <1>4, <2>3, <3>1
  <2> HIDE DEF n
  <2>5. Eof
    BY <2>2 DEF AtEOF
  <2>6. Big = TRUE
    BY <2>4
  <2> HIDE DEF Big, Open, Eof
  <2> QED
    BY <2>2, <2>5, <2>6
<1>12. Goal
  <2> HIDE DEF Goal
  <2> QED
    BY <1>2, <1>9, <1>10, <1>11 DEF RestOK
<1>13. r.cap <= Max({PrefixLen, 2 * GrowChunk, 4 * Arrived(r)})
  BY CapHolds
<1>14. out = FlattenSeq([i \in DOMAIN r.got |-> AppendFrame(r.kind, r.got[i])])
  BY DEF out, Out, Frames
<1> QED
  BY <1>8, <1>12, <1>13, <1>14 DEF ReaderRule, left
-----------------------------------------------------------------------------
(***************************************************************************)
(* The conversions together: whichever one runs, its input is made of its  *)
(* elements, and its state is in proportion to its input.                  *)
(***************************************************************************)
ConversionInv ==
  /\ alg = "escape" => in \in Seq(KeyBytes) /\ EscapeOK(in, st)
  /\ alg = "decode" => in \in Seq(Units) /\ DecoderOK(in, st)
  /\ alg = "encode" => in \in Seq(Bytes) /\ EncoderOK(in, st)
  /\ alg = "destination" => in \in Seq(Characters)
  /\ alg \in Kinds => in \in Seq(Octets) /\ ReaderOK(in, st)
  /\ alg = "packet" => in \in Seq(Nat)
  /\ alg = "seal" => StreamsOK(st)
  /\ alg = "backoff" => in \in Seq(Calls) /\ BackoffOK(in, st)

(* A piece is a sequence of its elements. *)
LEMMA PieceType ==
  ASSUME NEW S, NEW p \in Pieces(S)
  PROVE  p \in Seq(S)
<1>1. PICK m \in 0 .. ReadBuf : p \in [1 .. m -> S]
  BY DEF Pieces, BoundedSeq, SeqOf
<1>2. m \in Nat
  BY CodecsAssumption
<1> QED
  BY <1>1, <1>2

(* An input, and one more piece. *)
LEMMA InputGrows ==
  ASSUME NEW S, NEW x \in Seq(S), NEW p \in Seq(S)
  PROVE  x \o p \in Seq(S)
BY ConcatProperties

(* Each conversion starts as it should. *)
LEMMA ConversionInit == Init => ConversionInv
<1> SUFFICES ASSUME Init PROVE ConversionInv
  OBVIOUS
<1> DEFINE none == <<>>
<1>1. in = none /\ st = Starts[alg]
  BY DEF Init
<1>2. \A S : none \in Seq(S)
  OBVIOUS
<1>3. /\ Starts["escape"] = EscapeInit /\ Starts["decode"] = DecoderInit
      /\ Starts["encode"] = EncoderInit /\ Starts["frame"] = ReaderInit("frame")
      /\ Starts["message"] = ReaderInit("message") /\ Starts["seal"] = StreamsInit
      /\ Starts["backoff"] = BackoffInit
  BY DEF Starts
<1>4. /\ EscapeOK(none, EscapeInit) /\ DecoderOK(none, DecoderInit)
      /\ EncoderOK(none, EncoderInit) /\ BackoffOK(none, BackoffInit) /\ StreamsOK(StreamsInit)
  BY EscapeHolds, DecoderHolds, EncoderHolds, BackoffHolds, SealHolds
<1>5. \A k \in Kinds : ReaderOK(none, ReaderInit(k))
  BY ReaderStarts
<1> HIDE DEF none
<1>6. alg \in Kinds => ReaderOK(in, st)
  BY <1>1, <1>3, <1>5 DEF Kinds
<1> QED
  BY <1>1, <1>2, <1>3, <1>4, <1>6 DEF ConversionInv

(* Each call keeps it. *)
LEMMA ConversionStep == ConversionInv /\ [Next]_vars => ConversionInv'
<1> SUFFICES ASSUME ConversionInv, [Next]_vars PROVE ConversionInv'
  OBVIOUS
<1>1. CASE Filters
  <2>1. PICK p \in Pieces(KeyBytes) : Given("escape", p) /\ st' = filter(st, p)
    BY <1>1 DEF Filters
  <2>2. p \in Seq(KeyBytes) /\ alg = "escape" /\ alg' = alg /\ in' = in \o p
    BY <2>1, PieceType DEF Given
  <2>3. in \in Seq(KeyBytes) /\ EscapeOK(in, st)
    BY <2>2 DEF ConversionInv
  <2>4. in' \in Seq(KeyBytes)
    BY <2>2, <2>3, InputGrows
  <2>5. EscapeOK(in \o p, filter(st, p))
    BY <2>2, <2>3, FilterRounds
  <2>6. EscapeOK(in', st')
    BY <2>1, <2>2, <2>5
  <2> QED
    BY <2>2, <2>4, <2>6 DEF ConversionInv, Kinds
<1>2. CASE Decodes
  <2>1. PICK p \in Pieces(Units) : Given("decode", p) /\ st' = decode(st, p)
    BY <1>2 DEF Decodes
  <2>2. p \in Seq(Units) /\ alg = "decode" /\ alg' = alg /\ in' = in \o p
    BY <2>1, PieceType DEF Given
  <2>3. in \in Seq(Units) /\ DecoderOK(in, st)
    BY <2>2 DEF ConversionInv
  <2>4. in' \in Seq(Units)
    BY <2>2, <2>3, InputGrows
  <2>5. DecoderOK(in \o p, decode(st, p))
    BY <2>2, <2>3, DecodeRounds
  <2>6. DecoderOK(in', st')
    BY <2>1, <2>2, <2>5
  <2> QED
    BY <2>2, <2>4, <2>6 DEF ConversionInv, Kinds
<1>3. CASE EncodesBytes
  <2>1. PICK p \in Pieces(Bytes) : Given("encode", p) /\ st' = encode(st, p)
    BY <1>3 DEF EncodesBytes
  <2>2. p \in Seq(Bytes) /\ alg = "encode" /\ alg' = alg /\ in' = in \o p
    BY <2>1, PieceType DEF Given
  <2>3. in \in Seq(Bytes) /\ EncoderOK(in, st)
    BY <2>2 DEF ConversionInv
  <2>4. in' \in Seq(Bytes)
    BY <2>2, <2>3, InputGrows
  <2>5. EncoderOK(in \o p, encode(st, p))
    BY <2>2, <2>3, EncodeRounds
  <2>6. EncoderOK(in', st')
    BY <2>1, <2>2, <2>5
  <2> QED
    BY <2>2, <2>4, <2>6 DEF ConversionInv, Kinds
<1>4. CASE Parses
  <2>1. PICK c \in Characters : Given("destination", <<c>>)
    BY <1>4 DEF Parses
  <2>2. <<c>> \in Seq(Characters) /\ alg = "destination" /\ alg' = alg /\ in' = in \o <<c>>
    BY <2>1 DEF Given
  <2>3. in \in Seq(Characters)
    BY <2>2 DEF ConversionInv
  <2>4. in' \in Seq(Characters)
    BY <2>2, <2>3, InputGrows
  <2> QED
    BY <2>2, <2>4 DEF ConversionInv, Kinds
<1>5. CASE Receives
  <2>1. PICK a \in Kinds, b \in Octets : Given(a, <<b>>) /\ st' = ReadByte(st, b)
    BY <1>5 DEF Receives, Kinds, Octets
  <2>2. <<b>> \in Seq(Octets) /\ alg = a /\ alg' = alg /\ in' = in \o <<b>>
    BY <2>1 DEF Given
  <2>3. in \in Seq(Octets) /\ ReaderOK(in, st)
    BY <2>2 DEF ConversionInv
  <2>4. in' \in Seq(Octets)
    BY <2>2, <2>3, InputGrows
  <2>5. ReaderOK(in \o <<b>>, ReadByte(st, b))
    BY <2>3, ByteKeeps
  <2>6. ReaderOK(in', st')
    BY <2>1, <2>2, <2>5
  <2> QED
    BY <2>2, <2>4, <2>6 DEF ConversionInv, Kinds
<1>6. CASE Packs
  <2>1. PICK b \in 0 .. Digit : Given("packet", <<b>>)
    BY <1>6 DEF Packs
  <2>2. b \in Nat
    BY WireAssumption
  <2>3. <<b>> \in Seq(Nat) /\ alg = "packet" /\ alg' = alg /\ in' = in \o <<b>>
    BY <2>1, <2>2 DEF Given
  <2>4. in \in Seq(Nat)
    BY <2>3 DEF ConversionInv
  <2>5. in' \in Seq(Nat)
    BY <2>3, <2>4, InputGrows
  <2> QED
    BY <2>3, <2>5 DEF ConversionInv, Kinds
<1>7. CASE Seals
  <2>1. PICK d \in Directions : Given("seal", <<d>>) /\ ~Spent(st[d].nonce) /\ st' = Seal(st, d)
    BY <1>7 DEF Seals
  <2>2. alg = "seal" /\ alg' = alg
    BY <2>1 DEF Given
  <2>3. StreamsOK(st)
    BY <2>2 DEF ConversionInv
  <2>4. StreamsOK(Seal(st, d))
    BY <2>1, <2>3, SealKeeps
  <2>5. StreamsOK(st')
    BY <2>1, <2>4
  <2> QED
    BY <2>2, <2>5 DEF ConversionInv, Kinds
<1>8. CASE Reconnects
  <2>1. PICK x \in Calls : Given("backoff", <<x>>) /\ st' = Asks(st, x)
    BY <1>8 DEF Reconnects, Calls
  <2>2. <<x>> \in Seq(Calls) /\ alg = "backoff" /\ alg' = alg /\ in' = in \o <<x>>
    BY <2>1 DEF Given
  <2>3. in \in Seq(Calls) /\ BackoffOK(in, st)
    BY <2>2 DEF ConversionInv
  <2>4. in' \in Seq(Calls)
    BY <2>2, <2>3, InputGrows
  <2>5. BackoffOK(Append(in, x), Asks(st, x))
    BY <2>3, AskKeeps
  <2>6. Append(in, x) = in \o <<x>>
    BY <2>3, AppendIsConcat
  <2>7. BackoffOK(in', st')
    BY <2>1, <2>2, <2>5, <2>6
  <2> QED
    BY <2>2, <2>4, <2>7 DEF ConversionInv, Kinds
<1>9. CASE UNCHANGED vars
  BY <1>9 DEF ConversionInv, vars
<1> QED
  BY <1>1, <1>2, <1>3, <1>4, <1>5, <1>6, <1>7, <1>8, <1>9 DEF Next

(* Whatever the pieces, each conversion's state is in proportion to the    *)
(* input it was given: the invariant both rules follow from.               *)
THEOREM ConversionsInvariant == Spec => []ConversionInv
<1> QED
  BY ConversionInit, ConversionStep, PTL DEF Spec

(* However text is cut into calls, escape.go's filter, the Windows         *)
(* console's decoder and encoder and the command line's parser give what   *)
(* their rule gives for the whole text.                                    *)
THEOREM TextTheorem == Spec => []TextFollowsRule
<1>1. ASSUME ConversionInv PROVE TextFollowsRule
  <2>1. CASE alg = "escape"
    <3>1. EscapeRule(in, st)
      BY <1>1, <2>1, EscapeHolds DEF ConversionInv
    <3> QED
      BY <2>1, <3>1 DEF TextFollowsRule
  <2>2. CASE alg = "decode"
    <3>1. DecoderRule(in, st)
      BY <1>1, <2>2, DecoderHolds DEF ConversionInv
    <3> QED
      BY <2>2, <3>1 DEF TextFollowsRule
  <2>3. CASE alg = "encode"
    <3>1. EncoderRule(in, st)
      BY <1>1, <2>3, EncoderHolds DEF ConversionInv
    <3> QED
      BY <2>3, <3>1 DEF TextFollowsRule
  <2>4. CASE alg = "destination"
    <3>1. ArgumentsRule(in)
      BY <1>1, <2>4, ArgumentsHold DEF ConversionInv
    <3> QED
      BY <2>4, <3>1 DEF TextFollowsRule
  <2>5. CASE alg \notin {"escape", "decode", "encode", "destination"}
    BY <2>5 DEF TextFollowsRule
  <2> QED
    BY <2>1, <2>2, <2>3, <2>4, <2>5
<1> QED
  BY <1>1, ConversionsInvariant, PTL

(* Whatever arrives, wire's readers find the bodies that were written,     *)
(* with a buffer in proportion to them; AppendPacket keeps the payload;    *)
(* seal never repeats a nonce; and backoff's delays stay in bounds.        *)
THEOREM WireTheorem == Spec => []WireFollowsRule
<1>1. ASSUME ConversionInv PROVE WireFollowsRule
  <2>1. CASE alg \in Kinds
    <3>1. ReaderRule(in, st)
      BY <1>1, <2>1, ReaderHolds DEF ConversionInv
    <3> QED
      BY <2>1, <3>1 DEF WireFollowsRule, Kinds
  <2>2. CASE alg = "packet"
    <3>1. PacketRule(in)
      BY <1>1, <2>2, PacketHolds DEF ConversionInv
    <3> QED
      BY <2>2, <3>1 DEF WireFollowsRule
  <2>3. CASE alg = "seal"
    <3>1. NonceRule(st)
      BY <1>1, <2>3, SealHolds DEF ConversionInv
    <3> QED
      BY <2>3, <3>1 DEF WireFollowsRule
  <2>4. CASE alg = "backoff"
    <3>1. BackoffRule(in, st)
      BY <1>1, <2>4, BackoffHolds DEF ConversionInv
    <3> QED
      BY <2>4, <3>1 DEF WireFollowsRule
  <2>5. CASE alg \notin Kinds \cup {"packet", "seal", "backoff"}
    BY <2>5 DEF WireFollowsRule, Kinds
  <2> QED
    BY <2>1, <2>2, <2>3, <2>4, <2>5
<1> QED
  BY <1>1, ConversionsInvariant, PTL
=============================================================================
