-------------------------- MODULE WriteBatchProofs --------------------------
(***************************************************************************)
(* Proofs about WriteBatch, for any batches and any radix of at least 2.   *)
(*                                                                         *)
(* The running totals and the concatenations of the model are recursive    *)
(* functions.  Induction takes the form of a statement about a set of      *)
(* naturals, a first-order consequence of the well-foundedness of <; from  *)
(* it follow that the functions exist and that what is left after k bytes  *)
(* is the batch from byte k + 1 on, frame by frame.                        *)
(***************************************************************************)
EXTENDS WriteBatch, WireProofs, SequenceTheorems, WellFoundedInduction, TLAPS

(* Induction                                                               *)

\* A set of naturals that is not empty has a least element.
LEMMA LeastElement ==
  ASSUME NEW T \in SUBSET Nat, T # {}
  PROVE  \E x \in T : \A y \in T : ~(y < x)
<1> DEFINE R == OpToRel(<, Nat)
<1>1. IsWellFoundedOn(R, Nat)
  BY NatLessThanWellFounded, Zenon
<1>2. \A x, y \in Nat : <<x, y>> \in R <=> x < y
  BY DEF OpToRel
<1> HIDE DEF R
<1>3. \E x \in T : \A y \in T : ~(<<y, x>> \in R)
  BY <1>1, WFMin
<1> QED
  BY <1>2, <1>3

\* A set with 0 and with the successor of each of its elements has all naturals.
LEMMA Induction ==
  ASSUME NEW T \in SUBSET Nat, 0 \in T, \A n \in T : n + 1 \in T
  PROVE  \A n \in Nat : n \in T
<1> SUFFICES ASSUME NEW m \in Nat, m \notin T
             PROVE  FALSE
  OBVIOUS
<1> DEFINE U == {n \in Nat : n \notin T}
<1>1. U \in SUBSET Nat /\ U # {}
  OBVIOUS
<1> HIDE DEF U
<1>2. PICK x \in U : \A y \in U : ~(y < x)
  BY <1>1, LeastElement
<1>3. x \in Nat /\ x \notin T
  BY DEF U
<1>4. x # 0
  BY <1>3
<1>5. x - 1 \in Nat /\ x - 1 < x
  BY <1>3, <1>4
<1>6. x - 1 \in T
  BY <1>2, <1>5 DEF U
<1>7. (x - 1) + 1 \in T
  BY <1>6
<1> QED
  BY <1>3, <1>7

\* The same up to a bound.
LEMMA InductionUpTo ==
  ASSUME NEW N \in Nat, NEW T, 0 \in T,
         \A i \in 1..N : i - 1 \in T => i \in T
  PROVE  \A i \in 0..N : i \in T
<1> DEFINE U == {n \in Nat : n <= N => n \in T}
<1>1. 0 \in U
  OBVIOUS
<1>2. ASSUME NEW n \in U
      PROVE  n + 1 \in U
  <2>1. n \in Nat /\ (n <= N => n \in T)
    OBVIOUS
  <2>2. ASSUME n + 1 <= N
        PROVE  n + 1 \in T
    <3>1. n + 1 \in 1..N /\ (n + 1) - 1 = n
      BY <2>1, <2>2
    <3> QED
      BY <2>1, <2>2, <3>1
  <2> QED
    BY <2>1, <2>2
<1>3. U \in SUBSET Nat
  OBVIOUS
<1>4. \A n \in Nat : n \in U
  <2> HIDE DEF U
  <2> QED
    BY <1>1, <1>2, <1>3, Induction
<1> QED
  BY <1>4

\* A recursion with N steps: from an index and the last value to the next one.
StepFunctions(N, S) == [(1..N) \X S -> S]
Solves(f, base, g, N, S) ==
  /\ f \in [0..N -> S]
  /\ f[0] = base
  /\ \A i \in 1..N : f[i] = g[<<i, f[i - 1]>>]

\* The values of a recursion exist.
LEMMA Recursion ==
  ASSUME NEW S, NEW base \in S, NEW N \in Nat, NEW g \in StepFunctions(N, S)
  PROVE  \E f : Solves(f, base, g, N, S)
<1> USE DEF StepFunctions
<1> DEFINE Sol(n) == {f \in [0..n -> S] :
                        f[0] = base /\ \A i \in 1..n : f[i] = g[<<i, f[i - 1]>>]}
           T == {n \in 0..N : Sol(n) # {}}
<1>1. 0 \in T
  <2> DEFINE f == [i \in 0..0 |-> base]
  <2>1. f \in Sol(0)
    OBVIOUS
  <2> QED
    BY <2>1
<1>2. ASSUME NEW n \in 1..N, n - 1 \in T
      PROVE  n \in T
  <2>1. PICK f \in [0..(n - 1) -> S] :
          f[0] = base /\ \A i \in 1..(n - 1) : f[i] = g[<<i, f[i - 1]>>]
    BY <1>2
  <2> DEFINE h == [i \in 0..n |-> IF i = n THEN g[<<n, f[n - 1]>>] ELSE f[i]]
  <2>2. f[n - 1] \in S
    OBVIOUS
  <2>3. g[<<n, f[n - 1]>>] \in S
    BY <2>2
  <2>4. h \in [0..n -> S]
    BY <2>3
  <2>5. h[0] = base
    BY <2>1
  <2>6. ASSUME NEW i \in 1..n
        PROVE  h[i] = g[<<i, h[i - 1]>>]
    <3>1. h[i - 1] = f[i - 1]
      OBVIOUS
    <3>2. CASE i = n
      <4>1. h[n] = g[<<n, f[n - 1]>>]
        OBVIOUS
      <4> QED
        BY <3>1, <3>2, <4>1
    <3>3. CASE i # n
      BY <2>1, <3>1, <3>3
    <3> QED
      BY <3>2, <3>3
  <2>7. h \in Sol(n)
    <3> HIDE DEF h
    <3> QED
      BY <2>4, <2>5, <2>6
  <2>8. n \in 0..N /\ Sol(n) # {}
    <3> HIDE DEF Sol, h
    <3> QED
      BY <2>7
  <2> QED
    BY <2>8
<1>3. N \in T
  <2> HIDE DEF T
  <2> QED
    BY <1>1, <1>2, InductionUpTo
<1> QED
  BY <1>3 DEF Solves

-----------------------------------------------------------------------------
(* Running totals                                                          *)

Frames ==
  {f \in [header : Seq(Nat), payload : Seq(Nat)] : Len(f.header) = HEADER_SIZE}

\* Each frame adds its size to the bytes before it.
LEMMA SkippedSums ==
  ASSUME NEW b \in Seq(Frames)
  PROVE  /\ Skipped(b) \in [0..Len(b) -> Nat]
         /\ Skipped(b)[0] = 0
         /\ \A i \in 1..Len(b) : Skipped(b)[i] = Skipped(b)[i - 1] + size(b[i])
<1> DEFINE N == Len(b)
           g == [p \in (1..N) \X Nat |-> p[2] + size(b[p[1]])]
           h == Skipped(b)
<1>1. N \in Nat /\ \A i \in 1..N : size(b[i]) \in Nat
  BY DEF size, Frames, HEADER_SIZE
<1>2. g \in StepFunctions(N, Nat)
  BY <1>1 DEF StepFunctions
<1>2a. 0 \in Nat
  OBVIOUS
<1>3. PICK f : Solves(f, 0, g, N, Nat)
  <2> HIDE DEF g, N
  <2> QED
    BY <1>1, <1>2, <1>2a, Recursion, Zenon
<1>4. ASSUME NEW i \in 1..N
      PROVE  f[i - 1] \in Nat /\ f[i] = f[i - 1] + size(b[i])
  <2>1. f[i - 1] \in Nat /\ f[i] = g[<<i, f[i - 1]>>]
    <3> HIDE DEF g, N
    <3> QED
      BY <1>1, <1>3 DEF Solves
  <2> QED
    BY <2>1
<1>5. f = [i \in 0..N |-> IF i = 0 THEN 0 ELSE f[i - 1] + size(b[i])]
  BY <1>1, <1>3, <1>4 DEF Solves
<1>6. h = [i \in 0..N |-> IF i = 0 THEN 0 ELSE h[i - 1] + size(b[i])]
  BY <1>5 DEF Skipped
<1> HIDE DEF h, g
<1>7. h[0] = 0 /\ \A i \in 1..N : h[i] = h[i - 1] + size(b[i])
  BY <1>1, <1>6
<1>8. \A i \in 0..N : h[i] \in Nat
  <2> DEFINE T == {i \in 0..N : h[i] \in Nat}
  <2>1. 0 \in T
    BY <1>1, <1>7
  <2>2. ASSUME NEW i \in 1..N, i - 1 \in T
        PROVE  i \in T
    BY <1>1, <1>7, <2>2
  <2> HIDE DEF T
  <2>3. \A i \in 0..N : i \in T
    BY <1>1, <2>1, <2>2, InductionUpTo
  <2> QED
    BY <2>3 DEF T
<1>9. h \in [0..N -> Nat]
  BY <1>6, <1>8
<1> QED
  BY <1>7, <1>9 DEF h

-----------------------------------------------------------------------------
(* FlattenSeq                                                              *)

\* f[i] is the concatenation of the first i sequences of ss.
IsConcat(f, ss, S) ==
  /\ f \in [0..Len(ss) -> Seq(S)]
  /\ f[0] = <<>>
  /\ \A i \in 1..Len(ss) : f[i] = f[i - 1] \o ss[i]

\* The concatenations of the first sequences exist, and FlattenSeq is the last.
LEMMA ConcatExists ==
  ASSUME NEW S, NEW ss \in Seq(Seq(S))
  PROVE  \E f : IsConcat(f, ss, S)
<1> DEFINE N == Len(ss)
           g == [p \in (1..N) \X Seq(S) |-> p[2] \o ss[p[1]]]
<1>1. N \in Nat /\ \A i \in 1..N : ss[i] \in Seq(S)
  OBVIOUS
<1>2. ASSUME NEW p \in (1..N) \X Seq(S)
      PROVE  p[2] \o ss[p[1]] \in Seq(S)
  <2>1. p[2] \in Seq(S) /\ ss[p[1]] \in Seq(S)
    BY <1>1
  <2> QED
    BY <2>1, ConcatProperties
<1>3. g \in StepFunctions(N, Seq(S))
  BY <1>2 DEF StepFunctions
<1>4. <<>> \in Seq(S)
  OBVIOUS
<1>5. PICK f : Solves(f, <<>>, g, N, Seq(S))
  <2> HIDE DEF g, N
  <2> QED
    BY <1>1, <1>3, <1>4, Recursion, Zenon
<1>6. ASSUME NEW i \in 1..N
      PROVE  f[i] = f[i - 1] \o ss[i]
  <2>1. f[i - 1] \in Seq(S) /\ f[i] = g[<<i, f[i - 1]>>]
    <3> HIDE DEF g, N
    <3> QED
      BY <1>1, <1>5 DEF Solves
  <2> QED
    BY <2>1
<1> QED
  BY <1>5, <1>6 DEF IsConcat, Solves

\* ss and tt begin with the same n sequences.
Agree(ss, tt, n) ==
  n <= Len(ss) /\ n <= Len(tt) /\ \A i \in 1..n : ss[i] = tt[i]

\* There is one such function only, even along a common part.
LEMMA ConcatUnique ==
  ASSUME NEW S, NEW ss \in Seq(Seq(S)), NEW tt \in Seq(Seq(S)),
         NEW n \in Nat, Agree(ss, tt, n),
         NEW f, IsConcat(f, ss, S), NEW g, IsConcat(g, tt, S)
  PROVE  \A i \in 0..n : f[i] = g[i]
<1> DEFINE T == {i \in 0..n : f[i] = g[i]}
<1>1. 0 \in T
  BY DEF IsConcat
<1>2. ASSUME NEW i \in 1..n, i - 1 \in T
      PROVE  i \in T
  <2>1. i \in 1..Len(ss) /\ i \in 1..Len(tt) /\ ss[i] = tt[i]
    BY DEF Agree
  <2>2. f[i] = f[i - 1] \o ss[i] /\ g[i] = g[i - 1] \o tt[i]
    BY <2>1 DEF IsConcat
  <2>3. f[i - 1] = g[i - 1]
    BY <1>2
  <2>4. f[i] = g[i]
    BY <2>1, <2>2, <2>3
  <2> QED
    BY <2>4
<1> HIDE DEF T
<1>3. \A i \in 0..n : i \in T
  BY <1>1, <1>2, InductionUpTo
<1> QED
  BY <1>3 DEF T

\* FlattenSeq, which the library defines by a recursion of its own, is that
\* function's last value.
LEMMA FlattenIsConcat ==
  ASSUME NEW S, NEW ss \in Seq(Seq(S)), NEW f, IsConcat(f, ss, S)
  PROVE  FlattenSeq(ss) = f[Len(ss)] /\ FlattenSeq(ss) \in Seq(S)
<1> DEFINE N == Len(ss)
           Fixed(h) == h = [i \in 1..N |->
                              IF i = 1 THEN ss[i] ELSE h[i - 1] \o ss[i]]
           h == CHOOSE h : Fixed(h)
<1>1. N \in Nat /\ f[N] \in Seq(S)
  BY DEF IsConcat
<1>2. CASE N = 0
  <2>1. ss = <<>>
    BY <1>2
  <2> QED
    BY <1>2, <2>1 DEF FlattenSeq, IsConcat
<1>3. CASE N # 0
  <2> DEFINE k == [i \in 1..N |-> f[i]]
  <2>1. ASSUME NEW i \in 1..N
        PROVE  f[i] = IF i = 1 THEN ss[i] ELSE k[i - 1] \o ss[i]
    <3>1. f[i] = f[i - 1] \o ss[i] /\ ss[i] \in Seq(S)
      BY DEF IsConcat
    <3>2. CASE i = 1
      <4>1. f[i - 1] = <<>>
        <5>1. i - 1 = 0
          BY <3>2
        <5> QED
          BY <5>1 DEF IsConcat
      <4>2. <<>> \o ss[i] = ss[i]
        BY <3>1, ConcatEmptySeq
      <4> QED
        BY <3>1, <3>2, <4>1, <4>2
    <3>3. CASE i # 1
      <4>1. k[i - 1] = f[i - 1]
        BY <3>3
      <4> QED
        BY <3>1, <3>3, <4>1
    <3> QED
      BY <3>2, <3>3
  <2>2. Fixed(k)
    BY <2>1
  <2>3. Fixed(h)
    <3> HIDE DEF Fixed, k
    <3> QED
      BY <2>2
  <2>4. FlattenSeq(ss) = h[N]
    BY <1>3 DEF FlattenSeq
  <2> HIDE DEF h
  <2>5. \A i \in 1..N : h[i] = IF i = 1 THEN ss[i] ELSE h[i - 1] \o ss[i]
    BY <2>3
  <2> DEFINE T == {i \in 0..N : i # 0 => h[i] = f[i]}
  <2>6. 0 \in T
    BY <1>1
  <2>7. ASSUME NEW i \in 1..N, i - 1 \in T
        PROVE  i \in T
    <3>1. h[i] = f[i]
      <4>1. CASE i = 1
        BY <2>1, <2>5, <4>1
      <4>2. CASE i # 1
        <5>1. h[i - 1] = f[i - 1] /\ k[i - 1] = f[i - 1]
          BY <2>7, <4>2
        <5> HIDE DEF k
        <5>2. f[i] = k[i - 1] \o ss[i] /\ h[i] = h[i - 1] \o ss[i]
          BY <2>1, <2>5, <4>2
        <5> QED
          BY <5>1, <5>2
      <4> QED
        BY <4>1, <4>2
    <3> QED
      BY <3>1
  <2>8. N \in T
    <3> HIDE DEF T, N
    <3>1. \A i \in 0..N : i \in T
      BY <1>1, <2>6, <2>7, InductionUpTo
    <3> QED
      BY <1>1, <3>1
  <2> QED
    BY <1>1, <1>3, <2>4, <2>8
<1> QED
  BY <1>2, <1>3

\* Nothing flattens to nothing.
LEMMA FlattenEmpty == FlattenSeq(<<>>) = <<>>
BY DEF FlattenSeq

\* A sequence at the end of the list comes at the end of the concatenation.
LEMMA FlattenAppend ==
  ASSUME NEW S, NEW ss \in Seq(Seq(S)), NEW x \in Seq(S)
  PROVE  FlattenSeq(ss \o <<x>>) = FlattenSeq(ss) \o x
<1> DEFINE tt == ss \o <<x>>
           n == Len(ss)
<1>1. /\ tt \in Seq(Seq(S)) /\ Len(tt) = n + 1 /\ n \in Nat
      /\ tt[n + 1] = x /\ \A i \in 1..n : ss[i] = tt[i]
  OBVIOUS
<1> HIDE DEF tt
<1>2. PICK f : IsConcat(f, ss, S)
  BY ConcatExists
<1>3. PICK g : IsConcat(g, tt, S)
  BY <1>1, ConcatExists
<1>4. f[n] = g[n]
  <2>1. \A i \in 0..n : f[i] = g[i]
    <3>1. n \in Nat /\ tt \in Seq(Seq(S)) /\ Agree(ss, tt, n)
      BY <1>1 DEF Agree
    <3> HIDE DEF n
    <3> QED
      BY <1>2, <1>3, <3>1, ConcatUnique
  <2> QED
    BY <1>1, <2>1
<1>5. g[n + 1] = g[n] \o x
  <2>1. n + 1 \in 1..Len(tt) /\ (n + 1) - 1 = n
    BY <1>1
  <2> QED
    BY <1>1, <1>3, <2>1 DEF IsConcat
<1>6. FlattenSeq(tt) = g[n + 1] /\ FlattenSeq(ss) = f[n]
  BY <1>1, <1>2, <1>3, FlattenIsConcat
<1> QED
  BY <1>4, <1>5, <1>6 DEF tt

\* The concatenation of sequences over S is a sequence over S.
LEMMA FlattenTyped ==
  ASSUME NEW S, NEW ss \in Seq(Seq(S))
  PROVE  FlattenSeq(ss) \in Seq(S)
<1>1. PICK f : IsConcat(f, ss, S)
  BY ConcatExists
<1> QED
  BY <1>1, FlattenIsConcat

-----------------------------------------------------------------------------
(* What is left after k bytes                                              *)

\* The slices ss are the bytes c without the first k of them.
LeftOf(ss, c, k) ==
  /\ ss \in Seq(Seq(Nat))
  /\ \A i \in 1..Len(ss) : ss[i] # <<>>
  /\ FlattenSeq(ss) = SubSeq(c, k + 1, Len(c))

\* The bytes of a part behind c that are among the first k.
Offset(c, k) == IF k > Len(c) THEN k - Len(c) ELSE 0

\* What is left of c \o p is what is left of c and what is left of p.
LEMMA SuffixOfConcat ==
  ASSUME NEW c \in Seq(Nat), NEW p \in Seq(Nat), NEW k \in Nat,
         p # <<>>, k < Len(c) + Len(p)
  PROVE  SubSeq(c, k + 1, Len(c)) \o SubSeq(p, Offset(c, k) + 1, Len(p))
           = SubSeq(c \o p, k + 1, Len(c \o p))
<1>0. PICK start \in Nat, n \in Nat, from \in Nat :
        /\ start = Len(c) /\ n = Len(p) /\ n > 0 /\ k < start + n
        /\ from = Offset(c, k)
        /\ from = IF k > start THEN k - start ELSE 0
  <2>1. /\ Len(c) \in Nat /\ Len(p) \in Nat /\ Len(p) > 0 /\ Offset(c, k) \in Nat
        /\ Offset(c, k) = IF k > Len(c) THEN k - Len(c) ELSE 0
    BY DEF Offset
  <2> QED
    BY <2>1, Zenon
<1>1. PICK d \in Seq(Nat) : d = c \o p /\ Len(d) = start + n
  BY <1>0, ConcatProperties
<1>2. PICK sum \in Nat : sum = start + n
  OBVIOUS
<1>3. CASE k >= start
  <2>1. /\ k + 1 \in Len(c) + 1 .. Len(c) + Len(p)
        /\ sum \in Len(c) + 1 .. Len(c) + Len(p)
    BY <1>0, <1>2, <1>3
  <2>2. SubSeq(c \o p, k + 1, sum) = SubSeq(p, (k + 1) - Len(c), sum - Len(c))
    BY <2>1, SubSeqOfConcat2, Zenon
  <2>3. (k + 1) - Len(c) = from + 1 /\ sum - Len(c) = Len(p) /\ sum = Len(d)
    BY <1>0, <1>1, <1>2, <1>3
  <2>4. SubSeq(c, k + 1, Len(c)) = <<>>
    BY <1>0, <1>3, SubSeqEmpty
  <2>5. SubSeq(p, from + 1, Len(p)) \in Seq(Nat)
    OBVIOUS
  <2>6. <<>> \o SubSeq(p, from + 1, Len(p)) = SubSeq(p, from + 1, Len(p))
    BY <2>5, ConcatEmptySeq, Zenon
  <2> QED
    BY <1>0, <1>1, <2>2, <2>3, <2>4, <2>6, Zenon
<1>4. CASE k < start
  <2>1. /\ k + 1 \in 1 .. Len(d) + 1 /\ start \in (k + 1) - 1 .. Len(d)
        /\ sum \in start .. Len(d) /\ k + 1 \in 1 .. Len(c) /\ start \in 1 .. Len(c)
        /\ start + 1 \in Len(c) + 1 .. Len(c) + Len(p)
        /\ sum \in Len(c) + 1 .. Len(c) + Len(p)
    BY <1>0, <1>1, <1>2, <1>4
  <2>2. SubSeq(d, k + 1, start) \o SubSeq(d, start + 1, sum) = SubSeq(d, k + 1, sum)
    BY <2>1, ConcatAdjacentSubSeq, Zenon
  <2>3. SubSeq(c \o p, k + 1, start) = SubSeq(c, k + 1, start)
    BY <2>1, SubSeqOfConcat1, Zenon
  <2>4. SubSeq(c \o p, start + 1, sum) = SubSeq(p, (start + 1) - Len(c), sum - Len(c))
    BY <2>1, SubSeqOfConcat2, Zenon
  <2>5. (start + 1) - Len(c) = from + 1 /\ sum - Len(c) = Len(p) /\ sum = Len(d)
    BY <1>0, <1>1, <1>2, <1>4
  <2> QED
    BY <1>0, <1>1, <2>2, <2>3, <2>4, <2>5, Zenon
<1>5. k >= start \/ k < start
  OBVIOUS
<1> QED
  BY <1>3, <1>4, <1>5, Zenon

\* A header or a payload that follows the bytes c: the slice pushed for it, if
\* any, is what is left of it.
LEMMA PartLeft ==
  ASSUME NEW ss, NEW c \in Seq(Nat), NEW part \in Seq(Nat), NEW k \in Nat,
         LeftOf(ss, c, k)
  PROVE  LeftOf(ss \o PartSlices(part, Len(c), k), c \o part, k)
<1>1. PICK start \in Nat, n \in Nat, from \in Nat :
        /\ start = Len(c) /\ n = Len(part)
        /\ from = IF k > start THEN k - start ELSE 0
  <2>1. /\ Len(c) \in Nat /\ Len(part) \in Nat
        /\ (IF k > Len(c) THEN k - Len(c) ELSE 0) \in Nat
    OBVIOUS
  <2> QED
    BY <2>1, Zenon
<1>2. /\ ss \in Seq(Seq(Nat)) /\ \A i \in 1..Len(ss) : ss[i] # <<>>
      /\ FlattenSeq(ss) = SubSeq(c, k + 1, Len(c))
  BY DEF LeftOf
<1>3. CASE part # <<>> /\ k < start + n
  <2>1. n > 0
    BY <1>1, <1>3
  <2>2. PICK rest \in Seq(Nat) : rest = SubSeq(part, from + 1, Len(part))
    <3>1. SubSeq(part, from + 1, Len(part)) \in Seq(Nat)
      OBVIOUS
    <3> QED
      BY <3>1, Zenon
  <2>3. rest # <<>>
    <3>1. from + 1 <= Len(part)
      BY <1>1, <1>3, <2>1
    <3>2. Len(rest) # 0
      BY <2>2, <3>1
    <3> QED
      BY <3>2
  <2>4. PartSlices(part, Len(c), k) = <<rest>>
    BY <1>1, <1>3, <2>2 DEF PartSlices
  <2>5. FlattenSeq(ss \o <<rest>>) = SubSeq(c \o part, k + 1, Len(c \o part))
    <3>1. FlattenSeq(ss \o <<rest>>) = FlattenSeq(ss) \o rest
      BY <1>2, <2>2, FlattenAppend
    <3>2. SubSeq(c, k + 1, Len(c)) \o SubSeq(part, from + 1, Len(part))
            = SubSeq(c \o part, k + 1, Len(c \o part))
      <4>1. k < Len(c) + Len(part) /\ part # <<>>
        BY <1>1, <1>3
      <4>2. SubSeq(c, k + 1, Len(c)) \o SubSeq(part, Offset(c, k) + 1, Len(part))
              = SubSeq(c \o part, k + 1, Len(c \o part))
        BY <4>1, SuffixOfConcat, Zenon
      <4>3. Offset(c, k) = from
        BY <1>1 DEF Offset
      <4> QED
        BY <4>2, <4>3
    <3> QED
      BY <1>2, <2>2, <3>1, <3>2
  <2>6. /\ ss \o <<rest>> \in Seq(Seq(Nat))
        /\ \A i \in 1..Len(ss \o <<rest>>) : (ss \o <<rest>>)[i] # <<>>
    <3>1. ss \o <<rest>> = Append(ss, rest)
      BY <1>2, <2>2
    <3> QED
      BY <1>2, <2>2, <2>3, <3>1, AppendProperties
  <2> QED
    BY <2>4, <2>5, <2>6 DEF LeftOf
<1>4. CASE ~(part # <<>> /\ k < start + n)
  <2>1. PartSlices(part, Len(c), k) = <<>>
    BY <1>1, <1>4 DEF PartSlices
  <2>2. ss \o <<>> = ss
    BY <1>2
  <2>3. SubSeq(c, k + 1, Len(c)) = SubSeq(c \o part, k + 1, Len(c \o part))
    <3>1. CASE part = <<>>
      BY <3>1, ConcatEmptySeq
    <3>2. CASE k >= start + n
      <4>1. Len(c) < k + 1 /\ Len(c \o part) < k + 1
        BY <1>1, <3>2, ConcatProperties
      <4> QED
        BY <4>1, SubSeqEmpty
    <3> QED
      BY <1>1, <1>4, <3>1, <3>2
  <2> QED
    BY <1>2, <2>1, <2>2, <2>3 DEF LeftOf
<1> QED
  BY <1>3, <1>4

\* The frames of a batch as bytes, and the slices that are pushed for each.
Whole(b) == [i \in 1..Len(b) |-> b[i].header \o b[i].payload]
Pushed(b, k) == [i \in 1..Len(b) |-> FrameSlices(b[i], Skipped(b)[i - 1], k)]

\* The types of a frame; its header is never empty.
LEMMA FrameFacts ==
  ASSUME NEW f \in Frames
  PROVE  /\ f.header \in Seq(Nat) /\ f.payload \in Seq(Nat)
         /\ Len(f.header) = HEADER_SIZE /\ Len(f.payload) \in Nat
         /\ f.header # <<>>
         /\ f.header \o f.payload \in Seq(Nat)
         /\ Len(f.header \o f.payload) = size(f)
<1>1. f.header \in Seq(Nat) /\ f.payload \in Seq(Nat) /\ Len(f.header) = HEADER_SIZE
  BY DEF Frames
<1>2. f.header # <<>>
  <2>1. Len(<<>>) # HEADER_SIZE
    BY DEF HEADER_SIZE
  <2> QED
    BY <1>1, <2>1, Zenon
<1>3. /\ f.header \o f.payload \in Seq(Nat)
      /\ Len(f.header \o f.payload) = Len(f.header) + Len(f.payload)
  BY <1>1, ConcatProperties
<1>4. Len(f.payload) \in Nat
  BY <1>1
<1>5. size(f) = Len(f.header) + Len(f.payload)
  BY <1>1, <1>4 DEF size
<1> QED
  BY <1>1, <1>2, <1>3, <1>4, <1>5, Zenon

\* A part is sent as slices of bytes.
LEMMA PartSlicesTyped ==
  ASSUME NEW part \in Seq(Nat), NEW start \in Nat, NEW k \in Nat
  PROVE  PartSlices(part, start, k) \in Seq(Seq(Nat))
<1> DEFINE from == IF k > start THEN k - start ELSE 0
<1>1. from \in Nat
  OBVIOUS
<1> HIDE DEF from
<1>2. SubSeq(part, from + 1, Len(part)) \in Seq(Nat)
  BY <1>1
<1> DEFINE rest == SubSeq(part, from + 1, Len(part))
<1> HIDE DEF rest
<1>3. <<rest>> \in Seq(Seq(Nat)) /\ <<>> \in Seq(Seq(Nat))
  BY <1>2 DEF rest
<1>4. PartSlices(part, start, k)
        = IF part # <<>> /\ k < start + Len(part) THEN <<rest>> ELSE <<>>
  BY DEF PartSlices, rest, from
<1> QED
  BY <1>3, <1>4

\* The lists that are flattened: frames as bytes, and slices frame by frame.
LEMMA BatchTyped ==
  ASSUME NEW b \in Seq(Frames), NEW k \in Nat
  PROVE  /\ Whole(b) \in Seq(Seq(Nat)) /\ Len(Whole(b)) = Len(b)
         /\ Pushed(b, k) \in Seq(Seq(Seq(Nat))) /\ Len(Pushed(b, k)) = Len(b)
<1>1. ASSUME NEW i \in 1..Len(b)
      PROVE  b[i].header \o b[i].payload \in Seq(Nat)
  <2>1. b[i] \in Frames
    OBVIOUS
  <2> QED
    BY <2>1, FrameFacts
<1>2. ASSUME NEW i \in 1..Len(b)
      PROVE  FrameSlices(b[i], Skipped(b)[i - 1], k) \in Seq(Seq(Nat))
  <2>1. PICK f \in Frames : f = b[i]
    OBVIOUS
  <2>2. PICK st \in Nat : st = Skipped(b)[i - 1]
    <3>1. i - 1 \in 0..Len(b) /\ Skipped(b) \in [0..Len(b) -> Nat]
      BY SkippedSums
    <3>2. Skipped(b)[i - 1] \in Nat
      BY <3>1
    <3> QED
      BY <3>2, Zenon
  <2>3. st + HEADER_SIZE \in Nat
    BY DEF HEADER_SIZE
  <2>4. /\ PartSlices(f.header, st, k) \in Seq(Seq(Nat))
        /\ PartSlices(f.payload, st + HEADER_SIZE, k) \in Seq(Seq(Nat))
    BY <2>3, FrameFacts, PartSlicesTyped
  <2>5. FrameSlices(f, st, k) \in Seq(Seq(Nat))
    BY <2>4, ConcatProperties DEF FrameSlices
  <2> QED
    BY <2>1, <2>2, <2>5
<1>3. Whole(b) \in Seq(Seq(Nat)) /\ Len(Whole(b)) = Len(b)
  BY <1>1 DEF Whole
<1>4. Pushed(b, k) \in Seq(Seq(Seq(Nat))) /\ Len(Pushed(b, k)) = Len(b)
  BY <1>2 DEF Pushed
<1> QED
  BY <1>3, <1>4

\* One frame more.
LEMMA FrameLeft ==
  ASSUME NEW ss, NEW c \in Seq(Nat), NEW f \in Frames, NEW k \in Nat,
         LeftOf(ss, c, k)
  PROVE  /\ LeftOf(ss \o FrameSlices(f, Len(c), k), c \o (f.header \o f.payload), k)
         /\ c \o (f.header \o f.payload) \in Seq(Nat)
         /\ Len(c \o (f.header \o f.payload)) = Len(c) + size(f)
<1> DEFINE h == f.header
           p == f.payload
           hs == PartSlices(h, Len(c), k)
           d == c \o h
           ps == PartSlices(p, Len(d), k)
<1>1. /\ h \in Seq(Nat) /\ p \in Seq(Nat) /\ Len(h) = HEADER_SIZE
      /\ h \o p \in Seq(Nat) /\ Len(h \o p) = size(f)
  BY FrameFacts
<1>2. d \in Seq(Nat) /\ Len(d) = Len(c) + HEADER_SIZE
  BY <1>1, ConcatProperties
<1>3. LeftOf(ss \o hs, d, k)
  BY <1>1, PartLeft
<1>4. LeftOf((ss \o hs) \o ps, d \o p, k)
  <2> HIDE DEF d, hs, p
  <2> QED
    BY <1>1, <1>2, <1>3, PartLeft
<1>5. ss \in Seq(Seq(Nat)) /\ hs \in Seq(Seq(Nat)) /\ ps \in Seq(Seq(Nat))
  <2>1. Len(c) \in Nat /\ Len(d) \in Nat
    BY <1>2
  <2> HIDE DEF d, h, p
  <2> QED
    BY <1>1, <2>1, PartSlicesTyped DEF LeftOf
<1>6. FrameSlices(f, Len(c), k) = hs \o ps
  BY <1>2 DEF FrameSlices
<1>7. (ss \o hs) \o ps = ss \o (hs \o ps)
  <2>1. \A x, y, z \in Seq(Seq(Nat)) : (x \o y) \o z = x \o (y \o z)
    BY ConcatAssociative
  <2> HIDE DEF hs, ps
  <2> QED
    BY <1>5, <2>1, Zenon
<1>8. d \o p = c \o (h \o p)
  <2>1. \A x, y, z \in Seq(Nat) : (x \o y) \o z = x \o (y \o z)
    BY ConcatAssociative
  <2> HIDE DEF h, p
  <2> QED
    BY <1>1, <2>1, Zenon DEF d
<1>9. c \o (h \o p) \in Seq(Nat) /\ Len(c \o (h \o p)) = Len(c) + size(f)
  <2> HIDE DEF h, p
  <2> QED
    BY <1>1, ConcatProperties
<1> QED
  <2> HIDE DEF hs, ps, d
  <2> QED
    BY <1>4, <1>6, <1>7, <1>8, <1>9

\* After each frame, the slices pushed so far are what is left of the bytes so
\* far, and `skipped` is their number.
LEMMA FramesLeft ==
  ASSUME NEW b \in Seq(Frames), NEW k \in Nat,
         NEW c, IsConcat(c, Whole(b), Nat),
         NEW s, IsConcat(s, Pushed(b, k), Seq(Nat))
  PROVE  \A i \in 0..Len(b) : /\ c[i] \in Seq(Nat)
                              /\ Len(c[i]) = Skipped(b)[i]
                              /\ LeftOf(s[i], c[i], k)
<1> DEFINE N == Len(b)
           T == {i \in 0..N : /\ c[i] \in Seq(Nat)
                              /\ Len(c[i]) = Skipped(b)[i]
                              /\ LeftOf(s[i], c[i], k)}
<1>1. N \in Nat /\ Len(Whole(b)) = N /\ Len(Pushed(b, k)) = N
  BY BatchTyped
<1>2. 0 \in T
  <2>1. c[0] = <<>> /\ s[0] = <<>>
    BY DEF IsConcat
  <2>2. Skipped(b)[0] = 0
    BY SkippedSums
  <2>3. SubSeq(<<>>, k + 1, Len(<<>>)) = <<>>
    BY SubSeqEmpty
  <2>4. /\ <<>> \in Seq(Seq(Nat)) /\ <<>> \in Seq(Nat) /\ Len(<<>>) = 0
        /\ \A i \in 1..Len(<<>>) : <<>>[i] # <<>>
    OBVIOUS
  <2>5. LeftOf(<<>>, <<>>, k)
    BY <2>3, <2>4, FlattenEmpty, Zenon DEF LeftOf
  <2>6. 0 \in 0..N
    BY <1>1
  <2> QED
    BY <2>1, <2>2, <2>4, <2>5, <2>6, Zenon
<1>3. ASSUME NEW i \in 1..N, i - 1 \in T
      PROVE  i \in T
  <2>1. PICK d \in Seq(Nat) : d = c[i - 1]
    BY <1>3
  <2>2. Len(d) = Skipped(b)[i - 1] /\ LeftOf(s[i - 1], d, k)
    BY <1>3, <2>1
  <2>3. PICK f \in Frames : f = b[i]
    OBVIOUS
  <2>4. /\ LeftOf(s[i - 1] \o FrameSlices(f, Len(d), k),
                  d \o (f.header \o f.payload), k)
        /\ d \o (f.header \o f.payload) \in Seq(Nat)
        /\ Len(d \o (f.header \o f.payload)) = Len(d) + size(f)
    BY <2>2, FrameLeft
  <2>5. Whole(b)[i] = f.header \o f.payload
    BY <2>3 DEF Whole
  <2>6. Pushed(b, k)[i] = FrameSlices(f, Len(d), k)
    BY <2>2, <2>3 DEF Pushed
  <2>7. c[i] = c[i - 1] \o Whole(b)[i] /\ s[i] = s[i - 1] \o Pushed(b, k)[i]
    BY <1>1 DEF IsConcat
  <2>8. Skipped(b)[i] = Skipped(b)[i - 1] + size(b[i])
    BY SkippedSums
  <2>9. /\ c[i] \in Seq(Nat) /\ Len(c[i]) = Skipped(b)[i]
        /\ LeftOf(s[i], c[i], k)
    BY <2>1, <2>2, <2>3, <2>4, <2>5, <2>6, <2>7, <2>8, Zenon
  <2>10. i \in 0..N
    BY <1>1
  <2> QED
    BY <2>9, <2>10
<1> HIDE DEF T
<1>4. \A i \in 0..N : i \in T
  BY <1>1, <1>2, <1>3, InductionUpTo
<1> QED
  BY <1>4 DEF T

\* What build_remaining_slices computes: the batch without its first k bytes.
LEMMA RemainingSlices ==
  ASSUME NEW b \in Seq(Frames), NEW k \in Nat
  PROVE  /\ Contiguous(b) \in Seq(Nat)
         /\ Len(Contiguous(b)) = Skipped(b)[Len(b)]
         /\ LeftOf(build_remaining_slices(b, k), Contiguous(b), k)
<1>1. /\ Whole(b) \in Seq(Seq(Nat)) /\ Len(Whole(b)) = Len(b)
      /\ Pushed(b, k) \in Seq(Seq(Seq(Nat))) /\ Len(Pushed(b, k)) = Len(b)
  BY BatchTyped
<1>2. PICK c : IsConcat(c, Whole(b), Nat)
  BY <1>1, ConcatExists
<1>3. PICK s : IsConcat(s, Pushed(b, k), Seq(Nat))
  BY <1>1, ConcatExists
<1>4. Contiguous(b) = c[Len(b)]
  <2>1. FlattenSeq(Whole(b)) = c[Len(b)]
    BY <1>1, <1>2, FlattenIsConcat
  <2> QED
    BY <2>1 DEF Contiguous, Whole
<1>5. build_remaining_slices(b, k) = s[Len(b)]
  <2>1. FlattenSeq(Pushed(b, k)) = s[Len(b)]
    BY <1>1, <1>3, FlattenIsConcat
  <2> QED
    BY <2>1 DEF build_remaining_slices, Pushed
<1>6. Len(b) \in 0..Len(b)
  OBVIOUS
<1>7. \A i \in 0..Len(b) : /\ c[i] \in Seq(Nat)
                            /\ Len(c[i]) = Skipped(b)[i]
                            /\ LeftOf(s[i], c[i], k)
  BY <1>2, <1>3, FramesLeft
<1> QED
  BY <1>4, <1>5, <1>6, <1>7, Zenon

\* The slices of the first write are what is left after 0 bytes.
LEMMA FirstSlices ==
  ASSUME NEW b \in Seq(Frames)
  PROVE  AllSlices(b) = build_remaining_slices(b, 0)
<1>1. ASSUME NEW i \in 1..Len(b)
      PROVE  FrameSlices(b[i], Skipped(b)[i - 1], 0)
               = <<b[i].header>>
                   \o (IF b[i].payload # <<>> THEN <<b[i].payload>> ELSE <<>>)
  <2>1. PICK f \in Frames : f = b[i]
    OBVIOUS
  <2>2. PICK st \in Nat : st = Skipped(b)[i - 1]
    <3>1. i - 1 \in 0..Len(b) /\ Skipped(b) \in [0..Len(b) -> Nat]
      BY SkippedSums
    <3>2. Skipped(b)[i - 1] \in Nat
      BY <3>1
    <3> QED
      BY <3>2, Zenon
  <2>3. ASSUME NEW part \in Seq(Nat), NEW m \in Nat
        PROVE  PartSlices(part, m, 0) = IF part # <<>> THEN <<part>> ELSE <<>>
    <3>1. SubSeq(part, 0 + 1, Len(part)) = part
      BY SubSeqFull
    <3>2. part # <<>> => 0 < m + Len(part)
      OBVIOUS
    <3>3. ~(0 > m)
      OBVIOUS
    <3> QED
      BY <3>1, <3>2, <3>3, Zenon DEF PartSlices
  <2>4. st + HEADER_SIZE \in Nat
    BY DEF HEADER_SIZE
  <2>5. f.header \in Seq(Nat) /\ f.payload \in Seq(Nat) /\ f.header # <<>>
    BY FrameFacts
  <2>6. /\ PartSlices(f.header, st, 0) = <<f.header>>
        /\ PartSlices(f.payload, st + HEADER_SIZE, 0)
             = IF f.payload # <<>> THEN <<f.payload>> ELSE <<>>
    BY <2>3, <2>4, <2>5, Zenon
  <2> QED
    BY <2>1, <2>2, <2>6, Zenon DEF FrameSlices
<1> QED
  BY <1>1 DEF AllSlices, build_remaining_slices

-----------------------------------------------------------------------------
(* Where the frames of a batch are                                         *)

\* A value of the running total, as a number.
LEMMA SkippedAt ==
  ASSUME NEW b \in Seq(Frames), NEW i \in 0..Len(b)
  PROVE  Skipped(b)[i] \in Nat
BY SkippedSums

\* A frame is as long as its header and its payload.
LEMMA SkippedStep ==
  ASSUME NEW b \in Seq(Frames), NEW i \in 1..Len(b)
  PROVE  /\ Skipped(b)[i - 1] \in Nat /\ Skipped(b)[i] \in Nat
         /\ Len(b[i].payload) \in Nat
         /\ Skipped(b)[i] = Skipped(b)[i - 1] + HEADER_SIZE + Len(b[i].payload)
<1>1. PICK f \in Frames : f = b[i]
  OBVIOUS
<1>2. i - 1 \in 0..Len(b) /\ i \in 0..Len(b)
  OBVIOUS
<1>3. Skipped(b)[i - 1] \in Nat /\ Skipped(b)[i] \in Nat
  BY <1>2, SkippedAt, Zenon
<1>4. Skipped(b)[i] = Skipped(b)[i - 1] + size(b[i])
  BY SkippedSums
<1>5. Len(f.payload) \in Nat /\ size(f) = HEADER_SIZE + Len(f.payload)
  BY FrameFacts DEF size
<1>6. PICK x \in Nat, y \in Nat, l \in Nat :
        x = Skipped(b)[i - 1] /\ y = Skipped(b)[i] /\ l = Len(f.payload)
  BY <1>3, <1>5, Zenon
<1>7. y = x + (HEADER_SIZE + l)
  BY <1>1, <1>4, <1>5, <1>6, Zenon
<1>8. y = x + HEADER_SIZE + l
  BY <1>7 DEF HEADER_SIZE
<1> QED
  BY <1>1, <1>3, <1>5, <1>6, <1>8, Zenon

\* The total grows by at least one byte with each frame.
LEMMA SkippedGrows ==
  ASSUME NEW b \in Seq(Frames)
  PROVE  /\ \A i \in 0..Len(b) : i <= Skipped(b)[i]
         /\ \A j \in 0..Len(b) : \A i \in 0..j : Skipped(b)[i] <= Skipped(b)[j]
<1> DEFINE N == Len(b)
           S == Skipped(b)
           T == {j \in 0..N : j <= S[j] /\ \A i \in 0..j : S[i] <= S[j]}
<1>1. N \in Nat /\ S[0] = 0
  BY SkippedSums
<1>2. 0 \in T
  BY <1>1
<1>3. ASSUME NEW j \in 1..N, j - 1 \in T
      PROVE  j \in T
  <2>1. PICK x \in Nat, y \in Nat, l \in Nat :
          /\ x = S[j - 1] /\ y = S[j] /\ l = Len(b[j].payload)
          /\ y = x + HEADER_SIZE + l
    BY SkippedStep
  <2>2. x < y
    BY <2>1 DEF HEADER_SIZE
  <2>3. j <= S[j]
    BY <1>3, <2>1, <2>2
  <2>4. ASSUME NEW i \in 0..j
        PROVE  S[i] <= S[j]
    <3>1. PICK z \in Nat : z = S[i]
      <4>1. i \in 0..N
        BY <1>1
      <4> QED
        BY <4>1, SkippedAt
    <3>2. CASE i = j
      <4>1. y <= y
        OBVIOUS
      <4> QED
        BY <2>1, <3>2, <4>1, Zenon
    <3>3. CASE i # j
      <4>1. z <= x
        BY <1>3, <2>1, <3>1, <3>3
      <4> QED
        BY <2>1, <2>2, <3>1, <4>1
    <3> QED
      BY <3>2, <3>3
  <2> QED
    BY <1>1, <2>3, <2>4
<1> HIDE DEF T
<1>4. \A j \in 0..N : j \in T
  BY <1>1, <1>2, <1>3, InductionUpTo
<1> QED
  BY <1>4 DEF T

\* The bytes of the first frames stay where they are when more are added.
LEMMA ConcatKeeps ==
  ASSUME NEW b \in Seq(Frames), NEW c, IsConcat(c, Whole(b), Nat)
  PROVE  \A j \in 0..Len(b) : \A i \in 0..j : \A x \in 1..Skipped(b)[i] :
           c[j][x] = c[i][x]
<1> DEFINE N == Len(b)
           S == Skipped(b)
           T == {j \in 0..N : \A i \in 0..j : \A x \in 1..S[i] : c[j][x] = c[i][x]}
<1>1. N \in Nat /\ Len(Whole(b)) = N /\ S[0] = 0
  <2>1. 0 \in Nat
    OBVIOUS
  <2> QED
    BY <2>1, BatchTyped, SkippedSums
<1>2. \A j \in 0..N : c[j] \in Seq(Nat) /\ Len(c[j]) = S[j]
  <2>1. PICK s : IsConcat(s, Pushed(b, 0), Seq(Nat))
    <3>1. 0 \in Nat /\ Pushed(b, 0) \in Seq(Seq(Seq(Nat)))
      BY BatchTyped
    <3> QED
      BY <3>1, ConcatExists
  <2>2. 0 \in Nat
    OBVIOUS
  <2> QED
    BY <2>1, <2>2, FramesLeft
<1>3. 0 \in T
  BY <1>1
<1>4. ASSUME NEW j \in 1..N, j - 1 \in T
      PROVE  j \in T
  <2>1. j - 1 \in 0..N /\ j \in 0..N
    BY <1>1
  <2>2. PICK d \in Seq(Nat) : d = c[j - 1] /\ Len(d) = S[j - 1]
    BY <1>2, <2>1
  <2>3. PICK v \in Seq(Nat) : v = Whole(b)[j]
    <3>1. 0 \in Nat
      OBVIOUS
    <3>2. Whole(b) \in Seq(Seq(Nat))
      BY <3>1, BatchTyped
    <3> QED
      BY <1>1, <3>2
  <2>4. c[j] = d \o v
    BY <1>1, <2>2, <2>3 DEF IsConcat
  <2>5. PICK l \in Nat : l = S[j - 1]
    BY <2>1, SkippedAt
  <2>6. ASSUME NEW x \in 1..l
        PROVE  c[j][x] = c[j - 1][x]
    BY <2>2, <2>4, <2>5
  <2>7. ASSUME NEW i \in 0..j, NEW x \in 1..S[i]
        PROVE  c[j][x] = c[i][x]
    <3>1. CASE i = j
      BY <3>1
    <3>2. CASE i # j
      <4>1. i \in 0..(j - 1) /\ i \in 0..N
        BY <1>1, <3>2
      <4>2. PICK m \in Nat : m = S[i]
        BY <4>1, SkippedAt
      <4>3. S[i] <= S[j - 1]
        BY <2>1, <4>1, SkippedGrows
      <4>4. x \in 1..l
        BY <2>5, <4>2, <4>3
      <4>5. c[j - 1][x] = c[i][x]
        BY <1>4, <4>1
      <4> QED
        BY <2>6, <4>4, <4>5
    <3> QED
      BY <3>1, <3>2
  <2> QED
    BY <2>1, <2>7
<1> HIDE DEF T
<1>5. \A j \in 0..N : j \in T
  BY <1>1, <1>3, <1>4, InductionUpTo
<1> QED
  BY <1>5 DEF T

\* The header and the payload of frame i follow the frames before it.
LEMMA FrameBytes ==
  ASSUME NEW b \in Seq(Frames), NEW i \in 1..Len(b),
         NEW p \in Nat, p = Skipped(b)[i - 1], NEW f \in Frames, f = b[i]
  PROVE  /\ \A y \in 1..Len(f.header) : Contiguous(b)[p + y] = f.header[y]
         /\ \A y \in 1..Len(f.payload) :
              Contiguous(b)[(p + HEADER_SIZE) + y] = f.payload[y]
<1>1. /\ 0 \in Nat /\ Len(b) \in Nat /\ i - 1 \in 0..Len(b) /\ i \in 0..Len(b)
      /\ Len(b) \in 0..Len(b) /\ i \in 0..Len(b)
  OBVIOUS
<1>2. Whole(b) \in Seq(Seq(Nat)) /\ Len(Whole(b)) = Len(b)
      /\ Pushed(b, 0) \in Seq(Seq(Seq(Nat)))
  BY <1>1, BatchTyped
<1>3. PICK c : IsConcat(c, Whole(b), Nat)
  BY <1>2, ConcatExists
<1>4. PICK s : IsConcat(s, Pushed(b, 0), Seq(Nat))
  BY <1>2, ConcatExists
<1>5. \A j \in 0..Len(b) : c[j] \in Seq(Nat) /\ Len(c[j]) = Skipped(b)[j]
  BY <1>1, <1>3, <1>4, FramesLeft
<1>6. Contiguous(b) = c[Len(b)]
  <2>1. FlattenSeq(Whole(b)) = c[Len(b)]
    BY <1>2, <1>3, FlattenIsConcat
  <2> QED
    BY <2>1 DEF Contiguous, Whole
<1>7. \A x \in 1..Skipped(b)[i] : c[Len(b)][x] = c[i][x]
  BY <1>1, <1>3, ConcatKeeps
<1>8. PICK d \in Seq(Nat) : d = c[i - 1] /\ Len(d) = p
  BY <1>1, <1>5
<1>9. PICK h \in Seq(Nat), q \in Seq(Nat), l \in Nat :
        h = f.header /\ q = f.payload /\ Len(h) = HEADER_SIZE /\ l = Len(q)
  BY FrameFacts, Zenon
<1>10. c[i] = d \o (h \o q)
  <2>1. Whole(b)[i] = h \o q
    BY <1>9 DEF Whole
  <2> QED
    BY <1>2, <1>3, <1>8, <2>1 DEF IsConcat
<1>11. PICK e \in Nat : e = Skipped(b)[i] /\ e = p + HEADER_SIZE + l
  BY <1>9, SkippedStep, Zenon
<1>12. h \o q \in Seq(Nat)
  BY ConcatProperties, Zenon
<1>13. PICK hq \in Seq(Nat), k \in Nat :
        /\ hq = h \o q /\ k = HEADER_SIZE /\ Len(h) = k /\ Len(q) = l
        /\ e = p + k + l
  <2>1. HEADER_SIZE \in Nat
    BY DEF HEADER_SIZE
  <2> QED
    BY <1>9, <1>11, <1>12, <2>1, Zenon
<1>13a. /\ Len(hq) = k + l
        /\ \A y \in 1..(k + l) : hq[y] = IF y <= k THEN h[y] ELSE q[y - k]
  <2>1. /\ hq = h \o q /\ Len(h) = k /\ Len(q) = l
    BY <1>13
  <2> QED
    BY <2>1, ConcatProperties
<1>14. ASSUME NEW y \in 1..(k + l)
       PROVE  Contiguous(b)[p + y] = hq[y]
  <2>1. e = p + k + l
    BY <1>13
  <2>2. p + y \in 1..e
    <3>1. \A p1, k1, l1 \in Nat : \A y1 \in 1..(k1 + l1) : p1 + y1 \in 1..(p1 + k1 + l1)
      OBVIOUS
    <3> QED
      BY <2>1, <3>1, Zenon
  <2>3. Contiguous(b)[p + y] = c[i][p + y]
    BY <1>6, <1>7, <1>11, <2>2, Zenon
  <2>4. (d \o hq)[p + y] = hq[y]
    <3>1. \A s1, s2 \in Seq(Nat) : \A y1 \in 1..Len(s2) : (s1 \o s2)[Len(s1) + y1] = s2[y1]
      OBVIOUS
    <3>2. Len(d) = p /\ Len(hq) = k + l
      BY <1>8, <1>13a
    <3>3. y \in 1..Len(hq)
      BY <3>2, Zenon
    <3>4. (d \o hq)[Len(d) + y] = hq[y]
      BY <3>1, <3>3, Zenon
    <3> QED
      BY <3>2, <3>4, Zenon
  <2> QED
    BY <1>10, <1>13, <2>3, <2>4, Zenon
<1>15. ASSUME NEW y \in 1..k
       PROVE  Contiguous(b)[p + y] = h[y]
  <2>1. y \in 1..(k + l) /\ y <= k
    OBVIOUS
  <2>2. hq[y] = h[y]
    BY <1>13a, <2>1
  <2> QED
    BY <1>14, <2>1, <2>2, Zenon
<1>16. ASSUME NEW y \in 1..l
       PROVE  Contiguous(b)[(p + k) + y] = q[y]
  <2>1. /\ k + y \in 1..(k + l) /\ ~(k + y <= k) /\ (k + y) - k = y
        /\ p + (k + y) = (p + k) + y
    OBVIOUS
  <2>2. hq[k + y] = q[y]
    BY <1>13a, <2>1, Zenon
  <2>3. Contiguous(b)[p + (k + y)] = hq[k + y]
    BY <1>14, <2>1, Zenon
  <2> QED
    BY <2>1, <2>2, <2>3, Zenon
<1> QED
  BY <1>9, <1>13, <1>15, <1>16, Zenon

-----------------------------------------------------------------------------
(* What the pipe has taken                                                 *)

\* The bytes w are the first bytes of c.
Taken(w, c) ==
  w \in Seq(Nat) /\ Len(w) <= Len(c) /\ w = SubSeq(c, 1, Len(w))

\* Nothing is taken at first, and whatever is whole is taken.
LEMMA TakenEnds ==
  ASSUME NEW c \in Seq(Nat)
  PROVE  /\ Taken(<<>>, c)
         /\ Taken(c, c)
         /\ \A w : Taken(w, c) /\ Len(w) = Len(c) => w = c
<1>1. /\ SubSeq(c, 1, Len(c)) = c /\ Len(c) \in Nat /\ Len(<<>>) = 0
      /\ <<>> \in Seq(Nat) /\ Len(<<>>) <= Len(c) /\ Len(c) <= Len(c)
  BY SubSeqFull
<1>2. SubSeq(c, 1, 0) = <<>>
  BY SubSeqEmpty
<1> QED
  BY <1>1, <1>2, Zenon DEF Taken

\* What was taken and what is left make the whole.
LEMMA TakenAndLeft ==
  ASSUME NEW c \in Seq(Nat), NEW w, Taken(w, c)
  PROVE  w \o SubSeq(c, Len(w) + 1, Len(c)) = c
<1>1. /\ 1 \in 1 .. Len(c) + 1 /\ Len(w) \in 1 - 1 .. Len(c)
      /\ Len(c) \in Len(w) .. Len(c)
  BY DEF Taken
<1>2. SubSeq(c, 1, Len(w)) \o SubSeq(c, Len(w) + 1, Len(c)) = SubSeq(c, 1, Len(c))
  BY <1>1, ConcatAdjacentSubSeq, Zenon
<1>3. SubSeq(c, 1, Len(c)) = c
  BY SubSeqFull
<1> QED
  BY <1>2, <1>3, Zenon DEF Taken

\* A write that takes n of the bytes it was offered.
LEMMA TakenMore ==
  ASSUME NEW c \in Seq(Nat), NEW w, Taken(w, c),
         NEW ss, LeftOf(ss, c, Len(w)), NEW n \in 0..Len(FlattenSeq(ss))
  PROVE  /\ Taken(w \o SubSeq(FlattenSeq(ss), 1, n), c)
         /\ Len(w \o SubSeq(FlattenSeq(ss), 1, n)) = Len(w) + n
         /\ Len(w) + Len(FlattenSeq(ss)) = Len(c)
<1>1. PICK k \in Nat : k = Len(w)
  <2>1. Len(w) \in Nat
    BY DEF Taken
  <2> QED
    BY <2>1, Zenon
<1>2. PICK l \in Nat : l = Len(c)
  OBVIOUS
<1>3. k <= l /\ w \in Seq(Nat) /\ w = SubSeq(c, 1, k)
  BY <1>1, <1>2 DEF Taken
<1>4. PICK r \in Seq(Nat) : r = SubSeq(c, k + 1, l)
  <2>1. SubSeq(c, k + 1, l) \in Seq(Nat)
    BY <1>2
  <2> QED
    BY <2>1, Zenon
<1>5. FlattenSeq(ss) = r
  BY <1>1, <1>2, <1>4, Zenon DEF LeftOf
<1>6. Len(r) = l - k
  BY <1>2, <1>3, <1>4
<1>7. n \in Nat /\ k + n <= l
  BY <1>3, <1>5, <1>6
<1>8. SubSeq(r, 1, n) = SubSeq(c, k + 1, k + n)
  <2>1. CASE n = 0
    BY <1>7, <2>1, SubSeqEmpty
  <2>2. CASE n # 0
    <3>1. PICK i \in 1 .. Len(c), j \in 1 .. Len(c), one \in Nat :
            /\ i = k + 1 /\ j = l /\ one = 1
            /\ one \in 1 .. j - i + 1 /\ n \in 1 .. j - i + 1
      <4>1. /\ k + 1 \in 1 .. Len(c) /\ l \in 1 .. Len(c) /\ 1 \in Nat
            /\ 1 \in 1 .. l - (k + 1) + 1 /\ n \in 1 .. l - (k + 1) + 1
        BY <1>2, <1>7, <2>2
      <4> QED
        BY <4>1, Zenon
    <3>2. SubSeq(SubSeq(c, i, j), one, n) = SubSeq(c, i + one - 1, i + n - 1)
      BY <3>1, SubSeqOfSubSeq
    <3>3. i + one - 1 = k + 1 /\ i + n - 1 = k + n
      BY <1>7, <3>1
    <3> QED
      BY <1>4, <3>1, <3>2, <3>3, Zenon
  <2> QED
    BY <2>1, <2>2
<1>9. w \o SubSeq(r, 1, n) = SubSeq(c, 1, k + n)
  <2>1. /\ 1 \in 1 .. Len(c) + 1 /\ k \in 1 - 1 .. Len(c)
        /\ k + n \in k .. Len(c)
    BY <1>2, <1>3, <1>7
  <2>2. SubSeq(c, 1, k) \o SubSeq(c, k + 1, k + n) = SubSeq(c, 1, k + n)
    BY <2>1, ConcatAdjacentSubSeq, Zenon
  <2> QED
    BY <1>3, <1>8, <2>2, Zenon
<1>10. PICK m \in Nat : m = k + n
  BY <1>7
<1>11. SubSeq(c, 1, m) \in Seq(Nat) /\ Len(SubSeq(c, 1, m)) = m /\ m <= Len(c)
  BY <1>2, <1>7, <1>10
<1>12. Len(w) + n = m /\ Len(w) + Len(FlattenSeq(ss)) = Len(c)
  <2>1. k + (l - k) = l
    OBVIOUS
  <2> QED
    BY <1>1, <1>2, <1>5, <1>6, <1>10, <2>1, Zenon
<1> QED
  BY <1>5, <1>9, <1>10, <1>11, <1>12, Zenon DEF Taken

-----------------------------------------------------------------------------
(* The frames of a batch                                                   *)

\* A frame whose header was encoded for its payload.
SentFrames ==
  {f \in Frames : /\ f.header = encode(decode(f.header))
                  /\ decode(f.header).payload_length = LenAsU32(f.payload)}

\* send_frame builds such a frame, whatever the length of the payload.
LEMMA SendFrame ==
  ASSUME NEW m \in Nat, NEW fl \in Nat, NEW r \in Nat, NEW payload \in Seq(Nat)
  PROVE  send_frame(m, fl, r, payload) \in SentFrames
<1> DEFINE l == LenAsU32(payload)
           h == Header(m, fl, r, l)
           f == OutboundFrame(h, payload)
<1>1. l \in Nat
  BY Widths, Division DEF LenAsU32
<1>2. /\ decode(encode(h)) = h /\ encode(h) \in Seq(Nat)
      /\ Len(encode(h)) = HEADER_SIZE
  BY <1>1, HeaderBytes
<1>3. h.payload_length = l
  BY DEF Header
<1> HIDE DEF h, l
<1>4. f.header = encode(h) /\ f.payload = payload
      /\ f \in [header : Seq(Nat), payload : Seq(Nat)]
  BY <1>2 DEF OutboundFrame
<1>5. send_frame(m, fl, r, payload) = f
  BY DEF send_frame, h, l
<1> HIDE DEF f
<1> QED
  BY <1>2, <1>3, <1>4, <1>5, Zenon DEF SentFrames, Frames, l

\* Every call puts such a frame into the channel.
LEMMA CallSends ==
  ASSUME NEW c \in Calls
  PROVE  FrameSent(c) \in SentFrames
<1>1. /\ c.method_id \in Nat /\ c.request_id \in Nat /\ c.payload \in Seq(Nat)
      /\ c.answer \in Answers \cup {"emit"}
  BY Widths DEF Calls
<1>2. CASE c.answer = "emit"
  <2>1. FrameSent(c) = send_frame(c.method_id, DIRECTION_TO_PARENT, 0, c.payload)
    BY <1>2 DEF FrameSent, emit_frame, send_frame
  <2>2. DIRECTION_TO_PARENT \in Nat /\ 0 \in Nat
    BY DEF DIRECTION_TO_PARENT
  <2> QED
    BY <1>1, <2>1, <2>2, SendFrame, Zenon
<1>3. CASE c.answer # "emit"
  <2> DEFINE fl == FlagsOf(c.answer, c.response_type)
  <2>1. fl \in Nat
    BY <1>1, <1>3 DEF FlagsOf, Answers, error_flags, RESPONSE, ERROR_RESPONSE,
       STREAM_ERROR_RESPONSE, STREAM_CHUNK, STREAM_END_RESPONSE, ACK_RESPONSE,
       DIRECTION_TO_PARENT, IS_RESPONSE, IS_ERROR, IS_STREAM, STREAM_END, IS_ACK
  <2> HIDE DEF fl
  <2>2. send_frame_empty(c.method_id, fl, c.request_id)
          = send_frame(c.method_id, fl, c.request_id, <<>>)
    <3>1. LenAsU32(<<>>) = 0
      BY Widths DEF LenAsU32
    <3> QED
      BY <3>1, Zenon DEF send_frame_empty, send_frame
  <2>3. \E p \in Seq(Nat) :
          FrameSent(c) = send_frame(c.method_id, fl, c.request_id, p)
    <3>1. <<>> \in Seq(Nat)
      OBVIOUS
    <3> QED
      BY <1>1, <1>3, <2>2, <3>1, Zenon DEF FrameSent, answer_frame, fl
  <2> QED
    BY <1>1, <2>1, <2>3, SendFrame
<1> QED
  BY <1>2, <1>3

-----------------------------------------------------------------------------
(* What a reader finds                                                     *)

\* Eleven bytes are a header, which encode and decode leave alone.
LEMMA DecodeTyped ==
  ASSUME NEW x \in Seq(Nat), Len(x) = HEADER_SIZE
  PROVE  /\ decode(encode(decode(x))) = decode(x)
         /\ decode(x).payload_length \in Nat
<1>1. \A i \in 1..11 : x[i] \in Nat
  <2>1. \A i \in 1..Len(x) : x[i] \in Nat
    OBVIOUS
  <2> QED
    BY <2>1, Zenon DEF HEADER_SIZE
<1>2. \A a1, a2 \in Nat : From16(a1, a2) \in Nat
  BY Widths DEF From16
<1>3. \A a1, a2, a3, a4 \in Nat : From32(a1, a2, a3, a4) \in Nat
  <2> TAKE a1, a2, a3, a4 \in Nat
  <2>1. From16(a1, a2) \in Nat /\ From16(a3, a4) \in Nat
    BY <1>2
  <2> QED
    BY <2>1, Widths DEF From32
<1>4. /\ x[1] \in Nat /\ x[2] \in Nat /\ x[3] \in Nat /\ x[4] \in Nat
      /\ x[5] \in Nat /\ x[6] \in Nat /\ x[7] \in Nat /\ x[8] \in Nat
      /\ x[9] \in Nat /\ x[10] \in Nat /\ x[11] \in Nat
  BY <1>1
<1>5. PICK m \in Nat, f \in Nat, r \in Nat, l \in Nat : decode(x) = Header(m, f, r, l)
  BY <1>2, <1>3, <1>4, Zenon DEF decode
<1>6. Header(m, f, r, l).payload_length = l
  BY DEF Header
<1>7. decode(encode(Header(m, f, r, l))) = Header(m, f, r, l)
  BY RoundTrip
<1> QED
  BY <1>5, <1>6, <1>7

\* The end that a reader computes from whatever bytes is a number.
LEMMA FrameEndTyped ==
  ASSUME NEW w \in Seq(Nat), NEW p \in Nat
  PROVE  FrameEnd(w, p) \in Nat
<1>1. CASE p + HEADER_SIZE <= Len(w)
  <2> DEFINE x == SubSeq(w, p + 1, p + HEADER_SIZE)
  <2>1. x \in Seq(Nat) /\ Len(x) = HEADER_SIZE
    BY <1>1 DEF HEADER_SIZE
  <2> HIDE DEF x
  <2>2. PICK l \in Nat : l = decode(x).payload_length
    BY <2>1, DecodeTyped, Zenon
  <2>3. FrameEnd(w, p) = p + HEADER_SIZE + l
    BY <1>1, <2>2, Zenon DEF FrameEnd, x
  <2>4. p + HEADER_SIZE + l \in Nat
    BY DEF HEADER_SIZE
  <2> QED
    BY <2>3, <2>4
<1>2. CASE ~(p + HEADER_SIZE <= Len(w))
  BY <1>2 DEF FrameEnd
<1> QED
  BY <1>1, <1>2

\* The ends are found one after the other.
LEMMA FrameEndsSteps ==
  ASSUME NEW w \in Seq(Nat)
  PROVE  /\ FrameEnds(w) \in [0..Len(w) -> Nat]
         /\ FrameEnds(w)[0] = 0
         /\ \A i \in 1..Len(w) : FrameEnds(w)[i] = FrameEnd(w, FrameEnds(w)[i - 1])
<1> DEFINE N == Len(w)
           g == [p \in (1..N) \X Nat |-> FrameEnd(w, p[2])]
           h == FrameEnds(w)
<1>1. N \in Nat /\ 0 \in Nat
  OBVIOUS
<1>2. g \in StepFunctions(N, Nat)
  <2>1. \A p \in (1..N) \X Nat : FrameEnd(w, p[2]) \in Nat
    BY FrameEndTyped
  <2> QED
    BY <2>1 DEF StepFunctions
<1>3. PICK f : Solves(f, 0, g, N, Nat)
  <2> HIDE DEF g, N
  <2> QED
    BY <1>1, <1>2, Recursion, Zenon
<1>4. ASSUME NEW i \in 1..N
      PROVE  f[i] = FrameEnd(w, f[i - 1])
  <2>1. f[i - 1] \in Nat /\ f[i] = g[<<i, f[i - 1]>>]
    <3> HIDE DEF g, N
    <3> QED
      BY <1>1, <1>3 DEF Solves
  <2> QED
    BY <2>1
<1>5. f = [i \in 0..N |-> IF i = 0 THEN 0 ELSE FrameEnd(w, f[i - 1])]
  BY <1>1, <1>3, <1>4 DEF Solves
<1>6. h = [i \in 0..N |-> IF i = 0 THEN 0 ELSE FrameEnd(w, h[i - 1])]
  BY <1>5, Zenon DEF FrameEnds
<1> HIDE DEF h, g
<1>7. h[0] = 0 /\ \A i \in 1..N : h[i] = FrameEnd(w, h[i - 1])
  BY <1>1, <1>6
<1>8. \A i \in 0..N : h[i] \in Nat
  <2> DEFINE T == {i \in 0..N : h[i] \in Nat}
  <2>1. 0 \in T
    BY <1>1, <1>7
  <2>2. ASSUME NEW i \in 1..N, i - 1 \in T
        PROVE  i \in T
    <3>1. h[i - 1] \in Nat
      BY <2>2
    <3>2. h[i] \in Nat
      BY <1>7, <3>1, FrameEndTyped
    <3> QED
      BY <1>1, <3>2
  <2> HIDE DEF T
  <2>3. \A i \in 0..N : i \in T
    BY <1>1, <2>1, <2>2, InductionUpTo
  <2> QED
    BY <2>3 DEF T
<1>9. h \in [0..N -> Nat]
  BY <1>6, <1>8
<1> QED
  BY <1>7, <1>9 DEF h

\* One step of the reader.
LEMMA FrameEndsAt ==
  ASSUME NEW w \in Seq(Nat), NEW i \in 1..Len(w)
  PROVE  /\ FrameEnds(w)[i - 1] \in Nat /\ FrameEnds(w)[i] \in Nat
         /\ FrameEnds(w)[i] = FrameEnd(w, FrameEnds(w)[i - 1])
<1>1. i - 1 \in 0..Len(w) /\ i \in 0..Len(w)
  OBVIOUS
<1>2. PICK e : e = FrameEnds(w)
  OBVIOUS
<1>3. e \in [0..Len(w) -> Nat] /\ e[i] = FrameEnd(w, e[i - 1])
  BY <1>2, FrameEndsSteps, Zenon
<1>4. e[i - 1] \in Nat /\ e[i] \in Nat
  BY <1>1, <1>3
<1> QED
  BY <1>2, <1>3, <1>4, Zenon

\* The bytes t are those of c from position p + 1 on.
Occurs(t, c, p) == \A y \in 1..Len(t) : c[p + y] = t[y]

\* A reader finds them there as soon as the pipe has taken them.
LEMMA SubSeqAt ==
  ASSUME NEW c \in Seq(Nat), NEW w, Taken(w, c)
  PROVE  \A t \in Seq(Nat), p \in Nat, l \in Nat :
           l = Len(t) /\ p + l <= Len(w) /\ Occurs(t, c, p)
             => SubSeq(w, p + 1, p + l) = t
<1> TAKE t \in Seq(Nat), p \in Nat, l \in Nat
<1> HAVE l = Len(t) /\ p + l <= Len(w) /\ Occurs(t, c, p)
<1>1. PICK n \in Nat : n = Len(w)
  <2>1. Len(w) \in Nat
    BY DEF Taken
  <2> QED
    BY <2>1, Zenon
<1>2. w \in Seq(Nat) /\ n <= Len(c) /\ w = SubSeq(c, 1, n) /\ p + l <= n
  BY <1>1 DEF Taken
<1>3. \A y \in 1..n : w[y] = c[y]
  BY <1>2
<1>4. PICK v \in Seq(Nat) : v = SubSeq(w, p + 1, p + l)
  <2>1. SubSeq(w, p + 1, p + l) \in Seq(Nat)
    BY <1>1, <1>2
  <2> QED
    BY <2>1, Zenon
<1>5. Len(v) = l
  BY <1>1, <1>2, <1>4
<1>6. ASSUME NEW y \in 1..l
      PROVE  v[y] = t[y]
  <2>1. v[y] = w[p + y] /\ p + y \in 1..n
    BY <1>1, <1>2, <1>4
  <2> QED
    BY <1>1, <1>3, <2>1, Zenon DEF Occurs
<1>7. v = t
  BY <1>1, <1>5, <1>6, SeqEqual
<1> QED
  BY <1>1, <1>4, <1>7

\* Frame i of the batch is at the position where the frames before it end.
FrameInPlace(w, b, i) ==
  \A f \in Frames, p \in Nat, e \in Nat :
    f = b[i] /\ p = Skipped(b)[i - 1] /\ e = Skipped(b)[i] =>
      /\ p + HEADER_SIZE <= Len(w) =>
           SubSeq(w, p + 1, p + HEADER_SIZE) = f.header
      /\ e <= Len(w) =>
           SubSeq(w, p + HEADER_SIZE + 1, e) = f.payload

\* The pipe has taken the bytes of the batch in their places.
LEMMA FrameTaken ==
  ASSUME NEW b \in Seq(Frames), NEW w, Taken(w, Contiguous(b)), NEW i \in 1..Len(b)
  PROVE  FrameInPlace(w, b, i)
<1> SUFFICES ASSUME NEW f \in Frames, NEW p \in Nat, NEW e \in Nat,
                    f = b[i], p = Skipped(b)[i - 1], e = Skipped(b)[i]
             PROVE  /\ p + HEADER_SIZE <= Len(w) =>
                         SubSeq(w, p + 1, p + HEADER_SIZE) = f.header
                    /\ e <= Len(w) =>
                         SubSeq(w, p + HEADER_SIZE + 1, e) = f.payload
  BY Zenon DEF FrameInPlace
<1>1. Contiguous(b) \in Seq(Nat)
  <2>1. 0 \in Nat
    OBVIOUS
  <2> QED
    BY <2>1, RemainingSlices
<1>1a. \A t \in Seq(Nat), x \in Nat, l \in Nat :
         l = Len(t) /\ x + l <= Len(w) /\ Occurs(t, Contiguous(b), x)
           => SubSeq(w, x + 1, x + l) = t
  BY <1>1, SubSeqAt, Zenon
<1>2. Occurs(f.header, Contiguous(b), p)
      /\ Occurs(f.payload, Contiguous(b), p + HEADER_SIZE)
  BY FrameBytes DEF Occurs
<1>3. PICK h \in Seq(Nat), q \in Seq(Nat), k \in Nat, l \in Nat :
        /\ h = f.header /\ q = f.payload /\ k = HEADER_SIZE /\ l = Len(q)
        /\ k = Len(h)
  <2>1. HEADER_SIZE \in Nat
    BY DEF HEADER_SIZE
  <2> QED
    BY <2>1, FrameFacts, Zenon
<1>4. ASSUME p + HEADER_SIZE <= Len(w)
      PROVE  SubSeq(w, p + 1, p + HEADER_SIZE) = f.header
  <2>1. p + k <= Len(w) /\ Occurs(h, Contiguous(b), p)
    BY <1>2, <1>3, <1>4, Zenon
  <2>2. SubSeq(w, p + 1, p + k) = h
    BY <1>1a, <1>3, <2>1, Zenon
  <2> QED
    BY <1>3, <2>2, Zenon
<1>5. e = p + HEADER_SIZE + l
  BY <1>3, SkippedStep, Zenon
<1>6. ASSUME e <= Len(w)
      PROVE  SubSeq(w, p + HEADER_SIZE + 1, e) = f.payload
  <2>1. PICK r \in Nat : r = p + HEADER_SIZE
    BY DEF HEADER_SIZE
  <2>2. r + l <= Len(w) /\ Occurs(q, Contiguous(b), r) /\ e = r + l
    BY <1>2, <1>3, <1>5, <1>6, <2>1, Zenon
  <2>3. SubSeq(w, r + 1, r + l) = q
    BY <1>1a, <1>3, <2>2, Zenon
  <2> QED
    BY <1>3, <2>1, <2>2, <2>3, Zenon
<1> QED
  BY <1>4, <1>6, Zenon

\* The pipe has taken the first i frames.
HasTaken(w, b, i) == i <= Len(b) /\ Skipped(b)[i] <= Len(w)

\* The reader's i-th end is the batch's as long as the frame is whole.
EndFound(w, b, i) ==
  IF HasTaken(w, b, i) THEN FrameEnds(w)[i] = Skipped(b)[i]
  ELSE FrameEnds(w)[i] > Len(w)

\* What the reader makes of a header that was sent: the length of its payload.
LEMMA SentLength ==
  ASSUME NEW b \in Seq(SentFrames), Fits(b), NEW i \in 1..Len(b)
  PROVE  decode(b[i].header).payload_length = Len(b[i].payload)
<1>1. PICK f \in SentFrames : f = b[i]
  OBVIOUS
<1>2. decode(f.header).payload_length = LenAsU32(f.payload) /\ f \in Frames
  BY DEF SentFrames
<1>3. PICK l \in Nat : l = Len(f.payload)
  BY <1>2, FrameFacts
<1>4. l < U32
  BY <1>1, <1>3, Zenon DEF Fits
<1>5. l % U32 = l
  BY <1>4, Widths
<1> QED
  BY <1>1, <1>2, <1>3, <1>5, Zenon DEF LenAsU32

\* The bytes of frames that were sent, and their number.
LEMMA SentAreFrames ==
  ASSUME NEW b \in Seq(SentFrames)
  PROVE  /\ b \in Seq(Frames) /\ Contiguous(b) \in Seq(Nat)
         /\ Len(Contiguous(b)) = Skipped(b)[Len(b)]
<1>1. b \in Seq(Frames)
  <2>1. SentFrames \subseteq Frames
    BY DEF SentFrames
  <2> QED
    BY <2>1, SeqMonotonic
<1>2. 0 \in Nat
  OBVIOUS
<1> QED
  BY <1>1, <1>2, RemainingSlices

\* The first frames are taken before the later ones.
LEMMA TakenBefore ==
  ASSUME NEW b \in Seq(Frames), NEW w, Len(w) \in Nat, NEW j \in Nat,
         HasTaken(w, b, j), NEW i \in 0..j
  PROVE  HasTaken(w, b, i)
<1>1. j \in 0..Len(b) /\ i \in 0..Len(b)
  BY DEF HasTaken
<1>2. PICK x \in Nat, y \in Nat : x = Skipped(b)[i] /\ y = Skipped(b)[j]
  BY <1>1, SkippedAt, Zenon
<1>3. x <= y
  BY <1>1, <1>2, SkippedGrows, Zenon
<1>4. y <= Len(w)
  BY <1>2, Zenon DEF HasTaken
<1>5. x <= Len(w)
  BY <1>3, <1>4
<1>6. i <= Len(b)
  BY <1>1
<1> QED
  BY <1>2, <1>5, <1>6, Zenon DEF HasTaken

\* From one end to the next: by the header if it is whole, and to nowhere if it
\* is not or if there is no frame left.
LEMMA EndStep ==
  ASSUME NEW b \in Seq(SentFrames), Fits(b), NEW w, Taken(w, Contiguous(b)),
         NEW i \in 1..Len(w), EndFound(w, b, i - 1)
  PROVE  EndFound(w, b, i)
<1>1. /\ b \in Seq(Frames) /\ Contiguous(b) \in Seq(Nat)
      /\ Len(Contiguous(b)) = Skipped(b)[Len(b)]
  BY SentAreFrames
<1>2. w \in Seq(Nat) /\ Len(w) <= Len(Contiguous(b))
  BY DEF Taken
<1>3. PICK p \in Nat : p = FrameEnds(w)[i - 1]
  BY <1>2, FrameEndsAt, Zenon
<1>4. PICK e \in Nat : e = FrameEnds(w)[i] /\ e = FrameEnd(w, p)
  BY <1>2, <1>3, FrameEndsAt, Zenon
<1>5. PICK n \in Nat : n = Len(w)
  BY <1>2
<1>6. ASSUME p + HEADER_SIZE > n
      PROVE  e > n
  <2>1. ~(p + HEADER_SIZE <= n)
    BY <1>6 DEF HEADER_SIZE
  <2>2. e = n + 1
    BY <1>4, <1>5, <2>1, Zenon DEF FrameEnd
  <2> QED
    BY <2>2
<1>7. CASE ~HasTaken(w, b, i - 1)
  <2>1. p > n
    BY <1>3, <1>5, <1>7, Zenon DEF EndFound
  <2>2. p + HEADER_SIZE > n
    BY <2>1 DEF HEADER_SIZE
  <2>3. ~HasTaken(w, b, i)
    <3>1. i - 1 \in 0..i /\ i \in Nat /\ Len(w) \in Nat
      BY <1>2
    <3> QED
      BY <1>1, <1>7, <3>1, TakenBefore, Zenon
  <2> QED
    BY <1>4, <1>5, <1>6, <2>2, <2>3, Zenon DEF EndFound
<1>8. CASE HasTaken(w, b, i - 1)
  <2>1. p = Skipped(b)[i - 1] /\ i - 1 <= Len(b)
    BY <1>3, <1>8, Zenon DEF EndFound, HasTaken
  <2>2. CASE ~(i <= Len(b))
    <3>1. i - 1 = Len(b)
      BY <2>1, <2>2
    <3>2. n <= p
      BY <1>1, <1>2, <1>5, <2>1, <3>1, Zenon
    <3>3. p + HEADER_SIZE > n
      BY <3>2 DEF HEADER_SIZE
    <3> QED
      BY <1>4, <1>5, <1>6, <2>2, <3>3, Zenon DEF EndFound, HasTaken
  <2>3. CASE i <= Len(b)
    <3>1. i \in 1..Len(b)
      BY <2>3
    <3>2. PICK f \in Frames : f = b[i]
      BY <1>1, <3>1
    <3>3. PICK y \in Nat, l \in Nat :
            y = Skipped(b)[i] /\ l = Len(f.payload) /\ y = p + HEADER_SIZE + l
      <4>1. /\ Skipped(b)[i] \in Nat /\ Len(b[i].payload) \in Nat
            /\ Skipped(b)[i] = Skipped(b)[i - 1] + HEADER_SIZE + Len(b[i].payload)
        BY <1>1, <3>1, SkippedStep, Zenon
      <4> QED
        BY <2>1, <3>2, <4>1, Zenon
    <3>4. ASSUME p + HEADER_SIZE <= n
          PROVE  e = y
      <4>1. SubSeq(w, p + 1, p + HEADER_SIZE) = f.header
        <5>1. FrameInPlace(w, b, i)
          BY <1>1, <3>1, FrameTaken
        <5> QED
          BY <1>5, <2>1, <3>2, <3>3, <3>4, <5>1, Zenon DEF FrameInPlace
      <4>2. decode(f.header).payload_length = l
        BY <3>1, <3>2, <3>3, SentLength, Zenon
      <4>3. FrameEnd(w, p) = p + HEADER_SIZE + l
        BY <1>5, <3>4, <4>1, <4>2, Zenon DEF FrameEnd
      <4> QED
        BY <1>4, <3>3, <4>3, Zenon
    <3>5. ASSUME p + HEADER_SIZE > n
          PROVE  y > n
      <4>1. \A p1, l1, y1 \in Nat :
              p1 + HEADER_SIZE > n /\ y1 = p1 + HEADER_SIZE + l1 => y1 > n
        BY DEF HEADER_SIZE
      <4> QED
        BY <3>3, <3>5, <4>1, Zenon
    <3>6. HasTaken(w, b, i) <=> y <= n
      BY <1>5, <2>3, <3>3, Zenon DEF HasTaken
    <3>7. \/ p + HEADER_SIZE <= n
          \/ p + HEADER_SIZE > n
      BY DEF HEADER_SIZE
    <3>8. (y > n) <=> ~(y <= n)
      OBVIOUS
    <3> QED
      BY <1>4, <1>5, <1>6, <3>3, <3>4, <3>5, <3>6, <3>7, <3>8, Zenon DEF EndFound
  <2> QED
    BY <2>2, <2>3
<1> QED
  BY <1>7, <1>8

\* The reader finds the ends of the frames that were taken, and no other.
LEMMA EndsFound ==
  ASSUME NEW b \in Seq(SentFrames), Fits(b), NEW w, Taken(w, Contiguous(b))
  PROVE  \A i \in 0..Len(w) : EndFound(w, b, i)
<1> DEFINE N == Len(w)
           T == {i \in 0..N : EndFound(w, b, i)}
<1>1. w \in Seq(Nat) /\ N \in Nat /\ b \in Seq(Frames)
  BY SentAreFrames DEF Taken
<1>2. 0 \in T
  <2>1. FrameEnds(w)[0] = 0 /\ Skipped(b)[0] = 0
    BY <1>1, FrameEndsSteps, SkippedSums
  <2>2. 0 <= Len(b) /\ 0 <= Len(w)
    BY <1>1
  <2>3. EndFound(w, b, 0)
    BY <2>1, <2>2, Zenon DEF EndFound, HasTaken
  <2> QED
    BY <1>1, <2>3
<1>3. ASSUME NEW i \in 1..N, i - 1 \in T
      PROVE  i \in T
  <2>1. EndFound(w, b, i - 1)
    BY <1>3
  <2>2. EndFound(w, b, i)
    BY <2>1, EndStep
  <2> QED
    BY <1>1, <2>2
<1> HIDE DEF T
<1>4. \A i \in 0..N : i \in T
  BY <1>1, <1>2, <1>3, InductionUpTo
<1> QED
  BY <1>4 DEF T

\* The number of frames that are whole.
LEMMA WholeFrames ==
  ASSUME NEW b \in Seq(Frames), NEW w, Len(w) \in Nat
  PROVE  \E n \in 0..Len(b) : \A i \in Nat : HasTaken(w, b, i) <=> i <= n
<1> DEFINE T == {j \in Nat : ~HasTaken(w, b, j + 1)}
<1>1. T \in SUBSET Nat
  OBVIOUS
<1>2. Len(b) \in T
  <2>1. Len(b) \in Nat /\ ~(Len(b) + 1 <= Len(b))
    OBVIOUS
  <2> QED
    BY <2>1, Zenon DEF HasTaken
<1>3. \A j \in Nat : j \in T <=> ~HasTaken(w, b, j + 1)
  OBVIOUS
<1> HIDE DEF T
<1>4. PICK n \in T : \A y \in T : ~(y < n)
  BY <1>1, <1>2, LeastElement
<1>5. n \in Nat /\ ~HasTaken(w, b, n + 1) /\ n \in 0..Len(b)
  BY <1>1, <1>2, <1>3, <1>4
<1>6. HasTaken(w, b, n)
  <2>1. CASE n = 0
    <3>1. Skipped(b)[0] = 0
      BY SkippedSums
    <3>2. 0 <= Len(b) /\ 0 <= Len(w)
      OBVIOUS
    <3> QED
      BY <2>1, <3>1, <3>2, Zenon DEF HasTaken
  <2>2. CASE n # 0
    <3>1. n - 1 \in Nat /\ n - 1 < n /\ (n - 1) + 1 = n
      BY <1>5, <2>2
    <3>2. n - 1 \notin T
      BY <1>4, <3>1, Zenon
    <3> QED
      BY <1>3, <3>1, <3>2
  <2> QED
    BY <2>1, <2>2
<1>7. ASSUME NEW i \in Nat
      PROVE  HasTaken(w, b, i) <=> i <= n
  <2>1. ASSUME i <= n
        PROVE  HasTaken(w, b, i)
    <3>1. i \in 0..n
      BY <1>5, <2>1
    <3> QED
      BY <1>5, <1>6, <3>1, TakenBefore
  <2>2. ASSUME ~(i <= n), HasTaken(w, b, i)
        PROVE  FALSE
    <3>1. n + 1 \in 0..i
      BY <1>5, <2>2
    <3> QED
      BY <1>5, <2>2, <3>1, TakenBefore
  <2> QED
    BY <2>1, <2>2, Zenon
<1> QED
  BY <1>5, <1>7

\* A frame that was taken as the reader sees it.
LEMMA FrameRead ==
  ASSUME NEW b \in Seq(SentFrames), NEW w, Taken(w, Contiguous(b)),
         NEW i \in 1..Len(b), HasTaken(w, b, i)
  PROVE  FrameAt(w, Skipped(b)[i - 1], Skipped(b)[i]) = b[i]
<1>1. b \in Seq(Frames)
  BY SentAreFrames
<1>2. PICK f \in Frames : f = b[i] /\ f.header = encode(decode(f.header))
  BY DEF SentFrames
<1>3. PICK p \in Nat, e \in Nat, l \in Nat :
        /\ p = Skipped(b)[i - 1] /\ e = Skipped(b)[i]
        /\ l = Len(b[i].payload) /\ e = p + HEADER_SIZE + l
  BY <1>1, SkippedStep, Zenon
<1>4. FrameInPlace(w, b, i)
  BY <1>1, FrameTaken
<1>5. Len(w) \in Nat /\ e <= Len(w)
  BY <1>3 DEF HasTaken, Taken
<1>6. p + HEADER_SIZE <= Len(w)
  <2>1. \A p1, l1, n1, e1 \in Nat :
          e1 = p1 + HEADER_SIZE + l1 /\ e1 <= n1 => p1 + HEADER_SIZE <= n1
    BY DEF HEADER_SIZE
  <2>2. e = p + HEADER_SIZE + l
    BY <1>3, Zenon
  <2> QED
    BY <1>5, <2>1, <2>2, Zenon
<1>7. /\ SubSeq(w, p + 1, p + HEADER_SIZE) = f.header
      /\ SubSeq(w, p + HEADER_SIZE + 1, e) = f.payload
  BY <1>2, <1>3, <1>4, <1>5, <1>6, Zenon DEF FrameInPlace
<1>8. FrameAt(w, p, e) = [header |-> f.header, payload |-> f.payload]
  BY <1>2, <1>7, Zenon DEF FrameAt, OutboundFrame
<1>9. f = [header |-> f.header, payload |-> f.payload]
  BY DEF Frames
<1> QED
  BY <1>2, <1>3, <1>8, <1>9, Zenon

\* A reader of the bytes that the pipe has taken finds the first frames of the
\* batch, and all of them once everything is taken.
LEMMA ParsedPrefix ==
  ASSUME NEW b \in Seq(SentFrames), Fits(b), NEW w, Taken(w, Contiguous(b))
  PROVE  \E n \in 0..Len(b) :
           /\ Parsed(w) = SubSeq(b, 1, n)
           /\ Len(w) = Len(Contiguous(b)) => n = Len(b)
<1>1. /\ b \in Seq(Frames) /\ Contiguous(b) \in Seq(Nat)
      /\ Len(Contiguous(b)) = Skipped(b)[Len(b)]
  BY SentAreFrames
<1>2. w \in Seq(Nat) /\ Len(w) \in Nat
  BY DEF Taken
<1>3. PICK n \in 0..Len(b) : \A i \in Nat : HasTaken(w, b, i) <=> i <= n
  BY <1>1, <1>2, WholeFrames
<1>4. \A i \in 0..Len(w) : EndFound(w, b, i)
  BY EndsFound
<1> DEFINE end == FrameEnds(w)
           whole == {i \in 1..Len(w) : end[i] <= Len(w)}
<1>5. ASSUME NEW i \in 1..Len(w)
      PROVE  end[i] <= Len(w) <=> i <= n
  <2>1. EndFound(w, b, i) /\ (HasTaken(w, b, i) <=> i <= n)
    BY <1>3, <1>4
  <2>2. PICK e \in Nat : e = end[i]
    BY <1>2, FrameEndsAt
  <2>3. (e > Len(w)) <=> ~(e <= Len(w))
    BY <1>2
  <2> QED
    BY <2>1, <2>2, <2>3, Zenon DEF EndFound, HasTaken
<1>6. ASSUME NEW i \in 1..n
      PROVE  i \in 1..Len(w) /\ HasTaken(w, b, i) /\ i \in 1..Len(b)
  <2>1. i \in 0..Len(b) /\ i \in Nat /\ i <= n /\ i \in 1..Len(b)
    OBVIOUS
  <2>2. HasTaken(w, b, i)
    BY <1>3, <2>1
  <2>3. PICK y \in Nat : y = Skipped(b)[i]
    BY <1>1, <2>1, SkippedAt
  <2>4. i <= y
    BY <1>1, <2>1, <2>3, SkippedGrows, Zenon
  <2>5. y <= Len(w)
    BY <2>2, <2>3, Zenon DEF HasTaken
  <2> QED
    BY <1>2, <2>1, <2>2, <2>4, <2>5
<1>7. whole = 1..n
  <2> HIDE DEF end
  <2>1. ASSUME NEW i \in whole
        PROVE  i \in 1..n
    BY <1>5
  <2>2. ASSUME NEW i \in 1..n
        PROVE  i \in whole
    <3>1. i \in 1..Len(w) /\ i <= n
      BY <1>6
    <3> QED
      BY <1>5, <3>1
  <2> QED
    BY <2>1, <2>2
<1>8. ASSUME NEW i \in 1..n
      PROVE  FrameAt(w, end[i - 1], end[i]) = b[i]
  <2>1. i \in 1..Len(w) /\ HasTaken(w, b, i) /\ i \in 1..Len(b)
    BY <1>6
  <2>2. i - 1 \in 0..Len(w) /\ i \in 0..Len(w) /\ i - 1 \in 0..i /\ i \in Nat
    BY <2>1
  <2>3. HasTaken(w, b, i - 1)
    BY <1>1, <1>2, <2>1, <2>2, TakenBefore, Zenon
  <2>4. end[i] = Skipped(b)[i] /\ end[i - 1] = Skipped(b)[i - 1]
    BY <1>4, <2>1, <2>2, <2>3, Zenon DEF EndFound
  <2>5. FrameAt(w, Skipped(b)[i - 1], Skipped(b)[i]) = b[i]
    BY <2>1, FrameRead
  <2> QED
    BY <2>4, <2>5
<1>9. Parsed(w) = [i \in 1..n |-> b[i]]
  <2>1. Parsed(w) = [i \in whole |-> FrameAt(w, end[i - 1], end[i])]
    BY Zenon DEF Parsed
  <2> HIDE DEF whole, end
  <2> QED
    BY <1>7, <1>8, <2>1
<1>10. SubSeq(b, 1, n) = [i \in 1..n |-> b[i]]
  OBVIOUS
<1>11. ASSUME Len(w) = Len(Contiguous(b))
       PROVE  n = Len(b)
  <2>1. Len(b) \in Nat /\ Len(b) <= Len(b) /\ Len(w) <= Len(w)
    BY <1>2
  <2>2. HasTaken(w, b, Len(b))
    BY <1>1, <1>11, <2>1, Zenon DEF HasTaken
  <2>3. Len(b) <= n
    BY <1>3, <2>1, <2>2
  <2> QED
    BY <2>3
<1> QED
  BY <1>9, <1>10, <1>11, Zenon

\* A reader that finds the frames has found payloads that fit.
LEMMA ParsedFits ==
  ASSUME NEW b \in Seq(SentFrames), NEW w \in Seq(Nat), Parsed(w) = b
  PROVE  Fits(b)
<1> SUFFICES ASSUME NEW i \in 1..Len(b)
             PROVE  Len(b[i].payload) < U32
  BY DEF Fits
<1> DEFINE end == FrameEnds(w)
           whole == {j \in 1..Len(w) : end[j] <= Len(w)}
           g == [j \in whole |-> FrameAt(w, end[j - 1], end[j])]
<1>1. b = g
  BY Zenon DEF Parsed
<1>2. DOMAIN g = whole /\ DOMAIN b = 1..Len(b)
  OBVIOUS
<1>3. i \in whole
  BY <1>1, <1>2, Zenon
<1>4. i \in 1..Len(w) /\ end[i] <= Len(w)
  BY <1>3
<1>5. b[i] = FrameAt(w, end[i - 1], end[i])
  <2>1. g[i] = FrameAt(w, end[i - 1], end[i])
    BY <1>3
  <2> QED
    BY <1>1, <2>1, Zenon
<1>6. PICK p \in Nat, e \in Nat, n \in Nat :
        p = end[i - 1] /\ e = end[i] /\ e = FrameEnd(w, p) /\ n = Len(w)
  <2>1. Len(w) \in Nat
    OBVIOUS
  <2> QED
    BY <1>4, <2>1, FrameEndsAt, Zenon
<1>7. e <= n /\ b[i] = FrameAt(w, p, e)
  BY <1>4, <1>5, <1>6, Zenon
<1> HIDE DEF end, whole, g
<1>8. p + HEADER_SIZE <= n
  <2> SUFFICES ASSUME ~(p + HEADER_SIZE <= n)
               PROVE  FALSE
    OBVIOUS
  <2>1. e = n + 1
    BY <1>6, Zenon DEF FrameEnd
  <2> QED
    BY <1>7, <2>1
<1>9. PICK x \in Seq(Nat) : x = SubSeq(w, p + 1, p + HEADER_SIZE) /\ Len(x) = HEADER_SIZE
  <2>1. /\ SubSeq(w, p + 1, p + HEADER_SIZE) \in Seq(Nat)
        /\ Len(SubSeq(w, p + 1, p + HEADER_SIZE)) = HEADER_SIZE
    <3>1. p + HEADER_SIZE <= Len(w)
      BY <1>6, <1>8, Zenon
    <3> QED
      BY <3>1 DEF HEADER_SIZE
  <2> QED
    BY <2>1, Zenon
<1>10. PICK l \in Nat : l = decode(x).payload_length
  BY <1>9, DecodeTyped, Zenon
<1>11. decode(encode(decode(x))) = decode(x)
  BY <1>9, DecodeTyped, Zenon
<1>12. e = p + HEADER_SIZE + l
  BY <1>6, <1>8, <1>9, <1>10, Zenon DEF FrameEnd
<1>13. PICK q \in Seq(Nat) : q = SubSeq(w, p + HEADER_SIZE + 1, e) /\ Len(q) = l
  <2>1. PICK k \in Nat : k = p + HEADER_SIZE
    BY DEF HEADER_SIZE
  <2>2. e = k + l /\ k + l <= Len(w)
    BY <1>6, <1>7, <1>12, <2>1, Zenon
  <2>3. SubSeq(w, k + 1, k + l) \in Seq(Nat) /\ Len(SubSeq(w, k + 1, k + l)) = l
    BY <2>2
  <2> QED
    BY <2>1, <2>2, <2>3, Zenon
<1>14. b[i] = [header |-> encode(decode(x)), payload |-> q]
  BY <1>7, <1>9, <1>13, Zenon DEF FrameAt, OutboundFrame
<1>15. b[i].header = encode(decode(x)) /\ b[i].payload = q
  BY <1>14
<1>16. decode(b[i].header).payload_length = LenAsU32(b[i].payload)
  BY DEF SentFrames
<1>17. l = l % U32
  BY <1>10, <1>11, <1>13, <1>15, <1>16, Zenon DEF LenAsU32
<1>18. l < U32
  BY <1>17, Widths
<1> QED
  BY <1>13, <1>15, <1>18, Zenon

-----------------------------------------------------------------------------
(* The inductive invariant                                                 *)

\* The pipe has taken the first bytes of the batch, the counter is their number
\* as long as the loop runs, and the slices of the next write are the rest.
Progress ==
  /\ Taken(wire, Contiguous(batch))
  /\ pc \in {"start", "first"} => wire = <<>>
  /\ pc \in {"start", "first", "rest", "next"} => total_written = Len(wire)
  /\ pc \in {"first", "next"} => LeftOf(slices, Contiguous(batch), Len(wire))
  /\ pc = "flush" \/ result = "Ok" => wire = Contiguous(batch)

IndInv ==
  /\ batch \in Seq(SentFrames)
  /\ result # "none" => pc = "done"
  /\ Progress

\* The bytes of the batch, their number and what is left of them after any k.
LEMMA BatchFacts ==
  ASSUME batch \in Seq(SentFrames)
  PROVE  /\ batch \in Seq(Frames)
         /\ Contiguous(batch) \in Seq(Nat)
         /\ total_size = Len(Contiguous(batch)) /\ total_size \in Nat
         /\ \A k \in Nat : LeftOf(build_remaining_slices(batch, k), Contiguous(batch), k)
<1>1. batch \in Seq(Frames)
  BY SentAreFrames
<1>2. /\ Contiguous(batch) \in Seq(Nat)
      /\ Len(Contiguous(batch)) = Skipped(batch)[Len(batch)]
      /\ \A k \in Nat : LeftOf(build_remaining_slices(batch, k), Contiguous(batch), k)
  <2>1. 0 \in Nat
    OBVIOUS
  <2> QED
    BY <1>1, <2>1, RemainingSlices
<1>3. Len(Contiguous(batch)) \in Nat
  BY <1>2
<1> QED
  BY <1>1, <1>2, <1>3, Zenon DEF total_size

\* It holds when write_batch is called: nothing is taken yet.
LEMMA InvInit == Init => IndInv
<1> SUFFICES ASSUME Init
             PROVE  IndInv
  OBVIOUS
<1>1. PICK calls \in Batches : batch = [i \in 1..Len(calls) |-> FrameSent(calls[i])]
  BY DEF Init
<1>2. calls \in Seq(Calls)
  BY BatchesAssumption
<1>3. \A i \in 1..Len(calls) : FrameSent(calls[i]) \in SentFrames
  BY <1>2, CallSends
<1>4. batch \in Seq(SentFrames)
  BY <1>1, <1>2, <1>3
<1>5. Contiguous(batch) \in Seq(Nat)
  BY <1>4, BatchFacts
<1>6. Taken(<<>>, Contiguous(batch)) /\ Len(<<>>) = 0
  BY <1>5, TakenEnds
<1> QED
  BY <1>4, <1>6 DEF Init, IndInv, Progress

\* Every step keeps it.
LEMMA InvNext == IndInv /\ [Next]_vars => IndInv'
<1> SUFFICES ASSUME IndInv, [Next]_vars
             PROVE  IndInv'
  OBVIOUS
<1> DEFINE c == Contiguous(batch)
<1>1. /\ batch \in Seq(Frames) /\ c \in Seq(Nat)
      /\ total_size = Len(c) /\ total_size \in Nat
      /\ \A k \in Nat : LeftOf(build_remaining_slices(batch, k), c, k)
  BY BatchFacts DEF IndInv
<1>2. batch' = batch
  BY DEF Next, EmptyBatch, BuildSlices, FirstWrite, Rebuild, NextWrite, WriteFails,
         Flush, FlushFails, Done, Return, vars
<1>3. Contiguous(batch)' = c /\ batch' \in Seq(SentFrames)
  BY <1>2 DEF IndInv, Contiguous
<1>4. Taken(wire, c) /\ wire \in Seq(Nat) /\ Len(wire) \in Nat /\ Len(wire) <= Len(c)
  BY DEF IndInv, Progress, Taken
<1> SUFFICES /\ result' # "none" => pc' = "done"
             /\ Taken(wire', c)
             /\ pc' \in {"start", "first"} => wire' = <<>>
             /\ pc' \in {"start", "first", "rest", "next"} => total_written' = Len(wire')
             /\ pc' \in {"first", "next"} => LeftOf(slices', c, Len(wire'))
             /\ pc' = "flush" \/ result' = "Ok" => wire' = c
  BY <1>3 DEF IndInv, Progress, Taken, LeftOf
<1> HIDE DEF c
<1>5. CASE EmptyBatch
  <2>1. wire = <<>> /\ wire' = wire /\ result' = "Ok" /\ pc' = "done"
    BY <1>5 DEF EmptyBatch, Return, IndInv, Progress
  <2>2. c = <<>>
    <3>1. Len(batch) = 0
      BY <1>5 DEF EmptyBatch
    <3>2. Skipped(batch)[0] = 0
      BY <1>1, SkippedSums
    <3>3. Len(c) = 0
      BY <1>1, <3>1, <3>2 DEF total_size
    <3> QED
      BY <1>1, <3>3
  <2> QED
    BY <1>4, <2>1, <2>2
<1>6. CASE BuildSlices
  <2>1. /\ pc = "start" /\ pc' = "first" /\ slices' = AllSlices(batch)
        /\ UNCHANGED <<total_written, wire, result>>
    BY <1>6 DEF BuildSlices
  <2>2. wire = <<>> /\ total_written = Len(wire) /\ result = "none"
    BY <2>1 DEF IndInv, Progress
  <2>3. Len(wire) = 0
    BY <2>2
  <2>4. LeftOf(slices', c, 0)
    BY <1>1, <2>1, FirstSlices
  <2> QED
    BY <1>4, <2>1, <2>2, <2>3, <2>4
<1>7. ASSUME NEW n \in Amounts, FirstWrite(n)
      PROVE  /\ Taken(wire', c)
             /\ \/ pc' = "flush" /\ result' = "none" /\ wire' = c
                \/ pc' = "done" /\ result' = "WriteZero"
                \/ pc' = "rest" /\ result' = "none" /\ total_written' = Len(wire')
  <2>1. /\ pc = "first" /\ n \in 0..Offered /\ PipeTakes(n)
    BY <1>7 DEF FirstWrite
  <2>2. wire = <<>> /\ result = "none"
    BY <2>1 DEF IndInv, Progress
  <2>3. /\ Taken(wire', c) /\ Len(wire') = Len(wire) + n
    <3>1. LeftOf(slices, c, Len(wire))
      BY <2>1 DEF IndInv, Progress, c
    <3> QED
      BY <1>1, <1>4, <2>1, <3>1, TakenMore DEF PipeTakes, Offered
  <2>4. Len(wire') = n
    <3>1. n \in Nat /\ Len(wire) = 0
      BY <1>1, <2>2 DEF Amounts
    <3> QED
      BY <2>3, <3>1
  <2>5. n = total_size => wire' = c
    BY <1>1, <2>3, <2>4, TakenEnds
  <2> QED
    BY <1>7, <2>2, <2>3, <2>4, <2>5 DEF FirstWrite
<1>8. CASE Rebuild
  <2>1. /\ pc = "rest" /\ pc' = (IF slices' = <<>> THEN "flush" ELSE "next")
        /\ slices' = (IF total_written < total_size
                      THEN build_remaining_slices(batch, total_written) ELSE <<>>)
        /\ UNCHANGED <<total_written, wire, result>>
    BY <1>8 DEF Rebuild
  <2>2. total_written = Len(wire) /\ result = "none"
    BY <2>1 DEF IndInv, Progress
  <2>3. CASE slices' = <<>>
    <3>1. Len(wire) = Len(c)
      <4>1. CASE total_written < total_size
        <5>1. LeftOf(<<>>, c, Len(wire))
          BY <1>1, <1>4, <2>1, <2>2, <2>3, <4>1
        <5>2. FlattenSeq(<<>>) = <<>> /\ 0 \in 0..0 /\ Len(<<>>) = 0
          BY FlattenEmpty
        <5>3. Len(wire) + Len(FlattenSeq(<<>>)) = Len(c)
          BY <1>1, <1>4, <5>1, <5>2, TakenMore
        <5> QED
          BY <1>4, <5>2, <5>3
      <4>2. CASE ~(total_written < total_size)
        BY <1>1, <1>4, <2>2, <4>2
      <4> QED
        BY <4>1, <4>2
    <3>2. wire = c
      BY <1>1, <1>4, <3>1, TakenEnds
    <3> QED
      BY <1>4, <2>1, <2>2, <2>3, <3>2
  <2>4. CASE slices' # <<>>
    <3>1. slices' = build_remaining_slices(batch, Len(wire))
      BY <2>1, <2>2, <2>4
    <3>2. LeftOf(slices', c, Len(wire))
      BY <1>1, <1>4, <3>1
    <3> QED
      BY <1>4, <2>1, <2>2, <2>4, <3>2
  <2> QED
    BY <2>3, <2>4
<1>9. ASSUME NEW n \in Amounts, NextWrite(n)
      PROVE  /\ Taken(wire', c)
             /\ \/ pc' = "done" /\ result' = "WriteZero"
                \/ pc' = "rest" /\ result' = "none" /\ total_written' = Len(wire')
  <2>1. /\ pc = "next" /\ n \in 0..Offered /\ PipeTakes(n)
    BY <1>9 DEF NextWrite
  <2>2. /\ total_written = Len(wire) /\ LeftOf(slices, c, Len(wire)) /\ result = "none"
    BY <2>1 DEF IndInv, Progress, c
  <2>3. /\ Taken(wire', c) /\ Len(wire') = Len(wire) + n
    BY <1>1, <1>4, <2>1, <2>2, TakenMore DEF PipeTakes, Offered
  <2>4. \/ pc' = "done" /\ result' = "WriteZero"
        \/ /\ pc' = "rest" /\ total_written' = total_written + n
           /\ UNCHANGED result
    BY <1>9 DEF NextWrite
  <2> QED
    BY <2>2, <2>3, <2>4, Zenon
<1>10. CASE WriteFails \/ FlushFails
  <2>1. pc' = "done" /\ result' = "Io" /\ wire' = wire
    BY <1>10 DEF WriteFails, FlushFails, Return
  <2> QED
    BY <1>4, <2>1
<1>11. CASE Flush
  <2>1. pc' = "done" /\ result' = "Ok" /\ wire' = wire /\ pc = "flush"
    BY <1>11 DEF Flush, Return
  <2>2. wire = c
    BY <2>1 DEF IndInv, Progress, c
  <2> QED
    BY <1>4, <2>1, <2>2
<1>12. CASE UNCHANGED vars
  BY <1>4, <1>12 DEF vars, IndInv, Progress, c
<1> QED
  BY <1>5, <1>6, <1>7, <1>8, <1>9, <1>10, <1>11, <1>12 DEF Next, Done

-----------------------------------------------------------------------------
(* Theorems                                                                *)

\* The pipe has taken the first bytes of the batch, and the loop knows how many,
\* in every state of write_batch.
THEOREM Invariance == Spec => []IndInv
<1> QED
  BY InvInit, InvNext, PTL DEF Spec

\* RemainderExact, for every batch: whenever write_vectored is called, its
\* slices are the bytes that the pipe has not taken, each once and in order, and
\* none is empty.
THEOREM Remainder == Spec => []RemainderExact
<1>1. IndInv => RemainderExact
  <2> SUFFICES ASSUME IndInv, pc \in {"first", "next"}
               PROVE  /\ total_written = Len(wire)
                      /\ wire \o FlattenSeq(slices) = Contiguous(batch)
                      /\ \A i \in 1..Len(slices) : slices[i] # <<>>
    BY DEF RemainderExact
  <2>1. /\ Taken(wire, Contiguous(batch)) /\ total_written = Len(wire)
        /\ LeftOf(slices, Contiguous(batch), Len(wire))
    BY DEF IndInv, Progress
  <2>2. Contiguous(batch) \in Seq(Nat)
    BY BatchFacts DEF IndInv
  <2>3. wire \o SubSeq(Contiguous(batch), Len(wire) + 1, Len(Contiguous(batch)))
          = Contiguous(batch)
    BY <2>1, <2>2, TakenAndLeft
  <2> QED
    BY <2>1, <2>3, Zenon DEF LeftOf
<1> QED
  BY <1>1, Invariance, PTL

\* OutcomeExact, for every batch: write_batch returns Ok only when the pipe has
\* taken every byte, and it has taken a prefix in any case.
THEOREM Outcome == Spec => []OutcomeExact
<1>1. IndInv => OutcomeExact
  <2> SUFFICES ASSUME IndInv
               PROVE  OutcomeExact
    OBVIOUS
  <2>1. /\ Taken(wire, Contiguous(batch))
        /\ result = "Ok" => wire = Contiguous(batch)
    BY DEF IndInv, Progress
  <2>2. SubSeq(wire, 1, Len(wire)) = wire
    BY <2>1, SubSeqFull DEF Taken
  <2> QED
    BY <2>1, <2>2, Zenon DEF OutcomeExact, IsPrefix, Taken
<1> QED
  BY <1>1, Invariance, PTL

\* FramesRecovered, for every batch: whoever reads what the pipe has taken, by
\* the lengths in the headers alone, finds the first frames of the batch, and
\* after Ok all of them, exactly as long as no length was cut to 32 bits.
THEOREM Recovered == Spec => []FramesRecovered
<1>1. IndInv => FramesRecovered
  <2> SUFFICES ASSUME IndInv
               PROVE  FramesRecovered
    OBVIOUS
  <2> DEFINE c == Contiguous(batch)
             copies == [i \in 1..Len(batch) |->
                          build_frame(decode(batch[i].header), batch[i].payload)]
  <2>1. /\ batch \in Seq(SentFrames) /\ Taken(wire, c)
        /\ result = "Ok" => wire = c
    BY DEF IndInv, Progress
  <2>2. wire \in Seq(Nat)
    BY <2>1 DEF Taken
  <2>3. ASSUME Fits(batch)
        PROVE  \E n \in 0..Len(batch) :
                 /\ Parsed(wire) = SubSeq(batch, 1, n)
                 /\ Len(wire) = Len(c) => n = Len(batch)
    BY <2>1, <2>3, ParsedPrefix
  <2>4. Fits(batch) => IsPrefix(Parsed(wire), batch)
    <3> SUFFICES ASSUME Fits(batch)
                 PROVE  IsPrefix(Parsed(wire), batch)
      OBVIOUS
    <3>1. PICK n \in 0..Len(batch) : Parsed(wire) = SubSeq(batch, 1, n)
      BY <2>3
    <3>2. PICK s \in Seq(SentFrames) : s = SubSeq(batch, 1, n) /\ Len(s) = n
      <4>1. SubSeq(batch, 1, n) \in Seq(SentFrames) /\ Len(SubSeq(batch, 1, n)) = n
        BY <2>1
      <4> QED
        BY <4>1, Zenon
    <3>3. n <= Len(batch)
      OBVIOUS
    <3>4. SubSeq(s, 1, Len(s)) = s
      BY SubSeqFull
    <3> QED
      BY <3>1, <3>2, <3>3, <3>4, Zenon DEF IsPrefix
  <2>5. ASSUME result = "Ok"
        PROVE  Parsed(wire) = batch <=> Fits(batch)
    <3>1. ASSUME Fits(batch)
          PROVE  Parsed(wire) = batch
      <4>1. PICK n \in 0..Len(batch) :
              Parsed(wire) = SubSeq(batch, 1, n) /\ n = Len(batch)
        BY <2>1, <2>3, <2>5, <3>1, Zenon
      <4>2. SubSeq(batch, 1, Len(batch)) = batch
        BY <2>1, SubSeqFull
      <4> QED
        BY <4>1, <4>2, Zenon
    <3>2. ASSUME Parsed(wire) = batch
          PROVE  Fits(batch)
      BY <2>1, <2>2, <3>2, ParsedFits
    <3> QED
      BY <3>1, <3>2, Zenon
  <2>6. copies = Whole(batch)
    <3>1. ASSUME NEW i \in 1..Len(batch)
          PROVE  build_frame(decode(batch[i].header), batch[i].payload)
                   = batch[i].header \o batch[i].payload
      <4>1. batch[i].header = encode(decode(batch[i].header))
        BY <2>1 DEF SentFrames
      <4> QED
        BY <4>1, Zenon DEF build_frame
    <3> QED
      BY <3>1, Zenon DEF Whole
  <2>7. ASSUME result = "Ok"
        PROVE  wire = FlattenSeq(copies)
    BY <2>1, <2>6, <2>7, Zenon DEF Contiguous, Whole
  <2> QED
    BY <2>4, <2>5, <2>7, Zenon DEF FramesRecovered
<1> QED
  BY <1>1, Invariance, PTL
=============================================================================
