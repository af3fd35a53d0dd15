------------------------- MODULE PodDevices_proofs -------------------------
(***************************************************************************)
(* Proofs about the text of the device annotation and the alignment of its *)
(* segments, for any number of containers and devices: what is encoded is  *)
(* decoded again, the alignment undoes the scheduler's, and a pod's        *)
(* containers are served in order from the text alone.                     *)
(*                                                                         *)
(* Induction is done by hand: the numbers for which a fact fails have no   *)
(* least element (MinExists).                                              *)
(***************************************************************************)
EXTENDS AnnotationServer, FiniteSetTheorems, TLAPS

-----------------------------------------------------------------------------
(* Ranks and minima of finite sets of numbers                              *)

LEMMA RankBounds ==
  ASSUME NEW S \in SUBSET Int, IsFiniteSet(S), NEW x \in S
  PROVE  Rank(S, x) \in 1 .. Cardinality(S)
<1> DEFINE low == {j \in S : j <= x}
<1>1. /\ IsFiniteSet(low) /\ Cardinality(low) <= Cardinality(S)
      /\ Cardinality(low) \in Nat /\ Cardinality(S) \in Nat
  BY FS_Subset, FS_CardinalityType
<1>2. x \in low
  OBVIOUS
<1>3. Cardinality(low) # 0
  BY <1>1, <1>2, FS_EmptySet
<1> QED BY <1>1, <1>3 DEF Rank

LEMMA RankGrows ==
  ASSUME NEW S \in SUBSET Int, IsFiniteSet(S), NEW x \in S, NEW y \in S, x < y
  PROVE  Rank(S, x) < Rank(S, y)
<1> DEFINE low == {j \in S : j <= x}
           high == {j \in S : j <= y}
<1>1. IsFiniteSet(high) /\ Cardinality(high) \in Nat
  BY FS_Subset, FS_CardinalityType
<1>2. low \in SUBSET high /\ low # high
  <2>1. y \in high /\ y \notin low
    OBVIOUS
  <2>2. ASSUME NEW j \in low PROVE j \in high
    <3>1. j \in Int /\ x \in Int /\ y \in Int /\ j <= x
      OBVIOUS
    <3> QED BY <3>1
  <2> QED BY <2>1, <2>2
<1>3. Cardinality(low) <= Cardinality(high) /\ Cardinality(low) # Cardinality(high)
  BY <1>1, <1>2, FS_Subset
<1>4. Cardinality(low) \in Nat
  BY <1>1, <1>2, FS_Subset, FS_CardinalityType
<1> QED BY <1>1, <1>3, <1>4 DEF Rank

\* No two elements have the same rank.
LEMMA RankTells ==
  ASSUME NEW S \in SUBSET Int, IsFiniteSet(S), NEW x \in S, NEW y \in S,
         Rank(S, x) = Rank(S, y)
  PROVE  x = y
<1>1. x < y \/ y < x \/ x = y
  OBVIOUS
<1>2. Rank(S, x) \in Int /\ Rank(S, y) \in Int
  BY RankBounds
<1> QED BY <1>1, <1>2, RankGrows

\* Every rank is taken.
LEMMA RankOnto ==
  ASSUME NEW S \in SUBSET Int, IsFiniteSet(S), NEW k \in 1 .. Cardinality(S)
  PROVE  \E x \in S : Rank(S, x) = k
<1> DEFINE ranks == 1 .. Cardinality(S)
           f == [x \in S |-> Rank(S, x)]
<1>0. Cardinality(S) \in Nat
  BY FS_CardinalityType
<1>1. f \in Injection(S, ranks)
  <2>1. f \in [S -> ranks]
    BY RankBounds
  <2>2. \A x, y \in S : f[x] = f[y] => x = y
    BY RankTells
  <2> QED BY <2>1, <2>2 DEF Injection, IsInjective
<1>2. IsFiniteSet(ranks) /\ Cardinality(ranks) = Cardinality(S)
  <2>1. IsFiniteSet(ranks) /\ Cardinality(ranks) = IF 1 > Cardinality(S) THEN 0 ELSE Cardinality(S) - 1 + 1
    BY <1>0, FS_Interval
  <2> QED BY <1>0, <2>1
<1>3. f \in Surjection(S, ranks)
  BY <1>1, <1>2, FS_Injection
<1>4. \E x \in S : f[x] = k
  BY <1>3 DEF Surjection
<1> QED BY <1>4

\* An order-preserving renaming keeps ranks and the number of elements.
LEMMA RankRenamed ==
  ASSUME NEW S \in SUBSET Int, IsFiniteSet(S), NEW T \in SUBSET Int, NEW g \in [S -> T],
         \A i, j \in S : i < j => g[i] < g[j],
         \A y \in T : \E i \in S : g[i] = y
  PROVE  /\ Cardinality(T) = Cardinality(S) /\ IsFiniteSet(T)
         /\ \A x \in S : Rank(T, g[x]) = Rank(S, x)
<1>1. \A i, j \in S : (i = j <=> g[i] = g[j]) /\ (i <= j <=> g[i] <= g[j])
  <2> SUFFICES ASSUME NEW i \in S, NEW j \in S
               PROVE  (i = j <=> g[i] = g[j]) /\ (i <= j <=> g[i] <= g[j])
    OBVIOUS
  <2>1. i \in Int /\ j \in Int /\ g[i] \in Int /\ g[j] \in Int
    OBVIOUS
  <2>2. i < j \/ j < i \/ i = j
    BY <2>1
  <2> QED BY <2>1, <2>2
<1>2. g \in Bijection(S, T)
  BY <1>1 DEF Bijection, Injection, Surjection, IsInjective
<1>3. Cardinality(T) = Cardinality(S) /\ IsFiniteSet(T)
  BY <1>2, FS_Bijection DEF ExistsBijection
<1>4. ASSUME NEW x \in S
      PROVE  Rank(T, g[x]) = Rank(S, x)
  <2> DEFINE low == {i \in S : i <= x}
             high == {y \in T : y <= g[x]}
             f == [i \in low |-> g[i]]
  <2>1. f \in [low -> high]
    BY <1>1
  <2>2. \A i, j \in low : f[i] = f[j] => i = j
    BY <1>1
  <2>3. \A y \in high : \E i \in low : f[i] = y
    BY <1>1
  <2>4. f \in Bijection(low, high)
    BY <2>1, <2>2, <2>3 DEF Bijection, Injection, Surjection, IsInjective
  <2>5. IsFiniteSet(low)
    BY FS_Subset
  <2>6. Cardinality(low) = Cardinality(high)
    BY <2>4, <2>5, FS_Bijection DEF ExistsBijection
  <2> QED BY <2>6 DEF Rank
<1> QED BY <1>3, <1>4

LEMMA MinIs ==
  ASSUME NEW S \in SUBSET Int, NEW x \in S, \A y \in S : x <= y
  PROVE  Min(S) = x
<1>1. Min(S) \in S /\ \A y \in S : Min(S) <= y
  BY DEF Min
<1>2. Min(S) <= x /\ x <= Min(S) /\ Min(S) \in Int
  BY <1>1
<1> QED BY <1>2

LEMMA MinExists ==
  ASSUME NEW S \in SUBSET Int, IsFiniteSet(S), S # {}
  PROVE  Min(S) \in S /\ \A y \in S : Min(S) <= y
<1>1. Cardinality(S) \in Nat \ {0}
  BY FS_CardinalityType, FS_EmptySet
<1>2. PICK x \in S : Rank(S, x) = 1
  BY <1>1, RankOnto
<1>3. \A y \in S : x <= y
  <2> SUFFICES ASSUME NEW y \in S, y < x PROVE FALSE
    OBVIOUS
  <2>1. Rank(S, y) < 1 /\ Rank(S, y) \in 1 .. Cardinality(S)
    BY <1>2, RankGrows, RankBounds
  <2> QED BY <1>1, <2>1
<1> QED BY <1>3, MinIs

LEMMA RankOfInterval ==
  ASSUME NEW n \in Nat, NEW k \in 1 .. n
  PROVE  Rank(1 .. n, k) = k
<1>1. {j \in 1 .. n : j <= k} = 1 .. k
  OBVIOUS
<1>2. Cardinality(1 .. k) = k
  BY FS_Interval
<1> QED BY <1>1, <1>2 DEF Rank

-----------------------------------------------------------------------------
(* A list of parts and the text they make up                               *)

\* The recursion of FlattenSeq has a solution.
Flattening(seqs, n, f) ==
  f = [i \in 1 .. n |-> IF i = 1 THEN seqs[i] ELSE f[i - 1] \o seqs[i]]

LEMMA FlattenExists ==
  ASSUME NEW seqs, NEW n \in Nat
  PROVE  \E f : Flattening(seqs, n, f)
<1> DEFINE bad == {m \in 0 .. n : ~ \E f : Flattening(seqs, m, f)}
<1>1. SUFFICES ASSUME bad # {} PROVE FALSE
  OBVIOUS
<1>2. PICK m \in bad : \A k \in bad : m <= k
  <2>1. bad \in SUBSET Int /\ IsFiniteSet(bad)
    <3>1. IsFiniteSet(0 .. n) /\ bad \subseteq 0 .. n
      BY FS_Interval
    <3> QED BY <3>1, FS_Subset
  <2> QED BY <1>1, <2>1, MinExists
<1>3. m \in 0 .. n /\ ~ \E f : Flattening(seqs, m, f)
  OBVIOUS
<1>4. CASE m = 0
  <2> DEFINE f == [i \in 1 .. 0 |-> seqs[i]]
  <2>1. f = [i \in 1 .. 0 |-> IF i = 1 THEN seqs[i] ELSE f[i - 1] \o seqs[i]]
    OBVIOUS
  <2> QED BY <1>3, <1>4, <2>1 DEF Flattening
<1>5. CASE m # 0
  <2>1. m - 1 \in 0 .. n /\ m - 1 \notin bad
    BY <1>2, <1>3, <1>5
  <2>2. PICK g : Flattening(seqs, m - 1, g)
    BY <2>1
  <2> DEFINE f == [i \in 1 .. m |->
                    IF i = m THEN IF i = 1 THEN seqs[i] ELSE g[i - 1] \o seqs[i] ELSE g[i]]
  <2>3. ASSUME NEW i \in 1 .. m
        PROVE  f[i] = IF i = 1 THEN seqs[i] ELSE f[i - 1] \o seqs[i]
    <3>1. CASE i = m /\ i = 1
      BY <3>1
    <3>2. CASE i = m /\ i # 1
      <4>1. f[i - 1] = g[i - 1]
        BY <1>3, <3>2
      <4> QED BY <3>2, <4>1
    <3>3. CASE i # m
      <4>1. i \in 1 .. m - 1 /\ f[i] = g[i] /\ (i # 1 => f[i - 1] = g[i - 1])
        BY <1>3, <3>3
      <4>2. g[i] = IF i = 1 THEN seqs[i] ELSE g[i - 1] \o seqs[i]
        BY <2>2, <4>1 DEF Flattening
      <4> QED BY <4>1, <4>2
    <3> QED BY <3>1, <3>2, <3>3
  <2> HIDE DEF f
  <2>4. f = [i \in 1 .. m |-> f[i]]
    BY DEF f
  <2>5. Flattening(seqs, m, f)
    BY <2>3, <2>4 DEF Flattening
  <2> QED BY <1>3, <2>5
<1> QED BY <1>4, <1>5

\* off[i] is where the i-th part ends in the text.
Blocks(text1, parts, off) ==
  /\ off \in [0 .. Len(parts) -> Nat] /\ off[0] = 0 /\ Len(text1) = off[Len(parts)]
  /\ \A i, j \in 0 .. Len(parts) : i <= j => off[i] <= off[j]
  /\ \A i \in 1 .. Len(parts) :
       /\ off[i] = off[i - 1] + Len(parts[i])
       /\ \A j \in 1 .. Len(parts[i]) : text1[off[i - 1] + j] = parts[i][j]

LEMMA ConcatFacts ==
  ASSUME NEW B, NEW s \in Seq(B), NEW t \in Seq(B)
  PROVE  /\ s \o t \in Seq(B) /\ Len(s \o t) = Len(s) + Len(t)
         /\ Len(s) \in Nat /\ Len(t) \in Nat
         /\ \A j \in 1 .. Len(s) : (s \o t)[j] = s[j]
         /\ \A j \in 1 .. Len(t) : (s \o t)[Len(s) + j] = t[j]
<1>1. \A j \in 1 .. Len(s) + Len(t) : (s \o t)[j] = IF j <= Len(s) THEN s[j] ELSE t[j - Len(s)]
  OBVIOUS
<1>2. ASSUME NEW j \in 1 .. Len(t) PROVE (s \o t)[Len(s) + j] = t[j]
  <2>1. Len(s) + j \in 1 .. Len(s) + Len(t) /\ ~(Len(s) + j <= Len(s)) /\ (Len(s) + j) - Len(s) = j
    OBVIOUS
  <2> QED BY <1>1, <2>1
<1> QED BY <1>1, <1>2

LEMMA WithinBlock ==
  ASSUME NEW a \in Nat, NEW l \in Nat, NEW j \in 1 .. l, NEW b \in Nat, a + l <= b
  PROVE  a + j \in 1 .. b
OBVIOUS

LEMMA FlattenBlocks ==
  ASSUME NEW B, NEW parts \in Seq(Seq(B))
  PROVE  /\ FlattenSeq(parts) \in Seq(B)
         /\ \E off : Blocks(FlattenSeq(parts), parts, off)
<1> DEFINE n == Len(parts)
<1>0. n \in Nat /\ DOMAIN parts = 1 .. n /\ \A i \in 1 .. n : parts[i] \in Seq(B)
  OBVIOUS
<1>1. CASE n = 0
  <2> DEFINE off == [i \in 0 .. 0 |-> 0]
  <2>1. FlattenSeq(parts) = parts /\ parts = <<>>
    BY <1>1 DEF FlattenSeq
  <2>2. Blocks(FlattenSeq(parts), parts, off)
    BY <1>1, <2>1 DEF Blocks
  <2> QED BY <2>1, <2>2
<1>2. CASE n # 0
  <2> DEFINE fl == CHOOSE f : Flattening(parts, n, f)
  <2>1. FlattenSeq(parts) = fl[n]
    BY <1>2 DEF FlattenSeq, Flattening
  <2>2. Flattening(parts, n, fl)
    BY <1>0, FlattenExists
  <2> HIDE DEF fl
  <2>3. \A i \in 1 .. n : fl[i] = IF i = 1 THEN parts[i] ELSE fl[i - 1] \o parts[i]
    BY <2>2 DEF Flattening
  <2> DEFINE pre(k) == [i \in 1 .. k |-> parts[i]]
             good(k) == fl[k] \in Seq(B) /\ \E off : Blocks(fl[k], pre(k), off)
             bad == {k \in 1 .. n : ~good(k)}
  <2>4. good(1)
    <3> DEFINE off == [i \in 0 .. 1 |-> IF i = 0 THEN 0 ELSE Len(parts[1])]
    <3>1. fl[1] = parts[1] /\ parts[1] \in Seq(B) /\ pre(1) = <<parts[1]>>
      BY <1>0, <1>2, <2>3
    <3>2. Blocks(fl[1], pre(1), off)
      BY <3>1 DEF Blocks
    <3> QED BY <3>1, <3>2
  <2>5. ASSUME NEW k \in 2 .. n, good(k - 1) PROVE good(k)
    <3>0. k \in 1 .. n /\ k # 1 /\ k \in Nat
      BY <1>0
    <3>1. fl[k] = fl[k - 1] \o parts[k] /\ parts[k] \in Seq(B) /\ fl[k - 1] \in Seq(B)
      BY <1>0, <2>3, <2>5, <3>0
    <3>2. PICK o : Blocks(fl[k - 1], pre(k - 1), o)
      BY <2>5
    <3> DEFINE off == [i \in 0 .. k |-> IF i = k THEN Len(fl[k]) ELSE o[i]]
    <3>3. /\ Len(pre(k)) = k /\ Len(pre(k - 1)) = k - 1
          /\ \A i \in 1 .. k : pre(k)[i] = parts[i]
          /\ \A i \in 1 .. k - 1 : pre(k - 1)[i] = parts[i]
      BY <1>0
    <3>4. /\ fl[k] \in Seq(B) /\ Len(fl[k]) = Len(fl[k - 1]) + Len(parts[k])
          /\ Len(fl[k - 1]) \in Nat /\ Len(parts[k]) \in Nat
          /\ \A j \in 1 .. Len(fl[k - 1]) : fl[k][j] = fl[k - 1][j]
          /\ \A j \in 1 .. Len(parts[k]) : fl[k][Len(fl[k - 1]) + j] = parts[k][j]
      <4> DEFINE s == fl[k - 1]
                 t == parts[k]
      <4>1. s \in Seq(B) /\ t \in Seq(B) /\ fl[k] = s \o t
        BY <3>1
      <4> HIDE DEF s, t
      <4>2. /\ fl[k] \in Seq(B) /\ Len(fl[k]) = Len(s) + Len(t)
            /\ Len(s) \in Nat /\ Len(t) \in Nat
            /\ \A j \in 1 .. Len(s) : fl[k][j] = s[j]
            /\ \A j \in 1 .. Len(t) : fl[k][Len(s) + j] = t[j]
        BY <4>1, ConcatFacts
      <4> QED BY <4>2 DEF s, t
    <3>5. /\ o \in [0 .. k - 1 -> Nat] /\ o[0] = 0 /\ Len(fl[k - 1]) = o[k - 1]
          /\ \A i, j \in 0 .. k - 1 : i <= j => o[i] <= o[j]
          /\ \A i \in 1 .. k - 1 :
               /\ o[i] = o[i - 1] + Len(parts[i])
               /\ \A j \in 1 .. Len(parts[i]) : fl[k - 1][o[i - 1] + j] = parts[i][j]
      BY <3>2, <3>3 DEF Blocks
    <3>6. /\ off \in [0 .. k -> Nat] /\ off[k] = Len(fl[k])
          /\ \A i \in 0 .. k - 1 : off[i] = o[i] /\ o[i] \in Nat
      BY <3>0, <3>4, <3>5
    <3> HIDE DEF pre, off
    <3>e. /\ off[k - 1] = o[k - 1] /\ o[k - 1] \in Nat
          /\ Len(fl[k - 1]) = o[k - 1] /\ off[k] = o[k - 1] + Len(parts[k])
      <4>1. k - 1 \in 0 .. k - 1
        BY <3>0
      <4>2. off[k - 1] = o[k - 1] /\ o[k - 1] \in Nat
        BY <4>1, <3>6
      <4>3. Len(fl[k]) = Len(fl[k - 1]) + Len(parts[k])
        BY <3>4
      <4>4. Len(fl[k - 1]) = o[k - 1]
        BY <3>5
      <4> QED BY <4>2, <4>3, <4>4, <3>6
    <3>7. ASSUME NEW i \in 0 .. k, NEW j \in 0 .. k, i <= j PROVE off[i] <= off[j]
      <4>1. CASE i = k
        BY <4>1, <3>0, <3>6, <3>7
      <4>2. CASE i # k /\ j # k
        BY <4>2, <3>0, <3>5, <3>6, <3>7
      <4>3. CASE i # k /\ j = k
        <5>1. o[i] <= o[k - 1]
          BY <4>3, <3>0, <3>5
        <5>2. off[i] = o[i] /\ o[i] \in Nat /\ Len(parts[k]) \in Nat
          BY <4>3, <3>0, <3>4, <3>6
        <5> QED BY <4>3, <5>1, <5>2, <3>e
      <4> QED BY <4>1, <4>2, <4>3
    <3>8. ASSUME NEW i \in 1 .. k
          PROVE  /\ off[i] = off[i - 1] + Len(parts[i])
                 /\ \A j \in 1 .. Len(parts[i]) : fl[k][off[i - 1] + j] = parts[i][j]
      <4>1. CASE i = k
        <5>1. off[k] = off[k - 1] + Len(parts[k]) /\ off[k - 1] = Len(fl[k - 1])
          BY <3>e
        <5> QED BY <4>1, <5>1, <3>4
      <4>2. CASE i # k
        <5>1. /\ i \in 1 .. k - 1 /\ i - 1 \in 0 .. k - 1 /\ i \in 0 .. k - 1
              /\ off[i] = o[i] /\ off[i - 1] = o[i - 1] /\ o[i - 1] \in Nat
          BY <4>2, <3>0, <3>6
        <5>2. ASSUME NEW j \in 1 .. Len(parts[i])
              PROVE  fl[k][off[i - 1] + j] = parts[i][j]
          <6>1. o[i - 1] + j \in 1 .. Len(fl[k - 1])
            <7>1. o[i - 1] + Len(parts[i]) <= o[k - 1]
              BY <5>1, <3>0, <3>5
            <7>2. o[i - 1] \in Nat /\ Len(parts[i]) \in Nat /\ o[k - 1] \in Nat
              BY <1>0, <5>1, <3>e
            <7>3. o[i - 1] + j \in 1 .. o[k - 1]
              BY <7>1, <7>2, WithinBlock
            <7> QED BY <7>3, <3>e
          <6>2. fl[k - 1][o[i - 1] + j] = parts[i][j]
            BY <5>1, <3>5
          <6>3. fl[k][o[i - 1] + j] = fl[k - 1][o[i - 1] + j]
            BY <6>1, <3>4
          <6> QED BY <5>1, <6>2, <6>3
        <5> QED BY <5>1, <5>2, <3>5
      <4> QED BY <4>1, <4>2
    <3>9. Blocks(fl[k], pre(k), off)
      <4>1. \A i, j \in 0 .. k : i <= j => off[i] <= off[j]
        BY <3>7
      <4>2. \A i \in 1 .. k :
              /\ off[i] = off[i - 1] + Len(pre(k)[i])
              /\ \A j \in 1 .. Len(pre(k)[i]) : fl[k][off[i - 1] + j] = pre(k)[i][j]
        BY <3>3, <3>8
      <4>3. off[0] = 0
        BY <3>0, <3>5, <3>6
      <4> QED BY <3>3, <3>6, <4>1, <4>2, <4>3 DEF Blocks
    <3> QED BY <3>4, <3>9
  <2>6. good(n)
    <3>0. n \in 1 .. n
      BY <1>0, <1>2
    <3> SUFFICES ASSUME bad # {} PROVE FALSE
      BY <3>0
    <3>1. IsFiniteSet(bad) /\ bad \in SUBSET Int
      <4>1. IsFiniteSet(1 .. n) /\ bad \subseteq 1 .. n
        BY <1>0, FS_Interval
      <4> QED BY <4>1, FS_Subset
    <3>2. PICK k \in bad : \A m \in bad : k <= m
      BY <3>1, MinExists
    <3>3. k \in 1 .. n /\ ~good(k) /\ \A m \in 1 .. n : ~good(m) => k <= m
      BY <3>2
    <3> HIDE DEF good
    <3>4. k \in 2 .. n /\ k - 1 \in 1 .. n /\ good(k - 1)
      BY <3>3, <2>4, <1>0
    <3> QED BY <3>3, <3>4, <2>5
  <2>7. pre(n) = parts
    BY <1>0
  <2> QED BY <2>1, <2>6, <2>7
<1> QED BY <1>1, <1>2

\* Every position of the text is one of a part.
Covered(txt, parts, off) ==
  \A p \in 1 .. Len(txt) :
    \E i \in 1 .. Len(parts) : \E j \in 1 .. Len(parts[i]) : p = off[i - 1] + j

LEMMA BlockAt ==
  ASSUME NEW B, NEW parts \in Seq(Seq(B)), NEW txt, NEW off, Blocks(txt, parts, off)
  PROVE  Covered(txt, parts, off)
<1> SUFFICES ASSUME NEW p \in 1 .. Len(txt)
             PROVE  \E i \in 1 .. Len(parts) : \E j \in 1 .. Len(parts[i]) : p = off[i - 1] + j
  BY DEF Covered
<1> DEFINE n == Len(parts)
           past == {i \in 1 .. n : p <= off[i]}
<1>0. n \in Nat /\ \A i \in 1 .. n : Len(parts[i]) \in Nat
  OBVIOUS
<1>1. /\ off \in [0 .. n -> Nat] /\ off[0] = 0 /\ Len(txt) = off[n]
      /\ \A i \in 1 .. n : off[i] = off[i - 1] + Len(parts[i])
  BY DEF Blocks
<1>2. p \in Nat /\ 1 <= p /\ p <= off[n] /\ off[n] \in Nat
  <2>1. off[n] \in Nat
    BY <1>0, <1>1
  <2> QED BY <1>1, <2>1
<1>3. n \in past
  <2>1. n # 0
    BY <1>1, <1>2
  <2> QED BY <1>0, <1>2, <2>1
<1>4. IsFiniteSet(past) /\ past \in SUBSET Int
  <2>1. IsFiniteSet(1 .. n) /\ past \subseteq 1 .. n
    BY <1>0, FS_Interval
  <2> QED BY <2>1, FS_Subset
<1>5. PICK i \in past : \A m \in past : i <= m
  BY <1>3, <1>4, MinExists
<1>6. i \in 1 .. n /\ p <= off[i] /\ off[i - 1] \in Nat /\ off[i] \in Nat
  <2>1. i \in 1 .. n /\ p <= off[i]
    BY <1>5
  <2>2. i \in 0 .. n /\ i - 1 \in 0 .. n
    BY <1>0, <2>1
  <2> QED BY <1>1, <2>1, <2>2
<1>7. off[i - 1] < p
  <2>1. CASE i = 1
    BY <2>1, <1>1, <1>2
  <2>2. CASE i # 1
    <3>1. i - 1 \in 1 .. n /\ i - 1 \notin past
      BY <2>2, <1>5, <1>6
    <3> QED BY <3>1, <1>2, <1>6
  <2> QED BY <2>1, <2>2
<1>8. off[i] = off[i - 1] + Len(parts[i]) /\ Len(parts[i]) \in Nat
  BY <1>0, <1>1, <1>6
<1> DEFINE j == p - off[i - 1]
<1>9. j \in 1 .. Len(parts[i]) /\ p = off[i - 1] + j
  <2> DEFINE a == off[i - 1]
             l == Len(parts[i])
  <2>1. a \in Nat /\ l \in Nat /\ p \in Nat /\ a < p /\ p <= a + l
    BY <1>2, <1>6, <1>7, <1>8
  <2> HIDE DEF a, l
  <2>2. p - a \in 1 .. l /\ p = a + (p - a)
    BY <2>1
  <2> QED BY <2>2 DEF a, l
<1> QED BY <1>6, <1>9

\* Where the separators of an encoded list are, and what is between them.
Joints(txt, parts, sep, off) ==
  /\ off \in [0 .. Len(parts) -> Nat] /\ off[0] = 0 /\ Len(txt) = off[Len(parts)]
  /\ \A i, j \in 0 .. Len(parts) : i < j => off[i] < off[j]
  /\ \A i \in 1 .. Len(parts) :
       /\ off[i] = off[i - 1] + Len(parts[i]) + 1 /\ txt[off[i]] = sep
       /\ \A j \in 1 .. Len(parts[i]) : txt[off[i - 1] + j] = parts[i][j]
  /\ \A p \in 1 .. Len(txt) :
       \/ \E i \in 1 .. Len(parts) : p = off[i]
       \/ \E i \in 1 .. Len(parts) : \E j \in 1 .. Len(parts[i]) : p = off[i - 1] + j

LEMMA EndedJoints ==
  ASSUME NEW A, NEW sep, NEW parts \in Seq(Seq(A))
  PROVE  /\ Ended(parts, sep) \in Seq(A \cup {sep})
         /\ \E off : Joints(Ended(parts, sep), parts, sep, off)
<1> DEFINE n == Len(parts)
           B == A \cup {sep}
           q == [i \in 1 .. n |-> Append(parts[i], sep)]
           txt == FlattenSeq(q)
<1>0. /\ n \in Nat /\ DOMAIN parts = 1 .. n
      /\ \A i \in 1 .. n : parts[i] \in Seq(A) /\ Len(parts[i]) \in Nat
  OBVIOUS
<1>1. \A i \in 1 .. n :
        /\ Append(parts[i], sep) \in Seq(B)
        /\ Len(Append(parts[i], sep)) = Len(parts[i]) + 1
        /\ Append(parts[i], sep)[Len(parts[i]) + 1] = sep
        /\ \A j \in 1 .. Len(parts[i]) : Append(parts[i], sep)[j] = parts[i][j]
  <2> SUFFICES ASSUME NEW s \in Seq(A)
               PROVE  /\ Append(s, sep) \in Seq(B)
                      /\ Len(Append(s, sep)) = Len(s) + 1
                      /\ Append(s, sep)[Len(s) + 1] = sep
                      /\ \A j \in 1 .. Len(s) : Append(s, sep)[j] = s[j]
    BY <1>0
  <2>1. s \in Seq(B) /\ sep \in B
    OBVIOUS
  <2> HIDE DEF B
  <2> QED BY <2>1
<1>2. q \in Seq(Seq(B)) /\ Len(q) = n
  BY <1>0, <1>1
<1>3. \A i \in 1 .. n : /\ Len(q[i]) = Len(parts[i]) + 1 /\ q[i][Len(parts[i]) + 1] = sep
                       /\ \A j \in 1 .. Len(parts[i]) : q[i][j] = parts[i][j]
  BY <1>1
<1>4. Ended(parts, sep) = txt
  BY <1>0 DEF Ended
<1> HIDE DEF B, q, txt
<1>5. txt \in Seq(B) /\ \E off : Blocks(txt, q, off)
  BY <1>2, FlattenBlocks DEF txt
<1>6. PICK off : Blocks(txt, q, off)
  BY <1>5
<1>7. /\ off \in [0 .. n -> Nat] /\ off[0] = 0 /\ Len(txt) = off[n]
      /\ \A i, j \in 0 .. n : i <= j => off[i] <= off[j]
      /\ \A i \in 1 .. n :
           /\ off[i] = off[i - 1] + Len(q[i])
           /\ \A j \in 1 .. Len(q[i]) : txt[off[i - 1] + j] = q[i][j]
  BY <1>2, <1>6 DEF Blocks
<1>8. ASSUME NEW i \in 1 .. n
      PROVE  /\ off[i] = off[i - 1] + Len(parts[i]) + 1 /\ txt[off[i]] = sep
             /\ \A j \in 1 .. Len(parts[i]) : txt[off[i - 1] + j] = parts[i][j]
  <2>1. /\ off[i - 1] \in Nat /\ Len(parts[i]) \in Nat
        /\ Len(q[i]) = Len(parts[i]) + 1 /\ Len(parts[i]) + 1 \in 1 .. Len(q[i])
    BY <1>0, <1>3, <1>7
  <2>2. off[i] = off[i - 1] + (Len(parts[i]) + 1)
    BY <1>7, <2>1
  <2>3. txt[off[i - 1] + (Len(parts[i]) + 1)] = sep
    BY <1>3, <1>7, <2>1
  <2>4. ASSUME NEW j \in 1 .. Len(parts[i]) PROVE txt[off[i - 1] + j] = parts[i][j]
    <3>1. j \in 1 .. Len(q[i])
      BY <2>1
    <3> QED BY <1>3, <1>7, <3>1
  <2> QED BY <2>1, <2>2, <2>3, <2>4
<1>9. ASSUME NEW i \in 0 .. n, NEW j \in 0 .. n, i < j PROVE off[i] < off[j]
  <2>1. i + 1 \in 1 .. n /\ i + 1 \in 0 .. n /\ i + 1 <= j /\ (i + 1) - 1 = i
    BY <1>0, <1>9
  <2>2. off[i + 1] = off[i] + Len(parts[i + 1]) + 1 /\ Len(parts[i + 1]) \in Nat
    BY <1>0, <1>8, <2>1
  <2>3. off[i + 1] <= off[j] /\ off[i] \in Nat /\ off[j] \in Nat
    BY <1>7, <2>1
  <2> QED BY <2>2, <2>3
<1>10. ASSUME NEW p \in 1 .. Len(txt)
       PROVE  \/ \E i \in 1 .. n : p = off[i]
              \/ \E i \in 1 .. n : \E j \in 1 .. Len(parts[i]) : p = off[i - 1] + j
  <2>0. PICK i \in 1 .. n : \E k \in 1 .. Len(q[i]) : p = off[i - 1] + k
    <3>1. Covered(txt, q, off)
      BY <1>2, <1>6, BlockAt
    <3> QED BY <1>2, <3>1 DEF Covered
  <2>1. PICK j \in 1 .. Len(q[i]) : p = off[i - 1] + j
    BY <2>0
  <2>2. Len(q[i]) = Len(parts[i]) + 1 /\ Len(parts[i]) \in Nat /\ off[i - 1] \in Nat
    <3>1. i - 1 \in 0 .. n
      BY <1>0
    <3> QED BY <1>0, <1>3, <1>7, <3>1
  <2>3. CASE j = Len(parts[i]) + 1
    <3>1. off[i] = off[i - 1] + Len(parts[i]) + 1
      BY <1>8
    <3> QED BY <2>1, <2>2, <2>3, <3>1
  <2>4. CASE j # Len(parts[i]) + 1
    <3>1. j \in 1 .. Len(parts[i])
      BY <2>2, <2>4
    <3> QED BY <2>1, <3>1
  <2> QED BY <2>3, <2>4
<1>11. Joints(txt, parts, sep, off)
  BY <1>7, <1>8, <1>9, <1>10 DEF Joints
<1> QED BY <1>4, <1>5, <1>11 DEF B

-----------------------------------------------------------------------------
(* What is encoded is decoded again                                        *)

LEMMA NthIs ==
  ASSUME NEW S \in SUBSET Int, IsFiniteSet(S), NEW x \in S
  PROVE  Nth(S, Rank(S, x)) = x
<1>1. \E i \in S : Rank(S, i) = Rank(S, x)
  OBVIOUS
<1>2. Nth(S, Rank(S, x)) \in S /\ Rank(S, Nth(S, Rank(S, x))) = Rank(S, x)
  BY <1>1 DEF Nth
<1> DEFINE y == Nth(S, Rank(S, x))
<1> HIDE DEF y
<1>3. y \in S /\ Rank(S, y) = Rank(S, x)
  BY <1>2 DEF y
<1>4. y = x
  BY <1>3, RankTells
<1> QED BY <1>4 DEF y

LEMMA NthIn ==
  ASSUME NEW S \in SUBSET Int, IsFiniteSet(S), NEW k \in 1 .. Cardinality(S)
  PROVE  Nth(S, k) \in S /\ Rank(S, Nth(S, k)) = k
BY RankOnto DEF Nth

LEMMA SubSeqIs ==
  ASSUME NEW B, NEW s \in Seq(B), NEW C, NEW t \in Seq(C), NEW a \in Nat,
         a + Len(t) <= Len(s), \A j \in 1 .. Len(t) : s[a + j] = t[j]
  PROVE  SubSeq(s, a + 1, a + Len(t)) = t
<1>1. Len(t) \in Nat /\ Len(s) \in Nat
  OBVIOUS
<1>2. SubSeq(s, a + 1, a + Len(t)) = [i \in 1 .. Len(t) |-> s[a + i]]
  <2>1. (a + Len(t)) - (a + 1) + 1 = Len(t) /\ \A i \in 1 .. Len(t) : (a + 1) + i - 1 = a + i
    BY <1>1
  <2>2. SubSeq(s, a + 1, a + Len(t)) =
          [i \in 1 .. (a + Len(t)) - (a + 1) + 1 |-> s[(a + 1) + i - 1]]
    BY <1>1
  <2> QED BY <2>1, <2>2
<1>3. t = [i \in 1 .. Len(t) |-> t[i]]
  OBVIOUS
<1> QED BY <1>2, <1>3

LEMMA IntervalSeq ==
  ASSUME NEW n \in Nat, NEW S, NEW f \in [1 .. n -> S]
  PROVE  f \in Seq(S) /\ Len(f) = n /\ DOMAIN f = 1 .. n
OBVIOUS

LEMMA SeqFacts ==
  ASSUME NEW B, NEW s \in Seq(B)
  PROVE  DOMAIN s = 1 .. Len(s) /\ Len(s) \in Nat /\ \A i \in 1 .. Len(s) : s[i] \in B
OBVIOUS

LEMMA AppendIn ==
  ASSUME NEW B, NEW s \in Seq(B), NEW e \in B
  PROVE  Append(s, e) \in Seq(B) /\ Len(Append(s, e)) = Len(s) + 1
OBVIOUS

LEMMA AppendIs ==
  ASSUME NEW B, NEW s \in Seq(B), NEW e
  PROVE  Append(s, e) = [k \in 1 .. Len(s) + 1 |-> IF k = Len(s) + 1 THEN e ELSE s[k]]
<1> DEFINE C == B \cup {e}
           t == Append(s, e)
<1>1. s \in Seq(C) /\ e \in C
  OBVIOUS
<1> HIDE DEF C
<1>2. /\ t \in Seq(C) /\ Len(t) = Len(s) + 1 /\ Len(s) \in Nat /\ t[Len(s) + 1] = e
      /\ \A k \in 1 .. Len(s) : t[k] = s[k]
  BY <1>1
<1> HIDE DEF t
<1>3. t = [k \in 1 .. Len(s) + 1 |-> t[k]]
  BY <1>2
<1>4. \A k \in 1 .. Len(s) + 1 : k = Len(s) + 1 \/ k \in 1 .. Len(s)
  BY <1>2
<1>5. \A k \in 1 .. Len(s) + 1 : t[k] = IF k = Len(s) + 1 THEN e ELSE s[k]
  BY <1>2, <1>4
<1> QED BY <1>3, <1>5 DEF t

\* strings.Split gives back the parts, and one more that is empty.
LEMMA SplitEnded ==
  ASSUME NEW A, NEW sep, sep \notin A, NEW parts \in Seq(Seq(A))
  PROVE  Split(Ended(parts, sep), sep) = Append(parts, <<>>)
<1> DEFINE n == Len(parts)
           txt == Ended(parts, sep)
           L == Len(txt)
           cuts == {0, L + 1} \cup {i \in DOMAIN txt : txt[i] = sep}
<1>0. /\ n \in Nat /\ DOMAIN parts = 1 .. n
      /\ \A i \in 1 .. n : parts[i] \in Seq(A) /\ Len(parts[i]) \in Nat
  OBVIOUS
<1>1. txt \in Seq(A \cup {sep})
  BY EndedJoints
<1>2. PICK off : Joints(txt, parts, sep, off)
  BY EndedJoints
<1>3. /\ off \in [0 .. n -> Nat] /\ off[0] = 0 /\ L = off[n] /\ L \in Nat /\ DOMAIN txt = 1 .. L
      /\ \A i, j \in 0 .. n : i < j => off[i] < off[j]
      /\ \A i \in 1 .. n :
           /\ off[i] = off[i - 1] + Len(parts[i]) + 1 /\ txt[off[i]] = sep
           /\ \A j \in 1 .. Len(parts[i]) : txt[off[i - 1] + j] = parts[i][j]
      /\ \A p \in 1 .. L :
           \/ \E i \in 1 .. n : p = off[i]
           \/ \E i \in 1 .. n : \E j \in 1 .. Len(parts[i]) : p = off[i - 1] + j
  BY <1>1, <1>2 DEF Joints
<1> DEFINE g == [k \in 1 .. n + 2 |-> IF k = n + 2 THEN L + 1 ELSE off[k - 1]]
<1> HIDE DEF n, txt, L
<1>4. \A i \in 0 .. n : off[i] \in Nat /\ off[i] <= L
  <2> SUFFICES ASSUME NEW i \in 0 .. n PROVE off[i] \in Nat /\ off[i] <= L
    OBVIOUS
  <2>1. n \in 0 .. n /\ (i = n \/ i < n) /\ off[i] \in Nat
    BY <1>0, <1>3
  <2>2. CASE i = n
    BY <2>1, <2>2, <1>3
  <2>3. CASE i < n
    <3>1. off[i] < off[n]
      BY <2>1, <2>3, <1>3
    <3> QED BY <2>1, <3>1, <1>3
  <2> QED BY <2>1, <2>2, <2>3
<1>5. \A i \in 1 .. n : off[i] \in 1 .. L
  <2> SUFFICES ASSUME NEW i \in 1 .. n PROVE off[i] \in 1 .. L
    OBVIOUS
  <2>1. off[0] < off[i]
    BY <1>0, <1>3
  <2>2. off[i] \in Nat /\ off[i] <= L
    BY <1>0, <1>4
  <2> QED BY <2>1, <2>2, <1>3
<1>6. g \in [1 .. n + 2 -> cuts]
  <2> SUFFICES ASSUME NEW k \in 1 .. n + 2 PROVE g[k] \in cuts
    OBVIOUS
  <2>1. CASE k = n + 2
    BY <2>1
  <2>2. CASE k = 1
    BY <2>2, <1>0, <1>3
  <2>3. CASE k # 1 /\ k # n + 2
    <3>1. k - 1 \in 1 .. n /\ g[k] = off[k - 1]
      BY <2>3, <1>0
    <3> QED BY <3>1, <1>3, <1>5
  <2> QED BY <2>1, <2>2, <2>3
<1>7. ASSUME NEW i \in 1 .. n + 2, NEW j \in 1 .. n + 2, i < j PROVE g[i] < g[j]
  <2>1. i - 1 \in 0 .. n /\ g[i] = off[i - 1] /\ i # n + 2
    BY <1>0, <1>7
  <2>2. CASE j = n + 2
    <3>1. off[i - 1] \in Nat /\ off[i - 1] <= L /\ g[j] = L + 1
      BY <2>1, <2>2, <1>4
    <3> QED BY <3>1, <2>1, <1>3
  <2>3. CASE j # n + 2
    <3>1. j - 1 \in 0 .. n /\ g[j] = off[j - 1] /\ i - 1 < j - 1
      BY <2>3, <1>0, <1>7
    <3> QED BY <3>1, <2>1, <1>3
  <2> QED BY <2>2, <2>3
<1>8. ASSUME NEW y \in cuts PROVE \E k \in 1 .. n + 2 : g[k] = y
  <2>1. CASE y = 0
    <3>1. 1 \in 1 .. n + 2 /\ g[1] = off[0]
      BY <1>0
    <3> QED BY <2>1, <3>1, <1>3
  <2>2. CASE y = L + 1
    <3>1. n + 2 \in 1 .. n + 2 /\ g[n + 2] = L + 1
      BY <1>0
    <3> QED BY <2>2, <3>1
  <2>3. CASE y \in 1 .. L /\ txt[y] = sep
    <3>1. PICK i \in 1 .. n : y = off[i]
      <4>1. ASSUME NEW i \in 1 .. n, NEW j \in 1 .. Len(parts[i]), y = off[i - 1] + j
            PROVE  FALSE
        <5>1. txt[y] = parts[i][j]
          BY <4>1, <1>3
        <5>2. parts[i][j] \in A
          BY <1>0
        <5> QED BY <2>3, <5>1, <5>2
      <4> QED BY <2>3, <4>1, <1>3
    <3>2. i + 1 \in 1 .. n + 2 /\ i + 1 # n + 2 /\ (i + 1) - 1 = i
      BY <1>0
    <3>3. g[i + 1] = off[i]
      BY <3>2
    <3> QED BY <3>1, <3>2, <3>3
  <2> QED BY <2>1, <2>2, <2>3, <1>3
<1>9. IsFiniteSet(1 .. n + 2) /\ Cardinality(1 .. n + 2) = n + 2 /\ 1 .. n + 2 \in SUBSET Int
  BY <1>0, FS_Interval
<1>10. cuts \in SUBSET Int
  BY <1>3
<1> HIDE DEF cuts, g
<1>11. /\ Cardinality(cuts) = n + 2 /\ IsFiniteSet(cuts)
       /\ \A k \in 1 .. n + 2 : Rank(cuts, g[k]) = k
  <2>1. /\ Cardinality(cuts) = Cardinality(1 .. n + 2) /\ IsFiniteSet(cuts)
        /\ \A k \in 1 .. n + 2 : Rank(cuts, g[k]) = Rank(1 .. n + 2, k)
    BY <1>6, <1>7, <1>8, <1>9, <1>10, RankRenamed
  <2> QED BY <2>1, <1>0, <1>9, RankOfInterval
<1>12. \A k \in 1 .. n + 2 : Nth(cuts, k) = g[k]
  <2> SUFFICES ASSUME NEW k \in 1 .. n + 2 PROVE Nth(cuts, k) = g[k]
    OBVIOUS
  <2>1. Nth(cuts, Rank(cuts, g[k])) = g[k]
    BY <1>6, <1>10, <1>11, NthIs
  <2> QED BY <2>1, <1>11
<1>13. Split(txt, sep) = [k \in 1 .. n + 1 |-> SubSeq(txt, g[k] + 1, g[k + 1] - 1)]
  <2>1. Split(txt, sep) = [k \in 1 .. Cardinality(cuts) - 1 |->
                             SubSeq(txt, Nth(cuts, k) + 1, Nth(cuts, k + 1) - 1)]
    BY DEF Split, cuts, L
  <2>2. Cardinality(cuts) - 1 = n + 1
    BY <1>0, <1>11
  <2>3. \A k \in 1 .. n + 1 : k \in 1 .. n + 2 /\ k + 1 \in 1 .. n + 2
    BY <1>0
  <2>4. \A k \in 1 .. n + 1 : Nth(cuts, k) = g[k] /\ Nth(cuts, k + 1) = g[k + 1]
    BY <1>12, <2>3
  <2> QED BY <2>1, <2>2, <2>4
<1>14. ASSUME NEW k \in 1 .. n PROVE SubSeq(txt, g[k] + 1, g[k + 1] - 1) = parts[k]
  <2>1. g[k] = off[k - 1] /\ g[k + 1] = off[k] /\ k \in 0 .. n /\ k - 1 \in 0 .. n
    BY <1>0 DEF g
  <2>2. /\ off[k - 1] \in Nat /\ off[k] = off[k - 1] + Len(parts[k]) + 1 /\ off[k] <= L
        /\ Len(parts[k]) \in Nat /\ parts[k] \in Seq(A)
        /\ \A j \in 1 .. Len(parts[k]) : txt[off[k - 1] + j] = parts[k][j]
    BY <2>1, <1>0, <1>3, <1>4
  <2>3. off[k] - 1 = off[k - 1] + Len(parts[k]) /\ off[k - 1] + Len(parts[k]) <= L
    BY <2>2, <1>3
  <2>4. SubSeq(txt, off[k - 1] + 1, off[k - 1] + Len(parts[k])) = parts[k]
    BY <2>2, <2>3, <1>1, SubSeqIs DEF L
  <2> QED BY <2>1, <2>3, <2>4
<1>15. SubSeq(txt, g[n + 1] + 1, g[n + 2] - 1) = <<>>
  <2>1. g[n + 1] = L /\ g[n + 2] = L + 1
    <3>1. n + 1 \in 1 .. n + 2 /\ n + 2 \in 1 .. n + 2 /\ (n + 1) - 1 = n /\ n + 1 # n + 2
      BY <1>0
    <3> QED BY <3>1, <1>3 DEF g
  <2>2. SubSeq(txt, L + 1, L) = <<>>
    BY <1>1, <1>3
  <2>3. (L + 1) - 1 = L
    BY <1>3
  <2> QED BY <2>1, <2>2, <2>3
<1>16. Append(parts, <<>>) = [k \in 1 .. n + 1 |-> IF k = n + 1 THEN <<>> ELSE parts[k]]
  BY AppendIs DEF n
<1>17. ASSUME NEW k \in 1 .. n + 1
       PROVE  SubSeq(txt, g[k] + 1, g[k + 1] - 1) = IF k = n + 1 THEN <<>> ELSE parts[k]
  <2>1. CASE k = n + 1
    <3>1. k + 1 = n + 2
      BY <2>1, <1>0
    <3> QED BY <2>1, <3>1, <1>15
  <2>2. CASE k # n + 1
    <3>1. k \in 1 .. n
      BY <2>2, <1>0
    <3> QED BY <2>2, <3>1, <1>14
  <2> QED BY <2>1, <2>2
<1> QED BY <1>13, <1>16, <1>17 DEF txt

LEMMA CardinalityOfInterval ==
  ASSUME NEW n \in Nat
  PROVE  Cardinality(1 .. n) = n /\ IsFiniteSet(1 .. n)
BY FS_Interval

LEMMA NthOfInterval ==
  ASSUME NEW n \in Nat, NEW k \in 1 .. n
  PROVE  Nth(1 .. n, k) = k /\ Cardinality(1 .. n) = n
<1>1. IsFiniteSet(1 .. n) /\ Cardinality(1 .. n) = n
  BY FS_Interval
<1>2. Rank(1 .. n, k) = k
  BY RankOfInterval
<1>3. Nth(1 .. n, Rank(1 .. n, k)) = k
  <2>1. 1 .. n \in SUBSET Int
    OBVIOUS
  <2> QED BY <1>1, <2>1, NthIs
<1> QED BY <1>1, <1>2, <1>3

LEMMA ContainerText ==
  ASSUME NEW cd \in Seq(Dev)
  PROVE  /\ EncodeContainerDevices(cd) \in Seq(Dev \cup {":"})
         /\ DecodeContainerDevices(EncodeContainerDevices(cd)) = cd
<1> DEFINE n == Len(cd)
           parts == [i \in 1 .. n |-> <<cd[i]>>]
           split == [k \in 1 .. n + 1 |-> IF k = n + 1 THEN <<>> ELSE parts[k]]
<1>0. n \in Nat /\ DOMAIN cd = 1 .. n /\ \A i \in 1 .. n : cd[i] \in Dev
  OBVIOUS
<1>1. parts \in Seq(Seq(Dev)) /\ Len(parts) = n /\ ":" \notin Dev
  <2>1. parts \in [1 .. n -> Seq(Dev)]
    BY <1>0
  <2> HIDE DEF parts
  <2>2. parts \in Seq(Seq(Dev)) /\ Len(parts) = n
    BY <1>0, <2>1, IntervalSeq
  <2> QED BY <2>2, DevAssumption
<1>2. EncodeContainerDevices(cd) = Ended(parts, ":")
  BY <1>0 DEF EncodeContainerDevices
<1>3. EncodeContainerDevices(cd) \in Seq(Dev \cup {":"})
  BY <1>1, <1>2, EndedJoints
<1>4. Split(EncodeContainerDevices(cd), ":") = split
  <2> HIDE DEF parts
  <2>1. Split(EncodeContainerDevices(cd), ":") = Append(parts, <<>>)
    BY <1>1, <1>2, SplitEnded
  <2>2. Append(parts, <<>>) =
          [k \in 1 .. Len(parts) + 1 |-> IF k = Len(parts) + 1 THEN <<>> ELSE parts[k]]
    BY <1>1, AppendIs
  <2> QED BY <1>1, <2>1, <2>2
<1>5. NonEmpty(split) = 1 .. n
  <2>1. DOMAIN split = 1 .. n + 1
    OBVIOUS
  <2>2. \A k \in 1 .. n + 1 : split[k] # <<>> <=> k \in 1 .. n
    BY <1>0
  <2> QED BY <1>0, <2>1, <2>2 DEF NonEmpty
<1>6. Kept(split, NonEmpty(split)) = parts
  <2>1. Kept(split, NonEmpty(split)) = [k \in 1 .. Cardinality(1 .. n) |-> split[Nth(1 .. n, k)]]
    <3> HIDE DEF split, n
    <3> QED BY <1>5 DEF Kept
  <2>2. Cardinality(1 .. n) = n
    BY <1>0, CardinalityOfInterval
  <2>3. \A k \in 1 .. n : split[Nth(1 .. n, k)] = parts[k]
    <3> SUFFICES ASSUME NEW k \in 1 .. n PROVE split[Nth(1 .. n, k)] = parts[k]
      OBVIOUS
    <3>1. Nth(1 .. n, k) = k
      BY <1>0, NthOfInterval
    <3>2. split[k] = parts[k]
      BY <1>0
    <3> QED BY <3>1, <3>2
  <2> QED BY <2>1, <2>2, <2>3
<1>7. DecodeContainerDevices(EncodeContainerDevices(cd)) = [i \in DOMAIN parts |-> Head(parts[i])]
  <2> HIDE DEF parts, split
  <2> QED BY <1>4, <1>6 DEF DecodeContainerDevices
<1>8. \A i \in 1 .. n : Head(parts[i]) = cd[i]
  <2> SUFFICES ASSUME NEW i \in 1 .. n PROVE Head(<<cd[i]>>) = cd[i]
    OBVIOUS
  <2> QED OBVIOUS
<1>9. [i \in DOMAIN parts |-> Head(parts[i])] = [i \in 1 .. n |-> cd[i]]
  BY <1>8
<1> QED BY <1>3, <1>7, <1>9, <1>0

LEMMA SegmentTexts ==
  ASSUME NEW pd \in Seq(Seq(Dev))
  PROVE  LET parts == [i \in 1 .. Len(pd) |-> EncodeContainerDevices(pd[i])]
         IN  /\ parts \in Seq(Seq(Dev \cup {":"})) /\ Len(parts) = Len(pd)
             /\ EncodePodSingleDevice(pd) = Ended(parts, ";")
             /\ ";" \notin Dev \cup {":"}
<1> DEFINE parts == [i \in 1 .. Len(pd) |-> EncodeContainerDevices(pd[i])]
<1>0. Len(pd) \in Nat /\ DOMAIN pd = 1 .. Len(pd) /\ \A i \in 1 .. Len(pd) : pd[i] \in Seq(Dev)
  OBVIOUS
<1>1. parts \in [1 .. Len(pd) -> Seq(Dev \cup {":"})]
  BY <1>0, ContainerText
<1>2. parts \in Seq(Seq(Dev \cup {":"})) /\ Len(parts) = Len(pd)
  <2> HIDE DEF parts
  <2> QED BY <1>0, <1>1, IntervalSeq
<1>3. EncodePodSingleDevice(pd) = Ended(parts, ";")
  BY <1>0 DEF EncodePodSingleDevice
<1>4. ";" \notin Dev \cup {":"}
  BY DevAssumption
<1> QED BY <1>2, <1>3, <1>4

\* The text says all there is to know of the list it was written from, its
\* empty segments included (EncodePodSingleDevice, DecodePodDevices).
THEOREM RoundTrip ==
  \A pd \in Seq(Seq(Dev)) : DecodePodDevices(EncodePodSingleDevice(pd)) = pd
<1> SUFFICES ASSUME NEW pd \in Seq(Seq(Dev))
             PROVE  DecodePodDevices(EncodePodSingleDevice(pd)) = pd
  OBVIOUS
<1> DEFINE n == Len(pd)
           parts == [i \in 1 .. n |-> EncodeContainerDevices(pd[i])]
           anno == EncodePodSingleDevice(pd)
           split == Split(anno, ";")
<1>0. n \in Nat /\ DOMAIN pd = 1 .. n /\ \A i \in 1 .. n : pd[i] \in Seq(Dev)
  OBVIOUS
<1>1. /\ parts \in Seq(Seq(Dev \cup {":"})) /\ Len(parts) = n
      /\ anno = Ended(parts, ";") /\ ";" \notin Dev \cup {":"}
  BY SegmentTexts
<1>2. \A i \in 1 .. n : DecodeContainerDevices(parts[i]) = pd[i]
  BY <1>0, ContainerText
<1> HIDE DEF parts, anno, n
<1>n. n \in Nat /\ Len(parts) = n
  BY <1>0, <1>1
<1>3. split = Append(parts, <<>>)
  BY <1>1, SplitEnded
<1>4. split = [k \in 1 .. n + 1 |-> IF k = n + 1 THEN <<>> ELSE parts[k]]
  <2>1. Append(parts, <<>>) =
          [k \in 1 .. Len(parts) + 1 |-> IF k = Len(parts) + 1 THEN <<>> ELSE parts[k]]
    BY <1>1, AppendIs
  <2> QED BY <1>1, <1>3, <2>1
<1>5. split \in Seq(Seq(Dev \cup {":"})) /\ Len(split) = n + 1
  <2>1. <<>> \in Seq(Dev \cup {":"})
    OBVIOUS
  <2> DEFINE B == Seq(Dev \cup {":"})
  <2>2. <<>> \in B /\ parts \in Seq(B)
    BY <1>1, <2>1
  <2> HIDE DEF B
  <2>3. Append(parts, <<>>) \in Seq(B) /\ Len(Append(parts, <<>>)) = Len(parts) + 1
    BY <2>2, AppendIn
  <2> QED BY <1>1, <1>3, <2>3 DEF B
<1> HIDE DEF split
<1>6. Last(split) = <<>>
  <2>1. n + 1 \in 1 .. n + 1
    BY <1>0
  <2> QED BY <1>4, <1>5, <2>1 DEF Last
<1>7. Front(split) = parts
  <2>1. Front(split) = SubSeq(split, 1, Len(split) - 1)
    BY DEF Front
  <2>2. Len(split) - 1 = 0 + Len(parts) /\ 0 + 1 = 1 /\ 0 + Len(parts) <= Len(split)
    BY <1>n, <1>5
  <2>3. ASSUME NEW j \in 1 .. Len(parts) PROVE split[0 + j] = parts[j]
    <3>1. j \in 1 .. n + 1 /\ j # n + 1 /\ 0 + j = j
      BY <1>n
    <3> QED BY <1>4, <3>1
  <2> DEFINE B == Seq(Dev \cup {":"})
  <2>4. split \in Seq(B) /\ parts \in Seq(B) /\ 0 \in Nat
    BY <1>1, <1>5
  <2> HIDE DEF B
  <2>5. SubSeq(split, 0 + 1, 0 + Len(parts)) = parts
    BY <2>2, <2>3, <2>4, SubSeqIs
  <2> QED BY <2>1, <2>2, <2>5
<1>8. SplitPodDeviceAnnotation(anno) = parts
  BY <1>6, <1>7 DEF split, SplitPodDeviceAnnotation
<1>9. DecodePodDevices(anno) = [i \in 1 .. n |-> DecodeContainerDevices(parts[i])]
  <2>1. DOMAIN parts = 1 .. n
    BY <1>1, SeqFacts
  <2> QED BY <1>8, <2>1 DEF DecodePodDevices
<1>10. DecodePodDevices(anno) = [i \in 1 .. n |-> pd[i]]
  BY <1>2, <1>9
<1> QED BY <1>0, <1>10 DEF anno, n

LEMMA HasEnded ==
  ASSUME NEW A, NEW sep, sep \notin Dev, NEW parts \in Seq(Seq(A))
  PROVE  HasDevices(Ended(parts, sep)) <=> \E i \in 1 .. Len(parts) : HasDevices(parts[i])
<1> DEFINE n == Len(parts)
           txt == Ended(parts, sep)
<1>0. /\ n \in Nat /\ \A i \in 1 .. n : DOMAIN parts[i] = 1 .. Len(parts[i])
      /\ \A i \in 1 .. n : Len(parts[i]) \in Nat
  OBVIOUS
<1>1. txt \in Seq(A \cup {sep}) /\ \E off : Joints(txt, parts, sep, off)
  BY EndedJoints
<1>2. PICK off : Joints(txt, parts, sep, off)
  BY <1>1
<1>3. DOMAIN txt = 1 .. Len(txt) /\ Len(txt) \in Nat
  BY <1>1
<1> HIDE DEF txt, n
<1>4. /\ off \in [0 .. n -> Nat] /\ Len(txt) = off[n]
      /\ \A i, j \in 0 .. n : i < j => off[i] < off[j]
      /\ \A i \in 1 .. n :
           /\ off[i] = off[i - 1] + Len(parts[i]) + 1 /\ txt[off[i]] = sep
           /\ \A j \in 1 .. Len(parts[i]) : txt[off[i - 1] + j] = parts[i][j]
      /\ \A p \in 1 .. Len(txt) :
           \/ \E i \in 1 .. n : p = off[i]
           \/ \E i \in 1 .. n : \E j \in 1 .. Len(parts[i]) : p = off[i - 1] + j
  BY <1>2 DEF Joints, n
<1>5. ASSUME HasDevices(txt) PROVE \E i \in 1 .. n : HasDevices(parts[i])
  <2>1. PICK p \in 1 .. Len(txt) : txt[p] \in Dev
    BY <1>3, <1>5 DEF HasDevices
  <2>2. PICK i \in 1 .. n : \E j \in 1 .. Len(parts[i]) : p = off[i - 1] + j
    <3>1. ~ \E i \in 1 .. n : p = off[i]
      BY <2>1, <1>4
    <3> QED BY <3>1, <1>4
  <2>3. PICK j \in 1 .. Len(parts[i]) : p = off[i - 1] + j
    BY <2>2
  <2>4. txt[p] = parts[i][j]
    BY <2>3, <1>4
  <2> QED BY <2>1, <2>4, <1>0 DEF HasDevices
<1>6. ASSUME NEW i \in 1 .. n, HasDevices(parts[i]) PROVE HasDevices(txt)
  <2>1. PICK j \in 1 .. Len(parts[i]) : parts[i][j] \in Dev
    BY <1>0, <1>6 DEF HasDevices
  <2>2. i \in 0 .. n /\ i - 1 \in 0 .. n /\ n \in 0 .. n /\ (i = n \/ i < n)
    BY <1>0
  <2>3. /\ off[i - 1] \in Nat /\ off[i] \in Nat /\ off[n] \in Nat /\ off[i] <= off[n]
        /\ off[i] = off[i - 1] + Len(parts[i]) + 1 /\ Len(parts[i]) \in Nat
    <3>1. /\ off[i - 1] \in Nat /\ off[i] \in Nat /\ off[n] \in Nat
          /\ off[i] = off[i - 1] + Len(parts[i]) + 1 /\ Len(parts[i]) \in Nat
      BY <2>2, <1>0, <1>4
    <3>2. off[i] <= off[n]
      BY <2>2, <3>1, <1>4
    <3> QED BY <3>1, <3>2
  <2>4. off[i - 1] + j \in 1 .. Len(txt)
    <3>1. off[i - 1] + Len(parts[i]) <= off[n]
      BY <2>3
    <3>2. off[i - 1] + j \in 1 .. off[n]
      BY <2>3, <3>1, WithinBlock
    <3> QED BY <3>2, <1>4
  <2>5. txt[off[i - 1] + j] = parts[i][j]
    BY <1>4
  <2> QED BY <2>1, <2>4, <2>5, <1>3 DEF HasDevices
<1> QED BY <1>5, <1>6 DEF txt, n

\* PodAllocationTrySuccess reads the text, GetNextDeviceRequest the list: they
\* agree on when there is nothing left.
THEOREM NamesDevices ==
  \A pd \in Seq(Seq(Dev)) : HasDevices(EncodePodSingleDevice(pd)) <=> NonEmpty(pd) # {}
<1> SUFFICES ASSUME NEW pd \in Seq(Seq(Dev))
             PROVE  HasDevices(EncodePodSingleDevice(pd)) <=> NonEmpty(pd) # {}
  OBVIOUS
<1> DEFINE n == Len(pd)
           parts == [i \in 1 .. n |-> EncodeContainerDevices(pd[i])]
<1>0. n \in Nat /\ DOMAIN pd = 1 .. n /\ \A i \in 1 .. n : pd[i] \in Seq(Dev)
  OBVIOUS
<1>1. /\ parts \in Seq(Seq(Dev \cup {":"})) /\ Len(parts) = n
      /\ EncodePodSingleDevice(pd) = Ended(parts, ";") /\ ";" \notin Dev \cup {":"}
  BY SegmentTexts
<1>2. ASSUME NEW cd \in Seq(Dev)
      PROVE  HasDevices(EncodeContainerDevices(cd)) <=> cd # <<>>
  <2> DEFINE q == [i \in 1 .. Len(cd) |-> <<cd[i]>>]
  <2>1. q \in Seq(Seq(Dev)) /\ Len(q) = Len(cd) /\ ":" \notin Dev
    <3>1. q \in [1 .. Len(cd) -> Seq(Dev)] /\ Len(cd) \in Nat
      OBVIOUS
    <3> HIDE DEF q
    <3>2. q \in Seq(Seq(Dev)) /\ Len(q) = Len(cd)
      BY <3>1, IntervalSeq
    <3> QED BY <3>2, DevAssumption
  <2>2. EncodeContainerDevices(cd) = Ended(q, ":")
    BY DEF EncodeContainerDevices
  <2>3. \A i \in 1 .. Len(cd) : HasDevices(q[i])
    <3> SUFFICES ASSUME NEW i \in 1 .. Len(cd) PROVE HasDevices(<<cd[i]>>)
      OBVIOUS
    <3>1. cd[i] \in Dev /\ 1 \in DOMAIN <<cd[i]>> /\ <<cd[i]>>[1] = cd[i]
      OBVIOUS
    <3> QED BY <3>1 DEF HasDevices
  <2> HIDE DEF q
  <2>4. HasDevices(EncodeContainerDevices(cd)) <=> \E i \in 1 .. Len(q) : HasDevices(q[i])
    BY <2>1, <2>2, HasEnded
  <2>5. HasDevices(EncodeContainerDevices(cd)) <=> \E i \in 1 .. Len(cd) : TRUE
    BY <2>1, <2>3, <2>4
  <2>6. (\E i \in 1 .. Len(cd) : TRUE) <=> cd # <<>>
    OBVIOUS
  <2> QED BY <2>5, <2>6
<1>3. HasDevices(EncodePodSingleDevice(pd)) <=> \E i \in 1 .. n : HasDevices(parts[i])
  <2>1. ";" \notin Dev
    BY <1>1
  <2> HIDE DEF parts
  <2> QED BY <1>1, <2>1, HasEnded
<1>4. \A i \in 1 .. n : HasDevices(parts[i]) <=> pd[i] # <<>>
  BY <1>0, <1>2
<1> QED BY <1>0, <1>3, <1>4 DEF NonEmpty

-----------------------------------------------------------------------------
(* Segments and the containers they are for                                *)

ListOfLists == Seq(Seq(Dev))

LEMMA ListFacts ==
  ASSUME NEW pd \in ListOfLists
  PROVE  /\ Len(pd) \in Nat /\ DOMAIN pd = 1 .. Len(pd) /\ pd \in [1 .. Len(pd) -> Seq(Dev)]
         /\ NonEmpty(pd) \in SUBSET Int /\ IsFiniteSet(NonEmpty(pd))
         /\ NonEmpty(pd) \subseteq 1 .. Len(pd)
<1>1. Len(pd) \in Nat /\ DOMAIN pd = 1 .. Len(pd) /\ pd \in [1 .. Len(pd) -> Seq(Dev)]
  BY DEF ListOfLists
<1>2. IsFiniteSet(1 .. Len(pd))
  BY <1>1, CardinalityOfInterval
<1>3. NonEmpty(pd) \subseteq 1 .. Len(pd)
  BY <1>1 DEF NonEmpty
<1> QED BY <1>1, <1>2, <1>3, FS_Subset

\* Where Kept puts the segment of a container, and that it puts nothing else.
LEMMA KeptPlaces ==
  ASSUME NEW ds \in ListOfLists, NEW S \in SUBSET (1 .. Len(ds))
  PROVE  /\ S \in SUBSET Int /\ IsFiniteSet(S) /\ Cardinality(S) \in Nat
         /\ Kept(ds, S) \in ListOfLists /\ Len(Kept(ds, S)) = Cardinality(S)
         /\ DOMAIN Kept(ds, S) = 1 .. Cardinality(S)
         /\ \A c \in S : /\ Rank(S, c) \in DOMAIN Kept(ds, S)
                         /\ Kept(ds, S)[Rank(S, c)] = ds[c]
         /\ \A k \in DOMAIN Kept(ds, S) : \E c \in S : Rank(S, c) = k
<1>1. S \in SUBSET Int /\ IsFiniteSet(S) /\ Cardinality(S) \in Nat
  <2>1. Len(ds) \in Nat /\ IsFiniteSet(1 .. Len(ds))
    BY ListFacts, CardinalityOfInterval
  <2>2. IsFiniteSet(S)
    BY <2>1, FS_Subset
  <2> QED BY <2>1, <2>2, FS_CardinalityType
<1>2. \A k \in 1 .. Cardinality(S) : Nth(S, k) \in S /\ Rank(S, Nth(S, k)) = k
  BY <1>1, NthIn
<1>3. \A c \in S : Rank(S, c) \in 1 .. Cardinality(S) /\ Nth(S, Rank(S, c)) = c
  BY <1>1, RankBounds, NthIs
<1>4. Kept(ds, S) = [k \in 1 .. Cardinality(S) |-> ds[Nth(S, k)]]
  BY DEF Kept
<1>5. \A k \in 1 .. Cardinality(S) : ds[Nth(S, k)] \in Seq(Dev)
  BY <1>2, ListFacts
<1>6. Kept(ds, S) \in ListOfLists /\ Len(Kept(ds, S)) = Cardinality(S)
  <2>1. Kept(ds, S) \in [1 .. Cardinality(S) -> Seq(Dev)]
    BY <1>4, <1>5
  <2> QED BY <1>1, <2>1, IntervalSeq DEF ListOfLists
<1> QED BY <1>1, <1>2, <1>3, <1>4, <1>6

\* The segments with devices that are kept are those of the containers with
\* devices, in their order.
LEMMA KeptNonEmpty ==
  ASSUME NEW ds \in ListOfLists, NEW S \in SUBSET (1 .. Len(ds)), NonEmpty(ds) \subseteq S
  PROVE  /\ Cardinality(NonEmpty(Kept(ds, S))) = Cardinality(NonEmpty(ds))
         /\ \A c \in NonEmpty(ds) :
              /\ Rank(S, c) \in NonEmpty(Kept(ds, S))
              /\ Rank(NonEmpty(Kept(ds, S)), Rank(S, c)) = Rank(NonEmpty(ds), c)
<1> DEFINE pd == Kept(ds, S)
           full == NonEmpty(pd)
           asked == NonEmpty(ds)
           g == [c \in asked |-> Rank(S, c)]
<1>1. /\ full \in SUBSET Int /\ IsFiniteSet(full) /\ asked \in SUBSET Int /\ IsFiniteSet(asked)
      /\ DOMAIN ds = 1 .. Len(ds) /\ S \in SUBSET Int /\ IsFiniteSet(S)
  BY KeptPlaces, ListFacts
<1>2. ASSUME NEW c \in S PROVE Rank(S, c) \in full <=> c \in asked
  <2>1. Rank(S, c) \in DOMAIN pd /\ pd[Rank(S, c)] = ds[c] /\ c \in DOMAIN ds
    BY <1>1, KeptPlaces
  <2> QED BY <2>1 DEF NonEmpty
<1>3. g \in [asked -> full]
  BY <1>2
<1>4. \A c, d \in asked : c < d => g[c] < g[d]
  BY <1>1, RankGrows
<1>5. \A i \in full : \E c \in asked : g[c] = i
  <2> SUFFICES ASSUME NEW i \in full PROVE \E c \in asked : g[c] = i
    OBVIOUS
  <2>1. PICK c \in S : Rank(S, c) = i
    BY KeptPlaces DEF NonEmpty
  <2> QED BY <1>2, <2>1
<1>6. /\ Cardinality(full) = Cardinality(asked)
      /\ \A c \in asked : Rank(full, g[c]) = Rank(asked, c)
  BY <1>1, <1>3, <1>4, <1>5, RankRenamed
<1> QED BY <1>2, <1>6

\* Whatever can be aligned has one segment for each container.
LEMMA ExpandType ==
  ASSUME NEW n \in Nat, NEW req \in SUBSET (1 .. n), NEW pd \in ListOfLists,
         Alignable(pd, n, req)
  PROVE  Expand(pd, n, req) \in ListOfLists /\ Len(Expand(pd, n, req)) = n
<1> DEFINE full == NonEmpty(pd)
           e == [c \in 1 .. n |->
                  IF c \in req THEN Kept(pd, full)[Rank(req, c)] ELSE <<>>]
<1>1. CASE Len(pd) = n
  BY <1>1 DEF Expand
<1>2. CASE Len(pd) # n
  <2>1. Cardinality(full) = Cardinality(req)
    BY <1>2 DEF Alignable
  <2>2. req \in SUBSET Int /\ IsFiniteSet(req)
    <3>1. IsFiniteSet(1 .. n) /\ req \subseteq 1 .. n
      BY CardinalityOfInterval
    <3>2. IsFiniteSet(req)
      BY <3>1, FS_Subset
    <3> QED BY <3>2
  <2>3. Kept(pd, full) \in ListOfLists /\ DOMAIN Kept(pd, full) = 1 .. Cardinality(full)
    BY ListFacts, KeptPlaces
  <2>4. ASSUME NEW c \in req
        PROVE  Kept(pd, full)[Rank(req, c)] \in Seq(Dev)
    <3>1. Rank(req, c) \in DOMAIN Kept(pd, full)
      BY <2>1, <2>2, <2>3, RankBounds
    <3> QED BY <2>3, <3>1, ListFacts
  <2>5. e \in [1 .. n -> Seq(Dev)]
    <3>1. <<>> \in Seq(Dev)
      OBVIOUS
    <3> QED BY <2>4, <3>1
  <2>6. Expand(pd, n, req) = e
    BY <1>2 DEF Expand
  <2> HIDE DEF e
  <2> QED BY <2>5, <2>6, IntervalSeq DEF ListOfLists
<1> QED BY <1>1, <1>2

\* The alignment finds back what the scheduler chose, whichever empty segments
\* it left out.
LEMMA ExpandKept ==
  ASSUME NEW ds \in ListOfLists, NEW S \in SUBSET (1 .. Len(ds)), NonEmpty(ds) \subseteq S,
         NEW req \in SUBSET (1 .. Len(ds)), NonEmpty(ds) \subseteq req,
         Alignable(Kept(ds, S), Len(ds), req)
  PROVE  Expand(Kept(ds, S), Len(ds), req) = ds
<1> DEFINE n == Len(ds)
           pd == Kept(ds, S)
           full == NonEmpty(pd)
           asked == NonEmpty(ds)
<1>0. /\ n \in Nat /\ DOMAIN ds = 1 .. n /\ ds = [c \in 1 .. n |-> ds[c]]
      /\ IsFiniteSet(1 .. n) /\ Cardinality(1 .. n) = n
  BY ListFacts, CardinalityOfInterval
<1>1. CASE Len(pd) = n
  <2>1. S = 1 .. n
    <3>1. Cardinality(S) = Cardinality(1 .. n)
      BY <1>0, <1>1, KeptPlaces
    <3> QED BY <1>0, <3>1, FS_Subset
  <2>2. pd = [k \in 1 .. n |-> ds[Nth(1 .. n, k)]]
    BY <1>0, <2>1 DEF Kept
  <2>3. \A k \in 1 .. n : Nth(1 .. n, k) = k
    BY <1>0, NthOfInterval
  <2>4. pd = ds
    <3> HIDE DEF pd, n
    <3> QED BY <1>0, <2>2, <2>3
  <2> QED BY <1>1, <2>4 DEF Expand
<1>2. CASE Len(pd) # n
  <2>1. /\ Cardinality(full) = Cardinality(asked)
        /\ \A c \in asked : Rank(S, c) \in full /\ Rank(full, Rank(S, c)) = Rank(asked, c)
    BY KeptNonEmpty
  <2>2. req = asked
    <3>1. Cardinality(asked) = Cardinality(req)
      BY <1>2, <2>1 DEF Alignable
    <3>2. asked \in SUBSET req /\ IsFiniteSet(req)
      BY <1>0, FS_Subset
    <3> QED BY <3>1, <3>2, FS_Subset
  <2>3. /\ pd \in ListOfLists /\ full \in SUBSET (1 .. Len(pd))
        /\ \A c \in S : pd[Rank(S, c)] = ds[c]
    BY KeptPlaces, ListFacts
  <2>4. ASSUME NEW c \in asked
        PROVE  Kept(pd, full)[Rank(asked, c)] = ds[c]
    <3>1. Rank(S, c) \in full /\ Rank(full, Rank(S, c)) = Rank(asked, c)
      BY <2>1
    <3> HIDE DEF pd, full
    <3>2. Kept(pd, full)[Rank(full, Rank(S, c))] = pd[Rank(S, c)]
      BY <2>3, <3>1, KeptPlaces
    <3> QED BY <2>3, <3>1, <3>2
  <2>5. \A c \in (1 .. n) \ asked : ds[c] = <<>>
    BY <1>0 DEF NonEmpty
  <2>6. Expand(pd, n, req) =
          [c \in 1 .. n |-> IF c \in asked THEN Kept(pd, full)[Rank(asked, c)] ELSE <<>>]
    BY <1>2, <2>2 DEF Expand
  <2>7. \A c \in 1 .. n :
          ds[c] = IF c \in asked THEN Kept(pd, full)[Rank(asked, c)] ELSE <<>>
    BY <2>4, <2>5
  <2> HIDE DEF pd, full, asked, n
  <2>8. Expand(pd, n, req) = ds
    BY <1>0, <2>6, <2>7
  <2> QED BY <2>8 DEF pd, n
<1> QED BY <1>1, <1>2

\* What is left for the containers outside A.
Remaining(ds, A) == [c \in DOMAIN ds |-> IF c \in A THEN <<>> ELSE ds[c]]

LEMMA RemainingFacts ==
  ASSUME NEW ds \in ListOfLists, NEW A
  PROVE  /\ Remaining(ds, A) \in ListOfLists /\ Len(Remaining(ds, A)) = Len(ds)
         /\ DOMAIN Remaining(ds, A) = DOMAIN ds
         /\ NonEmpty(Remaining(ds, A)) = NonEmpty(ds) \ A
         /\ Remaining(ds, {}) = ds
<1>0. Len(ds) \in Nat /\ DOMAIN ds = 1 .. Len(ds) /\ ds \in [1 .. Len(ds) -> Seq(Dev)]
  BY ListFacts
<1>1. <<>> \in Seq(Dev)
  OBVIOUS
<1>2. Remaining(ds, A) \in [1 .. Len(ds) -> Seq(Dev)]
  BY <1>0, <1>1 DEF Remaining
<1>3. Remaining(ds, A) \in ListOfLists /\ Len(Remaining(ds, A)) = Len(ds)
  BY <1>0, <1>2, IntervalSeq DEF ListOfLists
<1>4. NonEmpty(Remaining(ds, A)) = NonEmpty(ds) \ A
  BY <1>0 DEF NonEmpty, Remaining
<1>5. Remaining(ds, {}) = ds
  BY <1>0 DEF Remaining
<1> QED BY <1>0, <1>2, <1>3, <1>4, <1>5

\* A list that holds the devices of all containers but those in A: as the
\* scheduler wrote it, or as a call left it.
LaidOut(pd, ds, A) ==
  \/ pd = Remaining(ds, A)
  \/ A = {} /\ \E S \in SUBSET (1 .. Len(ds)) : NonEmpty(ds) \subseteq S /\ pd = Kept(ds, S)

LEMMA LaidOutExpands ==
  ASSUME NEW ds \in ListOfLists, NEW A, NEW pd, LaidOut(pd, ds, A),
         NEW req \in SUBSET (1 .. Len(ds)), NonEmpty(ds) \subseteq req
  PROVE  /\ pd \in ListOfLists
         /\ Alignable(pd, Len(ds), req) =>
              Expand(pd, Len(ds), req) = Remaining(ds, A)
<1>1. CASE pd = Remaining(ds, A)
  BY <1>1, RemainingFacts DEF Expand
<1>2. ASSUME A = {}, NEW S \in SUBSET (1 .. Len(ds)), NonEmpty(ds) \subseteq S, pd = Kept(ds, S)
      PROVE  /\ pd \in ListOfLists
             /\ Alignable(pd, Len(ds), req) =>
                  Expand(pd, Len(ds), req) = Remaining(ds, A)
  BY <1>2, KeptPlaces, ExpandKept, RemainingFacts
<1> QED BY <1>1, <1>2 DEF LaidOut

\* The first container outside A is the next to be served, and blanked.
LEMMA NextServed ==
  ASSUME NEW ds \in ListOfLists, NEW A, NEW c \in NonEmpty(ds) \ A,
         \A d \in NonEmpty(ds) \ A : c <= d
  PROVE  /\ NonEmpty(Remaining(ds, A)) # {} /\ NextContainer(Remaining(ds, A)) = c
         /\ Remaining(ds, A)[c] = ds[c]
         /\ EraseFirstDeviceSegment(Remaining(ds, A)) = Remaining(ds, A \cup {c})
<1> DEFINE rest == NonEmpty(ds) \ A
<1>1. /\ rest \in SUBSET Int /\ c \in rest /\ c \in DOMAIN ds
      /\ NonEmpty(Remaining(ds, A)) = rest
  BY ListFacts, RemainingFacts DEF NonEmpty
<1>2. Min(rest) = c
  BY <1>1, MinIs
<1>3. Remaining(ds, A)[c] = ds[c]
  BY <1>1 DEF Remaining
<1>4. EraseFirstDeviceSegment(Remaining(ds, A)) = [Remaining(ds, A) EXCEPT ![c] = <<>>]
  BY <1>1, <1>2 DEF EraseFirstDeviceSegment
<1>5. [Remaining(ds, A) EXCEPT ![c] = <<>>] = Remaining(ds, A \cup {c})
  BY <1>1 DEF Remaining
<1> QED BY <1>1, <1>2, <1>3, <1>4, <1>5 DEF NextContainer

LEMMA EraseType ==
  ASSUME NEW pd \in ListOfLists
  PROVE  EraseFirstDeviceSegment(pd) \in ListOfLists
<1>1. <<>> \in Seq(Dev)
  OBVIOUS
<1>2. [pd EXCEPT ![Min(NonEmpty(pd))] = <<>>] \in [1 .. Len(pd) -> Seq(Dev)]
  BY <1>1, ListFacts
<1>3. [pd EXCEPT ![Min(NonEmpty(pd))] = <<>>] \in ListOfLists
  BY <1>2, ListFacts, IntervalSeq DEF ListOfLists
<1> QED BY <1>3 DEF EraseFirstDeviceSegment

-----------------------------------------------------------------------------
(* The annotation from the patch to the last call                          *)

\* The containers served: the first ones of those with devices.
Past == {c \in NonEmpty(devs) : Rank(NonEmpty(devs), c) <= Len(served)}

ServerInv ==
  /\ devs \in ListOfLists /\ Len(devs) > 0 /\ NonEmpty(devs) # {}
  /\ requesting \in SUBSET (1 .. Len(devs)) /\ NonEmpty(devs) \subseteq requesting
  /\ served \in Seq([ctr : Nat, devs : Seq(Dev)])
  /\ Len(served) <= Cardinality(NonEmpty(devs))
  /\ \E pd \in ListOfLists : LaidOut(pd, devs, Past) /\ text = EncodePodSingleDevice(pd)
  /\ ServedInOrder

\* The smallest member that is not among the first k is the next one.
LEMMA NextInRank ==
  ASSUME NEW F \in SUBSET Int, IsFiniteSet(F), NEW k \in Nat,
         F \ {c \in F : Rank(F, c) <= k} # {}
  PROVE  \E c \in F :
           /\ Rank(F, c) = k + 1 /\ k + 1 <= Cardinality(F)
           /\ \A d \in F \ {e \in F : Rank(F, e) <= k} : c <= d
           /\ {d \in F : Rank(F, d) <= k} \cup {c} = {d \in F : Rank(F, d) <= k + 1}
<1>0. Cardinality(F) \in Nat /\ \A x \in F : Rank(F, x) \in 1 .. Cardinality(F)
  BY FS_CardinalityType, RankBounds
<1>1. PICK x \in F : ~(Rank(F, x) <= k)
  OBVIOUS
<1>2. k + 1 \in 1 .. Cardinality(F)
  BY <1>0, <1>1
<1>3. PICK c \in F : Rank(F, c) = k + 1
  BY <1>2, RankOnto
<1>4. ASSUME NEW d \in F, ~(Rank(F, d) <= k) PROVE c <= d
  <2> SUFFICES ASSUME d < c PROVE FALSE
    OBVIOUS
  <2>1. Rank(F, d) < Rank(F, c)
    BY RankGrows
  <2> QED BY <1>0, <1>3, <1>4, <2>1
<1>5. ASSUME NEW d \in F PROVE Rank(F, d) <= k + 1 <=> Rank(F, d) <= k \/ d = c
  <2>1. Rank(F, d) \in Nat
    BY <1>0
  <2>2. Rank(F, d) = k + 1 => d = c
    BY <1>3, RankTells
  <2> QED BY <1>3, <2>1, <2>2
<1>6. {d \in F : Rank(F, d) <= k} \cup {c} = {d \in F : Rank(F, d) <= k + 1}
  BY <1>5
<1>7. \A d \in F \ {e \in F : Rank(F, e) <= k} : c <= d
  BY <1>4
<1>8. k + 1 <= Cardinality(F)
  BY <1>0, <1>2
<1> QED BY <1>3, <1>6, <1>7, <1>8

LEMMA WrittenInv == Written => ServerInv
<1> SUFFICES ASSUME Written PROVE ServerInv
  OBVIOUS
<1>1. PICK n \in 1 .. MaxCtr :
        /\ devs \in [1 .. n -> Choice]
        /\ NonEmpty(devs) # {}
        /\ requesting \in SUBSET (1 .. n)
        /\ NonEmpty(devs) \subseteq requesting
        /\ \E kept \in SUBSET (1 .. n) :
             text = EncodePodSingleDevice(Kept(devs, kept \cup NonEmpty(devs)))
        /\ served = <<>>
  BY DEF Written
<1>2. n \in Nat /\ n > 0
  BY ServerAssumption
<1>3. devs \in ListOfLists /\ Len(devs) = n
  <2>1. devs \in [1 .. n -> Seq(Dev)]
    BY <1>1, ServerAssumption
  <2> QED BY <1>2, <2>1, IntervalSeq DEF ListOfLists
<1>4. served \in Seq([ctr : Nat, devs : Seq(Dev)]) /\ Len(served) = 0 /\ DOMAIN served = {}
  BY <1>1
<1>5. Past = {}
  <2>1. \A c \in NonEmpty(devs) : Rank(NonEmpty(devs), c) \in 1 .. Cardinality(NonEmpty(devs))
    BY <1>3, ListFacts, RankBounds
  <2>2. Cardinality(NonEmpty(devs)) \in Nat
    BY <1>3, ListFacts, FS_CardinalityType
  <2> QED BY <1>4, <2>1, <2>2 DEF Past
<1>6. PICK kept \in SUBSET (1 .. n) :
        text = EncodePodSingleDevice(Kept(devs, kept \cup NonEmpty(devs)))
  BY <1>1
<1> DEFINE S == kept \cup NonEmpty(devs)
<1>7. S \in SUBSET (1 .. Len(devs)) /\ NonEmpty(devs) \subseteq S
  BY <1>3, ListFacts
<1>8. Kept(devs, S) \in ListOfLists /\ LaidOut(Kept(devs, S), devs, Past)
  <2> HIDE DEF S
  <2> QED BY <1>3, <1>5, <1>7, KeptPlaces DEF LaidOut
<1>9. Len(served) <= Cardinality(NonEmpty(devs))
  BY <1>3, <1>4, ListFacts, FS_CardinalityType
<1>10. ServedInOrder
  BY <1>4 DEF ServedInOrder
<1> QED BY <1>1, <1>2, <1>3, <1>4, <1>6, <1>8, <1>9, <1>10 DEF ServerInv

\* What a call finds in the text: the devices of the containers not yet served.
LEMMA ServeFinds ==
  ASSUME ServerInv, Alignable(DecodePodDevices(text), Len(devs), requesting)
  PROVE  Expand(DecodePodDevices(text), Len(devs), requesting) = Remaining(devs, Past)
<1>1. PICK pd \in ListOfLists : LaidOut(pd, devs, Past) /\ text = EncodePodSingleDevice(pd)
  BY DEF ServerInv
<1>2. DecodePodDevices(text) = pd
  BY <1>1, RoundTrip DEF ListOfLists
<1> QED BY <1>1, <1>2, LaidOutExpands DEF ServerInv

LEMMA ServeInv == ServerInv /\ Serve => ServerInv'
<1> SUFFICES ASSUME ServerInv, Serve PROVE ServerInv'
  OBVIOUS
<1> DEFINE F == NonEmpty(devs)
           all == Remaining(devs, Past)
           k == Len(served)
<1>1. /\ NonEmpty(all) # {}
      /\ served' = Append(served, [ctr |-> NextContainer(all), devs |-> all[NextContainer(all)]])
      /\ text' = EncodePodSingleDevice(EraseFirstDeviceSegment(all))
      /\ devs' = devs /\ requesting' = requesting
  BY ServeFinds DEF Serve
<1>2. /\ devs \in ListOfLists /\ F \in SUBSET Int /\ IsFiniteSet(F) /\ F \subseteq 1 .. Len(devs)
      /\ DOMAIN devs = 1 .. Len(devs) /\ Len(devs) \in Nat
      /\ served \in Seq([ctr : Nat, devs : Seq(Dev)]) /\ k \in Nat /\ ServedInOrder
      /\ \A c \in F : devs[c] \in Seq(Dev)
  BY ListFacts DEF ServerInv
<1>3. NonEmpty(all) = F \ Past /\ Past = {c \in F : Rank(F, c) <= k}
  BY <1>2, RemainingFacts DEF Past
<1>4. PICK c \in F :
        /\ Rank(F, c) = k + 1 /\ k + 1 <= Cardinality(F)
        /\ \A d \in F \ {e \in F : Rank(F, e) <= k} : c <= d
        /\ {d \in F : Rank(F, d) <= k} \cup {c} = {d \in F : Rank(F, d) <= k + 1}
  <2> HIDE DEF F, k, all
  <2> QED BY <1>1, <1>2, <1>3, NextInRank
<1>5. c \in F \ Past /\ \A d \in F \ Past : c <= d
  BY <1>2, <1>3, <1>4
<1>6. /\ NextContainer(all) = c /\ all[c] = devs[c]
      /\ EraseFirstDeviceSegment(all) = Remaining(devs, Past \cup {c})
  BY <1>2, <1>5, NextServed
<1> DEFINE r == [ctr |-> c, devs |-> devs[c]]
<1>7. served' = Append(served, r) /\ r \in [ctr : Nat, devs : Seq(Dev)]
  <2>1. c \in Nat /\ devs[c] \in Seq(Dev)
    BY <1>2
  <2> QED BY <1>1, <1>6, <2>1
<1> HIDE DEF r
<1>8. /\ served' \in Seq([ctr : Nat, devs : Seq(Dev)]) /\ Len(served') = k + 1
      /\ \A i \in 1 .. k : served'[i] = served[i]
      /\ served'[k + 1] = r
  BY <1>2, <1>7
<1>9. Past' = Past \cup {c}
  BY <1>1, <1>3, <1>4, <1>8 DEF Past
<1>10. \E pd \in ListOfLists : LaidOut(pd, devs, Past') /\ text' = EncodePodSingleDevice(pd)
  <2>1. Remaining(devs, Past') \in ListOfLists /\ LaidOut(Remaining(devs, Past'), devs, Past')
    BY <1>2, RemainingFacts DEF LaidOut
  <2> QED BY <1>1, <1>6, <1>9, <2>1
<1>11. ServedInOrder'
  <2> SUFFICES ASSUME NEW i \in 1 .. k + 1
               PROVE  /\ served'[i].ctr \in F /\ Rank(F, served'[i].ctr) = i
                      /\ served'[i].devs = devs[served'[i].ctr]
    <3>1. DOMAIN served' = 1 .. k + 1
      BY <1>8
    <3> QED BY <1>1, <3>1 DEF ServedInOrder
  <2>1. CASE i = k + 1
    BY <2>1, <1>4, <1>8 DEF r
  <2>2. CASE i # k + 1
    <3>1. i \in 1 .. k /\ i \in DOMAIN served
      BY <2>2, <1>2
    <3> QED BY <3>1, <1>2, <1>8 DEF ServedInOrder
  <2> QED BY <2>1, <2>2
<1> QED BY <1>1, <1>2, <1>4, <1>8, <1>10, <1>11 DEF ServerInv, LaidOut

LEMMA AlwaysServerInv == ServerSpec => []ServerInv
<1>1. ServerInv /\ UNCHANGED serverVars => ServerInv'
  BY DEF ServerInv, serverVars, Past, ServedInOrder, LaidOut
<1> QED BY <1>1, WrittenInv, ServeInv, PTL DEF ServerSpec

\* For any pod, any devices and any layout of the scheduler's: the k-th call
\* serves the k-th container with devices, with the devices chosen for it.
THEOREM OrderServed == ServerSpec => []ServedInOrder
<1>1. ServerInv => ServedInOrder
  BY DEF ServerInv
<1> QED BY <1>1, AlwaysServerInv, PTL

\* After the first call the text is positional.
THEOREM PositionalText == ServerSpec => []SlotsKept
<1>1. ServerInv => SlotsKept
  <2> SUFFICES ASSUME ServerInv, served # <<>> PROVE Len(DecodePodDevices(text)) = Len(devs)
    BY DEF SlotsKept
  <2>1. PICK pd \in ListOfLists : LaidOut(pd, devs, Past) /\ text = EncodePodSingleDevice(pd)
    BY DEF ServerInv
  <2>2. DecodePodDevices(text) = pd
    BY <2>1, RoundTrip DEF ListOfLists
  <2>3. Past # {}
    <3>1. /\ devs \in ListOfLists /\ NonEmpty(devs) \in SUBSET Int /\ IsFiniteSet(NonEmpty(devs))
          /\ NonEmpty(devs) # {}
      BY ListFacts DEF ServerInv
    <3>2. Cardinality(NonEmpty(devs)) \in Nat \ {0}
      BY <3>1, FS_CardinalityType, FS_EmptySet
    <3>3. PICK c \in NonEmpty(devs) : Rank(NonEmpty(devs), c) = 1
      BY <3>1, <3>2, RankOnto
    <3>4. Len(served) \in Nat /\ Len(served) # 0
      BY DEF ServerInv
    <3> QED BY <3>3, <3>4 DEF Past
  <2>4. pd = Remaining(devs, Past)
    BY <2>1, <2>3 DEF LaidOut
  <2> QED BY <2>2, <2>4, RemainingFacts DEF ServerInv
<1> QED BY <1>1, AlwaysServerInv, PTL

\* A complete annotation is served to its last container.
THEOREM ServesToTheEnd == ServerSpec => []NeverStuck
<1>1. ServerInv => NeverStuck
  <2> SUFFICES ASSUME ServerInv, NonEmpty(devs) = requesting
               PROVE  \/ HasDevices(text) /\ Alignable(DecodePodDevices(text), Len(devs), requesting)
                      \/ ~HasDevices(text) /\ Len(served) = Cardinality(requesting)
    BY DEF NeverStuck
  <2> DEFINE F == NonEmpty(devs)
  <2>1. PICK pd \in ListOfLists : LaidOut(pd, devs, Past) /\ text = EncodePodSingleDevice(pd)
    BY DEF ServerInv
  <2>2. DecodePodDevices(text) = pd /\ (HasDevices(text) <=> NonEmpty(pd) # {})
    BY <2>1, RoundTrip, NamesDevices DEF ListOfLists
  <2>3. /\ devs \in ListOfLists /\ F \in SUBSET Int /\ IsFiniteSet(F) /\ F # {}
        /\ Cardinality(F) \in Nat \ {0} /\ Len(devs) > 0 /\ Len(devs) \in Nat
        /\ Len(served) \in Nat /\ Len(served) <= Cardinality(F)
    BY ListFacts, FS_CardinalityType, FS_EmptySet DEF ServerInv
  <2>4. CASE pd = Remaining(devs, Past)
    <3>1. Len(pd) = Len(devs) /\ NonEmpty(pd) = F \ Past
      BY <2>3, <2>4, RemainingFacts
    <3>2. Alignable(pd, Len(devs), requesting)
      BY <2>3, <3>1 DEF Alignable
    <3>3. F \ Past = {} => Len(served) = Cardinality(F)
      <4>1. PICK c \in F : Rank(F, c) = Cardinality(F)
        BY <2>3, RankOnto
      <4>2. c \in Past => Cardinality(F) <= Len(served)
        BY <4>1 DEF Past
      <4> QED BY <2>3, <4>2
    <3> QED BY <2>2, <3>1, <3>2, <3>3
  <2>5. ASSUME NEW S \in SUBSET (1 .. Len(devs)), F \subseteq S, pd = Kept(devs, S)
        PROVE  HasDevices(text) /\ Alignable(pd, Len(devs), requesting)
    <3>1. Cardinality(NonEmpty(pd)) = Cardinality(F)
      BY <2>3, <2>5, KeptNonEmpty
    <3>2. NonEmpty(pd) # {}
      BY <2>3, <3>1, FS_EmptySet
    <3> QED BY <2>2, <2>3, <3>1, <3>2 DEF Alignable
  <2> QED BY <2>1, <2>2, <2>4, <2>5 DEF LaidOut
<1> QED BY <1>1, AlwaysServerInv, PTL

=============================================================================
