------------------------ MODULE CompactionPlanProofs ------------------------
(***************************************************************************)
(* What the helpers of Compaction return, what a plan is, and that picking *)
(* a level, planning and failing keep its invariant.                       *)
(***************************************************************************)
EXTENDS Compaction, FiniteSetTheorems, TLAPS

-----------------------------------------------------------------------------
\* Induction, over the elements of a set.

\* A set of numbers has a least one.
LEMMA LeastOf ==
  ASSUME NEW S, S \subseteq Nat, S # {}
  PROVE  \E x \in S : \A y \in S : x <= y
<1>1. PICK x \in S : \A y \in S : ~(<<y, x>> \in OpToRel(<, Nat))
  BY NatLessThanWellFounded, WFMin, Zenon
<1>2. ASSUME NEW y \in S PROVE x <= y
  <2>1. x \in Nat /\ y \in Nat
    BY Zenon
  <2>2. y < x => <<y, x>> \in OpToRel(<, Nat)
    BY <2>1, Zenon DEF OpToRel
  <2>3. ~(y < x)
    BY <1>1, <2>2, Zenon
  <2> QED
    BY <2>1, <2>3
<1> QED
  BY <1>2, Zenon

\* A set with zero and, up to N, the successor of each of its numbers has them all.
LEMMA Climbs ==
  ASSUME NEW N \in Nat, NEW S, 0 \in S, \A n \in 1 .. N : n - 1 \in S => n \in S
  PROVE  \A n \in 0 .. N : n \in S
<1> DEFINE missing == {n \in 0 .. N : n \notin S}
<1>1. SUFFICES ASSUME missing # {} PROVE FALSE
  BY Zenon
<1>2. PICK m \in missing : \A y \in missing : m <= y
  <2>1. missing \subseteq Nat
    OBVIOUS
  <2> QED
    BY <1>1, <2>1, LeastOf, Zenon
<1>3. m \in 1 .. N /\ m - 1 \in 0 .. N /\ m - 1 \notin missing
  BY <1>2
<1> QED
  BY <1>2, <1>3, Zenon

\* A set of numbers with a bound has a greatest one, which Max is.
LEMMA GreatestOf ==
  ASSUME NEW S, S \subseteq Nat, S # {}, NEW n \in Nat, \A x \in S : x <= n
  PROVE  Max(S) \in S /\ \A y \in S : y <= Max(S)
<1> DEFINE T == {n - x : x \in S}
<1>1. T \subseteq Nat /\ T # {}
  <2>1. \A x \in S : n - x \in Nat
    OBVIOUS
  <2> QED
    BY <2>1, Zenon
<1>2. PICK m \in T : \A y \in T : m <= y
  BY <1>1, LeastOf, Zenon
<1>3. PICK x \in S : m = n - x
  BY <1>2, Zenon
<1>4. \A y \in S : x >= y
  <2>1. SUFFICES ASSUME NEW y \in S PROVE x >= y
    BY Zenon
  <2>2. n - y \in T
    BY Zenon
  <2>3. n - x <= n - y
    BY <1>2, <1>3, <2>2, Zenon
  <2> QED
    BY <2>3
<1>5. Max(S) \in S /\ \A y \in S : Max(S) >= y
  BY <1>4, Zenon DEF Max
<1> QED
  BY <1>5, Zenon

-----------------------------------------------------------------------------
\* Sequences and finite sets.

\* A sequence has finitely many elements.
LEMMA RangeFinite ==
  ASSUME NEW S, NEW s \in Seq(S)
  PROVE  IsFiniteSet(Range(s)) /\ Range(s) \subseteq S
<1>1. IsFiniteSet(DOMAIN s)
  <2>1. Len(s) \in Int /\ 1 \in Int /\ DOMAIN s = 1 .. Len(s)
    OBVIOUS
  <2> QED
    BY <2>1, FS_Interval, Zenon
<1>2. s \in Surjection(DOMAIN s, Range(s))
  BY DEF Surjection, Range
<1>3. IsFiniteSet(Range(s))
  BY <1>1, <1>2, FS_Surjection, Zenon
<1> QED
  BY <1>3 DEF Range

LEMMA RangeConcat ==
  ASSUME NEW S, NEW s \in Seq(S), NEW t \in Seq(S)
  PROVE  Range(s \o t) = Range(s) \cup Range(t)
<1>1. ASSUME NEW x \in Range(s \o t) PROVE x \in Range(s) \cup Range(t)
  <2>1. PICK i \in DOMAIN (s \o t) : x = (s \o t)[i]
    BY Zenon DEF Range
  <2>2. \/ i \in DOMAIN s /\ x = s[i]
        \/ i - Len(s) \in DOMAIN t /\ x = t[i - Len(s)]
    BY <2>1
  <2> QED
    BY <2>2, Zenon DEF Range
<1>2. ASSUME NEW x \in Range(s) PROVE x \in Range(s \o t)
  <2>1. PICK i \in DOMAIN s : x = s[i]
    BY Zenon DEF Range
  <2>2. i \in DOMAIN (s \o t) /\ (s \o t)[i] = s[i]
    OBVIOUS
  <2> QED
    BY <2>1, <2>2, Zenon DEF Range
<1>3. ASSUME NEW x \in Range(t) PROVE x \in Range(s \o t)
  <2>1. PICK i \in DOMAIN t : x = t[i]
    BY Zenon DEF Range
  <2>2. i + Len(s) \in DOMAIN (s \o t) /\ (s \o t)[i + Len(s)] = t[i]
    OBVIOUS
  <2> QED
    BY <2>1, <2>2, Zenon DEF Range
<1> QED
  BY <1>1, <1>2, <1>3, Zenon

\* Keep returns the tables asked for, and only them, in the order they had.
LEMMA KeepIs ==
  ASSUME NEW S, NEW s \in Seq(S), NEW ts
  PROVE  /\ Keep(s, ts) \in Seq(S)
         /\ Range(Keep(s, ts)) = Range(s) \cap ts
         /\ \A i, j \in DOMAIN Keep(s, ts) : i < j =>
              \E a, b \in DOMAIN s : a < b /\ Keep(s, ts)[i] = s[a] /\ Keep(s, ts)[j] = s[b]
<1> DEFINE N == Len(s)
           Rec(f, m) == f = [i \in 0 .. m |->
                               IF i = 0 THEN <<>>
                               ELSE IF s[i] \in ts THEN Append(f[i - 1], s[i]) ELSE f[i - 1]]
           R == {m \in 0 .. N : \E f : Rec(f, m)}
<1>0. N \in Nat /\ DOMAIN s = 1 .. N /\ \A i \in 1 .. N : s[i] \in S
  OBVIOUS
<1>1. 0 \in R
  <2> DEFINE g == [i \in 0 .. 0 |-> <<>>]
  <2>1. Rec(g, 0)
    OBVIOUS
  <2>2. 0 \in 0 .. N
    BY <1>0
  <2> QED
    BY <2>1, <2>2, Zenon
<1>2. ASSUME NEW m \in 1 .. N, m - 1 \in R PROVE m \in R
  <2>1. PICK f : Rec(f, m - 1)
    BY <1>2, Zenon
  <2> DEFINE step == IF s[m] \in ts THEN Append(f[m - 1], s[m]) ELSE f[m - 1]
             g == [i \in 0 .. m |-> IF i = m THEN step ELSE f[i]]
  <2>2. \A i \in 0 .. m : g[i] = IF i = 0 THEN <<>>
                                 ELSE IF s[i] \in ts THEN Append(g[i - 1], s[i]) ELSE g[i - 1]
    <3> HIDE DEF step
    <3>1. \A i \in 0 .. m - 1 : g[i] = f[i]
      OBVIOUS
    <3>2. \A i \in 0 .. m - 1 : f[i] = IF i = 0 THEN <<>>
                                       ELSE IF s[i] \in ts THEN Append(f[i - 1], s[i])
                                       ELSE f[i - 1]
      BY <2>1, Zenon
    <3>3. g[m] = step /\ g[m - 1] = f[m - 1]
      BY <3>1
    <3>4. \A i \in 1 .. m - 1 : g[i - 1] = f[i - 1]
      BY <3>1
    <3> HIDE DEF g
    <3> QED
      BY <3>1, <3>2, <3>3, <3>4 DEF step
  <2>3. Rec(g, m)
    BY <2>2, Zenon
  <2>4. m \in 0 .. N
    OBVIOUS
  <2> QED
    BY <2>3, <2>4, Zenon
<1>3. N \in R
  <2> HIDE DEF R
  <2>1. \A n \in 0 .. N : n \in R
    BY <1>0, <1>1, <1>2, Climbs, Zenon
  <2> QED
    BY <2>1, <1>0
<1> DEFINE F == CHOOSE f : Rec(f, N)
<1>4. Rec(F, N)
  BY <1>3, Zenon
<1>5. Keep(s, ts) = F[N]
  BY Zenon DEF Keep
<1> HIDE DEF F
<1>6. F[0] = <<>> /\ \A i \in 1 .. N : F[i] = IF s[i] \in ts THEN Append(F[i - 1], s[i])
                                              ELSE F[i - 1]
  <2>1. \A i \in 0 .. N : F[i] = IF i = 0 THEN <<>>
                                 ELSE IF s[i] \in ts THEN Append(F[i - 1], s[i]) ELSE F[i - 1]
    BY <1>4, Zenon
  <2>2. 0 \in 0 .. N /\ \A i \in 1 .. N : i \in 0 .. N /\ i # 0
    BY <1>0
  <2> QED
    BY <2>1, <2>2, Zenon
<1> DEFINE From(q, m) == \A i \in DOMAIN q : \E a \in 1 .. m : q[i] = s[a]
           Along(q, m) == \A i, j \in DOMAIN q : i < j =>
                            \E a, b \in 1 .. m : a < b /\ q[i] = s[a] /\ q[j] = s[b]
           Good(m) == /\ F[m] \in Seq(S)
                      /\ Range(F[m]) = {s[i] : i \in 1 .. m} \cap ts
                      /\ From(F[m], m) /\ Along(F[m], m)
           G == {m \in 0 .. N : Good(m)}
<1>7. 0 \in G
  <2>1. F[0] = <<>> /\ 0 \in 0 .. N
    BY <1>6, <1>0
  <2>2. Good(0)
    BY <2>1 DEF Range
  <2> QED
    BY <2>1, <2>2, Zenon
<1>8. ASSUME NEW m \in 1 .. N, m - 1 \in G PROVE m \in G
  <2>0. m \in Nat /\ m - 1 \in Nat /\ m \in 0 .. N /\ 1 .. m = (1 .. m - 1) \cup {m} /\ s[m] \in S
    BY <1>0
  <2>1. Good(m - 1)
    BY <1>8, Zenon
  <2>2. CASE s[m] \notin ts
    <3>1. F[m] = F[m - 1]
      BY <1>6, <2>2, Zenon
    <3>2. {s[i] : i \in 1 .. m} \cap ts = {s[i] : i \in 1 .. m - 1} \cap ts
      BY <2>0, <2>2, Zenon
    <3>3. 1 .. m - 1 \subseteq 1 .. m
      BY <2>0, Zenon
    <3>4. Range(F[m]) = {s[i] : i \in 1 .. m} \cap ts
      BY <2>1, <3>1, <3>2, Zenon
    <3>5. ASSUME NEW q, From(q, m - 1) PROVE From(q, m)
      BY <3>3, <3>5, Zenon
    <3>6. ASSUME NEW q, Along(q, m - 1) PROVE Along(q, m)
      <4>1. SUFFICES ASSUME NEW i \in DOMAIN q, NEW j \in DOMAIN q, i < j
                     PROVE  \E a, b \in 1 .. m : a < b /\ q[i] = s[a] /\ q[j] = s[b]
        BY Zenon
      <4>2. PICK a \in 1 .. m - 1, b \in 1 .. m - 1 : a < b /\ q[i] = s[a] /\ q[j] = s[b]
        BY <3>6, <4>1, Zenon
      <4>3. a \in 1 .. m /\ b \in 1 .. m
        BY <3>3, Zenon
      <4> QED
        BY <4>2, <4>3, Zenon
    <3> HIDE DEF From, Along
    <3> QED
      BY <2>0, <2>1, <3>1, <3>4, <3>5, <3>6, Zenon
  <2>3. CASE s[m] \in ts
    <3> DEFINE q == F[m - 1]
    <3>1. F[m] = Append(q, s[m])
      BY <1>6, <2>3, Zenon
    <3>2. {s[i] : i \in 1 .. m} \cap ts = ({s[i] : i \in 1 .. m - 1} \cap ts) \cup {s[m]}
      BY <2>0, <2>3, Zenon
    <3> HIDE DEF q
    <3>3. q \in Seq(S) /\ Range(q) = {s[i] : i \in 1 .. m - 1} \cap ts
      BY <2>1, Zenon DEF q
    <3>4. F[m] \in Seq(S) /\ DOMAIN F[m] = 1 .. Len(q) + 1 /\ Len(q) \in Nat
      BY <2>0, <3>1, <3>3
    <3>5. F[m][Len(q) + 1] = s[m] /\ \A i \in 1 .. Len(q) : F[m][i] = q[i]
      BY <2>0, <3>1, <3>3
    <3>6. Range(F[m]) = Range(q) \cup {s[m]}
      <4>1. DOMAIN F[m] = (1 .. Len(q)) \cup {Len(q) + 1} /\ DOMAIN q = 1 .. Len(q)
        BY <3>3, <3>4
      <4> QED
        BY <3>5, <4>1 DEF Range
    <3>7. /\ \A i \in 1 .. Len(q) : \E a \in 1 .. m - 1 : q[i] = s[a]
          /\ \A i, j \in 1 .. Len(q) : i < j =>
                \E a, b \in 1 .. m - 1 : a < b /\ q[i] = s[a] /\ q[j] = s[b]
      <4>1. DOMAIN q = 1 .. Len(q)
        BY <3>3
      <4>2. From(q, m - 1) /\ Along(q, m - 1)
        BY <2>1, Zenon DEF q
      <4> QED
        BY <4>1, <4>2
    <3>8. ASSUME NEW i \in DOMAIN F[m] PROVE \E a \in 1 .. m : F[m][i] = s[a]
      <4>1. i = Len(q) + 1 \/ i \in 1 .. Len(q)
        BY <3>4
      <4>2. m \in 1 .. m /\ 1 .. m - 1 \subseteq 1 .. m
        BY <2>0, Zenon
      <4>3. CASE i = Len(q) + 1
        BY <3>5, <4>2, <4>3, Zenon
      <4>4. CASE i \in 1 .. Len(q)
        <5>1. PICK a \in 1 .. m - 1 : q[i] = s[a]
          BY <3>7, <4>4, Zenon
        <5>2. a \in 1 .. m /\ F[m][i] = s[a]
          BY <3>5, <4>2, <4>4, <5>1, Zenon
        <5> QED
          BY <5>2, Zenon
      <4> QED
        BY <4>1, <4>3, <4>4, Zenon
    <3>9. ASSUME NEW i \in DOMAIN F[m], NEW j \in DOMAIN F[m], i < j
          PROVE  \E a, b \in 1 .. m : a < b /\ F[m][i] = s[a] /\ F[m][j] = s[b]
      <4>1. CASE j \in 1 .. Len(q)
        <5>1. i \in 1 .. Len(q)
          BY <3>4, <3>9, <4>1
        <5>2. PICK a \in 1 .. m - 1, b \in 1 .. m - 1 : a < b /\ q[i] = s[a] /\ q[j] = s[b]
          BY <3>7, <3>9, <4>1, <5>1, Zenon
        <5>3. a \in 1 .. m /\ b \in 1 .. m /\ F[m][i] = q[i] /\ F[m][j] = q[j]
          BY <2>0, <3>5, <4>1, <5>1, Zenon
        <5> QED
          BY <5>2, <5>3, Zenon
      <4>2. CASE j = Len(q) + 1
        <5>1. i \in 1 .. Len(q)
          BY <3>4, <3>9, <4>2
        <5>2. PICK a \in 1 .. m - 1 : q[i] = s[a]
          BY <3>7, <5>1, Zenon
        <5>3. a \in 1 .. m /\ m \in 1 .. m /\ a < m /\ F[m][i] = q[i] /\ F[m][j] = s[m]
          BY <2>0, <3>5, <4>2, <5>1
        <5> QED
          BY <5>2, <5>3, Zenon
      <4> QED
        BY <3>4, <4>1, <4>2
    <3> QED
      BY <2>0, <3>2, <3>3, <3>4, <3>6, <3>8, <3>9, Zenon
  <2> QED
    BY <2>2, <2>3, Zenon
<1>9. Good(N)
  <2> HIDE DEF G
  <2>1. \A n \in 0 .. N : n \in G
    BY <1>0, <1>7, <1>8, Climbs, Zenon
  <2>2. N \in G
    BY <2>1, <1>0
  <2> QED
    BY <2>2, Zenon DEF G
<1>10. Range(s) = {s[i] : i \in 1 .. N}
  BY <1>0, Zenon DEF Range
<1>11. F[N] \in Seq(S) /\ Range(F[N]) = Range(s) \cap ts
  BY <1>9, <1>10, Zenon
<1>12. \A i, j \in DOMAIN F[N] : i < j =>
         \E a, b \in DOMAIN s : a < b /\ F[N][i] = s[a] /\ F[N][j] = s[b]
  <2>1. Along(F[N], N)
    BY <1>9, Zenon
  <2>2. SUFFICES ASSUME NEW i \in DOMAIN F[N], NEW j \in DOMAIN F[N], i < j
                 PROVE  \E a, b \in DOMAIN s : a < b /\ F[N][i] = s[a] /\ F[N][j] = s[b]
    BY Zenon
  <2>3. PICK a \in 1 .. N, b \in 1 .. N : a < b /\ F[N][i] = s[a] /\ F[N][j] = s[b]
    BY <2>1, <2>2, Zenon
  <2>4. a \in DOMAIN s /\ b \in DOMAIN s
    BY <1>0, Zenon
  <2> QED
    BY <2>3, <2>4, Zenon
<1> HIDE DEF N
<1> QED
  BY <1>5, <1>11, <1>12

\* A finite set can be put in the order of its ranks.
LEMMA SortExists ==
  ASSUME NEW S, IsFiniteSet(S), NEW rank, \A x \in S : rank[x] \in Nat
  PROVE  \E s \in [1 .. Cardinality(S) -> S] :
           Range(s) = S /\ \A i, j \in DOMAIN s : i < j => rank[s[i]] <= rank[s[j]]
<1> DEFINE N == Cardinality(S)
           Up(s) == \A i, j \in DOMAIN s : i < j => rank[s[i]] <= rank[s[j]]
           Sorts(n, T) == \E s \in [1 .. n -> T] : Range(s) = T /\ Up(s)
           P == {n \in 0 .. N : \A T \in SUBSET S : Cardinality(T) = n => Sorts(n, T)}
<1>0. N \in Nat /\ \A T \in SUBSET S : IsFiniteSet(T)
  BY FS_CardinalityType, FS_Subset, Zenon
<1>1. 0 \in P
  <2>1. SUFFICES ASSUME NEW T \in SUBSET S, Cardinality(T) = 0 PROVE Sorts(0, T)
    BY <1>0
  <2>2. T = {}
    BY <1>0, <2>1, FS_EmptySet, Zenon
  <2> DEFINE s == [i \in 1 .. 0 |-> i]
  <2>3. s \in [1 .. 0 -> T] /\ DOMAIN s = {}
    OBVIOUS
  <2>4. Range(s) = T /\ Up(s)
    BY <2>2, <2>3, Zenon DEF Range
  <2> QED
    BY <2>3, <2>4, Zenon
<1>2. ASSUME NEW n \in 1 .. N, n - 1 \in P PROVE n \in P
  <2>0. n \in Nat /\ n - 1 \in Nat /\ n \in 0 .. N
    BY <1>0
  <2>1. SUFFICES ASSUME NEW T \in SUBSET S, Cardinality(T) = n PROVE Sorts(n, T)
    BY <2>0, Zenon
  <2>2. PICK x \in T : \A y \in T : rank[x] <= rank[y]
    <3> DEFINE R == {rank[y] : y \in T}
    <3>1. T # {}
      BY <2>0, <2>1, FS_EmptySet
    <3>2. R \subseteq Nat /\ R # {}
      BY <3>1, Zenon
    <3>3. PICK r \in R : \A y \in R : r <= y
      BY <3>2, LeastOf, Zenon
    <3> QED
      BY <3>3, Zenon
  <2> DEFINE U == T \ {x}
  <2>3. U \in SUBSET S /\ Cardinality(U) = n - 1
    BY <1>0, <2>1, FS_RemoveElement, Zenon
  <2>4. PICK s \in [1 .. n - 1 -> U] : Range(s) = U /\ Up(s)
    BY <1>2, <2>3, Zenon
  <2> DEFINE q == [i \in 1 .. n |-> IF i = 1 THEN x ELSE s[i - 1]]
  <2>5. \A i \in 2 .. n : i - 1 \in 1 .. n - 1 /\ i \in 1 .. n /\ q[i] = s[i - 1] /\ q[i] \in U
    <3>1. \A i \in 2 .. n : i - 1 \in 1 .. n - 1 /\ i \in 1 .. n /\ i # 1
      BY <2>0
    <3>2. \A i \in 2 .. n : s[i - 1] \in U
      BY <3>1, Zenon
    <3> HIDE DEF U
    <3> QED
      BY <3>1, <3>2, Zenon
  <2>6. q[1] = x /\ 1 \in 1 .. n /\ DOMAIN q = 1 .. n /\ 1 .. n = {1} \cup (2 .. n)
    BY <2>0
  <2>7. q \in [1 .. n -> T]
    <3>1. \A i \in 1 .. n : q[i] \in T
      BY <2>5, <2>6, Zenon
    <3> QED
      BY <3>1, Zenon
  <2>8. Range(q) = T
    <3>1. ASSUME NEW y \in U PROVE \E i \in DOMAIN q : q[i] = y
      <4>1. PICK j \in 1 .. n - 1 : s[j] = y
        BY <2>4, Zenon DEF Range
      <4>2. j + 1 \in 2 .. n /\ (j + 1) - 1 = j
        BY <2>0
      <4>3. j + 1 \in DOMAIN q /\ q[j + 1] = s[j]
        BY <2>5, <2>6, <4>2, Zenon
      <4> QED
        BY <4>1, <4>3, Zenon
    <3>2. \A y \in T : \E i \in DOMAIN q : q[i] = y
      BY <2>6, <3>1, Zenon
    <3>3. \A i \in DOMAIN q : q[i] \in T
      BY <2>6, <2>7, Zenon
    <3> HIDE DEF q
    <3> QED
      BY <3>2, <3>3, Zenon DEF Range
  <2>9. Up(q)
    <3>1. SUFFICES ASSUME NEW i \in 1 .. n, NEW j \in 1 .. n, i < j
                   PROVE  rank[q[i]] <= rank[q[j]]
      BY <2>6, Zenon
    <3>2. q[j] \in T
      BY <2>7, Zenon
    <3>3. CASE i = 1
      BY <2>2, <2>6, <3>2, <3>3, Zenon
    <3>4. CASE i # 1
      <4>1. i \in 2 .. n /\ j \in 2 .. n /\ i - 1 < j - 1
        BY <3>1, <3>4
      <4>2. i - 1 \in DOMAIN s /\ j - 1 \in DOMAIN s /\ q[i] = s[i - 1] /\ q[j] = s[j - 1]
        BY <2>5, <4>1, Zenon
      <4> QED
        BY <2>4, <4>1, <4>2, Zenon
    <3> QED
      BY <3>3, <3>4, Zenon
  <2> HIDE DEF q
  <2> QED
    BY <2>7, <2>8, <2>9, Zenon
<1>3. N \in P
  <2> HIDE DEF P
  <2>1. \A n \in 0 .. N : n \in P
    BY <1>0, <1>1, <1>2, Climbs, Zenon
  <2> QED
    BY <2>1, <1>0
<1> QED
  BY <1>3, Zenon

\* SortedBy lists every element once.
LEMMA SortedIs ==
  ASSUME NEW S, IsFiniteSet(S), NEW rank, \A x \in S : rank[x] \in Nat
  PROVE  LET s == SortedBy(S, rank)
         IN /\ s \in Seq(S) /\ Range(s) = S
            /\ \A i, j \in DOMAIN s : i < j => rank[s[i]] <= rank[s[j]] /\ s[i] # s[j]
<1> DEFINE s == SortedBy(S, rank)
           N == Cardinality(S)
<1>0. N \in Nat
  BY FS_CardinalityType, Zenon
<1>1. /\ s \in [1 .. N -> S] /\ Range(s) = S
      /\ \A i, j \in DOMAIN s : i < j => rank[s[i]] <= rank[s[j]]
  BY SortExists, Zenon DEF SortedBy
<1> HIDE DEF s
<1>2. s \in Seq(S)
  BY <1>0, <1>1
<1>3. IsFiniteSet(1 .. N) /\ Cardinality(1 .. N) = N
  BY <1>0, FS_Interval
<1>4. s \in Surjection(1 .. N, S)
  BY <1>1, Zenon DEF Surjection, Range
<1>5. s \in Injection(1 .. N, S)
  BY <1>3, <1>4, FS_SurjSameCardinalityImpliesInj, Zenon
<1>6. \A i, j \in DOMAIN s : i < j => s[i] # s[j]
  <2>1. \A i, j \in DOMAIN s : s[i] = s[j] => i = j
    BY <1>5, Zenon DEF Injection, IsInjective
  <2>2. DOMAIN s = 1 .. N
    BY <1>1, Zenon
  <2>3. \A i, j \in 1 .. N : i < j => i # j
    OBVIOUS
  <2> QED
    BY <2>1, <2>2, <2>3, Zenon
<1> QED
  BY <1>1, <1>2, <1>6, Zenon DEF s

-----------------------------------------------------------------------------
\* Tables and ranges.

\* A table has a smallest and a biggest key.
LEMMA TableKeys ==
  ASSUME NEW t \in Table
  PROVE  /\ Smallest(t) \in Nat /\ Biggest(t) \in Nat
         /\ 0 < Smallest(t) /\ Smallest(t) <= Biggest(t)
         /\ \A e \in t.ents : Smallest(t) <= e.k /\ e.k <= Biggest(t)
         /\ Smallest(t) \in KeysOf(t) /\ Biggest(t) \in KeysOf(t) /\ KeysOf(t) \subseteq Key
<1>1. t.ents # {} /\ \A e \in t.ents : e.k \in Key
  BY Zenon DEF Table, Entry
<1>2. KeysOf(t) # {} /\ KeysOf(t) \subseteq Key
  BY <1>1, Zenon DEF KeysOf
<1>3. Max(Key) \in Nat /\ \A k \in Key : k \in Nat /\ 0 < k /\ k <= Max(Key)
  BY KeyAssumption
<1>4. Biggest(t) \in KeysOf(t) /\ \A k \in KeysOf(t) : k <= Biggest(t)
  <2>1. KeysOf(t) \subseteq Nat /\ \A k \in KeysOf(t) : k <= Max(Key)
    BY <1>2, <1>3, Zenon
  <2> QED
    BY <1>2, <1>3, <2>1, GreatestOf, Zenon DEF Biggest
<1>5. Smallest(t) \in KeysOf(t) /\ \A k \in KeysOf(t) : Smallest(t) <= k
  <2>1. KeysOf(t) \subseteq Nat
    BY <1>2, <1>3, Zenon
  <2>2. PICK x \in KeysOf(t) : \A k \in KeysOf(t) : x <= k
    BY <1>2, <2>1, LeastOf, Zenon
  <2> QED
    BY <2>2, Zenon DEF Smallest, Min
<1>6. \A e \in t.ents : e.k \in KeysOf(t)
  BY Zenon DEF KeysOf
<1> QED
  BY <1>2, <1>3, <1>4, <1>5, <1>6, Zenon

\* RangeOf covers the tables it is computed from.
LEMMA RangeCovers ==
  ASSUME NEW ts, ts \subseteq Table
  PROVE  /\ RangeOf(ts) \in KeyTsRange /\ ~RangeOf(ts).inf
         /\ \A t \in ts : Within(t, RangeOf(ts))
         /\ ts # {} => 0 < RangeOf(ts).lo /\ 0 < RangeOf(ts).hi
<1>1. CASE ts = {}
  BY <1>1, Zenon DEF RangeOf, EmptyRange, KeyTsRange
<1>2. CASE ts # {}
  <2> DEFINE small == {Smallest(t) : t \in ts}
             big == {Biggest(t) : t \in ts}
  <2>1. /\ \A t \in ts : /\ Smallest(t) \in Nat /\ Biggest(t) \in Nat
                         /\ 0 < Smallest(t) /\ Smallest(t) <= Biggest(t)
                         /\ Biggest(t) <= Max(Key)
        /\ Max(Key) \in Nat
    <3>1. \A k \in Key : k <= Max(Key)
      BY KeyAssumption
    <3>2. ASSUME NEW t \in ts
          PROVE  /\ Smallest(t) \in Nat /\ Biggest(t) \in Nat
                 /\ 0 < Smallest(t) /\ Smallest(t) <= Biggest(t)
                 /\ Biggest(t) <= Max(Key)
      <4>1. t \in Table
        BY Zenon
      <4> QED
        BY <3>1, <4>1, TableKeys, Zenon
    <3> QED
      BY <3>2, KeyAssumption, Zenon
  <2>2. Min(small) \in small /\ \A x \in small : Min(small) <= x
    <3>1. small \subseteq Nat /\ small # {}
      BY <1>2, <2>1, Zenon
    <3>2. PICK x \in small : \A y \in small : x <= y
      BY <3>1, LeastOf, Zenon
    <3> HIDE DEF small
    <3> QED
      BY <3>2, Zenon DEF Min
  <2>3. Max(big) \in big /\ \A x \in big : x <= Max(big)
    <3>1. big \subseteq Nat /\ big # {} /\ \A x \in big : x <= Max(Key)
      BY <1>2, <2>1, Zenon
    <3> HIDE DEF big
    <3> QED
      BY <2>1, <3>1, GreatestOf, Zenon
  <2>4. Min(small) \in Nat /\ 0 < Min(small) /\ \A t \in ts : Min(small) <= Smallest(t)
    BY <2>1, <2>2, Zenon
  <2>5. Max(big) \in Nat /\ 0 < Max(big) /\ \A t \in ts : Biggest(t) <= Max(big)
    <3>1. Max(big) \in Nat /\ \A t \in ts : Biggest(t) <= Max(big)
      BY <2>1, <2>3, Zenon
    <3>2. PICK t \in ts : Max(big) = Biggest(t)
      BY <2>3, Zenon
    <3>3. 0 < Biggest(t)
      BY <2>1
    <3> QED
      BY <3>1, <3>2, <3>3, Zenon
  <2>6. RangeOf(ts) = [lo |-> Min(small), hi |-> Max(big), inf |-> FALSE]
    BY <1>2, Zenon DEF RangeOf
  <2> HIDE DEF small, big
  <2> QED
    BY <2>4, <2>5, <2>6 DEF KeyTsRange, Within
<1> QED
  BY <1>1, <1>2, Zenon

\* Two ranges that a table lies in overlap.
LEMMA SharedOverlaps ==
  ASSUME NEW r \in KeyTsRange, NEW s \in KeyTsRange, NEW t \in Table,
         Within(t, r), Within(t, s)
  PROVE  OverlapsWith(r, s)
<1>1. /\ Smallest(t) \in Nat /\ Biggest(t) \in Nat /\ 0 < Smallest(t)
      /\ Smallest(t) <= Biggest(t)
  BY TableKeys, Zenon
<1> QED
  BY <1>1 DEF OverlapsWith, Within, KeyTsRange, EmptyRange

\* A range that does not overlap another misses it.
LEMMA NoOverlapMisses ==
  ASSUME NEW r \in KeyTsRange, NEW s \in KeyTsRange, ~OverlapsWith(r, s)
  PROVE  Miss(r, s) /\ Miss(s, r)
BY Zenon DEF OverlapsWith, Miss, KeyTsRange, EmptyRange

\* A table in one of two ranges that miss each other is apart from the other.
LEMMA MissedIsApart ==
  ASSUME NEW r \in KeyTsRange, NEW s \in KeyTsRange, NEW t \in Table,
         Miss(r, s), Within(t, s), ~r.inf, ~s.inf
  PROVE  Apart(t, r)
<1>1. /\ Smallest(t) \in Nat /\ Biggest(t) \in Nat /\ 0 < Smallest(t)
      /\ Smallest(t) <= Biggest(t)
  BY TableKeys, Zenon
<1> QED
  BY <1>1 DEF Miss, Within, KeyTsRange, EmptyRange, Apart

\* A table apart from a range shares no key with one in it.
LEMMA ApartIsDisjoint ==
  ASSUME NEW r \in KeyTsRange, NEW t \in Table, NEW u \in Table,
         Apart(t, r), Within(u, r), ~r.inf
  PROVE  Disjoint(t, u) /\ Disjoint(u, t)
<1>1. /\ Smallest(t) \in Nat /\ Biggest(t) \in Nat
      /\ Smallest(u) \in Nat /\ Biggest(u) \in Nat
  BY TableKeys, Zenon
<1> QED
  BY <1>1 DEF Within, KeyTsRange, Apart, Disjoint

-----------------------------------------------------------------------------
\* Plans.

\* What CompactPlan::fix finds of a plan, before it is registered.
Fits(p) ==
  /\ p \in CompactPlan
  /\ Range(p.top) \subseteq Range(levels[p.this])
  /\ Range(p.bottom) \subseteq Range(levels[p.next])

Downward(p) ==
  /\ p.this < p.next /\ ~p.this_range.inf
  /\ \A t \in Range(p.top) : Within(t, p.this_range)
  /\ \A t \in Range(p.bottom) : Within(t, p.next_range)
  /\ p.bottom = <<>> => /\ p.next_range = p.this_range
                        /\ \A t \in Range(levels[p.next]) : Apart(t, p.this_range)

Inside(c, p) ==
  /\ c = 0 /\ p.this = 0 /\ p.next = 0 /\ p.bottom = <<>> /\ p.this_range = InfRange
  /\ \A t \in Range(p.top) : t.id \notin busy

\* overlap_tables returns tables of the level, and all that meet the range.
LEMMA OverlapTablesIs ==
  ASSUME NEW l \in Level, levels \in [Level -> Seq(Table)], NEW r \in KeyTsRange,
         r = EmptyRange \/ (0 < r.lo /\ 0 < r.hi)
  PROVE  /\ OverlapTables(l, r) \in Seq(Table)
         /\ Range(OverlapTables(l, r)) \subseteq Range(levels[l])
         /\ OverlapTables(l, r) = <<>> => \A t \in Range(levels[l]) : Apart(t, r)
<1>1. levels[l] \in Seq(Table) /\ \A t \in Range(levels[l]) : t \in Table
  <2>1. levels[l] \in Seq(Table)
    BY Zenon
  <2> QED
    BY <2>1, RangeFinite, Zenon
<1>2. r.lo \in Nat /\ r.hi \in Nat
  BY Zenon DEF KeyTsRange
<1>3. CASE r = EmptyRange
  <2>1. r.lo = 0 /\ r.hi = 0
    BY <1>3, Zenon DEF EmptyRange
  <2>2. OverlapTables(l, r) = <<>>
    BY <2>1, Zenon DEF OverlapTables
  <2>3. \A t \in Range(levels[l]) : Apart(t, r)
    <3>1. \A t \in Table : Smallest(t) \in Nat /\ 0 < Smallest(t)
      BY TableKeys, Zenon
    <3> QED
      BY <1>1, <2>1, <3>1, Zenon DEF Apart
  <2>4. Range(<<>>) = {} /\ <<>> \in Seq(Table)
    BY DEF Range
  <2> QED
    BY <2>2, <2>3, <2>4, Zenon
<1>4. CASE 0 < r.lo /\ 0 < r.hi
  <2> DEFINE ts == {t \in Range(levels[l]) : Biggest(t) >= r.lo /\ Smallest(t) <= r.hi}
  <2>1. r.lo # 0 /\ r.hi # 0
    BY <1>2, <1>4
  <2>2. OverlapTables(l, r) = Keep(levels[l], ts)
    BY <2>1, Zenon DEF OverlapTables
  <2>3. Keep(levels[l], ts) \in Seq(Table) /\ Range(Keep(levels[l], ts)) = Range(levels[l]) \cap ts
    <3> HIDE DEF ts
    <3> QED
      BY <1>1, KeepIs
  <2>4. ASSUME OverlapTables(l, r) = <<>>, NEW t \in Range(levels[l]) PROVE Apart(t, r)
    <3>1. Range(<<>>) = {}
      BY DEF Range
    <3>2. t \notin ts
      BY <2>2, <2>3, <2>4, <3>1, Zenon
    <3>3. t \in Table
      BY <1>1, Zenon
    <3>4. Smallest(t) \in Nat /\ Biggest(t) \in Nat
      BY <3>3, TableKeys, Zenon
    <3> QED
      BY <1>2, <3>2, <3>4 DEF Apart
  <2> HIDE DEF ts
  <2>5. Range(OverlapTables(l, r)) \subseteq Range(levels[l])
    BY <2>2, <2>3, Zenon
  <2> QED
    BY <2>2, <2>3, <2>4, <2>5, Zenon
<1> QED
  BY <1>3, <1>4, Zenon

LEMMA PlanForIs ==
  ASSUME NEW this \in Level, NEW next \in Level, this < next, NEW top \in Seq(Table),
         levels \in [Level -> Seq(Table)], Range(top) \subseteq Range(levels[this])
  PROVE  Fits(PlanFor(this, next, top)) /\ Downward(PlanFor(this, next, top))
<1> DEFINE r == RangeOf(Range(top))
           bottom == OverlapTables(next, r)
           nr == IF bottom = <<>> THEN r ELSE RangeOf(Range(bottom))
           p == PlanFor(this, next, top)
<1>1. Range(top) \subseteq Table
  BY RangeFinite, Zenon
<1>2. r \in KeyTsRange /\ ~r.inf /\ \A t \in Range(top) : Within(t, r)
  BY <1>1, RangeCovers, Zenon
<1>3. r = EmptyRange \/ (0 < r.lo /\ 0 < r.hi)
  <2>1. CASE Range(top) = {}
    BY <2>1, Zenon DEF RangeOf
  <2>2. CASE Range(top) # {}
    BY <1>1, <2>2, RangeCovers, Zenon
  <2> QED
    BY <2>1, <2>2, Zenon
<1> HIDE DEF r
<1>4. /\ bottom \in Seq(Table) /\ Range(bottom) \subseteq Range(levels[next])
      /\ bottom = <<>> => \A t \in Range(levels[next]) : Apart(t, r)
  BY <1>2, <1>3, OverlapTablesIs, Zenon
<1> HIDE DEF bottom
<1>5. nr \in KeyTsRange /\ (bottom = <<>> => nr = r) /\ \A t \in Range(bottom) : Within(t, nr)
  <2>1. CASE bottom = <<>>
    <3>1. Range(<<>>) = {}
      BY DEF Range
    <3> QED
      BY <1>2, <2>1, <3>1, Zenon
  <2>2. CASE bottom # <<>>
    <3>1. Range(bottom) \subseteq Table
      BY <1>4, RangeFinite, Zenon
    <3> QED
      BY <2>2, <3>1, RangeCovers, Zenon
  <2> QED
    BY <2>1, <2>2, Zenon
<1>6. p = [this |-> this, next |-> next, top |-> top, bottom |-> bottom,
           this_range |-> r, next_range |-> nr]
  BY Zenon DEF PlanFor, Plan, r, bottom
<1> HIDE DEF nr, p
<1>7. /\ p \in CompactPlan /\ p.this = this /\ p.next = next /\ p.top = top
      /\ p.bottom = bottom /\ p.this_range = r /\ p.next_range = nr
  BY <1>2, <1>4, <1>5, <1>6, Zenon DEF CompactPlan
<1>8. Fits(p) /\ Downward(p)
  BY <1>2, <1>4, <1>5, <1>7, Zenon DEF Fits, Downward
<1> QED
  BY <1>8, Zenon DEF p

\* Every plan that fix registers fits the levels, and either goes down and was
\* not refused by try_update or stays inside level 0 and takes what is not busy.
LEMMA FillIs ==
  ASSUME NEW c \in Compactor, NEW l \in 0 .. LastLevel - 1, NEW b \in Level, NEW old,
         l # 0 \/ b # 0, levels \in [Level -> Seq(Table)], NEW p \in Fill(c, l, b, old)
  PROVE  Fits(p) /\ ((Downward(p) /\ TryUpdate(p)) \/ Inside(c, p))
<1>0. /\ NumLevels \in Nat /\ NumLevels > 1 /\ 0 \in Level /\ l \in Level /\ l + 1 \in Level
      /\ l < l + 1 /\ levels[0] \in Seq(Table) /\ levels[l] \in Seq(Table)
  BY CompactionAssumption DEF Level, LastLevel
<1>1. CASE l # 0
  <2>1. p \in FillTables(l)
    BY <1>1, Zenon DEF Fill
  <2>2. PICK t \in Range(levels[l]) : p = PlanFor(l, l + 1, <<t>>) /\ TryUpdate(p)
    BY <2>1, Zenon DEF FillTables
  <2>3. t \in Table
    BY <1>0, RangeFinite, Zenon
  <2>4. <<t>> \in Seq(Table) /\ Range(<<t>>) \subseteq Range(levels[l])
    BY <2>2, <2>3 DEF Range
  <2> QED
    BY <1>0, <2>2, <2>4, PlanForIs, Zenon
<1>2. CASE l = 0 /\ Level0ToBase(b) # {}
  <2> DEFINE top == ChainedPrefix(levels[0])
  <2>1. b \in Level /\ 0 < b
    BY <1>2 DEF Level
  <2>2. p \in Level0ToBase(b)
    BY <1>2, Zenon DEF Fill
  <2>3. p = PlanFor(0, b, top) /\ TryUpdate(p)
    BY <2>2, Zenon DEF Level0ToBase
  <2>4. PICK n \in 0 .. Len(levels[0]) : top = SubSeq(levels[0], 1, n)
    <3> DEFINE ns == {n \in 0 .. Len(levels[0]) :
                        \A i \in 2 .. n : OverlapsWith(
                          RangeOf(Range(SubSeq(levels[0], 1, i - 1))), RangeOf({levels[0][i]}))}
    <3>1. 0 \in ns /\ ns \subseteq Nat /\ \A n \in ns : n <= Len(levels[0])
      <4>1. Len(levels[0]) \in Nat /\ 0 \in 0 .. Len(levels[0]) /\ 2 .. 0 = {}
        BY <1>0
      <4>2. 0 \in ns
        BY <4>1, Zenon
      <4> QED
        BY <4>1, <4>2
    <3> HIDE DEF ns
    <3>2. Max(ns) \in ns
      <4>1. Len(levels[0]) \in Nat
        BY <1>0
      <4> QED
        BY <3>1, <4>1, GreatestOf, Zenon
    <3> QED
      BY <3>2, Zenon DEF ns, ChainedPrefix
  <2>5. top \in Seq(Table) /\ Range(top) \subseteq Range(levels[0])
    <3> HIDE DEF top
    <3>1. /\ top \in Seq(Table) /\ DOMAIN top = 1 .. n /\ 1 .. n \subseteq DOMAIN levels[0]
          /\ \A i \in 1 .. n : top[i] = levels[0][i]
      BY <1>0, <2>4
    <3> QED
      BY <3>1, Zenon DEF Range
  <2> HIDE DEF top
  <2> QED
    BY <1>0, <2>1, <2>3, <2>5, PlanForIs, Zenon
<1>3. CASE l = 0 /\ Level0ToBase(b) = {}
  <2> DEFINE ts == {t \in Range(levels[0]) : /\ Size(t) < 2 * MemtableSize
                                             /\ t.id <= old
                                             /\ t.id \notin busy}
             top == Keep(levels[0], ts)
  <2>1. c = 0 /\ p \in Level0ToLevel0(old)
    BY <1>3, Zenon DEF Fill
  <2>2. p = Plan(0, 0, top, <<>>, InfRange, EmptyRange)
    BY <2>1, Zenon DEF Level0ToLevel0
  <2>3. top \in Seq(Table) /\ Range(top) = Range(levels[0]) \cap ts
    <3> HIDE DEF ts
    <3>1. levels[0] \in Seq(Table)
      BY <1>0, Zenon
    <3> QED
      BY <3>1, KeepIs
  <2>4. Range(top) \subseteq Range(levels[0]) /\ \A t \in Range(top) : t.id \notin busy
    BY <2>3, Zenon
  <2> HIDE DEF ts, top
  <2>5. InfRange \in KeyTsRange /\ EmptyRange \in KeyTsRange /\ <<>> \in Seq(Table)
        /\ Range(<<>>) = {}
    BY DEF InfRange, EmptyRange, KeyTsRange, Range
  <2>6. /\ p \in CompactPlan /\ p.this = 0 /\ p.next = 0 /\ p.top = top
        /\ p.bottom = <<>> /\ p.this_range = InfRange
    <3> HIDE DEF InfRange, EmptyRange
    <3> QED
      BY <1>0, <2>2, <2>3, <2>5, Zenon DEF CompactPlan, Plan
  <2> QED
    BY <2>1, <2>4, <2>5, <2>6, Zenon DEF Fits, Inside
<1> QED
  BY <1>1, <1>2, <1>3, Zenon

\* level_targets finds a base level that exists.
LEMMA BaseLevelIs == BaseLevel \in Level
<1> DEFINE fits == {l \in 1 .. LastLevel : LevelSize(l) <= BaseLevelSize}
           first == IF fits = {} THEN 0 ELSE Max(fits)
           through == {l \in first .. LastLevel : \A i \in first .. l : total_size[i] = 0}
           b == IF through = {} THEN first ELSE Max(through)
<1>0. LastLevel \in Nat /\ Level = 0 .. LastLevel
  BY CompactionAssumption DEF LastLevel, Level
<1>1. first \in 0 .. LastLevel
  <2>1. CASE fits = {}
    BY <1>0, <2>1
  <2>2. CASE fits # {}
    <3>1. fits \subseteq Nat /\ \A x \in fits : x <= LastLevel /\ x \in 0 .. LastLevel
      BY <1>0
    <3> HIDE DEF fits
    <3>2. Max(fits) \in fits
      BY <1>0, <2>2, <3>1, GreatestOf, Zenon
    <3> QED
      BY <2>2, <3>1, <3>2, Zenon
  <2> QED
    BY <2>1, <2>2, Zenon
<1> HIDE DEF first
<1>2. b \in 0 .. LastLevel
  <2>1. CASE through = {}
    BY <1>1, <2>1, Zenon
  <2>2. CASE through # {}
    <3>1. through \subseteq Nat /\ \A x \in through : x <= LastLevel /\ x \in 0 .. LastLevel
      BY <1>0, <1>1
    <3> HIDE DEF through
    <3>2. Max(through) \in through
      BY <1>0, <2>2, <3>1, GreatestOf, Zenon
    <3> QED
      BY <2>2, <3>1, <3>2, Zenon
  <2> QED
    BY <2>1, <2>2, Zenon
<1> HIDE DEF b
<1>3. BaseLevel = b \/ (b < LastLevel /\ BaseLevel = b + 1)
  BY Zenon DEF BaseLevel, b, through, first, fits
<1> QED
  BY <1>0, <1>2, <1>3

\* A tick tries levels above the last one.
LEMMA PicksAre ==
  ASSUME NEW c, NEW s \in Picks(c)
  PROVE  s \in Seq(0 .. LastLevel - 1)
<1> DEFINE adj == Adjusted
           cand == {l \in 0 .. LastLevel - 1 : AtLeast(Score(l), One)}
           front == IF c = 0 /\ 0 \in cand THEN <<0>> ELSE <<>>
           rest == cand \ Range(front)
           low(q) == {i \in DOMAIN q : ~AtLeast(adj[q[i]], One)}
           cut(q) == IF low(q) = {} THEN q ELSE SubSeq(q, 1, Min(low(q)) - 1)
           S == 0 .. LastLevel - 1
<1> HIDE DEF adj
<1>1. PICK q \in Bijection(1 .. Cardinality(rest), rest) : s = cut(front \o q)
  BY Zenon DEF Picks, adj
<1>2. cand \subseteq S /\ IsFiniteSet(cand)
  <2>1. LastLevel - 1 \in Int
    BY CompactionAssumption DEF LastLevel
  <2>2. IsFiniteSet(S)
    BY <2>1, FS_Interval
  <2>3. cand \in SUBSET S
    BY Zenon
  <2> HIDE DEF cand, S
  <2> QED
    BY <2>2, <2>3, FS_Subset, Zenon
<1> HIDE DEF cand, S
<1>3. front \in Seq(S)
  <2>1. CASE c = 0 /\ 0 \in cand
    <3>1. 0 \in S
      BY <1>2, <2>1, Zenon
    <3> QED
      BY <2>1, <3>1
  <2>2. CASE ~(c = 0 /\ 0 \in cand)
    BY <2>2
  <2> QED
    BY <2>1, <2>2, Zenon
<1> HIDE DEF front
<1>4. q \in Seq(S)
  <2>1. rest \subseteq S /\ IsFiniteSet(rest)
    <3>1. rest \in SUBSET cand
      BY Zenon
    <3> HIDE DEF rest
    <3> QED
      BY <1>2, <3>1, FS_Subset, Zenon
  <2>2. Cardinality(rest) \in Nat
    BY <2>1, FS_CardinalityType, Zenon
  <2>3. q \in [1 .. Cardinality(rest) -> rest]
    BY Zenon DEF Bijection, Injection
  <2> HIDE DEF rest
  <2> QED
    BY <2>1, <2>2, <2>3
<1> HIDE DEF rest
<1>5. front \o q \in Seq(S)
  BY <1>3, <1>4
<1>6. ASSUME NEW w \in Seq(S) PROVE cut(w) \in Seq(S)
  <2>1. CASE low(w) = {}
    BY <2>1, Zenon
  <2>2. CASE low(w) # {}
    <3>1. low(w) \subseteq 1 .. Len(w) /\ low(w) \subseteq Nat /\ Len(w) \in Nat
      OBVIOUS
    <3>2. Min(low(w)) \in low(w)
      <4> HIDE DEF low
      <4>1. PICK x \in low(w) : \A y \in low(w) : x <= y
        BY <2>2, <3>1, LeastOf, Zenon
      <4> QED
        BY <4>1, Zenon DEF Min
    <3> HIDE DEF low
    <3>3. Min(low(w)) \in 1 .. Len(w)
      BY <3>1, <3>2, Zenon
    <3>4. SubSeq(w, 1, Min(low(w)) - 1) \in Seq(S)
      <4>1. PICK m \in 1 .. Len(w) : m = Min(low(w))
        BY <3>3, Zenon
      <4>2. SubSeq(w, 1, m - 1) \in Seq(S)
        OBVIOUS
      <4> QED
        BY <4>1, <4>2, Zenon
    <3> QED
      BY <2>2, <3>4, Zenon
  <2> QED
    BY <2>1, <2>2, Zenon
<1> HIDE DEF cut
<1> QED
  BY <1>1, <1>5, <1>6, Zenon DEF S

\* Finite sets of entries have a greatest key.
LEMMA EntsKeys ==
  ASSUME NEW ents, ents \subseteq Entry
  PROVE  LET keys == {e.k : e \in ents}
         IN /\ keys \subseteq Key /\ keys \subseteq Nat /\ IsFiniteSet(keys)
            /\ keys # {} => Max(keys) \in keys /\ \A k \in keys : k <= Max(keys)
<1> DEFINE keys == {e.k : e \in ents}
<1>1. Max(Key) \in Nat /\ \A k \in Key : k \in Nat /\ k <= Max(Key)
  BY KeyAssumption
<1>2. keys \subseteq Key
  BY Zenon DEF Entry
<1> HIDE DEF keys
<1>3. keys \in SUBSET Nat /\ \A k \in keys : k <= Max(Key)
  BY <1>1, <1>2, Zenon
<1>4. IsFiniteSet(keys)
  BY <1>1, <1>3, FS_BoundedSetOfNaturals, Zenon
<1>5. keys # {} => Max(keys) \in keys /\ \A k \in keys : k <= Max(keys)
  BY <1>1, <1>3, GreatestOf, Zenon
<1> QED
  BY <1>2, <1>3, <1>4, <1>5, Zenon DEF keys

\* compact_build_tables: what is kept, cut at changes of key.
LEMMA BuiltIs ==
  ASSUME NEW ents, ents \subseteq Entry, IsFiniteSet(ents), next_file_id \in Nat,
         NEW new \in BuiltTables(ents)
  PROVE  /\ new \in Seq(Table) /\ Entries(Range(new)) = ents
         /\ \A i \in DOMAIN new : new[i].id = next_file_id + i - 1
         /\ \A i, j \in DOMAIN new : i # j => Disjoint(new[i], new[j])
<1> DEFINE keys == {e.k : e \in ents}
           table(i, part) == [id |-> next_file_id + i - 1, ents |-> part,
                              stale |-> Cardinality({e \in part : e.d})]
           part(end, i) == {e \in ents : /\ e.k <= end[i]
                                         /\ i > 1 => e.k > end[i - 1]}
           cutAt(end) == [i \in DOMAIN end |-> table(i, part(end, i))]
           rank == [k \in keys |-> k]
<1>1. CASE ents = {}
  <2>1. new = <<>>
    BY <1>1, Zenon DEF BuiltTables
  <2> QED
    BY <1>1, <2>1 DEF Entries, Range
<1>2. CASE ents # {}
  <2>0. /\ keys \subseteq Key /\ keys \subseteq Nat /\ IsFiniteSet(keys)
        /\ Max(keys) \in keys /\ \A k \in keys : k <= Max(keys)
    <3>1. keys # {}
      BY <1>2, Zenon
    <3> QED
      BY <3>1, EntsKeys, Zenon
  <2>1. PICK cuts \in SUBSET keys : new = cutAt(SortedBy(cuts \cup {Max(keys)}, rank))
    <3>1. new \in {cutAt(end) : end \in {SortedBy(cuts \cup {Max(keys)}, rank) :
                                           cuts \in SUBSET keys}}
      BY <1>2, Zenon DEF BuiltTables
    <3> HIDE DEF cutAt, rank, keys
    <3> QED
      BY <3>1, Zenon
  <2> DEFINE ends == cuts \cup {Max(keys)}
             end == SortedBy(ends, rank)
  <2>2. ends \subseteq keys /\ IsFiniteSet(ends) /\ \A x \in ends : rank[x] \in Nat /\ rank[x] = x
    <3>1. ends \in SUBSET keys
      BY <2>0, Zenon
    <3> HIDE DEF ends
    <3>2. IsFiniteSet(ends)
      BY <2>0, <3>1, FS_Subset, Zenon
    <3>3. \A x \in keys : rank[x] = x /\ x \in Nat
      BY <2>0, Zenon
    <3> QED
      BY <3>1, <3>2, <3>3, Zenon
  <2>3. /\ end \in Seq(ends) /\ Range(end) = ends
        /\ \A i, j \in DOMAIN end : i < j => rank[end[i]] <= rank[end[j]] /\ end[i] # end[j]
    <3> HIDE DEF ends, rank
    <3> QED
      BY <2>2, SortedIs, Zenon
  <2>4. /\ DOMAIN end = 1 .. Len(end) /\ Len(end) \in Nat
        /\ \A i \in DOMAIN end : end[i] \in ends /\ end[i] \in Nat
    <3> HIDE DEF ends, end
    <3>1. DOMAIN end = 1 .. Len(end) /\ Len(end) \in Nat /\ \A i \in DOMAIN end : end[i] \in ends
      BY <2>3
    <3> QED
      BY <2>0, <2>2, <3>1, Zenon
  <2>5. \A i, j \in DOMAIN end : i < j => end[i] < end[j]
    <3>1. SUFFICES ASSUME NEW i \in DOMAIN end, NEW j \in DOMAIN end, i < j
                   PROVE  end[i] < end[j]
      BY Zenon
    <3> HIDE DEF ends, end, rank
    <3>2. end[i] <= end[j] /\ end[i] # end[j] /\ end[i] \in Nat /\ end[j] \in Nat
      BY <2>2, <2>3, <2>4, <3>1, Zenon
    <3> QED
      BY <3>2
  <2>6. new = cutAt(end)
    BY <2>1, Zenon
  <2> HIDE DEF end
  <2>7. DOMAIN new = DOMAIN end /\ \A i \in DOMAIN end : new[i] = table(i, part(end, i))
    BY <2>6, Zenon
  <2>8. /\ \A i \in DOMAIN end : part(end, i) \subseteq ents
        /\ \A e \in ents : e.k \in keys /\ e.k \in Nat
    BY <2>0, Zenon
  <2>9. ASSUME NEW i \in DOMAIN end
        PROVE  \E e \in part(end, i) : e.k = end[i]
    <3>1. end[i] \in keys
      BY <2>2, <2>4, Zenon
    <3>2. PICK e \in ents : e.k = end[i]
      BY <3>1, Zenon
    <3>3. e.k <= end[i]
      <4>1. end[i] \in Nat
        BY <2>4, Zenon
      <4> QED
        BY <3>2, <4>1
    <3>4. i > 1 => e.k > end[i - 1]
      <4>1. SUFFICES ASSUME i > 1 PROVE e.k > end[i - 1]
        BY Zenon
      <4>2. i - 1 \in DOMAIN end /\ i - 1 < i
        BY <2>4, <4>1
      <4>3. end[i - 1] < end[i] /\ end[i - 1] \in Nat /\ end[i] \in Nat
        BY <2>4, <2>5, <4>2, Zenon
      <4> QED
        BY <3>2, <4>3, Zenon
    <3> QED
      BY <3>2, <3>3, <3>4, Zenon
  <2>10. new \in Seq(Table)
    <3>1. ASSUME NEW i \in DOMAIN end PROVE new[i] \in Table
      <4> DEFINE pt == part(end, i)
                 n == Cardinality({e \in pt : e.d})
                 x == next_file_id + i - 1
      <4>1. pt \subseteq ents /\ pt # {}
        BY <2>9, Zenon
      <4> HIDE DEF pt
      <4>2. IsFiniteSet(pt) /\ IsFiniteSet({e \in pt : e.d})
        <5>1. pt \in SUBSET ents /\ {e \in pt : e.d} \in SUBSET ents
          BY <4>1, Zenon
        <5> QED
          BY <5>1, FS_Subset, Zenon
      <4>3. n \in Nat
        BY <4>2, FS_CardinalityType, Zenon
      <4>4. x \in Nat
        BY <2>4
      <4>5. new[i] = [id |-> x, ents |-> pt, stale |-> n]
        BY <2>7, Zenon DEF pt
      <4> HIDE DEF n, x
      <4>6. pt \in SUBSET Entry
        BY <4>1, Zenon
      <4> QED
        BY <4>1, <4>2, <4>3, <4>4, <4>5, <4>6 DEF Table
    <3> HIDE DEF cutAt
    <3>2. DOMAIN new = 1 .. Len(end) /\ \A i \in 1 .. Len(end) : new[i] \in Table
      BY <2>4, <2>7, <3>1, Zenon
    <3>3. new = [i \in DOMAIN new |-> new[i]]
      BY <2>6, Zenon DEF cutAt
    <3>4. new \in [1 .. Len(end) -> Table]
      BY <3>2, <3>3, Zenon
    <3> QED
      BY <2>4, <3>4
  <2>11. \A i \in DOMAIN new : new[i].id = next_file_id + i - 1 /\ new[i].ents = part(end, i)
    <3>1. SUFFICES ASSUME NEW i \in DOMAIN new
                   PROVE  new[i].id = next_file_id + i - 1 /\ new[i].ents = part(end, i)
      BY Zenon
    <3> DEFINE pt == part(end, i)
               n == Cardinality({e \in pt : e.d})
    <3>2. new[i] = [id |-> next_file_id + i - 1, ents |-> pt, stale |-> n]
      BY <2>7, Zenon
    <3> HIDE DEF pt, n
    <3>3. new[i].id = next_file_id + i - 1 /\ new[i].ents = pt
      BY <3>2
    <3> QED
      BY <3>3, Zenon DEF pt
  <2>12. Entries(Range(new)) = ents
    <3>1. ASSUME NEW e \in ents PROVE \E i \in DOMAIN end : e \in part(end, i)
      <4> DEFINE is == {i \in DOMAIN end : e.k <= end[i]}
      <4>1. is # {} /\ is \subseteq Nat
        <5>1. PICK i \in DOMAIN end : end[i] = Max(keys)
          <6>1. Max(keys) \in Range(end)
            BY <2>3, Zenon
          <6> QED
            BY <6>1, Zenon DEF Range
        <5>2. e.k <= end[i]
          BY <2>0, <2>8, <5>1, Zenon
        <5>3. i \in is
          BY <5>2, Zenon
        <5> QED
          BY <2>4, <5>3
      <4>2. PICK i \in is : \A y \in is : i <= y
        <5> HIDE DEF is
        <5> QED
          BY <4>1, LeastOf, Zenon
      <4>3. ASSUME i > 1 PROVE e.k > end[i - 1]
        <5>1. i - 1 \in DOMAIN end /\ ~(i <= i - 1)
          BY <2>4, <4>3
        <5>2. i - 1 \notin is
          BY <4>2, <5>1, Zenon
        <5>3. ~(e.k <= end[i - 1]) /\ e.k \in Nat /\ end[i - 1] \in Nat
          BY <2>4, <2>8, <5>1, <5>2, Zenon
        <5> QED
          BY <5>3
      <4> QED
        BY <4>3, Zenon
    <3>2. \A t \in Range(new) : t.ents \subseteq ents
      BY <2>8, <2>11, <2>7, Zenon DEF Range
    <3>3. \A e \in ents : \E t \in Range(new) : e \in t.ents
      <4>1. SUFFICES ASSUME NEW e \in ents PROVE \E t \in Range(new) : e \in t.ents
        BY Zenon
      <4>2. PICK i \in DOMAIN end : e \in part(end, i)
        BY <3>1, Zenon
      <4> HIDE DEF part
      <4>3. i \in DOMAIN new /\ e \in new[i].ents
        BY <2>7, <2>11, <4>2, Zenon
      <4> QED
        BY <4>3, Zenon DEF Range
    <3> QED
      BY <3>2, <3>3, Zenon DEF Entries
  <2>13. ASSUME NEW i \in DOMAIN end, NEW j \in DOMAIN end, i < j
         PROVE  Biggest(new[i]) < Smallest(new[j])
    <3>1. new[i] \in Table /\ new[j] \in Table
      BY <2>7, <2>10, <2>4
    <3>2. Biggest(new[i]) \in KeysOf(new[i]) /\ Smallest(new[j]) \in KeysOf(new[j])
      BY <3>1, TableKeys, Zenon
    <3>3. PICK e \in part(end, i) : Biggest(new[i]) = e.k
      BY <2>7, <2>11, <3>2, Zenon DEF KeysOf
    <3>4. PICK f \in part(end, j) : Smallest(new[j]) = f.k
      BY <2>7, <2>11, <3>2, Zenon DEF KeysOf
    <3>5. j > 1 /\ j - 1 \in DOMAIN end /\ i <= j - 1
      BY <2>4, <2>13
    <3>6. end[i] <= end[j - 1] /\ end[i] \in Nat /\ end[j - 1] \in Nat
      <4>1. end[i] \in Nat /\ end[j - 1] \in Nat
        BY <2>4, <3>5, Zenon
      <4>2. CASE i = j - 1
        BY <4>1, <4>2
      <4>3. CASE i < j - 1
        <5>1. end[i] < end[j - 1]
          BY <2>5, <3>5, <4>3, Zenon
        <5> QED
          BY <4>1, <5>1
      <4> QED
        BY <2>4, <3>5, <4>1, <4>2, <4>3
    <3>7. e.k <= end[i] /\ f.k > end[j - 1] /\ e.k \in Nat /\ f.k \in Nat
      BY <2>8, <3>3, <3>4, <3>5, Zenon
    <3> QED
      BY <3>3, <3>4, <3>6, <3>7
  <2>14. \A i, j \in DOMAIN new : i # j => Disjoint(new[i], new[j])
    <3>1. SUFFICES ASSUME NEW i \in DOMAIN new, NEW j \in DOMAIN new, i # j
                   PROVE  Disjoint(new[i], new[j])
      BY Zenon
    <3>2. i < j \/ j < i
      BY <2>4, <2>7, <3>1
    <3> QED
      BY <2>7, <2>13, <3>2, Zenon DEF Disjoint
  <2> QED
    BY <2>10, <2>11, <2>12, <2>14, Zenon
<1> QED
  BY <1>1, <1>2, Zenon

-----------------------------------------------------------------------------
\* What the invariant says of one compactor and of one table.

LEMMA PlanIs ==
  ASSUME Typed, NEW c \in Planned
  PROVE  /\ c \in Compactor /\ plan[c][1] \in CompactPlan
         /\ plan[c][1].this \in Level /\ plan[c][1].next \in Level
         /\ plan[c][1].top \in Seq(Table) /\ plan[c][1].bottom \in Seq(Table)
         /\ plan[c][1].this_range \in KeyTsRange /\ plan[c][1].next_range \in KeyTsRange
         /\ Range(plan[c][1].top) \subseteq Table /\ Range(plan[c][1].bottom) \subseteq Table
         /\ Taken(c) \subseteq Table
<1>1. c \in Compactor /\ plan[c] \in Seq(CompactPlan) /\ plan[c] # <<>>
  BY Zenon DEF Planned, Typed
<1>2. plan[c][1] \in CompactPlan
  BY <1>1
<1>3. plan[c][1].top \in Seq(Table) /\ plan[c][1].bottom \in Seq(Table)
  BY <1>2, Zenon DEF CompactPlan
<1>4. Range(plan[c][1].top) \subseteq Table /\ Range(plan[c][1].bottom) \subseteq Table
  BY <1>3, RangeFinite, Zenon
<1>5. /\ plan[c][1].this \in Level /\ plan[c][1].next \in Level
      /\ plan[c][1].this_range \in KeyTsRange /\ plan[c][1].next_range \in KeyTsRange
  BY <1>2, Zenon DEF CompactPlan
<1> QED
  BY <1>1, <1>2, <1>3, <1>4, <1>5, Zenon DEF Taken

LEMMA OutIs ==
  ASSUME Typed, InStep, NEW c \in Built
  PROVE  /\ c \in Planned /\ c \in Compactor /\ pc[c] \in {"push", "replace", "delete"}
         /\ out[c][1].new \in Seq(Table) /\ New(c) \subseteq Table
<1>1. c \in Compactor /\ out[c] # <<>>
  BY Zenon DEF Built
<1> DEFINE O == [new : Seq(Table), dropped : SUBSET Entry]
<1>2. out[c] \in Seq(O)
  BY <1>1, Zenon DEF Typed
<1>3. out[c][1] \in O
  <2> HIDE DEF O
  <2> QED
    BY <1>1, <1>2
<1>4. out[c][1].new \in Seq(Table)
  BY <1>3, Zenon
<1>5. New(c) \subseteq Table
  BY <1>4, RangeFinite, Zenon DEF New
<1>6. pc[c] \in {"push", "replace", "delete"} /\ plan[c] # <<>>
  BY <1>1, Zenon DEF InStep
<1> QED
  BY <1>1, <1>4, <1>5, <1>6, Zenon DEF Planned

\* Where tables are at home, before a step and after it.
LEMMA HomesAre ==
  \A x : x \in Homes <=>
    \/ \E l \in Level : \E t \in Range(levels[l]) : x = <<l, t>>
    \/ \E t \in Range(flushing) : x = <<0, t>>
    \/ \E c \in Built : \E t \in New(c) : x = <<plan[c][1].next, t>>
<1> DEFINE A(l) == {<<l, t>> : t \in Range(levels[l])}
           B == {<<0, t>> : t \in Range(flushing)}
           C(c) == {<<plan[c][1].next, t>> : t \in New(c)}
           InLevel(x) == \E l \in Level : \E t \in Range(levels[l]) : x = <<l, t>>
           InFlush(x) == \E t \in Range(flushing) : x = <<0, t>>
           InNew(x) == \E c \in Built : \E t \in New(c) : x = <<plan[c][1].next, t>>
<1>a. PICK U : U = UNION {A(l) : l \in Level}
  BY Zenon
<1>b. PICK V : V = UNION {C(c) : c \in Built}
  BY Zenon
<1>1. Homes = U \cup B \cup V
  <2>1. Homes = (UNION {A(l) : l \in Level}) \cup B \cup (UNION {C(c) : c \in Built})
    BY Zenon DEF Homes
  <2> HIDE DEF A, B, C
  <2> QED
    BY <1>a, <1>b, <2>1, Zenon
<1>2. ASSUME NEW x PROVE x \in U <=> InLevel(x)
  <2>1. x \in U <=> \E l \in Level : x \in A(l)
    <3> HIDE DEF A
    <3> QED
      BY <1>a, Zenon
  <2>2. \A l : x \in A(l) <=> \E t \in Range(levels[l]) : x = <<l, t>>
    BY Zenon
  <2> HIDE DEF A
  <2> QED
    BY <2>1, <2>2, Zenon
<1>3. ASSUME NEW x PROVE x \in V <=> InNew(x)
  <2>1. x \in V <=> \E c \in Built : x \in C(c)
    <3> HIDE DEF C
    <3> QED
      BY <1>b, Zenon
  <2>2. \A c : x \in C(c) <=> \E t \in New(c) : x = <<plan[c][1].next, t>>
    BY Zenon
  <2> HIDE DEF C
  <2> QED
    BY <2>1, <2>2, Zenon
<1>4. ASSUME NEW x PROVE x \in B <=> InFlush(x)
  BY Zenon
<1>5. \A x : x \in Homes <=> InLevel(x) \/ InFlush(x) \/ InNew(x)
  <2> HIDE DEF B, InLevel, InFlush, InNew
  <2> QED
    BY <1>1, <1>2, <1>3, <1>4, Zenon
<1> QED
  BY <1>5, Zenon

\* The same after a step.
LEMMA HomesNext ==
  \A x : x \in Homes' <=>
    \/ \E l \in Level : \E t \in Range(levels'[l]) : x = <<l, t>>
    \/ \E t \in Range(flushing') : x = <<0, t>>
    \/ \E c \in Built' : \E t \in New(c)' : x = <<plan'[c][1].next, t>>
<1> DEFINE A(l) == {<<l, t>> : t \in Range(levels'[l])}
           B == {<<0, t>> : t \in Range(flushing')}
           C(c) == {<<plan'[c][1].next, t>> : t \in New(c)'}
           InLevel(x) == \E l \in Level : \E t \in Range(levels'[l]) : x = <<l, t>>
           InFlush(x) == \E t \in Range(flushing') : x = <<0, t>>
           InNew(x) == \E c \in Built' : \E t \in New(c)' : x = <<plan'[c][1].next, t>>
<1>a. PICK U : U = UNION {A(l) : l \in Level}
  BY Zenon
<1>b. PICK V : V = UNION {C(c) : c \in Built'}
  BY Zenon
<1>1. Homes' = U \cup B \cup V
  <2>1. Homes' = (UNION {A(l) : l \in Level}) \cup B \cup (UNION {C(c) : c \in Built'})
    BY Zenon DEF Homes
  <2> HIDE DEF A, B, C
  <2> QED
    BY <1>a, <1>b, <2>1, Zenon
<1>2. ASSUME NEW x PROVE x \in U <=> InLevel(x)
  <2>1. x \in U <=> \E l \in Level : x \in A(l)
    <3> HIDE DEF A
    <3> QED
      BY <1>a, Zenon
  <2>2. \A l : x \in A(l) <=> \E t \in Range(levels'[l]) : x = <<l, t>>
    BY Zenon
  <2> HIDE DEF A
  <2> QED
    BY <2>1, <2>2, Zenon
<1>3. ASSUME NEW x PROVE x \in V <=> InNew(x)
  <2>1. x \in V <=> \E c \in Built' : x \in C(c)
    <3> HIDE DEF C
    <3> QED
      BY <1>b, Zenon
  <2>2. \A c : x \in C(c) <=> \E t \in New(c)' : x = <<plan'[c][1].next, t>>
    BY Zenon
  <2> HIDE DEF C
  <2> QED
    BY <2>1, <2>2, Zenon
<1>4. ASSUME NEW x PROVE x \in B <=> InFlush(x)
  BY Zenon
<1>5. \A x : x \in Homes' <=> InLevel(x) \/ InFlush(x) \/ InNew(x)
  <2> HIDE DEF B, InLevel, InFlush, InNew
  <2> QED
    BY <1>1, <1>2, <1>3, <1>4, Zenon
<1> QED
  BY <1>5, Zenon

\* Tables are at home where they are, or where they will be pushed.
LEMMA AtHome ==
  /\ \A l \in Level : \A t \in Range(levels[l]) : <<l, t>> \in Homes
  /\ \A t \in Range(flushing) : <<0, t>> \in Homes
  /\ \A c \in Built : \A t \in New(c) : <<plan[c][1].next, t>> \in Homes
BY HomesAre, Zenon

\* What the manifest lists is at home.
LEMMA ListedAtHome ==
  ASSUME Typed, Backed, NEW m \in manifest
  PROVE  m = <<m[1], m[2]>> /\ m[1] \in Level /\ m[2] \in Table /\ m \in Homes
<1>1. m = <<m[1], m[2]>> /\ m[1] \in Level /\ m[2] \in Table
  BY DEF Typed
<1>2. <<m[1], m[2]>> \in Homes
  <2>1. CASE m[2] \in Range(levels[m[1]])
    BY <1>1, <2>1, AtHome, Zenon
  <2>2. CASE m[1] = 0 /\ m[2] \in Range(flushing)
    BY <2>2, AtHome, Zenon
  <2>3. CASE \E c \in Built : m[1] = plan[c][1].next /\ m[2] \in New(c)
    BY <2>3, AtHome, Zenon
  <2> QED
    BY <2>1, <2>2, <2>3, Zenon DEF Backed
<1> QED
  BY <1>1, <1>2, Zenon

\* Every home is a level and a table.
LEMMA HomesTyped ==
  ASSUME Typed, InStep, NEW x \in Homes
  PROVE  x = <<x[1], x[2]>> /\ x[1] \in Level /\ x[2] \in Table
<1>1. CASE \E l \in Level : \E t \in Range(levels[l]) : x = <<l, t>>
  <2>0. PICK l \in Level : \E t \in Range(levels[l]) : x = <<l, t>>
    BY <1>1, Zenon
  <2>1. PICK t \in Range(levels[l]) : x = <<l, t>>
    BY <2>0, Zenon
  <2>2. levels[l] \in Seq(Table)
    BY Zenon DEF Typed
  <2>3. t \in Table
    BY <2>2, RangeFinite, Zenon
  <2> QED
    BY <2>1, <2>3, Zenon
<1>2. CASE \E t \in Range(flushing) : x = <<0, t>>
  <2>1. PICK t \in Range(flushing) : x = <<0, t>>
    BY <1>2, Zenon
  <2>2. flushing \in Seq(Table)
    BY Zenon DEF Typed
  <2>3. t \in Table /\ 0 \in Level
    <3>1. 0 \in Level
      BY CompactionAssumption DEF Level
    <3> QED
      BY <2>2, <3>1, RangeFinite, Zenon
  <2> QED
    BY <2>1, <2>3, Zenon
<1>3. CASE \E c \in Built : \E t \in New(c) : x = <<plan[c][1].next, t>>
  <2>0. PICK c \in Built : \E t \in New(c) : x = <<plan[c][1].next, t>>
    BY <1>3, Zenon
  <2>1. PICK t \in New(c) : x = <<plan[c][1].next, t>>
    BY <2>0, Zenon
  <2>2. c \in Planned /\ t \in Table
    BY OutIs, Zenon
  <2>3. plan[c][1].next \in Level
    BY <2>2, PlanIs, Zenon
  <2> QED
    BY <2>1, <2>2, <2>3, Zenon
<1> QED
  BY <1>1, <1>2, <1>3, HomesAre, Zenon

\* Two tables at home with one number are the same, in the same place.
LEMMA OneHome ==
  ASSUME Named, NEW l, NEW t, NEW m, NEW u, <<l, t>> \in Homes, <<m, u>> \in Homes,
         t.id = u.id
  PROVE  l = m /\ t = u
<1>1. <<l, t>>[2] = t /\ <<m, u>>[2] = u
  BY Zenon
<1>2. <<l, t>> = <<m, u>>
  BY <1>1, Zenon DEF Named
<1> QED
  BY <1>2, Zenon

-----------------------------------------------------------------------------
\* Steps that move a compactor and touch nothing it holds.

LEMMA Quiet ==
  ASSUME IInv,
         UNCHANGED <<levels, ranges, busy, manifest, next_file_id, version, latest,
                     flushing, plan, out>>,
         \A d \in Compactor : pc'[d] = pc[d] \/ (out[d] = <<>> /\ pc'[d] # "delete")
  PROVE  Named' /\ Backed' /\ Claimed' /\ Exclusive' /\ Outputs' /\ Room' /\ InOrder'
         /\ Versions' /\ NewestKept'
<1>1. Named' /\ Versions'
  BY DEF IInv, Named, Versions, Homes, Built, New
<1>2. Backed'
  BY Zenon DEF IInv, Backed, Built, New
<1>3. Claimed'
  BY DEF IInv, Claimed, Planned, Taken, Descends
<1>4. Exclusive'
  BY DEF IInv, Exclusive, Planned, Taken, Built, New
<1>5. Outputs'
  BY Zenon DEF IInv, Outputs, Built, New, Descends
<1>6. Room'
  BY Zenon DEF IInv, InStep, Room, Planned, Descends
<1>7. InOrder' /\ NewestKept'
  BY Zenon DEF IInv, InOrder, NewestKept
<1> QED
  BY <1>1, <1>2, <1>3, <1>4, <1>5, <1>6, <1>7, Zenon

LEMMA InitIInv == Init => IInv
<1>1. SUFFICES ASSUME Init PROVE IInv
  BY Zenon
<1>2. Range(<<>>) = {}
  BY DEF Range
<1>3. Planned = {} /\ Built = {}
  BY <1>1, Zenon DEF Init, Planned, Built
<1>4. Typed
  <2>1. 0 \in Level /\ IsFiniteSet({})
    BY CompactionAssumption, FS_EmptySet DEF Level
  <2> QED
    BY <1>1, <2>1 DEF Init, Typed
<1>5. InStep
  BY <1>1, Zenon DEF Init, InStep
<1>6. \A x : x \notin Homes
  BY <1>1, <1>2, <1>3, HomesAre, Zenon DEF Init
<1>7. Named /\ Versions
  BY <1>1, <1>6, Zenon DEF Init, Named, Versions
<1>8. Backed /\ Claimed /\ Exclusive /\ Outputs /\ Room
  BY <1>1, <1>3, Zenon DEF Init, Backed, Claimed, Exclusive, Outputs, Room
<1>9. InOrder /\ NewestKept
  <2>1. \A l \in 1 .. LastLevel : levels[l] = <<>>
    BY <1>1, CompactionAssumption DEF Init, Level, LastLevel
  <2> QED
    BY <1>1, <2>1 DEF Init, InOrder, NewestKept
<1> QED
  BY <1>4, <1>5, <1>7, <1>8, <1>9, Zenon DEF IInv

LEMMA PickIInv ==
  ASSUME IInv, NEW c \in Compactor, PickCompactLevels(c)
  PROVE  IInv'
<1>0. Typed /\ InStep
  BY Zenon DEF IInv
<1>1. PICK s \in Picks(c) : s # <<>> /\ prios' = [prios EXCEPT ![c] = s]
  BY Zenon DEF PickCompactLevels
<1>2. s \in Seq(0 .. LastLevel - 1) /\ BaseLevel \in Level
  BY PicksAre, BaseLevelIs, Zenon
<1>3. Typed'
  BY <1>0, <1>1, <1>2, Zenon DEF Typed, PickCompactLevels, levelVars, statusVars
<1>4. InStep'
  BY <1>0, <1>1, Zenon DEF Typed, InStep, PickCompactLevels
<1>5. \A d \in Compactor : pc'[d] = pc[d] \/ (out[d] = <<>> /\ pc'[d] # "delete")
  BY <1>0, Zenon DEF Typed, InStep, PickCompactLevels
<1>6. UNCHANGED <<levels, ranges, busy, manifest, next_file_id, version, latest,
                  flushing, plan, out>>
  BY Zenon DEF PickCompactLevels, levelVars, statusVars
<1> QED
  BY <1>3, <1>4, <1>5, <1>6, Quiet, Zenon DEF IInv

\* Giving up a level leaves the next one to try, or none.
LEMMA NextLevelIs ==
  ASSUME Typed, InStep, NEW c \in Compactor, NextLevel(c), prios[c] # <<>>
  PROVE  /\ prios' \in [Compactor -> Seq(0 .. LastLevel - 1)]
         /\ base' \in [Compactor -> Level]
         /\ pc' \in [Compactor -> {"idle", "start", "dead", "build", "stuck", "push",
                                   "replace", "delete"}]
         /\ pc'[c] \in {"idle", "start"} /\ (pc'[c] = "start" => prios'[c] # <<>>)
         /\ \A d \in Compactor \ {c} : pc'[d] = pc[d] /\ prios'[d] = prios[d]
<1>1. prios \in [Compactor -> Seq(0 .. LastLevel - 1)] /\ base \in [Compactor -> Level]
      /\ 0 \in Level
  BY CompactionAssumption DEF Typed, Level
<1> DEFINE S == 0 .. LastLevel - 1
<1>2. prios[c] \in Seq(S) /\ Tail(prios[c]) \in Seq(S)
      /\ (Len(prios[c]) # 1 => Tail(prios[c]) # <<>>)
  <2>1. prios[c] \in Seq(S) /\ prios[c] # <<>>
    BY <1>1, Zenon
  <2> HIDE DEF S
  <2>2. ASSUME NEW s \in Seq(S), s # <<>>
        PROVE  Tail(s) \in Seq(S) /\ (Len(s) # 1 => Tail(s) # <<>>)
    <3>1. Tail(s) \in Seq(S) /\ Len(Tail(s)) = Len(s) - 1 /\ Len(s) \in Nat
      BY <2>2
    <3>2. Len(<<>>) = 0
      BY Zenon
    <3> QED
      BY <3>1, <3>2
  <2> QED
    BY <2>1, <2>2, Zenon
<1>3. /\ prios' = [prios EXCEPT ![c] = Tail(prios[c])]
      /\ pc' = [pc EXCEPT ![c] = IF Len(prios[c]) = 1 THEN "idle" ELSE "start"]
      /\ base' = [base EXCEPT ![c] = IF Len(prios[c]) = 1 THEN 0 ELSE base[c]]
  BY Zenon DEF NextLevel
<1>4. prios' \in [Compactor -> Seq(S)] /\ prios'[c] = Tail(prios[c])
      /\ \A d \in Compactor \ {c} : prios'[d] = prios[d]
  <2> HIDE DEF S
  <2>1. prios \in [Compactor -> Seq(S)]
    BY <1>1, Zenon DEF S
  <2> QED
    BY <1>2, <1>3, <2>1, Zenon
<1>5. base' \in [Compactor -> Level]
  BY <1>1, <1>3, Zenon
<1>6. /\ pc' \in [Compactor -> {"idle", "start", "dead", "build", "stuck", "push",
                                "replace", "delete"}]
      /\ pc'[c] \in {"idle", "start"} /\ (pc'[c] = "start" => Len(prios[c]) # 1)
      /\ \A d \in Compactor \ {c} : pc'[d] = pc[d]
  BY <1>3, Zenon DEF Typed
<1> QED
  BY <1>2, <1>4, <1>5, <1>6, Zenon

\* The levels that are left untouched by a start without a plan.
LEMMA StartNoPlanIInv ==
  ASSUME IInv, NEW c \in Compactor, pc[c] = "start",
         UNCHANGED <<levelVars, statusVars, manifest, next_file_id, version, latest,
                     flushing, plan, out>>,
         \/ pc' = [pc EXCEPT ![c] = "dead"] /\ UNCHANGED <<prios, base>>
         \/ NextLevel(c)
  PROVE  IInv'
<1>0. Typed /\ InStep
  BY Zenon DEF IInv
<1>1. prios[c] # <<>> /\ plan[c] = <<>> /\ out[c] = <<>>
  BY <1>0, Zenon DEF InStep
<1>2. UNCHANGED <<levels, ranges, busy, manifest, next_file_id, version, latest,
                  flushing, plan, out>>
  BY Zenon DEF levelVars, statusVars
<1>3. CASE pc' = [pc EXCEPT ![c] = "dead"] /\ UNCHANGED <<prios, base>>
  <2>1. Typed' /\ InStep'
    BY <1>0, <1>1, <1>2, <1>3, Zenon DEF Typed, InStep
  <2>2. \A d \in Compactor : pc'[d] = pc[d] \/ (out[d] = <<>> /\ pc'[d] # "delete")
    BY <1>0, <1>1, <1>3, Zenon DEF Typed
  <2> QED
    BY <1>2, <2>1, <2>2, Quiet, Zenon DEF IInv
<1>4. CASE NextLevel(c)
  <2>1. /\ prios' \in [Compactor -> Seq(0 .. LastLevel - 1)] /\ base' \in [Compactor -> Level]
        /\ pc' \in [Compactor -> {"idle", "start", "dead", "build", "stuck", "push",
                                  "replace", "delete"}]
        /\ pc'[c] \in {"idle", "start"} /\ (pc'[c] = "start" => prios'[c] # <<>>)
        /\ \A d \in Compactor \ {c} : pc'[d] = pc[d] /\ prios'[d] = prios[d]
    BY <1>0, <1>1, <1>4, NextLevelIs, Zenon
  <2>2. Typed'
    BY <1>0, <1>2, <2>1, Zenon DEF Typed
  <2>3. InStep'
    BY <1>0, <1>1, <1>2, <2>1, Zenon DEF InStep
  <2>4. \A d \in Compactor : pc'[d] = pc[d] \/ (out[d] = <<>> /\ pc'[d] # "delete")
    BY <1>1, <2>1, Zenon
  <2> QED
    BY <1>2, <2>2, <2>3, <2>4, Quiet, Zenon DEF IInv
<1> QED
  BY <1>3, <1>4, Zenon

-----------------------------------------------------------------------------
\* A plan is made.

\* CompactStatus covers, at its level, every table that a plan took or built.
LEMMA Guarded ==
  ASSUME IInv, NEW d \in Planned
  PROVE  /\ \A u \in Range(plan[d][1].top) : \E r \in ranges[plan[d][1].this] : Within(u, r)
         /\ \A u \in Range(plan[d][1].bottom) : \E r \in ranges[plan[d][1].next] : Within(u, r)
         /\ d \in Built =>
              \A u \in New(d) : \E r \in ranges[plan[d][1].next] : Within(u, r)
<1> DEFINE p == plan[d][1]
<1>1. Claimed /\ Outputs
  BY Zenon DEF IInv
<1>2. CASE Descends(d)
  <2>1. /\ p.this_range \in ranges[p.this] /\ p.next_range \in ranges[p.next]
        /\ \A t \in Range(p.top) : Within(t, p.this_range)
        /\ \A t \in Range(p.bottom) : Within(t, p.next_range)
        /\ p.bottom = <<>> => p.next_range = p.this_range
    <3>1. ~(p.this = 0 /\ p.next = 0)
      BY <1>2 DEF Descends
    <3> QED
      BY <1>1, <3>1, Zenon DEF Claimed
  <2>2. d \in Built => p.bottom = <<>> /\ \A t \in New(d) : Within(t, p.this_range)
    BY <1>1, <1>2, Zenon DEF Outputs
  <2> HIDE DEF p
  <2> QED
    BY <2>1, <2>2, Zenon DEF p
<1>3. CASE ~Descends(d)
  <2>1. p.this = 0 /\ p.next = 0 /\ InfRange \in ranges[0]
    BY <1>1, <1>3, Zenon DEF Claimed
  <2>2. \A u : Within(u, InfRange)
    BY Zenon DEF Within, InfRange
  <2> HIDE DEF p
  <2> QED
    BY <2>1, <2>2, Zenon DEF p
<1> QED
  BY <1>2, <1>3, Zenon

\* A plan that fix registers takes nothing that another one took or built.
LEMMA KeptAway ==
  ASSUME IInv, NEW c \in Compactor, plan[c] = <<>>, NEW p, Fits(p),
         (Downward(p) /\ TryUpdate(p)) \/ Inside(c, p),
         NEW d \in Planned, NEW t \in Range(p.top) \cup Range(p.bottom)
  PROVE  /\ \A u \in Taken(d) : t.id # u.id
         /\ d \in Built => \A u \in New(d) : t.id # u.id
<1> DEFINE q == plan[d][1]
<1>0. Typed /\ InStep /\ Named /\ Claimed
  BY Zenon DEF IInv
<1>1. /\ d # c /\ q.this \in Level /\ q.next \in Level /\ Taken(d) \subseteq Table
      /\ Range(q.top) \subseteq Range(levels[q.this])
      /\ Range(q.bottom) \subseteq Range(levels[q.next])
  <2>1. d # c
    BY Zenon DEF Planned
  <2>2. q.this \in Level /\ q.next \in Level /\ Taken(d) \subseteq Table
    BY <1>0, PlanIs, Zenon
  <2>3. Range(q.top) \subseteq Range(levels[q.this]) /\ Range(q.bottom) \subseteq Range(levels[q.next])
    BY <1>0, Zenon DEF Claimed
  <2> QED
    BY <2>1, <2>2, <2>3, Zenon
<1>2. /\ p.this \in Level /\ p.next \in Level
      /\ p.this_range \in KeyTsRange /\ p.next_range \in KeyTsRange
      /\ Range(p.top) \subseteq Range(levels[p.this])
      /\ Range(p.bottom) \subseteq Range(levels[p.next])
  BY Zenon DEF Fits, CompactPlan
<1>3. /\ \A u \in Range(q.top) : <<q.this, u>> \in Homes
      /\ \A u \in Range(q.bottom) : <<q.next, u>> \in Homes
      /\ d \in Built => \A u \in New(d) : <<q.next, u>> \in Homes
      /\ t \in Range(p.top) => <<p.this, t>> \in Homes
      /\ t \in Range(p.bottom) => <<p.next, t>> \in Homes
  BY <1>1, <1>2, AtHome, Zenon
<1>4. CASE Inside(c, p)
  <2>1. p.this = 0 /\ p.bottom = <<>> /\ c = 0 /\ \A x \in Range(p.top) : x.id \notin busy
    BY <1>4, Zenon DEF Inside
  <2>2. t \in Range(p.top)
    BY <2>1 DEF Range
  <2>3. \A u \in Taken(d) : t.id # u.id
    BY <1>0, <2>1, <2>2, Zenon DEF Claimed
  <2>4. ASSUME d \in Built, NEW u \in New(d), t.id = u.id PROVE FALSE
    <3>0. <<p.this, t>> \in Homes /\ <<q.next, u>> \in Homes
      BY <1>3, <2>2, <2>4, Zenon
    <3>1. q.next = 0
      <4> HIDE DEF q
      <4> QED
        BY <1>0, <2>1, <2>4, <3>0, OneHome, Zenon
    <3>2. ~Descends(d)
      BY <1>1, <3>1 DEF Descends, Level
    <3>3. d = 0
      BY <1>0, <3>2, Zenon DEF Claimed
    <3> QED
      BY <1>1, <2>1, <3>3, Zenon
  <2> QED
    BY <2>3, <2>4, Zenon
<1>5. CASE Downward(p) /\ TryUpdate(p)
  <2>1. t \in Table
    <3>1. Range(p.top) \subseteq Table /\ Range(p.bottom) \subseteq Table
      <4>1. p.top \in Seq(Table) /\ p.bottom \in Seq(Table)
        BY Zenon DEF Fits, CompactPlan
      <4> QED
        BY <4>1, RangeFinite, Zenon
    <3> QED
      BY <3>1, Zenon
  <2>2. ASSUME NEW l \in Level, NEW u, <<l, u>> \in Homes, t.id = u.id,
               NEW r \in ranges[l], Within(u, r)
        PROVE  FALSE
    <3>1. r \in KeyTsRange
      BY <1>0, <2>2, Zenon DEF Typed
    <3>2. CASE t \in Range(p.top)
      <4>1. l = p.this /\ t = u
        BY <1>0, <1>3, <2>2, <3>2, OneHome, Zenon
      <4>2. Within(t, p.this_range) /\ ~OverlapsWith(r, p.this_range)
        BY <1>5, <2>2, <3>2, <4>1, Zenon DEF Downward, TryUpdate, StatusOverlaps
      <4> QED
        BY <1>2, <2>1, <2>2, <3>1, <4>1, <4>2, SharedOverlaps, Zenon
    <3>3. CASE t \in Range(p.bottom)
      <4>1. l = p.next /\ t = u
        BY <1>0, <1>3, <2>2, <3>3, OneHome, Zenon
      <4>2. Within(t, p.next_range) /\ ~OverlapsWith(r, p.next_range)
        BY <1>5, <2>2, <3>3, <4>1, Zenon DEF Downward, TryUpdate, StatusOverlaps
      <4> QED
        BY <1>2, <2>1, <2>2, <3>1, <4>1, <4>2, SharedOverlaps, Zenon
    <3> QED
      BY <3>2, <3>3, Zenon
  <2>3. /\ \A u \in Range(q.top) : \E r \in ranges[q.this] : Within(u, r)
        /\ \A u \in Range(q.bottom) : \E r \in ranges[q.next] : Within(u, r)
        /\ d \in Built => \A u \in New(d) : \E r \in ranges[q.next] : Within(u, r)
    BY Guarded, Zenon
  <2> HIDE DEF q
  <2>4. ASSUME NEW u \in Range(q.top) PROVE t.id # u.id
    BY <1>1, <1>3, <2>2, <2>3, Zenon
  <2>5. ASSUME NEW u \in Range(q.bottom) PROVE t.id # u.id
    BY <1>1, <1>3, <2>2, <2>3, Zenon
  <2>6. ASSUME d \in Built, NEW u \in New(d) PROVE t.id # u.id
    BY <1>1, <1>3, <2>2, <2>3, <2>6, Zenon
  <2>7. Taken(d) = Range(q.top) \cup Range(q.bottom)
    BY Zenon DEF Taken, q
  <2> QED
    BY <2>4, <2>5, <2>6, <2>7, Zenon
<1> QED
  BY <1>4, <1>5, Zenon

\* StartCompact when it registers a plan.
LEMMA StartPlanIInv ==
  ASSUME IInv, NEW c \in Compactor, pc[c] = "start", NEW p, Fits(p),
         (Downward(p) /\ TryUpdate(p)) \/ Inside(c, p),
         Register(p), plan' = [plan EXCEPT ![c] = <<p>>], pc' = [pc EXCEPT ![c] = "build"],
         UNCHANGED <<levels, manifest, next_file_id, version, latest, flushing, prios,
                     base, out>>
  PROVE  IInv'
<1>0. /\ Typed /\ InStep /\ Named /\ Backed /\ Claimed /\ Exclusive /\ Outputs /\ Room
      /\ InOrder /\ Versions /\ NewestKept
  BY Zenon DEF IInv
<1>1. prios[c] # <<>> /\ plan[c] = <<>> /\ out[c] = <<>>
  BY <1>0, Zenon DEF InStep
<1>2. /\ p \in CompactPlan /\ p.this \in Level /\ p.next \in Level
      /\ p.this_range \in KeyTsRange /\ p.next_range \in KeyTsRange
      /\ p.top \in Seq(Table) /\ p.bottom \in Seq(Table)
      /\ Range(p.top) \subseteq Range(levels[p.this])
      /\ Range(p.bottom) \subseteq Range(levels[p.next])
  BY Zenon DEF Fits, CompactPlan
<1>3. /\ plan'[c] = <<p>> /\ plan'[c][1] = p
      /\ \A d \in Compactor \ {c} : plan'[d] = plan[d] /\ pc'[d] = pc[d]
      /\ pc'[c] = "build"
  BY <1>0, Zenon DEF Typed
<1>4. /\ Planned' = Planned \cup {c} /\ c \notin Planned
      /\ Built' = Built /\ c \notin Built /\ Built \subseteq Compactor
      /\ Planned \subseteq Compactor
  BY <1>1, <1>3 DEF Planned, Built
<1>5. /\ \A d \in Planned : /\ plan'[d] = plan[d] /\ Taken(d)' = Taken(d)
                            /\ (Descends(d)' <=> Descends(d))
      /\ \A d \in Built : plan'[d] = plan[d] /\ New(d)' = New(d) /\ pc'[d] = pc[d]
      /\ Taken(c)' = Range(p.top) \cup Range(p.bottom)
      /\ (Descends(c)' <=> p.this < p.next)
  BY <1>3, <1>4, Zenon DEF Taken, Descends, New
<1>6. /\ \A l \in Level : ranges[l] \subseteq ranges'[l]
      /\ p.this_range \in ranges'[p.this]
      /\ p.this # p.next => p.next_range \in ranges'[p.next]
      /\ ranges' \in [Level -> SUBSET KeyTsRange]
  BY <1>0, <1>2, Zenon DEF Register, Typed
<1>7. busy \subseteq busy' /\ (\A t \in Range(p.top) \cup Range(p.bottom) : t.id \in busy')
      /\ busy' \subseteq Nat
  <2>1. Range(p.top \o p.bottom) = Range(p.top) \cup Range(p.bottom)
    BY <1>2, RangeConcat
  <2>2. Range(p.top) \subseteq Table /\ Range(p.bottom) \subseteq Table
    BY <1>2, RangeFinite, Zenon
  <2>3. \A t \in Table : t.id \in Nat
    BY Zenon DEF Table
  <2>4. busy \subseteq Nat
    BY <1>0, Zenon DEF Typed
  <2>5. busy' = busy \cup {t.id : t \in Range(p.top) \cup Range(p.bottom)}
    BY <2>1, Zenon DEF Register, Ids
  <2> QED
    BY <2>2, <2>3, <2>4, <2>5, Zenon
<1>8. Typed'
  <2>1. <<p>> \in Seq(CompactPlan)
    BY <1>2
  <2>2. plan' \in [Compactor -> Seq(CompactPlan)]
    <3>1. plan \in [Compactor -> Seq(CompactPlan)]
      BY <1>0, Zenon DEF Typed
    <3> QED
      BY <2>1, <3>1, Zenon
  <2>3. pc' \in [Compactor -> {"idle", "start", "dead", "build", "stuck", "push",
                               "replace", "delete"}]
    BY <1>0, Zenon DEF Typed
  <2> QED
    BY <1>0, <1>6, <1>7, <2>2, <2>3, Zenon DEF Typed
<1>9. InStep'
  BY <1>0, <1>1, <1>3 DEF InStep
<1>10. Homes' = Homes
  <2>1. \A x : x \in Homes' <=> x \in Homes
    <3>1. \A x : (\E d \in Built' : \E t \in New(d)' : x = <<plan'[d][1].next, t>>)
            <=> \E d \in Built : \E t \in New(d) : x = <<plan[d][1].next, t>>
      BY <1>4, <1>5
    <3> QED
      BY <3>1, HomesAre, HomesNext, Zenon
  <2> QED
    BY <2>1, Zenon
<1>11. Named' /\ Versions'
  BY <1>0, <1>10, Zenon DEF Named, Versions
<1>12. Backed'
  <2>1. \A d \in Built : /\ d \in Built' /\ plan'[d][1].next = plan[d][1].next
                          /\ New(d)' = New(d) /\ pc'[d] = pc[d]
    BY <1>4, <1>5, Zenon
  <2> SUFFICES ASSUME NEW m \in manifest
               PROVE  \/ m[2] \in Range(levels[m[1]])
                      \/ m[1] = 0 /\ m[2] \in Range(flushing)
                      \/ \E d \in Built' : pc'[d] = "replace" /\ m[1] = plan'[d][1].next
                                           /\ m[2] \in New(d)'
    BY Zenon DEF Backed
  <2>2. CASE \E d \in Built : pc[d] = "replace" /\ m[1] = plan[d][1].next /\ m[2] \in New(d)
    <3>1. PICK d \in Built : pc[d] = "replace" /\ m[1] = plan[d][1].next /\ m[2] \in New(d)
      BY <2>2, Zenon
    <3>2. d \in Built' /\ pc'[d] = "replace" /\ m[1] = plan'[d][1].next /\ m[2] \in New(d)'
      BY <2>1, <3>1, Zenon
    <3> QED
      BY <3>2, Zenon
  <2> QED
    BY <1>0, <2>2, Zenon DEF Backed
<1>13. Claimed'
  <2> SUFFICES ASSUME NEW d \in Planned'
               PROVE  LET q == plan'[d][1]
    IN /\ Range(q.top) \subseteq Range(levels[q.this])
       /\ Range(q.bottom) \subseteq Range(levels[q.next])
       /\ \A t \in Taken(d)' : t.id \in busy'
       /\ \/ /\ Descends(d)'
             /\ q.this_range \in ranges'[q.this] /\ q.next_range \in ranges'[q.next]
             /\ ~q.this_range.inf
             /\ \A t \in Range(q.top) : Within(t, q.this_range)
             /\ \A t \in Range(q.bottom) : Within(t, q.next_range)
             /\ q.bottom = <<>> => q.next_range = q.this_range
          \/ /\ d = 0 /\ q.this = 0 /\ q.next = 0 /\ q.bottom = <<>>
             /\ InfRange \in ranges'[0]
    BY Zenon DEF Claimed, Within, Smallest, Biggest, KeysOf
  <2>1. CASE d \in Planned
    <3>1. plan[d][1].this \in Level /\ plan[d][1].next \in Level /\ 0 \in Level
      <4>1. 0 \in Level
        BY CompactionAssumption DEF Level
      <4> QED
        BY <1>0, <2>1, <4>1, PlanIs, Zenon
    <3>2. plan'[d] = plan[d] /\ Taken(d)' = Taken(d) /\ (Descends(d)' <=> Descends(d))
      BY <1>5, <2>1, Zenon
    <3>3. /\ ranges[plan[d][1].this] \subseteq ranges'[plan[d][1].this]
          /\ ranges[plan[d][1].next] \subseteq ranges'[plan[d][1].next]
          /\ ranges[0] \subseteq ranges'[0]
      BY <1>6, <3>1, Zenon
    <3> QED
      BY <1>0, <1>7, <2>1, <3>2, <3>3, Zenon DEF Claimed
  <2>2. CASE d = c
    <3>1. CASE Downward(p)
      <4>1. p.this < p.next /\ p.this # p.next
        <5>1. p.this < p.next
          BY <3>1, Zenon DEF Downward
        <5>2. p.this \in Int /\ p.next \in Int
          BY <1>2 DEF Level
        <5> QED
          BY <5>1, <5>2
      <4> QED
        BY <1>2, <1>3, <1>5, <1>6, <1>7, <2>2, <3>1, <4>1, Zenon DEF Downward
    <3>2. CASE Inside(c, p)
      BY <1>2, <1>3, <1>5, <1>6, <1>7, <2>2, <3>2, Zenon DEF Inside
    <3> QED
      BY <3>1, <3>2, Zenon
  <2> QED
    BY <1>4, <2>1, <2>2, Zenon
<1>14. Exclusive'
  <2>1. ASSUME NEW d \in Planned
        PROVE  /\ \A t \in Range(p.top) \cup Range(p.bottom), u \in Taken(d) : t.id # u.id
               /\ d \in Built =>
                    \A t \in Range(p.top) \cup Range(p.bottom), u \in New(d) : t.id # u.id
    BY <1>1, <2>1, KeptAway, Zenon
  <2>2. Built \subseteq Planned
    BY <1>0, OutIs, Zenon
  <2>3. ASSUME NEW d \in Planned', NEW f \in Planned' \ {d}, NEW t \in Taken(d)', NEW u \in Taken(f)'
        PROVE  t.id # u.id
    <3>1. CASE d = c
      <4>1. f \in Planned
        BY <1>4, <3>1, Zenon
      <4>2. t \in Range(p.top) \cup Range(p.bottom) /\ u \in Taken(f)
        BY <1>5, <3>1, <4>1, Zenon
      <4> QED
        BY <2>1, <4>1, <4>2, Zenon
    <3>2. CASE f = c
      <4>1. d \in Planned
        BY <1>4, <3>2, Zenon
      <4>2. t \in Taken(d) /\ u \in Range(p.top) \cup Range(p.bottom)
        BY <1>5, <3>2, <4>1, Zenon
      <4> QED
        BY <2>1, <4>1, <4>2, Zenon
    <3>3. CASE d \in Planned /\ f \in Planned
      <4>1. t \in Taken(d) /\ u \in Taken(f) /\ f \in Planned \ {d}
        BY <1>5, <2>3, <3>3, Zenon
      <4> QED
        BY <1>0, <3>3, <4>1, Zenon DEF Exclusive
    <3> QED
      BY <1>4, <3>1, <3>2, <3>3, Zenon
  <2>4. ASSUME NEW d \in Planned', NEW f \in Built', NEW t \in Taken(d)', NEW u \in New(f)'
        PROVE  t.id # u.id
    <3>0. f \in Built /\ f \in Planned
      BY <1>4, <2>2, Zenon
    <3>1. CASE d = c
      BY <1>5, <2>1, <2>4, <3>0, <3>1, Zenon
    <3>2. CASE d \in Planned
      <4>1. t \in Taken(d) /\ u \in New(f)
        BY <1>5, <2>4, <3>0, <3>2, Zenon
      <4> QED
        BY <1>0, <3>0, <3>2, <4>1, Zenon DEF Exclusive
    <3> QED
      BY <1>4, <3>1, <3>2, Zenon
  <2> QED
    BY <2>3, <2>4, Zenon DEF Exclusive
<1>15. Outputs'
  <2>1. Built \subseteq Planned
    BY <1>0, OutIs, Zenon
  <2>2. \A d \in Built' : /\ d \in Built /\ plan'[d] = plan[d] /\ New(d)' = New(d)
                           /\ pc'[d] = pc[d] /\ (Descends(d)' <=> Descends(d))
    BY <1>4, <1>5, <2>1, Zenon
  <2> SUFFICES ASSUME NEW d \in Built'
               PROVE  LET q == plan'[d][1]
    IN /\ q.bottom = <<>>
       /\ Descends(d)' => \A t \in New(d)' : Within(t, q.this_range)
       /\ \A t, u \in New(d)' : t # u => Disjoint(t, u)
       /\ \A k \in Key : \A e \in latest[k] :
            ~e.d /\ e \in Entries(Range(q.top)) => e \in Entries(New(d)')
       /\ pc'[d] = "delete" => New(d)' \subseteq Range(levels[q.next])
       /\ pc'[d] # "push" => \A m \in manifest, t \in Range(q.top) : m[2].id # t.id
    BY Zenon DEF Outputs, Within, Disjoint, Smallest, Biggest, KeysOf, Entries
  <2>3. /\ d \in Built /\ plan'[d] = plan[d] /\ New(d)' = New(d)
        /\ pc'[d] = pc[d] /\ (Descends(d)' <=> Descends(d))
    BY <2>2, Zenon
  <2>4. LET q == plan[d][1]
        IN /\ q.bottom = <<>>
           /\ Descends(d) => \A t \in New(d) : Within(t, q.this_range)
           /\ \A t, u \in New(d) : t # u => Disjoint(t, u)
           /\ \A k \in Key : \A e \in latest[k] :
                ~e.d /\ e \in Entries(Range(q.top)) => e \in Entries(New(d))
           /\ pc[d] = "delete" => New(d) \subseteq Range(levels[q.next])
           /\ pc[d] # "push" => \A m \in manifest, t \in Range(q.top) : m[2].id # t.id
    BY <1>0, <2>3, Zenon DEF Outputs
  <2> QED
    BY <2>3, <2>4
<1>16. Room'
  <2>0. ASSUME Descends(c)'
        PROVE  ~Inside(c, p)
    <3>1. p.this < p.next
      BY <1>5, <2>0, Zenon
    <3>2. ~(p.this = 0 /\ p.next = 0)
      BY <3>1
    <3> QED
      BY <3>2, Zenon DEF Inside
  <2>1. ASSUME Descends(c)', NEW d \in Planned, Descends(d), p.next = plan[d][1].next
        PROVE  Miss(p.next_range, plan[d][1].next_range) /\ Miss(plan[d][1].next_range, p.next_range)
    <3>1. plan[d][1].next_range \in ranges[p.next] /\ plan[d][1].next_range \in KeyTsRange
      <4>1. ~(plan[d][1].this = 0 /\ plan[d][1].next = 0)
        BY <2>1 DEF Descends
      <4> QED
        BY <1>0, <2>1, <4>1, PlanIs, Zenon DEF Claimed
    <3>2. ~Inside(c, p)
      BY <2>0, <2>1, Zenon
    <3>3. ~OverlapsWith(plan[d][1].next_range, p.next_range)
      BY <3>1, <3>2, Zenon DEF TryUpdate, StatusOverlaps
    <3>4. Miss(plan[d][1].next_range, p.next_range)
      BY <1>2, <3>1, <3>3, NoOverlapMisses, Zenon
    <3> QED
      BY <3>4, Zenon DEF Miss
  <2>2. ASSUME Descends(c)', p.bottom = <<>>
        PROVE  \A t \in Range(levels[p.next]) : Apart(t, p.this_range)
    <3>1. ~Inside(c, p)
      BY <2>0, <2>2, Zenon
    <3> QED
      BY <2>2, <3>1, Zenon DEF Downward
  <2> SUFFICES ASSUME NEW d \in Planned', Descends(d)'
               PROVE  /\ plan'[d][1].bottom = <<>> /\ pc'[d] # "delete" =>
                           \A t \in Range(levels[plan'[d][1].next]) : Apart(t, plan'[d][1].this_range)
                      /\ \A f \in Planned' \ {d} :
                           Descends(f)' /\ plan'[d][1].next = plan'[f][1].next =>
                             Miss(plan'[d][1].next_range, plan'[f][1].next_range)
    BY Zenon DEF Room, Apart, Miss, EmptyRange, Smallest, Biggest, KeysOf
  <2>3. CASE d = c
    BY <1>3, <1>4, <1>5, <2>1, <2>2, <2>3, Zenon
  <2>4. CASE d \in Planned
    <3>1. pc'[d] = pc[d]
      BY <1>3, <1>4, <2>4, Zenon
    <3> QED
      <4>1. Descends(d) /\ plan'[d] = plan[d]
        BY <1>5, <2>4, Zenon
      <4>2. ASSUME NEW f \in Planned' \ {d}, Descends(f)', plan'[d][1].next = plan'[f][1].next
            PROVE  Miss(plan'[d][1].next_range, plan'[f][1].next_range)
        <5>1. CASE f = c
          BY <1>3, <2>1, <2>4, <4>1, <4>2, <5>1
        <5>2. CASE f \in Planned
          BY <1>0, <1>5, <2>4, <4>1, <4>2, <5>2, Zenon DEF Room
        <5> QED
          BY <1>4, <5>1, <5>2, Zenon
      <4> QED
        BY <1>0, <2>4, <3>1, <4>1, <4>2, Zenon DEF Room
  <2> QED
    BY <1>4, <2>3, <2>4, Zenon
<1>17. InOrder' /\ NewestKept'
  BY <1>0 DEF InOrder, NewestKept, Entries, Smallest, Biggest, KeysOf
<1> QED
  BY <1>8, <1>9, <1>11, <1>12, <1>13, <1>14, <1>15, <1>16, <1>17, Zenon DEF IInv

LEMMA StartCompactIInv ==
  ASSUME IInv, NEW c \in Compactor, StartCompact(c)
  PROVE  IInv'
<1> DEFINE l == Head(prios[c])
           b == IF base[c] = 0 THEN BaseLevel ELSE base[c]
<1>0. Typed /\ InStep /\ pc[c] = "start"
  BY Zenon DEF IInv, StartCompact
<1>1. l \in 0 .. LastLevel - 1 /\ b \in Level
  <2> DEFINE S == 0 .. LastLevel - 1
  <2>1. prios[c] # <<>> /\ prios[c] \in Seq(S)
    BY <1>0, Zenon DEF InStep, Typed
  <2>2. l \in S
    <3> HIDE DEF S
    <3> QED
      BY <2>1
  <2> QED
    BY <1>0, <2>2, BaseLevelIs, Zenon DEF Typed
<1> HIDE DEF l, b
<1>2. UNCHANGED <<levelVars, manifest, next_file_id, version, latest, flushing, out>>
  BY Zenon DEF StartCompact
<1>3. PICK old \in {0} \cup Ids(levels[0]) :
          \/ /\ l = 0 /\ b = 0
             /\ pc' = [pc EXCEPT ![c] = "dead"]
             /\ UNCHANGED <<statusVars, prios, base, plan>>
          \/ /\ l # 0 \/ b # 0
             /\ \E p \in Fill(c, l, b, old) : /\ Register(p)
                                              /\ plan' = [plan EXCEPT ![c] = <<p>>]
             /\ pc' = [pc EXCEPT ![c] = "build"]
             /\ UNCHANGED <<prios, base>>
          \/ /\ l # 0 \/ b # 0
             /\ Fill(c, l, b, old) = {}
             /\ NextLevel(c)
             /\ UNCHANGED <<statusVars, plan>>
  BY Zenon DEF StartCompact, l, b
<1>4. CASE pc' = [pc EXCEPT ![c] = "dead"] /\ UNCHANGED <<statusVars, prios, base, plan>>
  <2>1. UNCHANGED <<levelVars, statusVars, manifest, next_file_id, version, latest,
                    flushing, plan, out>> /\ UNCHANGED <<prios, base>>
    BY <1>2, <1>4, Zenon
  <2> QED
    BY <1>0, <1>4, <2>1, StartNoPlanIInv, Zenon
<1>5. CASE NextLevel(c) /\ UNCHANGED <<statusVars, plan>>
  <2>1. UNCHANGED <<levelVars, statusVars, manifest, next_file_id, version, latest,
                    flushing, plan, out>>
    BY <1>2, <1>5, Zenon
  <2> QED
    BY <1>0, <1>5, <2>1, StartNoPlanIInv, Zenon
<1>6. CASE /\ l # 0 \/ b # 0
           /\ \E p \in Fill(c, l, b, old) : /\ Register(p)
                                            /\ plan' = [plan EXCEPT ![c] = <<p>>]
           /\ pc' = [pc EXCEPT ![c] = "build"]
           /\ UNCHANGED <<prios, base>>
  <2>1. PICK p \in Fill(c, l, b, old) : Register(p) /\ plan' = [plan EXCEPT ![c] = <<p>>]
    BY <1>6, Zenon
  <2>2. levels \in [Level -> Seq(Table)]
    BY <1>0, Zenon DEF Typed
  <2>3. Fits(p) /\ ((Downward(p) /\ TryUpdate(p)) \/ Inside(c, p))
    BY <1>1, <1>6, <2>2, FillIs, Zenon
  <2>4. UNCHANGED <<levels, manifest, next_file_id, version, latest, flushing, prios,
                    base, out>>
    BY <1>2, <1>6, Zenon DEF levelVars
  <2> QED
    BY <1>0, <1>6, <2>1, <2>3, <2>4, StartPlanIInv, Zenon
<1> QED
  BY <1>3, <1>4, <1>5, <1>6, Zenon

-----------------------------------------------------------------------------
\* A plan is given up.

LEMMA CompactFailsIInv ==
  ASSUME IInv, NEW c \in Compactor, CompactFails(c)
  PROVE  IInv'
<1>0. /\ Typed /\ InStep /\ Named /\ Backed /\ Claimed /\ Exclusive /\ Outputs /\ Room
      /\ InOrder /\ Versions /\ NewestKept
  BY Zenon DEF IInv
<1>1. /\ pc[c] \in {"build", "push"} /\ NextLevel(c)
      /\ plan' = [plan EXCEPT ![c] = <<>>] /\ out' = [out EXCEPT ![c] = <<>>]
      /\ UNCHANGED <<levels, ranges, busy, manifest, next_file_id, version, latest, flushing>>
  BY Zenon DEF CompactFails, levelVars, statusVars
<1>2. prios[c] # <<>>
  BY <1>0, <1>1, Zenon DEF InStep
<1>3. /\ prios' \in [Compactor -> Seq(0 .. LastLevel - 1)] /\ base' \in [Compactor -> Level]
      /\ pc' \in [Compactor -> {"idle", "start", "dead", "build", "stuck", "push",
                                "replace", "delete"}]
      /\ pc'[c] \in {"idle", "start"} /\ (pc'[c] = "start" => prios'[c] # <<>>)
      /\ \A d \in Compactor \ {c} : pc'[d] = pc[d] /\ prios'[d] = prios[d]
  BY <1>0, <1>1, <1>2, NextLevelIs, Zenon
<1>4. /\ plan'[c] = <<>> /\ out'[c] = <<>>
      /\ \A d \in Compactor \ {c} : plan'[d] = plan[d] /\ out'[d] = out[d]
  BY <1>0, <1>1, Zenon DEF Typed
<1>5. Typed'
  <2> DEFINE O == [new : Seq(Table), dropped : SUBSET Entry]
  <2>1. plan' \in [Compactor -> Seq(CompactPlan)] /\ out' \in [Compactor -> Seq(O)]
    <3>1. plan \in [Compactor -> Seq(CompactPlan)] /\ out \in [Compactor -> Seq(O)]
      BY <1>0, Zenon DEF Typed
    <3> HIDE DEF O
    <3>2. <<>> \in Seq(CompactPlan) /\ <<>> \in Seq(O)
      OBVIOUS
    <3> QED
      BY <1>1, <3>1, <3>2, Zenon
  <2> QED
    BY <1>0, <1>1, <1>3, <2>1, Zenon DEF Typed
<1>6. InStep'
  BY <1>0, <1>3, <1>4, Zenon DEF InStep
<1>7. /\ \A d \in Planned' : d # c /\ d \in Planned /\ d \in Compactor
      /\ \A d \in Built' : d # c /\ d \in Built /\ d \in Compactor
      /\ \A d \in Built \ {c} : d \in Built'
  BY <1>4, Zenon DEF Planned, Built
<1>8. /\ \A d \in Planned' : /\ plan'[d] = plan[d] /\ pc'[d] = pc[d]
                             /\ Taken(d)' = Taken(d) /\ (Descends(d)' <=> Descends(d))
      /\ \A d \in Built' : /\ plan'[d] = plan[d] /\ pc'[d] = pc[d] /\ New(d)' = New(d)
                           /\ (Descends(d)' <=> Descends(d))
      /\ \A d \in Built \ {c} : New(d)' = New(d) /\ plan'[d] = plan[d] /\ pc'[d] = pc[d]
  BY <1>3, <1>4, <1>7, Zenon DEF Taken, Descends, New
<1>9. Homes' \subseteq Homes
  <2>1. ASSUME NEW x, x \in Homes' PROVE x \in Homes
    <3>1. (\E d \in Built' : \E t \in New(d)' : x = <<plan'[d][1].next, t>>)
            => \E d \in Built : \E t \in New(d) : x = <<plan[d][1].next, t>>
      BY <1>7, <1>8, Zenon
    <3> QED
      BY <1>1, <2>1, <3>1, HomesAre, HomesNext, Zenon
  <2> QED
    BY <2>1, Zenon
<1>10. Named' /\ Versions'
  BY <1>0, <1>1, <1>9, Zenon DEF Named, Versions
<1>11. Backed'
  <2> SUFFICES ASSUME NEW m \in manifest
               PROVE  \/ m[2] \in Range(levels[m[1]])
                      \/ m[1] = 0 /\ m[2] \in Range(flushing)
                      \/ \E d \in Built' : pc'[d] = "replace" /\ m[1] = plan'[d][1].next
                                           /\ m[2] \in New(d)'
    BY <1>1, Zenon DEF Backed
  <2>1. CASE \E d \in Built : pc[d] = "replace" /\ m[1] = plan[d][1].next /\ m[2] \in New(d)
    <3>1. PICK d \in Built : pc[d] = "replace" /\ m[1] = plan[d][1].next /\ m[2] \in New(d)
      BY <2>1, Zenon
    <3>2. d # c
      BY <1>1, <3>1, Zenon
    <3> QED
      BY <1>7, <1>8, <3>1, <3>2, Zenon
  <2> QED
    BY <1>0, <2>1, Zenon DEF Backed
<1>12. Claimed'
  <2>1. ASSUME NEW d \in Planned', NEW q, q = plan[d][1]
        PROVE  /\ Range(q.top) \subseteq Range(levels[q.this])
               /\ Range(q.bottom) \subseteq Range(levels[q.next])
               /\ \A t \in Taken(d) : t.id \in busy
               /\ \/ /\ Descends(d)
                     /\ q.this_range \in ranges[q.this] /\ q.next_range \in ranges[q.next]
                     /\ ~q.this_range.inf
                     /\ \A t \in Range(q.top) : Within(t, q.this_range)
                     /\ \A t \in Range(q.bottom) : Within(t, q.next_range)
                     /\ q.bottom = <<>> => q.next_range = q.this_range
                  \/ /\ d = 0 /\ q.this = 0 /\ q.next = 0 /\ q.bottom = <<>>
                     /\ InfRange \in ranges[0]
    BY <1>0, <1>7, <2>1, Zenon DEF Claimed
  <2>2. \A d \in Planned' : /\ plan'[d] = plan[d] /\ Taken(d)' = Taken(d)
                             /\ (Descends(d)' <=> Descends(d))
    BY <1>8, Zenon
  <2> QED
    BY <1>1, <2>1, <2>2, Zenon DEF Claimed
<1>13. Exclusive'
  <2>1. ASSUME NEW d \in Planned', NEW g \in Planned' \ {d}, NEW t \in Taken(d)', NEW u \in Taken(g)'
        PROVE  t.id # u.id
    <3>1. d \in Planned /\ g \in Planned \ {d} /\ t \in Taken(d) /\ u \in Taken(g)
      BY <1>7, <1>8, Zenon
    <3> QED
      BY <1>0, <3>1, Zenon DEF Exclusive
  <2>2. ASSUME NEW d \in Planned', NEW g \in Built', NEW t \in Taken(d)', NEW u \in New(g)'
        PROVE  t.id # u.id
    <3>1. d \in Planned /\ g \in Built /\ t \in Taken(d) /\ u \in New(g)
      BY <1>7, <1>8, Zenon
    <3> QED
      BY <1>0, <3>1, Zenon DEF Exclusive
  <2> QED
    BY <2>1, <2>2, Zenon DEF Exclusive
<1>14. Outputs'
  <2>1. ASSUME NEW d \in Built', NEW q, q = plan[d][1]
        PROVE  /\ q.bottom = <<>>
               /\ Descends(d) => \A t \in New(d) : Within(t, q.this_range)
               /\ \A t, u \in New(d) : t # u => Disjoint(t, u)
               /\ \A k \in Key : \A e \in latest[k] :
                    ~e.d /\ e \in Entries(Range(q.top)) => e \in Entries(New(d))
               /\ pc[d] = "delete" => New(d) \subseteq Range(levels[q.next])
               /\ pc[d] # "push" => \A m \in manifest, t \in Range(q.top) : m[2].id # t.id
    BY <1>0, <1>7, <2>1, Zenon DEF Outputs
  <2>2. \A d \in Built' : /\ plan'[d] = plan[d] /\ pc'[d] = pc[d] /\ New(d)' = New(d)
                           /\ (Descends(d)' <=> Descends(d))
    BY <1>8, Zenon
  <2> QED
    BY <1>1, <2>1, <2>2 DEF Outputs
<1>15. Room'
  BY <1>0, <1>1, <1>7, <1>8, Zenon DEF Room
<1>16. InOrder' /\ NewestKept'
  BY <1>0, <1>1, Zenon DEF InOrder, NewestKept
<1> QED
  BY <1>5, <1>6, <1>10, <1>11, <1>12, <1>13, <1>14, <1>15, <1>16, Zenon DEF IInv
=============================================================================
