--------------------------- MODULE ManifestProofs ---------------------------
(***************************************************************************)
(* The manifest keeps its invariant, and with it every safety property of  *)
(* module Manifest, for any number of tables, memtables and levels and any *)
(* condition of the rewrite.                                               *)
(***************************************************************************)
EXTENDS Manifest, FiniteSetTheorems, TLAPS

-----------------------------------------------------------------------------
\* Induction, over the elements of a set.

\* A set of numbers has a least one.
LEMMA LeastOf ==
  ASSUME NEW S, S \subseteq Nat, S # {}
  PROVE  \E x \in S : \A y \in S : x <= y
<1>1. PICK x \in S : \A y \in S : ~(<<y, x>> \in OpToRel(<, Nat))
  BY NatLessThanWellFounded, WFMin, Zenon
<1>2. ASSUME NEW y \in S PROVE x <= y
  <2>1. x \in Nat /\ y \in Nat
    BY Zenon
  <2>2. y < x => <<y, x>> \in OpToRel(<, Nat)
    BY <2>1, Zenon DEF OpToRel
  <2>3. ~(y < x)
    BY <1>1, <2>2, Zenon
  <2> QED
    BY <2>1, <2>3
<1> QED
  BY <1>2, Zenon

\* A set with zero and, up to N, the successor of each of its numbers has them all.
LEMMA Climbs ==
  ASSUME NEW N \in Nat, NEW S, 0 \in S, \A n \in 1 .. N : n - 1 \in S => n \in S
  PROVE  \A n \in 0 .. N : n \in S
<1> DEFINE out == {n \in 0 .. N : n \notin S}
<1>1. SUFFICES ASSUME out # {} PROVE FALSE
  BY Zenon
<1>2. PICK m \in out : \A y \in out : m <= y
  <2>1. out \subseteq Nat
    OBVIOUS
  <2> QED
    BY <1>1, <2>1, LeastOf, Zenon
<1>3. m \in 1 .. N /\ m - 1 \in 0 .. N /\ m - 1 \notin out
  BY <1>2
<1> QED
  BY <1>2, <1>3, Zenon

\* A set of numbers with a bound has a greatest one, which Max is.
LEMMA GreatestOf ==
  ASSUME NEW S, S \subseteq Nat, S # {}, NEW n \in Nat, \A x \in S : x <= n
  PROVE  Max(S) \in S /\ \A y \in S : y <= Max(S)
<1> DEFINE T == {n - x : x \in S}
<1>1. T \subseteq Nat /\ T # {}
  <2>1. \A x \in S : n - x \in Nat
    OBVIOUS
  <2> QED
    BY <2>1, Zenon
<1>2. PICK m \in T : \A y \in T : m <= y
  BY <1>1, LeastOf, Zenon
<1>3. PICK x \in S : m = n - x
  BY <1>2, Zenon
<1>4. \A y \in S : x >= y
  <2>1. SUFFICES ASSUME NEW y \in S PROVE x >= y
    BY Zenon
  <2>2. n - y \in T
    BY Zenon
  <2>3. n - x <= n - y
    BY <1>2, <1>3, <2>2, Zenon
  <2> QED
    BY <2>3
<1>5. Max(S) \in S /\ \A y \in S : Max(S) >= y
  BY <1>4, Zenon DEF Max
<1> QED
  BY <1>5, Zenon

-----------------------------------------------------------------------------
\* Change sets.

\* Applying a change set is applying its changes one after the other.
Unfolds(f, i, set) ==
  /\ f[0] = i /\ f[Len(set)] = ApplyChangeSet(i, set)
  /\ \A n \in 1 .. Len(set) : f[n] = ApplyChange(f[n - 1], set[n])

LEMMA SetUnfolds ==
  ASSUME NEW i, NEW set, Len(set) \in Nat
  PROVE  \E f : Unfolds(f, i, set)
<1> DEFINE N == Len(set)
           Rec(f, m) == f = [n \in 0 .. m |->
                               IF n = 0 THEN i ELSE ApplyChange(f[n - 1], set[n])]
           S == {m \in 0 .. N : \E f : Rec(f, m)}
<1>1. 0 \in S
  <2> DEFINE g == [n \in 0 .. 0 |-> i]
  <2>1. Rec(g, 0)
    OBVIOUS
  <2>2. 0 \in 0 .. N
    OBVIOUS
  <2> QED
    BY <2>1, <2>2, Zenon
<1>2. ASSUME NEW m \in 1 .. N, m - 1 \in S PROVE m \in S
  <2>1. PICK f : Rec(f, m - 1)
    BY <1>2, Zenon
  <2> DEFINE g == [n \in 0 .. m |->
                     IF n = m THEN ApplyChange(f[m - 1], set[m]) ELSE f[n]]
  <2>2. \A n \in 0 .. m : g[n] = IF n = 0 THEN i ELSE ApplyChange(g[n - 1], set[n])
    <3>1. \A n \in 0 .. m - 1 : g[n] = f[n]
      OBVIOUS
    <3>2. \A n \in 0 .. m - 1 : f[n] = IF n = 0 THEN i ELSE ApplyChange(f[n - 1], set[n])
      BY <2>1, Zenon
    <3>3. g[m] = ApplyChange(g[m - 1], set[m])
      BY <3>1
    <3>4. \A n \in 1 .. m - 1 : g[n - 1] = f[n - 1]
      BY <3>1
    <3> HIDE DEF g
    <3> QED
      BY <3>1, <3>2, <3>3, <3>4
  <2>3. Rec(g, m)
    BY <2>2, Zenon
  <2>4. m \in 0 .. N
    OBVIOUS
  <2> QED
    BY <2>3, <2>4, Zenon
<1>3. N \in S
  <2> HIDE DEF S
  <2>1. \A n \in 0 .. N : n \in S
    BY <1>1, <1>2, Climbs, Zenon
  <2> QED
    BY <2>1
<1> DEFINE F == CHOOSE f : Rec(f, N)
<1>4. Rec(F, N)
  BY <1>3, Zenon
<1>5. ApplyChangeSet(i, set) = F[N]
  BY Zenon DEF ApplyChangeSet
<1> HIDE DEF F
<1>6. F[0] = i /\ \A n \in 1 .. N : F[n] = ApplyChange(F[n - 1], set[n])
  BY <1>4
<1>7. Unfolds(F, i, set)
  BY <1>5, <1>6, Zenon DEF Unfolds
<1> QED
  BY <1>7, Zenon

\* Replaying a manifest is applying its change sets one after the other.
LEMMA ReplayUnfolds ==
  ASSUME NEW sets, Len(sets) \in Nat
  PROVE  \E f : /\ f[0] = EmptyInfo /\ f[Len(sets)] = Replay(sets)
                /\ \A n \in 1 .. Len(sets) : f[n] = ApplyChangeSet(f[n - 1], sets[n])
<1> DEFINE N == Len(sets)
           Rec(f, m) == f = [n \in 0 .. m |->
                               IF n = 0 THEN EmptyInfo ELSE ApplyChangeSet(f[n - 1], sets[n])]
           S == {m \in 0 .. N : \E f : Rec(f, m)}
<1>1. 0 \in S
  <2> DEFINE g == [n \in 0 .. 0 |-> EmptyInfo]
  <2>1. Rec(g, 0)
    OBVIOUS
  <2>2. 0 \in 0 .. N
    OBVIOUS
  <2> QED
    BY <2>1, <2>2, Zenon
<1>2. ASSUME NEW m \in 1 .. N, m - 1 \in S PROVE m \in S
  <2>1. PICK f : Rec(f, m - 1)
    BY <1>2, Zenon
  <2> DEFINE g == [n \in 0 .. m |->
                     IF n = m THEN ApplyChangeSet(f[m - 1], sets[m]) ELSE f[n]]
  <2>2. \A n \in 0 .. m : g[n] = IF n = 0 THEN EmptyInfo ELSE ApplyChangeSet(g[n - 1], sets[n])
    <3>1. \A n \in 0 .. m - 1 : g[n] = f[n]
      OBVIOUS
    <3>2. \A n \in 0 .. m - 1 : f[n] = IF n = 0 THEN EmptyInfo ELSE ApplyChangeSet(f[n - 1], sets[n])
      BY <2>1, Zenon
    <3>3. g[m] = ApplyChangeSet(g[m - 1], sets[m])
      BY <3>1
    <3>4. \A n \in 1 .. m - 1 : g[n - 1] = f[n - 1]
      BY <3>1
    <3> HIDE DEF g
    <3> QED
      BY <3>1, <3>2, <3>3, <3>4
  <2>3. Rec(g, m)
    BY <2>2, Zenon
  <2>4. m \in 0 .. N
    OBVIOUS
  <2> QED
    BY <2>3, <2>4, Zenon
<1>3. N \in S
  <2> HIDE DEF S
  <2>1. \A n \in 0 .. N : n \in S
    BY <1>1, <1>2, Climbs, Zenon
  <2> QED
    BY <2>1
<1> DEFINE F == CHOOSE f : Rec(f, N)
<1>4. Rec(F, N)
  BY <1>3, Zenon
<1>5. Replay(sets) = F[N]
  BY Zenon DEF Replay
<1> HIDE DEF F
<1>6. F[0] = EmptyInfo /\ \A n \in 1 .. N : F[n] = ApplyChangeSet(F[n - 1], sets[n])
  BY <1>4
<1> QED
  BY <1>5, <1>6, Zenon

-----------------------------------------------------------------------------
\* One change.

\* What a member of Tables is.
LEMMA TablesAre ==
  ASSUME NEW t \in Tables
  PROVE  /\ DOMAIN t \subseteq Id /\ t = [id \in DOMAIN t |-> t[id]]
         /\ \A id \in DOMAIN t : t[id] \in Level
<1>1. PICK ids \in SUBSET Id : t \in [ids -> Level]
  BY Zenon DEF Tables
<1> QED
  BY <1>1, Zenon

LEMMA InTables ==
  ASSUME NEW ids \in SUBSET Id, NEW t \in [ids -> Level]
  PROVE  t \in Tables /\ DOMAIN t = ids
<1>1. t \in Tables
  BY Zenon DEF Tables
<1> QED
  BY <1>1, Zenon

\* apply_manifest_change of a creation: the table is there afterwards, counted
\* unless its level was missing, or it was there before and nothing changes.
LEMMA CreateIs ==
  ASSUME NEW i \in Info, NEW c \in Change, c.op = "create", i.status = "ok"
  PROVE  LET r == ApplyChange(i, c)
             ids == DOMAIN i.tables
         IN /\ r \in Info /\ r.deletions = i.deletions
            /\ c.id \in ids => /\ r.tables = i.tables /\ r.creations = i.creations
                               /\ r.status = "error"
            /\ c.id \notin ids =>
                 /\ DOMAIN r.tables = ids \cup {c.id}
                 /\ \A id \in ids : r.tables[id] = i.tables[id]
                 /\ r.tables[c.id] = c.level
                 /\ \/ r.status = "ok" /\ r.creations = i.creations + 1
                    \/ r.status = "panic" /\ r.creations = i.creations
<1> DEFINE r == ApplyChange(i, c)
           ids == DOMAIN i.tables
           t == [id \in ids \cup {c.id} |-> IF id = c.id THEN c.level ELSE i.tables[id]]
           l == LevelsFor(i.levels, c.level)
<1>1. c.id \in Id /\ c.level \in Level /\ i.tables \in Tables
  BY Zenon DEF Change, Info
<1>2. ids \subseteq Id /\ \A id \in ids : i.tables[id] \in Level
  BY <1>1, TablesAre, Zenon
<1>3. t \in Tables
  <2>1. ids \cup {c.id} \in SUBSET Id /\ t \in [ids \cup {c.id} -> Level]
    BY <1>1, <1>2, Zenon
  <2> QED
    BY <2>1, InTables, Zenon
<1>8. /\ DOMAIN t = ids \cup {c.id} /\ t[c.id] = c.level
      /\ \A id \in ids \ {c.id} : t[id] = i.tables[id]
  BY Zenon
<1>4. l \in 0 .. MaxLevel + 1
  BY <1>1, ManifestAssumption DEF LevelsFor, Level, Info
<1> HIDE DEF t, l
<1>5. r = ApplyCreate(i, c)
  BY Zenon DEF ApplyChange
<1>6. CASE c.id \in ids
  <2>1. r = [i EXCEPT !.status = "error"]
    BY <1>5, <1>6, Zenon DEF ApplyCreate
  <2> QED
    BY <1>6, <2>1, Zenon DEF Info
<1>7. CASE c.id \notin ids
  <2>1. r = IF c.level < l
            THEN [i EXCEPT !.tables = t, !.levels = l, !.creations = i.creations + 1]
            ELSE [i EXCEPT !.tables = t, !.levels = l, !.status = "panic"]
    BY <1>5, <1>7, Zenon DEF ApplyCreate, t, l
  <2>2. /\ r \in Info /\ r.tables = t /\ r.deletions = i.deletions
        /\ \/ r.status = "ok" /\ r.creations = i.creations + 1
           \/ r.status = "panic" /\ r.creations = i.creations
    <3> HIDE DEF r
    <3>1. i.creations \in Nat /\ i.creations + 1 \in Nat
      BY DEF Info
    <3>2. CASE c.level < l
      <4>1. r = [i EXCEPT !.tables = t, !.levels = l, !.creations = i.creations + 1]
        BY <2>1, <3>2, Zenon
      <4> QED
        BY <3>1, <4>1, <1>3, <1>4, Zenon DEF Info
    <3>3. CASE ~(c.level < l)
      <4>1. r = [i EXCEPT !.tables = t, !.levels = l, !.status = "panic"]
        BY <2>1, <3>3, Zenon
      <4> QED
        BY <3>1, <4>1, <1>3, <1>4, Zenon DEF Info
    <3> QED
      BY <3>2, <3>3, Zenon
  <2> QED
    BY <1>7, <1>8, <2>2, Zenon
<1> QED
  BY <1>6, <1>7, Zenon

\* apply_manifest_change of a deletion: the table is gone and counted, or it was
\* not there and nothing changes.
LEMMA DeleteIs ==
  ASSUME NEW i \in Info, NEW c \in Change, c.op = "delete", i.status = "ok"
  PROVE  LET r == ApplyChange(i, c)
             ids == DOMAIN i.tables
         IN /\ r \in Info /\ r.creations = i.creations
            /\ c.id \notin ids => /\ r.tables = i.tables /\ r.deletions = i.deletions
                                  /\ r.status = "error"
            /\ c.id \in ids =>
                 /\ DOMAIN r.tables = ids \ {c.id}
                 /\ \A id \in ids \ {c.id} : r.tables[id] = i.tables[id]
                 /\ r.status = "ok" /\ r.deletions = i.deletions + 1
<1> DEFINE r == ApplyChange(i, c)
           ids == DOMAIN i.tables
           t == [id \in ids \ {c.id} |-> i.tables[id]]
<1>1. i.tables \in Tables
  BY Zenon DEF Info
<1>2. ids \subseteq Id /\ \A id \in ids : i.tables[id] \in Level
  BY <1>1, TablesAre, Zenon
<1>3. t \in Tables
  <2>1. ids \ {c.id} \in SUBSET Id /\ t \in [ids \ {c.id} -> Level]
    BY <1>2, Zenon
  <2> QED
    BY <2>1, InTables, Zenon
<1>4. r = ApplyDelete(i, c)
  BY Zenon DEF ApplyChange
<1>5. CASE c.id \notin ids
  <2>1. r = [i EXCEPT !.status = "error"]
    BY <1>4, <1>5, Zenon DEF ApplyDelete
  <2> QED
    BY <1>5, <2>1, Zenon DEF Info
<1>6. CASE c.id \in ids
  <2>1. r = [i EXCEPT !.tables = t, !.deletions = i.deletions + 1]
    BY <1>4, <1>6, Zenon DEF ApplyDelete
  <2>2. /\ r \in Info /\ r.tables = t /\ r.creations = i.creations
        /\ r.status = "ok" /\ r.deletions = i.deletions + 1
    <3> HIDE DEF r, t
    <3>1. i.deletions \in Nat /\ i.deletions + 1 \in Nat
      BY DEF Info
    <3> QED
      BY <2>1, <1>3, <3>1, Zenon DEF Info
  <2> QED
    BY <1>6, <2>2, Zenon
<1> QED
  BY <1>5, <1>6, Zenon

-----------------------------------------------------------------------------
\* Change sets and manifests.

\* Table ids are finitely many.
LEMMA IdsFinite ==
  ASSUME NEW S \in SUBSET Id
  PROVE  IsFiniteSet(S) /\ Cardinality(S) \in Nat
<1>1. IsFiniteSet(Id)
  BY FS_Interval, ManifestAssumption DEF Id
<1>2. IsFiniteSet(S)
  BY <1>1, FS_Subset, Zenon
<1> QED
  BY <1>2, FS_CardinalityType, Zenon

\* The counters of i differ by the number of its tables but for u of them, and for
\* the one a panic leaves uncounted.
Balanced(i, u) ==
  i.creations - i.deletions
    = Cardinality(DOMAIN i.tables) - u - (IF i.status = "panic" THEN 1 ELSE 0)

LEMMA ChangeBalanced ==
  ASSUME NEW i \in Info, NEW c \in Change, NEW u \in Int, Balanced(i, u)
  PROVE  ApplyChange(i, c) \in Info /\ Balanced(ApplyChange(i, c), u)
<1> DEFINE r == ApplyChange(i, c)
           ids == DOMAIN i.tables
<1>1. CASE i.status # "ok"
  <2>1. r = i
    BY <1>1, Zenon DEF ApplyChange
  <2> QED
    BY <2>1, Zenon
<1>2. /\ i.creations \in Nat /\ i.deletions \in Nat /\ i.tables \in Tables
      /\ c.op = "create" \/ c.op = "delete"
  BY Zenon DEF Info, Change
<1>3. IsFiniteSet(ids) /\ Cardinality(ids) \in Nat
  BY <1>2, TablesAre, IdsFinite, Zenon
<1>4. CASE i.status = "ok" /\ c.op = "create"
  <2>1. /\ r \in Info /\ r.deletions = i.deletions
        /\ c.id \in ids => /\ r.tables = i.tables /\ r.creations = i.creations
                           /\ r.status = "error"
        /\ c.id \notin ids =>
             /\ DOMAIN r.tables = ids \cup {c.id}
             /\ \/ r.status = "ok" /\ r.creations = i.creations + 1
                \/ r.status = "panic" /\ r.creations = i.creations
    BY <1>4, CreateIs, Zenon
  <2>2. c.id \notin ids => Cardinality(ids \cup {c.id}) = Cardinality(ids) + 1
    BY <1>3, FS_AddElement, Zenon
  <2> SUFFICES r \in Info /\ Balanced(r, u)
    BY Zenon
  <2> HIDE DEF r
  <2>3. i.creations - i.deletions = Cardinality(ids) - u
    BY <1>2, <1>3, <1>4 DEF Balanced
  <2>4. CASE c.id \in ids
    <3>1. r.tables = i.tables /\ r.creations = i.creations /\ r.status = "error"
      BY <2>1, <2>4, Zenon
    <3> QED
      BY <1>2, <1>3, <2>1, <2>3, <3>1 DEF Balanced
  <2>5. CASE c.id \notin ids
    <3> DEFINE n == Cardinality(DOMAIN r.tables)
    <3>1. n = Cardinality(ids) + 1
      BY <2>1, <2>2, <2>5, Zenon
    <3> HIDE DEF n
    <3>2. r.creations - r.deletions = n - u - (IF r.status = "panic" THEN 1 ELSE 0)
      BY <1>2, <1>3, <2>1, <2>3, <2>5, <3>1
    <3> QED
      BY <2>1, <3>2, Zenon DEF n, Balanced
  <2> QED
    BY <2>4, <2>5, Zenon
<1>5. CASE i.status = "ok" /\ c.op = "delete"
  <2>1. /\ r \in Info /\ r.creations = i.creations
        /\ c.id \notin ids => /\ r.tables = i.tables /\ r.deletions = i.deletions
                              /\ r.status = "error"
        /\ c.id \in ids =>
             /\ DOMAIN r.tables = ids \ {c.id}
             /\ r.status = "ok" /\ r.deletions = i.deletions + 1
    BY <1>5, DeleteIs, Zenon
  <2>2. c.id \in ids => Cardinality(ids \ {c.id}) = Cardinality(ids) - 1
    BY <1>3, FS_RemoveElement, Zenon
  <2> SUFFICES r \in Info /\ Balanced(r, u)
    BY Zenon
  <2> HIDE DEF r
  <2>3. i.creations - i.deletions = Cardinality(ids) - u
    BY <1>2, <1>3, <1>5 DEF Balanced
  <2>4. CASE c.id \notin ids
    <3>1. r.tables = i.tables /\ r.deletions = i.deletions /\ r.status = "error"
      BY <2>1, <2>4, Zenon
    <3> QED
      BY <1>2, <1>3, <2>1, <2>3, <3>1 DEF Balanced
  <2>5. CASE c.id \in ids
    <3> DEFINE n == Cardinality(DOMAIN r.tables)
    <3>1. n = Cardinality(ids) - 1
      BY <2>1, <2>2, <2>5, Zenon
    <3> HIDE DEF n
    <3>2. r.creations - r.deletions = n - u - (IF r.status = "panic" THEN 1 ELSE 0)
      BY <1>2, <1>3, <2>1, <2>3, <2>5, <3>1
    <3> QED
      BY <2>1, <3>2, Zenon DEF n, Balanced
  <2> QED
    BY <2>4, <2>5, Zenon
<1> QED
  BY <1>1, <1>2, <1>4, <1>5, Zenon

LEMMA ChangeType ==
  ASSUME NEW i \in Info, NEW c \in Change
  PROVE  ApplyChange(i, c) \in Info
<1>1. c.op = "create" \/ c.op = "delete"
  BY Zenon DEF Change
<1>2. CASE i.status = "ok"
  BY <1>1, <1>2, CreateIs, DeleteIs, Zenon
<1> QED
  BY <1>2, Zenon DEF ApplyChange

\* A change set keeps the types and the balance, and does nothing once it failed.
LEMMA SetKeeps ==
  ASSUME NEW i \in Info, NEW set \in Seq(Change)
  PROVE  /\ ApplyChangeSet(i, set) \in Info
         /\ i.status # "ok" => ApplyChangeSet(i, set) = i
         /\ \A u \in Int : Balanced(i, u) => Balanced(ApplyChangeSet(i, set), u)
<1> DEFINE N == Len(set)
<1>1. N \in Nat /\ \A n \in 1 .. N : set[n] \in Change
  OBVIOUS
<1>2. PICK f : /\ f[0] = i /\ f[N] = ApplyChangeSet(i, set)
               /\ \A n \in 1 .. N : f[n] = ApplyChange(f[n - 1], set[n])
  <2>1. PICK f : Unfolds(f, i, set)
    BY <1>1, SetUnfolds, Zenon
  <2> QED
    BY <2>1, Zenon DEF Unfolds
<1> DEFINE S == {n \in Nat : /\ f[n] \in Info /\ (i.status # "ok" => f[n] = i)
                             /\ \A u \in Int : Balanced(i, u) => Balanced(f[n], u)}
<1>3. 0 \in S
  BY <1>2, Zenon
<1>4. ASSUME NEW n \in 1 .. N, n - 1 \in S PROVE n \in S
  <2>1. f[n] = ApplyChange(f[n - 1], set[n]) /\ set[n] \in Change /\ n \in Nat
    BY <1>1, <1>2
  <2>2. f[n - 1] \in Info /\ f[n] \in Info
    BY <1>4, <2>1, ChangeType, Zenon
  <2>3. i.status # "ok" => f[n] = i
    BY <1>4, <2>1, Zenon DEF ApplyChange
  <2>4. ASSUME NEW u \in Int, Balanced(i, u) PROVE Balanced(f[n], u)
    BY <1>4, <2>1, <2>2, <2>4, ChangeBalanced, Zenon
  <2> QED
    BY <2>1, <2>2, <2>3, <2>4, Zenon
<1>5. N \in S
  <2> HIDE DEF S
  <2>1. \A n \in 0 .. N : n \in S
    BY <1>1, <1>3, <1>4, Climbs, Zenon
  <2> QED
    BY <1>1, <2>1
<1> QED
  BY <1>2, <1>5, Zenon

\* The manifest of a new database has one empty change set.
LEMMA EmptyInfoIs ==
  /\ EmptyInfo \in Info /\ DOMAIN EmptyInfo.tables = {} /\ EmptyInfo.status = "ok"
  /\ EmptyInfo.tables \in Tables /\ Balanced(EmptyInfo, 0)
<1> DEFINE t == [id \in {} |-> 0]
<1>1. t \in Tables /\ DOMAIN t = {}
  <2>1. {} \in SUBSET Id /\ t \in [{} -> Level]
    BY Zenon
  <2> QED
    BY <2>1, InTables, Zenon
<1>2. /\ EmptyInfo.tables = t /\ EmptyInfo.status = "ok"
      /\ EmptyInfo.creations = 0 /\ EmptyInfo.deletions = 0
  BY Zenon DEF EmptyInfo
<1>3. 0 \in 0 .. MaxLevel + 1 /\ 0 \in Nat
  BY ManifestAssumption
<1> HIDE DEF t
<1>4. EmptyInfo \in Info
  <2>1. EmptyInfo = [tables |-> t, levels |-> 0, creations |-> 0, deletions |-> 0,
                     status |-> "ok"]
    BY Zenon DEF EmptyInfo, t
  <2> QED
    BY <1>1, <1>3, <2>1, Zenon DEF Info
<1>5. Balanced(EmptyInfo, 0)
  <2>1. Cardinality(DOMAIN EmptyInfo.tables) = 0
    BY <1>1, <1>2, FS_EmptySet, Zenon
  <2> QED
    BY <1>2, <2>1 DEF Balanced
<1> QED
  BY <1>1, <1>2, <1>4, <1>5, Zenon

\* What a manifest says is well formed, and its counters agree.
LEMMA ReplayKeeps ==
  ASSUME NEW sets \in Seq(Seq(Change))
  PROVE  Replay(sets) \in Info /\ Balanced(Replay(sets), 0)
<1> DEFINE N == Len(sets)
<1>1. N \in Nat /\ \A n \in 1 .. N : sets[n] \in Seq(Change)
  OBVIOUS
<1>2. PICK f : /\ f[0] = EmptyInfo /\ f[N] = Replay(sets)
               /\ \A n \in 1 .. N : f[n] = ApplyChangeSet(f[n - 1], sets[n])
  BY <1>1, ReplayUnfolds, Zenon
<1> DEFINE S == {n \in Nat : f[n] \in Info /\ Balanced(f[n], 0)}
<1>3. 0 \in S
  BY <1>2, EmptyInfoIs, Zenon
<1>4. ASSUME NEW n \in 1 .. N, n - 1 \in S PROVE n \in S
  <2>1. /\ f[n] = ApplyChangeSet(f[n - 1], sets[n]) /\ sets[n] \in Seq(Change)
        /\ n \in Nat /\ 0 \in Int
    BY <1>1, <1>2
  <2> QED
    BY <1>4, <2>1, SetKeeps, Zenon
<1>5. N \in S
  <2> HIDE DEF S
  <2>1. \A n \in 0 .. N : n \in S
    BY <1>1, <1>3, <1>4, Climbs, Zenon
  <2> QED
    BY <1>1, <2>1
<1> QED
  BY <1>2, <1>5, Zenon

\* A change set that is appended is applied last.
LEMMA ReplayAppend ==
  ASSUME NEW sets \in Seq(Seq(Change)), NEW set \in Seq(Change)
  PROVE  Replay(Append(sets, set)) = ApplyChangeSet(Replay(sets), set)
<1> DEFINE N == Len(sets)
           more == Append(sets, set)
<1>1. /\ N \in Nat /\ Len(more) = N + 1 /\ more[N + 1] = set
      /\ \A n \in 1 .. N : more[n] = sets[n]
  OBVIOUS
<1> HIDE DEF more
<1>2. PICK f : /\ f[0] = EmptyInfo /\ f[N] = Replay(sets)
               /\ \A n \in 1 .. N : f[n] = ApplyChangeSet(f[n - 1], sets[n])
  BY <1>1, ReplayUnfolds, Zenon
<1>3. PICK g : /\ g[0] = EmptyInfo /\ g[N + 1] = Replay(more)
               /\ \A n \in 1 .. N + 1 : g[n] = ApplyChangeSet(g[n - 1], more[n])
  <2>1. Len(more) \in Nat
    BY <1>1
  <2>2. PICK g : /\ g[0] = EmptyInfo /\ g[Len(more)] = Replay(more)
                 /\ \A n \in 1 .. Len(more) : g[n] = ApplyChangeSet(g[n - 1], more[n])
    BY <2>1, ReplayUnfolds, Zenon
  <2> QED
    BY <1>1, <2>2, Zenon
<1> DEFINE S == {n \in Nat : g[n] = f[n]}
<1>4. 0 \in S
  BY <1>2, <1>3, Zenon
<1>5. ASSUME NEW n \in 1 .. N, n - 1 \in S PROVE n \in S
  <2>1. f[n] = ApplyChangeSet(f[n - 1], sets[n]) /\ g[n] = ApplyChangeSet(g[n - 1], more[n])
    BY <1>1, <1>2, <1>3
  <2>2. n \in Nat /\ more[n] = sets[n]
    BY <1>1
  <2> QED
    BY <1>5, <2>1, <2>2, Zenon
<1>6. N \in S
  <2> HIDE DEF S
  <2>1. \A n \in 0 .. N : n \in S
    BY <1>1, <1>4, <1>5, Climbs, Zenon
  <2> QED
    BY <1>1, <2>1
<1>7. g[N + 1] = ApplyChangeSet(g[N], set)
  BY <1>1, <1>3
<1> QED
  BY <1>2, <1>3, <1>6, <1>7, Zenon DEF more

\* A manifest with one change set.
LEMMA ReplayOne ==
  ASSUME NEW set \in Seq(Change)
  PROVE  Replay(<<set>>) = ApplyChangeSet(EmptyInfo, set)
<1>1. /\ <<>> \in Seq(Seq(Change)) /\ Append(<<>>, set) = <<set>>
      /\ Len(<<>>) = 0
  OBVIOUS
<1>2. Replay(<<>>) = EmptyInfo
  BY <1>1, ReplayUnfolds, Zenon
<1> QED
  BY <1>1, <1>2, ReplayAppend, Zenon

LEMMA EmptySetKeeps ==
  ASSUME NEW i
  PROVE  ApplyChangeSet(i, <<>>) = i
<1>1. Len(<<>>) = 0 /\ Len(<<>>) \in Nat
  OBVIOUS
<1>2. PICK f : Unfolds(f, i, <<>>)
  BY <1>1, SetUnfolds, Zenon
<1> QED
  BY <1>1, <1>2, Zenon DEF Unfolds

\* Nothing is in the tables that was not there and was not created.
LEMMA SetSources ==
  ASSUME NEW i \in Info, NEW set \in Seq(Change),
         NEW id \in DOMAIN ApplyChangeSet(i, set).tables
  PROVE  LET t == ApplyChangeSet(i, set).tables
         IN \/ id \in DOMAIN i.tables /\ t[id] = i.tables[id]
            \/ \E k \in 1 .. Len(set) : /\ set[k].op = "create" /\ set[k].id = id
                                        /\ set[k].level = t[id]
<1> DEFINE N == Len(set)
           Old(n, f) == id \in DOMAIN i.tables /\ f[n].tables[id] = i.tables[id]
           New(n, f) == \E k \in 1 .. N : /\ set[k].op = "create" /\ set[k].id = id
                                          /\ set[k].level = f[n].tables[id]
<1>1. N \in Nat /\ \A n \in 1 .. N : set[n] \in Change
  OBVIOUS
<1>2. PICK f : /\ f[0] = i /\ f[N] = ApplyChangeSet(i, set)
               /\ \A n \in 1 .. N : f[n] = ApplyChange(f[n - 1], set[n])
  <2>1. PICK f : Unfolds(f, i, set)
    BY <1>1, SetUnfolds, Zenon
  <2> QED
    BY <2>1, Zenon DEF Unfolds
<1> DEFINE S == {n \in Nat : /\ f[n] \in Info
                             /\ id \in DOMAIN f[n].tables => Old(n, f) \/ New(n, f)}
<1>3. 0 \in S
  BY <1>2, Zenon
<1>4. ASSUME NEW n \in 1 .. N, n - 1 \in S PROVE n \in S
  <2> DEFINE c == set[n]
             b == f[n - 1]
             r == f[n]
  <2>1. r = ApplyChange(b, c) /\ c \in Change /\ n \in Nat /\ n - 1 \in Nat
    BY <1>1, <1>2
  <2>2. b \in Info /\ r \in Info
    BY <1>4, <2>1, ChangeType, Zenon
  <2>3. id \in DOMAIN r.tables =>
          \/ id \in DOMAIN b.tables /\ r.tables[id] = b.tables[id]
          \/ c.op = "create" /\ c.id = id /\ c.level = r.tables[id]
    <3>1. c.op = "create" \/ c.op = "delete"
      BY <2>1, Zenon DEF Change
    <3>2. CASE b.status # "ok"
      BY <2>1, <3>2, Zenon DEF ApplyChange
    <3>3. CASE b.status = "ok" /\ c.op = "create"
      <4> HIDE DEF c, b, r
      <4>1. /\ c.id \in DOMAIN b.tables => r.tables = b.tables
            /\ c.id \notin DOMAIN b.tables =>
                 /\ DOMAIN r.tables = DOMAIN b.tables \cup {c.id}
                 /\ \A x \in DOMAIN b.tables : r.tables[x] = b.tables[x]
                 /\ r.tables[c.id] = c.level
        BY <2>1, <2>2, <3>3, CreateIs, Zenon
      <4> QED
        BY <3>3, <4>1, Zenon
    <3>4. CASE b.status = "ok" /\ c.op = "delete"
      <4> HIDE DEF c, b, r
      <4>1. /\ c.id \notin DOMAIN b.tables => r.tables = b.tables
            /\ c.id \in DOMAIN b.tables =>
                 /\ DOMAIN r.tables = DOMAIN b.tables \ {c.id}
                 /\ \A x \in DOMAIN b.tables \ {c.id} : r.tables[x] = b.tables[x]
        BY <2>1, <2>2, <3>4, DeleteIs, Zenon
      <4> QED
        BY <3>4, <4>1, Zenon
    <3> QED
      BY <3>1, <3>2, <3>3, <3>4, Zenon
  <2>4. id \in DOMAIN b.tables => Old(n - 1, f) \/ New(n - 1, f)
    BY <1>4, Zenon
  <2>5. id \in DOMAIN r.tables => Old(n, f) \/ New(n, f)
    BY <2>3, <2>4, Zenon
  <2> QED
    BY <2>1, <2>2, <2>5, Zenon
<1>5. N \in S
  <2> HIDE DEF S
  <2>1. \A n \in 0 .. N : n \in S
    BY <1>1, <1>3, <1>4, Climbs, Zenon
  <2> QED
    BY <1>1, <2>1
<1> QED
  BY <1>2, <1>5, Zenon

\* An enumeration without repetition of a finite set has all of it.
LEMMA Enumerates ==
  ASSUME NEW S, IsFiniteSet(S), NEW q \in [1 .. Cardinality(S) -> S], IsInjective(q)
  PROVE  \A x \in S : \E k \in 1 .. Cardinality(S) : q[k] = x
<1> DEFINE D == 1 .. Cardinality(S)
<1>1. Cardinality(S) \in Nat
  BY FS_CardinalityType, Zenon
<1>2. Cardinality(D) = Cardinality(S)
  BY <1>1, FS_Interval
<1>3. q \in Injection(D, S)
  BY Zenon DEF Injection
<1>4. q \in Surjection(D, S)
  BY <1>2, <1>3, FS_Injection, Zenon
<1> QED
  BY <1>4, Zenon DEF Surjection

\* Listed is one.
LEMMA ListedIs ==
  ASSUME NEW S, IsFiniteSet(S)
  PROVE  /\ Listed(S) \in [1 .. Cardinality(S) -> S]
         /\ \A a, b \in 1 .. Cardinality(S) : a # b => Listed(S)[a] # Listed(S)[b]
         /\ \A x \in S : \E k \in 1 .. Cardinality(S) : Listed(S)[k] = x
<1> DEFINE D == 1 .. Cardinality(S)
<1>1. PICK f : f \in Bijection(D, S)
  BY FS_CardinalityType, Zenon DEF ExistsBijection
<1>2. Listed(S) \in Bijection(D, S)
  BY <1>1, Zenon DEF Listed, Orders
<1>3. Listed(S) \in [D -> S] /\ IsInjective(Listed(S))
  BY <1>2, Zenon DEF Bijection, Injection
<1>4. DOMAIN Listed(S) = D
  BY <1>3, Zenon
<1>5. \A x \in S : \E k \in D : Listed(S)[k] = x
  BY <1>3, Enumerates, Zenon
<1> QED
  BY <1>3, <1>4, <1>5, Zenon DEF IsInjective

\* The change set of a job creates its table, then deletes those it replaces.
LEMMA ChangesAre ==
  ASSUME NEW j \in Job
  PROVE  /\ Changes(j) \in Seq(Change) /\ Cardinality(j.del) \in Nat
         /\ Len(Changes(j)) = Cardinality(j.del) + 1
         /\ Changes(j)[1] = Create(j.id, j.level)
         /\ \A k \in 1 .. Cardinality(j.del) :
              Changes(j)[k + 1] = Delete(Listed(j.del)[k])
<1> DEFINE m == Cardinality(j.del)
           q == Listed(j.del)
           deletes == [k \in 1 .. m |-> Delete(q[k])]
           create == <<Create(j.id, j.level)>>
<1>1. j.id \in Id /\ j.level \in Level /\ j.del \in SUBSET Id
  BY Zenon DEF Job
<1>2. m \in Nat /\ q \in [1 .. m -> j.del]
  BY <1>1, IdsFinite, ListedIs, Zenon
<1> HIDE DEF m, q
<1>3. Create(j.id, j.level) \in Change
  BY <1>1, Zenon DEF Create, Change
<1>4. \A k \in 1 .. m : Delete(q[k]) \in Change
  BY <1>1, <1>2, Zenon DEF Delete, Change
<1>5. deletes \in Seq(Change) /\ Len(deletes) = m /\ create \in Seq(Change)
  BY <1>2, <1>3, <1>4
<1>6. Changes(j) = create \o deletes
  BY Zenon DEF Changes, m, q
<1>7. \A k \in 1 .. m : deletes[k] = Delete(q[k])
  BY Zenon
<1>8. Len(create) = 1 /\ create[1] = Create(j.id, j.level)
  BY Zenon
<1> HIDE DEF deletes, create
<1>9. /\ Changes(j) \in Seq(Change) /\ Len(Changes(j)) = m + 1
      /\ Changes(j)[1] = Create(j.id, j.level)
      /\ \A k \in 1 .. m : Changes(j)[k + 1] = Delete(q[k])
  <2> DEFINE c == create \o deletes
  <2>1. /\ c \in Seq(Change) /\ Len(c) = Len(create) + Len(deletes)
        /\ \A k \in 1 .. Len(create) + Len(deletes) :
             c[k] = IF k <= Len(create) THEN create[k] ELSE deletes[k - Len(create)]
    BY <1>5
  <2> HIDE DEF c
  <2>2. Len(c) = m + 1
    BY <1>2, <1>5, <1>8, <2>1
  <2>3. c[1] = create[1]
    BY <1>2, <1>5, <1>8, <2>1
  <2>4. ASSUME NEW k \in 1 .. m PROVE c[k + 1] = deletes[k]
    <3>1. k + 1 \in 1 .. 1 + m /\ ~(k + 1 <= 1) /\ (k + 1) - 1 = k
      BY <1>2
    <3> QED
      BY <1>5, <1>8, <2>1, <3>1, Zenon
  <2>5. Changes(j) = c
    BY <1>6, Zenon DEF c
  <2> QED
    BY <1>7, <1>8, <2>1, <2>2, <2>3, <2>4, <2>5, Zenon
<1> QED
  BY <1>2, <1>9, Zenon DEF m, q

\* A job whose table is new and whose old tables are there is applied, as a whole
\* or, if the new table's level is missing, up to the panic.
LEMMA JobApplied ==
  ASSUME NEW i \in Info, NEW j \in Job, i.status = "ok",
         j.id \notin DOMAIN i.tables, j.del \subseteq DOMAIN i.tables
  PROVE  LET r == ApplyChangeSet(i, Changes(j))
         IN \/ /\ r.status = "ok"
               /\ DOMAIN r.tables = (DOMAIN i.tables \cup {j.id}) \ j.del
            \/ /\ r.status = "panic"
               /\ DOMAIN r.tables = DOMAIN i.tables \cup {j.id}
<1> DEFINE set == Changes(j)
           m == Cardinality(j.del)
           q == Listed(j.del)
           all == DOMAIN i.tables \cup {j.id}
<1>1. j.id \in Id /\ j.level \in Level /\ j.del \in SUBSET Id /\ IsFiniteSet(j.del)
  <2>1. j.id \in Id /\ j.level \in Level /\ j.del \in SUBSET Id
    BY Zenon DEF Job
  <2> QED
    BY <2>1, IdsFinite, Zenon
<1>2. /\ q \in [1 .. m -> j.del]
      /\ \A a, b \in 1 .. m : a # b => q[a] # q[b]
      /\ \A x \in j.del : \E k \in 1 .. m : q[k] = x
  BY <1>1, ListedIs, Zenon
<1>3. /\ set \in Seq(Change) /\ m \in Nat /\ Len(set) = m + 1
      /\ set[1] = Create(j.id, j.level)
      /\ \A k \in 1 .. m : set[k + 1] = Delete(q[k])
  BY ChangesAre, Zenon
<1> HIDE DEF set, m, q
<1>4. PICK f : /\ f[0] = i /\ f[m + 1] = ApplyChangeSet(i, set)
               /\ \A n \in 1 .. m + 1 : f[n] = ApplyChange(f[n - 1], set[n])
  <2>1. Len(set) \in Nat
    BY <1>3
  <2>2. PICK f : Unfolds(f, i, set)
    BY <2>1, SetUnfolds, Zenon
  <2> QED
    BY <1>3, <2>2, Zenon DEF Unfolds
<1>5. /\ f[1] \in Info /\ DOMAIN f[1].tables = all
      /\ f[1].status = "ok" \/ f[1].status = "panic"
  <2>1. f[1] = ApplyChange(i, set[1]) /\ set[1] \in Change
    BY <1>3, <1>4
  <2>2. set[1].op = "create" /\ set[1].id = j.id
    BY <1>3 DEF Create
  <2> DEFINE c == set[1]
             r == f[1]
  <2>3. c.id \notin DOMAIN i.tables
    BY <2>2, Zenon
  <2> HIDE DEF c, r
  <2>4. r = ApplyChange(i, c) /\ c \in Change /\ c.op = "create" /\ c.id = j.id
    BY <2>1, <2>2, Zenon DEF c, r
  <2>5. /\ r \in Info
        /\ r.status = "ok" \/ r.status = "panic"
        /\ DOMAIN r.tables = DOMAIN i.tables \cup {c.id}
    BY <2>3, <2>4, CreateIs, Zenon
  <2> QED
    BY <2>4, <2>5, Zenon DEF r
<1> DEFINE del(n) == {q[k] : k \in 1 .. n}
           S == {n \in Nat : /\ f[n + 1] \in Info /\ f[n + 1].status = f[1].status
                             /\ f[1].status = "ok" =>
                                  DOMAIN f[n + 1].tables = all \ del(n)
                             /\ f[1].status # "ok" => f[n + 1] = f[1]}
<1>6. 0 \in S
  <2>1. del(0) = {}
    OBVIOUS
  <2> QED
    BY <1>5, <2>1
<1>7. ASSUME NEW n \in 1 .. m, n - 1 \in S PROVE n \in S
  <2> DEFINE b == f[n]
             r == f[n + 1]
             c == set[n + 1]
  <2>1. n \in Nat /\ (n - 1) + 1 = n /\ n + 1 \in 1 .. m + 1 /\ (n + 1) - 1 = n
    BY <1>3
  <2>2. /\ r = ApplyChange(b, c) /\ c \in Change
        /\ c.op = "delete" /\ c.id = q[n]
    <3>1. r = ApplyChange(b, c) /\ c = Delete(q[n])
      BY <1>3, <1>4, <2>1, Zenon
    <3>2. c \in Change
      BY <1>3, <2>1
    <3> HIDE DEF r, b, c
    <3> QED
      BY <3>1, <3>2, Zenon DEF Delete
  <2>3. /\ b \in Info /\ b.status = f[1].status
        /\ f[1].status = "ok" => DOMAIN b.tables = all \ del(n - 1)
        /\ f[1].status # "ok" => b = f[1]
    BY <1>7, <2>1, Zenon
  <2> HIDE DEF b, r, c
  <2>4. CASE f[1].status # "ok"
    <3>1. r = b
      BY <2>2, <2>3, <2>4, Zenon DEF ApplyChange
    <3> QED
      BY <2>1, <2>3, <2>4, <3>1, Zenon DEF r
  <2>5. CASE f[1].status = "ok"
    <3>1. q[n] \in all \ del(n - 1)
      <4>1. n \in 1 .. m /\ \A k \in 1 .. n - 1 : k \in 1 .. m /\ k # n
        BY <1>3, <2>1
      <4>2. q[n] \in j.del /\ \A k \in 1 .. n - 1 : q[k] # q[n]
        BY <1>2, <4>1, Zenon
      <4> QED
        BY <4>2, Zenon
    <3>2. del(n) = del(n - 1) \cup {q[n]}
      BY <1>3, <2>1
    <3>3. /\ r \in Info /\ DOMAIN r.tables = DOMAIN b.tables \ {q[n]}
          /\ r.status = "ok"
      <4>1. b.status = "ok" /\ c.id \in DOMAIN b.tables
        BY <2>2, <2>3, <2>5, <3>1, Zenon
      <4> HIDE DEF del, all
      <4> QED
        BY <2>2, <2>3, <4>1, DeleteIs, Zenon
    <3> SUFFICES n \in S
      BY Zenon
    <3> HIDE DEF del, all
    <3>4. DOMAIN r.tables = all \ del(n)
      BY <2>3, <2>5, <3>2, <3>3, Zenon
    <3> QED
      BY <2>1, <2>5, <3>3, <3>4, Zenon DEF r
  <2> QED
    BY <2>4, <2>5, Zenon
<1>8. m \in S
  <2> HIDE DEF S
  <2>1. \A n \in 0 .. m : n \in S
    BY <1>3, <1>6, <1>7, Climbs, Zenon
  <2> QED
    BY <1>3, <2>1
<1>9. del(m) = j.del
  BY <1>2
<1> HIDE DEF del
<1> QED
  BY <1>4, <1>5, <1>8, <1>9, Zenon DEF set

\* What is in the tables after a job was in them before or is the job's.
LEMMA JobSources ==
  ASSUME NEW i \in Info, NEW j \in Job,
         NEW id \in DOMAIN ApplyChangeSet(i, Changes(j)).tables
  PROVE  LET t == ApplyChangeSet(i, Changes(j)).tables
         IN \/ id \in DOMAIN i.tables /\ t[id] = i.tables[id]
            \/ id = j.id /\ t[id] = j.level
<1> DEFINE set == Changes(j)
           m == Cardinality(j.del)
           t == ApplyChangeSet(i, set).tables
<1>1. /\ set \in Seq(Change) /\ m \in Nat /\ Len(set) = m + 1
      /\ set[1] = Create(j.id, j.level)
      /\ \A k \in 1 .. m : set[k + 1] = Delete(Listed(j.del)[k])
  BY ChangesAre, Zenon
<1>2. \/ id \in DOMAIN i.tables /\ t[id] = i.tables[id]
      \/ \E k \in 1 .. Len(set) : /\ set[k].op = "create" /\ set[k].id = id
                                  /\ set[k].level = t[id]
  BY <1>1, SetSources
<1> HIDE DEF set, m, t
<1>3. ASSUME NEW k \in 1 .. Len(set), set[k].op = "create" PROVE k = 1
  <2>1. SUFFICES ASSUME k # 1 PROVE FALSE
    BY Zenon
  <2>2. k - 1 \in 1 .. m /\ (k - 1) + 1 = k
    BY <1>1, <2>1
  <2>3. set[k] = Delete(Listed(j.del)[k - 1])
    BY <1>1, <2>2, Zenon
  <2> QED
    BY <1>3, <2>3 DEF Delete
<1>4. set[1].id = j.id /\ set[1].level = j.level
  BY <1>1 DEF Create
<1> QED
  BY <1>2, <1>3, <1>4, Zenon DEF t, set

\* The change set of a rewrite replays to the tables it was made of, or up to a
\* panic: help_rewrite does not order the tables by level.
LEMMA RewriteApplied ==
  ASSUME NEW tables \in Tables, NEW set \in AsChanges(tables)
  PROVE  LET r == ApplyChangeSet(EmptyInfo, set)
         IN /\ set \in Seq(Change) /\ r.status # "error"
            /\ r.status = "ok" => DOMAIN r.tables = DOMAIN tables
            /\ \A id \in DOMAIN r.tables :
                 id \in DOMAIN tables /\ r.tables[id] = tables[id]
<1> DEFINE ids == DOMAIN tables
           m == Cardinality(ids)
<1>1. /\ ids \in SUBSET Id /\ \A id \in ids : tables[id] \in Level
      /\ IsFiniteSet(ids) /\ m \in Nat
  BY TablesAre, IdsFinite, Zenon
<1> HIDE DEF ids, m
<1>2. PICK q \in Orders(ids) : set = [k \in DOMAIN q |-> Create(q[k], tables[q[k]])]
  BY Zenon DEF AsChanges, ids
<1>3. /\ q \in [1 .. m -> ids] /\ DOMAIN q = 1 .. m
      /\ \A a, b \in 1 .. m : a # b => q[a] # q[b]
  <2>1. q \in [1 .. m -> ids] /\ IsInjective(q)
    BY <1>2, Zenon DEF Orders, Bijection, Injection, m
  <2>2. DOMAIN q = 1 .. m
    BY <2>1, Zenon
  <2> QED
    BY <2>1, <2>2, Zenon DEF IsInjective
<1>4. \A x \in ids : \E k \in 1 .. m : q[k] = x
  <2>1. IsInjective(q)
    BY <1>3, Zenon DEF IsInjective
  <2> QED
    BY <1>1, <1>3, <2>1, Enumerates, Zenon DEF m
<1>5. \A k \in 1 .. m : /\ Create(q[k], tables[q[k]]) \in Change
                        /\ Create(q[k], tables[q[k]]).op = "create"
                        /\ Create(q[k], tables[q[k]]).id = q[k]
                        /\ Create(q[k], tables[q[k]]).level = tables[q[k]]
  BY <1>1, <1>3, Zenon DEF Create, Change
<1>6. \A k \in 1 .. m : set[k] = Create(q[k], tables[q[k]])
  BY <1>2, <1>3, Zenon
<1>7. set \in Seq(Change) /\ Len(set) = m
  BY <1>1, <1>2, <1>3, <1>5
<1>8. \A k \in 1 .. m : /\ set[k] \in Change /\ set[k].op = "create"
                        /\ set[k].id = q[k] /\ set[k].level = tables[q[k]]
  BY <1>5, <1>6, Zenon
<1>9. PICK f : /\ f[0] = EmptyInfo /\ f[m] = ApplyChangeSet(EmptyInfo, set)
               /\ \A n \in 1 .. m : f[n] = ApplyChange(f[n - 1], set[n])
  <2>1. Len(set) \in Nat
    BY <1>1, <1>7, Zenon
  <2>2. PICK f : Unfolds(f, EmptyInfo, set)
    BY <2>1, SetUnfolds, Zenon
  <2> QED
    BY <1>7, <2>2, Zenon DEF Unfolds
<1> DEFINE first(n) == {q[k] : k \in 1 .. n}
           S == {n \in Nat : /\ f[n] \in Info /\ f[n].status # "error"
                             /\ f[n].status = "ok" => DOMAIN f[n].tables = first(n)}
<1>10. 0 \in S
  <2>1. first(0) = {}
    OBVIOUS
  <2>2. f[0].status # "error"
    BY <1>9, EmptyInfoIs, Zenon
  <2> QED
    BY <1>9, <2>1, <2>2, EmptyInfoIs, Zenon
<1>11. ASSUME NEW n \in 1 .. m, n - 1 \in S PROVE n \in S
  <2> DEFINE b == f[n - 1]
             r == f[n]
             c == set[n]
  <2>1. n \in Nat
    BY <1>1
  <2>2. /\ r = ApplyChange(b, c) /\ c \in Change /\ c.op = "create" /\ c.id = q[n]
        /\ b \in Info /\ b.status # "error"
        /\ b.status = "ok" => DOMAIN b.tables = first(n - 1)
    BY <1>8, <1>9, <1>11, Zenon
  <2>3. q[n] \notin first(n - 1)
    BY <1>1, <1>3
  <2>4. first(n) = first(n - 1) \cup {q[n]}
    BY <1>1
  <2> SUFFICES n \in S
    BY Zenon
  <2> HIDE DEF b, r, c, first
  <2>5. CASE b.status = "ok"
    <3>1. c.id \notin DOMAIN b.tables
      BY <2>2, <2>3, <2>5, Zenon
    <3>2. /\ r \in Info /\ DOMAIN r.tables = DOMAIN b.tables \cup {c.id}
          /\ r.status = "ok" \/ r.status = "panic"
      BY <2>2, <2>5, <3>1, CreateIs, Zenon
    <3>3. DOMAIN r.tables = first(n) /\ r.status # "error"
      <4>1. r.status # "error"
        BY <3>2, Zenon
      <4> QED
        BY <2>2, <2>4, <2>5, <3>2, <4>1, Zenon
    <3> QED
      BY <2>1, <3>2, <3>3, Zenon DEF r
  <2>6. CASE b.status # "ok"
    <3>1. r = b
      BY <2>2, <2>6, Zenon DEF ApplyChange
    <3> QED
      BY <2>1, <2>2, <2>6, <3>1, Zenon DEF r
  <2> QED
    BY <2>5, <2>6, Zenon
<1>12. m \in S
  <2> HIDE DEF S
  <2>1. \A n \in 0 .. m : n \in S
    BY <1>1, <1>10, <1>11, Climbs, Zenon
  <2> QED
    BY <1>1, <2>1
<1>13. first(m) = ids
  BY <1>3, <1>4
<1>14. ASSUME NEW id \in DOMAIN ApplyChangeSet(EmptyInfo, set).tables
       PROVE  id \in ids /\ ApplyChangeSet(EmptyInfo, set).tables[id] = tables[id]
  <2> DEFINE t == ApplyChangeSet(EmptyInfo, set).tables
  <2>1. PICK k \in 1 .. m : /\ set[k].op = "create" /\ set[k].id = id
                            /\ set[k].level = t[id]
    <3>1. \/ id \in DOMAIN EmptyInfo.tables /\ t[id] = EmptyInfo.tables[id]
          \/ \E k \in 1 .. Len(set) : /\ set[k].op = "create" /\ set[k].id = id
                                      /\ set[k].level = t[id]
      BY <1>7, EmptyInfoIs, SetSources
    <3> QED
      BY <1>7, <3>1, EmptyInfoIs, Zenon
  <2>2. q[k] \in ids
    BY <1>3, Zenon
  <2> QED
    BY <1>8, <2>1, <2>2, Zenon
<1> HIDE DEF first
<1> QED
  BY <1>7, <1>9, <1>12, <1>13, <1>14, Zenon DEF ids

-----------------------------------------------------------------------------
\* What most steps leave alone: the ids handed out and their files, and what was
\* acknowledged.
Calm ==
  /\ Up /\ Up' /\ next_file_id \in Int /\ next_file_id' \in Int
  /\ next_file_id <= next_file_id'
  /\ \A id \in Used : content'[id] = content[id]
  /\ named \subseteq named' /\ UNCHANGED acks

LEMMA UsedCalm ==
  ASSUME Calm
  PROVE  \A id \in Used : id \in Used'
<1>1. \A a, b \in Int : a <= b => \A id \in 1 .. a - 1 : id \in 1 .. b - 1
  OBVIOUS
<1> QED
  BY <1>1, Zenon DEF Calm, Used

LEMMA CoversCalm ==
  ASSUME Calm, NEW ids, ids \subseteq Used, Covers(ids)
  PROVE  Covers(ids)'
<1>1. UNCHANGED <<flushed, lost, gone>>
  BY Zenon DEF Calm, acks
<1>2. UNION {content'[id] : id \in ids} = UNION {content[id] : id \in ids}
  BY Zenon DEF Calm
<1> QED
  BY <1>1, <1>2, Zenon DEF Covers

LEMMA FilesCalm ==
  ASSUME Calm, NEW t, DOMAIN t \subseteq Used, HasFiles(t)
  PROVE  HasFiles(t)'
BY Zenon DEF Calm, HasFiles, Files

LEMMA GoodCalm ==
  ASSUME Calm, NEW i, DOMAIN i.tables \subseteq Used, Good(i)
  PROVE  Good(i)'
BY CoversCalm, Zenon DEF Good

\* A file survives as a whole, if nothing is taken away.
LEMMA WholeSurvives ==
  ASSUME NEW f \in ManifestFile, f.synced \in 1 .. Len(f.file)
  PROVE  f.file \in Survivors(f)
<1>1. f.file \in Seq(Seq(Change))
  BY Zenon DEF ManifestFile
<1>2. SubSeq(f.file, 1, Len(f.file)) = f.file /\ Len(f.file) \in f.synced .. Len(f.file)
  BY <1>1
<1> QED
  BY <1>2, Zenon DEF Survivors

LEMMA SurvivorsAre ==
  ASSUME NEW f \in ManifestFile, f.synced \in 1 .. Len(f.file), NEW s \in Survivors(f)
  PROVE  s \in Seq(Seq(Change))
<1>1. f.file \in Seq(Seq(Change))
  BY Zenon DEF ManifestFile
<1>2. PICK n \in f.synced .. Len(f.file) : s = SubSeq(f.file, 1, n)
  BY Zenon DEF Survivors
<1> QED
  BY <1>1, <1>2

Current == [file |-> file, tail |-> tail, synced |-> synced]

\* What the types say of the file in use.
LEMMA CurrentIs ==
  ASSUME Typed
  PROVE  /\ Current \in ManifestFile /\ Current \in Manifests
         /\ Current.file = file /\ Current.tail = tail /\ Current.synced = synced
         /\ file \in Seq(Seq(Change)) /\ synced \in 1 .. Len(file)
         /\ file \in Survivors(Current)
<1>1. Current.file = file /\ Current.tail = tail /\ Current.synced = synced
  BY Zenon DEF Current
<1>2. Current \in Manifests
  BY Zenon DEF Manifests, Current
<1>3. Current \in ManifestFile /\ Current.synced \in 1 .. Len(Current.file)
  BY <1>2, Zenon DEF Typed
<1>4. file \in Seq(Seq(Change))
  BY <1>1, <1>3, Zenon DEF ManifestFile
<1> QED
  BY <1>1, <1>2, <1>3, <1>4, WholeSurvives, Zenon

\* What a crash may leave is as before, if the files are.
LEMMA OutcomesCalm ==
  ASSUME Typed, AfterCrash, Calm, UNCHANGED <<file, synced, olds>>,
         tail' = "none" => tail = "none", attached' => attached,
         pc' = "reopen" => pc = "reopen"
  PROVE  AfterCrash'
<1>1. Up
  BY Zenon DEF Calm
<1>2. ASSUME NEW f \in Manifests'
      PROVE  \E g \in Manifests : /\ Survivors(g) = Survivors(f)
                                  /\ f.tail = "none" => g.tail = "none"
  <2>1. CASE f \in olds
    BY <2>1, Zenon DEF Manifests
  <2>2. CASE f = Current'
    <3>1. f.file = file /\ f.synced = synced /\ f.tail = tail'
      BY <2>2, Zenon DEF Current
    <3>2. Survivors(Current) = Survivors(f)
      BY <3>1, CurrentIs, Zenon DEF Survivors
    <3> QED
      BY <3>1, <3>2, CurrentIs, Zenon
  <2> QED
    BY <2>1, <2>2, Zenon DEF Manifests, Current
<1>3. ASSUME NEW f \in Manifests', NEW s \in Survivors(f)
      PROVE  /\ DOMAIN Replay(s).tables \subseteq Used'
             /\ HasFiles(Replay(s).tables)'
             /\ attached' /\ f.tail = "none" => Good(Replay(s))'
  <2>1. /\ DOMAIN Replay(s).tables \subseteq Used /\ HasFiles(Replay(s).tables)
        /\ attached /\ f.tail = "none" => Good(Replay(s))
    BY <1>1, <1>2, <1>3, Zenon DEF AfterCrash
  <2> QED
    BY <2>1, UsedCalm, FilesCalm, GoodCalm, Zenon
<1>4. ASSUME pc' = "reopen" PROVE Good(Replay(file))'
  <2>1. PICK i : i = Replay(file)
    BY Zenon
  <2>2. Good(i) /\ i = Replay(file)'
    BY <1>1, <1>4, <2>1, Zenon DEF AfterCrash
  <2>3. DOMAIN i.tables \subseteq Used
    BY <1>1, <2>1, CurrentIs, Zenon DEF AfterCrash
  <2>4. Good(i)'
    BY <2>2, <2>3, GoodCalm, Zenon
  <2> QED
    BY <2>2, <2>4, Zenon DEF Good, Covers
<1> QED
  BY <1>3, <1>4, Zenon DEF AfterCrash

-----------------------------------------------------------------------------
\* Building tables.

\* A new table keeps the invariant if it holds what it is to replace, and its file
\* and directory entry are there.
LEMMA BuildInv ==
  ASSUME IInv, NEW j \in Job, NEW mts \in SUBSET (1 .. MaxFlush), Build(j, mts),
         mts # {}, j.del \subseteq DOMAIN live \ claimed, claimed' = claimed \cup j.del,
         named \subseteq named', named' \subseteq Files', j.level > 0 => j.id \in named',
         IsFlush(j) => mts = {flushed + 1} /\ \A k \in jobs \cup job : ~IsFlush(k),
         \A id \in j.del : content[id] \subseteq mts
  PROVE  IInv'
<1>1. /\ Up /\ j.id = next_file_id /\ next_file_id' = next_file_id + 1
      /\ jobs' = jobs \cup {j} /\ content' = [content EXCEPT ![j.id] = mts]
      /\ UNCHANGED <<info, uncounted, live, job, pc, file, tail, synced, olds, rewritten,
                     attached, flushed, lost, gone>>
  BY Zenon DEF Build, disk, acks
<1>2. /\ next_file_id \in 1 .. MaxId + 1 /\ next_file_id <= MaxId
      /\ content \in [Id -> SUBSET (1 .. MaxFlush)] /\ MaxId \in Nat
  BY ManifestAssumption, Zenon DEF IInv, Typed, TypeOK, Build
<1>3. /\ j.id \in Id /\ j.id \notin Used /\ j.id \in Used'
      /\ \A id \in Used : id \in Used' /\ id \in Id /\ content'[id] = content[id]
      /\ content'[j.id] = mts
  BY <1>1, <1>2 DEF Used, Id
<1>4. Up' /\ Calm
  BY <1>1, <1>2, <1>3 DEF Up, Calm, acks
<1>5. IdsUsed'
  <2>1. j.id \notin DOMAIN live \cup gone \cup uncounted
    BY <1>1, <1>3, Zenon DEF IInv, IdsUsed, CountersAgree
  <2> QED
    BY <1>1, <1>3, <2>1, Zenon DEF IInv, IdsUsed
<1>6. Jobs'
  <2>1. Built(j)'
    <3>1. content'[j.id] # {} /\ (j.level > 0 => j.id \in named')
      BY <1>3, Zenon
    <3>2. IsFlush(j) => content'[j.id] = {flushed' + 1}
      BY <1>1, <1>3, Zenon
    <3>3. j.del \subseteq claimed' \cap DOMAIN live'
      BY <1>1, Zenon
    <3>4. \A id \in j.del : content'[id] \subseteq content'[j.id]
      BY <1>1, <1>3, Zenon DEF IInv, IdsUsed
    <3> QED
      BY <3>1, <3>2, <3>3, <3>4, Zenon DEF Built
  <2>2. ASSUME NEW k \in jobs \cup job PROVE Built(k)' /\ k.id # j.id /\ j.del \cap k.del = {}
    <3>1. Built(k) /\ k.id \in Used /\ DOMAIN live \subseteq Used
      BY <1>1, <2>2, Zenon DEF IInv, Jobs, IdsUsed
    <3>2. k.del \subseteq claimed /\ k.del \subseteq Used
      BY <3>1, Zenon DEF Built
    <3> QED
      BY <1>1, <1>3, <3>1, <3>2, Zenon DEF Built
  <2>3. \A k, l \in jobs \cup job : k # l => /\ k.id # l.id /\ k.del \cap l.del = {}
                                             /\ ~(IsFlush(k) /\ IsFlush(l))
    BY Zenon DEF IInv, Jobs
  <2>4. jobs' \cup job' = (jobs \cup job) \cup {j}
    BY <1>1, Zenon
  <2>5. ASSUME NEW k \in jobs \cup job
        PROVE  k.del \cap j.del = {} /\ ~(IsFlush(k) /\ IsFlush(j))
    BY <2>2, Zenon
  <2> QED
    BY <2>1, <2>2, <2>3, <2>4, <2>5, Zenon DEF Jobs
<1>7. InMemory'
  <2> DEFINE ids == DOMAIN info.tables
  <2>1. Ready(ids, jobs) /\ Applied(ids) /\ Covers(ids) /\ HasFiles(info.tables)
        /\ ids \subseteq Used
    BY <1>1, Zenon DEF IInv, InMemory, IdsUsed
  <2>2. Ready(ids, jobs)'
    BY <1>1, <1>3, <2>1, Zenon DEF Ready
  <2>3. Covers(ids)' /\ HasFiles(info.tables)'
    <3>1. PICK t : t = info.tables
      BY Zenon
    <3>2. Covers(DOMAIN t)' /\ HasFiles(t)'
      BY <1>4, <2>1, <3>1, CoversCalm, FilesCalm, Zenon
    <3> QED
      BY <1>1, <3>1, <3>2, Zenon DEF Covers, HasFiles
  <2>4. Applied(ids)'
    BY <1>1, <2>1, Zenon DEF Applied
  <2> QED
    BY <2>2, <2>3, <2>4, Zenon DEF InMemory
<1>8. InFile'
  <2> DEFINE i == Replay(file)
             js == IF pc = "append" THEN jobs \cup job ELSE jobs
  <2>1. DOMAIN i.tables \subseteq Used /\ i' = i
    BY <1>1, CurrentIs, Zenon DEF IInv, AfterCrash
  <2>2. ASSUME pc = "reopen" \/ (attached /\ tail = "none"), i.status = "ok"
        PROVE  /\ Ready(DOMAIN i.tables, js)'
               /\ pc \in {"reopen", "sync"} => Applied(DOMAIN i.tables)'
    <3>1. /\ Ready(DOMAIN i.tables, js)
          /\ pc \in {"reopen", "sync"} => Applied(DOMAIN i.tables)
      BY <1>1, <2>2, Zenon DEF IInv, InFile
    <3>2. js' = js \cup {j}
      BY <1>1, Zenon
    <3> HIDE DEF i, js
    <3>3. Ready(DOMAIN i.tables, js)'
      BY <1>1, <1>3, <2>1, <3>1, <3>2, Zenon DEF Ready
    <3> QED
      BY <1>1, <2>1, <3>1, <3>3, Zenon DEF Applied
  <2> QED
    BY <1>1, <2>1, <2>2, Zenon DEF InFile
<1>9. AfterCrash'
  BY <1>1, <1>4, OutcomesCalm, Zenon DEF IInv
<1>10. Typed'
  <2>1. next_file_id' \in 1 .. MaxId + 1
    BY <1>1, <1>2
  <2>2. content' \in [Id -> SUBSET (1 .. MaxFlush)]
    BY <1>1, <1>2, <1>3, Zenon
  <2>3. \A id \in Id : content'[id] \subseteq 1 .. MaxFlush
    BY <2>2, Zenon
  <2>4. jobs' \subseteq Job /\ claimed' \subseteq Id
    BY <1>1, Zenon DEF IInv, Typed, TypeOK
  <2>5. TypeOK'
    BY <1>1, <2>1, <2>3, <2>4, Zenon DEF IInv, Typed, TypeOK
  <2>6. Manifests' = Manifests
    BY <1>1, Zenon DEF Manifests
  <2> QED
    BY <1>1, <2>2, <2>5, <2>6, Zenon DEF IInv, Typed
<1>11. OnePush' /\ CountersAgree'
  BY <1>1, Zenon DEF IInv, OnePush, CountersAgree
<1>12. Closed'
  BY <1>4, Zenon DEF Closed
<1> QED
  BY <1>5, <1>6, <1>7, <1>8, <1>9, <1>10, <1>11, <1>12, Zenon DEF IInv

LEMMA BuildFlushInv == IInv /\ BuildFlush => IInv'
<1> SUFFICES ASSUME IInv, BuildFlush PROVE IInv'
  BY Zenon
<1> DEFINE j == [id |-> next_file_id, level |-> 0, del |-> {}]
           mts == {flushed + 1}
<1>1. /\ flushed < MaxFlush /\ Build(j, mts) /\ UNCHANGED <<claimed, named>>
      /\ \A k \in jobs \cup job : ~IsFlush(k)
  BY Zenon DEF BuildFlush
<1>2. flushed \in 0 .. MaxFlush /\ next_file_id \in 1 .. MaxId + 1 /\ named \subseteq Files
  BY Zenon DEF IInv, Typed, TypeOK
<1>3. /\ next_file_id <= MaxId /\ content' = [content EXCEPT ![j.id] = mts]
      /\ content \in [Id -> SUBSET (1 .. MaxFlush)]
  BY <1>1, Zenon DEF Build, IInv, Typed
<1>4. j \in Job /\ j.del = {} /\ j.level = 0
  BY <1>2, <1>3, ManifestAssumption DEF Job, Id, Level
<1>5. mts \in SUBSET (1 .. MaxFlush) /\ mts # {}
  BY <1>1, <1>2, ManifestAssumption
<1>6. named' \subseteq Files'
  BY <1>1, <1>2, <1>3, <1>5, Zenon DEF Files
<1>7. ~(j.level > 0)
  BY <1>4
<1> HIDE DEF j, mts
<1>8. IsFlush(j) => mts = {flushed + 1} /\ \A k \in jobs \cup job : ~IsFlush(k)
  BY <1>1, Zenon DEF mts
<1>9. /\ j.del \subseteq DOMAIN live \ claimed /\ claimed' = claimed \cup j.del
      /\ named \subseteq named' /\ \A id \in j.del : content[id] \subseteq mts
  BY <1>1, <1>4, Zenon
<1> QED
  BY <1>1, <1>4, <1>5, <1>6, <1>7, <1>8, <1>9, BuildInv, Zenon

LEMMA BuildCompactInv == IInv /\ BuildCompact => IInv'
<1> SUFFICES ASSUME IInv, BuildCompact PROVE IInv'
  BY Zenon
<1>1. PICK p \in Plans :
        LET del == p.top \cup p.bottom
        IN /\ Build([id |-> next_file_id, level |-> p.next, del |-> del],
                    UNION {content[id] : id \in del})
           /\ claimed' = claimed \cup del
           /\ named' = {id \in Id : content'[id] # {}}
  BY Zenon DEF BuildCompact
<1> DEFINE del == p.top \cup p.bottom
           j == [id |-> next_file_id, level |-> p.next, del |-> del]
           mts == UNION {content[id] : id \in del}
<1>2. /\ p.next \in Level /\ del \subseteq DOMAIN live \ claimed /\ del # {}
  BY Zenon DEF Plans
<1>3. /\ next_file_id \in 1 .. MaxId + 1 /\ named \subseteq Files /\ MaxId \in Nat
      /\ content \in [Id -> SUBSET (1 .. MaxFlush)] /\ DOMAIN live \subseteq Id
  BY ManifestAssumption, Zenon DEF IInv, Typed, TypeOK
<1>4. /\ Up /\ next_file_id <= MaxId /\ content' = [content EXCEPT ![j.id] = mts]
      /\ Build(j, mts)
  BY <1>1, Zenon DEF Build
<1>5. del \subseteq Files
  BY <1>2, <1>4, Zenon DEF IInv, InMemory, Ready, HasFiles
<1>6. /\ j \in Job /\ j.del = del /\ j.id = next_file_id
  BY <1>2, <1>3, <1>4 DEF Job, Id
<1> HIDE DEF del
<1>7. /\ mts \in SUBSET (1 .. MaxFlush) /\ mts # {}
      /\ \A id \in del : content[id] \subseteq mts
  BY <1>2, <1>3, <1>5 DEF Files
<1> HIDE DEF j, mts
<1>8. /\ named' = Files' /\ claimed' = claimed \cup j.del
  BY <1>1, <1>6, Zenon DEF Files, del
<1>9. Files \subseteq Files' /\ j.id \in Files'
  BY <1>3, <1>4, <1>6, <1>7, Zenon DEF Files, Job
<1>10. ~IsFlush(j)
  BY <1>2, <1>6, Zenon DEF IsFlush
<1> QED
  BY <1>2, <1>3, <1>4, <1>6, <1>7, <1>8, <1>9, <1>10, BuildInv, Zenon

\* What holds of memory still does, when push_changes goes on or fails without
\* touching the tables.
LEMMA MemoryKept ==
  ASSUME IInv, Up, Up', info'.tables = info.tables, uncounted' \subseteq uncounted,
         UNCHANGED <<live, claimed, next_file_id, jobs, content, acks>>,
         named \subseteq named', job' \subseteq job
  PROVE  Calm /\ IdsUsed' /\ Jobs' /\ InMemory'
<1>1. UNCHANGED <<flushed, lost, gone>>
  BY Zenon DEF acks
<1>2. Calm
  <2>1. next_file_id \in Int /\ next_file_id' \in Int /\ next_file_id <= next_file_id'
    BY ManifestAssumption DEF IInv, Typed, TypeOK
  <2> QED
    BY <2>1, Zenon DEF Calm
<1>3. IdsUsed'
  BY <1>1, Zenon DEF IInv, IdsUsed, Used
<1>4. Jobs'
  <2>1. \A j \in jobs \cup job : Built(j) => Built(j)'
    BY <1>1, Zenon DEF Built
  <2> QED
    BY <2>1, Zenon DEF IInv, Jobs
<1>5. InMemory'
  <2>1. PICK t : t = info.tables
    BY Zenon
  <2>2. /\ Ready(DOMAIN t, jobs) /\ Applied(DOMAIN t) /\ Covers(DOMAIN t) /\ HasFiles(t)
        /\ DOMAIN t \subseteq Used
    BY <2>1, Zenon DEF IInv, InMemory, IdsUsed
  <2>3. Covers(DOMAIN t)' /\ HasFiles(t)'
    BY <1>2, <2>2, CoversCalm, FilesCalm, Zenon
  <2>4. Ready(DOMAIN t, jobs)' /\ Applied(DOMAIN t)'
    BY <2>2, Zenon DEF Ready, Applied
  <2> QED
    BY <2>1, <2>3, <2>4, Zenon DEF InMemory, Ready, Applied, Covers, HasFiles
<1> QED
  BY <1>2, <1>3, <1>4, <1>5, Zenon

\* What the file says, too.
LEMMA FileKept ==
  ASSUME InFile, Up, UNCHANGED <<live, claimed, jobs, file>>, job' \subseteq job,
         pc' = "reopen" \/ (attached' /\ tail' = "none")
           => pc = "reopen" \/ (attached /\ tail = "none"),
         pc' = "append" => pc = "append",
         pc' \in {"reopen", "sync"} => pc \in {"reopen", "sync"} \/ job' = {}
  PROVE  InFile'
<1> DEFINE i == Replay(file)
<1>1. i' = i
  BY Zenon
<1>2. ASSUME pc' = "reopen" \/ (attached' /\ tail' = "none"), i.status = "ok"
      PROVE  /\ Ready(DOMAIN i.tables, IF pc = "append" THEN jobs \cup job ELSE jobs)'
             /\ pc' \in {"reopen", "sync"} => Applied(DOMAIN i.tables)'
  <2>1. /\ Ready(DOMAIN i.tables, IF pc = "append" THEN jobs \cup job ELSE jobs)
        /\ pc \in {"reopen", "sync"} => Applied(DOMAIN i.tables)
    BY <1>2, Zenon DEF InFile
  <2> HIDE DEF i
  <2> QED
    BY <1>1, <2>1, Zenon DEF Ready, Applied
<1> QED
  BY <1>1, <1>2, Zenon DEF InFile

LEMMA SyncDirInv == IInv /\ SyncDir => IInv'
<1> SUFFICES ASSUME IInv, SyncDir PROVE IInv'
  BY Zenon
<1>1. /\ Up /\ named' = Files
      /\ UNCHANGED <<info, uncounted, live, claimed, next_file_id, jobs, content, job, pc,
                     file, tail, synced, olds, rewritten, attached, acks>>
  BY Zenon DEF SyncDir, memory, disk
<1>2. Up' /\ named \subseteq named' /\ Files' = Files /\ Manifests' = Manifests
  BY <1>1, Zenon DEF Up, IInv, Typed, TypeOK, Files, Manifests
<1>3. Calm /\ IdsUsed' /\ Jobs' /\ InMemory'
  BY <1>1, <1>2, MemoryKept, Zenon
<1>4. AfterCrash'
  BY <1>1, <1>3, OutcomesCalm, Zenon DEF IInv
<1>5. InFile'
  BY <1>1, FileKept, Zenon DEF IInv
<1>6. Typed'
  BY <1>1, <1>2, Zenon DEF IInv, Typed, TypeOK, acks
<1>7. OnePush' /\ CountersAgree' /\ Closed'
  BY <1>1, <1>2, Zenon DEF IInv, OnePush, CountersAgree, Closed
<1> QED
  BY <1>3, <1>4, <1>5, <1>6, <1>7, Zenon DEF IInv

\* The file of a table that is built is there.
LEMMA BuiltFiles ==
  ASSUME IInv, NEW j \in jobs \cup job
  PROVE  j.id \in Files /\ (j.level > 0 => j.id \in named)
<1>1. j \in Job /\ Built(j)
  BY Zenon DEF IInv, Typed, TypeOK, Jobs
<1>2. j.id \in Id
  BY <1>1, Zenon DEF Job
<1> QED
  BY <1>1, <1>2, Zenon DEF Built, Files

-----------------------------------------------------------------------------
\* push_changes, in memory.

LEMMA PushInv == IInv /\ Push => IInv'
<1> SUFFICES ASSUME IInv, Push PROVE IInv'
  BY Zenon
<1> DEFINE App(k) == ApplyChangeSet(info, Changes(k))
<1>1. PICK j \in jobs :
         /\ info' = [App(j) EXCEPT !.status = "ok"]
         /\ jobs' = jobs \ {j}
         /\ uncounted' = IF App(j).status = "panic" THEN uncounted \cup {j.id} ELSE uncounted
         /\ job' = IF App(j).status = "ok" THEN {j} ELSE {}
         /\ pc' = IF App(j).status # "ok" THEN "idle"
                  ELSE IF NeedsRewrite(App(j)) THEN "rewrite" ELSE "append"
  BY Zenon DEF Push
<1> DEFINE i == App(j)
           ids == DOMAIN info.tables
<1>2. /\ pc = "idle" /\ job = {}
      /\ UNCHANGED <<live, claimed, next_file_id, content, named, file, tail, synced, olds,
                     rewritten, attached, flushed, lost, gone>>
  BY Zenon DEF Push, disk, acks, IInv, OnePush
<1>3. /\ Up /\ info \in Info /\ info.status = "ok" /\ j \in Job
      /\ Ready(ids, jobs) /\ Covers(ids) /\ HasFiles(info.tables) /\ ids \subseteq Used
      /\ uncounted \subseteq ids
  <2>1. Up
    BY <1>2, Zenon DEF Up
  <2> QED
    BY <2>1, Zenon DEF IInv, Typed, TypeOK, InMemory, IdsUsed, CountersAgree
<1>4. j.id \notin ids /\ j.del \subseteq ids
  BY <1>3, Zenon DEF Ready
<1>5. Changes(j) \in Seq(Change)
  BY <1>3, ChangesAre, Zenon
<1>6. i \in Info
  BY <1>3, <1>5, SetKeeps, Zenon
<1>7. \/ i.status = "ok" /\ DOMAIN i.tables = (ids \cup {j.id}) \ j.del
      \/ i.status = "panic" /\ DOMAIN i.tables = ids \cup {j.id}
  BY <1>3, <1>4, JobApplied, Zenon
<1>8. \A id \in DOMAIN i.tables : \/ id \in ids /\ i.tables[id] = info.tables[id]
                                  \/ id = j.id /\ i.tables[id] = j.level
  BY <1>3, <1>5, JobSources, Zenon
<1>9. /\ info' \in Info /\ info'.tables = i.tables /\ info'.status = "ok"
      /\ info'.creations = i.creations /\ info'.deletions = i.deletions
  <2> HIDE DEF i
  <2>1. info' = [i EXCEPT !.status = "ok"]
    BY <1>1, Zenon DEF i
  <2> QED
    BY <1>6, <2>1, Zenon DEF Info
<1>10. /\ Built(j) /\ j.id \in Used /\ j.id \notin DOMAIN live \cup gone \cup uncounted
       /\ j.del \subseteq claimed /\ j.del \subseteq DOMAIN live
  BY <1>3, Zenon DEF IInv, Jobs, IdsUsed, Built
<1> HIDE DEF App, i
<1>11. /\ pc' \in {"idle", "rewrite", "append"} /\ job' \subseteq {j} /\ job' \subseteq jobs
       /\ i.status = "panic" => uncounted' = uncounted \cup {j.id} /\ job' = {} /\ pc' = "idle"
       /\ i.status = "ok" => uncounted' = uncounted /\ job' = {j} /\ pc' # "idle"
  <2>1. App(j) = i
    BY Zenon DEF i
  <2>2. CASE i.status = "panic"
    <3>1. i.status # "ok"
      BY <2>2, Zenon
    <3> QED
      BY <1>1, <2>1, <2>2, <3>1, Zenon
  <2>3. CASE i.status = "ok"
    BY <1>1, <2>1, <2>3, Zenon
  <2> QED
    BY <1>7, <2>2, <2>3, Zenon
<1>12. Up' /\ Calm
  <2>1. next_file_id \in Int
    BY ManifestAssumption DEF IInv, Typed, TypeOK
  <2>2. Up'
    BY <1>11, Zenon DEF Up
  <2>3. next_file_id <= next_file_id
    BY <2>1
  <2> QED
    BY <1>2, <1>3, <2>1, <2>2, <2>3, Zenon DEF Calm, acks
<1>13. IdsUsed'
  <2>1. DOMAIN info'.tables \subseteq Used
    BY <1>3, <1>7, <1>9, <1>10, Zenon
  <2>2. uncounted' \cap DOMAIN live = {}
    BY <1>3, <1>7, <1>10, <1>11, Zenon DEF IInv, IdsUsed
  <2>3. ASSUME NEW k \in jobs' \cup job' PROVE k.id \notin uncounted'
    <3>1. k \in jobs /\ k.id \notin uncounted
      BY <1>1, <1>3, <1>11, <2>3, Zenon DEF IInv, IdsUsed
    <3>2. CASE k = j
      <4>1. job' = {j}
        BY <1>1, <1>11, <1>7, <2>3, <3>2, Zenon
      <4>2. uncounted' = uncounted
        BY <1>7, <1>11, <4>1, Zenon
      <4> QED
        BY <3>1, <4>2, Zenon
    <3>3. CASE k # j
      <4>1. k.id # j.id
        BY <3>1, <3>3, Zenon DEF IInv, Jobs
      <4> QED
        BY <1>7, <1>11, <3>1, <4>1, Zenon
    <3> QED
      BY <3>2, <3>3, Zenon
  <2>4. Used' = Used /\ jobs' \cup job' \subseteq jobs
    BY <1>1, <1>2, <1>11, Zenon DEF Used
  <2> QED
    BY <1>2, <1>3, <2>1, <2>2, <2>3, <2>4, Zenon DEF IInv, IdsUsed
<1>14. Jobs'
  <2>1. \A k \in jobs : Built(k) => Built(k)'
    BY <1>2, Zenon DEF Built
  <2>2. jobs' \cup job' \subseteq jobs
    BY <1>1, <1>11, Zenon
  <2> QED
    BY <2>1, <2>2, Zenon DEF IInv, Jobs
<1>15. InMemory'
  <2> DEFINE new == DOMAIN info'.tables
  <2>1. new = DOMAIN i.tables
    BY <1>9, Zenon
  <2>2. Ready(DOMAIN info.tables, jobs)'
    <3>1. DOMAIN live \ claimed \subseteq new
      BY <1>3, <1>7, <1>10, <2>1, Zenon DEF Ready
    <3>2. ASSUME NEW k \in jobs' PROVE k.id \notin new /\ k.del \subseteq new
      <4>1. k \in jobs /\ k # j
        BY <1>1, <3>2, Zenon
      <4>2. k.id # j.id /\ k.del \cap j.del = {}
        BY <4>1, Zenon DEF IInv, Jobs
      <4>3. k.id \notin ids /\ k.del \subseteq ids
        BY <1>3, <4>1, Zenon DEF Ready
      <4> QED
        BY <1>7, <2>1, <4>2, <4>3, Zenon
    <3> QED
      BY <1>2, <3>1, <3>2, Zenon DEF Ready
  <2>3. Applied(DOMAIN info.tables)'
    <3>1. i.status = "ok" => j.id \in new /\ j.del \cap new = {}
      BY <1>4, <1>7, <2>1, Zenon
    <3> QED
      BY <1>7, <1>11, <3>1, Zenon DEF Applied
  <2>4. Covers(DOMAIN info.tables)'
    <3>1. new \cap gone = {}
      <4>1. new \subseteq ids \cup {j.id}
        BY <1>7, <2>1, Zenon
      <4>2. ids \cap gone = {}
        BY <1>3, Zenon DEF Covers
      <4> HIDE DEF new, ids
      <4> QED
        BY <1>10, <4>1, <4>2, Zenon
    <3>2. UNION {content[id] : id \in ids} \subseteq UNION {content[id] : id \in new}
      <4>1. \A id \in ids : id \in new \/ (id \in j.del /\ j.id \in new)
        BY <1>4, <1>7, <2>1, Zenon
      <4>2. \A id \in j.del : content[id] \subseteq content[j.id]
        BY <1>10, Zenon DEF Built
      <4> HIDE DEF new, ids
      <4> QED
        BY <4>1, <4>2, Zenon
    <3> QED
      BY <1>2, <1>3, <3>1, <3>2, Zenon DEF Covers
  <2>5. HasFiles(info.tables)'
    BY <1>2, <1>3, <1>8, <1>9, <1>10, BuiltFiles, Zenon DEF HasFiles, Files
  <2> QED
    BY <2>2, <2>3, <2>4, <2>5, Zenon DEF InMemory
<1>16. InFile'
  <2> DEFINE r == Replay(file)
  <2>1. r' = r
    BY <1>2, Zenon
  <2>2. ASSUME attached, tail = "none", r.status = "ok"
        PROVE  Ready(DOMAIN r.tables, IF pc = "append" THEN jobs \cup job ELSE jobs)'
    <3>1. Ready(DOMAIN r.tables, jobs)
      <4>1. ~(pc = "append")
        BY <1>2, Zenon
      <4> QED
        BY <1>3, <2>2, <4>1, Zenon DEF IInv, InFile
    <3>2. jobs' \cup job' \subseteq jobs
      BY <1>1, <1>11, Zenon
    <3> HIDE DEF r
    <3> QED
      BY <1>2, <2>1, <3>1, <3>2, Zenon DEF Ready
  <2>3. ~(pc' = "reopen") /\ ~(pc' \in {"reopen", "sync"})
    BY <1>11, Zenon
  <2> QED
    BY <1>2, <2>1, <2>2, <2>3, Zenon DEF InFile
<1>17. AfterCrash'
  <2>1. ~(pc' = "reopen")
    BY <1>11, Zenon
  <2> QED
    BY <1>2, <1>12, <2>1, OutcomesCalm, Zenon DEF IInv
<1>18. CountersAgree'
  <2> DEFINE u == Cardinality(uncounted)
             n == Cardinality(DOMAIN i.tables)
  <2>1. uncounted' \subseteq DOMAIN info'.tables
    BY <1>3, <1>7, <1>9, <1>10, <1>11, Zenon DEF IInv, IdsUsed
  <2>2. /\ u \in Int /\ n \in Int /\ i.creations \in Int /\ i.deletions \in Int
        /\ j.id \notin uncounted => Cardinality(uncounted \cup {j.id}) = u + 1
    <3>1. uncounted \in SUBSET Id /\ DOMAIN i.tables \in SUBSET Id
      <4>1. i.tables \in Tables
        BY <1>6, Zenon DEF Info
      <4> QED
        BY <4>1, TablesAre, Zenon DEF IInv, Typed, TypeOK
    <3>2. u \in Nat /\ n \in Nat /\ IsFiniteSet(uncounted)
      BY <3>1, IdsFinite, Zenon
    <3>3. j.id \notin uncounted => Cardinality(uncounted \cup {j.id}) = u + 1
      BY <3>2, FS_AddElement, Zenon
    <3> HIDE DEF u, n
    <3> QED
      BY <1>6, <3>2, <3>3 DEF Info
  <2>3. Balanced(i, u)
    <3>1. Balanced(info, u)
      <4>1. info.creations - info.deletions = Cardinality(ids) - u
        BY Zenon DEF IInv, CountersAgree
      <4>2. ids \in SUBSET Id
        BY Zenon DEF IInv, Typed, TypeOK
      <4>3. Cardinality(ids) \in Nat
        BY <4>2, IdsFinite, Zenon
      <4>4. Cardinality(ids) - u - 0 = Cardinality(ids) - u
        BY <2>2, <4>3
      <4>5. ~(info.status = "panic")
        BY <1>3, Zenon
      <4> QED
        BY <4>1, <4>4, <4>5, Zenon DEF Balanced
    <3> QED
      BY <1>3, <1>5, <2>2, <3>1, SetKeeps, Zenon DEF i, App
  <2>4. i.creations - i.deletions = n - Cardinality(uncounted')
    <3>1. CASE i.status = "ok"
      <4>1. uncounted' = uncounted
        BY <1>11, <3>1, Zenon
      <4> QED
        BY <2>2, <2>3, <3>1, <4>1 DEF Balanced
    <3>2. CASE i.status = "panic"
      <4>1. Cardinality(uncounted') = u + 1
        BY <1>10, <1>11, <2>2, <3>2, Zenon
      <4> HIDE DEF u
      <4>2. i.creations - i.deletions = n - u - 1
        BY <2>3, <3>2, Zenon DEF Balanced
      <4> HIDE DEF n
      <4> QED
        BY <2>2, <4>1, <4>2
    <3> QED
      BY <1>7, <3>1, <3>2, Zenon
  <2> QED
    BY <1>9, <2>1, <2>4, Zenon DEF CountersAgree
<1>19. Typed'
  <2>1. /\ DOMAIN info'.tables \subseteq Id /\ info'.levels \in 0 .. MaxLevel + 1
        /\ info'.creations \in Nat /\ info'.deletions \in Nat
        /\ \A id \in DOMAIN info'.tables : info'.tables[id] \in Level
    <3>1. /\ info'.tables \in Tables /\ info'.levels \in 0 .. MaxLevel + 1
          /\ info'.creations \in Nat /\ info'.deletions \in Nat
      BY <1>9, Zenon DEF Info
    <3> QED
      BY <3>1, TablesAre, Zenon
  <2>2. uncounted' \subseteq Id /\ jobs' \subseteq Job /\ job' \subseteq Job
    <3>1. j.id \in Id
      BY <1>3, Zenon DEF Job
    <3> QED
      BY <1>1, <1>3, <1>7, <1>11, <3>1, Zenon DEF IInv, Typed, TypeOK
  <2>3. /\ pc' \in {"idle", "append", "rewrite", "rename", "reopen", "sync", "down", "refused"}
        /\ ~(pc' = "rename")
    BY <1>11, Zenon
  <2>4. TypeOK'
    BY <1>2, <1>9, <2>1, <2>2, <2>3, Zenon DEF IInv, Typed, TypeOK, Files
  <2>5. Manifests' = Manifests
    BY <1>2, Zenon DEF Manifests
  <2> QED
    BY <1>2, <1>9, <2>3, <2>4, <2>5, Zenon DEF IInv, Typed
<1>20. OnePush'
  <2>1. /\ ~(pc' = "reopen") /\ ~(pc = "reopen")
        /\ i.status = "ok" => ~(pc' \in {"idle", "down", "refused"})
        /\ i.status = "panic" => pc' = "idle" /\ job' = {}
    BY <1>2, <1>11, Zenon
  <2>2. i.status = "ok" => job' = {j}
    BY <1>11, Zenon
  <2> QED
    BY <1>2, <1>7, <2>1, <2>2, Zenon DEF IInv, OnePush
<1>21. Closed'
  BY <1>12, Zenon DEF Closed
<1> QED
  BY <1>13, <1>14, <1>15, <1>16, <1>17, <1>18, <1>19, <1>20, <1>21, Zenon DEF IInv

-----------------------------------------------------------------------------
\* push_changes, in the file.

\* What the file says after a change set was appended to it.
LEMMA AppendedIs ==
  ASSUME IInv, pc = "append", attached, tail = "none", NEW j \in job
  PROVE  LET r == Replay(file)
             t == ApplyChangeSet(r, Changes(j))
         IN /\ j \in Job /\ Changes(j) \in Seq(Change) /\ job = {j}
            /\ DOMAIN t.tables \subseteq Used /\ HasFiles(t.tables) /\ Good(t)
            /\ t.status = "ok" => Ready(DOMAIN t.tables, jobs) /\ Applied(DOMAIN t.tables)
<1> DEFINE r == Replay(file)
           t == ApplyChangeSet(r, Changes(j))
           ids == DOMAIN r.tables
<1>1. Up /\ ~(pc \in {"idle", "down", "refused"})
  BY Zenon DEF Up
<1>2. j \in Job /\ job = {j} /\ Built(j) /\ j.id \in Used /\ j.id \notin gone
  BY <1>1, Zenon DEF IInv, Typed, TypeOK, OnePush, Jobs, IdsUsed
<1>3. Changes(j) \in Seq(Change)
  BY <1>2, ChangesAre, Zenon
<1>4. /\ file \in Seq(Seq(Change)) /\ ids \subseteq Used /\ HasFiles(r.tables) /\ Good(r)
  BY <1>1, CurrentIs, Zenon DEF IInv, AfterCrash
<1>5. r \in Info
  BY <1>4, ReplayKeeps, Zenon
<1>6. t \in Info /\ (r.status # "ok" => t = r)
  BY <1>3, <1>5, SetKeeps, Zenon
<1>7. \A id \in DOMAIN t.tables : \/ id \in ids /\ t.tables[id] = r.tables[id]
                                  \/ id = j.id /\ t.tables[id] = j.level
  BY <1>2, <1>5, JobSources, Zenon
<1>8. r.status = "ok" => /\ Ready(ids, jobs \cup job)
                         /\ j.id \notin ids /\ j.del \subseteq ids
  BY <1>1, Zenon DEF IInv, InFile, Ready
<1>9. r.status = "ok" => \/ t.status = "ok" /\ DOMAIN t.tables = (ids \cup {j.id}) \ j.del
                         \/ t.status = "panic"
  BY <1>2, <1>5, <1>8, JobApplied, Zenon
<1>10. j.id \in Files /\ (j.level > 0 => j.id \in named)
  BY BuiltFiles, Zenon
<1> HIDE DEF t, r
<1>11. DOMAIN t.tables \subseteq Used
  BY <1>2, <1>4, <1>7, Zenon
<1>12. HasFiles(t.tables)
  BY <1>4, <1>7, <1>10, Zenon DEF HasFiles
<1>13. ASSUME r.status = "ok", t.status = "ok"
       PROVE  /\ Covers(DOMAIN t.tables) /\ Ready(DOMAIN t.tables, jobs)
              /\ Applied(DOMAIN t.tables)
  <2> DEFINE new == DOMAIN t.tables
  <2>1. new = (ids \cup {j.id}) \ j.del
    BY <1>9, <1>13, Zenon
  <2>2. j.id \in new /\ j.del \cap new = {}
    BY <1>8, <1>13, <2>1, Zenon
  <2>3. Covers(ids) /\ j.del \subseteq claimed
    BY <1>2, <1>4, <1>13, Zenon DEF Good, Built
  <2>4. \A k \in jobs : k.id # j.id /\ k.del \cap j.del = {}
    <3>1. \A k \in jobs : k.id \notin DOMAIN info.tables
      BY <1>1, Zenon DEF IInv, InMemory, Ready
    <3>2. j.id \in DOMAIN info.tables
      BY <1>1, Zenon DEF IInv, InMemory, Applied
    <3> QED
      BY <3>1, <3>2, Zenon DEF IInv, Jobs
  <2> SUFFICES Covers(new) /\ Ready(new, jobs) /\ Applied(new)
    BY Zenon
  <2> HIDE DEF new, ids
  <2>5. Ready(new, jobs)
    BY <1>8, <1>13, <2>1, <2>3, <2>4, Zenon DEF Ready
  <2>6. Applied(new)
    BY <1>2, <2>2, Zenon DEF Applied
  <2>7. Covers(new)
    <3>1. new \cap gone = {}
      BY <1>2, <2>1, <2>3, Zenon DEF Covers
    <3>2. UNION {content[id] : id \in ids} \subseteq UNION {content[id] : id \in new}
      <4>1. \A id \in ids : id \in new \/ (id \in j.del /\ j.id \in new)
        BY <2>1, <2>2, Zenon
      <4>2. \A id \in j.del : content[id] \subseteq content[j.id]
        BY <1>2, Zenon DEF Built
      <4> QED
        BY <4>1, <4>2, Zenon
    <3> QED
      BY <2>3, <3>1, <3>2, Zenon DEF Covers
  <2> QED
    BY <2>5, <2>6, <2>7, Zenon
<1>14. Good(t)
  <2>1. CASE r.status # "ok"
    BY <1>4, <1>6, <2>1, Zenon
  <2>2. CASE r.status = "ok"
    <3>1. t.status # "error"
      BY <1>9, <2>2, Zenon
    <3> QED
      BY <1>13, <2>2, <3>1, Zenon DEF Good
  <2> QED
    BY <2>1, <2>2, Zenon
<1>15. t.status = "ok" => r.status = "ok"
  BY <1>6, Zenon
<1> QED
  BY <1>2, <1>3, <1>11, <1>12, <1>13, <1>14, <1>15, Zenon DEF t, r

\* What may be left of a file with one more change set.
LEMMA SurvivorsAppend ==
  ASSUME Typed, NEW set \in Seq(Change), file' = Append(file, set), UNCHANGED synced,
         NEW s \in Survivors(Current')
  PROVE  s \in Survivors(Current) \/ s = Append(file, set)
<1> DEFINE more == Append(file, set)
<1>1. /\ file \in Seq(Seq(Change)) /\ synced \in 1 .. Len(file)
      /\ Current.file = file /\ Current.synced = synced
  BY CurrentIs, Zenon
<1>2. Current'.file = more /\ Current'.synced = synced
  BY Zenon DEF Current
<1>3. PICK n \in synced .. Len(more) : s = SubSeq(more, 1, n)
  BY <1>2, Zenon DEF Survivors
<1>4. more \in Seq(Seq(Change)) /\ Len(more) = Len(file) + 1 /\ Len(file) \in Nat
  BY <1>1
<1>5. CASE n = Len(file) + 1
  BY <1>3, <1>4, <1>5
<1>6. CASE n # Len(file) + 1
  <2>1. n \in synced .. Len(file)
    <3>1. \A a, l \in Nat : \A k \in a .. l + 1 : k # l + 1 => k \in a .. l
      OBVIOUS
    <3>2. synced \in Nat /\ Len(file) \in Nat /\ n \in synced .. Len(file) + 1
      BY <1>1, <1>3, <1>4
    <3> QED
      BY <1>6, <3>1, <3>2, Zenon
  <2>2. SubSeq(more, 1, n) = SubSeq(file, 1, n)
    BY <1>1, <2>1
  <2> QED
    BY <1>1, <1>3, <2>1, <2>2, Zenon DEF Survivors
<1> QED
  BY <1>5, <1>6, Zenon

LEMMA AppendSetInv == IInv /\ AppendSet => IInv'
<1> SUFFICES ASSUME IInv, AppendSet PROVE IInv'
  BY Zenon
<1>1. /\ pc = "append" /\ pc' = "sync"
      /\ UNCHANGED <<info, uncounted, live, claimed, next_file_id, jobs, content, named, job,
                     synced, olds, rewritten, attached, acks>>
  BY Zenon DEF AppendSet, memory, building
<1>2. Up /\ Up'
  BY <1>1, Zenon DEF Up
<1>3. Calm /\ IdsUsed' /\ Jobs' /\ InMemory'
  BY <1>1, <1>2, MemoryKept, Zenon
<1>4. CountersAgree' /\ Closed'
  BY <1>1, <1>2, Zenon DEF IInv, CountersAgree, Closed
<1>5. OnePush'
  <2>1. /\ ~(pc = "reopen") /\ ~(pc' = "reopen") /\ ~(pc \in {"idle", "down", "refused"})
        /\ ~(pc' \in {"idle", "down", "refused"})
    BY <1>1, Zenon
  <2> QED
    BY <1>1, <2>1, Zenon DEF IInv, OnePush
<1>6. ASSUME file' \in Seq(Seq(Change)), synced \in 1 .. Len(file'),
             tail' \in {"none"} \cup Torn
      PROVE  Typed'
  <2>1. pc' \in {"idle", "append", "rewrite", "rename", "reopen", "sync", "down", "refused"}
        /\ ~(pc' = "rename")
    BY <1>1, Zenon
  <2>2. TypeOK'
    BY <1>1, <1>6, <2>1, Zenon DEF IInv, Typed, TypeOK, Files, acks
  <2>3. ASSUME NEW f \in Manifests' PROVE f \in ManifestFile /\ f.synced \in 1 .. Len(f.file)
    <3>1. CASE f \in olds
      BY <3>1, Zenon DEF IInv, Typed, Manifests
    <3>2. CASE f = [file |-> file', tail |-> tail', synced |-> synced']
      <4>1. synced' \in Nat
        BY <1>1, <1>6
      <4>2. f \in ManifestFile
        BY <1>6, <3>2, <4>1, Zenon DEF ManifestFile
      <4>3. f.synced = synced' /\ f.file = file'
        BY <3>2, Zenon
      <4> QED
        BY <1>1, <1>6, <4>2, <4>3, Zenon
    <3> QED
      BY <1>1, <2>3, <3>1, <3>2, Zenon DEF Manifests
  <2> QED
    BY <1>1, <2>1, <2>2, <2>3, Zenon DEF IInv, Typed, acks
<1>7. /\ file \in Seq(Seq(Change)) /\ synced \in 1 .. Len(file) /\ tail \in {"none"} \cup Torn
  BY CurrentIs, Zenon DEF IInv, Typed, TypeOK
<1>8. CASE UNCHANGED file /\ tail' \in {"none"} \cup Torn /\ ~(attached /\ tail' = "none")
           /\ (tail' = "none" => tail = "none")
  <2>1. Typed'
    BY <1>6, <1>7, <1>8, Zenon
  <2>2. ~(pc' = "reopen")
    BY <1>1, Zenon
  <2>3. AfterCrash'
    BY <1>1, <1>3, <1>8, <2>2, OutcomesCalm, Zenon DEF IInv
  <2>4. InFile'
    BY <1>1, <1>8, <2>2, Zenon DEF InFile
  <2> QED
    BY <1>3, <1>4, <1>5, <2>1, <2>3, <2>4, Zenon DEF IInv
<1>9. CASE attached /\ tail = "none" /\ UNCHANGED tail
           /\ \E j \in job : file' = Append(file, Changes(j))
  <2>1. PICK j \in job : file' = Append(file, Changes(j))
    BY <1>9, Zenon
  <2> DEFINE t == ApplyChangeSet(Replay(file), Changes(j))
  <2>2. /\ Changes(j) \in Seq(Change)
        /\ DOMAIN t.tables \subseteq Used /\ HasFiles(t.tables) /\ Good(t)
        /\ t.status = "ok" => Ready(DOMAIN t.tables, jobs) /\ Applied(DOMAIN t.tables)
    BY <1>1, <1>9, AppendedIs, Zenon
  <2>3. Replay(file') = t
    BY <1>7, <2>1, <2>2, ReplayAppend, Zenon
  <2>4. Typed'
    <3>1. file' \in Seq(Seq(Change)) /\ synced \in 1 .. Len(file')
      BY <1>7, <2>1, <2>2
    <3> QED
      BY <1>6, <1>7, <1>9, <3>1, Zenon
  <2>5. PICK c : c = t
    BY Zenon
  <2> HIDE DEF t
  <2>6. DOMAIN c.tables \subseteq Used' /\ HasFiles(c.tables)' /\ Good(c)'
    BY <1>3, <2>2, <2>5, UsedCalm, FilesCalm, GoodCalm, Zenon
  <2>7. c.status = "ok" => Ready(DOMAIN c.tables, jobs)' /\ Applied(DOMAIN c.tables)'
    BY <1>1, <2>2, <2>5, Zenon DEF Ready, Applied
  <2>8. InFile'
    <3>1. ~(pc' = "append") /\ Replay(file)' = c
      BY <1>1, <2>3, <2>5, Zenon
    <3> QED
      BY <2>7, <3>1, Zenon DEF InFile, Ready, Applied
  <2>9. AfterCrash'
    <3>1. olds = {} /\ ~(pc' = "reopen")
      BY <1>1, <1>9, Zenon DEF IInv, OnePush
    <3>2. Manifests' = {Current'}
      BY <1>1, <3>1, Zenon DEF Manifests, Current
    <3>3. ASSUME NEW s \in Survivors(Current')
          PROVE  DOMAIN Replay(s).tables \subseteq Used' /\ HasFiles(Replay(s).tables)'
                 /\ Good(Replay(s))'
      <4>1. CASE s \in Survivors(Current)
        <5>1. /\ DOMAIN Replay(s).tables \subseteq Used /\ HasFiles(Replay(s).tables)
              /\ Good(Replay(s))
          BY <1>2, <1>9, <4>1, CurrentIs, Zenon DEF IInv, AfterCrash
        <5> QED
          BY <1>3, <5>1, UsedCalm, FilesCalm, GoodCalm, Zenon
      <4>2. CASE s = Append(file, Changes(j))
        <5>1. Replay(s) = c
          BY <2>1, <2>3, <2>5, <4>2, Zenon
        <5> QED
          BY <2>6, <5>1, Zenon
      <4> QED
        BY <1>1, <2>1, <2>2, <3>3, <4>1, <4>2, SurvivorsAppend, Zenon DEF IInv
    <3> QED
      BY <3>1, <3>2, <3>3, Zenon DEF AfterCrash
  <2> QED
    BY <1>3, <1>4, <1>5, <2>4, <2>8, <2>9, Zenon DEF IInv
<1>10. \A t \in Torn : t # "none"
  BY Zenon DEF Torn
<1> QED
  BY <1>7, <1>8, <1>9, <1>10, Zenon DEF AppendSet

\* A push that fails on its way to the file leaves memory and the change sets in
\* the file as they are.
LEMMA FailInv ==
  ASSUME IInv, Up, pc' = "idle", job' = {},
         UNCHANGED <<info, uncounted, live, claimed, next_file_id, jobs, content, named,
                     file, synced, olds, rewritten, acks>>,
         tail' \in {"none"} \cup Torn, tail' = "none" => tail = "none",
         attached' = (attached /\ pc # "reopen")
  PROVE  IInv'
<1>1. /\ Up' /\ ~(pc' = "reopen") /\ ~(pc' = "append") /\ ~(pc' \in {"reopen", "sync"})
      /\ ~(pc' = "rename") /\ pc' \in {"idle", "down", "refused"}
  BY Zenon DEF Up
<1>2. Calm /\ IdsUsed' /\ Jobs' /\ InMemory'
  <2>1. job' \subseteq job /\ named \subseteq named' /\ info'.tables = info.tables
    BY Zenon
  <2> QED
    BY <1>1, <2>1, MemoryKept, Zenon
<1>3. attached' => attached /\ ~(pc = "reopen")
  BY Zenon
<1>4. AfterCrash'
  BY <1>1, <1>2, <1>3, OutcomesCalm, Zenon DEF IInv
<1>5. InFile'
  <2>1. pc' = "reopen" \/ (attached' /\ tail' = "none")
          => pc = "reopen" \/ (attached /\ tail = "none")
    BY <1>1, <1>3, Zenon
  <2>2. job' \subseteq job
    BY Zenon
  <2> QED
    BY <1>1, <2>1, <2>2, FileKept, Zenon DEF IInv
<1>6. Typed'
  <2>1. pc' \in {"idle", "append", "rewrite", "rename", "reopen", "sync", "down", "refused"}
    BY <1>1, Zenon
  <2>2. attached' \in BOOLEAN
    BY Zenon
  <2>3. TypeOK'
    BY <2>1, <2>2, Zenon DEF IInv, Typed, TypeOK, Files, acks
  <2>4. ASSUME NEW f \in Manifests' PROVE f \in ManifestFile /\ f.synced \in 1 .. Len(f.file)
    <3>1. CASE f \in olds
      BY <3>1, Zenon DEF IInv, Typed, Manifests
    <3>2. CASE f = [file |-> file, tail |-> tail', synced |-> synced]
      <4>1. file \in Seq(Seq(Change)) /\ synced \in 1 .. Len(file)
        BY CurrentIs, Zenon DEF IInv
      <4>2. synced \in Nat
        BY <4>1
      <4>3. f \in ManifestFile
        BY <3>2, <4>1, <4>2, Zenon DEF ManifestFile
      <4>4. f.synced = synced /\ f.file = file
        BY <3>2, Zenon
      <4> QED
        BY <4>1, <4>3, <4>4, Zenon
    <3> QED
      BY <2>4, <3>1, <3>2, Zenon DEF Manifests
  <2> QED
    BY <1>1, <2>3, <2>4, Zenon DEF IInv, Typed, acks
<1>7. OnePush'
  BY <1>1, <1>3, Zenon DEF IInv, OnePush
<1>8. CountersAgree' /\ Closed'
  BY <1>1, Zenon DEF IInv, CountersAgree, Closed
<1> QED
  BY <1>2, <1>4, <1>5, <1>6, <1>7, <1>8, Zenon DEF IInv

LEMMA AppendFailsInv == IInv /\ AppendFails => IInv'
<1> SUFFICES ASSUME IInv, AppendFails PROVE IInv'
  BY Zenon
<1>1. /\ pc = "append" /\ pc' = "idle" /\ job' = {}
      /\ tail' \in IF attached THEN Torn \cup {tail} ELSE {tail}
      /\ UNCHANGED <<info, uncounted, live, claimed, next_file_id, jobs, content, named,
                     file, synced, olds, rewritten, attached, acks>>
  BY Zenon DEF AppendFails, memory, building
<1>2. Up /\ pc # "reopen" /\ ~("none" \in Torn)
  BY <1>1, Zenon DEF Up, Torn
<1>3. tail \in {"none"} \cup Torn /\ attached \in BOOLEAN
  BY Zenon DEF IInv, Typed, TypeOK
<1>4. tail' \in {"none"} \cup Torn /\ (tail' = "none" => tail = "none")
  BY <1>1, <1>2, <1>3, Zenon
<1>5. attached' = (attached /\ pc # "reopen")
  BY <1>1, <1>2, <1>3, Zenon
<1> QED
  BY <1>1, <1>2, <1>4, <1>5, FailInv, Zenon

LEMMA RewriteFailsInv == IInv /\ RewriteFails => IInv'
<1> SUFFICES ASSUME IInv, RewriteFails PROVE IInv'
  BY Zenon
<1>1. /\ pc \in {"rewrite", "rename", "reopen"} /\ pc' = "idle" /\ job' = {}
      /\ attached' = (attached /\ pc # "reopen")
      /\ UNCHANGED <<info, uncounted, live, claimed, next_file_id, jobs, content, named,
                     file, synced, olds, tail, rewritten, acks>>
  BY Zenon DEF RewriteFails, memory, building, disk
<1>2. Up
  BY <1>1, Zenon DEF Up
<1>3. tail' \in {"none"} \cup Torn
  BY <1>1, Zenon DEF IInv, Typed, TypeOK
<1> QED
  BY <1>1, <1>2, <1>3, FailInv, Zenon

LEMMA SyncFailsInv == IInv /\ SyncFails => IInv'
<1> SUFFICES ASSUME IInv, SyncFails PROVE IInv'
  BY Zenon
<1>1. /\ pc = "sync" /\ pc' = "idle" /\ job' = {}
      /\ UNCHANGED <<info, uncounted, live, claimed, next_file_id, jobs, content, named,
                     file, synced, olds, tail, rewritten, attached, acks>>
  BY Zenon DEF SyncFails, memory, building, disk
<1>2. Up /\ pc # "reopen"
  BY <1>1, Zenon DEF Up
<1>3. tail' \in {"none"} \cup Torn /\ attached \in BOOLEAN
  BY <1>1, Zenon DEF IInv, Typed, TypeOK
<1>4. attached' = (attached /\ pc # "reopen")
  BY <1>1, <1>2, <1>3, Zenon
<1> QED
  BY <1>1, <1>2, <1>3, <1>4, FailInv, Zenon

LEMMA WriteRewriteInv == IInv /\ WriteRewrite => IInv'
<1> SUFFICES ASSUME IInv, WriteRewrite PROVE IInv'
  BY Zenon
<1>1. /\ pc = "rewrite" /\ pc' = "rename" /\ rewritten' \in AsChanges(info.tables)
      /\ UNCHANGED <<info, uncounted, live, claimed, next_file_id, jobs, content, named,
                     job, file, tail, synced, olds, attached, acks>>
  BY Zenon DEF WriteRewrite, memory, building, disk
<1>2. /\ Up /\ Up' /\ ~(pc' = "reopen") /\ ~(pc' = "append") /\ ~(pc' \in {"reopen", "sync"})
      /\ ~(pc = "reopen") /\ ~(pc \in {"idle", "down", "refused"})
      /\ ~(pc' \in {"idle", "down", "refused"})
  BY <1>1, Zenon DEF Up
<1>3. Calm /\ IdsUsed' /\ Jobs' /\ InMemory'
  BY <1>1, <1>2, MemoryKept, Zenon
<1>4. AfterCrash'
  BY <1>1, <1>2, <1>3, OutcomesCalm, Zenon DEF IInv
<1>5. InFile'
  BY <1>1, <1>2, FileKept, Zenon DEF IInv
<1>6. Typed'
  <2>1. info.tables \in Tables
    BY Zenon DEF IInv, Typed, Info
  <2>2. rewritten' \in Seq(Change)
    BY <1>1, <2>1, RewriteApplied, Zenon
  <2>3. pc' \in {"idle", "append", "rewrite", "rename", "reopen", "sync", "down", "refused"}
    BY <1>1, Zenon
  <2>4. Manifests' = Manifests
    BY <1>1, Zenon DEF Manifests
  <2>5. TypeOK'
    BY <1>1, <2>3, Zenon DEF IInv, Typed, TypeOK, Files, acks
  <2> QED
    BY <1>1, <2>2, <2>4, <2>5, Zenon DEF IInv, Typed, acks
<1>7. OnePush' /\ CountersAgree' /\ Closed'
  BY <1>1, <1>2, Zenon DEF IInv, OnePush, CountersAgree, Closed
<1> QED
  BY <1>3, <1>4, <1>5, <1>6, <1>7, Zenon DEF IInv

\* A file that is synced as a whole survives as a whole.
LEMMA OnlySurvivor ==
  ASSUME NEW f \in ManifestFile, f.synced = Len(f.file), NEW s \in Survivors(f)
  PROVE  s = f.file
<1>1. f.file \in Seq(Seq(Change))
  BY Zenon DEF ManifestFile
<1>2. PICK n \in f.synced .. Len(f.file) : s = SubSeq(f.file, 1, n)
  BY Zenon DEF Survivors
<1> QED
  BY <1>1, <1>2

\* The rewritten file says what memory says, or less of it if its replay panics.
LEMMA RewrittenIs ==
  ASSUME IInv, pc = "rename"
  PROVE  LET c == Replay(<<rewritten>>)
         IN /\ rewritten \in Seq(Change)
            /\ DOMAIN c.tables \subseteq Used /\ HasFiles(c.tables) /\ Good(c)
            /\ c.status = "ok" => Ready(DOMAIN c.tables, jobs) /\ Applied(DOMAIN c.tables)
<1> DEFINE c == Replay(<<rewritten>>)
<1>1. Up
  BY Zenon DEF Up
<1>2. rewritten \in AsChanges(info.tables) /\ info.tables \in Tables
  <2>1. rewritten \in AsChanges(info.tables) /\ info \in Info
    BY Zenon DEF IInv, Typed
  <2> QED
    BY <2>1, Zenon DEF Info
<1>3. rewritten \in Seq(Change)
  BY <1>2, RewriteApplied, Zenon
<1>4. c = ApplyChangeSet(EmptyInfo, rewritten)
  BY <1>3, ReplayOne, Zenon
<1> HIDE DEF c
<1>5. /\ c.status # "error"
      /\ c.status = "ok" => DOMAIN c.tables = DOMAIN info.tables
      /\ \A id \in DOMAIN c.tables :
           id \in DOMAIN info.tables /\ c.tables[id] = info.tables[id]
  BY <1>2, <1>4, RewriteApplied, Zenon
<1>6. /\ DOMAIN info.tables \subseteq Used /\ HasFiles(info.tables)
      /\ Covers(DOMAIN info.tables)
      /\ Ready(DOMAIN info.tables, jobs) /\ Applied(DOMAIN info.tables)
  BY <1>1, Zenon DEF IInv, IdsUsed, InMemory
<1>7. DOMAIN c.tables \subseteq Used /\ HasFiles(c.tables)
  BY <1>5, <1>6, Zenon DEF HasFiles
<1>8. Good(c) /\ (c.status = "ok" => Ready(DOMAIN c.tables, jobs) /\ Applied(DOMAIN c.tables))
  BY <1>5, <1>6, Zenon DEF Good
<1> QED
  BY <1>3, <1>7, <1>8, Zenon DEF c

LEMMA RenameInv == IInv /\ Rename => IInv'
<1> SUFFICES ASSUME IInv, Rename PROVE IInv'
  BY Zenon
<1>1. /\ pc = "rename" /\ pc' = "reopen" /\ olds' = olds \cup {Current}
      /\ file' = <<rewritten>> /\ tail' = "none" /\ synced' = 1
      /\ UNCHANGED <<info, uncounted, live, claimed, next_file_id, jobs, content, named, job,
                     rewritten, attached, acks>>
  BY Zenon DEF Rename, memory, building, Current
<1>2. /\ Up /\ Up' /\ ~(pc' = "append") /\ ~(pc \in {"idle", "down", "refused"})
      /\ ~(pc' \in {"idle", "down", "refused"}) /\ ~(pc' = "rename") /\ pc # "reopen"
  BY <1>1, Zenon DEF Up
<1>3. Calm /\ IdsUsed' /\ Jobs' /\ InMemory'
  BY <1>1, <1>2, MemoryKept, Zenon
<1>4. PICK c : c = Replay(<<rewritten>>)
  BY Zenon
<1>5. /\ rewritten \in Seq(Change)
      /\ DOMAIN c.tables \subseteq Used /\ HasFiles(c.tables) /\ Good(c)
      /\ c.status = "ok" => Ready(DOMAIN c.tables, jobs) /\ Applied(DOMAIN c.tables)
  BY <1>1, <1>4, RewrittenIs, Zenon
<1>6. Replay(file') = c
  BY <1>1, <1>4, Zenon
<1>7. file' \in Seq(Seq(Change)) /\ Len(file') = 1 /\ synced' \in 1 .. Len(file')
  BY <1>1, <1>5
<1>8. Manifests' = Manifests \cup {Current'}
  BY <1>1, Zenon DEF Manifests, Current
<1>9. /\ Current'.file = file' /\ Current'.tail = "none" /\ Current'.synced = 1
  BY <1>1, Zenon DEF Current
<1>10. Current' \in ManifestFile
  <2>1. "none" \in {"none"} \cup Torn /\ 1 \in Nat
    BY Zenon
  <2> QED
    BY <1>1, <1>7, <2>1, Zenon DEF Current, ManifestFile
<1>11. Typed'
  <2>1. pc' \in {"idle", "append", "rewrite", "rename", "reopen", "sync", "down", "refused"}
    BY <1>1, Zenon
  <2>2. TypeOK'
    BY <1>1, <1>7, <2>1, Zenon DEF IInv, Typed, TypeOK, Files, acks
  <2>3. \A f \in Manifests' : f \in ManifestFile /\ f.synced \in 1 .. Len(f.file)
    BY <1>1, <1>7, <1>8, <1>9, <1>10, Zenon DEF IInv, Typed
  <2> QED
    BY <1>1, <1>2, <1>5, <2>2, <2>3, Zenon DEF IInv, Typed, acks
<1>12. OnePush' /\ CountersAgree' /\ Closed'
  BY <1>1, <1>2, <1>7, Zenon DEF IInv, OnePush, CountersAgree, Closed
<1>13. InFile'
  <2>1. c.status = "ok" => Ready(DOMAIN c.tables, jobs)' /\ Applied(DOMAIN c.tables)'
    BY <1>1, <1>5, Zenon DEF Ready, Applied
  <2> QED
    BY <1>2, <1>6, <2>1, Zenon DEF InFile, Ready, Applied
<1>14. AfterCrash'
  <2>1. DOMAIN c.tables \subseteq Used' /\ HasFiles(c.tables)' /\ Good(c)'
    BY <1>3, <1>5, UsedCalm, FilesCalm, GoodCalm, Zenon
  <2>2. \A s \in Survivors(Current') : Replay(s) = c
    BY <1>6, <1>7, <1>9, <1>10, <1>1, OnlySurvivor, Zenon
  <2>3. ASSUME NEW f \in Manifests, NEW s \in Survivors(f)
        PROVE  /\ DOMAIN Replay(s).tables \subseteq Used'
               /\ HasFiles(Replay(s).tables)'
               /\ attached' /\ f.tail = "none" => Good(Replay(s))'
    <3>1. /\ DOMAIN Replay(s).tables \subseteq Used /\ HasFiles(Replay(s).tables)
          /\ attached /\ f.tail = "none" => Good(Replay(s))
      BY <1>2, <2>3, Zenon DEF IInv, AfterCrash
    <3> QED
      BY <1>1, <1>3, <3>1, UsedCalm, FilesCalm, GoodCalm, Zenon
  <2>4. ASSUME NEW f \in Manifests', NEW s \in Survivors(f)
        PROVE  /\ DOMAIN Replay(s).tables \subseteq Used'
               /\ HasFiles(Replay(s).tables)'
               /\ attached' /\ f.tail = "none" => Good(Replay(s))'
    <3>1. CASE f \in Manifests
      BY <2>3, <2>4, <3>1, Zenon
    <3>2. CASE f = Current'
      BY <2>1, <2>2, <2>4, <3>2, Zenon
    <3> QED
      BY <1>8, <2>4, <3>1, <3>2, Zenon
  <2>5. Good(Replay(file))'
    BY <1>6, <2>1, Zenon
  <2> QED
    BY <2>4, <2>5, Zenon DEF AfterCrash
<1> QED
  BY <1>3, <1>11, <1>12, <1>13, <1>14, Zenon DEF IInv

\* What a rewrite does to the counters.
LEMMA Recounted ==
  ASSUME NEW i \in Info, NEW n \in Nat
  PROVE  LET r == [i EXCEPT !.creations = n, !.deletions = 0]
         IN /\ r \in Info /\ r.tables = i.tables /\ r.status = i.status
            /\ r.levels = i.levels /\ r.creations = n /\ r.deletions = 0
<1> DEFINE a == [i EXCEPT !.creations = n]
           r == [a EXCEPT !.deletions = 0]
<1>1. /\ a \in Info /\ a.tables = i.tables /\ a.status = i.status
      /\ a.levels = i.levels /\ a.creations = n
  BY Zenon DEF Info
<1>2. r = [i EXCEPT !.creations = n, !.deletions = 0]
  BY Zenon
<1> HIDE DEF a
<1>3. /\ r \in Info /\ r.tables = a.tables /\ r.status = a.status
      /\ r.levels = a.levels /\ r.creations = a.creations /\ r.deletions = 0
  BY <1>1, Zenon DEF Info
<1> HIDE DEF r
<1> QED
  BY <1>1, <1>2, <1>3, Zenon

LEMMA ReopenInv == IInv /\ Reopen => IInv'
<1> SUFFICES ASSUME IInv, Reopen PROVE IInv'
  BY Zenon
<1>1. /\ pc = "reopen" /\ pc' = "sync" /\ attached' = TRUE /\ olds' = {} /\ named' = Files
      /\ info' = [info EXCEPT !.creations = Cardinality(DOMAIN info.tables), !.deletions = 0]
      /\ uncounted' = {}
      /\ UNCHANGED <<live, claimed, next_file_id, jobs, content, job, file, tail, synced,
                     rewritten, acks>>
  BY Zenon DEF Reopen
<1>2. /\ Up /\ Up' /\ ~(pc' = "append") /\ ~(pc \in {"idle", "down", "refused"})
      /\ ~(pc' \in {"idle", "down", "refused"}) /\ ~(pc' = "rename") /\ ~(pc' = "reopen")
      /\ ~(pc = "append")
      /\ pc' \in {"idle", "append", "rewrite", "rename", "reopen", "sync", "down", "refused"}
  BY <1>1, Zenon DEF Up
<1>3. info \in Info /\ info.status = "ok" /\ DOMAIN info.tables \in SUBSET Id
  BY Zenon DEF IInv, Typed, TypeOK
<1>4. Cardinality(DOMAIN info.tables) \in Nat
  BY <1>3, IdsFinite, Zenon
<1>5. /\ info' \in Info /\ info'.tables = info.tables /\ info'.status = "ok"
      /\ info'.creations = Cardinality(DOMAIN info.tables) /\ info'.deletions = 0
      /\ info'.levels = info.levels
  BY <1>1, <1>3, <1>4, Recounted, Zenon
<1>6. named \subseteq Files
  BY Zenon DEF IInv, Typed, TypeOK
<1>7. Calm /\ IdsUsed' /\ Jobs' /\ InMemory'
  BY <1>1, <1>2, <1>5, <1>6, MemoryKept, Zenon
<1>8. tail = "none" /\ synced = Len(file)
  BY <1>1, Zenon DEF IInv, OnePush
<1>9. Manifests' = {Current} /\ Manifests' \subseteq Manifests
  BY <1>1, Zenon DEF Manifests, Current
<1>10. Typed'
  <2>1. /\ info'.levels \in 0 .. MaxLevel + 1 /\ info'.creations \in Nat
        /\ info'.deletions \in Nat
    BY <1>5, Zenon DEF Info
  <2>2. TypeOK'
    BY <1>1, <1>2, <1>5, <2>1, Zenon DEF IInv, Typed, TypeOK, Files, acks
  <2> QED
    BY <1>1, <1>2, <1>5, <1>9, <2>2, Zenon DEF IInv, Typed, acks
<1>11. OnePush' /\ Closed'
  BY <1>1, <1>2, Zenon DEF IInv, OnePush, Closed
<1>12. CountersAgree'
  <2>1. Cardinality({}) = 0
    BY FS_EmptySet, Zenon
  <2> QED
    BY <1>1, <1>4, <1>5, <2>1, Zenon DEF CountersAgree
<1>13. InFile'
  <2>1. PICK c : c = Replay(file)
    BY Zenon
  <2>2. c.status = "ok" => Ready(DOMAIN c.tables, jobs) /\ Applied(DOMAIN c.tables)
    <3>1. pc \in {"reopen", "sync"}
      BY <1>1, Zenon
    <3> QED
      BY <1>1, <1>2, <2>1, <3>1, Zenon DEF IInv, InFile
  <2>3. c.status = "ok" => Ready(DOMAIN c.tables, jobs)' /\ Applied(DOMAIN c.tables)'
    BY <1>1, <2>2, Zenon DEF Ready, Applied
  <2>4. Replay(file)' = c
    BY <1>1, <2>1, Zenon
  <2> QED
    BY <1>2, <2>3, <2>4, Zenon DEF InFile, Ready, Applied
<1>14. AfterCrash'
  <2>1. PICK c : c = Replay(file)
    BY Zenon
  <2>2. /\ DOMAIN c.tables \subseteq Used /\ HasFiles(c.tables) /\ Good(c)
    BY <1>1, <1>2, <2>1, CurrentIs, Zenon DEF IInv, AfterCrash
  <2>3. DOMAIN c.tables \subseteq Used' /\ HasFiles(c.tables)' /\ Good(c)'
    BY <1>7, <2>2, UsedCalm, FilesCalm, GoodCalm, Zenon
  <2>4. \A s \in Survivors(Current) : Replay(s) = c
    BY <1>8, <2>1, CurrentIs, OnlySurvivor, Zenon DEF IInv
  <2> QED
    BY <1>2, <1>9, <2>3, <2>4, Zenon DEF AfterCrash
<1> QED
  BY <1>7, <1>10, <1>11, <1>12, <1>13, <1>14, Zenon DEF IInv

\* The caller's part of a push that succeeds.
Acknowledged(j) ==
  /\ live' = [id \in (DOMAIN live \ j.del) \cup {j.id} |->
                IF id = j.id THEN j.level ELSE live[id]]
  /\ flushed' = IF IsFlush(j) THEN flushed + 1 ELSE flushed
  /\ gone' = gone \cup j.del
  /\ UNCHANGED <<info, uncounted, claimed, next_file_id, jobs, content, named, lost>>

\* Tables that have the job applied to them hold what is acknowledged with it.
LEMMA CoversAcknowledged ==
  ASSUME IInv, NEW j \in job, Acknowledged(j), NEW ids, Covers(ids),
         j.id \in ids, j.del \cap ids = {}
  PROVE  Covers(ids)'
<1>1. /\ gone' = gone \cup j.del /\ lost' = lost /\ content' = content
      /\ flushed' = IF IsFlush(j) THEN flushed + 1 ELSE flushed
  BY Zenon DEF Acknowledged
<1>2. (1 .. flushed) \ lost \subseteq UNION {content[id] : id \in ids} /\ ids \cap gone = {}
  BY Zenon DEF Covers
<1>3. ids \cap gone' = {}
  BY <1>1, <1>2, Zenon
<1>4. (1 .. flushed') \ lost \subseteq UNION {content[id] : id \in ids}
  <2>1. CASE IsFlush(j)
    <3>1. content[j.id] = {flushed + 1} /\ flushed' = flushed + 1 /\ flushed \in 0 .. MaxFlush
      BY <1>1, <2>1, Zenon DEF IInv, Jobs, Built, Typed, TypeOK
    <3>2. \A n \in 1 .. flushed + 1 : n \in 1 .. flushed \/ n = flushed + 1
      BY <3>1
    <3> QED
      BY <1>2, <3>1, <3>2, Zenon
  <2>2. CASE ~IsFlush(j)
    BY <1>1, <1>2, <2>2, Zenon
  <2> QED
    BY <2>1, <2>2, Zenon
<1> QED
  BY <1>1, <1>3, <1>4, Zenon DEF Covers

LEMMA ReadyAcknowledged ==
  ASSUME NEW j \in job, Acknowledged(j), NEW ids, Ready(ids, jobs), j.id \in ids
  PROVE  Ready(ids, jobs)'
<1>1. DOMAIN live' = (DOMAIN live \ j.del) \cup {j.id} /\ UNCHANGED <<claimed, jobs>>
  BY Zenon DEF Acknowledged
<1> QED
  BY <1>1, Zenon DEF Ready

LEMMA AcknowledgeInv == IInv /\ Acknowledge => IInv'
<1> SUFFICES ASSUME IInv, Acknowledge PROVE IInv'
  BY Zenon
<1>1. /\ pc = "sync" /\ pc' = "idle" /\ job' = {}
      /\ synced' = IF attached THEN Len(file) ELSE synced
      /\ UNCHANGED <<info, uncounted, claimed, next_file_id, jobs, content, named, file,
                     tail, olds, rewritten, attached, lost>>
  BY Zenon DEF Acknowledge, building
<1>2. PICK j \in job : Acknowledged(j)
  BY Zenon DEF Acknowledge, building, Acknowledged
<1>3. /\ Up /\ Up' /\ ~(pc \in {"idle", "down", "refused"}) /\ pc \in {"reopen", "sync"}
      /\ ~(pc' = "reopen") /\ ~(pc' \in {"reopen", "sync"}) /\ ~(pc' = "append")
      /\ ~(pc = "reopen") /\ ~(pc = "append") /\ ~(pc' = "rename")
      /\ pc' \in {"idle", "append", "rewrite", "rename", "reopen", "sync", "down", "refused"}
      /\ pc' \in {"idle", "down", "refused"}
  BY <1>1, Zenon DEF Up
<1>4. /\ j \in Job /\ Built(j) /\ j.id \in Used
      /\ j.id \notin DOMAIN live \cup gone \cup uncounted
  BY <1>3, Zenon DEF IInv, Typed, TypeOK, Jobs, IdsUsed
<1>5. j.id \in Id /\ j.level \in Level /\ j.del \in SUBSET Id
  BY <1>4, Zenon DEF Job
<1>6. j.id \in DOMAIN info.tables /\ j.del \cap DOMAIN info.tables = {}
  BY <1>3, Zenon DEF IInv, InMemory, Applied
<1>7. \A k \in jobs : /\ k.id # j.id /\ k.del \cap j.del = {}
                      /\ ~(IsFlush(j) /\ IsFlush(k))
  <2>1. \A k \in jobs : k.id \notin DOMAIN info.tables
    BY <1>3, Zenon DEF IInv, InMemory, Ready
  <2> QED
    BY <1>6, <2>1, Zenon DEF IInv, Jobs
<1>8. /\ DOMAIN live' = (DOMAIN live \ j.del) \cup {j.id} /\ gone' = gone \cup j.del
      /\ flushed' = IF IsFlush(j) THEN flushed + 1 ELSE flushed
  BY <1>2, Zenon DEF Acknowledged
<1>9. j.del \subseteq claimed \cap DOMAIN live
  BY <1>4, Zenon DEF Built
<1>10. live' \in Tables /\ DOMAIN live' \subseteq Id
  <2>1. DOMAIN live \subseteq Id /\ \A id \in DOMAIN live : live[id] \in Level
    BY TablesAre, Zenon DEF IInv, Typed
  <2>2. (DOMAIN live \ j.del) \cup {j.id} \in SUBSET Id
    BY <1>5, <2>1, Zenon
  <2>3. live' \in [(DOMAIN live \ j.del) \cup {j.id} -> Level]
    BY <1>2, <1>5, <2>1, Zenon DEF Acknowledged
  <2> QED
    BY <1>8, <2>2, <2>3, InTables, Zenon
<1>11. flushed' \in 0 .. MaxFlush
  <2>1. CASE IsFlush(j)
    <3>1. content[j.id] = {flushed + 1} /\ content[j.id] \subseteq 1 .. MaxFlush
      BY <1>4, <1>5, <2>1, Zenon DEF Built, IInv, Typed, TypeOK
    <3>2. flushed + 1 \in 1 .. MaxFlush
      BY <3>1, Zenon
    <3> QED
      BY <1>8, <2>1, <3>2
  <2>2. CASE ~IsFlush(j)
    BY <1>8, <2>2, Zenon DEF IInv, Typed, TypeOK
  <2> QED
    BY <2>1, <2>2, Zenon
<1>12. IdsUsed'
  <2>1. Used' = Used /\ jobs' \cup job' = jobs
    BY <1>1, Zenon DEF Used
  <2>2. /\ DOMAIN info.tables \subseteq Used /\ DOMAIN live \subseteq Used
        /\ gone \subseteq Used /\ uncounted \cap DOMAIN live = {}
        /\ \A k \in jobs : k.id \in Used /\ k.id \notin DOMAIN live \cup gone \cup uncounted
    BY <1>3, Zenon DEF IInv, IdsUsed
  <2>3. DOMAIN live' \subseteq Used /\ gone' \subseteq Used /\ uncounted \cap DOMAIN live' = {}
    BY <1>4, <1>8, <1>9, <2>2, Zenon
  <2>4. \A k \in jobs : k.id \notin DOMAIN live' \cup gone' \cup uncounted
    BY <1>7, <1>8, <1>9, <2>2, Zenon
  <2> QED
    BY <1>1, <2>1, <2>2, <2>3, <2>4, Zenon DEF IdsUsed
<1>13. Jobs'
  <2>1. ASSUME NEW k \in jobs PROVE Built(k)'
    <3>1. Built(k)
      BY Zenon DEF IInv, Jobs
    <3>2. IsFlush(k) => flushed' = flushed
      BY <1>7, <1>8, Zenon
    <3>3. k.del \subseteq claimed \cap DOMAIN live'
      BY <1>7, <1>8, <3>1, Zenon DEF Built
    <3> QED
      BY <1>1, <3>1, <3>2, <3>3, Zenon DEF Built, IsFlush
  <2>2. jobs' \cup job' = jobs
    BY <1>1, Zenon
  <2> QED
    BY <2>1, <2>2, Zenon DEF IInv, Jobs, IsFlush
<1>14. InMemory'
  <2>1. PICK t : t = info.tables
    BY Zenon
  <2>2. Ready(DOMAIN t, jobs)' /\ Covers(DOMAIN t)' /\ HasFiles(t)'
    <3>1. Ready(DOMAIN t, jobs) /\ Covers(DOMAIN t) /\ HasFiles(t)
      BY <1>3, <2>1, Zenon DEF IInv, InMemory
    <3>2. HasFiles(t)'
      BY <1>1, <3>1, Zenon DEF HasFiles, Files
    <3> QED
      BY <1>2, <1>6, <2>1, <3>1, <3>2, CoversAcknowledged, ReadyAcknowledged, Zenon
  <2>3. info'.tables = t
    BY <1>1, <2>1, Zenon
  <2> QED
    BY <1>1, <2>2, <2>3, Zenon DEF InMemory, Applied, Ready, Covers, HasFiles
<1>15. PICK c : c = Replay(file)
  BY Zenon
<1>16. Replay(file') = c
  BY <1>1, <1>15, Zenon
<1>17. ASSUME attached, tail = "none", c.status = "ok"
       PROVE  /\ Ready(DOMAIN c.tables, jobs) /\ j.id \in DOMAIN c.tables
              /\ j.del \cap DOMAIN c.tables = {}
  BY <1>3, <1>15, <1>17, Zenon DEF IInv, InFile, Applied
<1>18. InFile'
  <2>1. ASSUME attached, tail = "none", c.status = "ok" PROVE Ready(DOMAIN c.tables, jobs)'
    BY <1>2, <1>17, <2>1, ReadyAcknowledged, Zenon
  <2> QED
    BY <1>1, <1>3, <1>16, <2>1, Zenon DEF InFile, Ready
<1>19. AfterCrash'
  <2>1. CASE ~attached
    <3>1. Manifests' = Manifests /\ ~attached' /\ Used' = Used
      BY <1>1, <2>1, Zenon DEF Manifests, Used
    <3>2. ASSUME NEW f \in Manifests, NEW s \in Survivors(f)
          PROVE  DOMAIN Replay(s).tables \subseteq Used /\ HasFiles(Replay(s).tables)'
      <4>1. DOMAIN Replay(s).tables \subseteq Used /\ HasFiles(Replay(s).tables)
        BY <1>3, <3>2, Zenon DEF IInv, AfterCrash
      <4> QED
        BY <1>1, <4>1, Zenon DEF HasFiles, Files
    <3> QED
      BY <1>3, <3>1, <3>2, Zenon DEF AfterCrash
  <2>2. CASE attached
    <3>1. Manifests' = {Current'}
      <4>1. olds = {}
        BY <1>3, <2>2, Zenon DEF IInv, OnePush
      <4> QED
        BY <1>1, <4>1, Zenon DEF Manifests, Current
    <3>2. /\ Current'.file = file /\ Current'.tail = tail /\ Current'.synced = Len(file)
          /\ Current' = [file |-> file, tail |-> tail, synced |-> Len(file)]
      BY <1>1, <2>2, Zenon DEF Current
    <3>3. file \in Seq(Seq(Change)) /\ tail \in {"none"} \cup Torn
      BY CurrentIs, Zenon DEF IInv, Typed, TypeOK
    <3>4. Len(file) \in Nat
      BY <3>3
    <3>5. Current' \in ManifestFile
      BY <3>2, <3>3, <3>4, Zenon DEF ManifestFile
    <3>6. \A s \in Survivors(Current') : Replay(s) = c
      BY <1>15, <3>2, <3>5, OnlySurvivor, Zenon
    <3>7. /\ DOMAIN c.tables \subseteq Used /\ HasFiles(c.tables)
          /\ tail = "none" => Good(c)
      BY <1>3, <1>15, <2>2, CurrentIs, Zenon DEF IInv, AfterCrash
    <3>8. DOMAIN c.tables \subseteq Used' /\ HasFiles(c.tables)'
      BY <1>1, <3>7, Zenon DEF Used, HasFiles, Files
    <3>9. tail = "none" => Good(c)'
      <4>1. ASSUME tail = "none", c.status = "ok" PROVE Covers(DOMAIN c.tables)'
        <5>1. Covers(DOMAIN c.tables)
          BY <3>7, <4>1, Zenon DEF Good
        <5> QED
          BY <1>2, <1>17, <2>2, <4>1, <5>1, CoversAcknowledged, Zenon
      <4> QED
        BY <3>7, <4>1, Zenon DEF Good
    <3> QED
      BY <1>3, <3>1, <3>2, <3>6, <3>8, <3>9, Zenon DEF AfterCrash
  <2> QED
    BY <2>1, <2>2, Zenon
<1>20. file \in Seq(Seq(Change)) /\ synced' \in 1 .. Len(file) /\ synced' \in Nat
  <2>1. file \in Seq(Seq(Change)) /\ synced \in 1 .. Len(file)
    BY CurrentIs, Zenon DEF IInv
  <2> QED
    BY <1>1, <2>1
<1>21. Typed'
  <2>1. TypeOK'
    BY <1>1, <1>3, <1>10, <1>11, <1>20, Zenon DEF IInv, Typed, TypeOK, Files
  <2>2. ASSUME NEW f \in Manifests' PROVE f \in ManifestFile /\ f.synced \in 1 .. Len(f.file)
    <3>1. CASE f \in olds
      BY <3>1, Zenon DEF IInv, Typed, Manifests
    <3>2. CASE f = [file |-> file, tail |-> tail, synced |-> synced']
      <4>1. f \in ManifestFile
        BY <1>20, <3>2, Zenon DEF ManifestFile, IInv, Typed, TypeOK
      <4>2. f.synced = synced' /\ f.file = file
        BY <3>2, Zenon
      <4> QED
        BY <1>20, <4>1, <4>2, Zenon
    <3> QED
      BY <1>1, <2>2, <3>1, <3>2, Zenon DEF Manifests
  <2>3. gone' \subseteq Id
    BY <1>5, <1>8, Zenon DEF IInv, Typed
  <2> QED
    BY <1>1, <1>3, <1>10, <2>1, <2>2, <2>3, Zenon DEF IInv, Typed
<1>22. OnePush' /\ CountersAgree' /\ Closed'
  BY <1>1, <1>3, Zenon DEF IInv, OnePush, CountersAgree, Closed
<1> QED
  BY <1>12, <1>13, <1>14, <1>18, <1>19, <1>21, <1>22, Zenon DEF IInv

-----------------------------------------------------------------------------
\* Crash and open.

\* What a crash leaves is a survivor of one of the manifests.
LEMMA OutcomesSurvive ==
  ASSUME Typed, NEW o \in CrashOutcomes
  PROVE  \E f \in Manifests : /\ o.file \in Survivors(f) /\ o.tail \in {"none"} \cup Torn
                              /\ o.file \in Seq(Seq(Change)) /\ Len(o.file) >= 1
<1>1. PICK f \in Manifests : o \in Remains(f)
  BY Zenon DEF CrashOutcomes
<1>2. f \in ManifestFile /\ f.synced \in 1 .. Len(f.file)
  BY Zenon DEF Typed
<1>3. f.file \in Seq(Seq(Change)) /\ Len(f.file) \in Nat
  BY <1>2 DEF ManifestFile
<1>4. PICK n \in f.synced .. Len(f.file), t \in {"none"} \cup Torn :
        o = [file |-> SubSeq(f.file, 1, n), tail |-> t]
  <2> DEFINE less == IF f.tail = "none" THEN 1 ELSE 0
             Left(n, t) == [file |-> SubSeq(f.file, 1, n), tail |-> t]
  <2>1. \A n \in f.synced .. Len(f.file) - less : n \in f.synced .. Len(f.file)
    BY <1>2, <1>3
  <2>2. \/ \E n \in f.synced .. Len(f.file), t \in {"none"} : o = Left(n, t)
        \/ \E n \in f.synced .. Len(f.file) - less, t \in Torn : o = Left(n, t)
    BY <1>1 DEF Remains
  <2> HIDE DEF less
  <2>3. \E n \in f.synced .. Len(f.file), t \in {"none"} \cup Torn : o = Left(n, t)
    BY <2>1, <2>2, Zenon
  <2> QED
    BY <2>3, Zenon
<1>5. o.file = SubSeq(f.file, 1, n) /\ o.tail = t
  BY <1>4, Zenon
<1>6. SubSeq(f.file, 1, n) \in Seq(Seq(Change)) /\ Len(SubSeq(f.file, 1, n)) >= 1
  BY <1>2, <1>3
<1> QED
  BY <1>5, <1>6, Zenon DEF Survivors

LEMMA CrashInv == IInv /\ Crash => IInv'
<1> SUFFICES ASSUME IInv, Crash PROVE IInv'
  BY Zenon
<1>1. /\ pc' = "down" /\ info' = EmptyInfo /\ uncounted' = {} /\ live' = EmptyInfo.tables
      /\ claimed' = {} /\ next_file_id' = 1 /\ jobs' = {} /\ job' = {} /\ rewritten' = <<>>
      /\ attached' = TRUE /\ olds' = {} /\ UNCHANGED <<flushed, lost, gone>>
  BY Zenon DEF Crash, acks
<1>2. PICK o \in CrashOutcomes : file' = o.file /\ tail' = o.tail /\ synced' = Len(o.file)
  BY Zenon DEF Crash
<1>3. PICK kept \in SUBSET Files :
        /\ named' = kept
        /\ content' = [id \in Id |-> IF id \in kept THEN content[id] ELSE {}]
  BY Zenon DEF Crash
<1>4. /\ ~Up' /\ ~(pc' = "reopen") /\ pc' \in {"idle", "down", "refused"} /\ ~(pc' = "rename")
      /\ pc' \in {"idle", "append", "rewrite", "rename", "reopen", "sync", "down", "refused"}
  BY <1>1, Zenon DEF Up
<1>5. /\ file' \in Seq(Seq(Change)) /\ tail' \in {"none"} \cup Torn /\ Len(file') >= 1
      /\ synced' = Len(file')
  BY <1>2, OutcomesSurvive, Zenon DEF IInv
<1>6. synced' \in 1 .. Len(file') /\ synced' \in Nat
  BY <1>5
<1>7. Files' = kept
  <2>1. \A id \in kept : id \in Id /\ content[id] # {}
    BY Zenon DEF Files
  <2> QED
    BY <1>3, <2>1, Zenon DEF Files
<1>8. Typed'
  <2>1. content' \in [Id -> SUBSET (1 .. MaxFlush)]
    <3>1. \A id \in Id : content[id] \subseteq 1 .. MaxFlush
      BY Zenon DEF IInv, Typed, TypeOK
    <3> QED
      BY <1>3, <3>1, Zenon
  <2>2. /\ EmptyInfo \in Info /\ DOMAIN EmptyInfo.tables = {} /\ EmptyInfo.status = "ok"
        /\ EmptyInfo.tables \in Tables
    BY EmptyInfoIs, Zenon
  <2>3. /\ EmptyInfo.levels \in 0 .. MaxLevel + 1
        /\ EmptyInfo.creations \in Nat /\ EmptyInfo.deletions \in Nat
    BY <2>2, Zenon DEF Info
  <2>4. 1 \in 1 .. MaxId + 1 /\ <<>> \in Seq(Change)
    BY ManifestAssumption
  <2>5. \A id \in Id : content'[id] \subseteq 1 .. MaxFlush
    BY <2>1, Zenon
  <2>6. TypeOK'
    BY <1>1, <1>3, <1>4, <1>5, <1>6, <1>7, <2>2, <2>3, <2>4, <2>5, Zenon
       DEF IInv, Typed, TypeOK
  <2>7. ASSUME NEW f \in Manifests' PROVE f \in ManifestFile /\ f.synced \in 1 .. Len(f.file)
    <3>1. f = [file |-> file', tail |-> tail', synced |-> synced']
      BY <1>1, <2>7, Zenon DEF Manifests
    <3>2. f \in ManifestFile
      BY <1>5, <1>6, <3>1, Zenon DEF ManifestFile
    <3>3. f.synced = synced' /\ f.file = file'
      BY <3>1, Zenon
    <3> QED
      BY <1>6, <3>2, <3>3, Zenon
  <2> QED
    BY <1>1, <1>4, <2>1, <2>2, <2>4, <2>6, <2>7, Zenon DEF IInv, Typed
<1>9. Closed' /\ OnePush'
  BY <1>1, <1>3, <1>4, <1>5, <1>7, Zenon DEF Closed, OnePush
<1>10. IdsUsed' /\ InMemory' /\ InFile' /\ AfterCrash'
  BY <1>4, Zenon DEF IdsUsed, InMemory, InFile, AfterCrash
<1>11. Jobs'
  BY <1>1, Zenon DEF Jobs
<1>12. CountersAgree'
  <2>1. EmptyInfo.creations - EmptyInfo.deletions = 0
    BY DEF EmptyInfo
  <2>2. Cardinality({}) = 0 /\ 0 - 0 = 0
    BY FS_EmptySet
  <2> QED
    BY <1>1, <2>1, <2>2, EmptyInfoIs, Zenon DEF CountersAgree
<1> QED
  BY <1>8, <1>9, <1>10, <1>11, <1>12, Zenon DEF IInv

LEMMA OpenRefusedInv ==
  ASSUME IInv, pc = "down", pc' = "refused",
         UNCHANGED <<info, uncounted, live, claimed, next_file_id, jobs, job, content, named,
                     file, tail, synced, olds, rewritten, attached, acks>>
  PROVE  IInv'
<1>1. /\ ~Up /\ ~Up' /\ ~(pc' = "reopen") /\ ~(pc' = "rename")
      /\ pc \in {"idle", "down", "refused"} /\ pc' \in {"idle", "down", "refused"}
      /\ ~(pc = "reopen")
      /\ pc' \in {"idle", "append", "rewrite", "rename", "reopen", "sync", "down", "refused"}
  BY Zenon DEF Up
<1>2. UNCHANGED <<flushed, lost, gone>>
  BY Zenon DEF acks
<1>3. Typed'
  <2>1. Manifests' = Manifests
    BY Zenon DEF Manifests
  <2>2. TypeOK'
    BY <1>1, <1>2, Zenon DEF IInv, Typed, TypeOK, Files
  <2> QED
    BY <1>1, <1>2, <2>1, <2>2, Zenon DEF IInv, Typed
<1>4. Closed' /\ OnePush' /\ CountersAgree'
  BY <1>1, Zenon DEF IInv, Closed, OnePush, CountersAgree, Files
<1>5. IdsUsed' /\ InMemory' /\ InFile' /\ AfterCrash'
  BY <1>1, Zenon DEF IdsUsed, InMemory, InFile, AfterCrash
<1>6. Jobs'
  <2>1. jobs' = {} /\ job' = {}
    BY <1>1, Zenon DEF IInv, Closed, OnePush
  <2> QED
    BY <2>1, Zenon DEF Jobs
<1> QED
  BY <1>3, <1>4, <1>5, <1>6, Zenon DEF IInv

\* The next file id is above every table of the manifest.
LEMMA NextFileIdIs ==
  ASSUME NEW ids \in SUBSET Id
  PROVE  /\ NextFileId(ids) \in 1 .. MaxId + 1
         /\ \A id \in ids : id \in 1 .. NextFileId(ids) - 1
<1> DEFINE all == ids \cup {0}
<1>1. /\ all \subseteq Nat /\ all # {} /\ MaxId \in Nat
      /\ \A id \in all : id <= MaxId
      /\ \A id \in ids : id >= 1
  BY ManifestAssumption DEF Id
<1>2. \A id \in ids : id \in all
  BY Zenon
<1> HIDE DEF all
<1>3. Max(all) \in all /\ \A y \in all : y <= Max(all)
  BY <1>1, GreatestOf, Zenon
<1>4. NextFileId(ids) = Max(all) + 1
  BY Zenon DEF NextFileId, all
<1>5. Max(all) \in Nat /\ Max(all) <= MaxId
  BY <1>1, <1>3, Zenon
<1>6. \A id \in ids : id \in Nat /\ id >= 1 /\ id <= Max(all)
  BY <1>1, <1>2, <1>3, Zenon
<1> HIDE DEF NextFileId
<1> QED
  BY <1>1, <1>4, <1>5, <1>6

LEMMA OpenedInv ==
  ASSUME IInv, pc = "down", pc' = "idle", tail' = "none",
         NEW i, i = Replay(file), i.status = "ok", AllFilesExist(DOMAIN i.tables),
         info' = i, live' = i.tables, next_file_id' = NextFileId(DOMAIN i.tables),
         content' = Reverted(DOMAIN i.tables), named' = named \cap DOMAIN i.tables,
         lost' = lost \cup ((1 .. flushed) \ UNION {content[id] : id \in DOMAIN i.tables}),
         gone' = {id \in gone \ DOMAIN i.tables : id < next_file_id'},
         UNCHANGED <<uncounted, claimed, jobs, job, file, synced, olds, rewritten, attached,
                     flushed>>
  PROVE  IInv'
<1> DEFINE ids == DOMAIN i.tables
<1>1. /\ ~Up /\ Up' /\ pc \in {"idle", "down", "refused"} /\ pc' \in {"idle", "down", "refused"}
      /\ ~(pc' = "reopen") /\ ~(pc' = "append") /\ ~(pc' \in {"reopen", "sync"})
      /\ ~(pc' = "rename") /\ ~(pc = "reopen")
      /\ pc' \in {"idle", "append", "rewrite", "rename", "reopen", "sync", "down", "refused"}
  BY Zenon DEF Up
<1>2. /\ uncounted = {} /\ claimed = {} /\ jobs = {} /\ job = {} /\ olds = {}
      /\ attached /\ synced = Len(file) /\ named = Files
  BY <1>1, Zenon DEF IInv, Closed, OnePush
<1>3. file \in Seq(Seq(Change)) /\ synced \in 1 .. Len(file)
  BY CurrentIs, Zenon DEF IInv
<1>4. i \in Info /\ Balanced(i, 0)
  BY <1>3, ReplayKeeps, Zenon
<1>5. i.tables \in Tables
  BY <1>4, Zenon DEF Info
<1>6. ids \in SUBSET Id /\ ids \subseteq Files
  BY <1>5, TablesAre, Zenon DEF AllFilesExist
<1>7. /\ next_file_id' \in 1 .. MaxId + 1 /\ \A id \in ids : id \in 1 .. next_file_id' - 1
  BY <1>6, NextFileIdIs, Zenon
<1>8. ids \subseteq Used'
  BY <1>7, Zenon DEF Used
<1>9. gone \subseteq Id /\ gone' \subseteq Id /\ gone' \subseteq Used' /\ ids \cap gone' = {}
  <2>1. gone \subseteq Id
    BY Zenon DEF IInv, Typed
  <2>2. \A n \in 1 .. MaxId + 1 : \A id \in Id : id < n => id \in 1 .. n - 1
    BY ManifestAssumption DEF Id
  <2>3. \A id \in gone' : id \in gone /\ id \notin ids /\ id < next_file_id'
    BY Zenon
  <2>4. \A id \in gone' : id \in 1 .. next_file_id' - 1
    BY <1>7, <2>1, <2>2, <2>3, Zenon
  <2> QED
    BY <2>1, <2>3, <2>4, Zenon DEF Used
<1>10. \A id \in Id : content'[id] = IF id \in ids THEN content[id] ELSE {}
  BY Zenon DEF Reverted
<1>11. Files' = ids /\ named' = ids
  <2>1. \A id \in ids : id \in Id /\ content[id] # {}
    BY <1>6, Zenon DEF Files
  <2>2. Files' = ids
    BY <1>10, <2>1, Zenon DEF Files
  <2> QED
    BY <1>2, <1>6, <2>2, Zenon
<1> HIDE DEF ids
<1>12. Covers(ids)'
  <2>1. (1 .. flushed) \ lost' \subseteq UNION {content[id] : id \in ids}
    BY Zenon DEF ids
  <2>2. \A id \in ids : content'[id] = content[id]
    BY <1>6, <1>10, Zenon
  <2>3. UNION {content'[id] : id \in ids} = UNION {content[id] : id \in ids}
    BY <2>2, Zenon
  <2> QED
    BY <1>9, <2>1, <2>3, Zenon DEF Covers
<1>13. HasFiles(i.tables)'
  BY <1>11, Zenon DEF HasFiles, ids
<1>14. Ready(ids, jobs)' /\ Applied(ids)'
  BY <1>2, Zenon DEF Ready, Applied, ids
<1>15. IdsUsed'
  BY <1>2, <1>8, <1>9, Zenon DEF IdsUsed, ids
<1>16. Jobs'
  BY <1>2, Zenon DEF Jobs
<1>17. InMemory'
  BY <1>12, <1>13, <1>14, Zenon DEF InMemory, ids, Ready, Applied, Covers, HasFiles
<1>18. Replay(file)' = i
  BY Zenon
<1>19. InFile'
  BY <1>1, <1>14, <1>18, Zenon DEF InFile, ids, Ready, Applied
<1>20. AfterCrash'
  <2>1. Manifests' = {Current'}
    BY <1>2, Zenon DEF Manifests, Current
  <2>2. /\ Current'.file = file /\ Current'.tail = "none" /\ Current'.synced = Len(file)
        /\ Current' = [file |-> file, tail |-> "none", synced |-> synced]
    BY <1>2, Zenon DEF Current
  <2>3. synced \in Nat /\ "none" \in {"none"} \cup Torn
    BY <1>3
  <2>4. Current' \in ManifestFile
    <3>1. [file |-> file, tail |-> "none", synced |-> synced] \in ManifestFile
      BY <1>3, <2>3, Zenon DEF ManifestFile
    <3> QED
      BY <2>2, <3>1, Zenon
  <2>5. \A s \in Survivors(Current') : Replay(s) = i
    BY <2>2, <2>4, OnlySurvivor, Zenon
  <2>6. Good(i)'
    <3>1. i.status # "error"
      BY Zenon
    <3> QED
      BY <1>12, <3>1, Zenon DEF Good, ids
  <2> QED
    BY <1>1, <1>8, <1>13, <2>1, <2>5, <2>6, Zenon DEF AfterCrash, ids
<1>21. CountersAgree'
  <2>1. Cardinality(ids) \in Nat /\ Cardinality({}) = 0
    BY <1>6, IdsFinite, FS_EmptySet, Zenon
  <2>2. i.creations - i.deletions = Cardinality(ids) - 0 - 0
    BY <1>4, Zenon DEF Balanced, ids
  <2>3. i.creations - i.deletions = Cardinality(ids) - 0
    BY <2>1, <2>2
  <2> QED
    BY <1>2, <2>1, <2>3, Zenon DEF CountersAgree, ids
<1>22. Typed'
  <2>1. /\ i.levels \in 0 .. MaxLevel + 1 /\ i.creations \in Nat /\ i.deletions \in Nat
    BY <1>4, Zenon DEF Info
  <2>2. DOMAIN i.tables \subseteq Id /\ \A id \in DOMAIN i.tables : i.tables[id] \in Level
    BY <1>5, TablesAre, Zenon
  <2>3. content' \in [Id -> SUBSET (1 .. MaxFlush)]
    <3>1. \A id \in Id : content[id] \subseteq 1 .. MaxFlush
      BY Zenon DEF IInv, Typed, TypeOK
    <3> QED
      BY <3>1, Zenon DEF Reverted
  <2>4. \A id \in Id : content'[id] \subseteq 1 .. MaxFlush
    BY <2>3, Zenon
  <2>5. "none" \in {"none"} \cup Torn
    BY Zenon
  <2>6. TypeOK'
    BY <1>1, <1>3, <1>7, <1>11, <2>1, <2>2, <2>4, <2>5, Zenon DEF IInv, Typed, TypeOK, ids
  <2>7. ASSUME NEW f \in Manifests' PROVE f \in ManifestFile /\ f.synced \in 1 .. Len(f.file)
    <3>1. f = [file |-> file, tail |-> "none", synced |-> synced]
      BY <1>2, <2>7, Zenon DEF Manifests
    <3>2. synced \in Nat
      BY <1>3
    <3>3. f \in ManifestFile
      BY <1>3, <2>5, <3>1, <3>2, Zenon DEF ManifestFile
    <3>4. f.synced = synced /\ f.file = file
      BY <3>1, Zenon
    <3> QED
      BY <1>3, <3>3, <3>4, Zenon
  <2> QED
    BY <1>1, <1>4, <1>5, <1>9, <2>3, <2>6, <2>7, Zenon DEF IInv, Typed
<1>23. Closed' /\ OnePush'
  BY <1>1, <1>2, Zenon DEF Closed, OnePush
<1> QED
  BY <1>15, <1>16, <1>17, <1>19, <1>20, <1>21, <1>22, <1>23, Zenon DEF IInv

LEMMA OpenInv == IInv /\ Open => IInv'
<1> SUFFICES ASSUME IInv, Open PROVE IInv'
  BY Zenon
<1>1. PICK i : i = Replay(file)
  BY Zenon
<1>2. CASE tail = "refuse" \/ i.status # "ok" \/ ~AllFilesExist(DOMAIN i.tables)
  BY <1>1, <1>2, OpenRefusedInv, Zenon DEF Open, memory, building, acks
<1>3. CASE ~(tail = "refuse" \/ i.status # "ok" \/ ~AllFilesExist(DOMAIN i.tables))
  <2>1. i.status = "ok" /\ AllFilesExist(DOMAIN i.tables)
    BY <1>3, Zenon
  <2> QED
    BY <1>1, <1>3, <2>1, OpenedInv, Zenon DEF Open
<1> QED
  BY <1>2, <1>3, Zenon

-----------------------------------------------------------------------------
\* The invariant, and what it gives.

LEMMA InitIInv == Init => IInv
<1> SUFFICES ASSUME Init PROVE IInv
  BY Zenon
<1>1. /\ info = EmptyInfo /\ uncounted = {} /\ live = EmptyInfo.tables /\ claimed = {}
      /\ next_file_id = 1 /\ jobs = {} /\ job = {} /\ pc = "idle"
      /\ content = [id \in Id |-> {}] /\ named = {}
      /\ file = << <<>> >> /\ tail = "none" /\ synced = 1
      /\ rewritten = <<>> /\ attached = TRUE /\ olds = {}
      /\ flushed = 0 /\ lost = {} /\ gone = {}
  BY Zenon DEF Init
<1>2. /\ Up /\ pc \in {"idle", "down", "refused"} /\ pc # "reopen" /\ ~(pc = "rename")
      /\ pc \in {"idle", "append", "rewrite", "rename", "reopen", "sync", "down", "refused"}
      /\ ~(pc \in {"reopen", "sync"}) /\ ~(pc = "append")
  BY <1>1, Zenon DEF Up
<1>3. /\ EmptyInfo \in Info /\ DOMAIN EmptyInfo.tables = {} /\ EmptyInfo.status = "ok"
      /\ EmptyInfo.tables \in Tables
  BY EmptyInfoIs, Zenon
<1>4. /\ file \in Seq(Seq(Change)) /\ Len(file) = 1 /\ synced \in 1 .. Len(file)
      /\ <<>> \in Seq(Change) /\ synced = Len(file)
  BY <1>1
<1>5. Files = {}
  BY <1>1, Zenon DEF Files
<1>6. Current = [file |-> file, tail |-> "none", synced |-> 1] /\ Manifests = {Current}
  BY <1>1, Zenon DEF Current, Manifests
<1>7. /\ Current.file = file /\ Current.synced = 1 /\ 1 \in Nat
      /\ "none" \in {"none"} \cup Torn
  BY <1>6, Zenon
<1>8. Current \in ManifestFile
  BY <1>4, <1>6, <1>7, Zenon DEF ManifestFile
<1>9. Typed
  <2>1. /\ EmptyInfo.levels \in 0 .. MaxLevel + 1 /\ EmptyInfo.creations \in Nat
        /\ EmptyInfo.deletions \in Nat
    BY <1>3, Zenon DEF Info
  <2>2. content \in [Id -> SUBSET (1 .. MaxFlush)] /\ \A id \in Id : content[id] = {}
    BY <1>1, Zenon
  <2>3. 1 \in 1 .. MaxId + 1 /\ 0 \in 0 .. MaxFlush
    BY ManifestAssumption
  <2>4. TypeOK
    BY <1>1, <1>2, <1>3, <1>4, <1>5, <1>7, <2>1, <2>2, <2>3, Zenon DEF TypeOK
  <2> QED
    BY <1>1, <1>2, <1>3, <1>4, <1>6, <1>7, <1>8, <2>2, <2>4, Zenon DEF Typed
<1>10. PICK i : i = Replay(file)
  BY Zenon
<1>11. i = EmptyInfo
  BY <1>1, <1>3, <1>4, <1>10, ReplayOne, EmptySetKeeps, Zenon
<1>12. Covers({}) /\ HasFiles(EmptyInfo.tables)
  <2>1. 1 .. flushed = {}
    BY <1>1
  <2> QED
    BY <1>3, <2>1, Zenon DEF Covers, HasFiles
<1>13. Closed /\ OnePush /\ IdsUsed /\ Jobs
  BY <1>1, <1>2, <1>3, Zenon DEF Closed, OnePush, IdsUsed, Jobs
<1>14. InMemory /\ InFile
  BY <1>1, <1>2, <1>3, <1>10, <1>11, <1>12, Zenon DEF InMemory, InFile, Ready, Applied
<1>15. AfterCrash
  <2>1. \A s \in Survivors(Current) : Replay(s) = EmptyInfo
    BY <1>4, <1>7, <1>8, <1>10, <1>11, <1>1, OnlySurvivor, Zenon
  <2>2. EmptyInfo.status # "error"
    BY <1>3, Zenon
  <2>3. Good(EmptyInfo)
    BY <1>3, <1>12, <2>2, Zenon DEF Good
  <2> QED
    BY <1>2, <1>3, <1>6, <1>12, <2>1, <2>3, Zenon DEF AfterCrash
<1>16. CountersAgree
  <2>1. EmptyInfo.creations - EmptyInfo.deletions = 0
    BY DEF EmptyInfo
  <2>2. Cardinality({}) = 0 /\ 0 - 0 = 0
    BY FS_EmptySet
  <2> QED
    BY <1>1, <1>3, <2>1, <2>2, Zenon DEF CountersAgree
<1> QED
  BY <1>9, <1>13, <1>14, <1>15, <1>16, Zenon DEF IInv

LEMMA StutterIInv == IInv /\ UNCHANGED vars => IInv'
<1> SUFFICES ASSUME IInv, UNCHANGED vars PROVE IInv'
  BY Zenon
<1>1. UNCHANGED <<info, uncounted, live, claimed, next_file_id, jobs, job, pc, content, named,
                  file, tail, synced, rewritten, attached, olds, flushed, lost, gone>>
  BY Zenon DEF vars, memory, building, disk, acks
<1>2. Typed' /\ Closed'
  BY <1>1, Zenon DEF IInv, Typed, TypeOK, Files, Manifests, Closed, Up
<1>3. OnePush' /\ IdsUsed' /\ Jobs' /\ CountersAgree'
  BY <1>1, Zenon DEF IInv, Up, OnePush, IdsUsed, Used, Jobs, Built, CountersAgree
<1>4. InMemory' /\ InFile'
  BY <1>1, Zenon DEF IInv, InMemory, InFile, Up, Ready, Applied, Covers, HasFiles, Files
<1>5. AfterCrash'
  <2>1. CASE Up
    <3>1. Up' /\ acks' = acks
      BY <1>1, <2>1, Zenon DEF Up, acks
    <3>2. Calm
      BY <1>1, <2>1, <3>1, MemoryKept, Zenon
    <3> QED
      BY <1>1, <3>2, OutcomesCalm, Zenon DEF IInv
  <2>2. CASE ~Up
    BY <1>1, <2>2, Zenon DEF Up, AfterCrash
  <2> QED
    BY <2>1, <2>2, Zenon
<1> QED
  BY <1>2, <1>3, <1>4, <1>5, Zenon DEF IInv

\* Every step of the flush and compaction tasks, of push_changes, a crash and an
\* opening keeps the invariant.
LEMMA NextIInv == IInv /\ [Next]_vars => IInv'
<1> SUFFICES ASSUME IInv, [Next]_vars PROVE IInv'
  BY Zenon
<1>1. CASE BuildFlush
  BY <1>1, BuildFlushInv, Zenon
<1>2. CASE BuildCompact
  BY <1>2, BuildCompactInv, Zenon
<1>3. CASE SyncDir
  BY <1>3, SyncDirInv, Zenon
<1>4. CASE Push
  BY <1>4, PushInv, Zenon
<1>5. CASE AppendSet
  BY <1>5, AppendSetInv, Zenon
<1>6. CASE AppendFails
  BY <1>6, AppendFailsInv, Zenon
<1>7. CASE WriteRewrite
  BY <1>7, WriteRewriteInv, Zenon
<1>8. CASE Rename
  BY <1>8, RenameInv, Zenon
<1>9. CASE Reopen
  BY <1>9, ReopenInv, Zenon
<1>10. CASE RewriteFails
  BY <1>10, RewriteFailsInv, Zenon
<1>11. CASE Acknowledge
  BY <1>11, AcknowledgeInv, Zenon
<1>12. CASE SyncFails
  BY <1>12, SyncFailsInv, Zenon
<1>13. CASE Crash
  BY <1>13, CrashInv, Zenon
<1>14. CASE Open
  BY <1>14, OpenInv, Zenon
<1>15. CASE UNCHANGED vars
  BY <1>15, StutterIInv, Zenon
<1> QED
  BY <1>1, <1>2, <1>3, <1>4, <1>5, <1>6, <1>7, <1>8, <1>9, <1>10, <1>11, <1>12, <1>13,
     <1>14, <1>15, Zenon DEF Next

\* Memory, the manifest's file, the table files and the level handlers agree at
\* every step, through failed pushes, panics, crashes and reopenings (manifest.rs).
THEOREM ManifestInvariance == Spec => []IInv
<1>1. Init => IInv
  BY InitIInv, Zenon
<1>2. IInv /\ [Next]_vars => IInv'
  BY NextIInv, Zenon
<1> QED
  BY <1>1, <1>2, PTL DEF Spec

\* A manifest without a torn change set replays without an error of
\* apply_manifest_change, whatever a crash leaves of it, and lists every flush that
\* push_changes acknowledged and no table it acknowledged the deletion of.
THEOREM AcknowledgedIsDurable == Spec => []Durable
<1>1. IInv => Durable
  <2> SUFFICES ASSUME IInv, Up, Intact, NEW o \in CrashOutcomes
               PROVE  Good(Replay(o.file))
    BY Zenon DEF Durable, Good, Covers
  <2>1. PICK f \in Manifests : o.file \in Survivors(f)
    BY OutcomesSurvive, Zenon DEF IInv
  <2>2. attached /\ f.tail = "none"
    BY Zenon DEF Intact
  <2> QED
    BY <2>1, <2>2, Zenon DEF IInv, AfterCrash
<1> QED
  BY <1>1, ManifestInvariance, PTL

\* No push is refused by the tables in memory: apply_manifest_change meets neither
\* "removes non-existing table" nor "table exists".
THEOREM PushesApply == Spec => []AppliesCleanly
<1>1. IInv => AppliesCleanly
  <2> SUFFICES ASSUME IInv, NEW j \in jobs
               PROVE  ApplyChangeSet(info, Changes(j)).status # "error"
    BY Zenon DEF AppliesCleanly
  <2>1. Up
    BY Zenon DEF IInv, Closed
  <2>2. /\ j \in Job /\ info \in Info /\ info.status = "ok"
        /\ j.id \notin DOMAIN info.tables /\ j.del \subseteq DOMAIN info.tables
    BY <2>1, Zenon DEF IInv, Typed, TypeOK, InMemory, Ready
  <2>3. \/ ApplyChangeSet(info, Changes(j)).status = "ok"
        \/ ApplyChangeSet(info, Changes(j)).status = "panic"
    BY <2>2, JobApplied, Zenon
  <2> QED
    BY <2>3, Zenon
<1> QED
  BY <1>1, ManifestInvariance, PTL

\* creations - deletions never wraps around: it is the number of tables in memory
\* but for those a panic left uncounted.
THEOREM CountersNeverWrap == Spec => []CountersAgree
<1>1. IInv => CountersAgree
  BY Zenon DEF IInv
<1> QED
  BY <1>1, ManifestInvariance, PTL

\* No crash makes the manifest list a table without a file, nor a compacted one
\* whose directory entry may vanish.
THEOREM ListedFilesExist == Spec => []FilesKept
<1>1. IInv => FilesKept
  <2> SUFFICES ASSUME IInv, Up, NEW o \in CrashOutcomes
               PROVE  HasFiles(Replay(o.file).tables)
    BY Zenon DEF FilesKept, HasFiles
  <2>1. PICK f \in Manifests : o.file \in Survivors(f)
    BY OutcomesSurvive, Zenon DEF IInv
  <2> QED
    BY <2>1, Zenon DEF IInv, AfterCrash
<1> QED
  BY <1>1, ManifestInvariance, PTL

=============================================================================
