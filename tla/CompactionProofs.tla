-------------------------- MODULE CompactionProofs --------------------------
(***************************************************************************)
(* Compaction loses no newest value, keeps the lower levels sorted and lets *)
(* no two compactors take the same table, for any number of levels, tables *)
(* and compactors, any sizes and any interleaving with flushes and         *)
(* restarts.                                                               *)
(***************************************************************************)
EXTENDS CompactionPlanProofs

-----------------------------------------------------------------------------
\* Tables are built.

\* The entries of the tables of a plan are finitely many.
LEMMA EntriesFinite ==
  ASSUME NEW s \in Seq(Table)
  PROVE  Entries(Range(s)) \subseteq Entry /\ IsFiniteSet(Entries(Range(s)))
<1> DEFINE E == {t.ents : t \in Range(s)}
<1>1. IsFiniteSet(Range(s)) /\ Range(s) \subseteq Table
  BY RangeFinite, Zenon
<1>2. \A t \in Range(s) : t.ents \subseteq Entry /\ IsFiniteSet(t.ents)
  BY <1>1, Zenon DEF Table
<1>3. IsFiniteSet(E)
  <2>1. [t \in Range(s) |-> t.ents] \in Surjection(Range(s), E)
    BY Zenon DEF Surjection
  <2> QED
    BY <1>1, <2>1, FS_Surjection, Zenon
<1>4. \A T \in E : IsFiniteSet(T)
  BY <1>2, Zenon
<1>5. IsFiniteSet(UNION E)
  <2> HIDE DEF E
  <2> QED
    BY <1>3, <1>4, FS_UNION, Zenon
<1> QED
  BY <1>2, <1>5, Zenon DEF Entries

LEMMA BuildStuckIInv ==
  ASSUME IInv, NEW c \in Compactor, pc[c] = "build", pc' = [pc EXCEPT ![c] = "stuck"],
         UNCHANGED <<levels, ranges, busy, manifest, next_file_id, version, latest,
                     flushing, prios, base, plan, out>>
  PROVE  IInv'
<1>0. Typed /\ InStep
  BY Zenon DEF IInv
<1>1. Typed' /\ InStep'
  BY <1>0, Zenon DEF Typed, InStep
<1>2. \A d \in Compactor : pc'[d] = pc[d] \/ (out[d] = <<>> /\ pc'[d] # "delete")
  BY <1>0, Zenon DEF Typed, InStep
<1> QED
  BY <1>1, <1>2, Quiet, Zenon DEF IInv

\* What compact_build_tables keeps: entries of top, and of every key the newest
\* value unless that is a deletion.
LEMMA KeptIs ==
  ASSUME IInv, NEW c \in Planned, NEW p, p = plan[c][1]
  PROVE  /\ Kept(p) \subseteq Entries(Range(p.top)) /\ Kept(p) \subseteq Entry
         /\ IsFiniteSet(Kept(p))
         /\ \A k \in Key : \A e \in latest[k] :
              ~e.d /\ e \in Entries(Range(p.top)) => e \in Kept(p)
         /\ \A e \in Entries(Range(p.top)) :
              e.v <= version /\ \A f \in latest[e.k] : e.v <= f.v
<1> DEFINE ents == Entries(Range(p.top))
<1>0. /\ Typed /\ Claimed /\ Versions /\ p.top \in Seq(Table) /\ p.this \in Level
      /\ Range(p.top) \subseteq Range(levels[p.this])
  BY PlanIs, Zenon DEF IInv, Claimed
<1>1. ents \subseteq Entry /\ IsFiniteSet(ents)
  BY <1>0, EntriesFinite, Zenon
<1>2. Kept(p) \subseteq ents
  BY Zenon DEF Kept, Newest
<1>3. ASSUME NEW e \in ents
      PROVE  e.v <= version /\ \A f \in latest[e.k] : e.v <= f.v
  <2>1. PICK t \in Range(p.top) : e \in t.ents
    BY Zenon DEF Entries
  <2>2. <<p.this, t>> \in Homes /\ <<p.this, t>>[2] = t
    BY <1>0, AtHome, Zenon
  <2> QED
    BY <1>0, <2>1, <2>2, Zenon DEF Versions
<1> HIDE DEF ents
<1>4. ASSUME NEW k \in Key, NEW e \in latest[k], ~e.d, e \in ents
      PROVE  e \in Newest(ents)
  <2>1. e.k = k
    BY <1>0, Zenon DEF Versions
  <2> QED
    BY <1>3, <1>4, <2>1, Zenon DEF Newest
<1>5. ASSUME NEW k \in Key, NEW e \in latest[k], ~e.d, e \in ents
      PROVE  e \in Kept(p)
  BY <1>4, <1>5, Zenon DEF Kept, Dropped, ents
<1>6. IsFiniteSet(Kept(p))
  BY <1>1, <1>2, FS_Subset, Zenon
<1> QED
  BY <1>1, <1>2, <1>3, <1>5, <1>6, Zenon DEF ents

\* Build when the tables are done.
LEMMA BuildPushIInv ==
  ASSUME IInv, NEW c \in Compactor, pc[c] = "build", NEW p, p = plan[c][1],
         p.bottom = <<>>, NEW new \in BuiltTables(Kept(p)), NEW drop, drop \subseteq Entry,
         out' = [out EXCEPT ![c] = <<[new |-> new, dropped |-> drop]>>],
         next_file_id' = next_file_id + Len(new), pc' = [pc EXCEPT ![c] = "push"],
         UNCHANGED <<levels, ranges, busy, manifest, version, latest, flushing,
                     prios, base, plan>>
  PROVE  IInv'
<1>0. /\ Typed /\ InStep /\ Named /\ Backed /\ Claimed /\ Exclusive /\ Outputs /\ Room
      /\ InOrder /\ Versions /\ NewestKept
  BY Zenon DEF IInv
<1>1. c \in Planned /\ c \notin Built /\ prios[c] # <<>> /\ plan[c] # <<>>
  BY <1>0, Zenon DEF InStep, Planned, Built
<1>2. /\ p.this \in Level /\ p.next \in Level /\ p.top \in Seq(Table)
      /\ p.this_range \in KeyTsRange /\ Range(p.top) \subseteq Table
      /\ Range(p.top) \subseteq Range(levels[p.this])
  BY <1>0, <1>1, PlanIs, Zenon DEF Claimed
<1>3. /\ Kept(p) \subseteq Entries(Range(p.top)) /\ Kept(p) \subseteq Entry
      /\ IsFiniteSet(Kept(p))
      /\ \A k \in Key : \A e \in latest[k] :
           ~e.d /\ e \in Entries(Range(p.top)) => e \in Kept(p)
      /\ \A e \in Entries(Range(p.top)) : e.v <= version /\ \A f \in latest[e.k] : e.v <= f.v
  BY <1>1, KeptIs, Zenon
<1>4. next_file_id \in Nat
  BY <1>0, Zenon DEF Typed
<1>5. /\ new \in Seq(Table) /\ Entries(Range(new)) = Kept(p)
      /\ \A i \in DOMAIN new : new[i].id = next_file_id + i - 1
      /\ \A i, j \in DOMAIN new : i # j => Disjoint(new[i], new[j])
  BY <1>3, <1>4, BuiltIs, Zenon
<1>6. /\ Range(new) \subseteq Table
      /\ \A t \in Range(new) : next_file_id <= t.id /\ t.id < next_file_id'
      /\ \A t, u \in Range(new) : t # u => t.id # u.id /\ Disjoint(t, u)
      /\ next_file_id' \in Nat /\ next_file_id <= next_file_id'
  <2>1. Len(new) \in Nat /\ DOMAIN new = 1 .. Len(new)
    BY <1>5
  <2>2. \A t \in Range(new) : \E i \in 1 .. Len(new) : t = new[i]
    BY <2>1, Zenon DEF Range
  <2>3. Range(new) \subseteq Table
    BY <1>5, RangeFinite, Zenon
  <2>4. \A t \in Range(new) : next_file_id <= t.id /\ t.id < next_file_id'
    BY <1>4, <1>5, <2>1, <2>2
  <2>5. ASSUME NEW t \in Range(new), NEW u \in Range(new), t # u
        PROVE  t.id # u.id /\ Disjoint(t, u)
    <3>1. PICK i \in 1 .. Len(new) : t = new[i]
      BY <2>2, Zenon
    <3>2. PICK j \in 1 .. Len(new) : u = new[j]
      BY <2>2, Zenon
    <3>3. i # j
      BY <2>5, <3>1, <3>2, Zenon
    <3>4. Disjoint(t, u)
      BY <1>5, <2>1, <3>1, <3>2, <3>3, Zenon
    <3> QED
      BY <1>4, <1>5, <2>1, <3>1, <3>2, <3>3, <3>4
  <2> QED
    BY <1>4, <2>1, <2>3, <2>4, <2>5
<1>7. /\ out'[c] = <<[new |-> new, dropped |-> drop]>> /\ pc'[c] = "push"
      /\ \A d \in Compactor \ {c} : out'[d] = out[d] /\ pc'[d] = pc[d]
  BY <1>0, Zenon DEF Typed
<1>8. /\ \A d : d \in Built' <=> d \in Built \/ d = c
      /\ Built \subseteq Compactor
      /\ New(c)' = Range(new) /\ \A d \in Built : d # c /\ New(d)' = New(d) /\ pc'[d] = pc[d]
  <2>1. out'[c][1].new = new /\ out'[c] # <<>>
    BY <1>7
  <2> QED
    BY <1>1, <1>7, <2>1, Zenon DEF Built, New
<1>9. Typed'
  <2> DEFINE O == [new : Seq(Table), dropped : SUBSET Entry]
  <2>1. out' \in [Compactor -> Seq(O)]
    <3>1. out \in [Compactor -> Seq(O)]
      BY <1>0, Zenon DEF Typed
    <3>2. [new |-> new, dropped |-> drop] \in O
      BY <1>5, Zenon
    <3> HIDE DEF O
    <3>3. <<[new |-> new, dropped |-> drop]>> \in Seq(O)
      BY <3>2
    <3> QED
      BY <3>1, <3>3, Zenon
  <2>2. pc' \in [Compactor -> {"idle", "start", "dead", "build", "stuck", "push",
                               "replace", "delete"}]
    BY <1>0, Zenon DEF Typed
  <2> QED
    BY <1>0, <1>6, <2>1, <2>2, Zenon DEF Typed
<1>10. InStep'
  <2>1. out'[c] # <<>>
    BY <1>7
  <2> QED
    BY <1>0, <1>1, <1>7, <2>1, Zenon DEF InStep
<1>11. \A x \in Homes' : x \in Homes \/ \E t \in Range(new) : x = <<p.next, t>>
  <2> TAKE x \in Homes'
  <2>1. CASE \E d \in Built' : \E t \in New(d)' : x = <<plan[d][1].next, t>>
    <3>1. PICK d \in Built' : \E t \in New(d)' : x = <<plan[d][1].next, t>>
      BY <2>1, Zenon
    <3>2. CASE d = c
      BY <1>8, <3>1, <3>2, Zenon
    <3>3. CASE d \in Built
      BY <1>8, <3>1, <3>3, AtHome
    <3> QED
      BY <1>8, <3>1, <3>2, <3>3, Zenon
  <2>2. CASE ~\E d \in Built' : \E t \in New(d)' : x = <<plan[d][1].next, t>>
    <3>1. \/ \E l \in Level : \E t \in Range(levels[l]) : x = <<l, t>>
          \/ \E t \in Range(flushing) : x = <<0, t>>
      BY <2>2, HomesNext
    <3> QED
      BY <3>1, HomesAre, Zenon
  <2> QED
    BY <2>1, <2>2, Zenon
<1>12. Named'
  <2>1. \A x \in Homes : x[2].id < next_file_id /\ x[2].id \in Nat
    <3>1. \A t \in Table : t.id \in Nat
      BY Zenon DEF Table
    <3> QED
      BY <1>0, <3>1, HomesTyped, Zenon DEF Named
  <2>2. \A t \in Range(new) : t.id \in Nat
    BY <1>6, Zenon DEF Table
  <2>3. ASSUME NEW x \in Homes' PROVE x[2].id < next_file_id'
    BY <1>4, <1>6, <1>11, <2>1
  <2>4. ASSUME NEW x \in Homes', NEW y \in Homes', x[2].id = y[2].id PROVE x = y
    <3>1. CASE x \in Homes /\ y \in Homes
      BY <1>0, <2>4, <3>1, Zenon DEF Named
    <3>2. CASE x \in Homes /\ \E t \in Range(new) : y = <<p.next, t>>
      BY <1>4, <1>6, <2>1, <2>2, <2>4, <3>2
    <3>3. CASE y \in Homes /\ \E t \in Range(new) : x = <<p.next, t>>
      BY <1>4, <1>6, <2>1, <2>2, <2>4, <3>3
    <3>4. CASE /\ \E t \in Range(new) : x = <<p.next, t>>
               /\ \E t \in Range(new) : y = <<p.next, t>>
      BY <1>6, <2>4, <3>4
    <3> QED
      BY <1>11, <3>1, <3>2, <3>3, <3>4, Zenon
  <2> QED
    BY <2>3, <2>4, Zenon DEF Named
<1>13. Versions'
  <2>1. ASSUME NEW t \in Range(new), NEW e \in t.ents
        PROVE  e.v <= version /\ \A f \in latest[e.k] : e.v <= f.v
    <3>1. e \in Entries(Range(new))
      BY Zenon DEF Entries
    <3>2. e \in Entries(Range(p.top))
      BY <1>3, <1>5, <3>1, Zenon
    <3> QED
      BY <1>3, <3>2, Zenon
  <2>2. ASSUME NEW x \in Homes', NEW e \in x[2].ents
        PROVE  e.v <= version /\ \A f \in latest[e.k] : e.v <= f.v
    <3>1. CASE x \in Homes
      BY <1>0, <2>2, <3>1, Zenon DEF Versions
    <3>2. CASE \E t \in Range(new) : x = <<p.next, t>>
      BY <2>1, <2>2, <3>2
    <3> QED
      BY <1>11, <3>1, <3>2, Zenon
  <2> QED
    BY <1>0, <2>2, Zenon DEF Versions
<1>14. Backed'
  BY <1>0, <1>8 DEF Backed
<1>15. Claimed'
  BY <1>0 DEF Claimed, Planned, Taken, Descends
<1>16. Exclusive'
  <2>1. ASSUME NEW d \in Planned, NEW t \in Taken(d), NEW u \in Range(new) PROVE t.id # u.id
    <3>1. \E l \in Level : <<l, t>> \in Homes
      BY <1>0, PlanIs, AtHome, Zenon DEF Claimed, Taken
    <3>2. t.id < next_file_id
      BY <1>0, <3>1, Zenon DEF Named
    <3>3. t \in Table /\ u \in Table
      BY <1>0, <1>6, PlanIs, Zenon
    <3> QED
      BY <1>4, <1>6, <3>2, <3>3 DEF Table
  <2>2. Planned' = Planned /\ \A d : Taken(d)' = Taken(d)
    BY Zenon DEF Planned, Taken
  <2> QED
    BY <1>0, <1>8, <2>1, <2>2 DEF Exclusive
<1>17. Outputs'
  <2>1. Descends(c) => \A t \in Range(new) : Within(t, p.this_range)
    <3> SUFFICES ASSUME Descends(c), NEW t \in Range(new) PROVE Within(t, p.this_range)
      BY Zenon
    <3>1. ~p.this_range.inf /\ \A u \in Range(p.top) : Within(u, p.this_range)
      <4>1. ~(p.this = 0 /\ p.next = 0)
        BY DEF Descends
      <4> QED
        BY <1>0, <1>1, <4>1, Zenon DEF Claimed
    <3>2. ASSUME NEW k \in KeysOf(t) PROVE p.this_range.lo <= k /\ k <= p.this_range.hi
      <4>1. PICK e \in t.ents : k = e.k
        BY Zenon DEF KeysOf
      <4>2. e \in Entries(Range(new))
        BY Zenon DEF Entries
      <4>a. e \in Entries(Range(p.top))
        BY <1>3, <1>5, <4>2, Zenon
      <4>3. PICK u \in Range(p.top) : e \in u.ents
        BY <4>a, Zenon DEF Entries
      <4>4. u \in Table /\ Within(u, p.this_range)
        BY <1>2, <3>1, Zenon
      <4>5. /\ Smallest(u) \in Nat /\ Biggest(u) \in Nat /\ Smallest(u) <= k /\ k <= Biggest(u)
            /\ k \in Nat
        <5>1. k \in Key
          BY <4>1, <4>3, <4>4, Zenon DEF Table, Entry
        <5> QED
          BY <4>1, <4>3, <4>4, <5>1, TableKeys, KeyAssumption
      <4> QED
        BY <1>2, <3>1, <4>4, <4>5 DEF Within, KeyTsRange
    <3>3. Smallest(t) \in KeysOf(t) /\ Biggest(t) \in KeysOf(t)
      BY <1>6, TableKeys, Zenon
    <3> QED
      BY <3>2, <3>3, Zenon DEF Within
  <2>2. \A k \in Key : \A e \in latest[k] :
          ~e.d /\ e \in Entries(Range(p.top)) => e \in Entries(Range(new))
    BY <1>3, <1>5, Zenon
  <2> SUFFICES ASSUME NEW d \in Built'
               PROVE  LET q == plan[d][1]
    IN /\ q.bottom = <<>>
       /\ Descends(d) => \A t \in New(d)' : Within(t, q.this_range)
       /\ \A t, u \in New(d)' : t # u => Disjoint(t, u)
       /\ \A k \in Key : \A e \in latest[k] :
            ~e.d /\ e \in Entries(Range(q.top)) => e \in Entries(New(d)')
       /\ pc'[d] = "delete" => New(d)' \subseteq Range(levels[q.next])
       /\ pc'[d] # "push" => \A m \in manifest, t \in Range(q.top) : m[2].id # t.id
    BY Zenon DEF Outputs, Descends
  <2>3. CASE d = c
    BY <1>6, <1>7, <1>8, <2>1, <2>2, <2>3, Zenon
  <2>4. CASE d \in Built
    BY <1>0, <1>8, <2>4 DEF Outputs
  <2> QED
    BY <1>8, <2>3, <2>4, Zenon
<1>18. Room'
  BY <1>0, <1>7, Zenon DEF Room, Planned, Descends
<1>19. InOrder' /\ NewestKept'
  BY <1>0, Zenon DEF InOrder, NewestKept
<1> QED
  BY <1>9, <1>10, <1>12, <1>13, <1>14, <1>15, <1>16, <1>17, <1>18, <1>19, Zenon DEF IInv

LEMMA BuildIInv ==
  ASSUME IInv, NEW c \in Compactor, Build(c)
  PROVE  IInv'
<1> DEFINE p == plan[c][1]
           ents == Entries(Range(p.top))
<1>0. Typed /\ InStep /\ pc[c] = "build" /\ MergeWorks(p)
  BY Zenon DEF IInv, Build
<1>1. UNCHANGED <<levels, ranges, busy, manifest, version, latest, flushing, prios, base, plan>>
  BY Zenon DEF Build, levelVars, statusVars
<1>2. c \in Planned /\ p.bottom = <<>>
  BY <1>0, Zenon DEF InStep, Planned, MergeWorks
<1>3. PICK discard_ts \in 0 .. version :
          IF \E e \in ents : e.v > discard_ts
          THEN /\ pc' = [pc EXCEPT ![c] = "stuck"]
               /\ UNCHANGED <<out, next_file_id>>
          ELSE /\ \E new \in BuiltTables(Kept(p)) :
                    /\ next_file_id + Len(new) <= MaxId + 1
                    /\ out' = [out EXCEPT ![c] = <<[new |-> new, dropped |-> Dropped(p)]>>]
                    /\ next_file_id' = next_file_id + Len(new)
               /\ pc' = [pc EXCEPT ![c] = "push"]
  BY Zenon DEF Build
<1>4. CASE pc' = [pc EXCEPT ![c] = "stuck"] /\ UNCHANGED <<out, next_file_id>>
  <2>1. UNCHANGED <<levels, ranges, busy, manifest, next_file_id, version, latest,
                    flushing, prios, base, plan, out>>
    BY <1>1, <1>4, Zenon
  <2> QED
    BY <1>0, <1>4, <2>1, BuildStuckIInv, Zenon
<1>5. CASE /\ \E new \in BuiltTables(Kept(p)) :
                /\ next_file_id + Len(new) <= MaxId + 1
                /\ out' = [out EXCEPT ![c] = <<[new |-> new, dropped |-> Dropped(p)]>>]
                /\ next_file_id' = next_file_id + Len(new)
           /\ pc' = [pc EXCEPT ![c] = "push"]
  <2>1. PICK new \in BuiltTables(Kept(p)) :
          /\ out' = [out EXCEPT ![c] = <<[new |-> new, dropped |-> Dropped(p)]>>]
          /\ next_file_id' = next_file_id + Len(new)
    BY <1>5, Zenon
  <2>2. Dropped(p) \subseteq Entry
    <3>1. ents \subseteq Entry
      BY <1>0, <1>2, PlanIs, EntriesFinite, Zenon
    <3>2. Dropped(p) \subseteq ents
      BY Zenon DEF Dropped, Newest
    <3> QED
      BY <3>1, <3>2, Zenon
  <2> QED
    BY <1>0, <1>1, <1>2, <1>5, <2>1, <2>2, BuildPushIInv, Zenon
<1> QED
  BY <1>3, <1>4, <1>5, Zenon

-----------------------------------------------------------------------------
\* The manifest is told.

LEMMA PushChangesIInv ==
  ASSUME IInv, NEW c \in Compactor, PushChanges(c)
  PROVE  IInv'
<1> DEFINE p == plan[c][1]
           kept == {m \in manifest : m[2].id \notin Ids(p.top)}
           added == {<<p.next, t>> : t \in New(c)}
<1>0. /\ Typed /\ InStep /\ Named /\ Backed /\ Claimed /\ Exclusive /\ Outputs /\ Room
      /\ InOrder /\ Versions /\ NewestKept
  BY Zenon DEF IInv
<1>1. /\ pc[c] = "push" /\ pc' = [pc EXCEPT ![c] = "replace"]
      /\ UNCHANGED <<levels, ranges, busy, next_file_id, version, latest, flushing,
                     prios, base, plan, out>>
  BY Zenon DEF PushChanges, levelVars, statusVars
<1>2. c \in Planned /\ c \in Built
  BY <1>0, <1>1, Zenon DEF InStep, Planned, Built
<1>3. /\ p.this \in Level /\ p.next \in Level /\ p.top \in Seq(Table)
      /\ Range(p.top) \subseteq Range(levels[p.this]) /\ New(c) \subseteq Table
      /\ out[c][1].new \in Seq(Table) /\ p.bottom = <<>>
      /\ \A k \in Key : \A e \in latest[k] :
           ~e.d /\ e \in Entries(Range(p.top)) => e \in Entries(New(c))
  BY <1>0, <1>2, PlanIs, OutIs, Zenon DEF Claimed, Outputs
<1>4. manifest' = kept \cup added
  <2>1. p.top \o p.bottom = p.top
    BY <1>3
  <2>2. manifest' = {m \in manifest : m[2].id \notin Ids(p.top \o p.bottom)}
                    \cup {<<p.next, t>> : t \in Range(out[c][1].new)}
    BY Zenon DEF PushChanges
  <2> QED
    BY <2>1, <2>2, Zenon DEF New
<1>5. /\ pc'[c] = "replace" /\ \A d \in Compactor \ {c} : pc'[d] = pc[d]
      /\ pc' \in [Compactor -> {"idle", "start", "dead", "build", "stuck", "push",
                                "replace", "delete"}]
  BY <1>0, <1>1, Zenon DEF Typed
<1>6. Typed'
  <2>1. manifest \subseteq Level \X Table /\ IsFiniteSet(manifest)
    BY <1>0, Zenon DEF Typed
  <2>2. manifest' \subseteq Level \X Table
    <3>1. kept \subseteq Level \X Table
      BY <2>1, Zenon
    <3>2. added \subseteq Level \X Table
      BY <1>3
    <3> HIDE DEF kept, added
    <3> QED
      BY <1>4, <3>1, <3>2, Zenon
  <2>3. IsFiniteSet(kept)
    BY <2>1, FS_Subset, Zenon
  <2>4. IsFiniteSet(added)
    <3>1. IsFiniteSet(New(c))
      BY <1>3, RangeFinite, Zenon DEF New
    <3>2. [t \in New(c) |-> <<p.next, t>>] \in Surjection(New(c), added)
      BY Zenon DEF Surjection
    <3> QED
      BY <3>1, <3>2, FS_Surjection, Zenon
  <2>5. IsFiniteSet(manifest')
    <3> HIDE DEF kept, added
    <3> QED
      BY <1>4, <2>3, <2>4, FS_Union, Zenon
  <2> QED
    BY <1>0, <1>1, <1>5, <2>2, <2>5, Zenon DEF Typed
<1>7. InStep'
  BY <1>0, <1>1, <1>5, Zenon DEF InStep
<1>8. Named' /\ Versions'
  BY <1>0, <1>1 DEF Named, Versions, Homes, Built, New
<1>9. /\ Built' = Built /\ Planned' = Planned /\ Built \subseteq Compactor
      /\ \A d : New(d)' = New(d) /\ Taken(d)' = Taken(d) /\ (Descends(d)' <=> Descends(d))
  BY <1>1, Zenon DEF Built, Planned, New, Taken, Descends
<1>10. Backed'
  <2> SUFFICES ASSUME NEW m \in manifest'
               PROVE  \/ m[2] \in Range(levels[m[1]])
                      \/ m[1] = 0 /\ m[2] \in Range(flushing)
                      \/ \E d \in Built : pc'[d] = "replace" /\ m[1] = plan[d][1].next
                                           /\ m[2] \in New(d)
    BY <1>1, <1>9, Zenon DEF Backed
  <2>1. CASE m \in manifest
    <3>1. \A d \in Built : pc[d] = "replace" => pc'[d] = "replace"
      BY <1>5, <1>9, Zenon
    <3> QED
      BY <1>0, <2>1, <3>1, Zenon DEF Backed
  <2>2. CASE m \in added
    <3>1. PICK t \in New(c) : m = <<p.next, t>>
      BY <2>2, Zenon
    <3>2. m[1] = p.next /\ m[2] = t
      BY <3>1, Zenon
    <3> QED
      BY <1>2, <1>5, <3>2, Zenon
  <2> QED
    BY <1>4, <2>1, <2>2, Zenon
<1>11. Claimed' /\ Exclusive'
  <2>1. Claimed'
    BY <1>0, <1>1 DEF Claimed, Planned, Taken, Descends
  <2>2. Exclusive'
    BY <1>0, <1>9 DEF Exclusive
  <2> QED
    BY <2>1, <2>2, Zenon
<1>12. Outputs'
  <2>1. ASSUME NEW d \in Built, pc'[d] # "push", NEW m \in manifest', NEW t \in Range(plan[d][1].top)
        PROVE  m[2].id # t.id
    <3>0. d \in Planned /\ t \in Taken(d)
      BY <1>0, OutIs, Zenon DEF Taken
    <3>1. CASE m \in added
      <4>1. PICK u \in New(c) : m = <<p.next, u>>
        BY <3>1, Zenon
      <4>2. m[2] = u
        BY <4>1, Zenon
      <4> QED
        BY <1>0, <1>2, <3>0, <4>2, Zenon DEF Exclusive
    <3>2. CASE m \in kept /\ d = c
      BY <2>1, <3>2, Zenon DEF Ids
    <3>3. CASE m \in kept /\ d # c
      <4>1. pc[d] # "push" /\ m \in manifest
        BY <1>5, <1>9, <2>1, <3>3, Zenon
      <4> QED
        BY <1>0, <2>1, <4>1, Zenon DEF Outputs
    <3> QED
      BY <1>4, <3>1, <3>2, <3>3, Zenon
  <2>2. \A d \in Built : pc'[d] = "delete" => pc[d] = "delete"
    BY <1>5, <1>9, Zenon
  <2> SUFFICES ASSUME NEW d \in Built
               PROVE  LET q == plan[d][1]
    IN /\ q.bottom = <<>>
       /\ Descends(d) => \A t \in New(d) : Within(t, q.this_range)
       /\ \A t, u \in New(d) : t # u => Disjoint(t, u)
       /\ \A k \in Key : \A e \in latest[k] :
            ~e.d /\ e \in Entries(Range(q.top)) => e \in Entries(New(d))
       /\ pc'[d] = "delete" => New(d) \subseteq Range(levels[q.next])
       /\ pc'[d] # "push" => \A m \in manifest', t \in Range(q.top) : m[2].id # t.id
    BY <1>1, <1>9, Zenon DEF Outputs
  <2> QED
    BY <1>0, <2>1, <2>2, Zenon DEF Outputs
<1>13. Room'
  BY <1>0, <1>1, <1>5, Zenon DEF Room, Planned, Descends
<1>14. InOrder'
  BY <1>0, <1>1, Zenon DEF InOrder
<1>15. NewestKept'
  <2>1. ASSUME NEW k \in Key, NEW e \in latest[k], ~e.d
        PROVE  \E m \in manifest' : e \in m[2].ents
    <3>a. e \in Entries({m[2] : m \in manifest})
      BY <1>0, <2>1, Zenon DEF NewestKept
    <3>1. PICK m \in manifest : e \in m[2].ents
      BY <3>a, Zenon DEF Entries
    <3>2. CASE m \in kept
      BY <1>4, <3>1, <3>2, Zenon
    <3>3. CASE m \notin kept
      <4>1. PICK t \in Range(p.top) : m[2].id = t.id
        BY <3>3, Zenon DEF Ids
      <4>2. <<p.this, t>> \in Homes /\ m = <<m[1], m[2]>> /\ m \in Homes
        BY <1>0, <1>3, AtHome, ListedAtHome, Zenon
      <4>3. m[2] = t
        <5>1. <<m[1], m[2]>> \in Homes
          BY <4>2, Zenon
        <5> QED
          BY <1>0, <4>1, <4>2, <5>1, OneHome, Zenon
      <4>4. e \in Entries(New(c))
        BY <1>3, <2>1, <3>1, <4>3, Zenon DEF Entries
      <4>5. PICK u \in New(c) : e \in u.ents
        BY <4>4, Zenon DEF Entries
      <4>6. <<p.next, u>> \in manifest' /\ <<p.next, u>>[2] = u
        BY <1>4, Zenon
      <4> QED
        BY <4>5, <4>6, Zenon
    <3> QED
      BY <3>2, <3>3, Zenon
  <2>2. ASSUME NEW k \in Key, NEW e \in latest[k], ~e.d
        PROVE  e \in Entries({m[2] : m \in manifest'})
    BY <2>1, <2>2, Zenon DEF Entries
  <2> QED
    BY <1>0, <1>1, <2>2, Zenon DEF NewestKept
<1> QED
  BY <1>6, <1>7, <1>8, <1>10, <1>11, <1>12, <1>13, <1>14, <1>15, Zenon DEF IInv

-----------------------------------------------------------------------------
\* The new tables are put in their level.

\* LevelHandlerTables::init puts tables without common keys in the order of keys.
LEMMA OrderedIs ==
  ASSUME NEW l \in Level, NEW T, T \subseteq Table, IsFiniteSet(T)
  PROVE  LET s == Ordered(l, T)
         IN /\ s \in Seq(Table) /\ Range(s) = T
            /\ (l # 0 /\ \A t, u \in T : t # u => Disjoint(t, u)) =>
                 \A i, j \in DOMAIN s : i < j => Biggest(s[i]) < Smallest(s[j])
<1> DEFINE rank == [t \in T |-> IF l = 0 THEN t.id ELSE Smallest(t)]
           s == Ordered(l, T)
<1>1. \A t \in T : /\ t.id \in Nat /\ Smallest(t) \in Nat /\ Biggest(t) \in Nat
                   /\ Smallest(t) <= Biggest(t)
  <2>1. \A t \in T : t.id \in Nat
    BY Zenon DEF Table
  <2> QED
    BY <2>1, TableKeys, Zenon
<1>2. \A t \in T : rank[t] \in Nat
  BY <1>1, Zenon
<1>3. s = SortedBy(T, rank)
  BY Zenon DEF Ordered
<1> HIDE DEF s
<1>4. /\ s \in Seq(T) /\ Range(s) = T
      /\ \A i, j \in DOMAIN s : i < j => rank[s[i]] <= rank[s[j]] /\ s[i] # s[j]
  <2> HIDE DEF rank
  <2> QED
    BY <1>2, <1>3, SortedIs, Zenon
<1>5. s \in Seq(Table)
  BY <1>4
<1>6. ASSUME l # 0, \A t, u \in T : t # u => Disjoint(t, u),
             NEW i \in DOMAIN s, NEW j \in DOMAIN s, i < j
      PROVE  Biggest(s[i]) < Smallest(s[j])
  <2>1. s[i] \in T /\ s[j] \in T
    BY <1>4
  <2>2. rank[s[i]] = Smallest(s[i]) /\ rank[s[j]] = Smallest(s[j])
    BY <1>6, <2>1, Zenon
  <2>3. Smallest(s[i]) <= Smallest(s[j]) /\ s[i] # s[j]
    BY <1>4, <1>6, <2>2, Zenon
  <2>4. Biggest(s[i]) < Smallest(s[j]) \/ Biggest(s[j]) < Smallest(s[i])
    BY <1>6, <2>1, <2>3, Zenon DEF Disjoint
  <2> QED
    BY <1>1, <2>1, <2>3, <2>4
<1> QED
  BY <1>4, <1>5, <1>6, Zenon DEF s

\* Tables of a level below 0 share no key.
LEMMA OrderApart ==
  ASSUME Typed, InOrder, NEW l \in 1 .. LastLevel, NEW t \in Range(levels[l]),
         NEW u \in Range(levels[l]), t # u
  PROVE  Disjoint(t, u)
<1>0. levels[l] \in Seq(Table)
  BY CompactionAssumption DEF Typed, Level, LastLevel
<1>1. PICK i \in DOMAIN levels[l] : t = levels[l][i]
  BY Zenon DEF Range
<1>2. PICK j \in DOMAIN levels[l] : u = levels[l][j]
  BY Zenon DEF Range
<1>3. i < j \/ j < i
  BY <1>0, <1>1, <1>2
<1> QED
  BY <1>1, <1>2, <1>3, Zenon DEF InOrder, Disjoint

LEMMA ReplaceIInv ==
  ASSUME IInv, NEW c \in Compactor, Replace(c)
  PROVE  IInv'
<1> DEFINE p == plan[c][1]
           n == p.next
           T == Range(levels[n]) \cup New(c)
<1>0. /\ Typed /\ InStep /\ Named /\ Backed /\ Claimed /\ Exclusive /\ Outputs /\ Room
      /\ InOrder /\ Versions /\ NewestKept
  BY Zenon DEF IInv
<1>1. /\ pc[c] = "replace" /\ pc' = [pc EXCEPT ![c] = "delete"]
      /\ UNCHANGED <<ranges, busy, manifest, next_file_id, version, latest, flushing,
                     prios, base, plan, out>>
      /\ levels' = [levels EXCEPT
                      ![n] = Ordered(n, Range(Without(levels[n], p.bottom) \o out[c][1].new))]
  BY Zenon DEF Replace, statusVars
<1>2. c \in Planned /\ c \in Built
  BY <1>0, <1>1, Zenon DEF InStep, Planned, Built
<1>3. /\ p.this \in Level /\ n \in Level /\ p.this_range \in KeyTsRange
      /\ out[c][1].new \in Seq(Table) /\ New(c) \subseteq Table /\ p.bottom = <<>>
      /\ Descends(c) => \A t \in New(c) : Within(t, p.this_range)
      /\ \A t, u \in New(c) : t # u => Disjoint(t, u)
  BY <1>0, <1>2, PlanIs, OutIs, Zenon DEF Outputs
<1>4. Range(Without(levels[n], p.bottom) \o out[c][1].new) = T
  <2>1. levels[n] \in Seq(Table)
    BY <1>0, <1>3, Zenon DEF Typed
  <2>2. {t \in Range(levels[n]) : t.id \notin Ids(p.bottom)} = Range(levels[n])
    BY <1>3 DEF Ids, Range
  <2>3. /\ Without(levels[n], p.bottom) \in Seq(Table)
        /\ Range(Without(levels[n], p.bottom)) = Range(levels[n])
    <3>1. /\ Keep(levels[n], Range(levels[n])) \in Seq(Table)
          /\ Range(Keep(levels[n], Range(levels[n]))) = Range(levels[n]) \cap Range(levels[n])
      <4> PICK ts : ts = Range(levels[n])
        BY Zenon
      <4>1. Keep(levels[n], ts) \in Seq(Table) /\ Range(Keep(levels[n], ts)) = Range(levels[n]) \cap ts
        BY <2>1, KeepIs
      <4> QED
        BY <4>1, Zenon
    <3>2. Without(levels[n], p.bottom) = Keep(levels[n], Range(levels[n]))
      BY <2>2, Zenon DEF Without
    <3> QED
      BY <3>1, <3>2, Zenon
  <2>4. Range(Without(levels[n], p.bottom) \o out[c][1].new)
          = Range(Without(levels[n], p.bottom)) \cup Range(out[c][1].new)
    BY <1>3, <2>3, RangeConcat
  <2> QED
    BY <2>3, <2>4, Zenon DEF New
<1>5. T \subseteq Table /\ IsFiniteSet(T)
  <2>1. levels[n] \in Seq(Table)
    BY <1>0, <1>3, Zenon DEF Typed
  <2>2. /\ Range(levels[n]) \subseteq Table /\ IsFiniteSet(Range(levels[n]))
        /\ IsFiniteSet(New(c))
    BY <1>3, <2>1, RangeFinite, Zenon DEF New
  <2> QED
    BY <1>3, <2>2, FS_Union, Zenon
<1>6. /\ levels'[n] = Ordered(n, T) /\ \A l \in Level \ {n} : levels'[l] = levels[l]
      /\ levels' = [levels EXCEPT ![n] = Ordered(n, T)]
  <2> HIDE DEF T, n
  <2> QED
    BY <1>0, <1>1, <1>3, <1>4, Zenon DEF Typed
<1>7. /\ levels'[n] \in Seq(Table) /\ Range(levels'[n]) = T
      /\ (n # 0 /\ \A t, u \in T : t # u => Disjoint(t, u)) =>
           \A i, j \in DOMAIN levels'[n] : i < j => Biggest(levels'[n][i]) < Smallest(levels'[n][j])
  <2> HIDE DEF T, n
  <2> QED
    BY <1>3, <1>5, <1>6, OrderedIs, Zenon
<1>8. /\ pc'[c] = "delete" /\ \A d \in Compactor \ {c} : pc'[d] = pc[d]
      /\ pc' \in [Compactor -> {"idle", "start", "dead", "build", "stuck", "push",
                                "replace", "delete"}]
  BY <1>0, <1>1, Zenon DEF Typed
<1>9. \A l \in Level : Range(levels[l]) \subseteq Range(levels'[l])
  BY <1>6, <1>7, Zenon

<1> HIDE DEF T
<1>10. Typed'
  <2>1. levels' \in [Level -> Seq(Table)]
    BY <1>0, <1>3, <1>6, <1>7, Zenon DEF Typed
  <2> QED
    BY <1>0, <1>1, <1>8, <2>1, Zenon DEF Typed
<1>11. InStep'
  BY <1>0, <1>1, <1>8, Zenon DEF InStep
<1>12. /\ Built' = Built /\ Planned' = Planned /\ Built \subseteq Compactor /\ Planned \subseteq Compactor
       /\ \A d : New(d)' = New(d) /\ Taken(d)' = Taken(d) /\ (Descends(d)' <=> Descends(d))
  BY <1>1, Zenon DEF Built, Planned, New, Taken, Descends
<1>13. Homes' \subseteq Homes
  <2> SUFFICES ASSUME NEW x \in Homes' PROVE x \in Homes
    BY Zenon
  <2>1. CASE \E l \in Level : \E t \in Range(levels'[l]) : x = <<l, t>>
    <3>1. PICK l \in Level : \E t \in Range(levels'[l]) : x = <<l, t>>
      BY <2>1, Zenon
    <3>2. PICK t \in Range(levels'[l]) : x = <<l, t>>
      BY <3>1, Zenon
    <3>3. CASE t \in Range(levels[l])
      BY <3>2, <3>3, AtHome, Zenon
    <3>4. CASE l = n /\ t \in New(c)
      BY <1>2, <3>2, <3>4, AtHome, Zenon
    <3> QED
      BY <1>6, <1>7, <3>2, <3>3, <3>4, Zenon DEF T
  <2>2. CASE \E t \in Range(flushing') : x = <<0, t>>
    BY <1>1, <2>2, AtHome, Zenon
  <2>3. CASE \E d \in Built' : \E t \in New(d)' : x = <<plan'[d][1].next, t>>
    BY <1>1, <1>12, <2>3, AtHome, Zenon
  <2> QED
    BY <2>1, <2>2, <2>3, HomesNext, Zenon
<1>14. Named' /\ Versions'
  BY <1>0, <1>1, <1>13, Zenon DEF Named, Versions
<1>15. Backed'
  <2> SUFFICES ASSUME NEW m \in manifest
               PROVE  \/ m[2] \in Range(levels'[m[1]])
                      \/ m[1] = 0 /\ m[2] \in Range(flushing)
                      \/ \E d \in Built : pc'[d] = "replace" /\ m[1] = plan[d][1].next
                                           /\ m[2] \in New(d)
    BY <1>1, <1>12, Zenon DEF Backed
  <2>0. m[1] \in Level
    BY <1>0, ListedAtHome, Zenon
  <2>1. CASE m[2] \in Range(levels[m[1]])
    BY <1>9, <2>0, <2>1, Zenon
  <2>2. CASE \E d \in Built : pc[d] = "replace" /\ m[1] = plan[d][1].next /\ m[2] \in New(d)
    <3>1. PICK d \in Built : pc[d] = "replace" /\ m[1] = plan[d][1].next /\ m[2] \in New(d)
      BY <2>2, Zenon
    <3>2. CASE d = c
      BY <1>7, <3>1, <3>2, Zenon DEF T
    <3>3. CASE d # c
      BY <1>8, <1>12, <3>1, <3>3, Zenon
    <3> QED
      BY <3>2, <3>3, Zenon
  <2> QED
    BY <1>0, <2>1, <2>2, Zenon DEF Backed
<1>16. Claimed'
  <2>1. ASSUME NEW d \in Planned
        PROVE  /\ Range(plan[d][1].top) \subseteq Range(levels'[plan[d][1].this])
               /\ Range(plan[d][1].bottom) \subseteq Range(levels'[plan[d][1].next])
    <3>1. /\ plan[d][1].this \in Level /\ plan[d][1].next \in Level
          /\ Range(plan[d][1].top) \subseteq Range(levels[plan[d][1].this])
          /\ Range(plan[d][1].bottom) \subseteq Range(levels[plan[d][1].next])
      BY <1>0, PlanIs, Zenon DEF Claimed
    <3> QED
      BY <1>9, <3>1, Zenon
  <2> QED
    BY <1>0, <1>1, <1>12, <2>1 DEF Claimed
<1>17. Exclusive'
  BY <1>0, <1>12 DEF Exclusive
<1>18. Outputs'
  <2>1. ASSUME NEW d \in Built, pc'[d] = "delete"
        PROVE  New(d) \subseteq Range(levels'[plan[d][1].next])
    <3>1. CASE d = c
      BY <1>7, <3>1, Zenon DEF T
    <3>2. CASE d # c
      <4>1. pc[d] = "delete"
        BY <1>8, <1>12, <2>1, <3>2, Zenon
      <4>2. New(d) \subseteq Range(levels[plan[d][1].next]) /\ plan[d][1].next \in Level
        BY <1>0, <4>1, OutIs, PlanIs, Zenon DEF Outputs
      <4> QED
        BY <1>9, <4>2, Zenon
    <3> QED
      BY <3>1, <3>2, Zenon
  <2>2. \A d \in Built : pc'[d] # "push" => pc[d] # "push"
    BY <1>1, <1>8, <1>12, Zenon
  <2> SUFFICES ASSUME NEW d \in Built
               PROVE  LET q == plan[d][1]
    IN /\ q.bottom = <<>>
       /\ Descends(d) => \A t \in New(d) : Within(t, q.this_range)
       /\ \A t, u \in New(d) : t # u => Disjoint(t, u)
       /\ \A k \in Key : \A e \in latest[k] :
            ~e.d /\ e \in Entries(Range(q.top)) => e \in Entries(New(d))
       /\ pc'[d] = "delete" => New(d) \subseteq Range(levels'[q.next])
       /\ pc'[d] # "push" => \A m \in manifest, t \in Range(q.top) : m[2].id # t.id
    BY <1>1, <1>12, Zenon DEF Outputs
  <2> QED
    BY <1>0, <2>1, <2>2, Zenon DEF Outputs
<1>19. ASSUME NEW d \in Planned, Descends(d), plan[d][1].next = n
       PROVE  Descends(c) /\ n # 0 /\ p.next_range = p.this_range /\ ~p.this_range.inf
  <2>1. plan[d][1].this \in Level /\ plan[d][1].next \in Level
    BY <1>0, PlanIs, Zenon
  <2>2. n # 0
    BY <1>19, <2>1 DEF Descends, Level
  <2> QED
    BY <1>0, <1>2, <1>3, <2>2, Zenon DEF Claimed
<1>20. Room'
  <2>1. ASSUME NEW d \in Planned, Descends(d), plan[d][1].bottom = <<>>, pc'[d] # "delete",
               NEW t \in Range(levels'[plan[d][1].next])
        PROVE  Apart(t, plan[d][1].this_range)
    <3> DEFINE q == plan[d][1]
    <3>0. /\ d # c /\ pc[d] # "delete" /\ q.next \in Level /\ q.this_range \in KeyTsRange
          /\ q.next_range = q.this_range /\ ~q.this_range.inf
      <4>1. ~(q.this = 0 /\ q.next = 0)
        BY <2>1 DEF Descends
      <4>2. d # c /\ pc[d] # "delete"
        BY <1>8, <1>12, <2>1, Zenon
      <4> QED
        BY <1>0, <2>1, <4>1, <4>2, PlanIs, Zenon DEF Claimed
    <3>1. CASE t \in Range(levels[q.next])
      BY <1>0, <2>1, <3>0, <3>1, Zenon DEF Room
    <3>2. CASE q.next = n /\ t \in New(c)
      <4>1. Descends(c) /\ p.next_range = p.this_range /\ ~p.this_range.inf
        BY <1>19, <2>1, <3>2, Zenon
      <4>2. Miss(q.this_range, p.this_range)
        BY <1>0, <1>2, <2>1, <3>0, <3>2, <4>1, Zenon DEF Room
      <4>3. t \in Table /\ Within(t, p.this_range)
        BY <1>3, <3>2, <4>1, Zenon
      <4> HIDE DEF q, p
      <4> QED
        BY <1>3, <3>0, <4>1, <4>2, <4>3, MissedIsApart, Zenon DEF q
    <3> QED
      BY <1>6, <1>7, <2>1, <3>0, <3>1, <3>2, Zenon DEF T
  <2> QED
    BY <1>0, <1>1, <1>12, <2>1, Zenon DEF Room
<1>21. InOrder'
  <2> SUFFICES ASSUME NEW l \in 1 .. LastLevel
               PROVE  \A i, j \in DOMAIN levels'[l] :
                        i < j => Biggest(levels'[l][i]) < Smallest(levels'[l][j])
    BY Zenon DEF InOrder, Smallest, Biggest, KeysOf
  <2>0. l \in Level /\ l # 0
    BY CompactionAssumption DEF Level, LastLevel
  <2>1. CASE l # n
    BY <1>0, <1>6, <2>0, <2>1, Zenon DEF InOrder
  <2>2. CASE l = n
    <3>1. Descends(c) /\ ~p.this_range.inf
      BY <1>0, <1>2, <2>0, <2>2, Zenon DEF Claimed
    <3>2. \A t \in Range(levels[n]) : Apart(t, p.this_range)
      <4>1. pc[c] # "delete"
        BY <1>1, Zenon
      <4> QED
        BY <1>0, <1>2, <1>3, <3>1, <4>1, Zenon DEF Room
    <3>3. ASSUME NEW t \in T, NEW u \in T, t # u PROVE Disjoint(t, u)
      <4>0. t \in Table /\ u \in Table
        BY <1>5, Zenon
      <4>1. CASE t \in Range(levels[n]) /\ u \in Range(levels[n])
        BY <1>0, <2>2, <3>3, <4>1, OrderApart, Zenon
      <4>2. CASE t \in Range(levels[n]) /\ u \in New(c)
        BY <1>3, <3>1, <3>2, <4>0, <4>2, ApartIsDisjoint, Zenon
      <4>3. CASE u \in Range(levels[n]) /\ t \in New(c)
        BY <1>3, <3>1, <3>2, <4>0, <4>3, ApartIsDisjoint, Zenon
      <4>4. CASE t \in New(c) /\ u \in New(c)
        BY <1>3, <3>3, <4>4, Zenon
      <4> QED
        BY <4>1, <4>2, <4>3, <4>4, Zenon DEF T
    <3> QED
      BY <1>7, <2>0, <2>2, <3>3, Zenon
  <2> QED
    BY <2>1, <2>2, Zenon
<1>22. NewestKept'
  <2>1. ASSUME NEW e, e \in Entries((UNION {Range(levels[l]) : l \in Level}) \cup Range(flushing))
        PROVE  e \in Entries((UNION {Range(levels'[l]) : l \in Level}) \cup Range(flushing))
    BY <1>9, <2>1, Zenon DEF Entries
  <2> QED
    BY <1>0, <1>1, <2>1, Zenon DEF NewestKept
<1> QED
  BY <1>10, <1>11, <1>14, <1>15, <1>16, <1>17, <1>18, <1>20, <1>21, <1>22, Zenon DEF IInv

-----------------------------------------------------------------------------
\* The tables a plan took are deleted.

LEMMA DeleteIInv ==
  ASSUME IInv, NEW c \in Compactor, Delete(c)
  PROVE  IInv'
<1> DEFINE p == plan[c][1]
           h == p.this
           T == {t \in Range(levels[h]) : t.id \notin Ids(p.top)}
<1>0. /\ Typed /\ InStep /\ Named /\ Backed /\ Claimed /\ Exclusive /\ Outputs /\ Room
      /\ InOrder /\ Versions /\ NewestKept
  BY Zenon DEF IInv
<1>1. /\ pc[c] = "delete"
      /\ pc' = [pc EXCEPT ![c] = "idle"] \/ pc' = [pc EXCEPT ![c] = "dead"]
      /\ prios' = [prios EXCEPT ![c] = <<>>] /\ base' = [base EXCEPT ![c] = 0]
      /\ plan' = [plan EXCEPT ![c] = <<>>] /\ out' = [out EXCEPT ![c] = <<>>]
      /\ UNCHANGED <<ranges, busy, manifest, next_file_id, version, latest, flushing>>
  BY Zenon DEF Delete, statusVars
<1>2. levels' = [levels EXCEPT ![h] = Keep(levels[h], T)]
  BY Zenon DEF Delete, Without
<1>3. c \in Planned /\ c \in Built
  BY <1>0, <1>1, Zenon DEF InStep, Planned, Built
<1>4. /\ h \in Level /\ p.next \in Level /\ p.top \in Seq(Table) /\ levels[h] \in Seq(Table)
      /\ Range(p.top) \subseteq Range(levels[h]) /\ Range(p.top) \subseteq Taken(c)
      /\ \A k \in Key : \A e \in latest[k] :
           ~e.d /\ e \in Entries(Range(p.top)) => e \in Entries(New(c))
      /\ New(c) \subseteq Range(levels[p.next])
      /\ \A m \in manifest, t \in Range(p.top) : m[2].id # t.id
  <2>1. pc[c] # "push"
    BY <1>1, Zenon
  <2>2. h \in Level /\ levels \in [Level -> Seq(Table)]
    BY <1>0, <1>3, PlanIs, Zenon DEF Typed
  <2> QED
    BY <1>0, <1>1, <1>3, <2>1, <2>2, PlanIs, Zenon DEF Claimed, Outputs, Taken
<1>5. /\ levels'[h] = Keep(levels[h], T) /\ \A l \in Level \ {h} : levels'[l] = levels[l]
  <2> HIDE DEF T, h
  <2> QED
    BY <1>0, <1>2, <1>4, Zenon DEF Typed
<1>6. /\ levels'[h] \in Seq(Table) /\ Range(levels'[h]) = Range(levels[h]) \cap T
      /\ \A i, j \in DOMAIN levels'[h] : i < j =>
           \E a, b \in DOMAIN levels[h] :
             a < b /\ levels'[h][i] = levels[h][a] /\ levels'[h][j] = levels[h][b]
  <2> HIDE DEF T, h
  <2> QED
    BY <1>4, <1>5, KeepIs
<1>7. /\ \A l \in Level : Range(levels'[l]) \subseteq Range(levels[l])
      /\ \A l \in Level : \A t \in Range(levels[l]) :
           (\A u \in Range(p.top) : t.id # u.id) => t \in Range(levels'[l])
  <2>1. \A t \in Range(levels[h]) : (\A u \in Range(p.top) : t.id # u.id) => t \in T
    BY Zenon DEF Ids
  <2> HIDE DEF T, h
  <2> QED
    BY <1>5, <1>6, <2>1, Zenon
<1> HIDE DEF T
<1>8. /\ plan'[c] = <<>> /\ out'[c] = <<>> /\ prios'[c] = <<>> /\ pc'[c] \in {"idle", "dead"}
      /\ \A d \in Compactor \ {c} : plan'[d] = plan[d] /\ out'[d] = out[d] /\ pc'[d] = pc[d]
                                    /\ prios'[d] = prios[d]
      /\ pc' \in [Compactor -> {"idle", "start", "dead", "build", "stuck", "push",
                                "replace", "delete"}]
      /\ base' \in [Compactor -> Level]
  <2>1. 0 \in Level
    BY CompactionAssumption DEF Level
  <2> QED
    BY <1>0, <1>1, <2>1, Zenon DEF Typed
<1>9. Typed'
  <2> DEFINE O == [new : Seq(Table), dropped : SUBSET Entry]
             S == 0 .. LastLevel - 1
  <2>1. /\ plan' \in [Compactor -> Seq(CompactPlan)] /\ out' \in [Compactor -> Seq(O)]
        /\ prios' \in [Compactor -> Seq(S)]
    <3>1. /\ plan \in [Compactor -> Seq(CompactPlan)] /\ out \in [Compactor -> Seq(O)]
          /\ prios \in [Compactor -> Seq(S)]
      BY <1>0, Zenon DEF Typed
    <3> HIDE DEF O, S
    <3>2. <<>> \in Seq(CompactPlan) /\ <<>> \in Seq(O) /\ <<>> \in Seq(S)
      OBVIOUS
    <3> QED
      BY <1>1, <3>1, <3>2, Zenon
  <2>2. levels' \in [Level -> Seq(Table)]
    <3> HIDE DEF h
    <3> QED
      BY <1>0, <1>2, <1>4, <1>5, <1>6, Zenon DEF Typed
  <2> QED
    BY <1>0, <1>1, <1>8, <2>1, <2>2, Zenon DEF Typed
<1>10. InStep'
  BY <1>0, <1>8, Zenon DEF InStep
<1>11. /\ \A d \in Planned' : d # c /\ d \in Planned /\ d \in Compactor
       /\ \A d \in Built' : d # c /\ d \in Built /\ d \in Compactor /\ d \in Planned
       /\ \A d \in Built \ {c} : d \in Built'
  <2>1. \A d \in Built : d \in Planned
    BY <1>0, OutIs, Zenon
  <2> QED
    BY <1>8, <2>1, Zenon DEF Planned, Built
<1>12. /\ \A d \in Planned' : /\ plan'[d] = plan[d] /\ pc'[d] = pc[d]
                              /\ Taken(d)' = Taken(d) /\ (Descends(d)' <=> Descends(d))
       /\ \A d \in Built' : /\ plan'[d] = plan[d] /\ pc'[d] = pc[d] /\ New(d)' = New(d)
                            /\ (Descends(d)' <=> Descends(d))
       /\ \A d \in Built \ {c} : New(d)' = New(d) /\ plan'[d] = plan[d] /\ pc'[d] = pc[d]
  BY <1>8, <1>11, Zenon DEF Taken, Descends, New
<1>13. Homes' \subseteq Homes
  <2>1. ASSUME NEW x, x \in Homes' PROVE x \in Homes
    <3>1. (\E d \in Built' : \E t \in New(d)' : x = <<plan'[d][1].next, t>>)
            => \E d \in Built : \E t \in New(d) : x = <<plan[d][1].next, t>>
      BY <1>11, <1>12, Zenon
    <3>2. (\E l \in Level : \E t \in Range(levels'[l]) : x = <<l, t>>)
            => \E l \in Level : \E t \in Range(levels[l]) : x = <<l, t>>
      BY <1>7, Zenon
    <3> QED
      BY <1>1, <2>1, <3>1, <3>2, HomesAre, HomesNext, Zenon
  <2> QED
    BY <2>1, Zenon
<1>14. Named' /\ Versions'
  BY <1>0, <1>1, <1>13, Zenon DEF Named, Versions
<1>15. Backed'
  <2> SUFFICES ASSUME NEW m \in manifest
               PROVE  \/ m[2] \in Range(levels'[m[1]])
                      \/ m[1] = 0 /\ m[2] \in Range(flushing)
                      \/ \E d \in Built' : pc'[d] = "replace" /\ m[1] = plan'[d][1].next
                                           /\ m[2] \in New(d)'
    BY <1>1, Zenon DEF Backed
  <2>0. m[1] \in Level
    BY <1>0, ListedAtHome, Zenon
  <2>1. CASE m[2] \in Range(levels[m[1]])
    BY <1>4, <1>7, <2>0, <2>1, Zenon
  <2>2. CASE \E d \in Built : pc[d] = "replace" /\ m[1] = plan[d][1].next /\ m[2] \in New(d)
    <3>1. PICK d \in Built : pc[d] = "replace" /\ m[1] = plan[d][1].next /\ m[2] \in New(d)
      BY <2>2, Zenon
    <3>2. d # c
      BY <1>1, <3>1, Zenon
    <3> QED
      BY <1>11, <1>12, <3>1, <3>2, Zenon
  <2> QED
    BY <1>0, <2>1, <2>2, Zenon DEF Backed
<1>16. Claimed'
  <2>1. ASSUME NEW d \in Planned', NEW q, q = plan[d][1]
        PROVE  /\ Range(q.top) \subseteq Range(levels'[q.this])
               /\ Range(q.bottom) \subseteq Range(levels'[q.next])
               /\ \A t \in Taken(d) : t.id \in busy
               /\ \/ /\ Descends(d)
                     /\ q.this_range \in ranges[q.this] /\ q.next_range \in ranges[q.next]
                     /\ ~q.this_range.inf
                     /\ \A t \in Range(q.top) : Within(t, q.this_range)
                     /\ \A t \in Range(q.bottom) : Within(t, q.next_range)
                     /\ q.bottom = <<>> => q.next_range = q.this_range
                  \/ /\ d = 0 /\ q.this = 0 /\ q.next = 0 /\ q.bottom = <<>>
                     /\ InfRange \in ranges[0]
    <3>1. d \in Planned /\ d # c
      BY <1>11, Zenon
    <3>2. /\ q.this \in Level /\ q.next \in Level
          /\ Range(q.top) \subseteq Range(levels[q.this])
          /\ Range(q.bottom) \subseteq Range(levels[q.next])
      BY <1>0, <2>1, <3>1, PlanIs, Zenon DEF Claimed
    <3>3. \A t \in Taken(d) : \A u \in Range(p.top) : t.id # u.id
      BY <1>0, <1>3, <1>4, <3>1, Zenon DEF Exclusive
    <3>4. Taken(d) = Range(q.top) \cup Range(q.bottom)
      BY <2>1, Zenon DEF Taken
    <3>5. /\ Range(q.top) \subseteq Range(levels'[q.this])
          /\ Range(q.bottom) \subseteq Range(levels'[q.next])
      BY <1>7, <3>2, <3>3, <3>4, Zenon
    <3> QED
      BY <1>0, <2>1, <3>1, <3>5, Zenon DEF Claimed
  <2>2. \A d \in Planned' : /\ plan'[d] = plan[d] /\ Taken(d)' = Taken(d)
                             /\ (Descends(d)' <=> Descends(d))
    BY <1>12, Zenon
  <2> QED
    BY <1>1, <2>1, <2>2, Zenon DEF Claimed
<1>17. Exclusive'
  BY <1>0, <1>11, <1>12 DEF Exclusive
<1>18. Outputs'
  <2>1. ASSUME NEW d \in Built', NEW q, q = plan[d][1]
        PROVE  /\ q.bottom = <<>>
               /\ Descends(d) => \A t \in New(d) : Within(t, q.this_range)
               /\ \A t, u \in New(d) : t # u => Disjoint(t, u)
               /\ \A k \in Key : \A e \in latest[k] :
                    ~e.d /\ e \in Entries(Range(q.top)) => e \in Entries(New(d))
               /\ pc[d] = "delete" => New(d) \subseteq Range(levels'[q.next])
               /\ pc[d] # "push" => \A m \in manifest, t \in Range(q.top) : m[2].id # t.id
    <3>1. d \in Planned /\ d # c /\ d \in Built
      BY <1>11, Zenon
    <3>2. q.next \in Level
      BY <1>0, <2>1, <3>1, PlanIs, Zenon
    <3>3. \A t \in New(d) : \A u \in Range(p.top) : t.id # u.id
      BY <1>0, <1>3, <1>4, <3>1, Zenon DEF Exclusive
    <3>4. pc[d] = "delete" => New(d) \subseteq Range(levels'[q.next])
      BY <1>0, <1>7, <2>1, <3>1, <3>2, <3>3, Zenon DEF Outputs
    <3> QED
      BY <1>0, <2>1, <3>1, <3>4, Zenon DEF Outputs
  <2> QED
    BY <1>1, <1>12, <2>1 DEF Outputs
<1>19. Room'
  <2>1. ASSUME NEW d \in Planned', Descends(d), plan[d][1].bottom = <<>>, pc[d] # "delete",
               NEW t \in Range(levels'[plan[d][1].next])
        PROVE  Apart(t, plan[d][1].this_range)
    <3>1. d \in Planned /\ plan[d][1].next \in Level
      BY <1>0, <1>11, PlanIs, Zenon
    <3>2. t \in Range(levels[plan[d][1].next])
      BY <1>7, <2>1, <3>1, Zenon
    <3> QED
      BY <1>0, <2>1, <3>1, <3>2, Zenon DEF Room
  <2> QED
    BY <1>0, <1>1, <1>11, <1>12, <2>1, Zenon DEF Room
<1>20. InOrder'
  <2> SUFFICES ASSUME NEW l \in 1 .. LastLevel, NEW i \in DOMAIN levels'[l],
                      NEW j \in DOMAIN levels'[l], i < j
               PROVE  Biggest(levels'[l][i]) < Smallest(levels'[l][j])
    BY Zenon DEF InOrder, Smallest, Biggest, KeysOf
  <2>1. CASE l # h
    <3>1. levels'[l] = levels[l]
      BY <1>5, <2>1, CompactionAssumption DEF Level, LastLevel
    <3> QED
      BY <1>0, <3>1, Zenon DEF InOrder
  <2>2. CASE l = h
    <3> HIDE DEF h
    <3>1. PICK a, b \in DOMAIN levels[l] :
            a < b /\ levels'[l][i] = levels[l][a] /\ levels'[l][j] = levels[l][b]
      BY <1>6, <2>2, Zenon
    <3> QED
      BY <1>0, <3>1, Zenon DEF InOrder
  <2> QED
    BY <2>1, <2>2, Zenon
<1>21. NewestKept'
  <2> DEFINE All == (UNION {Range(levels[l]) : l \in Level}) \cup Range(flushing)
             Left == (UNION {Range(levels'[l]) : l \in Level}) \cup Range(flushing)
  <2>1. ASSUME NEW k \in Key, NEW e \in latest[k], ~e.d, e \in Entries(All)
        PROVE  e \in Entries(Left)
    <3>1. PICK t \in All : e \in t.ents
      BY <2>1, Zenon DEF Entries
    <3>2. CASE t \in Left
      BY <3>1, <3>2, Zenon DEF Entries
    <3>3. CASE t \notin Left
      <4>1. PICK l \in Level : t \in Range(levels[l])
        BY <3>1, <3>3, Zenon
      <4>2. t \notin Range(levels'[l])
        BY <3>3, Zenon
      <4>3. PICK u \in Range(p.top) : t.id = u.id
        BY <1>7, <4>1, <4>2, Zenon
      <4>4. <<l, t>> \in Homes /\ <<h, u>> \in Homes
        BY <1>4, <4>1, AtHome, Zenon
      <4>5. t = u
        <5> HIDE DEF h
        <5> QED
          BY <1>0, <4>3, <4>4, OneHome, Zenon
      <4>6. e \in Entries(Range(p.top))
        BY <3>1, <4>3, <4>5, Zenon DEF Entries
      <4>7. e \in Entries(New(c))
        BY <1>4, <2>1, <4>6, Zenon
      <4>8. PICK w \in New(c) : e \in w.ents
        BY <4>7, Zenon DEF Entries
      <4>9. \A x \in Range(p.top) : w.id # x.id
        BY <1>0, <1>3, <1>4, Zenon DEF Exclusive
      <4>10. w \in Range(levels'[p.next])
        BY <1>4, <1>7, <4>9, Zenon
      <4>11. w \in Left
        BY <1>4, <4>10, Zenon
      <4> QED
        BY <4>8, <4>11, Zenon DEF Entries
    <3> QED
      BY <3>2, <3>3, Zenon
  <2> QED
    BY <1>0, <1>1, <2>1, Zenon DEF NewestKept
<1> QED
  BY <1>9, <1>10, <1>14, <1>15, <1>16, <1>17, <1>18, <1>19, <1>20, <1>21, Zenon DEF IInv

-----------------------------------------------------------------------------
\* Flushing.

LEMMA FlushRecordIInv ==
  ASSUME IInv, NEW m \in Memtable, FlushRecord(m.keys, m.dels)
  PROVE  IInv'
<1> DEFINE entry(k) == [k |-> k, v |-> version + 1, d |-> k \in m.dels]
           t == [id |-> next_file_id, stale |-> 0, ents |-> {entry(k) : k \in m.keys}]
<1>0. /\ Typed /\ InStep /\ Named /\ Backed /\ Claimed /\ Exclusive /\ Outputs /\ Room
      /\ InOrder /\ Versions /\ NewestKept
  BY Zenon DEF IInv
<1>1. /\ flushing = <<>> /\ flushing' = <<t>> /\ manifest' = manifest \cup {<<0, t>>}
      /\ latest' = [k \in Key |-> IF k \in m.keys THEN {entry(k)} ELSE latest[k]]
      /\ version' = version + 1 /\ next_file_id' = next_file_id + 1
      /\ UNCHANGED <<levels, ranges, busy, pc, prios, base, plan, out>>
  BY Zenon DEF FlushRecord, levelVars, statusVars, taskVars
<1>2. /\ next_file_id \in Nat /\ version \in Nat /\ 0 \in Level
      /\ m.keys \subseteq Key /\ m.keys # {}
  <2>1. m.keys # {}
    BY KeyAssumption, Zenon
  <2>2. m.keys \subseteq Key
    BY Zenon DEF Key
  <2> QED
    BY <1>0, <2>1, <2>2, CompactionAssumption DEF Typed, Level
<1>3. \A k \in m.keys : entry(k) \in Entry /\ entry(k).v = version + 1 /\ entry(k).k = k
  BY <1>2 DEF Entry
<1>4. t \in Table /\ t.id = next_file_id /\ t.ents = {entry(k) : k \in m.keys}
  <2> HIDE DEF entry
  <2>1. t.ents \subseteq Entry /\ t.ents # {}
    BY <1>2, <1>3
  <2>2. IsFiniteSet(t.ents)
    <3>1. m.keys \in SUBSET Nat /\ Max(Key) \in Nat /\ \A k \in m.keys : k <= Max(Key)
      BY <1>2, KeyAssumption
    <3>2. IsFiniteSet(m.keys)
      BY <3>1, FS_BoundedSetOfNaturals, Zenon
    <3>3. [k \in m.keys |-> entry(k)] \in Surjection(m.keys, t.ents)
      BY Zenon DEF Surjection
    <3> QED
      BY <3>2, <3>3, FS_Surjection, Zenon
  <2> QED
    BY <1>2, <2>1, <2>2, Zenon DEF Table
<1> HIDE DEF t
<1>5. Range(flushing) = {} /\ Range(flushing') = {t}
  BY <1>1 DEF Range
<1>6. \A x \in Homes : x[2].id < next_file_id /\ x[2].id \in Nat
  <2>1. \A u \in Table : u.id \in Nat
    BY Zenon DEF Table
  <2> QED
    BY <1>0, <2>1, HomesTyped, Zenon DEF Named
<1>7. \A x \in Homes' : x \in Homes \/ x = <<0, t>>
  <2>1. \A x : (\E d \in Built' : \E u \in New(d)' : x = <<plan'[d][1].next, u>>)
          => \E d \in Built : \E u \in New(d) : x = <<plan[d][1].next, u>>
    BY <1>1, Zenon DEF Built, New
  <2>2. \A x : (\E l \in Level : \E u \in Range(levels'[l]) : x = <<l, u>>)
          => \E l \in Level : \E u \in Range(levels[l]) : x = <<l, u>>
    BY <1>1, Zenon
  <2>3. \A x : (\E u \in Range(flushing') : x = <<0, u>>) => x = <<0, t>>
    BY <1>5, Zenon
  <2> QED
    BY <2>1, <2>2, <2>3, HomesAre, HomesNext
<1>8. Typed'
  <2>1. manifest' \subseteq Level \X Table /\ IsFiniteSet(manifest')
    <3>1. manifest \subseteq Level \X Table /\ IsFiniteSet(manifest)
      BY <1>0, Zenon DEF Typed
    <3>2. IsFiniteSet(manifest \cup {<<0, t>>})
      BY <3>1, FS_AddElement, Zenon
    <3> QED
      BY <1>1, <1>2, <1>4, <3>1, <3>2
  <2>2. latest' \in [Key -> SUBSET Entry]
    <3> HIDE DEF entry
    <3> QED
      BY <1>0, <1>1, <1>3 DEF Typed
  <2>3. flushing' \in Seq(Table) /\ Len(flushing') <= 1
    BY <1>1, <1>4
  <2> QED
    <3>1. next_file_id' \in Nat /\ version' \in Nat
      BY <1>1, <1>2
    <3> QED
      BY <1>0, <1>1, <2>1, <2>2, <2>3, <3>1, Zenon DEF Typed
<1>9. InStep'
  BY <1>0, <1>1, Zenon DEF InStep
<1>10. Named'
  <2>1. \A x \in Homes' : x[2].id < next_file_id'
    BY <1>1, <1>2, <1>4, <1>6, <1>7
  <2>2. ASSUME NEW x \in Homes', NEW y \in Homes', x[2].id = y[2].id PROVE x = y
    <3>1. CASE x \in Homes /\ y \in Homes
      BY <1>0, <2>2, <3>1, Zenon DEF Named
    <3>2. CASE x = <<0, t>> \/ y = <<0, t>>
      BY <1>2, <1>4, <1>6, <1>7, <2>2, <3>2
    <3> QED
      BY <1>7, <3>1, <3>2, Zenon
  <2> QED
    BY <2>1, <2>2, Zenon DEF Named
<1>11. Backed'
  <2>1. ASSUME NEW n \in manifest'
        PROVE  \/ n[2] \in Range(levels[n[1]])
               \/ n[1] = 0 /\ n[2] \in Range(flushing')
               \/ \E d \in Built : pc[d] = "replace" /\ n[1] = plan[d][1].next /\ n[2] \in New(d)
    <3>1. CASE n \in manifest
      BY <1>0, <1>5, <3>1, Zenon DEF Backed
    <3>2. CASE n = <<0, t>>
      BY <1>5, <3>2, Zenon
    <3> QED
      BY <1>1, <3>1, <3>2, Zenon
  <2> QED
    BY <1>1, <2>1, Zenon DEF Backed, Built, New
<1>12. Claimed'
  BY <1>0, <1>1 DEF Claimed, Planned, Taken, Descends
<1>13. Exclusive'
  BY <1>0, <1>1 DEF Exclusive, Planned, Taken, Built, New
<1>14. \A x \in Homes : \A e \in x[2].ents :
         e.v \in Nat /\ e.k \in Key /\ e.v <= version /\ \A f \in latest[e.k] : e.v <= f.v
  <2>1. \A u \in Table : \A e \in u.ents : e.v \in Nat /\ e.k \in Key
    BY Zenon DEF Table, Entry
  <2> QED
    BY <1>0, <2>1, HomesTyped, Zenon DEF Versions
<1>15. Versions'
  <2>1. \A k \in Key : \A e \in latest'[k] : e.k = k
    <3> HIDE DEF entry
    <3> QED
      BY <1>0, <1>1, <1>3, Zenon DEF Versions
  <2>2. ASSUME NEW x \in Homes', NEW e \in x[2].ents
        PROVE  e.v <= version' /\ \A f \in latest'[e.k] : e.v <= f.v
    <3>1. CASE x \in Homes
      <4>1. /\ e.v \in Nat /\ e.k \in Key /\ e.v <= version
            /\ \A f \in latest[e.k] : e.v <= f.v
        BY <1>14, <3>1, Zenon
      <4>2. CASE e.k \in m.keys
        <5>1. latest'[e.k] = {entry(e.k)} /\ entry(e.k).v = version + 1
          BY <1>1, <4>1, <4>2, Zenon
        <5> HIDE DEF entry
        <5> QED
          BY <1>1, <1>2, <4>1, <5>1
      <4>3. CASE e.k \notin m.keys
        <5>1. latest'[e.k] = latest[e.k]
          BY <1>1, <4>1, <4>3, Zenon
        <5> QED
          BY <1>1, <1>2, <4>1, <5>1
      <4> QED
        BY <4>2, <4>3, Zenon
    <3>2. CASE x = <<0, t>>
      <4>1. PICK k \in m.keys : e = entry(k)
        BY <1>4, <3>2, Zenon
      <4>2. latest'[k] = {entry(k)} /\ e.k = k /\ e.v = version + 1
        BY <1>1, <1>2, <4>1, Zenon
      <4> HIDE DEF entry
      <4> QED
        BY <1>1, <1>2, <4>1, <4>2
    <3> QED
      BY <1>7, <3>1, <3>2, Zenon
  <2> QED
    BY <2>1, <2>2, Zenon DEF Versions
<1>16. Outputs'
  <2>1. ASSUME NEW d \in Built, NEW q, q = plan[d][1]
        PROVE  /\ \A k \in Key : \A e \in latest'[k] :
                    ~e.d /\ e \in Entries(Range(q.top)) => e \in Entries(New(d))
               /\ pc[d] # "push" => \A n \in manifest', u \in Range(q.top) : n[2].id # u.id
    <3>0. d \in Planned /\ q.this \in Level
      BY <1>0, <2>1, OutIs, PlanIs, Zenon
    <3>1. \A u \in Range(q.top) : <<q.this, u>> \in Homes
      BY <1>0, <2>1, <3>0, AtHome, Zenon DEF Claimed
    <3>2. ASSUME NEW k \in Key, NEW e \in latest'[k], ~e.d, e \in Entries(Range(q.top))
          PROVE  e \in Entries(New(d))
      <4>1. PICK u \in Range(q.top) : e \in u.ents
        BY <3>2, Zenon DEF Entries
      <4>2. e.v \in Nat /\ e.v <= version
        BY <1>14, <3>1, <4>1, Zenon
      <4>3. k \notin m.keys
        <5>1. k \in m.keys => e.v = version + 1
          BY <1>1, <1>3, <3>2, Zenon
        <5> QED
          BY <1>2, <4>2, <5>1
      <4>4. e \in latest[k]
        BY <1>1, <3>2, <4>3, Zenon
      <4> QED
        BY <1>0, <2>1, <3>2, <4>4, Zenon DEF Outputs
    <3>3. ASSUME pc[d] # "push", NEW n \in manifest', NEW u \in Range(q.top)
          PROVE  n[2].id # u.id
      <4>1. CASE n \in manifest
        BY <1>0, <2>1, <3>3, <4>1, Zenon DEF Outputs
      <4>2. CASE n = <<0, t>>
        <5>1. <<q.this, u>> \in Homes /\ <<q.this, u>>[2] = u /\ n[2] = t
          BY <3>1, <4>2, Zenon
        <5>2. u.id < next_file_id /\ u.id \in Nat
          BY <1>6, <5>1, Zenon
        <5> QED
          BY <1>2, <1>4, <5>1, <5>2
      <4> QED
        BY <1>1, <4>1, <4>2, Zenon
    <3> QED
      BY <3>2, <3>3, Zenon
  <2>2. Built' = Built /\ \A d : New(d)' = New(d) /\ (Descends(d)' <=> Descends(d))
    BY <1>1, Zenon DEF Built, New, Descends
  <2> QED
    BY <1>0, <1>1, <2>1, <2>2 DEF Outputs
<1>17. Room' /\ InOrder'
  BY <1>0, <1>1, Zenon DEF Room, Planned, Descends, InOrder
<1>18. NewestKept'
  <2> DEFINE All == (UNION {Range(levels[l]) : l \in Level}) \cup Range(flushing)
             AllNext == (UNION {Range(levels[l]) : l \in Level}) \cup Range(flushing')
             Known == {n[2] : n \in manifest}
             KnownNext == {n[2] : n \in manifest'}
  <2>1. All \subseteq AllNext /\ Known \subseteq KnownNext /\ t \in AllNext /\ t \in KnownNext
    <3>1. <<0, t>> \in manifest' /\ <<0, t>>[2] = t /\ manifest \subseteq manifest'
      BY <1>1, Zenon
    <3>2. Known \subseteq KnownNext /\ t \in KnownNext
      BY <3>1, Zenon
    <3> QED
      BY <1>5, <3>2, Zenon
  <2> HIDE DEF All, AllNext, Known, KnownNext
  <2>2. ASSUME NEW k \in Key, NEW e \in latest'[k], ~e.d
        PROVE  e \in Entries(AllNext) /\ e \in Entries(KnownNext)
    <3>1. CASE k \in m.keys
      <4>1. e \in t.ents
        BY <1>1, <1>4, <2>2, <3>1, Zenon
      <4> QED
        BY <2>1, <4>1, Zenon DEF Entries
    <3>2. CASE k \notin m.keys
      <4>1. e \in latest[k]
        BY <1>1, <2>2, <3>2, Zenon
      <4>2. e \in Entries(All) /\ e \in Entries(Known)
        BY <1>0, <2>2, <4>1, Zenon DEF NewestKept, All, Known
      <4> QED
        BY <2>1, <4>2, Zenon DEF Entries
    <3> QED
      BY <3>1, <3>2, Zenon
  <2> QED
    BY <1>1, <2>2, Zenon DEF NewestKept, AllNext, KnownNext
<1> QED
  BY <1>8, <1>9, <1>10, <1>11, <1>12, <1>13, <1>15, <1>16, <1>17, <1>18, Zenon DEF IInv

LEMMA FlushPushIInv ==
  ASSUME IInv, FlushPush
  PROVE  IInv'
<1>0. /\ Typed /\ InStep /\ Named /\ Backed /\ Claimed /\ Exclusive /\ Outputs /\ Room
      /\ InOrder /\ Versions /\ NewestKept
  BY Zenon DEF IInv
<1>1. /\ levels' = [levels EXCEPT ![0] = @ \o flushing] /\ flushing' = <<>>
      /\ UNCHANGED <<ranges, busy, manifest, next_file_id, version, latest, pc, prios,
                     base, plan, out>>
  BY Zenon DEF FlushPush, statusVars, taskVars
<1>2. /\ 0 \in Level /\ levels[0] \in Seq(Table) /\ flushing \in Seq(Table)
      /\ levels'[0] = levels[0] \o flushing
      /\ \A l \in Level \ {0} : levels'[l] = levels[l]
  <2>1. 0 \in Level
    BY CompactionAssumption DEF Level
  <2>2. levels \in [Level -> Seq(Table)] /\ flushing \in Seq(Table)
    BY <1>0, Zenon DEF Typed
  <2> QED
    BY <1>1, <2>1, <2>2, Zenon
<1>3. /\ Range(levels'[0]) = Range(levels[0]) \cup Range(flushing)
      /\ Range(flushing') = {}
  <2>1. Range(levels[0] \o flushing) = Range(levels[0]) \cup Range(flushing)
    BY <1>2, RangeConcat
  <2>2. Range(<<>>) = {}
    BY DEF Range
  <2> QED
    BY <1>1, <1>2, <2>1, <2>2, Zenon
<1>4. \A l \in Level : Range(levels[l]) \subseteq Range(levels'[l])
  BY <1>2, <1>3, Zenon
<1>5. Typed'
  <2>1. levels' \in [Level -> Seq(Table)]
    <3>1. levels[0] \o flushing \in Seq(Table)
      BY <1>2
    <3> QED
      BY <1>0, <1>1, <3>1, Zenon DEF Typed
  <2>2. flushing' \in Seq(Table) /\ Len(flushing') <= 1
    BY <1>1
  <2> QED
    BY <1>0, <1>1, <2>1, <2>2, Zenon DEF Typed
<1>6. InStep'
  BY <1>0, <1>1, Zenon DEF InStep
<1>7. /\ Built' = Built /\ Planned' = Planned
      /\ \A d : New(d)' = New(d) /\ Taken(d)' = Taken(d) /\ (Descends(d)' <=> Descends(d))
  BY <1>1, Zenon DEF Built, Planned, New, Taken, Descends
<1>8. Homes' \subseteq Homes
  <2> SUFFICES ASSUME NEW x \in Homes' PROVE x \in Homes
    BY Zenon
  <2>1. CASE \E l \in Level : \E t \in Range(levels'[l]) : x = <<l, t>>
    <3>1. PICK l \in Level : \E t \in Range(levels'[l]) : x = <<l, t>>
      BY <2>1, Zenon
    <3>2. PICK t \in Range(levels'[l]) : x = <<l, t>>
      BY <3>1, Zenon
    <3>3. t \in Range(levels[l]) \/ (l = 0 /\ t \in Range(flushing))
      BY <1>2, <1>3, <3>2, Zenon
    <3> QED
      BY <3>2, <3>3, AtHome, Zenon
  <2>2. ~\E t \in Range(flushing') : x = <<0, t>>
    BY <1>3, Zenon
  <2>3. CASE \E d \in Built' : \E t \in New(d)' : x = <<plan'[d][1].next, t>>
    BY <1>1, <1>7, <2>3, AtHome, Zenon
  <2> QED
    BY <2>1, <2>2, <2>3, HomesNext, Zenon
<1>9. Named' /\ Versions'
  BY <1>0, <1>1, <1>8, Zenon DEF Named, Versions
<1>10. Backed'
  <2>1. ASSUME NEW m \in manifest
        PROVE  \/ m[2] \in Range(levels'[m[1]])
               \/ \E d \in Built : pc[d] = "replace" /\ m[1] = plan[d][1].next /\ m[2] \in New(d)
    <3>0. m[1] \in Level
      BY <1>0, ListedAtHome, Zenon
    <3>1. CASE m[2] \in Range(levels[m[1]])
      BY <1>4, <3>0, <3>1, Zenon
    <3>2. CASE m[1] = 0 /\ m[2] \in Range(flushing)
      BY <1>3, <3>2, Zenon
    <3> QED
      BY <1>0, <3>1, <3>2, Zenon DEF Backed
  <2> QED
    BY <1>1, <1>7, <2>1, Zenon DEF Backed
<1>11. Claimed'
  <2>1. ASSUME NEW d \in Planned
        PROVE  /\ Range(plan[d][1].top) \subseteq Range(levels'[plan[d][1].this])
               /\ Range(plan[d][1].bottom) \subseteq Range(levels'[plan[d][1].next])
    <3>1. /\ plan[d][1].this \in Level /\ plan[d][1].next \in Level
          /\ Range(plan[d][1].top) \subseteq Range(levels[plan[d][1].this])
          /\ Range(plan[d][1].bottom) \subseteq Range(levels[plan[d][1].next])
      BY <1>0, PlanIs, Zenon DEF Claimed
    <3> QED
      BY <1>4, <3>1, Zenon
  <2> QED
    BY <1>0, <1>1, <1>7, <2>1 DEF Claimed
<1>12. Exclusive'
  BY <1>0, <1>7 DEF Exclusive
<1>13. Outputs'
  <2>1. ASSUME NEW d \in Built, pc[d] = "delete"
        PROVE  New(d) \subseteq Range(levels'[plan[d][1].next])
    <3>1. New(d) \subseteq Range(levels[plan[d][1].next]) /\ plan[d][1].next \in Level
      BY <1>0, <2>1, OutIs, PlanIs, Zenon DEF Outputs
    <3> QED
      BY <1>4, <3>1, Zenon
  <2> QED
    BY <1>0, <1>1, <1>7, <2>1, Zenon DEF Outputs
<1>14. Room'
  <2>1. ASSUME NEW d \in Planned, Descends(d)
        PROVE  levels'[plan[d][1].next] = levels[plan[d][1].next]
    <3>1. plan[d][1].this \in Level /\ plan[d][1].next \in Level
      BY <1>0, PlanIs, Zenon
    <3>2. plan[d][1].next # 0
      BY <2>1, <3>1 DEF Descends, Level
    <3> QED
      BY <1>2, <3>1, <3>2, Zenon
  <2> QED
    BY <1>0, <1>1, <1>7, <2>1, Zenon DEF Room
<1>15. InOrder'
  <2>1. \A l \in 1 .. LastLevel : levels'[l] = levels[l]
    BY <1>2, CompactionAssumption DEF Level, LastLevel
  <2> QED
    BY <1>0, <2>1, Zenon DEF InOrder
<1>16. NewestKept'
  <2> DEFINE All == (UNION {Range(levels[l]) : l \in Level}) \cup Range(flushing)
             AllNext == (UNION {Range(levels'[l]) : l \in Level}) \cup Range(flushing')
  <2>1. All \subseteq AllNext
    BY <1>2, <1>3, <1>4, Zenon
  <2>2. ASSUME NEW e \in Entries(All) PROVE e \in Entries(AllNext)
    <3> HIDE DEF All, AllNext
    <3> QED
      BY <2>1, Zenon DEF Entries
  <2> QED
    BY <1>0, <1>1, <2>2, Zenon DEF NewestKept
<1> QED
  BY <1>5, <1>6, <1>9, <1>10, <1>11, <1>12, <1>13, <1>14, <1>15, <1>16, Zenon DEF IInv

-----------------------------------------------------------------------------
\* Opening again.

\* Below level 0 the tables that the manifest lists share no key.
LEMMA ListedApart ==
  ASSUME IInv, NEW m \in manifest, NEW n \in manifest, m[1] = n[1], m[1] > 0, m # n
  PROVE  Disjoint(m[2], n[2])
<1>0. Typed /\ InStep /\ Backed /\ Claimed /\ Outputs /\ Room /\ InOrder
  BY Zenon DEF IInv
<1>1. /\ m = <<m[1], m[2]>> /\ m[1] \in Level /\ m[2] \in Table
      /\ n = <<n[1], n[2]>> /\ n[1] \in Level /\ n[2] \in Table
  BY <1>0, ListedAtHome, Zenon
<1>2. PICK l \in Level : l = m[1] /\ l = n[1]
  BY <1>1, Zenon
<1>3. l \in 1 .. LastLevel /\ l # 0 /\ m[2] # n[2]
  BY <1>1, <1>2 DEF Level, LastLevel
<1> DEFINE Pushing(c, t) == /\ c \in Built /\ pc[c] = "replace" /\ l = plan[c][1].next
                            /\ t \in New(c)
<1>4. /\ m[2] \in Range(levels[l]) \/ \E c \in Built : Pushing(c, m[2])
      /\ n[2] \in Range(levels[l]) \/ \E c \in Built : Pushing(c, n[2])
  BY <1>0, <1>2, <1>3, Zenon DEF Backed
<1>5. ASSUME NEW c, NEW t, Pushing(c, t)
      PROVE  /\ c \in Planned /\ Descends(c) /\ plan[c][1].bottom = <<>>
             /\ plan[c][1].this_range \in KeyTsRange /\ ~plan[c][1].this_range.inf
             /\ plan[c][1].next_range = plan[c][1].this_range
             /\ t \in Table /\ Within(t, plan[c][1].this_range)
             /\ \A u \in Range(levels[l]) : Apart(u, plan[c][1].this_range)
  <2>1. c \in Planned /\ c \in Built /\ t \in Table /\ pc[c] # "delete" /\ plan[c][1].bottom = <<>>
    <3>1. pc[c] # "delete"
      BY <1>5, Zenon
    <3> QED
      BY <1>0, <1>5, <3>1, OutIs, Zenon DEF Outputs
  <2>2. Descends(c) /\ ~plan[c][1].this_range.inf /\ plan[c][1].next_range = plan[c][1].this_range
    BY <1>0, <1>3, <1>5, <2>1, Zenon DEF Claimed
  <2>3. plan[c][1].this_range \in KeyTsRange
    BY <1>0, <2>1, PlanIs, Zenon
  <2>4. Within(t, plan[c][1].this_range)
    BY <1>0, <1>5, <2>1, <2>2, Zenon DEF Outputs
  <2>5. \A u \in Range(levels[l]) : Apart(u, plan[c][1].this_range)
    BY <1>0, <1>5, <2>1, <2>2, Zenon DEF Room
  <2> QED
    BY <2>1, <2>2, <2>3, <2>4, <2>5, Zenon
<1>6. CASE m[2] \in Range(levels[l]) /\ n[2] \in Range(levels[l])
  BY <1>0, <1>3, <1>6, OrderApart, Zenon
<1>7. ASSUME NEW c, NEW t, NEW u, Pushing(c, t), u \in Range(levels[l]), u \in Table
      PROVE  Disjoint(t, u) /\ Disjoint(u, t)
  <2>1. /\ plan[c][1].this_range \in KeyTsRange /\ ~plan[c][1].this_range.inf
        /\ t \in Table /\ Within(t, plan[c][1].this_range) /\ Apart(u, plan[c][1].this_range)
    BY <1>5, <1>7, Zenon
  <2> QED
    BY <1>7, <2>1, ApartIsDisjoint, Zenon
<1>8. ASSUME NEW c, NEW d, Pushing(c, m[2]), Pushing(d, n[2])
      PROVE  Disjoint(m[2], n[2])
  <2>1. CASE c = d
    BY <1>0, <1>3, <1>8, <2>1, Zenon DEF Outputs
  <2>2. CASE c # d
    <3>1. /\ c \in Planned /\ Descends(c) /\ plan[c][1].this_range \in KeyTsRange
          /\ ~plan[c][1].this_range.inf /\ plan[c][1].next_range = plan[c][1].this_range
          /\ Within(m[2], plan[c][1].this_range)
      BY <1>5, <1>8, Zenon
    <3>2. /\ d \in Planned /\ Descends(d) /\ plan[d][1].this_range \in KeyTsRange
          /\ ~plan[d][1].this_range.inf /\ plan[d][1].next_range = plan[d][1].this_range
          /\ Within(n[2], plan[d][1].this_range)
      BY <1>5, <1>8, Zenon
    <3>3. Miss(plan[c][1].this_range, plan[d][1].this_range)
      BY <1>0, <1>8, <2>2, <3>1, <3>2, Zenon DEF Room
    <3>4. Apart(n[2], plan[c][1].this_range)
      BY <1>1, <3>1, <3>2, <3>3, MissedIsApart, Zenon
    <3> QED
      BY <1>1, <3>1, <3>4, ApartIsDisjoint, Zenon
  <2> QED
    BY <2>1, <2>2, Zenon
<1> HIDE DEF Pushing
<1> QED
  BY <1>1, <1>4, <1>6, <1>7, <1>8, Zenon

LEMMA RestartIInv ==
  ASSUME IInv, Restart
  PROVE  IInv'
<1> DEFINE listed(l) == {m[2] : m \in {n \in manifest : n[1] = l}}
           ids == {0} \cup {m[2].id : m \in manifest}
<1>0. Typed /\ InStep /\ Named /\ Backed /\ Versions /\ NewestKept
  BY Zenon DEF IInv
<1>1. /\ levels' = [l \in Level |-> Ordered(l, listed(l))]
      /\ ranges' = [l \in Level |-> {}] /\ busy' = {}
      /\ next_file_id' = 1 + Max(ids) /\ flushing' = <<>>
      /\ pc' = [c \in Compactor |-> "idle"] /\ prios' = [c \in Compactor |-> <<>>]
      /\ base' = [c \in Compactor |-> 0] /\ plan' = [c \in Compactor |-> <<>>]
      /\ out' = [c \in Compactor |-> <<>>] /\ UNCHANGED <<manifest, version, latest>>
  BY Zenon DEF Restart
<1>2. \A m \in manifest : /\ m = <<m[1], m[2]>> /\ m[1] \in Level /\ m[2] \in Table
                          /\ m \in Homes /\ m[2].id \in Nat /\ m[2].id < next_file_id
  <2>1. \A t \in Table : t.id \in Nat
    BY Zenon DEF Table
  <2> QED
    BY <1>0, <2>1, ListedAtHome, Zenon DEF Named
<1>3. ASSUME NEW l \in Level
      PROVE  /\ levels'[l] \in Seq(Table) /\ Range(levels'[l]) = listed(l)
             /\ l # 0 => \A i, j \in DOMAIN levels'[l] :
                           i < j => Biggest(levels'[l][i]) < Smallest(levels'[l][j])
  <2> DEFINE M == {n \in manifest : n[1] = l}
             T == {m[2] : m \in M}
  <2>1. T \subseteq Table
    BY <1>2, Zenon
  <2>2. IsFiniteSet(T)
    <3>1. IsFiniteSet(manifest)
      BY <1>0, Zenon DEF Typed
    <3>2. IsFiniteSet(M)
      BY <3>1, FS_Subset, Zenon
    <3>3. [m \in M |-> m[2]] \in Surjection(M, T)
      <4> HIDE DEF M
      <4> QED
        BY Zenon DEF Surjection
    <3> QED
      BY <3>2, <3>3, FS_Surjection, Zenon
  <2>3. ASSUME l # 0, NEW t \in T, NEW u \in T, t # u PROVE Disjoint(t, u)
    <3>1. PICK m \in M : t = m[2]
      BY Zenon
    <3>2. PICK n \in M : u = n[2]
      BY Zenon
    <3>3. m[1] = l /\ n[1] = l /\ m # n /\ m[1] > 0
      BY <2>3, <3>1, <3>2 DEF Level
    <3> QED
      BY <3>1, <3>2, <3>3, ListedApart, Zenon
  <2>4. levels'[l] = Ordered(l, T)
    BY <1>1, Zenon
  <2> HIDE DEF T
  <2>5. /\ levels'[l] \in Seq(Table) /\ Range(levels'[l]) = T
        /\ (l # 0 /\ \A t, u \in T : t # u => Disjoint(t, u)) =>
             \A i, j \in DOMAIN levels'[l] : i < j => Biggest(levels'[l][i]) < Smallest(levels'[l][j])
    BY <2>1, <2>2, <2>4, OrderedIs, Zenon
  <2> QED
    BY <2>3, <2>5, Zenon DEF T
<1>4. /\ \A l \in Level : \A t \in Range(levels'[l]) : <<l, t>> \in manifest
      /\ \A m \in manifest : m[2] \in Range(levels'[m[1]])
  <2>1. ASSUME NEW l \in Level, NEW t \in Range(levels'[l]) PROVE <<l, t>> \in manifest
    <3>1. t \in listed(l)
      BY <1>3, Zenon
    <3>2. PICK m \in manifest : m[1] = l /\ t = m[2]
      BY <3>1, Zenon
    <3> QED
      BY <1>2, <3>2, Zenon
  <2>2. ASSUME NEW m \in manifest PROVE m[2] \in Range(levels'[m[1]])
    <3>1. m[2] \in listed(m[1]) /\ m[1] \in Level
      BY <1>2, Zenon
    <3> HIDE DEF listed
    <3> QED
      BY <1>3, <3>1, Zenon
  <2> QED
    BY <2>1, <2>2, Zenon
<1>5. next_file_id' \in Nat /\ \A m \in manifest : m[2].id < next_file_id'
  <2>1. next_file_id \in Nat
    BY <1>0, Zenon DEF Typed
  <2>2. ids \subseteq Nat /\ ids # {} /\ \A x \in ids : x <= next_file_id
    BY <1>2, <2>1
  <2>3. \A m \in manifest : m[2].id \in ids
    BY Zenon
  <2> HIDE DEF ids
  <2>4. Max(ids) \in ids /\ \A y \in ids : y <= Max(ids)
    BY <2>1, <2>2, GreatestOf, Zenon
  <2>5. Max(ids) \in Nat
    BY <2>2, <2>4, Zenon
  <2> QED
    BY <1>1, <1>2, <2>3, <2>4, <2>5
<1>6. Built' = {} /\ Planned' = {}
  BY <1>1, Zenon DEF Built, Planned
<1>7. \A x \in Homes' : x \in manifest
  <2>1. Range(flushing') = {}
    BY <1>1 DEF Range
  <2> QED
    BY <1>4, <1>6, <2>1, HomesNext
<1>8. Typed'
  <2>1. levels' \in [Level -> Seq(Table)]
    <3>1. levels' = [l \in Level |-> levels'[l]]
      BY <1>1, Zenon
    <3> QED
      BY <1>3, <3>1, Zenon
  <2>2. /\ ranges' \in [Level -> SUBSET KeyTsRange] /\ busy' \subseteq Nat
        /\ flushing' \in Seq(Table) /\ Len(flushing') <= 1
        /\ pc' \in [Compactor -> {"idle", "start", "dead", "build", "stuck", "push",
                                  "replace", "delete"}]
        /\ base' \in [Compactor -> Level]
    BY <1>1, CompactionAssumption DEF Level
  <2> DEFINE O == [new : Seq(Table), dropped : SUBSET Entry]
             S == 0 .. LastLevel - 1
  <2>3. /\ plan' \in [Compactor -> Seq(CompactPlan)] /\ out' \in [Compactor -> Seq(O)]
        /\ prios' \in [Compactor -> Seq(S)]
    <3> HIDE DEF O, S
    <3> QED
      BY <1>1
  <2> QED
    BY <1>0, <1>1, <1>5, <2>1, <2>2, <2>3, Zenon DEF Typed
<1>9. InStep'
  BY <1>1, Zenon DEF InStep
<1>10. Named'
  BY <1>0, <1>2, <1>5, <1>7, Zenon DEF Named
<1>11. Versions'
  BY <1>0, <1>1, <1>2, <1>7, Zenon DEF Versions
<1>12. Backed'
  BY <1>1, <1>4, Zenon DEF Backed
<1>13. Claimed' /\ Exclusive' /\ Outputs' /\ Room'
  BY <1>6, Zenon DEF Claimed, Exclusive, Outputs, Room
<1>14. InOrder'
  <2>1. \A l \in 1 .. LastLevel : l \in Level /\ l # 0
    BY CompactionAssumption DEF Level, LastLevel
  <2> QED
    BY <1>3, <2>1, Zenon DEF InOrder
<1>15. NewestKept'
  <2> DEFINE All == (UNION {Range(levels'[l]) : l \in Level}) \cup Range(flushing')
             Known == {m[2] : m \in manifest}
  <2>1. ASSUME NEW t \in Known PROVE t \in All
    <3>1. PICK m \in manifest : t = m[2]
      BY Zenon
    <3>2. PICK l \in Level : l = m[1]
      BY <1>2, Zenon
    <3>3. t \in Range(levels'[l])
      BY <1>4, <3>1, <3>2, Zenon
    <3> QED
      BY <3>3, Zenon
  <2>2. ASSUME NEW e \in Entries(Known) PROVE e \in Entries(All)
    <3> HIDE DEF All, Known
    <3> QED
      BY <2>1, Zenon DEF Entries
  <2> QED
    BY <1>0, <1>1, <2>2, Zenon DEF NewestKept
<1> QED
  BY <1>8, <1>9, <1>10, <1>11, <1>12, <1>13, <1>14, <1>15, Zenon DEF IInv

-----------------------------------------------------------------------------
\* The theorems.

LEMMA NextIInv == IInv /\ [Next]_vars => IInv'
<1>1. SUFFICES ASSUME IInv, [Next]_vars PROVE IInv'
  BY Zenon
<1>2. CASE \E m \in Memtable : FlushRecord(m.keys, m.dels)
  BY <1>1, <1>2, FlushRecordIInv, Zenon
<1>3. CASE FlushPush
  BY <1>1, <1>3, FlushPushIInv, Zenon
<1>4. CASE Restart
  BY <1>1, <1>4, RestartIInv, Zenon
<1>5. ASSUME NEW c \in Compactor,
             \/ PickCompactLevels(c) \/ StartCompact(c) \/ Build(c) \/ CompactFails(c)
             \/ PushChanges(c) \/ Replace(c) \/ Delete(c)
      PROVE  IInv'
  <2>1. CASE PickCompactLevels(c)
    BY <1>1, <2>1, PickIInv, Zenon
  <2>2. CASE StartCompact(c)
    BY <1>1, <2>2, StartCompactIInv, Zenon
  <2>3. CASE Build(c)
    BY <1>1, <2>3, BuildIInv, Zenon
  <2>4. CASE CompactFails(c)
    BY <1>1, <2>4, CompactFailsIInv, Zenon
  <2>5. CASE PushChanges(c)
    BY <1>1, <2>5, PushChangesIInv, Zenon
  <2>6. CASE Replace(c)
    BY <1>1, <2>6, ReplaceIInv, Zenon
  <2>7. CASE Delete(c)
    BY <1>1, <2>7, DeleteIInv, Zenon
  <2> QED
    BY <1>5, <2>1, <2>2, <2>3, <2>4, <2>5, <2>6, <2>7, Zenon
<1>6. CASE UNCHANGED vars
  <2>1. UNCHANGED <<levels, ranges, busy, manifest, next_file_id, version, latest,
                    flushing, pc, prios, base, plan, out>>
    BY <1>6, Zenon DEF vars, levelVars, statusVars, taskVars
  <2>2. Typed' /\ InStep'
    BY <1>1, <2>1, Zenon DEF IInv, Typed, InStep
  <2>3. \A d \in Compactor : pc'[d] = pc[d] \/ (out[d] = <<>> /\ pc'[d] # "delete")
    BY <2>1, Zenon
  <2> QED
    BY <1>1, <2>1, <2>2, <2>3, Quiet, Zenon DEF IInv
<1> QED
  BY <1>1, <1>2, <1>3, <1>4, <1>5, <1>6, Zenon DEF Next

\* Whatever flushes, compactors and restarts do, and in whatever order, every table
\* has one home, what a plan took stays where it is and out of other plans, and
\* what a compactor built fits where it will be put.
THEOREM CompactionInvariance == Spec => []IInv
<1>1. Init => IInv
  BY InitIInv, Zenon
<1>2. IInv /\ [Next]_vars => IInv'
  BY NextIInv, Zenon
<1> QED
  BY <1>1, <1>2, PTL DEF Spec

LEMMA IInvSorts == IInv => LevelsSorted
<1>1. SUFFICES ASSUME IInv PROVE LevelsSorted
  BY Zenon
<1>2. ASSUME NEW l \in 1 .. LastLevel, NEW i \in 2 .. Len(levels[l])
      PROVE  Biggest(levels[l][i - 1]) < Smallest(levels[l][i])
  <2>1. levels[l] \in Seq(Table)
    BY <1>1, CompactionAssumption DEF IInv, Typed, Level, LastLevel
  <2>2. i - 1 \in DOMAIN levels[l] /\ i \in DOMAIN levels[l] /\ i - 1 < i
    BY <2>1
  <2> QED
    BY <1>1, <2>2, Zenon DEF IInv, InOrder
<1>3. \A m, n \in manifest : m[1] = n[1] /\ m[1] > 0 /\ m # n => Disjoint(m[2], n[2])
  BY <1>1, ListedApart, Zenon
<1> QED
  BY <1>2, <1>3, Zenon DEF LevelsSorted

LEMMA IInvSeparates == IInv => OnePlanPerTable
<1>1. SUFFICES ASSUME IInv PROVE OnePlanPerTable
  BY Zenon
<1>2. Typed /\ Claimed /\ Exclusive
  BY <1>1, Zenon DEF IInv
<1>3. ASSUME NEW c \in Planned, NEW i \in Ids(plan[c][1].top \o plan[c][1].bottom)
      PROVE  \E t \in Taken(c) : t.id = i
  <2>1. plan[c][1].top \in Seq(Table) /\ plan[c][1].bottom \in Seq(Table)
    BY <1>2, PlanIs, Zenon
  <2>2. Range(plan[c][1].top \o plan[c][1].bottom) = Taken(c)
    BY <2>1, RangeConcat DEF Taken
  <2> QED
    BY <2>2, Zenon DEF Ids
<1>4. ASSUME NEW c \in Planned, NEW d \in Planned \ {c}
      PROVE  Ids(plan[c][1].top \o plan[c][1].bottom)
               \cap Ids(plan[d][1].top \o plan[d][1].bottom) = {}
  <2>1. ASSUME NEW i \in Ids(plan[c][1].top \o plan[c][1].bottom),
               i \in Ids(plan[d][1].top \o plan[d][1].bottom)
        PROVE  FALSE
    <3>1. PICK t \in Taken(c) : t.id = i
      BY <1>3, Zenon
    <3>2. PICK u \in Taken(d) : u.id = i
      BY <1>3, <2>1, Zenon
    <3> QED
      BY <1>2, <3>1, <3>2, Zenon DEF Exclusive
  <2> QED
    BY <2>1, Zenon
<1>5. \A c \in Planned : /\ Range(plan[c][1].top) \subseteq Range(levels[plan[c][1].this])
                         /\ Range(plan[c][1].bottom) \subseteq Range(levels[plan[c][1].next])
  BY <1>2, Zenon DEF Claimed
<1> QED
  BY <1>4, <1>5, Zenon DEF OnePlanPerTable, Planned

\* Below level 0 the tables of a level are always sorted and without common keys, in
\* memory and in what the manifest would make of it: LevelHandler::validate finds
\* nothing wrong, whenever the database is closed or killed and opened again.
THEOREM LevelsStaySorted == Spec => []LevelsSorted
BY CompactionInvariance, IInvSorts, PTL

\* Any number of compactors share CompactStatus: no two of them ever hold the same
\* table, and those of a plan are where they were until the manifest forgets them.
THEOREM PlansAreExclusive == Spec => []OnePlanPerTable
BY CompactionInvariance, IInvSeparates, PTL

\* Neither a compaction, a failure in any of its steps, nor a restart between two of
\* them loses the newest value of a key that is not deleted, whatever number of
\* levels, compactors, keys and flushes there are.
THEOREM NewestValueSurvives == Spec => []NewestKept
<1>1. IInv => NewestKept
  BY Zenon DEF IInv
<1> QED
  BY <1>1, CompactionInvariance, PTL
=============================================================================
