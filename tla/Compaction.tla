----------------------------- MODULE Compaction -----------------------------
(***************************************************************************)
(* The compactors: which level they pick, what a plan takes, what          *)
(* CompactStatus remembers of it, what is built, and how the levels and    *)
(* the manifest change, with flushes and restarts in between               *)
(* (level/compaction.rs, plan.rs, compact.rs, level_handler.rs, flush.rs). *)
(* A table is its file number and its entries; an entry is a key, a        *)
(* version and whether it is a deletion.  Versions grow with every flush.  *)
(***************************************************************************)
EXTENDS Integers, Sequences, FiniteSets, FiniteSetsExt, Functions

CONSTANTS
  Memtable,            \* bound: contents of a memtable, keys written and deleted
  MaxVersion,          \* bound: memtables flushed
  MaxId,               \* bound: file numbers
  NumLevels,           \* max_level
  Compactor,           \* 0 .. num_compactors - 1
  NumLevelZeroTables,
  Stall,               \* num_level_zero_tables_stall
  MinL0ToL0,           \* the 4 tables a compaction inside level 0 needs
  BaseLevelSize,
  LevelSizeMultiplier,
  MemtableSize,        \* file_size[0]; a size counts entries and the index
  U32                  \* the width total_stale_size wraps at

ASSUME CompactionAssumption ==
  /\ NumLevels \in Nat /\ NumLevels > 1
  /\ 0 \in Compactor
  /\ Stall > NumLevelZeroTables     \* asserted by LevelsControllerConfig::build
  /\ BaseLevelSize > 0 /\ LevelSizeMultiplier > 0

Level == 0 .. NumLevels - 1
Key == UNION {m.keys : m \in Memtable}
LastLevel == NumLevels - 1

\* A transaction refuses an empty key, for which 0 stands, and one above
\* MAX_KEY_SIZE; build_l0_table skips a memtable without entries.
ASSUME KeyAssumption ==
  /\ \A m \in Memtable : m.keys # {}
  /\ Max(Key) \in Nat /\ Key \subseteq 1 .. Max(Key)

VARIABLES
  levels,            \* tables of every LevelHandler, in order
  total_size,
  total_stale_size,
  ranges,            \* CompactStatus: ranges registered for every level
  busy,              \* CompactStatus: numbers of the tables registered
  manifest,          \* what the manifest lists: levels and tables
  next_file_id,
  version,           \* version of the last memtable flushed
  latest,            \* history: the newest entry flushed of every key
  flushing,          \* the table push_level0_table holds, or none
  pc,                \* every compactor
  prios,             \* the levels it still has to try in this tick
  base,              \* base_level of the targets it computed
  plan,              \* its CompactPlan
  out                \* the tables it built, and the deletions it dropped

levelVars == <<levels, total_size, total_stale_size>>
statusVars == <<ranges, busy>>
taskVars == <<pc, prios, base, plan, out>>
vars == <<levelVars, statusVars, manifest, next_file_id, version, latest,
          flushing, taskVars>>

-----------------------------------------------------------------------------
\* Tables and ranges.

KeysOf(t) == {e.k : e \in t.ents}
Smallest(t) == Min(KeysOf(t))
Biggest(t) == Max(KeysOf(t))
MaxVersionOf(t) == Max({e.v : e \in t.ents})
Size(t) == 1 + Cardinality(t.ents)
Stale(t) == t.stale
Ids(s) == {t.id : t \in Range(s)}
Entries(ts) == UNION {t.ents : t \in ts}

\* The tables of s that are in ts, in the order of s.
Keep(s, ts) ==
  LET keep[i \in 0 .. Len(s)] ==
        IF i = 0 THEN <<>>
        ELSE IF s[i] \in ts THEN Append(keep[i - 1], s[i]) ELSE keep[i - 1]
  IN keep[Len(s)]

Without(s, old) == Keep(s, {t \in Range(s) : t.id \notin Ids(old)})

\* The elements of a set in the order of their ranks.
SortedBy(set, rank) ==
  CHOOSE s \in [1 .. Cardinality(set) -> set] :
    Range(s) = set /\ \A i, j \in DOMAIN s : i < j => rank[s[i]] <= rank[s[j]]

\* A KeyTsRange goes from (smallest key, highest version), the first position of
\* its key, to (biggest key, version 0), the last: two ranges overlap when their
\* keys do.  <<0, 0>> is the default, empty one.
EmptyRange == [lo |-> 0, hi |-> 0, inf |-> FALSE]
InfRange == [lo |-> 0, hi |-> 0, inf |-> TRUE]
RangeOf(ts) ==
  IF ts = {} THEN EmptyRange
  ELSE [lo |-> Min({Smallest(t) : t \in ts}), hi |-> Max({Biggest(t) : t \in ts}),
        inf |-> FALSE]

OverlapsWith(r, target) ==
  \/ r = EmptyRange
  \/ /\ target # EmptyRange
     /\ \/ r.inf \/ target.inf
        \/ ~(target.hi < r.lo \/ r.hi < target.lo)

\* LevelCompactStatus::is_overlaps_with.
StatusOverlaps(level, r) == \E s \in ranges[level] : OverlapsWith(s, r)

\* LevelHandlerTables::overlap_tables, in a level that is sorted.
OverlapTables(level, r) ==
  IF r.lo = 0 \/ r.hi = 0 THEN <<>>
  ELSE Keep(levels[level], {t \in Range(levels[level]) :
                              Biggest(t) >= r.lo /\ Smallest(t) <= r.hi})

\* LevelHandlerTables::init: level 0 by file number, the others by smallest key.
Ordered(level, ts) ==
  SortedBy(ts, [t \in ts |-> IF level = 0 THEN t.id ELSE Smallest(t)])

-----------------------------------------------------------------------------
Init ==
  /\ levels = [l \in Level |-> <<>>]
  /\ total_size = [l \in Level |-> 0]
  /\ total_stale_size = [l \in Level |-> 0]
  /\ ranges = [l \in Level |-> {}] /\ busy = {}
  /\ manifest = {}
  /\ next_file_id = 1
  /\ version = 0
  /\ latest = [k \in Key |-> {}]
  /\ flushing = <<>>
  /\ pc = [c \in Compactor |-> "idle"]
  /\ prios = [c \in Compactor |-> <<>>]
  /\ base = [c \in Compactor |-> 0]
  /\ plan = [c \in Compactor |-> <<>>]
  /\ out = [c \in Compactor |-> <<>>]

-----------------------------------------------------------------------------
\* Flushing: push_level0_table records the table and then waits for room.

FlushRecord(keys, dels) ==
  /\ flushing = <<>>
  /\ version < MaxVersion
  /\ next_file_id <= MaxId
  /\ LET t == [id |-> next_file_id, stale |-> 0,
               ents |-> {[k |-> k, v |-> version + 1, d |-> k \in dels] : k \in keys}]
     IN /\ flushing' = <<t>>
        /\ manifest' = manifest \cup {<<0, t>>}
  /\ latest' = [k \in Key |->
                 IF k \in keys THEN {[k |-> k, v |-> version + 1, d |-> k \in dels]}
                               ELSE latest[k]]
  /\ version' = version + 1
  /\ next_file_id' = next_file_id + 1
  /\ UNCHANGED <<levelVars, statusVars, taskVars>>

\* total_stale_size is assigned, not added to.
FlushPush ==
  /\ flushing # <<>>
  /\ Len(levels[0]) < Stall
  /\ levels' = [levels EXCEPT ![0] = @ \o flushing]
  /\ total_size' = [total_size EXCEPT ![0] = @ + Size(flushing[1])]
  /\ total_stale_size' = [total_stale_size EXCEPT ![0] = flushing[1].stale]
  /\ flushing' = <<>>
  /\ UNCHANGED <<statusVars, manifest, next_file_id, version, latest, taskVars>>

-----------------------------------------------------------------------------
\* Picking a level: level_targets and pick_compact_levels.

LevelSize(l) == total_size[LastLevel] \div LevelSizeMultiplier ^ (LastLevel - l)
TargetSize(l) == Max({LevelSize(l), BaseLevelSize})

\* The deepest level that is small enough, or level 0; then down through empty
\* levels; then one more when the level below still has room.
BaseLevel ==
  LET fits == {l \in 1 .. LastLevel : LevelSize(l) <= BaseLevelSize}
      first == IF fits = {} THEN 0 ELSE Max(fits)
      through == {l \in first .. LastLevel : \A i \in first .. l : total_size[i] = 0}
      b == IF through = {} THEN first ELSE Max(through)
  IN IF b < LastLevel /\ total_size[b] = 0 /\ total_size[b + 1] < TargetSize(b + 1)
       THEN b + 1 ELSE b

\* Scores are fractions <<n, d>>.
Score(l) == IF l = 0 THEN <<Len(levels[0]), NumLevelZeroTables>>
                     ELSE <<total_size[l], TargetSize(l)>>
AtLeast(x, y) == x[1] * y[2] >= y[1] * x[2]
One == <<1, 1>>
MinScore == <<1, 100>>

\* Along level 0, the base level and the ones below it, a score of at least one is
\* divided by the score of the next, which is at least MIN_SCORE.
Adjusted ==
  LET adj[i \in 0 .. NumLevels - BaseLevel] ==
        IF i = 0 THEN [l \in Level |-> Score(l)]
        ELSE LET l == BaseLevel + i - 1
                 pre == IF i = 1 THEN 0 ELSE l - 1
                 div == IF AtLeast(Score(l), MinScore) THEN adj[i - 1][l] ELSE MinScore
             IN IF AtLeast(adj[i - 1][pre], One)
                  THEN [adj[i - 1] EXCEPT ![pre] = <<@[1] * div[2], @[2] * div[1]>>]
                  ELSE adj[i - 1]
  IN adj[NumLevels - BaseLevel]

\* The levels a tick of compactor c tries, in order: never the last one, highest
\* adjusted score first, except that compactor 0 starts with level 0; up to the
\* first whose adjusted score is below one.
Picks(c) ==
  LET adj == Adjusted
      cand == {l \in 0 .. LastLevel - 1 : AtLeast(Score(l), One)}
      front == IF c = 0 /\ 0 \in cand THEN <<0>> ELSE <<>>
      rest == cand \ Range(front)
      orders == {s \in Bijection(1 .. Cardinality(rest), rest) :
                   \A i, j \in DOMAIN s : i < j => AtLeast(adj[s[i]], adj[s[j]])}
      low(s) == {i \in DOMAIN s : ~AtLeast(adj[s[i]], One)}
      cut(s) == IF low(s) = {} THEN s ELSE SubSeq(s, 1, Min(low(s)) - 1)
  IN {cut(front \o s) : s \in orders}

PickCompactLevels(c) ==
  /\ pc[c] = "idle"
  /\ \E s \in Picks(c) :
       /\ s # <<>>
       /\ prios' = [prios EXCEPT ![c] = s]
  /\ base' = [base EXCEPT ![c] = BaseLevel]
  /\ pc' = [pc EXCEPT ![c] = "start"]
  /\ UNCHANGED <<levelVars, statusVars, manifest, next_file_id, version, latest,
                 flushing, plan, out>>

-----------------------------------------------------------------------------
\* Planning: CompactPlan::fix under the read locks of both levels.

Plan(this, next, top, bottom, tr, nr) ==
  [this |-> this, next |-> next, top |-> top, bottom |-> bottom,
   this_range |-> tr, next_range |-> nr]

\* CompactStatusInner::try_update refuses a plan that meets a registered one.
TryUpdate(p) ==
  /\ ~StatusOverlaps(p.this, p.this_range)
  /\ ~StatusOverlaps(p.next, p.next_range)

\* A plan from this to next for the tables top.
PlanFor(this, next, top) ==
  LET r == RangeOf(Range(top))
      bottom == OverlapTables(next, r)
  IN Plan(this, next, top, bottom, r,
          IF bottom = <<>> THEN r ELSE RangeOf(Range(bottom)))

\* fill_tables_level0_to_levelbase: the oldest tables, as long as each overlaps
\* the ones before it.
ChainedPrefix(s) ==
  SubSeq(s, 1, Max({n \in 0 .. Len(s) :
    \A i \in 2 .. n : OverlapsWith(RangeOf(Range(SubSeq(s, 1, i - 1))), RangeOf({s[i]}))}))

Level0ToBase(b) ==
  {p \in {PlanFor(0, b, ChainedPrefix(levels[0]))} : levels[0] # <<>> /\ TryUpdate(p)}

\* Variant: tables that another plan has taken are not left out.
Level0ToLevel0Any(old) ==
  LET top == Keep(levels[0], {t \in Range(levels[0]) : /\ Size(t) < 2 * MemtableSize
                                                       /\ t.id <= old})
  IN {p \in {Plan(0, 0, top, <<>>, InfRange, EmptyRange)} : Len(top) >= MinL0ToL0}

\* fill_tables_level0_to_level0: small tables older than ten seconds, here the
\* ones up to file number old, that no plan has taken.
Level0ToLevel0(old) ==
  LET top == Keep(levels[0], {t \in Range(levels[0]) : /\ Size(t) < 2 * MemtableSize
                                                       /\ t.id <= old
                                                       /\ t.id \notin busy})
  IN {p \in {Plan(0, 0, top, <<>>, InfRange, EmptyRange)} : Len(top) >= MinL0ToL0}

\* fill_tables: the first table by max_version that meets no registered plan.
FillTables(l) ==
  LET ok == {t \in Range(levels[l]) : TryUpdate(PlanFor(l, l + 1, <<t>>))}
  IN {PlanFor(l, l + 1, <<t>>) :
        t \in {u \in ok : \A w \in ok : MaxVersionOf(u) <= MaxVersionOf(w)}}

Fill(c, l, b, old) ==
  IF l # 0 THEN FillTables(l)
  ELSE IF Level0ToBase(b) # {} THEN Level0ToBase(b)
  ELSE IF c = 0 THEN Level0ToLevel0(old) ELSE {}

\* The plan is registered.  Nothing ever removes it from CompactStatus, neither
\* success nor failure.
Register(p) ==
  /\ ranges' = [l \in Level |-> ranges[l]
                  \cup (IF l = p.this THEN {p.this_range} ELSE {})
                  \cup (IF l = p.next /\ p.next # p.this THEN {p.next_range} ELSE {})]
  /\ busy' = busy \cup Ids(p.top \o p.bottom)

\* The level is given up: start_compact returns false and the next one is tried.
NextLevel(c) ==
  /\ prios' = [prios EXCEPT ![c] = Tail(@)]
  /\ pc' = [pc EXCEPT ![c] = IF Len(prios[c]) = 1 THEN "idle" ELSE "start"]
  /\ base' = [base EXCEPT ![c] = IF Len(prios[c]) = 1 THEN 0 ELSE @]

\* compact computes the targets again when the base level is 0; a base level that
\* still is 0 panics and ends the compactor.
StartCompact(c) ==
  LET l == Head(prios[c])
      b == IF base[c] = 0 THEN BaseLevel ELSE base[c]
  IN /\ pc[c] = "start"
     /\ \E old \in {0} \cup Ids(levels[0]) :
          \/ /\ l = 0 /\ b = 0
             /\ pc' = [pc EXCEPT ![c] = "dead"]
             /\ UNCHANGED <<statusVars, prios, base, plan>>
          \/ /\ l # 0 \/ b # 0
             /\ \E p \in Fill(c, l, b, old) : /\ Register(p)
                                              /\ plan' = [plan EXCEPT ![c] = <<p>>]
             /\ pc' = [pc EXCEPT ![c] = "build"]
             /\ UNCHANGED <<prios, base>>
          \/ /\ l # 0 \/ b # 0
             /\ Fill(c, l, b, old) = {}
             /\ NextLevel(c)
             /\ UNCHANGED <<statusVars, plan>>
     /\ UNCHANGED <<levelVars, manifest, next_file_id, version, latest, flushing, out>>

-----------------------------------------------------------------------------
\* Running a plan: run_compact.

\* Variant: the level right below the one written to is not looked at.
CheckOverlapTwoBelow(p) ==
  \E l \in p.next + 2 .. LastLevel :
    OverlapTables(l, RangeOf(Range(p.top \o p.bottom))) # <<>>

\* check_overlap: does any level below the one written to hold keys of the range?
CheckOverlap(p) ==
  \E l \in p.next + 1 .. LastLevel :
    OverlapTables(l, RangeOf(Range(p.top \o p.bottom))) # <<>>

\* The merge iterator reaches its end only over a number of iterators that is a
\* power of two, one per table of top and one for bottom: a node with one child
\* panics.  With tables in bottom the splits have a left bound below every first
\* key, and the seek to it fails.
MergeWorks(p) == p.bottom = <<>> /\ \E i \in 1 .. 4 : Len(p.top) + 1 = 2 ^ i

\* add_keys with num_versions_to_keep = 1: of every key the newest version, or
\* nothing when that is a deletion and no level below can hold the key.
Newest(ents) == {e \in ents : \A f \in ents : f.k = e.k => f.v <= e.v}
Dropped(p) == {e \in Newest(Entries(Range(p.top))) : e.d /\ ~CheckOverlap(p)}
Kept(p) == Newest(Entries(Range(p.top))) \ Dropped(p)

\* The kept entries cut into tables at some of the changes of key, where a builder
\* reaches its capacity, with file numbers in that order.  A kept deletion is
\* pushed as stale.
BuiltTables(ents) ==
  LET keys == {e.k : e \in ents}
      table(i, part) == [id |-> next_file_id + i - 1, ents |-> part,
                         stale |-> Cardinality({e \in part : e.d})]
      ends == {SortedBy(cuts \cup {Max(keys)}, [k \in keys |-> k]) : cuts \in SUBSET keys}
      cutAt(end) ==
        [i \in DOMAIN end |-> table(i, {e \in ents : /\ e.k <= end[i]
                                                     /\ i > 1 => e.k > end[i - 1]})]
  IN IF ents = {} THEN {<<>>} ELSE {cutAt(end) : end \in ends}

\* compact_build_tables, for any discard_at_or_below the oracle may answer.  An
\* entry above it is pushed again and again, since nothing moves the iterator past
\* it, and the compactor never returns.
Build(c) ==
  LET p == plan[c][1]
      ents == Entries(Range(p.top))
  IN /\ pc[c] = "build"
     /\ MergeWorks(p)
     /\ \E discard_ts \in 0 .. version :
          IF \E e \in ents : e.v > discard_ts
          THEN /\ pc' = [pc EXCEPT ![c] = "stuck"]
               /\ UNCHANGED <<out, next_file_id>>
          ELSE /\ \E new \in BuiltTables(Kept(p)) :
                    /\ next_file_id + Len(new) <= MaxId + 1
                    /\ out' = [out EXCEPT ![c] = <<[new |-> new, dropped |-> Dropped(p)]>>]
                    /\ next_file_id' = next_file_id + Len(new)
               /\ pc' = [pc EXCEPT ![c] = "push"]
     /\ UNCHANGED <<levelVars, statusVars, manifest, version, latest, flushing,
                    prios, base, plan>>

\* The iterators fail; or building, after the file number is reserved, or the push
\* of the changes does.
CompactFails(c) ==
  /\ \/ pc[c] = "build" /\ ~MergeWorks(plan[c][1])
     \/ pc[c] = "push"
  /\ NextLevel(c)
  /\ plan' = [plan EXCEPT ![c] = <<>>]
  /\ out' = [out EXCEPT ![c] = <<>>]
  /\ UNCHANGED <<levelVars, statusVars, manifest, next_file_id, version, latest,
                 flushing>>

\* Manifest::push_changes.
PushChanges(c) ==
  LET p == plan[c][1]
  IN /\ pc[c] = "push"
     /\ manifest' = {m \in manifest : m[2].id \notin Ids(p.top \o p.bottom)}
                    \cup {<<p.next, t>> : t \in Range(out[c][1].new)}
     /\ pc' = [pc EXCEPT ![c] = "replace"]
     /\ UNCHANGED <<levelVars, statusVars, next_file_id, version, latest, flushing,
                    prios, base, plan, out>>

\* Variant: the new tables are appended without sorting.
ReplaceUnsorted(c) ==
  LET p == plan[c][1]
      list == Without(levels[p.next], p.bottom) \o out[c][1].new
  IN /\ pc[c] = "replace"
     /\ levels' = [levels EXCEPT ![p.next] = list]
     /\ total_size' = [total_size EXCEPT ![p.next] = MapThenSumSet(Size, Range(list))]
     /\ total_stale_size' = [total_stale_size EXCEPT
                               ![p.next] = IF list = <<>> THEN 0 ELSE list[Len(list)].stale]
     /\ pc' = [pc EXCEPT ![c] = "delete"]
     /\ UNCHANGED <<statusVars, manifest, next_file_id, version, latest, flushing,
                    prios, base, plan, out>>

\* LevelHandler::replace: bottom makes room for the new tables, and init counts
\* and sorts again; total_stale_size is that of the last table counted.
Replace(c) ==
  LET p == plan[c][1]
      list == Without(levels[p.next], p.bottom) \o out[c][1].new
  IN /\ pc[c] = "replace"
     /\ levels' = [levels EXCEPT ![p.next] = Ordered(p.next, Range(list))]
     /\ total_size' = [total_size EXCEPT ![p.next] = MapThenSumSet(Size, Range(list))]
     /\ total_stale_size' = [total_stale_size EXCEPT
                               ![p.next] = IF list = <<>> THEN 0 ELSE list[Len(list)].stale]
     /\ pc' = [pc EXCEPT ![c] = "delete"]
     /\ UNCHANGED <<statusVars, manifest, next_file_id, version, latest, flushing,
                    prios, base, plan, out>>

\* Variant: whatever is in the level is deleted, not what the plan took.
DeleteAll(c) ==
  LET p == plan[c][1]
  IN /\ pc[c] = "delete"
     /\ levels' = [levels EXCEPT ![p.this] = <<>>]
     /\ total_size' = [total_size EXCEPT ![p.this] = 0]
     /\ total_stale_size' = [total_stale_size EXCEPT ![p.this] = 0]
     /\ pc' = [pc EXCEPT ![c] = "idle"]
     /\ prios' = [prios EXCEPT ![c] = <<>>]
     /\ base' = [base EXCEPT ![c] = 0]
     /\ plan' = [plan EXCEPT ![c] = <<>>]
     /\ out' = [out EXCEPT ![c] = <<>>]
     /\ UNCHANGED <<statusVars, manifest, next_file_id, version, latest, flushing>>

\* LevelHandler::delete.  total_stale_size may go below zero: a debug build panics
\* and the compactor ends, a release build wraps.
Delete(c) ==
  LET p == plan[c][1]
      gone == {t \in Range(levels[p.this]) : t.id \in Ids(p.top)}
      stale == total_stale_size[p.this] - MapThenSumSet(Stale, gone)
  IN /\ pc[c] = "delete"
     /\ levels' = [levels EXCEPT ![p.this] = Without(@, p.top)]
     /\ total_size' = [total_size EXCEPT ![p.this] = @ - MapThenSumSet(Size, gone)]
     /\ \/ /\ total_stale_size' = [total_stale_size EXCEPT ![p.this] = stale % U32]
           /\ pc' = [pc EXCEPT ![c] = "idle"]
        \/ /\ stale < 0
           /\ pc' = [pc EXCEPT ![c] = "dead"]
           /\ UNCHANGED total_stale_size
     /\ prios' = [prios EXCEPT ![c] = <<>>]
     /\ base' = [base EXCEPT ![c] = 0]
     /\ plan' = [plan EXCEPT ![c] = <<>>]
     /\ out' = [out EXCEPT ![c] = <<>>]
     /\ UNCHANGED <<statusVars, manifest, next_file_id, version, latest, flushing>>

\* The process ends and the database is opened again: the levels are what the
\* manifest lists, CompactStatus is empty, numbers go on after the highest listed.
\* The table whose stale size counts is the last in the order of a hash map.
Restart ==
  LET listed(l) == {m[2] : m \in {n \in manifest : n[1] = l}}
      stales == {0} \cup {m[2].stale : m \in manifest}
  IN /\ levels' = [l \in Level |-> Ordered(l, listed(l))]
     /\ total_size' = [l \in Level |-> MapThenSumSet(Size, listed(l))]
     /\ total_stale_size' \in
          {f \in [Level -> stales] :
             \A l \in Level : IF listed(l) = {} THEN f[l] = 0
                              ELSE \E t \in listed(l) : f[l] = t.stale}
     /\ ranges' = [l \in Level |-> {}] /\ busy' = {}
     /\ next_file_id' = 1 + Max({0} \cup {m[2].id : m \in manifest})
     /\ flushing' = <<>>
     /\ pc' = [c \in Compactor |-> "idle"]
     /\ prios' = [c \in Compactor |-> <<>>]
     /\ base' = [c \in Compactor |-> 0]
     /\ plan' = [c \in Compactor |-> <<>>]
     /\ out' = [c \in Compactor |-> <<>>]
     /\ UNCHANGED <<manifest, version, latest>>

Next ==
  \/ \E m \in Memtable : FlushRecord(m.keys, m.dels)
  \/ FlushPush \/ Restart
  \/ \E c \in Compactor :
       \/ PickCompactLevels(c) \/ StartCompact(c) \/ Build(c) \/ CompactFails(c)
       \/ PushChanges(c) \/ Replace(c) \/ Delete(c)

Spec == Init /\ [][Next]_vars

-----------------------------------------------------------------------------
\* Properties.

Disjoint(t, u) == Biggest(t) < Smallest(u) \/ Biggest(u) < Smallest(t)

\* What LevelHandler::validate requires when a database is opened holds at every
\* moment: below level 0 the tables of a level are sorted and share no key, in
\* memory and, for the next open, in what the manifest lists.
LevelsSorted ==
  /\ \A l \in 1 .. LastLevel : \A i \in 2 .. Len(levels[l]) :
       Biggest(levels[l][i - 1]) < Smallest(levels[l][i])
  /\ \A m, n \in manifest : m[1] = n[1] /\ m[1] > 0 /\ m # n => Disjoint(m[2], n[2])

\* Two compactors never work on the same table, and the tables of a plan are still
\* where they were planned when the manifest is told that they are gone: what
\* try_update registers under the read locks is enough.
OnePlanPerTable ==
  \A c \in Compactor : plan[c] # <<>> =>
    /\ pc[c] \in {"build", "push"} =>
         /\ Range(plan[c][1].top) \subseteq Range(levels[plan[c][1].this])
         /\ Range(plan[c][1].bottom) \subseteq Range(levels[plan[c][1].next])
    /\ \A d \in Compactor \ {c} : plan[d] # <<>> =>
         Ids(plan[c][1].top \o plan[c][1].bottom)
           \cap Ids(plan[d][1].top \o plan[d][1].bottom) = {}

\* The newest value of a key is never lost: at every point between push_changes,
\* replace and delete it is in the levels or in the hands of the flush task, and in
\* what the manifest lists, unless it is a deletion.
NewestKept ==
  \A k \in Key : \A e \in latest[k] : ~e.d =>
    /\ e \in Entries((UNION {Range(levels[l]) : l \in Level}) \cup Range(flushing))
    /\ e \in Entries({m[2] : m \in manifest})

\* A deletion that a compaction into a lower level drops hides nothing older in the
\* level written to or below: check_overlap saw it, or it was in bottom.
DropsSafely ==
  \A c \in Compactor : out[c] # <<>> /\ plan[c][1].this # plan[c][1].next =>
    \A e \in out[c][1].dropped, l \in plan[c][1].next .. LastLevel :
      \A f \in Entries(Range(levels[l])) : f.k = e.k => f.v > e.v

-----------------------------------------------------------------------------
\* What holds at every moment between the steps of a compaction, and makes the
\* first three properties inductive.

Entry == [k : Key, v : Nat, d : BOOLEAN]
Table == {t \in [id : Nat, stale : Nat, ents : SUBSET Entry] :
            t.ents # {} /\ IsFiniteSet(t.ents)}
KeyTsRange == [lo : Nat, hi : Nat, inf : BOOLEAN]
CompactPlan == [this : Level, next : Level, top : Seq(Table), bottom : Seq(Table),
                this_range : KeyTsRange, next_range : KeyTsRange]

Typed ==
  /\ levels \in [Level -> Seq(Table)]
  /\ ranges \in [Level -> SUBSET KeyTsRange] /\ busy \subseteq Nat
  /\ manifest \subseteq Level \X Table /\ IsFiniteSet(manifest)
  /\ next_file_id \in Nat /\ version \in Nat
  /\ latest \in [Key -> SUBSET Entry]
  /\ flushing \in Seq(Table) /\ Len(flushing) <= 1
  /\ pc \in [Compactor -> {"idle", "start", "dead", "build", "stuck", "push",
                           "replace", "delete"}]
  /\ prios \in [Compactor -> Seq(0 .. LastLevel - 1)]
  /\ base \in [Compactor -> Level]
  /\ plan \in [Compactor -> Seq(CompactPlan)]
  /\ out \in [Compactor -> Seq([new : Seq(Table), dropped : SUBSET Entry])]

\* A compactor has levels to try, a plan and tables it built at the steps it needs
\* them.
InStep ==
  \A c \in Compactor :
    /\ pc[c] \in {"start", "build", "push"} => prios[c] # <<>>
    /\ plan[c] # <<>> <=> pc[c] \in {"build", "stuck", "push", "replace", "delete"}
    /\ out[c] # <<>> <=> pc[c] \in {"push", "replace", "delete"}

Planned == {c \in Compactor : plan[c] # <<>>}
Built == {c \in Compactor : out[c] # <<>>}
Taken(c) == Range(plan[c][1].top) \cup Range(plan[c][1].bottom)
New(c) == Range(out[c][1].new)
Descends(c) == plan[c][1].this < plan[c][1].next

\* Where every table is, or will be once the flush or the compactor that made it
\* has pushed it.
Homes ==
  (UNION {{<<l, t>> : t \in Range(levels[l])} : l \in Level})
  \cup {<<0, t>> : t \in Range(flushing)}
  \cup (UNION {{<<plan[c][1].next, t>> : t \in New(c)} : c \in Built})

\* A file number is given once.
Named ==
  \A x \in Homes : /\ x[2].id < next_file_id
                   /\ \A y \in Homes : x[2].id = y[2].id => x = y

\* What the manifest lists is in the levels or about to be.
Backed ==
  \A m \in manifest :
    \/ m[2] \in Range(levels[m[1]])
    \/ m[1] = 0 /\ m[2] \in Range(flushing)
    \/ \E c \in Built : pc[c] = "replace" /\ m[1] = plan[c][1].next /\ m[2] \in New(c)

Within(t, r) == r.inf \/ (r.lo <= Smallest(t) /\ Biggest(t) <= r.hi)
Apart(t, r) == Biggest(t) < r.lo \/ r.hi < Smallest(t)
Miss(r, s) == r = EmptyRange \/ s = EmptyRange \/ r.hi < s.lo \/ s.hi < r.lo

\* The tables of a plan stay where they are, and CompactStatus keeps others away.
Claimed ==
  \A c \in Planned :
    LET p == plan[c][1]
    IN /\ Range(p.top) \subseteq Range(levels[p.this])
       /\ Range(p.bottom) \subseteq Range(levels[p.next])
       /\ \A t \in Taken(c) : t.id \in busy
       /\ \/ /\ Descends(c)
             /\ p.this_range \in ranges[p.this] /\ p.next_range \in ranges[p.next]
             /\ ~p.this_range.inf
             /\ \A t \in Range(p.top) : Within(t, p.this_range)
             /\ \A t \in Range(p.bottom) : Within(t, p.next_range)
             /\ p.bottom = <<>> => p.next_range = p.this_range
          \/ /\ c = 0 /\ p.this = 0 /\ p.next = 0 /\ p.bottom = <<>>
             /\ InfRange \in ranges[0]

\* No two compactors hold, or have built, the same table.
Exclusive ==
  \A c \in Planned :
    /\ \A d \in Planned \ {c} : \A t \in Taken(c), u \in Taken(d) : t.id # u.id
    /\ \A d \in Built : \A t \in Taken(c), u \in New(d) : t.id # u.id

\* What was built fits the claim, has the newest value of every key of top, and is
\* in the manifest, without top, before it is in the levels.
Outputs ==
  \A c \in Built :
    LET p == plan[c][1]
    IN /\ p.bottom = <<>>
       /\ Descends(c) => \A t \in New(c) : Within(t, p.this_range)
       /\ \A t, u \in New(c) : t # u => Disjoint(t, u)
       /\ \A k \in Key : \A e \in latest[k] :
            ~e.d /\ e \in Entries(Range(p.top)) => e \in Entries(New(c))
       /\ pc[c] = "delete" => New(c) \subseteq Range(levels[p.next])
       /\ pc[c] # "push" => \A m \in manifest, t \in Range(p.top) : m[2].id # t.id

\* The level a plan without bottom writes to has room for its range, and no other
\* plan writes there.
Room ==
  \A c \in Planned : Descends(c) =>
    /\ plan[c][1].bottom = <<>> /\ pc[c] # "delete" =>
         \A t \in Range(levels[plan[c][1].next]) : Apart(t, plan[c][1].this_range)
    /\ \A d \in Planned \ {c} : Descends(d) /\ plan[c][1].next = plan[d][1].next =>
         Miss(plan[c][1].next_range, plan[d][1].next_range)

InOrder ==
  \A l \in 1 .. LastLevel : \A i, j \in DOMAIN levels[l] :
    i < j => Biggest(levels[l][i]) < Smallest(levels[l][j])

\* Nothing is newer than what latest says, and nothing newer than the last flush.
Versions ==
  /\ \A k \in Key : \A e \in latest[k] : e.k = k
  /\ \A x \in Homes : \A e \in x[2].ents :
       e.v <= version /\ \A f \in latest[e.k] : e.v <= f.v

IInv ==
  /\ Typed /\ InStep /\ Named /\ Backed /\ Claimed /\ Exclusive /\ Outputs /\ Room
  /\ InOrder /\ Versions /\ NewestKept
=============================================================================
