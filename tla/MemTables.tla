----------------------------- MODULE MemTables -----------------------------
(***************************************************************************)
(* The life of a memtable: the write task fills the mutable one and, when  *)
(* it is full, replaces it (write.rs), the flush task turns the replaced   *)
(* ones into level 0 tables (level/flush.rs), compactions merge those into *)
(* the base level or into level 0 again (level/plan.rs, compact.rs), and   *)
(* readers look a version up while all this goes on (read.rs).  One key,   *)
(* never deleted; version n is the n-th write.                             *)
(***************************************************************************)
EXTENDS Integers, Sequences, FiniteSets

CONSTANTS MaxVersion,   \* bound: writes made
          MaxFid,       \* bound: memtables created
          MaxId,        \* bound: file ids of tables
          MemCap,       \* versions that make a memtable full
          NumMemtables, \* capacity of the flush channel
          L0Stall,      \* num_level_zero_tables_stall
          MinL0ToL0,    \* the 4 tables a compaction inside level 0 needs
          Reader

ASSUME MemTablesAssumption ==
  /\ MaxVersion \in Nat /\ MaxFid \in Nat \ {0} /\ MaxId \in Nat \ {0}
  /\ MemCap \in Nat \ {0} /\ NumMemtables \in Nat \ {0}

VARIABLES
  data,      \* contents of every memtable
  memtable,  \* fid of the mutable memtable
  immut_memtable,
  next_fid,
  version,   \* the last version written
  flush_chan,
  wpc, whand,    \* the write task in ensure_boom_for_write, the memtable it holds
  fpc, fhand,    \* the flush task, the memtable it flushes
  ftable,        \* the table it built from it
  tables,        \* contents of every table
  next_file_id,
  manifest,      \* the tables the manifest lists
  level0, below, \* the tables of level 0, and of the levels below it
  registered,    \* CompactStatus has a range over the key in level 0
  busy,          \* CompactStatus: the tables that plans have taken
  cpc, ctop, cout, \* every compaction: position, tables merged, table built
  discard_ts,      \* discard_at_or_below: what no read looks behind
  rpc, rts, rimmut \* the readers: position, version sought, immutables seen

writeVars == <<data, memtable, immut_memtable, next_fid, version, wpc, whand>>
flushVars == <<fpc, fhand, ftable>>
fileVars == <<tables, next_file_id, manifest>>
levelVars == <<level0, below>>
compactVars == <<registered, busy, cpc, ctop, cout>>
readVars == <<discard_ts, rpc, rts, rimmut>>
vars == <<writeVars, flush_chan, flushVars, fileVars, levelVars, compactVars, readVars>>

Fid == 1 .. MaxFid
Id == 1 .. MaxId
Version == 1 .. MaxVersion
Range(s) == {s[i] : i \in 1 .. Len(s)}
Contents(fids) == UNION {data[f] : f \in fids}
Holding(ids) == UNION {tables[t] : t \in ids}

\* The compactions out of level 0, by the level they write to.
Target == {"base", "level0"}

TypeOK ==
  /\ data \in [Fid -> SUBSET Version]
  /\ memtable \in Fid
  /\ immut_memtable \in Seq(Fid)
  /\ next_fid \in 1 .. MaxFid + 1
  /\ version \in 0 .. MaxVersion
  /\ flush_chan \in Seq(Fid) /\ Len(flush_chan) <= NumMemtables
  /\ wpc \in {"write", "replace", "send", "push"}
  /\ whand \in Fid
  /\ fpc \in {"recv", "build", "level0", "pop", "panicked"}
  /\ fhand \in Fid
  /\ ftable \in Id
  /\ tables \in [Id -> SUBSET Version]
  /\ next_file_id \in 1 .. MaxId + 1
  /\ manifest \subseteq Id
  /\ level0 \subseteq Id /\ below \subseteq Id
  /\ registered \in BOOLEAN
  /\ busy \subseteq Id
  /\ cpc \in [Target -> {"idle", "build", "stuck", "push", "replace", "delete"}]
  /\ ctop \in [Target -> SUBSET Id]
  /\ cout \in [Target -> Id]
  /\ discard_ts \in 0 .. version
  /\ rpc \in [Reader -> {"idle", "memtables", "levels", "failed"}]
  /\ rts \in [Reader -> 0 .. MaxVersion]
  /\ rimmut \in [Reader -> SUBSET Fid]

\* An empty database: open_many finds no log, new creates the first memtable.
Init ==
  /\ data = [f \in Fid |-> {}]
  /\ memtable = 1 /\ next_fid = 2
  /\ immut_memtable = <<>>
  /\ version = 0
  /\ flush_chan = <<>>
  /\ wpc = "write" /\ whand = 1
  /\ fpc = "recv" /\ fhand = 1 /\ ftable = 1
  /\ tables = [t \in Id |-> {}] /\ next_file_id = 1
  /\ manifest = {} /\ level0 = {} /\ below = {}
  /\ registered = FALSE /\ busy = {}
  /\ cpc = [c \in Target |-> "idle"]
  /\ ctop = [c \in Target |-> {}]
  /\ cout = [c \in Target |-> 1]
  /\ discard_ts = 0
  /\ rpc = [r \in Reader |-> "idle"]
  /\ rts = [r \in Reader |-> 0]
  /\ rimmut = [r \in Reader |-> {}]

-----------------------------------------------------------------------------
\* The write task: ensure_boom_for_write, write_to_memtable.

IsFull(f) == Cardinality(data[f]) >= MemCap

WriteToMemtable ==
  /\ wpc = "write"
  /\ ~IsFull(memtable)
  /\ version < MaxVersion
  /\ version' = version + 1
  /\ data' = [data EXCEPT ![memtable] = @ \cup {version + 1}]
  /\ UNCHANGED <<memtable, immut_memtable, next_fid, wpc, whand, flush_chan,
                 flushVars, fileVars, levelVars, compactVars, readVars>>

\* MemTableConfig::new takes the next fid and creates its log; on an error the
\* fid is spent and the request fails.
NewMemtable ==
  /\ wpc = "write"
  /\ IsFull(memtable)
  /\ next_fid <= MaxFid
  /\ next_fid' = next_fid + 1
  /\ \/ wpc' = "replace" /\ whand' = next_fid
     \/ UNCHANGED <<wpc, whand>>
  /\ UNCHANGED <<data, memtable, immut_memtable, version, flush_chan, flushVars,
                 fileVars, levelVars, compactVars, readVars>>

\* The write lock is held for the exchange only.
ReplaceMemtable ==
  /\ wpc = "replace"
  /\ memtable' = whand
  /\ whand' = memtable
  /\ wpc' = "send"
  /\ UNCHANGED <<data, immut_memtable, next_fid, version, flush_chan, flushVars,
                 fileVars, levelVars, compactVars, readVars>>

\* Variant: the memtable that has just become the mutable one is sent.
SendFlushNew ==
  /\ wpc = "send"
  /\ Len(flush_chan) < NumMemtables
  /\ flush_chan' = Append(flush_chan, memtable)
  /\ wpc' = "push"
  /\ UNCHANGED <<data, memtable, immut_memtable, next_fid, version, whand,
                 flushVars, fileVars, levelVars, compactVars, readVars>>

\* flush_memtable.send(old).await comes first ...
SendFlush ==
  /\ wpc = "send"
  /\ Len(flush_chan) < NumMemtables
  /\ flush_chan' = Append(flush_chan, whand)
  /\ wpc' = "push"
  /\ UNCHANGED <<data, memtable, immut_memtable, next_fid, version, whand,
                 flushVars, fileVars, levelVars, compactVars, readVars>>

\* ... and only then does the old memtable join immut_memtable.
PushImmut ==
  /\ wpc = "push"
  /\ immut_memtable' = Append(immut_memtable, whand)
  /\ wpc' = "write"
  /\ UNCHANGED <<data, memtable, next_fid, version, whand, flush_chan, flushVars,
                 fileVars, levelVars, compactVars, readVars>>

-----------------------------------------------------------------------------
\* The flush task: flush_memtable, handle_memtable_flush, push_level0_table.

FlushRecv ==
  /\ fpc = "recv"
  /\ flush_chan # <<>>
  /\ fhand' = Head(flush_chan)
  /\ flush_chan' = Tail(flush_chan)
  /\ fpc' = "build"
  /\ UNCHANGED <<writeVars, ftable, fileVars, levelVars, compactVars, readVars>>

\* Variant: the table never reaches the manifest.
FlushBuildUnrecorded ==
  /\ fpc = "build"
  /\ next_file_id <= MaxId
  /\ next_file_id' = next_file_id + 1
  /\ tables' = [tables EXCEPT ![next_file_id] = data[fhand]]
  /\ ftable' = next_file_id
  /\ fpc' = "level0"
  /\ UNCHANGED <<writeVars, flush_chan, fhand, manifest, levelVars, compactVars, readVars>>

\* get_reserve_file_id, TableBuilder::build and push_changes.  When one of the last
\* two fails the id is spent, and the task sleeps and tries again.
FlushBuild ==
  /\ fpc = "build"
  /\ next_file_id <= MaxId
  /\ next_file_id' = next_file_id + 1
  /\ \/ /\ tables' = [tables EXCEPT ![next_file_id] = data[fhand]]
        /\ manifest' = manifest \cup {next_file_id}
        /\ ftable' = next_file_id
        /\ fpc' = "level0"
     \/ UNCHANGED <<tables, manifest, ftable, fpc>>
  /\ UNCHANGED <<writeVars, flush_chan, fhand, levelVars, compactVars, readVars>>

\* Variant: a full level 0 is not waited for and the table is dropped.
FlushLevel0Dropped ==
  /\ fpc = "level0"
  /\ level0' = IF Cardinality(level0) < L0Stall THEN level0 \cup {ftable} ELSE level0
  /\ fpc' = "pop"
  /\ UNCHANGED <<writeVars, flush_chan, fhand, ftable, fileVars, below, compactVars,
                 readVars>>

\* push_level0 stalls while level 0 is full.
FlushLevel0 ==
  /\ fpc = "level0"
  /\ Cardinality(level0) < L0Stall
  /\ level0' = level0 \cup {ftable}
  /\ fpc' = "pop"
  /\ UNCHANGED <<writeVars, flush_chan, fhand, ftable, fileVars, below, compactVars,
                 readVars>>

\* Variant: the memtable is taken from the back.
FlushPopBack ==
  /\ fpc = "pop"
  /\ IF immut_memtable = <<>>
       THEN fpc' = "recv" /\ UNCHANGED immut_memtable
       ELSE LET n == Len(immut_memtable)
            IN /\ immut_memtable' = SubSeq(immut_memtable, 1, n - 1)
               /\ fpc' = IF immut_memtable[n] = fhand THEN "recv" ELSE "panicked"
  /\ UNCHANGED <<data, memtable, next_fid, version, wpc, whand, flush_chan, fhand,
                 ftable, fileVars, levelVars, compactVars, readVars>>

\* immut_memtable.pop_front(), and the assertion on what it returns: the task
\* panics if that is another memtable than the one it flushed.
FlushPop ==
  /\ fpc = "pop"
  /\ IF immut_memtable = <<>>
       THEN fpc' = "recv" /\ UNCHANGED immut_memtable
       ELSE /\ immut_memtable' = Tail(immut_memtable)
            /\ fpc' = IF Head(immut_memtable) = fhand THEN "recv" ELSE "panicked"
  /\ UNCHANGED <<data, memtable, next_fid, version, wpc, whand, flush_chan, fhand,
                 ftable, fileVars, levelVars, compactVars, readVars>>

-----------------------------------------------------------------------------
\* Compaction out of level 0.  Level 0 is a set: its order decides which tables a
\* plan takes, and any choice is allowed here.  What CompactStatus registers is
\* never removed.

\* fill_tables_level0_to_levelbase: try_update refuses a range that meets a
\* registered one.  The range of a table with the key covers all its versions.
PlanToBase(top) ==
  /\ cpc["base"] = "idle"
  /\ ~registered
  /\ top # {}
  /\ registered' = TRUE
  /\ busy' = busy \cup top
  /\ cpc' = [cpc EXCEPT !["base"] = "build"]
  /\ ctop' = [ctop EXCEPT !["base"] = top]
  /\ UNCHANGED <<writeVars, flush_chan, flushVars, fileVars, levelVars, cout, readVars>>

\* fill_tables_level0_to_level0, by compactor 0 alone, when ranges (also those of
\* other keys) refuse the plan above: tables old and small enough, and not taken.
PlanToLevel0(top) ==
  /\ cpc["level0"] = "idle"
  /\ top \cap busy = {}
  /\ Cardinality(top) >= MinL0ToL0
  /\ registered' = TRUE
  /\ busy' = busy \cup top
  /\ cpc' = [cpc EXCEPT !["level0"] = "build"]
  /\ ctop' = [ctop EXCEPT !["level0"] = top]
  /\ UNCHANGED <<writeVars, flush_chan, flushVars, fileVars, levelVars, cout, readVars>>

\* add_keys with num_versions_to_keep = 1: the newest version is kept, the others
\* are skipped.
Newest(vs) == {v \in vs : \A w \in vs : w <= v}

\* compact_build_tables: a version above discard_ts is pushed again and again, since
\* nothing moves the iterator past it, and the compactor never returns.
CompactBuild(c) ==
  /\ cpc[c] = "build"
  /\ IF \E v \in Holding(ctop[c]) : v > discard_ts
       THEN /\ cpc' = [cpc EXCEPT ![c] = "stuck"]
            /\ UNCHANGED <<tables, next_file_id, cout>>
       ELSE /\ next_file_id <= MaxId
            /\ next_file_id' = next_file_id + 1
            /\ tables' = [tables EXCEPT ![next_file_id] = Newest(Holding(ctop[c]))]
            /\ cout' = [cout EXCEPT ![c] = next_file_id]
            /\ cpc' = [cpc EXCEPT ![c] = "push"]
  /\ UNCHANGED <<writeVars, flush_chan, flushVars, manifest, levelVars, registered, busy,
                 ctop, readVars>>

\* The merge iterator, the building or push_changes fails.
CompactFails(c) ==
  /\ cpc[c] \in {"build", "push"}
  /\ cpc' = [cpc EXCEPT ![c] = "idle"]
  /\ ctop' = [ctop EXCEPT ![c] = {}]
  /\ UNCHANGED <<writeVars, flush_chan, flushVars, fileVars, levelVars, registered, busy,
                 cout, readVars>>

\* run_compact: push_changes records the new table and the deletions ...
CompactPush(c) ==
  /\ cpc[c] = "push"
  /\ manifest' = (manifest \ ctop[c]) \cup {cout[c]}
  /\ cpc' = [cpc EXCEPT ![c] = "replace"]
  /\ UNCHANGED <<writeVars, flush_chan, flushVars, tables, next_file_id, levelVars,
                 registered, busy, ctop, cout, readVars>>

\* ... then the new table joins the level it was built for ...
CompactReplace(c) ==
  /\ cpc[c] = "replace"
  /\ level0' = IF c = "level0" THEN level0 \cup {cout[c]} ELSE level0
  /\ below' = IF c = "base" THEN below \cup {cout[c]} ELSE below
  /\ cpc' = [cpc EXCEPT ![c] = "delete"]
  /\ UNCHANGED <<writeVars, flush_chan, flushVars, fileVars, registered, busy, ctop, cout,
                 readVars>>

\* ... and only then do the old ones leave level 0.
CompactDelete(c) ==
  /\ cpc[c] = "delete"
  /\ level0' = level0 \ ctop[c]
  /\ cpc' = [cpc EXCEPT ![c] = "idle"]
  /\ ctop' = [ctop EXCEPT ![c] = {}]
  /\ UNCHANGED <<writeVars, flush_chan, flushVars, fileVars, below, registered, busy, cout,
                 readVars>>

-----------------------------------------------------------------------------
\* Readers: DB::get for a version that is already written.

\* The read mark moves when reads end: discard_at_or_below stays at or below the
\* version of every read (DiscardBelowReaders of TxnOracle).
ReadMarkMoves(v) ==
  /\ discard_ts < v /\ v <= version
  /\ \A r \in Reader : rpc[r] \in {"memtables", "levels"} => v <= rts[r]
  /\ discard_ts' = v
  /\ UNCHANGED <<writeVars, flush_chan, flushVars, fileVars, levelVars, compactVars,
                 rpc, rts, rimmut>>

\* get_memtable clones the immutable memtables; the mutable one is shared.
GetMemtable(r, v) ==
  /\ rpc[r] = "idle"
  /\ discard_ts <= v /\ v <= version
  /\ rpc' = [rpc EXCEPT ![r] = "memtables"]
  /\ rts' = [rts EXCEPT ![r] = v]
  /\ rimmut' = [rimmut EXCEPT ![r] = Range(immut_memtable)]
  /\ UNCHANGED <<writeVars, flush_chan, flushVars, fileVars, levelVars, compactVars,
                 discard_ts>>

\* The mutable memtable as it is now, then the immutable ones as they were.
GetFromMemtables(r) ==
  /\ rpc[r] = "memtables"
  /\ rimmut' = [rimmut EXCEPT ![r] = {}]
  /\ IF rts[r] \in Contents({memtable} \cup rimmut[r])
       THEN /\ rpc' = [rpc EXCEPT ![r] = "idle"]
            /\ rts' = [rts EXCEPT ![r] = 0]
       ELSE /\ rpc' = [rpc EXCEPT ![r] = "levels"]
            /\ UNCHANGED rts
  /\ UNCHANGED <<writeVars, flush_chan, flushVars, fileVars, levelVars, compactVars,
                 discard_ts>>

\* LevelsControllerInner::get.  Level 0 returns the exact version.  In a level
\* below, get_table_for_key unwraps a binary search for a table whose biggest key
\* is exactly the one sought, so a version found there depends on the bounds of
\* the tables, and a version found nowhere ends in a panic, not in None.
GetFromLevels(r) ==
  /\ rpc[r] = "levels"
  /\ \/ /\ rts[r] \in Holding(level0 \cup below)
        /\ rpc' = [rpc EXCEPT ![r] = "idle"]
        /\ rts' = [rts EXCEPT ![r] = 0]
     \/ /\ rts[r] \notin Holding(level0)
        /\ rpc' = [rpc EXCEPT ![r] = "failed"]
        /\ UNCHANGED rts
  /\ UNCHANGED <<writeVars, flush_chan, flushVars, fileVars, levelVars, compactVars,
                 discard_ts, rimmut>>

Write == WriteToMemtable \/ NewMemtable \/ ReplaceMemtable \/ SendFlush \/ PushImmut
Flush == FlushRecv \/ FlushBuild \/ FlushLevel0 \/ FlushPop
Compact ==
  \/ \E top \in SUBSET level0 : PlanToBase(top) \/ PlanToLevel0(top)
  \/ \E c \in Target : \/ CompactBuild(c) \/ CompactFails(c) \/ CompactPush(c)
                       \/ CompactReplace(c) \/ CompactDelete(c)
Read ==
  \/ \E v \in Version : ReadMarkMoves(v) \/ \E r \in Reader : GetMemtable(r, v)
  \/ \E r \in Reader : GetFromMemtables(r) \/ GetFromLevels(r)

Next == Write \/ Flush \/ Compact \/ Read

Spec == Init /\ [][Next]_vars
-----------------------------------------------------------------------------
\* Properties.

\* The memtables in memory: the mutable one, the one the write task is about to
\* send or to push, and the immutable ones.
InMemory ==
  {memtable} \cup Range(immut_memtable) \cup (IF wpc \in {"send", "push"} THEN {whand} ELSE {})

\* The versions a read may still ask for.
Readable == {v \in 1 .. version : discard_ts <= v}

\* Nothing that can still be read is ever out of reach: every version is in a
\* memtable or in a table of the levels at every point of a rotation, a flush and
\* the compactions, until no read looks behind a newer one.
NothingLost == Readable \subseteq Contents(InMemory) \cup Holding(level0 \cup below)

\* A table is in the manifest before it is in a level and until the table it was
\* merged into is, and a memtable is given up only when what can be read of it is in
\* tables the manifest lists: a restart deletes all others.
RecordedBeforeVisible ==
  /\ \A t \in level0 \cup below :
       t \in manifest \/ \E c \in Target : /\ t \in ctop[c] /\ cout[c] \in manifest
                                           /\ cpc[c] \in {"replace", "delete"}
  /\ Readable \subseteq Contents(InMemory) \cup Holding(manifest)

\* What the manifest lists is a beginning of the history: with a version, all older
\* ones that can still be read.  Memtables are flushed in the order of rotation, so
\* that losing the ones in memory never takes a write and leaves a later one.
RecordedInOrder ==
  \A w \in Holding(manifest) : \A v \in Readable : v < w => v \in Holding(manifest)

\* assert_eq!(s.wal().fid(), memtable.wal().fid()) in flush_memtable: what leaves
\* immut_memtable is the memtable that was flushed.
FlushedIsPopped == fpc # "panicked"

\* A version that is committed before the read starts is read, as long as it has
\* not been compacted below level 0.
CommittedIsRead ==
  \A r \in Reader : rpc[r] = "failed" => rts[r] \in Holding(below)
-----------------------------------------------------------------------------
\* The inductive invariant.

\* The memtables that have been sent to the flush task and not yet popped, in the
\* order of rotation: immut_memtable, and the one still to be pushed there.
Sent == IF wpc = "push" THEN Append(immut_memtable, whand) ELSE immut_memtable

\* Those of them that are not in level 0 yet, in the same order.
Unflushed ==
  IF fpc \in {"build", "level0"} THEN <<fhand>> \o flush_chan ELSE flush_chan

Flushed(f) == \A v \in data[f] : discard_ts <= v => v \in Holding(level0 \cup below)

\* immut_memtable may run behind the flush task, when a memtable is flushed before
\* it is pushed, but never ahead of it: what is still to be flushed is the end of
\* what was sent, the rest is in the levels, and there is such a rest when the task
\* pops, so that it never pops a memtable that is only in memory.
PopsBehind ==
  /\ Len(Unflushed) <= Len(Sent)
  /\ \A i \in 1 .. Len(Unflushed) :
       Unflushed[i] = Sent[Len(Sent) - Len(Unflushed) + i]
  /\ \A i \in 1 .. Len(Sent) - Len(Unflushed) : Flushed(Sent[i])
  /\ fpc = "pop" => Len(Unflushed) < Len(Sent)

Ascending(s) == \A i, j \in 1 .. Len(s) : i < j => s[i] < s[j]
Below(s, f) == \A i \in 1 .. Len(s) : s[i] < f

\* A fid is the age of its memtable, from the flush task through the write task to
\* the mutable memtable.
ByAge ==
  /\ Ascending(Unflushed)
  /\ Below(Sent, memtable)
  /\ wpc = "send" => whand < memtable /\ Below(Unflushed, whand)
  /\ wpc = "replace" => memtable < whand /\ whand < next_fid
  /\ memtable < next_fid

\* Versions are written in order, into memtables that are ever younger.
Written ==
  /\ \A v \in 1 .. version : \E f \in 1 .. memtable : v \in data[f]
  /\ \A f \in Fid : data[f] \subseteq 1 .. version
  /\ \A f \in Fid : memtable < f => data[f] = {}
  /\ \A f, g \in Fid : f < g => \A v \in data[f], w \in data[g] : v < w

\* Every memtable that was created is in memory or in the levels.
Placed == \A f \in 1 .. next_fid - 1 : f \in InMemory \/ Flushed(f)

\* The memtables no table has been recorded for.
Ahead ==
  {memtable} \cup Range(flush_chan) \cup (IF fpc = "build" THEN {fhand} ELSE {})
    \cup (IF wpc = "send" THEN {whand} ELSE {})

\* The tables are older than all those memtables.
Older ==
  \A t \in Id : \A v \in tables[t] :
    v <= version /\ \A f \in Ahead : \A w \in data[f] : v < w

\* File ids are given out once, and a table is in one place.
Homes ==
  /\ level0 \cup below \cup manifest \subseteq 1 .. next_file_id - 1
  /\ level0 \cap below = {}
  /\ fpc = "level0" => /\ ftable \in manifest \ (level0 \cup below)
                       /\ tables[ftable] = data[fhand]

\* The plans of the two compactions are apart, and their tables in level 0.
Plans ==
  /\ \A c \in Target : ctop[c] \subseteq level0 \cap busy
  /\ ctop["base"] \cap ctop["level0"] = {}
  /\ ~registered => ctop["level0"] = {} /\ cpc["level0"] = "idle"

\* What can be read of the tables of a plan is in the table it built, which is
\* nowhere until it joins its level and stays there until the others have left.
Outputs ==
  /\ \A c \in Target : cpc[c] \in {"push", "replace", "delete"} =>
       /\ cout[c] \in 1 .. next_file_id - 1
       /\ \A v \in Holding(ctop[c]) : discard_ts <= v => v \in tables[cout[c]]
  /\ \A c \in Target : cpc[c] \in {"push", "replace"} =>
       cout[c] \notin level0 \cup below /\ (fpc = "level0" => cout[c] # ftable)
  /\ {cpc["base"], cpc["level0"]} \subseteq {"push", "replace"}
       => cout["base"] # cout["level0"]
  /\ cpc["base"] = "delete" => cout["base"] \in below
  /\ cpc["level0"] = "delete" => cout["level0"] \in level0 \ (ctop["base"] \cup ctop["level0"])

\* What the manifest lists: the tables of the levels that no compaction has replaced,
\* and the ones about to be put there.
Recorded ==
  /\ \A t \in level0 \cup below :
       t \in manifest \/ \E c \in Target : t \in ctop[c] /\ cpc[c] \in {"replace", "delete"}
  /\ \A c \in Target : cpc[c] \in {"replace", "delete"} => cout[c] \in manifest

\* Memtables and tables are where the rotation, the flush task and the compactions
\* have put them, each exactly as far as the others allow.
IInv ==
  /\ TypeOK /\ PopsBehind /\ ByAge /\ Written /\ Placed /\ Older
  /\ Homes /\ Plans /\ Outputs /\ Recorded
=============================================================================
