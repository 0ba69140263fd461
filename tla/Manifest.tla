------------------------------ MODULE Manifest ------------------------------
(***************************************************************************)
(* The manifest (manifest.rs): the set of tables in memory, the append-    *)
(* only file that records its changes, the rewrite of that file, and what  *)
(* opening the database makes of it after a crash.  Its callers are the    *)
(* flush of a memtable (level/flush.rs) and the compactions                *)
(* (level/compact.rs); revert_to_manifest (level/levels.rs) compares it    *)
(* with the table files.                                                   *)
(*                                                                         *)
(* push_changes runs under the manifest's lock, so only errors, a crash    *)
(* and the building of other tables come between its steps.  The content   *)
(* of a table is the set of memtables merged into it, memtable n being the *)
(* n-th one flushed; keys and key ranges are left out, so any table no     *)
(* compaction has claimed may be picked.                                   *)
(***************************************************************************)
EXTENDS Integers, Sequences, FiniteSets, FiniteSetsExt, Functions

CONSTANTS MaxId,       \* bound: table file ids
          MaxFlush,    \* bound: memtables flushed
          MaxLevel,    \* the last level
          MinL0ToL0,   \* tables it takes to compact level 0 into itself
          Threshold,   \* DELETIONS_REWRITE_THRESHOLD
          Ratio        \* DELETIONS_RATIO

ASSUME ManifestAssumption ==
  /\ MaxId \in Nat \ {0} /\ MaxFlush \in Nat /\ MaxLevel \in Nat \ {0}
  /\ MinL0ToL0 \in Nat \ {0} /\ Threshold \in Nat /\ Ratio \in Nat

VARIABLES
  info,         \* ManifestInfo: the tables' levels, how many levels, the counters
  uncounted,    \* tables a panic left in info before they were counted
  live,         \* the tables of the level handlers, with their level
  claimed,      \* CompactStatus.tables
  next_file_id,
  jobs,         \* tables that are built and not yet pushed
  job,          \* the one push_changes is working on, as a set of at most one
  pc,           \* where push_changes is; "down", "refused" when there is no process
  content,      \* what each table file holds; {} where there is no file
  named,        \* the table files whose directory entry a crash cannot take away
  file,         \* the complete change sets of MANIFEST
  tail,         \* what follows them: nothing, or bytes that replay drops or refuses
  synced,       \* how many of the change sets a crash cannot take away
  rewritten,    \* what MANIFEST-REWRITE holds
  attached,     \* inner.file is the file named MANIFEST
  olds,         \* files a crash may put back in the place of MANIFEST
  flushed,      \* how many memtables had their flush acknowledged
  lost,         \* those of them that a damaged manifest has lost
  gone          \* tables whose deletion was acknowledged

memory == <<info, uncounted, live, claimed>>
building == <<next_file_id, jobs, content, named>>
disk == <<file, tail, synced, olds>>
acks == <<flushed, lost, gone>>
vars == <<memory, building, job, pc, disk, rewritten, attached, acks>>

Id == 1 .. MaxId
Level == 0 .. MaxLevel
Job == [id : Id, level : Level, del : SUBSET Id]
Create(id, level) == [op |-> "create", id |-> id, level |-> level]
Delete(id) == [op |-> "delete", id |-> id]
EmptyInfo == [tables |-> [id \in {} |-> 0], levels |-> 0, creations |-> 0,
              deletions |-> 0, status |-> "ok"]
-----------------------------------------------------------------------------
\* Variant: a level is added whether or not it is missing.
LevelsForAlways(levels, level) == levels + 1

\* One more level is added, never two, before the list is indexed by the level.
LevelsFor(levels, level) == IF levels <= level THEN levels + 1 ELSE levels

ApplyCreate(i, c) ==
  LET tables == [id \in DOMAIN i.tables \cup {c.id} |->
                   IF id = c.id THEN c.level ELSE i.tables[id]]
      levels == LevelsFor(i.levels, c.level)
  IN IF c.id \in DOMAIN i.tables THEN [i EXCEPT !.status = "error"]
     ELSE IF c.level < levels
     THEN [i EXCEPT !.tables = tables, !.levels = levels, !.creations = @ + 1]
     ELSE [i EXCEPT !.tables = tables, !.levels = levels, !.status = "panic"]

ApplyDelete(i, c) ==
  LET tables == [id \in DOMAIN i.tables \ {c.id} |-> i.tables[id]]
  IN IF c.id \notin DOMAIN i.tables THEN [i EXCEPT !.status = "error"]
     ELSE [i EXCEPT !.tables = tables, !.deletions = @ + 1]

\* apply_manifest_change; an error or a panic ends the change set, and what was
\* applied before it stays.
ApplyChange(i, c) ==
  IF i.status # "ok" THEN i
  ELSE IF c.op = "create" THEN ApplyCreate(i, c) ELSE ApplyDelete(i, c)

ApplyChangeSet(i, set) ==
  LET after[n \in 0 .. Len(set)] ==
        IF n = 0 THEN i ELSE ApplyChange(after[n - 1], set[n])
  IN after[Len(set)]

\* replay_manifest_file, up to the tail.
Replay(sets) ==
  LET after[n \in 0 .. Len(sets)] ==
        IF n = 0 THEN EmptyInfo ELSE ApplyChangeSet(after[n - 1], sets[n])
  IN after[Len(sets)]

\* The orders in which the tables of a set may be listed, and one of them.
Orders(ids) == Bijection(1 .. Cardinality(ids), ids)
Listed(ids) == CHOOSE s \in Orders(ids) : TRUE

\* The change set of a job: the new table, then the tables it replaces.
Changes(j) ==
  <<Create(j.id, j.level)>> \o [k \in 1 .. Cardinality(j.del) |-> Delete(Listed(j.del)[k])]

IsFlush(j) == j.del = {}

Init ==
  /\ info = EmptyInfo /\ uncounted = {} /\ live = EmptyInfo.tables /\ claimed = {}
  /\ next_file_id = 1 /\ jobs = {} /\ job = {} /\ pc = "idle"
  /\ content = [id \in Id |-> {}] /\ named = {}
  /\ file = << <<>> >> /\ tail = "none" /\ synced = 1
  /\ rewritten = <<>> /\ attached = TRUE /\ olds = {}
  /\ flushed = 0 /\ lost = {} /\ gone = {}
-----------------------------------------------------------------------------
(* Building tables. *)

Up == pc \notin {"down", "refused"}
Files == {id \in Id : content[id] # {}}
TablesAt(level) == {id \in DOMAIN live : live[id] = level}

\* The table is built under the next file id; nothing refers to it yet.
Build(j, memtables) ==
  /\ Up /\ next_file_id <= MaxId /\ j.id = next_file_id
  /\ next_file_id' = next_file_id + 1
  /\ jobs' = jobs \cup {j}
  /\ content' = [content EXCEPT ![j.id] = memtables]
  /\ UNCHANGED <<info, uncounted, live, job, pc, disk, rewritten, attached, acks>>

\* handle_memtable_flush, run by one task.  The directory is synced later, by a
\* task of its own.
BuildFlush ==
  /\ flushed < MaxFlush
  /\ \A j \in jobs \cup job : ~IsFlush(j)
  /\ Build([id |-> next_file_id, level |-> 0, del |-> {}], {flushed + 1})
  /\ UNCHANGED <<claimed, named>>

\* CompactPlan::fix: where tables of a level go.
NextLevels(level) ==
  CASE level = 0 -> Level
    [] level = MaxLevel -> {level}
    [] OTHER -> {level + 1}

\* A plan takes tables no plan has taken before: nothing is ever removed from
\* CompactStatus, also when the compaction fails.
Plans ==
  {p \in [level : Level, next : Level, top : SUBSET (DOMAIN live \ claimed),
          bottom : SUBSET (DOMAIN live \ claimed)] :
     /\ p.next \in NextLevels(p.level)
     /\ p.top # {} /\ p.top \subseteq TablesAt(p.level)
     /\ p.level > 0 => Cardinality(p.top) = 1
     /\ p.bottom \subseteq TablesAt(p.next) \ p.top
     /\ p.next = 0 => p.bottom = {} /\ Cardinality(p.top) >= MinL0ToL0}

\* Variant: the tables of a plan are not claimed.
BuildCompactUnclaimed ==
  \E p \in Plans :
    /\ Build([id |-> next_file_id, level |-> p.next, del |-> p.top \cup p.bottom],
             UNION {content[id] : id \in p.top \cup p.bottom})
    /\ UNCHANGED claimed
    /\ named' = {id \in Id : content'[id] # {}}

\* Variant: compact_build_tables does not sync the directory.
BuildCompactUnsynced ==
  \E p \in Plans :
    /\ Build([id |-> next_file_id, level |-> p.next, del |-> p.top \cup p.bottom],
             UNION {content[id] : id \in p.top \cup p.bottom})
    /\ claimed' = claimed \cup p.top \cup p.bottom
    /\ UNCHANGED named

\* compact_build_tables, with one table built; it syncs the directory.
BuildCompact ==
  \E p \in Plans :
    LET del == p.top \cup p.bottom
    IN /\ Build([id |-> next_file_id, level |-> p.next, del |-> del],
                UNION {content[id] : id \in del})
       /\ claimed' = claimed \cup del
       /\ named' = {id \in Id : content'[id] # {}}

\* The sync_dir that MmapFile::open spawns, whenever it runs.
SyncDir ==
  /\ Up /\ named # Files
  /\ named' = Files
  /\ UNCHANGED <<memory, next_file_id, jobs, content, job, pc, disk, rewritten,
                 attached, acks>>
-----------------------------------------------------------------------------
(* push_changes. *)

NeedsRewrite(i) ==
  /\ i.deletions > Threshold
  /\ i.deletions > Ratio * (i.creations - i.deletions)

\* The change set goes to memory first; an error or a panic ends the push there.
Push ==
  /\ pc = "idle"
  /\ \E j \in jobs :
       LET i == ApplyChangeSet(info, Changes(j))
       IN /\ info' = [i EXCEPT !.status = "ok"]
          /\ jobs' = jobs \ {j}
          /\ uncounted' = IF i.status = "panic" THEN uncounted \cup {j.id} ELSE uncounted
          /\ job' = IF i.status = "ok" THEN {j} ELSE {}
          /\ pc' = IF i.status # "ok" THEN "idle"
                   ELSE IF NeedsRewrite(i) THEN "rewrite" ELSE "append"
  /\ UNCHANGED <<live, claimed, next_file_id, content, named, disk, rewritten,
                 attached, acks>>

Torn == {"drop", "refuse"}

\* What is written behind a torn change set cannot be read back, and what is
\* written to a file that has lost its name is in no manifest.
AppendSet ==
  /\ pc = "append" /\ pc' = "sync"
  /\ \/ /\ attached /\ tail = "none"
        /\ \E j \in job : file' = Append(file, Changes(j))
        /\ UNCHANGED tail
     \/ /\ attached /\ tail # "none"
        /\ tail' \in Torn
        /\ UNCHANGED file
     \/ /\ ~attached
        /\ UNCHANGED <<file, tail>>
  /\ UNCHANGED <<memory, building, job, synced, olds, rewritten, attached, acks>>

\* write_all fails, with any part of the change set written.
AppendFails ==
  /\ pc = "append" /\ pc' = "idle" /\ job' = {}
  /\ tail' \in IF attached THEN Torn \cup {tail} ELSE {tail}
  /\ UNCHANGED <<memory, building, file, synced, olds, rewritten, attached, acks>>

\* All the tables, in whatever order the hash map gives them.
AsChanges(tables) ==
  {[k \in DOMAIN s |-> Create(s[k], tables[s[k]])] : s \in Orders(DOMAIN tables)}

\* help_rewrite up to its sync_all: one change set with all the tables.
WriteRewrite ==
  /\ pc = "rewrite" /\ pc' = "rename"
  /\ rewritten' \in AsChanges(info.tables)
  /\ UNCHANGED <<memory, building, job, disk, attached, acks>>

\* Until the directory is synced a crash may bring the old file back.
Rename ==
  /\ pc = "rename" /\ pc' = "reopen"
  /\ olds' = olds \cup {[file |-> file, tail |-> tail, synced |-> synced]}
  /\ file' = <<rewritten>> /\ tail' = "none" /\ synced' = 1
  /\ UNCHANGED <<memory, building, job, rewritten, attached, acks>>

\* Variant: the deletions are not reset after a rewrite.
ReopenKeepsDeletions ==
  /\ pc = "reopen" /\ pc' = "sync"
  /\ attached' = TRUE /\ olds' = {} /\ named' = Files
  /\ info' = [info EXCEPT !.creations = Cardinality(DOMAIN info.tables)]
  /\ uncounted' = {}
  /\ UNCHANGED <<live, claimed, next_file_id, jobs, content, job, file, tail, synced,
                 rewritten, acks>>

\* The new file is opened, the directory synced, and the counters start again.
Reopen ==
  /\ pc = "reopen" /\ pc' = "sync"
  /\ attached' = TRUE /\ olds' = {} /\ named' = Files
  /\ info' = [info EXCEPT !.creations = Cardinality(DOMAIN info.tables), !.deletions = 0]
  /\ uncounted' = {}
  /\ UNCHANGED <<live, claimed, next_file_id, jobs, content, job, file, tail, synced,
                 rewritten, acks>>

\* An error before the rename leaves the old file in use; one after it leaves
\* inner.file on a file without a name.
RewriteFails ==
  /\ pc \in {"rewrite", "rename", "reopen"} /\ pc' = "idle" /\ job' = {}
  /\ attached' = (attached /\ pc # "reopen")
  /\ UNCHANGED <<memory, building, disk, rewritten, acks>>

\* Variant: the push is acknowledged without sync_all.
AcknowledgeUnsynced ==
  /\ pc = "sync" /\ pc' = "idle" /\ job' = {}
  /\ \E j \in job :
       /\ live' = [id \in (DOMAIN live \ j.del) \cup {j.id} |->
                    IF id = j.id THEN j.level ELSE live[id]]
       /\ flushed' = IF IsFlush(j) THEN flushed + 1 ELSE flushed
       /\ gone' = gone \cup j.del
  /\ UNCHANGED <<info, uncounted, claimed, building, disk, rewritten, attached, lost>>

\* sync_all, and what the caller does on success: the level handlers take the
\* new table and drop the old ones.
Acknowledge ==
  /\ pc = "sync" /\ pc' = "idle" /\ job' = {}
  /\ synced' = IF attached THEN Len(file) ELSE synced
  /\ \E j \in job :
       /\ live' = [id \in (DOMAIN live \ j.del) \cup {j.id} |->
                    IF id = j.id THEN j.level ELSE live[id]]
       /\ flushed' = IF IsFlush(j) THEN flushed + 1 ELSE flushed
       /\ gone' = gone \cup j.del
  /\ UNCHANGED <<info, uncounted, claimed, building, file, tail, olds, rewritten,
                 attached, lost>>

SyncFails ==
  /\ pc = "sync" /\ pc' = "idle" /\ job' = {}
  /\ UNCHANGED <<memory, building, disk, rewritten, attached, acks>>
-----------------------------------------------------------------------------
(* Crash and open. *)

\* What a crash leaves of a file: its synced change sets, some of the others, and
\* part of what comes next.
Remains(f) ==
  {[file |-> SubSeq(f.file, 1, n), tail |-> t] :
     n \in f.synced .. Len(f.file), t \in {"none"}}
  \cup {[file |-> SubSeq(f.file, 1, n), tail |-> t] :
     n \in f.synced .. Len(f.file) - (IF f.tail = "none" THEN 1 ELSE 0), t \in Torn}

Manifests == olds \cup {[file |-> file, tail |-> tail, synced |-> synced]}
CrashOutcomes == UNION {Remains(f) : f \in Manifests}

\* The process dies; a table file without a durable directory entry may vanish.
Crash ==
  /\ Up /\ pc' = "down"
  /\ \E o \in CrashOutcomes :
       file' = o.file /\ tail' = o.tail /\ synced' = Len(o.file)
  /\ \E kept \in SUBSET Files :
       /\ named \subseteq kept
       /\ named' = kept
       /\ content' = [id \in Id |-> IF id \in kept THEN content[id] ELSE {}]
  /\ info' = EmptyInfo /\ uncounted' = {} /\ live' = EmptyInfo.tables /\ claimed' = {}
  /\ next_file_id' = 1 /\ jobs' = {} /\ job' = {} /\ rewritten' = <<>>
  /\ attached' = TRUE /\ olds' = {}
  /\ UNCHANGED acks

\* revert_to_manifest: a table without its file refuses the database, a file no
\* one refers to is removed.
AllFilesExist(ids) == ids \subseteq Files
Reverted(ids) == [id \in Id |-> IF id \in ids THEN content[id] ELSE {}]

NextFileId(ids) == Max(ids \cup {0}) + 1

\* ManifestConfig::open, then LevelsControllerConfig::build; the torn tail is cut
\* off.
Open ==
  LET i == Replay(file)
      ids == DOMAIN i.tables
  IN /\ pc = "down"
     /\ IF tail = "refuse" \/ i.status # "ok" \/ ~AllFilesExist(ids)
        THEN /\ pc' = "refused"
             /\ UNCHANGED <<memory, building, tail, lost, gone>>
        ELSE /\ pc' = "idle" /\ tail' = "none"
             /\ info' = i /\ live' = i.tables
             /\ next_file_id' = NextFileId(ids)
             /\ content' = Reverted(ids)
             /\ named' = named \cap ids
             /\ lost' = lost \cup ((1 .. flushed) \ UNION {content[id] : id \in ids})
             /\ gone' = {id \in gone \ ids : id < next_file_id'}
             /\ UNCHANGED <<uncounted, claimed, jobs>>
     /\ UNCHANGED <<job, file, synced, olds, rewritten, attached, flushed>>

Next ==
  \/ BuildFlush \/ BuildCompact \/ SyncDir
  \/ Push \/ AppendSet \/ AppendFails
  \/ WriteRewrite \/ Rename \/ Reopen \/ RewriteFails
  \/ Acknowledge \/ SyncFails
  \/ Crash \/ Open

Spec == Init /\ [][Next]_vars
-----------------------------------------------------------------------------
\* The variables of the manifest and of the files around it have their types.
TypeOK ==
  /\ DOMAIN info.tables \subseteq Id /\ info.levels \in 0 .. MaxLevel + 1
  /\ info.creations \in Nat /\ info.deletions \in Nat /\ info.status = "ok"
  /\ \A id \in DOMAIN info.tables : info.tables[id] \in Level
  /\ DOMAIN live \subseteq Id /\ claimed \subseteq Id /\ uncounted \subseteq Id
  /\ next_file_id \in 1 .. MaxId + 1 /\ jobs \subseteq Job /\ job \subseteq Job
  /\ pc \in {"idle", "append", "rewrite", "rename", "reopen", "sync", "down", "refused"}
  /\ \A id \in Id : content[id] \subseteq 1 .. MaxFlush
  /\ named \subseteq Files /\ tail \in {"none"} \cup Torn /\ synced \in 1 .. Len(file)
  /\ attached \in BOOLEAN /\ flushed \in 0 .. MaxFlush

\* Nothing torn is in the manifest, and push_changes writes to it.
Intact == attached /\ \A f \in Manifests : f.tail = "none"

\* Whatever the crash and whatever pushes failed before it, a manifest without a
\* torn change set replays without the errors of apply_manifest_change, and the
\* tables it lists hold every memtable whose flush push_changes acknowledged and
\* none of the tables whose deletion it acknowledged.
Durable ==
  Up /\ Intact => \A o \in CrashOutcomes :
    LET i == Replay(o.file)
    IN /\ i.status # "error"
       /\ i.status = "ok" =>
            /\ (1 .. flushed) \ lost \subseteq UNION {content[id] : id \in DOMAIN i.tables}
            /\ DOMAIN i.tables \cap gone = {}

\* A push is never refused by the tables in memory ("removes non-existing table",
\* "table exists"), although a failed push leaves its changes there: what a
\* failed compaction claimed is never compacted again before a restart.
AppliesCleanly == \A j \in jobs : ApplyChangeSet(info, Changes(j)).status # "error"

\* inner.creations - inner.deletions, a factor of the rewrite condition, is the
\* number of tables in memory but for those a panic left uncounted, and so never
\* wraps around.
CountersAgree ==
  /\ uncounted \subseteq DOMAIN info.tables
  /\ info.creations - info.deletions
       = Cardinality(DOMAIN info.tables) - Cardinality(uncounted)

\* As long as the process runs, every table that a crash could make the manifest
\* list has its file, and the entry of a compacted one is already durable, so that
\* revert_to_manifest does not refuse the database for it.
FilesKept ==
  Up => \A o \in CrashOutcomes :
    LET tables == Replay(o.file).tables
    IN \A id \in DOMAIN tables :
         id \in Files /\ (tables[id] > 0 => id \in named)
-----------------------------------------------------------------------------
(* The inductive invariant. *)

Tables == UNION {[ids -> Level] : ids \in SUBSET Id}
Info == [tables : Tables, levels : 0 .. MaxLevel + 1, creations : Nat,
         deletions : Nat, status : {"ok", "error", "panic"}]
Change == [op : {"create"}, id : Id, level : Level] \cup [op : {"delete"}, id : Id]
ManifestFile == [file : Seq(Seq(Change)), tail : {"none"} \cup Torn, synced : Nat]

\* TypeOK, with what is in the files.
Typed ==
  /\ TypeOK
  /\ info \in Info /\ live \in Tables /\ content \in [Id -> SUBSET (1 .. MaxFlush)]
  /\ \A f \in Manifests : f \in ManifestFile /\ f.synced \in 1 .. Len(f.file)
  /\ rewritten \in Seq(Change) /\ gone \subseteq Id
  /\ pc = "rename" => rewritten \in AsChanges(info.tables)

\* Without a process there is only what is on disk.
Closed ==
  ~Up => /\ info = EmptyInfo /\ uncounted = {} /\ live = EmptyInfo.tables /\ claimed = {}
         /\ jobs = {} /\ olds = {} /\ attached
         /\ synced = Len(file) /\ named = Files

\* push_changes works on one job at a time, and a file it replaced is remembered
\* until the directory is synced or the new file could not be opened.
OnePush ==
  /\ pc \in {"idle", "down", "refused"} => job = {}
  /\ pc \notin {"idle", "down", "refused"} => \E j \in job : job = {j}
  /\ attached /\ pc # "reopen" => olds = {}
  /\ pc = "reopen" => tail = "none" /\ synced = Len(file)

Used == 1 .. next_file_id - 1

\* The ids of a running process were handed out, and none twice.
IdsUsed ==
  Up => /\ DOMAIN info.tables \subseteq Used /\ DOMAIN live \subseteq Used
        /\ gone \subseteq Used /\ uncounted \cap DOMAIN live = {}
        /\ \A j \in jobs \cup job :
             j.id \in Used /\ j.id \notin DOMAIN live \cup gone \cup uncounted

\* A table that is built holds what it is to replace, and its file and, but for
\* the flushes, its directory entry are there.
Built(j) ==
  /\ content[j.id] # {} /\ (j.level > 0 => j.id \in named)
  /\ IsFlush(j) => content[j.id] = {flushed + 1}
  /\ j.del \subseteq claimed \cap DOMAIN live
  /\ \A id \in j.del : content[id] \subseteq content[j.id]

Jobs ==
  /\ \A j \in jobs \cup job : Built(j)
  /\ \A j, k \in jobs \cup job :
       j # k => /\ j.id # k.id /\ j.del \cap k.del = {}
                /\ ~(IsFlush(j) /\ IsFlush(k))

\* The jobs can be applied to these tables, now and after tables were built.
Ready(ids, js) ==
  /\ DOMAIN live \ claimed \subseteq ids
  /\ \A j \in js : j.id \notin ids /\ j.del \subseteq ids

Applied(ids) == \A j \in job : j.id \in ids /\ j.del \cap ids = {}

Covers(ids) ==
  /\ (1 .. flushed) \ lost \subseteq UNION {content[id] : id \in ids}
  /\ ids \cap gone = {}

HasFiles(tables) ==
  \A id \in DOMAIN tables : id \in Files /\ (tables[id] > 0 => id \in named)

\* Memory is ahead of the file: a failed push stays in it.
InMemory ==
  Up => /\ Ready(DOMAIN info.tables, jobs) /\ Applied(DOMAIN info.tables)
        /\ Covers(DOMAIN info.tables) /\ HasFiles(info.tables)

Good(i) == i.status # "error" /\ (i.status = "ok" => Covers(DOMAIN i.tables))

\* The change sets a crash may leave of a file.
Survivors(f) == {SubSeq(f.file, 1, n) : n \in f.synced .. Len(f.file)}

\* What the file says, if it has no torn change set and has its name or is about to
\* be opened under it.
InFile ==
  Up /\ (pc = "reopen" \/ (attached /\ tail = "none")) =>
    LET i == Replay(file)
    IN i.status = "ok" =>
         /\ Ready(DOMAIN i.tables, IF pc = "append" THEN jobs \cup job ELSE jobs)
         /\ pc \in {"reopen", "sync"} => Applied(DOMAIN i.tables)

AfterCrash ==
  Up => /\ \A f \in Manifests : \A s \in Survivors(f) :
             /\ DOMAIN Replay(s).tables \subseteq Used
             /\ HasFiles(Replay(s).tables)
             /\ attached /\ f.tail = "none" => Good(Replay(s))
        /\ pc = "reopen" => Good(Replay(file))

IInv ==
  /\ Typed /\ Closed /\ OnePush /\ IdsUsed /\ Jobs /\ InMemory /\ InFile
  /\ AfterCrash /\ CountersAgree
=============================================================================
