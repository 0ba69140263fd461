# Mors in TLA+

Mors is a Rust rewrite of Badger: an LSM-tree key-value store with MVCC
transactions. This directory models the parts of it where concurrency, crashes
and bounds make tests weak, checks them with TLC on small instances, and proves
the central ones with TLAPS for every size. Paths below are relative to the
crate's `src/`.

## The system

| Part | State | Operations | What makes it hard |
|---|---|---|---|
| Water mark (`txn/water_mark.rs`) | `done_until`, mark channel, heap, pending counts, waiter map | `begin`, `done_commit`/`done_read`, `wait_for_mark`, the `process` task | out-of-order completion, waiter racing the mark it waits for, full channel |
| Oracle and transactions (`txn/oracle.rs`, `txn/mod.rs`) | `next_txn_ts`, `committed_txns`, two locks held across awaits | start, get, set/delete, commit, discard | snapshot against commits in flight, timestamp order, failed commits |
| Write pipeline (`write.rs`) | write channel, batch, permit, running job | `do_writes`, `write_requests` | one job at a time, partial failure of a batch |
| Memtables (`memtable/`, `write.rs`, `level/flush.rs`) | mutable and immutable memtables, flush channel, level 0 | rotation, flush, stall, pop | rotation, flush and readers interleave |
| Levels and compaction (`level/`) | tables per level, compaction status | planning, merging, replacing, deleting | overlapping plans, three-step publication |
| Manifest (`manifest.rs`) | table set in memory, append-only file | `push_changes`, rewrite, replay | crash between steps, torn tail |
| Log files (`util/mmap.rs`, `util/log_file.rs`) | mapping, write buffer, write position | append, grow, flush, truncate, replay | failed growth, tail in the buffer, crash |
| Value log (`vlog/`) | log files, offset, entry count | write a batch, rotate, open | rotation, recovery of the last file |
| Skip list, tables, iterators (`util/skip_list.rs`, `table/`, `iter.rs`) | towers; prefix-compressed blocks | push, search, next, next_back, seek, merge | overlaps between keys, both ends of one iterator |
| Key registry (`key_registry.rs`) | data keys, file | rotate, append, reopen | check under one lock, act under another |
| Publisher and trie (`util/publisher.rs`, `util/tire.rs`) | subscribers, trie | publish, subscribe, clean up | lock held while sending |
| Throttle (`util/mod.rs`) | permits, error channel | acquire, done, finish | errors against permits |
| Directory lock (`util/lock.rs`) | flocks, pid files | lock, unlock | several processes, crash |

A transaction asks the oracle for a read timestamp. The oracle begins it on the
read mark and makes it wait on the transaction mark until every commit at or
below the timestamp has reached the memtable. A commit takes `send_write_req`,
gets its timestamp from the oracle (which begins it on the transaction mark and
ends the read), enters the write channel, and ends its timestamp when the write
task has answered. The write task fills the mutable memtable and rotates it; the
flush task turns rotated memtables into level 0 tables; compaction moves them
down. `discard_at_or_below`, the read mark's `done_until`, tells compaction which
old versions nobody can read any more.

## Modules

**`WaterMark`** is one water mark. A client is one transaction; `Begin`, `Done`,
`WaitForMark`/`SendWaiter`/`Notified` are the calls, split at their awaits;
`Process` is one turn of the task's loop with `process_one` inside. The heap is a
set (the code never holds a timestamp twice in it) and `pending` a function that
is 0 where the map has no entry. `Next` states what the mark assumes of its
users: begins in timestamp order, no wait for a timestamp that was not begun.

**`MarkPromise`** is what a mark promises: who is where and how far `done_until` is, no channel,
no heap, no waiter map. **`WaterMarkInv`** adds to `WaterMark` the refinement
(`ImplementsPromise`) and the inductive invariant; it is a module of its own so
that the instances in `TxnOracle` stay small. **`WaterMarkProofs`** holds the
theorems.

**`TxnOracle`** composes two instances of `WaterMark` (`read_mark`, `txn_mark`)
with the oracle, the transactions and the write pipeline. `pc` is a transaction's
position; `inner` and `send_write_req` are the holders of the two locks. Every
await is a step boundary. Data is reduced to which keys a transaction read and
wrote and which versions the memtable holds. Each transaction has its own thread:
the guards are `parking_lot` guards without `send_guard`, so a transaction's
future cannot move between threads. **`TxnOracleProofs`** holds the proofs about
one step of it, **`SnapshotProofs`** the theorems.

**`MemTables`** is one key's versions, the key never deleted, on their way from the
mutable memtable to the levels: the write task (`wpc`), the flush task (`fpc`), the
two compactions out of level 0 (`cpc`: into the base level, and into level 0 itself),
and readers (`rpc`). A compaction goes through the steps of `run_compact` that others
can see: build, manifest, the new table's level, the old tables' level. Level 0 is a
set: tables that were merged inside it stand behind younger ones that were not, so it
is not ordered by age, and the model lets a plan take any of its tables. A table
built by a compaction keeps the newest version only, as `add_keys` does for versions
at or below `discard_ts`, so that what must be reachable is `Readable`: what a read at
`discard_ts` or later can ask for. What happens below level 0 is the subject of
`Compaction`; the ranges of `CompactStatus` let one plan into the base level take the
key, so there is no second one to model here. **`MemTablesProofs`** holds the
theorems.

**`Manifest`** is the manifest in memory (`info`), its file, and what a crash may
leave of both. `Build...` are its callers, up to the point where a table is built;
`Push`, `AppendSet`, `WriteRewrite`, `Rename`, `Reopen`, `Acknowledge` are
`push_changes` step by step, each with its failing form; `Crash` and `Open` end
and restart the process. A table is the set of memtables merged into it. Bytes
are reduced to complete change sets (`file`) and to what replay does with a torn
one (`tail`): it drops one that misses part of its header or at most 8 bytes of
its payload, and refuses to open on any other (`manifest.rs:248` leaves the header
out of the comparison). Key ranges are left out, so any table that no compaction
has claimed may be planned, and a compaction builds one table.
**`ManifestProofs`** holds its theorems.

**`Compaction`** is the levels with their tables (keys, versions, deletions),
the flush task that fills level 0, and compactors: `StartCompact` picks a level
by its score (`Score`, `Adjusted`, `Picks`), plans (`Level0ToBase`,
`Level0ToLevel0`, `FillTables`) and registers the plan; `Build` merges and
decides what is kept; `PushChanges`, `Replace` and `Delete` publish it in the
code's three steps. `Restart` rebuilds the levels from the manifest. Sizes are
numbers of entries. The ranges a plan registers are never removed, as in the
code. **`CompactionPlanProofs`** holds the lemmas about its helpers and about
planning, **`CompactionProofs`** the rest of the steps and the theorems.

**`MmapLog`** is the arithmetic of a log file as operators, each the set of its
outcomes: the write buffer over the mapping, growth that can fail, truncation,
replay (`ValidEnd`), crash and power failure. **`ValueLog`** and **`MemLog`** are
the two users: batches, rotation and opening of the value log; pushes, rotation,
flush and opening of memtables. A file is a sequence of units, a record of n
units is complete when all n are there.

**`SkipList`** has towers of explicit heights and `Push` with its splices;
**`SSTable`** builds blocks of prefix-compressed keys by size, opens them by
checksum mode, and iterates with the code's entry index and overlap;
**`Cursor`** is what both iterators promise: a position in a sorted sequence.
The modules keep the cursor beside the iterator (`ref`) and compare what each
operation says. **`MergeIter`** is the tree of two-armed nodes that compaction
reads through, against the sorted union of its tables.

**`KeyRegistry`** is the registry in memory and its file, with callers between
the read and the write lock, appends that fail or are cut short, and restarts.
**`Publisher`** is the write path that sends updates, the listener that
distributes them through the trie, the subscribers' loops and the shutdown; its
lock is a queue. **`Throttle`** is the opening of tables with a bounded number of
tasks. **`DirLock`** is several processes that lock, and leave pid files in, the
two directories of a database.

**`OpeningProofs`** holds the theorems about three of the parts that opening a
database goes through: the registry, the throttle and the directory lock.
**`MCLogs`** and **`MCParts`** run parts that do not interact in one
state space: `which` says which one a behaviour is about.

Names that start like a modelled operation and are marked "Variant" are
deliberately wrong forms of it. They are part of no specification; putting one in
place of the operation shows that the properties notice.

## Runs

| Run | Shows |
|---|---|
| `watermark` (`MCWaterMark.cfg`) | The mark's invariants, the inductive invariant of the proofs, the refinement to `MarkPromise`, and that no wake-up is lost. |
| `txn` (`MCTxnOracle.cfg`) | Snapshots are stable (`RepeatableRead`) and fresh (`FreshSnapshot`), commits reach the memtable in timestamp order, the oracle's debug assertions hold, what compaction may discard stays below readers, the oracle uses both marks as they require (`UsesMarks`), and the invariant of its proofs holds (`OInv`). |
| `txn_live` (`MCTxnOracleLive.cfg`) | With channels of capacity 1, every start and every commit returns, failed writes included, as long as write jobs end (`JobsEnd`). |
| `txn_conflict` | Violation: conflict detection never fires (see below). |
| `memtables` (`MCMemTables.cfg`) | No version that can be read is ever out of reach (`NothingLost`), the manifest knows a table before a level does and until it knows the one it was merged into (`RecordedBeforeVisible`), the tables it lists hold a beginning of the history (`RecordedInOrder`); the invariant of the proofs (`IInv`). |
| `memtables_flush`, `memtables_read` | Violations: the order of rotation (see below). |
| `manifest` (`MCManifest.cfg`) | Whatever fails or crashes, a manifest without a torn change set lists every acknowledged flush and no deleted table (`Durable`), pushes are never refused by memory (`AppliesCleanly`), the counters do not wrap (`CountersAgree`), and tables that may be listed have their files (`FilesKept`); the invariant of the proofs (`IInv`). |
| `compaction` (`MCCompaction.cfg`) | No table is in two plans, and a plan's tables are where it says (`OnePlanPerTable`); levels below 0 stay sorted and disjoint, in memory and in the manifest (`LevelsSorted`); the newest value of a key is in the levels and in the manifest between any two steps (`NewestKept`); a deletion dropped on the way down hides nothing older at or below the level written to (`DropsSafely`). |
| `logs` (`MCLogs.cfg`) | A value pointer stays good whatever fails after it (`PointersHold`); a memtable's list and log agree, also after half a request (`LogAgrees`); only a power failure takes back the complete records a replay reads (`LogsGrow`; what it makes of them is another matter, see below). |
| `logs_reopen` | Violation: the flush task after an opening (see below). |
| `parts` (`MCParts.cfg`) | Searches and iterators against sorted sequences (`SearchAgrees`, `CursorsAgree`, `MergeAgrees`); data keys are found again and a period apart (`KeysKept`, `OneKeyPerPeriod`); subscribers get every matching update once and in order (`StreamsWhole`); the publisher and the throttle come to a stop only in the listed ways (`StopsExplained`); a pid file names the holder of its directory (`PidNamesHolder`). |

Bounds. `watermark`: two clients, timestamps 0 to 3, channel capacity 2. Two
clients are enough for two begins at one timestamp, for one that overtakes the
other, and for a waiter racing a done; capacity 2 makes the channel both fill up
and hold marks of both clients. Larger instances are what the proofs are for.
`txn`: three transactions on one key, so that one can read while two commit in
either order, with a write channel of 1 and a batch of 2. `MaxTs` never binds.
`txn_live`: two transactions, capacity 1 everywhere, the tightest case for
waiting. `memtables`: a memtable is full after one version, three versions, four
memtables and five file ids, a flush channel of 1, a stall at 3, and two tables
instead of 4 for a compaction inside level 0, so that rotation, a failed build, the
stall and both compactions at once all happen while a reader is in the middle of its
lookup.
`manifest`: four file ids, three memtables, levels 0 to 2, a rewrite after two
deletions (10000 in the code): enough for two flushes, a compaction that triggers
a rewrite or panics for skipping a level, and a push after any failure of it.
The number of crashes is not bounded.

`compaction`: three flushes, two compactors, three levels, six file ids and size
limits of one or two entries, so that the base level moves up, a level 0
compaction runs beside one out of level 0, and a table with a stale entry is
compacted again. `logs`: a page of three units and records of two and three, so
that a record fits into the buffer, pushes it out, passes it by or crosses a
page; three files and four or five records. `parts`: a skip list of three keys
with every height up to 3; four tables whose overlaps grow and shrink within a
block and whose versions straddle blocks, with a one-byte timestamp; every merge
of up to three tables over three keys and some of five and seven; two callers,
three rotation periods and three openings of the registry; two subscribers,
channels of 2 and 1, and four updates; five tasks with three permits; three
processes, one read-only, one with a longer pid.

Deadlock is checked in `logs`, where a database can always be closed and opened.
Elsewhere it is not: transactions end, iterators come to their end, a refused
database stays closed, and the bounded runs stop when the bounds are used up.
Being stuck is what the liveness properties and `StopsExplained` are about.

Fairness. `process` and `do_writes` are tokio tasks that are polled while they have
something to do. A transaction's own steps are fair because its thread blocks nobody
else; a caller that holds an open transaction owes nothing, so `Commit` and `Discard`
are not fair. Nothing is assumed of the steps of a write job. Its rotation waits for
room in the flush channel (`write.rs:220`), and that wait has no end once the flush
task has panicked (`level/flush.rs:37`, the finding `memtables_flush`: the receiver
lives in `DBInner`, so the channel is never closed) or level 0 stays full for good;
nor has `send_updates` when the publisher has stopped. `TxnStarts` and `CommitReturns`
therefore state their premise, `JobsEnd`: there is always a time with no job running.
Without it both are false, as a job that never ends keeps its requests and the
permit. In `watermark` alone, where the rest of the system is absent, `Done` is fair:
whether waiters return depends on it, and `txn_live` shows where it comes from
(`FinishCommit` follows a result, and results come as long as write jobs end).

## Where the code disagrees with its docs or assertions

* **Conflicts** (`txn_conflict`). `txn/oracle.rs:138` records a commit for later
  conflict checks only with `managed_txns`, with which no transaction can be
  started. `docs/transaction.md:256-266` promises read-write conflict detection
  and the absence of lost updates.
* **Flush assertion** (`memtables_flush`). `write.rs:220` sends a memtable to the
  flush task before `write.rs:222` lists it as immutable; the assertion at
  `level/flush.rs:37` can fail.
* **Missed read** (`memtables_read`). Between the exchange of the mutable memtable
  and its listing as immutable a reader finds a committed version nowhere,
  against constraint 1 of `docs/transaction.md:167`.
* **Flush after opening** (`logs_reopen`). Opening lists the memtables it finds as
  immutable (`memtable/mod.rs:72`) and sends none of them to the flush task. The
  first flush pops one of them, and the assertion at `level/flush.rs:37` kills the
  task.

Seen while reading, not given a run: the entries of a failed batch stay visible
(`write.rs:194`); in levels below 0 a lookup of anything but a table's biggest
key panics (`level/read.rs:113`); readers at timestamp 0 are not tracked by the read mark.
In the manifest, the following are reachable in the model and no line of the
repository denies them, so they are limits of the properties instead of runs.
A compaction that skips a level panics (`manifest.rs:309`), and so does opening a
manifest whose rewrite lists only tables below level 0. Change sets pushed behind
a torn one, or after `help_rewrite` failed past its rename, are acknowledged and
lost. A flush is acknowledged before the directory entry of its table is durable
(`util/mmap.rs:86`).
The same holds for the following, each reachable in its module or excluded by the
property that names it:

* Compaction. A compaction inside level 0 drops a deletion although an older
  version may be in a level 0 table outside the plan (`DropsSafely` speaks of plans
  into a lower level). A plan made for a base level that has since moved can put
  newer data below older. Ranges are never released (`level/plan.rs:387`), so level
  0 can stay full. `total_stale_size` goes below zero (`level/flush.rs:99`). An
  entry above `discard_ts` is kept and never stepped over, so `add_keys` keeps it
  again and again and the compaction never ends. A merge with bottom tables seeks first, which fails (`MergeWorks`).
* Logs. `decode_from` leaves `meta` at 0 (`vlog/header.rs:63`), so reopening a
  memtable recovers nothing from its log. Rotation can cut a file while its tail is
  in the write buffer; a growth that failed leaves a hole at which replay stops; a
  failed `create_vlog_file` uses its number up.
* Iterators. A skip list's first `next_back` ignores where `next` is; `is_empty` is
  never true. A table's `seek` never looks into the last block for a key above its
  base key and underflows below the first (`table/read.rs:153`). Blocks are verified
  on opening only in the modes that do not name the table. A merge node with one
  arm panics (`bigger` in `table/iter.rs`).
* Key registry. Keys appended behind a torn record are lost at the next opening and
  their ids are given out again.
* Publisher. The waits of `StopsExplained`; a match that does not parse stays
  registered and the error of its send drops the rest of the batch for everyone; an
  ignored byte consumes nothing in the trie (`util/tire.rs:60`).
* Throttle. `finish` hangs when two tasks fail (`util/mod.rs:209`).
* Directory lock. The pid file is not truncated, so the digits of a longer pid stay
  behind a shorter one after a crash.

## Proofs

`WaterMarkProofs` assumes only `MarkAssumption`: timestamps are naturals, the
initial mark is one of them, the channel has room for at least one mark, clients
are finitely many. It proves for `Spec` of `WaterMark`:

* `Invariance`: `[]IInv`;
* `TypeCorrect`, `NeverPassesOpen`, `AssertionHolds`, `WaitIsSound`: the type
  invariant, `OpenNotPassed`, `MarksAhead`, `WaitReturnSound`;
* `Refinement`: `Spec` implements `MarkPromise`.

The argument. `OpenNotPassed` alone is not inductive: whether `done_until` may
move is decided by counters the clients never see. `IInv` ties the three views
together. `ChanInv`: the channel is a FIFO record of what clients sent, begins in
timestamp order, each client's begin before its done. `HeapInv`: `pending[t]` is
minus the number of clients at `t` whose begin was processed and whose done was
not (`Held`), every such `t` is in the heap, the heap lies between `done_until`
and the begins still in the channel, and `done_until` stands where a client is
done. `WaitInv`: a notified client's timestamp has been reached. With these, a
popped minimum has no unfinished client at or below it, which is `OpenNotPassed`,
and a mark still on its way is at or above `done_until`, which is the assertion.

**The oracle.** `SnapshotProofs` proves for `Spec` of `TxnOracle`, for any
transactions, keys, `max_version` and capacities:

* `SnapshotIsolation` (`RepeatableRead`): what a transaction sees never changes
  while it is in use;
* `ReadsCommitted` (`FreshSnapshot`): it sees every commit that had returned when it
  started;
* `CommitsInOrder` (`CommitOrder`), `AssertionsHold` (`CleanupBehind`),
  `DiscardIsSafe` (`DiscardBelowReaders`), `OracleUsesMarks` (`UsesMarks`);
* `OracleInv` (`OInv`) and `OracleInvariance`, which they rest on.

It assumes `OracleAssumption`: transactions are finitely many, `MaxTs` and
`MaxVersion` are naturals, `MaxVersion` at most `MaxTs`, the capacities are
positive. The argument is circular only at first sight. A mark keeps its promises
if it is used as `WaterMark!Next` says; the oracle uses it so only as long as the
mark has kept its promises. `TxnOracleProofs` therefore shows that from a state
with `OInv` every step of the oracle is a step of each mark or leaves it alone
(`NextUsesMarks`), and that `OInv` holds after a step if the marks' promises
(`MarksPromise`) hold before and after it (`NextOInv`).
`SnapshotProofs` instantiates `WaterMarkProofs` for each mark and takes its one-step
lemma (`NextIInv`) from there, so that the three invariants are preserved together
(`NextInvariant`).

`OInv` says, clause by clause: `LocksHeld`, who is inside a locked section holds its
lock; `MarksFollow`, what a mark knows of a transaction follows from where the
transaction is; `Timestamps`, commit timestamps are distinct, below `next_txn_ts`,
and begun in order, read timestamps are behind the begun commits; `Pipeline`, the
write channel, the batch and the running job hold transactions that wait for their
result, each once, in timestamp order from the job to the channel; `Older`, what is
in the memtable has a smaller timestamp than anything still to be written;
`Complete`, a commit that was answered with success is in the memtable as a whole;
and `CleanupBehind`. The snapshot lemma (`SnapshotFixed`) is then short: what is
written belongs to a transaction whose commit is not done, the transaction mark has
not reached its timestamp (`UnfinishedAhead`), but it has reached the read timestamp
of whoever reads (`ActiveReached`).

**The memtables.** `MemTablesProofs` proves for `Spec` of `MemTables`, assuming
positive capacities and bounds: `MemTablesInvariance` (`IInv`), `NothingIsLost`
(`NothingLost`), `TablesAreRecorded` (`RecordedBeforeVisible`) and
`RecordedIsPrefix` (`RecordedInOrder`). The stall, the number of tables a compaction
inside level 0 needs and the readers are arbitrary. The clause that carries it is
`PopsBehind`. The flush task may pop from `immut_memtable` before its memtable is
listed there, and a later pop then removes another memtable than the one flushed,
which is the finding `memtables_flush`. What saves the data is that the list runs
behind the flush task and never ahead of it: what is still to be flushed is always the
end of what was sent, and when the task pops there is something flushed in front of
that end. So even the pop that panics removes a memtable that is in the levels.
`ByAge` orders fids from the flush task to the mutable memtable, `Written` says that
versions go to ever younger memtables, `Placed` that every memtable is in memory or
in the levels.

The tables have no such order once compactions have merged some of them, so the
invariant says instead that every table is older than every memtable no table was
built from (`Older`). For the compactions it adds that a table is in one place
(`Homes`), that the two plans are apart (`Plans`, from the ranges and the table ids
of `CompactStatus`), that what was built holds what can be read of what was merged
and is in a level before that leaves (`Outputs`), and what the manifest lists
(`Recorded`). `LevelsKeep` is the lemma on which the rest turns: what can be read of
the levels stays there.

**The manifest.** `ManifestProofs` proves for `Spec` of `Manifest`, for any
number of file ids, memtables and levels and any rewrite threshold
(`ManifestAssumption`): `ManifestInvariance` (`IInv`), `AcknowledgedIsDurable`
(`Durable`), `PushesApply` (`AppliesCleanly`), `CountersNeverWrap`
(`CountersAgree`) and `ListedFilesExist` (`FilesKept`). What a manifest lists is a
fold over its change sets, and an induction over them cannot be instantiated.
The proof goes around it: `SetUnfolds` and `ReplayUnfolds` give the recursive
functions' equations, and `Climbs` takes the place of induction: a set with 0 and,
up to N, the successor of each of its numbers has them all. One push adds one
change set (`ReplayAppend`) and one job's changes to it (`JobApplied`), which is
all the steps need.

`Durable` is not inductive: it speaks of what is acknowledged, and says nothing of
the push in hand. `IInv` keeps three views of the tables. `InMemory`: memory is
ahead of the file. It can take every job that is still to be pushed (`Ready`),
has the one being pushed (`Applied`) and covers what was acknowledged (`Covers`).
`InFile`: so can and does the file, if it has no torn set and has its name.
`AfterCrash`: every prefix of the file from the synced part on, and every file the
directory may still name (`Survivors`), is good in the same sense and lists only
tables whose files exist. `Jobs` keeps jobs apart from each other, by the ids they
create and the tables they claimed: this is why a push that failed, and stays in
memory, is never in the way of a later one. `CountersAgree` counts the tables a panic
left between insertion and counting (`uncounted`).

**Compaction.** `CompactionProofs` proves for `Spec` of `Compaction`, for any
compactors, number of levels, keys, memtables and size limits:
`CompactionInvariance` (`IInv`), `LevelsStaySorted` (`LevelsSorted`),
`PlansAreExclusive` (`OnePlanPerTable`) and `NewestValueSurvives` (`NewestKept`).
It assumes `CompactionAssumption` (at least two levels, compactor 0 exists, the
stall is above the level 0 limit, as the code asserts) and `KeyAssumption` (a
memtable has a key, keys are positive and bounded). `IInv` holds in the instance of
the run `compaction` too: TLC finds no violation when it is listed there. It is left
out of the run for its time.

The levels' order rests on the ranges of `CompactStatus`. A plan's tables are
within the ranges it registered (`Claimed`); ranges that miss each other, and a
target level that is free of the range, stay so (`Room`), because a range, once
registered, is never removed and every later plan is checked against it
(`KeptAway`). So what a compactor writes fits between the tables that are there
(`OrderApart`), and no table is in two plans (`Exclusive`). For the newest value
it must hold between the three steps of a publication: a table has one home,
from the moment it is built (`Homes`, `Named`); what was built has the newest value
of every key that was read (`Outputs`), which for a flush in between needs that a
later version is never in an earlier table (`Versions`); and what the manifest lists
is in the levels, in the flush task's hands, or about to be put there (`Backed`),
so that a restart at any point finds it. A merge with bottom tables fails before
it builds (`MergeWorks`), which `Outputs` uses. The orders of the lists come from
two facts about the model's helpers, both proved without induction on an operator:
`KeepIs` (what a filter keeps, and in which order) and `SortedIs` (a sorted order
exists).

**The parts.** The first part of `OpeningProofs` is about `KeyRegistry`, the others
about instances of `Throttle` (`Thr`) and `DirLock` (`Loc`), whose assumptions their
theorems state.

`PidFileIsRight` is `Spec => []PidNamesHolder` of `DirLock`, assuming that pids are
sequences of digits and that the marker for "no directory" is none. The invariant
adds to the property that the guards agree with the flocks (`LocLocksAgree`), that
whoever writes is alone (`LocWriterAlone`), that only a held directory is being
given up (`LocRemovedHeld`), and that while nothing was left behind a pid file
exists only under a writer (`LocFileNames`): without the last one a new holder could
overwrite a longer pid.

`NoErrorLost` is `Spec => []SuccessIsReal` of `Throttle`, the first half of what
`StopsExplained` says of it, for finitely many tasks. It needs that an error that
was sent is still in the channel until the opener gives up (`ThrErrorsWait`), and
that all permits are back only when no task holds one, which is a fact about
cardinalities (`ThrNobodyHolds`).

`KeysApart` is `Spec => []OneKeyPerPeriod` of `KeyRegistry`, assuming only that the
rotation period is a natural number. The property speaks of the records up to the
first torn one; `ReadableIs` says that these are what the reader returns, and
`ReadIs` that it takes the greatest of their times, by the existence of a least and
a greatest element (`LeastOf`, `GreatestOf`). The invariant adds `TimesKnown`: no
time is ahead of the clock, and an open registry has the time of the last readable
key in `last_created`. With it the second look at the clock under the write lock
gives the distance (`AppendInv`), and a torn record only shortens what is read.

Only model-checked: `DropsSafely` (that a dropped deletion hides nothing depends on
the order of versions across levels, which plans for a base level that has moved
can break; it holds for the plans the instance reaches, and an invariant for all of them is
not known), the iterators, the skip list and the logs (their searches and scans
need induction over data, which the provers cannot instantiate), `KeysKept` (it
follows each key from its append through every reading), the publisher, and all
liveness and all that stops (fairness and ENABLED are outside the prover's reach).

## Not modelled

* Generated encoders, metrics, option setters and thin wrappers of system calls have
  no control to model. Bloom filters, caches, compression and encryption are data:
  the modules above treat a block or a record as readable or not.
* `vlog/discard.rs`: nothing reads the statistics, and `next_empty_slot` is never
  advanced, so there is no promise its table keeps.
* `vlog/threshold.rs`, `vlog/histogram.rs`: floating point buckets, fed by one task.
* `util/arena.rs`: bump allocation whose sizes depend on memory layout. It panics
  when full; the size estimates leave out timestamps, metadata and alignment.
* The compaction of the last level into itself, sub-compactions as concurrent tasks,
  expiry of values, `sync_writes`, read-only mode, tables with bad checksums on
  opening, prefixes to drop,
  `SinkTableConcatIter` and `SinkMergeIter` backwards.
* The Linux version of `set_len` (`util/mmap.rs:213`), which does not compile; the
  other one is modelled.
* Fewer threads than transactions: the locks held across awaits then block the
  thread that would release them.

`PROJECT.json` lists every component with its status.
