----------------------------- MODULE TxnOracle -----------------------------
(***************************************************************************)
(* Transactions (txn/mod.rs), the oracle that hands out their timestamps   *)
(* (txn/oracle.rs) with its two water marks, and the write pipeline that   *)
(* carries a commit into the memtable (write.rs).                          *)
(*                                                                         *)
(* Every transaction is driven by a thread of its own: its futures hold    *)
(* parking_lot guards across awaits and cannot be moved to another thread. *)
(* Each await between the acquisition of a lock and its release is a step, *)
(* and the other transactions and the spawned tasks interleave there.      *)
(***************************************************************************)
EXTENDS Integers, Sequences, FiniteSets

CONSTANTS Txn,        \* transactions; each commits at most once
          Key,
          None,       \* no holder of a lock
          MaxVersion, \* the newest version found when the database was opened
          MaxTs,      \* bound on timestamps: MaxVersion + |Txn| never binds
          ChanCap,    \* capacity of a mark channel (100 in the code)
          WriteCap,   \* capacity of the write channel (1000 in the code)
          BatchCap    \* requests do_writes gathers at most (3000 in the code)

Ts == 0 .. MaxTs

ASSUME OracleAssumption ==
  /\ MaxVersion \in Nat /\ MaxTs \in Nat /\ MaxVersion <= MaxTs
  /\ ChanCap \in Nat \ {0} /\ WriteCap \in Nat \ {0} /\ BatchCap \in Nat \ {0}
  /\ None \notin Txn
  /\ IsFiniteSet(Txn)

VARIABLES
  \* OracleCore
  next_txn_ts, last_cleanup_ts, committed_txns,
  inner,            \* holder of OracleInner.inner
  send_write_req,   \* holder of OracleInner.send_write_req
  \* the transactions
  pc, read_ts, commit_ts, reads, writes, result,
  \* read_mark
  r_until, r_last, r_chan, r_heap, r_pending, r_phase, r_mts,
  \* txn_mark
  t_until, t_last, t_chan, t_heap, t_pending, t_phase, t_mts,
  t_waiters, t_notified, t_wait, t_wts,
  \* the write channel, do_writes, the write_requests task, the memtable
  wchan, batch, permit, job, written, store

coreVars == <<next_txn_ts, last_cleanup_ts, committed_txns>>
txnVars == <<pc, read_ts, commit_ts, reads, writes>>
rVars == <<r_until, r_last, r_chan, r_heap, r_pending, r_phase, r_mts>>
tVars == <<t_until, t_last, t_chan, t_heap, t_pending, t_phase, t_mts,
           t_waiters, t_notified, t_wait, t_wts>>
pipeVars == <<wchan, batch, permit, job, written, store, result>>
vars == <<coreVars, inner, send_write_req, txnVars, rVars, tVars, pipeVars>>

\* Nobody waits on the read mark.
read_mark == INSTANCE WaterMark WITH
  Client <- Txn, InitUntil <- MaxVersion,
  done_until <- r_until, last_index <- r_last, chan <- r_chan, heap <- r_heap,
  pending <- r_pending, phase <- r_phase, mts <- r_mts,
  waiters <- {}, notified <- {},
  wait <- [t \in Txn |-> "none"], wts <- [t \in Txn |-> MaxVersion]

txn_mark == INSTANCE WaterMark WITH
  Client <- Txn, InitUntil <- MaxVersion,
  done_until <- t_until, last_index <- t_last, chan <- t_chan, heap <- t_heap,
  pending <- t_pending, phase <- t_phase, mts <- t_mts,
  waiters <- t_waiters, notified <- t_notified, wait <- t_wait, wts <- t_wts

\* TxnConfig::default.  With managed_txns, get_latest_read_ts, update and
\* get_update_txn panic, so no transaction runs with it.
managed_txns == FALSE
detect_conflicts == TRUE

Version == [key : Key, ts : Ts]
CommittedTxn == [ts : Ts, conflict_keys : SUBSET Key]

TypeOK ==
  /\ next_txn_ts \in 1 .. MaxTs + 1
  /\ last_cleanup_ts \in Ts
  /\ committed_txns \subseteq CommittedTxn
  /\ inner \in Txn \cup {None}
  /\ send_write_req \in Txn \cup {None}
  /\ pc \in [Txn -> {"start", "begin_read", "wait_mark", "open", "commit_lock",
                     "done_read", "alloc", "begin_commit", "send",
                     "await_result", "committed", "conflict", "discarded"}]
  /\ read_ts \in [Txn -> Ts]
  /\ commit_ts \in [Txn -> Ts]
  /\ reads \in [Txn -> SUBSET Key]
  /\ writes \in [Txn -> SUBSET Key]
  /\ result \in [Txn -> {"none", "ok", "err"}]
  /\ wchan \in Seq(Txn) /\ Len(wchan) <= WriteCap
  /\ batch \in Seq(Txn) /\ Len(batch) <= BatchCap
  /\ job \in Seq(Txn) /\ written \in 0 .. Len(job)
  /\ permit \in BOOLEAN
  /\ store \subseteq Version
  /\ read_mark!TypeOK
  /\ txn_mark!TypeOK

\* Oracle::new and the tasks DB::open spawns.
Init ==
  /\ next_txn_ts = MaxVersion + 1
  /\ last_cleanup_ts = 0
  /\ committed_txns = {}
  /\ inner = None
  /\ send_write_req = None
  /\ pc = [t \in Txn |-> "start"]
  /\ read_ts = [t \in Txn |-> 0]
  /\ commit_ts = [t \in Txn |-> 0]
  /\ reads = [t \in Txn |-> {}]
  /\ writes = [t \in Txn |-> {}]
  /\ result = [t \in Txn |-> "none"]
  /\ wchan = <<>> /\ batch = <<>> /\ job = <<>>
  /\ permit = TRUE
  /\ written = 0
  /\ store = IF MaxVersion = 0 THEN {} ELSE [key : Key, ts : {MaxVersion}]
  /\ read_mark!Init
  /\ txn_mark!Init
-----------------------------------------------------------------------------
\* Starting a transaction: Txn::new, get_latest_read_ts.

\* Variant: the snapshot is what has been committed so far.
GetReadTsOfMark(t) ==
  /\ pc[t] = "start"
  /\ inner = None
  /\ inner' = t
  /\ read_ts' = [read_ts EXCEPT ![t] = t_until]
  /\ pc' = [pc EXCEPT ![t] = "begin_read"]
  /\ UNCHANGED <<coreVars, send_write_req, commit_ts, reads, writes, rVars,
                 tVars, pipeVars>>

\* Variant: the lock is released before the begin is sent.
GetReadTsUnlocked(t) ==
  /\ pc[t] = "start"
  /\ inner = None
  /\ read_ts' = [read_ts EXCEPT ![t] = next_txn_ts - 1]
  /\ pc' = [pc EXCEPT ![t] = "begin_read"]
  /\ UNCHANGED <<coreVars, inner, send_write_req, commit_ts, reads, writes, rVars,
                 tVars, pipeVars>>

\* Takes the lock and reads next_txn_ts - 1.
GetReadTs(t) ==
  /\ pc[t] = "start"
  /\ inner = None
  /\ inner' = t
  /\ read_ts' = [read_ts EXCEPT ![t] = next_txn_ts - 1]
  /\ pc' = [pc EXCEPT ![t] = "begin_read"]
  /\ UNCHANGED <<coreVars, send_write_req, commit_ts, reads, writes, rVars,
                 tVars, pipeVars>>

\* Variant: the read mark is told the next timestamp.
BeginReadLate(t) ==
  /\ pc[t] = "begin_read"
  /\ read_mark!Begin(t, next_txn_ts)
  /\ inner' = None
  /\ pc' = [pc EXCEPT ![t] = "wait_mark"]
  /\ UNCHANGED <<coreVars, send_write_req, read_ts, commit_ts, reads, writes,
                 tVars, pipeVars>>

\* read_mark.begin(read_ts), still under the lock.
BeginRead(t) ==
  /\ pc[t] = "begin_read"
  /\ read_mark!Begin(t, read_ts[t])
  /\ inner' = None
  /\ pc' = [pc EXCEPT ![t] = "wait_mark"]
  /\ UNCHANGED <<coreVars, send_write_req, read_ts, commit_ts, reads, writes,
                 tVars, pipeVars>>

\* Variant: the newest commit is not waited for.
WaitForEarlierCommits(t) ==
  /\ pc[t] = "wait_mark"
  /\ txn_mark!WaitForMark(t, read_ts[t] - 1)
  /\ pc' = [pc EXCEPT ![t] = "open"]
  /\ UNCHANGED <<coreVars, inner, send_write_req, read_ts, commit_ts, reads,
                 writes, rVars, pipeVars>>

\* txn_mark.wait_for_mark(read_ts); the transaction is usable once it returns.
WaitForCommits(t) ==
  /\ pc[t] = "wait_mark"
  /\ txn_mark!WaitForMark(t, read_ts[t])
  /\ pc' = [pc EXCEPT ![t] = "open"]
  /\ UNCHANGED <<coreVars, inner, send_write_req, read_ts, commit_ts, reads,
                 writes, rVars, pipeVars>>

SendWaiter(t) ==
  /\ txn_mark!SendWaiter(t)
  /\ UNCHANGED <<coreVars, inner, send_write_req, txnVars, rVars, pipeVars>>

Notified(t) ==
  /\ txn_mark!Notified(t)
  /\ UNCHANGED <<coreVars, inner, send_write_req, txnVars, rVars, pipeVars>>

\* The caller holds the Txn and has neither committed nor discarded it.
Active(t) == pc[t] = "open" /\ t_wait[t] = "returned"

-----------------------------------------------------------------------------
\* Using a transaction.

\* Txn::get: a key the transaction wrote itself comes from pending_writes and
\* is not recorded as read.
Get(t, k) ==
  /\ Active(t)
  /\ k \notin writes[t]
  /\ reads' = [reads EXCEPT ![t] = @ \cup {k}]
  /\ UNCHANGED <<coreVars, inner, send_write_req, pc, read_ts, commit_ts,
                 writes, rVars, tVars, pipeVars>>

\* Txn::set and Txn::delete: modify.
Modify(t, k) ==
  /\ Active(t)
  /\ writes' = [writes EXCEPT ![t] = @ \cup {k}]
  /\ UNCHANGED <<coreVars, inner, send_write_req, pc, read_ts, commit_ts,
                 reads, rVars, tVars, pipeVars>>

\* Txn::discard of a transaction that was not committed: done_read.
Discard(t) ==
  /\ Active(t) \/ pc[t] = "conflict"
  /\ read_mark!Done(t)
  /\ pc' = [pc EXCEPT ![t] = "discarded"]
  /\ UNCHANGED <<coreVars, inner, send_write_req, read_ts, commit_ts, reads,
                 writes, tVars, pipeVars>>

-----------------------------------------------------------------------------
\* Txn::commit: commit_and_send, get_latest_commit_ts.

\* Variant: commits are not serialised.
CommitUnlocked(t) ==
  /\ Active(t)
  /\ writes[t] # {}
  /\ send_write_req' = t
  /\ pc' = [pc EXCEPT ![t] = "commit_lock"]
  /\ UNCHANGED <<coreVars, inner, read_ts, commit_ts, reads, writes, rVars,
                 tVars, pipeVars>>

\* Nothing to do without writes; otherwise take send_write_req.
Commit(t) ==
  /\ Active(t)
  /\ writes[t] # {}
  /\ send_write_req = None
  /\ send_write_req' = t
  /\ pc' = [pc EXCEPT ![t] = "commit_lock"]
  /\ UNCHANGED <<coreVars, inner, read_ts, commit_ts, reads, writes, rVars,
                 tVars, pipeVars>>

HasConflict(t) ==
  \E c \in committed_txns : c.ts > read_ts[t] /\ reads[t] \cap c.conflict_keys # {}

\* get_latest_commit_ts takes the lock and checks the reads against the
\* transactions that committed since; on a conflict it returns.
CheckConflict(t) ==
  /\ pc[t] = "commit_lock"
  /\ inner = None
  /\ IF HasConflict(t)
       THEN /\ pc' = [pc EXCEPT ![t] = "conflict"]
            /\ send_write_req' = None
            /\ UNCHANGED inner
       ELSE /\ pc' = [pc EXCEPT ![t] = "done_read"]
            /\ inner' = t
            /\ UNCHANGED send_write_req
  /\ UNCHANGED <<coreVars, read_ts, commit_ts, reads, writes, rVars, tVars,
                 pipeVars>>

\* done_read(txn)
DoneRead(t) ==
  /\ pc[t] = "done_read"
  /\ read_mark!Done(t)
  /\ pc' = [pc EXCEPT ![t] = "alloc"]
  /\ UNCHANGED <<coreVars, inner, send_write_req, read_ts, commit_ts, reads,
                 writes, tVars, pipeVars>>

\* Variant: cleans up to the newest snapshot, not to the oldest in use.
CleanupToNewest ==
  /\ last_cleanup_ts' = next_txn_ts - 1
  /\ committed_txns' = {c \in committed_txns : c.ts > next_txn_ts - 1}

\* cleanup_committed_txns: committed_txns is filtered when the mark has moved.
CleanupCommittedTxns ==
  /\ last_cleanup_ts' = IF detect_conflicts THEN r_until ELSE last_cleanup_ts
  /\ committed_txns' = IF detect_conflicts /\ r_until # last_cleanup_ts
                         THEN {c \in committed_txns : c.ts > r_until}
                         ELSE committed_txns

\* cleanup, then next_txn_ts is taken and incremented.
AllocCommitTs(t) ==
  /\ pc[t] = "alloc"
  /\ next_txn_ts <= MaxTs
  /\ CleanupCommittedTxns
  /\ commit_ts' = [commit_ts EXCEPT ![t] = next_txn_ts]
  /\ next_txn_ts' = next_txn_ts + 1
  /\ pc' = [pc EXCEPT ![t] = "begin_commit"]
  /\ UNCHANGED <<inner, send_write_req, read_ts, reads, writes, rVars, tVars,
                 pipeVars>>

\* txn_mark.begin(commit_ts); the commit is recorded for later conflict checks
\* only with managed_txns; the lock is released.
BeginCommit(t) ==
  /\ pc[t] = "begin_commit"
  /\ txn_mark!Begin(t, commit_ts[t])
  /\ committed_txns' =
       IF managed_txns
         THEN committed_txns \cup {[ts |-> commit_ts[t], conflict_keys |-> writes[t]]}
         ELSE committed_txns
  /\ inner' = None
  /\ pc' = [pc EXCEPT ![t] = "send"]
  /\ UNCHANGED <<next_txn_ts, last_cleanup_ts, send_write_req, read_ts,
                 commit_ts, reads, writes, rVars, pipeVars>>

\* send_entires_to_write_channel, then send_write_req is released.  Nothing sets
\* block_writes and do_writes never drops the receiver, so the send succeeds.
SendToWriteChannel(t) ==
  /\ pc[t] = "send"
  /\ Len(wchan) < WriteCap
  /\ wchan' = Append(wchan, t)
  /\ send_write_req' = None
  /\ pc' = [pc EXCEPT ![t] = "await_result"]
  /\ UNCHANGED <<coreVars, inner, read_ts, commit_ts, reads, writes, rVars,
                 tVars, batch, permit, job, written, store, result>>

\* Variant: a failed commit returns before done_commit.
FinishCommitEarly(t) ==
  /\ pc[t] = "await_result"
  /\ result[t] # "none"
  /\ IF result[t] = "ok" THEN txn_mark!Done(t) ELSE UNCHANGED tVars
  /\ pc' = [pc EXCEPT ![t] = "committed"]
  /\ UNCHANGED <<coreVars, inner, send_write_req, read_ts, commit_ts, reads,
                 writes, rVars, pipeVars>>

\* recv.await, then done_commit whatever the result.
FinishCommit(t) ==
  /\ pc[t] = "await_result"
  /\ result[t] # "none"
  /\ txn_mark!Done(t)
  /\ pc' = [pc EXCEPT ![t] = "committed"]
  /\ UNCHANGED <<coreVars, inner, send_write_req, read_ts, commit_ts, reads,
                 writes, rVars, pipeVars>>
-----------------------------------------------------------------------------
\* The tasks.

ReadMarkProcess ==
  /\ read_mark!Process
  /\ UNCHANGED <<coreVars, inner, send_write_req, txnVars, tVars, pipeVars>>

TxnMarkProcess ==
  /\ txn_mark!Process
  /\ UNCHANGED <<coreVars, inner, send_write_req, txnVars, rVars, pipeVars>>

\* do_writes: gather requests while the previous ones are being written.
RecvWrite ==
  /\ wchan # <<>>
  /\ Len(batch) < BatchCap
  /\ batch' = Append(batch, Head(wchan))
  /\ wchan' = Tail(wchan)
  /\ UNCHANGED <<coreVars, inner, send_write_req, txnVars, rVars, tVars, permit,
                 job, written, store, result>>

\* do_writes: the Notify permit admits one write_requests task at a time.
SpawnWrite ==
  /\ batch # <<>>
  /\ permit
  /\ permit' = FALSE
  /\ job' = batch
  /\ written' = 0
  /\ batch' = <<>>
  /\ UNCHANGED <<coreVars, inner, send_write_req, txnVars, rVars, tVars, wchan,
                 store, result>>

Versions(t, keys) == [key : keys, ts : {commit_ts[t]}]

\* write_requests: ensure_boom_for_write and write_to_memtable for one request.
WriteToMemtable ==
  /\ written < Len(job)
  /\ store' = store \cup Versions(job[written + 1], writes[job[written + 1]])
  /\ written' = written + 1
  /\ UNCHANGED <<coreVars, inner, send_write_req, txnVars, rVars, tVars, wchan,
                 batch, permit, job, result>>

\* Variant: a failed job does not give the permit back.
EndJobKeepsPermit(res) ==
  /\ job # <<>>
  /\ result' = [t \in Txn |->
                  IF \E i \in 1 .. Len(job) : job[i] = t THEN res ELSE result[t]]
  /\ permit' = (res = "ok")
  /\ job' = <<>>
  /\ written' = 0
  /\ UNCHANGED <<coreVars, inner, send_write_req, txnVars, rVars, tVars, wchan,
                 batch>>

\* The requests of the job are dropped, which sends their results, and the
\* permit is given back.
EndJob(res) ==
  /\ job # <<>>
  /\ result' = [t \in Txn |->
                  IF \E i \in 1 .. Len(job) : job[i] = t THEN res ELSE result[t]]
  /\ permit' = TRUE
  /\ job' = <<>>
  /\ written' = 0
  /\ UNCHANGED <<coreVars, inner, send_write_req, txnVars, rVars, tVars, wchan,
                 batch>>

\* write_requests: everything is written.
FinishJob ==
  /\ written = Len(job)
  /\ EndJob("ok")
  /\ UNCHANGED store

\* write_requests: the value log, ensure_boom_for_write or write_to_memtable
\* fails; the entries pushed before the error stay, and every request of the
\* job, written or not, gets the error.
FailJob ==
  /\ written < Len(job)
  /\ EndJob("err")
  /\ \E keys \in SUBSET writes[job[written + 1]] :
       store' = store \cup Versions(job[written + 1], keys)

\* What a transaction, or a task, does without the caller deciding it.
Step(t) ==
  \/ BeginRead(t) \/ WaitForCommits(t) \/ SendWaiter(t) \/ Notified(t)
  \/ CheckConflict(t) \/ DoneRead(t) \/ AllocCommitTs(t) \/ BeginCommit(t)
  \/ SendToWriteChannel(t) \/ FinishCommit(t)

Next ==
  \/ \E t \in Txn : Step(t)
  \/ \E t \in Txn : GetReadTs(t) \/ Commit(t) \/ Discard(t)
  \/ \E t \in Txn, k \in Key : Get(t, k) \/ Modify(t, k)
  \/ ReadMarkProcess \/ TxnMarkProcess
  \/ RecvWrite \/ SpawnWrite \/ WriteToMemtable \/ FinishJob \/ FailJob

Spec == Init /\ [][Next]_vars

\* The spawned tasks are polled again and again, and a transaction that waits for
\* a lock, for room in a channel or for a result is resumed: its thread blocks no
\* one else.  The caller of a transaction owes nothing: it may neither commit nor
\* discard.  Nor does the running job: it may wait for ever, see JobsEnd.
Fairness ==
  /\ \A t \in Txn : WF_vars(Step(t))
  /\ WF_vars(ReadMarkProcess) /\ WF_vars(TxnMarkProcess)
  /\ WF_vars(RecvWrite) /\ WF_vars(SpawnWrite)

FairSpec == Spec /\ Fairness
-----------------------------------------------------------------------------
\* Properties.

\* The versions a read of transaction t can return.
Visible(t) == {v \in store : v.ts <= read_ts[t]}

\* The snapshot of a transaction never changes while it is in use: no write of
\* another transaction appears in it, whatever is committing, queued or being
\* written when the read timestamp is handed out.
RepeatableRead ==
  [][\A t \in Txn : Active(t) /\ Active(t)' => Visible(t)' = Visible(t)]_vars

\* A transaction started after another one's commit returned reads at or above
\* its commit timestamp, and when it becomes usable it finds all the writes of
\* the successful ones.
FreshSnapshot ==
  [][\A t, u \in Txn : pc[u] = "committed" =>
       /\ pc[t] = "start" /\ pc'[t] # "start" => commit_ts[u] <= read_ts'[t]
       /\ ~Active(t) /\ Active(t)' /\ result[u] = "ok" /\ commit_ts[u] <= read_ts[t]
            => Versions(u, writes[u]) \subseteq Visible(t)]_vars

\* Commits reach the memtable in the order of their timestamps, because
\* send_write_req is held from the allocation of the timestamp to the send.
CommitOrder ==
  [][\A v \in store' \ store : \A w \in store : w.ts <= v.ts]_vars

\* The debug assertions of the oracle: last_cleanup_ts never overtakes the read
\* mark (cleanup_committed_txns), nor a commit timestamp handed out after it
\* (get_latest_commit_ts).
CleanupBehind ==
  /\ last_cleanup_ts <= r_until
  /\ \A t \in Txn : pc[t] = "begin_commit" => last_cleanup_ts <= commit_ts[t]

\* discard_at_or_below, the timestamp compaction may drop old versions at, stays
\* at or below the snapshot of every transaction in use.
DiscardBelowReaders ==
  \A t \in Txn : Active(t) /\ read_ts[t] > 0 => r_until <= read_ts[t]

\* The oracle uses both marks as module WaterMark assumes of its clients: it
\* begins in timestamp order and never waits for a commit that has not begun,
\* which is why both begins are sent under its lock.
UsesMarks == read_mark!Spec /\ txn_mark!Spec

\* A transaction commits only if nothing it read was overwritten since: with
\* detect_conflicts, get_latest_commit_ts is to reject it (DBError::Conflict).
NoStaleCommit ==
  \A t, u \in Txn :
    /\ pc[t] = "committed" /\ result[t] = "ok"
    /\ pc[u] = "committed" /\ result[u] = "ok"
    /\ read_ts[t] < commit_ts[u] /\ commit_ts[u] < commit_ts[t]
    => reads[t] \cap writes[u] = {}

\* What the oracle presupposes of the parts that write_requests awaits: every job
\* ends, with success or with an error.  It does not when ensure_boom_for_write
\* waits for ever for room in the flush channel, whose receiver lives as long as
\* the database: after the flush task has panicked, or while level 0 stays full.
\* Nor does it when send_updates waits for a publisher that has stopped.
JobsEnd == []<>(job = <<>>)

\* As long as write jobs end, a transaction that got its read timestamp becomes
\* usable: the commits below it finish and wake it up, full channels and held locks
\* notwithstanding.
TxnStarts == JobsEnd => \A t \in Txn : pc[t] = "begin_read" ~> Active(t)

\* As long as write jobs end, a commit that was started returns, with success or
\* with an error.
CommitReturns ==
  JobsEnd =>
    \A t \in Txn : pc[t] = "commit_lock" ~> pc[t] \in {"committed", "conflict"}
-----------------------------------------------------------------------------
\* The inductive invariant behind the safety properties.

\* Who holds a lock is a matter of where the transactions are.
LocksHeld ==
  \A t \in Txn :
    /\ inner = t <=> pc[t] \in {"begin_read", "done_read", "alloc", "begin_commit"}
    /\ send_write_req = t <=>
         pc[t] \in {"commit_lock", "done_read", "alloc", "begin_commit", "send"}

\* So is what a transaction has told the marks, and at which timestamp.
MarksFollow ==
  \A t \in Txn :
    /\ r_phase[t] = IF pc[t] \in {"start", "begin_read"} THEN "none"
                    ELSE IF pc[t] \in {"wait_mark", "open", "commit_lock",
                                       "done_read", "conflict"} THEN "begun"
                    ELSE "ended"
    /\ t_phase[t] = IF pc[t] \in {"send", "await_result"} THEN "begun"
                    ELSE IF pc[t] = "committed" THEN "ended" ELSE "none"
    /\ r_phase[t] # "none" => r_mts[t] = read_ts[t]
    /\ t_phase[t] # "none" => t_mts[t] = commit_ts[t]
    /\ t_wait[t] = "none" <=> pc[t] \in {"start", "begin_read", "wait_mark"}
    /\ t_wait[t] # "none" => t_wts[t] = read_ts[t]
    /\ pc[t] \in {"start", "begin_read", "wait_mark", "open"} \/ t_wait[t] = "returned"

\* The transactions that have a commit timestamp.
Allocated == {t \in Txn : pc[t] \in {"begin_commit", "send", "await_result", "committed"}}

\* Read timestamps are those of commits that have begun, commit timestamps are
\* handed out once, and the marks have been told everything but the newest one.
Timestamps ==
  /\ MaxVersion < next_txn_ts /\ r_last < next_txn_ts /\ t_last < next_txn_ts
  /\ (\A t \in Txn : pc[t] # "begin_commit") => t_last = next_txn_ts - 1
  /\ \A t \in Txn : read_ts[t] <= t_last
  /\ \A t \in Txn : pc[t] = "begin_read" => read_ts[t] = next_txn_ts - 1
  /\ \A t \in Allocated : MaxVersion < commit_ts[t] /\ commit_ts[t] < next_txn_ts
  /\ \A t \in Txn : pc[t] \in {"begin_commit", "send"} => commit_ts[t] = next_txn_ts - 1
  /\ \A t, u \in Allocated : t # u => commit_ts[t] # commit_ts[u]

\* The requests on their way, in the order of their timestamps.
Waiting(s) == \A i \in 1 .. Len(s) : pc[s[i]] = "await_result" /\ result[s[i]] = "none"
Increasing(s) == \A i, j \in 1 .. Len(s) : i < j => commit_ts[s[i]] < commit_ts[s[j]]
Before(r, s) ==
  \A i \in 1 .. Len(r), j \in 1 .. Len(s) : commit_ts[r[i]] < commit_ts[s[j]]

Pipeline ==
  /\ Waiting(job) /\ Waiting(batch) /\ Waiting(wchan)
  /\ Increasing(job) /\ Increasing(batch) /\ Increasing(wchan)
  /\ Before(job, batch) /\ Before(job, wchan) /\ Before(batch, wchan)
  /\ permit => job = <<>>
  /\ \A t \in Txn : result[t] # "none" => pc[t] \in {"await_result", "committed"}

\* What is in the memtable is older than all that is still to be written.
Newer(s, from) == \A v \in store : \A i \in from .. Len(s) : v.ts < commit_ts[s[i]]

Older ==
  /\ \A v \in store : v.ts < next_txn_ts
  /\ \A v \in store, t \in Txn : pc[t] \in {"begin_commit", "send"} => v.ts < commit_ts[t]
  /\ Newer(job, written + 1) /\ Newer(batch, 1) /\ Newer(wchan, 1)

\* It has all the entries of the requests written so far and of the commits that
\* succeeded.
Complete ==
  /\ \A i \in 1 .. written : Versions(job[i], writes[job[i]]) \subseteq store
  /\ \A t \in Txn : result[t] = "ok" => Versions(t, writes[t]) \subseteq store

\* Where the transactions are decides who holds the locks and what the marks have
\* been told; timestamps are unique and reach the memtable in their order.
OInv ==
  /\ TypeOK /\ LocksHeld /\ MarksFollow /\ Timestamps /\ Pipeline /\ Older /\ Complete
  /\ CleanupBehind
=============================================================================
