-------------------------- MODULE TxnOracleProofs --------------------------
(***************************************************************************)
(* One step of the oracle: it uses its water marks as they require and, as *)
(* long as they keep their promises, keeps the types, the locks, the order *)
(* of the timestamps and the write pipeline as the invariant says; then    *)
(* what the memtable holds at any moment of the pipeline, the cleanup of   *)
(* committed_txns, and what a transaction's snapshot then is.  Module      *)
(* SnapshotProofs puts this together with the proofs of the marks.         *)
(***************************************************************************)
EXTENDS TxnOracle, TLAPS

\* What the oracle relies on: done_until is behind the latest begin and behind
\* every transaction that is not done, and whoever waited for it has reached it.
MarksPromise ==
  /\ read_mark!TypeOK /\ txn_mark!TypeOK
  /\ r_until <= r_last /\ t_until <= t_last
  /\ read_mark!OpenNotPassed /\ txn_mark!OpenNotPassed
  /\ txn_mark!WaitReturnSound

\* The types of what the proofs compute with.
LEMMA Types ==
  ASSUME TypeOK
  PROVE  /\ MaxTs \in Nat /\ MaxVersion \in Nat
         /\ next_txn_ts \in Nat /\ next_txn_ts >= 1 /\ next_txn_ts <= MaxTs + 1
         /\ last_cleanup_ts \in Nat
         /\ read_ts \in [Txn -> Nat] /\ commit_ts \in [Txn -> Nat]
         /\ \A s \in Ts : s \in Nat
         /\ \A v \in store : v.ts \in Nat
BY OracleAssumption DEF TypeOK, Ts, Version

\* The types of the marks.
LEMMA MarkTypes ==
  ASSUME TypeOK
  PROVE  /\ r_until \in Nat /\ r_last \in Nat /\ t_until \in Nat /\ t_last \in Nat
         /\ DOMAIN r_phase = Txn /\ DOMAIN r_mts = Txn
         /\ DOMAIN t_phase = Txn /\ DOMAIN t_mts = Txn
         /\ DOMAIN t_wait = Txn /\ DOMAIN t_wts = Txn
BY OracleAssumption DEF TypeOK, Ts, read_mark!TypeOK, txn_mark!TypeOK

-----------------------------------------------------------------------------
\* How the oracle uses its marks.

\* Every step of the oracle is a step that the read mark and the txn mark allow
\* their clients: begin is called in timestamp order, because the timestamp is
\* taken and begin is called under one lock, and wait_for_mark only for a
\* timestamp whose commit has begun.
LEMMA NextUsesMarks ==
  ASSUME OInv, [Next]_vars
  PROVE  /\ [read_mark!Next]_(read_mark!vars)
         /\ [txn_mark!Next]_(txn_mark!vars)
<1> DEFINE ReadStep == [read_mark!Next]_(read_mark!vars)
           TxnStep == [txn_mark!Next]_(txn_mark!vars)
<1>1. UNCHANGED rVars => ReadStep
  BY Zenon DEF rVars, read_mark!vars, read_mark!procVars, read_mark!clientVars,
         read_mark!waitVars
<1>2. UNCHANGED tVars => TxnStep
  BY Zenon DEF tVars, txn_mark!vars, txn_mark!procVars, txn_mark!clientVars,
         txn_mark!waitVars
<1>3. ASSUME NEW t \in Txn, BeginRead(t) PROVE ReadStep /\ TxnStep
  <2>1. read_ts[t] \in Ts /\ r_last <= read_ts[t]
    BY <1>3, Types, MarkTypes DEF OInv, TypeOK, Timestamps, BeginRead
  <2>2. read_mark!Next
    BY <1>3, <2>1, Zenon DEF BeginRead, read_mark!Next
  <2> QED BY <1>2, <1>3, <2>2, Zenon DEF BeginRead
<1>4. ASSUME NEW t \in Txn, WaitForCommits(t) PROVE ReadStep /\ TxnStep
  <2>1. read_ts[t] \in Ts /\ read_ts[t] <= t_last
    BY Zenon DEF OInv, TypeOK, Timestamps
  <2>2. txn_mark!Next
    BY <1>4, <2>1, Zenon DEF WaitForCommits, txn_mark!Next
  <2> QED BY <1>1, <1>4, <2>2, Zenon DEF WaitForCommits
<1>5. ASSUME NEW t \in Txn, SendWaiter(t) \/ Notified(t) PROVE ReadStep /\ TxnStep
  BY <1>1, <1>5, Zenon DEF SendWaiter, Notified, txn_mark!Next
<1>6. ASSUME NEW t \in Txn, DoneRead(t) \/ Discard(t) PROVE ReadStep /\ TxnStep
  BY <1>2, <1>6, Zenon DEF DoneRead, Discard, read_mark!Next
<1>7. ASSUME NEW t \in Txn, BeginCommit(t) PROVE ReadStep /\ TxnStep
  <2>1. commit_ts[t] \in Ts /\ t_last <= commit_ts[t]
    BY <1>7, Types, MarkTypes DEF OInv, TypeOK, Timestamps, BeginCommit
  <2>2. txn_mark!Next
    BY <1>7, <2>1, Zenon DEF BeginCommit, txn_mark!Next
  <2> QED BY <1>1, <1>7, <2>2, Zenon DEF BeginCommit
<1>8. ASSUME NEW t \in Txn, FinishCommit(t) PROVE ReadStep /\ TxnStep
  BY <1>1, <1>8, Zenon DEF FinishCommit, txn_mark!Next
<1>9. ASSUME NEW t \in Txn,
             GetReadTs(t) \/ Commit(t) \/ CheckConflict(t) \/ AllocCommitTs(t)
               \/ SendToWriteChannel(t)
      PROVE  ReadStep /\ TxnStep
  BY <1>1, <1>2, <1>9
   , Zenon DEF GetReadTs, Commit, CheckConflict, AllocCommitTs, SendToWriteChannel
<1>10. ASSUME NEW t \in Txn, NEW k \in Key, Get(t, k) \/ Modify(t, k)
       PROVE  ReadStep /\ TxnStep
  BY <1>1, <1>2, <1>10, Zenon DEF Get, Modify
<1>11. CASE ReadMarkProcess
  BY <1>2, <1>11, Zenon DEF ReadMarkProcess, read_mark!Next
<1>12. CASE TxnMarkProcess
  BY <1>1, <1>12, Zenon DEF TxnMarkProcess, txn_mark!Next
<1>13. CASE RecvWrite \/ SpawnWrite \/ WriteToMemtable \/ FinishJob \/ FailJob
  BY <1>1, <1>2, <1>13
   , Zenon DEF RecvWrite, SpawnWrite, WriteToMemtable, FinishJob, FailJob, EndJob
<1>14. CASE UNCHANGED vars
  BY <1>1, <1>2, <1>14, Zenon DEF vars
<1>15. ReadStep /\ TxnStep
  BY <1>3, <1>4, <1>5, <1>6, <1>7, <1>8, <1>9, <1>10, <1>11, <1>12, <1>13, <1>14,
     SMTT(30) DEF Next, Step
<1> QED BY <1>15, Zenon DEF ReadStep, TxnStep
-----------------------------------------------------------------------------
\* The state of the oracle keeps its types.

LEMMA NextType ==
  ASSUME OInv, MarksPromise', [Next]_vars
  PROVE  TypeOK'
<1> USE OracleAssumption
<1>0. TypeOK /\ read_mark!TypeOK' /\ txn_mark!TypeOK'
  BY Zenon DEF OInv, MarksPromise
<1>1. ASSUME NEW t \in Txn, GetReadTs(t) PROVE TypeOK'
  <2>1. next_txn_ts - 1 \in Ts
    BY <1>0 DEF TypeOK, Ts
  <2> QED BY <1>0, <1>1, <2>1, Zenon DEF GetReadTs, TypeOK, coreVars, pipeVars
<1>2. ASSUME NEW t \in Txn, BeginRead(t) PROVE TypeOK'
  BY <1>0, <1>2, Zenon DEF BeginRead, TypeOK, coreVars, pipeVars
<1>3. ASSUME NEW t \in Txn, WaitForCommits(t) PROVE TypeOK'
  BY <1>0, <1>3, Zenon DEF WaitForCommits, TypeOK, coreVars, pipeVars
<1>4. ASSUME NEW t \in Txn, SendWaiter(t) \/ Notified(t) PROVE TypeOK'
  BY <1>0, <1>4, Zenon DEF SendWaiter, Notified, TypeOK, coreVars, txnVars, pipeVars
<1>5. ASSUME NEW t \in Txn, NEW k \in Key, Get(t, k) \/ Modify(t, k) PROVE TypeOK'
  <2>1. reads[t] \cup {k} \in SUBSET Key /\ writes[t] \cup {k} \in SUBSET Key
    BY <1>0, <1>5, Zenon DEF TypeOK
  <2>2. reads' \in [Txn -> SUBSET Key]
    BY <1>0, <1>5, <2>1, Zenon DEF Get, Modify, TypeOK
  <2>3. writes' \in [Txn -> SUBSET Key]
    BY <1>0, <1>5, <2>1, Zenon DEF Get, Modify, TypeOK
  <2> QED BY <1>0, <1>5, <2>2, <2>3, Zenon DEF Get, Modify, TypeOK, coreVars, pipeVars
<1>6. ASSUME NEW t \in Txn, Discard(t) \/ DoneRead(t) PROVE TypeOK'
  BY <1>0, <1>6, Zenon DEF Discard, DoneRead, TypeOK, coreVars, pipeVars
<1>7. ASSUME NEW t \in Txn, Commit(t) PROVE TypeOK'
  BY <1>0, <1>7, Zenon DEF Commit, TypeOK, coreVars, pipeVars
<1>8. ASSUME NEW t \in Txn, CheckConflict(t) PROVE TypeOK'
  BY <1>0, <1>8, Zenon DEF CheckConflict, TypeOK, coreVars, pipeVars
<1>9. ASSUME NEW t \in Txn, AllocCommitTs(t) PROVE TypeOK'
  <2>1. next_txn_ts \in Ts /\ next_txn_ts' \in 1 .. MaxTs + 1
    BY <1>0, <1>9 DEF AllocCommitTs, TypeOK, Ts
  <2>2. r_until \in Ts
    BY <1>0, Zenon DEF TypeOK, read_mark!TypeOK
  <2>3. last_cleanup_ts' \in Ts /\ committed_txns' \subseteq CommittedTxn
    BY <1>0, <1>9, <2>2
     , Zenon DEF AllocCommitTs, CleanupCommittedTxns, TypeOK, detect_conflicts
  <2> QED BY <1>0, <1>9, <2>1, <2>3, Zenon DEF AllocCommitTs, TypeOK, pipeVars
<1>10. ASSUME NEW t \in Txn, BeginCommit(t) PROVE TypeOK'
  <2>1. committed_txns' = committed_txns
    BY <1>10, Zenon DEF BeginCommit, managed_txns
  <2> QED BY <1>0, <1>10, <2>1, Zenon DEF BeginCommit, TypeOK, pipeVars
<1>11. ASSUME NEW t \in Txn, SendToWriteChannel(t) PROVE TypeOK'
  <2>1. wchan' \in Seq(Txn) /\ Len(wchan') <= WriteCap
    BY <1>0, <1>11 DEF SendToWriteChannel, TypeOK
  <2> QED BY <1>0, <1>11, <2>1, Zenon DEF SendToWriteChannel, TypeOK, coreVars
<1>12. ASSUME NEW t \in Txn, FinishCommit(t) PROVE TypeOK'
  BY <1>0, <1>12, Zenon DEF FinishCommit, TypeOK, coreVars, pipeVars
<1>13. CASE ReadMarkProcess \/ TxnMarkProcess
  BY <1>0, <1>13
   , Zenon DEF ReadMarkProcess, TxnMarkProcess, TypeOK, coreVars, txnVars, pipeVars
<1>14. CASE RecvWrite
  <2>1. /\ wchan' \in Seq(Txn) /\ Len(wchan') <= WriteCap
        /\ batch' \in Seq(Txn) /\ Len(batch') <= BatchCap
    BY <1>0, <1>14 DEF RecvWrite, TypeOK
  <2> QED BY <1>0, <1>14, <2>1, Zenon DEF RecvWrite, TypeOK, coreVars, txnVars
<1>15. CASE SpawnWrite
  <2>1. batch' = <<>> /\ permit' \in BOOLEAN
    BY <1>15, Zenon DEF SpawnWrite
  <2>2. job' \in Seq(Txn) /\ written' \in 0 .. Len(job')
    BY <1>0, <1>15 DEF SpawnWrite, TypeOK
  <2> QED BY <1>0, <1>15, <2>1, <2>2 DEF SpawnWrite, TypeOK, coreVars, txnVars
<1>16. ASSUME NEW t \in Txn, NEW keys \in SUBSET writes[t]
       PROVE  Versions(t, keys) \subseteq Version
  BY <1>0, <1>16, Zenon DEF Versions, Version, TypeOK
<1>17. CASE WriteToMemtable
  <2>0. job \in Seq(Txn) /\ written \in 0 .. Len(job) /\ written < Len(job)
    BY <1>0, <1>17, Zenon DEF WriteToMemtable, TypeOK
  <2>1. job[written + 1] \in Txn
    BY <2>0
  <2>3. written' \in 0 .. Len(job)
    BY <1>17, <2>0 DEF WriteToMemtable
  <2>2. store' \subseteq Version
    BY <1>0, <1>16, <1>17, <2>1, Zenon DEF WriteToMemtable, TypeOK
  <2> QED BY <1>0, <1>17, <2>2, <2>3, Zenon DEF WriteToMemtable, TypeOK, coreVars, txnVars
<1>18. ASSUME NEW res \in {"ok", "err"}, EndJob(res), store' \subseteq Version
       PROVE  TypeOK'
  <2>1. /\ job' \in Seq(Txn) /\ written' \in 0 .. Len(job') /\ permit' \in BOOLEAN
        /\ result' \in [Txn -> {"none", "ok", "err"}]
    BY <1>0, <1>18 DEF EndJob, TypeOK
  <2> QED BY <1>0, <1>18, <2>1, Zenon DEF EndJob, TypeOK, coreVars, txnVars
<1>19. CASE FinishJob
  BY <1>0, <1>18, <1>19, Zenon DEF FinishJob, TypeOK
<1>20. CASE FailJob
  <2>0. job \in Seq(Txn) /\ written \in 0 .. Len(job) /\ written < Len(job)
    BY <1>0, <1>20, Zenon DEF FailJob, TypeOK
  <2>1. job[written + 1] \in Txn
    BY <2>0
  <2>2. store' \subseteq Version
    BY <1>0, <1>16, <1>20, <2>1, Zenon DEF FailJob, TypeOK
  <2> QED BY <1>18, <1>20, <2>2, Zenon DEF FailJob
<1>21. CASE UNCHANGED vars
  BY <1>0, <1>21, Zenon DEF TypeOK, vars, coreVars, txnVars, pipeVars
<1> QED
  BY <1>1, <1>2, <1>3, <1>4, <1>5, <1>6, <1>7, <1>8, <1>9, <1>10, <1>11, <1>12,
     <1>13, <1>14, <1>15, <1>17, <1>19, <1>20, <1>21, SMTT(30) DEF Next, Step
-----------------------------------------------------------------------------
\* The locks and the positions.

\* What the tasks do, and what a transaction does between two awaits that hold no
\* lock, moves no transaction.
LEMMA NotMoved ==
  ASSUME \/ \E t \in Txn : SendWaiter(t) \/ Notified(t)
         \/ \E t \in Txn, k \in Key : Get(t, k) \/ Modify(t, k)
         \/ ReadMarkProcess \/ TxnMarkProcess
         \/ RecvWrite \/ SpawnWrite \/ WriteToMemtable \/ FinishJob \/ FailJob
         \/ UNCHANGED vars
  PROVE  UNCHANGED <<next_txn_ts, last_cleanup_ts, inner, send_write_req, pc, read_ts,
                     commit_ts>>
<1>1. ASSUME NEW t \in Txn, SendWaiter(t) \/ Notified(t)
      PROVE  UNCHANGED <<coreVars, inner, send_write_req, txnVars>>
  BY <1>1, Zenon DEF SendWaiter, Notified
<1>2. ASSUME NEW t \in Txn, NEW k \in Key, Get(t, k) \/ Modify(t, k)
      PROVE  UNCHANGED <<coreVars, inner, send_write_req, pc, read_ts, commit_ts>>
  BY <1>2, Zenon DEF Get, Modify
<1>3. CASE ReadMarkProcess \/ TxnMarkProcess
  BY <1>3, Zenon DEF ReadMarkProcess, TxnMarkProcess, coreVars, txnVars
<1>4. CASE RecvWrite \/ SpawnWrite \/ WriteToMemtable \/ FinishJob \/ FailJob
  BY <1>4, Zenon DEF RecvWrite, SpawnWrite, WriteToMemtable, FinishJob, FailJob, EndJob,
              coreVars, txnVars
<1>5. CASE UNCHANGED vars
  BY <1>5, Zenon DEF vars, coreVars, txnVars
<1> QED BY <1>1, <1>2, <1>3, <1>4, <1>5, Zenon DEF coreVars, txnVars

\* parking_lot's mutexes: one holder each, at the positions between the
\* acquisition and the release.
LEMMA NextLocks ==
  ASSUME OInv, [Next]_vars
  PROVE  LocksHeld'
<1> USE OracleAssumption
<1>0. TypeOK /\ LocksHeld
  BY Zenon DEF OInv
<1>1. CASE UNCHANGED <<inner, send_write_req, pc>>
  BY <1>0, <1>1, Zenon DEF LocksHeld
<1>2. ASSUME NEW t \in Txn, GetReadTs(t) PROVE LocksHeld'
  BY <1>0, <1>2, Zenon DEF GetReadTs, TypeOK, LocksHeld
<1>3. ASSUME NEW t \in Txn, BeginRead(t) PROVE LocksHeld'
  BY <1>0, <1>3, Zenon DEF BeginRead, TypeOK, LocksHeld
<1>4. ASSUME NEW t \in Txn, WaitForCommits(t) PROVE LocksHeld'
  BY <1>0, <1>4, Zenon DEF WaitForCommits, TypeOK, LocksHeld
<1>5. ASSUME NEW t \in Txn, Discard(t) PROVE LocksHeld'
  BY <1>0, <1>5, Zenon DEF Discard, Active, TypeOK, LocksHeld
<1>6. ASSUME NEW t \in Txn, Commit(t) PROVE LocksHeld'
  BY <1>0, <1>6, Zenon DEF Commit, Active, TypeOK, LocksHeld
<1>7. ASSUME NEW t \in Txn, CheckConflict(t) PROVE LocksHeld'
  <2>1. CASE HasConflict(t)
    BY <1>0, <1>7, <2>1, Zenon DEF CheckConflict, TypeOK, LocksHeld
  <2>2. CASE ~HasConflict(t)
    BY <1>0, <1>7, <2>2 DEF CheckConflict, TypeOK, LocksHeld
  <2> QED BY <2>1, <2>2, Zenon
<1>8. ASSUME NEW t \in Txn, DoneRead(t) PROVE LocksHeld'
  BY <1>0, <1>8, Zenon DEF DoneRead, TypeOK, LocksHeld
<1>9. ASSUME NEW t \in Txn, AllocCommitTs(t) PROVE LocksHeld'
  BY <1>0, <1>9, Zenon DEF AllocCommitTs, TypeOK, LocksHeld
<1>10. ASSUME NEW t \in Txn, BeginCommit(t) PROVE LocksHeld'
  BY <1>0, <1>10, Zenon DEF BeginCommit, TypeOK, LocksHeld
<1>11. ASSUME NEW t \in Txn, SendToWriteChannel(t) PROVE LocksHeld'
  BY <1>0, <1>11, Zenon DEF SendToWriteChannel, TypeOK, LocksHeld
<1>12. ASSUME NEW t \in Txn, FinishCommit(t) PROVE LocksHeld'
  BY <1>0, <1>12, Zenon DEF FinishCommit, TypeOK, LocksHeld
<1> QED
  BY <1>1, <1>2, <1>3, <1>4, <1>5, <1>6, <1>7, <1>8, <1>9, <1>10, <1>11, <1>12,
     NotMoved, SMTT(30) DEF Next, Step

\* What the marks have been told follows from the positions: each transaction
\* begins and ends each mark once, at its own timestamps, in the order of its life.
LEMMA NextMarks ==
  ASSUME OInv, [Next]_vars
  PROVE  MarksFollow'
<1>0. TypeOK /\ MarksFollow
  BY Zenon DEF OInv
<1>a. /\ DOMAIN pc = Txn /\ DOMAIN read_ts = Txn /\ DOMAIN commit_ts = Txn
      /\ DOMAIN r_phase = Txn /\ DOMAIN r_mts = Txn /\ DOMAIN t_phase = Txn
      /\ DOMAIN t_mts = Txn /\ DOMAIN t_wait = Txn /\ DOMAIN t_wts = Txn
  BY <1>0, MarkTypes, Zenon DEF TypeOK
<1>1. CASE UNCHANGED <<pc, read_ts, commit_ts, r_phase, r_mts, t_phase, t_mts, t_wait, t_wts>>
  BY <1>0, <1>1, Zenon DEF MarksFollow
<1>2. ASSUME NEW t \in Txn, GetReadTs(t) PROVE MarksFollow'
  BY <1>0, <1>a, <1>2, Zenon DEF GetReadTs, MarksFollow, rVars, tVars
<1>3. ASSUME NEW t \in Txn, BeginRead(t) PROVE MarksFollow'
  BY <1>0, <1>a, <1>3, Zenon DEF BeginRead, read_mark!Begin, MarksFollow, tVars
<1>4. ASSUME NEW t \in Txn, WaitForCommits(t) PROVE MarksFollow'
  BY <1>0, <1>a, <1>4, Zenon DEF WaitForCommits, txn_mark!WaitForMark, txn_mark!clientVars, MarksFollow, rVars
<1>5. ASSUME NEW t \in Txn, SendWaiter(t) PROVE MarksFollow'
  BY <1>0, <1>a, <1>5, Zenon DEF SendWaiter, txn_mark!SendWaiter, txn_mark!clientVars, MarksFollow, txnVars, rVars
<1>6. ASSUME NEW t \in Txn, Notified(t) PROVE MarksFollow'
  BY <1>0, <1>a, <1>6, Zenon DEF Notified, txn_mark!Notified, txn_mark!clientVars, MarksFollow, txnVars, rVars
<1>7. ASSUME NEW t \in Txn, Discard(t) PROVE MarksFollow'
  BY <1>0, <1>a, <1>7, Zenon DEF Discard, Active, read_mark!Done, MarksFollow, tVars
<1>8. ASSUME NEW t \in Txn, Commit(t) PROVE MarksFollow'
  BY <1>0, <1>a, <1>8, Zenon DEF Commit, Active, MarksFollow, rVars, tVars
<1>9. ASSUME NEW t \in Txn, CheckConflict(t) PROVE MarksFollow'
  <2>1. PICK p \in {"conflict", "done_read"} : pc' = [pc EXCEPT ![t] = p]
    BY <1>9, Zenon DEF CheckConflict
  <2>2. pc[t] = "commit_lock" /\ UNCHANGED <<read_ts, commit_ts, rVars, tVars>>
    BY <1>9, Zenon DEF CheckConflict
  <2> QED BY <1>0, <1>a, <2>1, <2>2, Zenon DEF MarksFollow, rVars, tVars
<1>10. ASSUME NEW t \in Txn, DoneRead(t) PROVE MarksFollow'
  BY <1>0, <1>a, <1>10, Zenon DEF DoneRead, read_mark!Done, MarksFollow, tVars
<1>11. ASSUME NEW t \in Txn, AllocCommitTs(t) PROVE MarksFollow'
  BY <1>0, <1>a, <1>11, Zenon DEF AllocCommitTs, MarksFollow, rVars, tVars
<1>12. ASSUME NEW t \in Txn, BeginCommit(t) PROVE MarksFollow'
  BY <1>0, <1>a, <1>12, Zenon DEF BeginCommit, txn_mark!Begin, txn_mark!waitVars, MarksFollow, rVars
<1>13. ASSUME NEW t \in Txn, SendToWriteChannel(t) PROVE MarksFollow'
  BY <1>0, <1>a, <1>13, Zenon DEF SendToWriteChannel, MarksFollow, rVars, tVars
<1>14. ASSUME NEW t \in Txn, FinishCommit(t) PROVE MarksFollow'
  BY <1>0, <1>a, <1>14, Zenon DEF FinishCommit, txn_mark!Done, txn_mark!waitVars, MarksFollow, rVars
<1>15. CASE ReadMarkProcess
  BY <1>1, <1>15, Zenon DEF ReadMarkProcess, read_mark!Process, read_mark!clientVars, txnVars, tVars
<1>16. CASE TxnMarkProcess
  BY <1>1, <1>16, Zenon DEF TxnMarkProcess, txn_mark!Process, txn_mark!clientVars,
                     txn_mark!waitVars, txnVars, rVars
<1>17. CASE RecvWrite \/ SpawnWrite \/ WriteToMemtable \/ FinishJob \/ FailJob
  BY <1>1, <1>17, Zenon DEF RecvWrite, SpawnWrite, WriteToMemtable, FinishJob, FailJob, EndJob,
                     txnVars, rVars, tVars
<1>18. ASSUME NEW t \in Txn, NEW k \in Key, Get(t, k) \/ Modify(t, k) PROVE MarksFollow'
  BY <1>1, <1>18, Zenon DEF Get, Modify, rVars, tVars
<1>19. CASE UNCHANGED vars
  BY <1>1, <1>19, Zenon DEF vars, txnVars, rVars, tVars
<1> QED
  BY <1>2, <1>3, <1>4, <1>5, <1>6, <1>7, <1>8, <1>9, <1>10, <1>11, <1>12, <1>13, <1>14,
     <1>15, <1>16, <1>17, <1>18, <1>19, SMTT(30) DEF Next, Step
-----------------------------------------------------------------------------
\* The timestamps.

\* next_txn_ts is read and incremented under the lock that is also held for both
\* begins, so a timestamp is handed out once, and no read timestamp reaches a
\* commit the txn mark has not been told of.
LEMMA NextTimestamps ==
  ASSUME OInv, [Next]_vars
  PROVE  Timestamps'
<1>0. TypeOK /\ LocksHeld /\ Timestamps
  BY Zenon DEF OInv
<1>a. /\ \A t \in Txn : read_ts[t] \in Nat /\ commit_ts[t] \in Nat
      /\ next_txn_ts \in Nat /\ next_txn_ts >= 1 /\ MaxVersion \in Nat
      /\ r_last \in Nat /\ t_last \in Nat
      /\ DOMAIN pc = Txn /\ DOMAIN read_ts = Txn /\ DOMAIN commit_ts = Txn
  BY <1>0, Types, MarkTypes, Zenon DEF TypeOK
<1>1. CASE UNCHANGED <<next_txn_ts, pc, read_ts, commit_ts, r_last, t_last>>
  BY <1>0, <1>1, Zenon DEF Timestamps, Allocated
<1>2. ASSUME NEW t \in Txn, GetReadTs(t) PROVE Timestamps'
  <2>1. \A u \in Txn : pc[u] # "begin_commit"
    BY <1>0, <1>2, OracleAssumption, Zenon DEF GetReadTs, LocksHeld
  <2>2. t_last = next_txn_ts - 1
    BY <1>0, <2>1, Zenon DEF Timestamps
  <2>3. /\ pc'[t] = "begin_read" /\ pc[t] = "start" /\ read_ts'[t] = next_txn_ts - 1
        /\ \A u \in Txn \ {t} : pc'[u] = pc[u] /\ read_ts'[u] = read_ts[u]
        /\ UNCHANGED <<next_txn_ts, commit_ts, r_last, t_last>>
    BY <1>a, <1>2, Zenon DEF GetReadTs, coreVars, rVars, tVars
  <2>4. Allocated' = Allocated
    BY <2>3, Zenon DEF Allocated
  <2> QED BY <1>0, <1>a, <2>2, <2>3, <2>4 DEF Timestamps
<1>3. ASSUME NEW t \in Txn, BeginRead(t) PROVE Timestamps'
  <2>1. /\ pc'[t] = "wait_mark" /\ pc[t] = "begin_read" /\ r_last' = read_ts[t]
        /\ \A u \in Txn \ {t} : pc'[u] = pc[u]
        /\ UNCHANGED <<next_txn_ts, read_ts, commit_ts, t_last>>
    BY <1>a, <1>3, Zenon DEF BeginRead, read_mark!Begin, coreVars, tVars
  <2>2. Allocated' = Allocated
    BY <2>1, Zenon DEF Allocated
  <2> QED BY <1>0, <1>a, <2>1, <2>2 DEF Timestamps
<1>4. ASSUME NEW t \in Txn, NEW p, pc' = [pc EXCEPT ![t] = p],
             p \notin {"begin_read", "begin_commit", "send"}, pc[t] # "begin_commit",
             t \in Allocated' <=> t \in Allocated,
             UNCHANGED <<next_txn_ts, read_ts, commit_ts, r_last, t_last>>
      PROVE  Timestamps'
  <2>1. pc'[t] = p /\ \A u \in Txn \ {t} : pc'[u] = pc[u]
    BY <1>a, <1>4, Zenon
  <2>2. Allocated' = Allocated
    BY <1>4, <2>1, Zenon DEF Allocated
  <2> QED BY <1>0, <1>4, <2>1, <2>2, Zenon DEF Timestamps
<1>5. ASSUME NEW t \in Txn, WaitForCommits(t) PROVE Timestamps'
  BY <1>a, <1>4, <1>5, Zenon DEF WaitForCommits, txn_mark!WaitForMark, txn_mark!clientVars,
                          coreVars, rVars, Allocated
<1>6. ASSUME NEW t \in Txn, Discard(t) PROVE Timestamps'
  BY <1>a, <1>4, <1>6, Zenon DEF Discard, Active, read_mark!Done, coreVars, tVars, Allocated
<1>7. ASSUME NEW t \in Txn, Commit(t) PROVE Timestamps'
  BY <1>a, <1>4, <1>7, Zenon DEF Commit, Active, coreVars, rVars, tVars, Allocated
<1>8. ASSUME NEW t \in Txn, CheckConflict(t) PROVE Timestamps'
  <2>1. PICK p \in {"conflict", "done_read"} : pc' = [pc EXCEPT ![t] = p]
    BY <1>8, Zenon DEF CheckConflict
  <2>2. /\ pc[t] = "commit_lock"
        /\ UNCHANGED <<next_txn_ts, read_ts, commit_ts, r_last, t_last>>
    BY <1>8, Zenon DEF CheckConflict, coreVars, rVars, tVars
  <2> QED BY <1>a, <1>4, <2>1, <2>2, Zenon DEF Allocated
<1>9. ASSUME NEW t \in Txn, DoneRead(t) PROVE Timestamps'
  BY <1>a, <1>4, <1>9, Zenon DEF DoneRead, read_mark!Done, coreVars, tVars, Allocated
<1>10. ASSUME NEW t \in Txn, AllocCommitTs(t) PROVE Timestamps'
  <2>1. /\ pc'[t] = "begin_commit" /\ pc[t] = "alloc"
        /\ commit_ts'[t] = next_txn_ts /\ next_txn_ts' = next_txn_ts + 1
        /\ \A u \in Txn \ {t} : pc'[u] = pc[u] /\ commit_ts'[u] = commit_ts[u]
        /\ UNCHANGED <<read_ts, r_last, t_last>>
    BY <1>a, <1>10, Zenon DEF AllocCommitTs, rVars, tVars
  <2>2. \A u \in Txn \ {t} : pc[u] \notin {"begin_read", "begin_commit", "send"}
    BY <1>0, <2>1, Zenon DEF LocksHeld
  <2>3. Allocated' = Allocated \cup {t} /\ t \notin Allocated
    BY <2>1, Zenon DEF Allocated
  <2>4. /\ \A u \in Allocated' : MaxVersion < commit_ts'[u] /\ commit_ts'[u] < next_txn_ts'
        /\ \A u \in Allocated : commit_ts'[u] # commit_ts'[t] /\ commit_ts'[u] = commit_ts[u]
    BY <1>0, <1>a, <2>1, <2>3 DEF Timestamps, Allocated
  <2>5. \A u, v \in Allocated' : u # v => commit_ts'[u] # commit_ts'[v]
    BY <1>0, <2>3, <2>4 DEF Timestamps
  <2>6. \A u \in Txn : pc'[u] \in {"begin_commit", "send"} => commit_ts'[u] = next_txn_ts' - 1
    BY <1>a, <2>1, <2>2
  <2> QED BY <1>0, <1>a, <2>1, <2>2, <2>4, <2>5, <2>6 DEF Timestamps
<1>11. ASSUME NEW t \in Txn, BeginCommit(t) PROVE Timestamps'
  <2>1. /\ pc'[t] = "send" /\ pc[t] = "begin_commit" /\ t_last' = commit_ts[t]
        /\ \A u \in Txn \ {t} : pc'[u] = pc[u]
        /\ UNCHANGED <<next_txn_ts, read_ts, commit_ts, r_last>>
    BY <1>a, <1>11, Zenon DEF BeginCommit, txn_mark!Begin, rVars
  <2>2. Allocated' = Allocated
    BY <2>1, Zenon DEF Allocated
  <2>3. commit_ts[t] = next_txn_ts - 1 /\ t_last < next_txn_ts
    BY <1>0, <2>1, Zenon DEF Timestamps
  <2>4. \A u \in Txn : read_ts[u] <= t_last'
    BY <1>0, <1>a, <2>1, <2>3 DEF Timestamps
  <2> QED BY <1>0, <1>a, <2>1, <2>2, <2>3, <2>4 DEF Timestamps
<1>12. ASSUME NEW t \in Txn, SendToWriteChannel(t) PROVE Timestamps'
  BY <1>a, <1>4, <1>12, Zenon DEF SendToWriteChannel, coreVars, rVars, tVars, Allocated
<1>13. ASSUME NEW t \in Txn, FinishCommit(t) PROVE Timestamps'
  BY <1>a, <1>4, <1>13, Zenon DEF FinishCommit, txn_mark!Done, coreVars, rVars, Allocated
<1>14. ASSUME NEW t \in Txn, SendWaiter(t) PROVE Timestamps'
  BY <1>1, <1>14, Zenon DEF SendWaiter, txn_mark!SendWaiter, txn_mark!clientVars, coreVars,
                     txnVars, rVars
<1>15. ASSUME NEW t \in Txn, Notified(t) PROVE Timestamps'
  BY <1>1, <1>15, Zenon DEF Notified, txn_mark!Notified, txn_mark!clientVars, coreVars, txnVars,
                     rVars
<1>16. ASSUME NEW t \in Txn, NEW k \in Key, Get(t, k) \/ Modify(t, k) PROVE Timestamps'
  BY <1>1, <1>16, Zenon DEF Get, Modify, coreVars, rVars, tVars
<1>17. CASE ReadMarkProcess
  BY <1>1, <1>17, Zenon DEF ReadMarkProcess, read_mark!Process, read_mark!clientVars, coreVars,
                     txnVars, tVars
<1>18. CASE TxnMarkProcess
  BY <1>1, <1>18, Zenon DEF TxnMarkProcess, txn_mark!Process, txn_mark!clientVars, coreVars,
                     txnVars, rVars
<1>19. CASE RecvWrite \/ SpawnWrite \/ WriteToMemtable \/ FinishJob \/ FailJob
  BY <1>1, <1>19, Zenon DEF RecvWrite, SpawnWrite, WriteToMemtable, FinishJob, FailJob, EndJob,
                     coreVars, txnVars, rVars, tVars
<1>20. CASE UNCHANGED vars
  BY <1>1, <1>20, Zenon DEF vars, coreVars, txnVars, rVars, tVars
<1> QED
  BY <1>2, <1>3, <1>5, <1>6, <1>7, <1>8, <1>9, <1>10, <1>11, <1>12, <1>13, <1>14,
     <1>15, <1>16, <1>17, <1>18, <1>19, <1>20, SMTT(30) DEF Next, Step
-----------------------------------------------------------------------------
\* The write pipeline.

\* A transaction whose request is not on its way is not in the pipeline.
LEMMA WaitingOther ==
  ASSUME NEW t \in Txn, pc[t] # "await_result" \/ result[t] # "none"
  PROVE  \A s \in Seq(Txn) : Waiting(s) => \A i \in 1 .. Len(s) : s[i] \in Txn \ {t}
BY DEF Waiting

\* A step of a transaction whose request is not on its way leaves the pipeline as
\* it is.
LEMMA PipelineKept ==
  ASSUME TypeOK, Pipeline, NEW t \in Txn,
         pc[t] # "await_result" \/ result[t] # "none",
         result[t] = "none" \/ pc'[t] \in {"await_result", "committed"},
         \A u \in Txn \ {t} : pc'[u] = pc[u] /\ commit_ts'[u] = commit_ts[u],
         UNCHANGED <<wchan, batch, job, permit, result>>
  PROVE  Pipeline'
<1>1. wchan \in Seq(Txn) /\ batch \in Seq(Txn) /\ job \in Seq(Txn)
  BY Zenon DEF TypeOK
<1>2. ASSUME NEW s \in Seq(Txn), Waiting(s), NEW i \in 1 .. Len(s)
      PROVE  s[i] \in Txn \ {t}
  BY <1>2, WaitingOther, Zenon
<1>3. ASSUME NEW s \in Seq(Txn), Waiting(s) PROVE Waiting(s)'
  BY <1>2, <1>3, Zenon DEF Waiting
<1>4. ASSUME NEW s \in Seq(Txn), Waiting(s), Increasing(s) PROVE Increasing(s)'
  BY <1>2, <1>4, Zenon DEF Increasing
<1>5. ASSUME NEW r \in Seq(Txn), NEW s \in Seq(Txn), Waiting(r), Waiting(s),
             Before(r, s)
      PROVE  Before(r, s)'
  BY <1>2, <1>5, Zenon DEF Before
<1> QED BY <1>1, <1>3, <1>4, <1>5, Zenon DEF Pipeline
\* Requests enter the channel in timestamp order, because send_write_req is held
\* from the allocation of the timestamp to the send; the channel, the batch and
\* the one job at a time that the permit allows keep that order.
LEMMA NextPipeline ==
  ASSUME OInv, [Next]_vars
  PROVE  Pipeline'
<1>0. TypeOK /\ LocksHeld /\ Timestamps /\ Pipeline
  BY Zenon DEF OInv
<1>a. /\ wchan \in Seq(Txn) /\ batch \in Seq(Txn) /\ job \in Seq(Txn)
      /\ \A t \in Txn : commit_ts[t] \in Nat
      /\ next_txn_ts \in Nat
      /\ DOMAIN pc = Txn /\ DOMAIN commit_ts = Txn
  BY <1>0, Types, Zenon DEF TypeOK
<1>b. /\ Waiting(job) /\ Waiting(batch) /\ Waiting(wchan)
      /\ Increasing(job) /\ Increasing(batch) /\ Increasing(wchan)
      /\ Before(job, batch) /\ Before(job, wchan) /\ Before(batch, wchan)
  BY <1>0, Zenon DEF Pipeline
<1>1. CASE UNCHANGED <<pc, commit_ts, wchan, batch, job, permit, result>>
  <2>1. Waiting(job)' /\ Waiting(batch)' /\ Waiting(wchan)'
    BY <1>b, <1>1, Zenon DEF Waiting
  <2>2. Increasing(job)' /\ Increasing(batch)' /\ Increasing(wchan)'
    BY <1>b, <1>1, Zenon DEF Increasing
  <2>3. Before(job, batch)' /\ Before(job, wchan)' /\ Before(batch, wchan)'
    BY <1>b, <1>1, Zenon DEF Before
  <2> QED BY <1>0, <1>1, <2>1, <2>2, <2>3, Zenon DEF Pipeline
<1>2. ASSUME NEW t \in Txn, NEW p, pc' = [pc EXCEPT ![t] = p],
             pc[t] \notin {"await_result", "committed"},
             \A u \in Txn \ {t} : commit_ts'[u] = commit_ts[u],
             UNCHANGED <<wchan, batch, job, permit, result>>
      PROVE  Pipeline'
  <2>1. result[t] = "none"
    BY <1>0, <1>2, Zenon DEF Pipeline
  <2>2. \A u \in Txn \ {t} : pc'[u] = pc[u]
    BY <1>a, <1>2, Zenon
  <2> QED BY <1>0, <1>2, <2>1, <2>2, PipelineKept, Zenon
<1>3. ASSUME NEW t \in Txn, GetReadTs(t) \/ Commit(t) PROVE Pipeline'
  BY <1>2, <1>3, Zenon DEF GetReadTs, Commit, Active, pipeVars
<1>4. ASSUME NEW t \in Txn, BeginRead(t) \/ WaitForCommits(t) PROVE Pipeline'
  BY <1>2, <1>4, Zenon DEF BeginRead, WaitForCommits, pipeVars
<1>5. ASSUME NEW t \in Txn, Discard(t) \/ DoneRead(t) PROVE Pipeline'
  BY <1>2, <1>5, Zenon DEF Discard, DoneRead, Active, pipeVars
<1>6. ASSUME NEW t \in Txn, CheckConflict(t) PROVE Pipeline'
  <2>1. PICK p : pc' = [pc EXCEPT ![t] = p]
    BY <1>6, Zenon DEF CheckConflict
  <2>2. pc[t] = "commit_lock" /\ UNCHANGED <<commit_ts, wchan, batch, job, permit, result>>
    BY <1>6, Zenon DEF CheckConflict, pipeVars
  <2> QED BY <1>2, <2>1, <2>2, Zenon
<1>7. ASSUME NEW t \in Txn, AllocCommitTs(t) \/ BeginCommit(t) PROVE Pipeline'
  BY <1>a, <1>2, <1>7, Zenon DEF AllocCommitTs, BeginCommit, pipeVars
<1>8. ASSUME NEW t \in Txn, SendToWriteChannel(t) PROVE Pipeline'
  <2>1. /\ pc[t] = "send" /\ pc' = [pc EXCEPT ![t] = "await_result"]
        /\ wchan' = Append(wchan, t)
        /\ UNCHANGED <<next_txn_ts, commit_ts, batch, job, permit, result>>
    BY <1>8, Zenon DEF SendToWriteChannel, coreVars
  <2>2. result[t] = "none"
    BY <1>0, <2>1, Zenon DEF Pipeline
  <2>3. ASSUME NEW s \in Seq(Txn), Waiting(s), NEW i \in 1 .. Len(s)
        PROVE  s[i] \in Txn \ {t} /\ commit_ts[s[i]] < commit_ts[t]
    <3>1. s[i] \in Txn \ {t} /\ s[i] \in Allocated /\ t \in Allocated
      BY <2>1, <2>3 DEF Waiting, Allocated
    <3> QED BY <1>0, <1>a, <2>1, <3>1 DEF Timestamps
  <2>4. pc'[t] = "await_result" /\ \A u \in Txn \ {t} : pc'[u] = pc[u]
    BY <1>a, <2>1, Zenon
  <2>5. /\ Len(wchan') = Len(wchan) + 1 /\ wchan'[Len(wchan')] = t
        /\ \A i \in 1 .. Len(wchan) : wchan'[i] = wchan[i]
    BY <1>a, <2>1
  <2>6. \A i \in 1 .. Len(wchan') : i \in 1 .. Len(wchan) \/ i = Len(wchan')
    BY <1>a, <2>5
  <2>7. Waiting(wchan)' /\ Increasing(wchan)'
    <3>1. Waiting(wchan)'
      BY <1>a, <1>b, <2>1, <2>2, <2>3, <2>4, <2>5, <2>6 DEF Waiting
    <3>2. ASSUME NEW i \in 1 .. Len(wchan'), NEW j \in 1 .. Len(wchan'), i < j
          PROVE  commit_ts[wchan'[i]] < commit_ts[wchan'[j]]
      <4>1. i \in 1 .. Len(wchan)
        BY <1>a, <2>5, <3>2
      <4>2. commit_ts[wchan[i]] < commit_ts[t] /\ wchan'[i] = wchan[i]
        BY <1>0, <1>a, <2>3, <2>5, <4>1, Zenon DEF Pipeline
      <4>3. CASE j \in 1 .. Len(wchan)
        BY <1>b, <2>5, <3>2, <4>1, <4>3, Zenon DEF Increasing
      <4> QED BY <2>5, <2>6, <4>2, <4>3, Zenon
    <3> QED BY <2>1, <3>1, <3>2, Zenon DEF Increasing
  <2>8. ASSUME NEW s \in Seq(Txn), Waiting(s), Before(s, wchan),
               NEW i \in 1 .. Len(s), NEW j \in 1 .. Len(wchan')
        PROVE  pc'[s[i]] = pc[s[i]] /\ commit_ts[s[i]] < commit_ts[wchan'[j]]
    BY <2>3, <2>4, <2>5, <2>6, <2>8, Zenon DEF Before
  <2>9. Before(job, wchan)' /\ Before(batch, wchan)'
    <3>1. \A i \in 1 .. Len(job), j \in 1 .. Len(wchan') :
            commit_ts[job[i]] < commit_ts[wchan'[j]]
      BY <1>0, <1>a, <2>8, Zenon DEF Pipeline
    <3>2. \A i \in 1 .. Len(batch), j \in 1 .. Len(wchan') :
            commit_ts[batch[i]] < commit_ts[wchan'[j]]
      BY <1>0, <1>a, <2>8, Zenon DEF Pipeline
    <3> QED BY <2>1, <3>1, <3>2, Zenon DEF Before
  <2>10. Waiting(job)' /\ Waiting(batch)'
    BY <1>b, <1>a, <2>1, <2>3, <2>4 DEF Waiting
  <2>11. Increasing(job)' /\ Increasing(batch)' /\ Before(job, batch)'
    BY <1>b, <2>1, Zenon DEF Increasing, Before
  <2>12. (permit => job = <<>>)'
    BY <1>0, <2>1, Zenon DEF Pipeline
  <2>13. \A u \in Txn : result'[u] # "none" => pc'[u] \in {"await_result", "committed"}
    BY <1>0, <2>1, <2>4, Zenon DEF Pipeline
  <2> QED BY <2>7, <2>9, <2>10, <2>11, <2>12, <2>13, Zenon DEF Pipeline
<1>9. ASSUME NEW t \in Txn, FinishCommit(t) PROVE Pipeline'
  <2>1. /\ result[t] # "none"
        /\ pc'[t] = "committed" /\ \A u \in Txn \ {t} : pc'[u] = pc[u]
        /\ UNCHANGED <<commit_ts, wchan, batch, job, permit, result>>
    BY <1>a, <1>9, Zenon DEF FinishCommit, pipeVars
  <2> QED BY <1>0, <2>1, PipelineKept, Zenon
<1>10. ASSUME NEW t \in Txn, SendWaiter(t) \/ Notified(t) PROVE Pipeline'
  BY <1>1, <1>10, Zenon DEF SendWaiter, Notified, txnVars, pipeVars
<1>11. ASSUME NEW t \in Txn, NEW k \in Key, Get(t, k) \/ Modify(t, k) PROVE Pipeline'
  BY <1>1, <1>11, Zenon DEF Get, Modify, pipeVars
<1>12. CASE ReadMarkProcess \/ TxnMarkProcess
  BY <1>1, <1>12, Zenon DEF ReadMarkProcess, TxnMarkProcess, txnVars, pipeVars
<1>13. CASE RecvWrite
  <2>1. /\ wchan # <<>> /\ wchan' = Tail(wchan) /\ batch' = Append(batch, Head(wchan))
        /\ UNCHANGED <<pc, commit_ts, job, permit, result>>
    BY <1>13, Zenon DEF RecvWrite, txnVars
  <2>2. /\ Len(wchan) >= 1 /\ Len(wchan') = Len(wchan) - 1 /\ Head(wchan) = wchan[1]
        /\ \A i \in 1 .. Len(wchan') : i + 1 \in 1 .. Len(wchan) /\ wchan'[i] = wchan[i + 1]
    BY <1>a, <2>1
  <2>3. /\ Len(batch') = Len(batch) + 1 /\ batch'[Len(batch')] = wchan[1]
        /\ \A i \in 1 .. Len(batch) : batch'[i] = batch[i]
    BY <1>a, <2>1, <2>2
  <2>4. \A i \in 1 .. Len(batch') : i \in 1 .. Len(batch) \/ i = Len(batch')
    BY <1>a, <2>3
  <2>5. 1 \in 1 .. Len(wchan)
    BY <1>a, <2>2
  <2>6. Waiting(job)' /\ Waiting(wchan)' /\ Waiting(batch)'
    <3>1. Waiting(job)' /\ Waiting(wchan)'
      BY <1>b, <2>1, <2>2 DEF Waiting
    <3>2. Waiting(batch)'
      BY <1>b, <2>1, <2>3, <2>4, <2>5 DEF Waiting
    <3> QED BY <3>1, <3>2, Zenon
  <2>7. Increasing(job)' /\ Increasing(wchan)' /\ Increasing(batch)'
    <3>1. Increasing(job)' /\ Increasing(wchan)'
      BY <1>b, <1>a, <2>1, <2>2 DEF Increasing
    <3>2. ASSUME NEW i \in 1 .. Len(batch'), NEW j \in 1 .. Len(batch'), i < j
          PROVE  commit_ts[batch'[i]] < commit_ts[batch'[j]]
      <4>1. i \in 1 .. Len(batch)
        BY <1>a, <2>3, <3>2
      <4> QED BY <1>b, <2>3, <2>4, <2>5, <3>2, <4>1, Zenon DEF Increasing, Before
    <3> QED BY <2>1, <3>1, <3>2, Zenon DEF Increasing
  <2>8. Before(job, wchan)' /\ Before(job, batch)'
    BY <1>b, <2>1, <2>2, <2>3, <2>4, <2>5 DEF Before
  <2>9. Before(batch, wchan)'
    <3>1. ASSUME NEW i \in 1 .. Len(batch'), NEW j \in 1 .. Len(wchan')
          PROVE  commit_ts[batch'[i]] < commit_ts[wchan'[j]]
      <4>1. j + 1 \in 1 .. Len(wchan) /\ wchan'[j] = wchan[j + 1]
        BY <2>2, Zenon
      <4>2. 1 < j + 1
        OBVIOUS
      <4>3. commit_ts[wchan[1]] < commit_ts[wchan[j + 1]]
        BY <1>b, <2>5, <4>1, <4>2, Zenon DEF Increasing
      <4>4. CASE i = Len(batch')
        BY <2>3, <4>1, <4>3, <4>4, Zenon
      <4>5. CASE i \in 1 .. Len(batch)
        BY <1>b, <2>3, <4>1, <4>5, Zenon DEF Before
      <4> QED BY <2>4, <4>4, <4>5, Zenon
    <3> QED BY <2>1, <3>1, Zenon DEF Before
  <2>10. (permit => job = <<>>)'
    BY <1>0, <2>1, Zenon DEF Pipeline
  <2>11. \A u \in Txn : result'[u] # "none" => pc'[u] \in {"await_result", "committed"}
    BY <1>0, <2>1, Zenon DEF Pipeline
  <2> QED BY <2>6, <2>7, <2>8, <2>9, <2>10, <2>11, Zenon DEF Pipeline
<1>14. CASE SpawnWrite
  <2>1. /\ job' = batch /\ batch' = <<>> /\ permit' = FALSE
        /\ UNCHANGED <<pc, commit_ts, wchan, result>>
    BY <1>14, Zenon DEF SpawnWrite, txnVars
  <2>2. Waiting(job)' /\ Waiting(batch)' /\ Waiting(wchan)'
    BY <1>b, <2>1 DEF Waiting
  <2>3. Increasing(job)' /\ Increasing(batch)' /\ Increasing(wchan)'
    BY <1>b, <2>1 DEF Increasing
  <2>4. Before(job, batch)' /\ Before(job, wchan)' /\ Before(batch, wchan)'
    BY <1>b, <2>1 DEF Before
  <2>5. \A u \in Txn : result'[u] # "none" => pc'[u] \in {"await_result", "committed"}
    BY <1>0, <2>1, Zenon DEF Pipeline
  <2> QED BY <2>1, <2>2, <2>3, <2>4, <2>5, Zenon DEF Pipeline
<1>15. CASE WriteToMemtable
  BY <1>1, <1>15, Zenon DEF WriteToMemtable, txnVars
<1>16. ASSUME NEW res, EndJob(res) PROVE Pipeline'
  <2>1. /\ job' = <<>> /\ UNCHANGED <<pc, commit_ts, wchan, batch>>
        /\ \A t \in Txn : result'[t] = IF \E i \in 1 .. Len(job) : job[i] = t
                                         THEN res ELSE result[t]
    BY <1>16, Zenon DEF EndJob, txnVars
  <2>2. ASSUME NEW s \in Seq(Txn), Before(job, s), NEW i \in 1 .. Len(s)
        PROVE  result'[s[i]] = result[s[i]]
    <3>1. ~ \E j \in 1 .. Len(job) : job[j] = s[i]
      BY <1>a, <2>2 DEF Before
    <3> QED BY <2>1, <3>1, s[i] \in Txn, Zenon
  <2>3. Waiting(job)' /\ Waiting(batch)' /\ Waiting(wchan)'
    <3>1. /\ \A i \in 1 .. Len(batch) : result'[batch[i]] = result[batch[i]]
          /\ \A i \in 1 .. Len(wchan) : result'[wchan[i]] = result[wchan[i]]
      BY <1>0, <1>a, <2>2, Zenon DEF Pipeline
    <3> QED BY <1>b, <2>1, <3>1 DEF Waiting
  <2>4. Increasing(job)' /\ Increasing(batch)' /\ Increasing(wchan)'
    BY <1>b, <2>1 DEF Increasing
  <2>5. Before(job, batch)' /\ Before(job, wchan)' /\ Before(batch, wchan)'
    BY <1>b, <2>1 DEF Before
  <2>6. \A u \in Txn : result'[u] # "none" => pc'[u] \in {"await_result", "committed"}
    <3>1. \A i \in 1 .. Len(job) : pc[job[i]] = "await_result"
      BY <1>b, Zenon DEF Waiting
    <3>2. \A u \in Txn : result[u] # "none" => pc[u] \in {"await_result", "committed"}
      BY <1>0, Zenon DEF Pipeline
    <3> QED BY <2>1, <3>1, <3>2
  <2> QED BY <2>1, <2>3, <2>4, <2>5, <2>6, Zenon DEF Pipeline
<1>17. CASE FinishJob \/ FailJob
  BY <1>16, <1>17, Zenon DEF FinishJob, FailJob
<1>18. CASE UNCHANGED vars
  BY <1>1, <1>18, Zenon DEF vars, txnVars, pipeVars
<1> QED
  BY <1>3, <1>4, <1>5, <1>6, <1>7, <1>8, <1>9, <1>10, <1>11, <1>12, <1>13, <1>14,
     <1>15, <1>17, <1>18, SMTT(30) DEF Next, Step

-----------------------------------------------------------------------------
\* The memtable.

LEMMA PipeTypes ==
  ASSUME TypeOK
  PROVE  /\ wchan \in Seq(Txn) /\ batch \in Seq(Txn) /\ job \in Seq(Txn)
         /\ written \in Nat /\ written <= Len(job)
BY DEF TypeOK

LEMMA TsTypes ==
  ASSUME TypeOK
  PROVE  /\ \A v \in store : v.ts \in Nat
         /\ \A t \in Txn : commit_ts[t] \in Nat
         /\ next_txn_ts \in Nat
BY Types, Zenon DEF TypeOK

LEMMA Domains ==
  ASSUME TypeOK
  PROVE  DOMAIN pc = Txn /\ DOMAIN commit_ts = Txn /\ DOMAIN writes = Txn
BY Zenon DEF TypeOK

LEMMA VersionTs == \A t \in Txn : \A keys : \A v \in Versions(t, keys) : v.ts = commit_ts[t]
BY Zenon DEF Versions

\* A step of a transaction that has not sent its request concerns no version in the
\* memtable.
LEMMA OlderKept ==
  ASSUME TypeOK, Pipeline, Older, NEW t \in Txn,
         pc[t] \notin {"await_result", "committed"},
         \A u \in Txn \ {t} : pc'[u] = pc[u] /\ commit_ts'[u] = commit_ts[u],
         pc'[t] \in {"begin_commit", "send"} => \A v \in store : v.ts < commit_ts'[t],
         next_txn_ts' \in {next_txn_ts, next_txn_ts + 1},
         UNCHANGED <<wchan, batch, job, written, store>>
  PROVE  Older'
<1>1. /\ \A i \in 1 .. Len(job) : job[i] \in Txn \ {t}
      /\ \A i \in 1 .. Len(batch) : batch[i] \in Txn \ {t}
      /\ \A i \in 1 .. Len(wchan) : wchan[i] \in Txn \ {t}
  BY WaitingOther, PipeTypes, Zenon DEF Pipeline
<1>2. \A i \in written + 1 .. Len(job) : i \in 1 .. Len(job)
  BY PipeTypes
<1>3. \A v \in store : v.ts < next_txn_ts'
  BY TsTypes DEF Older
<1>4. \A v \in store, u \in Txn : pc'[u] \in {"begin_commit", "send"} => v.ts < commit_ts'[u]
  BY Zenon DEF Older
<1>5. Newer(job, written + 1)'
  BY <1>1, <1>2 DEF Older, Newer
<1>6. Newer(batch, 1)' /\ Newer(wchan, 1)'
  BY <1>1 DEF Older, Newer
<1> QED BY <1>3, <1>4, <1>5, <1>6, Zenon DEF Older

LEMMA CompleteKept ==
  ASSUME TypeOK, Pipeline, Complete, NEW t \in Txn,
         pc[t] \notin {"await_result", "committed"},
         \A u \in Txn \ {t} : commit_ts'[u] = commit_ts[u] /\ writes'[u] = writes[u],
         UNCHANGED <<job, written, store, result>>
  PROVE  Complete'
<1>1. \A i \in 1 .. written : job[i] \in Txn \ {t}
  <2>1. \A i \in 1 .. Len(job) : job[i] \in Txn \ {t}
    BY WaitingOther, PipeTypes, Zenon DEF Pipeline
  <2>2. \A i \in 1 .. written : i \in 1 .. Len(job)
    BY PipeTypes
  <2> QED BY <2>1, <2>2, Zenon
<1>2. result[t] = "none"
  BY Zenon DEF Pipeline
<1>3. \A i \in 1 .. written : Versions(job[i], writes[job[i]])' \subseteq store
  BY <1>1, Zenon DEF Complete, Versions
<1>4. \A u \in Txn : result[u] = "ok" => Versions(u, writes[u])' \subseteq store
  BY <1>2, Zenon DEF Complete, Versions
<1> QED BY <1>3, <1>4, Zenon DEF Complete

\* What write_to_memtable adds is newer than what is there and older than what is
\* still to be written.
LEMMA WriteIsNext ==
  ASSUME OInv, written < Len(job), NEW keys
  PROVE  \A v \in store \cup Versions(job[written + 1], keys) :
           /\ v.ts < next_txn_ts
           /\ \A t \in Txn : pc[t] \in {"begin_commit", "send"} => v.ts < commit_ts[t]
           /\ \A i \in written + 2 .. Len(job) : v.ts < commit_ts[job[i]]
           /\ \A i \in 1 .. Len(batch) : v.ts < commit_ts[batch[i]]
           /\ \A i \in 1 .. Len(wchan) : v.ts < commit_ts[wchan[i]]
<1> TAKE v \in store \cup Versions(job[written + 1], keys)
<1>0. TypeOK /\ Timestamps /\ Pipeline /\ Older
  BY Zenon DEF OInv
<1>1. CASE v \in store
  <2>1. \A i \in written + 2 .. Len(job) : i \in written + 1 .. Len(job)
    BY <1>0, PipeTypes
  <2> QED BY <1>0, <1>1, <2>1, Zenon DEF Older, Newer
<1>2. CASE v \in Versions(job[written + 1], keys)
  <2> DEFINE u == job[written + 1]
  <2>1. written + 1 \in 1 .. Len(job) /\ u \in Txn
    BY <1>0, PipeTypes
  <2>2. v.ts = commit_ts[u] /\ u \in Allocated
    BY <1>0, <1>2, <2>1, VersionTs, Zenon DEF Pipeline, Waiting, Allocated
  <2>3. v.ts < next_txn_ts
    BY <1>0, <2>2, Zenon DEF Timestamps
  <2>4. ASSUME NEW t \in Txn, pc[t] \in {"begin_commit", "send"} PROVE v.ts < commit_ts[t]
    <3>1. t \in Allocated /\ t # u
      BY <1>0, <2>1, <2>4, Zenon DEF Allocated, Pipeline, Waiting
    <3>2. commit_ts[t] = next_txn_ts - 1 /\ commit_ts[t] # commit_ts[u]
      BY <1>0, <2>2, <2>4, <3>1, Zenon DEF Timestamps
    <3>3. commit_ts[u] \in Nat /\ next_txn_ts \in Nat
      BY <1>0, <2>1, TsTypes, Zenon
    <3> QED BY <2>2, <2>3, <3>2, <3>3
  <2>5. ASSUME NEW i \in written + 2 .. Len(job) PROVE v.ts < commit_ts[job[i]]
    <3>1. i \in 1 .. Len(job) /\ written + 1 < i
      BY <1>0, PipeTypes
    <3> QED BY <1>0, <2>1, <2>2, <3>1, Zenon DEF Pipeline, Increasing
  <2>6. /\ \A i \in 1 .. Len(batch) : v.ts < commit_ts[batch[i]]
        /\ \A i \in 1 .. Len(wchan) : v.ts < commit_ts[wchan[i]]
    BY <1>0, <2>1, <2>2, Zenon DEF Pipeline, Before
  <2> QED BY <2>3, <2>4, <2>5, <2>6, Zenon
<1> QED BY <1>1, <1>2, Zenon

\* The entries of a sequence that something was appended to, or taken from.
LEMMA AppendEntries ==
  ASSUME NEW S, NEW s \in Seq(S), NEW e \in S
  PROVE  \A i \in 1 .. Len(Append(s, e)) :
           Append(s, e)[i] = e \/ (i \in 1 .. Len(s) /\ Append(s, e)[i] = s[i])
<1> TAKE i \in 1 .. Len(Append(s, e))
<1>1. CASE i = Len(s) + 1
  BY <1>1
<1>2. CASE i \in 1 .. Len(s)
  BY <1>2
<1> QED BY <1>1, <1>2

LEMMA TailEntries ==
  ASSUME NEW S, NEW s \in Seq(S), s # <<>>
  PROVE  /\ 1 \in 1 .. Len(s) /\ Head(s) = s[1] /\ s[1] \in S
         /\ \A i \in 1 .. Len(Tail(s)) : i + 1 \in 1 .. Len(s) /\ Tail(s)[i] = s[i + 1]
OBVIOUS

\* The memtable gets what is next in the pipeline, so it stays older than all that
\* is still on its way.
LEMMA NextOlder ==
  ASSUME OInv, [Next]_vars
  PROVE  Older'
<1>0. TypeOK /\ Pipeline /\ Older
  BY Zenon DEF OInv
<1>a. /\ wchan \in Seq(Txn) /\ batch \in Seq(Txn) /\ job \in Seq(Txn)
      /\ written \in Nat /\ next_txn_ts \in Nat
  BY <1>0, PipeTypes, TsTypes, Zenon
<1>b. DOMAIN pc = Txn /\ DOMAIN commit_ts = Txn
  BY <1>0, Domains, Zenon
<1>c. /\ \A v \in store, t \in Txn : pc[t] \in {"begin_commit", "send"} => v.ts < commit_ts[t]
      /\ Newer(job, written + 1) /\ Newer(batch, 1) /\ Newer(wchan, 1)
  BY <1>0, Zenon DEF Older
<1>1. CASE /\ UNCHANGED <<next_txn_ts, commit_ts, wchan, batch, job, written, store>>
           /\ \A t \in Txn : pc'[t] \in {"begin_commit", "send"} =>
                               pc[t] \in {"begin_commit", "send"}
  BY <1>0, <1>1, Zenon DEF Older, Newer
<1>2. ASSUME NEW t \in Txn, GetReadTs(t) \/ Commit(t) PROVE Older'
  BY <1>b, <1>1, <1>2, Zenon DEF GetReadTs, Commit, coreVars, pipeVars
<1>3. ASSUME NEW t \in Txn, BeginRead(t) \/ WaitForCommits(t) PROVE Older'
  BY <1>b, <1>1, <1>3, Zenon DEF BeginRead, WaitForCommits, coreVars, pipeVars
<1>4. ASSUME NEW t \in Txn, Discard(t) \/ DoneRead(t) PROVE Older'
  BY <1>b, <1>1, <1>4, Zenon DEF Discard, DoneRead, coreVars, pipeVars
<1>5. ASSUME NEW t \in Txn, CheckConflict(t) PROVE Older'
  <2>1. PICK p \in {"conflict", "done_read"} : pc' = [pc EXCEPT ![t] = p]
    BY <1>5, Zenon DEF CheckConflict
  <2> QED BY <1>b, <1>1, <1>5, <2>1, Zenon DEF CheckConflict, coreVars, pipeVars
<1>6. ASSUME NEW t \in Txn, BeginCommit(t) \/ FinishCommit(t) PROVE Older'
  BY <1>b, <1>1, <1>6, Zenon DEF BeginCommit, FinishCommit, coreVars, pipeVars
<1>7. ASSUME NEW t \in Txn, AllocCommitTs(t) PROVE Older'
  <2>1. /\ pc[t] = "alloc" /\ commit_ts'[t] = next_txn_ts /\ next_txn_ts' = next_txn_ts + 1
        /\ \A u \in Txn \ {t} : pc'[u] = pc[u] /\ commit_ts'[u] = commit_ts[u]
        /\ UNCHANGED <<wchan, batch, job, written, store>>
    BY <1>b, <1>7, Zenon DEF AllocCommitTs, pipeVars
  <2>2. \A v \in store : v.ts < commit_ts'[t]
    BY <1>0, <2>1, Zenon DEF Older
  <2> QED BY <1>0, <2>1, <2>2, OlderKept, Zenon
<1>8. ASSUME NEW t \in Txn, SendToWriteChannel(t) PROVE Older'
  <2>1. /\ pc[t] = "send" /\ pc' = [pc EXCEPT ![t] = "await_result"]
        /\ wchan' = Append(wchan, t)
        /\ UNCHANGED <<next_txn_ts, commit_ts, batch, job, written, store>>
    BY <1>8, Zenon DEF SendToWriteChannel, coreVars
  <2>2. \A i \in 1 .. Len(wchan') :
          wchan'[i] = t \/ (i \in 1 .. Len(wchan) /\ wchan'[i] = wchan[i])
    BY <1>a, <2>1, AppendEntries
  <2>3. Newer(wchan, 1)'
    BY <1>c, <2>1, <2>2 DEF Newer
  <2>4. Newer(job, written + 1)' /\ Newer(batch, 1)'
    BY <1>c, <2>1, Zenon DEF Newer
  <2>5. \A u \in Txn : pc'[u] \in {"begin_commit", "send"} => pc[u] \in {"begin_commit", "send"}
    BY <1>b, <2>1, Zenon
  <2> QED BY <1>0, <2>1, <2>3, <2>4, <2>5, Zenon DEF Older
<1>9. ASSUME NEW t \in Txn, SendWaiter(t) \/ Notified(t) PROVE Older'
  BY <1>1, <1>9, Zenon DEF SendWaiter, Notified, coreVars, txnVars, pipeVars
<1>10. ASSUME NEW t \in Txn, NEW k \in Key, Get(t, k) \/ Modify(t, k) PROVE Older'
  BY <1>1, <1>10, Zenon DEF Get, Modify, coreVars, pipeVars
<1>11. CASE ReadMarkProcess \/ TxnMarkProcess
  BY <1>1, <1>11, Zenon DEF ReadMarkProcess, TxnMarkProcess, coreVars, txnVars, pipeVars
<1>12. CASE RecvWrite
  <2>1. /\ wchan # <<>> /\ wchan' = Tail(wchan) /\ batch' = Append(batch, Head(wchan))
        /\ UNCHANGED <<next_txn_ts, pc, commit_ts, job, written, store>>
    BY <1>12, Zenon DEF RecvWrite, coreVars, txnVars
  <2>2. 1 \in 1 .. Len(wchan) /\ Head(wchan) = wchan[1] /\ wchan[1] \in Txn
    BY <1>a, <2>1, TailEntries, Zenon
  <2>3. \A i \in 1 .. Len(wchan') : i + 1 \in 1 .. Len(wchan) /\ wchan'[i] = wchan[i + 1]
    BY <1>a, <2>1, TailEntries, Zenon
  <2>4. \A i \in 1 .. Len(batch') :
          batch'[i] = wchan[1] \/ (i \in 1 .. Len(batch) /\ batch'[i] = batch[i])
    BY <1>a, <2>1, <2>2, AppendEntries
  <2>5. Newer(wchan, 1)' /\ Newer(batch, 1)'
    BY <1>c, <2>1, <2>2, <2>3, <2>4 DEF Newer
  <2>6. Newer(job, written + 1)'
    BY <1>c, <2>1, Zenon DEF Newer
  <2> QED BY <1>0, <2>1, <2>5, <2>6, Zenon DEF Older
<1>13. CASE SpawnWrite
  <2>1. /\ job' = batch /\ batch' = <<>> /\ written' = 0
        /\ UNCHANGED <<next_txn_ts, pc, commit_ts, wchan, store>>
    BY <1>13, Zenon DEF SpawnWrite, coreVars, txnVars
  <2>2. Newer(job, written + 1)' /\ Newer(batch, 1)' /\ Newer(wchan, 1)'
    BY <1>c, <2>1 DEF Newer
  <2> QED BY <1>0, <2>1, <2>2, Zenon DEF Older
<1>14. CASE WriteToMemtable
  <2>1. /\ written < Len(job) /\ written' + 1 = written + 2
        /\ store' = store \cup Versions(job[written + 1], writes[job[written + 1]])
        /\ UNCHANGED <<next_txn_ts, pc, commit_ts, wchan, batch, job>>
    BY <1>a, <1>14 DEF WriteToMemtable, coreVars, txnVars
  <2>2. \A v \in store' :
          /\ v.ts < next_txn_ts
          /\ \A t \in Txn : pc[t] \in {"begin_commit", "send"} => v.ts < commit_ts[t]
          /\ \A i \in written + 2 .. Len(job) : v.ts < commit_ts[job[i]]
          /\ \A i \in 1 .. Len(batch) : v.ts < commit_ts[batch[i]]
          /\ \A i \in 1 .. Len(wchan) : v.ts < commit_ts[wchan[i]]
    BY <2>1, WriteIsNext, Zenon
  <2>3. Newer(job, written + 1)' /\ Newer(batch, 1)' /\ Newer(wchan, 1)'
    BY <2>1, <2>2, Zenon DEF Newer
  <2> QED BY <2>1, <2>2, <2>3, Zenon DEF Older
<1>15. CASE FinishJob
  <2>1. /\ job' = <<>>
        /\ UNCHANGED <<next_txn_ts, pc, commit_ts, wchan, batch, store>>
    BY <1>15, Zenon DEF FinishJob, EndJob, coreVars, txnVars
  <2>2. Newer(job, written + 1)' /\ Newer(batch, 1)' /\ Newer(wchan, 1)'
    BY <1>c, <1>15, <2>1 DEF FinishJob, EndJob, Newer
  <2> QED BY <1>0, <2>1, <2>2, Zenon DEF Older
<1>16. CASE FailJob
  <2>1. /\ written < Len(job) /\ job' = <<>> /\ written' = 0
        /\ UNCHANGED <<next_txn_ts, pc, commit_ts, wchan, batch>>
    BY <1>16, Zenon DEF FailJob, EndJob, coreVars, txnVars
  <2>2. PICK keys : store' = store \cup Versions(job[written + 1], keys)
    BY <1>16, Zenon DEF FailJob
  <2>3. \A v \in store' :
          /\ v.ts < next_txn_ts
          /\ \A t \in Txn : pc[t] \in {"begin_commit", "send"} => v.ts < commit_ts[t]
          /\ \A i \in 1 .. Len(batch) : v.ts < commit_ts[batch[i]]
          /\ \A i \in 1 .. Len(wchan) : v.ts < commit_ts[wchan[i]]
    BY <2>1, <2>2, WriteIsNext, Zenon
  <2>4. Newer(batch, 1)' /\ Newer(wchan, 1)'
    BY <2>1, <2>3, Zenon DEF Newer
  <2>5. Newer(job, written + 1)'
    BY <2>1 DEF Newer
  <2> QED BY <2>1, <2>3, <2>4, <2>5, Zenon DEF Older
<1>17. CASE UNCHANGED vars
  BY <1>1, <1>17, Zenon DEF vars, coreVars, txnVars, pipeVars
<1> QED
  BY <1>2, <1>3, <1>4, <1>5, <1>6, <1>7, <1>8, <1>9, <1>10, <1>11, <1>12, <1>13, <1>14,
     <1>15, <1>16, <1>17, SMTT(30) DEF Next, Step

\* A request is answered with success when all its entries are in the memtable,
\* and nothing leaves the memtable.
LEMMA NextComplete ==
  ASSUME OInv, [Next]_vars
  PROVE  Complete'
<1>0. TypeOK /\ Pipeline /\ Complete
  BY Zenon DEF OInv
<1>a. DOMAIN commit_ts = Txn /\ DOMAIN writes = Txn
  BY <1>0, Domains, Zenon
<1>b. written \in Nat
  BY <1>0, PipeTypes, Zenon
<1>1. CASE UNCHANGED <<commit_ts, writes, job, written, store, result>>
  BY <1>0, <1>1, Zenon DEF Complete, Versions
<1>2. ASSUME NEW t \in Txn, Step(t), ~AllocCommitTs(t) PROVE Complete'
  <2>1. UNCHANGED <<commit_ts, writes, job, written, store, result>>
    BY <1>2, Zenon DEF Step, BeginRead, WaitForCommits, SendWaiter, Notified, CheckConflict,
                DoneRead, BeginCommit, SendToWriteChannel, FinishCommit, txnVars, pipeVars
  <2> QED BY <1>1, <2>1, Zenon
<1>3. ASSUME NEW t \in Txn, AllocCommitTs(t) PROVE Complete'
  <2>1. /\ pc[t] = "alloc" /\ \A u \in Txn \ {t} : commit_ts'[u] = commit_ts[u]
        /\ UNCHANGED <<writes, job, written, store, result>>
    BY <1>a, <1>3, Zenon DEF AllocCommitTs, pipeVars
  <2> QED BY <1>0, <2>1, CompleteKept, Zenon
<1>4. ASSUME NEW t \in Txn, GetReadTs(t) \/ Commit(t) \/ Discard(t) PROVE Complete'
  BY <1>1, <1>4, Zenon DEF GetReadTs, Commit, Discard, pipeVars
<1>5. ASSUME NEW t \in Txn, NEW k \in Key, Get(t, k) PROVE Complete'
  BY <1>1, <1>5, Zenon DEF Get, pipeVars
<1>6. ASSUME NEW t \in Txn, NEW k \in Key, Modify(t, k) PROVE Complete'
  <2>1. /\ pc[t] = "open" /\ \A u \in Txn \ {t} : writes'[u] = writes[u]
        /\ UNCHANGED <<commit_ts, job, written, store, result>>
    BY <1>a, <1>6, Zenon DEF Modify, Active, pipeVars
  <2> QED BY <1>0, <2>1, CompleteKept, Zenon
<1>7. CASE ReadMarkProcess \/ TxnMarkProcess
  BY <1>1, <1>7, Zenon DEF ReadMarkProcess, TxnMarkProcess, txnVars, pipeVars
<1>8. CASE RecvWrite
  BY <1>1, <1>8, Zenon DEF RecvWrite, txnVars
<1>9. CASE SpawnWrite
  BY <1>0, <1>9 DEF SpawnWrite, txnVars, Complete, Versions
<1>10. CASE WriteToMemtable
  <2>1. /\ written' = written + 1
        /\ store' = store \cup Versions(job[written + 1], writes[job[written + 1]])
        /\ UNCHANGED <<commit_ts, writes, job, result>>
    BY <1>10, Zenon DEF WriteToMemtable, txnVars
  <2>2. \A i \in 1 .. written' : i \in 1 .. written \/ i = written + 1
    BY <1>b, <2>1
  <2>3. \A i \in 1 .. written' : Versions(job[i], writes[job[i]]) \subseteq store'
    BY <1>0, <2>1, <2>2, Zenon DEF Complete
  <2>4. \A t \in Txn : result[t] = "ok" => Versions(t, writes[t]) \subseteq store'
    BY <1>0, <2>1, Zenon DEF Complete
  <2> QED BY <2>1, <2>3, <2>4, Zenon DEF Complete, Versions
<1>11. CASE FinishJob
  <2>1. /\ written = Len(job) /\ written' = 0
        /\ UNCHANGED <<commit_ts, writes, store>>
        /\ \A t \in Txn : result'[t] = IF \E i \in 1 .. Len(job) : job[i] = t
                                         THEN "ok" ELSE result[t]
    BY <1>11, Zenon DEF FinishJob, EndJob, txnVars
  <2>2. \A t \in Txn : result'[t] = "ok" => Versions(t, writes[t]) \subseteq store
    BY <1>0, <2>1, Zenon DEF Complete
  <2> QED BY <2>1, <2>2 DEF Complete, Versions
<1>12. CASE FailJob
  <2>1. /\ written' = 0 /\ store \subseteq store'
        /\ UNCHANGED <<commit_ts, writes>>
        /\ \A t \in Txn : result'[t] = "ok" => result[t] = "ok"
    BY <1>12, Zenon DEF FailJob, EndJob, txnVars
  <2> QED BY <1>0, <2>1 DEF Complete, Versions
<1>13. CASE UNCHANGED vars
  BY <1>1, <1>13, Zenon DEF vars, txnVars, pipeVars
<1> QED
  BY <1>2, <1>3, <1>4, <1>5, <1>6, <1>7, <1>8, <1>9, <1>10, <1>11, <1>12, <1>13,
     SMTT(30) DEF Next
-----------------------------------------------------------------------------
\* The inductive invariant.

\* last_cleanup_ts is the read mark as it was at the last allocation; the mark
\* never goes back and never reaches a timestamp not handed out.
LEMMA NextCleanup ==
  ASSUME OInv, MarksPromise, r_until <= r_until', TypeOK', [Next]_vars
  PROVE  CleanupBehind'
<1>0. TypeOK /\ Timestamps /\ CleanupBehind
  BY Zenon DEF OInv
<1>a. /\ \A t \in Txn : commit_ts[t] \in Nat
      /\ next_txn_ts \in Nat /\ last_cleanup_ts \in Nat
      /\ r_until \in Nat /\ r_until' \in Nat /\ r_last \in Nat /\ r_until <= r_last
      /\ DOMAIN pc = Txn /\ DOMAIN commit_ts = Txn
  <2>1. /\ \A t \in Txn : commit_ts[t] \in Nat
        /\ next_txn_ts \in Nat /\ last_cleanup_ts \in Nat
        /\ DOMAIN pc = Txn /\ DOMAIN commit_ts = Txn
    BY <1>0, Types, TsTypes, Domains, Zenon
  <2>2. r_until \in Nat /\ r_last \in Nat /\ r_until <= r_last
    BY <1>0, MarkTypes, Zenon DEF MarksPromise
  <2>3. r_until' \in Nat
    BY OracleAssumption DEF TypeOK, Ts, read_mark!TypeOK
  <2> QED BY <2>1, <2>2, <2>3, Zenon
<1>1. CASE /\ UNCHANGED <<last_cleanup_ts, commit_ts>>
           /\ \A t \in Txn : pc'[t] = "begin_commit" => pc[t] = "begin_commit"
  BY <1>0, <1>a, <1>1 DEF CleanupBehind
<1>2. ASSUME NEW t \in Txn, AllocCommitTs(t) PROVE CleanupBehind'
  <2>1. /\ pc'[t] = "begin_commit" /\ pc[t] = "alloc"
        /\ commit_ts'[t] = next_txn_ts /\ last_cleanup_ts' = r_until
        /\ \A u \in Txn \ {t} : pc'[u] = pc[u] /\ commit_ts'[u] = commit_ts[u]
    BY <1>a, <1>2, Zenon DEF AllocCommitTs, CleanupCommittedTxns, detect_conflicts
  <2>2. \A u \in Txn \ {t} : pc[u] # "begin_commit"
    BY <2>1, Zenon DEF OInv, LocksHeld
  <2>3. r_until <= next_txn_ts
    BY <1>0, <1>a DEF Timestamps
  <2> QED BY <1>a, <2>1, <2>2, <2>3, Zenon DEF CleanupBehind
<1>3. ASSUME NEW t \in Txn, GetReadTs(t) \/ Commit(t) PROVE CleanupBehind'
  BY <1>a, <1>1, <1>3, Zenon DEF GetReadTs, Commit, coreVars
<1>4. ASSUME NEW t \in Txn, BeginRead(t) \/ WaitForCommits(t) PROVE CleanupBehind'
  BY <1>a, <1>1, <1>4, Zenon DEF BeginRead, WaitForCommits, coreVars
<1>5. ASSUME NEW t \in Txn, Discard(t) \/ DoneRead(t) PROVE CleanupBehind'
  BY <1>a, <1>1, <1>5, Zenon DEF Discard, DoneRead, coreVars
<1>6. ASSUME NEW t \in Txn, CheckConflict(t) PROVE CleanupBehind'
  <2>1. PICK p \in {"conflict", "done_read"} : pc' = [pc EXCEPT ![t] = p]
    BY <1>6, Zenon DEF CheckConflict
  <2> QED BY <1>a, <1>1, <1>6, <2>1, Zenon DEF CheckConflict, coreVars
<1>7. ASSUME NEW t \in Txn, BeginCommit(t) \/ FinishCommit(t) \/ SendToWriteChannel(t)
      PROVE  CleanupBehind'
  BY <1>a, <1>1, <1>7, Zenon DEF BeginCommit, FinishCommit, SendToWriteChannel, coreVars
<1>8. ASSUME NEW t \in Txn, SendWaiter(t) \/ Notified(t) PROVE CleanupBehind'
  BY <1>1, <1>8, Zenon DEF SendWaiter, Notified, coreVars, txnVars
<1>9. ASSUME NEW t \in Txn, NEW k \in Key, Get(t, k) \/ Modify(t, k) PROVE CleanupBehind'
  BY <1>1, <1>9, Zenon DEF Get, Modify, coreVars
<1>10. CASE ReadMarkProcess \/ TxnMarkProcess
  BY <1>1, <1>10, Zenon DEF ReadMarkProcess, TxnMarkProcess, coreVars, txnVars
<1>11. CASE RecvWrite \/ SpawnWrite \/ WriteToMemtable \/ FinishJob \/ FailJob
  BY <1>1, <1>11, Zenon DEF RecvWrite, SpawnWrite, WriteToMemtable, FinishJob, FailJob, EndJob,
                     coreVars, txnVars
<1>12. CASE UNCHANGED vars
  BY <1>1, <1>12, Zenon DEF vars, coreVars, txnVars
<1> QED
  BY <1>2, <1>3, <1>4, <1>5, <1>6, <1>7, <1>8, <1>9, <1>10, <1>11, <1>12, SMTT(30)
  DEF Next, Step

\* Oracle::new starts where the invariant holds.
LEMMA InitOInv == Init => OInv
<1> SUFFICES ASSUME Init PROVE OInv
  BY Zenon
<1>a. /\ MaxVersion \in Nat /\ MaxTs \in Nat /\ MaxVersion <= MaxTs /\ None \notin Txn
      /\ BatchCap \in Nat /\ WriteCap \in Nat
  BY OracleAssumption, Zenon
<1>1. TypeOK
  <2>1. /\ next_txn_ts \in 1 .. MaxTs + 1 /\ last_cleanup_ts \in Ts
        /\ inner \in Txn \cup {None} /\ send_write_req \in Txn \cup {None}
        /\ committed_txns \subseteq CommittedTxn
    BY <1>a DEF Init, Ts
  <2>2. /\ read_ts \in [Txn -> Ts] /\ commit_ts \in [Txn -> Ts]
        /\ reads \in [Txn -> SUBSET Key] /\ writes \in [Txn -> SUBSET Key]
    BY <1>a DEF Init, Ts
  <2>3. /\ wchan \in Seq(Txn) /\ Len(wchan) <= WriteCap
        /\ batch \in Seq(Txn) /\ Len(batch) <= BatchCap
        /\ job \in Seq(Txn) /\ written \in 0 .. Len(job)
    BY <1>a DEF Init
  <2>4. store \subseteq Version
    <3>1. MaxVersion \in Ts
      BY <1>a DEF Ts
    <3> QED BY <3>1, Zenon DEF Init, Version
  <2>5. read_mark!TypeOK
    BY <1>a DEF Init, Ts, read_mark!Init, read_mark!TypeOK, read_mark!Mark
  <2>6. txn_mark!TypeOK
    BY <1>a DEF Init, Ts, txn_mark!Init, txn_mark!TypeOK, txn_mark!Mark
  <2>7. /\ result \in [Txn -> {"none", "ok", "err"}] /\ permit \in BOOLEAN
        /\ pc \in [Txn -> {"start", "begin_read", "wait_mark", "open", "commit_lock",
                           "done_read", "alloc", "begin_commit", "send",
                           "await_result", "committed", "conflict", "discarded"}]
    BY Zenon DEF Init
  <2> QED BY <2>1, <2>2, <2>3, <2>4, <2>5, <2>6, <2>7, Zenon DEF TypeOK
<1>2. \A t \in Txn : pc[t] = "start" /\ result[t] = "none" /\ read_ts[t] = 0
  BY Zenon DEF Init
<1>3. LocksHeld
  BY <1>a, <1>2, Zenon DEF Init, LocksHeld
<1>4. MarksFollow
  BY <1>2, Zenon DEF Init, MarksFollow, read_mark!Init, txn_mark!Init
<1>5. /\ r_last = MaxVersion /\ t_last = MaxVersion /\ r_until = MaxVersion
      /\ next_txn_ts = MaxVersion + 1
  BY Zenon DEF Init, read_mark!Init, txn_mark!Init
<1>6. Timestamps
  <2>1. Allocated = {}
    BY <1>2, Zenon DEF Allocated
  <2> QED BY <1>a, <1>2, <1>5, <2>1 DEF Timestamps
<1>7. Pipeline
  BY <1>2 DEF Init, Pipeline, Waiting, Increasing, Before
<1>8. Older /\ Complete
  <2>1. \A v \in store : v.ts = MaxVersion
    BY Zenon DEF Init
  <2> QED BY <1>a, <1>2, <1>5, <2>1 DEF Init, Older, Complete, Newer
<1>9. CleanupBehind
  BY <1>a, <1>2, <1>5 DEF Init, CleanupBehind
<1> QED BY <1>1, <1>3, <1>4, <1>6, <1>7, <1>8, <1>9, Zenon DEF OInv

\* Every step of the oracle preserves its invariant as long as the marks keep
\* their promises.
LEMMA NextOInv ==
  ASSUME OInv, MarksPromise, MarksPromise', r_until <= r_until', [Next]_vars
  PROVE  OInv'
<1>1. TypeOK'
  BY NextType, Zenon
<1>2. LocksHeld' /\ MarksFollow' /\ Timestamps'
  BY NextLocks, NextMarks, NextTimestamps, Zenon
<1>3. Pipeline' /\ Older' /\ Complete'
  BY NextPipeline, NextOlder, NextComplete, Zenon
<1>4. CleanupBehind'
  BY <1>1, NextCleanup, Zenon
<1> QED BY <1>1, <1>2, <1>3, <1>4, Zenon DEF OInv
-----------------------------------------------------------------------------
\* What the invariant and the marks' promises give the transactions.

\* The read mark does not pass a transaction that is in use, so
\* discard_at_or_below stays at or below its snapshot.
LEMMA DiscardBelow == OInv /\ MarksPromise => DiscardBelowReaders
<1> SUFFICES ASSUME OInv, MarksPromise, NEW t \in Txn, Active(t), read_ts[t] > 0
             PROVE  r_until <= read_ts[t]
  BY Zenon DEF DiscardBelowReaders
<1>1. r_phase[t] = "begun" /\ r_mts[t] = read_ts[t]
  BY Zenon DEF OInv, MarksFollow, Active
<1> QED BY <1>1, Zenon DEF MarksPromise, read_mark!OpenNotPassed

\* The txn mark has not reached a commit that has begun and is not done: commit
\* timestamps are unique and above the one the mark was created with.
LEMMA UnfinishedAhead ==
  ASSUME OInv, MarksPromise, NEW u \in Txn, pc[u] \in {"send", "await_result"}
  PROVE  t_until < commit_ts[u]
<1>0. TypeOK /\ MarksFollow /\ Timestamps
  BY Zenon DEF OInv
<1>1. t_phase[u] = "begun" /\ t_mts[u] = commit_ts[u]
  BY <1>0, Zenon DEF MarksFollow
<1>2. u \in Allocated /\ commit_ts[u] > MaxVersion /\ commit_ts[u] > 0
  BY <1>0, Types DEF Timestamps, Allocated
<1>3. ASSUME NEW d \in Txn \ {u}, t_phase[d] # "none" PROVE t_mts[d] # t_mts[u]
  <2>1. pc[d] \in {"send", "await_result", "committed"} /\ t_mts[d] = commit_ts[d]
    BY <1>0, <1>3, SMTT(30) DEF MarksFollow
  <2>2. d \in Allocated
    BY <2>1, SMTT(30) DEF Allocated
  <2> QED BY <1>0, <1>1, <1>2, <2>1, <2>2, Zenon DEF Timestamps
<1>4. txn_mark!Alone(u)
  BY <1>3, Zenon DEF txn_mark!Alone
<1> QED BY <1>1, <1>2, <1>4, Zenon DEF MarksPromise, txn_mark!OpenNotPassed

\* A transaction that can be used has waited for its read timestamp.
LEMMA ActiveReached ==
  ASSUME OInv, MarksPromise, NEW t \in Txn, Active(t)
  PROVE  read_ts[t] <= t_until
BY Zenon DEF OInv, MarksPromise, MarksFollow, Active, txn_mark!WaitReturnSound

\* Versions enter the memtable only as the next request of the job.
LEMMA StoreGrows ==
  ASSUME [Next]_vars, store' # store
  PROVE  /\ written < Len(job) /\ UNCHANGED commit_ts
         /\ \E keys : store' = store \cup Versions(job[written + 1], keys)
<1>1. WriteToMemtable \/ FailJob
  <2>1. ASSUME NEW t \in Txn, Step(t) PROVE UNCHANGED store
    BY <2>1, Zenon DEF Step, BeginRead, WaitForCommits, SendWaiter, Notified, CheckConflict,
                DoneRead, AllocCommitTs, BeginCommit, SendToWriteChannel, FinishCommit,
                pipeVars
  <2>2. ASSUME NEW t \in Txn, GetReadTs(t) \/ Commit(t) \/ Discard(t) PROVE UNCHANGED store
    BY <2>2, Zenon DEF GetReadTs, Commit, Discard, pipeVars
  <2>3. ASSUME NEW t \in Txn, NEW k \in Key, Get(t, k) \/ Modify(t, k) PROVE UNCHANGED store
    BY <2>3, Zenon DEF Get, Modify, pipeVars
  <2>4. ReadMarkProcess \/ TxnMarkProcess => UNCHANGED store
    BY Zenon DEF ReadMarkProcess, TxnMarkProcess, pipeVars
  <2>5. RecvWrite \/ SpawnWrite \/ FinishJob \/ UNCHANGED vars => UNCHANGED store
    BY Zenon DEF RecvWrite, SpawnWrite, FinishJob, vars, pipeVars
  <2> QED BY <2>1, <2>2, <2>3, <2>4, <2>5, SMTT(30) DEF Next
<1>2. CASE WriteToMemtable
  BY <1>2, Zenon DEF WriteToMemtable, txnVars
<1>3. CASE FailJob
  BY <1>3, Zenon DEF FailJob, EndJob, txnVars
<1> QED BY <1>1, <1>2, <1>3, Zenon

\* A read timestamp is assigned once, by get_latest_read_ts, as the newest one
\* handed out.
LEMMA ReadTsOnce ==
  ASSUME TypeOK, [Next]_vars, NEW t \in Txn
  PROVE  /\ pc[t] # "start" => read_ts'[t] = read_ts[t]
         /\ pc[t] = "start" /\ pc'[t] # "start" => read_ts'[t] = next_txn_ts - 1
<1> DEFINE Once == /\ pc[t] # "start" => read_ts'[t] = read_ts[t]
                   /\ pc[t] = "start" /\ pc'[t] # "start" => read_ts'[t] = next_txn_ts - 1
<1>b. UNCHANGED read_ts /\ (pc[t] = "start" => pc'[t] = "start") => Once
  BY Zenon
<1>c. UNCHANGED <<read_ts, pc>> => Once
  BY Zenon
<1>a. DOMAIN pc = Txn /\ DOMAIN read_ts = Txn
  BY Zenon DEF TypeOK
<1>1. ASSUME NEW u \in Txn, Step(u) PROVE UNCHANGED read_ts /\ (pc[t] = "start" => pc'[t] = "start")
  <2>1. CASE BeginRead(u) \/ WaitForCommits(u) \/ DoneRead(u)
    BY <1>a, <2>1, Zenon DEF BeginRead, WaitForCommits, DoneRead
  <2>2. CASE AllocCommitTs(u) \/ BeginCommit(u) \/ SendToWriteChannel(u) \/ FinishCommit(u)
    BY <1>a, <2>2, Zenon DEF AllocCommitTs, BeginCommit, SendToWriteChannel, FinishCommit
  <2>3. CASE SendWaiter(u) \/ Notified(u)
    BY <2>3, Zenon DEF SendWaiter, Notified, txnVars
  <2>4. CASE CheckConflict(u)
    <3>1. PICK p : pc' = [pc EXCEPT ![u] = p]
      BY <2>4, Zenon DEF CheckConflict
    <3> QED BY <1>a, <2>4, <3>1, Zenon DEF CheckConflict
  <2> QED BY <1>1, <2>1, <2>2, <2>3, <2>4, Zenon DEF Step
<1>2. ASSUME NEW u \in Txn, Commit(u) \/ Discard(u)
      PROVE  UNCHANGED read_ts /\ (pc[t] = "start" => pc'[t] = "start")
  BY <1>a, <1>2, Zenon DEF Commit, Discard, Active
<1>3. ASSUME NEW u \in Txn, GetReadTs(u)
      PROVE  Once
  BY <1>a, <1>3, Zenon DEF GetReadTs
<1>4. ASSUME NEW u \in Txn, NEW k \in Key, Get(u, k) \/ Modify(u, k)
      PROVE  UNCHANGED <<read_ts, pc>>
  BY <1>4, Zenon DEF Get, Modify
<1>5. ReadMarkProcess \/ TxnMarkProcess => UNCHANGED <<read_ts, pc>>
  BY Zenon DEF ReadMarkProcess, TxnMarkProcess, txnVars
<1>6. RecvWrite \/ SpawnWrite \/ WriteToMemtable => UNCHANGED <<read_ts, pc>>
  BY Zenon DEF RecvWrite, SpawnWrite, WriteToMemtable, txnVars
<1>7. FinishJob \/ FailJob \/ UNCHANGED vars => UNCHANGED <<read_ts, pc>>
  BY Zenon DEF FinishJob, FailJob, EndJob, vars, txnVars
<1> HIDE DEF Once
<1>8. ASSUME NEW u \in Txn, Step(u) PROVE Once
  BY <1>1, <1>8, <1>b, Zenon
<1>9. ASSUME NEW u \in Txn, GetReadTs(u) \/ Commit(u) \/ Discard(u) PROVE Once
  BY <1>2, <1>3, <1>9, <1>b, Zenon
<1>10. ASSUME NEW u \in Txn, NEW k \in Key, Get(u, k) \/ Modify(u, k) PROVE Once
  BY <1>4, <1>10, <1>c, Zenon
<1>11. Once
  BY <1>5, <1>6, <1>7, <1>8, <1>9, <1>10, <1>c, Zenon DEF Next
<1> QED BY <1>11, Zenon DEF Once

\* What is written while a transaction is in use has a timestamp the txn mark has
\* not reached, so it is above the snapshot.
LEMMA SnapshotFixed ==
  ASSUME OInv, MarksPromise, [Next]_vars, NEW t \in Txn, Active(t)
  PROVE  Visible(t)' = Visible(t)
<1>0. TypeOK
  BY Zenon DEF OInv
<1>1. read_ts'[t] = read_ts[t]
  BY <1>0, ReadTsOnce, Zenon DEF Active
<1>2. CASE store' = store
  BY <1>1, <1>2, Zenon DEF Visible
<1>3. CASE store' # store
  <2> DEFINE u == job[written + 1]
  <2>1. PICK keys : store' = store \cup Versions(u, keys)
    BY <1>3, StoreGrows, Zenon
  <2>2. u \in Txn /\ pc[u] = "await_result"
    <3>1. written + 1 \in 1 .. Len(job) /\ u \in Txn
      BY <1>0, <1>3, StoreGrows, PipeTypes
    <3> QED BY <3>1, Zenon DEF OInv, Pipeline, Waiting
  <2>3. read_ts[t] <= t_until /\ t_until < commit_ts[u]
    BY <2>2, UnfinishedAhead, ActiveReached, Zenon
  <2>4. \A v \in Versions(u, keys) : ~(v.ts <= read_ts[t])
    <3>1. commit_ts[u] \in Nat /\ read_ts[t] \in Nat /\ t_until \in Nat
      BY <1>0, <2>2, Types, MarkTypes, SMTT(30)
    <3>2. \A v \in Versions(u, keys) : v.ts = commit_ts[u]
      BY <2>2, VersionTs, SMTT(30)
    <3> QED BY <2>3, <3>1, <3>2
  <2> QED BY <1>1, <2>1, <2>4, Zenon DEF Visible
<1> QED BY <1>2, <1>3, Zenon

\* get_latest_read_ts is at or above every commit timestamp handed out, and the
\* writes of a commit that returned successfully are in the memtable.
LEMMA SnapshotFresh ==
  ASSUME OInv, [Next]_vars, NEW t \in Txn, NEW u \in Txn, pc[u] = "committed"
  PROVE  /\ pc[t] = "start" /\ pc'[t] # "start" => commit_ts[u] <= read_ts'[t]
         /\ result[u] = "ok" /\ commit_ts[u] <= read_ts[t]
              => Versions(u, writes[u]) \subseteq Visible(t)
<1>0. TypeOK /\ Timestamps /\ Complete
  BY Zenon DEF OInv
<1>1. ASSUME pc[t] = "start", pc'[t] # "start" PROVE commit_ts[u] <= read_ts'[t]
  <2>1. u \in Allocated
    BY Zenon DEF Allocated
  <2> QED BY <1>0, <1>1, <2>1, ReadTsOnce, TsTypes DEF Timestamps
<1>2. ASSUME result[u] = "ok", commit_ts[u] <= read_ts[t]
      PROVE  Versions(u, writes[u]) \subseteq Visible(t)
  BY <1>0, <1>2, VersionTs, Zenon DEF Complete, Visible
<1> QED BY <1>1, <1>2, Zenon

\* The request that is written next is newer than everything in the memtable.
LEMMA StoreOrdered ==
  ASSUME OInv, [Next]_vars, NEW v \in store' \ store, NEW w \in store
  PROVE  w.ts <= v.ts
<1>0. TypeOK /\ Older
  BY Zenon DEF OInv
<1>1. written < Len(job) /\ \E keys : store' = store \cup Versions(job[written + 1], keys)
  BY StoreGrows, Zenon
<1>2. written + 1 \in written + 1 .. Len(job) /\ job[written + 1] \in Txn
  BY <1>0, <1>1, PipeTypes
<1>3. v.ts = commit_ts[job[written + 1]]
  BY <1>1, <1>2, VersionTs, Zenon
<1>4. w.ts < commit_ts[job[written + 1]]
  BY <1>0, <1>2, Zenon DEF Older, Newer
<1>5. w.ts \in Nat /\ v.ts \in Nat
  BY <1>0, <1>2, <1>3, TsTypes, Zenon
<1> QED BY <1>3, <1>4, <1>5
=============================================================================
