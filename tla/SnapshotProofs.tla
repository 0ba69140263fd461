--------------------------- MODULE SnapshotProofs ---------------------------
(***************************************************************************)
(* Every transaction has a fixed snapshot, for any number of transactions, *)
(* any keys, any version found at opening and any capacities.  The oracle  *)
(* uses its two water marks as their clients must (module TxnOracleProofs) *)
(* and the marks then keep their promises (module WaterMarkProofs, used    *)
(* here by instance, once for each mark).                                  *)
(***************************************************************************)
EXTENDS TxnOracleProofs

R == INSTANCE WaterMarkProofs WITH
  Client <- Txn, InitUntil <- MaxVersion,
  done_until <- r_until, last_index <- r_last, chan <- r_chan, heap <- r_heap,
  pending <- r_pending, phase <- r_phase, mts <- r_mts,
  waiters <- {}, notified <- {},
  wait <- [t \in Txn |-> "none"], wts <- [t \in Txn |-> MaxVersion]

T == INSTANCE WaterMarkProofs WITH
  Client <- Txn, InitUntil <- MaxVersion,
  done_until <- t_until, last_index <- t_last, chan <- t_chan, heap <- t_heap,
  pending <- t_pending, phase <- t_phase, mts <- t_mts,
  waiters <- t_waiters, notified <- t_notified, wait <- t_wait, wts <- t_wts

-----------------------------------------------------------------------------
\* The two marks.

\* The oracle's constants are ones a water mark may be given: timestamps are
\* naturals, max_version is one of them, the channel has room.
LEMMA MarkConstants ==
  /\ Ts \subseteq Nat /\ MaxVersion \in Ts /\ ChanCap \in Nat \ {0}
  /\ R!IsFiniteSet(Txn) /\ T!IsFiniteSet(Txn)
<1>1. R!IsFiniteSet(Txn) /\ T!IsFiniteSet(Txn)
  BY OracleAssumption, Zenon DEF R!IsFiniteSet, T!IsFiniteSet, IsFiniteSet
<1> QED BY <1>1, OracleAssumption DEF Ts

\* The read mark that the proofs of module WaterMark are about is the oracle's.
LEMMA ReadMarkInit == read_mark!Init <=> R!Init
BY Zenon DEF read_mark!Init, R!Init

LEMMA ReadMarkNext == [read_mark!Next]_(read_mark!vars) <=> [R!Next]_(R!vars)
<1>1. read_mark!vars = R!vars /\ read_mark!vars' = R!vars'
  BY Zenon DEF read_mark!vars, read_mark!procVars, read_mark!clientVars, read_mark!waitVars,
         R!vars, R!procVars, R!clientVars, R!waitVars
<1>2. read_mark!Process <=> R!Process
  <2>1. ASSUME NEW t, NEW done PROVE read_mark!ProcessOne(t, done) <=> R!ProcessOne(t, done)
    BY DEF read_mark!ProcessOne, read_mark!Counted, read_mark!Popped, read_mark!Woken,
           R!ProcessOne, R!Counted, R!Popped, R!Woken
  <2>2. ASSUME NEW mark PROVE read_mark!RegisterWaiter(mark) <=> R!RegisterWaiter(mark)
    BY Zenon DEF read_mark!RegisterWaiter, R!RegisterWaiter
  <2> QED
    BY <2>1, <2>2, Zenon DEF read_mark!Process, read_mark!clientVars, read_mark!waitVars,
                      R!Process, R!clientVars, R!waitVars
<1>3. read_mark!Next <=> R!Next
  BY <1>2, Zenon
    DEF read_mark!Next, read_mark!Begin, read_mark!Done, read_mark!WaitForMark,
        read_mark!SendWaiter, read_mark!Notified, read_mark!Send, read_mark!BeginMark,
        read_mark!DoneMark, read_mark!WaitMark, read_mark!procVars,
        read_mark!clientVars, read_mark!waitVars,
        R!Next, R!Begin, R!Done, R!WaitForMark, R!SendWaiter, R!Notified, R!Send,
        R!BeginMark, R!DoneMark, R!WaitMark, R!procVars, R!clientVars, R!waitVars
<1> QED
  BY <1>1, <1>3, Zenon

\* So is the txn mark.
LEMMA TxnMarkInit == txn_mark!Init <=> T!Init
BY Zenon DEF txn_mark!Init, T!Init

LEMMA TxnMarkNext == [txn_mark!Next]_(txn_mark!vars) <=> [T!Next]_(T!vars)
<1>1. txn_mark!vars = T!vars /\ txn_mark!vars' = T!vars'
  BY Zenon DEF txn_mark!vars, txn_mark!procVars, txn_mark!clientVars, txn_mark!waitVars,
         T!vars, T!procVars, T!clientVars, T!waitVars
<1>2. txn_mark!Process <=> T!Process
  <2>1. ASSUME NEW t, NEW done PROVE txn_mark!ProcessOne(t, done) <=> T!ProcessOne(t, done)
    <3>1. txn_mark!Counted(t, done) = T!Counted(t, done)
      BY Zenon DEF txn_mark!Counted, T!Counted
    <3>2. \A h, p : txn_mark!Popped(h, p) = T!Popped(h, p)
      BY Zenon DEF txn_mark!Popped, T!Popped
    <3>3. \A until : txn_mark!Woken(until) = T!Woken(until)
      BY Zenon DEF txn_mark!Woken, txn_mark!Cardinality, txn_mark!IsFiniteSet,
                   T!Woken, T!Cardinality, T!IsFiniteSet
    <3> QED BY <3>1, <3>2, <3>3, Zenon DEF txn_mark!ProcessOne, T!ProcessOne
  <2>2. ASSUME NEW mark PROVE txn_mark!RegisterWaiter(mark) <=> T!RegisterWaiter(mark)
    BY Zenon DEF txn_mark!RegisterWaiter, T!RegisterWaiter
  <2> QED
    BY <2>1, <2>2, Zenon DEF txn_mark!Process, txn_mark!clientVars, txn_mark!waitVars,
                      T!Process, T!clientVars, T!waitVars
<1>3. txn_mark!Next <=> T!Next
  BY <1>2, Zenon
    DEF txn_mark!Next, txn_mark!Begin, txn_mark!Done, txn_mark!WaitForMark,
        txn_mark!SendWaiter, txn_mark!Notified, txn_mark!Send, txn_mark!BeginMark,
        txn_mark!DoneMark, txn_mark!WaitMark, txn_mark!procVars,
        txn_mark!clientVars, txn_mark!waitVars,
        T!Next, T!Begin, T!Done, T!WaitForMark, T!SendWaiter, T!Notified, T!Send,
        T!BeginMark, T!DoneMark, T!WaitMark, T!procVars, T!clientVars, T!waitVars
<1> QED
  BY <1>1, <1>3, Zenon

-----------------------------------------------------------------------------
\* What the marks guarantee the oracle.

\* The invariants of the marks, and the oracle's own.
IInv == OInv /\ R!IInv /\ T!IInv

\* The invariants of the marks give what the oracle relies on.
LEMMA MarksKeepPromise == R!IInv /\ T!IInv => MarksPromise
<1> SUFFICES ASSUME R!IInv, T!IInv PROVE MarksPromise
  BY Zenon
<1>1. R!OpenNotPassed
  BY R!IInvOpen, MarkConstants, Zenon
<1>2. read_mark!OpenNotPassed
  BY <1>1, Zenon DEF R!OpenNotPassed, R!Alone, read_mark!OpenNotPassed, read_mark!Alone
<1>3. T!OpenNotPassed
  BY T!IInvOpen, MarkConstants, Zenon
<1>4. txn_mark!OpenNotPassed
  BY <1>3, Zenon DEF T!OpenNotPassed, T!Alone, txn_mark!OpenNotPassed, txn_mark!Alone
<1>5. r_until <= r_last /\ t_until <= t_last
  BY Zenon DEF R!IInv, R!HeapInv, R!UntilBehind, T!IInv, T!HeapInv, T!UntilBehind
<1>6. read_mark!TypeOK
  BY Zenon DEF R!IInv, R!TypeOK, R!Mark, read_mark!TypeOK, read_mark!Mark
<1>7. txn_mark!TypeOK
  BY Zenon DEF T!IInv, T!TypeOK, T!Mark, txn_mark!TypeOK, txn_mark!Mark
<1>8. txn_mark!WaitReturnSound
  BY Zenon DEF T!IInv, T!WaitInv, T!WaitReturnSound, txn_mark!WaitReturnSound
<1> QED BY <1>2, <1>4, <1>5, <1>6, <1>7, <1>8, Zenon DEF MarksPromise

\* The oracle's steps are steps of the marks' clients, so the marks' invariants
\* hold on, and with their promises the oracle's own.
LEMMA NextInvariant == IInv /\ [Next]_vars => IInv'
<1> SUFFICES ASSUME IInv, [Next]_vars PROVE IInv'
  BY Zenon
<1>1. OInv /\ R!IInv /\ T!IInv
  BY Zenon DEF IInv
<1>2. [read_mark!Next]_(read_mark!vars) /\ [txn_mark!Next]_(txn_mark!vars)
  BY <1>1, NextUsesMarks, Zenon
<1>3. R!IInv' /\ r_until <= r_until'
  BY <1>1, <1>2, R!NextIInv, R!UntilGrows, MarkConstants, ReadMarkNext, Zenon
<1>4. T!IInv'
  BY <1>1, <1>2, T!NextIInv, MarkConstants, TxnMarkNext, Zenon
<1>5. (R!IInv /\ T!IInv => MarksPromise)'
  BY MarksKeepPromise, PTL
<1>6. MarksPromise /\ MarksPromise'
  BY <1>1, <1>3, <1>4, <1>5, MarksKeepPromise, Zenon
<1>7. OInv'
  BY <1>1, <1>3, <1>6, NextOInv, Zenon
<1> QED BY <1>3, <1>4, <1>7, Zenon DEF IInv

\* Oracle::new creates both marks at max_version, where their invariants hold.
LEMMA InitInvariant == Init => IInv
<1> SUFFICES ASSUME Init PROVE IInv
  BY Zenon
<1>1. read_mark!Init /\ txn_mark!Init
  BY Zenon DEF Init
<1>2. R!IInv
  BY <1>1, R!InitIInv, MarkConstants, ReadMarkInit, Zenon
<1>3. T!IInv
  BY <1>1, T!InitIInv, MarkConstants, TxnMarkInit, Zenon
<1> QED BY <1>2, <1>3, InitOInv, Zenon DEF IInv
-----------------------------------------------------------------------------
\* The theorems.

\* The composition of the oracle, the transactions, the write pipeline and the two
\* water marks never leaves its invariant.
THEOREM OracleInvariance == Spec => []IInv
BY InitInvariant, NextInvariant, PTL DEF Spec

\* Locks are held by the transactions that the code says hold them, timestamps are
\* handed out once, requests travel in timestamp order and the memtable is older
\* than all of them.
THEOREM OracleInv == Spec => []OInv
<1>1. IInv => OInv
  BY Zenon DEF IInv
<1> QED BY <1>1, OracleInvariance, PTL

\* The debug assertions of cleanup_committed_txns and get_latest_commit_ts hold.
THEOREM AssertionsHold == Spec => []CleanupBehind
<1>1. OInv => CleanupBehind
  BY Zenon DEF OInv
<1> QED BY <1>1, OracleInv, PTL

\* discard_at_or_below never passes the snapshot of a transaction in use.
THEOREM DiscardIsSafe == Spec => []DiscardBelowReaders
<1>1. IInv => DiscardBelowReaders
  BY DiscardBelow, MarksKeepPromise, Zenon DEF IInv
<1> QED BY <1>1, OracleInvariance, PTL

\* The oracle begins in timestamp order on both marks and waits only for commits
\* that have begun: it is a client that module WaterMark allows.
THEOREM OracleUsesMarks == Spec => UsesMarks
<1>1. Init => read_mark!Init /\ txn_mark!Init
  BY Zenon DEF Init
<1>2. IInv /\ [Next]_vars => [read_mark!Next]_(read_mark!vars) /\ [txn_mark!Next]_(txn_mark!vars)
  BY NextUsesMarks, Zenon DEF IInv
<1> QED
  BY <1>1, <1>2, OracleInvariance, PTL DEF Spec, UsesMarks, read_mark!Spec, txn_mark!Spec

\* The snapshot of a transaction never changes while it is in use.
THEOREM SnapshotIsolation == Spec => RepeatableRead
<1>1. ASSUME IInv, [Next]_vars
      PROVE  [\A t \in Txn : Active(t) /\ Active(t)' => Visible(t)' = Visible(t)]_vars
  <2>1. OInv /\ MarksPromise
    BY <1>1, MarksKeepPromise, Zenon DEF IInv
  <2> QED BY <1>1, <2>1, SnapshotFixed, Zenon
<1> QED BY <1>1, OracleInvariance, PTL DEF Spec, RepeatableRead

\* A transaction started after a commit returned reads at or above it and finds
\* all it wrote.
THEOREM ReadsCommitted == Spec => FreshSnapshot
<1> DEFINE Fresh(t, u) ==
      pc[u] = "committed" =>
        /\ pc[t] = "start" /\ pc'[t] # "start" => commit_ts[u] <= read_ts'[t]
        /\ ~Active(t) /\ Active(t)' /\ result[u] = "ok" /\ commit_ts[u] <= read_ts[t]
             => Versions(u, writes[u]) \subseteq Visible(t)
<1>1. ASSUME IInv, [Next]_vars PROVE [\A t, u \in Txn : Fresh(t, u)]_vars
  <2>1. OInv
    BY <1>1, Zenon DEF IInv
  <2> QED BY <1>1, <2>1, SnapshotFresh, Zenon
<1> QED BY <1>1, OracleInvariance, PTL DEF Spec, FreshSnapshot

\* Commits reach the memtable in the order of their timestamps.
THEOREM CommitsInOrder == Spec => CommitOrder
<1>1. ASSUME IInv, [Next]_vars
      PROVE  [\A v \in store' \ store : \A w \in store : w.ts <= v.ts]_vars
  <2>1. OInv
    BY <1>1, Zenon DEF IInv
  <2> QED BY <1>1, <2>1, StoreOrdered, Zenon
<1> QED BY <1>1, OracleInvariance, PTL DEF Spec, CommitOrder
=============================================================================
