------------------------------- MODULE MCLogs -------------------------------
\* The value log and the logs of the memtables, one of them in every behaviour.
\* A page of three units and records of two and three let a record fit into the
\* write buffer, push it out, pass it by and cross a page; a request of two or three
\* records outgrows the file, which can fail.
EXTENDS ValueLog

CONSTANTS Request, MemtableSize, MaxEntry, MaxLog

VARIABLES which, m_dir, lists, fresh, mem, immut, queue, next_fid, m_next, m_pc, flusher

memtableVars == <<m_dir, lists, fresh, mem, immut, queue, next_fid, m_next, m_pc, flusher>>

M == INSTANCE MemLog WITH dir <- m_dir, next <- m_next, pc <- m_pc,
                          MaxRecord <- MaxEntry, MaxFid <- MaxLog

MCBatch == {<< <<2>> >>, << <<3, 3>> >>, << <<2, 0>>, <<3>> >>}
MCRequest == {<<2>>, <<3>>, <<2, 3, 2>>}

MCInit == which \in {"vlog", "memtables"} /\ Init /\ M!Init

MCNext ==
  /\ UNCHANGED which
  /\ \/ which = "vlog" /\ Next /\ UNCHANGED memtableVars
     \/ which = "memtables" /\ M!Next /\ UNCHANGED vars

MCSpec == MCInit /\ [][MCNext]_<<which, vars, memtableVars>>

\* The skip list of a memtable and its log agree at every moment (MemLog).
LogAgrees == M!LogAgrees

\* What a replay of a file of the value log, or of a memtable's log, finds is never
\* taken back except by a power failure (ValueLog, MemLog).
LogsGrow == ReplayGrows /\ M!WalReplayGrows

\* assert_eq!(s.wal().fid(), memtable.wal().fid()) in flush_memtable holds in a
\* database that was opened again (MemLog).
FlusherAlive == M!FlusherAlive
=============================================================================
