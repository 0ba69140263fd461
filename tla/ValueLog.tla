------------------------------ MODULE ValueLog ------------------------------
(***************************************************************************)
(* The value log: batches of requests written by the one write task,       *)
(* rotation, opening with the recovery of the last file, and crashes in    *)
(* between (vlog/mod.rs, vlog/write.rs).                                   *)
(***************************************************************************)
EXTENDS MmapLog, FiniteSets

CONSTANTS
  Batch,              \* requests, each the sizes of its entries; 0: below the threshold
  VlogFileSize,
  VlogMaxEntries,
  MaxVlogFileSize,    \* the offset no request may pass
  MaxRecord,          \* bound: records written
  MaxFid              \* bound: file numbers

ASSUME ValueLogAssumption == Page > 1 /\ VlogFileSize > VLOG_HEADER_SIZE

VARIABLES
  dir,          \* the log files of the directory, by number
  max_fid,
  cur,          \* number of the latest file in the map, 0 when it is missing
  offset,       \* writable_log_offset
  entries,      \* num_entries_written
  todo,         \* requests of the batch not written yet
  pend,         \* value pointers of the batch
  acked,        \* value pointers of batches that succeeded since the log was opened
  next,         \* name of the next record
  pc

fileVars == <<dir, max_fid, cur, offset, entries>>
batchVars == <<todo, pend, acked>>
vars == <<fileVars, batchVars, next, pc>>

Init ==
  /\ dir = <<>>
  /\ max_fid = 0 /\ cur = 0 /\ offset = 0 /\ entries = 0
  /\ todo = <<>> /\ pend = {} /\ acked = {}
  /\ next = 1
  /\ pc = "closed"

-----------------------------------------------------------------------------
\* ValueLog::validate_write: an estimate that reaches vlog_file_size counts as a
\* rotation, whatever is really written.
Estimate(req) == FoldSeq(LAMBDA n, sum : sum + n + 1, 0, req)
Validated(batch) ==
  LET step(acc, req) ==
        LET e == acc.at + Estimate(req)
        IN [ok |-> acc.ok /\ e <= MaxVlogFileSize,
            at |-> IF e >= VlogFileSize THEN 0 ELSE e]
  IN FoldLeft(step, [ok |-> TRUE, at |-> offset], batch).ok

WriteBatch ==
  /\ pc = "ready" /\ cur # 0
  /\ \E batch \in Batch :
       /\ Validated(batch)
       /\ next + FoldSeq(LAMBDA req, n : n + Len(req), 0, batch) <= MaxRecord + 1
       /\ todo' = batch
  /\ pc' = "writing"
  /\ UNCHANGED <<fileVars, pend, acked, next>>

\* The entries of a request.  The offset moves on before the file is made longer
\* and written, and stays there when that fails.
WriteEntry(s, n) ==
  LET end == s.offset + n
      grown == IF end >= Len(s.f.bytes) THEN Truncate(s.f, end) ELSE {Done(s.f)}
  IN IF ~s.ok \/ n = 0 THEN {s}
     ELSE {[ok |-> o.ok, f |-> o.f, offset |-> end, next |-> s.next + 1,
            ptrs |-> s.ptrs \cup {[rec |-> s.next, n |-> n, fid |-> cur, off |-> s.offset]}] :
             o \in Then(grown, LAMBDA g : WriteSlice(g, s.offset, Record(s.next, n)))}

WriteEntries(req) ==
  FoldLeft(LAMBDA S, n : UNION {WriteEntry(s, n) : s \in S},
           {[ok |-> TRUE, f |-> dir[cur], offset |-> offset, next |-> next, ptrs |-> {}]},
           req)

\* One error fails the whole batch.
FailBatch == todo' = <<>> /\ pend' = {} /\ pc' = "ready" /\ UNCHANGED acked

\* The next request, or the end of the batch, which hands out its pointers.
NextRequest(ptrs) ==
  /\ todo' = Tail(todo)
  /\ IF Len(todo) = 1
     THEN pend' = {} /\ acked' = acked \cup ptrs /\ pc' = "ready"
     ELSE pend' = ptrs /\ UNCHANGED acked /\ pc' = "writing"

WriteRequest ==
  /\ pc = "writing"
  /\ \E s \in WriteEntries(Head(todo)) :
       /\ dir' = [dir EXCEPT ![cur] = s.f]
       /\ offset' = s.offset
       /\ next' = s.next
       /\ IF ~s.ok THEN FailBatch /\ UNCHANGED entries
          ELSE /\ entries' = entries + Cardinality(s.ptrs)
               /\ IF s.offset > VlogFileSize \/ entries' > VlogMaxEntries
                  THEN /\ pend' = pend \cup s.ptrs
                       /\ pc' = "full"
                       /\ UNCHANGED <<todo, acked>>
                  ELSE NextRequest(pend \cup s.ptrs)
  /\ UNCHANGED <<max_fid, cur>>

\* The full file is cut at the offset, which never lies behind its end, even if
\* w_buf still holds its last records.
TruncateFull ==
  /\ pc = "full"
  /\ \E o \in Truncate(dir[cur], offset) : dir' = [dir EXCEPT ![cur] = o.f]
  /\ pc' = "rotating"
  /\ UNCHANGED <<max_fid, cur, offset, entries, batchVars, next>>

-----------------------------------------------------------------------------
With(fid, f) == [g \in DOMAIN dir \cup {fid} |-> IF g = fid THEN f ELSE dir[g]]

\* create_vlog_file.  The number is taken even when the file cannot be created; the
\* map then has no file for it, and get_latest_logfile fails from then on.
CreateVlogFile(done, failed) ==
  /\ max_fid < MaxFid
  /\ max_fid' = max_fid + 1
  /\ \/ /\ dir' = With(max_fid', Bootstrapped(2 * VlogFileSize))
        /\ cur' = max_fid'
        /\ offset' = VLOG_HEADER_SIZE
        /\ entries' = 0
        /\ done
     \/ /\ cur' = 0
        /\ failed
        /\ UNCHANGED <<dir, offset, entries>>
  /\ UNCHANGED next

Rotate == pc = "rotating" /\ CreateVlogFile(NextRequest(pend), FailBatch)

\* ValueLog::open and populate_files_map: a file that is only a header is deleted,
\* yet stays in the map; if it is the latest, truncating it fails.
OpenedFile(fid) ==
  IF dir[fid].bytes = <<>> THEN Bootstrapped(2 * VlogFileSize) ELSE Mapped(dir[fid].bytes)
EmptyFiles == {fid \in DOMAIN dir : Len(OpenedFile(fid).bytes) = VLOG_HEADER_SIZE}

Open ==
  LET last == CHOOSE m \in DOMAIN dir \cup {0} : \A f \in DOMAIN dir : f <= m
      kept == [fid \in DOMAIN dir \ EmptyFiles |-> OpenedFile(fid)]
  IN /\ pc = "closed"
     /\ max_fid' = last
     /\ IF last \in EmptyFiles \cup {0}
        THEN /\ dir' = kept
             /\ pc' = IF last = 0 THEN "opening" ELSE "closed"
        ELSE \E o \in Truncate(kept[last], ValidEnd(kept[last].bytes)) :
               /\ dir' = [kept EXCEPT ![last] = o.f]
               /\ pc' = IF o.ok THEN "opening" ELSE "closed"
     /\ UNCHANGED <<cur, offset, entries, batchVars, next>>

OpenCreate ==
  /\ pc = "opening"
  /\ CreateVlogFile(pc' = "ready", pc' = "closed")
  /\ UNCHANGED batchVars

-----------------------------------------------------------------------------
\* The process ends.

Ended ==
  /\ pc' = "closed"
  /\ max_fid' = 0 /\ cur' = 0 /\ offset' = 0 /\ entries' = 0
  /\ todo' = <<>> /\ pend' = {} /\ acked' = {}
  /\ UNCHANGED next

\* The database is dropped.
Close ==
  /\ pc = "ready"
  /\ dir' \in {d \in [DOMAIN dir -> UNION {Dropped(dir[f]) : f \in DOMAIN dir}] :
                 \A f \in DOMAIN dir : d[f] \in Dropped(dir[f])}
  /\ Ended

\* A crash, possibly while a file is created: without bytes, or without a header.
Crash ==
  /\ pc # "closed"
  /\ LET after == [f \in DOMAIN dir |-> Crashed(dir[f])]
     IN \/ dir' = after
        \/ /\ pc \in {"opening", "rotating"} /\ max_fid < MaxFid
           /\ \E bytes \in {<<>>, Zeros(2 * VlogFileSize)} :
                dir' = [f \in DOMAIN dir \cup {max_fid + 1} |->
                          IF f \in DOMAIN dir THEN after[f] ELSE Mapped(bytes)]
  /\ Ended

\* A crash of an open between set_len and remove_file in MmapFile::delete.
DeleteInterrupted ==
  /\ pc = "closed"
  /\ \E fid \in EmptyFiles : dir' = [dir EXCEPT ![fid] = Mapped(<<>>)]
  /\ UNCHANGED <<max_fid, cur, offset, entries, batchVars, next, pc>>

\* Pages of one file that were not flushed are lost.
PowerFail ==
  /\ pc # "closed"
  /\ \E fid \in DOMAIN dir : \E lost \in SUBSET (0 .. (Len(dir[fid].bytes) - 1) \div Page) :
       dir' = [f \in DOMAIN dir |-> IF f = fid THEN PowerFailed(dir[f], lost)
                                               ELSE Crashed(dir[f])]
  /\ Ended

Next ==
  \/ WriteBatch \/ WriteRequest \/ TruncateFull \/ Rotate
  \/ Open \/ OpenCreate \/ Close \/ Crash \/ DeleteInterrupted \/ PowerFail

Spec == Init /\ [][Next]_vars

-----------------------------------------------------------------------------
\* Properties.

\* A value pointer that a successful batch handed out names its record, in the
\* mapping or in the write buffer, whatever writes failed before or after it, until
\* the process ends: no write overlaps another, and truncating a full file cuts
\* nothing off.
PointersHold ==
  \A p \in acked : SubSeq(Seen(dir[p.fid]), p.off + 1, p.off + p.n) = Record(p.rec, p.n)

\* What a replay of a log file finds is never taken back: no write, failed write,
\* rotation, crash, clean end or opening cuts it off, and no file with a record is
\* deleted or created again.  Only a power failure can lose some of it.
ReplayGrows ==
  [][PowerFail \/ \A fid \in DOMAIN dir :
       IF fid \in DOMAIN dir'
       THEN IsPrefix(Replayed(dir[fid].bytes), Replayed(dir'[fid].bytes))
       ELSE Replayed(dir[fid].bytes) = <<>>]_vars
=============================================================================
