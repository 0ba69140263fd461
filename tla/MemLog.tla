------------------------------- MODULE MemLog -------------------------------
(***************************************************************************)
(* The logs of the memtables: pushing an entry, rotating to a new          *)
(* memtable, and what opening the database makes of the logs it finds      *)
(* (memtable/mod.rs, memtable/write.rs).  The order of the steps of a      *)
(* rotation and of a flush is that of MemTables.                           *)
(***************************************************************************)
EXTENDS MmapLog, FiniteSets

CONSTANTS
  Request,         \* the sizes of the entries of a request
  MemtableSize,
  MaxRecord,       \* bound: entries pushed
  MaxFid           \* bound: file numbers

VARIABLES
  dir,             \* the log files of the directory, by number
  lists,           \* records in the skip list of every open memtable
  fresh,           \* numbers of the memtables created since the database was opened
  mem,             \* number of the mutable memtable, 0 when there is none
  immut,           \* immut_memtable, in order
  queue,           \* memtables sent to the flush task
  next_fid,
  next,            \* name of the next record
  pc,              \* "closed", "opening", "ready"
  flusher          \* "alive" or "dead"

memVars == <<dir, lists, fresh, mem, immut, queue, next_fid>>
vars == <<memVars, next, pc, flusher>>

Init ==
  /\ dir = <<>> /\ lists = <<>> /\ fresh = {}
  /\ mem = 0 /\ immut = <<>> /\ queue = <<>>
  /\ next_fid = 0 /\ next = 1
  /\ pc = "closed" /\ flusher = "alive"

With(fun, fid, v) == [g \in DOMAIN fun \cup {fid} |-> IF g = fid THEN v ELSE fun[g]]

\* MemTable::is_full.
IsFull == \/ Cardinality(lists[mem]) >= MemtableSize
          \/ WriteOffset(dir[mem]) >= MemtableSize

\* Variant: the entry goes into the skip list although the log refused it.
PushAnyway(s, n) ==
  {[f |-> o.f, list |-> s.list \cup {s.next}, next |-> s.next + 1, ok |-> TRUE] :
     o \in WriteSlice(s.f, WriteOffset(s.f), Record(s.next, n))}

\* MemTable::push: the log first, then the skip list.  An error ends the request.
Push(s, n) ==
  IF ~s.ok THEN {s}
  ELSE {[f |-> o.f, list |-> s.list \cup (IF o.ok THEN {s.next} ELSE {}),
         next |-> s.next + 1, ok |-> o.ok] :
          o \in WriteSlice(s.f, WriteOffset(s.f), Record(s.next, n))}

\* write_to_memtable: the entries of a request, behind one look at is_full.
PushRequest(req) ==
  /\ pc = "ready" /\ ~IsFull /\ next + Len(req) <= MaxRecord + 1
  /\ \E s \in FoldLeft(LAMBDA S, n : UNION {Push(t, n) : t \in S},
                       {[f |-> dir[mem], list |-> lists[mem], next |-> next, ok |-> TRUE]},
                       req) :
       /\ dir' = [dir EXCEPT ![mem] = s.f]
       /\ lists' = [lists EXCEPT ![mem] = s.list]
       /\ next' = s.next
  /\ UNCHANGED <<fresh, mem, immut, queue, next_fid, pc, flusher>>

\* MemTableConfig::new takes a number; a file that is already there is an error.
New(done, failed) ==
  /\ next_fid <= MaxFid
  /\ next_fid' = next_fid + 1
  /\ \/ /\ next_fid \notin DOMAIN dir
        /\ dir' = With(dir, next_fid, Bootstrapped(2 * MemtableSize))
        /\ lists' = With(lists, next_fid, {})
        /\ fresh' = fresh \cup {next_fid}
        /\ mem' = next_fid
        /\ done
     \/ failed /\ UNCHANGED <<dir, lists, fresh, mem>>

\* ensure_boom_for_write.
Rotate ==
  /\ pc = "ready" /\ IsFull
  /\ New(immut' = Append(immut, mem) /\ queue' = Append(queue, mem),
         UNCHANGED <<immut, queue>>)
  /\ UNCHANGED <<next, pc, flusher>>

\* flush_memtable: what immut_memtable pops must be what was flushed.
Flush ==
  /\ pc = "ready" /\ flusher = "alive" /\ queue # <<>>
  /\ queue' = Tail(queue)
  /\ immut' = Tail(immut)
  /\ flusher' = IF Head(immut) = Head(queue) THEN "alive" ELSE "dead"
  /\ UNCHANGED <<dir, lists, fresh, mem, next_fid, next, pc>>

\* open_many.  Every log is reloaded and cut at its valid end.  No record has
\* Meta::TXN after decode_from, so next returns no entry, and every skip list stays
\* empty; is_empty is never true, since find_last returns the head of an empty list.
OpenedFile(fid) ==
  IF dir[fid].bytes = <<>> THEN Bootstrapped(2 * MemtableSize)
  ELSE [Mapped(dir[fid].bytes) EXCEPT
          !.bytes = SubSeq(@, 1, ValidEnd(@)), !.safe = ValidEnd(dir[fid].bytes)]

OpenMany ==
  /\ pc = "closed"
  /\ dir' = [fid \in DOMAIN dir |-> OpenedFile(fid)]
  /\ lists' = [fid \in DOMAIN dir |-> {}]
  /\ immut' = SetToSortSeq(DOMAIN dir, <)
  /\ next_fid' = 1 + (IF DOMAIN dir = {} THEN 0 ELSE Last(immut'))
  /\ pc' = "opening"
  /\ UNCHANGED <<fresh, mem, queue, next, flusher>>

OpenNew ==
  /\ pc = "opening"
  /\ New(pc' = "ready", pc' = "closed")
  /\ UNCHANGED <<immut, queue, next, flusher>>

Ended ==
  /\ lists' = <<>> /\ fresh' = {} /\ mem' = 0 /\ immut' = <<>> /\ queue' = <<>>
  /\ next_fid' = 0 /\ pc' = "closed" /\ flusher' = "alive"
  /\ UNCHANGED next

Close ==
  /\ pc = "ready"
  /\ dir' \in {d \in [DOMAIN dir -> UNION {Dropped(dir[f]) : f \in DOMAIN dir}] :
                 \A f \in DOMAIN dir : d[f] \in Dropped(dir[f])}
  /\ Ended

Crash ==
  /\ pc # "closed"
  /\ LET after == [f \in DOMAIN dir |-> Crashed(dir[f])]
     IN \/ dir' = after
        \/ /\ next_fid <= MaxFid /\ next_fid \notin DOMAIN dir
           /\ \E bytes \in {<<>>, Zeros(2 * MemtableSize)} :
                dir' = With(after, next_fid, Mapped(bytes))
  /\ Ended

PowerFail ==
  /\ pc # "closed"
  /\ \E fid \in DOMAIN dir : \E lost \in SUBSET (0 .. (Len(dir[fid].bytes) - 1) \div Page) :
       dir' = [f \in DOMAIN dir |-> IF f = fid THEN PowerFailed(dir[f], lost)
                                               ELSE Crashed(dir[f])]
  /\ Ended

Next ==
  \/ \E req \in Request : PushRequest(req)
  \/ Rotate \/ Flush \/ OpenMany \/ OpenNew \/ Close \/ Crash \/ PowerFail

Spec == Init /\ [][Next]_vars

-----------------------------------------------------------------------------
\* Properties.

\* The skip list of a memtable and its log agree at every moment: the entries in
\* the list are exactly those a replay of the log would find if the buffer were
\* written out, also after pushes that failed half way.
LogAgrees ==
  \A fid \in fresh :
    lists[fid] = {u.rec : u \in ToSet(Replayed(Seen(dir[fid])))}

\* What a replay of a memtable's log finds is never taken back, except by a power
\* failure: opening cuts a log only behind its last complete entry.
WalReplayGrows ==
  [][PowerFail \/ \A fid \in DOMAIN dir :
       /\ fid \in DOMAIN dir'
       /\ IsPrefix(Replayed(dir[fid].bytes), Replayed(dir'[fid].bytes))]_vars

\* assert_eq!(s.wal().fid(), memtable.wal().fid()) in flush_memtable: the memtable
\* that leaves immut_memtable is the one that was flushed, also in a database that
\* was opened again.
FlusherAlive == flusher = "alive"
=============================================================================
