------------------------------- MODULE DirLock -------------------------------
\* The directory locks a database takes when it opens (util/lock.rs, called from
\* DB::open over the directories of Config::init_lock_guard): flock on each
\* directory, shared for a read-only database, and a file with the process's pid.
\* A pid is its decimal digits, since the file is written over, not truncated.
EXTENDS Naturals, Sequences

CONSTANTS Proc, Dir,
          PidOf,           \* the digits of a process's pid
          ReadOnly         \* the processes that open read-only

VARIABLES pc,              \* "closed", "opening", "open", "closing", "crashed"
          todo,            \* directories that try_build has still to lock
          holds,           \* the guards: directories
          removed,         \* the directory whose guard has removed its pid file
          flocks,          \* directory -> processes with a flock on it
          pid_file,        \* directory -> digits, NoFile
          left             \* a pid file may have been left behind

vars == <<pc, todo, holds, removed, flocks, pid_file, left>>

NoFile == <<>>
NoDir == "no directory"

Init ==
  /\ pc = [p \in Proc |-> "closed"]
  /\ todo = [p \in Proc |-> {}]
  /\ holds = [p \in Proc |-> {}]
  /\ removed = [p \in Proc |-> NoDir]
  /\ flocks = [d \in Dir |-> {}]
  /\ pid_file = [d \in Dir |-> NoFile]
  /\ left = FALSE

TryBuild(p) ==
  /\ pc[p] = "closed"
  /\ pc' = [pc EXCEPT ![p] = "opening"]
  /\ todo' = [todo EXCEPT ![p] = Dir]
  /\ UNCHANGED <<holds, removed, flocks, pid_file, left>>

CanLock(p, d) ==
  IF p \in ReadOnly THEN flocks[d] \subseteq ReadOnly ELSE flocks[d] = {}

\* Writing pid over what the file holds.
Overwrite(old, pid) == pid \o SubSeq(old, Len(pid) + 1, Len(old))

\* acquire_lock, in the order of a hash set.  If the lock is taken, or the pid file
\* cannot be opened or written (which drops the descriptor, and the flock with it), the
\* guards so far are dropped.
AcquireLock(p, d) ==
  /\ pc[p] = "opening" /\ d \in todo[p]
  /\ \/ /\ CanLock(p, d)
        /\ flocks' = [flocks EXCEPT ![d] = @ \cup {p}]
        /\ holds' = [holds EXCEPT ![p] = @ \cup {d}]
        /\ todo' = [todo EXCEPT ![p] = @ \ {d}]
        /\ pid_file' = IF p \in ReadOnly THEN pid_file
                       ELSE [pid_file EXCEPT ![d] = Overwrite(@, PidOf[p])]
        /\ pc' = IF todo[p] = {d} THEN [pc EXCEPT ![p] = "open"] ELSE pc
        /\ UNCHANGED left
     \/ /\ \/ ~CanLock(p, d) /\ UNCHANGED <<pid_file, left>>
           \/ /\ CanLock(p, d) /\ p \notin ReadOnly
              /\ \E n \in 0 .. Len(PidOf[p]) :
                   /\ pid_file' = [pid_file EXCEPT ![d] = Overwrite(@, SubSeq(PidOf[p], 1, n))]
                   /\ left' = (left \/ n > 0)
        /\ pc' = [pc EXCEPT ![p] = "closing"]
        /\ todo' = [todo EXCEPT ![p] = {}]
        /\ UNCHANGED <<flocks, holds>>
  /\ UNCHANGED removed

Close(p) ==
  /\ pc[p] = "open"
  /\ pc' = [pc EXCEPT ![p] = "closing"]
  /\ UNCHANGED <<todo, holds, removed, flocks, pid_file, left>>

\* Variant: the lock goes first, then the pid file.
UnlockFirst(p, d) ==
  /\ pc[p] = "closing" /\ removed[p] = NoDir /\ d \in holds[p]
  /\ \/ flocks' = [flocks EXCEPT ![d] = @ \ {p}] /\ p \in flocks[d] /\ UNCHANGED <<pid_file, removed>>
     \/ /\ p \notin flocks[d]
        /\ pid_file' = [pid_file EXCEPT ![d] = NoFile]
        /\ removed' = [removed EXCEPT ![p] = d]
        /\ UNCHANGED flocks
  /\ UNCHANGED <<pc, todo, holds, left>>

\* Drop of a guard, in two steps that another process may come between: the pid file
\* is removed, or that fails, then the lock.
RemovePid(p, d) ==
  /\ pc[p] = "closing" /\ removed[p] = NoDir /\ d \in holds[p]
  /\ \/ /\ pid_file' = IF p \in ReadOnly THEN pid_file ELSE [pid_file EXCEPT ![d] = NoFile]
        /\ UNCHANGED left
     \/ p \notin ReadOnly /\ left' = TRUE /\ UNCHANGED pid_file
  /\ removed' = [removed EXCEPT ![p] = d]
  /\ UNCHANGED <<pc, todo, holds, flocks>>

Unlock(p) ==
  LET d == removed[p] IN
  /\ pc[p] = "closing" /\ d # NoDir
  /\ flocks' = [flocks EXCEPT ![d] = @ \ {p}]
  /\ holds' = [holds EXCEPT ![p] = @ \ {d}]
  /\ removed' = [removed EXCEPT ![p] = NoDir]
  /\ UNCHANGED <<pc, todo, pid_file, left>>

Closed(p) ==
  /\ pc[p] = "closing" /\ holds[p] = {}
  /\ pc' = [pc EXCEPT ![p] = "closed"]
  /\ UNCHANGED <<todo, holds, removed, flocks, pid_file, left>>

\* The process dies: the kernel drops its locks, the pid files stay.
Crash(p) ==
  /\ pc[p] \in {"opening", "open", "closing"}
  /\ pc' = [pc EXCEPT ![p] = "crashed"]
  /\ todo' = [todo EXCEPT ![p] = {}]
  /\ holds' = [holds EXCEPT ![p] = {}]
  /\ removed' = [removed EXCEPT ![p] = NoDir]
  /\ flocks' = [d \in Dir |-> flocks[d] \ {p}]
  /\ left' = (left \/ holds[p] # {})
  /\ UNCHANGED pid_file

Next ==
  \E p \in Proc :
    \/ TryBuild(p) \/ Close(p) \/ Unlock(p) \/ Closed(p) \/ Crash(p)
    \/ \E d \in Dir : AcquireLock(p, d) \/ RemovePid(p, d)

Spec == Init /\ [][Next]_vars

-----------------------------------------------------------------------------
BeginsWith(s, t) == Len(t) <= Len(s) /\ SubSeq(s, 1, Len(t)) = t

Writing(p, d) == p \notin ReadOnly /\ d \in holds[p] /\ removed[p] # d

\* A directory that a database has open for writing is held by no other process, and
\* its pid file begins with the pid of that process, whatever opens, fails to open,
\* closes and crashes around it; the file is that pid exactly if none was left behind by
\* a crash, or by a failure to write or to remove it.
PidNamesHolder ==
  \A p \in Proc, d \in Dir :
    Writing(p, d) =>
      /\ flocks[d] = {p}
      /\ \A q \in Proc \ {p} : d \notin holds[q]
      /\ BeginsWith(pid_file[d], PidOf[p])
      /\ ~left => pid_file[d] = PidOf[p]
=============================================================================
