------------------------------- MODULE Throttle -------------------------------
\* The Throttle (util/mod.rs) as the opening of tables uses it (level/levels.rs): an
\* opener takes a permit for every table and spawns a task that opens it; a task
\* that fails sends its error into a channel of one place before it gives the permit
\* back; finish takes every permit and then looks for an error.
EXTENDS Naturals, FiniteSets

CONSTANTS Task,
          MaxPermits       \* Throttle::new(3) in levels.rs

VARIABLES task,            \* "new", "open", "sending", "ok", "err", "panic"
          errors,          \* how many errors are in the channel, 0 or 1
          opener           \* "acquire", "finish", "ok", "err"

vars == <<task, errors, opener>>

Init ==
  /\ task = [t \in Task |-> "new"]
  /\ errors = 0
  /\ opener = "acquire"

Holds(t) == task[t] \in {"open", "sending"}
Permits == MaxPermits - Cardinality({t \in Task : Holds(t)})

\* Variant: finish waits for one permit.
OnePermit == 1

\* The permits finish waits for.
AllPermits == MaxPermits

\* acquire: a permit, and the task is spawned; or an error, and the opener returns it,
\* which drops the throttle and the channel's receiver.  select! takes either.
Acquire(t) ==
  /\ opener = "acquire" /\ task[t] = "new" /\ Permits > 0
  /\ task' = [task EXCEPT ![t] = "open"]
  /\ UNCHANGED <<errors, opener>>

AcquireError ==
  /\ opener = "acquire" /\ errors = 1 /\ \E t \in Task : task[t] = "new"
  /\ opener' = "err"
  /\ errors' = 0
  /\ UNCHANGED task

\* done_with_future: the table opens, or not; the send of the error waits for room and
\* panics when the receiver is gone.
TaskEnds(t) ==
  /\ task[t] = "open"
  /\ \E to \in {"ok", "sending"} : task' = [task EXCEPT ![t] = to]
  /\ UNCHANGED <<errors, opener>>

SendError(t) ==
  /\ task[t] = "sending"
  /\ IF opener = "err"
     THEN task' = [task EXCEPT ![t] = "panic"] /\ UNCHANGED errors
     ELSE errors = 0 /\ errors' = 1 /\ task' = [task EXCEPT ![t] = "err"]
  /\ UNCHANGED opener

CallFinish ==
  /\ opener = "acquire" /\ \A t \in Task : task[t] # "new"
  /\ opener' = "finish"
  /\ UNCHANGED <<task, errors>>

Finish ==
  /\ opener = "finish" /\ Permits >= AllPermits
  /\ opener' = IF errors = 1 THEN "err" ELSE "ok"
  /\ errors' = 0
  /\ UNCHANGED task

Next ==
  \/ \E t \in Task : Acquire(t) \/ TaskEnds(t) \/ SendError(t)
  \/ AcquireError
  \/ CallFinish
  \/ Finish

Spec == Init /\ [][Next]_vars

-----------------------------------------------------------------------------
\* The opening of tables reports success only if every task has succeeded.
SuccessIsReal == opener = "ok" => \A t \in Task : task[t] = "ok"

Failed == {t \in Task : task[t] \in {"sending", "err", "panic"}}

\* The opening of tables reports success only if every task has succeeded, and it
\* hangs only if two or more have failed: then one of them waits for room in the
\* channel with the permit that finish waits for.
ErrorsSurface ==
  /\ SuccessIsReal
  /\ opener \in {"acquire", "finish"} /\ ~ENABLED Next => Cardinality(Failed) >= 2
=============================================================================
