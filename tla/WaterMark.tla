----------------------------- MODULE WaterMark -----------------------------
(***************************************************************************)
(* A water mark (txn/water_mark.rs): clients send marks into a bounded     *)
(* channel, one task (process) consumes them and publishes done_until, the *)
(* timestamp below which every transaction that began has also finished.   *)
(*                                                                         *)
(* A client stands for one transaction and uses the mark once: it begins   *)
(* at a timestamp, later it is done.  Timestamps are handed to begin in    *)
(* non-decreasing order, which the oracle guarantees by calling begin      *)
(* under its lock.  A client may also wait for a timestamp                 *)
(* (wait_for_mark).  The same module is the read mark and the transaction  *)
(* mark of module TxnOracle.                                               *)
(***************************************************************************)
EXTENDS Integers, Sequences, FiniteSets

CONSTANTS Client,      \* transactions that use this mark
          Ts,          \* timestamps
          InitUntil,   \* the done_until the mark is created with (max_version)
          ChanCap      \* capacity of the mark channel (100 in the code)

ASSUME MarkAssumption ==
  /\ Ts \subseteq Nat
  /\ InitUntil \in Ts
  /\ ChanCap \in Nat \ {0}
  /\ IsFiniteSet(Client)

VARIABLES
  done_until,  \* WaterMarkInner.done_until
  last_index,  \* WaterMarkInner.last_index: timestamp of the latest begin
  chan,        \* the channel from the clients to process
  heap,        \* process: min_heap, as a set; also the keys of pending
  pending,     \* process: pending, 0 where it has no entry
  waiters,     \* process: registered waiters, as client/timestamp pairs
  notified,    \* clients whose Notify holds a permit
  phase,       \* what each client has sent: nothing, its begin, its done
  mts,         \* the timestamp a client began at
  wait,        \* where each client is in wait_for_mark
  wts          \* the timestamp it waits for

procVars == <<done_until, chan, heap, pending, waiters, notified>>
clientVars == <<phase, mts, last_index>>
waitVars == <<wait, wts>>
vars == <<procVars, clientVars, waitVars>>

Mark == [kind : {"begin", "done", "wait"}, ts : Ts, c : Client]
BeginMark(client, t) == [kind |-> "begin", ts |-> t, c |-> client]
DoneMark(client, t) == [kind |-> "done", ts |-> t, c |-> client]
WaitMark(client, t) == [kind |-> "wait", ts |-> t, c |-> client]

TypeOK ==
  /\ done_until \in Ts
  /\ last_index \in Ts
  /\ chan \in Seq(Mark)
  /\ heap \subseteq Ts
  /\ pending \in [Ts -> Int]
  /\ waiters \subseteq [ts : Ts, c : Client]
  /\ notified \subseteq Client
  /\ phase \in [Client -> {"none", "begun", "ended"}]
  /\ mts \in [Client -> Ts]
  /\ wait \in [Client -> {"none", "send", "sent", "returned"}]
  /\ wts \in [Client -> Ts]

\* WaterMark::new.  The code stores 0 in last_index; InitUntil is what bounds
\* the first begin from below, and nothing reads last_index.
Init ==
  /\ done_until = InitUntil
  /\ last_index = InitUntil
  /\ chan = <<>>
  /\ heap = {}
  /\ pending = [t \in Ts |-> 0]
  /\ waiters = {}
  /\ notified = {}
  /\ phase = [c \in Client |-> "none"]
  /\ mts = [c \in Client |-> InitUntil]
  /\ wait = [c \in Client |-> "none"]
  /\ wts = [c \in Client |-> InitUntil]

-----------------------------------------------------------------------------
\* The clients.

\* sender.send(mark).await: completes once the channel has room.
Send(mark) ==
  /\ Len(chan) < ChanCap
  /\ chan' = Append(chan, mark)

\* begin(txn_ts)
Begin(c, t) ==
  /\ phase[c] = "none"
  /\ last_index' = t
  /\ Send(BeginMark(c, t))
  /\ phase' = [phase EXCEPT ![c] = "begun"]
  /\ mts' = [mts EXCEPT ![c] = t]
  /\ UNCHANGED <<done_until, heap, pending, waiters, notified, waitVars>>

\* done_commit and done_read, the swap of the done_read flag included: a
\* client sends its done once.
Done(c) ==
  /\ phase[c] = "begun"
  /\ Send(DoneMark(c, mts[c]))
  /\ phase' = [phase EXCEPT ![c] = "ended"]
  /\ UNCHANGED <<done_until, heap, pending, waiters, notified, mts, last_index,
                 waitVars>>

\* wait_for_mark up to its early return.
WaitForMark(c, t) ==
  /\ wait[c] = "none"
  /\ wts' = [wts EXCEPT ![c] = t]
  /\ wait' = [wait EXCEPT ![c] = IF done_until >= t THEN "returned" ELSE "send"]
  /\ UNCHANGED <<procVars, clientVars>>

\* wait_for_mark: sending the mark that carries the Notify.
SendWaiter(c) ==
  /\ wait[c] = "send"
  /\ Send(WaitMark(c, wts[c]))
  /\ wait' = [wait EXCEPT ![c] = "sent"]
  /\ UNCHANGED <<done_until, heap, pending, waiters, notified, clientVars, wts>>

\* wait_for_mark: wait.notified().await returns.
Notified(c) ==
  /\ wait[c] = "sent"
  /\ c \in notified
  /\ wait' = [wait EXCEPT ![c] = "returned"]
  /\ notified' = notified \ {c}
  /\ UNCHANGED <<done_until, chan, heap, pending, waiters, clientVars, wts>>

-----------------------------------------------------------------------------
\* The process task.

\* Variant: one timestamp too many.
WokenEarly(until) == {w \in waiters : w.ts <= until + 1}

\* The waiters process_one notifies when done_until moves to until: it looks
\* the timestamps in between up when they are few, and scans the map otherwise.
Woken(until) ==
  IF until - done_until <= Cardinality({w.ts : w \in waiters})
    THEN {w \in waiters : w.ts \in (done_until + 1) .. until}
    ELSE {w \in waiters : w.ts <= until}

\* process_one: a done mark counts up, a begin mark counts down.
Counted(t, done) == [pending EXCEPT ![t] = IF done THEN @ + 1 ELSE @ - 1]

\* Variant: every finished entry is popped, not only those below all others.
PoppedAny(h, p) == {t \in h : p[t] >= 0}

\* process_one: the loop pops the minimum of the heap until it meets an entry
\* with unfinished begins.
Popped(h, p) == {t \in h : \A u \in h : u <= t => p[u] >= 0}

\* process_one: count the mark, pop what is finished, publish the largest
\* timestamp popped and notify its waiters.
ProcessOne(t, done) ==
  LET p == Counted(t, done)
      h == heap \cup {t}
      popped == Popped(h, p)
  IN \E until \in {done_until} \cup popped :
       /\ IF popped = {} THEN until = done_until
                         ELSE until \in popped /\ \A u \in popped : u <= until
       /\ done_until' = until
       /\ heap' = h \ popped
       /\ pending' = [u \in Ts |-> IF u \in popped THEN 0 ELSE p[u]]
       /\ waiters' = waiters \ Woken(until)
       /\ notified' = notified \cup {w.c : w \in Woken(until)}

\* Variant: done_until is not looked at again when the waiter is registered.
RegisterWaiterAlways(mark) ==
  /\ waiters' = waiters \cup {[ts |-> mark.ts, c |-> mark.c]}
  /\ UNCHANGED <<done_until, heap, pending, notified>>

\* Variant: the waiter is registered one timestamp late.
RegisterWaiterLate(mark) ==
  /\ waiters' = waiters \cup {[ts |-> mark.ts + 1, c |-> mark.c]}
  /\ UNCHANGED <<done_until, heap, pending, notified>>

\* A mark that carries a Notify.
RegisterWaiter(mark) ==
  /\ IF done_until >= mark.ts
       THEN /\ notified' = notified \cup {mark.c}
            /\ UNCHANGED waiters
       ELSE /\ waiters' = waiters \cup {[ts |-> mark.ts, c |-> mark.c]}
            /\ UNCHANGED notified
  /\ UNCHANGED <<done_until, heap, pending>>

\* One turn of the loop of process.  Marks at timestamp 0 are ignored.
Process ==
  /\ chan # <<>>
  /\ chan' = Tail(chan)
  /\ LET mark == Head(chan) IN
       \/ /\ mark.kind = "wait"
          /\ RegisterWaiter(mark)
       \/ /\ mark.kind # "wait"
          /\ mark.ts > 0
          /\ ProcessOne(mark.ts, mark.kind = "done")
       \/ /\ mark.kind # "wait"
          /\ mark.ts = 0
          /\ UNCHANGED <<done_until, heap, pending, waiters, notified>>
  /\ UNCHANGED <<clientVars, waitVars>>

\* What the mark assumes of its clients: begins come in the order of their
\* timestamps, and nobody waits for a timestamp that was not begun.
Next ==
  \/ \E c \in Client, t \in Ts : last_index <= t /\ Begin(c, t)
  \/ \E c \in Client : Done(c)
  \/ \E c \in Client, t \in Ts : t <= last_index /\ WaitForMark(c, t)
  \/ \E c \in Client : SendWaiter(c) \/ Notified(c)
  \/ Process

Spec == Init /\ [][Next]_vars

\* process is a spawned task that is always polled again, a client that waits
\* for room or for its Notify is resumed, and a transaction that began is
\* eventually committed or discarded.
Fairness ==
  /\ WF_vars(Process)
  /\ \A c \in Client : WF_vars(SendWaiter(c)) /\ WF_vars(Notified(c))
                       /\ WF_vars(Done(c))

FairSpec == Spec /\ Fairness

-----------------------------------------------------------------------------
\* Properties.

\* done_until never passes a transaction that has not finished: what compaction
\* may drop (discard_at_or_below) stays below every open reader, and a snapshot
\* is not handed out while a commit below it is unfinished.  At the very
\* timestamp of an open client it stands only if another client began there too
\* (two readers with the same snapshot), or if it was created there.  Clients at
\* timestamp 0 are not tracked: no version is that old.
Alone(c) == \A d \in Client \ {c} : phase[d] = "none" \/ mts[d] # mts[c]

OpenNotPassed ==
  \A c \in Client :
    phase[c] = "begun" /\ mts[c] > 0 =>
      /\ done_until <= mts[c]
      /\ Alone(c) /\ mts[c] > InitUntil => done_until < mts[c]

\* The assertion at the head of process_one, done_until <= txn_ts, holds for
\* every mark that is still on its way, so the task never panics on it.
MarksAhead ==
  \A i \in 1 .. Len(chan) :
    chan[i].kind # "wait" /\ chan[i].ts > 0 => done_until <= chan[i].ts

\* wait_for_mark returns only once done_until has reached the timestamp.
WaitReturnSound ==
  \A c \in Client : wait[c] = "returned" => wts[c] <= done_until

\* No lost wake-up: wait_for_mark returns if every transaction that began is
\* eventually done, whichever of the two the process task sees first, the
\* waiter's mark or the done mark it waits for.
WaiterReturns ==
  \A c \in Client : wait[c] = "send" ~> wait[c] = "returned"
=============================================================================
