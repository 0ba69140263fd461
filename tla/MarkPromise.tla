---------------------------- MODULE MarkPromise ----------------------------
(***************************************************************************)
(* What a water mark promises its users, without channel, heap or waiter   *)
(* map: done_until only grows, it only moves onto a timestamp one of whose *)
(* clients is done, it never moves past a client that is not, and whoever  *)
(* waits for a timestamp returns only when done_until has reached it.      *)
(***************************************************************************)
EXTENDS Integers

CONSTANTS Client, Ts, InitUntil

VARIABLES done_until, phase, mts, waiting, wts

vars == <<done_until, phase, mts, waiting, wts>>

Init ==
  /\ done_until = InitUntil
  /\ phase = [c \in Client |-> "none"]
  /\ mts = [c \in Client |-> InitUntil]
  /\ waiting = [c \in Client |-> "none"]
  /\ wts = [c \in Client |-> InitUntil]

Begin(c, t) ==
  /\ phase[c] = "none"
  /\ done_until <= t
  /\ phase' = [phase EXCEPT ![c] = "begun"]
  /\ mts' = [mts EXCEPT ![c] = t]
  /\ UNCHANGED <<done_until, waiting, wts>>

Done(c) ==
  /\ phase[c] = "begun"
  /\ phase' = [phase EXCEPT ![c] = "ended"]
  /\ UNCHANGED <<done_until, mts, waiting, wts>>

\* Timestamp 0 precedes every version: a client that began there is not
\* tracked and holds nothing back.
Advance(t) ==
  /\ done_until < t
  /\ \E c \in Client : phase[c] = "ended" /\ mts[c] = t
  /\ \A c \in Client : phase[c] = "begun" /\ mts[c] > 0 => t <= mts[c]
  /\ done_until' = t
  /\ UNCHANGED <<phase, mts, waiting, wts>>

Wait(c, t) ==
  /\ waiting[c] = "none"
  /\ done_until < t
  /\ waiting' = [waiting EXCEPT ![c] = "waiting"]
  /\ wts' = [wts EXCEPT ![c] = t]
  /\ UNCHANGED <<done_until, phase, mts>>

NoWait(c, t) ==
  /\ waiting[c] = "none"
  /\ t <= done_until
  /\ waiting' = [waiting EXCEPT ![c] = "returned"]
  /\ wts' = [wts EXCEPT ![c] = t]
  /\ UNCHANGED <<done_until, phase, mts>>

Return(c) ==
  /\ waiting[c] = "waiting"
  /\ wts[c] <= done_until
  /\ waiting' = [waiting EXCEPT ![c] = "returned"]
  /\ UNCHANGED <<done_until, phase, mts, wts>>

Next ==
  \/ \E c \in Client, t \in Ts : Begin(c, t) \/ Wait(c, t) \/ NoWait(c, t)
  \/ \E c \in Client : Done(c) \/ Return(c)
  \/ \E t \in Ts : Advance(t)

Spec == Init /\ [][Next]_vars
=============================================================================
