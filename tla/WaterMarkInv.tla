---------------------------- MODULE WaterMarkInv ----------------------------
(***************************************************************************)
(* The abstract specification that the water mark implements, and the      *)
(* inductive invariant behind its properties.                              *)
(***************************************************************************)
EXTENDS WaterMark

\* The water mark implements its promise; wait_for_mark is between its early
\* return and its end in both states "send" and "sent".
Promise == INSTANCE MarkPromise
  WITH waiting <- [c \in Client |-> IF wait[c] \in {"send", "sent"}
                                     THEN "waiting" ELSE wait[c]]

ImplementsPromise == Promise!Spec

-----------------------------------------------------------------------------
\* The inductive invariant.

InChan(s, kind, c) == \E i \in 1 .. Len(s) : s[i].kind = kind /\ s[i].c = c

\* The clients at t whose begin has been processed and whose done has not.
Held(t) ==
  {c \in Client : /\ mts[c] = t
                  /\ phase[c] # "none"
                  /\ ~InChan(chan, "begin", c)
                  /\ phase[c] = "begun" \/ InChan(chan, "done", c)}

\* The channel is a FIFO record of what the clients have sent.
MarksSent ==
  \A i \in 1 .. Len(chan) :
    /\ chan[i].kind = "begin" => phase[chan[i].c] # "none" /\ chan[i].ts = mts[chan[i].c]
    /\ chan[i].kind = "done" => phase[chan[i].c] = "ended" /\ chan[i].ts = mts[chan[i].c]
    /\ chan[i].kind = "wait" => wait[chan[i].c] # "none" /\ chan[i].ts = wts[chan[i].c]

SentOnce ==
  \A i, j \in 1 .. Len(chan) :
    chan[i].c = chan[j].c =>
      /\ chan[i].kind = "begin" /\ chan[j].kind = "begin" => i = j
      /\ chan[i].kind = "done" /\ chan[j].kind = "done" => i = j
      /\ chan[i].kind = "begin" /\ chan[j].kind = "done" => i < j

BeginOrder ==
  \A i, j \in 1 .. Len(chan) :
    i < j /\ chan[i].kind = "begin" /\ chan[j].kind = "begin" => chan[i].ts <= chan[j].ts

EndedInChan ==
  \A c \in Client :
    phase[c] = "ended" /\ InChan(chan, "begin", c) => InChan(chan, "done", c)

BegunBelow == \A c \in Client : phase[c] # "none" => mts[c] <= last_index

ChanInv == MarksSent /\ SentOnce /\ BeginOrder /\ EndedInChan /\ BegunBelow

\* The process task's counters agree with the clients whose marks it has seen.
Counts ==
  /\ 0 \notin heap
  /\ \A t \in Ts : pending[t] = IF t = 0 THEN 0 ELSE -Cardinality(Held(t))
  /\ \A t \in Ts : t > 0 /\ Held(t) # {} => t \in heap

\* Its heap lies between done_until and the begins still to come.
HeapBetween ==
  \A t \in heap :
    /\ done_until <= t
    /\ t <= last_index
    /\ \A i \in 1 .. Len(chan) : chan[i].kind = "begin" => t <= chan[i].ts
    /\ \E c \in Client : phase[c] # "none" /\ mts[c] = t /\ ~InChan(chan, "begin", c)

\* done_until is behind the begins still to come, and where a client is done.
UntilBehind ==
  /\ InitUntil <= done_until
  /\ done_until <= last_index
  /\ \A i \in 1 .. Len(chan) : chan[i].kind = "begin" => done_until <= chan[i].ts
  /\ done_until # InitUntil =>
       \E c \in Client : phase[c] = "ended" /\ mts[c] = done_until

HeapInv == Counts /\ HeapBetween /\ UntilBehind

WaitInv ==
  /\ \A w \in waiters : wait[w.c] # "none" /\ w.ts = wts[w.c]
  /\ \A c \in notified : wait[c] # "none" /\ wts[c] <= done_until
  /\ WaitReturnSound

IInv == TypeOK /\ ChanInv /\ HeapInv /\ WaitInv
=============================================================================
