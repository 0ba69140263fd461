-------------------------- MODULE WaterMarkProofs --------------------------
(***************************************************************************)
(* The water mark keeps its invariant IInv, and with it every safety       *)
(* property of module WaterMark, for any number of clients, any set of     *)
(* timestamps, any initial done_until and any channel capacity.            *)
(***************************************************************************)
EXTENDS WaterMarkInv, FiniteSetTheorems, TLAPS

-----------------------------------------------------------------------------
\* The channel.

\* What InChan says of a channel a mark was appended to.
LEMMA InChanAppend ==
  ASSUME NEW s \in Seq(Mark), NEW m \in Mark, NEW k, NEW c
  PROVE  InChan(Append(s, m), k, c) <=>
           InChan(s, k, c) \/ (m.kind = k /\ m.c = c)
<1> DEFINE a == Append(s, m)
<1>1. /\ Len(a) = Len(s) + 1
      /\ Len(s) \in Nat
      /\ \A i \in 1 .. Len(s) : a[i] = s[i]
      /\ a[Len(s) + 1] = m
  OBVIOUS
<1>2. 1 .. Len(a) = (1 .. Len(s)) \cup {Len(s) + 1}
  BY <1>1
<1> QED
  BY <1>1, <1>2, Zenon DEF InChan

\* What it says of a channel whose head was consumed.
LEMMA InChanTail ==
  ASSUME NEW s \in Seq(Mark), s # <<>>, NEW k, NEW c
  PROVE  InChan(s, k, c) <=>
           InChan(Tail(s), k, c) \/ (Head(s).kind = k /\ Head(s).c = c)
<1> DEFINE a == Tail(s)
<1>1. /\ Len(a) = Len(s) - 1
      /\ Len(s) \in Nat \ {0}
      /\ \A i \in 1 .. Len(a) : a[i] = s[i + 1]
      /\ Head(s) = s[1]
  OBVIOUS
<1>2. InChan(a, k, c) => InChan(s, k, c)
  <2>1. SUFFICES ASSUME NEW i \in 1 .. Len(a), a[i].kind = k, a[i].c = c
                 PROVE  InChan(s, k, c)
    BY Zenon DEF InChan
  <2>2. i + 1 \in 1 .. Len(s) /\ s[i + 1] = a[i]
    BY <1>1
  <2> QED BY <2>1, <2>2, Zenon DEF InChan
<1>3. Head(s).kind = k /\ Head(s).c = c => InChan(s, k, c)
  BY <1>1, 1 \in 1 .. Len(s), Zenon DEF InChan
<1>4. InChan(s, k, c) => InChan(a, k, c) \/ (Head(s).kind = k /\ Head(s).c = c)
  <2>1. SUFFICES ASSUME NEW i \in 1 .. Len(s), s[i].kind = k, s[i].c = c, i # 1
                 PROVE  InChan(a, k, c)
    BY <1>1, Zenon DEF InChan
  <2>2. i - 1 \in 1 .. Len(a) /\ a[i - 1] = s[i]
    BY <1>1, <2>1
  <2> QED BY <2>1, <2>2, Zenon DEF InChan
<1> QED
  BY <1>2, <1>3, <1>4, Zenon

\* What travels through the channel.
LEMMA MarkFields ==
  ASSUME NEW s \in Seq(Mark)
  PROVE  \A i \in 1 .. Len(s) :
           /\ s[i] \in Mark
           /\ s[i].kind \in {"begin", "done", "wait"}
           /\ s[i].c \in Client
           /\ s[i].ts \in Ts
<1>1. \A i \in 1 .. Len(s) : s[i] \in Mark
  OBVIOUS
<1>2. \A m \in Mark : m.kind \in {"begin", "done", "wait"} /\ m.c \in Client /\ m.ts \in Ts
  BY Zenon DEF Mark
<1> QED
  BY <1>1, <1>2, Zenon

LEMMA ChanMark ==
  ASSUME TypeOK
  PROVE  \A i \in 1 .. Len(chan) :
           /\ chan[i] \in Mark
           /\ chan[i].kind \in {"begin", "done", "wait"}
           /\ chan[i].c \in Client
           /\ chan[i].ts \in Ts
BY MarkFields, Zenon DEF TypeOK

\* Sending keeps the shape of the channel.
LEMMA SendType ==
  ASSUME TypeOK, NEW m \in Mark, chan' = Append(chan, m)
  PROVE  /\ chan' \in Seq(Mark)
         /\ Len(chan) \in Nat
         /\ Len(chan') = Len(chan) + 1
         /\ \A i \in 1 .. Len(chan) : chan'[i] = chan[i]
         /\ chan'[Len(chan) + 1] = m
         /\ \A i \in 1 .. Len(chan') : i \in 1 .. Len(chan) \/ i = Len(chan) + 1
         /\ \A k, c : InChan(chan', k, c) <=>
                        InChan(chan, k, c) \/ (m.kind = k /\ m.c = c)
<1>1. chan \in Seq(Mark)
  BY Zenon DEF TypeOK
<1>2. \A k, c : InChan(chan', k, c) <=>
                  InChan(chan, k, c) \/ (m.kind = k /\ m.c = c)
  BY <1>1, InChanAppend, Zenon
<1> QED
  BY <1>1, <1>2

\* So does receiving.
LEMMA RecvType ==
  ASSUME TypeOK, chan # <<>>, chan' = Tail(chan)
  PROVE  /\ chan' \in Seq(Mark)
         /\ Len(chan) \in Nat \ {0}
         /\ Len(chan') = Len(chan) - 1
         /\ \A i \in 1 .. Len(chan') : i + 1 \in 1 .. Len(chan) /\ chan'[i] = chan[i + 1]
         /\ 1 \in 1 .. Len(chan)
         /\ Head(chan) = chan[1]
         /\ Head(chan) \in Mark
         /\ \A k, c : InChan(chan, k, c) <=>
                        InChan(chan', k, c) \/ (Head(chan).kind = k /\ Head(chan).c = c)
<1>1. chan \in Seq(Mark)
  BY Zenon DEF TypeOK
<1>2. \A k, c : InChan(chan, k, c) <=>
                  InChan(chan', k, c) \/ (Head(chan).kind = k /\ Head(chan).c = c)
  BY <1>1, InChanTail, Zenon
<1> QED
  BY <1>1, <1>2

-----------------------------------------------------------------------------
\* Type correctness.

LEMMA InitType == Init => TypeOK
BY MarkAssumption DEF Init, TypeOK

\* What counting a mark does to pending.
LEMMA CountedType ==
  ASSUME TypeOK, NEW t \in Ts, NEW done \in BOOLEAN
  PROVE  /\ Counted(t, done) \in [Ts -> Int]
         /\ \A u \in Ts \ {t} : Counted(t, done)[u] = pending[u]
         /\ done => Counted(t, done)[t] = pending[t] + 1
         /\ ~done => Counted(t, done)[t] = pending[t] - 1
<1>1. CASE done
  BY <1>1 DEF Counted, TypeOK
<1>2. CASE ~done
  BY <1>2 DEF Counted, TypeOK
<1> QED
  BY <1>1, <1>2, Zenon

LEMMA NextType == TypeOK /\ [Next]_vars => TypeOK'
<1> SUFFICES ASSUME TypeOK, [Next]_vars PROVE TypeOK'
  BY Zenon
<1> USE MarkAssumption
<1>1. ASSUME NEW c \in Client, NEW t \in Ts, Begin(c, t) PROVE TypeOK'
  <2>1. BeginMark(c, t) \in Mark
    BY Zenon DEF BeginMark, Mark
  <2>2. chan' \in Seq(Mark)
    BY <1>1, <2>1, SendType, Zenon DEF Begin, Send
  <2> QED
    BY <1>1, <2>2, Zenon DEF TypeOK, Begin, Send, waitVars
<1>2. ASSUME NEW c \in Client, Done(c) PROVE TypeOK'
  <2>1. DoneMark(c, mts[c]) \in Mark
    BY Zenon DEF DoneMark, Mark, TypeOK
  <2>2. chan' \in Seq(Mark)
    BY <1>2, <2>1, SendType, Zenon DEF Done, Send
  <2> QED
    BY <1>2, <2>2, Zenon DEF TypeOK, Done, Send, waitVars
<1>3. ASSUME NEW c \in Client, NEW t \in Ts, WaitForMark(c, t) PROVE TypeOK'
  BY <1>3, Zenon DEF TypeOK, WaitForMark, procVars, clientVars
<1>4. ASSUME NEW c \in Client, SendWaiter(c) PROVE TypeOK'
  <2>1. WaitMark(c, wts[c]) \in Mark
    BY Zenon DEF WaitMark, Mark, TypeOK
  <2>2. chan' \in Seq(Mark)
    BY <1>4, <2>1, SendType, Zenon DEF SendWaiter, Send
  <2> QED
    BY <1>4, <2>2, Zenon DEF TypeOK, SendWaiter, Send, clientVars
<1>5. ASSUME NEW c \in Client, Notified(c) PROVE TypeOK'
  BY <1>5, Zenon DEF TypeOK, Notified, clientVars
<1>6. CASE Process
  <2>1. /\ chan' \in Seq(Mark) /\ Head(chan) \in Mark
    BY <1>6, RecvType, Zenon DEF Process
  <2>2. UNCHANGED <<last_index, phase, mts, wait, wts>>
    BY <1>6, Zenon DEF Process, clientVars, waitVars
  <2> DEFINE mark == Head(chan)
  <2>3. mark.ts \in Ts /\ mark.c \in Client
    BY <2>1, Zenon DEF Mark
  <2>4. CASE RegisterWaiter(mark)
    <3>1. [ts |-> mark.ts, c |-> mark.c] \in [ts : Ts, c : Client]
      BY <2>3, Zenon
    <3> HIDE DEF mark
    <3>2. notified' \subseteq Client /\ waiters' \subseteq [ts : Ts, c : Client]
      BY <2>3, <2>4, <3>1, SMTT(15) DEF TypeOK, RegisterWaiter
    <3> QED
      BY <2>1, <2>2, <2>4, <3>2, SMTT(15) DEF TypeOK, RegisterWaiter
  <2>5. ASSUME NEW done \in BOOLEAN, ProcessOne(mark.ts, done) PROVE TypeOK'
    <3> DEFINE p == Counted(mark.ts, done)
               h == heap \cup {mark.ts}
    <3>1. p \in [Ts -> Int]
      BY <2>3, CountedType, Zenon
    <3>2. h \subseteq Ts /\ Popped(h, p) \subseteq h
      BY <2>3, Zenon DEF TypeOK, Popped
    <3>3. PICK until \in {done_until} \cup Popped(h, p) :
            /\ done_until' = until
            /\ heap' = h \ Popped(h, p)
            /\ pending' = [u \in Ts |-> IF u \in Popped(h, p) THEN 0 ELSE p[u]]
            /\ waiters' = waiters \ Woken(until)
            /\ notified' = notified \cup {w.c : w \in Woken(until)}
      BY <2>5, Zenon DEF ProcessOne
    <3>4. Woken(until) \subseteq waiters
      BY Zenon DEF Woken
    <3>5. {w.c : w \in Woken(until)} \subseteq Client
      BY <3>4 DEF TypeOK
    <3>6. pending' \in [Ts -> Int]
      BY <3>1, <3>3
    <3> HIDE DEF p, h
    <3> QED
      BY <2>1, <2>2, <3>2, <3>3, <3>4, <3>5, <3>6, SMTT(15) DEF TypeOK
  <2>6. CASE UNCHANGED <<done_until, heap, pending, waiters, notified>>
    BY <2>1, <2>2, <2>6, Zenon DEF TypeOK
  <2> QED
    BY <1>6, <2>4, <2>5, <2>6, Zenon DEF Process
<1>7. CASE UNCHANGED vars
  BY <1>7, Zenon DEF TypeOK, vars, procVars, clientVars, waitVars
<1> QED
  BY <1>1, <1>2, <1>3, <1>4, <1>5, <1>6, <1>7, Zenon DEF Next

-----------------------------------------------------------------------------
\* The channel invariant.

LEMMA InitChan == Init => ChanInv
<1> SUFFICES ASSUME Init PROVE ChanInv
  BY Zenon
<1>1. 1 .. Len(chan) = {} /\ \A k, c : ~InChan(chan, k, c)
  BY DEF Init, InChan
<1> QED
  BY <1>1, Zenon DEF Init, ChanInv, MarksSent, SentOnce, BeginOrder, EndedInChan, BegunBelow

\* A client that has not begun has neither mark in the channel, one that has not
\* ended has no done there.
LEMMA NotSent ==
  ASSUME ChanInv, NEW c \in Client
  PROVE  /\ phase[c] = "none" => ~InChan(chan, "begin", c)
         /\ phase[c] # "ended" => ~InChan(chan, "done", c)
BY Zenon DEF ChanInv, MarksSent, InChan

LEMMA BeginChan ==
  ASSUME TypeOK, ChanInv, NEW c \in Client, NEW t \in Ts, last_index <= t, Begin(c, t)
  PROVE  ChanInv'
<1> USE MarkAssumption
<1> DEFINE m == BeginMark(c, t)
           n == Len(chan) + 1
<1>1. m \in Mark /\ m.kind = "begin" /\ m.c = c /\ m.ts = t
  BY Zenon DEF BeginMark, Mark
<1>2. chan' = Append(chan, m)
  BY Zenon DEF Begin, Send
<1> HIDE DEF m
<1>3. /\ Len(chan) \in Nat
      /\ \A i \in 1 .. Len(chan') : i \in 1 .. Len(chan) \/ i = n
      /\ \A i \in 1 .. Len(chan) : chan'[i] = chan[i]
      /\ chan'[n] = m
      /\ \A k, d : InChan(chan', k, d) <=> InChan(chan, k, d) \/ (m.kind = k /\ m.c = d)
  BY <1>1, <1>2, SendType, Zenon
<1>4. /\ phase[c] = "none"
      /\ phase' = [phase EXCEPT ![c] = "begun"]
      /\ mts' = [mts EXCEPT ![c] = t]
      /\ wait' = wait /\ wts' = wts
      /\ last_index' = t
  BY Zenon DEF Begin, waitVars
<1>5. \A i \in 1 .. Len(chan) : chan[i].kind \in {"begin", "done"} => chan[i].c # c
  BY <1>4, Zenon DEF ChanInv, MarksSent
<1>6. MarksSent'
  <2>1. ASSUME NEW i \in 1 .. Len(chan) PROVE MarksSent!(i)'
    BY <2>1, <1>3, <1>4, <1>5, ChanMark, Zenon DEF ChanInv, MarksSent, TypeOK
  <2>2. ASSUME NEW i, i = n PROVE MarksSent!(i)'
    BY <2>2, <1>1, <1>3, <1>4, Zenon DEF TypeOK
  <2> QED BY <1>3, <2>1, <2>2, Zenon DEF MarksSent
<1>7. SentOnce'
  <2>1. SUFFICES ASSUME NEW i \in 1 .. Len(chan'), NEW j \in 1 .. Len(chan'),
                        chan'[i].c = chan'[j].c
                 PROVE  SentOnce!(i, j)!2'
    BY Zenon DEF SentOnce
  <2>2. CASE i \in 1 .. Len(chan) /\ j \in 1 .. Len(chan)
    BY <2>1, <2>2, <1>3, Zenon DEF ChanInv, SentOnce
  <2>3. CASE i = n \/ j = n
    BY <2>1, <2>3, <1>1, <1>3, <1>5, Zenon
  <2> QED BY <1>3, <2>2, <2>3, Zenon
<1>8. BeginOrder'
  <2>1. \A i \in 1 .. Len(chan) : chan[i].kind = "begin" => chan[i].ts <= t
    <3>1. SUFFICES ASSUME NEW i \in 1 .. Len(chan), chan[i].kind = "begin"
                   PROVE  chan[i].ts <= t
      BY Zenon
    <3>2. /\ chan[i].ts = mts[chan[i].c] /\ phase[chan[i].c] # "none"
          /\ chan[i].c \in Client /\ mts[chan[i].c] \in Nat
      BY <3>1, ChanMark, Zenon DEF ChanInv, MarksSent, TypeOK
    <3>3. mts[chan[i].c] <= last_index /\ last_index \in Nat
      BY <3>2, Zenon DEF ChanInv, BegunBelow, TypeOK
    <3> QED BY <3>2, <3>3
  <2> QED
    BY <1>1, <1>3, <2>1 DEF ChanInv, BeginOrder
<1>9. EndedInChan'
  BY <1>1, <1>3, <1>4, Zenon DEF ChanInv, EndedInChan, TypeOK
<1>10. BegunBelow'
  <2>1. ASSUME NEW d \in Client, phase'[d] # "none" PROVE mts'[d] <= last_index'
    <3>1. CASE d = c
      BY <3>1, <1>4 DEF TypeOK
    <3>2. CASE d # c
      <4>1. mts'[d] = mts[d] /\ phase[d] # "none"
        BY <2>1, <3>2, <1>4, Zenon DEF TypeOK
      <4>2. mts[d] \in Nat /\ last_index \in Nat /\ mts[d] <= last_index
        BY <4>1, Zenon DEF ChanInv, BegunBelow, TypeOK
      <4> QED BY <4>1, <4>2, <1>4
    <3> QED BY <3>1, <3>2, Zenon
  <2> QED BY <2>1, Zenon DEF BegunBelow
<1> QED
  BY <1>6, <1>7, <1>8, <1>9, <1>10, Zenon DEF ChanInv

LEMMA DoneChan ==
  ASSUME TypeOK, ChanInv, NEW c \in Client, Done(c)
  PROVE  ChanInv'
<1> DEFINE m == DoneMark(c, mts[c])
           n == Len(chan) + 1
<1>1. m \in Mark /\ m.kind = "done" /\ m.c = c /\ m.ts = mts[c]
  BY Zenon DEF DoneMark, Mark, TypeOK
<1>2. chan' = Append(chan, m)
  BY Zenon DEF Done, Send
<1> HIDE DEF m
<1>3. /\ Len(chan) \in Nat
      /\ \A i \in 1 .. Len(chan') : i \in 1 .. Len(chan) \/ i = n
      /\ \A i \in 1 .. Len(chan) : chan'[i] = chan[i]
      /\ chan'[n] = m
      /\ \A k, d : InChan(chan', k, d) <=> InChan(chan, k, d) \/ (m.kind = k /\ m.c = d)
  BY <1>1, <1>2, SendType, Zenon
<1>4. /\ phase[c] = "begun"
      /\ phase' = [phase EXCEPT ![c] = "ended"]
      /\ mts' = mts /\ wait' = wait /\ wts' = wts /\ last_index' = last_index
  BY Zenon DEF Done, waitVars
<1>5. \A i \in 1 .. Len(chan) : chan[i].kind = "done" => chan[i].c # c
  BY <1>4, Zenon DEF ChanInv, MarksSent
<1>6. MarksSent'
  <2>1. ASSUME NEW i \in 1 .. Len(chan) PROVE MarksSent!(i)'
    BY <2>1, <1>3, <1>4, <1>5, ChanMark, ZenonT(30) DEF ChanInv, MarksSent, TypeOK
  <2>2. ASSUME NEW i, i = n PROVE MarksSent!(i)'
    BY <2>2, <1>1, <1>3, <1>4, Zenon DEF TypeOK
  <2> QED BY <1>3, <2>1, <2>2, Zenon DEF MarksSent
<1>7. SentOnce'
  <2>1. SUFFICES ASSUME NEW i \in 1 .. Len(chan'), NEW j \in 1 .. Len(chan'),
                        chan'[i].c = chan'[j].c
                 PROVE  SentOnce!(i, j)!2'
    BY Zenon DEF SentOnce
  <2>2. CASE i \in 1 .. Len(chan) /\ j \in 1 .. Len(chan)
    BY <2>1, <2>2, <1>3, Zenon DEF ChanInv, SentOnce
  <2>3. CASE i = n \/ j = n
    BY <2>1, <2>3, <1>1, <1>3, <1>5
  <2> QED BY <1>3, <2>2, <2>3, Zenon
<1>8. BeginOrder'
  BY <1>1, <1>3, Zenon DEF ChanInv, BeginOrder
<1>9. EndedInChan'
  BY <1>1, <1>3, <1>4, Zenon DEF ChanInv, EndedInChan, TypeOK
<1>10. BegunBelow'
  BY <1>4, Zenon DEF ChanInv, BegunBelow, TypeOK
<1> QED
  BY <1>6, <1>7, <1>8, <1>9, <1>10, Zenon DEF ChanInv

LEMMA WaitForMarkChan ==
  ASSUME TypeOK, ChanInv, NEW c \in Client, NEW t \in Ts, WaitForMark(c, t)
  PROVE  ChanInv'
<1>1. /\ wait[c] = "none"
      /\ \A d \in Client \ {c} : wait'[d] = wait[d] /\ wts'[d] = wts[d]
      /\ UNCHANGED <<chan, phase, mts, last_index>>
  BY Zenon DEF WaitForMark, TypeOK, procVars, clientVars
<1>2. MarksSent'
  BY <1>1, ChanMark DEF ChanInv, MarksSent
<1>3. SentOnce' /\ BeginOrder' /\ BegunBelow'
  BY <1>1 DEF ChanInv, SentOnce, BeginOrder, BegunBelow
<1>4. EndedInChan'
  BY <1>1, Zenon DEF ChanInv, EndedInChan, InChan
<1> QED
  BY <1>2, <1>3, <1>4, Zenon DEF ChanInv

LEMMA SendWaiterChan ==
  ASSUME TypeOK, ChanInv, NEW c \in Client, SendWaiter(c)
  PROVE  ChanInv'
<1> DEFINE m == WaitMark(c, wts[c])
           n == Len(chan) + 1
<1>1. m \in Mark /\ m.kind = "wait" /\ m.c = c /\ m.ts = wts[c]
  BY Zenon DEF WaitMark, Mark, TypeOK
<1>2. chan' = Append(chan, m)
  BY Zenon DEF SendWaiter, Send
<1> HIDE DEF m
<1>3. /\ Len(chan) \in Nat
      /\ \A i \in 1 .. Len(chan') : i \in 1 .. Len(chan) \/ i = n
      /\ \A i \in 1 .. Len(chan) : chan'[i] = chan[i]
      /\ chan'[n] = m
      /\ \A k, d : InChan(chan', k, d) <=> InChan(chan, k, d) \/ (m.kind = k /\ m.c = d)
  BY <1>1, <1>2, SendType, Zenon
<1>4. /\ wait' = [wait EXCEPT ![c] = "sent"]
      /\ UNCHANGED <<phase, mts, last_index, wts>>
  BY Zenon DEF SendWaiter, clientVars
<1>5. MarksSent'
  <2>1. ASSUME NEW i \in 1 .. Len(chan) PROVE MarksSent!(i)'
    BY <2>1, <1>3, <1>4, ChanMark, Zenon DEF ChanInv, MarksSent, TypeOK
  <2>2. ASSUME NEW i, i = n PROVE MarksSent!(i)'
    BY <2>2, <1>1, <1>3, <1>4, Zenon DEF TypeOK
  <2> QED BY <1>3, <2>1, <2>2, Zenon DEF MarksSent
<1>6. SentOnce' /\ BeginOrder'
  <2>1. \A i \in 1 .. Len(chan') : chan'[i].kind \in {"begin", "done"} => i \in 1 .. Len(chan)
    BY <1>1, <1>3, Zenon
  <2>2. SentOnce'
    BY <1>3, <2>1, Zenon DEF ChanInv, SentOnce
  <2>3. BeginOrder'
    BY <1>3, <2>1, Zenon DEF ChanInv, BeginOrder
  <2> QED BY <2>2, <2>3, Zenon
<1>7. EndedInChan' /\ BegunBelow'
  BY <1>1, <1>3, <1>4, Zenon DEF ChanInv, EndedInChan, BegunBelow
<1> QED
  BY <1>5, <1>6, <1>7, Zenon DEF ChanInv

LEMMA NotifiedChan ==
  ASSUME TypeOK, ChanInv, NEW c \in Client, Notified(c)
  PROVE  ChanInv'
<1>1. /\ wait' = [wait EXCEPT ![c] = "returned"]
      /\ UNCHANGED <<chan, phase, mts, last_index, wts>>
  BY Zenon DEF Notified, clientVars
<1>2. MarksSent'
  BY <1>1, ChanMark, Zenon DEF ChanInv, MarksSent, TypeOK
<1>3. SentOnce' /\ BeginOrder' /\ BegunBelow'
  BY <1>1 DEF ChanInv, SentOnce, BeginOrder, BegunBelow
<1>4. EndedInChan'
  BY <1>1, Zenon DEF ChanInv, EndedInChan, InChan
<1> QED
  BY <1>2, <1>3, <1>4, Zenon DEF ChanInv

LEMMA ProcessChan ==
  ASSUME TypeOK, ChanInv, Process
  PROVE  ChanInv'
<1>1. /\ chan # <<>>
      /\ chan' = Tail(chan)
      /\ UNCHANGED <<phase, mts, last_index, wait, wts>>
  BY Zenon DEF Process, clientVars, waitVars
<1>2. /\ Len(chan) \in Nat
      /\ \A i \in 1 .. Len(chan') : i + 1 \in 1 .. Len(chan) /\ chan'[i] = chan[i + 1]
      /\ 1 \in 1 .. Len(chan)
      /\ Head(chan) = chan[1]
      /\ \A k, c : InChan(chan, k, c) <=>
                     InChan(chan', k, c) \/ (Head(chan).kind = k /\ Head(chan).c = c)
  BY <1>1, RecvType, Zenon
<1>3. MarksSent'
  BY <1>1, <1>2 DEF ChanInv, MarksSent
<1>4. SentOnce' /\ BeginOrder'
  <2>1. ASSUME NEW i \in 1 .. Len(chan'), NEW j \in 1 .. Len(chan')
        PROVE  SentOnce!(i, j)' /\ BeginOrder!(i, j)'
    <3>1. /\ i + 1 \in 1 .. Len(chan) /\ j + 1 \in 1 .. Len(chan)
          /\ chan'[i] = chan[i + 1] /\ chan'[j] = chan[j + 1]
          /\ i < j <=> i + 1 < j + 1
          /\ i = j <=> i + 1 = j + 1
      BY <1>2
    <3>2. SentOnce!(i + 1, j + 1) /\ BeginOrder!(i + 1, j + 1)
      BY <3>1, Zenon DEF ChanInv, SentOnce, BeginOrder
    <3> QED BY <3>1, <3>2, Zenon
  <2> QED BY <2>1, Zenon DEF SentOnce, BeginOrder
<1>5. EndedInChan'
  <2>1. SUFFICES ASSUME NEW c \in Client, phase[c] = "ended", InChan(chan', "begin", c)
                 PROVE  InChan(chan', "done", c)
    BY <1>1, Zenon DEF EndedInChan
  <2>2. InChan(chan, "done", c)
    BY <1>2, <2>1, Zenon DEF ChanInv, EndedInChan
  <2>3. PICK i \in 1 .. Len(chan') : chan'[i].kind = "begin" /\ chan'[i].c = c
    BY <2>1, Zenon DEF InChan
  <2>4. ~ (chan[1].kind = "done" /\ chan[1].c = c)
    BY <1>2, <2>3 DEF ChanInv, SentOnce
  <2> QED BY <1>2, <2>2, <2>4, Zenon
<1>6. BegunBelow'
  BY <1>1, Zenon DEF ChanInv, BegunBelow
<1> QED
  BY <1>3, <1>4, <1>5, <1>6, Zenon DEF ChanInv

LEMMA NextChan == TypeOK /\ ChanInv /\ [Next]_vars => ChanInv'
<1> SUFFICES ASSUME TypeOK, ChanInv, [Next]_vars PROVE ChanInv'
  BY Zenon
<1>1. CASE UNCHANGED vars
  <2>1. UNCHANGED <<chan, phase, mts, last_index, wait, wts>>
    BY <1>1, Zenon DEF vars, procVars, clientVars, waitVars
  <2> QED
    BY <2>1 DEF ChanInv, MarksSent, SentOnce, BeginOrder, EndedInChan, BegunBelow, InChan
<1> QED
  BY <1>1, BeginChan, DoneChan, WaitForMarkChan, SendWaiterChan, NotifiedChan, ProcessChan
    , Zenon DEF Next

-----------------------------------------------------------------------------
\* The clients the process task holds a timestamp back for.

\* No step of a client changes them.
LEMMA HeldByClient ==
  ASSUME TypeOK, ChanInv, NEW c \in Client,
         \/ \E t \in Ts : Begin(c, t)
         \/ Done(c)
         \/ \E t \in Ts : WaitForMark(c, t)
         \/ SendWaiter(c)
         \/ Notified(c)
  PROVE  \A u \in Ts : Held(u)' = Held(u)
<1>1. CASE \E t \in Ts : Begin(c, t)
  <2>1. PICK t \in Ts : Begin(c, t)
    BY <1>1, Zenon
  <2>2. BeginMark(c, t) \in Mark /\ BeginMark(c, t).kind = "begin" /\ BeginMark(c, t).c = c
    BY Zenon DEF BeginMark, Mark
  <2>3. \A k, d : InChan(chan', k, d) <=> InChan(chan, k, d) \/ (k = "begin" /\ c = d)
    BY <2>1, <2>2, SendType DEF Begin, Send
  <2>4. /\ phase[c] = "none"
        /\ \A d \in Client \ {c} : phase'[d] = phase[d] /\ mts'[d] = mts[d]
    BY <2>1, Zenon DEF Begin, TypeOK
  <2> QED
    BY <2>3, <2>4, Zenon DEF Held
<1>2. CASE Done(c)
  <2>2. /\ DoneMark(c, mts[c]) \in Mark
        /\ DoneMark(c, mts[c]).kind = "done" /\ DoneMark(c, mts[c]).c = c
    BY Zenon DEF DoneMark, Mark, TypeOK
  <2>3. \A k, d : InChan(chan', k, d) <=> InChan(chan, k, d) \/ (k = "done" /\ c = d)
    BY <1>2, <2>2, SendType DEF Done, Send
  <2>4. /\ phase[c] = "begun" /\ phase'[c] = "ended" /\ mts' = mts
        /\ \A d \in Client \ {c} : phase'[d] = phase[d]
    BY <1>2, Zenon DEF Done, TypeOK
  <2> QED
    BY <2>3, <2>4, Zenon DEF Held
<1>3. CASE SendWaiter(c)
  <2>2. /\ WaitMark(c, wts[c]) \in Mark
        /\ WaitMark(c, wts[c]).kind = "wait" /\ WaitMark(c, wts[c]).c = c
    BY Zenon DEF WaitMark, Mark, TypeOK
  <2>3. \A k, d : InChan(chan', k, d) <=> InChan(chan, k, d) \/ (k = "wait" /\ c = d)
    BY <1>3, <2>2, SendType DEF SendWaiter, Send
  <2>4. phase' = phase /\ mts' = mts
    BY <1>3, Zenon DEF SendWaiter, clientVars
  <2> QED
    BY <2>3, <2>4 DEF Held
<1>4. CASE (\E t \in Ts : WaitForMark(c, t)) \/ Notified(c)
  <2>1. UNCHANGED <<chan, phase, mts>>
    BY <1>4, Zenon DEF WaitForMark, Notified, procVars, clientVars
  <2> QED
    BY <2>1, Zenon DEF Held, InChan
<1> QED
  BY <1>1, <1>2, <1>3, <1>4, Zenon

\* The process task takes a client in with its begin and lets it go with its done.
LEMMA HeldByProcess ==
  ASSUME TypeOK, ChanInv, Process, NEW m, m = Head(chan), m.kind # "wait"
  PROVE  /\ m.ts \in Ts /\ m.c \in Client
         /\ m.ts = mts[m.c] /\ phase[m.c] # "none"
         /\ \A u \in Ts \ {m.ts} : Held(u)' = Held(u)
         /\ m.kind = "begin" => /\ m.c \notin Held(m.ts)
                                /\ Held(m.ts)' = Held(m.ts) \cup {m.c}
                                /\ ~InChan(chan', "begin", m.c)
         /\ m.kind # "begin" => /\ m.c \in Held(m.ts)
                                /\ Held(m.ts)' = Held(m.ts) \ {m.c}
<1>1. /\ chan # <<>>
      /\ chan' = Tail(chan)
      /\ phase' = phase /\ mts' = mts
  BY Zenon DEF Process, clientVars, waitVars
<1>2. /\ Len(chan) \in Nat
      /\ \A i \in 1 .. Len(chan') : i + 1 \in 1 .. Len(chan) /\ chan'[i] = chan[i + 1]
      /\ 1 \in 1 .. Len(chan)
      /\ m = chan[1]
      /\ \A k, d : InChan(chan, k, d) <=> InChan(chan', k, d) \/ (m.kind = k /\ m.c = d)
  BY <1>1, RecvType, Zenon
<1>3. m.kind \in {"begin", "done"} /\ m.ts \in Ts /\ m.c \in Client
  BY <1>2, ChanMark, Zenon
<1>4. m.ts = mts[m.c] /\ phase[m.c] # "none"
  BY <1>2, <1>3, Zenon DEF ChanInv, MarksSent
<1>5. ~InChan(chan', m.kind, m.c)
  <2>1. SUFFICES ASSUME NEW i \in 1 .. Len(chan'),
                        chan'[i].kind = m.kind, chan'[i].c = m.c
                 PROVE  FALSE
    BY Zenon DEF InChan
  <2>2. i + 1 = 1
    BY <1>2, <1>3, <2>1, Zenon DEF ChanInv, SentOnce
  <2> QED BY <2>2
<1>6. \A u \in Ts, d \in Client \ {m.c} : d \in Held(u)' <=> d \in Held(u)
  BY <1>1, <1>2, Zenon DEF Held
<1>7. \A u \in Ts : m.c \in Held(u) \/ m.c \in Held(u)' => u = m.ts
  BY <1>1, <1>4, Zenon DEF Held
<1>8. \A u \in Ts : Held(u) \subseteq Client /\ Held(u)' \subseteq Client
  BY Zenon DEF Held
<1>9. \A u \in Ts \ {m.ts} : Held(u)' = Held(u)
  BY <1>6, <1>7, <1>8
<1>10. CASE m.kind = "begin"
  <2>1. m.c \notin Held(m.ts)
    BY <1>2, <1>10, Zenon DEF Held
  <2>2. phase[m.c] = "ended" => InChan(chan', "done", m.c)
    BY <1>2, <1>3, <1>10 DEF ChanInv, EndedInChan
  <2>3. phase[m.c] \in {"begun", "ended"}
    BY <1>3, <1>4, Zenon DEF TypeOK
  <2>4. m.c \in Held(m.ts)'
    BY <1>1, <1>3, <1>4, <1>5, <1>10, <2>2, <2>3, Zenon DEF Held
  <2> QED
    BY <1>3, <1>4, <1>5, <1>6, <1>8, <1>9, <1>10, <2>1, <2>4, Zenon
<1>11. CASE m.kind = "done"
  <2>1. ~InChan(chan, "begin", m.c)
    <3>1. SUFFICES ASSUME NEW i \in 1 .. Len(chan), chan[i].kind = "begin", chan[i].c = m.c
                   PROVE  FALSE
      BY Zenon DEF InChan
    <3>2. i < 1
      BY <1>2, <1>11, <3>1, Zenon DEF ChanInv, SentOnce
    <3> QED BY <3>2
  <2>2. phase[m.c] = "ended" /\ InChan(chan, "done", m.c)
    BY <1>2, <1>11, Zenon DEF ChanInv, MarksSent
  <2>3. m.c \in Held(m.ts)
    BY <1>3, <1>4, <2>1, <2>2, Zenon DEF Held
  <2>4. m.c \notin Held(m.ts)'
    BY <1>1, <1>5, <1>11, <2>2, Zenon DEF Held
  <2> QED
    BY <1>3, <1>4, <1>6, <1>8, <1>9, <1>11, <2>3, <2>4, Zenon
<1> QED
  BY <1>3, <1>10, <1>11, Zenon

-----------------------------------------------------------------------------
\* The heap invariant.

LEMMA InitHeap == Init => HeapInv
<1> SUFFICES ASSUME Init PROVE HeapInv
  BY Zenon
<1>1. \A t \in Ts : Held(t) = {}
  BY Zenon DEF Init, Held
<1>2. Counts
  <2>1. \A t \in Ts : Cardinality(Held(t)) = 0
    BY <1>1, FS_EmptySet, Zenon
  <2>2. \A t \in Ts : pending[t] = IF t = 0 THEN 0 ELSE -Cardinality(Held(t))
    BY <2>1 DEF Init
  <2> QED
    BY <1>1, <2>2, Zenon DEF Init, Counts
<1>3. HeapBetween
  BY Zenon DEF Init, HeapBetween
<1>4. UntilBehind
  <2>1. 1 .. Len(chan) = {}
    BY DEF Init
  <2> QED
    BY <2>1, MarkAssumption DEF Init, UntilBehind
<1> QED
  BY <1>2, <1>3, <1>4, Zenon DEF HeapInv

\* A step that leaves the process task's state and the clients it holds alone
\* keeps the invariant, as long as no begin arrives below last_index.
LEMMA HeapStable ==
  ASSUME TypeOK, TypeOK', HeapInv,
         UNCHANGED <<done_until, heap, pending>>,
         \A u \in Ts : u # 0 => Held(u)' = Held(u),
         last_index <= last_index',
         \A i \in 1 .. Len(chan') : chan'[i].kind = "begin" =>
           last_index <= chan'[i].ts \/ \E j \in 1 .. Len(chan) : chan[j] = chan'[i],
         \A c \in Client : phase[c] # "none" =>
           /\ phase'[c] # "none" /\ mts'[c] = mts[c]
           /\ phase[c] = "ended" => phase'[c] = "ended"
           /\ InChan(chan', "begin", c) => InChan(chan, "begin", c)
  PROVE  HeapInv'
<1>1. /\ done_until \in Nat /\ last_index \in Nat /\ last_index' \in Nat
      /\ \A i \in 1 .. Len(chan') : chan'[i].ts \in Nat
      /\ \A t \in heap : t \in Nat
  <2>1. Ts \subseteq Nat
    BY MarkAssumption, Zenon
  <2>2. \A i \in 1 .. Len(chan') : chan'[i].ts \in Ts
    BY MarkFields, Zenon DEF TypeOK
  <2> QED
    BY <2>1, <2>2, Zenon DEF TypeOK
<1>2. Counts'
  BY DEF HeapInv, Counts
<1>3. HeapBetween'
  <2>1. SUFFICES ASSUME NEW t \in heap PROVE HeapBetween!(t)'
    BY Zenon DEF HeapBetween
  <2>2. HeapBetween!(t)
    BY Zenon DEF HeapInv, HeapBetween
  <2>3. t <= last_index'
    BY <1>1, <2>2
  <2>4. \A i \in 1 .. Len(chan') : chan'[i].kind = "begin" => t <= chan'[i].ts
    BY <1>1, <2>2
  <2>5. (\E c \in Client : phase[c] # "none" /\ mts[c] = t /\ ~InChan(chan, "begin", c))'
    BY <2>2, Zenon
  <2> QED
    BY <2>2, <2>3, <2>4, <2>5, Zenon
<1>4. UntilBehind'
  <2>1. done_until <= last_index'
    BY <1>1 DEF HeapInv, UntilBehind
  <2>2. \A i \in 1 .. Len(chan') : chan'[i].kind = "begin" => done_until <= chan'[i].ts
    BY <1>1 DEF HeapInv, UntilBehind
  <2>3. done_until # InitUntil =>
          \E c \in Client : phase'[c] = "ended" /\ mts'[c] = done_until
    BY Zenon DEF HeapInv, UntilBehind
  <2> QED
    BY <2>1, <2>2, <2>3, Zenon DEF HeapInv, UntilBehind
<1> QED
  BY <1>2, <1>3, <1>4, Zenon DEF HeapInv

LEMMA ClientHeap ==
  ASSUME TypeOK, TypeOK', ChanInv, HeapInv, NEW c \in Client,
         \/ \E t \in Ts : last_index <= t /\ Begin(c, t)
         \/ Done(c)
         \/ \E t \in Ts : WaitForMark(c, t)
         \/ SendWaiter(c)
         \/ Notified(c)
  PROVE  HeapInv'
<1>0. \A u \in Ts : Held(u)' = Held(u)
  BY HeldByClient, Zenon
<1>a. last_index \in Nat /\ last_index <= last_index
  BY MarkAssumption DEF TypeOK
<1>1. CASE \E t \in Ts : last_index <= t /\ Begin(c, t)
  <2>1. PICK t \in Ts : last_index <= t /\ Begin(c, t)
    BY <1>1, Zenon
  <2> DEFINE m == BeginMark(c, t)
  <2>2. m \in Mark /\ m.kind = "begin" /\ m.c = c /\ m.ts = t
    BY Zenon DEF BeginMark, Mark
  <2>3. chan' = Append(chan, m)
    BY <2>1, Zenon DEF Begin, Send
  <2> HIDE DEF m
  <2>4. /\ \A i \in 1 .. Len(chan') : i \in 1 .. Len(chan) \/ i = Len(chan) + 1
        /\ \A i \in 1 .. Len(chan) : chan'[i] = chan[i]
        /\ chan'[Len(chan) + 1] = m
        /\ \A d : InChan(chan', "begin", d) <=> InChan(chan, "begin", d) \/ c = d
    BY <2>2, <2>3, SendType, Zenon
  <2>5. /\ phase[c] = "none" /\ last_index' = t
        /\ \A d \in Client \ {c} : phase'[d] = phase[d] /\ mts'[d] = mts[d]
        /\ UNCHANGED <<done_until, heap, pending>>
    BY <2>1, Zenon DEF Begin, TypeOK
  <2>6. \A i \in 1 .. Len(chan') : chan'[i].kind = "begin" =>
           last_index <= chan'[i].ts \/ \E j \in 1 .. Len(chan) : chan[j] = chan'[i]
    BY <2>1, <2>2, <2>4, Zenon
  <2>7. \A d \in Client : phase[d] # "none" =>
           /\ phase'[d] # "none" /\ mts'[d] = mts[d]
           /\ phase[d] = "ended" => phase'[d] = "ended"
           /\ InChan(chan', "begin", d) => InChan(chan, "begin", d)
    BY <2>4, <2>5, Zenon
  <2> QED
    BY <1>0, <2>1, <2>5, <2>6, <2>7, HeapStable, Zenon
<1>2. CASE Done(c) \/ SendWaiter(c)
  <2>1. PICK m \in Mark : m.kind # "begin" /\ chan' = Append(chan, m)
    <3>1. DoneMark(c, mts[c]) \in Mark /\ WaitMark(c, wts[c]) \in Mark
      BY Zenon DEF DoneMark, WaitMark, Mark, TypeOK
    <3>2. DoneMark(c, mts[c]).kind = "done" /\ WaitMark(c, wts[c]).kind = "wait"
      BY Zenon DEF DoneMark, WaitMark
    <3>3. chan' = Append(chan, DoneMark(c, mts[c])) \/ chan' = Append(chan, WaitMark(c, wts[c]))
      BY <1>2, Zenon DEF Done, SendWaiter, Send
    <3> QED BY <3>1, <3>2, <3>3, Zenon
  <2>2. /\ \A i \in 1 .. Len(chan') : i \in 1 .. Len(chan) \/ i = Len(chan) + 1
        /\ \A i \in 1 .. Len(chan) : chan'[i] = chan[i]
        /\ chan'[Len(chan) + 1] = m
        /\ \A d : InChan(chan', "begin", d) <=> InChan(chan, "begin", d)
    BY <2>1, SendType, Zenon
  <2>3. /\ UNCHANGED <<done_until, heap, pending, last_index, mts>>
        /\ \A d \in Client : phase'[d] = phase[d] \/ (phase[d] = "begun" /\ phase'[d] = "ended")
    <3>1. CASE Done(c)
      BY <3>1, Zenon DEF Done, TypeOK
    <3>2. CASE SendWaiter(c)
      BY <3>2, Zenon DEF SendWaiter, clientVars
    <3> QED BY <1>2, <3>1, <3>2, Zenon
  <2>4. \A i \in 1 .. Len(chan') : chan'[i].kind = "begin" =>
          last_index <= chan'[i].ts \/ \E j \in 1 .. Len(chan) : chan[j] = chan'[i]
    BY <2>1, <2>2, Zenon
  <2>5. \A d \in Client : phase[d] # "none" =>
           /\ phase'[d] # "none" /\ mts'[d] = mts[d]
           /\ phase[d] = "ended" => phase'[d] = "ended"
           /\ InChan(chan', "begin", d) => InChan(chan, "begin", d)
    BY <2>2, <2>3, Zenon
  <2> QED
    BY <1>0, <1>a, <2>3, <2>4, <2>5, HeapStable, Zenon
<1>3. CASE (\E t \in Ts : WaitForMark(c, t)) \/ Notified(c)
  <2>1. UNCHANGED <<done_until, heap, pending, last_index, mts, phase, chan>>
    BY <1>3, Zenon DEF WaitForMark, Notified, procVars, clientVars
  <2> QED
    BY <1>0, <1>a, <2>1, HeapStable, Zenon
<1> QED
  BY <1>1, <1>2, <1>3, Zenon

\* The counters agree with the clients after the mark at the head is counted.
LEMMA CountedHeld ==
  ASSUME TypeOK, ChanInv, HeapInv, Process, NEW m, m = Head(chan), m.kind # "wait", m.ts # 0,
         NEW p, p = Counted(m.ts, m.kind = "done")
  PROVE  /\ p \in [Ts -> Int]
         /\ \A u \in Ts : p[u] = IF u = 0 THEN 0 ELSE -Cardinality(Held(u)')
         /\ \A u \in Ts : u # 0 => (p[u] >= 0 <=> Held(u)' = {})
<1>1. /\ m.ts \in Ts /\ m.c \in Client
      /\ \A u \in Ts \ {m.ts} : Held(u)' = Held(u)
      /\ m.kind = "begin" => m.c \notin Held(m.ts) /\ Held(m.ts)' = Held(m.ts) \cup {m.c}
      /\ m.kind # "begin" => m.c \in Held(m.ts) /\ Held(m.ts)' = Held(m.ts) \ {m.c}
  BY HeldByProcess, Zenon
<1>2. /\ p \in [Ts -> Int]
      /\ \A u \in Ts \ {m.ts} : p[u] = pending[u]
      /\ m.kind = "done" => p[m.ts] = pending[m.ts] + 1
      /\ m.kind # "done" => p[m.ts] = pending[m.ts] - 1
  BY <1>1, CountedType, (m.kind = "done") \in BOOLEAN, Zenon
<1>3. m.kind \in {"begin", "done"}
  BY RecvType, Zenon DEF Process, Mark
<1>4. \A u \in Ts : IsFiniteSet(Held(u)) /\ IsFiniteSet(Held(u)')
  <2>1. \A u \in Ts : Held(u) \subseteq Client /\ Held(u)' \subseteq Client
    BY Zenon DEF Held
  <2> QED
    BY <2>1, MarkAssumption, FS_Subset, Zenon
<1>5. \A u \in Ts : Cardinality(Held(u)) \in Nat /\ Cardinality(Held(u)') \in Nat
  BY <1>4, FS_CardinalityType, Zenon
<1>6. \A u \in Ts : pending[u] = IF u = 0 THEN 0 ELSE -Cardinality(Held(u))
  BY Zenon DEF HeapInv, Counts
<1>7. p[m.ts] = -Cardinality(Held(m.ts)')
  <2>1. CASE m.kind = "begin"
    <3>1. Cardinality(Held(m.ts)') = Cardinality(Held(m.ts)) + 1
      BY <1>1, <1>4, <2>1, FS_AddElement
    <3> QED BY <1>1, <1>2, <1>5, <1>6, <2>1, <3>1
  <2>2. CASE m.kind = "done"
    <3>1. Cardinality(Held(m.ts)') = Cardinality(Held(m.ts)) - 1
      BY <1>1, <1>4, <2>2, FS_RemoveElement
    <3> QED BY <1>1, <1>2, <1>5, <1>6, <2>2, <3>1
  <2> QED BY <1>3, <2>1, <2>2, Zenon
<1>8. \A u \in Ts : p[u] = IF u = 0 THEN 0 ELSE -Cardinality(Held(u)')
  <2> SUFFICES ASSUME NEW u \in Ts
               PROVE  p[u] = IF u = 0 THEN 0 ELSE -Cardinality(Held(u)')
    BY Zenon
  <2>1. CASE u = m.ts
    BY <1>7, <2>1, Zenon
  <2>2. CASE u # m.ts
    BY <1>1, <1>2, <1>6, <2>2, Zenon
  <2> QED BY <2>1, <2>2, Zenon
<1>9. \A u \in Ts : Cardinality(Held(u)') = 0 <=> Held(u)' = {}
  BY <1>4, FS_EmptySet, Zenon
<1>10. ASSUME NEW u \in Ts, u # 0 PROVE p[u] >= 0 <=> Held(u)' = {}
  <2>1. p[u] = -Cardinality(Held(u)')
    BY <1>8, <1>10, Zenon
  <2>2. p[u] >= 0 <=> Cardinality(Held(u)') = 0
    BY <1>5, <2>1
  <2> QED BY <1>9, <2>2, Zenon
<1> QED
  BY <1>2, <1>8, <1>10, Zenon

LEMMA ProcessOneHeap ==
  ASSUME TypeOK, TypeOK', ChanInv, HeapInv, Process, NEW m, m = Head(chan),
         m.kind # "wait", m.ts > 0, ProcessOne(m.ts, m.kind = "done")
  PROVE  /\ HeapInv'
         /\ done_until <= done_until'
<1> DEFINE p == Counted(m.ts, m.kind = "done")
           h == heap \cup {m.ts}
           popped == Popped(h, p)
<1>1. /\ done_until' \in {done_until} \cup popped
      /\ popped = {} => done_until' = done_until
      /\ popped # {} => done_until' \in popped
      /\ heap' = h \ popped
      /\ pending' = [u \in Ts |-> IF u \in popped THEN 0 ELSE p[u]]
  BY Zenon DEF ProcessOne
<1>2. m.ts \in Ts /\ m.c \in Client /\ m.ts = mts[m.c] /\ phase[m.c] # "none"
  BY HeldByProcess, Zenon
<1>3. /\ heap \subseteq Ts /\ heap \subseteq Nat /\ h \subseteq Ts /\ h \subseteq Nat
      /\ m.ts \in Nat /\ done_until \in Nat /\ last_index \in Nat /\ 0 \notin h
      /\ Ts \subseteq Nat
  <2>1. Ts \subseteq Nat /\ heap \subseteq Ts /\ done_until \in Ts /\ last_index \in Ts
    BY MarkAssumption, Zenon DEF TypeOK
  <2>2. 0 \notin heap
    BY Zenon DEF HeapInv, Counts
  <2>3. m.ts \in Nat /\ m.ts # 0
    <3>1. m.ts \in Nat
      BY <1>2, <2>1, Zenon
    <3>2. \A x \in Nat : x > 0 => x # 0
      OBVIOUS
    <3> QED BY <3>1, <3>2, Zenon
  <2>4. h \subseteq Ts /\ 0 \notin h
    BY <1>2, <2>1, <2>2, <2>3, Zenon
  <2> HIDE DEF h
  <2> QED BY <2>1, <2>3, <2>4, Zenon
<1>4. /\ p \in [Ts -> Int]
      /\ \A u \in Ts : p[u] = IF u = 0 THEN 0 ELSE -Cardinality(Held(u)')
      /\ \A u \in Ts : u # 0 => (p[u] >= 0 <=> Held(u)' = {})
  BY <1>3, CountedHeld
<1>5. /\ \A i \in 1 .. Len(chan') : i + 1 \in 1 .. Len(chan) /\ chan'[i] = chan[i + 1]
      /\ 1 \in 1 .. Len(chan) /\ m = chan[1] /\ Len(chan) \in Nat
      /\ \A k, d : InChan(chan', k, d) => InChan(chan, k, d)
  BY RecvType, Zenon DEF Process
<1>6. phase' = phase /\ mts' = mts /\ last_index' = last_index
  BY Zenon DEF Process, clientVars
<1>7. m.kind \in {"begin", "done"}
  BY <1>5, ChanMark, Zenon
\* The entries of the heap, the one just added included, against what is left
\* in the channel.
<1>8. ASSUME NEW t \in h
      PROVE  /\ done_until <= t
             /\ t <= last_index
             /\ \A i \in 1 .. Len(chan') : chan'[i].kind = "begin" => t <= chan'[i].ts
             /\ \E c \in Client : phase[c] # "none" /\ mts[c] = t /\ ~InChan(chan', "begin", c)
  <2>1. CASE t \in heap
    <3>1. HeapBetween!(t)
      BY <2>1, Zenon DEF HeapInv, HeapBetween
    <3> QED BY <1>5, <3>1, Zenon
  <2>2. CASE t \notin heap
    <3>1. t = m.ts
      BY <2>2, Zenon
    <3>2. m.kind = "begin"
      <4>1. ASSUME m.kind = "done" PROVE FALSE
        <5>1. Held(m.ts) # {}
          BY <4>1, HeldByProcess, Zenon
        <5>2. m.ts \in heap
          BY <1>2, <5>1, Zenon DEF HeapInv, Counts
        <5> QED BY <2>2, <3>1, <5>2, Zenon
      <4> QED BY <1>7, <4>1, Zenon
    <3>3. done_until <= m.ts
      BY <1>5, <3>2, Zenon DEF HeapInv, UntilBehind
    <3>4. m.ts <= last_index
      BY <1>2, Zenon DEF ChanInv, BegunBelow
    <3>5. ASSUME NEW i \in 1 .. Len(chan'), chan'[i].kind = "begin"
          PROVE  m.ts <= chan'[i].ts
      <4>1. 1 < i + 1
        OBVIOUS
      <4> QED BY <1>5, <3>2, <3>5, <4>1, Zenon DEF ChanInv, BeginOrder
    <3>6. ~InChan(chan', "begin", m.c)
      BY <3>2, HeldByProcess, Zenon
    <3> QED BY <1>2, <3>1, <3>3, <3>4, <3>5, <3>6, Zenon
  <2> QED BY <2>1, <2>2, Zenon
<1>9. /\ popped \subseteq h
      /\ \A u \in popped : p[u] >= 0
      /\ \A u \in popped, t \in h \ popped : u < t
  <2>1. popped \subseteq h
    BY Zenon DEF Popped
  <2>2. \A u \in popped : p[u] >= 0
    BY <1>3 DEF Popped
  <2>3. ASSUME NEW u \in popped, NEW t \in h \ popped PROVE u < t
    <3>1. PICK v \in h : v <= t /\ ~(p[v] >= 0)
      BY Zenon DEF Popped
    <3>2. ~(v <= u)
      BY <3>1, Zenon DEF Popped
    <3> QED BY <1>3, <2>1, <3>1, <3>2
  <2> QED BY <2>1, <2>2, <2>3, Zenon
<1> HIDE DEF p, h, popped
<1>10. done_until <= done_until'
  BY <1>1, <1>3, <1>8, <1>9
<1>11. Counts'
  <2>1. 0 \notin heap'
    BY <1>1, <1>3, Zenon
  <2>2. ASSUME NEW t \in Ts
        PROVE  pending'[t] = IF t = 0 THEN 0 ELSE -Cardinality(Held(t)')
    <3>1. CASE t \in popped
      <4>1. t # 0 /\ Held(t)' = {}
        BY <1>3, <1>4, <1>9, <3>1, Zenon
      <4>2. Cardinality(Held(t)') = 0
        BY <4>1, FS_EmptySet, Zenon
      <4> QED BY <1>1, <3>1, <4>1, <4>2
    <3>2. CASE t \notin popped
      BY <1>1, <1>4, <3>2, Zenon
    <3> QED BY <3>1, <3>2, Zenon
  <2>3. ASSUME NEW t \in Ts, t > 0, Held(t)' # {} PROVE t \in heap'
    <3>1. t \in h
      <4>1. CASE t = m.ts
        BY <4>1, Zenon DEF h
      <4>2. CASE t # m.ts
        <5>1. Held(t) # {}
          BY <2>3, <4>2, HeldByProcess, Zenon
        <5> QED BY <2>3, <5>1, Zenon DEF HeapInv, Counts, h
      <4> QED BY <4>1, <4>2, Zenon
    <3>2. t \notin popped
      BY <1>3, <1>4, <1>9, <2>3, Zenon
    <3> QED BY <1>1, <3>1, <3>2, Zenon
  <2> QED
    BY <2>1, <2>2, <2>3, Zenon DEF Counts
<1>12. HeapBetween'
  <2>1. ASSUME NEW t \in heap' PROVE HeapBetween!(t)'
    <3>1. t \in h /\ t \notin popped
      BY <1>1, <2>1, Zenon
    <3>2. done_until' <= t
      BY <1>1, <1>3, <1>8, <1>9, <3>1
    <3> QED
      BY <1>6, <1>8, <3>1, <3>2, Zenon
  <2> QED BY <2>1, Zenon DEF HeapBetween
<1>13. UntilBehind'
  <2>1. CASE done_until' = done_until
    BY <1>5, <1>6, <2>1, Zenon DEF HeapInv, UntilBehind
  <2>2. CASE done_until' # done_until
    <3>1. done_until' \in popped /\ done_until' \in h
      BY <1>1, <1>9, <2>2, Zenon
    <3>2. PICK c \in Client : /\ phase[c] # "none" /\ mts[c] = done_until'
                              /\ ~InChan(chan', "begin", c)
      BY <1>8, <3>1, Zenon
    <3>3. ASSUME NEW u \in Ts, u = done_until' PROVE c \notin Held(u)'
      BY <1>3, <1>4, <1>9, <3>1, <3>3, Zenon
    <3>4. phase[c] = "ended"
      <4>1. phase[c] \in {"begun", "ended"}
        BY <3>2, Zenon DEF TypeOK
      <4>2. mts[c] \in Ts
        BY Zenon DEF TypeOK
      <4> QED BY <1>6, <3>2, <3>3, <4>1, <4>2, Zenon DEF Held
    <3>5. /\ done_until' <= last_index
          /\ \A i \in 1 .. Len(chan') : chan'[i].kind = "begin" => done_until' <= chan'[i].ts
      BY <1>8, <3>1, Zenon
    <3>6. InitUntil <= done_until'
      <4>1. InitUntil \in Nat /\ done_until' \in Nat
        BY MarkAssumption, Zenon DEF TypeOK
      <4> QED BY <1>3, <1>10, <4>1 DEF HeapInv, UntilBehind
    <3> QED BY <1>6, <3>2, <3>4, <3>5, <3>6, Zenon DEF UntilBehind
  <2> QED BY <2>1, <2>2, Zenon
<1> QED
  BY <1>10, <1>11, <1>12, <1>13, Zenon DEF HeapInv

\* A mark the task does not count: a waiter's, or one at timestamp 0.
LEMMA UncountedHeap ==
  ASSUME TypeOK, TypeOK', ChanInv, HeapInv, Process, NEW m, m = Head(chan),
         m.kind = "wait" \/ m.ts = 0, UNCHANGED <<done_until, heap, pending>>
  PROVE  HeapInv'
<1>1. /\ UNCHANGED <<phase, mts, last_index>>
      /\ last_index \in Nat /\ last_index <= last_index
  BY MarkAssumption DEF Process, clientVars, TypeOK
<1>2. /\ \A i \in 1 .. Len(chan') : i + 1 \in 1 .. Len(chan) /\ chan'[i] = chan[i + 1]
      /\ \A k, d : InChan(chan, k, d) <=> InChan(chan', k, d) \/ (m.kind = k /\ m.c = d)
  BY RecvType, Zenon DEF Process
<1>3. \A u \in Ts : u # 0 => Held(u)' = Held(u)
  <2>1. CASE m.kind = "wait"
    BY <1>1, <1>2, <2>1 DEF Held
  <2>2. CASE m.kind # "wait"
    BY <2>2, HeldByProcess, Zenon
  <2> QED BY <2>1, <2>2, Zenon
<1> QED
  BY <1>1, <1>2, <1>3, HeapStable, Zenon

\* What the process task does: the invariant holds and done_until only grows.
LEMMA ProcessHeap ==
  ASSUME TypeOK, TypeOK', ChanInv, HeapInv, Process
  PROVE  HeapInv' /\ done_until <= done_until'
<1> DEFINE m == Head(chan)
<1>1. done_until \in Nat
  BY MarkAssumption, Zenon DEF TypeOK
<1>2. CASE m.kind # "wait" /\ m.ts > 0 /\ ProcessOne(m.ts, m.kind = "done")
  BY <1>2, ProcessOneHeap, Zenon
<1>3. CASE /\ m.kind = "wait" \/ m.ts = 0
           /\ UNCHANGED <<done_until, heap, pending>>
  BY <1>1, <1>3, UncountedHeap
<1> QED
  BY <1>2, <1>3, Zenon DEF Process, RegisterWaiter

LEMMA NextHeap == TypeOK /\ TypeOK' /\ ChanInv /\ HeapInv /\ [Next]_vars => HeapInv'
<1> SUFFICES ASSUME TypeOK, TypeOK', ChanInv, HeapInv, [Next]_vars PROVE HeapInv'
  BY Zenon
<1>1. CASE UNCHANGED vars
  <2>1. UNCHANGED <<done_until, heap, pending, chan, phase, mts, last_index>>
    BY <1>1, Zenon DEF vars, procVars, clientVars
  <2>2. \A u \in Ts : Held(u)' = Held(u)
    BY <2>1, Zenon DEF Held, InChan
  <2>3. last_index \in Nat /\ last_index <= last_index
    BY MarkAssumption DEF TypeOK
  <2> QED BY <2>1, <2>2, <2>3, HeapStable, Zenon
<1> QED
  BY <1>1, ClientHeap, ProcessHeap, Zenon DEF Next

-----------------------------------------------------------------------------
\* The waiters.

LEMMA InitWait == Init => WaitInv
BY Zenon DEF Init, WaitInv, WaitReturnSound

\* Only waiters that done_until has reached are notified.
LEMMA WokenReached ==
  ASSUME TypeOK, NEW until \in Ts
  PROVE  Woken(until) \subseteq waiters /\ \A w \in Woken(until) : w.ts <= until
<1>1. done_until \in Nat /\ until \in Nat
  BY MarkAssumption, Zenon DEF TypeOK
<1>2. CASE until - done_until <= Cardinality({w.ts : w \in waiters})
  BY <1>1, <1>2 DEF Woken
<1>3. CASE ~(until - done_until <= Cardinality({w.ts : w \in waiters}))
  BY <1>3, Zenon DEF Woken
<1> QED BY <1>2, <1>3, Zenon

LEMMA ProcessWait ==
  ASSUME TypeOK, TypeOK', ChanInv, HeapInv, WaitInv, Process
  PROVE  WaitInv'
<1> DEFINE m == Head(chan)
<1>1. done_until <= done_until' /\ done_until \in Nat /\ done_until' \in Nat
  BY ProcessHeap, MarkAssumption, Zenon DEF TypeOK
<1>2. UNCHANGED <<wait, wts>>
  BY Zenon DEF Process, waitVars
<1>3. \A c \in Client : wts[c] \in Nat
  BY MarkAssumption, Zenon DEF TypeOK
<1>4. WaitReturnSound'
  BY <1>1, <1>2, <1>3 DEF WaitInv, WaitReturnSound
<1>5. \A c \in notified : wait'[c] # "none" /\ wts'[c] <= done_until'
  BY <1>1, <1>2, <1>3 DEF WaitInv, TypeOK
<1>6. \A w \in waiters : wait'[w.c] # "none" /\ w.ts = wts'[w.c]
  BY <1>2, Zenon DEF WaitInv
<1>7. CASE m.kind = "wait" /\ RegisterWaiter(m)
  <2>1. wait[m.c] # "none" /\ m.ts = wts[m.c]
    BY <1>7, RecvType, Zenon DEF ChanInv, MarksSent, Process
  <2>2. CASE done_until >= m.ts
    <3>1. notified' = notified \cup {m.c} /\ waiters' = waiters /\ done_until' = done_until
      BY <1>7, <2>2, Zenon DEF RegisterWaiter
    <3>2. m.ts <= done_until
      BY <1>1, <2>2, RecvType, MarkAssumption, Zenon DEF Process, Mark
    <3> QED
      BY <1>2, <1>4, <1>5, <1>6, <2>1, <3>1, <3>2, Zenon DEF WaitInv
  <2>3. CASE ~(done_until >= m.ts)
    <3>1. waiters' = waiters \cup {[ts |-> m.ts, c |-> m.c]} /\ notified' = notified
      BY <1>7, <2>3, Zenon DEF RegisterWaiter
    <3> QED
      BY <1>2, <1>4, <1>5, <1>6, <2>1, <3>1 DEF WaitInv
  <2> QED BY <2>2, <2>3, Zenon
<1>8. ASSUME NEW done \in BOOLEAN, ProcessOne(m.ts, done) PROVE WaitInv'
  <2>1. /\ waiters' \subseteq waiters
        /\ notified' = notified \cup {w.c : w \in Woken(done_until')}
    BY <1>8, Zenon DEF ProcessOne
  <2>2. Woken(done_until') \subseteq waiters /\ \A w \in Woken(done_until') : w.ts <= done_until'
    BY WokenReached, Zenon DEF TypeOK
  <2> QED
    BY <1>2, <1>4, <1>5, <1>6, <2>1, <2>2, Zenon DEF WaitInv
<1>9. CASE UNCHANGED <<waiters, notified>>
  BY <1>4, <1>5, <1>6, <1>9, Zenon DEF WaitInv
<1> QED
  BY <1>7, <1>8, <1>9, (m.kind = "done") \in BOOLEAN, Zenon DEF Process

LEMMA NextWait ==
  TypeOK /\ TypeOK' /\ ChanInv /\ HeapInv /\ WaitInv /\ [Next]_vars => WaitInv'
<1> SUFFICES ASSUME TypeOK, TypeOK', ChanInv, HeapInv, WaitInv, [Next]_vars PROVE WaitInv'
  BY Zenon
<1>0. /\ \A w \in waiters : w.c \in Client
      /\ notified \subseteq Client
      /\ done_until \in Nat /\ \A t \in Ts : t \in Nat
  BY MarkAssumption, SMTT(15) DEF TypeOK
<1>1. ASSUME NEW c \in Client, NEW t \in Ts, Begin(c, t) PROVE WaitInv'
  BY <1>1, Zenon DEF Begin, waitVars, WaitInv, WaitReturnSound
<1>2. ASSUME NEW c \in Client, Done(c) PROVE WaitInv'
  BY <1>2, Zenon DEF Done, waitVars, WaitInv, WaitReturnSound
<1>3. ASSUME NEW c \in Client, NEW t \in Ts, WaitForMark(c, t) PROVE WaitInv'
  <2>1. /\ wait[c] = "none" /\ wts'[c] = t
        /\ wait'[c] = IF done_until >= t THEN "returned" ELSE "send"
        /\ \A d \in Client \ {c} : wait'[d] = wait[d] /\ wts'[d] = wts[d]
        /\ UNCHANGED <<done_until, waiters, notified>>
    BY <1>3, Zenon DEF WaitForMark, procVars, TypeOK
  <2>2. wait'[c] = "returned" => t <= done_until
    BY <1>0, <2>1, Zenon
  <2> QED
    BY <1>0, <2>1, <2>2, Zenon DEF WaitInv, WaitReturnSound
<1>4. ASSUME NEW c \in Client, SendWaiter(c) PROVE WaitInv'
  <2>1. /\ wait'[c] = "sent"
        /\ \A d \in Client \ {c} : wait'[d] = wait[d]
        /\ UNCHANGED <<done_until, waiters, notified, wts>>
    BY <1>4, Zenon DEF SendWaiter, TypeOK
  <2> QED
    BY <1>0, <2>1, Zenon DEF WaitInv, WaitReturnSound
<1>5. ASSUME NEW c \in Client, Notified(c) PROVE WaitInv'
  <2>1. /\ wait'[c] = "returned" /\ c \in notified
        /\ \A d \in Client \ {c} : wait'[d] = wait[d]
        /\ notified' \subseteq notified
        /\ UNCHANGED <<done_until, waiters, wts>>
    BY <1>5, Zenon DEF Notified, TypeOK
  <2> QED
    BY <1>0, <2>1, Zenon DEF WaitInv, WaitReturnSound
<1>6. CASE UNCHANGED vars
  BY <1>6, Zenon DEF vars, procVars, waitVars, WaitInv, WaitReturnSound
<1> QED
  BY <1>1, <1>2, <1>3, <1>4, <1>5, <1>6, ProcessWait, Zenon DEF Next

-----------------------------------------------------------------------------
\* The theorems.

\* The invariant is inductive: the channel is a FIFO record of what the clients
\* sent, and process's heap and counters agree with the marks it has consumed.
\* WaterMark::new establishes it.
LEMMA InitIInv == Init => IInv
BY InitType, InitChan, InitHeap, InitWait, Zenon DEF IInv

\* Every call of a client and every turn of process keeps it.
LEMMA NextIInv == IInv /\ [Next]_vars => IInv'
BY NextType, NextChan, NextHeap, NextWait, Zenon DEF IInv

\* process only ever moves done_until forward.
LEMMA UntilGrows == IInv /\ [Next]_vars => done_until <= done_until'
<1> SUFFICES ASSUME IInv, [Next]_vars PROVE done_until <= done_until'
  BY Zenon
<1>1. done_until \in Nat
  BY MarkAssumption, Zenon DEF IInv, TypeOK
<1>2. CASE Process
  BY <1>2, NextIInv, NextType, ProcessHeap, Zenon DEF IInv
<1>3. CASE done_until' = done_until
  BY <1>1, <1>3
<1> QED
  BY <1>2, <1>3, Zenon DEF Next, vars, procVars, Begin, Done, WaitForMark, SendWaiter, Notified

\* The channel is a FIFO record of what the clients sent, and process's heap and
\* counters agree with the marks it has consumed, in every state of a water mark.
THEOREM Invariance == Spec => []IInv
BY InitIInv, NextIInv, PTL DEF Spec

\* The state of the mark and of its clients keeps its types.
THEOREM TypeCorrect == Spec => []TypeOK
BY Invariance, PTL DEF IInv

\* A client that is not done holds its timestamp in the heap, unless its begin is
\* still in the channel.
LEMMA OpenBehind ==
  ASSUME IInv, NEW c \in Client, phase[c] # "none", mts[c] > 0,
         phase[c] = "begun" \/ InChan(chan, "done", c)
  PROVE  done_until <= mts[c]
<1>1. CASE InChan(chan, "begin", c)
  <2>1. PICK i \in 1 .. Len(chan) : chan[i].kind = "begin" /\ chan[i].c = c
    BY <1>1, Zenon DEF InChan
  <2>2. chan[i].ts = mts[c]
    BY <2>1, Zenon DEF IInv, ChanInv, MarksSent
  <2> QED BY <2>1, <2>2, Zenon DEF IInv, HeapInv, UntilBehind
<1>2. CASE ~InChan(chan, "begin", c)
  <2>1. mts[c] \in Ts /\ c \in Held(mts[c])
    BY <1>2, Zenon DEF IInv, TypeOK, Held
  <2>2. mts[c] \in heap
    BY <2>1, Zenon DEF IInv, HeapInv, Counts
  <2> QED BY <2>2, Zenon DEF IInv, HeapInv, HeapBetween
<1> QED BY <1>1, <1>2, Zenon

LEMMA IInvOpen == IInv => OpenNotPassed
<1> SUFFICES ASSUME IInv, NEW c \in Client, phase[c] = "begun", mts[c] > 0
             PROVE  /\ done_until <= mts[c]
                    /\ Alone(c) /\ mts[c] > InitUntil => done_until < mts[c]
  BY Zenon DEF OpenNotPassed
<1>1. done_until \in Nat /\ mts[c] \in Nat /\ InitUntil \in Nat
  BY MarkAssumption, Zenon DEF IInv, TypeOK
<1>2. done_until <= mts[c]
  BY OpenBehind, Zenon
<1>3. ASSUME Alone(c), mts[c] > InitUntil PROVE done_until # mts[c]
  <2>1. SUFFICES ASSUME done_until = mts[c] PROVE FALSE
    BY Zenon
  <2>2. done_until # InitUntil
    BY <1>1, <1>3, <2>1
  <2>3. PICK d \in Client : phase[d] = "ended" /\ mts[d] = mts[c]
    BY <2>1, <2>2, Zenon DEF IInv, HeapInv, UntilBehind
  <2> QED BY <1>3, <2>3, Zenon DEF Alone
<1> QED
  BY <1>1, <1>2, <1>3

\* done_until never passes an open transaction, for any number of them.
THEOREM NeverPassesOpen == Spec => []OpenNotPassed
BY Invariance, IInvOpen, PTL

\* process never panics on its assertion done_until <= txn_ts.
THEOREM AssertionHolds == Spec => []MarksAhead
<1>1. IInv => MarksAhead
  <2>1. SUFFICES ASSUME IInv, NEW i \in 1 .. Len(chan), chan[i].kind # "wait", chan[i].ts > 0
                 PROVE  done_until <= chan[i].ts
    BY Zenon DEF MarksAhead
  <2>2. chan[i].kind \in {"begin", "done"} /\ chan[i].c \in Client
    BY <2>1, ChanMark, Zenon DEF IInv
  <2>3. CASE chan[i].kind = "begin"
    BY <2>1, <2>3, Zenon DEF IInv, HeapInv, UntilBehind
  <2>4. CASE chan[i].kind = "done"
    <3>1. phase[chan[i].c] = "ended" /\ chan[i].ts = mts[chan[i].c]
      BY <2>1, <2>4, Zenon DEF IInv, ChanInv, MarksSent
    <3>2. InChan(chan, "done", chan[i].c)
      BY <2>4, Zenon DEF InChan
    <3> QED BY <2>1, <2>2, <3>1, <3>2, OpenBehind, Zenon
  <2> QED BY <2>2, <2>3, <2>4, Zenon
<1> QED
  BY <1>1, Invariance, PTL

\* wait_for_mark returns only once done_until has reached its timestamp.
THEOREM WaitIsSound == Spec => []WaitReturnSound
BY Invariance, PTL DEF IInv, WaitInv

\* The water mark implements its promise: with the channel, the heap and the
\* waiter map hidden, done_until moves only onto the timestamp of a client that
\* is done, never past one that is not, and waiters return when it is reached.
THEOREM Refinement == Spec => ImplementsPromise
<1> DEFINE waiting == [c \in Client |-> IF wait[c] \in {"send", "sent"}
                                          THEN "waiting" ELSE wait[c]]
<1>1. Init => Promise!Init
  BY Zenon DEF Init, Promise!Init
<1>2. ASSUME IInv, IInv', [Next]_vars PROVE [Promise!Next]_(Promise!vars)
  <2>0. /\ done_until \in Nat /\ done_until' \in Nat /\ last_index \in Nat
        /\ InitUntil \in Nat /\ \A t \in Ts : t \in Nat
    BY <1>2, MarkAssumption, SMTT(15) DEF IInv, TypeOK
  <2>1. ASSUME NEW c \in Client, NEW t \in Ts, last_index <= t, Begin(c, t)
        PROVE  Promise!Begin(c, t)
    <3>1. done_until <= t
      BY <1>2, <2>0, <2>1 DEF IInv, HeapInv, UntilBehind
    <3> QED
      BY <2>1, <3>1, Zenon DEF Begin, Promise!Begin, waitVars
  <2>2. ASSUME NEW c \in Client, Done(c) PROVE Promise!Done(c)
    BY <2>2, Zenon DEF Done, Promise!Done, waitVars
  <2>3. ASSUME NEW c \in Client, NEW t \in Ts, WaitForMark(c, t)
        PROVE  Promise!Wait(c, t) \/ Promise!NoWait(c, t)
    <3>1. CASE done_until >= t
      BY <1>2, <2>0, <2>3, <3>1, Zenon
        DEF WaitForMark, Promise!NoWait, IInv, TypeOK, procVars, clientVars
    <3>2. CASE ~(done_until >= t)
      <4>1. wait[c] = "none" /\ wait' = [wait EXCEPT ![c] = "send"]
        BY <2>3, <3>2, Zenon DEF WaitForMark
      <4>2. waiting' = [waiting EXCEPT ![c] = "waiting"]
        BY <1>2, <4>1, Zenon DEF IInv, TypeOK
      <4>3. waiting[c] = "none" /\ done_until < t
        BY <2>0, <3>2, <4>1
      <4> QED
        BY <2>3, <4>2, <4>3, Zenon DEF WaitForMark, Promise!Wait, procVars, clientVars
    <3> QED BY <3>1, <3>2, Zenon
  <2>4. ASSUME NEW c \in Client, SendWaiter(c) PROVE UNCHANGED Promise!vars
    BY <1>2, <2>4 DEF SendWaiter, Promise!vars, IInv, TypeOK, clientVars
  <2>5. ASSUME NEW c \in Client, Notified(c) PROVE Promise!Return(c)
    BY <1>2, <2>5, Zenon DEF Notified, Promise!Return, IInv, TypeOK, WaitInv, clientVars
  <2>6. CASE Process
    <3>1. done_until <= done_until'
      BY <1>2, <2>6, ProcessHeap, Zenon DEF IInv
    <3>2. UNCHANGED <<phase, mts, wait, wts>>
      BY <2>6, Zenon DEF Process, clientVars, waitVars
    <3>3. CASE done_until' = done_until
      BY <3>2, <3>3, Zenon DEF Promise!vars
    <3>4. CASE done_until' # done_until
      <4>1. done_until < done_until' /\ done_until' # InitUntil /\ done_until' \in Ts
        BY <1>2, <2>0, <3>1, <3>4 DEF IInv, TypeOK, HeapInv, UntilBehind
      <4>2. \E c \in Client : phase[c] = "ended" /\ mts[c] = done_until'
        BY <1>2, <3>2, <4>1, Zenon DEF IInv, HeapInv, UntilBehind
      <4>3. \A c \in Client : phase[c] = "begun" /\ mts[c] > 0 => done_until' <= mts[c]
        <5>1. OpenNotPassed'
          BY <1>2, IInvOpen, PTL
        <5> QED BY <3>2, <5>1, Zenon DEF OpenNotPassed
      <4>4. Promise!Advance(done_until')
        BY <3>2, <4>1, <4>2, <4>3, Zenon DEF Promise!Advance
      <4> QED BY <4>1, <4>4, Zenon DEF Promise!Next
    <3> QED BY <3>3, <3>4, Zenon
  <2>7. CASE UNCHANGED vars
    BY <2>7, Zenon DEF vars, procVars, clientVars, waitVars, Promise!vars
  <2> QED
    BY <1>2, <2>1, <2>2, <2>3, <2>4, <2>5, <2>6, <2>7, Zenon DEF Next, Promise!Next
<1> QED
  BY <1>1, <1>2, Invariance, PTL DEF Spec, ImplementsPromise, Promise!Spec
=============================================================================
