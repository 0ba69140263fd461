------------------------------ MODULE Publisher ------------------------------
\* The publisher (util/publisher.rs), the trie by which it finds the subscribers of a
\* key (util/tire.rs) and the closers that end it (util/closer.rs).  The write path
\* sends updates, the listener distributes them, subscribers hand them to a callback.
\* One mutex is held over sends into bounded channels.  An update is the bytes of its key
\* and timestamp, in which the matches are looked for.
EXTENDS Naturals, Sequences, FiniteSets, SequencesExt

CONSTANTS Sub,
          Matches,         \* what subscribers may ask for: functions from a subscriber
                           \* to its matches, [prefix, ignore] with ignore a set of
                           \* positions from 1, or BadIgnore
          Updates,         \* the keys written, in order
          Cap, SubCap      \* 1000 and 1000 in the code

VARIABLES lock,            \* the mutex, which is fair: its holder and who waits for it
          wpc, sent,       \* the write path; how many updates it has sent
          chan,            \* the publisher's channel
          lpc, batch,      \* the listener; updates received, then subscriber -> updates
          to,              \* the subscriber a send is under way to, or Nobody
          trie,            \* path -> ids
          subscribers,     \* the map
          spc, schan, active, signalled, done,    \* of each subscriber
          match,           \* one of Matches
          closing,         \* the database's closer is signalled
          offered, start, got   \* updates that went into the channel; how many were
                                \* published when s subscribed; what its callback got

vars == <<lock, wpc, sent, chan, lpc, batch, to, trie, subscribers, spc, schan, active,
          signalled, done, match, closing, offered, start, got>>
subVars == <<match, spc, schan, active, signalled, done, start, got>>

Nobody == "nobody"
Star == 0
BadIgnore == {0}          \* a string parse_ignore_bytes refuses

-----------------------------------------------------------------------------
\* The trie: a node is the path to it, of bytes and of Star for an ignored position.
\* Nodes without ids are as good as absent.
PathOf(m) == [i \in DOMAIN m.prefix |-> IF i \in m.ignore THEN Star ELSE m.prefix[i]]

PushMatch(t, m, id) ==
  [p \in DOMAIN t \cup {PathOf(m)} |->
     (IF p \in DOMAIN t THEN t[p] ELSE {}) \cup (IF p = PathOf(m) THEN {id} ELSE {})]

\* delete_match and remove_empty.
DeleteMatch(t, m, id) ==
  LET u == [p \in DOMAIN t |-> IF p = PathOf(m) THEN t[p] \ {id} ELSE t[p]]
  IN [p \in {q \in DOMAIN u : u[q] # {}} |-> u[p]]

\* get_iter: the child for an ignored byte is searched with the key as it is.
RECURSIVE Reaches(_, _)
Reaches(path, key) ==
  \/ path = <<>>
  \/ /\ path # <<>> /\ key # <<>>
     /\ IF path[1] = Star THEN Reaches(Tail(path), key)
        ELSE path[1] = key[1] /\ Reaches(Tail(path), Tail(key))

Get(t, key) == UNION {t[p] : p \in {q \in DOMAIN t : Reaches(q, key)}}

IsGood(m) == m.ignore # BadIgnore

\* The matches before the first that does not parse.
GoodMatches(s) ==
  LET bad == {i \in DOMAIN match[s] : ~IsGood(match[s][i])}
  IN IF bad = {} THEN match[s] ELSE SubSeq(match[s], 1, Min(bad) - 1)

AddMatches(t, s) == FoldLeft(LAMBDA u, m : PushMatch(u, m, s), t, GoodMatches(s))
DropMatches(t, s) == FoldLeft(LAMBDA u, m : DeleteMatch(u, m, s), t, GoodMatches(s))

-----------------------------------------------------------------------------
Init ==
  /\ lock = <<>>
  /\ wpc = "idle" /\ sent = 0
  /\ chan = <<>>
  /\ lpc = "recv" /\ batch = <<>> /\ to = Nobody
  /\ trie = <<>>
  /\ subscribers = {}
  /\ spc = [s \in Sub |-> "out"]
  /\ schan = [s \in Sub |-> <<>>]
  /\ active = [s \in Sub |-> FALSE]
  /\ signalled = [s \in Sub |-> FALSE]
  /\ done = [s \in Sub |-> FALSE]
  /\ match \in Matches
  /\ closing = FALSE
  /\ offered = <<>>
  /\ start = [s \in Sub |-> 0]
  /\ got = [s \in Sub |-> <<>>]

Ask(p) == lock' = Append(lock, p)
Owns(p) == lock # <<>> /\ lock[1] = p
Release == lock' = Tail(lock)

\* Updates that have left the channel and were distributed.
Published ==
  Len(offered) - Len(chan) - (IF lpc = "lock" THEN Len(batch) ELSE 0)

AskToSubscribe(s) ==
  /\ spc[s] = "out"
  /\ Ask(s)
  /\ spc' = [spc EXCEPT ![s] = "asking"]
  /\ UNCHANGED <<wpc, sent, chan, lpc, batch, to, trie, subscribers, schan, active, signalled,
                 done, match, closing, offered, start, got>>

\* Subscriber::new: the subscriber is in the map before its matches are parsed; when
\* one does not parse, subscribe_async returns, its receiver with it.
Subscribe(s) ==
  LET bad == \E i \in DOMAIN match[s] : ~IsGood(match[s][i]) IN
  /\ spc[s] = "asking" /\ Owns(s)
  /\ Release
  /\ subscribers' = subscribers \cup {s}
  /\ trie' = AddMatches(trie, s)
  /\ active' = [active EXCEPT ![s] = TRUE]
  /\ start' = [start EXCEPT ![s] = Published]
  /\ spc' = [spc EXCEPT ![s] = IF bad THEN "gone" ELSE "recv"]
  /\ UNCHANGED <<wpc, sent, chan, lpc, batch, to, schan, signalled, done, match, closing,
                 offered, got>>

\* send_updates: the lock is kept while the send waits for room; without subscribers
\* nothing is sent, and once the listener is gone the send fails.
LockToSend ==
  /\ wpc = "idle" /\ sent < Len(Updates)
  /\ Ask("writer") /\ wpc' = "send"
  /\ UNCHANGED <<sent, chan, lpc, batch, to, trie, subscribers, closing, offered, subVars>>

SendUpdates ==
  /\ wpc = "send" /\ Owns("writer")
  /\ \/ /\ subscribers = {} \/ lpc = "done"
        /\ UNCHANGED <<chan, offered>>
     \/ /\ subscribers # {} /\ lpc # "done" /\ Len(chan) < Cap
        /\ chan' = Append(chan, Updates[sent + 1])
        /\ offered' = Append(offered, Updates[sent + 1])
  /\ sent' = sent + 1
  /\ wpc' = "idle" /\ Release
  /\ UNCHANGED <<lpc, batch, to, trie, subscribers, closing, subVars>>

\* listen_for_updates: one update, and another if there is one.
ListenRecv ==
  LET n == IF Len(chan) > 1 THEN 2 ELSE 1 IN
  /\ lpc = "recv" /\ chan # <<>>
  /\ batch' = SubSeq(chan, 1, n)
  /\ chan' = SubSeq(chan, n + 1, Len(chan))
  /\ lpc' = "lock" /\ Ask("listener")
  /\ UNCHANGED <<wpc, sent, to, trie, subscribers, closing, offered, subVars>>

\* Variant: of the updates received together, a subscriber is sent the last.
DistributeLast(updates) ==
  LET ids == UNION {Get(trie, updates[i]) : i \in DOMAIN updates}
  IN [s \in ids |-> <<Last(SelectSeq(updates, LAMBDA u : s \in Get(trie, u)))>>]

\* publish_updates, first half: what goes to whom.
Distribute(updates) ==
  LET ids == UNION {Get(trie, updates[i]) : i \in DOMAIN updates}
  IN [s \in ids |-> SelectSeq(updates, LAMBDA u : s \in Get(trie, u))]

PublishLock ==
  /\ lpc = "lock" /\ Owns("listener")
  /\ batch' = Distribute(batch)
  /\ lpc' = "publish"
  /\ UNCHANGED <<lock, wpc, sent, chan, to, trie, subscribers, closing, offered, subVars>>

\* Second half: a send to each, in the order of a hash map, if it is active then; the
\* send waits for room with the lock held.  A send to a receiver that is gone fails,
\* and ends it for all.
PublishTo(s) ==
  /\ lpc = "publish" /\ to = Nobody /\ s \in DOMAIN batch
  /\ IF s \in subscribers /\ active[s]
     THEN to' = s /\ UNCHANGED batch
     ELSE batch' = [t \in DOMAIN batch \ {s} |-> batch[t]] /\ UNCHANGED to
  /\ UNCHANGED <<lock, wpc, sent, chan, lpc, trie, subscribers, closing, offered, subVars>>

PublishSend ==
  /\ lpc = "publish" /\ to # Nobody
  /\ IF spc[to] = "gone"
     THEN batch' = <<>> /\ UNCHANGED schan
     ELSE /\ Len(schan[to]) < SubCap
          /\ schan' = [schan EXCEPT ![to] = Append(@, batch[to])]
          /\ batch' = [t \in DOMAIN batch \ {to} |-> batch[t]]
  /\ to' = Nobody
  /\ UNCHANGED <<lock, wpc, sent, chan, lpc, trie, subscribers, spc, active, signalled,
                 done, match, closing, offered, start, got>>

PublishUnlock ==
  /\ lpc = "publish" /\ batch = <<>>
  /\ Release
  /\ lpc' = "recv"
  /\ UNCHANGED <<wpc, sent, chan, batch, to, trie, subscribers, closing, offered, subVars>>

\* The select of subscribe_async takes a message with all that are behind it, and
\* calls fun with them.
SubRecv(s) ==
  /\ spc[s] = "recv" /\ schan[s] # <<>>
  /\ got' = [got EXCEPT ![s] = @ \o FlattenSeq(schan[s])]
  /\ schan' = [schan EXCEPT ![s] = <<>>]
  /\ spc' = [spc EXCEPT ![s] = "fun"]
  /\ UNCHANGED <<lock, wpc, sent, chan, lpc, batch, to, trie, subscribers, active, signalled, done,
                 match, closing, offered, start>>

\* fun answers; on an error the subscriber is done, inactive, and waits for the lock.
FunReturns(s) ==
  /\ spc[s] = "fun"
  /\ \/ spc' = [spc EXCEPT ![s] = "recv"] /\ UNCHANGED <<lock, active, done>>
     \/ /\ spc' = [spc EXCEPT ![s] = "failed"] /\ Ask(s)
        /\ done' = [done EXCEPT ![s] = TRUE]
        /\ active' = [active EXCEPT ![s] = FALSE]
  /\ UNCHANGED <<wpc, sent, chan, lpc, batch, to, trie, subscribers, schan, signalled,
                 match, closing, offered, start, got>>

DeleteSubscribers(s) ==
  /\ spc[s] = "failed" /\ Owns(s)
  /\ Release
  /\ trie' = IF s \in subscribers THEN DropMatches(trie, s) ELSE trie
  /\ subscribers' = subscribers \ {s}
  /\ spc' = [spc EXCEPT ![s] = "gone"]
  /\ UNCHANGED <<wpc, sent, chan, lpc, batch, to, schan, active, signalled, done,
                 match, closing, offered, start, got>>

\* Its closer is captured: what is in the channel goes to fun, and then done is
\* called; with nothing there, it is not.
SubCaptured(s) ==
  /\ spc[s] = "recv" /\ signalled[s]
  /\ got' = [got EXCEPT ![s] = @ \o FlattenSeq(schan[s])]
  /\ done' = [done EXCEPT ![s] = schan[s] # <<>>]
  /\ schan' = [schan EXCEPT ![s] = <<>>]
  /\ spc' = [spc EXCEPT ![s] = "gone"]
  /\ UNCHANGED <<lock, wpc, sent, chan, lpc, batch, to, trie, subscribers, active, signalled,
                 match, closing, offered, start>>

Close ==
  /\ ~closing
  /\ closing' = TRUE
  /\ UNCHANGED <<lock, wpc, sent, chan, lpc, batch, to, trie, subscribers, offered, subVars>>

\* cleanup_subscribers, with the lock: each is drained from the map, signalled, and
\* waited for.
ListenCaptured ==
  /\ lpc = "recv" /\ closing
  /\ Ask("listener")
  /\ lpc' = "cleanup"
  /\ UNCHANGED <<wpc, sent, chan, batch, to, trie, subscribers, closing, offered, subVars>>

CleanupOne(s) ==
  /\ lpc = "cleanup" /\ Owns("listener") /\ s \in subscribers
  /\ \A t \in Sub : signalled[t] => done[t]
  /\ subscribers' = subscribers \ {s}
  /\ trie' = DropMatches(trie, s)
  /\ signalled' = [signalled EXCEPT ![s] = TRUE]
  /\ UNCHANGED <<lock, wpc, sent, chan, lpc, batch, to, spc, schan, active, done, match, closing,
                 offered, start, got>>

CleanupDone ==
  /\ lpc = "cleanup" /\ Owns("listener") /\ subscribers = {}
  /\ \A t \in Sub : signalled[t] => done[t]
  /\ Release
  /\ lpc' = "done"
  /\ UNCHANGED <<wpc, sent, chan, batch, to, trie, subscribers, closing, offered, subVars>>

Next ==
  \/ LockToSend \/ SendUpdates \/ Close
  \/ ListenRecv \/ PublishLock \/ PublishSend \/ PublishUnlock \/ ListenCaptured \/ CleanupDone
  \/ \E s \in Sub :
       \/ AskToSubscribe(s) \/ Subscribe(s) \/ PublishTo(s) \/ SubRecv(s) \/ FunReturns(s)
       \/ DeleteSubscribers(s) \/ SubCaptured(s) \/ CleanupOne(s)

-----------------------------------------------------------------------------
Wants(s, key) == \E i \in DOMAIN match[s] : IsPrefix(match[s][i].prefix, key)
Stream(s, updates) == SelectSeq(updates, LAMBDA u : Wants(s, u))
Plain(s) == \A i \in DOMAIN match[s] : match[s][i].ignore = {}
Failing(s) == spc[s] = "failed" \/ (spc[s] = "gone" /\ ~signalled[s])
BadSubscribed == \E s \in Sub : spc[s] \notin {"out", "asking"} /\ match[s] # GoodMatches(s)

\* A subscriber without ignored bytes is given every update that matches a prefix of
\* its own and was sent since it subscribed, once and in order: what its callback got,
\* what is in its channel and what is still on the way to it are together exactly
\* these.  When its callback has failed or the database closes, it has got a first
\* part of them.  (Not so once somebody subscribes with a match that does not parse.)
StreamsWhole ==
  ~BadSubscribed =>
    \A s \in {t \in Sub : spc[t] \notin {"out", "asking"} /\ Plain(t)} :
      LET due == Stream(s, SubSeq(offered, start[s] + 1, Len(offered)))
          way == IF lpc = "lock" THEN Stream(s, batch)
                 ELSE IF lpc = "publish" /\ s \in DOMAIN batch THEN batch[s] ELSE <<>>
      IN IF Failing(s) \/ lpc \in {"cleanup", "done"} THEN IsPrefix(got[s], due)
         ELSE due = got[s] \o FlattenSeq(schan[s]) \o way \o Stream(s, chan)

\* The writes, the listener and the subscribers come to a stop only when the publisher
\* is done, or in one of three waits: the listener, with the lock, for room in the
\* channel of a subscriber whose callback failed and who waits for the lock; the
\* listener, with the lock, for the done of a subscriber that left without it; or, when
\* the database closes, the write path, with the lock, for room in the channel that the
\* listener has left to take the lock.
StopsExplained ==
  ~ENABLED Next =>
    \/ lpc = "done"
    \/ lpc = "publish" /\ to # Nobody /\ spc[to] = "failed" /\ Len(schan[to]) = SubCap
    \/ lpc = "cleanup" /\ \E s \in Sub : signalled[s] /\ ~done[s] /\ spc[s] = "gone"
    \/ lpc = "cleanup" /\ Owns("writer") /\ Len(chan) = Cap
=============================================================================
