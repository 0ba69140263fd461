------------------------------- MODULE SkipList -------------------------------
\* The skip list of a memtable (util/skip_list.rs).  MemTable::push needs the
\* memtable for itself, so there is one writer and its compare_exchanges succeed,
\* save the one on prev, which is checked.  A node is named by its key, which is its
\* place in the order; a value is a model value, 0 is the offset of no node.
EXTENDS Cursor, FiniteSets, SequencesExt

CONSTANTS Key, Value,
          MaxHeight,       \* SKL_MAX_HEIGHT
          MaxKey           \* keys are below it

VARIABLES tower,           \* node -> level -> the next node
          prev,            \* node -> the node before it
          value,           \* node -> value
          height,
          spins,           \* push never leaves its loop
          pushed,          \* what was pushed: key -> value
          node, node_back, \* the iterator, <<>> before iter()
          ref,             \* the promise, <<>> before iter()
          said,            \* what the last call returned, and the promise's answer
          overran          \* next_back began after next had come to the end

vars == <<tower, prev, value, height, spins, pushed, node, node_back, ref, said,
          overran>>

None == 0
HeadNode == MaxKey
Level == 0 .. MaxHeight - 1

Init ==
  /\ tower = [n \in {HeadNode} |-> [h \in Level |-> None]]
  /\ prev = [n \in {HeadNode} |-> None]
  /\ value = <<>>
  /\ height = 1
  /\ spins = FALSE
  /\ pushed = <<>>
  /\ node = None /\ node_back = None
  /\ ref = <<>> /\ said = <<>> /\ overran = FALSE

\* cmp: -1, 0 or 1, of the keys.
FindSpliceForLevel(key, start, h) ==
  LET walk[before \in DOMAIN tower] ==
        LET next == tower[before][h] IN
        IF next = None \/ key < next THEN <<before, next>>
        ELSE IF key = next THEN <<next, next>>
        ELSE walk[next]
  IN walk[start]

\* Variant: the search of a level starts at the node found on the level above even
\* when that is the next one.
SplicesFromNext(key) ==
  LET at[h \in Level] ==
        IF h >= height THEN <<HeadNode, None>>
        ELSE FindSpliceForLevel(key, IF h = height - 1 \/ at[h + 1][2] = None
                                     THEN HeadNode ELSE at[h + 1][2], h)
  IN at

\* The search of push, from the top level down: prev[h] and next[h] of every level.
\* Above the list's height there is only the head.
Splices(key) ==
  LET at[h \in Level] ==
        IF h >= height THEN <<HeadNode, None>>
        ELSE FindSpliceForLevel(key, IF h = height - 1 THEN HeadNode ELSE at[h + 1][1], h)
  IN at

\* random_height is 1 .. SKL_MAX_HEIGHT.  A key that is there gets the new value
\* (try_set_value); the node of a new one is linked level by level from below, its
\* prev and the prev of the node after it first.
Push(key, v, h) ==
  LET at == Splices(key) IN
  /\ ref = <<>> /\ ~spins
  /\ pushed' = [k \in DOMAIN pushed \cup {key} |-> IF k = key THEN v ELSE pushed[k]]
  /\ IF \E l \in 0 .. height - 1 : at[l][1] = at[l][2]
     THEN /\ h = 1
          /\ value' = [value EXCEPT ![key] = v]
          /\ UNCHANGED <<tower, prev, height, spins>>
     ELSE /\ spins' = (at[0][2] # None /\ prev[at[0][2]] # at[0][1])
          /\ prev' = [n \in DOMAIN prev \cup {key} |->
                        IF n = key THEN at[0][1] ELSE IF n = at[0][2] THEN key ELSE prev[n]]
          /\ tower' = [n \in DOMAIN tower \cup {key} |->
                         [l \in Level |->
                            IF n = key THEN IF l < h THEN at[l][2] ELSE None
                            ELSE IF l < h /\ n = at[l][1] THEN key
                            ELSE tower[n][l]]]
          /\ value' = [n \in DOMAIN value \cup {key} |-> IF n = key THEN v ELSE value[n]]
          /\ height' = IF h > height THEN h ELSE height
  /\ UNCHANGED <<node, node_back, ref, said, overran>>

\* The descent shared by the searches: at a level, go on while the next key is below
\* the one sought (and with equal, while it is equal too), then one level down.
FindOrNear(key, allow_near) ==
  LET walk[p \in (DOMAIN tower) \X Level] ==
        LET next == tower[p[1]][p[2]] IN
        IF next # None /\ key = next THEN next
        ELSE IF next # None /\ key > next THEN walk[<<next, p[2]>>]
        ELSE IF p[2] > 0 THEN walk[<<p[1], p[2] - 1>>]
        ELSE IF allow_near THEN next ELSE None
  IN walk[<<HeadNode, height - 1>>]

FindNext(key) ==
  LET walk[p \in (DOMAIN tower) \X Level] ==
        LET next == tower[p[1]][p[2]] IN
        IF next # None /\ key = next THEN tower[next][0]
        ELSE IF next # None /\ key > next THEN walk[<<next, p[2]>>]
        ELSE IF p[2] > 0 THEN walk[<<p[1], p[2] - 1>>]
        ELSE next
  IN walk[<<HeadNode, height - 1>>]

FindPrev(key) ==
  LET walk[p \in (DOMAIN tower) \X Level] ==
        LET next == tower[p[1]][p[2]] IN
        IF next # None /\ key > next THEN walk[<<next, p[2]>>]
        ELSE IF p[2] > 0 THEN walk[<<p[1], p[2] - 1>>]
        ELSE IF p[1] = HeadNode THEN None ELSE p[1]
  IN walk[<<HeadNode, height - 1>>]

\* The head of an empty list, so that is_empty never holds.
FindLast ==
  LET walk[p \in (DOMAIN tower) \X Level] ==
        LET next == tower[p[1]][p[2]] IN
        IF next # None THEN walk[<<next, p[2]>>]
        ELSE IF p[2] > 0 THEN walk[<<p[1], p[2] - 1>>]
        ELSE p[1]
  IN walk[<<HeadNode, height - 1>>]

Get(key, allow_near) ==
  LET n == FindOrNear(key, allow_near) IN IF n = None THEN <<>> ELSE <<n, value[n]>>

Sorted == SetToSortSeq(DOMAIN pushed, <)

Iter ==
  /\ ref = <<>> /\ ~spins
  /\ node' = HeadNode /\ node_back' = None
  /\ ref' = Fresh(Sorted)
  /\ UNCHANGED <<tower, prev, value, height, spins, pushed, said, overran>>

Says(ok, key, answer) ==
  /\ said' = <<ok, IF ok THEN key ELSE None, answer.ok, answer.key>>
  /\ ref' = answer.cursor
  /\ UNCHANGED <<tower, prev, value, height, spins, pushed>>

Next_ ==
  LET new == tower[node][0]
      ok == new # None /\ (node_back = None \/ new # node_back)
  IN /\ ref # <<>>
     /\ node' = IF ok THEN new ELSE node
     /\ UNCHANGED <<node_back, overran>>
     /\ Says(ok, new, NextOf(ref, None))

\* Its first call does not look at node, and yields the last key even if next did.
NextBack ==
  LET new == IF node_back = None THEN FindLast ELSE prev[node_back]
      ok == new # None /\ new # (IF node_back = None THEN HeadNode ELSE node)
  IN /\ ref # <<>>
     /\ node_back' = IF ok THEN new ELSE node_back
     /\ overran' = (overran \/ (node_back = None /\ node = new))
     /\ UNCHANGED node
     /\ Says(ok, new, NextBackOf(ref, None))

\* The callers seek in an iterator that was not walked from the back.
Seek(key) ==
  LET near == FindOrNear(key, TRUE) IN
  /\ ref # <<>> /\ node_back = None
  /\ node' = IF near # None THEN near ELSE node
  /\ UNCHANGED <<node_back, overran>>
  /\ Says(near # None, near, SeekOf(ref, LAMBDA i : ref.s[i] < key, None))

Next ==
  \/ \E k \in Key, v \in Value, h \in 1 .. MaxHeight : Push(k, v, h)
  \/ Iter
  \/ Next_
  \/ NextBack
  \/ \E k \in Key : Seek(k)

-----------------------------------------------------------------------------
Least(s) == IF s = {} THEN None ELSE CHOOSE k \in s : \A l \in s : k <= l
Greatest(s) == IF s = {} THEN None ELSE CHOOSE k \in s : \A l \in s : k >= l

\* After any pushes, and whatever heights were drawn, every search finds what a
\* search of the sorted keys finds (find_or_near with and without allow_near,
\* find_next, find_prev, find_last), get returns the value pushed last, and push
\* never met a prev other than the one it had just found, on which it would spin.
SearchAgrees ==
  /\ ~spins
  /\ FindLast = IF pushed = <<>> THEN HeadNode ELSE Greatest(DOMAIN pushed)
  /\ \A k \in Key :
       /\ FindOrNear(k, TRUE) = Least({l \in DOMAIN pushed : l >= k})
       /\ FindNext(k) = Least({l \in DOMAIN pushed : l > k})
       /\ FindPrev(k) = Greatest({l \in DOMAIN pushed : l < k})
       /\ Get(k, FALSE) = IF k \in DOMAIN pushed THEN <<k, pushed[k]>> ELSE <<>>

\* Whatever next, next_back and seek are called in which order, an iterator of the
\* list answers as a cursor of the sorted keys does, unless next_back was first
\* called when next had already yielded the last key.
CursorAgrees == said # <<>> /\ ~overran => said[1] = said[3] /\ said[2] = said[4]
=============================================================================
