------------------------------ MODULE MergeIter ------------------------------
\* SinkMergeIter (table/iter.rs) as a compaction reads through it: a binary tree over
\* the iterators of the top tables and one SinkTableConcatIter over the bottom ones
\* (level/compact.rs, new_iter).  A table's iterator is the cursor that
\* SSTable shows it to be; a key is its place in the order, 0 is no key.  next_back
\* and seek, which no completed compaction goes through, are left out.
EXTENDS Cursor, FiniteSets, SequencesExt

CONSTANTS Tops,       \* sequences of tables, oldest first; a table is a set of keys
          Bottoms

VARIABLES nodes,      \* how many iterators the tree was built of
          merge, ref, said

vars == <<nodes, merge, ref, said>>

NoKey == 0
NoNode == <<>>

Node(it) == [valid |-> TRUE, it |-> it]
TableIter(t) == [kind |-> "table", keys |-> SetToSortSeq(t, <), at |-> 0]
ConcatIter(ts) == [kind |-> "concat", tables |-> ts]

\* SinkMergeIter::new over iters[a .. b]: halves, until one or two are left.
RECURSIVE MergeNew(_)
MergeNew(iters) ==
  LET n == Len(iters)
      of(s) == IF Len(iters) = 2 THEN Node(s[1]) ELSE Node(MergeNew(s))
      mid == n \div 2
  IN [kind |-> "merge", temp |-> NoKey, left_small |-> TRUE,
      left |-> IF n = 1 THEN Node(iters[1]) ELSE of(SubSeq(iters, 1, mid)),
      right |-> IF n = 1 THEN NoNode ELSE of(SubSeq(iters, mid + 1, n))]

Smaller(m) == IF m.left_small THEN m.left ELSE m.right
Bigger(m) == IF m.left_small THEN m.right ELSE m.left
SetSmaller(m, n) == IF m.left_small THEN [m EXCEPT !.left = n] ELSE [m EXCEPT !.right = n]
SetBigger(m, n) == IF m.left_small THEN [m EXCEPT !.right = n] ELSE [m EXCEPT !.left = n]
\* Variant: the children keep their order.
SwapNot(m) == m
Swap(m) == [m EXCEPT !.left_small = ~@]

RECURSIVE NodeKey(_)
NodeKey(n) ==
  IF ~n.valid \/ n.it.kind = "concat" THEN NoKey
  ELSE IF n.it.kind = "table" THEN IF n.it.at = 0 THEN NoKey ELSE n.it.keys[n.it.at]
  ELSE NodeKey(Smaller(n.it))

TableNext(t) ==
  IF t.at < Len(t.keys) THEN <<[t EXCEPT !.at = @ + 1], "true">> ELSE <<t, "false">>

\* Only seek sets a concat's index, and without it key() equals key_back(): None.
ConcatNext(c) == <<c, "false">>

\* MergeNext is the loop of next: the smaller child's key, unless it is the one
\* yielded before; or the smaller child moves on, and the children are put in order.
\* A node with one child panics in bigger().
RECURSIVE NodeNext(_), MergeNext(_)
NodeNext(n) ==
  LET r == IF n.it.kind = "table" THEN TableNext(n.it)
           ELSE IF n.it.kind = "concat" THEN ConcatNext(n.it)
           ELSE MergeNext(n.it)
  IN <<[valid |-> n.valid /\ r[2] # "false", it |-> r[1]], r[2]>>

MergeNext(m) ==
  LET k == NodeKey(Smaller(m))
      r == NodeNext(Smaller(m))
      m1 == SetSmaller(m, r[1])
      b == NodeNext(Bigger(m1))
      started == NodeKey(Bigger(m1)) # NoKey
      m2 == IF started THEN m1 ELSE SetBigger(m1, b[1])
      e == NodeNext(Bigger(m2))
  IN IF ~Smaller(m).valid THEN <<m, "false">>
     ELSE IF k # NoKey /\ k # m.temp THEN <<[m EXCEPT !.temp = k], "true">>
     ELSE IF r[2] = "panic" \/ m.right = NoNode THEN <<m, "panic">>
     ELSE IF ~Bigger(m1).valid THEN MergeNext(m1)
     ELSE IF r[2] = "false" THEN MergeNext(Swap(m1))
     ELSE IF ~started /\ b[2] = "panic" THEN <<m, "panic">>
     ELSE IF ~started /\ b[2] = "false" THEN MergeNext(m2)
     ELSE IF NodeKey(Smaller(m2)) < NodeKey(Bigger(m2)) THEN MergeNext(m2)
     ELSE IF NodeKey(Smaller(m2)) > NodeKey(Bigger(m2)) THEN MergeNext(Swap(m2))
     ELSE MergeNext(SetBigger(m2, e[1]))

\* new_iter: the top tables, the newest first, then the bottom ones.
NewIter(top, bot) ==
  MergeNew(Append([i \in 1 .. Len(top) |-> TableIter(top[Len(top) + 1 - i])],
                  ConcatIter(bot)))

Init ==
  \E top \in Tops, bot \in Bottoms :
    /\ nodes = Len(top) + 1
    /\ merge = NewIter(top, bot)
    /\ ref = Fresh(SetToSortSeq(UNION ToSet(top), <))
    /\ said = <<>>

Next_ ==
  LET r == MergeNext(merge)
      a == NextOf(ref, NoKey)
  IN /\ said # <<>> => said[1] = "true"
     /\ merge' = r[1]
     /\ said' = <<r[2], IF r[2] = "true" THEN NodeKey(Node(r[1])) ELSE NoKey, a.ok, a.key>>
     /\ ref' = a.cursor
     /\ UNCHANGED nodes

Next == Next_

-----------------------------------------------------------------------------
\* When the tree is full, that is over a power of two of iterators, a compaction is
\* given the entries of its top tables in order, each once even if several tables hold
\* it, to the last one, and the merge does not panic.
MergeAgrees ==
  said # <<>> /\ (\E i \in 0 .. nodes : nodes = 2 ^ i) =>
    /\ said[1] = IF said[3] THEN "true" ELSE "false"
    /\ said[2] = said[4]
=============================================================================
