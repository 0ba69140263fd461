------------------------------- MODULE Cursor -------------------------------
\* The promise of the iterators of Mors (SinkIterator, DoubleEndedSinkIterator and
\* KvSeekIter), over a sorted sequence s: what is left to yield is an interval of
\* s, taken from the front by next and from the back by next_back, and cut by seek
\* to what is not below the key.
EXTENDS Integers, Sequences

Fresh(s) == [s |-> s, lo |-> 1, hi |-> Len(s)]

\* An answer: the cursor afterwards, what the call returned, and the key at which
\* the cursor then stands if it returned true.
Answer(c, ok, key) == [cursor |-> c, ok |-> ok, key |-> key]

NextOf(c, none) ==
  IF c.lo <= c.hi THEN Answer([c EXCEPT !.lo = @ + 1], TRUE, c.s[c.lo])
                  ELSE Answer(c, FALSE, none)

NextBackOf(c, none) ==
  IF c.lo <= c.hi THEN Answer([c EXCEPT !.hi = @ - 1], TRUE, c.s[c.hi])
                  ELSE Answer(c, FALSE, none)

\* Below(i): the i-th element is smaller than the key that is sought.
SeekOf(c, Below(_), none) ==
  LET found == {i \in 1 .. Len(c.s) : ~Below(i)}
  IN IF found = {} THEN Answer(c, FALSE, none)
     ELSE LET i == CHOOSE i \in found : \A j \in found : i <= j
          IN Answer([c EXCEPT !.lo = i + 1], TRUE, c.s[i])
=============================================================================
