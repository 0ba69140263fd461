---------------------------- MODULE MCCompaction ----------------------------
\* Three flushes, of one key, of both or of a deletion, and two compactors, reach
\* every kind of plan: level 0 to the base level, which starts as the last one and
\* moves up, level 1 to level 2, and inside level 0.  Six file numbers let a table
\* with a stale entry be built and compacted again.
EXTENDS Compaction

MCMemtable == {[keys |-> {2}, dels |-> {}], [keys |-> {1, 2}, dels |-> {}],
               [keys |-> {1}, dels |-> {1}]}
=============================================================================
