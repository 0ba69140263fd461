---------------------------- MODULE MCMemTables ----------------------------
\* A memtable is full after one write and the flush channel holds one memtable, so
\* that the write task waits for the flush task.  Level 0 holds three tables: one
\* for the base level and two for a compaction inside level 0 at the same time, and
\* the table that one adds makes the flush task wait.
EXTENDS MemTables
=============================================================================
