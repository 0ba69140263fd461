-------------------------- MODULE MemTablesProofs --------------------------
(***************************************************************************)
(* Nothing that was written gets out of reach while memtables rotate, are  *)
(* flushed and compacted, for any sizes and any number of readers.         *)
(***************************************************************************)
EXTENDS MemTables, TLAPS

-----------------------------------------------------------------------------
\* Sequences.

LEMMA AppendEntries ==
  ASSUME NEW S, NEW s \in Seq(S), NEW x \in S
  PROVE  /\ Append(s, x) \in Seq(S) /\ Len(Append(s, x)) = Len(s) + 1
         /\ \A i \in 1 .. Len(s) : Append(s, x)[i] = s[i]
         /\ Append(s, x)[Len(s) + 1] = x
OBVIOUS

LEMMA TailEntries ==
  ASSUME NEW S, NEW s \in Seq(S), s # <<>>
  PROVE  /\ Tail(s) \in Seq(S) /\ Len(Tail(s)) = Len(s) - 1
         /\ \A i \in 1 .. Len(s) - 1 : Tail(s)[i] = s[i + 1]
         /\ Head(s) = s[1] /\ Head(s) \in S /\ Len(s) >= 1
OBVIOUS

LEMMA ConsEntries ==
  ASSUME NEW S, NEW s \in Seq(S), NEW x \in S
  PROVE  /\ <<x>> \o s \in Seq(S) /\ Len(<<x>> \o s) = Len(s) + 1
         /\ (<<x>> \o s)[1] = x
         /\ \A i \in 1 .. Len(s) : (<<x>> \o s)[i + 1] = s[i]
OBVIOUS

LEMMA ConsTail ==
  ASSUME NEW S, NEW s \in Seq(S), NEW x \in S
  PROVE  Tail(<<x>> \o s) = s /\ <<x>> \o s # <<>>
OBVIOUS

LEMMA HeadTail ==
  ASSUME NEW S, NEW s \in Seq(S), s # <<>>
  PROVE  <<Head(s)>> \o Tail(s) = s
OBVIOUS

LEMMA ConsAppend ==
  ASSUME NEW S, NEW s \in Seq(S), NEW x \in S, NEW y \in S
  PROVE  <<x>> \o Append(s, y) = Append(<<x>> \o s, y)
OBVIOUS

LEMMA TailAppend ==
  ASSUME NEW S, NEW s \in Seq(S), NEW x \in S, s # <<>>
  PROVE  Tail(Append(s, x)) = Append(Tail(s), x) /\ Append(s, x) # <<>>
OBVIOUS
-----------------------------------------------------------------------------
\* The steps, as the invariant sees them.

Quiet ==
  /\ discard_ts <= discard_ts'
  /\ UNCHANGED <<writeVars, flush_chan, flushVars, fileVars, levelVars, compactVars>>

\* Fids, file ids and versions are numbers.
LEMMA FidNat == \A f \in Fid : f \in Nat /\ f >= 1 /\ f <= MaxFid
BY MemTablesAssumption DEF Fid

LEMMA IdNat == \A t \in Id : t \in Nat /\ t >= 1 /\ t <= MaxId
BY MemTablesAssumption DEF Id

LEMMA VersionNat == \A v \in Version : v \in Nat /\ v >= 1
BY MemTablesAssumption DEF Version

LEMMA Types ==
  ASSUME TypeOK
  PROVE  /\ immut_memtable \in Seq(Fid) /\ flush_chan \in Seq(Fid)
         /\ memtable \in Fid /\ whand \in Fid /\ fhand \in Fid
         /\ next_fid \in Nat /\ version \in Nat /\ discard_ts \in Nat
         /\ next_file_id \in Nat
         /\ DOMAIN data = Fid /\ DOMAIN tables = Id
         /\ DOMAIN cpc = Target /\ DOMAIN ctop = Target /\ DOMAIN cout = Target
BY MemTablesAssumption DEF TypeOK

\* Every version of a table is a version.
LEMMA HoldingType ==
  ASSUME TypeOK, NEW ids \in SUBSET Id
  PROVE  Holding(ids) \subseteq Version
BY DEF TypeOK, Holding

\* A read changes nothing but the reader and the read mark.
LEMMA NextCases ==
  ASSUME TypeOK, [Next]_vars
  PROVE  \/ WriteToMemtable \/ NewMemtable \/ ReplaceMemtable \/ SendFlush \/ PushImmut
         \/ FlushRecv \/ FlushBuild \/ FlushLevel0 \/ FlushPop \/ Compact \/ Quiet
<1>a. discard_ts <= discard_ts
  BY Types
<1>1. ASSUME NEW v \in Version, ReadMarkMoves(v) PROVE Quiet
  BY <1>1, Types, VersionNat DEF ReadMarkMoves, Quiet
<1>2. ASSUME NEW r \in Reader, NEW v \in Version, GetMemtable(r, v) PROVE Quiet
  BY <1>2, <1>a, Zenon DEF GetMemtable, Quiet
<1>3. ASSUME NEW r \in Reader, GetFromMemtables(r) \/ GetFromLevels(r) PROVE Quiet
  BY <1>3, <1>a, Zenon DEF GetFromMemtables, GetFromLevels, Quiet
<1>4. CASE UNCHANGED vars
  BY <1>4, <1>a, Zenon DEF vars, readVars, Quiet
<1> QED BY <1>1, <1>2, <1>3, <1>4, Zenon DEF Next, Write, Flush, Read

\* A compaction touches tables, levels and the manifest only.
LEMMA CompactFrame ==
  ASSUME Compact
  PROVE  UNCHANGED <<writeVars, flush_chan, flushVars, readVars>>
BY Zenon DEF Compact, PlanToBase, PlanToLevel0, CompactBuild, CompactFails, CompactPush,
             CompactReplace, CompactDelete

LEMMA QueueTypes ==
  ASSUME TypeOK
  PROVE  Sent \in Seq(Fid) /\ Unflushed \in Seq(Fid)
BY Types, AppendEntries, ConsEntries, Zenon DEF Sent, Unflushed

\* What a step does to what was sent and to what is still to be flushed.
LEMMA QueueSteps ==
  ASSUME TypeOK
  PROVE  /\ WriteToMemtable \/ NewMemtable \/ ReplaceMemtable \/ PushImmut \/ FlushRecv
              \/ FlushBuild \/ Compact \/ Quiet => UNCHANGED <<Sent, Unflushed>>
         /\ SendFlush => Sent' = Append(Sent, whand) /\ Unflushed' = Append(Unflushed, whand)
         /\ FlushLevel0 => /\ Sent' = Sent /\ Unflushed # <<>> /\ Head(Unflushed) = fhand
                           /\ Unflushed' = Tail(Unflushed)
         /\ FlushPop => /\ Unflushed' = Unflushed
                        /\ immut_memtable = <<>> => Sent' = Sent
                        /\ immut_memtable # <<>> => Sent # <<>> /\ Sent' = Tail(Sent)
<1>0. /\ immut_memtable \in Seq(Fid) /\ flush_chan \in Seq(Fid)
      /\ whand \in Fid /\ fhand \in Fid
  BY Types, Zenon
<1>1. WriteToMemtable \/ NewMemtable \/ ReplaceMemtable => UNCHANGED <<Sent, Unflushed>>
  BY Zenon DEF WriteToMemtable, NewMemtable, ReplaceMemtable, Sent, Unflushed, flushVars
<1>2. PushImmut => UNCHANGED <<Sent, Unflushed>>
  BY Zenon DEF PushImmut, Sent, Unflushed, flushVars
<1>3. FlushRecv => UNCHANGED <<Sent, Unflushed>>
  BY <1>0, HeadTail, Zenon DEF FlushRecv, Sent, Unflushed, writeVars
<1>4. FlushBuild => UNCHANGED <<Sent, Unflushed>>
  BY Zenon DEF FlushBuild, Sent, Unflushed, writeVars
<1>5. Compact \/ Quiet => UNCHANGED <<Sent, Unflushed>>
  BY CompactFrame, Zenon DEF Quiet, Sent, Unflushed, writeVars, flushVars
<1>6. ASSUME SendFlush
      PROVE  Sent' = Append(Sent, whand) /\ Unflushed' = Append(Unflushed, whand)
  BY <1>0, <1>6, ConsAppend, Zenon DEF SendFlush, Sent, Unflushed, flushVars
<1>7. ASSUME FlushLevel0
      PROVE  /\ Sent' = Sent /\ Unflushed # <<>> /\ Head(Unflushed) = fhand
             /\ Unflushed' = Tail(Unflushed)
  BY <1>0, <1>7, ConsTail, ConsEntries DEF FlushLevel0, Sent, Unflushed, writeVars
<1>8. ASSUME FlushPop
      PROVE  /\ Unflushed' = Unflushed
             /\ immut_memtable = <<>> => Sent' = Sent
             /\ immut_memtable # <<>> => Sent # <<>> /\ Sent' = Tail(Sent)
  BY <1>0, <1>8, TailAppend, Zenon DEF FlushPop, Sent, Unflushed
<1> QED BY <1>1, <1>2, <1>3, <1>4, <1>5, <1>6, <1>7, <1>8, Zenon
-----------------------------------------------------------------------------
\* The clauses of the invariant, one at a time.

\* Every variable keeps its type.
LEMMA NextType ==
  ASSUME IInv, [Next]_vars
  PROVE  TypeOK'
<1> USE MemTablesAssumption
<1>0. TypeOK /\ next_fid \in 1 .. MaxFid + 1 /\ next_file_id \in 1 .. MaxId + 1
  BY Zenon DEF IInv, TypeOK
<1> USE DEF flushVars, fileVars, levelVars, compactVars, readVars
<1>1. CASE WriteToMemtable
  <2>1. /\ data[memtable] \cup {version + 1} \in SUBSET Version /\ version + 1 \in 0 .. MaxVersion
        /\ discard_ts \in 0 .. version + 1
    BY <1>0, <1>1 DEF WriteToMemtable, TypeOK, Version
  <2> QED BY <1>0, <1>1, <2>1, Zenon DEF WriteToMemtable, TypeOK
<1>2. CASE NewMemtable
  <2>1. next_fid \in Fid /\ next_fid' \in 1 .. MaxFid + 1
    BY <1>0, <1>2 DEF NewMemtable, Fid
  <2> QED BY <1>0, <1>2, <2>1, Zenon DEF NewMemtable, TypeOK
<1>3. CASE ReplaceMemtable
  BY <1>0, <1>3, Zenon DEF ReplaceMemtable, TypeOK
<1>4. CASE SendFlush
  <2>1. flush_chan' \in Seq(Fid) /\ Len(flush_chan') <= NumMemtables
    BY <1>0, <1>4 DEF SendFlush, TypeOK
  <2> QED BY <1>0, <1>4, <2>1, Zenon DEF SendFlush, TypeOK
<1>5. CASE PushImmut
  <2>1. immut_memtable' \in Seq(Fid)
    BY <1>0, <1>5, Types, AppendEntries, Zenon DEF PushImmut
  <2> QED BY <1>0, <1>5, <2>1, Zenon DEF PushImmut, TypeOK
<1>6. CASE FlushRecv
  <2>1. flush_chan' \in Seq(Fid) /\ Len(flush_chan') <= NumMemtables /\ fhand' \in Fid
    BY <1>0, <1>6 DEF FlushRecv, TypeOK
  <2> QED BY <1>0, <1>6, <2>1, Zenon DEF FlushRecv, TypeOK, writeVars
<1>7. CASE FlushBuild
  <2>1. next_file_id \in Id /\ next_file_id' \in 1 .. MaxId + 1
    BY <1>0, <1>7 DEF FlushBuild, Id
  <2>2. data[fhand] \in SUBSET Version
    BY <1>0, Zenon DEF TypeOK
  <2> QED BY <1>0, <1>7, <2>1, <2>2, Zenon DEF FlushBuild, TypeOK, writeVars
<1>8. CASE FlushLevel0
  BY <1>0, <1>8, Zenon DEF FlushLevel0, TypeOK, writeVars
<1>9. CASE FlushPop
  <2>1. immut_memtable' \in Seq(Fid)
    BY <1>0, <1>9, Types, TailEntries, Zenon DEF FlushPop
  <2> QED BY <1>0, <1>9, <2>1, Zenon DEF FlushPop, TypeOK
<1>10. ASSUME NEW top \in SUBSET level0, PlanToBase(top) \/ PlanToLevel0(top) PROVE TypeOK'
  <2>1. top \in SUBSET Id /\ registered' = TRUE /\ busy' = busy \cup top
    BY <1>0, <1>10, Zenon DEF TypeOK, PlanToBase, PlanToLevel0
  <2>2. PICK c \in Target : /\ cpc' = [cpc EXCEPT ![c] = "build"]
                            /\ ctop' = [ctop EXCEPT ![c] = top]
    BY <1>10, Zenon DEF PlanToBase, PlanToLevel0, Target
  <2> QED BY <1>0, <1>10, <2>1, <2>2, Zenon DEF PlanToBase, PlanToLevel0, TypeOK, writeVars
<1>11. ASSUME NEW c \in Target, CompactBuild(c) PROVE TypeOK'
  <2>1. CASE UNCHANGED <<tables, next_file_id, cout>> /\ cpc' = [cpc EXCEPT ![c] = "stuck"]
    BY <1>0, <1>11, <2>1, Zenon DEF CompactBuild, TypeOK, writeVars
  <2>2. CASE /\ next_file_id <= MaxId
             /\ next_file_id' = next_file_id + 1
             /\ tables' = [tables EXCEPT ![next_file_id] = Newest(Holding(ctop[c]))]
             /\ cout' = [cout EXCEPT ![c] = next_file_id]
             /\ cpc' = [cpc EXCEPT ![c] = "push"]
    <3>1. next_file_id \in Id /\ next_file_id' \in 1 .. MaxId + 1
      BY <1>0, <2>2 DEF Id
    <3>2. Newest(Holding(ctop[c])) \in SUBSET Version
      <4>1. ctop[c] \in SUBSET Id
        BY <1>0, Zenon DEF TypeOK
      <4> QED BY <1>0, <4>1, HoldingType, Zenon DEF Newest
    <3> QED BY <1>0, <1>11, <2>2, <3>1, <3>2, Zenon DEF CompactBuild, TypeOK, writeVars
  <2> QED BY <1>11, <2>1, <2>2, Zenon DEF CompactBuild
<1>12. ASSUME NEW c \in Target, CompactFails(c) \/ CompactDelete(c) PROVE TypeOK'
  <2>1. level0' \subseteq level0
    BY <1>12, Zenon DEF CompactFails, CompactDelete
  <2>2. {} \in SUBSET Id /\ level0' \subseteq Id
    BY <1>0, <2>1, Zenon DEF TypeOK
  <2> QED BY <1>0, <1>12, <2>2, Zenon DEF CompactFails, CompactDelete, TypeOK, writeVars
<1>13. ASSUME NEW c \in Target, CompactPush(c) \/ CompactReplace(c) PROVE TypeOK'
  <2>1. cout[c] \in Id
    BY <1>0, Zenon DEF TypeOK
  <2>2. manifest' \subseteq Id /\ level0' \subseteq Id /\ below' \subseteq Id
    BY <1>0, <1>13, <2>1, Zenon DEF CompactPush, CompactReplace, TypeOK
  <2> QED BY <1>0, <1>13, <2>2, Zenon DEF CompactPush, CompactReplace, TypeOK, writeVars
<1>14. ASSUME NEW v \in Version, ReadMarkMoves(v) PROVE TypeOK'
  <2>1. discard_ts' \in 0 .. version
    BY <1>0, <1>14, Types, VersionNat DEF ReadMarkMoves
  <2> QED BY <1>0, <1>14, <2>1, Zenon DEF ReadMarkMoves, TypeOK, writeVars
<1>15. ASSUME NEW r \in Reader, NEW v \in Version, GetMemtable(r, v) PROVE TypeOK'
  <2>1. v \in 0 .. MaxVersion /\ Range(immut_memtable) \in SUBSET Fid
    BY <1>0 DEF Version, Range, TypeOK
  <2> QED BY <1>0, <1>15, <2>1, Zenon DEF GetMemtable, TypeOK, writeVars
<1>16. ASSUME NEW r \in Reader, GetFromMemtables(r) \/ GetFromLevels(r) PROVE TypeOK'
  <2>1. PICK p \in {"idle", "levels", "failed"} : rpc' = [rpc EXCEPT ![r] = p]
    BY <1>16, Zenon DEF GetFromMemtables, GetFromLevels
  <2>2. 0 \in 0 .. MaxVersion /\ {} \in SUBSET Fid
    OBVIOUS
  <2>3. rts' \in [Reader -> 0 .. MaxVersion] /\ rimmut' \in [Reader -> SUBSET Fid]
    BY <1>0, <1>16, <2>2, Zenon DEF GetFromMemtables, GetFromLevels, TypeOK
  <2> QED BY <1>0, <1>16, <2>1, <2>3, Zenon DEF GetFromMemtables, GetFromLevels, TypeOK, writeVars
<1>17. CASE UNCHANGED vars
  BY <1>0, <1>17, Zenon DEF TypeOK, vars, writeVars
<1> QED
  BY <1>1, <1>2, <1>3, <1>4, <1>5, <1>6, <1>7, <1>8, <1>9, <1>10, <1>11, <1>12, <1>13,
     <1>14, <1>15, <1>16, <1>17, Zenon DEF Next, Write, Flush, Compact, Read

LEMMA IntervalGrows ==
  ASSUME NEW m \in Nat, NEW n \in Nat, m <= n
  PROVE  1 .. m - 1 \subseteq 1 .. n - 1
OBVIOUS

\* A table, once built, is never written to again.
LEMMA TablesStay ==
  ASSUME TypeOK, [Next]_vars
  PROVE  /\ next_file_id \in Nat /\ next_file_id' \in Nat /\ next_file_id <= next_file_id'
         /\ \A t \in 1 .. next_file_id - 1 : tables'[t] = tables[t]
<1>0. next_file_id \in Nat /\ DOMAIN tables = Id
  BY Types, Zenon
<1>1. \A t \in 1 .. next_file_id - 1 : t # next_file_id /\ t \in Id
  BY MemTablesAssumption DEF TypeOK, Id
<1>2. CASE UNCHANGED <<next_file_id, tables>>
  BY <1>0, <1>2
<1>3. ASSUME NEW x, next_file_id' = next_file_id + 1,
             tables' = [tables EXCEPT ![next_file_id] = x] \/ UNCHANGED tables
      PROVE  /\ next_file_id' \in Nat /\ next_file_id <= next_file_id'
             /\ \A t \in 1 .. next_file_id - 1 : tables'[t] = tables[t]
  <2>1. next_file_id' \in Nat /\ next_file_id <= next_file_id'
    BY <1>0, <1>3
  <2> QED BY <1>0, <1>1, <1>3, <2>1, Zenon
<1>4. CASE FlushBuild
  BY <1>0, <1>3, <1>4, Zenon DEF FlushBuild
<1>5. ASSUME NEW c \in Target, CompactBuild(c)
      PROVE  /\ next_file_id' \in Nat /\ next_file_id <= next_file_id'
             /\ \A t \in 1 .. next_file_id - 1 : tables'[t] = tables[t]
  BY <1>0, <1>2, <1>3, <1>5, Zenon DEF CompactBuild
<1>6. ASSUME Compact, \A c \in Target : ~CompactBuild(c)
      PROVE  UNCHANGED <<next_file_id, tables>>
  BY <1>6, Zenon DEF Compact, PlanToBase, PlanToLevel0, CompactFails, CompactPush,
               CompactReplace, CompactDelete, fileVars
<1>7. WriteToMemtable \/ NewMemtable \/ ReplaceMemtable \/ SendFlush \/ PushImmut
        \/ FlushRecv \/ FlushLevel0 \/ FlushPop \/ Quiet => UNCHANGED <<next_file_id, tables>>
  BY Zenon DEF WriteToMemtable, NewMemtable, ReplaceMemtable, SendFlush, PushImmut, FlushRecv,
               FlushLevel0, FlushPop, Quiet, fileVars
<1> QED BY <1>0, <1>2, <1>4, <1>5, <1>6, <1>7, NextCases, Zenon

\* What can be read of the levels stays there: a table leaves level 0 only when the
\* table it was merged into is in a level.
LEMMA LevelsKeep ==
  ASSUME IInv, [Next]_vars
  PROVE  /\ discard_ts \in Nat /\ discard_ts' \in Nat /\ discard_ts <= discard_ts'
         /\ \A v \in Holding(level0 \cup below) :
              discard_ts' <= v => v \in Holding(level0 \cup below)'
<1>0. TypeOK /\ TypeOK' /\ level0 \cup below \subseteq 1 .. next_file_id - 1
  BY NextType, Zenon DEF IInv, Homes
<1>1. discard_ts \in Nat /\ discard_ts' \in Nat /\ discard_ts <= discard_ts'
  <2>1. discard_ts \in Nat
    BY <1>0, Types, Zenon
  <2>2. discard_ts' = discard_ts \/ discard_ts <= discard_ts'
    BY <1>0, CompactFrame, NextCases, Zenon
       DEF WriteToMemtable, NewMemtable, ReplaceMemtable, SendFlush, PushImmut, FlushRecv,
           FlushBuild, FlushLevel0, FlushPop, Quiet, readVars
  <2>3. discard_ts' \in Nat
    BY <1>0 DEF TypeOK
  <2> QED BY <2>1, <2>2, <2>3
<1>2. \A t \in level0 \cup below : tables'[t] = tables[t]
  BY <1>0, TablesStay, Zenon
<1> SUFFICES ASSUME NEW v \in Holding(level0 \cup below), discard_ts' <= v
             PROVE  v \in Holding(level0 \cup below)'
  BY <1>1, Zenon
<1>3. PICK t \in level0 \cup below : v \in tables[t]
  BY Zenon DEF Holding
<1>4. v \in tables'[t]
  BY <1>2, <1>3, Zenon
<1>5. CASE t \in level0' \cup below'
  BY <1>4, <1>5, Zenon DEF Holding
<1>6. ASSUME NEW c \in Target, CompactDelete(c), t \in ctop[c] PROVE v \in Holding(level0 \cup below)'
  <2>1. /\ cpc[c] = "delete" /\ level0' = level0 \ ctop[c] /\ below' = below
        /\ tables' = tables /\ discard_ts' = discard_ts
    BY <1>6, Zenon DEF CompactDelete, fileVars, readVars
  <2>2. v \in Holding(ctop[c])
    BY <1>3, <1>6, Zenon DEF Holding
  <2>3. v \in tables[cout[c]]
    BY <2>1, <2>2, Zenon DEF IInv, Outputs
  <2>4. c = "base" => cout[c] \in below
    BY <2>1, Zenon DEF IInv, Outputs
  <2>5. c = "level0" => cout[c] \in level0 \ ctop[c]
    BY <2>1, Zenon DEF IInv, Outputs
  <2>6. cout[c] \in level0' \cup below'
    BY <2>1, <2>4, <2>5, Zenon DEF Target
  <2> QED BY <2>1, <2>3, <2>6, Zenon DEF Holding
<1>7. t \in level0' \cup below' \/ \E c \in Target : CompactDelete(c) /\ t \in ctop[c]
  <2>1. CASE Compact
    BY <1>3, <2>1, Zenon DEF Compact, PlanToBase, PlanToLevel0, CompactBuild, CompactFails,
                    CompactPush, CompactReplace, CompactDelete, levelVars
  <2>2. level0 \cup below \subseteq level0' \cup below' \/ Compact
    BY <1>0, NextCases, Zenon
       DEF WriteToMemtable, NewMemtable, ReplaceMemtable, SendFlush, PushImmut, FlushRecv,
           FlushBuild, FlushLevel0, FlushPop, Quiet, levelVars
  <2> QED BY <1>3, <2>1, <2>2, Zenon
<1> QED BY <1>5, <1>6, <1>7, Zenon

\* A memtable that is flushed stays so, and nobody writes to it.
LEMMA FlushedStays ==
  ASSUME IInv, [Next]_vars
  PROVE  \A f \in Fid : f # memtable /\ Flushed(f) => Flushed(f)'
<1> SUFFICES ASSUME NEW f \in Fid, f # memtable, Flushed(f) PROVE Flushed(f)'
  BY Zenon
<1>0. TypeOK /\ DOMAIN data = Fid
  BY Types, Zenon DEF IInv
<1>1. data'[f] = data[f]
  BY <1>0, CompactFrame, NextCases, Zenon
     DEF WriteToMemtable, NewMemtable, ReplaceMemtable, SendFlush, PushImmut, FlushRecv,
         FlushBuild, FlushLevel0, FlushPop, Quiet, writeVars
<1>2. SUFFICES ASSUME NEW v \in data[f], discard_ts' <= v PROVE v \in Holding(level0 \cup below)'
  BY <1>1, Zenon DEF Flushed
<1>3. v \in Nat
  BY <1>0, VersionNat, Zenon DEF TypeOK
<1>4. discard_ts <= v
  BY <1>2, <1>3, LevelsKeep
<1> QED BY <1>2, <1>4, LevelsKeep, Zenon DEF Flushed

\* The flush task stays ahead of what it pops.
LEMMA NextPops ==
  ASSUME IInv, [Next]_vars
  PROVE  PopsBehind'
<1> DEFINE d == Len(Sent) - Len(Unflushed)
<1>0. TypeOK /\ PopsBehind
  BY Zenon DEF IInv
<1>a. /\ Sent \in Seq(Fid) /\ Unflushed \in Seq(Fid) /\ d \in Nat
      /\ Len(Sent) \in Nat /\ Len(Unflushed) \in Nat
  BY <1>0, QueueTypes DEF PopsBehind
<1>b. \A i \in 1 .. Len(Unflushed) : Unflushed[i] = Sent[d + i]
  BY <1>0, Zenon DEF PopsBehind
<1>c. \A i \in 1 .. d : Sent[i] \in Fid /\ Flushed(Sent[i]) /\ Sent[i] # memtable
  <2>1. \A i \in 1 .. d : i \in 1 .. Len(Sent)
    BY <1>a
  <2>2. \A i \in 1 .. Len(Sent) : Sent[i] \in Fid /\ Sent[i] < memtable
    BY <1>a DEF IInv, ByAge, Below
  <2>3. memtable \in Nat /\ \A f \in Fid : f \in Nat
    BY <1>0, Types, FidNat, Zenon
  <2>4. \A i \in 1 .. d : Flushed(Sent[i])
    BY <1>0, Zenon DEF PopsBehind
  <2> QED BY <2>1, <2>2, <2>3, <2>4
<1>d. \A f \in Fid : (\E i \in 1 .. d : f = Sent[i]) => Flushed(f)'
  BY <1>c, FlushedStays, Zenon
<1>1. ASSUME UNCHANGED <<Sent, Unflushed>>, fpc' = "pop" => fpc = "pop" PROVE PopsBehind'
  <2>1. \A i \in 1 .. d : Flushed(Sent[i])'
    BY <1>1, <1>c, <1>d, Zenon DEF Flushed
  <2> QED BY <1>0, <1>1, <2>1, Zenon DEF PopsBehind
<1>2. CASE SendFlush
  <2>1. /\ Sent' = Append(Sent, whand) /\ Unflushed' = Append(Unflushed, whand)
        /\ fpc' = fpc
    BY <1>0, <1>2, QueueSteps, Zenon DEF SendFlush, flushVars
  <2>2. /\ Len(Sent') = Len(Sent) + 1 /\ Len(Unflushed') = Len(Unflushed) + 1
        /\ \A i \in 1 .. Len(Sent) : Sent'[i] = Sent[i]
        /\ Sent'[Len(Sent) + 1] = whand
        /\ \A i \in 1 .. Len(Unflushed) : Unflushed'[i] = Unflushed[i]
        /\ Unflushed'[Len(Unflushed) + 1] = whand
    BY <1>0, <1>a, <2>1, Types, AppendEntries
  <2>3. \A i \in 1 .. Len(Unflushed') : Unflushed'[i] = Sent'[d + i]
    <3> TAKE i \in 1 .. Len(Unflushed')
    <3>1. CASE i \in 1 .. Len(Unflushed)
      BY <1>a, <1>b, <2>2, <3>1
    <3>2. CASE i = Len(Unflushed) + 1
      BY <1>a, <2>2, <3>2
    <3> QED BY <1>a, <2>2, <3>1, <3>2
  <2>4. \A i \in 1 .. d : Flushed(Sent[i])'
    <3>1. \A i \in 1 .. d : Sent'[i] = Sent[i]
      BY <1>a, <2>2
    <3> QED BY <1>c, <1>d, <3>1, Zenon DEF Flushed
  <2>5. Len(Sent') - Len(Unflushed') = d
    BY <1>a, <2>2
  <2>6. Len(Unflushed') <= Len(Sent')
    BY <1>a, <2>2
  <2>7. fpc' = "pop" => Len(Unflushed') < Len(Sent')
    BY <1>0, <1>a, <2>1, <2>2 DEF PopsBehind
  <2> QED BY <2>3, <2>4, <2>5, <2>6, <2>7, Zenon DEF PopsBehind
<1>3. CASE FlushLevel0
  <2>1. /\ Sent' = Sent /\ Unflushed # <<>> /\ Head(Unflushed) = fhand
        /\ Unflushed' = Tail(Unflushed)
    BY <1>0, <1>3, QueueSteps, Zenon
  <2>2. /\ Len(Unflushed') = Len(Unflushed) - 1 /\ Len(Unflushed) >= 1
        /\ \A i \in 1 .. Len(Unflushed) - 1 : Unflushed'[i] = Unflushed[i + 1]
        /\ Unflushed[1] = fhand
    BY <1>a, <2>1, TailEntries, Zenon
  <2>3. \A i \in 1 .. Len(Unflushed') : Unflushed'[i] = Sent'[(d + 1) + i]
    BY <1>a, <1>b, <2>1, <2>2
  <2>4. ASSUME NEW i \in {d + 1} PROVE Flushed(Sent[i])'
    <3>1. /\ ftable \in level0' /\ tables' = tables /\ data' = data /\ fpc = "level0"
      BY <1>3, Zenon DEF FlushLevel0, fileVars, writeVars
    <3>2. tables[ftable] = data[fhand]
      BY <3>1, Zenon DEF IInv, Homes
    <3>3. Sent[d + 1] = fhand
      BY <1>a, <1>b, <2>2
    <3> QED BY <2>1, <3>1, <3>2, <3>3, Zenon DEF Flushed, Holding
  <2>5. \A i \in 1 .. d + 1 : Flushed(Sent[i])'
    <3>1. \A i \in 1 .. d : Flushed(Sent[i])'
      BY <1>c, <1>d, <2>1, Zenon DEF Flushed
    <3>2. \A i \in 1 .. d + 1 : i \in 1 .. d \/ i \in {d + 1}
      BY <1>a
    <3> QED BY <2>4, <3>1, <3>2, Zenon
  <2>6. /\ Len(Sent') - Len(Unflushed') = d + 1 /\ Len(Unflushed') <= Len(Sent')
        /\ Len(Unflushed') < Len(Sent')
    BY <1>a, <2>1, <2>2
  <2> QED BY <2>3, <2>5, <2>6, Zenon DEF PopsBehind
<1>4. CASE FlushPop /\ immut_memtable # <<>>
  <2>1. /\ Unflushed' = Unflushed /\ Sent # <<>> /\ Sent' = Tail(Sent)
        /\ fpc' # "pop" /\ d >= 1
    BY <1>0, <1>4, <1>a, QueueSteps DEF FlushPop, PopsBehind
  <2>2. /\ Len(Sent') = Len(Sent) - 1
        /\ \A i \in 1 .. Len(Sent) - 1 : Sent'[i] = Sent[i + 1]
    BY <1>a, <2>1, TailEntries, Zenon
  <2>3. \A i \in 1 .. Len(Unflushed') : Unflushed'[i] = Sent'[(d - 1) + i]
    BY <1>a, <1>b, <2>1, <2>2
  <2>4. \A i \in 1 .. d - 1 : Flushed(Sent[i])'
    <3>1. \A i \in 1 .. d - 1 : i + 1 \in 1 .. d /\ i \in 1 .. Len(Sent) - 1
      BY <1>a, <2>1
    <3> QED BY <1>c, <1>d, <2>2, <3>1, Zenon DEF Flushed
  <2>5. Len(Sent') - Len(Unflushed') = d - 1 /\ Len(Unflushed') <= Len(Sent')
    BY <1>a, <2>1, <2>2
  <2> QED BY <2>1, <2>3, <2>4, <2>5, Zenon DEF PopsBehind
<1>5. CASE FlushPop /\ immut_memtable = <<>>
  BY <1>0, <1>1, <1>5, QueueSteps, Zenon DEF FlushPop
<1>6. WriteToMemtable \/ NewMemtable \/ ReplaceMemtable \/ PushImmut \/ FlushRecv
        \/ FlushBuild \/ Compact \/ Quiet => (fpc' = "pop" => fpc = "pop")
  BY CompactFrame, Zenon DEF WriteToMemtable, NewMemtable, ReplaceMemtable, PushImmut, FlushRecv,
                             FlushBuild, Quiet, flushVars
<1> QED BY <1>0, <1>1, <1>2, <1>3, <1>4, <1>5, <1>6, NextCases, QueueSteps, Zenon

\* How order survives the operations on a queue.
LEMMA OrderAppend ==
  ASSUME NEW s \in Seq(Fid), NEW x \in Fid
  PROVE  /\ Ascending(s) /\ Below(s, x) => Ascending(Append(s, x))
         /\ \A f : Below(s, f) /\ x < f => Below(Append(s, x), f)
<1>1. /\ Append(s, x) \in Seq(Fid) /\ Len(Append(s, x)) = Len(s) + 1 /\ Len(s) \in Nat
      /\ \A i \in 1 .. Len(s) : Append(s, x)[i] = s[i]
      /\ Append(s, x)[Len(s) + 1] = x
  BY AppendEntries
<1>2. \A i \in 1 .. Len(s) + 1 : i \in 1 .. Len(s) \/ i = Len(s) + 1
  BY <1>1
<1>3. \A f : Below(s, f) /\ x < f => Below(Append(s, x), f)
  BY <1>1, <1>2, Zenon DEF Below
<1>4. ASSUME Ascending(s), Below(s, x),
             NEW i \in 1 .. Len(s) + 1, NEW j \in 1 .. Len(s) + 1, i < j
      PROVE  Append(s, x)[i] < Append(s, x)[j]
  <2>1. i \in 1 .. Len(s)
    BY <1>1, <1>4
  <2>2. CASE j \in 1 .. Len(s)
    BY <1>1, <1>4, <2>1, <2>2, Zenon DEF Ascending
  <2>3. CASE j = Len(s) + 1
    BY <1>1, <1>4, <2>1, <2>3, Zenon DEF Below
  <2> QED BY <1>2, <2>2, <2>3, Zenon
<1> QED BY <1>1, <1>3, <1>4, Zenon DEF Ascending

LEMMA OrderTail ==
  ASSUME NEW s \in Seq(Fid), s # <<>>
  PROVE  /\ Ascending(s) => Ascending(Tail(s))
         /\ \A f : Below(s, f) => Below(Tail(s), f)
<1>1. \A i \in 1 .. Len(Tail(s)) : Tail(s)[i] = s[i + 1] /\ i + 1 \in 1 .. Len(s)
  BY TailEntries
<1>2. \A i, j \in 1 .. Len(Tail(s)) : i < j => i + 1 < j + 1
  OBVIOUS
<1> QED BY <1>1, <1>2, Zenon DEF Ascending, Below

LEMMA BelowYounger ==
  ASSUME NEW s \in Seq(Fid), NEW f \in Nat, NEW g \in Nat, Below(s, f), f <= g
  PROVE  Below(s, g)
<1>1. \A i \in 1 .. Len(s) : s[i] \in Fid
  OBVIOUS
<1>2. \A i \in 1 .. Len(s) : s[i] \in Nat
  BY <1>1, FidNat, Zenon
<1> QED BY <1>2 DEF Below

\* What is still to be flushed is older than the mutable memtable.
LEMMA UnflushedBelow ==
  ASSUME IInv
  PROVE  Below(Unflushed, memtable)
<1>1. Len(Sent) \in Nat /\ Len(Unflushed) \in Nat
  BY QueueTypes DEF IInv
<1>2. \A i \in 1 .. Len(Unflushed) :
        /\ Len(Sent) - Len(Unflushed) + i \in 1 .. Len(Sent)
        /\ Unflushed[i] = Sent[Len(Sent) - Len(Unflushed) + i]
  BY <1>1 DEF IInv, PopsBehind
<1> QED BY <1>2, Zenon DEF IInv, ByAge, Below

\* Rotation and flushing go by age.
LEMMA NextAge ==
  ASSUME IInv, [Next]_vars
  PROVE  ByAge'
<1>0. TypeOK /\ ByAge
  BY Zenon DEF IInv
<1>a. /\ Sent \in Seq(Fid) /\ Unflushed \in Seq(Fid)
      /\ memtable \in Nat /\ memtable \in Fid /\ whand \in Nat /\ whand \in Fid
      /\ next_fid \in Nat
  BY <1>0, Types, QueueTypes, FidNat, Zenon
<1>b. /\ Ascending(Unflushed) /\ Below(Sent, memtable)
      /\ memtable < next_fid
  BY <1>0, Zenon DEF ByAge
<1>c. Below(Unflushed, memtable)
  BY UnflushedBelow, Zenon
<1>1. ASSUME UNCHANGED <<Sent, Unflushed, memtable, next_fid, whand>>,
             wpc' = wpc \/ wpc' \notin {"send", "replace"}
      PROVE  ByAge'
  BY <1>0, <1>1, Zenon DEF ByAge, Ascending, Below
<1>2. CASE NewMemtable
  <2>1. /\ UNCHANGED <<Sent, Unflushed, memtable>> /\ next_fid' = next_fid + 1
        /\ wpc' # "send" /\ (wpc' = "replace" => whand' = next_fid)
    BY <1>0, <1>2, QueueSteps, Zenon DEF NewMemtable
  <2> QED BY <1>a, <1>b, <2>1 DEF ByAge, Ascending, Below
<1>3. CASE ReplaceMemtable
  <2>1. /\ UNCHANGED <<Sent, Unflushed, next_fid>>
        /\ memtable' = whand /\ whand' = memtable /\ wpc' = "send"
    BY <1>0, <1>3, QueueSteps, Zenon DEF ReplaceMemtable
  <2>2. memtable < whand /\ whand < next_fid
    BY <1>0, <1>3, Zenon DEF ReplaceMemtable, ByAge
  <2>3. Below(Sent, whand)
    BY <1>a, <1>b, <2>2, BelowYounger
  <2> QED BY <1>b, <1>c, <2>1, <2>2, <2>3, Zenon DEF ByAge, Ascending, Below
<1>4. CASE SendFlush
  <2>1. /\ Sent' = Append(Sent, whand) /\ Unflushed' = Append(Unflushed, whand)
        /\ UNCHANGED <<next_fid, memtable>> /\ wpc' = "push"
    BY <1>0, <1>4, QueueSteps, Zenon DEF SendFlush
  <2>2. whand < memtable /\ Below(Unflushed, whand)
    BY <1>0, <1>4, Zenon DEF SendFlush, ByAge
  <2>3. Ascending(Append(Unflushed, whand)) /\ Below(Append(Sent, whand), memtable)
    BY <1>a, <1>b, <2>2, OrderAppend, Zenon
  <2> QED BY <1>b, <2>1, <2>3, Zenon DEF ByAge, Ascending, Below
<1>5. CASE FlushLevel0
  <2>1. /\ Sent' = Sent /\ Unflushed # <<>> /\ Unflushed' = Tail(Unflushed)
        /\ UNCHANGED <<next_fid, memtable, wpc, whand>>
    BY <1>0, <1>5, QueueSteps, Zenon DEF FlushLevel0, writeVars
  <2>2. /\ Ascending(Tail(Unflushed))
        /\ \A f : Below(Unflushed, f) => Below(Tail(Unflushed), f)
    BY <1>a, <1>b, <2>1, OrderTail, Zenon
  <2>3. /\ wpc = "send" => whand < memtable /\ Below(Tail(Unflushed), whand)
        /\ wpc = "replace" => memtable < whand /\ whand < next_fid
    BY <1>0, <2>2, Zenon DEF ByAge
  <2> QED BY <1>b, <2>1, <2>2, <2>3, Zenon DEF ByAge, Ascending, Below
<1>6. CASE FlushPop /\ immut_memtable # <<>>
  <2>1. /\ Unflushed' = Unflushed /\ Sent # <<>> /\ Sent' = Tail(Sent)
        /\ UNCHANGED <<next_fid, memtable, wpc, whand>>
    BY <1>0, <1>6, QueueSteps, Zenon DEF FlushPop
  <2>2. Below(Tail(Sent), memtable)
    BY <1>a, <1>b, <2>1, OrderTail, Zenon
  <2> QED BY <1>0, <2>1, <2>2, Zenon DEF ByAge, Ascending, Below
<1>7. WriteToMemtable \/ PushImmut \/ FlushRecv \/ FlushBuild \/ Compact \/ Quiet
        => /\ UNCHANGED <<memtable, next_fid, whand>>
           /\ wpc' = wpc \/ wpc' \notin {"send", "replace"}
  BY CompactFrame, Zenon DEF WriteToMemtable, PushImmut, FlushRecv, FlushBuild, Quiet, writeVars
<1>8. CASE FlushPop /\ immut_memtable = <<>>
  BY <1>0, <1>1, <1>8, QueueSteps, Zenon DEF FlushPop
<1> QED
  BY <1>0, <1>1, <1>2, <1>3, <1>4, <1>5, <1>6, <1>7, <1>8, NextCases, QueueSteps, Zenon

\* Versions go to the youngest memtable, in order.
LEMMA NextWritten ==
  ASSUME IInv, [Next]_vars
  PROVE  Written'
<1>0. TypeOK /\ Written
  BY Zenon DEF IInv
<1>a. /\ memtable \in Fid /\ memtable \in Nat /\ version \in Nat /\ DOMAIN data = Fid
      /\ (\A f \in Fid : f \in Nat) /\ 1 .. memtable \subseteq Fid
  <2>1. memtable \in Fid /\ version \in Nat /\ DOMAIN data = Fid
    BY <1>0, Types, Zenon
  <2> QED BY <2>1, FidNat, MemTablesAssumption DEF Fid
<1>b. /\ \A v \in 1 .. version : \E f \in 1 .. memtable : v \in data[f]
      /\ \A f \in Fid : data[f] \subseteq 1 .. version
      /\ \A f \in Fid : memtable < f => data[f] = {}
      /\ \A f, g \in Fid : f < g => \A v \in data[f], w \in data[g] : v < w
  BY <1>0, Zenon DEF Written
<1>1. CASE WriteToMemtable
  <2>1. /\ memtable' = memtable /\ version' = version + 1
        /\ \A f \in Fid : f # memtable => data'[f] = data[f]
        /\ data'[memtable] = data[memtable] \cup {version + 1}
    BY <1>a, <1>1, Zenon DEF WriteToMemtable
  <2>2. \A v \in 1 .. version' : \E f \in 1 .. memtable' : v \in data'[f]
    <3> TAKE v \in 1 .. version'
    <3>1. CASE v \in 1 .. version
      BY <1>a, <1>b, <2>1, <3>1, Zenon
    <3>2. CASE v = version + 1
      <4>1. memtable \in 1 .. memtable'
        BY <1>a, <2>1, FidNat
      <4> QED BY <2>1, <3>2, <4>1, Zenon
    <3> QED BY <1>a, <2>1, <3>1, <3>2
  <2>3. \A f \in Fid : data'[f] \subseteq 1 .. version'
    <3>1. 1 .. version \subseteq 1 .. version' /\ version + 1 \in 1 .. version'
      BY <1>a, <2>1
    <3>2. \A f \in Fid : data'[f] \subseteq data[f] \cup {version + 1}
      BY <2>1, Zenon
    <3> QED BY <1>b, <3>1, <3>2, Zenon
  <2>4. \A f \in Fid : memtable' < f => data'[f] = {}
    <3>1. memtable' = memtable
      BY <2>1, Zenon
    <3>2. \A f \in Fid : memtable < f => f # memtable
      BY <1>a
    <3> QED BY <1>b, <2>1, <3>1, <3>2, Zenon
  <2>5. ASSUME NEW f \in Fid, NEW g \in Fid, f < g, NEW v \in data'[f], NEW w \in data'[g]
        PROVE  v < w
    <3>1. f # memtable /\ data'[f] = data[f]
      <4>1. f # memtable
        BY <2>1, <2>4, <2>5, Zenon
      <4> QED BY <1>a, <2>1, <4>1, Zenon
    <3>2. CASE w \in data[g]
      BY <1>b, <2>5, <3>1, <3>2, Zenon
    <3>3. CASE w = version + 1
      <4>1. v \in 1 .. version
        BY <1>b, <2>5, <3>1, Zenon
      <4> QED BY <1>a, <3>3, <4>1
    <3> QED BY <2>1, <2>5, <3>2, <3>3, Zenon
  <2> QED BY <2>2, <2>3, <2>4, <2>5, Zenon DEF Written
<1>2. CASE ReplaceMemtable
  <2>1. UNCHANGED <<data, version>> /\ memtable' = whand /\ memtable < whand
    BY <1>2, Zenon DEF ReplaceMemtable, IInv, ByAge
  <2>2. whand \in Nat /\ 1 .. memtable \subseteq 1 .. whand
    <3>1. whand \in Nat
      BY <1>0, Types, FidNat, Zenon
    <3> QED BY <1>a, <2>1, <3>1
  <2>3. \A f \in Fid : whand < f => memtable < f
    BY <1>a, <2>1, <2>2
  <2> QED BY <1>b, <2>1, <2>2, <2>3, Zenon DEF Written
<1>3. CASE UNCHANGED <<data, version, memtable>>
  BY <1>0, <1>3, Zenon DEF Written
<1>4. NewMemtable \/ SendFlush \/ PushImmut \/ FlushRecv \/ FlushBuild \/ FlushLevel0
        \/ FlushPop \/ Compact \/ Quiet => UNCHANGED <<data, version, memtable>>
  BY CompactFrame, Zenon DEF NewMemtable, SendFlush, PushImmut, FlushRecv, FlushBuild,
                             FlushLevel0, FlushPop, Quiet, writeVars
<1> QED BY <1>0, <1>1, <1>2, <1>3, <1>4, NextCases, Zenon

\* What leaves memory is in the levels.
LEMMA NextPlaced ==
  ASSUME IInv, [Next]_vars
  PROVE  Placed'
<1>0. TypeOK /\ Placed
  BY Zenon DEF IInv
<1>a. /\ memtable \in Fid /\ whand \in Fid /\ immut_memtable \in Seq(Fid) /\ next_fid \in Nat
      /\ next_fid \in 1 .. MaxFid + 1 /\ 1 .. next_fid - 1 \subseteq Fid
  BY <1>0, Types, MemTablesAssumption DEF TypeOK, Fid
<1>b. memtable \in InMemory
  BY Zenon DEF InMemory
<1>1. ASSUME InMemory \subseteq InMemory', next_fid' = next_fid PROVE Placed'
  <2> SUFFICES ASSUME NEW f \in 1 .. next_fid - 1 PROVE f \in InMemory' \/ Flushed(f)'
    BY <1>1, Zenon DEF Placed
  <2>1. f \in Fid /\ (f \in InMemory \/ Flushed(f))
    BY <1>0, <1>a, Zenon DEF Placed
  <2> QED BY <1>1, <1>b, <2>1, FlushedStays, Zenon
<1>2. CASE WriteToMemtable \/ FlushRecv \/ FlushBuild \/ FlushLevel0 \/ Compact \/ Quiet
  <2>1. UNCHANGED <<memtable, immut_memtable, wpc, whand, next_fid>>
    BY <1>2, CompactFrame, Zenon
       DEF WriteToMemtable, FlushRecv, FlushBuild, FlushLevel0, Quiet, writeVars
  <2> QED BY <1>1, <2>1, Zenon DEF InMemory, Range
<1>3. CASE NewMemtable
  <2>1. /\ UNCHANGED <<memtable, immut_memtable, data>>
        /\ wpc = "write" /\ wpc' \notin {"send", "push"}
        /\ next_fid' = next_fid + 1 /\ next_fid <= MaxFid
    BY <1>3, Zenon DEF NewMemtable
  <2>2. InMemory' = InMemory
    BY <2>1, Zenon DEF InMemory, Range
  <2>3. data[next_fid] = {}
    <3>1. memtable < next_fid /\ next_fid \in Fid
      BY <1>a, <2>1, MemTablesAssumption DEF IInv, ByAge, Fid
    <3> QED BY <3>1, Zenon DEF IInv, Written
  <2> SUFFICES ASSUME NEW f \in 1 .. next_fid' - 1 PROVE f \in InMemory' \/ Flushed(f)'
    BY Zenon DEF Placed
  <2>4. CASE f = next_fid
    BY <2>1, <2>3, <2>4, Zenon DEF Flushed
  <2>5. CASE f \in 1 .. next_fid - 1
    BY <1>0, <1>a, <1>b, <2>2, <2>5, FlushedStays, Zenon DEF Placed
  <2> QED BY <1>a, <2>1, <2>4, <2>5
<1>4. CASE ReplaceMemtable \/ SendFlush
  <2>1. /\ UNCHANGED <<immut_memtable, next_fid>> /\ wpc \in {"replace", "send"}
        /\ wpc' \in {"send", "push"}
        /\ wpc = "replace" => whand' = memtable
        /\ wpc = "send" => UNCHANGED <<memtable, whand>>
    BY <1>4, Zenon DEF ReplaceMemtable, SendFlush
  <2> QED BY <1>1, <2>1, Zenon DEF InMemory, Range
<1>5. CASE PushImmut
  <2>1. /\ immut_memtable' = Append(immut_memtable, whand) /\ wpc = "push"
        /\ UNCHANGED <<memtable, next_fid>>
    BY <1>5, Zenon DEF PushImmut
  <2>2. Range(immut_memtable) \cup {whand} \subseteq Range(immut_memtable')
    BY <1>a, <2>1, AppendEntries DEF Range
  <2> QED BY <1>1, <2>1, <2>2, Zenon DEF InMemory
<1>6. CASE FlushPop /\ immut_memtable = <<>>
  BY <1>1, <1>6, Zenon DEF FlushPop, InMemory, Range
<1>7. CASE FlushPop /\ immut_memtable # <<>>
  <2>1. /\ UNCHANGED <<memtable, wpc, whand, next_fid>>
        /\ immut_memtable' = Tail(immut_memtable) /\ fpc = "pop"
    BY <1>7, Zenon DEF FlushPop
  <2>2. /\ Sent \in Seq(Fid) /\ Sent # <<>> /\ Head(immut_memtable) = Sent[1]
        /\ Head(immut_memtable) \in Fid
    BY <1>0, <1>7, <1>a, QueueTypes, TailEntries, AppendEntries DEF Sent
  <2>3. Flushed(Sent[1]) /\ Sent[1] # memtable
    <3>1. Len(Unflushed) < Len(Sent) /\ Len(Unflushed) \in Nat /\ Len(Sent) \in Nat
      BY <1>0, <2>1, <2>2, QueueTypes DEF IInv, PopsBehind
    <3>2. 1 \in 1 .. Len(Sent) - Len(Unflushed) /\ 1 \in 1 .. Len(Sent)
      BY <3>1
    <3>3. Flushed(Sent[1]) /\ Sent[1] < memtable
      BY <3>2, Zenon DEF IInv, PopsBehind, ByAge, Below
    <3> QED BY <1>a, <2>2, <3>3, FidNat
  <2>4. InMemory \subseteq InMemory' \cup {Sent[1]}
    <3>1. \A i \in 1 .. Len(immut_memtable) :
            i = 1 \/ (i - 1 \in 1 .. Len(immut_memtable') /\ immut_memtable[i] = immut_memtable'[i - 1])
      BY <1>7, <1>a, <2>1, TailEntries
    <3>2. immut_memtable[1] = Sent[1]
      BY <1>7, <1>a, <2>2, TailEntries, Zenon
    <3>3. Range(immut_memtable) \subseteq Range(immut_memtable') \cup {Sent[1]}
      BY <3>1, <3>2, Zenon DEF Range
    <3> QED BY <2>1, <3>3, Zenon DEF InMemory
  <2> SUFFICES ASSUME NEW f \in 1 .. next_fid - 1 PROVE f \in InMemory' \/ Flushed(f)'
    BY <2>1, Zenon DEF Placed
  <2>5. f \in Fid /\ (f \in InMemory \/ Flushed(f))
    BY <1>0, <1>a, Zenon DEF Placed
  <2>6. f = Sent[1] \/ f \in InMemory' \/ (Flushed(f) /\ f # memtable)
    BY <1>b, <2>4, <2>5, Zenon
  <2> QED BY <2>3, <2>5, <2>6, FlushedStays, Zenon
<1> QED BY <1>0, <1>2, <1>3, <1>4, <1>5, <1>6, <1>7, NextCases, Zenon

\* The memtable the flush task holds is the oldest of those still to be flushed.
LEMMA HandFirst ==
  ASSUME IInv, fpc \in {"build", "level0"}
  PROVE  /\ fhand < memtable
         /\ \A f \in Range(flush_chan) : fhand < f
         /\ wpc = "send" => fhand < whand
<1>1. flush_chan \in Seq(Fid) /\ fhand \in Fid /\ Unflushed = <<fhand>> \o flush_chan
  BY Types, Zenon DEF IInv, Unflushed
<1>2. /\ Len(Unflushed) = Len(flush_chan) + 1 /\ Len(flush_chan) \in Nat
      /\ Unflushed[1] = fhand
      /\ \A i \in 1 .. Len(flush_chan) : Unflushed[i + 1] = flush_chan[i]
  BY <1>1, ConsEntries
<1>3. /\ 1 \in 1 .. Len(Unflushed)
      /\ \A i \in 1 .. Len(flush_chan) : i + 1 \in 1 .. Len(Unflushed) /\ 1 < i + 1
  BY <1>2
<1>4. \A i \in 1 .. Len(flush_chan) : fhand < flush_chan[i]
  BY <1>2, <1>3, Zenon DEF IInv, ByAge, Ascending
<1>5. Below(Unflushed, memtable) /\ (wpc = "send" => Below(Unflushed, whand))
  BY UnflushedBelow, Zenon DEF IInv, ByAge
<1> QED BY <1>2, <1>3, <1>4, <1>5, Zenon DEF Below, Range

\* A compaction leaves the other one alone.
LEMMA OthersStay ==
  ASSUME TypeOK, NEW c \in Target, NEW d \in Target, c # d
  PROVE  /\ (\E top \in SUBSET level0 : \/ c = "base" /\ PlanToBase(top)
                                        \/ c = "level0" /\ PlanToLevel0(top))
              => cpc'[d] = cpc[d] /\ ctop'[d] = ctop[d] /\ cout'[d] = cout[d]
         /\ CompactBuild(c) \/ CompactFails(c) \/ CompactPush(c) \/ CompactReplace(c)
              \/ CompactDelete(c)
              => cpc'[d] = cpc[d] /\ ctop'[d] = ctop[d] /\ cout'[d] = cout[d]
<1>1. DOMAIN cpc = Target /\ DOMAIN ctop = Target /\ DOMAIN cout = Target
  BY Types, Zenon
<1>2. ASSUME NEW top, \/ c = "base" /\ PlanToBase(top)
                      \/ c = "level0" /\ PlanToLevel0(top)
      PROVE  cpc'[d] = cpc[d] /\ ctop'[d] = ctop[d] /\ cout'[d] = cout[d]
  BY <1>1, <1>2, Zenon DEF PlanToBase, PlanToLevel0
<1>3. CASE CompactBuild(c)
  BY <1>1, <1>3, Zenon DEF CompactBuild
<1>4. CASE CompactFails(c) \/ CompactPush(c) \/ CompactReplace(c) \/ CompactDelete(c)
  BY <1>1, <1>4, Zenon DEF CompactFails, CompactPush, CompactReplace, CompactDelete
<1> QED BY <1>2, <1>3, <1>4, Zenon

\* What a compaction does to its own position and plan.
LEMMA OwnSteps ==
  ASSUME TypeOK, NEW c \in Target
  PROVE  /\ \A top : (c = "base" /\ PlanToBase(top)) \/ (c = "level0" /\ PlanToLevel0(top))
              => cpc'[c] = "build" /\ ctop'[c] = top
         /\ CompactBuild(c) => ctop'[c] = ctop[c] /\ cpc'[c] \in {"stuck", "push"}
         /\ CompactFails(c) \/ CompactDelete(c) => ctop'[c] = {} /\ cpc'[c] = "idle"
         /\ CompactPush(c) => ctop'[c] = ctop[c] /\ cpc'[c] = "replace" /\ cout' = cout
         /\ CompactReplace(c) => ctop'[c] = ctop[c] /\ cpc'[c] = "delete" /\ cout' = cout
<1>1. DOMAIN cpc = Target /\ DOMAIN ctop = Target
  BY Types, Zenon
<1>2. \A top : (c = "base" /\ PlanToBase(top)) \/ (c = "level0" /\ PlanToLevel0(top))
        => cpc'[c] = "build" /\ ctop'[c] = top
  BY <1>1, Zenon DEF PlanToBase, PlanToLevel0
<1>3. CompactBuild(c) => ctop'[c] = ctop[c] /\ cpc'[c] \in {"stuck", "push"}
  BY <1>1, Zenon DEF CompactBuild
<1>4. CompactFails(c) \/ CompactDelete(c) => ctop'[c] = {} /\ cpc'[c] = "idle"
  BY <1>1, Zenon DEF CompactFails, CompactDelete
<1>5. CompactPush(c) => ctop'[c] = ctop[c] /\ cpc'[c] = "replace" /\ cout' = cout
  BY <1>1, Zenon DEF CompactPush
<1>6. CompactReplace(c) => ctop'[c] = ctop[c] /\ cpc'[c] = "delete" /\ cout' = cout
  BY <1>1, Zenon DEF CompactReplace
<1> QED BY <1>2, <1>3, <1>4, <1>5, <1>6, Zenon

\* Tables stay older than the memtables no table was built from.
LEMMA NextOlder ==
  ASSUME IInv, [Next]_vars
  PROVE  Older'
<1>0. TypeOK /\ Older
  BY Zenon DEF IInv
<1>a. /\ version \in Nat /\ DOMAIN data = Fid /\ DOMAIN tables = Id
      /\ memtable \in Fid /\ whand \in Fid /\ fhand \in Fid /\ flush_chan \in Seq(Fid)
  BY <1>0, Types, Zenon
<1>b. \A t \in Id : tables[t] \subseteq Version
  BY <1>0, Zenon DEF TypeOK
<1>1. ASSUME UNCHANGED <<tables, version, data>>, Ahead' \subseteq Ahead PROVE Older'
  BY <1>0, <1>1, Zenon DEF Older
<1>2. CASE WriteToMemtable
  <2>1. /\ UNCHANGED <<tables, Ahead>> /\ version' = version + 1
        /\ data' = [data EXCEPT ![memtable] = @ \cup {version + 1}]
    BY <1>2, Zenon DEF WriteToMemtable, Ahead, Range, fileVars, flushVars
  <2> SUFFICES ASSUME NEW t \in Id, NEW v \in tables[t]
               PROVE  v <= version' /\ \A f \in Ahead : \A w \in data'[f] : v < w
    BY <2>1, Zenon DEF Older
  <2>2. v \in Nat /\ v <= version /\ \A f \in Ahead : \A w \in data[f] : v < w
    BY <1>0, <1>b, VersionNat, Zenon DEF Older
  <2>3. v <= version' /\ v < version + 1
    BY <1>a, <2>1, <2>2
  <2>4. \A f \in Fid : \A w \in data'[f] : w \in data[f] \/ w = version + 1
    BY <1>a, <2>1, Zenon
  <2>5. Ahead \subseteq Fid
    BY <1>a DEF Ahead, Range
  <2> QED BY <2>2, <2>3, <2>4, <2>5, Zenon
<1>3. CASE ReplaceMemtable
  <2>1. /\ UNCHANGED <<tables, version, data, flush_chan, fpc, fhand>>
        /\ memtable' = whand /\ whand' = memtable /\ memtable < whand
    BY <1>3, Zenon DEF ReplaceMemtable, IInv, ByAge, fileVars, flushVars
  <2>2. Ahead' \subseteq Ahead \cup {whand}
    BY <2>1, Zenon DEF Ahead, Range
  <2>3. data[whand] = {}
    BY <1>a, <2>1, Zenon DEF IInv, Written
  <2> QED BY <1>0, <2>1, <2>2, <2>3, Zenon DEF Older
<1>4. CASE SendFlush
  <2>1. /\ UNCHANGED <<tables, version, data, memtable, fpc, fhand, whand>>
        /\ wpc = "send" /\ wpc' # "send" /\ flush_chan' = Append(flush_chan, whand)
    BY <1>4, Zenon DEF SendFlush, fileVars, flushVars
  <2>2. Range(flush_chan') \subseteq Range(flush_chan) \cup {whand}
    BY <1>a, <2>1, AppendEntries DEF Range
  <2> QED BY <1>1, <2>1, <2>2, Zenon DEF Ahead
<1>5. CASE FlushRecv
  <2>1. /\ UNCHANGED <<tables, version, data, memtable, wpc, whand>> /\ fpc' = "build"
        /\ flush_chan # <<>> /\ fhand' = Head(flush_chan) /\ flush_chan' = Tail(flush_chan)
    BY <1>5, Zenon DEF FlushRecv, fileVars, writeVars
  <2>2. Range(flush_chan') \cup {fhand'} \subseteq Range(flush_chan)
    BY <1>a, <2>1, TailEntries DEF Range
  <2> QED BY <1>1, <2>1, <2>2, Zenon DEF Ahead
<1>6. CASE FlushBuild
  <2>1. UNCHANGED <<version, data, memtable, wpc, whand, fhand, flush_chan>> /\ fpc = "build"
    BY <1>6, Zenon DEF FlushBuild, writeVars
  <2>2. CASE UNCHANGED <<tables, fpc>>
    BY <1>1, <2>1, <2>2, Zenon DEF Ahead, Range
  <2>3. CASE tables' = [tables EXCEPT ![next_file_id] = data[fhand]] /\ fpc' = "level0"
    <3>1. Ahead' \subseteq Ahead /\ Ahead' \subseteq Fid
      <4>1. Range(flush_chan) \subseteq Fid
        BY <1>a DEF Range
      <4> QED BY <1>a, <2>1, <2>3, <4>1, Zenon DEF Ahead, Range
    <3>2. \A f \in Ahead' : fhand < f
      BY <2>1, <2>3, HandFirst, Zenon DEF Ahead, Range
    <3> SUFFICES ASSUME NEW t \in Id, NEW v \in tables'[t]
                 PROVE  v <= version /\ \A f \in Ahead' : \A w \in data[f] : v < w
      BY <2>1, Zenon DEF Older
    <3>3. v \in tables[t] \/ v \in data[fhand]
      BY <1>a, <2>3, Zenon
    <3>4. CASE v \in tables[t]
      BY <1>0, <3>1, <3>4, Zenon DEF Older
    <3>5. CASE v \in data[fhand]
      <4>1. v \in 1 .. version /\ \A f \in Ahead' : \A w \in data[f] : v < w
        BY <1>a, <3>1, <3>2, <3>5, Zenon DEF IInv, Written
      <4> QED BY <1>a, <4>1
    <3> QED BY <3>3, <3>4, <3>5, Zenon
  <2> QED BY <1>6, <2>2, <2>3, Zenon DEF FlushBuild
<1>7. CASE NewMemtable \/ PushImmut \/ FlushLevel0 \/ FlushPop \/ Quiet
  <2>1. /\ UNCHANGED <<tables, version, data, memtable, flush_chan, fhand>>
        /\ wpc' = "send" => wpc = "send" /\ whand' = whand
        /\ fpc' = "build" => fpc = "build"
    BY <1>7, Zenon DEF NewMemtable, PushImmut, FlushLevel0, FlushPop, Quiet, fileVars, writeVars,
                flushVars
  <2> QED BY <1>1, <2>1, Zenon DEF Ahead, Range
<1>8. CASE Compact
  <2>1. UNCHANGED <<version, data, Ahead>>
    BY <1>8, CompactFrame, Zenon DEF Ahead, Range, writeVars, flushVars
  <2>2. CASE UNCHANGED tables
    BY <1>1, <2>1, <2>2, Zenon
  <2>3. ASSUME NEW c \in Target, CompactBuild(c),
               tables' = [tables EXCEPT ![next_file_id] = Newest(Holding(ctop[c]))]
        PROVE  Older'
    <3>1. ctop[c] \subseteq Id
      BY <1>0, Zenon DEF TypeOK
    <3>2. \A t \in Id : \A v \in tables'[t] : \E u \in Id : v \in tables[u]
      BY <1>a, <2>3, <3>1, Zenon DEF Newest, Holding
    <3> QED BY <1>0, <2>1, <3>2, Zenon DEF Older
  <2> QED BY <1>8, <2>2, <2>3, Zenon
          DEF Compact, PlanToBase, PlanToLevel0, CompactBuild, CompactFails, CompactPush,
              CompactReplace, CompactDelete, fileVars
<1> QED BY <1>0, <1>2, <1>3, <1>4, <1>5, <1>6, <1>7, <1>8, NextCases, Zenon

\* Every table is where its writer has put it, and nowhere else.
LEMMA NextHomes ==
  ASSUME IInv, [Next]_vars
  PROVE  Homes'
<1>0. TypeOK /\ Homes
  BY Zenon DEF IInv
<1>a. /\ DOMAIN tables = Id /\ next_file_id \in Nat /\ next_file_id' \in Nat
      /\ 1 .. next_file_id - 1 \subseteq 1 .. next_file_id' - 1
      /\ \A t \in 1 .. next_file_id - 1 : tables'[t] = tables[t]
  <2>1. /\ DOMAIN tables = Id /\ next_file_id \in Nat /\ next_file_id' \in Nat
        /\ next_file_id <= next_file_id'
    BY <1>0, Types, TablesStay, Zenon
  <2>2. 1 .. next_file_id - 1 \subseteq 1 .. next_file_id' - 1
    BY <2>1, IntervalGrows, Zenon
  <2> QED BY <1>0, <2>1, <2>2, TablesStay, Zenon
<1>b. /\ level0 \cup below \cup manifest \subseteq 1 .. next_file_id - 1
      /\ level0 \cap below = {}
      /\ fpc = "level0" => /\ ftable \in manifest \ (level0 \cup below)
                           /\ tables[ftable] = data[fhand]
  BY <1>0, Zenon DEF Homes
<1>c. fpc = "level0" => tables'[ftable] = data[fhand]
  BY <1>a, <1>b, Zenon
<1>d. fpc = "level0" => data'[fhand] = data[fhand]
  <2>1. SUFFICES ASSUME fpc = "level0" PROVE data'[fhand] = data[fhand]
    BY Zenon
  <2>2. memtable \in Nat /\ fhand \in Nat /\ fhand \in Fid /\ DOMAIN data = Fid
    BY <1>0, Types, FidNat, Zenon
  <2>3. fhand < memtable
    BY <2>1, HandFirst, Zenon
  <2>4. fhand # memtable
    BY <2>2, <2>3
  <2> QED BY <1>0, <2>2, <2>4, CompactFrame, NextCases, Zenon
          DEF WriteToMemtable, NewMemtable, ReplaceMemtable, SendFlush, PushImmut, FlushRecv,
              FlushBuild, FlushLevel0, FlushPop, Quiet, writeVars
<1>1. ASSUME UNCHANGED <<level0, below, manifest, fhand, ftable>>,
             fpc' = "level0" => fpc = "level0"
      PROVE  Homes'
  BY <1>1, <1>a, <1>b, <1>c, <1>d, Zenon DEF Homes
<1>2. CASE FlushBuild
  <2>1. /\ UNCHANGED <<level0, below, data, fhand>> /\ fpc = "build"
        /\ next_file_id' = next_file_id + 1
    BY <1>2, Zenon DEF FlushBuild, levelVars, writeVars
  <2>2. CASE UNCHANGED <<tables, manifest, ftable, fpc>>
    BY <1>1, <2>1, <2>2, Zenon
  <2>3. CASE /\ tables' = [tables EXCEPT ![next_file_id] = data[fhand]]
             /\ manifest' = manifest \cup {next_file_id} /\ ftable' = next_file_id
    <3>1. next_file_id \in 1 .. next_file_id' - 1 /\ next_file_id \notin 1 .. next_file_id - 1
      BY <1>0, <1>a, <2>1 DEF TypeOK
    <3>2. next_file_id \in Id
      BY <1>0, <1>2 DEF FlushBuild, TypeOK, Id
    <3>3. tables'[ftable'] = data'[fhand']
      BY <1>a, <2>1, <2>3, <3>2, Zenon
    <3> QED BY <1>a, <1>b, <2>1, <2>3, <3>1, <3>3, Zenon DEF Homes
  <2> QED BY <1>2, <2>2, <2>3, Zenon DEF FlushBuild
<1>3. CASE FlushLevel0
  BY <1>3, <1>a, <1>b, Zenon DEF FlushLevel0, Homes, fileVars
<1>4. CASE WriteToMemtable \/ NewMemtable \/ ReplaceMemtable \/ SendFlush \/ PushImmut
             \/ FlushRecv \/ FlushPop \/ Quiet
  <2>1. /\ UNCHANGED <<level0, below, manifest, ftable>>
        /\ fpc' = "level0" => fpc = "level0" /\ fhand' = fhand
    BY <1>4, Zenon DEF WriteToMemtable, NewMemtable, ReplaceMemtable, SendFlush, PushImmut,
                FlushRecv, FlushPop, Quiet, levelVars, fileVars, flushVars
  <2> QED BY <2>1, <1>a, <1>b, <1>c, <1>d, Zenon DEF Homes
<1>5. ASSUME Compact PROVE UNCHANGED <<data, fpc, fhand, ftable>>
  BY <1>5, CompactFrame, Zenon DEF writeVars, flushVars
<1>6. ASSUME NEW c \in Target, CompactPush(c) PROVE Homes'
  <2>1. /\ UNCHANGED <<level0, below>> /\ cpc[c] = "push"
        /\ manifest' = (manifest \ ctop[c]) \cup {cout[c]}
    BY <1>6, Zenon DEF CompactPush, levelVars
  <2>2. ctop[c] \subseteq level0 /\ cout[c] \in 1 .. next_file_id - 1
    BY <2>1, Zenon DEF IInv, Plans, Outputs
  <2>3. UNCHANGED <<data, fpc, fhand, ftable>>
    BY <1>5, <1>6, Zenon DEF Compact
  <2> QED BY <1>a, <1>b, <1>c, <2>1, <2>2, <2>3, Zenon DEF Homes
<1>7. ASSUME NEW c \in Target, CompactReplace(c) PROVE Homes'
  <2>1. /\ UNCHANGED manifest /\ cpc[c] = "replace"
        /\ \/ level0' = level0 \cup {cout[c]} /\ below' = below
           \/ level0' = level0 /\ below' = below \cup {cout[c]}
    BY <1>7, Zenon DEF CompactReplace, fileVars, Target
  <2>2. /\ cout[c] \in 1 .. next_file_id - 1 /\ cout[c] \notin level0 \cup below
        /\ fpc = "level0" => cout[c] # ftable
    BY <2>1, Zenon DEF IInv, Outputs
  <2>3. UNCHANGED <<data, fpc, fhand, ftable>>
    BY <1>5, <1>7, Zenon DEF Compact
  <2>4. level0' \cup below' = level0 \cup below \cup {cout[c]}
    BY <2>1, Zenon
  <2>5. level0' \cap below' = {}
    BY <1>b, <2>1, <2>2, Zenon
  <2> QED BY <1>a, <1>b, <1>c, <2>1, <2>2, <2>3, <2>4, <2>5, Zenon DEF Homes
<1>8. ASSUME NEW c \in Target, CompactDelete(c) PROVE Homes'
  <2>1. UNCHANGED <<manifest, below>> /\ level0' \subseteq level0
    BY <1>8, Zenon DEF CompactDelete, fileVars
  <2>2. UNCHANGED <<data, fpc, fhand, ftable>>
    BY <1>5, <1>8, Zenon DEF Compact
  <2> QED BY <1>a, <1>b, <1>c, <2>1, <2>2, Zenon DEF Homes
<1>9. ASSUME Compact,
             \A c \in Target : ~CompactPush(c) /\ ~CompactReplace(c) /\ ~CompactDelete(c)
      PROVE  Homes'
  <2>1. UNCHANGED <<level0, below, manifest>>
    BY <1>9, Zenon DEF Compact, PlanToBase, PlanToLevel0, CompactBuild, CompactFails, fileVars,
                levelVars
  <2> QED BY <1>1, <1>5, <1>9, <2>1, Zenon
<1> QED BY <1>0, <1>2, <1>3, <1>4, <1>6, <1>7, <1>8, <1>9, NextCases, Zenon

\* Plans take what no other plan has, and give it up with their tables.
LEMMA NextPlans ==
  ASSUME IInv, [Next]_vars
  PROVE  Plans'
<1>0. TypeOK /\ Plans /\ registered \in BOOLEAN
  BY Zenon DEF IInv, TypeOK
<1>a. /\ \A c \in Target : ctop[c] \subseteq level0 \cap busy
      /\ ctop["base"] \cap ctop["level0"] = {}
      /\ ~registered => ctop["level0"] = {} /\ cpc["level0"] = "idle"
  BY <1>0, Zenon DEF Plans
<1>b. /\ "base" \in Target /\ "level0" \in Target
      /\ \A c \in Target : c = "base" \/ c = "level0"
  BY Zenon DEF Target
<1>1. CASE UNCHANGED compactVars /\ level0 \subseteq level0'
  BY <1>1, <1>a, Zenon DEF Plans, compactVars
<1>2. WriteToMemtable \/ NewMemtable \/ ReplaceMemtable \/ SendFlush \/ PushImmut
        \/ FlushRecv \/ FlushBuild \/ FlushLevel0 \/ FlushPop \/ Quiet
        => UNCHANGED compactVars /\ level0 \subseteq level0'
  BY Zenon DEF WriteToMemtable, NewMemtable, ReplaceMemtable, SendFlush, PushImmut, FlushRecv,
               FlushBuild, FlushLevel0, FlushPop, Quiet, levelVars
<1>3. ASSUME NEW top \in SUBSET level0, PlanToBase(top) PROVE Plans'
  <2>1. /\ ~registered /\ registered' = TRUE /\ busy' = busy \cup top /\ level0' = level0
    BY <1>3, Zenon DEF PlanToBase, levelVars
  <2>2. ctop'["base"] = top /\ ctop'["level0"] = ctop["level0"]
    BY <1>0, <1>3, <1>b, OthersStay, OwnSteps, Zenon
  <2>3. ctop["level0"] = {}
    BY <1>a, <2>1, Zenon
  <2>4. \A c \in Target : ctop'[c] \subseteq level0' \cap busy'
    BY <1>b, <2>1, <2>2, <2>3, Zenon
  <2> QED BY <2>1, <2>2, <2>3, <2>4, Zenon DEF Plans
<1>4. ASSUME NEW top \in SUBSET level0, PlanToLevel0(top) PROVE Plans'
  <2>1. /\ top \cap busy = {} /\ registered' = TRUE /\ busy' = busy \cup top
        /\ level0' = level0
    BY <1>4, Zenon DEF PlanToLevel0, levelVars
  <2>2. ctop'["level0"] = top /\ ctop'["base"] = ctop["base"]
    BY <1>0, <1>4, <1>b, OthersStay, OwnSteps, Zenon
  <2>3. ctop["base"] \subseteq level0 \cap busy
    BY <1>a, <1>b, Zenon
  <2>4. \A c \in Target : ctop'[c] \subseteq level0' \cap busy'
    BY <1>b, <2>1, <2>2, <2>3, Zenon
  <2> QED BY <2>1, <2>2, <2>3, <2>4, Zenon DEF Plans
<1>5. ASSUME NEW c \in Target, \/ CompactBuild(c) \/ CompactFails(c) \/ CompactPush(c)
                               \/ CompactReplace(c) \/ CompactDelete(c)
      PROVE  Plans'
  <2>1. /\ UNCHANGED <<registered, busy>> /\ cpc[c] # "idle"
        /\ level0 \ ctop[c] \subseteq level0'
        /\ level0 \subseteq level0' \/ CompactDelete(c)
    BY <1>5, Zenon DEF CompactBuild, CompactFails, CompactPush, CompactReplace, CompactDelete,
                levelVars
  <2>2. /\ ctop'[c] = {} \/ (ctop'[c] = ctop[c] /\ level0 \subseteq level0')
        /\ \A d \in Target : d # c => ctop'[d] = ctop[d] /\ cpc'[d] = cpc[d]
    <3>1. ctop'[c] = {} \/ (ctop'[c] = ctop[c] /\ ~CompactDelete(c))
      BY <1>0, <1>5, OwnSteps, Zenon
    <3>2. \A d \in Target : d # c => ctop'[d] = ctop[d] /\ cpc'[d] = cpc[d]
      BY <1>0, <1>5, OthersStay, Zenon
    <3> QED BY <2>1, <3>1, <3>2, Zenon
  <2>3. \A d \in Target : d # c => ctop[d] \cap ctop[c] = {}
    BY <1>a, <1>b, Zenon
  <2>4. \A d \in Target : ctop'[d] \subseteq ctop[d]
    BY <2>2, Zenon
  <2>5. \A d \in Target : ctop'[d] \subseteq level0' \cap busy'
    BY <1>a, <2>1, <2>2, <2>3, Zenon
  <2>6. ctop'["base"] \cap ctop'["level0"] = {}
    BY <1>a, <1>b, <2>4, Zenon
  <2>7. ~registered => c # "level0"
    BY <1>a, <2>1, Zenon
  <2>8. ~registered' => ctop'["level0"] = {} /\ cpc'["level0"] = "idle"
    BY <1>a, <1>b, <2>1, <2>2, <2>7, Zenon
  <2> QED BY <2>5, <2>6, <2>8, Zenon DEF Plans
<1> QED BY <1>0, <1>1, <1>2, <1>3, <1>4, <1>5, NextCases, Zenon DEF Compact

\* What a compaction has built holds what can be read of its plan, and is in one
\* place at most.
LEMMA NextOutputs ==
  ASSUME IInv, [Next]_vars
  PROVE  Outputs'
<1>0. TypeOK /\ Outputs /\ Plans /\ Homes
  BY Zenon DEF IInv
<1>a. /\ \A c \in Target : cpc[c] \in {"push", "replace", "delete"} =>
           /\ cout[c] \in 1 .. next_file_id - 1
           /\ \A v \in Holding(ctop[c]) : discard_ts <= v => v \in tables[cout[c]]
      /\ \A c \in Target : cpc[c] \in {"push", "replace"} =>
           cout[c] \notin level0 \cup below /\ (fpc = "level0" => cout[c] # ftable)
      /\ {cpc["base"], cpc["level0"]} \subseteq {"push", "replace"}
           => cout["base"] # cout["level0"]
      /\ cpc["base"] = "delete" => cout["base"] \in below
      /\ cpc["level0"] = "delete"
           => cout["level0"] \in level0 \ (ctop["base"] \cup ctop["level0"])
  BY <1>0, Zenon DEF Outputs
<1>b. /\ "base" \in Target /\ "level0" \in Target /\ "base" # "level0"
      /\ \A c \in Target : c = "base" \/ c = "level0"
  BY Zenon DEF Target
<1>c. /\ next_file_id \in Nat /\ next_file_id' \in Nat
      /\ 1 .. next_file_id - 1 \subseteq 1 .. next_file_id' - 1
      /\ \A t \in 1 .. next_file_id - 1 : tables'[t] = tables[t]
  <2>1. next_file_id \in Nat /\ next_file_id' \in Nat /\ next_file_id <= next_file_id'
    BY <1>0, TablesStay, Zenon
  <2>2. 1 .. next_file_id - 1 \subseteq 1 .. next_file_id' - 1
    BY <2>1, IntervalGrows, Zenon
  <2> QED BY <1>0, <2>1, <2>2, TablesStay, Zenon
<1>d. /\ level0 \cup below \cup manifest \subseteq 1 .. next_file_id - 1
      /\ level0 \cap below = {}
      /\ fpc = "level0" => ftable \in manifest
      /\ \A c \in Target : ctop[c] \subseteq level0
      /\ \A c \in Target : ctop[c] \subseteq 1 .. next_file_id - 1
  BY <1>0, Zenon DEF Homes, Plans
\* The first clause is kept wherever plan and table are.
<1>e. ASSUME NEW c \in Target, cpc[c] \in {"push", "replace", "delete"},
             ctop'[c] \subseteq ctop[c], cout'[c] = cout[c]
      PROVE  /\ cout'[c] \in 1 .. next_file_id' - 1
             /\ \A v \in Holding(ctop[c])' : discard_ts' <= v => v \in tables'[cout'[c]]
  <2>1. cout[c] \in 1 .. next_file_id - 1
    BY <1>a, <1>e, Zenon
  <2>2. tables'[cout'[c]] = tables[cout[c]]
    BY <1>c, <1>e, <2>1
  <2>3. ASSUME NEW v \in Holding(ctop[c])', discard_ts' <= v PROVE v \in tables[cout[c]]
    <3>1. v \in Holding(ctop[c])
      BY <1>c, <1>d, <1>e, <2>3, Zenon DEF Holding
    <3>2. v \in Nat
      BY <1>0, <3>1, HoldingType, VersionNat, Zenon DEF TypeOK
    <3>3. discard_ts <= v
      BY <2>3, <3>2, LevelsKeep
    <3> QED BY <1>a, <1>e, <3>1, <3>3, Zenon
  <2> QED BY <1>c, <1>e, <2>1, <2>2, <2>3, Zenon
<1>1. ASSUME UNCHANGED compactVars, below' = below, level0 \subseteq level0',
             \A t \in level0' : t \in level0 \/ (fpc = "level0" /\ t = ftable),
             \/ fpc' = "level0" => fpc = "level0" /\ ftable' = ftable
             \/ ftable' = next_file_id
      PROVE  Outputs'
  <2>1. cpc' = cpc /\ ctop' = ctop /\ cout' = cout
    BY <1>1, Zenon DEF compactVars
  <2>2. ASSUME NEW c \in Target, cpc'[c] \in {"push", "replace"}
        PROVE  cout'[c] \notin level0' \cup below' /\ (fpc' = "level0" => cout'[c] # ftable')
    <3>1. cout[c] \in 1 .. next_file_id - 1
      BY <1>a, <2>1, <2>2, Zenon
    <3>2. cout[c] # next_file_id
      BY <1>c, <3>1
    <3> QED BY <1>1, <1>a, <2>1, <2>2, <3>2, Zenon
  <2>3. \A c \in Target : cpc'[c] \in {"push", "replace", "delete"} =>
          /\ cout'[c] \in 1 .. next_file_id' - 1
          /\ \A v \in Holding(ctop[c])' : discard_ts' <= v => v \in tables'[cout'[c]]
    BY <1>e, <2>1, Zenon
  <2> QED BY <1>1, <1>a, <2>1, <2>2, <2>3, Zenon DEF Outputs
<1>2. WriteToMemtable \/ NewMemtable \/ ReplaceMemtable \/ SendFlush \/ PushImmut
        \/ FlushRecv \/ FlushBuild \/ FlushLevel0 \/ FlushPop \/ Quiet
        => /\ UNCHANGED compactVars /\ below' = below /\ level0 \subseteq level0'
           /\ \A t \in level0' : t \in level0 \/ (fpc = "level0" /\ t = ftable)
           /\ \/ fpc' = "level0" => fpc = "level0" /\ ftable' = ftable
              \/ ftable' = next_file_id
  BY Zenon DEF WriteToMemtable, NewMemtable, ReplaceMemtable, SendFlush, PushImmut, FlushRecv,
               FlushBuild, FlushLevel0, FlushPop, Quiet, levelVars, flushVars
<1>3. ASSUME Compact PROVE UNCHANGED <<fpc, ftable>>
  BY <1>3, CompactFrame, Zenon DEF flushVars
\* A compaction that plans, fails or ends gives up what it held.
<1>4. ASSUME NEW c \in Target, Compact, cpc'[c] \notin {"push", "replace", "delete"},
             \A d \in Target : d # c => /\ cpc'[d] = cpc[d] /\ ctop'[d] = ctop[d]
                                        /\ cout'[d] = cout[d],
             below' = below, level0' \subseteq level0,
             c = "base" /\ cpc["level0"] = "delete" =>
               /\ ctop'["base"] \subseteq ctop["base"]
               /\ \A t \in level0 : t \notin ctop["base"] => t \in level0'
      PROVE  Outputs'
  <2>1. UNCHANGED <<fpc, ftable>>
    BY <1>3, <1>4, Zenon
  <2>2. \A d \in Target : cpc'[d] \in {"push", "replace", "delete"} =>
          /\ cout'[d] \in 1 .. next_file_id' - 1
          /\ \A v \in Holding(ctop[d])' : discard_ts' <= v => v \in tables'[cout'[d]]
    BY <1>4, <1>e, Zenon
  <2>3. \A d \in Target : cpc'[d] \in {"push", "replace"} =>
          cout'[d] \notin level0' \cup below' /\ (fpc' = "level0" => cout'[d] # ftable')
    BY <1>4, <1>a, <2>1, Zenon
  <2>4. ~({cpc'["base"], cpc'["level0"]} \subseteq {"push", "replace"})
    BY <1>4, <1>b, Zenon
  <2>5. cpc'["base"] = "delete" => cout'["base"] \in below'
    BY <1>4, <1>a, <1>b, Zenon
  <2>6. ASSUME cpc'["level0"] = "delete"
        PROVE  cout'["level0"] \in level0' \ (ctop'["base"] \cup ctop'["level0"])
    <3>1. /\ c = "base" /\ cpc["level0"] = "delete"
          /\ ctop'["level0"] = ctop["level0"] /\ cout'["level0"] = cout["level0"]
      BY <1>4, <1>b, <2>6, Zenon
    <3>2. cout["level0"] \in level0 \ (ctop["base"] \cup ctop["level0"])
      BY <1>a, <3>1, Zenon
    <3> QED BY <1>4, <3>1, <3>2, Zenon
  <2> QED BY <2>2, <2>3, <2>4, <2>5, <2>6, Zenon DEF Outputs
<1>5. ASSUME NEW top \in SUBSET level0, PlanToBase(top) PROVE Outputs'
  <2>1. cpc'["base"] = "build" /\ UNCHANGED <<level0, below>> /\ ~registered
    BY <1>0, <1>5, <1>b, OwnSteps, Zenon DEF PlanToBase, levelVars
  <2>2. cpc["level0"] = "idle"
    BY <1>0, <2>1, Zenon DEF Plans
  <2>3. \A d \in Target : d # "base" => /\ cpc'[d] = cpc[d] /\ ctop'[d] = ctop[d]
                                        /\ cout'[d] = cout[d]
    BY <1>0, <1>5, <1>b, OthersStay, Zenon
  <2>4. Compact
    BY <1>5, Zenon DEF Compact
  <2> QED BY <1>4, <1>b, <2>1, <2>2, <2>3, <2>4, Zenon
<1>6. ASSUME NEW top \in SUBSET level0, PlanToLevel0(top) PROVE Outputs'
  <2>1. cpc'["level0"] = "build" /\ UNCHANGED <<level0, below>>
    BY <1>0, <1>6, <1>b, OwnSteps, Zenon DEF PlanToLevel0, levelVars
  <2>2. \A d \in Target : d # "level0" => /\ cpc'[d] = cpc[d] /\ ctop'[d] = ctop[d]
                                          /\ cout'[d] = cout[d]
    BY <1>0, <1>6, <1>b, OthersStay, Zenon
  <2>3. Compact
    BY <1>6, Zenon DEF Compact
  <2> QED BY <1>4, <1>b, <2>1, <2>2, <2>3, Zenon
<1>7. ASSUME NEW c \in Target, CompactFails(c) \/ CompactDelete(c) PROVE Outputs'
  <2>1. cpc'[c] = "idle" /\ ctop'[c] = {}
    BY <1>0, <1>7, OwnSteps, Zenon
  <2>2. below' = below /\ level0' \subseteq level0 /\ level0 \ ctop[c] \subseteq level0'
    BY <1>7, Zenon DEF CompactFails, CompactDelete, levelVars
  <2>3. \A d \in Target : d # c => /\ cpc'[d] = cpc[d] /\ ctop'[d] = ctop[d]
                                   /\ cout'[d] = cout[d]
    BY <1>0, <1>7, OthersStay, Zenon
  <2>4. Compact
    BY <1>7, Zenon DEF Compact
  <2> QED BY <1>4, <2>1, <2>2, <2>3, <2>4, Zenon
<1>8. ASSUME NEW c \in Target, CompactBuild(c) PROVE Outputs'
  <2>1. /\ UNCHANGED <<level0, below, ctop, discard_ts>> /\ Compact
        /\ \A d \in Target : d # c => /\ cpc'[d] = cpc[d] /\ ctop'[d] = ctop[d]
                                      /\ cout'[d] = cout[d]
    BY <1>0, <1>8, OthersStay, Zenon DEF Compact, CompactBuild, levelVars, readVars
  <2>2. cpc'[c] \in {"stuck", "push"} /\ UNCHANGED <<fpc, ftable>>
    BY <1>0, <1>3, <1>8, <2>1, OwnSteps, Zenon
  <2>3. CASE cpc'[c] = "stuck"
    BY <1>4, <2>1, <2>3, Zenon
  <2>4. CASE /\ \A v \in Holding(ctop[c]) : ~(v > discard_ts)
             /\ next_file_id <= MaxId
             /\ next_file_id' = next_file_id + 1
             /\ tables' = [tables EXCEPT ![next_file_id] = Newest(Holding(ctop[c]))]
             /\ cout' = [cout EXCEPT ![c] = next_file_id]
             /\ cpc' = [cpc EXCEPT ![c] = "push"]
    <3>1. /\ next_file_id \in Id /\ next_file_id \in 1 .. next_file_id' - 1
          /\ next_file_id \notin 1 .. next_file_id - 1
      BY <1>0, <1>c, <2>4 DEF TypeOK, Id
    <3>2. /\ cout'[c] = next_file_id /\ cpc'[c] = "push"
          /\ tables'[next_file_id] = Newest(Holding(ctop[c]))
      BY <1>0, <2>4, <3>1, Types, Zenon
    <3>3. Holding(ctop[c])' = Holding(ctop[c])
      <4>1. \A t \in ctop[c] : tables'[t] = tables[t]
        BY <1>c, <1>d, Zenon
      <4> QED BY <2>1, <4>1, Zenon DEF Holding
    <3>4. ASSUME NEW v \in Holding(ctop[c]), discard_ts <= v PROVE v \in Newest(Holding(ctop[c]))
      <4>1. Holding(ctop[c]) \subseteq Nat
        BY <1>0, HoldingType, VersionNat, Zenon DEF TypeOK
      <4>2. discard_ts \in Nat
        BY <1>0, Types, Zenon
      <4>3. \A w \in Holding(ctop[c]) : w <= v
        BY <2>4, <3>4, <4>1, <4>2
      <4> QED BY <4>3, Zenon DEF Newest
    <3>5. \A d \in Target : cpc'[d] \in {"push", "replace", "delete"} =>
            /\ cout'[d] \in 1 .. next_file_id' - 1
            /\ \A v \in Holding(ctop[d])' : discard_ts' <= v => v \in tables'[cout'[d]]
      <4> TAKE d \in Target
      <4>1. CASE d = c
        BY <2>1, <3>1, <3>2, <3>3, <3>4, <4>1, Zenon
      <4>2. CASE d # c
        BY <1>e, <2>1, <4>2, Zenon
      <4> QED BY <4>1, <4>2, Zenon
    <3>6. \A d \in Target : cpc'[d] \in {"push", "replace"} =>
            cout'[d] \notin level0' \cup below' /\ (fpc' = "level0" => cout'[d] # ftable')
      <4> TAKE d \in Target
      <4>1. CASE d = c
        BY <1>d, <2>1, <2>2, <3>1, <3>2, <4>1, Zenon
      <4>2. CASE d # c
        BY <1>a, <2>1, <2>2, <4>2, Zenon
      <4> QED BY <4>1, <4>2, Zenon
    <3>7. \A d \in Target : d # c /\ cpc'[d] \in {"push", "replace"} => cout'[d] # cout'[c]
      BY <1>a, <2>1, <3>1, <3>2, Zenon
    <3>8. {cpc'["base"], cpc'["level0"]} \subseteq {"push", "replace"}
            => cout'["base"] # cout'["level0"]
      BY <1>b, <3>7, Zenon
    <3>9. cpc'["base"] = "delete" => cout'["base"] \in below'
      BY <1>a, <1>b, <2>1, <3>2, Zenon
    <3>10. cpc'["level0"] = "delete"
             => cout'["level0"] \in level0' \ (ctop'["base"] \cup ctop'["level0"])
      BY <1>a, <1>b, <2>1, <3>2, Zenon
    <3> QED BY <3>5, <3>6, <3>8, <3>9, <3>10, Zenon DEF Outputs
  <2>5. CASE cpc' = [cpc EXCEPT ![c] = "stuck"]
    BY <1>0, <2>3, <2>5, Types, Zenon
  <2> QED BY <1>8, <2>4, <2>5, Zenon DEF CompactBuild
<1>9. ASSUME NEW c \in Target, CompactPush(c) \/ CompactReplace(c) PROVE Outputs'
  <2>1. /\ UNCHANGED cout /\ ctop'[c] = ctop[c] /\ Compact
        /\ cpc[c] \in {"push", "replace"}
        /\ \A d \in Target : d # c => cpc'[d] = cpc[d] /\ ctop'[d] = ctop[d]
    BY <1>0, <1>9, OthersStay, OwnSteps, Zenon DEF Compact, CompactPush, CompactReplace
  <2>2. UNCHANGED <<fpc, ftable>> /\ \A d \in Target : ctop'[d] = ctop[d]
    BY <1>3, <2>1, Zenon
  <2>3. \A d \in Target : cpc'[d] \in {"push", "replace", "delete"} =>
          /\ cout'[d] \in 1 .. next_file_id' - 1
          /\ \A v \in Holding(ctop[d])' : discard_ts' <= v => v \in tables'[cout'[d]]
    <3>1. \A d \in Target : cpc'[d] \in {"push", "replace", "delete"}
            => cpc[d] \in {"push", "replace", "delete"}
      BY <2>1, Zenon
    <3> QED BY <1>e, <2>1, <2>2, <3>1, Zenon
  <2>4. CASE CompactPush(c)
    <3>1. UNCHANGED <<level0, below>> /\ cpc'[c] = "replace"
      BY <1>0, <2>4, OwnSteps, Zenon DEF CompactPush, levelVars
    <3>2. \A d \in Target : /\ cpc'[d] \in {"push", "replace"} => cpc[d] \in {"push", "replace"}
                            /\ cpc'[d] = "delete" => cpc[d] = "delete"
      BY <2>1, <3>1, Zenon
    <3>3. {cpc'["base"], cpc'["level0"]} \subseteq {"push", "replace"}
            => cout["base"] # cout["level0"]
      BY <1>a, <1>b, <3>2, Zenon
    <3> QED BY <1>a, <1>b, <2>1, <2>2, <2>3, <3>1, <3>2, <3>3, Zenon DEF Outputs
  <2>5. CASE CompactReplace(c)
    <3>1. /\ cpc[c] = "replace" /\ cpc'[c] = "delete"
          /\ level0' = IF c = "level0" THEN level0 \cup {cout[c]} ELSE level0
          /\ below' = IF c = "base" THEN below \cup {cout[c]} ELSE below
      BY <1>0, <2>5, OwnSteps, Zenon DEF CompactReplace
    <3>2. \A d \in Target : d # c /\ cpc[d] \in {"push", "replace"} => cout[d] # cout[c]
      BY <1>a, <1>b, <3>1, Zenon
    <3>3. \A d \in Target : cpc'[d] \in {"push", "replace"} =>
            cout'[d] \notin level0' \cup below' /\ (fpc' = "level0" => cout'[d] # ftable')
      BY <1>a, <2>1, <2>2, <3>1, <3>2, Zenon
    <3>4. ~({cpc'["base"], cpc'["level0"]} \subseteq {"push", "replace"})
      BY <1>b, <3>1, Zenon
    <3>5. cpc'["base"] = "delete" => cout'["base"] \in below'
      BY <1>a, <1>b, <2>1, <3>1, Zenon
    <3>6. ASSUME cpc'["level0"] = "delete"
          PROVE  cout["level0"] \in level0' \ (ctop["base"] \cup ctop["level0"])
      <4>1. CASE c = "level0"
        BY <1>a, <1>b, <1>d, <3>1, <4>1, Zenon
      <4>2. CASE c = "base"
        BY <1>a, <1>b, <2>1, <3>1, <3>6, <4>2, Zenon
      <4> QED BY <1>b, <4>1, <4>2, Zenon
    <3> QED BY <1>b, <2>1, <2>2, <2>3, <3>3, <3>4, <3>5, <3>6, Zenon DEF Outputs
  <2> QED BY <1>9, <2>4, <2>5, Zenon
<1> QED
  BY <1>0, <1>1, <1>2, <1>5, <1>6, <1>7, <1>8, <1>9, NextCases, Zenon DEF Compact

\* A table is taken off the manifest only for the one it was merged into.
LEMMA NextRecorded ==
  ASSUME IInv, [Next]_vars
  PROVE  Recorded'
<1>0. TypeOK /\ Recorded /\ Plans /\ Homes
  BY Zenon DEF IInv
<1>a. /\ \A t \in level0 \cup below :
           t \in manifest \/ \E c \in Target : t \in ctop[c] /\ cpc[c] \in {"replace", "delete"}
      /\ \A c \in Target : cpc[c] \in {"replace", "delete"} => cout[c] \in manifest
  BY <1>0, Zenon DEF Recorded
<1>b. /\ "base" \in Target /\ "level0" \in Target
      /\ \A c \in Target : c = "base" \/ c = "level0"
  BY Zenon DEF Target
<1>c. (\A c \in Target : ctop[c] \subseteq level0) /\ level0 \cap below = {}
  BY <1>0, Zenon DEF Plans, Homes
<1>1. ASSUME UNCHANGED compactVars, manifest \subseteq manifest',
             \A t \in level0' \cup below' : t \in level0 \cup below \/ t \in manifest
      PROVE  Recorded'
  <2>1. cpc' = cpc /\ ctop' = ctop /\ cout' = cout
    BY <1>1, Zenon DEF compactVars
  <2> QED BY <1>1, <1>a, <2>1, Zenon DEF Recorded
<1>2. ASSUME WriteToMemtable \/ NewMemtable \/ ReplaceMemtable \/ SendFlush \/ PushImmut
               \/ FlushRecv \/ FlushBuild \/ FlushPop \/ Quiet
      PROVE  Recorded'
  <2>1. /\ UNCHANGED compactVars /\ UNCHANGED <<level0, below>> /\ manifest \subseteq manifest'
    BY <1>2, Zenon DEF WriteToMemtable, NewMemtable, ReplaceMemtable, SendFlush, PushImmut,
                FlushRecv, FlushBuild, FlushPop, Quiet, levelVars, fileVars
  <2> QED BY <1>1, <2>1, Zenon
<1>3. CASE FlushLevel0
  <2>1. /\ UNCHANGED compactVars /\ UNCHANGED <<below, manifest>>
        /\ fpc = "level0" /\ level0' = level0 \cup {ftable}
    BY <1>3, Zenon DEF FlushLevel0, fileVars
  <2>2. ftable \in manifest
    BY <1>0, <2>1, Zenon DEF Homes
  <2> QED BY <1>1, <2>1, <2>2, Zenon
\* Steps of a compaction before it records anything, and its last one.
<1>4. ASSUME NEW c \in Target, cpc'[c] \notin {"replace", "delete"}, manifest' = manifest,
             \A d \in Target : d # c => /\ cpc'[d] = cpc[d] /\ ctop'[d] = ctop[d]
                                        /\ cout'[d] = cout[d],
             level0' \cup below' \subseteq level0 \cup below,
             cpc[c] \in {"replace", "delete"} => (level0' \cup below') \cap ctop[c] = {}
      PROVE  Recorded'
  <2>1. ASSUME NEW t \in level0' \cup below', t \notin manifest'
        PROVE  \E d \in Target : t \in ctop'[d] /\ cpc'[d] \in {"replace", "delete"}
    <3>1. PICK d \in Target : t \in ctop[d] /\ cpc[d] \in {"replace", "delete"}
      BY <1>4, <1>a, <2>1, Zenon
    <3>2. d # c
      BY <1>4, <2>1, <3>1, Zenon
    <3> QED BY <1>4, <3>1, <3>2, Zenon
  <2>2. \A d \in Target : cpc'[d] \in {"replace", "delete"} => cout'[d] \in manifest'
    BY <1>4, <1>a, Zenon
  <2> QED BY <2>1, <2>2, Zenon DEF Recorded
<1>5. ASSUME NEW top \in SUBSET level0, PlanToBase(top) PROVE Recorded'
  <2>1. /\ cpc["base"] = "idle" /\ cpc'["base"] = "build"
        /\ UNCHANGED <<level0, below, manifest>>
    BY <1>0, <1>5, <1>b, OwnSteps, Zenon DEF PlanToBase, levelVars, fileVars
  <2>2. \A d \in Target : d # "base" => /\ cpc'[d] = cpc[d] /\ ctop'[d] = ctop[d]
                                        /\ cout'[d] = cout[d]
    BY <1>0, <1>5, <1>b, OthersStay, Zenon
  <2> QED BY <1>4, <1>b, <2>1, <2>2, Zenon
<1>6. ASSUME NEW top \in SUBSET level0, PlanToLevel0(top) PROVE Recorded'
  <2>1. /\ cpc["level0"] = "idle" /\ cpc'["level0"] = "build"
        /\ UNCHANGED <<level0, below, manifest>>
    BY <1>0, <1>6, <1>b, OwnSteps, Zenon DEF PlanToLevel0, levelVars, fileVars
  <2>2. \A d \in Target : d # "level0" => /\ cpc'[d] = cpc[d] /\ ctop'[d] = ctop[d]
                                          /\ cout'[d] = cout[d]
    BY <1>0, <1>6, <1>b, OthersStay, Zenon
  <2> QED BY <1>4, <1>b, <2>1, <2>2, Zenon
<1>7. ASSUME NEW c \in Target, CompactBuild(c) \/ CompactFails(c) PROVE Recorded'
  <2>1. cpc[c] \notin {"replace", "delete"} /\ UNCHANGED <<level0, below, manifest>>
    BY <1>7, Zenon DEF CompactBuild, CompactFails, levelVars, fileVars
  <2>2. cpc'[c] \notin {"replace", "delete"}
    BY <1>0, <1>7, OwnSteps, Zenon
  <2>3. \A d \in Target : d # c => /\ cpc'[d] = cpc[d] /\ ctop'[d] = ctop[d]
                                   /\ cout'[d] = cout[d]
    BY <1>0, <1>7, OthersStay, Zenon
  <2> QED BY <1>4, <2>1, <2>2, <2>3, Zenon
<1>8. ASSUME NEW c \in Target, CompactDelete(c) PROVE Recorded'
  <2>1. UNCHANGED <<below, manifest>> /\ level0' = level0 \ ctop[c]
    BY <1>8, Zenon DEF CompactDelete, fileVars
  <2>2. cpc'[c] \notin {"replace", "delete"}
    BY <1>0, <1>8, OwnSteps, Zenon
  <2>3. \A d \in Target : d # c => /\ cpc'[d] = cpc[d] /\ ctop'[d] = ctop[d]
                                   /\ cout'[d] = cout[d]
    BY <1>0, <1>8, OthersStay, Zenon
  <2>4. (level0' \cup below') \cap ctop[c] = {}
    BY <1>c, <2>1, Zenon
  <2> QED BY <1>4, <2>1, <2>2, <2>3, <2>4, Zenon
<1>9. ASSUME NEW c \in Target, CompactPush(c) PROVE Recorded'
  <2>1. /\ UNCHANGED <<level0, below, cout>> /\ cpc[c] = "push" /\ cpc'[c] = "replace"
        /\ manifest' = (manifest \ ctop[c]) \cup {cout[c]} /\ ctop'[c] = ctop[c]
    BY <1>0, <1>9, OwnSteps, Zenon DEF CompactPush, levelVars
  <2>2. \A d \in Target : d # c => cpc'[d] = cpc[d] /\ ctop'[d] = ctop[d]
    BY <1>0, <1>9, OthersStay, Zenon
  <2>3. ASSUME NEW d \in Target, d # c, cpc[d] \in {"replace", "delete"}
        PROVE  cout[d] \notin ctop[c]
    <3>1. CASE cpc[d] = "replace"
      BY <1>c, <3>1, Zenon DEF IInv, Outputs
    <3>2. CASE cpc[d] = "delete" /\ d = "base"
      <4>1. cout[d] \in below
        BY <3>2, Zenon DEF IInv, Outputs
      <4> QED BY <1>c, <4>1, Zenon
    <3>3. CASE cpc[d] = "delete" /\ d = "level0"
      <4>1. c = "base"
        BY <1>b, <2>3, <3>3, Zenon
      <4> QED BY <3>3, <4>1, Zenon DEF IInv, Outputs
    <3> QED BY <1>b, <2>3, <3>1, <3>2, <3>3, Zenon
  <2>4. \A d \in Target : cpc'[d] \in {"replace", "delete"} => cout'[d] \in manifest'
    BY <1>a, <2>1, <2>2, <2>3, Zenon
  <2>5. ASSUME NEW t \in level0 \cup below, t \notin manifest'
        PROVE  \E d \in Target : t \in ctop'[d] /\ cpc'[d] \in {"replace", "delete"}
    <3>1. CASE t \in manifest
      BY <2>1, <2>5, <3>1, Zenon
    <3>2. CASE t \notin manifest
      <4>1. PICK d \in Target : t \in ctop[d] /\ cpc[d] \in {"replace", "delete"}
        BY <1>a, <2>5, <3>2, Zenon
      <4>2. d # c
        BY <2>1, <4>1, Zenon
      <4> QED BY <2>2, <4>1, <4>2, Zenon
    <3> QED BY <3>1, <3>2, Zenon
  <2> QED BY <2>1, <2>4, <2>5, Zenon DEF Recorded
<1>10. ASSUME NEW c \in Target, CompactReplace(c) PROVE Recorded'
  <2>1. /\ UNCHANGED <<manifest, cout>> /\ cpc[c] = "replace" /\ cpc'[c] = "delete"
        /\ ctop'[c] = ctop[c]
        /\ level0' \cup below' \subseteq level0 \cup below \cup {cout[c]}
    BY <1>0, <1>10, OwnSteps, Zenon DEF CompactReplace, fileVars
  <2>2. \A d \in Target : d # c => cpc'[d] = cpc[d] /\ ctop'[d] = ctop[d]
    BY <1>0, <1>10, OthersStay, Zenon
  <2>3. \A d \in Target : ctop'[d] = ctop[d]
    BY <2>1, <2>2, Zenon
  <2>4. \A d \in Target : cpc'[d] \in {"replace", "delete"} <=> cpc[d] \in {"replace", "delete"}
    BY <2>1, <2>2, Zenon
  <2> QED BY <1>a, <2>1, <2>3, <2>4, Zenon DEF Recorded
<1> QED
  BY <1>0, <1>2, <1>3, <1>5, <1>6, <1>7, <1>8, <1>9, <1>10, NextCases, Zenon DEF Compact

\* An empty database satisfies the invariant.
LEMMA InitIInv == Init => IInv
<1> SUFFICES ASSUME Init PROVE IInv
  BY Zenon
<1> USE MemTablesAssumption
<1>1. TypeOK
  <2>1. /\ 1 \in Fid /\ 2 \in 1 .. MaxFid + 1 /\ 1 \in Id /\ 1 \in 1 .. MaxId + 1
        /\ 0 \in 0 .. MaxVersion
    BY DEF Fid, Id
  <2>2. flush_chan \in Seq(Fid) /\ Len(flush_chan) <= NumMemtables /\ immut_memtable \in Seq(Fid)
    BY DEF Init
  <2>3. discard_ts \in 0 .. version
    BY DEF Init
  <2> QED BY <2>1, <2>2, <2>3, Zenon DEF Init, TypeOK
<1>2. Sent = <<>> /\ Unflushed = <<>>
  BY Zenon DEF Init, Sent, Unflushed
<1>3. PopsBehind /\ ByAge
  BY <1>2 DEF Init, PopsBehind, ByAge, Ascending, Below
<1>4. Written
  BY DEF Init, Written
<1>5. Placed
  BY DEF Init, Placed, InMemory
<1>6. Older
  BY Zenon DEF Init, Older
<1>7. Homes
  BY Zenon DEF Init, Homes
<1>8. Plans
  BY Zenon DEF Init, Plans, Target
<1>9. Outputs /\ Recorded
  <2>1. \A c \in Target : cpc[c] = "idle"
    BY Zenon DEF Init
  <2>2. "base" \in Target /\ "level0" \in Target /\ level0 \cup below = {}
    BY Zenon DEF Init, Target
  <2> QED BY <2>1, <2>2, Zenon DEF Outputs, Recorded
<1> QED BY <1>1, <1>3, <1>4, <1>5, <1>6, <1>7, <1>8, <1>9, Zenon DEF IInv

\* Every step of the write task, of the flush task, of a compaction and of a reader
\* keeps the invariant.
LEMMA NextIInv == IInv /\ [Next]_vars => IInv'
BY NextType, NextPops, NextAge, NextWritten, NextPlaced, NextOlder, NextHomes, NextPlans,
   NextOutputs, NextRecorded, Zenon DEF IInv

-----------------------------------------------------------------------------
\* The results.

\* Memtables and tables are where the rotation, the flush task and the compactions
\* have put them, at every step.
THEOREM MemTablesInvariance == Spec => []IInv
BY InitIInv, NextIInv, PTL DEF Spec

\* A version is in the memtable it was written to, and that one is in memory or
\* flushed.
LEMMA WrittenSomewhere ==
  ASSUME IInv, NEW v \in Readable
  PROVE  \E f \in Fid : /\ v \in data[f]
                        /\ f \in InMemory \/ (Flushed(f) /\ v \in Holding(level0 \cup below))
<1>1. v \in 1 .. version /\ discard_ts <= v
  BY Zenon DEF Readable
<1>2. PICK f \in 1 .. memtable : v \in data[f]
  BY <1>1, Zenon DEF IInv, Written
<1>3. f \in 1 .. next_fid - 1 /\ f \in Fid
  <2>1. memtable \in Fid /\ memtable \in Nat /\ next_fid \in Nat /\ memtable < next_fid
    BY Types, FidNat, Zenon DEF IInv, ByAge
  <2> QED BY <2>1, MemTablesAssumption DEF Fid
<1>4. f \in InMemory \/ Flushed(f)
  BY <1>3, Zenon DEF IInv, Placed
<1> QED BY <1>1, <1>2, <1>3, <1>4, Zenon DEF Flushed

\* What can be read in the levels is in tables of the manifest.
LEMMA LevelsRecorded ==
  ASSUME IInv, NEW v \in Holding(level0 \cup below), discard_ts <= v
  PROVE  v \in Holding(manifest)
<1>1. PICK t \in level0 \cup below : v \in tables[t]
  BY Zenon DEF Holding
<1>2. CASE t \in manifest
  BY <1>1, <1>2, Zenon DEF Holding
<1>3. ASSUME NEW c \in Target, t \in ctop[c], cpc[c] \in {"replace", "delete"}
      PROVE  v \in Holding(manifest)
  <2>1. v \in Holding(ctop[c])
    BY <1>1, <1>3, Zenon DEF Holding
  <2>2. v \in tables[cout[c]]
    BY <1>3, <2>1, Zenon DEF IInv, Outputs
  <2>3. cout[c] \in manifest
    BY <1>3, Zenon DEF IInv, Recorded
  <2> QED BY <2>2, <2>3, Zenon DEF Holding
<1> QED BY <1>2, <1>3, Zenon DEF IInv, Recorded

\* write_to_memtable, ensure_boom_for_write, flush_memtable and run_compact, in any
\* interleaving, never leave a version out of reach that can still be read.
THEOREM NothingIsLost == Spec => []NothingLost
<1>1. IInv => NothingLost
  BY WrittenSomewhere, Zenon DEF NothingLost, Contents
<1> QED BY <1>1, MemTablesInvariance, PTL

\* A restart finds what it needs: handle_memtable_flush records a table before
\* push_level0 shows it, and run_compact takes it off the record only with the
\* table that holds what can be read of it.
THEOREM TablesAreRecorded == Spec => []RecordedBeforeVisible
<1>1. ASSUME IInv PROVE RecordedBeforeVisible
  <2>1. \A v \in Readable : discard_ts <= v
    BY Zenon DEF Readable
  <2>2. Readable \subseteq Contents(InMemory) \cup Holding(manifest)
    BY <1>1, <2>1, WrittenSomewhere, LevelsRecorded, Zenon DEF Contents
  <2> QED BY <1>1, <2>2, Zenon DEF IInv, Recorded, RecordedBeforeVisible
<1> QED BY <1>1, MemTablesInvariance, PTL

\* The flush task records memtables in the order in which the write task replaced
\* them, and no compaction drops what can be read, so that the tables of the
\* manifest hold a beginning of the history of writes.
THEOREM RecordedIsPrefix == Spec => []RecordedInOrder
<1>1. ASSUME IInv PROVE RecordedInOrder
  <2> SUFFICES ASSUME NEW w \in Holding(manifest), NEW v \in Readable, v < w
               PROVE  v \in Holding(manifest)
    BY Zenon DEF RecordedInOrder
  <2>1. discard_ts <= v /\ v \in Nat
    BY <1>1, Types DEF Readable, IInv
  <2>2. PICK f \in Fid : /\ v \in data[f]
                         /\ f \in InMemory \/ (Flushed(f) /\ v \in Holding(level0 \cup below))
    BY <1>1, WrittenSomewhere, Zenon
  <2>3. f \notin Ahead
    <3>1. PICK t \in manifest : w \in tables[t]
      BY Zenon DEF Holding
    <3>2. t \in Id /\ w \in Nat
      BY <1>1, <3>1, VersionNat, Zenon DEF IInv, TypeOK
    <3>3. f \in Ahead => w < v
      BY <1>1, <2>2, <3>1, <3>2, Zenon DEF IInv, Older
    <3> QED BY <2>1, <3>2, <3>3
  <2>4. CASE v \in Holding(level0 \cup below)
    BY <1>1, <2>1, <2>4, LevelsRecorded, Zenon
  <2>5. CASE f \in InMemory
    <3>1. f \in Range(Sent)
      <4>1. f \in Range(immut_memtable) \/ (wpc = "push" /\ f = whand)
        BY <2>3, <2>5, Zenon DEF InMemory, Ahead
      <4>2. immut_memtable \in Seq(Fid) /\ whand \in Fid
        BY <1>1, Types, Zenon DEF IInv
      <4>3. Range(Append(immut_memtable, whand)) = Range(immut_memtable) \cup {whand}
        BY <4>2, AppendEntries DEF Range
      <4> QED BY <4>1, <4>3, Zenon DEF Sent
    <3>2. PICK i \in 1 .. Len(Sent) : f = Sent[i]
      BY <3>1, Zenon DEF Range
    <3>3. Len(Sent) \in Nat /\ Len(Unflushed) \in Nat /\ Len(Unflushed) <= Len(Sent)
      BY <1>1, QueueTypes DEF IInv, PopsBehind
    <3>4. CASE i \in 1 .. Len(Sent) - Len(Unflushed)
      <4>1. Flushed(f)
        BY <1>1, <3>2, <3>4, Zenon DEF IInv, PopsBehind
      <4> QED BY <2>1, <2>2, <2>4, <4>1, Zenon DEF Flushed
    <3>5. CASE i \notin 1 .. Len(Sent) - Len(Unflushed)
      <4>1. PICK j \in 1 .. Len(Unflushed) : i = Len(Sent) - Len(Unflushed) + j
        <5>1. i - (Len(Sent) - Len(Unflushed)) \in 1 .. Len(Unflushed)
          BY <3>3, <3>5
        <5>2. i = Len(Sent) - Len(Unflushed) + (i - (Len(Sent) - Len(Unflushed)))
          BY <3>3
        <5> QED BY <5>1, <5>2, Zenon
      <4>2. f = Unflushed[j]
        BY <1>1, <3>2, <4>1, Zenon DEF IInv, PopsBehind
      <4>3. flush_chan \in Seq(Fid) /\ fhand \in Fid
        BY <1>1, Types, Zenon DEF IInv
      <4>4. f \in Range(flush_chan) \/ (fpc \in {"build", "level0"} /\ f = fhand)
        BY <4>2, <4>3, ConsEntries DEF Unflushed, Range
      <4>5. fpc = "level0" /\ f = fhand
        BY <2>3, <4>4, Zenon DEF Ahead
      <4>6. ftable \in manifest /\ tables[ftable] = data[f]
        BY <1>1, <4>5, Zenon DEF IInv, Homes
      <4> QED BY <2>2, <4>6, Zenon DEF Holding
    <3> QED BY <3>4, <3>5, Zenon
  <2> QED BY <2>2, <2>4, <2>5, Zenon
<1> QED BY <1>1, MemTablesInvariance, PTL
=============================================================================
