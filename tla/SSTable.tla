------------------------------- MODULE SSTable -------------------------------
\* A table: how the builder cuts sorted entries into prefix-compressed blocks
\* (table/write.rs), how it is opened and its blocks are read and verified
\* (table/mod.rs), and the two-ended iterator over it (table/read.rs).
\* A key is a sequence of bytes whose last TsLen (8 in the code) are the timestamp;
\* a value is the one of its key, and sizes count bytes of keys and one unit for a
\* header or an offset.  Compression and encryption are left out.
EXTENDS Cursor, FiniteSets, SequencesExt

CONSTANTS Contents,      \* the sequences of keys that tables are built of
          SeekKeys,      \* the keys sought
          Modes,         \* ChecksumVerificationMode
          TsLen, BlockSize

VARIABLES phase,         \* "built", "open", "failed" (open), "spent", "panic"
          mode,          \* config.checksum_verify_mode
          blocks,        \* the file
          rotten,        \* blocks whose bytes changed on disk
          cache,         \* block_cache: block -> whether its bytes are right
          fwd, bwd,      \* block_iter and back_block_iter, or NoIter
          ref, said      \* the promise; the last answer, and the promise's

vars == <<phase, mode, blocks, rotten, cache, fwd, bwd, ref, said>>

\* [u8]::cmp and KeyTsBorrow::cmp: -1, 0 or 1.
LexCmp(l, r) ==
  LET n == CHOOSE n \in 0 .. Len(l) : /\ n <= Len(r)
                                      /\ \A i \in 1 .. n : l[i] = r[i]
                                      /\ n = Len(l) \/ n = Len(r) \/ l[n + 1] # r[n + 1]
  IN IF n = Len(l) /\ n = Len(r) THEN 0
     ELSE IF n = Len(l) \/ (n < Len(r) /\ l[n + 1] < r[n + 1]) THEN -1 ELSE 1

UserKey(k) == SubSeq(k, 1, Len(k) - TsLen)
TxnTs(k) == SubSeq(k, Len(k) - TsLen + 1, Len(k))

Cmp(l, r) ==
  IF Len(l) > TsLen /\ Len(r) > TsLen
  THEN LET c == LexCmp(UserKey(l), UserKey(r)) IN
       IF c # 0 THEN c ELSE LexCmp(TxnTs(r), TxnTs(l))
  ELSE LexCmp(l, r)

-----------------------------------------------------------------------------
\* The builder.  A block is its base key and its entries, each the length it shares
\* with the base key and the bytes after it.
EmptyBlock == [base |-> <<>>, entries |-> <<>>]

DiffBaseKey(block, new) ==
  CHOOSE i \in 0 .. Len(new) :
    /\ i <= Len(block.base)
    /\ \A j \in 1 .. i : block.base[j] = new[j]
    /\ i = Len(new) \/ i = Len(block.base) \/ block.base[i + 1] # new[i + 1]

ShouldFinishBlock(block, key) ==
  /\ block.entries # <<>>
  /\ LET data == FoldLeft(LAMBDA n, e : n + 1 + Len(e.diff), 0, block.entries)
     IN data + 1 + Len(key) + Len(block.entries) + 1 > BlockSize

PushEntry(block, key) ==
  LET base == IF block.base = <<>> THEN key ELSE block.base
      overlap == IF block.base = <<>> THEN 0 ELSE DiffBaseKey(block, key)
  IN [base |-> base,
      entries |-> Append(block.entries,
                         [overlap |-> overlap, diff |-> SubSeq(key, overlap + 1, Len(key))])]

FinishCurBlock(b) ==
  IF b.cur.entries = <<>> THEN b
  ELSE [blocks |-> Append(b.blocks, b.cur), cur |-> EmptyBlock]

PushInternal(b, key) ==
  LET c == IF ShouldFinishBlock(b.cur, key) THEN FinishCurBlock(b) ELSE b
  IN [c EXCEPT !.cur = PushEntry(@, key)]

\* done and build_index: the index has the base key of every block.
Done(b) == FinishCurBlock(b).blocks

BuildL0Table(content) ==
  Done(FoldLeft(PushInternal, [blocks |-> <<>>, cur |-> EmptyBlock], content))

-----------------------------------------------------------------------------
NoIter == <<>>

\* The block's own base key, which an iterator reads from the first entry.
BaseKey(b) == blocks[b].entries[1].diff

\* A block iterator: its block, whether the bytes it reads are right, the entry it is
\* at (0: before the first), and the key it has put together and its overlap.
BlockIter(b, ok) == [block |-> b, ok |-> ok, at |-> 0, key |-> <<>>, overlap |-> 0]

\* Variant: the overlap of the key before is not looked at.
SetEntryIndexShort(it, i) ==
  LET e == blocks[it.block].entries[i]
  IN [it EXCEPT !.at = i, !.overlap = e.overlap,
                !.key = SubSeq(it.key, 1, IF e.overlap < Len(it.key) THEN e.overlap
                                          ELSE Len(it.key)) \o e.diff]

\* The key of an entry from the key before it: what both share with the base key
\* stays, what only the new one does is copied from the base key.
SetEntryIndex(it, i) ==
  LET e == blocks[it.block].entries[i]
      shared == IF e.overlap > it.overlap
                THEN SubSeq(it.key, 1, it.overlap)
                       \o SubSeq(BaseKey(it.block), it.overlap + 1, e.overlap)
                ELSE SubSeq(it.key, 1, e.overlap)
  IN [it EXCEPT !.at = i, !.key = shared \o e.diff, !.overlap = e.overlap]

\* next and next_back of a block iterator, <<>> for false: only one end of each is
\* ever moved, so neither meets the other.
BlockNext(it) ==
  IF it.at = 0 THEN [it EXCEPT !.at = 1, !.key = BaseKey(it.block)]
  ELSE IF it.at = Len(blocks[it.block].entries) THEN NoIter
  ELSE SetEntryIndex(it, it.at + 1)

BlockNextBack(it) ==
  LET n == Len(blocks[it.block].entries)
      e == blocks[it.block].entries[n]
  IN IF it.at = 0
     THEN [it EXCEPT !.at = n, !.overlap = e.overlap,
                     !.key = SubSeq(BaseKey(it.block), 1, e.overlap) \o e.diff]
     ELSE IF it.at = 1 THEN NoIter
     ELSE SetEntryIndex(it, it.at - 1)

\* How an entry compares with the key sought.  When the overlap is longer than a
\* timestamp, the part of it that lies in the user key is compared first.
EntryCmp(b, e, k) ==
  LET split == IF Len(e.diff) < TsLen THEN e.overlap + Len(e.diff) - TsLen ELSE e.overlap
      c == LexCmp(SubSeq(BaseKey(b), 1, split), SubSeq(k, 1, split))
  IN IF Len(k) >= e.overlap /\ e.overlap > TsLen /\ c # 0 THEN c
     ELSE Cmp(SubSeq(BaseKey(b), 1, e.overlap) \o e.diff, k)

\* binary_search_by over elements that compare as cmp says: the place of an equal one,
\* or the place to insert at.
Search(cmp) ==
  LET equal == {i \in DOMAIN cmp : cmp[i] = 0}
  IN IF equal # {} THEN [found |-> TRUE, at |-> CHOOSE i \in equal : TRUE]
     ELSE [found |-> FALSE, at |-> 1 + Cardinality({i \in DOMAIN cmp : cmp[i] = -1})]

BlockSeek(it, k) ==
  LET entries == blocks[it.block].entries
      s == Search([i \in DOMAIN entries |-> EntryCmp(it.block, entries[i], k)])
  IN IF s.at > Len(entries) THEN NoIter ELSE SetEntryIndex(BlockNext(it), s.at)

-----------------------------------------------------------------------------
BlockModes == {"OnBlockRead", "OnTableAndBlockRead"}
TableModes == {"OnTableRead", "OnTableAndBlockRead"}

\* get_block: from the cache, or from the file and, in the block modes, verified.
\* A rotten block may also fail to decode.  Outcomes: an iterator, or NoIter for an
\* error.
GetBlock(b) ==
  IF b \in DOMAIN cache THEN {BlockIter(b, cache[b])}
  ELSE IF b \notin rotten THEN {BlockIter(b, TRUE)}
  ELSE IF mode \in BlockModes THEN {NoIter}
  ELSE {NoIter, BlockIter(b, FALSE)}

\* insert into the cache, for an iterator made with use_cache.
Cached(it) == cache' = [b \in DOMAIN cache \cup {it.block} |->
                          IF b = it.block THEN it.ok ELSE cache[b]]

Init ==
  /\ phase = "built"
  /\ mode \in Modes
  /\ \E c \in Contents :
       /\ blocks = BuildL0Table(c)
       /\ ref = Fresh(c)
  /\ rotten = {}
  /\ cache = <<>>
  /\ fwd = NoIter /\ bwd = NoIter /\ said = <<>>

\* A bit of a block flips on disk.
Rot(b) ==
  /\ phase \in {"built", "open"} /\ rotten = {}
  /\ rotten' = {b}
  /\ UNCHANGED <<phase, mode, blocks, cache, fwd, bwd, ref, said>>

\* verify: every block is read into the cache, and its checksum is right.
Verify == rotten = {}

\* open: the last block is always verified; every one is in the modes that do NOT name
\* the table.
Open ==
  /\ phase = "built"
  /\ IF Len(blocks) \in rotten \/ (mode \notin TableModes /\ ~Verify)
     THEN phase' = "failed" /\ UNCHANGED cache
     ELSE /\ phase' = "open"
          /\ cache' = IF mode \in TableModes THEN <<>> ELSE [b \in DOMAIN blocks |-> TRUE]
  /\ UNCHANGED <<mode, blocks, rotten, fwd, bwd, ref, said>>

\* The cache drops a block when it likes.
Evict ==
  /\ phase = "open"
  /\ \E b \in DOMAIN cache : cache' = [c \in DOMAIN cache \ {b} |-> cache[c]]
  /\ UNCHANGED <<phase, mode, blocks, rotten, fwd, bwd, ref, said>>

\* An answer beside the promise's; an error leaves both as they are.
Says(ok, key, right, answer) ==
  /\ said' = <<ok, IF ok THEN key ELSE <<>>, answer.ok, answer.key, right>>
  /\ ref' = answer.cursor
Errs == said' = <<>> /\ UNCHANGED ref

\* The ends meet when they stand on the same entry.
Met(f, b) == f # NoIter /\ b # NoIter /\ f.key = b.key

\* next: false if the ends have met; the next entry of the block, or the first of the
\* next block; and false again if that is where the back end stands.
Next_ ==
  LET in == IF fwd = NoIter THEN NoIter ELSE BlockNext(fwd)
      b == IF fwd = NoIter THEN 1 ELSE fwd.block + 1
  IN /\ phase = "open"
     /\ \/ /\ Met(fwd, bwd) \/ (in = NoIter /\ b > Len(blocks))
           /\ Says(FALSE, <<>>, TRUE, NextOf(ref, <<>>))
           /\ UNCHANGED <<fwd, cache>>
        \/ /\ ~Met(fwd, bwd) /\ in # NoIter
           /\ fwd' = in
           /\ Says(~Met(in, bwd), in.key, in.ok, NextOf(ref, <<>>))
           /\ UNCHANGED cache
        \/ /\ ~Met(fwd, bwd) /\ in = NoIter /\ b <= Len(blocks)
           /\ \E it \in GetBlock(b) :
                IF it = NoIter THEN Errs /\ UNCHANGED <<fwd, cache>>
                ELSE /\ fwd' = BlockNext(it)
                     /\ Says(~Met(BlockNext(it), bwd), BlockNext(it).key, it.ok,
                             NextOf(ref, <<>>))
                     /\ Cached(it)
     /\ UNCHANGED <<phase, mode, blocks, rotten, bwd>>

NextBack ==
  LET in == IF bwd = NoIter THEN NoIter ELSE BlockNextBack(bwd)
      b == IF bwd = NoIter THEN Len(blocks) ELSE bwd.block - 1
  IN /\ phase = "open"
     /\ \/ /\ Met(fwd, bwd) \/ (in = NoIter /\ b < 1)
           /\ Says(FALSE, <<>>, TRUE, NextBackOf(ref, <<>>))
           /\ UNCHANGED <<bwd, cache>>
        \/ /\ ~Met(fwd, bwd) /\ in # NoIter
           /\ bwd' = in
           /\ Says(~Met(fwd, in), in.key, in.ok, NextBackOf(ref, <<>>))
           /\ UNCHANGED cache
        \/ /\ ~Met(fwd, bwd) /\ in = NoIter /\ b >= 1
           /\ \E it \in GetBlock(b) :
                IF it = NoIter THEN Errs /\ UNCHANGED <<bwd, cache>>
                ELSE /\ bwd' = BlockNextBack(it)
                     /\ Says(~Met(fwd, BlockNextBack(it)), BlockNextBack(it).key, it.ok,
                             NextBackOf(ref, <<>>))
                     /\ Cached(it)
     /\ UNCHANGED <<phase, mode, blocks, rotten, fwd>>

\* seek: the block whose base key is the key, or the one before the first that is
\* above it.  A key above every base key is not looked for, one below them all
\* underflows the index.  Callers seek in an iterator not walked from the back, and
\* leave it when the answer is false.
Seek(k) ==
  LET s == Search([i \in DOMAIN blocks |-> Cmp(BaseKey(i), k)])
      b == IF s.found THEN s.at ELSE s.at - 1
  IN /\ phase = "open" /\ bwd = NoIter
     /\ \/ /\ ~s.found /\ s.at > Len(blocks)
           /\ phase' = "spent" /\ Errs
           /\ UNCHANGED <<fwd, cache>>
        \/ /\ s.at <= Len(blocks) /\ b = 0
           /\ phase' = "panic" /\ Errs
           /\ UNCHANGED <<fwd, cache>>
        \/ /\ s.at <= Len(blocks) /\ b > 0
           /\ \E it \in GetBlock(b) :
                LET found == BlockSeek(it, k) IN
                IF it = NoIter THEN Errs /\ UNCHANGED <<phase, fwd, cache>>
                ELSE /\ Cached(it)
                     /\ IF found = NoIter
                        THEN phase' = "spent" /\ fwd' = BlockNext(it) /\ Errs
                        ELSE /\ fwd' = found
                             /\ Says(TRUE, found.key, it.ok,
                                     SeekOf(ref, LAMBDA i : Cmp(ref.s[i], k) = -1, <<>>))
                             /\ UNCHANGED phase
     /\ UNCHANGED <<mode, blocks, rotten, bwd>>

Next ==
  \/ \E b \in DOMAIN blocks : Rot(b)
  \/ Open
  \/ Evict
  \/ Next_
  \/ NextBack
  \/ \E k \in SeekKeys : Seek(k)

-----------------------------------------------------------------------------
\* Whatever next, next_back and seek are called in which order, across blocks and
\* whatever prefixes were cut off, an iterator of a table answers as a cursor of the
\* entries it was built of does, and in the modes that verify blocks no answer comes
\* of a rotten block.  (seek may answer false, or panic, where the promise finds a
\* key.)
CursorAgrees ==
  said # <<>> =>
    /\ said[5] => said[1] = said[3] /\ said[2] = said[4]
    /\ mode \in BlockModes => said[5]
=============================================================================
