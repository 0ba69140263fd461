------------------------------ MODULE MmapLog ------------------------------
(***************************************************************************)
(* A log file: MmapFile with its write buffer over a mapping, LogFile on   *)
(* top of it, and LogFileIter, which replays it (util/mmap.rs,             *)
(* util/log_file.rs, vlog/read.rs).  A file is a sequence of units; a      *)
(* record of n units is the units 1 to n of its name, and a unit that was  *)
(* never written is Zero.  An operation that can fail is the set of its    *)
(* outcomes.  set_len is the version that compiles, which on growth        *)
(* flushes a range longer than the mapping: that may fail.  It unmaps the  *)
(* old mapping twice, which can take the new one away; whoever touches it  *)
(* then is killed, and a crash is possible at every step anyway.           *)
(***************************************************************************)
EXTENDS Integers, Sequences, SequencesExt

CONSTANT Page     \* DEFAULT_PAGE_SIZE, the capacity of w_buf, in units

Zero == [rec |-> 0, i |-> 0, n |-> 0]
Header == [rec |-> 0, i |-> 1, n |-> 1]
VLOG_HEADER_SIZE == 1

\* LogFile::encode_entry.
Record(r, n) == [i \in 1 .. n |-> [rec |-> r, i |-> i, n |-> n]]

Zeros(n) == [i \in 1 .. n |-> Zero]
Resize(bytes, n) == IF n <= Len(bytes) THEN SubSeq(bytes, 1, n)
                                       ELSE bytes \o Zeros(n - Len(bytes))

Overwrite(bytes, off, data) ==
  [i \in 1 .. Len(bytes) |-> IF i - off \in 1 .. Len(data) THEN data[i - off] ELSE bytes[i]]

\* An outcome: did it succeed, and the file after it.  safe counts the first units
\* that are known to be on the disk.
Done(f) == [ok |-> TRUE, f |-> f]
Failed(f) == [ok |-> FALSE, f |-> f]
Then(outs, next(_)) == UNION {IF o.ok THEN next(o.f) ELSE {o} : o \in outs}

\* MmapFile::open on a file without bytes, and on one with some.
Mapped(bytes) == [bytes |-> bytes, w_pos |-> 0, w_buf |-> <<>>, safe |-> 0]

\* MmapFile::set_len.
SetLen(f, n) ==
  {Done([f EXCEPT !.bytes = Resize(@, n),
                  !.safe = IF n < Len(f.bytes) THEN n ELSE Len(f.bytes)])}
    \cup IF n > Len(f.bytes) THEN {Failed(f)} ELSE {}

\* MmapFile::check_len_satisfied, for n units more behind w_pos.
CheckLenSatisfied(f, n) ==
  LET at == f.w_pos + n
  IN IF at >= Len(f.bytes) THEN SetLen(f, (at - (at % Page)) + 2 * Page) ELSE {Done(f)}

RawWrite(f, off, data) == [f EXCEPT !.bytes = Overwrite(@, off, data)]

\* MmapFile::flush_buf.
FlushBuf(f) ==
  Then(CheckLenSatisfied(f, Len(f.w_buf)),
       LAMBDA g : {Done([RawWrite(g, g.w_pos, g.w_buf) EXCEPT
                           !.w_pos = @ + Len(g.w_buf), !.w_buf = <<>>])})

\* MmapFile::write_cold: what does not fit pushes the buffer out, and what is as
\* long as the buffer goes straight to the mapping.
WriteCold(f, data) ==
  Then(IF Len(data) + Len(f.w_buf) > Page THEN FlushBuf(f) ELSE {Done(f)},
       LAMBDA g :
         IF Len(data) >= Page
         THEN Then(CheckLenSatisfied(g, Len(data)),
                   LAMBDA h : {Done([RawWrite(h, h.w_pos, data) EXCEPT
                                       !.w_pos = @ + Len(data)])})
         ELSE {Done([g EXCEPT !.w_buf = @ \o data])})

Write(f, data) ==
  IF Len(f.w_buf) + Len(data) < Page THEN {Done([f EXCEPT !.w_buf = @ \o data])}
                                     ELSE WriteCold(f, data)

WriteOffset(f) == f.w_pos + Len(f.w_buf)

\* Variant: the offset is not compared with the end of the buffer.
WriteSliceAtEnd(f, off, data) == Write(f, data)

\* MmapFile::write_slice at or behind the end of the buffer; no caller writes in
\* front of it.
WriteSlice(f, off, data) ==
  IF off = WriteOffset(f) THEN Write(f, data)
  ELSE Then(CheckLenSatisfied(f, Len(data)), LAMBDA g : {Done(RawWrite(g, off, data))})

\* LogFile::truncate.
Truncate(f, end) == IF Len(f.bytes) = end THEN {Done(f)} ELSE SetLen(f, end)

\* LogFile::open of a file without bytes: bootstrap writes and flushes the header.
Bootstrapped(len) ==
  [bytes |-> <<Header>> \o Zeros(len - 1), w_pos |-> VLOG_HEADER_SIZE, w_buf |-> <<>>,
   safe |-> VLOG_HEADER_SIZE]

\* MmapFile::drop: a buffer that cannot be flushed is gone.
Dropped(f) == {Mapped(o.f.bytes) : o \in FlushBuf(f)}

-----------------------------------------------------------------------------
\* LogFileIter::read_entry: a complete record at off.  A torn one has a wrong
\* checksum, and zeros are a record without key and value.
RecordAt(bytes, off) ==
  /\ off < Len(bytes)
  /\ LET u == bytes[off + 1]
     IN /\ u.rec > 0 /\ u.i = 1
        /\ off + u.n <= Len(bytes)
        /\ SubSeq(bytes, off + 1, off + u.n) = Record(u.rec, u.n)

\* Variant: the end is taken before the last record is read.
ValidEndOneEarly(bytes) ==
  LET end[off \in 0 .. Len(bytes)] ==
        IF RecordAt(bytes, off) /\ RecordAt(bytes, off + bytes[off + 1].n)
        THEN end[off + bytes[off + 1].n] ELSE off
  IN IF Len(bytes) < VLOG_HEADER_SIZE THEN VLOG_HEADER_SIZE ELSE end[VLOG_HEADER_SIZE]

\* LogFileIter::next up to None, and valid_end_offset.  decode_from leaves meta at
\* 0, so that every complete record counts as one that ends a transaction.
ValidEnd(bytes) ==
  LET end[off \in 0 .. Len(bytes)] ==
        IF RecordAt(bytes, off) THEN end[off + bytes[off + 1].n] ELSE off
  IN IF Len(bytes) < VLOG_HEADER_SIZE THEN VLOG_HEADER_SIZE ELSE end[VLOG_HEADER_SIZE]

\* After a process crash the mapping is in the page cache: only w_buf is lost.
Crashed(f) == Mapped(f.bytes)

\* After a power failure a page that was not flushed may be as it was.
PowerFailed(f, lost) ==
  Mapped([i \in 1 .. Len(f.bytes) |->
            IF i > f.safe /\ (i - 1) \div Page \in lost THEN Zero ELSE f.bytes[i]])

-----------------------------------------------------------------------------
\* For the properties: the records a replay finds, in order, and what a reader sees
\* of a file through the buffer.
Replayed(bytes) ==
  LET recs[off \in 0 .. Len(bytes)] ==
        IF RecordAt(bytes, off) THEN <<bytes[off + 1]>> \o recs[off + bytes[off + 1].n]
                                ELSE <<>>
  IN IF Len(bytes) < VLOG_HEADER_SIZE THEN <<>> ELSE recs[VLOG_HEADER_SIZE]

Seen(f) ==
  LET len == IF WriteOffset(f) > Len(f.bytes) THEN WriteOffset(f) ELSE Len(f.bytes)
  IN Overwrite(Resize(f.bytes, len), f.w_pos, f.w_buf)
=============================================================================
