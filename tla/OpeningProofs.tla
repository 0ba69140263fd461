---------------------------- MODULE OpeningProofs ----------------------------
(***************************************************************************)
(* What DB::open relies on, for every value of the constants: the keys of  *)
(* the registry (KeyRegistry), the permits under which tables are opened   *)
(* (Throttle) and the locks on the directories (DirLock).                  *)
(***************************************************************************)
EXTENDS KeyRegistry, FiniteSetTheorems, TLAPS

-----------------------------------------------------------------------------
\* KeyRegistry: OneKeyPerPeriod, for any number of callers, any rotation period and any
\* number of keys, openings and crashes.
ConstantsOK == Rotation \in Nat

Rec == [id : Nat, key : Nat, created_at : Nat]

TypeOK ==
  /\ file.records \in Seq(Rec)
  /\ file = [master |-> file.master, records |-> file.records]
  /\ last_created \in Nat
  /\ next_key_id \in Nat
  /\ clock \in Nat
  /\ fresh \in Nat

\* No record up to the i-th is torn.
Clean(r, i) == \A k \in 1 .. i : r[k] # Torn

\* OneKeyPerPeriod without the reader.
Apart(r) ==
  \A i, j \in 1 .. Len(r) :
    i < j /\ Clean(r, j) => r[j].created_at >= r[i].created_at + Rotation

\* The clock is ahead of every key, and an open registry knows the time of the last one
\* that can be read.
TimesKnown ==
  /\ last_created <= clock
  /\ \A i \in 1 .. Len(file.records) : file.records[i].created_at <= clock
  /\ up => \A i \in 1 .. Len(file.records) :
             Clean(file.records, i) => file.records[i].created_at <= last_created

\* No id is past the number of keys generated.
IdsBounded ==
  /\ next_key_id <= fresh
  /\ \A i \in 1 .. Len(file.records) : file.records[i].id <= fresh

IInv == TypeOK /\ Apart(file.records) /\ TimesKnown /\ IdsBounded

-----------------------------------------------------------------------------
\* A set of numbers has a least one, which Min is.
LEMMA LeastOf ==
  ASSUME NEW S, S \subseteq Nat, S # {}
  PROVE  Min(S) \in S /\ \A y \in S : Min(S) <= y
<1>1. PICK x \in S : \A y \in S : ~(<<y, x>> \in OpToRel(<, Nat))
  BY NatLessThanWellFounded, WFMin, Zenon
<1>2. ASSUME NEW y \in S PROVE x <= y
  <2>1. x \in Nat /\ y \in Nat
    OBVIOUS
  <2>2. y < x => <<y, x>> \in OpToRel(<, Nat)
    BY <2>1, Zenon DEF OpToRel
  <2>3. ~(y < x)
    BY <1>1, <2>2, Zenon
  <2> QED
    BY <2>1, <2>3
<1> QED
  BY <1>2, Zenon DEF Min

\* A set of numbers with a bound has a greatest one, which Max is.
LEMMA GreatestOf ==
  ASSUME NEW S, S \subseteq Nat, S # {}, NEW n \in Nat, \A x \in S : x <= n
  PROVE  Max(S) \in S /\ \A y \in S : Max(S) >= y
<1> DEFINE T == {n - x : x \in S}
<1>1. T \subseteq Nat /\ T # {}
  <2>1. \A x \in S : n - x \in Nat
    OBVIOUS
  <2> QED
    BY <2>1, Zenon
<1>2. Min(T) \in T /\ \A y \in T : Min(T) <= y
  BY <1>1, LeastOf, Zenon
<1>3. PICK x \in S : Min(T) = n - x
  BY <1>2, Zenon
<1>4. \A y \in S : x >= y
  <2>1. SUFFICES ASSUME NEW y \in S PROVE x >= y
    OBVIOUS
  <2>2. n - y \in T
    OBVIOUS
  <2>3. n - x <= n - y
    BY <1>2, <1>3, <2>2, Zenon
  <2> QED
    BY <2>3
<1> QED
  BY <1>4, Zenon DEF Max

\* What the reader of the file finds: the records up to the first torn one.
LEMMA ReadableIs ==
  ASSUME NEW r \in Seq(Rec)
  PROVE  /\ DOMAIN Readable(r) = {i \in 1 .. Len(r) : Clean(r, i)}
         /\ \A i \in DOMAIN Readable(r) : Readable(r)[i] = r[i]
<1> DEFINE torn == {i \in DOMAIN r : r[i] = Torn}
<1>1. CASE torn = {}
  <2>1. Readable(r) = r
    BY <1>1, Zenon DEF Readable
  <2>2. \A i \in 1 .. Len(r) : r[i] # Torn
    BY <1>1
  <2>3. \A i \in 1 .. Len(r) : Clean(r, i)
    BY <2>2 DEF Clean
  <2>4. DOMAIN r = {i \in 1 .. Len(r) : Clean(r, i)}
    <3>1. DOMAIN r = 1 .. Len(r)
      OBVIOUS
    <3> QED
      BY <2>3, <3>1, Zenon
  <2> QED
    BY <2>1, <2>4, Zenon
<1>2. CASE torn # {}
  <2>1. torn \subseteq Nat
    OBVIOUS
  <2>2. Min(torn) \in torn /\ \A y \in torn : Min(torn) <= y
    BY <1>2, <2>1, LeastOf, Zenon
  <2> DEFINE m == Min(torn)
  <2>3. /\ m \in 1 .. Len(r) /\ r[m] = Torn
        /\ Readable(r) = SubSeq(r, 1, m - 1)
    <3>1. Readable(r) = SubSeq(r, 1, m - 1)
      BY <1>2, Zenon DEF Readable
    <3>2. m \in DOMAIN r /\ r[m] = Torn
      BY <2>2
    <3> QED
      BY <3>1, <3>2
  <2>4. \A y \in 1 .. Len(r) : r[y] = Torn => m <= y
    BY <2>2
  <2> HIDE DEF m
  <2>5. /\ DOMAIN SubSeq(r, 1, m - 1) = 1 .. m - 1
        /\ \A i \in 1 .. m - 1 : SubSeq(r, 1, m - 1)[i] = r[i]
    BY <2>3
  <2>6. \A i \in 1 .. Len(r) : Clean(r, i) <=> i <= m - 1
    BY <2>3, <2>4 DEF Clean
  <2>7. 1 .. m - 1 = {i \in 1 .. Len(r) : Clean(r, i)}
    BY <2>3, <2>6
  <2> QED
    BY <2>3, <2>5, <2>7
<1> QED
  BY <1>1, <1>2

\* read: last_created is then the time of the last key that can be read.
LEMMA ReadIs ==
  ASSUME NEW r \in Seq(Rec), NEW n \in Nat,
         \A i \in 1 .. Len(r) : r[i].created_at <= n
  PROVE  /\ Read(Readable(r)).last_created \in 0 .. n
         /\ \A i \in 1 .. Len(r) :
              Clean(r, i) => r[i].created_at <= Read(Readable(r)).last_created
<1> DEFINE S == {0} \cup {k.created_at : k \in Range(Readable(r))}
<1>1. Range(Readable(r)) = {r[i] : i \in {j \in 1 .. Len(r) : Clean(r, j)}}
  BY ReadableIs, Zenon DEF Range
<1>2. \A i \in 1 .. Len(r) : r[i].created_at \in Nat
  <2>1. \A i \in 1 .. Len(r) : r[i] \in Rec
    OBVIOUS
  <2>2. \A k \in Rec : k.created_at \in Nat
    BY DEF Rec
  <2> QED
    BY <2>1, <2>2
<1>3. S \subseteq Nat /\ S # {} /\ \A x \in S : x <= n
  BY <1>1, <1>2
<1>4. Max(S) \in S /\ \A y \in S : Max(S) >= y
  BY <1>3, GreatestOf, Zenon
<1>5. Read(Readable(r)).last_created = Max(S)
  BY DEF Read
<1>6. \A i \in 1 .. Len(r) : Clean(r, i) => r[i].created_at \in S
  BY <1>1
<1>7. Max(S) \in 0 .. n
  BY <1>3, <1>4
<1>8. \A i \in 1 .. Len(r) : Clean(r, i) => r[i].created_at <= Max(S)
  <2> HIDE DEF S
  <2>1. SUFFICES ASSUME NEW i \in 1 .. Len(r), Clean(r, i)
                 PROVE  r[i].created_at <= Max(S)
    OBVIOUS
  <2>2. Max(S) >= r[i].created_at
    BY <1>4, <1>6, <2>1
  <2> QED
    BY <1>2, <1>7, <2>2
<1> QED
  BY <1>5, <1>7, <1>8, Zenon
\* read: next_key_id is the id of some record, or 0.
LEMMA ReadId ==
  ASSUME NEW r \in Seq(Rec), NEW n \in Nat, \A i \in 1 .. Len(r) : r[i].id <= n
  PROVE  Read(Readable(r)).next_key_id \in 0 .. n
<1> DEFINE S == {0} \cup {k.id : k \in Range(Readable(r))}
<1>1. Range(Readable(r)) = {r[i] : i \in {j \in 1 .. Len(r) : Clean(r, j)}}
  BY ReadableIs, Zenon DEF Range
<1>2. \A i \in 1 .. Len(r) : r[i].id \in Nat
  <2>1. \A i \in 1 .. Len(r) : r[i] \in Rec
    OBVIOUS
  <2>2. \A k \in Rec : k.id \in Nat
    BY DEF Rec
  <2> QED
    BY <2>1, <2>2
<1>3. S \subseteq Nat /\ S # {} /\ \A x \in S : x <= n
  BY <1>1, <1>2
<1>4. Max(S) \in S
  BY <1>3, GreatestOf, Zenon
<1>5. Read(Readable(r)).next_key_id = Max(S)
  BY DEF Read
<1>6. Max(S) \in 0 .. n
  <2>1. Max(S) \in Nat /\ Max(S) <= n
    BY <1>3, <1>4, Zenon
  <2> QED
    BY <2>1
<1> QED
  BY <1>5, <1>6, Zenon

-----------------------------------------------------------------------------
\* What the last step of a creation does to the records: a record of the time of the
\* clock, in a registry whose last key is a period old, or a torn one.
LEMMA AppendInv ==
  ASSUME ConstantsOK, IInv, up, ~ValidKey, NEW r \in Rec,
         r = Torn \/ r.created_at = clock, r.id <= fresh + 1,
         file'.records = Append(file.records, r)
  PROVE  /\ file'.records \in Seq(Rec)
         /\ Apart(file'.records)
         /\ \A i \in 1 .. Len(file'.records) : file'.records[i].created_at <= clock
         /\ \A i \in 1 .. Len(file'.records) : file'.records[i].id <= fresh + 1
         /\ r = Torn => \A i \in 1 .. Len(file'.records) :
              Clean(file'.records, i) => file'.records[i].created_at <= last_created
<1> DEFINE old == file.records  new == file'.records  n == Len(old)
<1>1. old \in Seq(Rec) /\ n \in Nat
  BY DEF IInv, TypeOK
<1>2. /\ new \in Seq(Rec)
      /\ Len(new) = n + 1
      /\ new[n + 1] = r
      /\ \A i \in 1 .. n : new[i] = old[i]
  BY <1>1
<1>3. \A k \in Rec : k.created_at \in Nat
  BY DEF Rec
<1>4. /\ \A i \in 1 .. n : old[i] \in Rec /\ old[i].created_at \in Nat
      /\ r.created_at \in Nat
  BY <1>1, <1>3
<1>5. \A i \in 1 .. n : old[i].created_at <= clock
  BY DEF IInv, TimesKnown
<1>6. clock \in Nat /\ last_created \in Nat /\ Rotation \in Nat
  BY DEF IInv, TypeOK, ConstantsOK
<1>7. clock >= last_created + Rotation
  BY <1>6 DEF IInv, TimesKnown, ValidKey
<1>8. \A i \in 1 .. n : Clean(new, i) <=> Clean(old, i)
  BY <1>1, <1>2 DEF Clean
<1>9. r = Torn => ~Clean(new, n + 1)
  BY <1>1, <1>2 DEF Clean
<1>10. Clean(new, n + 1) => \A i \in 1 .. n : Clean(new, i)
  BY <1>1 DEF Clean
<1>11. \A i \in 1 .. n : Clean(old, i) => old[i].created_at <= last_created
  BY DEF IInv, TimesKnown
<1>12. Apart(old)
  BY DEF IInv
<1>13. Torn.created_at = 0
  BY DEF Torn
<1>14. r.created_at <= clock
  BY <1>6, <1>13
<1> HIDE DEF old, new, n
<1>15. Apart(new)
  <2>1. SUFFICES ASSUME NEW i \in 1 .. n + 1, NEW j \in 1 .. n + 1,
                        i < j, Clean(new, j)
                 PROVE  new[j].created_at >= new[i].created_at + Rotation
    BY <1>2 DEF Apart
  <2>2. i \in 1 .. n
    BY <1>1, <2>1
  <2>3. CASE j = n + 1
    <3>1. new[j].created_at = clock
      BY <1>2, <1>9, <2>1, <2>3
    <3>2. new[i] = old[i] /\ Clean(old, i)
      BY <1>2, <1>8, <1>10, <2>1, <2>2, <2>3
    <3>3. old[i].created_at <= last_created
      BY <1>11, <2>2, <3>2
    <3> QED
      BY <1>4, <1>6, <1>7, <2>2, <3>1, <3>2, <3>3
  <2>4. CASE j \in 1 .. n
    BY <1>1, <1>2, <1>8, <1>12, <2>1, <2>2, <2>4 DEF Apart, n
  <2> QED
    BY <1>1, <2>3, <2>4
<1>16. \A i \in 1 .. Len(new) : new[i].created_at <= clock
  BY <1>1, <1>2, <1>5, <1>14
<1>17. r = Torn => \A i \in 1 .. Len(new) : Clean(new, i) => new[i].created_at <= last_created
  BY <1>1, <1>2, <1>8, <1>9, <1>11
<1>18. \A i \in 1 .. Len(new) : new[i].id <= fresh + 1
  <2>1. \A k \in Rec : k.id \in Nat
    BY DEF Rec
  <2>2. \A i \in 1 .. n : old[i].id \in Nat /\ old[i].id <= fresh
    BY <1>4, <2>1 DEF IInv, IdsBounded, old, n
  <2>3. fresh \in Nat
    BY DEF IInv, TypeOK
  <2> QED
    BY <1>1, <1>2, <2>2, <2>3
<1> QED
  BY <1>2, <1>15, <1>16, <1>17, <1>18 DEF new

-----------------------------------------------------------------------------
\* The registry starts without a file.
LEMMA InitInv ==
  ASSUME ConstantsOK PROVE Init => IInv
<1>1. SUFFICES ASSUME Init PROVE IInv
  OBVIOUS
<1>2. file.records = <<>> /\ file = [master |-> file.master, records |-> file.records]
  BY <1>1, Zenon DEF Init, NoFile
<1>3. file.records \in Seq(Rec) /\ Len(file.records) = 0
  BY <1>2
<1>4. TypeOK
  BY <1>1, <1>2, <1>3 DEF Init, TypeOK, ConstantsOK
<1>5. Apart(file.records) /\ TimesKnown /\ IdsBounded
  BY <1>1, <1>3 DEF Init, Apart, TimesKnown, IdsBounded, ConstantsOK
<1> QED
  BY <1>4, <1>5 DEF IInv

\* Opening reads the time of the last key back, or writes an empty file.
LEMMA OpenInv ==
  ASSUME ConstantsOK, IInv, NEW m, Open(m) PROVE IInv'
<1>1. clock' = clock /\ fresh' = fresh /\ clock \in Nat /\ fresh \in Nat
  BY DEF Open, IInv, TypeOK
<1>2. ASSUME NEW r \in Seq(Rec), Load(m, r), file'.records = r, Apart(r),
             file' = [master |-> file'.master, records |-> file'.records],
             \A i \in 1 .. Len(r) : r[i].created_at <= clock /\ r[i].id <= fresh
      PROVE  IInv'
  <2>1. /\ last_created' \in 0 .. clock
        /\ \A i \in 1 .. Len(r) : Clean(r, i) => r[i].created_at <= last_created'
    BY <1>1, <1>2, ReadIs DEF Load
  <2>2. next_key_id' \in 0 .. fresh
    BY <1>1, <1>2, ReadId DEF Load
  <2>3. TypeOK'
    BY <1>1, <1>2, <2>1, <2>2 DEF TypeOK
  <2>4. TimesKnown' /\ IdsBounded'
    BY <1>1, <1>2, <2>1, <2>2 DEF TimesKnown, IdsBounded
  <2> QED
    BY <1>2, <2>3, <2>4 DEF IInv
<1>3. CASE WriteToFile(m) /\ Load(m, <<>>)
  <2>1. file'.records = <<>> /\ file' = [master |-> file'.master, records |-> file'.records]
    BY <1>3 DEF WriteToFile
  <2>2. <<>> \in Seq(Rec) /\ Len(<<>>) = 0
    OBVIOUS
  <2>3. Apart(<<>>)
    BY <2>2 DEF Apart
  <2>4. \A i \in 1 .. Len(<<>>) : <<>>[i].created_at <= clock /\ <<>>[i].id <= fresh
    BY <2>2
  <2> QED
    BY <1>2, <1>3, <2>1, <2>2, <2>3, <2>4, Zenon
<1>4. CASE Load(m, file.records) /\ file' = file
  <2>1. /\ file.records \in Seq(Rec) /\ Apart(file.records)
        /\ file = [master |-> file.master, records |-> file.records]
        /\ \A i \in 1 .. Len(file.records) :
             file.records[i].created_at <= clock /\ file.records[i].id <= fresh
    BY DEF IInv, TypeOK, TimesKnown, IdsBounded
  <2> QED
    BY <1>2, <1>4, <2>1
<1>5. CASE UNCHANGED <<up, file, master, data_keys, last_created, next_key_id>>
  BY <1>1, <1>5 DEF IInv, TypeOK, TimesKnown, IdsBounded, Apart, Clean
<1> QED
  BY <1>3, <1>4, <1>5 DEF Open

\* The write lock: the time is looked at again, and a key made only if the last is old.
LEMMA CreateInv ==
  ASSUME ConstantsOK, IInv, NEW c \in Caller, Create(c) PROVE IInv'
<1>1. up /\ up' = up /\ clock' = clock
  BY DEF Create
<1>2. CASE UNCHANGED <<file, last_created, next_key_id, fresh>>
  BY <1>1, <1>2 DEF IInv, TypeOK, TimesKnown, IdsBounded, Apart, Clean
<1>3. CASE ~ValidKey /\ NewKey(c)
  <2> DEFINE record == Record(next_key_id + 1, fresh + 1, clock)
  <2>1. /\ TypeOK /\ TimesKnown /\ IdsBounded
        /\ file = [master |-> file.master, records |-> file.records]
        /\ clock \in Nat /\ fresh \in Nat /\ next_key_id \in Nat /\ last_created \in Nat
        /\ last_created <= clock /\ next_key_id <= fresh
    BY DEF IInv, TypeOK, TimesKnown, IdsBounded
  <2>2. fresh' = fresh + 1 /\ next_key_id' = next_key_id + 1
    BY <1>3 DEF NewKey
  <2>3. record \in Rec /\ record.created_at = clock /\ record.id <= fresh + 1
    BY <2>1 DEF Record, Rec
  <2>4. Torn \in Rec /\ Torn.id <= fresh + 1
    BY <2>1 DEF Torn, Rec
  <2>5. CASE file' = [file EXCEPT !.records = Append(@, record)] /\ last_created' = clock
    <3>1. /\ file'.records = Append(file.records, record)
          /\ file' = [master |-> file'.master, records |-> file'.records]
      BY <2>1, <2>5, Zenon
    <3>2. /\ file'.records \in Seq(Rec)
          /\ Apart(file'.records)
          /\ \A i \in 1 .. Len(file'.records) : file'.records[i].created_at <= clock
          /\ \A i \in 1 .. Len(file'.records) : file'.records[i].id <= fresh + 1
      BY <1>1, <1>3, <2>3, <3>1, AppendInv
    <3>3. TypeOK'
      BY <1>1, <2>1, <2>2, <2>5, <3>1, <3>2 DEF TypeOK
    <3>4. TimesKnown'
      BY <1>1, <2>1, <2>5, <3>2 DEF TimesKnown
    <3>5. IdsBounded'
      BY <2>1, <2>2, <3>2 DEF IdsBounded
    <3> QED
      BY <3>2, <3>3, <3>4, <3>5, Zenon DEF IInv
  <2>6. CASE file' = [file EXCEPT !.records = Append(@, Torn)] /\ last_created' = last_created
    <3>1. /\ file'.records = Append(file.records, Torn)
          /\ file' = [master |-> file'.master, records |-> file'.records]
      BY <2>1, <2>6, Zenon
    <3>2. /\ file'.records \in Seq(Rec)
          /\ Apart(file'.records)
          /\ \A i \in 1 .. Len(file'.records) : file'.records[i].created_at <= clock
          /\ \A i \in 1 .. Len(file'.records) : file'.records[i].id <= fresh + 1
          /\ \A i \in 1 .. Len(file'.records) :
               Clean(file'.records, i) => file'.records[i].created_at <= last_created
      BY <1>1, <1>3, <2>4, <3>1, AppendInv
    <3>3. TypeOK'
      BY <1>1, <2>1, <2>2, <2>6, <3>1, <3>2 DEF TypeOK
    <3>4. TimesKnown'
      BY <1>1, <2>1, <2>6, <3>2 DEF TimesKnown
    <3>5. IdsBounded'
      BY <2>1, <2>2, <3>2 DEF IdsBounded
    <3> QED
      BY <3>2, <3>3, <3>4, <3>5, Zenon DEF IInv
  <2>7. CASE file' = file /\ last_created' = last_created
    <3>1. \A i \in 1 .. Len(file.records) : file.records[i].id <= fresh + 1
      <4>1. \A k \in Rec : k.id \in Nat
        BY DEF Rec
      <4>2. \A i \in 1 .. Len(file.records) : file.records[i].id \in Nat
        BY <2>1, <4>1 DEF TypeOK
      <4> QED
        BY <2>1, <4>2 DEF IdsBounded
    <3> QED
      BY <1>1, <2>1, <2>2, <2>7, <3>1 DEF IInv, TypeOK, TimesKnown, IdsBounded, Apart, Clean
  <2> QED
    BY <1>3, <2>5, <2>6, <2>7 DEF NewKey
<1> QED
  BY <1>2, <1>3 DEF Create

\* A crash leaves the file, with the record of the append it cut short or a part of it.
LEMMA CrashInv ==
  ASSUME ConstantsOK, IInv, Crash PROVE IInv'
<1>1. /\ up /\ ~up' /\ last_created' = 0 /\ next_key_id' = 0 /\ clock' = clock
      /\ file = [master |-> file.master, records |-> file.records]
      /\ clock \in Nat /\ fresh \in Nat /\ next_key_id \in Nat /\ next_key_id <= fresh
  BY DEF Crash, IInv, TypeOK, IdsBounded
<1>2. CASE UNCHANGED <<file, fresh>>
  BY <1>1, <1>2 DEF IInv, TypeOK, TimesKnown, IdsBounded, Apart, Clean
<1>3. ASSUME ~ValidKey, fresh' = fresh + 1,
             NEW r \in {Torn, Record(next_key_id + 1, fresh + 1, clock)},
             file' = [file EXCEPT !.records = Append(@, r)]
      PROVE  IInv'
  <2>1. r \in Rec /\ (r = Torn \/ r.created_at = clock) /\ r.id <= fresh + 1
    BY <1>1, <1>3 DEF Record, Torn, Rec
  <2>2. /\ file'.records = Append(file.records, r)
        /\ file' = [master |-> file'.master, records |-> file'.records]
    BY <1>1, <1>3, Zenon
  <2>3. /\ file'.records \in Seq(Rec)
        /\ Apart(file'.records)
        /\ \A i \in 1 .. Len(file'.records) : file'.records[i].created_at <= clock
        /\ \A i \in 1 .. Len(file'.records) : file'.records[i].id <= fresh + 1
    BY <1>1, <1>3, <2>1, <2>2, AppendInv
  <2>4. TypeOK'
    BY <1>1, <1>3, <2>2, <2>3 DEF TypeOK
  <2>5. TimesKnown' /\ IdsBounded'
    BY <1>1, <1>3, <2>3 DEF TimesKnown, IdsBounded
  <2> QED
    BY <2>3, <2>4, <2>5 DEF IInv
<1> QED
  BY <1>2, <1>3 DEF Crash

\* Time only makes the last key older.
LEMMA TickInv ==
  ASSUME IInv, Tick PROVE IInv'
<1>1. /\ clock' = clock + 1 /\ clock \in Nat /\ last_created \in Nat
      /\ UNCHANGED <<up, file, last_created, next_key_id, fresh>>
  BY DEF Tick, IInv, TypeOK
<1>2. \A i \in 1 .. Len(file.records) : file.records[i].created_at \in Nat
  <2>1. \A k \in Rec : k.created_at \in Nat
    BY DEF Rec
  <2> QED
    BY <2>1 DEF IInv, TypeOK
<1>3. TypeOK'
  BY <1>1 DEF IInv, TypeOK
<1>4. IdsBounded' /\ Apart(file.records)'
  BY <1>1 DEF IInv, IdsBounded, Apart, Clean
<1>5. TimesKnown'
  <2>1. last_created' <= clock'
    BY <1>1 DEF IInv, TimesKnown
  <2>2. \A i \in 1 .. Len(file'.records) : file'.records[i].created_at <= clock'
    BY <1>1, <1>2 DEF IInv, TimesKnown
  <2>3. up' => \A i \in 1 .. Len(file'.records) :
                 Clean(file'.records, i) => file'.records[i].created_at <= last_created'
    BY <1>1 DEF IInv, TimesKnown
  <2> QED
    BY <2>1, <2>2, <2>3, Zenon DEF TimesKnown
<1> QED
  BY <1>3, <1>4, <1>5, Zenon DEF IInv

\* Every step keeps the invariant.
LEMMA NextInv ==
  ASSUME ConstantsOK, IInv, [Next]_vars PROVE IInv'
<1>1. ASSUME NEW m, Open(m) PROVE IInv'
  BY <1>1, OpenInv
<1>2. ASSUME NEW c \in Caller, LatestDataKey(c) PROVE IInv'
  BY <1>2 DEF LatestDataKey, IInv, TypeOK, TimesKnown, IdsBounded, Apart, Clean
<1>3. ASSUME NEW c \in Caller, Create(c) PROVE IInv'
  BY <1>3, CreateInv
<1>4. CASE Crash
  BY <1>4, CrashInv
<1>5. CASE Tick
  BY <1>5, TickInv
<1>6. CASE UNCHANGED vars
  BY <1>6 DEF vars, IInv, TypeOK, TimesKnown, IdsBounded, Apart, Clean
<1> QED
  BY <1>1, <1>2, <1>3, <1>4, <1>5, <1>6 DEF Next

\* The invariant speaks of the records up to the first torn one, the ones that are read.
LEMMA InvGives ==
  ASSUME IInv PROVE OneKeyPerPeriod
<1>1. file.records \in Seq(Rec) /\ Apart(file.records)
  BY DEF IInv, TypeOK
<1>2. DOMAIN Readable(file.records) =
        {i \in 1 .. Len(file.records) : Clean(file.records, i)}
  BY <1>1, ReadableIs, Zenon
<1> QED
  BY <1>1, <1>2 DEF OneKeyPerPeriod, Apart

\* latest_datakey (key_registry.rs) never puts two keys of one rotation period on file:
\* whatever callers find the key too old together, whatever appends fail or are cut
\* short, and over any number of restarts, the keys that can be read back are a
\* rotation period apart.
THEOREM KeysApart ==
  ASSUME ConstantsOK PROVE Spec => []OneKeyPerPeriod
<1>1. Init => IInv
  BY InitInv
<1>2. IInv /\ [Next]_vars => IInv'
  BY NextInv
<1>3. IInv => OneKeyPerPeriod
  BY InvGives
<1> QED
  BY <1>1, <1>2, <1>3, PTL DEF Spec

-----------------------------------------------------------------------------
\* Throttle: SuccessIsReal, for any finite set of tasks and any number of permits.
CONSTANTS Task, MaxPermits
VARIABLES task, errors, opener

Thr == INSTANCE Throttle
ThrConstantsOK == IsFiniteSet(Task) /\ MaxPermits \in Nat

ThrTypeOK ==
  /\ task \in [Task -> {"new", "open", "sending", "ok", "err", "panic"}]
  /\ errors \in {0, 1}
  /\ opener \in {"acquire", "finish", "ok", "err"}

\* Until the opener gives up: no task has panicked, and an error that was sent is
\* still in the channel, where finish will find it.
ThrErrorsWait ==
  opener # "err" => \A t \in Task : task[t] # "panic" /\ (task[t] = "err" => errors = 1)

\* finish is called when every task has been spawned.
ThrAllSpawned == opener \in {"finish", "ok"} => \A t \in Task : task[t] # "new"

ThrIInv == ThrTypeOK /\ ThrErrorsWait /\ ThrAllSpawned /\ Thr!SuccessIsReal

\* When finish has all permits, no task holds one.
LEMMA ThrNobodyHolds ==
  ASSUME ThrConstantsOK, Thr!Permits >= Thr!AllPermits
  PROVE  \A t \in Task : ~Thr!Holds(t)
<1> DEFINE holders == {t \in Task : Thr!Holds(t)}
<1>1. IsFiniteSet(holders)
  BY FS_Subset DEF ThrConstantsOK
<1>2. Cardinality(holders) \in Nat
  BY <1>1, FS_CardinalityType
<1>3. MaxPermits - Cardinality(holders) >= MaxPermits
  BY Zenon DEF Thr!Permits, Thr!AllPermits, Thr!Cardinality, Cardinality
<1>4. Cardinality(holders) = 0
  BY <1>2, <1>3 DEF ThrConstantsOK
<1>5. holders = {}
  BY <1>1, <1>4, FS_EmptySet
<1> QED
  BY <1>5

\* Every step keeps the invariant.
LEMMA ThrNextInv == ASSUME ThrConstantsOK, ThrIInv, [Thr!Next]_(Thr!vars) PROVE ThrIInv'
<1> USE DEF ThrIInv, ThrTypeOK, ThrErrorsWait, ThrAllSpawned, Thr!SuccessIsReal
<1>1. CASE UNCHANGED Thr!vars
  BY <1>1 DEF Thr!vars
<1>2. ASSUME NEW t \in Task, Thr!Acquire(t) PROVE ThrIInv'
  BY <1>2 DEF Thr!Acquire
<1>3. ASSUME NEW t \in Task, Thr!TaskEnds(t) PROVE ThrIInv'
  BY <1>3 DEF Thr!TaskEnds
<1>4. ASSUME NEW t \in Task, Thr!SendError(t) PROVE ThrIInv'
  BY <1>4 DEF Thr!SendError
<1>5. CASE Thr!AcquireError
  BY <1>5 DEF Thr!AcquireError
<1>6. CASE Thr!CallFinish
  BY <1>6 DEF Thr!CallFinish
<1>7. CASE Thr!Finish
  <2>1. /\ opener = "finish" /\ Thr!Permits >= Thr!AllPermits
        /\ opener' = IF errors = 1 THEN "err" ELSE "ok"
        /\ errors' = 0 /\ task' = task
    BY <1>7 DEF Thr!Finish
  <2>2. \A t \in Task : ~Thr!Holds(t)
    BY <2>1, ThrNobodyHolds
  <2>3. errors # 1 => \A t \in Task : task[t] = "ok"
    BY <2>1, <2>2 DEF Thr!Holds
  <2> QED
    BY <2>1, <2>3
<1> QED
  BY <1>1, <1>2, <1>3, <1>4, <1>5, <1>6, <1>7 DEF Thr!Next

\* However tasks fail and in whichever order they end, the opening of tables
\* (Throttle::acquire, done_with_future, finish) does not report a success that hides a
\* table that failed to open.
THEOREM NoErrorLost == ASSUME ThrConstantsOK PROVE Thr!Spec => []Thr!SuccessIsReal
<1>1. Thr!Init => ThrIInv
  BY DEF Thr!Init, ThrIInv, ThrTypeOK, ThrErrorsWait, ThrAllSpawned, Thr!SuccessIsReal
<1>2. ThrIInv /\ [Thr!Next]_(Thr!vars) => ThrIInv'
  BY ThrNextInv
<1>3. ThrIInv => Thr!SuccessIsReal
  BY DEF ThrIInv
<1> QED
  BY <1>1, <1>2, <1>3, PTL DEF Thr!Spec

-----------------------------------------------------------------------------
\* DirLock: PidNamesHolder, for any processes, directories and pids.
CONSTANTS Proc, Dir, PidOf, ReadOnly
VARIABLES lock_pc, todo, holds, removed, flocks, pid_file, left

Loc == INSTANCE DirLock WITH pc <- lock_pc
\* What the constants are: pids are digits, and NoDir is not a directory.
LocConstantsOK ==
  /\ PidOf \in [Proc -> Seq(Nat)]
  /\ Loc!NoDir \notin Dir

LocTypeOK ==
  /\ lock_pc \in [Proc -> {"closed", "opening", "open", "closing", "crashed"}]
  /\ todo \in [Proc -> SUBSET Dir]
  /\ holds \in [Proc -> SUBSET Dir]
  /\ removed \in [Proc -> Dir \cup {Loc!NoDir}]
  /\ flocks \in [Dir -> SUBSET Proc]
  /\ pid_file \in [Dir -> Seq(Nat)]
  /\ left \in BOOLEAN

\* The guards of a process and the flocks of the kernel are the same thing.
LocLocksAgree == \A p \in Proc, d \in Dir : p \in flocks[d] <=> d \in holds[p]

\* A writer shares its directory with nobody.
LocWriterAlone ==
  \A p, q \in Proc, d \in Dir :
    d \in holds[p] /\ d \in holds[q] /\ p \notin ReadOnly => p = q

\* A guard whose pid file is gone still has its lock.
LocRemovedHeld == \A p \in Proc : removed[p] # Loc!NoDir => removed[p] \in holds[p]

\* The pid file of a directory begins with the pid of its writer; if none was left
\* behind, it is that pid, and there is one only while there is a writer.
LocFileNames ==
  \A d \in Dir :
    /\ \A p \in Proc : Loc!Writing(p, d) => Loc!BeginsWith(pid_file[d], PidOf[p])
    /\ ~left => \A p \in Proc : Loc!Writing(p, d) => pid_file[d] = PidOf[p]
    /\ ~left /\ (\A p \in Proc : ~Loc!Writing(p, d)) => pid_file[d] = Loc!NoFile

LocIInv == LocTypeOK /\ LocLocksAgree /\ LocWriterAlone /\ LocRemovedHeld /\ LocFileNames

-----------------------------------------------------------------------------
\* Writing a pid over a file, as AcquireLock does: the file then begins with the pid,
\* over no file it is the pid, and writing nothing changes nothing.
LEMMA LocOverwritten ==
  ASSUME NEW old \in Seq(Nat), NEW pid \in Seq(Nat)
  PROVE  /\ Loc!Overwrite(old, pid) \in Seq(Nat)
         /\ Loc!BeginsWith(Loc!Overwrite(old, pid), pid)
         /\ old = Loc!NoFile => Loc!Overwrite(old, pid) = pid
         /\ pid = <<>> => Loc!Overwrite(old, pid) = old
<1> DEFINE rest == SubSeq(old, Len(pid) + 1, Len(old))
<1>1. rest \in Seq(Nat)
  OBVIOUS
<1>2. pid \o rest \in Seq(Nat) /\ Len(pid \o rest) = Len(pid) + Len(rest)
  BY <1>1
<1>3. \A i \in 1 .. Len(pid) : (pid \o rest)[i] = pid[i]
  BY <1>1
<1>4. SubSeq(pid \o rest, 1, Len(pid)) = pid
  BY <1>1, <1>2, <1>3
<1>5. Loc!BeginsWith(pid \o rest, pid)
  BY <1>1, <1>2, <1>4 DEF Loc!BeginsWith
<1>6. old = Loc!NoFile => rest = <<>> /\ pid \o <<>> = pid
  BY DEF Loc!NoFile
<1>7. pid = <<>> => rest = old /\ <<>> \o old = old
  OBVIOUS
<1> QED
  BY <1>2, <1>5, <1>6, <1>7, Zenon DEF Loc!Overwrite

\* At the start nobody holds anything.
LEMMA LocInitInv == ASSUME LocConstantsOK, Loc!Init PROVE LocIInv
<1>0. Loc!NoFile \in Seq(Nat)
  BY DEF Loc!NoFile
<1>1. LocTypeOK
  BY <1>0, Zenon DEF Loc!Init, LocTypeOK
<1>2. LocLocksAgree /\ LocWriterAlone /\ LocRemovedHeld
  BY DEF Loc!Init, LocLocksAgree, LocWriterAlone, LocRemovedHeld
<1>3. LocFileNames
  BY DEF Loc!Init, LocFileNames, Loc!Writing
<1> QED
  BY <1>1, <1>2, <1>3 DEF LocIInv

-----------------------------------------------------------------------------
\* acquire_lock: only a free directory is written to.
LEMMA LocAcquireLockInv ==
  ASSUME LocConstantsOK, LocIInv, NEW p \in Proc, NEW d \in Dir, Loc!AcquireLock(p, d)
  PROVE  LocIInv'
<1> USE DEF LocConstantsOK
<1>t. LocTypeOK /\ LocLocksAgree /\ LocWriterAlone /\ LocRemovedHeld /\ LocFileNames
  BY DEF LocIInv
<1>s. \A n \in 0 .. Len(PidOf[p]) : SubSeq(PidOf[p], 1, n) \in Seq(Nat)
  OBVIOUS
<1>1. CASE /\ Loc!CanLock(p, d)
           /\ flocks' = [flocks EXCEPT ![d] = @ \cup {p}]
           /\ holds' = [holds EXCEPT ![p] = @ \cup {d}]
           /\ todo' = [todo EXCEPT ![p] = @ \ {d}]
           /\ pid_file' = IF p \in ReadOnly THEN pid_file
                          ELSE [pid_file EXCEPT ![d] = Loc!Overwrite(@, PidOf[p])]
           /\ lock_pc' = IF todo[p] = {d} THEN [lock_pc EXCEPT ![p] = "open"] ELSE lock_pc
           /\ UNCHANGED <<left, removed>>
  <2>1. LocTypeOK'
    BY <1>1, <1>t, LocOverwritten DEF LocTypeOK
  <2>2. LocLocksAgree'
    BY <1>1, <1>t DEF LocTypeOK, LocLocksAgree
  <2>3. \A q \in Proc : d \in holds[q] => p \in ReadOnly /\ q \in ReadOnly
    BY <1>1, <1>t DEF LocLocksAgree, Loc!CanLock, LocTypeOK
  <2>4. LocWriterAlone'
    BY <1>1, <1>t, <2>3 DEF LocTypeOK, LocWriterAlone
  <2>5. LocRemovedHeld'
    BY <1>1, <1>t DEF LocTypeOK, LocRemovedHeld
  <2>6. removed[p] # d \/ p \in ReadOnly
    BY <1>t, <2>3 DEF LocRemovedHeld, LocTypeOK
  <2>7. \A q \in Proc, e \in Dir :
          Loc!Writing(q, e)' <=> Loc!Writing(q, e) \/ (q = p /\ e = d /\ p \notin ReadOnly)
    BY <1>1, <1>t, <2>6 DEF Loc!Writing, LocTypeOK
  <2>8. \A q \in Proc : ~Loc!Writing(q, d)
    BY <2>3 DEF Loc!Writing
  <2>9. LocFileNames'
    <3>1. CASE p \in ReadOnly
      BY <3>1, <1>1, <1>t, <2>7 DEF LocFileNames
    <3>2. CASE p \notin ReadOnly
      <4>1. pid_file[d] \in Seq(Nat) /\ PidOf[p] \in Seq(Nat)
        BY <1>t DEF LocTypeOK
      <4>2. /\ pid_file'[d] = Loc!Overwrite(pid_file[d], PidOf[p])
            /\ \A e \in Dir \ {d} : pid_file'[e] = pid_file[e]
        BY <1>1, <1>t, <3>2 DEF LocTypeOK
      <4>3. Loc!BeginsWith(pid_file'[d], PidOf[p]) /\ (~left => pid_file'[d] = PidOf[p])
        BY <4>1, <4>2, <2>8, <1>t, LocOverwritten DEF LocFileNames
      <4>4. \A q \in Proc : Loc!Writing(q, d)' <=> q = p
        BY <2>7, <2>8, <3>2
      <4>5. \A q \in Proc, e \in Dir \ {d} : Loc!Writing(q, e)' <=> Loc!Writing(q, e)
        BY <2>7
      <4>6. \A e \in Dir \ {d} :
              /\ \A q \in Proc : Loc!Writing(q, e)' => Loc!BeginsWith(pid_file'[e], PidOf[q])
              /\ ~left => \A q \in Proc : Loc!Writing(q, e)' => pid_file'[e] = PidOf[q]
              /\ ~left /\ (\A q \in Proc : ~Loc!Writing(q, e)') => pid_file'[e] = Loc!NoFile
        BY <4>2, <4>5, <1>t DEF LocFileNames
      <4>7. left' = left
        BY <1>1
      <4> QED
        BY <4>3, <4>4, <4>6, <4>7 DEF LocFileNames
    <3> QED
      BY <3>1, <3>2
  <2> QED
    BY <2>1, <2>2, <2>4, <2>5, <2>9 DEF LocIInv
<1>2. CASE /\ pid_file' = pid_file /\ left' = left
           /\ lock_pc' = [lock_pc EXCEPT ![p] = "closing"]
           /\ todo' = [todo EXCEPT ![p] = {}]
           /\ UNCHANGED <<flocks, holds, removed>>
  BY <1>2, <1>t
     DEF LocIInv, LocTypeOK, LocLocksAgree, LocWriterAlone, LocRemovedHeld, LocFileNames, Loc!Writing
<1>3. CASE /\ Loc!CanLock(p, d) /\ p \notin ReadOnly
           /\ \E n \in 0 .. Len(PidOf[p]) :
                /\ pid_file' = [pid_file EXCEPT ![d] = Loc!Overwrite(@, SubSeq(PidOf[p], 1, n))]
                /\ left' = (left \/ n > 0)
           /\ lock_pc' = [lock_pc EXCEPT ![p] = "closing"]
           /\ todo' = [todo EXCEPT ![p] = {}]
           /\ UNCHANGED <<flocks, holds, removed>>
  <2>1. PICK n \in 0 .. Len(PidOf[p]) :
          /\ pid_file' = [pid_file EXCEPT ![d] = Loc!Overwrite(@, SubSeq(PidOf[p], 1, n))]
          /\ left' = (left \/ n > 0)
    BY <1>3, Zenon
  <2>2. SubSeq(PidOf[p], 1, n) \in Seq(Nat) /\ pid_file[d] \in Seq(Nat)
    BY <1>s, <1>t DEF LocTypeOK
  <2>3. LocTypeOK'
    BY <1>3, <1>t, <2>1, <2>2, LocOverwritten, Zenon DEF LocTypeOK
  <2>4. (LocLocksAgree /\ LocWriterAlone /\ LocRemovedHeld)'
    BY <1>3, <1>t DEF LocLocksAgree, LocWriterAlone, LocRemovedHeld
  <2>5. \A q \in Proc, e \in Dir : Loc!Writing(q, e)' <=> Loc!Writing(q, e)
    BY <1>3 DEF Loc!Writing
  <2>6. \A q \in Proc : ~Loc!Writing(q, d)
    BY <1>3, <1>t, Zenon DEF LocLocksAgree, Loc!CanLock, Loc!Writing
  <2>7. \A e \in Dir \ {d} : pid_file'[e] = pid_file[e]
    BY <2>1, <1>t DEF LocTypeOK
  <2>8. ~left' => ~left /\ pid_file'[d] = pid_file[d]
    <3>1. ~left' => n = 0
      <4>1. ~left' => ~(n > 0)
        BY <2>1, Zenon
      <4>2. ~(n > 0) => n = 0
        OBVIOUS
      <4> QED
        BY <4>1, <4>2
    <3>2. n = 0 => SubSeq(PidOf[p], 1, n) = <<>>
      <4>1. \A s \in Seq(Nat) : SubSeq(s, 1, 0) \in Seq(Nat) /\ Len(SubSeq(s, 1, 0)) = 0
        OBVIOUS
      <4>2. \A s \in Seq(Nat) : Len(s) = 0 => s = <<>>
        OBVIOUS
      <4>3. PidOf[p] \in Seq(Nat)
        OBVIOUS
      <4> QED
        BY <4>1, <4>2, <4>3
    <3>3. pid_file'[d] = Loc!Overwrite(pid_file[d], SubSeq(PidOf[p], 1, n))
      BY <2>1, <1>t DEF LocTypeOK
    <3>4. ~left' => ~left
      BY <2>1, Zenon
    <3> QED
      BY <3>1, <3>2, <3>3, <3>4, <2>2, LocOverwritten, Zenon
  <2>9. LocFileNames'
    BY <1>t, <2>5, <2>6, <2>7, <2>8 DEF LocFileNames
  <2> QED
    BY <2>3, <2>4, <2>9 DEF LocIInv
<1> QED
  BY <1>1, <1>2, <1>3 DEF Loc!AcquireLock

\* The first half of a guard's drop: the pid file goes, or is left behind.
LEMMA LocRemovePidInv ==
  ASSUME LocConstantsOK, LocIInv, NEW p \in Proc, NEW d \in Dir, Loc!RemovePid(p, d)
  PROVE  LocIInv'
<1>t. LocTypeOK /\ LocLocksAgree /\ LocWriterAlone /\ LocRemovedHeld /\ LocFileNames
  BY DEF LocIInv
<1>p. /\ removed[p] = Loc!NoDir /\ d \in holds[p]
      /\ removed' = [removed EXCEPT ![p] = d]
      /\ UNCHANGED <<lock_pc, todo, holds, flocks>>
      /\ Loc!NoDir \notin Dir
  BY DEF Loc!RemovePid, LocConstantsOK
<1>f. \/ /\ pid_file' = IF p \in ReadOnly THEN pid_file ELSE [pid_file EXCEPT ![d] = Loc!NoFile]
         /\ left' = left
      \/ p \notin ReadOnly /\ left' = TRUE /\ pid_file' = pid_file
  BY DEF Loc!RemovePid
<1>n. Loc!NoFile \in Seq(Nat)
  BY DEF Loc!NoFile
<1>1. LocTypeOK'
  <2>1. pid_file' \in [Dir -> Seq(Nat)]
    <3>1. pid_file \in [Dir -> Seq(Nat)]
      BY <1>t DEF LocTypeOK
    <3>2. [pid_file EXCEPT ![d] = Loc!NoFile] \in [Dir -> Seq(Nat)]
      BY <1>n, <3>1
    <3> QED
      BY <1>f, <3>1, <3>2
  <2>2. left' \in BOOLEAN
    BY <1>t, <1>f, Zenon DEF LocTypeOK
  <2>3. removed' \in [Proc -> Dir \cup {Loc!NoDir}]
    BY <1>t, <1>p DEF LocTypeOK
  <2>4. /\ lock_pc' \in [Proc -> {"closed", "opening", "open", "closing", "crashed"}]
        /\ todo' \in [Proc -> SUBSET Dir]
        /\ holds' \in [Proc -> SUBSET Dir]
        /\ flocks' \in [Dir -> SUBSET Proc]
    BY <1>t, <1>p DEF LocTypeOK
  <2> QED
    BY <2>1, <2>2, <2>3, <2>4, Zenon DEF LocTypeOK
<1>2. (LocLocksAgree /\ LocWriterAlone /\ LocRemovedHeld)'
  BY <1>t, <1>p DEF LocTypeOK, LocLocksAgree, LocWriterAlone, LocRemovedHeld
<1>3. \A q \in Proc, e \in Dir :
        Loc!Writing(q, e)' <=> Loc!Writing(q, e) /\ ~(q = p /\ e = d)
  BY <1>t, <1>p DEF Loc!Writing, LocTypeOK
<1>4. p \notin ReadOnly => \A q \in Proc : ~Loc!Writing(q, d)'
  BY <1>3, <1>t, <1>p DEF LocWriterAlone, Loc!Writing
<1>5. LocFileNames'
  <2>1. CASE p \in ReadOnly
    <3>1. \A q \in Proc, e \in Dir : Loc!Writing(q, e)' <=> Loc!Writing(q, e)
      BY <1>3, <2>1 DEF Loc!Writing
    <3> QED
      BY <3>1, <2>1, <1>t, <1>f DEF LocFileNames
  <2>2. CASE p \notin ReadOnly
    <3>1. \A e \in Dir \ {d} : pid_file'[e] = pid_file[e]
      BY <1>f, <1>t DEF LocTypeOK
    <3>2. ~left' => ~left /\ pid_file'[d] = Loc!NoFile
      BY <1>f, <1>t, <2>2 DEF LocTypeOK
    <3>3. \A q \in Proc, e \in Dir \ {d} : Loc!Writing(q, e)' <=> Loc!Writing(q, e)
      BY <1>3
    <3>4. \A e \in Dir \ {d} :
            /\ \A q \in Proc : Loc!Writing(q, e)' => Loc!BeginsWith(pid_file'[e], PidOf[q])
            /\ ~left' => \A q \in Proc : Loc!Writing(q, e)' => pid_file'[e] = PidOf[q]
            /\ ~left' /\ (\A q \in Proc : ~Loc!Writing(q, e)') => pid_file'[e] = Loc!NoFile
      BY <3>1, <3>2, <3>3, <1>t DEF LocFileNames
    <3> QED
      BY <3>2, <3>4, <1>4, <2>2 DEF LocFileNames
  <2> QED
    BY <2>1, <2>2
<1> QED
  BY <1>1, <1>2, <1>5 DEF LocIInv

\* The second half: the lock goes.
LEMMA LocUnlockInv ==
  ASSUME LocConstantsOK, LocIInv, NEW p \in Proc, Loc!Unlock(p)
  PROVE  LocIInv'
<1> DEFINE d == removed[p]
<1>t. LocTypeOK /\ LocLocksAgree /\ LocWriterAlone /\ LocRemovedHeld /\ LocFileNames
  BY DEF LocIInv
<1>p. /\ d # Loc!NoDir /\ d \in Dir
      /\ flocks' = [flocks EXCEPT ![d] = @ \ {p}]
      /\ holds' = [holds EXCEPT ![p] = @ \ {d}]
      /\ removed' = [removed EXCEPT ![p] = Loc!NoDir]
      /\ UNCHANGED <<lock_pc, todo, pid_file, left>>
  BY <1>t DEF Loc!Unlock, LocTypeOK
<1>c. Loc!NoDir \notin Dir
  BY DEF LocConstantsOK
<1> HIDE DEF d
<1>1. LocTypeOK'
  BY <1>t, <1>p DEF LocTypeOK
<1>2. (LocLocksAgree /\ LocWriterAlone /\ LocRemovedHeld)'
  BY <1>t, <1>p, <1>c DEF LocTypeOK, LocLocksAgree, LocWriterAlone, LocRemovedHeld
<1>3. \A q \in Proc, e \in Dir : Loc!Writing(q, e)' <=> Loc!Writing(q, e)
  BY <1>t, <1>p, <1>c DEF Loc!Writing, LocTypeOK, d
<1>4. LocFileNames'
  BY <1>t, <1>p, <1>3 DEF LocFileNames
<1> QED
  BY <1>1, <1>2, <1>4 DEF LocIInv

\* A crash takes the locks and leaves the pid files.
LEMMA LocCrashInv ==
  ASSUME LocConstantsOK, LocIInv, NEW p \in Proc, Loc!Crash(p)
  PROVE  LocIInv'
<1>t. LocTypeOK /\ LocLocksAgree /\ LocWriterAlone /\ LocRemovedHeld /\ LocFileNames
  BY DEF LocIInv
<1>p. /\ holds' = [holds EXCEPT ![p] = {}]
      /\ removed' = [removed EXCEPT ![p] = Loc!NoDir]
      /\ todo' = [todo EXCEPT ![p] = {}]
      /\ lock_pc' = [lock_pc EXCEPT ![p] = "crashed"]
      /\ flocks' = [e \in Dir |-> flocks[e] \ {p}]
      /\ left' = (left \/ holds[p] # {})
      /\ pid_file' = pid_file
  BY DEF Loc!Crash
<1>1. LocTypeOK'
  BY <1>t, <1>p DEF LocTypeOK
<1>2. (LocLocksAgree /\ LocWriterAlone /\ LocRemovedHeld)'
  BY <1>t, <1>p DEF LocTypeOK, LocLocksAgree, LocWriterAlone, LocRemovedHeld
<1>3. \A q \in Proc, e \in Dir : Loc!Writing(q, e)' => Loc!Writing(q, e)
  BY <1>t, <1>p DEF Loc!Writing, LocTypeOK
<1>4. ~left' => ~left /\ \A q \in Proc, e \in Dir : Loc!Writing(q, e)' <=> Loc!Writing(q, e)
  BY <1>t, <1>p, Zenon DEF Loc!Writing, LocTypeOK
<1>5. LocFileNames'
  BY <1>t, <1>p, <1>3, <1>4 DEF LocFileNames
<1> QED
  BY <1>1, <1>2, <1>5 DEF LocIInv

-----------------------------------------------------------------------------
\* Every step keeps the invariant.
LEMMA LocNextInv == ASSUME LocConstantsOK, LocIInv, [Loc!Next]_(Loc!vars) PROVE LocIInv'
<1>1. CASE UNCHANGED Loc!vars
  BY <1>1 DEF Loc!vars, LocIInv, LocTypeOK, LocLocksAgree, LocWriterAlone, LocRemovedHeld, LocFileNames, Loc!Writing
<1>2. ASSUME NEW p \in Proc, Loc!TryBuild(p) \/ Loc!Close(p) \/ Loc!Closed(p)
      PROVE  LocIInv'
  <2>1. /\ UNCHANGED <<holds, removed, flocks, pid_file, left>>
        /\ \E s \in {"opening", "closing", "closed"} : lock_pc' = [lock_pc EXCEPT ![p] = s]
        /\ todo' = todo \/ todo' = [todo EXCEPT ![p] = Dir]
    BY <1>2 DEF Loc!TryBuild, Loc!Close, Loc!Closed
  <2>2. LocTypeOK'
    <3>1. lock_pc' \in [Proc -> {"closed", "opening", "open", "closing", "crashed"}]
      BY <2>1 DEF LocIInv, LocTypeOK
    <3>2. todo' \in [Proc -> SUBSET Dir]
      BY <2>1 DEF LocIInv, LocTypeOK
    <3> QED
      BY <2>1, <3>1, <3>2 DEF LocIInv, LocTypeOK
  <2>3. (LocLocksAgree /\ LocWriterAlone /\ LocRemovedHeld /\ LocFileNames)'
    BY <2>1 DEF LocIInv, LocLocksAgree, LocWriterAlone, LocRemovedHeld, LocFileNames, Loc!Writing
  <2> QED
    BY <2>2, <2>3 DEF LocIInv
<1>3. ASSUME NEW p \in Proc, Loc!Unlock(p) PROVE LocIInv'
  BY <1>3, LocUnlockInv
<1>4. ASSUME NEW p \in Proc, Loc!Crash(p) PROVE LocIInv'
  BY <1>4, LocCrashInv
<1>5. ASSUME NEW p \in Proc, NEW d \in Dir, Loc!AcquireLock(p, d) PROVE LocIInv'
  BY <1>5, LocAcquireLockInv
<1>6. ASSUME NEW p \in Proc, NEW d \in Dir, Loc!RemovePid(p, d) PROVE LocIInv'
  BY <1>6, LocRemovePidInv
<1> QED
  BY <1>1, <1>2, <1>3, <1>4, <1>5, <1>6 DEF Loc!Next

\* What the invariant says of the flocks and of the pid files.
LEMMA LocInvGives == ASSUME LocIInv PROVE Loc!PidNamesHolder
<1>1. SUFFICES ASSUME NEW p \in Proc, NEW d \in Dir, Loc!Writing(p, d)
               PROVE  /\ flocks[d] = {p}
                      /\ \A q \in Proc \ {p} : d \notin holds[q]
                      /\ Loc!BeginsWith(pid_file[d], PidOf[p])
                      /\ ~left => pid_file[d] = PidOf[p]
  BY DEF Loc!PidNamesHolder
<1>2. \A q \in Proc \ {p} : d \notin holds[q]
  BY <1>1 DEF LocIInv, LocWriterAlone, Loc!Writing
<1>3. flocks[d] = {p}
  BY <1>1, <1>2 DEF LocIInv, LocLocksAgree, LocTypeOK, Loc!Writing
<1>4. Loc!BeginsWith(pid_file[d], PidOf[p]) /\ (~left => pid_file[d] = PidOf[p])
  BY <1>1 DEF LocIInv, LocFileNames
<1> QED
  BY <1>2, <1>3, <1>4

\* However processes open, fail, close and crash (try_build, acquire_lock, drop), a
\* directory open for writing is held by one process, and its pid file names it.
THEOREM PidFileIsRight == ASSUME LocConstantsOK PROVE Loc!Spec => []Loc!PidNamesHolder
<1>1. Loc!Init => LocIInv
  BY LocInitInv
<1>2. LocIInv /\ [Loc!Next]_(Loc!vars) => LocIInv'
  BY LocNextInv
<1>3. LocIInv => Loc!PidNamesHolder
  BY LocInvGives
<1> QED
  BY <1>1, <1>2, <1>3, PTL DEF Loc!Spec
=============================================================================
