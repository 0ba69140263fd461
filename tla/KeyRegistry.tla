----------------------------- MODULE KeyRegistry -----------------------------
\* The key registry (key_registry.rs): data keys with which tables and logs are
\* encrypted, a new one every rotation period, each appended to a file that is read
\* back at the next opening.  A record holds the id, the key and the time; a torn
\* one makes the reader lose its place, so that it finds no record after it.
EXTENDS Integers, Sequences, FiniteSets, FiniteSetsExt, Functions

CONSTANTS Caller,
          Master,          \* encryption keys; NoMaster is none
          NoMaster,
          Rotation,        \* data_key_rotation_duration
          MaxClock, MaxKey, MaxOpens

VARIABLES up,              \* a registry is open
          file,            \* [master, records], or NoFile
          master, data_keys, last_created, next_key_id,   \* KeyRegistryInner
          pc,              \* caller -> "idle" or "write": between the two locks
          clock, opens,
          fresh,           \* the number of keys generated
          issued           \* the keys given to callers

vars == <<up, file, master, data_keys, last_created, next_key_id, pc, clock, opens,
          fresh, issued>>

NoFile == [master |-> "no file", records |-> <<>>]
Torn == [id |-> 0, key |-> 0, created_at |-> 0]

\* store_data_key: the record of a key.
Record(id, key, created_at) == [id |-> id, key |-> key, created_at |-> created_at]

Init ==
  /\ up = FALSE
  /\ file = NoFile
  /\ master = NoMaster /\ data_keys = <<>> /\ last_created = 0 /\ next_key_id = 0
  /\ pc = [c \in Caller |-> "idle"]
  /\ clock = Rotation /\ opens = 0
  /\ fresh = 0
  /\ issued = {}

\* KeyRegistryIter: the records before the first torn one.
Readable(records) ==
  LET torn == {i \in DOMAIN records : records[i] = Torn}
  IN IF torn = {} THEN records ELSE SubSeq(records, 1, Min(torn) - 1)

\* Variant: reading counts the records instead of taking the greatest id.
ReadCount(records) ==
  LET r == Range(records) IN
  [next_key_id |-> IF records = <<>> THEN 0 ELSE Len(records) - 1,
   last_created |-> Max({0} \cup {k.created_at : k \in r}),
   data_keys |-> [i \in {k.id : k \in r} |->
                    records[Max({j \in DOMAIN records : records[j].id = i})].key]]

\* read: what a registry holds after reading the records.
Read(records) ==
  LET r == Range(records) IN
  [next_key_id |-> Max({0} \cup {k.id : k \in r}),
   last_created |-> Max({0} \cup {k.created_at : k \in r}),
   data_keys |-> [i \in {k.id : k \in r} |->
                    records[Max({j \in DOMAIN records : records[j].id = i})].key]]

Load(m, records) ==
  LET r == Read(Readable(records)) IN
  /\ up' = TRUE
  /\ master' = m
  /\ next_key_id' = r.next_key_id
  /\ last_created' = r.last_created
  /\ data_keys' = r.data_keys

\* write_to_file: the file is written beside and renamed, or that fails and there is
\* none.
WriteToFile(m) == file = NoFile /\ file' = [master |-> m, records |-> <<>>]

\* valid: the sanity text of the file decrypts, to the same text.
Valid(m) == file # NoFile /\ file.master = m

Open(m) ==
  /\ ~up /\ opens < MaxOpens
  /\ opens' = opens + 1
  /\ \/ /\ WriteToFile(m)
        /\ Load(m, <<>>)
     \/ /\ Valid(m)
        /\ Load(m, file.records)
        /\ UNCHANGED file
     \/ /\ ~Valid(m)
        /\ UNCHANGED <<up, file, master, data_keys, last_created, next_key_id>>
  /\ UNCHANGED <<pc, clock, fresh, issued>>

ValidKey == clock >= last_created /\ clock - last_created < Rotation

\* latest_datakey gives the caller a key: its id, and the key or 0 for None, and
\* whether every record before it can be read.
Whole == \A i \in DOMAIN file.records : file.records[i] # Torn
Give(id, key) == issued' = issued \cup {[id |-> id, key |-> key, whole |-> Whole]}
GiveLatest ==
  Give(next_key_id, IF next_key_id \in DOMAIN data_keys THEN data_keys[next_key_id] ELSE 0)

\* Under the read lock.
LatestDataKey(c) ==
  /\ up /\ pc[c] = "idle" /\ master # NoMaster
  /\ IF ValidKey
     THEN GiveLatest /\ UNCHANGED pc
     ELSE pc' = [pc EXCEPT ![c] = "write"] /\ UNCHANGED issued
  /\ UNCHANGED <<up, file, master, data_keys, last_created, next_key_id, clock, opens, fresh>>

\* A new key: the id is taken first; if the append fails, with nothing or with a part
\* of the record in the file, the caller gets the error.
NewKey(c) ==
  LET id == next_key_id + 1
      record == Record(id, fresh + 1, clock)
  IN /\ fresh < MaxKey
     /\ fresh' = fresh + 1
     /\ next_key_id' = id
     /\ \/ /\ file' = [file EXCEPT !.records = Append(@, record)]
           /\ last_created' = clock
           /\ data_keys' = [i \in DOMAIN data_keys \cup {id} |->
                              IF i = id THEN record.key ELSE data_keys[i]]
           /\ Give(id, record.key)
        \/ /\ \/ file' = [file EXCEPT !.records = Append(@, Torn)]
              \/ file' = file
           /\ UNCHANGED <<last_created, data_keys, issued>>

\* Variant: the key is not looked for again under the write lock.
CreateUnchecked(c) ==
  /\ up /\ pc[c] = "write"
  /\ pc' = [pc EXCEPT ![c] = "idle"]
  /\ NewKey(c)
  /\ UNCHANGED <<up, master, clock, opens>>

\* Under the write lock, where another caller may have been in the meantime.
Create(c) ==
  /\ up /\ pc[c] = "write"
  /\ pc' = [pc EXCEPT ![c] = "idle"]
  /\ \/ ValidKey /\ GiveLatest
        /\ UNCHANGED <<file, data_keys, last_created, next_key_id, fresh>>
     \/ ~ValidKey /\ NewKey(c)
  /\ UNCHANGED <<up, master, clock, opens>>

\* The process ends, in the midst of an append or not.
Crash ==
  /\ up
  /\ up' = FALSE
  /\ master' = NoMaster /\ data_keys' = <<>> /\ last_created' = 0 /\ next_key_id' = 0
  /\ pc' = [c \in Caller |-> "idle"]
  /\ \/ UNCHANGED <<file, fresh>>
     \/ /\ \E c \in Caller : pc[c] = "write"
        /\ ~ValidKey /\ fresh < MaxKey
        /\ fresh' = fresh + 1
        /\ \E r \in {Torn, Record(next_key_id + 1, fresh + 1, clock)} :
             file' = [file EXCEPT !.records = Append(@, r)]
  /\ UNCHANGED <<clock, opens, issued>>

Tick ==
  /\ clock < MaxClock
  /\ clock' = clock + 1
  /\ UNCHANGED <<up, file, master, data_keys, last_created, next_key_id, pc, opens, fresh, issued>>

Next ==
  \/ \E m \in Master \cup {NoMaster} : Open(m)
  \/ \E c \in Caller : LatestDataKey(c) \/ Create(c)
  \/ Crash
  \/ Tick

Spec == Init /\ [][Next]_vars

-----------------------------------------------------------------------------
\* get_data_key finds, in this opening and in every later one, the key that was given
\* out under an id, so that what was encrypted with it can be read: for the keys
\* whose record no torn one precedes in the file.  And a caller is never given None
\* (for which it would write plain text) by a registry that has an encryption key.
KeysKept ==
  \A k \in issued :
    /\ k.key # 0
    /\ up /\ k.whole => k.id \in DOMAIN data_keys /\ data_keys[k.id] = k.key

\* Callers that find the key too old at the same time do not each create one: the
\* keys on file are a rotation period apart, over restarts too, up to the first torn
\* record.
OneKeyPerPeriod ==
  \A i, j \in DOMAIN Readable(file.records) :
    i < j => file.records[j].created_at >= file.records[i].created_at + Rotation
=============================================================================
