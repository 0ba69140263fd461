------------------------------- MODULE MCParts -------------------------------
\* The parts of Mors that work by themselves, one of them in every behaviour: the skip
\* list, the table, the merge iterator, the key registry, the publisher, the throttle
\* and the directory locks.  Since only one part runs, they share the variables v1,
\* v2, ...; those a part does not use stay empty.
EXTENDS Integers, Sequences, FiniteSets

VARIABLES which, v1, v2, v3, v4, v5, v6, v7, v8, v9, v10, v11, v12, v13, v14, v15, v16,
          v17, v18, v19

upTo3 == <<v1, v2, v3>>
upTo4 == <<upTo3, v4>>
upTo7 == <<upTo4, v5, v6, v7>>
upTo9 == <<upTo7, v8, v9>>
upTo11 == <<upTo9, v10, v11>>
upTo19 == <<upTo11, v12, v13, v14, v15, v16, v17, v18, v19>>
from12 == <<v12, v13, v14, v15, v16, v17, v18, v19>>
from10 == <<v10, v11, from12>>
from8 == <<v8, v9, from10>>
from5 == <<v5, v6, v7, from8>>
from4 == <<v4, from5>>

NoneOf12 == v12 = <<>> /\ v13 = <<>> /\ v14 = <<>> /\ v15 = <<>> /\ v16 = <<>>
              /\ v17 = <<>> /\ v18 = <<>> /\ v19 = <<>>
NoneOf10 == v10 = <<>> /\ v11 = <<>> /\ NoneOf12
NoneOf8 == v8 = <<>> /\ v9 = <<>> /\ NoneOf10
NoneOf5 == v5 = <<>> /\ v6 = <<>> /\ v7 = <<>> /\ NoneOf8
NoneOf4 == v4 = <<>> /\ NoneOf5

-----------------------------------------------------------------------------
\* Three keys, each pushed at every height and pushed again with another value.
SkipL == INSTANCE SkipList
           WITH Key <- 1 .. 3, Value <- {1, 2}, MaxHeight <- 3, MaxKey <- 9,
                tower <- v1, prev <- v2, value <- v3, height <- v4, spins <- v5,
                pushed <- v6, node <- v7, node_back <- v8, ref <- v9, said <- v10,
                overran <- v11

\* Tables of two and three blocks: two versions of a key in one block and in two, keys
\* that are prefixes of others, and overlaps that grow, shrink and run into the
\* timestamp of the base key.
TableKeys ==
  {<< <<5, 3>>, <<5, 5, 2>>, <<5, 5, 1>>, <<5, 6, 6, 1>>, <<6, 2>> >>,
   << <<5, 1>>, <<5, 5, 6, 1>>, <<5, 6, 6, 1>>, <<5, 6, 6, 5, 1>>,
      <<6, 6, 6, 6, 6, 6, 6, 6, 1>> >>,
   << <<5, 5, 5, 1>>, <<5, 6, 6, 2>>, <<5, 6, 6, 1>>, <<6, 1>> >>,
   << <<5, 5, 2>>, <<5, 5, 1>>, <<5, 5, 2, 6, 1>>, <<5, 6, 6, 1>> >>}
SoughtKeys == {<<4, 1>>, <<5, 3>>, <<5, 5, 2>>, <<5, 5, 0>>, <<5, 5, 2, 9>>, <<5, 5, 9>>,
               <<5, 6, 6, 1>>, <<6, 1>>}

SST == INSTANCE SSTable
         WITH Contents <- TableKeys, SeekKeys <- SoughtKeys, TsLen <- 1, BlockSize <- 15,
              Modes <- {"NoVerification", "OnTableRead", "OnBlockRead", "OnTableAndBlockRead"},
              phase <- v1, mode <- v2, blocks <- v3, rotten <- v4, cache <- v5, fwd <- v6,
              bwd <- v7, ref <- v8, said <- v9

\* Every one to three tables of keys 1 to 3, and some longer sequences.  With
\* bottom tables the compaction seeks first, which fails.
TopTables ==
  UNION {[1 .. n -> (SUBSET (1 .. 3)) \ {{}}] : n \in 1 .. 3}
    \cup {<<{1}, {2}, {3}, {1, 2}, {4}, {2, 3}, {5}>>,
          <<{5}, {4}, {3}, {2}, {1}, {1, 5}, {2, 4}>>,
          <<{1, 2}, {2, 3}, {3, 4}, {4, 5}, {1, 5}>>}

Mer == INSTANCE MergeIter
         WITH Tops <- TopTables, Bottoms <- {<<>>},
              nodes <- v1, merge <- v2, ref <- v3, said <- v4

\* Two callers; time for three rotations, three openings.
Reg == INSTANCE KeyRegistry
         WITH Caller <- {1, 2}, Master <- {"A"}, NoMaster <- "none", Rotation <- 2,
              MaxClock <- 6, MaxKey <- 3, MaxOpens <- 3,
              up <- v1, file <- v2, master <- v3, data_keys <- v4, last_created <- v5,
              next_key_id <- v6, pc <- v7, clock <- v8, opens <- v9, fresh <- v10,
              issued <- v11

\* Two subscribers: both plain; one that ignores a byte; one with a match that does
\* not parse after one that does.
Ask(p) == [prefix |-> p, ignore |-> {}]
MatchSets ==
  {[a |-> <<Ask(<<1>>), Ask(<<1, 2>>)>>, b |-> <<Ask(<<>>)>>],
   [a |-> <<Ask(<<1>>)>>, b |-> <<[prefix |-> <<7, 2>>, ignore |-> {1}]>>],
   [a |-> <<Ask(<<1>>)>>, b |-> <<Ask(<<1>>), [prefix |-> <<1>>, ignore |-> {0}]>>]}

Pub == INSTANCE Publisher
         WITH Sub <- {"a", "b"}, Matches <- MatchSets, Cap <- 2, SubCap <- 1,
              Updates <- << <<1, 2>>, <<2, 1>>, <<1, 1>>, <<1, 2>> >>,
              lock <- v1, wpc <- v2, sent <- v3, chan <- v4, lpc <- v5, batch <- v6,
              to <- v7, trie <- v8, subscribers <- v9, spc <- v10, schan <- v11,
              active <- v12, signalled <- v13, done <- v14, match <- v15, closing <- v16,
              offered <- v17, start <- v18, got <- v19

Thr == INSTANCE Throttle
         WITH Task <- 1 .. 5, MaxPermits <- 3, task <- v1, errors <- v2, opener <- v3

\* Two writers, one with the longer pid, a reader, two directories.
Loc == INSTANCE DirLock
         WITH Proc <- {1, 2, 3}, Dir <- {"dir", "value_dir"},
              PidOf <- << <<1, 2>>, <<3>>, <<4>> >>, ReadOnly <- {3},
              pc <- v1, todo <- v2, holds <- v3, removed <- v4, flocks <- v5,
              pid_file <- v6, left <- v7

-----------------------------------------------------------------------------
MCInit ==
  \/ which = "skip_list" /\ SkipL!Init /\ NoneOf12
  \/ which = "table" /\ SST!Init /\ NoneOf10
  \/ which = "merge" /\ Mer!Init /\ NoneOf5
  \/ which = "registry" /\ Reg!Init /\ NoneOf12
  \/ which = "publisher" /\ Pub!Init
  \/ which = "throttle" /\ Thr!Init /\ NoneOf4
  \/ which = "lock" /\ Loc!Init /\ NoneOf8

MCNext ==
  /\ UNCHANGED which
  /\ \/ which = "skip_list" /\ SkipL!Next /\ UNCHANGED from12
     \/ which = "table" /\ SST!Next /\ UNCHANGED from10
     \/ which = "merge" /\ Mer!Next /\ UNCHANGED from5
     \/ which = "registry" /\ Reg!Next /\ UNCHANGED from12
     \/ which = "publisher" /\ Pub!Next
     \/ which = "throttle" /\ Thr!Next /\ UNCHANGED from4
     \/ which = "lock" /\ Loc!Next /\ UNCHANGED from8

MCSpec == MCInit /\ [][MCNext]_<<which, upTo19>>

\* Every search of a skip list finds what a search of the sorted keys finds, after any
\* pushes and whatever heights were drawn (SkipList).
SearchAgrees == which = "skip_list" => SkipL!SearchAgrees

\* The iterators of a skip list and of a table answer next, next_back and seek as a
\* cursor over the sorted entries does (SkipList, SSTable).
CursorsAgree ==
  /\ which = "skip_list" => SkipL!CursorAgrees
  /\ which = "table" => SST!CursorAgrees

\* A compaction's merge over a power of two of iterators yields every entry of its top
\* tables once and in order (MergeIter).
MergeAgrees == which = "merge" => Mer!MergeAgrees

\* A data key that was given out is found again under its id, in every later opening
\* too, if no torn record precedes its own (KeyRegistry).
KeysKept == which = "registry" => Reg!KeysKept

\* Concurrent callers never create two data keys in one rotation period (KeyRegistry).
OneKeyPerPeriod == which = "registry" => Reg!OneKeyPerPeriod

\* A subscriber is given every update that matches, once and in order (Publisher).
StreamsWhole == which = "publisher" => Pub!StreamsWhole

\* The publisher comes to a stop only in the ways its locking explains, and the opening
\* of tables hangs only if two of them failed, and succeeds only if all have
\* (Publisher, Throttle).
StopsExplained ==
  /\ which = "publisher" => Pub!StopsExplained
  /\ which = "throttle" => Thr!ErrorsSurface

\* A directory open for writing is held by one process, which its pid file names
\* (DirLock).
PidNamesHolder == which = "lock" => Loc!PidNamesHolder
=============================================================================
