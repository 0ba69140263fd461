\* Each part may come to an end: an iterator at its last entry, processes that have
\* stopped, bounds that are used up.
SPECIFICATION MCSpec
INVARIANTS
  SearchAgrees CursorsAgree MergeAgrees KeysKept OneKeyPerPeriod StreamsWhole
  StopsExplained PidNamesHolder
CHECK_DEADLOCK FALSE
