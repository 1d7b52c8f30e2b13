SPECIFICATION FairSpec
CONSTANTS
  Threads = {t1, t2}
  Addrs = {a1, a2, a3}
  Buckets = {0}
  Hash <- MCHash
  Entries = {e1, e2, e3}
  Sizes = {1, 3}
  Routed <- MCRouted
  Failures = {"numa", "entry", "libc"}
  Nil = nil
INVARIANTS TypeOK FreeMatchesRecord NoFreedEntryTouched EntriesNotLeaked
PROPERTIES TraversalEnds TableSpec
CONSTRAINT MCUntilOvertaken
