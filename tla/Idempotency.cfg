SPECIFICATION FairSpec
CONSTANTS
  Workers = {w1, w2}
  Fingerprints = {f1, f2}
  TTL = 4
  Timeout = 2
  Backoff = 1
  MaxWait = 1
  MaxRun = 3
INVARIANTS
  TypeOK
  StoredResultMatches
  ReplayedNotRepeated
PROPERTIES
  OrphanEnds
  ImplementsKeyContract
