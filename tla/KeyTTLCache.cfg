SPECIFICATION Spec
CONSTANTS
  Callers = {c1, c2}
  Keys = {k1}
  Free = free
  TTL = 1
  Timeout = 1
  MaxVersion = 1
  MaxTime = 3
INVARIANTS
  TypeOK
  ErrorsAreNeverHits
  NoRedundantFetch
PROPERTIES
  BoundedStaleness
  NeverGoesBack
  LiveEntriesAreKept
  ImplementsBoundedStaleCache
  EveryCallReturns
  ExpiredEntriesAreEvicted
