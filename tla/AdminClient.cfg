SPECIFICATION Spec
CONSTANTS
  Users = {u1}
  Refresher = refresher
  Free = free
  Buffer = 1
  Timeout = 1
  Lifespan = 4
  TTL = 2
  MaxTokens = 3
  MaxRevoked = 1
  MaxTime = 6
INVARIANTS
  TypeOK
  AttachedTokenExists
  RetryRecovers
  RevokedTokenIsDropped
  ErrorsAreNotCached
  NobodyWaitsInVain
PROPERTIES
  TokenNeverRegresses
