SPECIFICATION Spec
CONSTANTS
  Users = {u1}
  Refresher = refresher
  Free = free
  Buffer = 1
  Timeout = 1
  Lifespan = 4
  TTL = 0
  MaxTokens = 3
  MaxRevoked = 0
  MaxTime = 6
PROPERTIES
  OnlyOneRefresh
