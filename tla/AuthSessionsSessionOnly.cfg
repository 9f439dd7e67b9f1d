SPECIFICATION Spec
CONSTANTS
  SessionOnly = TRUE
  Browsers = {b1}
  Requests = {r1}
  StoreType = "filesystem"
  Kinds = {"page", "login", "callback"}
  Disciplined = TRUE
  Replay = FALSE
  Troubles = {}
  MaxTrouble = 0
  MaxStates = 2
  MaxTokens = 3
INVARIANTS
  LoginWorks
