SPECIFICATION TabSpec
CONSTANTS
  SessionOnly = FALSE
  Browsers = {b1}
  Requests = {r1}
  StoreType = "filesystem"
  Kinds = {"page", "login", "callback"}
  Disciplined = TRUE
  Replay = FALSE
  Troubles = {"expire", "end", "fail", "drop", "restart", "forget"}
  MaxTrouble = 3
  MaxStates = 4
  MaxTokens = 7
INVARIANTS
  BackInFive
PROPERTIES
  LoginRecovers
