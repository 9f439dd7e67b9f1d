SPECIFICATION Spec
CONSTANTS
  SessionOnly = FALSE
  Browsers = {b1}
  Requests = {r1, r2}
  StoreType = "filesystem"
  Kinds = {"page", "login", "callback", "logout"}
  Disciplined = FALSE
  Replay = FALSE
  Troubles = {"expire"}
  MaxTrouble = 1
  MaxStates = 1
  MaxTokens = 2
INVARIANTS
  LogoutClearsSession
