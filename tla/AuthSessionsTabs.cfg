SPECIFICATION Spec
CONSTANTS
  SessionOnly = FALSE
  Browsers = {b1, b2}
  Requests = {r1, r2}
  StoreType = "filesystem"
  Kinds = {"page", "sso", "login", "callback"}
  Disciplined = FALSE
  Replay = FALSE
  Troubles = {"expire", "drop", "restart"}
  MaxTrouble = 1
  MaxStates = 2
  MaxTokens = 3
INVARIANTS
  TypeOK
  LoginStaysInBrowser
  OneFileALogin
  StaysLoggedIn
  NoLoginIsLost
SYMMETRY RequestSymmetry
