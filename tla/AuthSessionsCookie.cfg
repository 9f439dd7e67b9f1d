SPECIFICATION Spec
CONSTANTS
  SessionOnly = FALSE
  Browsers = {b1}
  Requests = {r1, r2}
  StoreType = "cookie"
  Kinds = {"page", "sso", "login", "callback", "logout"}
  Disciplined = FALSE
  Replay = FALSE
  Troubles = {"end", "expire", "fail", "restart", "forget"}
  MaxTrouble = 1
  MaxStates = 2
  MaxTokens = 3
PROPERTIES
  EndedTokensAreRefused
  EndedTokensStayOut
