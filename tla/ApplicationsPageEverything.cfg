SPECIFICATION Spec
CONSTANTS
  Clients = {"wiki", "git", "portal"}
  Internal = {"portal"}
  Names = {1, 2, 3, 4}
  Spaces = {1, 2}
  Other = 2
  Arrives <- MCArrives
  CutsView = {3}
  Catalogues <- MCCatalogues
  Claims <- MCClaims
  Nothing = nothing
  Requests = {r1, r2}
  MaxOpens = 2
  MaxClicks = 2
  MaxChanges = 1
INVARIANTS
  AllAreAccessible
CHECK_DEADLOCK FALSE
