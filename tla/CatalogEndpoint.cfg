SPECIFICATION Spec
CONSTANTS
  Clients = {c1, c2}
  Names = {n1}
  None = none
  Claims = {v1}
  Patched = {}
  MaxRepos = 1
  MaxTokens = 0
INVARIANT DefaultEndpointAccepted
