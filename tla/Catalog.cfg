SPECIFICATION Spec
CONSTANTS
  Clients = {c1, c2}
  Names = {n1}
  None = none
  Claims = {v1, v2}
  Patched = {"prefix", "accessKeyId", "secretAccessKey", "password"}
  MaxRepos = 2
  MaxTokens = 1
SYMMETRY Symmetry
INVARIANTS RepositoriesWhole UpdatesSerial NameOfOne OwnerThere
PROPERTY CatalogSpec
