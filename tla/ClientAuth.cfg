SPECIFICATION Spec
CONSTANTS
  Processes = {serve, cmd}
  LoginCmd = login
  Goroutines = {g1, g2}
  MaxLogins = 2
  MaxExpired = 2
SYMMETRY Symmetry
INVARIANTS FileLive OneWriter RefreshOnce
CHECK_DEADLOCK FALSE
