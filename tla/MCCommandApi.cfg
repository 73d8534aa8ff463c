SPECIFICATION Spec
CONSTANTS
  Launch = {l1, l2}
  Server = Server
  Capacity = 1
  MaxOutput = 2
  Nul = {}
  ExitCode = {0, 1, 2}
  Call = {a, b}
  InvalidArg = 2
SYMMETRY Symmetry
CHECK_DEADLOCK FALSE
INVARIANTS
  SuccessMeansCommandSucceeded
