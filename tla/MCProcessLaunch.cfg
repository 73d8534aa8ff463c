SPECIFICATION LaunchFairSpec
CONSTANTS
  l1 = l1
  l2 = l2
  Launch <- MCLaunch
  Server = Server
  Capacity = 2
  MaxOutput = 3
  Nul <- MCNul
  ExitCode = {0, 1}
CHECK_DEADLOCK FALSE
INVARIANTS
  ResultIsFaithful
PROPERTIES
  FullPipeIsDrained
  ReturnsAfterOwnChild
