SPECIFICATION DeployFairSpec
CONSTANTS
  Process = {p1, p2}
  Client = {c1}
  Interface = {i1, i2}
  NoProcess = NoProcess
INVARIANTS
  RunningIsNotStopping
  StoppedHasStopped
  NoStatusRace
  ListenerOwnsEndpoint
  ListeningIsComplete
  ToldStoppedIsStopped
PROPERTIES
  StatusProtocol
  RunningLeadsToListening
  StoppedProcessExits
  UninstallEnds
