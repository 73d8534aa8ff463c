SPECIFICATION DeploySpec
CONSTANTS
  Process = {p1, p2}
  Client = {c1}
  Interface = {i1}
  NoProcess = NoProcess
PROPERTIES
  UninstallStopsFirst
