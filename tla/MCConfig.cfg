SPECIFICATION Spec
CONSTANTS
  short = short
  long = long
  exe = exe
  system32 = system32
  p = p
  Process = {p}
  Path = {short, long}
  PathLength <- MCPathLength
  Directory = {exe, system32}
  ExeDirectory = exe
  Api = {"servicemanager", "telemetry", "tpm"}
  DefaultWhitelist = {"w32time"}
  NotAString = "not a string"
  Document <- MCDocument
  Missing = Missing
  Malformed = Malformed
INVARIANTS
  ConfigurationIsDocumented
  FileIsConfigured
