SPECIFICATION Spec
CONSTANTS
  s1 = s1
  s2 = s2
  unknown = unknown
  Client = {a, b}
  Service = {s1, s2}
  Name <- MCName
  NoName = NoName
  StartType = {"DEMAND_START", "DISABLED"}
  Whitelist = {s1, unknown}
SYMMETRY Symmetry
PROPERTIES
  AtomicSpec
  OnlyWhitelistedAreDriven
