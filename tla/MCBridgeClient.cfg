SPECIFICATION FairSpec
CONSTANTS
  Caller = {c1, c2}
  NoCaller = NoCaller
  Missing = Missing
  Dwords = 16
  OtherLevel <- MCOtherLevel
  Argument <- MCArgument
  Class <- MCClass
  Handle = {h1, h2}
  nullptr = nullptr
INVARIANTS HandlesAreOwned OutcomeTellsTheEffect
PROPERTY CallsReturn
