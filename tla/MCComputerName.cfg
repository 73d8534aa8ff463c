SPECIFICATION FairSpec
CONSTANTS
  Client = {c1, c2}
  NoClient = NoClient
  Name <- MCName
  NoName = NoName
INVARIANTS
  NamesAgree
  ReadIsCurrent
PROPERTIES
  PromiseSpec
  SuccessIsComplete
  LockIsReleased
