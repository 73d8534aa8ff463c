SPECIFICATION Spec
CONSTANTS
  Client = {c1, c2}
  NoClient = NoClient
  Name <- MCName
  NoName = NoName
PROPERTIES
  FailedReadIsNotSuccess
