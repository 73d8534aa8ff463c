SPECIFICATION MCSpec
CONSTANTS
  MaxInt = 7
  MaxLargestInt = 63
  Nearest <- MCNearest
  MaxExact = 300
  MaxText = 6
  Array = {a1, a2}
  Scalars <- MCScalars
  MaxIndex = 2
  Nil = Nil
  Literal = Literal
  Caller = Caller
  Var = {v1, v2}
  Other = other
  Member = {"k"}
  Buffer <- MCBuffer
  MaxLive = 2
INVARIANTS NumberIsRead AccessorsAgree ReadsString OrderIsTotal Ownership
PROPERTIES ArraySpec ValueSpec
