SPECIFICATION FairSpec
CONSTANTS
  Name <- MCName
  Scalar <- MCScalar
  StackLimit = 3
  MaxTokens = 8
  MaxLength = 11
INVARIANTS PointersAreAlive ReadsJson
PROPERTY ParseEnds
