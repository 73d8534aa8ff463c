-------------------------- MODULE MCComputerName --------------------------
EXTENDS ComputerName

\* "dev" and its other spelling "DEV", "pc-2", and three names Set refuses.
MCName ==
  { [length |-> 3, chars |-> {"letter"}, folded |-> "dev", upper |-> FALSE],
    [length |-> 3, chars |-> {"letter"}, folded |-> "dev", upper |-> TRUE],
    [length |-> 4, chars |-> {"letter", "digit", "hyphen"}, folded |-> "pc-2", upper |-> FALSE],
    [length |-> 16, chars |-> {"letter"}, folded |-> "aaaaaaaaaaaaaaaa", upper |-> FALSE],
    [length |-> 4, chars |-> {"digit"}, folded |-> "1234", upper |-> FALSE],
    [length |-> 4, chars |-> {"letter", "other"}, folded |-> "d_v!", upper |-> FALSE] }
=============================================================================
