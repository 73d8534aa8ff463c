--------------------------- MODULE MCNTService ---------------------------
EXTENDS NTService, TLC

CONSTANTS s1, s2, unknown

\* The names of a whitelisted service, of one that is not, and of none; a name
\* that is too long, an empty one, and one with a slash.
MCName ==
  {[length |-> 7, chars |-> {"other"}, service |-> s] : s \in {s1, s2, unknown}}
  \cup {[length |-> 257, chars |-> {"other"}, service |-> s1],
        [length |-> 0, chars |-> {}, service |-> unknown],
        [length |-> 7, chars |-> {"other", "slash"}, service |-> s1]}

Symmetry == Permutations(Client)
=============================================================================
