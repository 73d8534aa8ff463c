------------------------- MODULE MCProcessLaunch -------------------------
EXTENDS ProcessLaunch

CONSTANTS l1, l2

MCLaunch == {l1, l2}

\* A text, a NUL and a text from one child; two texts and a NUL from the other.
MCNul == {<<l1, 2>>, <<l2, 3>>}
=============================================================================
