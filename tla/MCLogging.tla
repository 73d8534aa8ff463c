----------------------------- MODULE MCLogging -----------------------------
EXTENDS Logging

CONSTANTS p1, p2, t1, t2, t3, short, long

\* A service with a second thread, and another process.
MCOwner == [t \in {t1, t2, t3} |-> IF t = t3 THEN p2 ELSE p1]
MCMain == [p \in {p1, p2} |-> IF p = p1 THEN t1 ELSE t3]
MCSize == [f \in {short, long} |-> IF f = short THEN 1 ELSE 2]
=============================================================================
