--------------------------- MODULE MCWorkerProxy ---------------------------
EXTENDS WorkerProxy, TLC
CONSTANTS c1, c2, t1, t2

TwoTokens == [c \in Conn |-> IF c = c1 THEN t1 ELSE t2]
OneToken == [c \in Conn |-> t1]

\* Bound: behaviours in which the session expires and a grace period passes too
\* are not followed further.  Once the session has expired nothing is authorized
\* and every connection may be cut.
ExpiryOrGrace == ~(expired /\ (overdue \/ silent))

Symmetry == Permutations(Sess)
=============================================================================
