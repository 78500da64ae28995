--------------------------- MODULE MCSessionRaces ---------------------------
EXTENDS SessionRaces
CONSTANTS s1, a2

\* Every request is about session s1.
OnFirst == [x \in Request |-> s1]
\* The activation a2 presents another token.
TokenOf == [x \in Activator |-> IF x = a2 THEN "t2" ELSE "t1"]
LimitOne == [s \in Session |-> 1]
Unlimited == [s \in Session |-> -1]
=============================================================================
