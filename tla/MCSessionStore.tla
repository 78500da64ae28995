--------------------------- MODULE MCSessionStore ---------------------------
EXTENDS SessionStore

LimitOne == [s \in Session |-> 1]
LimitTwo == [s \in Session |-> 2]
=============================================================================
