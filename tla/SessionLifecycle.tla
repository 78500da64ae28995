-------------------------- MODULE SessionLifecycle --------------------------
(***************************************************************************)
(* What the session store promises its callers, without tables, versions   *)
(* or requests: a session moves along                                      *)
(*                                                                         *)
(*     none -> pending -> active -> canceling -> terminated -> deleted     *)
(*                                                                         *)
(* possibly skipping phases and never going back; it is bound to one       *)
(* trust-on-first-use token when it becomes active and to no other later;  *)
(* it admits connections only while active and never more than its limit;  *)
(* and it is not deleted while it is active.                               *)
(***************************************************************************)
EXTENDS Naturals, Integers, FiniteSets

CONSTANTS Session, Conn, Tofu, ConnectionLimit, Null

VARIABLES
    phase,      \* session -> where it is in its life
    holder,     \* session -> token of the client that activated it
    admitted    \* session -> connections it has admitted

lifecycleVars == <<phase, holder, admitted>>

Live == {"pending", "active", "canceling"}

LInit ==
    /\ phase = [s \in Session |-> "none"]
    /\ holder = [s \in Session |-> Null]
    /\ admitted = [s \in Session |-> {}]

Open(s) ==
    /\ phase[s] = "none"
    /\ phase' = [phase EXCEPT ![s] = "pending"]
    /\ UNCHANGED <<holder, admitted>>

Activate(s, t) ==
    /\ phase[s] = "pending" /\ holder[s] = Null
    /\ phase' = [phase EXCEPT ![s] = "active"]
    /\ holder' = [holder EXCEPT ![s] = t]
    /\ UNCHANGED admitted

Cancel(s) ==
    /\ phase[s] \in {"pending", "active"}
    /\ phase' = [phase EXCEPT ![s] = "canceling"]
    /\ UNCHANGED <<holder, admitted>>

End(S) ==
    /\ \A s \in S : phase[s] \in Live
    /\ phase' = [s \in Session |-> IF s \in S THEN "terminated" ELSE phase[s]]
    /\ UNCHANGED <<holder, admitted>>

Remove(S) ==
    /\ \A s \in S : phase[s] \in {"pending", "canceling", "terminated", "deleted"}
    /\ phase' = [s \in Session |-> IF s \in S THEN "deleted" ELSE phase[s]]
    /\ admitted' = [s \in Session |-> IF s \in S THEN {} ELSE admitted[s]]
    /\ UNCHANGED holder

Admit(s, c) ==
    /\ phase[s] = "active"
    /\ \A r \in Session : c \notin admitted[r]
    /\ ConnectionLimit[s] = -1 \/ Cardinality(admitted[s]) < ConnectionLimit[s]
    /\ admitted' = [admitted EXCEPT ![s] = @ \union {c}]
    /\ UNCHANGED <<phase, holder>>

LNext ==
    \/ \E s \in Session : Open(s) \/ Cancel(s)
    \/ \E s \in Session, t \in Tofu : Activate(s, t)
    \/ \E s \in Session, c \in Conn : Admit(s, c)
    \/ \E S \in SUBSET Session : End(S) \/ Remove(S)

LSpec == LInit /\ [][LNext]_lifecycleVars

=============================================================================
