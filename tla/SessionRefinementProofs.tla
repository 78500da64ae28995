---------------------- MODULE SessionRefinementProofs ----------------------
(***************************************************************************)
(* The proof that SessionStore implements SessionLifecycle: its initial    *)
(* states map to initial states of the life cycle and every step, of every *)
(* transaction, job or crash, maps to a step of the life cycle or to none. *)
(***************************************************************************)
EXTENDS SessionStoreProofs

phaseNow    == [s \in Session |-> Phase(s)]
admittedNow == [s \in Session |-> ConnsOf(s)]

\* A step that maps to no step of the life cycle.
LEMMA Stutter ==
    ASSUME UNCHANGED <<states, current, tofu, owner>>,
           \A s \in Session : authz'[s] = "none" <=> authz[s] = "none",
           \A c \in Conn : connStates'[c] = {} <=> connStates[c] = {}
    PROVE  UNCHANGED <<phaseNow, tofu, admittedNow>>
<1>1. \A s \in Session : Phase(s)' = Phase(s)
  BY DEF Phase
<1>2. \A s \in Session : ConnsOf(s)' = ConnsOf(s)
  BY DEF ConnsOf
<1> QED
  BY <1>1, <1>2 DEF phaseNow, admittedNow

\* The phase of a session whose rows are in order is its current state.
LEMMA PhaseIsCurrent ==
    ASSUME IInv, NEW s \in Session, Stored(s)
    PROVE  /\ Phase(s) \in State
           /\ current[s] = {Phase(s)}
           /\ Phase(s) \in states[s]
<1>1. PICK q \in states[s] : current[s] = {q}
  BY DEF IInv, SerialRows
<1>2. q \in State
  BY <1>1 DEF IInv, TypeOK
<1>3. Phase(s) = q
  BY <1>1, <1>2 DEF Phase, Stored, State
<1> QED
  BY <1>1, <1>2, <1>3

\* Inserting the row of state q moves the sessions S to phase q.
LEMMA InsertPhase ==
    ASSUME IInv, NEW S \in SUBSET Session, NEW q \in State, InsertState(S, q),
           UNCHANGED authz
    PROVE  phaseNow' = [s \in Session |-> IF s \in S THEN q ELSE phaseNow[s]]
<1>1. \A s \in Session : s \notin S => Phase(s)' = Phase(s)
  BY DEF InsertState, StatesAfter, CurrentAfter, Phase
<1>2. \A s \in S : states'[s] # {} /\ current'[s] = {q}
  BY DEF InsertState, StatesAfter, CurrentAfter
<1>3. \A s \in S : Phase(s)' = q
  BY <1>2 DEF Phase, State
<1> QED
  BY <1>1, <1>3 DEF phaseNow

\* A step that leaves the connection rows alone admits no connection.
LEMMA KeepAdmitted ==
    ASSUME UNCHANGED <<owner, connStates>> PROVE UNCHANGED admittedNow
BY DEF admittedNow, ConnsOf

\* Every step of the store is a step of the life cycle, or none.
LEMMA StepRefines ==
    ASSUME IInv, [Next]_vars
    PROVE  Lifecycle!LNext \/ UNCHANGED Lifecycle!lifecycleVars
<1> DEFINE Goal == Lifecycle!LNext \/ UNCHANGED Lifecycle!lifecycleVars
<1>t. TypeOK /\ RowsConsistent /\ TofuBoundByActivation /\ ReasonJustified
  BY DEF IInv
<1>a. ASSUME UNCHANGED <<phaseNow, tofu, admittedNow>> PROVE Goal
  BY <1>a DEF Lifecycle!lifecycleVars, phaseNow, admittedNow
<1>b. ASSUME UNCHANGED <<states, current, tofu, owner, authz>>,
             \A c \in Conn : connStates'[c] = {} <=> connStates[c] = {}
      PROVE  Goal
  BY <1>a, <1>b, Stutter
\* A row for a cancel is the step Cancel.
<1>c. ASSUME NEW s \in Session, Stored(s),
             states[s] \intersect {"canceling", "terminated"} = {},
             InsertState({s}, "canceling"),
             UNCHANGED <<tofu, authz, owner, connStates>>
      PROVE  Goal
  <2>1. "canceling" \in State
    BY DEF State
  <2>2. phaseNow' = [phaseNow EXCEPT ![s] = "canceling"]
    <3>1. phaseNow' = [r \in Session |-> IF r \in {s} THEN "canceling"
                                                     ELSE phaseNow[r]]
      BY <1>c, <2>1, InsertPhase
    <3> QED
      BY <3>1 DEF phaseNow
  <2>3. phaseNow[s] \in {"pending", "active"}
    BY <1>c, PhaseIsCurrent DEF phaseNow, State
  <2>4. Lifecycle!Cancel(s)
    BY <1>c, <2>2, <2>3, KeepAdmitted DEF Lifecycle!Cancel, phaseNow, admittedNow
  <2> QED
    BY <2>4 DEF Lifecycle!LNext
\* Terminating completed sessions is the step End.
<1>d. ASSUME NEW S \in SUBSET Session, \A s \in S : Completed(s), Terminate(S),
             UNCHANGED <<tofu, authz, owner, connStates>>
      PROVE  Goal
  <2>1. "terminated" \in State /\ InsertState(S, "terminated")
    BY <1>d DEF State, Terminate
  <2>2. phaseNow' = [s \in Session |-> IF s \in S THEN "terminated" ELSE phaseNow[s]]
    BY <1>d, <2>1, InsertPhase
  <2>3. \A s \in S : phaseNow[s] \in {"pending", "active", "canceling"}
    <3> SUFFICES ASSUME NEW s \in S
                 PROVE  Phase(s) \in {"pending", "active", "canceling"}
      BY DEF phaseNow
    <3>1. Stored(s) /\ "terminated" \notin states[s]
      BY <1>d, <1>t, CompletedRows
    <3> QED
      BY <3>1, PhaseIsCurrent DEF State
  <2>4. Lifecycle!End(S)
    BY <1>d, <2>2, <2>3, KeepAdmitted
    DEF Lifecycle!End, Lifecycle!Live, phaseNow, admittedNow
  <2> QED
    BY <2>4 DEF Lifecycle!LNext
\* Deleting sessions that are not active is the step Remove.
<1>e. ASSUME NEW S \in SUBSET Session, DeleteRows(S),
             \A s \in S : Phase(s) \in {"pending", "canceling", "terminated", "deleted"},
             \A s \in Session : authz'[s] = authz[s]
                    \/ (s \in S /\ authz[s] # "none" /\ authz'[s] # "none"),
             UNCHANGED <<tofu, owner>>
      PROVE  Goal
  <2>1. \A s \in Session : IF s \in S THEN states'[s] = {}
                           ELSE states'[s] = states[s] /\ current'[s] = current[s]
    BY <1>e DEF DeleteRows
  <2>2. \A s \in S : Phase(s)' = "deleted"
    <3> SUFFICES ASSUME NEW s \in S PROVE Phase(s)' = "deleted"
      OBVIOUS
    <3>1. authz[s] # "none"
      BY <1>e, <1>t, PhaseIsCurrent DEF Phase, RowsConsistent, HandlerProgress
    <3> QED
      BY <1>e, <2>1, <3>1 DEF Phase
  <2>3. \A s \in Session : s \notin S => Phase(s)' = Phase(s)
    BY <1>e, <2>1 DEF Phase
  <2>4. \A s \in Session : ConnsOf(s)' = IF s \in S THEN {} ELSE ConnsOf(s)
    BY <1>e DEF DeleteRows, ConnsOf
  <2>5. Lifecycle!Remove(S)
    BY <1>e, <2>2, <2>3, <2>4 DEF Lifecycle!Remove
  <2> QED
    BY <2>5 DEF Lifecycle!LNext
<1>1. ASSUME NEW s \in Session, CreateSession(s) PROVE Goal
  <2>1. Phase(s) = "none"
    BY <1>1, <1>t DEF CreateSession, RowsConsistent, HandlerProgress, Phase
  <2>2. \A r \in Session : r # s => Phase(r)' = Phase(r)
    BY <1>1, <1>t DEF CreateSession, Phase, TypeOK
  <2>3. states'[s] = {"pending"} /\ current'[s] = {"pending"}
    BY <1>1, <1>t DEF CreateSession, TypeOK
  <2>4. Phase(s)' = "pending"
    BY <2>3 DEF Phase
  <2>5. UNCHANGED <<tofu, admittedNow>>
    BY <1>1, KeepAdmitted DEF CreateSession, connVars
  <2>6. Lifecycle!Open(s)
    BY <2>1, <2>2, <2>4, <2>5 DEF Lifecycle!Open, admittedNow
  <2> QED
    BY <2>6 DEF Lifecycle!LNext
<1>2. ASSUME NEW s \in Session,
             Issue(s) \/ AuthorizeSessionReturn(s) \/ AuthorizeSessionRevoke(s)
      PROVE  Goal
  <2>1. UNCHANGED <<states, current, tofu, owner, connStates>>
    BY <1>2 DEF Issue, AuthorizeSessionReturn, AuthorizeSessionRevoke, connVars
  <2>2. \A r \in Session : authz'[r] = "none" <=> authz[r] = "none"
    BY <1>2, <1>t
    DEF Issue, AuthorizeSessionReturn, AuthorizeSessionRevoke, TypeOK
  <2> QED
    BY <2>1, <2>2, <1>a, Stutter
<1>3. ASSUME NEW s \in Session, AuthorizeSessionDelete(s) PROVE Goal
  <2>1. authz[s] \in {"created", "revoked"}
    BY <1>3 DEF AuthorizeSessionDelete
  <2>2. "active" \notin states[s]
    BY <1>t, <2>1 DEF RowsConsistent, HandlerProgress
  <2>3. Phase(s) \in {"pending", "canceling", "terminated", "deleted"}
    <3>1. CASE Stored(s)
      BY <2>2, <3>1, PhaseIsCurrent DEF State
    <3>2. CASE ~Stored(s)
      BY <2>1, <3>2 DEF Phase, Stored
    <3> QED
      BY <3>1, <3>2
  <2>4. DeleteRows({s}) /\ UNCHANGED <<tofu, owner>>
    BY <1>3 DEF AuthorizeSessionDelete
  <2>5. \A r \in Session : authz'[r] = authz[r]
            \/ (r = s /\ authz[r] # "none" /\ authz'[r] # "none")
    BY <1>3, <1>t, <2>1 DEF AuthorizeSessionDelete, TypeOK
  <2> QED
    BY <2>3, <2>4, <2>5, <1>e
<1>4. ASSUME NEW s \in Session, NEW t \in Tofu, LookupSession(s, t) PROVE Goal
  BY <1>4, <1>b DEF LookupSession, sessionVars, connVars
<1>5. ASSUME NEW s \in Session, NEW t \in Tofu, ActivateSession(s, t)
      PROVE  Goal
  <2>1. UNCHANGED <<authz, owner, connStates>>
    BY <1>5 DEF ActivateSession, connVars
  <2>2. CASE UNCHANGED <<states, current, cred, tofu, version>>
    BY <2>1, <2>2, <1>b
  <2>3. CASE /\ "pending" \in states[s] /\ "active" \notin states[s]
             /\ MayInsertState(s, "active")
             /\ InsertState({s}, "active")
             /\ tofu' = [tofu EXCEPT ![s] = t]
    <3>1. "active" \in State
      BY DEF State
    <3>2. phaseNow' = [phaseNow EXCEPT ![s] = "active"]
      <4>1. phaseNow' = [r \in Session |-> IF r \in {s} THEN "active"
                                                       ELSE phaseNow[r]]
        BY <2>1, <2>3, <3>1, InsertPhase
      <4> QED
        BY <4>1 DEF phaseNow
    <3>3. Stored(s) /\ current[s] = {Phase(s)}
      BY <2>3, PhaseIsCurrent DEF Stored
    <3>4. <<Phase(s), "active">> \in session_valid_state
      BY <2>3, <3>3 DEF MayInsertState
    <3>5. phaseNow[s] = "pending"
      BY <3>4 DEF session_valid_state, phaseNow
    <3>6. tofu[s] = Null
      BY <1>t, <2>3, <3>3 DEF TofuBoundByActivation
    <3>7. Lifecycle!Activate(s, t)
      BY <2>1, <2>3, <3>2, <3>5, <3>6, KeepAdmitted
      DEF Lifecycle!Activate, phaseNow, admittedNow
    <3> QED
      BY <3>7 DEF Lifecycle!LNext
  <2> QED
    BY <1>5, <2>2, <2>3 DEF ActivateSession
<1>6. ASSUME NEW s \in Session, LookupForCancel(s) PROVE Goal
  BY <1>6, <1>b DEF LookupForCancel, sessionVars, connVars
<1>7. ASSUME NEW s \in Session, CancelSession(s) PROVE Goal
  <2>1. UNCHANGED <<tofu, authz, owner, connStates>>
    BY <1>7 DEF CancelSession, connVars
  <2>2. CASE UNCHANGED <<states, current, cred>>
    BY <2>1, <2>2, <1>b
  <2>3. CASE /\ Stored(s) /\ states[s] \intersect {"canceling", "terminated"} = {}
             /\ InsertState({s}, "canceling")
    BY <2>1, <2>3, <1>c
  <2> QED
    BY <1>7, <2>2, <2>3 DEF CancelSession
<1>8. ASSUME NEW s \in Session, CancelSessionWithNullFk(s) PROVE Goal
  BY <1>8, <1>c DEF CancelSessionWithNullFk, connVars
<1>9. ASSUME NEW s \in Session, TerminateSessionIfPossible(s) PROVE Goal
  <2>1. UNCHANGED <<tofu, authz, owner, connStates>>
    BY <1>9 DEF TerminateSessionIfPossible, connVars
  <2>2. CASE UNCHANGED <<reason, version, states, current, cred>>
    BY <2>1, <2>2, <1>b
  <2>3. CASE Completed(s) /\ Terminate({s})
    BY <2>1, <2>3, <1>d
  <2> QED
    BY <1>9, <2>2, <2>3 DEF TerminateSessionIfPossible
<1>10. ASSUME TerminateCompletedSessions PROVE Goal
  BY <1>10, <1>d DEF TerminateCompletedSessions, connVars
<1>11. ASSUME NEW S \in SUBSET Session, DeleteTerminatedSessions(S) PROVE Goal
  <2>1. /\ DeleteRows(S) /\ UNCHANGED <<authz, tofu, owner>>
        /\ \A s \in S : "terminated" \in states[s]
    BY <1>11 DEF DeleteTerminatedSessions
  <2>2. \A s \in S : Phase(s) = "terminated"
    BY <1>t, <2>1 DEF RowsConsistent, StateRows, Phase
  <2> QED
    BY <2>1, <2>2, <1>e
<1>12. ASSUME NEW s \in Session, NEW c \in Conn, NEW w \in Worker,
              AuthorizeConnection(s, c, w)
       PROVE  Goal
  <2>1. /\ owner[c] = Null /\ Stored(s) /\ "active" \in current[s]
        /\ ~LimitReached(s)
        /\ UNCHANGED <<states, current, tofu, authz>>
        /\ owner' = [owner EXCEPT ![c] = s]
        /\ connStates' = [connStates EXCEPT ![c] = {"authorized"}]
    BY <1>12 DEF AuthorizeConnection, sessionVars
  <2>2. connStates[c] = {}
    BY <1>t, <2>1, NullAssumption DEF RowsConsistent, ConnRows
  <2>3. \A r \in Session : ConnsOf(r)' = IF r = s THEN ConnsOf(r) \union {c}
                                          ELSE ConnsOf(r)
    BY <1>t, <2>1, <2>2 DEF ConnsOf, TypeOK
  <2>4. \A r \in Session : c \notin ConnsOf(r)
    BY <2>2 DEF ConnsOf
  <2>5. Phase(s) = "active"
    BY <2>1, PhaseIsCurrent
  <2>6. ConnectionLimit[s] = -1 \/ Cardinality(ConnsOf(s)) < ConnectionLimit[s]
    <3>1. IsFiniteSet(ConnsOf(s))
      BY ConnAssumption, FS_Subset DEF ConnsOf
    <3>2. Cardinality(ConnsOf(s)) \in Nat
      BY <3>1, FS_CardinalityType
    <3>3. ConnectionLimit[s] = -1 \/ ConnectionLimit[s] \in Nat
      BY LimitAssumption
    <3> QED
      BY <2>1, <3>2, <3>3 DEF LimitReached
  <2>7. phaseNow' = phaseNow
    BY <2>1 DEF phaseNow, Phase
  <2>8. /\ phaseNow[s] = "active"
        /\ \A r \in Session : c \notin admittedNow[r]
        /\ admittedNow[s] = ConnsOf(s)
    BY <2>4, <2>5 DEF phaseNow, admittedNow
  <2>9. admittedNow' = [admittedNow EXCEPT ![s] = admittedNow[s] \union {c}]
    BY <2>3 DEF admittedNow
  <2>10. Lifecycle!Admit(s, c)
    <3>1. ConnectionLimit[s] = -1 \/ Cardinality(admittedNow[s]) < ConnectionLimit[s]
      BY <2>6, <2>8
    <3>2. UNCHANGED <<phaseNow, tofu>>
      BY <2>1, <2>7
    <3> QED
      BY <2>8, <2>9, <3>1, <3>2, Zenon
      DEF Lifecycle!Admit, phaseNow, admittedNow, Cardinality,
          Lifecycle!Cardinality
  <2> QED
    BY <2>10 DEF Lifecycle!LNext
<1>13. ASSUME NEW c \in Conn, ConnectConnection(c) PROVE Goal
  <2>1. \A d \in Conn : connStates'[d] = {} <=> connStates[d] = {}
    BY <1>13, <1>t DEF ConnectConnection, TypeOK
  <2> QED
    BY <1>13, <2>1, <1>b DEF ConnectConnection, sessionVars
<1>14. ASSUME NEW C \in SUBSET Conn, CloseRows(C), \A c \in C : connStates[c] # {},
              UNCHANGED <<sessionVars, owner>>
       PROVE  Goal
  <2>1. \A d \in Conn : connStates'[d] = {} <=> connStates[d] = {}
    BY <1>14 DEF CloseRows
  <2> QED
    BY <1>14, <2>1, <1>b DEF sessionVars
<1>15. ASSUME NEW C \in SUBSET Conn, CloseConnections(C) PROVE Goal
  BY <1>15, <1>14 DEF CloseConnections
<1>16. ASSUME NEW w \in Worker, NEW C \in SUBSET Conn,
              CloseOrphanedConnections(w, C)
       PROVE  Goal
  BY <1>16, <1>14 DEF CloseOrphanedConnections, OpenConn
<1>17. ASSUME CloseConnectionsForDeadWorkers \/ CloseWorkerlessConnections
       PROVE  Goal
  <2>1. /\ DeadWorkerConns \in SUBSET Conn /\ WorkerlessConns \in SUBSET Conn
        /\ \A c \in DeadWorkerConns \union WorkerlessConns : connStates[c] # {}
    BY DEF DeadWorkerConns, WorkerlessConns, Unclosed
  <2> QED
    BY <1>17, <2>1, <1>14
    DEF CloseConnectionsForDeadWorkers, CloseWorkerlessConnections
<1>18. ASSUME NEW w \in Worker,
              UpsertWorkerStatus(w) \/ GracePeriodPasses(w) \/ DeleteWorker(w)
       PROVE  Goal
  BY <1>18, <1>b
  DEF UpsertWorkerStatus, GracePeriodPasses, DeleteWorker, sessionVars, connVars
<1>19. ASSUME NEW s \in Session, Expire(s) PROVE Goal
  BY <1>19, <1>b DEF Expire, connVars
<1>20. ASSUME Crash PROVE Goal
  <2>1. \A s \in Session : authz'[s] = "none" <=> authz[s] = "none"
    BY <1>20 DEF Crash
  <2> QED
    BY <1>20, <2>1, <1>a, Stutter DEF Crash, connVars
<1>21. ASSUME UNCHANGED vars PROVE Goal
  BY <1>21, <1>b DEF vars, sessionVars, connVars
<1> QED
  BY <1>1, <1>2, <1>3, <1>4, <1>5, <1>6, <1>7, <1>8, <1>9, <1>10, <1>11,
     <1>12, <1>13, <1>15, <1>16, <1>17, <1>18, <1>19, <1>20, <1>21
  DEF Next

\* Whatever the numbers of sessions, connections, workers and tokens, the
\* store implements the abstract life cycle: no operation, job, trigger or
\* crash moves a session back, rebinds its token, admits a connection outside
\* the active phase or beyond the limit, or deletes an active session.
THEOREM Refinement == Spec => ImplementsLifecycle
<1>1. ASSUME Init PROVE Lifecycle!LInit
  BY <1>1 DEF Init, Lifecycle!LInit, Phase, ConnsOf
<1>2. ASSUME IInv, [Next]_vars PROVE [Lifecycle!LNext]_(Lifecycle!lifecycleVars)
  BY <1>2, StepRefines
<1> QED
  BY <1>1, <1>2, Inductive, PTL DEF Spec, ImplementsLifecycle, Lifecycle!LSpec

=============================================================================
