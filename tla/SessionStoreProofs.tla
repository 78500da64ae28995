------------------------- MODULE SessionStoreProofs -------------------------
(***************************************************************************)
(* Proofs about SessionStore, for every set of sessions, connections,      *)
(* workers and tokens and every assignment of connection limits.           *)
(***************************************************************************)
EXTENDS SessionStore, FiniteSetTheorems, TLAPS

\* What the triggers that insert a state row leave behind is well typed.
LEMMA InsertStateType ==
    ASSUME TypeOK, NEW S \in SUBSET Session, NEW q \in State, InsertState(S, q)
    PROVE  /\ states' \in [Session -> SUBSET State]
           /\ current' \in [Session -> SUBSET State]
           /\ cred' \in [Session -> {"none", "active", "revoke"}]
BY DEF TypeOK, InsertState, StatesAfter, CurrentAfter, CredAfter

\* Setting closed_reason, with its trigger, keeps the types of the rows.
LEMMA CloseRowsType ==
    ASSUME TypeOK, NEW C \in SUBSET Conn, CloseRows(C)
    PROVE  /\ connStates' \in [Conn -> SUBSET ConnState]
           /\ connCurrent' \in [Conn -> ConnState \union {"null"}]
           /\ closedReason' \in [Conn -> BOOLEAN]
BY DEF TypeOK, CloseRows, ConnState

\* Deleting session rows, with what cascades, keeps the types.
LEMMA DeleteRowsType ==
    ASSUME TypeOK, NEW S \in SUBSET Session, DeleteRows(S)
    PROVE  /\ states' \in [Session -> SUBSET State]
           /\ current' \in [Session -> SUBSET State]
           /\ cred' \in [Session -> {"none", "active", "revoke"}]
           /\ connStates' \in [Conn -> SUBSET ConnState]
           /\ connCurrent' \in [Conn -> ConnState \union {"null"}]
BY DEF TypeOK, DeleteRows

\* Setting termination_reason, with its trigger, keeps the types.
LEMMA TerminateType ==
    ASSUME TypeOK, NEW S \in SUBSET Session, Terminate(S)
    PROVE  /\ states' \in [Session -> SUBSET State]
           /\ current' \in [Session -> SUBSET State]
           /\ cred' \in [Session -> {"none", "active", "revoke"}]
           /\ version' \in [Session -> Nat]
           /\ reason' \in [Session -> TermReason \union {"null"}]
<1>1. "terminated" \in State
  BY DEF State
<1>2. InsertState(S, "terminated")
  BY DEF Terminate
<1>3. version' \in [Session -> Nat]
  BY DEF Terminate, TypeOK
<1>4. reason' \in [Session -> TermReason \union {"null"}]
  BY DEF Terminate, TypeOK, ReasonFor, TermReason
<1> QED
  BY <1>1, <1>2, <1>3, <1>4, InsertStateType

\* Every transaction, job and call of a handler keeps the types.
LEMMA TypeStep ==
    ASSUME TypeOK, RowsConsistent, [Next]_vars PROVE TypeOK'
<1>1. ASSUME NEW s \in Session, CreateSession(s) PROVE TypeOK'
  BY <1>1 DEF TypeOK, CreateSession, State, connVars, callVars, workerVars
<1>2. ASSUME NEW s \in Session, Issue(s) PROVE TypeOK'
  BY <1>2 DEF TypeOK, Issue, connVars, callVars, workerVars
<1>3. ASSUME NEW s \in Session, AuthorizeSessionReturn(s) PROVE TypeOK'
  BY <1>3 DEF TypeOK, AuthorizeSessionReturn, connVars, callVars, workerVars
<1>4. ASSUME NEW s \in Session, AuthorizeSessionRevoke(s) PROVE TypeOK'
  BY <1>4 DEF TypeOK, AuthorizeSessionRevoke, connVars, callVars, workerVars
<1>5. ASSUME NEW s \in Session, AuthorizeSessionDelete(s) PROVE TypeOK'
  <2>1. DeleteRows({s})
    BY <1>5 DEF AuthorizeSessionDelete
  <2> QED
    BY <1>5, <2>1, DeleteRowsType
    DEF TypeOK, AuthorizeSessionDelete, callVars, workerVars
<1>6. ASSUME NEW s \in Session, NEW t \in Tofu, LookupSession(s, t)
      PROVE  TypeOK'
  <2>1. lookups' \in [Session -> [Tofu -> Nat]]
    BY <1>6 DEF TypeOK, LookupSession
  <2> QED
    BY <1>6, <2>1
    DEF TypeOK, LookupSession, sessionVars, connVars, workerVars
<1>7. ASSUME NEW s \in Session, NEW t \in Tofu, ActivateSession(s, t)
      PROVE  TypeOK'
  <2>1. lookups' \in [Session -> [Tofu -> Nat]]
    BY <1>7 DEF TypeOK, ActivateSession
  <2>2. CASE /\ InsertState({s}, "active")
             /\ tofu' = [tofu EXCEPT ![s] = t]
             /\ version' = [version EXCEPT ![s] = @ + 1]
    <3>1. "active" \in State
      BY DEF State
    <3>2. /\ tofu' \in [Session -> Tofu \union {Null}]
          /\ version' \in [Session -> Nat]
      BY <2>2 DEF TypeOK
    <3>3. UNCHANGED <<reason, expired, authz, connVars, cancels, terminating,
                      workerVars>>
      BY <1>7 DEF ActivateSession
    <3> QED
      BY <2>1, <2>2, <3>1, <3>2, <3>3, InsertStateType
      DEF TypeOK, connVars, workerVars
  <2>3. CASE UNCHANGED <<states, current, cred, tofu, version>>
    BY <1>7, <2>1, <2>3 DEF TypeOK, ActivateSession, connVars, workerVars
  <2> QED
    BY <1>7, <2>2, <2>3 DEF ActivateSession
<1>8. ASSUME NEW s \in Session, LookupForCancel(s) PROVE TypeOK'
  BY <1>8 DEF TypeOK, LookupForCancel, sessionVars, connVars, workerVars
<1>9. ASSUME NEW s \in Session, CancelSession(s) PROVE TypeOK'
  <2>1. version' \in [Session -> Nat] /\ cancels' \in [Session -> Nat]
    <3>1. cancels' \in [Session -> Nat]
      BY <1>9 DEF TypeOK, CancelSession
    <3>2. UNCHANGED version \/ version' = [version EXCEPT ![s] = version[s] + 1]
      BY <1>9 DEF CancelSession
    <3>3. CASE UNCHANGED version
      BY <3>1, <3>3 DEF TypeOK
    <3>4. CASE version' = [version EXCEPT ![s] = version[s] + 1]
      BY <3>1, <3>4 DEF TypeOK
    <3> QED
      BY <3>2, <3>3, <3>4
  <2>2. CASE InsertState({s}, "canceling")
    <3>1. "canceling" \in State
      BY DEF State
    <3> QED
      BY <1>9, <2>1, <2>2, <3>1, InsertStateType
      DEF TypeOK, CancelSession, connVars, workerVars
  <2>3. CASE UNCHANGED <<states, current, cred>>
    BY <1>9, <2>1, <2>3 DEF TypeOK, CancelSession, connVars, workerVars
  <2> QED
    BY <1>9, <2>2, <2>3 DEF CancelSession
<1>10. ASSUME NEW s \in Session, CancelSessionWithNullFk(s) PROVE TypeOK'
  <2>1. "canceling" \in State /\ InsertState({s}, "canceling")
    BY <1>10 DEF State, CancelSessionWithNullFk
  <2> QED
    BY <1>10, <2>1, InsertStateType
    DEF TypeOK, CancelSessionWithNullFk, connVars, callVars, workerVars
<1>11. ASSUME NEW s \in Session, NEW c \in Conn, NEW w \in Worker,
              AuthorizeConnection(s, c, w)
       PROVE  TypeOK'
  BY <1>11
  DEF TypeOK, AuthorizeConnection, ConnState, sessionVars, callVars, workerVars
<1>12. ASSUME NEW c \in Conn, ConnectConnection(c) PROVE TypeOK'
  BY <1>12
  DEF TypeOK, ConnectConnection, ConnState, sessionVars, callVars, workerVars
<1>13. ASSUME NEW C \in SUBSET Conn, CloseConnections(C) PROVE TypeOK'
  <2>1. CloseRows(C)
    BY <1>13 DEF CloseConnections
  <2>2. terminating' \in SUBSET Session
    BY <1>13 DEF CloseConnections, TypeOK, RowsConsistent, ConnRows
  <2> QED
    BY <1>13, <2>1, <2>2, CloseRowsType
    DEF TypeOK, CloseConnections, sessionVars, workerVars
<1>14. ASSUME NEW s \in Session, TerminateSessionIfPossible(s) PROVE TypeOK'
  <2>1. CASE Terminate({s})
    BY <1>14, <2>1, TerminateType
    DEF TypeOK, TerminateSessionIfPossible, connVars, workerVars
  <2>2. CASE UNCHANGED <<reason, version, states, current, cred>>
    BY <1>14, <2>2 DEF TypeOK, TerminateSessionIfPossible, connVars, workerVars
  <2> QED
    BY <1>14, <2>1, <2>2 DEF TerminateSessionIfPossible
<1>15. ASSUME TerminateCompletedSessions PROVE TypeOK'
  <2>1. Terminate({s \in Session : Completed(s)})
    BY <1>15 DEF TerminateCompletedSessions
  <2> QED
    BY <1>15, <2>1, TerminateType
    DEF TypeOK, TerminateCompletedSessions, connVars, callVars, workerVars
<1>16. ASSUME NEW S \in SUBSET Session, DeleteTerminatedSessions(S)
       PROVE  TypeOK'
  <2>1. DeleteRows(S)
    BY <1>16 DEF DeleteTerminatedSessions
  <2> QED
    BY <1>16, <2>1, DeleteRowsType
    DEF TypeOK, DeleteTerminatedSessions, callVars, workerVars
<1>17. ASSUME NEW C \in SUBSET Conn, CloseRows(C),
              UNCHANGED <<sessionVars, owner, connWorker, callVars, workerVars>>
       PROVE  TypeOK'
  BY <1>17, CloseRowsType DEF TypeOK, sessionVars, callVars, workerVars
<1>18. ASSUME NEW w \in Worker, GracePeriodPasses(w) PROVE TypeOK'
  BY <1>18 DEF TypeOK, GracePeriodPasses, sessionVars, connVars, callVars
<1>19. ASSUME NEW w \in Worker, DeleteWorker(w) PROVE TypeOK'
  BY <1>19 DEF TypeOK, DeleteWorker, sessionVars, callVars
<1>20. ASSUME \/ \E w \in Worker, C \in SUBSET Conn : CloseOrphanedConnections(w, C)
              \/ CloseConnectionsForDeadWorkers
              \/ CloseWorkerlessConnections
       PROVE  TypeOK'
  BY <1>17, <1>20
  DEF CloseOrphanedConnections, CloseConnectionsForDeadWorkers,
      CloseWorkerlessConnections, DeadWorkerConns, WorkerlessConns
<1>21. ASSUME NEW s \in Session, Expire(s) PROVE TypeOK'
  BY <1>21 DEF TypeOK, Expire, connVars, callVars, workerVars
<1>22. ASSUME Crash PROVE TypeOK'
  BY <1>22 DEF TypeOK, Crash, connVars, workerVars
<1>23. ASSUME NEW w \in Worker, UpsertWorkerStatus(w) PROVE TypeOK'
  BY <1>23 DEF TypeOK, UpsertWorkerStatus, sessionVars, connVars, callVars
<1>24. ASSUME UNCHANGED vars PROVE TypeOK'
  BY <1>24 DEF TypeOK, vars, sessionVars, connVars, callVars, workerVars
<1> QED
  BY <1>1, <1>2, <1>3, <1>4, <1>5, <1>6, <1>7, <1>8, <1>9, <1>10, <1>11,
     <1>12, <1>13, <1>14, <1>15, <1>16, <1>18, <1>19, <1>20, <1>21, <1>22,
     <1>23, <1>24
  DEF Next

-----------------------------------------------------------------------------
(***************************************************************************)
(* The inductive invariant.  RowsConsistent is what the named properties   *)
(* need from each other: that an entered state is not left behind by a     *)
(* later row, that connection rows belong to stored sessions and that only *)
(* a session that was handed out can be activated.  SerialRows is what     *)
(* transactions that do not overlap give the others: a stored session has  *)
(* one current row.  SessionRaces shows that overlapping ones do not.      *)
(***************************************************************************)
SerialRows == \A s \in Session : Stored(s) => \E q \in states[s] : current[s] = {q}

IInv ==
    /\ TypeOK
    /\ RowsConsistent
    /\ SerialRows
    /\ TofuBoundByActivation
    /\ TerminatedAllClosed
    /\ ReasonJustified

\* The part of the invariant about the rows of one session.
SessionRows(s) ==
    /\ StateRows(s)
    /\ HandlerProgress(s)
    /\ Stored(s) => \E q \in states[s] : current[s] = {q}
    /\ Stored(s) => ((tofu[s] # Null) <=> ("active" \in states[s]))

\* The insert of a cancel or a termination keeps the rows of a session in
\* order.
LEMMA InsertRows ==
    ASSUME TypeOK, NEW S \in SUBSET Session, NEW q \in {"canceling", "terminated"},
           \A r \in S : Stored(r) /\ "terminated" \notin states[r],
           \A r \in Session : SessionRows(r),
           InsertState(S, q),
           UNCHANGED <<tofu, authz, lookups>>,
           \A r \in Session : authz[r] = "none" => reason'[r] = reason[r]
    PROVE  \A r \in Session : SessionRows(r)'
<1> SUFFICES ASSUME NEW r \in Session PROVE SessionRows(r)'
  OBVIOUS
<1>1. SessionRows(r)
  OBVIOUS
<1>2. CASE r \notin S
  <2>1. states'[r] = states[r] /\ current'[r] = current[r]
    BY <1>2 DEF InsertState, StatesAfter, CurrentAfter
  <2> QED
    BY <1>1, <2>1 DEF SessionRows, StateRows, HandlerProgress, Stored
<1>3. CASE r \in S
  <2>1. states'[r] = states[r] \union {q} /\ current'[r] = {q}
    BY <1>3 DEF InsertState, StatesAfter, CurrentAfter
  <2>2. Stored(r) /\ "terminated" \notin states[r]
    BY <1>3
  <2>3. authz[r] # "none"
    BY <1>1, <2>2 DEF SessionRows, HandlerProgress, Stored
  <2>4. StateRows(r)'
    BY <2>1, <2>2 DEF StateRows
  <2>5. HandlerProgress(r)'
    BY <1>1, <2>1, <2>3 DEF SessionRows, HandlerProgress
  <2>6. (Stored(r) => \E p \in states[r] : current[r] = {p})'
    BY <2>1
  <2>7. (Stored(r) => ((tofu[r] # Null) <=> ("active" \in states[r])))'
    BY <1>1, <2>1, <2>2 DEF SessionRows
  <2> QED
    BY <2>4, <2>5, <2>6, <2>7 DEF SessionRows
<1> QED
  BY <1>2, <1>3

\* Deleting sessions keeps the rows of every session in order.
LEMMA DeleteSessionRows ==
    ASSUME TypeOK, NEW S \in SUBSET Session, DeleteRows(S),
           \A r \in Session : SessionRows(r),
           UNCHANGED <<tofu, reason, lookups>>,
           \A r \in Session : authz'[r] = authz[r]
                \/ (authz'[r] = "over" /\ authz[r] # "returned")
    PROVE  \A r \in Session : SessionRows(r)'
<1> SUFFICES ASSUME NEW r \in Session PROVE SessionRows(r)'
  OBVIOUS
<1>1. SessionRows(r)
  OBVIOUS
<1>2. \/ states'[r] = {} /\ current'[r] = {}
      \/ states'[r] = states[r] /\ current'[r] = current[r]
  BY DEF DeleteRows
<1>3. StateRows(r)'
  BY <1>1, <1>2 DEF SessionRows, StateRows
<1>4. HandlerProgress(r)'
  BY <1>1, <1>2 DEF SessionRows, HandlerProgress
<1>5. (Stored(r) => \E p \in states[r] : current[r] = {p})'
  BY <1>1, <1>2 DEF SessionRows, Stored
<1>6. (Stored(r) => ((tofu[r] # Null) <=> ("active" \in states[r])))'
  BY <1>1, <1>2 DEF SessionRows, Stored
<1> QED
  BY <1>3, <1>4, <1>5, <1>6 DEF SessionRows

\* Completed sessions are the ones a termination may insert its state for.
LEMMA CompletedRows ==
    ASSUME ReasonJustified, NEW s \in Session, Completed(s)
    PROVE  Stored(s) /\ "terminated" \notin states[s]
BY DEF ReasonJustified, Completed

\* The part of the invariant about one session's rows.
LEMMA SessionRowsOf == ASSUME IInv PROVE \A r \in Session : SessionRows(r)
BY DEF IInv, RowsConsistent, SerialRows, TofuBoundByActivation, SessionRows

\* Every step keeps the rows of every session in order.
LEMMA SessionRowsStep ==
    ASSUME IInv, [Next]_vars PROVE \A r \in Session : SessionRows(r)'
<1> DEFINE Goal == \A r \in Session : SessionRows(r)'
<1> USE SessionRowsOf
<1>a. TypeOK /\ ReasonJustified
  BY DEF IInv
<1>b. ASSUME UNCHANGED <<states, current, tofu, reason, authz, lookups>>
      PROVE  Goal
  BY <1>b DEF SessionRows, StateRows, HandlerProgress, Stored
<1>c. ASSUME NEW s \in Session, authz[s] \in {"created", "issued"},
             UNCHANGED <<states, current, tofu, reason, lookups>>,
             NEW a \in {"issued", "returned", "revoked"},
             authz' = [authz EXCEPT ![s] = a]
      PROVE  Goal
  <2> SUFFICES ASSUME NEW r \in Session PROVE SessionRows(r)'
    OBVIOUS
  <2>1. IF r = s THEN authz[r] \in {"created", "issued"} /\ authz'[r] = a
        ELSE authz'[r] = authz[r]
    BY <1>a, <1>c DEF TypeOK
  <2>2. SessionRows(r)
    OBVIOUS
  <2> QED
    BY <1>c, <2>1, <2>2 DEF SessionRows, StateRows, HandlerProgress, Stored
<1>1. ASSUME NEW s \in Session, CreateSession(s) PROVE Goal
  <2> SUFFICES ASSUME NEW r \in Session PROVE SessionRows(r)'
    OBVIOUS
  <2>1. CASE r = s
    <3>1. /\ states'[s] = {"pending"} /\ current'[s] = {"pending"}
          /\ authz'[s] = "created" /\ tofu' = tofu /\ lookups' = lookups
          /\ authz[s] = "none"
      BY <1>1, <1>a DEF CreateSession, TypeOK, callVars
    <3> QED
      BY <2>1, <3>1 DEF SessionRows, StateRows, HandlerProgress, Stored
  <2>2. CASE r # s
    BY <1>1, <1>a, <2>2
    DEF SessionRows, StateRows, HandlerProgress, Stored, CreateSession, TypeOK,
        callVars
  <2> QED
    BY <2>1, <2>2
<1>2. ASSUME NEW s \in Session, Issue(s) PROVE Goal
  BY <1>2, <1>c DEF Issue, callVars
<1>3. ASSUME NEW s \in Session, AuthorizeSessionReturn(s) PROVE Goal
  BY <1>3, <1>c DEF AuthorizeSessionReturn, callVars
<1>4. ASSUME NEW s \in Session, AuthorizeSessionRevoke(s) PROVE Goal
  BY <1>4, <1>c DEF AuthorizeSessionRevoke, callVars
<1>5. ASSUME NEW s \in Session, AuthorizeSessionDelete(s) PROVE Goal
  <2>1. /\ DeleteRows({s})
        /\ UNCHANGED <<tofu, reason, lookups>>
        /\ \A r \in Session : authz'[r] = authz[r]
                \/ (authz'[r] = "over" /\ authz[r] # "returned")
    BY <1>5, <1>a DEF AuthorizeSessionDelete, TypeOK, callVars
  <2> QED
    BY <1>a, <2>1, DeleteSessionRows
<1>6. ASSUME NEW s \in Session, NEW t \in Tofu, LookupSession(s, t) PROVE Goal
  <2> SUFFICES ASSUME NEW r \in Session PROVE SessionRows(r)'
    OBVIOUS
  <2>1. UNCHANGED <<states, current, tofu, reason, authz>>
    BY <1>6 DEF LookupSession, sessionVars
  <2>2. authz[s] = "returned"
    BY <1>6 DEF LookupSession
  <2>3. r = s \/ lookups'[r] = lookups[r]
    BY <1>6, <1>a DEF LookupSession, TypeOK
  <2> QED
    BY <2>1, <2>2, <2>3 DEF SessionRows, StateRows, HandlerProgress, Stored
<1>7. ASSUME NEW s \in Session, NEW t \in Tofu, ActivateSession(s, t)
      PROVE  Goal
  <2> SUFFICES ASSUME NEW r \in Session PROVE SessionRows(r)'
    OBVIOUS
  <2>1. UNCHANGED <<reason, authz>>
    BY <1>7 DEF ActivateSession
  <2>2. lookups[s][t] # 0 /\ authz[s] = "returned"
    BY <1>7 DEF ActivateSession, SessionRows, HandlerProgress
  <2>3. r = s \/ lookups'[r] = lookups[r]
    BY <1>7, <1>a DEF ActivateSession, TypeOK
  <2>4. CASE UNCHANGED <<states, current, cred, tofu, version>>
    BY <2>1, <2>2, <2>3, <2>4
    DEF SessionRows, StateRows, HandlerProgress, Stored
  <2>5. CASE /\ "pending" \in states[s]
             /\ MayInsertState(s, "active")
             /\ InsertState({s}, "active")
             /\ tofu' = [tofu EXCEPT ![s] = t]
    <3>1. CASE r # s
      <4>1. /\ states'[r] = states[r] /\ current'[r] = current[r]
            /\ tofu'[r] = tofu[r]
        BY <1>a, <2>5, <3>1
        DEF InsertState, StatesAfter, CurrentAfter, TypeOK
      <4> QED
        BY <2>1, <2>3, <3>1, <4>1
        DEF SessionRows, StateRows, HandlerProgress, Stored
    <3>2. CASE r = s
      <4>1. /\ states'[r] = states[r] \union {"active"} /\ current'[r] = {"active"}
            /\ tofu'[r] = t
        BY <1>a, <2>5, <3>2
        DEF InsertState, StatesAfter, CurrentAfter, TypeOK
      <4>2. states[r] # {} /\ \E q \in states[r] : current[r] = {q}
        BY <2>5, <3>2 DEF SessionRows, Stored
      <4>3. PICK q \in states[r] : current[r] = {q}
        BY <4>2
      <4>4. <<q, "active">> \in session_valid_state
        BY <2>5, <3>2, <4>3 DEF MayInsertState
      <4>5. q = "pending"
        BY <4>4 DEF session_valid_state
      <4>6. "terminated" \notin states[r] /\ "canceling" \notin states[r]
        BY <4>3, <4>5 DEF SessionRows, StateRows
      <4>7. StateRows(r)'
        BY <4>1, <4>6 DEF StateRows
      <4>8. HandlerProgress(r)'
        BY <2>1, <2>2, <3>2 DEF HandlerProgress
      <4>9. tofu'[r] # Null
        BY <4>1, NullAssumption
      <4> QED
        BY <4>1, <4>7, <4>8, <4>9 DEF SessionRows
    <3> QED
      BY <3>1, <3>2
  <2> QED
    BY <1>7, <2>4, <2>5 DEF ActivateSession
<1>8. ASSUME NEW s \in Session, LookupForCancel(s) PROVE Goal
  BY <1>8, <1>b DEF LookupForCancel, sessionVars
<1>9. ASSUME NEW s \in Session, CancelSession(s) PROVE Goal
  <2>1. UNCHANGED <<tofu, reason, authz, lookups>>
    BY <1>9 DEF CancelSession
  <2>2. CASE UNCHANGED <<states, current, cred>>
    BY <2>1, <2>2, <1>b
  <2>3. CASE /\ Stored(s) /\ states[s] \intersect {"canceling", "terminated"} = {}
             /\ InsertState({s}, "canceling")
    BY <1>a, <2>1, <2>3, InsertRows
  <2> QED
    BY <1>9, <2>2, <2>3 DEF CancelSession
<1>10. ASSUME NEW s \in Session, CancelSessionWithNullFk(s) PROVE Goal
  BY <1>10, <1>a, InsertRows DEF CancelSessionWithNullFk, callVars
<1>11. ASSUME NEW s \in Session, TerminateSessionIfPossible(s) PROVE Goal
  <2>1. UNCHANGED <<tofu, authz, lookups>>
    BY <1>11 DEF TerminateSessionIfPossible
  <2>2. CASE UNCHANGED <<reason, version, states, current, cred>>
    BY <2>1, <2>2, <1>b
  <2>3. CASE Completed(s) /\ Terminate({s})
    <3>1. Stored(s) /\ "terminated" \notin states[s]
      BY <1>a, <2>3, CompletedRows
    <3>2. \A r \in Session : authz[r] = "none" => reason'[r] = reason[r]
      BY <2>3, <3>1 DEF Terminate, SessionRows, HandlerProgress, Stored
    <3>3. InsertState({s}, "terminated")
      BY <2>3 DEF Terminate
    <3> QED
      BY <1>a, <2>1, <3>1, <3>2, <3>3, InsertRows
  <2> QED
    BY <1>11, <2>2, <2>3 DEF TerminateSessionIfPossible
<1>12. ASSUME TerminateCompletedSessions PROVE Goal
  <2> DEFINE S == {s \in Session : Completed(s)}
  <2>1. UNCHANGED <<tofu, authz, lookups>> /\ Terminate(S)
    BY <1>12 DEF TerminateCompletedSessions, callVars
  <2>2. \A r \in S : Stored(r) /\ "terminated" \notin states[r]
    BY <1>a, CompletedRows
  <2>3. \A r \in Session : authz[r] = "none" => reason'[r] = reason[r]
    BY <2>1, <2>2 DEF Terminate, SessionRows, HandlerProgress, Stored
  <2>4. InsertState(S, "terminated")
    BY <2>1 DEF Terminate
  <2> QED
    BY <1>a, <2>1, <2>2, <2>3, <2>4, InsertRows
<1>13. ASSUME NEW S \in SUBSET Session, DeleteTerminatedSessions(S) PROVE Goal
  <2>1. DeleteRows(S) /\ UNCHANGED <<tofu, reason, authz, lookups>>
    BY <1>13 DEF DeleteTerminatedSessions, callVars
  <2> QED
    BY <1>a, <2>1, DeleteSessionRows
<1>14. ASSUME NEW s \in Session, Expire(s) PROVE Goal
  BY <1>14, <1>b DEF Expire, callVars
<1>15. ASSUME Crash PROVE Goal
  BY <1>15, <1>a DEF Crash, SessionRows, StateRows, HandlerProgress, Stored
<1>16. ASSUME NEW s \in Session, NEW c \in Conn, NEW w \in Worker,
              AuthorizeConnection(s, c, w)
       PROVE  Goal
  BY <1>16, <1>b DEF AuthorizeConnection, sessionVars, callVars
<1>17. ASSUME NEW c \in Conn, ConnectConnection(c) PROVE Goal
  BY <1>17, <1>b DEF ConnectConnection, sessionVars, callVars
<1>18. ASSUME NEW C \in SUBSET Conn, CloseConnections(C) PROVE Goal
  BY <1>18, <1>b DEF CloseConnections, sessionVars
<1>19. ASSUME NEW w \in Worker, NEW C \in SUBSET Conn,
              CloseOrphanedConnections(w, C)
       PROVE  Goal
  BY <1>19, <1>b DEF CloseOrphanedConnections, sessionVars, callVars
<1>20. ASSUME NEW w \in Worker,
              UpsertWorkerStatus(w) \/ GracePeriodPasses(w) \/ DeleteWorker(w)
       PROVE  Goal
  BY <1>20, <1>b
  DEF UpsertWorkerStatus, GracePeriodPasses, DeleteWorker, sessionVars, callVars
<1>21. ASSUME CloseConnectionsForDeadWorkers \/ CloseWorkerlessConnections
       PROVE  Goal
  BY <1>21, <1>b
  DEF CloseConnectionsForDeadWorkers, CloseWorkerlessConnections, sessionVars,
      callVars
<1>22. ASSUME UNCHANGED vars PROVE Goal
  BY <1>22, <1>b DEF vars, sessionVars, callVars
<1> QED
  BY <1>1, <1>2, <1>3, <1>4, <1>5, <1>6, <1>7, <1>8, <1>9, <1>10, <1>11,
     <1>12, <1>13, <1>14, <1>15, <1>16, <1>17, <1>18, <1>19, <1>20, <1>21,
     <1>22
  DEF Next

-----------------------------------------------------------------------------
\* The part of the invariant about connections and termination.
ConnectionRows ==
    /\ \A c \in Conn : ConnRows(c)
    /\ TerminatedAllClosed
    /\ ReasonJustified

\* A step that leaves the connections alone and either leaves a session's
\* termination alone too or terminates a completed session.
LEMMA KeepConnections ==
    ASSUME IInv, UNCHANGED <<owner, connStates, connCurrent>>,
           \A s \in Session : states[s] \subseteq states'[s],
           \A s \in Session : expired[s] => expired'[s],
           \A s \in Session :
                \/ /\ reason'[s] = reason[s]
                   /\ "terminated" \in states'[s] => "terminated" \in states[s]
                   /\ states'[s] # {} => Stored(s) \/ reason[s] = "null"
                \/ /\ Completed(s)
                   /\ reason'[s] = ReasonFor(s)
                   /\ "terminated" \in states'[s]
    PROVE  ConnectionRows'
<1> USE DEF IInv
<1>1. \A s \in Session : ConnsOf(s)' = ConnsOf(s)
  BY DEF ConnsOf
<1>2. \A s \in Session : LimitReached(s)' <=> LimitReached(s)
  BY <1>1 DEF LimitReached
<1>3. (\A c \in Conn : ConnRows(c))'
  BY DEF RowsConsistent, ConnRows
<1>4. TerminatedAllClosed'
  <2> SUFFICES ASSUME NEW s \in Session, "terminated" \in states'[s],
                      NEW c \in ConnsOf(s)
               PROVE  "closed" \in connStates[c]
    BY <1>1 DEF TerminatedAllClosed
  <2>1. CASE "terminated" \in states[s]
    BY <2>1 DEF TerminatedAllClosed
  <2>2. CASE Completed(s)
    BY <2>2 DEF Completed, OpenConn, ConnsOf, RowsConsistent, ConnRows
  <2> QED
    BY <2>1, <2>2
<1>6. ReasonJustified'
  <2> SUFFICES ASSUME NEW s \in Session, states'[s] # {}
               PROVE  /\ (reason'[s] # "null") <=> ("terminated" \in states'[s])
                      /\ reason'[s] = "timed out" => expired'[s]
                      /\ reason'[s] = "canceled" => "canceling" \in states'[s]
                      /\ reason'[s] = "connection limit" => LimitReached(s)
    BY <1>2 DEF ReasonJustified, Stored
  <2>1. CASE /\ reason'[s] = reason[s]
             /\ "terminated" \in states'[s] => "terminated" \in states[s]
             /\ states'[s] # {} => Stored(s) \/ reason[s] = "null"
    BY <2>1 DEF ReasonJustified, Stored
  <2>2. CASE /\ Completed(s)
             /\ reason'[s] = ReasonFor(s)
             /\ "terminated" \in states'[s]
    <3>1. current[s] \subseteq states[s]
      BY DEF RowsConsistent, StateRows
    <3> QED
      BY <2>2, <3>1 DEF Completed, ReasonFor
  <2> QED
    BY <2>1, <2>2
<1> QED
  BY <1>3, <1>4, <1>6 DEF ConnectionRows

\* Closing connections that have rows.
LEMMA CloseKeepsConnections ==
    ASSUME IInv, NEW C \in SUBSET Conn, CloseRows(C),
           \A c \in C : connStates[c] # {},
           UNCHANGED <<states, reason, expired, owner>>
    PROVE  ConnectionRows'
<1> USE DEF IInv
<1>1. \A c \in Conn : connStates'[c] = connStates[c]
                    \/ (c \in C /\ connStates'[c] = connStates[c] \union {"closed"})
  BY DEF CloseRows
<1>2. \A s \in Session : ConnsOf(s)' = ConnsOf(s)
  BY <1>1 DEF ConnsOf
<1>3. \A s \in Session : LimitReached(s)' <=> LimitReached(s)
  BY <1>2 DEF LimitReached
<1>4. (\A c \in Conn : ConnRows(c))'
  <2> SUFFICES ASSUME NEW c \in Conn PROVE ConnRows(c)'
    OBVIOUS
  <2>1. ConnRows(c)
    BY DEF RowsConsistent
  <2>2. CASE c \in C
    BY <2>1, <2>2 DEF ConnRows, CloseRows
  <2>3. CASE c \notin C
    BY <2>1, <2>3 DEF ConnRows, CloseRows
  <2> QED
    BY <2>2, <2>3
<1>5. TerminatedAllClosed'
  <2> SUFFICES ASSUME NEW s \in Session, "terminated" \in states[s],
                      NEW c \in ConnsOf(s)
               PROVE  "closed" \in connStates'[c]
    BY <1>2 DEF TerminatedAllClosed
  <2>1. "closed" \in connStates[c] /\ c \in Conn
    BY DEF TerminatedAllClosed, ConnsOf
  <2> QED
    BY <1>1, <2>1
<1>7. ReasonJustified'
  BY <1>3 DEF ReasonJustified, Stored
<1> QED
  BY <1>4, <1>5, <1>7 DEF ConnectionRows

\* Deleting sessions with their connections.
LEMMA DeleteKeepsConnections ==
    ASSUME IInv, NEW S \in SUBSET Session, DeleteRows(S),
           UNCHANGED <<reason, expired, owner>>
    PROVE  ConnectionRows'
<1> USE DEF IInv
<1>1. \A s \in Session : /\ s \in S => states'[s] = {} /\ ConnsOf(s)' = {}
                         /\ s \notin S => /\ states'[s] = states[s]
                                         /\ ConnsOf(s)' = ConnsOf(s)
  BY DEF DeleteRows, ConnsOf
<1>2. \A c \in Conn : /\ owner[c] \in S => connStates'[c] = {}
                     /\ owner[c] \notin S => /\ connStates'[c] = connStates[c]
                                            /\ connCurrent'[c] = connCurrent[c]
  BY DEF DeleteRows
<1>3. (\A c \in Conn : ConnRows(c))'
  <2> SUFFICES ASSUME NEW c \in Conn, connStates'[c] # {} PROVE ConnRows(c)'
    BY DEF ConnRows
  <2>1. owner[c] \notin S
    BY DEF DeleteRows
  <2>2. connStates'[c] = connStates[c] /\ connCurrent'[c] = connCurrent[c]
    BY <1>2, <2>1
  <2>3. ConnRows(c)
    BY DEF RowsConsistent
  <2> QED
    BY <1>1, <2>1, <2>2, <2>3 DEF ConnRows
<1>4. TerminatedAllClosed'
  <2> SUFFICES ASSUME NEW s \in Session, "terminated" \in states'[s],
                      NEW c \in ConnsOf(s)'
               PROVE  "closed" \in connStates'[c]
    BY DEF TerminatedAllClosed
  <2>1. s \notin S /\ "terminated" \in states[s] /\ c \in ConnsOf(s)
    BY <1>1
  <2>2. c \in Conn /\ owner[c] = s /\ "closed" \in connStates[c]
    BY <2>1 DEF TerminatedAllClosed, ConnsOf
  <2> QED
    BY <1>2, <2>1, <2>2
<1>6. ReasonJustified'
  <2> SUFFICES ASSUME NEW s \in Session, states'[s] # {}
               PROVE  /\ (reason[s] # "null") <=> ("terminated" \in states[s])
                      /\ reason[s] = "timed out" => expired[s]
                      /\ reason[s] = "canceled" => "canceling" \in states[s]
                      /\ reason[s] = "connection limit" => LimitReached(s)
                      /\ states'[s] = states[s] /\ (LimitReached(s)' <=> LimitReached(s))
    BY DEF ReasonJustified, Stored
  <2>1. s \notin S
    BY <1>1
  <2> QED
    BY <1>1, <2>1 DEF ReasonJustified, Stored, LimitReached
<1> QED
  BY <1>3, <1>4, <1>6 DEF ConnectionRows

\* Authorizing one more connection of an active session below its limit.
LEMMA AuthorizeKeepsConnections ==
    ASSUME IInv, NEW s \in Session, NEW c \in Conn, NEW w \in Worker,
           AuthorizeConnection(s, c, w)
    PROVE  ConnectionRows'
<1> USE DEF IInv
<1>1. /\ UNCHANGED <<states, current, reason, expired>>
      /\ owner' = [owner EXCEPT ![c] = s]
      /\ connStates' = [connStates EXCEPT ![c] = {"authorized"}]
      /\ connCurrent' = [connCurrent EXCEPT ![c] = "authorized"]
      /\ owner[c] = Null /\ ~LimitReached(s) /\ "active" \in current[s]
      /\ Stored(s)
  BY DEF AuthorizeConnection, sessionVars
<1>2. connStates[c] = {}
  BY <1>1, NullAssumption DEF RowsConsistent, ConnRows
<1>3. ConnsOf(s)' = ConnsOf(s) \union {c} /\ c \notin ConnsOf(s)
  BY <1>1, <1>2 DEF ConnsOf, TypeOK
<1>4. \A r \in Session : r # s => ConnsOf(r)' = ConnsOf(r)
  BY <1>1, <1>2 DEF ConnsOf, TypeOK
<1>5. "terminated" \notin states[s] /\ reason[s] = "null"
  <2>1. "terminated" \notin states[s]
    BY <1>1 DEF RowsConsistent, StateRows
  <2> QED
    BY <1>1, <2>1 DEF ReasonJustified
<1>6. (\A d \in Conn : ConnRows(d))'
  <2> SUFFICES ASSUME NEW d \in Conn PROVE ConnRows(d)'
    OBVIOUS
  <2>1. CASE d = c
    BY <1>1, <2>1 DEF ConnRows, TypeOK, Stored
  <2>2. CASE d # c
    BY <1>1, <2>2 DEF RowsConsistent, ConnRows, TypeOK
  <2> QED
    BY <2>1, <2>2
<1>7. TerminatedAllClosed'
  <2> SUFFICES ASSUME NEW r \in Session, "terminated" \in states[r],
                      NEW d \in ConnsOf(r)'
               PROVE  "closed" \in connStates'[d]
    BY <1>1 DEF TerminatedAllClosed
  <2>1. r # s /\ d \in ConnsOf(r)
    BY <1>4, <1>5
  <2>2. d # c /\ d \in Conn
    BY <1>2, <2>1 DEF ConnsOf
  <2> QED
    BY <1>1, <2>1, <2>2 DEF TerminatedAllClosed, TypeOK
<1>9. ReasonJustified'
  <2> SUFFICES ASSUME NEW r \in Session, Stored(r)
               PROVE  /\ (reason[r] # "null") <=> ("terminated" \in states[r])
                      /\ reason[r] = "timed out" => expired[r]
                      /\ reason[r] = "canceled" => "canceling" \in states[r]
                      /\ reason[r] = "connection limit" => LimitReached(r)'
    BY <1>1 DEF ReasonJustified, Stored
  <2>1. CASE r = s
    BY <1>5, <2>1
  <2>2. CASE r # s
    BY <1>4, <2>2 DEF ReasonJustified, LimitReached
  <2> QED
    BY <2>1, <2>2
<1> QED
  BY <1>6, <1>7, <1>9 DEF ConnectionRows

\* A ConnectConnection, however late.
LEMMA ConnectKeepsConnections ==
    ASSUME IInv, NEW c \in Conn, ConnectConnection(c)
    PROVE  ConnectionRows'
<1> USE DEF IInv
<1>1. /\ UNCHANGED <<states, current, reason, expired, owner>>
      /\ connStates' = [connStates EXCEPT ![c] = connStates[c] \union {"connected"}]
      /\ connCurrent' = [connCurrent EXCEPT ![c] = "connected"]
      /\ connStates[c] # {}
  BY DEF ConnectConnection, sessionVars
<1>2. \A d \in Conn : connStates[d] \subseteq connStates'[d]
  BY <1>1 DEF TypeOK
<1>3. \A s \in Session : ConnsOf(s)' = ConnsOf(s)
  BY <1>1 DEF ConnsOf, TypeOK
<1>4. (\A d \in Conn : ConnRows(d))'
  <2> SUFFICES ASSUME NEW d \in Conn PROVE ConnRows(d)'
    OBVIOUS
  <2>1. CASE d = c
    BY <1>1, <2>1 DEF RowsConsistent, ConnRows, TypeOK
  <2>2. CASE d # c
    BY <1>1, <2>2 DEF RowsConsistent, ConnRows, TypeOK
  <2> QED
    BY <2>1, <2>2
<1>5. TerminatedAllClosed'
  <2> SUFFICES ASSUME NEW s \in Session, "terminated" \in states[s],
                      NEW d \in ConnsOf(s)
               PROVE  "closed" \in connStates'[d]
    BY <1>1, <1>3 DEF TerminatedAllClosed
  <2>1. "closed" \in connStates[d] /\ d \in Conn
    BY DEF TerminatedAllClosed, ConnsOf
  <2> QED
    BY <1>2, <2>1
<1>7. ReasonJustified'
  BY <1>1, <1>3 DEF ReasonJustified, Stored, LimitReached
<1> QED
  BY <1>4, <1>5, <1>7 DEF ConnectionRows

\* Every step keeps the connections, their termination and the reasons in order.
LEMMA ConnectionRowsStep == ASSUME IInv, [Next]_vars PROVE ConnectionRows'
<1>t. TypeOK /\ RowsConsistent /\ ReasonJustified
  BY DEF IInv
\* A step that changes no state row, no reason and no connection row.
<1>a. ASSUME UNCHANGED <<states, reason, owner, connStates, connCurrent>>,
             \A s \in Session : expired[s] => expired'[s]
      PROVE  ConnectionRows'
  BY <1>a, KeepConnections DEF Stored
\* A step that inserts a state other than terminated for a stored session.
<1>b. ASSUME NEW s \in Session, Stored(s), NEW q \in {"active", "canceling"},
             InsertState({s}, q),
             UNCHANGED <<reason, expired, owner, connStates, connCurrent>>
      PROVE  ConnectionRows'
  <2>1. \A r \in Session : states'[r] = states[r]
                        \/ (r = s /\ states'[r] = states[r] \union {q})
    BY <1>b DEF InsertState, StatesAfter
  <2> QED
    BY <1>b, <2>1, KeepConnections DEF Stored
\* A step that terminates completed sessions.
<1>c. ASSUME NEW S \in SUBSET Session, \A s \in S : Completed(s), Terminate(S),
             UNCHANGED <<expired, owner, connStates, connCurrent>>
      PROVE  ConnectionRows'
  <2>1. \A s \in Session :
            \/ s \notin S /\ states'[s] = states[s] /\ reason'[s] = reason[s]
            \/ /\ s \in S
               /\ states'[s] = states[s] \union {"terminated"}
               /\ reason'[s] = ReasonFor(s)
    BY <1>c DEF Terminate, InsertState, StatesAfter
  <2> QED
    BY <1>c, <2>1, KeepConnections DEF Stored
<1>1. ASSUME NEW s \in Session, CreateSession(s) PROVE ConnectionRows'
  <2>1. /\ states[s] = {} /\ reason[s] = "null"
        /\ UNCHANGED <<reason, expired, owner, connStates, connCurrent>>
    BY <1>1, <1>t
    DEF CreateSession, connVars, RowsConsistent, HandlerProgress
  <2>2. \A r \in Session : (r # s /\ states'[r] = states[r])
                        \/ (r = s /\ states'[r] = {"pending"})
    BY <1>1, <1>t DEF CreateSession, TypeOK
  <2> QED
    BY <2>1, <2>2, KeepConnections DEF Stored
<1>2. ASSUME NEW s \in Session,
             Issue(s) \/ AuthorizeSessionReturn(s) \/ AuthorizeSessionRevoke(s)
      PROVE  ConnectionRows'
  BY <1>2, <1>a
  DEF Issue, AuthorizeSessionReturn, AuthorizeSessionRevoke, connVars
<1>3. ASSUME NEW s \in Session, AuthorizeSessionDelete(s) PROVE ConnectionRows'
  <2>1. DeleteRows({s}) /\ UNCHANGED <<reason, expired, owner>>
    BY <1>3 DEF AuthorizeSessionDelete
  <2> QED
    BY <2>1, DeleteKeepsConnections
<1>4. ASSUME NEW s \in Session, NEW t \in Tofu, LookupSession(s, t)
      PROVE  ConnectionRows'
  BY <1>4, <1>a DEF LookupSession, sessionVars, connVars
<1>5. ASSUME NEW s \in Session, NEW t \in Tofu, ActivateSession(s, t)
      PROVE  ConnectionRows'
  <2>1. UNCHANGED <<reason, expired, owner, connStates, connCurrent>>
    BY <1>5 DEF ActivateSession, connVars
  <2>2. CASE UNCHANGED <<states, current, cred, tofu, version>>
    BY <2>1, <2>2, <1>a
  <2>3. CASE "pending" \in states[s] /\ InsertState({s}, "active")
    BY <2>1, <2>3, <1>b DEF Stored
  <2> QED
    BY <1>5, <2>2, <2>3 DEF ActivateSession
<1>6. ASSUME NEW s \in Session, LookupForCancel(s) PROVE ConnectionRows'
  BY <1>6, <1>a DEF LookupForCancel, sessionVars, connVars
<1>7. ASSUME NEW s \in Session, CancelSession(s) PROVE ConnectionRows'
  <2>1. UNCHANGED <<reason, expired, owner, connStates, connCurrent>>
    BY <1>7 DEF CancelSession, connVars
  <2>2. CASE UNCHANGED <<states, current, cred>>
    BY <2>1, <2>2, <1>a
  <2>3. CASE Stored(s) /\ InsertState({s}, "canceling")
    BY <2>1, <2>3, <1>b
  <2> QED
    BY <1>7, <2>2, <2>3 DEF CancelSession
<1>8. ASSUME NEW s \in Session, CancelSessionWithNullFk(s) PROVE ConnectionRows'
  BY <1>8, <1>b DEF CancelSessionWithNullFk, connVars
<1>9. ASSUME NEW s \in Session, TerminateSessionIfPossible(s)
      PROVE  ConnectionRows'
  <2>1. UNCHANGED <<expired, owner, connStates, connCurrent>>
    BY <1>9 DEF TerminateSessionIfPossible, connVars
  <2>2. CASE UNCHANGED <<reason, version, states, current, cred>>
    BY <2>1, <2>2, <1>a
  <2>3. CASE Completed(s) /\ Terminate({s})
    BY <2>1, <2>3, <1>c
  <2> QED
    BY <1>9, <2>2, <2>3 DEF TerminateSessionIfPossible
<1>10. ASSUME TerminateCompletedSessions PROVE ConnectionRows'
  BY <1>10, <1>c DEF TerminateCompletedSessions, connVars
<1>11. ASSUME NEW S \in SUBSET Session, DeleteTerminatedSessions(S)
       PROVE  ConnectionRows'
  <2>1. DeleteRows(S) /\ UNCHANGED <<reason, expired, owner>>
    BY <1>11 DEF DeleteTerminatedSessions
  <2> QED
    BY <2>1, DeleteKeepsConnections
<1>12. ASSUME NEW C \in SUBSET Conn, CloseConnections(C) PROVE ConnectionRows'
  BY <1>12, CloseKeepsConnections DEF CloseConnections, sessionVars
<1>13. ASSUME NEW w \in Worker, NEW C \in SUBSET Conn,
              CloseOrphanedConnections(w, C)
       PROVE  ConnectionRows'
  BY <1>13, CloseKeepsConnections
  DEF CloseOrphanedConnections, OpenConn, sessionVars
<1>14. ASSUME CloseConnectionsForDeadWorkers \/ CloseWorkerlessConnections
       PROVE  ConnectionRows'
  <2>1. /\ DeadWorkerConns \in SUBSET Conn /\ WorkerlessConns \in SUBSET Conn
        /\ \A c \in DeadWorkerConns \union WorkerlessConns : connStates[c] # {}
    BY DEF DeadWorkerConns, WorkerlessConns, Unclosed
  <2>2. /\ CloseRows(DeadWorkerConns) \/ CloseRows(WorkerlessConns)
        /\ UNCHANGED <<states, reason, expired, owner>>
    BY <1>14
    DEF CloseConnectionsForDeadWorkers, CloseWorkerlessConnections, sessionVars
  <2> QED
    BY <2>1, <2>2, CloseKeepsConnections
<1>15. ASSUME NEW w \in Worker,
              UpsertWorkerStatus(w) \/ GracePeriodPasses(w) \/ DeleteWorker(w)
       PROVE  ConnectionRows'
  BY <1>15, <1>a
  DEF UpsertWorkerStatus, GracePeriodPasses, DeleteWorker, sessionVars, connVars
<1>16. ASSUME NEW s \in Session, Expire(s) PROVE ConnectionRows'
  <2>1. \A r \in Session : expired[r] => expired'[r]
    BY <1>16, <1>t DEF Expire, TypeOK
  <2> QED
    BY <1>16, <2>1, <1>a DEF Expire, connVars
<1>17. ASSUME Crash \/ UNCHANGED vars PROVE ConnectionRows'
  BY <1>17, <1>a DEF Crash, vars, sessionVars, connVars
<1> QED
  BY <1>1, <1>2, <1>3, <1>4, <1>5, <1>6, <1>7, <1>8, <1>9, <1>10, <1>11,
     <1>12, <1>13, <1>14, <1>15, <1>16, <1>17, AuthorizeKeepsConnections,
     ConnectKeepsConnections
  DEF Next

-----------------------------------------------------------------------------
\* The empty tables satisfy the invariant.
LEMMA InitIInv == ASSUME Init PROVE IInv
<1>1. TypeOK
  BY DEF Init, TypeOK, State, ConnState
<1>2. RowsConsistent /\ SerialRows /\ TofuBoundByActivation
  BY DEF Init, RowsConsistent, StateRows, HandlerProgress, ConnRows,
         SerialRows, TofuBoundByActivation, Stored
<1>3. TerminatedAllClosed /\ ReasonJustified
  BY DEF Init, TerminatedAllClosed, ReasonJustified, Stored
<1> QED
  BY <1>1, <1>2, <1>3 DEF IInv

\* The invariant is inductive: no transaction, trigger, job, worker report or
\* crash breaks it.
THEOREM Inductive == Spec => []IInv
<1>1. ASSUME IInv, [Next]_vars PROVE IInv'
  <2>1. TypeOK'
    BY <1>1, TypeStep DEF IInv
  <2>2. (\A s \in Session : SessionRows(s))' /\ ConnectionRows'
    BY <1>1, SessionRowsStep, ConnectionRowsStep
  <2> QED
    BY <2>1, <2>2
    DEF IInv, SessionRows, ConnectionRows, RowsConsistent, SerialRows,
        TofuBoundByActivation
<1> QED
  BY <1>1, InitIInv, PTL DEF Spec

\* Every variable keeps its type.
THEOREM TypeCorrect == Spec => []TypeOK
BY Inductive, PTL DEF IInv

\* However many connections a session has and whatever order they are
\* authorized, connected and closed in, a terminated session has none that
\* was never closed.
THEOREM TerminationSafe == Spec => []TerminatedAllClosed
BY Inductive, PTL DEF IInv

\* The termination reason recorded is one the session's history justifies.
THEOREM ReasonSafe == Spec => []ReasonJustified
BY Inductive, PTL DEF IInv

\* A token is bound to a session exactly when it was activated.
THEOREM TofuSafe == Spec => []TofuBoundByActivation
BY Inductive, PTL DEF IInv

\* Connection rows belong to stored sessions, a current state is the last one
\* entered, and activations under way are of sessions that were handed out,
\* whatever is deleted and whichever handler crashes in between.
THEOREM RowsStayConsistent == Spec => []RowsConsistent
BY Inductive, PTL DEF IInv

=============================================================================
