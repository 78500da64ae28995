---------------------------- MODULE SessionStore ----------------------------
(***************************************************************************)
(* The controller's session tables and the operations of package session   *)
(* on them: session, session_state, session_connection,                    *)
(* session_connection_state and the status of the dynamic credentials that *)
(* belong to a session.  Every action is one committed transaction of      *)
(* internal/session together with the triggers it fires; handlers that     *)
(* commit several transactions are several actions joined by the variables *)
(* that record how far the handler got.  SessionRaces opens the            *)
(* transactions up.                                                        *)
(*                                                                         *)
(* Time is abstract: that an expiration, a grace period or a retention     *)
(* threshold has passed is a fact that becomes true at any moment.         *)
(***************************************************************************)
EXTENDS Naturals, Integers, FiniteSets

CONSTANTS
    Session,            \* session public ids
    Conn,               \* connection public ids
    Worker,             \* worker public ids
    Tofu,               \* trust-on-first-use tokens clients present
    ConnectionLimit,    \* connection_limit of a session, -1 for unlimited
    MaxVersion,         \* bound on the version a repeated cancel can reach
    Null                \* SQL null

ASSUME LimitAssumption ==
    ConnectionLimit \in [Session -> {-1} \union (Nat \ {0})]
ASSUME NullAssumption == Null \notin Session \union Worker \union Tofu
ASSUME ConnAssumption == IsFiniteSet(Conn)
ASSUME VersionAssumption == MaxVersion \in Nat \ {0}

VARIABLES
    states,         \* session -> states that have a session_state row
    current,        \* session -> those whose row has a null end_time
    version,        \* session -> version column
    tofu,           \* session -> tofu_token
    reason,         \* session -> termination_reason
    expired,        \* session -> now() is past expiration_time
    cred,           \* session -> status of its dynamic credential
    authz,          \* session -> progress of the AuthorizeSession handler
    owner,          \* connection -> session_id; kept once the row is deleted
    connStates,     \* connection -> states that have a row
    connCurrent,    \* connection -> the state whose row has a null end_time
    closedReason,   \* connection -> closed_reason is not null
    connWorker,     \* connection -> worker_id
    lookups,        \* session -> token -> version a worker read, 0 for none
    cancels,        \* session -> version a cancel handler read, 0 for none
    terminating,    \* sessions CloseConnections has still to try to terminate
    workers,        \* rows of server_worker
    silent          \* workers past the grace period since their last status

sessionVars == <<states, current, version, tofu, reason, expired, cred, authz>>
connVars    == <<owner, connStates, connCurrent, closedReason, connWorker>>
callVars    == <<lookups, cancels, terminating>>
workerVars  == <<workers, silent>>
vars        == <<sessionVars, connVars, callVars, workerVars>>

State      == {"pending", "active", "canceling", "terminated"}
ConnState  == {"authorized", "connected", "closed"}
TermReason == {"timed out", "canceled", "connection limit"}

TypeOK ==
    /\ states \in [Session -> SUBSET State]
    /\ current \in [Session -> SUBSET State]
    /\ version \in [Session -> Nat]
    /\ tofu \in [Session -> Tofu \union {Null}]
    /\ reason \in [Session -> TermReason \union {"null"}]
    /\ expired \in [Session -> BOOLEAN]
    /\ cred \in [Session -> {"none", "active", "revoke"}]
    /\ authz \in [Session -> {"none", "created", "issued", "revoked",
                              "returned", "over"}]
    /\ owner \in [Conn -> Session \union {Null}]
    /\ connStates \in [Conn -> SUBSET ConnState]
    /\ connCurrent \in [Conn -> ConnState \union {"null"}]
    /\ closedReason \in [Conn -> BOOLEAN]
    /\ connWorker \in [Conn -> Worker \union {Null}]
    /\ lookups \in [Session -> [Tofu -> Nat]]
    /\ cancels \in [Session -> Nat]
    /\ terminating \in SUBSET Session
    /\ workers \in SUBSET Worker
    /\ silent \in SUBSET Worker

-----------------------------------------------------------------------------
(* Helpers: the rows a query sees.                                         *)

Stored(s) == states[s] # {}

ConnsOf(s) == {c \in Conn : owner[c] = s /\ connStates[c] # {}}

OpenConn(c) == connStates[c] # {} /\ connCurrent[c] # "closed"

LimitReached(s) ==
    /\ ConnectionLimit[s] # -1
    /\ Cardinality(ConnsOf(s)) >= ConnectionLimit[s]

session_valid_state ==
    { <<"pending", "pending">>, <<"pending", "active">>,
      <<"pending", "terminated">>, <<"pending", "canceling">>,
      <<"active", "canceling">>, <<"active", "terminated">>,
      <<"canceling", "terminated">> }

\* The insert of a state succeeds: the pair (prior_state, state) is one of
\* session_valid_state and there is no row of that state yet.
MayInsertState(s, q) ==
    /\ \A p \in current[s] : <<p, q>> \in session_valid_state
    /\ q \notin states[s]

\* The row inserted for q ends the rows that were current.
StatesAfter(S, q)  == [s \in Session |-> IF s \in S THEN states[s] \union {q}
                                                    ELSE states[s]]

CurrentAfter(S, q) == [s \in Session |-> IF s \in S THEN {q} ELSE current[s]]

\* The revoke_credentials trigger of the sessions S that enter state q.
CredAfter(S, q) ==
    [s \in Session |->
        IF s \in S /\ q \in {"canceling", "terminated"} /\ cred[s] = "active"
        THEN "revoke" ELSE cred[s]]

InsertState(S, q) ==
    /\ states' = StatesAfter(S, q)
    /\ current' = CurrentAfter(S, q)
    /\ cred' = CredAfter(S, q)

\* Setting closed_reason of the connections C: a closed state is inserted
\* unless the connection had one before.
CloseRows(C) ==
    /\ closedReason' = [c \in Conn |-> c \in C \/ closedReason[c]]
    /\ connStates' = [c \in Conn |->
            IF c \in C THEN connStates[c] \union {"closed"} ELSE connStates[c]]
    /\ connCurrent' = [c \in Conn |->
            IF c \in C /\ "closed" \notin connStates[c] THEN "closed"
                                                        ELSE connCurrent[c]]

-----------------------------------------------------------------------------
(* The AuthorizeSession handler: create the session, issue its dynamic     *)
(* credential, answer; on an error revoke, then delete the session.        *)

CreateSession(s) ==
    /\ authz[s] = "none"
    /\ states' = [states EXCEPT ![s] = {"pending"}]
    /\ current' = [current EXCEPT ![s] = {"pending"}]
    /\ version' = [version EXCEPT ![s] = 1]
    /\ authz' = [authz EXCEPT ![s] = "created"]
    /\ UNCHANGED <<tofu, reason, expired, cred, connVars, callVars, workerVars>>

\* Vault answers and the credential is stored, whatever became of the
\* session meanwhile; a deleted session fails the foreign key.
Issue(s) ==
    /\ authz[s] = "created"
    /\ Stored(s)
    /\ cred' = [cred EXCEPT ![s] = "active"]
    /\ authz' = [authz EXCEPT ![s] = "issued"]
    /\ UNCHANGED <<states, current, version, tofu, reason, expired,
                   connVars, callVars, workerVars>>

\* A target without credential libraries skips Issue.
AuthorizeSessionReturn(s) ==
    /\ authz[s] \in {"created", "issued"}
    /\ authz' = [authz EXCEPT ![s] = "returned"]
    /\ UNCHANGED <<states, current, version, tofu, reason, expired, cred,
                   connVars, callVars, workerVars>>

\* Mutant: the credential of a deleted session keeps its status.
DeleteRowsKeepCred(S) ==
    /\ states' = [s \in Session |-> IF s \in S THEN {} ELSE states[s]]
    /\ current' = [s \in Session |-> IF s \in S THEN {} ELSE current[s]]
    /\ connStates' = [c \in Conn |-> IF owner[c] \in S THEN {}
                                                       ELSE connStates[c]]
    /\ connCurrent' = [c \in Conn |-> IF owner[c] \in S THEN "null"
                                                        ELSE connCurrent[c]]
    /\ UNCHANGED cred

\* Rows deleted with a session: states and connections cascade, and the
\* credential's session_id becomes null, which marks an active one.
DeleteRows(S) ==
    /\ states' = [s \in Session |-> IF s \in S THEN {} ELSE states[s]]
    /\ current' = [s \in Session |-> IF s \in S THEN {} ELSE current[s]]
    /\ cred' = [s \in Session |-> IF s \in S /\ cred[s] = "active"
                                  THEN "revoke" ELSE cred[s]]
    /\ connStates' = [c \in Conn |-> IF owner[c] \in S THEN {}
                                                       ELSE connStates[c]]
    /\ connCurrent' = [c \in Conn |-> IF owner[c] \in S THEN "null"
                                                        ELSE connCurrent[c]]

\* The deferred functions of a failing handler: revoke what was issued, ...
AuthorizeSessionRevoke(s) ==
    /\ authz[s] = "issued"
    /\ cred' = [cred EXCEPT ![s] = IF Stored(s) /\ @ = "active" THEN "revoke"
                                                              ELSE @]
    /\ authz' = [authz EXCEPT ![s] = "revoked"]
    /\ UNCHANGED <<states, current, version, tofu, reason, expired,
                   connVars, callVars, workerVars>>

\* ... then delete the session.
AuthorizeSessionDelete(s) ==
    /\ authz[s] \in {"created", "revoked"}
    /\ DeleteRows({s})
    /\ authz' = [authz EXCEPT ![s] = "over"]
    /\ UNCHANGED <<version, tofu, reason, expired, owner, closedReason,
                   connWorker, callVars, workerVars>>

-----------------------------------------------------------------------------
(* Activation and cancellation: read the version, then write if unchanged. *)

\* A worker looks a pending session up for a client that presents token t.
\* The client holds the session's certificate, which AuthorizeSession
\* returned to it.
LookupSession(s, t) ==
    /\ authz[s] = "returned"
    /\ Stored(s)
    /\ current[s] = {"pending"} /\ tofu[s] = Null
    /\ lookups[s][t] = 0
    /\ lookups' = [lookups EXCEPT ![s][t] = version[s]]
    /\ UNCHANGED <<sessionVars, connVars, cancels, terminating, workerVars>>

ActivateSession(s, t) ==
    /\ lookups[s][t] # 0
    /\ lookups' = [lookups EXCEPT ![s][t] = 0]
    /\ IF /\ "pending" \in states[s]
          /\ version[s] = lookups[s][t]
          /\ "active" \notin states[s]
          /\ MayInsertState(s, "active")
          /\ tofu[s] \in {Null, t}
       THEN /\ InsertState({s}, "active")
            /\ tofu' = [tofu EXCEPT ![s] = t]
            /\ version' = [version EXCEPT ![s] = @ + 1]
       ELSE UNCHANGED <<states, current, cred, tofu, version>>
    /\ UNCHANGED <<reason, expired, authz, connVars, cancels, terminating,
                   workerVars>>

LookupForCancel(s) ==
    /\ Stored(s)
    /\ cancels[s] = 0
    /\ version[s] < MaxVersion
    /\ cancels' = [cancels EXCEPT ![s] = version[s]]
    /\ UNCHANGED <<sessionVars, connVars, lookups, terminating, workerVars>>

CancelSession(s) ==
    /\ cancels[s] # 0
    /\ cancels' = [cancels EXCEPT ![s] = 0]
    /\ IF Stored(s) /\ version[s] = cancels[s]
       THEN /\ version' = [version EXCEPT ![s] = @ + 1]
            /\ IF states[s] \intersect {"canceling", "terminated"} = {}
               THEN InsertState({s}, "canceling")
               ELSE UNCHANGED <<states, current, cred>>
       ELSE UNCHANGED <<version, states, current, cred>>
    /\ UNCHANGED <<tofu, reason, expired, authz, connVars, lookups,
                   terminating, workerVars>>

\* The user, auth token, project, target, host or host set of the session is
\* deleted: its column becomes null and the trigger cancels the session.
CancelSessionWithNullFk(s) ==
    /\ Stored(s)
    /\ states[s] \intersect {"canceling", "terminated"} = {}
    /\ InsertState({s}, "canceling")
    /\ UNCHANGED <<version, tofu, reason, expired, authz, connVars, callVars,
                   workerVars>>

-----------------------------------------------------------------------------
(* Connections.                                                            *)

\* Mutant: the query forgets "end_time is null" of the active state.
AuthorizeConnectionOnceActive(s, c, w) ==
    /\ owner[c] = Null
    /\ w \in workers
    /\ Stored(s) /\ ~LimitReached(s) /\ ~expired[s]
    /\ "active" \in states[s]
    /\ owner' = [owner EXCEPT ![c] = s]
    /\ connStates' = [connStates EXCEPT ![c] = {"authorized"}]
    /\ connCurrent' = [connCurrent EXCEPT ![c] = "authorized"]
    /\ connWorker' = [connWorker EXCEPT ![c] = w]
    /\ UNCHANGED <<sessionVars, closedReason, callVars, workerVars>>

AuthorizeConnection(s, c, w) ==
    /\ owner[c] = Null
    /\ w \in workers
    /\ Stored(s)
    /\ ~LimitReached(s)
    /\ ~expired[s]
    /\ "active" \in current[s]
    /\ owner' = [owner EXCEPT ![c] = s]
    /\ connStates' = [connStates EXCEPT ![c] = {"authorized"}]
    /\ connCurrent' = [connCurrent EXCEPT ![c] = "authorized"]
    /\ connWorker' = [connWorker EXCEPT ![c] = w]
    /\ UNCHANGED <<sessionVars, closedReason, callVars, workerVars>>

\* The worker sends this once per connection, when its dial to the endpoint
\* succeeded; nothing checks the state the connection is in by then.
ConnectConnection(c) ==
    /\ connStates[c] # {}
    /\ "connected" \notin connStates[c]
    /\ connStates' = [connStates EXCEPT ![c] = @ \union {"connected"}]
    /\ connCurrent' = [connCurrent EXCEPT ![c] = "connected"]
    /\ UNCHANGED <<sessionVars, owner, closedReason, connWorker, callVars,
                   workerVars>>

\* One request closes several connections in one transaction.
CloseConnections(C) ==
    /\ C # {}
    /\ \A c \in C : connStates[c] # {}
    /\ CloseRows(C)
    /\ terminating' = terminating \union {owner[c] : c \in C}
    /\ UNCHANGED <<sessionVars, owner, connWorker, lookups, cancels, workerVars>>

-----------------------------------------------------------------------------
(* Termination.                                                            *)

\* Mutant: only connected connections keep a session from terminating.
CompletedUnlessConnected(s) ==
    /\ Stored(s)
    /\ reason[s] = "null"
    /\ expired[s] \/ LimitReached(s) \/ "canceling" \in current[s]
    /\ \A c \in ConnsOf(s) : connCurrent[c] # "connected"

\* Mutant: canceling sessions are not selected.
CompletedUnlessCanceling(s) ==
    /\ Stored(s)
    /\ reason[s] = "null"
    /\ expired[s] \/ LimitReached(s)
    /\ \A c \in ConnsOf(s) : ~OpenConn(c)

\* What termSessionsUpdate and terminateSessionIfPossible select.
Completed(s) ==
    /\ Stored(s)
    /\ reason[s] = "null"
    /\ expired[s] \/ LimitReached(s) \/ "canceling" \in current[s]
    /\ \A c \in ConnsOf(s) : ~OpenConn(c)

\* Mutant: the wrong default.
ReasonForDefaultCanceled(s) == IF expired[s] THEN "timed out" ELSE "canceled"

ReasonFor(s) == IF expired[s] THEN "timed out"
                ELSE IF "canceling" \in current[s] THEN "canceled"
                ELSE "connection limit"

\* Setting termination_reason fires the trigger that inserts the state.
Terminate(S) ==
    /\ reason' = [s \in Session |-> IF s \in S THEN ReasonFor(s) ELSE reason[s]]
    /\ version' = [s \in Session |-> IF s \in S THEN version[s] + 1
                                                ELSE version[s]]
    /\ InsertState(S, "terminated")

\* The ticker of each controller, once a minute.
TerminateCompletedSessions ==
    /\ \E s \in Session : Completed(s)
    /\ Terminate({s \in Session : Completed(s)})
    /\ UNCHANGED <<tofu, expired, authz, connVars, callVars, workerVars>>

\* The transaction CloseConnections runs per session after closing.
TerminateSessionIfPossible(s) ==
    /\ s \in terminating
    /\ terminating' = terminating \ {s}
    /\ IF Completed(s) THEN Terminate({s})
                       ELSE UNCHANGED <<reason, version, states, current, cred>>
    /\ UNCHANGED <<tofu, expired, authz, connVars, lookups, cancels, workerVars>>

\* Job delete_terminated_sessions: sessions terminated long enough ago.
DeleteTerminatedSessions(S) ==
    /\ S # {}
    /\ \A s \in S : "terminated" \in states[s]
    /\ DeleteRows(S)
    /\ UNCHANGED <<version, tofu, reason, expired, authz, owner, closedReason,
                   connWorker, callVars, workerVars>>

-----------------------------------------------------------------------------
(* Workers: status reports, silence, deletion, and the cleanup job.        *)

\* A status report of w is recorded, which makes w known; ...
UpsertWorkerStatus(w) ==
    /\ workers' = workers \union {w}
    /\ silent' = silent \ {w}
    /\ UNCHANGED <<sessionVars, connVars, callVars>>

\* ... then the connections the controller believes open on w, old enough to
\* have been reported, that the report does not name are closed.
CloseOrphanedConnections(w, orphans) ==
    /\ orphans # {}
    /\ \A c \in orphans : OpenConn(c) /\ connWorker[c] = w
    /\ CloseRows(orphans)
    /\ UNCHANGED <<sessionVars, owner, connWorker, callVars, workerVars>>

GracePeriodPasses(w) ==
    /\ w \in workers \ silent
    /\ silent' = silent \union {w}
    /\ UNCHANGED <<sessionVars, connVars, callVars, workers>>

DeleteWorker(w) ==
    /\ w \in workers
    /\ workers' = workers \ {w}
    /\ silent' = silent \ {w}
    /\ connWorker' = [c \in Conn |-> IF connWorker[c] = w THEN Null
                                                          ELSE connWorker[c]]
    /\ UNCHANGED <<sessionVars, owner, connStates, connCurrent, closedReason,
                   callVars>>

\* Job session_cleanup runs two transactions; both select connections whose
\* closed_reason is null.
Unclosed(c) == connStates[c] # {} /\ ~closedReason[c]

DeadWorkerConns == {c \in Conn : Unclosed(c) /\ connWorker[c] \in silent}
WorkerlessConns == {c \in Conn : Unclosed(c) /\ connWorker[c] = Null}

CloseConnectionsForDeadWorkers ==
    /\ DeadWorkerConns # {}
    /\ CloseRows(DeadWorkerConns)
    /\ UNCHANGED <<sessionVars, owner, connWorker, callVars, workerVars>>

CloseWorkerlessConnections ==
    /\ WorkerlessConns # {}
    /\ CloseRows(WorkerlessConns)
    /\ UNCHANGED <<sessionVars, owner, connWorker, callVars, workerVars>>

-----------------------------------------------------------------------------
(* The environment: time passes; a controller crashes with its handlers.   *)

Expire(s) ==
    /\ Stored(s) /\ ~expired[s]
    /\ expired' = [expired EXCEPT ![s] = TRUE]
    /\ UNCHANGED <<states, current, version, tofu, reason, cred, authz,
                   connVars, callVars, workerVars>>

Crash ==
    /\ cancels' = [s \in Session |-> 0]
    /\ terminating' = {}
    /\ authz' = [s \in Session |->
                    IF authz[s] \in {"created", "issued", "revoked"}
                    THEN "over" ELSE authz[s]]
    /\ UNCHANGED <<states, current, version, tofu, reason, expired, cred,
                   connVars, lookups, workerVars>>

-----------------------------------------------------------------------------

Init ==
    /\ states = [s \in Session |-> {}]
    /\ current = [s \in Session |-> {}]
    /\ version = [s \in Session |-> 0]
    /\ tofu = [s \in Session |-> Null]
    /\ reason = [s \in Session |-> "null"]
    /\ expired = [s \in Session |-> FALSE]
    /\ cred = [s \in Session |-> "none"]
    /\ authz = [s \in Session |-> "none"]
    /\ owner = [c \in Conn |-> Null]
    /\ connStates = [c \in Conn |-> {}]
    /\ connCurrent = [c \in Conn |-> "null"]
    /\ closedReason = [c \in Conn |-> FALSE]
    /\ connWorker = [c \in Conn |-> Null]
    /\ lookups = [s \in Session |-> [t \in Tofu |-> 0]]
    /\ cancels = [s \in Session |-> 0]
    /\ terminating = {}
    /\ workers = {}
    /\ silent = {}

Next ==
    \/ \E s \in Session :
        \/ CreateSession(s)
        \/ Issue(s)
        \/ AuthorizeSessionReturn(s)
        \/ AuthorizeSessionRevoke(s)
        \/ AuthorizeSessionDelete(s)
        \/ LookupForCancel(s)
        \/ CancelSession(s)
        \/ CancelSessionWithNullFk(s)
        \/ TerminateSessionIfPossible(s)
        \/ Expire(s)
        \/ \E t \in Tofu : LookupSession(s, t) \/ ActivateSession(s, t)
        \/ \E c \in Conn, w \in Worker : AuthorizeConnection(s, c, w)
    \/ \E c \in Conn : ConnectConnection(c)
    \/ \E C \in SUBSET Conn : CloseConnections(C)
    \/ \E w \in Worker, C \in SUBSET Conn : CloseOrphanedConnections(w, C)
    \/ \E w \in Worker :
        UpsertWorkerStatus(w) \/ GracePeriodPasses(w) \/ DeleteWorker(w)
    \/ \E S \in SUBSET Session : DeleteTerminatedSessions(S)
    \/ TerminateCompletedSessions
    \/ CloseConnectionsForDeadWorkers
    \/ CloseWorkerlessConnections
    \/ Crash

Spec == Init /\ [][Next]_vars

(***************************************************************************)
(* Fairness.  The ticker and the two jobs run forever on every controller, *)
(* and an open connection is closed sooner or later: the worker closes it  *)
(* when the client leaves, when a status answer says the session is no     *)
(* longer active or when its deadline passes.                              *)
(***************************************************************************)
Fairness ==
    /\ WF_vars(TerminateCompletedSessions)
    /\ WF_vars(CloseConnectionsForDeadWorkers)
    /\ WF_vars(CloseWorkerlessConnections)
    /\ \A s \in Session : WF_vars(DeleteTerminatedSessions({s}))
    /\ \A c \in Conn : WF_vars(OpenConn(c) /\ CloseConnections({c}))

FairSpec == Spec /\ Fairness

-----------------------------------------------------------------------------
(* Properties.                                                             *)

\* A terminated session has no connection that was never closed: termination
\* waits for every connection, and none is authorized afterwards.
TerminatedAllClosed ==
    \A s \in Session : "terminated" \in states[s] =>
        \A c \in ConnsOf(s) : "closed" \in connStates[c]

\* termination_reason and the terminated state come together, and the reason
\* recorded is one that the session's history justifies, also later.
ReasonJustified ==
    \A s \in Session : Stored(s) =>
        /\ (reason[s] # "null") <=> ("terminated" \in states[s])
        /\ reason[s] = "timed out" => expired[s]
        /\ reason[s] = "canceled" => "canceling" \in states[s]
        /\ reason[s] = "connection limit" => LimitReached(s)

\* Only an activation binds a token, and every activation does, although the
\* state row and the token are written by two statements and several workers
\* may race to activate with stale versions.
TofuBoundByActivation ==
    \A s \in Session : Stored(s) =>
        ((tofu[s] # Null) <=> ("active" \in states[s]))

\* How the tables and the handlers that are under way fit together: the state
\* reached last is the current one, connections belong to stored sessions, a
\* closed connection has a closed row, and only a session that was handed out
\* has activations under way.
StateRows(s) ==
    /\ current[s] \subseteq states[s]
    /\ "terminated" \in states[s] => current[s] = {"terminated"}
    /\ "canceling" \in states[s] => current[s] \intersect {"pending", "active"} = {}

HandlerProgress(s) ==
    /\ authz[s] = "none" => /\ states[s] = {}
                            /\ tofu[s] = Null
                            /\ reason[s] = "null"
    /\ "active" \in states[s] => authz[s] = "returned"
    /\ \A t \in Tofu : lookups[s][t] # 0 => authz[s] = "returned"

ConnRows(c) ==
    /\ connStates[c] # {} => owner[c] \in Session /\ states[owner[c]] # {}
    /\ connStates[c] # {} /\ connCurrent[c] = "closed" => "closed" \in connStates[c]

RowsConsistent ==
    /\ \A s \in Session : StateRows(s) /\ HandlerProgress(s)
    /\ \A c \in Conn : ConnRows(c)

\* The phase a session is in, read from its rows.
Phase(s) ==
    IF states[s] = {} THEN (IF authz[s] = "none" THEN "none" ELSE "deleted")
    ELSE IF "terminated" \in current[s] THEN "terminated"
    ELSE IF "canceling" \in current[s] THEN "canceling"
    ELSE IF "active" \in current[s] THEN "active"
    ELSE "pending"

Lifecycle == INSTANCE SessionLifecycle
    WITH phase    <- [s \in Session |-> Phase(s)],
         holder   <- tofu,
         admitted <- [s \in Session |-> ConnsOf(s)]

\* The store implements the abstract life cycle: no operation, job, trigger
\* or crash moves a session back, rebinds its token, admits a connection
\* outside the active phase or deletes an active session.
ImplementsLifecycle == Lifecycle!LSpec

\* A connection that was closed and then connected by a late
\* ConnectConnection; nothing inserts a closed state for it again.
Reopened(c) == "closed" \in connStates[c] /\ connCurrent[c] # "closed"

\* A canceled or expired session is terminated in the end, unless a late
\* ConnectConnection reopened one of its connections.
EndedSessionTerminates ==
    \A s \in Session :
        (Stored(s) /\ ("canceling" \in current[s] \/ expired[s]))
            ~> \/ ~Stored(s)
               \/ "terminated" \in states[s]
               \/ \E c \in ConnsOf(s) : Reopened(c)

\* A credential that was issued although its session had been canceled or
\* terminated meanwhile is still marked for revocation in the end.
LateCredentialRevoked ==
    \A s \in Session :
        (cred[s] = "active" /\ states[s] \intersect {"canceling", "terminated"} # {})
            ~> (cred[s] = "revoke")

\* What the documentation of sessions says: canceling a session, or its
\* expiration, terminates it.
DocEndedSessionIsTerminated ==
    \A s \in Session :
        (Stored(s) /\ ("canceling" \in current[s] \/ expired[s]))
            ~> (~Stored(s) \/ "terminated" \in states[s])
=============================================================================
