---------------------------- MODULE WorkerProxy ----------------------------
(***************************************************************************)
(* One worker and one session: the proxy handlers of its client            *)
(* connections, the session manager they share with the status loop, and   *)
(* the calls both make to the controller.                                  *)
(*                                                                         *)
(* A call is a step in which the controller executes it and a later step   *)
(* in which the worker applies the answer; it may fail before or after it  *)
(* is executed.  The controller's side is what SessionStore says of one    *)
(* session without a connection limit: the state of the session, its tofu  *)
(* token and the current state of its connections.  A step of the worker   *)
(* is what happens under one lock of a session object.                     *)
(***************************************************************************)
EXTENDS Naturals

CONSTANTS
    Conn,           \* client connections; a connection's id is its own
    Sess,           \* session objects (sess) in the worker's memory
    Token,          \* tofu tokens
    TofuToken,      \* connection -> token in the client's handshake
    Visitor,        \* clients that leave after the TLS handshake
    AnyCommand,     \* clients whose handshake may carry a command value that
                    \* this worker does not know; the others ask to connect
                    \* or to cancel
    Null

ASSUME TokenAssumption == TofuToken \in [Conn -> Token]
ASSUME VisitorAssumption == Visitor \subseteq Conn /\ AnyCommand \subseteq Conn
ASSUME ProxyNullAssumption == Null \notin Token \union Sess

VARIABLES
    session,        \* current state of the session
    tofu,           \* its tofu_token
    expired,        \* its expiration_time is past
    db,             \* connection -> current state; "reopened" if it is connected
                    \* although closed_reason is set
    fresh,          \* open connections whose state is younger than
                    \* workerStateDelay
    silent,         \* last status of the worker is past the controller's grace period
    sessionMap,     \* the manager's object for the session
    status,         \* object -> status
    tofuToken,      \* object -> token a handler of this worker bound
    respTofu,       \* object -> token of the last LookupSession response
    pc,             \* connection -> where its handler is
    sess,           \* connection -> object its handler uses
    replyStatus,    \* connection -> status in an answer not yet applied
    replyTofu,      \* connection -> token in an answer not yet applied
    info,           \* connection -> Status of its ConnInfo
    closeTime,      \* connections whose CloseTime is set
    canceled,       \* connections whose context is canceled
    late,           \* history: connections stored after the object was given up,
                    \* until their proxy ends
    loop,           \* where the status loop is
    report,         \* connections in the status request
    asked,          \* the session is in the status request
    answer,         \* status in the status response
    closeInfo,      \* connections the loop asks to close
    closeReply,     \* those of them that are closed by the answer
    overdue         \* last successful status is past the worker's grace period

controllerVars == <<session, tofu, expired, db, fresh, silent>>
objects        == <<sessionMap, status, tofuToken, respTofu>>
handlers       == <<pc, sess, replyStatus, replyTofu>>
conns          == <<info, closeTime, canceled, late>>
loopVars       == <<loop, report, asked, answer, closeInfo, closeReply, overdue>>
vars           == <<controllerVars, objects, handlers, conns, loopVars>>

State     == {"pending", "active", "canceling", "terminated"}
Ended     == {"canceling", "terminated"}
ConnState == {"authorized", "connected", "closed"}

\* Handlers before the connection is in the object's map.
Entering == {"looking", "loaded", "handshake", "canceling", "activate",
             "activated", "checked", "authorized"}

TypeOK ==
    /\ session \in State
    /\ tofu \in Token \union {Null}
    /\ expired \in BOOLEAN
    /\ db \in [Conn -> {"none", "reopened"} \union ConnState]
    /\ fresh \in SUBSET Conn
    /\ silent \in BOOLEAN
    /\ sessionMap \in Sess \union {Null}
    /\ status \in [Sess -> State]
    /\ tofuToken \in [Sess -> Token \union {Null}]
    /\ respTofu \in [Sess -> Token \union {Null}]
    /\ pc \in [Conn -> {"idle", "dialing", "connected", "proxying", "closing",
                        "closed", "done"} \union Entering]
    /\ sess \in [Conn -> Sess \union {Null}]
    /\ replyStatus \in [Conn -> {"none"} \union State \union ConnState]
    /\ replyTofu \in [Conn -> Token \union {Null}]
    /\ info \in [Conn -> {"none"} \union ConnState]
    /\ closeTime \in SUBSET Conn
    /\ canceled \in SUBSET Conn
    /\ late \in SUBSET Conn
    /\ loop \in {"idle", "sent", "checked", "answered", "failed", "cleanup",
                 "closing", "closed", "deleting"}
    /\ report \in SUBSET Conn
    /\ asked \in BOOLEAN
    /\ answer \in {"none"} \union Ended
    /\ closeInfo \in SUBSET Conn
    /\ closeReply \in SUBSET Conn
    /\ overdue \in BOOLEAN

\* connInfoMap of an object.
ConnsOf(o) == {c \in Conn : sess[c] = o /\ info[c] # "none"}

GetTofuToken(o) == IF tofuToken[o] # Null THEN tofuToken[o] ELSE respTofu[o]

Open(c) == db[c] \in {"authorized", "connected", "reopened"}

\* The controller sets closed_reason of connections C.
Closed(C) ==
    [c \in Conn |-> IF c \in C /\ db[c] \in ConnState THEN "closed" ELSE db[c]]

\* Connections that are closed are not looked at for their age.
FreshAmong(d) == {c \in fresh : d[c] # "closed"}

\* With connections d the session may be terminated.
CanTerminate(d) ==
    /\ session \in Ended \/ expired
    /\ \A c \in Conn : d[c] \in {"none", "closed"}

\* A close request attempts the termination after the connections are closed,
\* and ignores its error.
CloseAndTerminate(C) ==
    /\ db' = Closed(C)
    /\ fresh' = FreshAmong(db')
    /\ \/ session' = session
       \/ CanTerminate(db') /\ session' = "terminated"

-----------------------------------------------------------------------------
(* The controller.                                                         *)

\* A user or an administrator cancels, or a resource is deleted.
CancelSession ==
    /\ session \in {"pending", "active"}
    /\ session' = "canceling"
    /\ UNCHANGED <<tofu, expired, db, fresh, silent, objects, handlers, conns,
                   loopVars>>

TerminateCompletedSessions ==
    /\ session # "terminated" /\ CanTerminate(db)
    /\ session' = "terminated"
    /\ UNCHANGED <<tofu, expired, db, fresh, silent, objects, handlers, conns,
                   loopVars>>

CloseConnectionsForDeadWorkers ==
    /\ silent
    /\ \E c \in Conn : Open(c)
    /\ db' = Closed({c \in Conn : Open(c)})
    /\ fresh' = FreshAmong(db')
    /\ UNCHANGED <<session, tofu, expired, silent, objects, handlers, conns,
                   loopVars>>

\* Time.
Expire ==
    /\ ~expired
    /\ expired' = TRUE
    /\ UNCHANGED <<session, tofu, db, fresh, silent, objects, handlers, conns,
                   loopVars>>

Age(c) ==
    /\ c \in fresh
    /\ fresh' = fresh \ {c}
    /\ UNCHANGED <<session, tofu, expired, db, silent, objects, handlers, conns,
                   loopVars>>

ControllerGracePasses ==
    /\ ~silent
    /\ silent' = TRUE
    /\ UNCHANGED <<session, tofu, expired, db, fresh, objects, handlers, conns,
                   loopVars>>

WorkerGracePasses ==
    /\ ~overdue
    /\ overdue' = TRUE
    /\ UNCHANGED <<controllerVars, objects, handlers, conns, loop, report, asked,
                   answer, closeInfo, closeReply>>

-----------------------------------------------------------------------------
(* A handler, up to the connection.                                        *)

\* The TLS handshake looks the session up ...
LookupSession(c) ==
    /\ pc[c] = "idle"
    /\ pc' = [pc EXCEPT ![c] = "looking"]
    /\ replyStatus' = [replyStatus EXCEPT ![c] = session]
    /\ replyTofu' = [replyTofu EXCEPT ![c] = tofu]
    /\ UNCHANGED <<controllerVars, objects, sess, conns, loopVars>>

\* ... and stores it, or updates the object that is there.
LoadLocalSession(c) ==
    /\ pc[c] = "looking" /\ ~expired
    /\ IF sessionMap = Null
       THEN \E o \in Sess :
                /\ \A d \in Conn : sess[d] # o
                /\ sessionMap' = o
                /\ status' = [status EXCEPT ![o] = replyStatus[c]]
                /\ respTofu' = [respTofu EXCEPT ![o] = replyTofu[c]]
                /\ tofuToken' = [tofuToken EXCEPT ![o] = Null]
       ELSE /\ status' = [status EXCEPT ![sessionMap] = replyStatus[c]]
            /\ respTofu' = [respTofu EXCEPT ![sessionMap] = replyTofu[c]]
            /\ UNCHANGED <<sessionMap, tofuToken>>
    /\ pc' = [pc EXCEPT ![c] = IF c \in Visitor THEN "done" ELSE "loaded"]
    /\ replyStatus' = [replyStatus EXCEPT ![c] = "none"]
    /\ replyTofu' = [replyTofu EXCEPT ![c] = Null]
    /\ UNCHANGED <<controllerVars, sess, conns, loopVars>>

\* handleProxy takes the object from the manager and reads the handshake.
Accept(c) ==
    /\ pc[c] = "loaded" /\ sessionMap # Null
    /\ sess' = [sess EXCEPT ![c] = sessionMap]
    /\ pc' = [pc EXCEPT ![c] = "handshake"]
    /\ UNCHANGED <<controllerVars, objects, replyStatus, replyTofu, conns, loopVars>>

\* The handshake asks to cancel the session.
RequestCancel(c) ==
    /\ pc[c] = "handshake"
    /\ session' = IF session \in Ended THEN session ELSE "canceling"
    /\ replyStatus' = [replyStatus EXCEPT ![c] = session']
    /\ pc' = [pc EXCEPT ![c] = "canceling"]
    /\ UNCHANGED <<tofu, expired, db, fresh, silent, objects, sess, replyTofu,
                   conns, loopVars>>

CancelApplied(c) ==
    /\ pc[c] = "canceling"
    /\ status' = [status EXCEPT ![sess[c]] = replyStatus[c]]
    /\ replyStatus' = [replyStatus EXCEPT ![c] = "none"]
    /\ pc' = [pc EXCEPT ![c] = "done"]
    /\ UNCHANGED <<controllerVars, sessionMap, tofuToken, respTofu, sess, replyTofu,
                   conns, loopVars>>

\* Mutant: any token will do once the session is active.
CheckTofuOnce(c) ==
    /\ pc[c] = "handshake"
    /\ \/ /\ GetTofuToken(sess[c]) # Null
          /\ pc' = [pc EXCEPT ![c] = "checked"]
       \/ /\ GetTofuToken(sess[c]) = Null
          /\ status[sess[c]] = "pending"
          /\ pc' = [pc EXCEPT ![c] = "activate"]
    /\ UNCHANGED <<controllerVars, objects, sess, replyStatus, replyTofu, conns,
                   loopVars>>

\* The token must be the one that was bound.  Without one the session has to be
\* pending, and is activated if the command is the one to connect; with another
\* command the handler goes on as it is.
CheckTofu(c) ==
    /\ pc[c] = "handshake"
    /\ \/ /\ GetTofuToken(sess[c]) = TofuToken[c]
          /\ pc' = [pc EXCEPT ![c] = "checked"]
       \/ /\ GetTofuToken(sess[c]) = Null
          /\ status[sess[c]] = "pending"
          /\ \/ pc' = [pc EXCEPT ![c] = "activate"]
             \/ c \in AnyCommand /\ pc' = [pc EXCEPT ![c] = "checked"]
    /\ UNCHANGED <<controllerVars, objects, sess, replyStatus, replyTofu, conns,
                   loopVars>>

\* The controller activates a pending session and binds it to the token.
\* (A call that overlaps another one for the same token is in SessionRaces.)
RequestActivate(c) ==
    /\ pc[c] = "activate"
    /\ session = "pending" /\ tofu = Null
    /\ session' = "active"
    /\ tofu' = TofuToken[c]
    /\ pc' = [pc EXCEPT ![c] = "activated"]
    /\ UNCHANGED <<expired, db, fresh, silent, objects, sess, replyStatus, replyTofu,
                   conns, loopVars>>

Activated(c) ==
    /\ pc[c] = "activated"
    /\ tofuToken' = [tofuToken EXCEPT ![sess[c]] = TofuToken[c]]
    /\ status' = [status EXCEPT ![sess[c]] = "active"]
    /\ pc' = [pc EXCEPT ![c] = "checked"]
    /\ UNCHANGED <<controllerVars, sessionMap, respTofu, sess, replyStatus, replyTofu,
                   conns, loopVars>>

RequestAuthorizeConnection(c) ==
    /\ pc[c] = "checked"
    /\ session = "active" /\ ~expired
    /\ db' = [db EXCEPT ![c] = "authorized"]
    /\ fresh' = fresh \union {c}
    /\ pc' = [pc EXCEPT ![c] = "authorized"]
    /\ UNCHANGED <<session, tofu, expired, silent, objects, sess, replyStatus,
                   replyTofu, conns, loopVars>>

\* The connection is stored in the object the handler holds, which the
\* manager may have forgotten meanwhile.
Authorized(c) ==
    /\ pc[c] = "authorized"
    /\ info' = [info EXCEPT ![c] = "authorized"]
    /\ late' = IF loop = "deleting" \/ sess[c] # sessionMap THEN late \union {c}
                                                            ELSE late
    /\ pc' = [pc EXCEPT ![c] = "dialing"]
    /\ UNCHANGED <<controllerVars, objects, sess, replyStatus, replyTofu, closeTime,
                   canceled, loopVars>>

\* A check or a call fails, an answer is lost, the client goes away.
GiveUp(c) ==
    /\ pc[c] \in Entering
    /\ pc' = [pc EXCEPT ![c] = "done"]
    /\ replyStatus' = [replyStatus EXCEPT ![c] = "none"]
    /\ replyTofu' = [replyTofu EXCEPT ![c] = Null]
    /\ UNCHANGED <<controllerVars, objects, sess, conns, loopVars>>

-----------------------------------------------------------------------------
(* A handler, from the connection on.                                      *)

\* The endpoint answered the dial.  The call is made with the context of the
\* request, which the cancellation of the connection does not reach.
RequestConnectConnection(c) ==
    /\ pc[c] = "dialing"
    /\ db' = [db EXCEPT ![c] = IF @ = "closed" THEN "reopened" ELSE "connected"]
    /\ fresh' = fresh \union {c}
    /\ pc' = [pc EXCEPT ![c] = "connected"]
    /\ UNCHANGED <<session, tofu, expired, silent, objects, sess, replyStatus,
                   replyTofu, conns, loopVars>>

Connected(c) ==
    /\ pc[c] = "connected"
    /\ info' = [info EXCEPT ![c] = "connected"]
    /\ pc' = [pc EXCEPT ![c] = "proxying"]
    /\ UNCHANGED <<controllerVars, objects, sess, replyStatus, replyTofu, closeTime,
                   canceled, late, loopVars>>

\* The dial or the call fails, or one end closes the connection.
ProxyEnds(c) ==
    /\ pc[c] \in {"dialing", "connected", "proxying"}
    /\ pc' = [pc EXCEPT ![c] = "closing"]
    /\ late' = late \ {c}
    /\ UNCHANGED <<controllerVars, objects, sess, replyStatus, replyTofu, info,
                   closeTime, canceled, loopVars>>

\* What a canceled context or its deadline brings about.
ProxyStops(c) ==
    /\ pc[c] = "proxying"
    /\ c \in canceled \/ expired
    /\ ProxyEnds(c)

RequestCloseConnections(c) ==
    /\ pc[c] = "closing"
    /\ CloseAndTerminate({c})
    /\ replyStatus' = [replyStatus EXCEPT ![c] =
                            IF db[c] = "reopened" THEN "connected" ELSE "closed"]
    /\ pc' = [pc EXCEPT ![c] = "closed"]
    /\ UNCHANGED <<tofu, expired, silent, objects, sess, replyTofu, conns,
                   loopVars>>

\* setCloseTimeForResponse: only the connections of the manager's object.
SetStatus(C, closed) ==
    LET known == C \intersect ConnsOf(sessionMap)
    IN  /\ info' = [c \in Conn |-> IF c \notin known THEN info[c]
                                   ELSE IF c \in closed THEN "closed"
                                                        ELSE "connected"]
        /\ closeTime' = closeTime \union (known \intersect closed)
        /\ UNCHANGED late

\* The handler returns with the answer, and its context ends with it.
CloseApplied(c) ==
    /\ pc[c] = "closed"
    /\ canceled' = canceled \union {c}
    /\ SetStatus({c}, IF replyStatus[c] = "closed" THEN {c} ELSE {})
    /\ replyStatus' = [replyStatus EXCEPT ![c] = "none"]
    /\ pc' = [pc EXCEPT ![c] = "done"]
    /\ UNCHANGED <<controllerVars, objects, sess, replyTofu, loopVars>>

\* Without an answer the worker makes one up: closed.
CloseLost(c) ==
    /\ pc[c] \in {"closing", "closed"}
    /\ canceled' = canceled \union {c}
    /\ SetStatus({c}, {c})
    /\ replyStatus' = [replyStatus EXCEPT ![c] = "none"]
    /\ pc' = [pc EXCEPT ![c] = "done"]
    /\ UNCHANGED <<controllerVars, objects, sess, replyTofu, loopVars>>

-----------------------------------------------------------------------------
(* The status loop.                                                        *)

\* What the controller takes from a status request: the session unless the
\* worker reports that it has ended, and its connections that are not closed.
AskedIn(o) == o # Null /\ status[o] \notin Ended
ReportedIn(o) == IF AskedIn(o) THEN {c \in ConnsOf(o) : info[c] # "closed"} ELSE {}

SendStatus ==
    /\ loop = "idle"
    /\ loop' = "sent"
    /\ asked' = AskedIn(sessionMap)
    /\ report' = ReportedIn(sessionMap)
    /\ UNCHANGED <<controllerVars, objects, handlers, conns, answer, closeInfo,
                   closeReply, overdue>>

\* Mutant: whatever is not active yet counts as ended.
CheckIfNotActivePending ==
    /\ loop = "sent"
    /\ loop' = "checked"
    /\ silent' = FALSE
    /\ answer' = IF asked /\ session # "active" THEN "canceling" ELSE "none"
    /\ UNCHANGED <<session, tofu, expired, db, fresh, objects, handlers, conns,
                   report, asked, closeInfo, closeReply, overdue>>

\* The controller stores the time of the status and looks the session up, ...
CheckIfNotActive ==
    /\ loop = "sent"
    /\ loop' = "checked"
    /\ silent' = FALSE
    /\ answer' = IF asked /\ session \in Ended THEN session ELSE "none"
    /\ UNCHANGED <<session, tofu, expired, db, fresh, objects, handlers, conns,
                   report, asked, closeInfo, closeReply, overdue>>

\* Mutant: orphans are looked for only when the session is reported.
OrphansOfUnreported == {c \in Conn : Open(c) /\ c \notin fresh /\ asked}

Orphans == {c \in Conn : Open(c) /\ c \notin fresh /\ c \notin report}

\* ... then closes what the worker does not report.
CloseOrphanedConnections ==
    /\ loop = "checked"
    /\ loop' = "answered"
    /\ db' = Closed(Orphans)
    /\ report' = {} /\ asked' = FALSE
    /\ UNCHANGED <<session, tofu, expired, fresh, silent, objects, handlers, conns,
                   answer, closeInfo, closeReply, overdue>>

\* Mutant: a status is applied to the object of no session.
ApplyAnswerNone ==
    /\ loop = "answered"
    /\ loop' = "cleanup"
    /\ overdue' = FALSE
    /\ answer' = "none"
    /\ UNCHANGED <<controllerVars, objects, handlers, conns, report, asked,
                   closeInfo, closeReply>>

ApplyAnswer ==
    /\ loop = "answered"
    /\ loop' = "cleanup"
    /\ overdue' = FALSE
    /\ answer' = "none"
    /\ status' = IF answer # "none" /\ sessionMap # Null
                 THEN [status EXCEPT ![sessionMap] = answer] ELSE status
    /\ UNCHANGED <<controllerVars, sessionMap, tofuToken, respTofu, handlers, conns,
                   report, asked, closeInfo, closeReply>>

StatusFails ==
    /\ loop \in {"sent", "checked", "answered"}
    /\ loop' = "failed"
    /\ report' = {} /\ asked' = FALSE /\ answer' = "none"
    /\ UNCHANGED <<controllerVars, objects, handlers, conns, closeInfo, closeReply,
                   overdue>>

\* Mutant: past the grace period nothing is canceled.
BreakGlassNot == UNCHANGED canceled

\* Past the grace period every connection of the manager's object is canceled.
BreakGlass == canceled' = canceled \union ConnsOf(sessionMap)

StatusFailed ==
    /\ loop = "failed"
    /\ IF overdue THEN BreakGlass /\ loop' = "idle"
                  ELSE UNCHANGED canceled /\ loop' = "cleanup"
    /\ UNCHANGED <<controllerVars, objects, handlers, info, closeTime, late, report,
                   asked, answer, closeInfo, closeReply, overdue>>

\* The session has ended: cancel its connections, and close those that were
\* not closed before; when there is none the object is not needed any more.
CleanUpEnded ==
    /\ sessionMap # Null /\ (status[sessionMap] \in Ended \/ expired)
    /\ canceled' = canceled \union ConnsOf(sessionMap)
    /\ closeInfo' = ConnsOf(sessionMap) \ closeTime
    /\ loop' = IF closeInfo' = {} THEN "deleting" ELSE "closing"

\* The session goes on: cancel the connections that are closed.
CleanUpActive ==
    /\ sessionMap # Null /\ status[sessionMap] \notin Ended /\ ~expired
    /\ canceled' = canceled \union {c \in ConnsOf(sessionMap) : info[c] = "closed"}
    /\ closeInfo' = {c \in ConnsOf(sessionMap) \ closeTime : info[c] = "closed"}
    /\ loop' = IF closeInfo' = {} THEN "idle" ELSE "closing"

CleanupConnections ==
    /\ loop = "cleanup"
    /\ \/ CleanUpEnded
       \/ CleanUpActive
       \/ sessionMap = Null /\ loop' = "idle" /\ UNCHANGED <<canceled, closeInfo>>
    /\ UNCHANGED <<controllerVars, objects, handlers, info, closeTime, late, report,
                   asked, answer, closeReply, overdue>>

CleanupRequestClose ==
    /\ loop = "closing"
    /\ loop' = "closed"
    /\ CloseAndTerminate(closeInfo)
    /\ closeReply' = {c \in closeInfo : db[c] # "reopened"}
    /\ UNCHANGED <<tofu, expired, silent, objects, handlers, conns, report,
                   asked, answer, closeInfo, overdue>>

CleanupCloseApplied ==
    /\ loop = "closed"
    /\ SetStatus(closeInfo, closeReply)
    /\ loop' = "idle" /\ closeInfo' = {} /\ closeReply' = {}
    /\ UNCHANGED <<controllerVars, objects, handlers, canceled, report, asked,
                   answer, overdue>>

CleanupCloseLost ==
    /\ loop \in {"closing", "closed"}
    /\ SetStatus(closeInfo, closeInfo)
    /\ loop' = "idle" /\ closeInfo' = {} /\ closeReply' = {}
    /\ UNCHANGED <<controllerVars, objects, handlers, canceled, report, asked,
                   answer, overdue>>

DeleteLocalSession ==
    /\ loop = "deleting"
    /\ loop' = "idle"
    /\ sessionMap' = Null
    /\ UNCHANGED <<controllerVars, status, tofuToken, respTofu, handlers, conns,
                   report, asked, answer, closeInfo, closeReply, overdue>>

-----------------------------------------------------------------------------

Init ==
    /\ session = "pending" /\ tofu = Null /\ expired = FALSE
    /\ db = [c \in Conn |-> "none"]
    /\ fresh = {} /\ silent = FALSE
    /\ sessionMap = Null
    /\ status = [o \in Sess |-> "pending"]
    /\ tofuToken = [o \in Sess |-> Null] /\ respTofu = [o \in Sess |-> Null]
    /\ pc = [c \in Conn |-> "idle"]
    /\ sess = [c \in Conn |-> Null]
    /\ replyStatus = [c \in Conn |-> "none"] /\ replyTofu = [c \in Conn |-> Null]
    /\ info = [c \in Conn |-> "none"]
    /\ closeTime = {} /\ canceled = {} /\ late = {}
    /\ loop = "idle"
    /\ report = {} /\ asked = FALSE /\ answer = "none"
    /\ closeInfo = {} /\ closeReply = {} /\ overdue = FALSE

Controller ==
    \/ CancelSession \/ TerminateCompletedSessions
    \/ CloseConnectionsForDeadWorkers
    \/ Expire \/ ControllerGracePasses \/ WorkerGracePasses
    \/ \E c \in Conn : Age(c)

HandleProxy(c) ==
    \/ LookupSession(c) \/ LoadLocalSession(c) \/ Accept(c)
    \/ RequestCancel(c) \/ CancelApplied(c)
    \/ CheckTofu(c) \/ RequestActivate(c) \/ Activated(c)
    \/ RequestAuthorizeConnection(c) \/ Authorized(c) \/ GiveUp(c)
    \/ RequestConnectConnection(c) \/ Connected(c) \/ ProxyEnds(c)
    \/ RequestCloseConnections(c) \/ CloseApplied(c) \/ CloseLost(c)

StatusLoop ==
    \/ SendStatus \/ CheckIfNotActive \/ CloseOrphanedConnections \/ ApplyAnswer
    \/ StatusFails \/ StatusFailed
    \/ CleanupConnections \/ CleanupRequestClose \/ CleanupCloseApplied
    \/ CleanupCloseLost \/ DeleteLocalSession

Next ==
    \/ Controller
    \/ \E c \in Conn : HandleProxy(c)
    \/ StatusLoop

Spec == Init /\ [][Next]_vars

(***************************************************************************)
(* Fairness of the worker: the status loop ticks for ever, time passes,    *)
(* and a proxy whose context is done ends.  Calls may fail for ever.       *)
(***************************************************************************)
WorkerFairness ==
    /\ WF_vars(StatusLoop)
    /\ WF_vars(WorkerGracePasses)
    /\ \A c \in Conn \ Visitor : WF_vars(ProxyStops(c)) /\ WF_vars(Age(c))

FairSpec == Spec /\ WorkerFairness

\* Status calls succeed again and again and the controller's ticker ticks,
\* assumed only where the controller is to learn something.
Reachable ==
    /\ SF_vars(CheckIfNotActive)
    /\ SF_vars(CloseOrphanedConnections)
    /\ SF_vars(ApplyAnswer)
    /\ WF_vars(TerminateCompletedSessions)

-----------------------------------------------------------------------------
(* Properties.                                                             *)

\* However handlers with different tokens, look-ups and activations overlap, a
\* client that asks to connect is let on only with the token the session is
\* bound to.  A client with another command may pass the check while no token
\* is bound; its connection, too, is authorized only once one is.
OnlyBoundTokenProxied ==
    /\ \A c \in Conn \ AnyCommand :
          pc[c] \in {"checked", "authorized", "dialing", "connected", "proxying"}
                => TofuToken[c] = tofu
    /\ \A c \in AnyCommand :
          pc[c] \in {"authorized", "dialing", "connected", "proxying"} => tofu # Null

\* Answers that are late, stale or made up never make the worker cut a live
\* connection of a session that goes on: the context of a connection is
\* canceled only if the session has ended or expired, if the worker has been
\* cut off for too long, or if the connection's own handler returns.
CutsOnlyTheEnded ==
    [][\A c \in canceled' \ canceled :
            session \in Ended \/ expired \/ overdue \/ pc'[c] = "done"]_vars

\* No connection of a session that has ended is proxied for ever, whatever
\* answers are lost, late or out of order, and even if the controller cannot be
\* reached; except that one stored in an object which the manager was giving up
\* or had given up (late) is known to no loop and is cut only once the session
\* has expired.
EndedSessionIsCut ==
    \A c \in Conn \ Visitor :
        []<>~(session \in Ended /\ pc[c] = "proxying" /\ (c \notin late \/ expired))

\* A worker that cannot reach the controller beyond its grace period does not
\* go on proxying the connections it manages.
UnreachableWorkerCuts ==
    \A c \in Conn \ Visitor :
        []<>~(overdue /\ pc[c] = "proxying" /\ sess[c] = sessionMap)

\* If the controller can be reached again and again, a session does not stay
\* canceling although close requests were lost and the worker made answers up,
\* unless a late ConnectConnection reopened a connection.
CanceledIsTerminated ==
    Reachable =>
        []<>~(session = "canceling" /\ \A c \in Conn : db[c] # "reopened")
=============================================================================
