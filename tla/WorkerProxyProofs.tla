-------------------------- MODULE WorkerProxyProofs --------------------------
(***************************************************************************)
(* Proofs about WorkerProxy, for every set of connections, session objects *)
(* and tokens.                                                             *)
(*                                                                         *)
(* Three arguments share the type invariant.  An answer on its way carries *)
(* a value its handler may apply (Replies).  Every copy of the tofu token, *)
(* in an object or in an answer, is the bound token or missing, however    *)
(* stale it is (Copies), and the token is bound once.  What the worker     *)
(* takes to be over is over (Known), because a session that has ended      *)
(* stays ended: an answer may be old and still be right.                   *)
(*                                                                         *)
(* The handlers' progress also says which connections the controller has a *)
(* row of (Rows); with that, what the worker and its controller do to the  *)
(* session are steps of SessionLifecycle.                                  *)
(***************************************************************************)
EXTENDS WorkerProxy, Integers, TLAPS

\* An answer that is on its way to LoadLocalSession or RequestCancel has the
\* state of a session.
Replies == \A c \in Conn : pc[c] \in {"looking", "canceling"} => replyStatus[c] \in State

\* A handler that has taken an object keeps it.
Held ==
    /\ \A c \in Conn : pc[c] \in {"handshake", "canceling", "activate", "activated",
                                  "checked", "authorized", "dialing", "connected"}
                          => sess[c] \in Sess
    /\ \A c \in Conn : info[c] # "none" => sess[c] \in Sess
    /\ \A c \in Conn : pc[c] \in {"idle", "looking", "loaded"} => info[c] = "none"
    /\ \A c \in Conn : pc[c] \in {"dialing", "connected"} => info[c] # "none"

\* Copies of the token, and what handlers concluded from them.
Copies ==
    /\ \A o \in Sess : tofuToken[o] \in {Null, tofu} /\ respTofu[o] \in {Null, tofu}
    /\ \A c \in Conn : replyTofu[c] \in {Null, tofu}
    /\ \A c \in Conn : pc[c] = "activated" => TofuToken[c] = tofu
    /\ session = "active" => tofu # Null
    /\ OnlyBoundTokenProxied

\* An object, an answer or a reply that says the session has ended is right,
\* and a connection that counts as closed has been canceled before.
Known ==
    /\ \A o \in Sess : status[o] \in Ended => session \in Ended
    /\ \A c \in Conn : replyStatus[c] \in Ended => session \in Ended
    /\ answer # "none" => session \in Ended
    /\ \A c \in Conn : info[c] = "closed" => c \in canceled
    /\ closeInfo \subseteq canceled

\* AuthorizeConnection stores the row of a connection, and the handler goes on
\* only with its answer.
Rows ==
    /\ \A c \in Conn : pc[c] \in {"idle", "looking", "loaded", "handshake", "canceling",
                                  "activate", "activated", "checked"} => db[c] = "none"
    /\ \A c \in Conn : pc[c] \in {"authorized", "dialing", "connected", "proxying",
                                  "closing", "closed"} => db[c] # "none"

\* The session of this worker as one of the abstract life cycle: a connection
\* is admitted when it has a row, and no number of connections is too many.
OnlySession == {"session"}
Phase    == [s \in OnlySession |-> session]
Holder   == [s \in OnlySession |-> tofu]
Admitted == [s \in OnlySession |-> {c \in Conn : db[c] # "none"}]
NoLimit  == [s \in OnlySession |-> -1]

Lifecycle == INSTANCE SessionLifecycle
    WITH Session <- OnlySession, Tofu <- Token, ConnectionLimit <- NoLimit,
         phase <- Phase, holder <- Holder, admitted <- Admitted

USE DEF State, Ended, ConnState, Entering
USE TokenAssumption, VisitorAssumption, ProxyNullAssumption

-----------------------------------------------------------------------------
\* setCloseTimeForResponse neither stores nor removes a connection.
LEMMA SetStatusKeeps ==
    ASSUME TypeOK, NEW C, NEW closed, SetStatus(C, closed)
    PROVE  /\ info' \in [Conn -> {"none"} \union ConnState]
           /\ \A c \in Conn : info'[c] = "none" <=> info[c] = "none"
           /\ UNCHANGED late
BY DEF SetStatus, ConnsOf, TypeOK

\* Every step of the worker and of the controller keeps the types.
LEMMA TypeStep ==
    ASSUME TypeOK, Replies, Held, [Next]_vars
    PROVE  TypeOK'
<1>1. CASE CancelSession
    BY <1>1 DEF CancelSession, TypeOK, Replies, Held, objects, handlers, conns,
        loopVars
<1>2. CASE TerminateCompletedSessions
    BY <1>2 DEF TerminateCompletedSessions, TypeOK, Replies, Held, objects,
        handlers, conns, loopVars
<1>3. CASE CloseConnectionsForDeadWorkers
    BY <1>3 DEF CloseConnectionsForDeadWorkers, Closed, FreshAmong, TypeOK, Replies, Held,
        objects, handlers, conns, loopVars
<1>4. CASE Expire
    BY <1>4 DEF Expire, TypeOK, Replies, Held, objects, handlers, conns, loopVars
<1>5. CASE ControllerGracePasses
    BY <1>5 DEF ControllerGracePasses, TypeOK, Replies, Held, objects, handlers,
        conns, loopVars
<1>6. CASE WorkerGracePasses
    BY <1>6 DEF WorkerGracePasses, TypeOK, Replies, Held, controllerVars, objects,
        handlers, conns
<1>7. ASSUME NEW c \in Conn, Age(c) PROVE TypeOK'
    BY <1>7 DEF Age, TypeOK, Replies, Held, objects, handlers, conns, loopVars
<1>8. ASSUME NEW c \in Conn, LookupSession(c) PROVE TypeOK'
    BY <1>8 DEF LookupSession, TypeOK, Replies, Held, controllerVars, objects,
        conns, loopVars
<1>9. ASSUME NEW c \in Conn, LoadLocalSession(c) PROVE TypeOK'
    BY <1>9 DEF LoadLocalSession, TypeOK, Replies, Held, controllerVars, conns,
        loopVars
<1>10. ASSUME NEW c \in Conn, Accept(c) PROVE TypeOK'
    BY <1>10 DEF Accept, TypeOK, Replies, Held, controllerVars, objects, conns,
        loopVars
<1>11. ASSUME NEW c \in Conn, RequestCancel(c) PROVE TypeOK'
    BY <1>11 DEF RequestCancel, TypeOK, Replies, Held, objects, conns, loopVars
<1>12. ASSUME NEW c \in Conn, CancelApplied(c) PROVE TypeOK'
    BY <1>12 DEF CancelApplied, TypeOK, Replies, Held, controllerVars, conns,
        loopVars
<1>13. ASSUME NEW c \in Conn, CheckTofu(c) PROVE TypeOK'
    BY <1>13 DEF CheckTofu, TypeOK, Replies, Held, controllerVars, objects, conns,
        loopVars
<1>14. ASSUME NEW c \in Conn, RequestActivate(c) PROVE TypeOK'
    BY <1>14 DEF RequestActivate, TypeOK, Replies, Held, objects, conns, loopVars
<1>15. ASSUME NEW c \in Conn, Activated(c) PROVE TypeOK'
    BY <1>15 DEF Activated, TypeOK, Replies, Held, controllerVars, conns, loopVars
<1>16. ASSUME NEW c \in Conn, RequestAuthorizeConnection(c) PROVE TypeOK'
    BY <1>16 DEF RequestAuthorizeConnection, TypeOK, Replies, Held, objects, conns,
        loopVars
<1>17. ASSUME NEW c \in Conn, Authorized(c) PROVE TypeOK'
    BY <1>17 DEF Authorized, TypeOK, Replies, Held, controllerVars, objects,
        loopVars
<1>18. ASSUME NEW c \in Conn, GiveUp(c) PROVE TypeOK'
    BY <1>18 DEF GiveUp, TypeOK, Replies, Held, controllerVars, objects, conns,
        loopVars
<1>19. ASSUME NEW c \in Conn, RequestConnectConnection(c) PROVE TypeOK'
    BY <1>19 DEF RequestConnectConnection, TypeOK, Replies, Held, objects, conns,
        loopVars
<1>20. ASSUME NEW c \in Conn, Connected(c) PROVE TypeOK'
    BY <1>20 DEF Connected, TypeOK, Replies, Held, controllerVars, objects, loopVars
<1>21. ASSUME NEW c \in Conn, ProxyEnds(c) PROVE TypeOK'
    BY <1>21 DEF ProxyEnds, TypeOK, Replies, Held, controllerVars, objects, conns,
        loopVars
<1>22. ASSUME NEW c \in Conn, RequestCloseConnections(c) PROVE TypeOK'
    BY <1>22 DEF RequestCloseConnections, CloseAndTerminate, Closed, FreshAmong, TypeOK,
        Replies, Held, objects, conns, loopVars
<1>23. ASSUME NEW c \in Conn, CloseApplied(c) PROVE TypeOK'
    BY <1>23 DEF CloseApplied, SetStatus, TypeOK, Replies, Held, controllerVars,
        objects, loopVars
<1>24. ASSUME NEW c \in Conn, CloseLost(c) PROVE TypeOK'
    BY <1>24 DEF CloseLost, SetStatus, TypeOK, Replies, Held, controllerVars,
        objects, loopVars
<1>25. CASE SendStatus
    BY <1>25 DEF SendStatus, AskedIn, ReportedIn, ConnsOf, TypeOK, Replies, Held, controllerVars,
        objects, handlers, conns
<1>26. CASE CheckIfNotActive
    BY <1>26 DEF CheckIfNotActive, TypeOK, Replies, Held, objects, handlers, conns
<1>27. CASE CloseOrphanedConnections
    BY <1>27 DEF CloseOrphanedConnections, Closed, TypeOK, Replies, Held, objects,
        handlers, conns
<1>28. CASE ApplyAnswer
    BY <1>28 DEF ApplyAnswer, TypeOK, Replies, Held, controllerVars, handlers, conns
<1>29. CASE StatusFails
    BY <1>29 DEF StatusFails, TypeOK, Replies, Held, controllerVars, objects,
        handlers, conns
<1>30. CASE StatusFailed
    BY <1>30 DEF StatusFailed, BreakGlass, ConnsOf, TypeOK, Replies, Held,
        controllerVars, objects, handlers
<1>31. CASE CleanupConnections
    BY <1>31 DEF CleanupConnections, CleanUpEnded, CleanUpActive, ConnsOf, TypeOK,
        Replies, Held, controllerVars, objects, handlers
<1>32. CASE CleanupRequestClose
    BY <1>32 DEF CleanupRequestClose, CloseAndTerminate, Closed, FreshAmong, TypeOK, Replies,
        Held, objects, handlers, conns
<1>33. CASE CleanupCloseApplied
    BY <1>33 DEF CleanupCloseApplied, SetStatus, TypeOK, Replies, Held,
        controllerVars, objects, handlers
<1>34. CASE CleanupCloseLost
    BY <1>34 DEF CleanupCloseLost, SetStatus, TypeOK, Replies, Held,
        controllerVars, objects, handlers
<1>35. CASE DeleteLocalSession
    BY <1>35 DEF DeleteLocalSession, TypeOK, Replies, Held, controllerVars,
        handlers, conns
<1>36. CASE UNCHANGED vars
    BY <1>36 DEF vars, controllerVars, objects, handlers, conns, loopVars, TypeOK, Replies, Held
<1> QED BY <1>1, <1>2, <1>3, <1>4, <1>5, <1>6, <1>7, <1>8, <1>9, <1>10, <1>11,
           <1>12, <1>13, <1>14, <1>15, <1>16, <1>17, <1>18, <1>19, <1>20,
           <1>21, <1>22, <1>23, <1>24, <1>25, <1>26, <1>27, <1>28, <1>29,
           <1>30, <1>31, <1>32, <1>33, <1>34, <1>35, <1>36
    DEF Next, Controller, HandleProxy, StatusLoop

\* An answer is a session's state as long as it is on its way.
LEMMA RepliesStep ==
    ASSUME TypeOK, Replies, [Next]_vars
    PROVE  Replies'
<1>1. CASE UNCHANGED <<pc, replyStatus>>
    BY <1>1 DEF TypeOK, Replies
<1>2. CASE CancelSession \/ TerminateCompletedSessions \/
           CloseConnectionsForDeadWorkers \/ Expire \/
           ControllerGracePasses \/ WorkerGracePasses \/ SendStatus \/
           CheckIfNotActive \/ CloseOrphanedConnections \/ ApplyAnswer \/
           StatusFails \/ StatusFailed \/ CleanupConnections \/
           CleanupRequestClose \/ CleanupCloseApplied \/ CleanupCloseLost \/
           DeleteLocalSession
    BY <1>1, <1>2 DEF CancelSession, TerminateCompletedSessions,
        CloseConnectionsForDeadWorkers, Expire, ControllerGracePasses,
        WorkerGracePasses, SendStatus, CheckIfNotActive,
        CloseOrphanedConnections, ApplyAnswer, StatusFails, StatusFailed,
        CleanupConnections, CleanupRequestClose, CleanupCloseApplied,
        CleanupCloseLost, DeleteLocalSession, BreakGlass, CleanUpEnded,
        CleanUpActive, SetStatus, controllerVars, objects, handlers, conns,
        loopVars
<1>3. ASSUME NEW c \in Conn,
              Age(c)
       PROVE  Replies'
    BY <1>1, <1>3 DEF Age, objects, handlers, conns, loopVars
<1>4. ASSUME NEW c \in Conn, LookupSession(c) PROVE Replies'
    BY <1>4 DEF LookupSession, TypeOK, Replies, controllerVars, objects, conns,
        loopVars
<1>5. ASSUME NEW c \in Conn, LoadLocalSession(c) PROVE Replies'
    BY <1>5 DEF LoadLocalSession, TypeOK, Replies, controllerVars, conns,
        loopVars
<1>6. ASSUME NEW c \in Conn, Accept(c) PROVE Replies'
    BY <1>6 DEF Accept, TypeOK, Replies, controllerVars, objects, conns,
        loopVars
<1>7. ASSUME NEW c \in Conn, RequestCancel(c) PROVE Replies'
    BY <1>7 DEF RequestCancel, TypeOK, Replies, objects, conns, loopVars
<1>8. ASSUME NEW c \in Conn, CancelApplied(c) PROVE Replies'
    BY <1>8 DEF CancelApplied, TypeOK, Replies, controllerVars, conns, loopVars
<1>9. ASSUME NEW c \in Conn, CheckTofu(c) PROVE Replies'
    BY <1>9 DEF CheckTofu, TypeOK, Replies, controllerVars, objects, conns,
        loopVars
<1>10. ASSUME NEW c \in Conn, RequestActivate(c) PROVE Replies'
    BY <1>10 DEF RequestActivate, TypeOK, Replies, objects, conns, loopVars
<1>11. ASSUME NEW c \in Conn, Activated(c) PROVE Replies'
    BY <1>11 DEF Activated, TypeOK, Replies, controllerVars, conns, loopVars
<1>12. ASSUME NEW c \in Conn, RequestAuthorizeConnection(c) PROVE Replies'
    BY <1>12 DEF RequestAuthorizeConnection, TypeOK, Replies, objects, conns,
        loopVars
<1>13. ASSUME NEW c \in Conn, Authorized(c) PROVE Replies'
    BY <1>13 DEF Authorized, TypeOK, Replies, controllerVars, objects, loopVars
<1>14. ASSUME NEW c \in Conn, GiveUp(c) PROVE Replies'
    BY <1>14 DEF GiveUp, TypeOK, Replies, controllerVars, objects, conns,
        loopVars
<1>15. ASSUME NEW c \in Conn, RequestConnectConnection(c) PROVE Replies'
    BY <1>15 DEF RequestConnectConnection, TypeOK, Replies, objects, conns,
        loopVars
<1>16. ASSUME NEW c \in Conn, Connected(c) PROVE Replies'
    BY <1>16 DEF Connected, TypeOK, Replies, controllerVars, objects, loopVars
<1>17. ASSUME NEW c \in Conn, ProxyEnds(c) PROVE Replies'
    BY <1>17 DEF ProxyEnds, TypeOK, Replies, controllerVars, objects, conns,
        loopVars
<1>18. ASSUME NEW c \in Conn, RequestCloseConnections(c) PROVE Replies'
    BY <1>18 DEF RequestCloseConnections, CloseAndTerminate, Closed, FreshAmong, TypeOK,
        Replies, objects, conns, loopVars
<1>19. ASSUME NEW c \in Conn, CloseApplied(c) PROVE Replies'
    BY <1>19 DEF CloseApplied, SetStatus, TypeOK, Replies, controllerVars,
        objects, loopVars
<1>20. ASSUME NEW c \in Conn, CloseLost(c) PROVE Replies'
    BY <1>20 DEF CloseLost, SetStatus, TypeOK, Replies, controllerVars, objects,
        loopVars
<1>21. CASE UNCHANGED vars
    BY <1>1, <1>21 DEF vars, controllerVars, objects, handlers, conns, loopVars
<1> QED BY <1>1, <1>2, <1>3, <1>4, <1>5, <1>6, <1>7, <1>8, <1>9, <1>10, <1>11,
           <1>12, <1>13, <1>14, <1>15, <1>16, <1>17, <1>18, <1>19, <1>20, <1>21
    DEF Next, Controller, HandleProxy, StatusLoop

\* Objects are taken before connections are stored in them.
LEMMA HeldStep ==
    ASSUME TypeOK, Held, [Next]_vars
    PROVE  Held'
<1>1. CASE UNCHANGED <<pc, sess, info>>
    BY <1>1 DEF TypeOK, Held
<1>2. CASE CancelSession \/ TerminateCompletedSessions \/
           CloseConnectionsForDeadWorkers \/ Expire \/
           ControllerGracePasses \/ WorkerGracePasses \/ SendStatus \/
           CheckIfNotActive \/ CloseOrphanedConnections \/ ApplyAnswer \/
           StatusFails \/ StatusFailed \/ CleanupConnections \/
           CleanupRequestClose \/ DeleteLocalSession
    BY <1>1, <1>2 DEF CancelSession, TerminateCompletedSessions,
        CloseConnectionsForDeadWorkers, Expire, ControllerGracePasses,
        WorkerGracePasses, SendStatus, CheckIfNotActive,
        CloseOrphanedConnections, ApplyAnswer, StatusFails, StatusFailed,
        CleanupConnections, CleanupRequestClose, DeleteLocalSession, BreakGlass,
        CleanUpEnded, CleanUpActive, controllerVars, objects, handlers, conns,
        loopVars
<1>3. ASSUME NEW c \in Conn,
              Age(c)
       PROVE  Held'
    BY <1>1, <1>3 DEF Age, objects, handlers, conns, loopVars
<1>4. ASSUME NEW c \in Conn, LookupSession(c) PROVE Held'
    BY <1>4 DEF LookupSession, TypeOK, Held, controllerVars, objects, conns,
        loopVars
<1>5. ASSUME NEW c \in Conn, LoadLocalSession(c) PROVE Held'
    BY <1>5 DEF LoadLocalSession, TypeOK, Held, controllerVars, conns, loopVars
<1>6. ASSUME NEW c \in Conn, Accept(c) PROVE Held'
    BY <1>6 DEF Accept, TypeOK, Held, controllerVars, objects, conns, loopVars
<1>7. ASSUME NEW c \in Conn, RequestCancel(c) PROVE Held'
    BY <1>7 DEF RequestCancel, TypeOK, Held, objects, conns, loopVars
<1>8. ASSUME NEW c \in Conn, CancelApplied(c) PROVE Held'
    BY <1>8 DEF CancelApplied, TypeOK, Held, controllerVars, conns, loopVars
<1>9. ASSUME NEW c \in Conn, CheckTofu(c) PROVE Held'
    BY <1>9 DEF CheckTofu, TypeOK, Held, controllerVars, objects, conns,
        loopVars
<1>10. ASSUME NEW c \in Conn, RequestActivate(c) PROVE Held'
    BY <1>10 DEF RequestActivate, TypeOK, Held, objects, conns, loopVars
<1>11. ASSUME NEW c \in Conn, Activated(c) PROVE Held'
    BY <1>11 DEF Activated, TypeOK, Held, controllerVars, conns, loopVars
<1>12. ASSUME NEW c \in Conn, RequestAuthorizeConnection(c) PROVE Held'
    BY <1>12 DEF RequestAuthorizeConnection, TypeOK, Held, objects, conns,
        loopVars
<1>13. ASSUME NEW c \in Conn, Authorized(c) PROVE Held'
    BY <1>13 DEF Authorized, TypeOK, Held, controllerVars, objects, loopVars
<1>14. ASSUME NEW c \in Conn, GiveUp(c) PROVE Held'
    BY <1>14 DEF GiveUp, TypeOK, Held, controllerVars, objects, conns, loopVars
<1>15. ASSUME NEW c \in Conn, RequestConnectConnection(c) PROVE Held'
    BY <1>15 DEF RequestConnectConnection, TypeOK, Held, objects, conns,
        loopVars
<1>16. ASSUME NEW c \in Conn, Connected(c) PROVE Held'
    BY <1>16 DEF Connected, TypeOK, Held, controllerVars, objects, loopVars
<1>17. ASSUME NEW c \in Conn, ProxyEnds(c) PROVE Held'
    BY <1>17 DEF ProxyEnds, TypeOK, Held, controllerVars, objects, conns,
        loopVars
<1>18. ASSUME NEW c \in Conn, RequestCloseConnections(c) PROVE Held'
    BY <1>18 DEF RequestCloseConnections, CloseAndTerminate, Closed, FreshAmong, TypeOK,
        Held, objects, conns, loopVars
<1>19. ASSUME NEW c \in Conn, CloseApplied(c) PROVE Held'
    <2>1. \A c1 \in Conn : info'[c1] = "none" <=> info[c1] = "none"
        BY <1>19, SetStatusKeeps DEF CloseApplied
    <2> QED BY <1>19, <2>1
        DEF CloseApplied, TypeOK, Held, controllerVars, objects, loopVars
<1>20. ASSUME NEW c \in Conn, CloseLost(c) PROVE Held'
    <2>1. \A c1 \in Conn : info'[c1] = "none" <=> info[c1] = "none"
        BY <1>20, SetStatusKeeps DEF CloseLost
    <2> QED BY <1>20, <2>1
        DEF CloseLost, TypeOK, Held, controllerVars, objects, loopVars
<1>21. CASE CleanupCloseApplied
    <2>1. \A c1 \in Conn : info'[c1] = "none" <=> info[c1] = "none"
        BY <1>21, SetStatusKeeps DEF CleanupCloseApplied
    <2> QED BY <1>21, <2>1
        DEF CleanupCloseApplied, TypeOK, Held, controllerVars, objects, handlers
<1>22. CASE CleanupCloseLost
    <2>1. \A c1 \in Conn : info'[c1] = "none" <=> info[c1] = "none"
        BY <1>22, SetStatusKeeps DEF CleanupCloseLost
    <2> QED BY <1>22, <2>1
        DEF CleanupCloseLost, TypeOK, Held, controllerVars, objects, handlers
<1>23. CASE UNCHANGED vars
    BY <1>1, <1>23 DEF vars, controllerVars, objects, handlers, conns, loopVars
<1> QED BY <1>1, <1>2, <1>3, <1>4, <1>5, <1>6, <1>7, <1>8, <1>9, <1>10, <1>11,
           <1>12, <1>13, <1>14, <1>15, <1>16, <1>17, <1>18, <1>19, <1>20, <1>21,
           <1>22, <1>23
    DEF Next, Controller, HandleProxy, StatusLoop

\* A token is bound once, so that no copy of it is ever wrong.
LEMMA CopiesStep ==
    ASSUME TypeOK, Held, Copies, [Next]_vars
    PROVE  Copies'
<1>1. ASSUME UNCHANGED <<tofu, tofuToken, respTofu, replyTofu, pc>>,
             session' = "active" => session = "active"
      PROVE  Copies'
    BY <1>1 DEF TypeOK, Held, Copies, OnlyBoundTokenProxied, GetTofuToken
<1>2. CASE CancelSession \/ TerminateCompletedSessions \/
           CloseConnectionsForDeadWorkers \/ Expire \/
           ControllerGracePasses \/ WorkerGracePasses \/ SendStatus \/
           CheckIfNotActive \/ CloseOrphanedConnections \/ ApplyAnswer \/
           StatusFails \/ StatusFailed \/ CleanupConnections \/
           CleanupRequestClose \/ CleanupCloseApplied \/ CleanupCloseLost \/
           DeleteLocalSession
    BY <1>1, <1>2 DEF CancelSession, TerminateCompletedSessions,
        CloseConnectionsForDeadWorkers, Expire, ControllerGracePasses,
        WorkerGracePasses, SendStatus, CheckIfNotActive,
        CloseOrphanedConnections, ApplyAnswer, StatusFails, StatusFailed,
        CleanupConnections, CleanupRequestClose, CleanupCloseApplied,
        CleanupCloseLost, DeleteLocalSession, BreakGlass, CleanUpEnded,
        CleanUpActive, SetStatus, CloseAndTerminate, controllerVars, objects, handlers, conns,
        loopVars
<1>3. ASSUME NEW c \in Conn,
              Age(c)
       PROVE  Copies'
    BY <1>1, <1>3 DEF Age, objects, handlers, conns, loopVars
<1>4. ASSUME NEW c \in Conn, LookupSession(c) PROVE Copies'
    BY <1>4 DEF LookupSession, TypeOK, Held, Copies, OnlyBoundTokenProxied,
        GetTofuToken, controllerVars, objects, conns, loopVars
<1>5. ASSUME NEW c \in Conn, LoadLocalSession(c) PROVE Copies'
    BY <1>5 DEF LoadLocalSession, TypeOK, Held, Copies, OnlyBoundTokenProxied,
        GetTofuToken, controllerVars, conns, loopVars
<1>6. ASSUME NEW c \in Conn, Accept(c) PROVE Copies'
    BY <1>6 DEF Accept, TypeOK, Held, Copies, OnlyBoundTokenProxied,
        GetTofuToken, controllerVars, objects, conns, loopVars
<1>7. ASSUME NEW c \in Conn, RequestCancel(c) PROVE Copies'
    BY <1>7 DEF RequestCancel, TypeOK, Held, Copies, OnlyBoundTokenProxied,
        GetTofuToken, objects, conns, loopVars
<1>8. ASSUME NEW c \in Conn, CancelApplied(c) PROVE Copies'
    BY <1>8 DEF CancelApplied, TypeOK, Held, Copies, OnlyBoundTokenProxied,
        GetTofuToken, controllerVars, conns, loopVars
<1>9. ASSUME NEW c \in Conn, CheckTofu(c) PROVE Copies'
    BY <1>9 DEF CheckTofu, TypeOK, Held, Copies, OnlyBoundTokenProxied,
        GetTofuToken, controllerVars, objects, conns, loopVars
<1>10. ASSUME NEW c \in Conn, RequestActivate(c) PROVE Copies'
    BY <1>10 DEF RequestActivate, TypeOK, Held, Copies, OnlyBoundTokenProxied,
        GetTofuToken, objects, conns, loopVars
<1>11. ASSUME NEW c \in Conn, Activated(c) PROVE Copies'
    BY <1>11 DEF Activated, TypeOK, Held, Copies, OnlyBoundTokenProxied,
        GetTofuToken, controllerVars, conns, loopVars
<1>12. ASSUME NEW c \in Conn, RequestAuthorizeConnection(c) PROVE Copies'
    BY <1>12 DEF RequestAuthorizeConnection, TypeOK, Held, Copies,
        OnlyBoundTokenProxied, GetTofuToken, objects, conns, loopVars
<1>13. ASSUME NEW c \in Conn, Authorized(c) PROVE Copies'
    BY <1>13 DEF Authorized, TypeOK, Held, Copies, OnlyBoundTokenProxied,
        GetTofuToken, controllerVars, objects, loopVars
<1>14. ASSUME NEW c \in Conn, GiveUp(c) PROVE Copies'
    BY <1>14 DEF GiveUp, TypeOK, Held, Copies, OnlyBoundTokenProxied,
        GetTofuToken, controllerVars, objects, conns, loopVars
<1>15. ASSUME NEW c \in Conn, RequestConnectConnection(c) PROVE Copies'
    BY <1>15 DEF RequestConnectConnection, TypeOK, Held, Copies,
        OnlyBoundTokenProxied, GetTofuToken, objects, conns, loopVars
<1>16. ASSUME NEW c \in Conn, Connected(c) PROVE Copies'
    BY <1>16 DEF Connected, TypeOK, Held, Copies, OnlyBoundTokenProxied,
        GetTofuToken, controllerVars, objects, loopVars
<1>17. ASSUME NEW c \in Conn, ProxyEnds(c) PROVE Copies'
    BY <1>17 DEF ProxyEnds, TypeOK, Held, Copies, OnlyBoundTokenProxied,
        GetTofuToken, controllerVars, objects, conns, loopVars
<1>18. ASSUME NEW c \in Conn, RequestCloseConnections(c) PROVE Copies'
    BY <1>18 DEF RequestCloseConnections, CloseAndTerminate, Closed, FreshAmong, TypeOK,
        Held, Copies, OnlyBoundTokenProxied, GetTofuToken, objects, conns,
        loopVars
<1>19. ASSUME NEW c \in Conn, CloseApplied(c) PROVE Copies'
    BY <1>19 DEF CloseApplied, SetStatus, TypeOK, Held, Copies,
        OnlyBoundTokenProxied, GetTofuToken, controllerVars, objects, loopVars
<1>20. ASSUME NEW c \in Conn, CloseLost(c) PROVE Copies'
    BY <1>20 DEF CloseLost, SetStatus, TypeOK, Held, Copies,
        OnlyBoundTokenProxied, GetTofuToken, controllerVars, objects, loopVars
<1>21. CASE UNCHANGED vars
    BY <1>1, <1>21 DEF vars, controllerVars, objects, handlers, conns, loopVars
<1> QED BY <1>1, <1>2, <1>3, <1>4, <1>5, <1>6, <1>7, <1>8, <1>9, <1>10, <1>11,
           <1>12, <1>13, <1>14, <1>15, <1>16, <1>17, <1>18, <1>19, <1>20, <1>21
    DEF Next, Controller, HandleProxy, StatusLoop

\* What the worker takes to be over stays over.
LEMMA KnownStep ==
    ASSUME TypeOK, Known, [Next]_vars
    PROVE  Known'
<1>1. ASSUME session \in Ended => session' \in Ended,
             UNCHANGED <<status, replyStatus, answer, info, canceled, closeInfo>>
      PROVE  Known'
    BY <1>1 DEF Known
<1>2. ASSUME NEW C, NEW closed, SetStatus(C, closed), C \subseteq canceled',
             canceled \subseteq canceled'
      PROVE  \A c \in Conn : info'[c] = "closed" => c \in canceled'
    BY <1>2 DEF SetStatus, Known
<1>3. CASE CancelSession \/ TerminateCompletedSessions \/
           CloseConnectionsForDeadWorkers \/ Expire \/ ControllerGracePasses \/
           WorkerGracePasses \/ SendStatus \/ CloseOrphanedConnections \/
           CleanupRequestClose \/ DeleteLocalSession
    BY <1>1, <1>3 DEF CancelSession, TerminateCompletedSessions,
        CloseConnectionsForDeadWorkers, Expire, ControllerGracePasses,
        WorkerGracePasses, SendStatus, CloseOrphanedConnections,
        CleanupRequestClose, CloseAndTerminate, DeleteLocalSession,
        controllerVars, objects, handlers, conns, loopVars
<1>4. ASSUME NEW c \in Conn,
             Age(c) \/ Accept(c) \/ CheckTofu(c) \/ RequestAuthorizeConnection(c)
                 \/ RequestConnectConnection(c) \/ ProxyEnds(c) \/ RequestActivate(c)
      PROVE  Known'
    BY <1>1, <1>4 DEF Age, Accept, CheckTofu, RequestAuthorizeConnection,
        RequestConnectConnection, ProxyEnds, RequestActivate, controllerVars,
        objects, handlers, conns, loopVars
<1>5. ASSUME NEW c \in Conn, LookupSession(c) PROVE Known'
    BY <1>5 DEF LookupSession, TypeOK, Known, controllerVars, objects, conns, loopVars
<1>6. ASSUME NEW c \in Conn, LoadLocalSession(c) PROVE Known'
    BY <1>6 DEF LoadLocalSession, TypeOK, Known, controllerVars, conns, loopVars
<1>7. ASSUME NEW c \in Conn, RequestCancel(c) PROVE Known'
    BY <1>7 DEF RequestCancel, TypeOK, Known, objects, conns, loopVars
<1>8. ASSUME NEW c \in Conn, CancelApplied(c) PROVE Known'
    BY <1>8 DEF CancelApplied, TypeOK, Known, controllerVars, conns, loopVars
<1>9. ASSUME NEW c \in Conn, Activated(c) PROVE Known'
    BY <1>9 DEF Activated, TypeOK, Known, controllerVars, conns, loopVars
<1>10. ASSUME NEW c \in Conn, Authorized(c) PROVE Known'
    BY <1>10 DEF Authorized, TypeOK, Known, controllerVars, objects, loopVars
<1>11. ASSUME NEW c \in Conn, GiveUp(c) PROVE Known'
    BY <1>11 DEF GiveUp, TypeOK, Known, controllerVars, objects, conns, loopVars
<1>12. ASSUME NEW c \in Conn, Connected(c) PROVE Known'
    BY <1>12 DEF Connected, TypeOK, Known, controllerVars, objects, loopVars
<1>13. ASSUME NEW c \in Conn, RequestCloseConnections(c) PROVE Known'
    BY <1>13 DEF RequestCloseConnections, TypeOK, Known, CloseAndTerminate, objects, conns, loopVars
<1>14. ASSUME NEW c \in Conn, CloseApplied(c) PROVE Known'
    <2>1. \A d \in Conn : info'[d] = "closed" => d \in canceled'
        BY <1>14, <1>2 DEF CloseApplied
    <2> QED BY <1>14, <2>1 DEF CloseApplied, TypeOK, Known, controllerVars, objects,
        loopVars
<1>15. ASSUME NEW c \in Conn, CloseLost(c) PROVE Known'
    <2>1. \A d \in Conn : info'[d] = "closed" => d \in canceled'
        BY <1>15, <1>2 DEF CloseLost
    <2> QED BY <1>15, <2>1 DEF CloseLost, TypeOK, Known, controllerVars, objects,
        loopVars
<1>16. CASE CheckIfNotActive
    BY <1>16 DEF CheckIfNotActive, TypeOK, Known, objects, handlers, conns
<1>17. CASE ApplyAnswer
    BY <1>17 DEF ApplyAnswer, TypeOK, Known, controllerVars, handlers, conns
<1>18. CASE StatusFails
    BY <1>18 DEF StatusFails, TypeOK, Known, controllerVars, objects, handlers, conns
<1>19. CASE StatusFailed
    BY <1>19 DEF StatusFailed, TypeOK, Known, BreakGlass, controllerVars, objects, handlers
<1>20. CASE CleanupConnections
    BY <1>20 DEF CleanupConnections, TypeOK, Known, CleanUpEnded, CleanUpActive, ConnsOf, controllerVars, objects, handlers
<1>21. CASE CleanupCloseApplied
    <2>1. \A d \in Conn : info'[d] = "closed" => d \in canceled'
        BY <1>21, <1>2 DEF CleanupCloseApplied, Known
    <2> QED BY <1>21, <2>1 DEF CleanupCloseApplied, Known, controllerVars, objects, handlers
<1>22. CASE CleanupCloseLost
    <2>1. \A d \in Conn : info'[d] = "closed" => d \in canceled'
        BY <1>22, <1>2 DEF CleanupCloseLost, Known
    <2> QED BY <1>22, <2>1 DEF CleanupCloseLost, Known, controllerVars, objects, handlers
<1>23. CASE UNCHANGED vars
    BY <1>1, <1>23 DEF vars, controllerVars, objects, handlers, conns, loopVars
<1> QED BY <1>3, <1>4, <1>5, <1>6, <1>7, <1>8, <1>9, <1>10, <1>11, <1>12,
           <1>13, <1>14, <1>15, <1>16, <1>17, <1>18, <1>19, <1>20, <1>21,
           <1>22, <1>23
    DEF Next, Controller, HandleProxy, StatusLoop

\* A step that cancels a connection's context has a reason to.
LEMMA CutStep ==
    ASSUME TypeOK, Known, [Next]_vars, NEW c \in canceled' \ canceled
    PROVE  session \in Ended \/ expired \/ overdue \/ pc'[c] = "done"
<1>1. CASE StatusFailed
    BY <1>1 DEF StatusFailed
<1>2. CASE CleanupConnections
    <2>1. CASE CleanUpEnded
        BY <2>1 DEF CleanUpEnded, Known, TypeOK
    <2>2. CASE CleanUpActive
        BY <2>2 DEF CleanUpActive, ConnsOf, Known
    <2> QED BY <1>2, <2>1, <2>2 DEF CleanupConnections
<1>3. ASSUME NEW d \in Conn, CloseApplied(d) \/ CloseLost(d)
      PROVE  pc'[c] = "done"
    BY <1>3 DEF CloseApplied, CloseLost, TypeOK
<1>4. CASE UNCHANGED canceled
    BY <1>4
<1>5. CASE Controller \/ UNCHANGED vars
    BY <1>4, <1>5 DEF Controller, CancelSession, TerminateCompletedSessions,
        CloseConnectionsForDeadWorkers, Expire, ControllerGracePasses,
        WorkerGracePasses, Age, conns, vars
<1>6. ASSUME NEW d \in Conn, HandleProxy(d), ~CloseApplied(d), ~CloseLost(d)
      PROVE  UNCHANGED canceled
    BY <1>6 DEF HandleProxy, LookupSession, LoadLocalSession, Accept, RequestCancel,
        CancelApplied, CheckTofu, RequestActivate, Activated,
        RequestAuthorizeConnection, Authorized, GiveUp, RequestConnectConnection,
        Connected, ProxyEnds, RequestCloseConnections, conns
<1>7. CASE StatusLoop /\ ~StatusFailed /\ ~CleanupConnections
    BY <1>4, <1>7 DEF StatusLoop, SendStatus, CheckIfNotActive,
        CloseOrphanedConnections, ApplyAnswer, StatusFails, CleanupRequestClose,
        CleanupCloseApplied, CleanupCloseLost, DeleteLocalSession, conns
<1> QED BY <1>1, <1>2, <1>3, <1>4, <1>5, <1>6, <1>7 DEF Next

\* Closing connections neither stores nor removes the row of one.
LEMMA ClosedKeeps ==
    ASSUME TypeOK, NEW C
    PROVE  /\ \A c \in Conn : (Closed(C)[c] = "none") <=> (db[c] = "none")
           /\ {c \in Conn : Closed(C)[c] # "none"} = {c \in Conn : db[c] #
               "none"}
<1>1. \A c \in Conn : (Closed(C)[c] = "none") <=> (db[c] = "none")
    BY DEF Closed, TypeOK
<1> QED BY <1>1

\* A handler is past AuthorizeConnection exactly with a row.
LEMMA RowsStep ==
    ASSUME TypeOK, Rows, [Next]_vars
    PROVE  Rows'
<1>1. CASE UNCHANGED <<pc, db>>
    BY <1>1 DEF Rows
<1>2. ASSUME NEW C, db' = Closed(C), UNCHANGED pc
      PROVE  Rows'
    BY <1>2, ClosedKeeps DEF Rows

<1>3. CASE CancelSession \/ TerminateCompletedSessions \/ Expire \/
          ControllerGracePasses \/ WorkerGracePasses \/ SendStatus \/
          CheckIfNotActive \/ ApplyAnswer \/ StatusFails \/ StatusFailed \/
          CleanupConnections \/ CleanupCloseApplied \/ CleanupCloseLost \/
          DeleteLocalSession
    BY <1>1, <1>3 DEF CancelSession, TerminateCompletedSessions, Expire,
        ControllerGracePasses, WorkerGracePasses, SendStatus, CheckIfNotActive,
        ApplyAnswer, StatusFails, StatusFailed, CleanupConnections,
        CleanupCloseApplied, CleanupCloseLost, DeleteLocalSession, BreakGlass,
        CleanUpEnded, CleanUpActive, SetStatus, controllerVars, objects,
        handlers, conns, loopVars
<1>4. CASE CloseConnectionsForDeadWorkers
    BY <1>2, <1>4 DEF CloseConnectionsForDeadWorkers, handlers
<1>5. CASE CloseOrphanedConnections
    BY <1>2, <1>5 DEF CloseOrphanedConnections, handlers
<1>6. CASE CleanupRequestClose
    BY <1>2, <1>6 DEF CleanupRequestClose, CloseAndTerminate, handlers
<1>7. ASSUME NEW c \in Conn, Age(c) PROVE Rows'
    BY <1>1, <1>7 DEF Age, handlers
<1>8. ASSUME NEW c \in Conn, LookupSession(c) PROVE Rows'
    BY <1>8 DEF LookupSession, TypeOK, Rows, controllerVars
<1>9. ASSUME NEW c \in Conn, LoadLocalSession(c) PROVE Rows'
    BY <1>9 DEF LoadLocalSession, TypeOK, Rows, controllerVars
<1>10. ASSUME NEW c \in Conn, Accept(c) PROVE Rows'
    BY <1>10 DEF Accept, TypeOK, Rows, controllerVars
<1>11. ASSUME NEW c \in Conn, RequestCancel(c) PROVE Rows'
    BY <1>11 DEF RequestCancel, TypeOK, Rows, controllerVars
<1>12. ASSUME NEW c \in Conn, CancelApplied(c) PROVE Rows'
    BY <1>12 DEF CancelApplied, TypeOK, Rows, controllerVars
<1>13. ASSUME NEW c \in Conn, CheckTofu(c) PROVE Rows'
    BY <1>13 DEF CheckTofu, TypeOK, Rows, controllerVars
<1>14. ASSUME NEW c \in Conn, RequestActivate(c) PROVE Rows'
    BY <1>14 DEF RequestActivate, TypeOK, Rows, controllerVars
<1>15. ASSUME NEW c \in Conn, Activated(c) PROVE Rows'
    BY <1>15 DEF Activated, TypeOK, Rows, controllerVars
<1>16. ASSUME NEW c \in Conn, RequestAuthorizeConnection(c) PROVE Rows'
    BY <1>16 DEF RequestAuthorizeConnection, TypeOK, Rows, controllerVars
<1>17. ASSUME NEW c \in Conn, Authorized(c) PROVE Rows'
    BY <1>17 DEF Authorized, TypeOK, Rows, controllerVars
<1>18. ASSUME NEW c \in Conn, GiveUp(c) PROVE Rows'
    BY <1>18 DEF GiveUp, TypeOK, Rows, controllerVars
<1>19. ASSUME NEW c \in Conn, RequestConnectConnection(c) PROVE Rows'
    BY <1>19 DEF RequestConnectConnection, TypeOK, Rows, controllerVars
<1>20. ASSUME NEW c \in Conn, Connected(c) PROVE Rows'
    BY <1>20 DEF Connected, TypeOK, Rows, controllerVars
<1>21. ASSUME NEW c \in Conn, ProxyEnds(c) PROVE Rows'
    BY <1>21 DEF ProxyEnds, TypeOK, Rows, controllerVars
<1>22. ASSUME NEW c \in Conn, RequestCloseConnections(c) PROVE Rows'
    BY <1>22, ClosedKeeps DEF RequestCloseConnections, CloseAndTerminate,
        TypeOK, Rows
<1>23. ASSUME NEW c \in Conn, CloseApplied(c) PROVE Rows'
    BY <1>23 DEF CloseApplied, TypeOK, Rows, controllerVars
<1>24. ASSUME NEW c \in Conn, CloseLost(c) PROVE Rows'
    BY <1>24 DEF CloseLost, TypeOK, Rows, controllerVars
<1>25. CASE UNCHANGED vars
    BY <1>1, <1>25 DEF vars, controllerVars, handlers
<1> QED BY <1>1, <1>2, <1>3, <1>4, <1>5, <1>6, <1>7, <1>8, <1>9, <1>10, <1>11,
          <1>12, <1>13, <1>14, <1>15, <1>16, <1>17, <1>18, <1>19, <1>20, <1>21,
          <1>22, <1>23, <1>24, <1>25
    DEF Next, Controller, HandleProxy, StatusLoop

\* Every step is one of the abstract life cycle or changes nothing of it.
LEMMA LifecycleStep ==
    ASSUME TypeOK, Rows, [Next]_vars
    PROVE  [Lifecycle!LNext]_(Lifecycle!lifecycleVars)
<1> DEFINE Same == UNCHANGED Lifecycle!lifecycleVars
<1>1. ASSUME UNCHANGED <<session, tofu, db>> PROVE Same
    BY <1>1 DEF Lifecycle!lifecycleVars, Phase, Holder, Admitted
<1>2. ASSUME NEW C, db' = Closed(C) PROVE UNCHANGED Admitted
    BY <1>2, ClosedKeeps DEF Admitted
<1>3. ASSUME session \in {"pending", "active"}, session' = "canceling",
             UNCHANGED <<tofu, db>>
      PROVE  Lifecycle!LNext
    <2>1. Lifecycle!Cancel("session")
        BY <1>3 DEF Lifecycle!Cancel, Phase, Holder, Admitted, OnlySession
    <2> QED BY <2>1 DEF Lifecycle!LNext, OnlySession
<1>4. ASSUME session # "terminated", session' = "terminated", UNCHANGED tofu,
             UNCHANGED Admitted
      PROVE  Lifecycle!LNext
    <2>1. Lifecycle!End(OnlySession)
        BY <1>4 DEF Lifecycle!End, Lifecycle!Live, Phase, Holder, OnlySession,
            TypeOK
    <2> QED BY <2>1 DEF Lifecycle!LNext
<1>5. ASSUME NEW C, CloseAndTerminate(C), UNCHANGED tofu
      PROVE  Lifecycle!LNext \/ Same
    <2>1. UNCHANGED Admitted
        BY <1>2, <1>5 DEF CloseAndTerminate
    <2>2. CASE session' = session
        BY <1>5, <2>1, <2>2 DEF Lifecycle!lifecycleVars, Phase, Holder
    <2>3. CASE session # session' /\ session' = "terminated"
        BY <1>4, <1>5, <2>1, <2>3
    <2> QED BY <1>5, <2>2, <2>3 DEF CloseAndTerminate
<1>6. ASSUME NEW C, db' = Closed(C), UNCHANGED <<session, tofu>> PROVE Same
    BY <1>2, <1>6 DEF Lifecycle!lifecycleVars, Phase, Holder

<1>7. CASE Expire \/ ControllerGracePasses \/ WorkerGracePasses \/ SendStatus \/
          CheckIfNotActive \/ ApplyAnswer \/ StatusFails \/ StatusFailed \/
          CleanupConnections \/ CleanupCloseApplied \/ CleanupCloseLost \/
          DeleteLocalSession
    BY <1>1, <1>7 DEF Expire, ControllerGracePasses, WorkerGracePasses,
        SendStatus, CheckIfNotActive, ApplyAnswer, StatusFails, StatusFailed,
        CleanupConnections, CleanupCloseApplied, CleanupCloseLost,
        DeleteLocalSession, BreakGlass, CleanUpEnded, CleanUpActive, SetStatus,
        controllerVars, objects, handlers, conns, loopVars
<1>8. CASE CancelSession
    BY <1>3, <1>8 DEF CancelSession
<1>9. CASE TerminateCompletedSessions
    <2>1. UNCHANGED Admitted
        BY <1>9 DEF TerminateCompletedSessions, Admitted
    <2> QED BY <1>4, <1>9, <2>1 DEF TerminateCompletedSessions
<1>10. CASE CloseConnectionsForDeadWorkers
    BY <1>6, <1>10 DEF CloseConnectionsForDeadWorkers
<1>11. CASE CloseOrphanedConnections
    BY <1>6, <1>11 DEF CloseOrphanedConnections
<1>12. CASE CleanupRequestClose
    BY <1>5, <1>12 DEF CleanupRequestClose
<1>13. ASSUME NEW c \in Conn, Age(c) PROVE Same
    BY <1>1, <1>13 DEF Age
<1>14. ASSUME NEW c \in Conn,
             LookupSession(c) \/ LoadLocalSession(c) \/ Accept(c) \/
                 CancelApplied(c) \/ CheckTofu(c) \/ Activated(c) \/
                 Authorized(c) \/ GiveUp(c) \/ Connected(c) \/ ProxyEnds(c) \/
                 CloseApplied(c) \/ CloseLost(c)
      PROVE  Same
    BY <1>1, <1>14 DEF LookupSession, LoadLocalSession, Accept, CancelApplied,
        CheckTofu, Activated, Authorized, GiveUp, Connected, ProxyEnds,
        CloseApplied, CloseLost, SetStatus, controllerVars
<1>15. ASSUME NEW c \in Conn, RequestCancel(c) PROVE Lifecycle!LNext \/ Same
    <2>1. CASE session \in Ended
        BY <1>1, <1>15, <2>1 DEF RequestCancel
    <2>2. CASE session \notin Ended
        <3>1. session \in {"pending", "active"}
            BY <2>2 DEF TypeOK
        <3> QED BY <1>3, <1>15, <2>2, <3>1 DEF RequestCancel
    <2> QED BY <2>1, <2>2
<1>16. ASSUME NEW c \in Conn, RequestActivate(c) PROVE Lifecycle!LNext
    <2>1. Lifecycle!Activate("session", TofuToken[c])
        BY <1>16 DEF RequestActivate, Lifecycle!Activate, Phase, Holder,
            Admitted,
                    OnlySession
    <2> QED BY <2>1 DEF Lifecycle!LNext, OnlySession
<1>17. ASSUME NEW c \in Conn, RequestAuthorizeConnection(c) PROVE
          Lifecycle!LNext
    <2>1. db[c] = "none" /\ session = "active" /\ UNCHANGED <<session, tofu>>
        BY <1>17 DEF RequestAuthorizeConnection, Rows
    <2>2. {d \in Conn : db'[d] # "none"} = {d \in Conn : db[d] # "none"} \union
        {c}
        BY <1>17 DEF RequestAuthorizeConnection, TypeOK
    <2>3. Lifecycle!Admit("session", c)
        BY <2>1, <2>2 DEF Lifecycle!Admit, Phase, Holder, Admitted, NoLimit,
            OnlySession
    <2> QED BY <2>3 DEF Lifecycle!LNext, OnlySession
<1>18. ASSUME NEW c \in Conn, RequestConnectConnection(c) PROVE Same
    <2>1. {d \in Conn : db'[d] # "none"} = {d \in Conn : db[d] # "none"}
        BY <1>18 DEF RequestConnectConnection, TypeOK, Rows
    <2> QED BY <1>18, <2>1 DEF RequestConnectConnection,
        Lifecycle!lifecycleVars,
                              Phase, Holder, Admitted
<1>19. ASSUME NEW c \in Conn, RequestCloseConnections(c) PROVE Lifecycle!LNext
          \/ Same
    BY <1>5, <1>19 DEF RequestCloseConnections
<1>20. CASE UNCHANGED vars
    BY <1>1, <1>20 DEF vars, controllerVars
<1> QED BY <1>7, <1>8, <1>9, <1>10, <1>11, <1>12, <1>13, <1>14, <1>15, <1>16,
          <1>17, <1>18, <1>19, <1>20
    DEF Next, Controller, HandleProxy, StatusLoop

-----------------------------------------------------------------------------

IInv == TypeOK /\ Replies /\ Held /\ Copies /\ Known /\ Rows

\* The inductive invariant holds for ever.
LEMMA Invariance == Spec => []IInv
<1>1. Init => IInv
    <2> SUFFICES ASSUME Init PROVE IInv
        OBVIOUS
    <2>1. TypeOK
        BY DEF Init, TypeOK
    <2>2. Replies /\ Held
        BY DEF Init, Replies, Held
    <2>3. Copies
        BY DEF Init, Copies, OnlyBoundTokenProxied
    <2>4. Known
        BY DEF Init, Known
    <2>5. Rows
        BY DEF Init, Rows
    <2> QED BY <2>1, <2>2, <2>3, <2>4, <2>5 DEF IInv
<1>2. IInv /\ [Next]_vars => IInv'
    BY TypeStep, RepliesStep, HeldStep, CopiesStep, KnownStep, RowsStep DEF IInv
<1> QED BY <1>1, <1>2, PTL DEF Spec

\* The variables of the worker and of the controller keep their types.
THEOREM WorkerTypeCorrect == Spec => []TypeOK
BY Invariance, PTL DEF IInv

\* Whatever handlers with different tokens overlap, with stale look-ups and
\* lost answers: handleProxy lets a client that asks to connect on only with
\* the token the session is bound to, and no client gets a connection
\* authorized before a token is bound.
THEOREM BoundTokenOnly == Spec => []OnlyBoundTokenProxied
BY Invariance, PTL DEF IInv, Copies

\* However late, stale or made up the answers are that handlers and the status
\* loop apply, cleanupConnections and its break-glass path cancel no connection
\* of a session that goes on, unless its own handler returns.
THEOREM CutsAreJustified == Spec => CutsOnlyTheEnded
<1>1. IInv /\ [Next]_vars =>
        [\A c \in canceled' \ canceled :
            session \in Ended \/ expired \/ overdue \/ pc'[c] = "done"]_vars
    BY CutStep DEF IInv
<1> QED BY <1>1, Invariance, PTL DEF Spec, CutsOnlyTheEnded

\* A session that was handed to this worker is pending, unbound and without
\* connections, and from there the worker and the controller together, with
\* lost answers, late calls and connections closed behind the handlers' backs,
\* take it only through steps of the abstract life cycle: it is bound once, it
\* never comes back from its end, and a connection is admitted once, while it
\* is active.
THEOREM WorkerKeepsLifecycle ==
    Spec => /\ Phase["session"] = "pending" /\ Holder["session"] = Null
            /\ Admitted["session"] = {}
            /\ [][Lifecycle!LNext]_(Lifecycle!lifecycleVars)
<1>1. Init => /\ Phase["session"] = "pending" /\ Holder["session"] = Null
              /\ Admitted["session"] = {}
    BY DEF Init, Phase, Holder, Admitted, OnlySession
<1>2. IInv /\ [Next]_vars => [Lifecycle!LNext]_(Lifecycle!lifecycleVars)
    BY LifecycleStep DEF IInv
<1> QED BY <1>1, <1>2, Invariance, PTL DEF Spec
=============================================================================
