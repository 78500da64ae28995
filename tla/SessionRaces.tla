---------------------------- MODULE SessionRaces ----------------------------
(***************************************************************************)
(* The transactions of SessionStore opened up.  Controllers and workers    *)
(* run them concurrently in Postgres at READ COMMITTED: every statement,   *)
(* and every statement of a trigger, sees what was committed when it       *)
(* began; a statement that updates a row another transaction has updated   *)
(* waits for it and then looks at the row again; a cycle of waits ends     *)
(* with an error in one of the transactions.                               *)
(*                                                                         *)
(* A transaction is a process.  What it writes becomes visible, and the    *)
(* rows it updated become free, when it commits.                           *)
(***************************************************************************)
EXTENDS Naturals, Integers, FiniteSets

CONSTANTS
    Session, Tofu, Null,
    ConnectionLimit,    \* as in SessionStore
    Activator,          \* requests of workers to activate a session
    Canceler,           \* cancel requests of users
    UserDeleter,        \* deletions of a user, token, target or project
    HostDeleter,        \* deletions of a host, host set or target address
    Authorizer,         \* requests of workers to authorize a connection
    Ticker,             \* controllers terminating completed sessions
    On,                 \* the session a request is about
    Token               \* the token of an activation

Request == Activator \union Canceler \union UserDeleter \union HostDeleter
           \union Authorizer
Tx == Request \union Ticker

ASSUME RequestAssumption ==
    /\ On \in [Request -> Session]
    /\ Token \in [Activator -> Tofu]
    /\ Null \notin Tofu
    /\ ConnectionLimit \in [Session -> {-1} \union (Nat \ {0})]

\* A transaction is of one kind.
ASSUME KindAssumption ==
    /\ Ticker \intersect Request = {}
    /\ Authorizer \intersect (Activator \union Canceler \union UserDeleter
                               \union HostDeleter) = {}
    /\ HostDeleter \intersect (Activator \union Canceler \union UserDeleter) = {}
    /\ Activator \intersect (Canceler \union UserDeleter) = {}
    /\ Canceler \intersect UserDeleter = {}

VARIABLES
    states, current, version, tofu, expired,    \* as in SessionStore
    ended,      \* session -> termination_reason is set
    open,       \* session -> its connections that are not closed
    closed,     \* session -> its closed connections
    pc,         \* where a transaction is
    seen,       \* version a request read before it began
    at,         \* session whose state row is being inserted
    todo,       \* ticker -> sessions left to lock, then to terminate
    target,     \* current state rows in the snapshot of insert_session_state
    rowLock,    \* state rows <<session, state>> a transaction has ended
    added,      \* state rows a transaction has inserted
    locked,     \* sessions whose row a transaction has updated
    late,       \* activation -> end states its session had when it began
    outcome     \* answer to a request

committed == <<states, current, version, tofu, ended, open, closed>>
locals    == <<seen, at, todo, target, rowLock, added, locked>>
vars      == <<committed, expired, pc, locals, late, outcome>>

EndState == {"canceling", "terminated"}
State == {"pending", "active"} \union EndState

TypeOK ==
    /\ states \in [Session -> SUBSET State]
    /\ current \in [Session -> SUBSET State]
    /\ version \in [Session -> Nat]
    /\ tofu \in [Session -> Tofu \union {Null}]
    /\ expired \in [Session -> BOOLEAN]
    /\ ended \in [Session -> BOOLEAN]
    /\ open \in [Session -> SUBSET Authorizer]
    /\ closed \in [Session -> SUBSET Authorizer]
    /\ pc \in [Tx -> {"idle", "ready", "select", "insert", "end", "update",
                      "lock", "trigger", "commit", "duplicate", "done"}]
    /\ seen \in [Tx -> Nat]
    /\ at \in [Tx -> Session \union {Null}]
    /\ todo \in [Tx -> SUBSET Session]
    /\ target \in [Tx -> SUBSET State]
    /\ rowLock \in [Tx -> SUBSET (Session \X State)]
    /\ added \in [Tx -> SUBSET (Session \X State)]
    /\ locked \in [Tx -> SUBSET Session]
    /\ late \in [Activator -> SUBSET EndState]
    /\ outcome \in [Request -> {"none", "ok", "duplicate", "error"}]

session_valid_state ==
    { <<"pending", "pending">>, <<"pending", "active">>,
      <<"pending", "terminated">>, <<"pending", "canceling">>,
      <<"active", "canceling">>, <<"active", "terminated">>,
      <<"canceling", "terminated">> }

\* Mutant: a termination inserts the state a connection ends in.
StateOfClosed(x) == IF x \in Activator THEN "active"
                    ELSE IF x \in Ticker THEN "closed" ELSE "canceling"

StateOf(x) == IF x \in Activator THEN "active"
              ELSE IF x \in Ticker THEN "terminated" ELSE "canceling"

Go(x, label) == pc' = [pc EXCEPT ![x] = label]

-----------------------------------------------------------------------------
(* Waiting.                                                                *)

Holders(x, s) == {y \in Tx \ {x} : s \in locked[y]}

\* Transactions that ended a row of x's snapshot or inserted the row x is
\* about to insert.
RowHolders(x) ==
    {y \in Tx \ {x} : \/ rowLock[y] \intersect ({at[x]} \X target[x]) # {}
                      \/ <<at[x], StateOf(x)>> \in added[y]}

\* The transactions that x waits for.
Blockers(x) ==
    IF pc[x] = "end" THEN RowHolders(x)
    ELSE IF \/ x \in Activator /\ pc[x] = "update"
            \/ x \in Canceler /\ pc[x] = "ready"
            \/ x \in UserDeleter /\ pc[x] = "idle"
         THEN Holders(x, On[x])
    ELSE IF /\ pc[x] = "lock"
            /\ todo[x] # {}
            /\ \A s \in todo[x] : Holders(x, s) # {}
         THEN UNION {Holders(x, s) : s \in todo[x]}
    ELSE {}

\* The transactions that x waits for, directly or through others.
WaitsFor(x) ==
    LET reach[n \in 1..Cardinality(Tx)] ==
            IF n = 1 THEN Blockers(x)
            ELSE Blockers(x) \union UNION {Blockers(y) : y \in reach[n - 1]}
    IN  reach[Cardinality(Tx)]

-----------------------------------------------------------------------------
(* The end of a transaction.                                               *)

\* Mutant: an error path that does not end the transaction.
ReleaseNothing(x) == UNCHANGED locals

Release(x) ==
    /\ at' = [at EXCEPT ![x] = Null]
    /\ todo' = [todo EXCEPT ![x] = {}]
    /\ target' = [target EXCEPT ![x] = {}]
    /\ rowLock' = [rowLock EXCEPT ![x] = {}]
    /\ added' = [added EXCEPT ![x] = {}]
    /\ locked' = [locked EXCEPT ![x] = {}]
    /\ UNCHANGED seen

\* The statement failed: DoTx rolls back and returns the error.  The ticker
\* logs it and tries again a minute later.
Fail(x) ==
    /\ Release(x)
    /\ Go(x, IF x \in Ticker THEN "idle" ELSE "done")
    /\ outcome' = IF x \in Ticker THEN outcome
                  ELSE [outcome EXCEPT ![x] = "error"]
    /\ UNCHANGED <<committed, expired, late>>

\* A violation of unique (session_id, state); the activation is a duplicate.
FailUnique(x) ==
    IF x \in Activator
    THEN /\ Release(x)
         /\ Go(x, "duplicate")
         /\ UNCHANGED <<committed, expired, late, outcome>>
    ELSE Fail(x)

Commit(x) ==
    /\ pc[x] = "commit" \/ (pc[x] = "trigger" /\ todo[x] = {})
    /\ states' = [s \in Session |-> states[s] \union {q \in State : <<s, q>> \in added[x]}]
    /\ current' = [s \in Session |->
                     (current[s] \ {q \in State : <<s, q>> \in rowLock[x]})
                        \union {q \in State : <<s, q>> \in added[x]}]
    /\ version' = [s \in Session |->
                     IF s \in locked[x] /\ x \notin UserDeleter
                     THEN version[s] + 1 ELSE version[s]]
    /\ tofu' = IF x \in Activator THEN [tofu EXCEPT ![On[x]] = Token[x]] ELSE tofu
    /\ ended' = [s \in Session |-> ended[s] \/ (x \in Ticker /\ s \in locked[x])]
    /\ open' = IF x \in Authorizer
               THEN [open EXCEPT ![On[x]] = @ \union {x}] ELSE open
    /\ outcome' = IF x \in Ticker THEN outcome ELSE [outcome EXCEPT ![x] = "ok"]
    /\ Go(x, IF x \in Ticker THEN "idle" ELSE "done")
    /\ Release(x)
    /\ UNCHANGED <<closed, expired, late>>

\* Postgres finds x on a cycle of waits.
DeadlockDetected(x) ==
    /\ Blockers(x) # {}
    /\ x \in WaitsFor(x)
    /\ Fail(x)

\* The request is canceled, its controller crashes, or a check of the row's
\* timestamps fails because the transaction began before its last change.
Interrupted(x) ==
    /\ x \in Request
    /\ pc[x] \notin {"idle", "done"}
    /\ Fail(x)

-----------------------------------------------------------------------------
(* Inserting a state row: the trigger insert_session_state ends the rows   *)
(* with a null end_time that its statement sees.                           *)

Snapshot(x) ==
    /\ pc[x] = "insert"
    /\ target' = [target EXCEPT ![x] = current[at[x]]]
    /\ Go(x, "end")
    /\ UNCHANGED <<committed, expired, seen, at, todo, rowLock, added, locked,
                   late, outcome>>

\* Mutant: the pair of prior and new state is not checked.
EndCurrentRowsUnchecked(x) ==
    /\ pc[x] = "end" /\ Blockers(x) = {}
    /\ IF StateOf(x) \in states[at[x]] THEN FailUnique(x)
       ELSE /\ rowLock' = [rowLock EXCEPT ![x] = @ \union ({at[x]} \X target[x])]
            /\ added' = [added EXCEPT ![x] = @ \union {<<at[x], StateOf(x)>>}]
            /\ Go(x, IF x \in Activator THEN "update"
                     ELSE IF x \in Ticker THEN "trigger" ELSE "commit")
            /\ UNCHANGED <<committed, expired, seen, at, todo, target, locked,
                           late, outcome>>

\* Rows that are no longer current after the wait are skipped, and a row that
\* became current meanwhile is not seen.  No row found means prior state
\* pending; more than one is an error of "returning state into".  The wait
\* for the rows and the wait for another insert of the state are one here.
EndCurrentRows(x) ==
    /\ pc[x] = "end"
    /\ Blockers(x) = {}
    /\ LET s    == at[x]
           q    == StateOf(x)
           rows == target[x] \intersect current[s]
       IN  IF Cardinality(rows) > 1 THEN Fail(x)
           ELSE IF q \in states[s] THEN FailUnique(x)
           ELSE IF \E p \in rows : <<p, q>> \notin session_valid_state THEN Fail(x)
           ELSE /\ rowLock' = [rowLock EXCEPT ![x] = @ \union ({s} \X rows)]
                /\ added' = [added EXCEPT ![x] = @ \union {<<s, q>>}]
                /\ Go(x, IF x \in Activator THEN "update"
                         ELSE IF x \in Ticker THEN "trigger" ELSE "commit")
                /\ UNCHANGED <<committed, expired, seen, at, todo, target,
                               locked, late, outcome>>

\* The select of an insert into session_state for session s passed.
Inserting(x, s) ==
    /\ at' = [at EXCEPT ![x] = s]
    /\ Go(x, "insert")

-----------------------------------------------------------------------------
(* ActivateSession.                                                        *)

LookupSession(x) ==
    /\ x \in Activator /\ pc[x] = "idle"
    /\ current[On[x]] = {"pending"} /\ tofu[On[x]] = Null
    /\ seen' = [seen EXCEPT ![x] = version[On[x]]]
    /\ Go(x, "ready")
    /\ UNCHANGED <<committed, expired, at, todo, target, rowLock, added, locked,
                   late, outcome>>

ActivateSelect(x) ==
    /\ x \in Activator /\ pc[x] = "ready"
    /\ late' = [late EXCEPT ![x] = states[On[x]] \intersect EndState]
    /\ IF /\ "pending" \in states[On[x]]
          /\ version[On[x]] = seen[x]
          /\ "active" \notin states[On[x]]
       THEN Inserting(x, On[x]) /\ UNCHANGED outcome
       ELSE Go(x, "done") /\ outcome' = [outcome EXCEPT ![x] = "error"] /\ UNCHANGED at
    /\ UNCHANGED <<committed, expired, seen, todo, target, rowLock, added, locked>>

\* lookupActivatedSessionTx, then the update of tofu_token.
ActivateUpdate(x) ==
    /\ x \in Activator /\ pc[x] = "update"
    /\ Blockers(x) = {}
    /\ IF tofu[On[x]] \in {Null, Token[x]}
       THEN /\ locked' = [locked EXCEPT ![x] = {On[x]}]
            /\ Go(x, "commit")
            /\ UNCHANGED <<committed, expired, seen, at, todo, target, rowLock,
                           added, late, outcome>>
       ELSE Fail(x)

\* Mutant: the duplicate's token is not compared.
getActivatedSessionAnyToken(x) ==
    /\ pc[x] = "duplicate"
    /\ Go(x, "done")
    /\ outcome' = [outcome EXCEPT ![x] = "duplicate"]
    /\ UNCHANGED <<committed, expired, locals, late>>

getActivatedSession(x) ==
    /\ pc[x] = "duplicate"
    /\ Go(x, "done")
    /\ outcome' = [outcome EXCEPT ![x] =
                    IF tofu[On[x]] \in {Null, Token[x]} THEN "duplicate" ELSE "error"]
    /\ UNCHANGED <<committed, expired, locals, late>>

-----------------------------------------------------------------------------
(* Cancellation: by request, and by the deletion of what a session needs.  *)

LookupForCancel(x) ==
    /\ x \in Canceler /\ pc[x] = "idle"
    /\ seen' = [seen EXCEPT ![x] = version[On[x]]]
    /\ Go(x, "ready")
    /\ UNCHANGED <<committed, expired, at, todo, target, rowLock, added, locked,
                   late, outcome>>

\* Mutant: the session row is read without being updated.
LockSessionNot(x) ==
    /\ Go(x, "select")
    /\ UNCHANGED <<committed, expired, locals, late, outcome>>

LockSession(x) ==
    /\ Blockers(x) = {}
    /\ locked' = [locked EXCEPT ![x] = {On[x]}]
    /\ Go(x, "select")
    /\ UNCHANGED <<committed, expired, seen, at, todo, target, rowLock, added,
                   late, outcome>>

\* The update of the version, with the version that was read.
CancelUpdate(x) ==
    /\ x \in Canceler /\ pc[x] = "ready"
    /\ Blockers(x) = {}
    /\ IF version[On[x]] = seen[x] THEN LockSession(x) ELSE Fail(x)

\* A column of the session row becomes null.
NullFkUpdate(x) ==
    /\ x \in UserDeleter /\ pc[x] = "idle"
    /\ LockSession(x)

\* Mutant: a session that is active by now is left alone.
CancelSelectOnlyPending(x) ==
    /\ pc[x] = (IF x \in HostDeleter THEN "idle" ELSE "select")
    /\ x \in HostDeleter \union UserDeleter \union Canceler
    /\ IF states[On[x]] = {"pending"}
       THEN Inserting(x, On[x])
       ELSE Go(x, "commit") /\ UNCHANGED at
    /\ UNCHANGED <<committed, expired, seen, todo, target, rowLock, added, locked,
                   late, outcome>>

\* updateSessionState and cancel_session.  A deleted host changes a row of
\* session_host_set_host, and no row of session.
CancelSelect(x) ==
    /\ pc[x] = (IF x \in HostDeleter THEN "idle" ELSE "select")
    /\ x \in HostDeleter \union UserDeleter \union Canceler
    /\ IF states[On[x]] \intersect EndState = {}
       THEN Inserting(x, On[x])
       ELSE Go(x, "commit") /\ UNCHANGED at
    /\ UNCHANGED <<committed, expired, seen, todo, target, rowLock, added, locked,
                   late, outcome>>

-----------------------------------------------------------------------------
(* TerminateCompletedSessions: one update statement, whose row triggers    *)
(* fire when all rows are updated.                                         *)

Completed(s) ==
    /\ ~ended[s]
    /\ \/ expired[s]
       \/ /\ ConnectionLimit[s] # -1
          /\ Cardinality(open[s] \union closed[s]) >= ConnectionLimit[s]
       \/ "canceling" \in current[s]
    /\ open[s] = {}

TerminateSelect(x) ==
    /\ x \in Ticker /\ pc[x] = "idle"
    /\ \E s \in Session : Completed(s)
    /\ todo' = [todo EXCEPT ![x] = {s \in Session : Completed(s)}]
    /\ Go(x, "lock")
    /\ UNCHANGED <<committed, expired, seen, at, target, rowLock, added, locked,
                   late, outcome>>

\* Once the row is free, only its own columns are looked at again.
TerminateUpdate(x, s) ==
    /\ pc[x] = "lock" /\ s \in todo[x]
    /\ Holders(x, s) = {}
    /\ locked' = [locked EXCEPT ![x] = IF ended[s] THEN @ ELSE @ \union {s}]
    /\ IF todo[x] = {s}
       THEN Go(x, "trigger") /\ todo' = [todo EXCEPT ![x] = locked'[x]]
       ELSE todo' = [todo EXCEPT ![x] = @ \ {s}] /\ UNCHANGED pc
    /\ UNCHANGED <<committed, expired, seen, at, target, rowLock, added, late,
                   outcome>>

\* update_session_state_on_termination_reason.
TerminateTrigger(x, s) ==
    /\ pc[x] = "trigger" /\ s \in todo[x]
    /\ IF open[s] # {} THEN Fail(x)
       ELSE /\ todo' = [todo EXCEPT ![x] = @ \ {s}]
            /\ IF "terminated" \in states[s] THEN UNCHANGED <<at, pc>>
                                             ELSE Inserting(x, s)
            /\ UNCHANGED <<committed, expired, seen, target, rowLock, added,
                           locked, late, outcome>>

-----------------------------------------------------------------------------
(* Connections.                                                            *)

AuthorizeInsert(x) ==
    /\ x \in Authorizer /\ pc[x] = "idle"
    /\ \/ ConnectionLimit[On[x]] = -1
       \/ Cardinality(open[On[x]] \union closed[On[x]]) < ConnectionLimit[On[x]]
    /\ ~expired[On[x]]
    /\ "active" \in current[On[x]]
    /\ Go(x, "commit")
    /\ UNCHANGED <<committed, expired, locals, late, outcome>>

CloseConnection(s, c) ==
    /\ c \in open[s]
    /\ open' = [open EXCEPT ![s] = @ \ {c}]
    /\ closed' = [closed EXCEPT ![s] = @ \union {c}]
    /\ UNCHANGED <<states, current, version, tofu, ended, expired, pc, locals,
                   late, outcome>>

Expire(s) ==
    /\ ~expired[s]
    /\ expired' = [expired EXCEPT ![s] = TRUE]
    /\ UNCHANGED <<committed, pc, locals, late, outcome>>

-----------------------------------------------------------------------------

\* Some sessions were activated before.
Init ==
    /\ \E A \in SUBSET Session :
        /\ states = [s \in Session |-> IF s \in A THEN {"pending", "active"} ELSE {"pending"}]
        /\ current = [s \in Session |-> IF s \in A THEN {"active"} ELSE {"pending"}]
        /\ version = [s \in Session |-> IF s \in A THEN 2 ELSE 1]
        /\ tofu \in [Session -> Tofu \union {Null}]
        /\ \A s \in Session : tofu[s] # Null <=> s \in A
    /\ expired = [s \in Session |-> FALSE]
    /\ ended = [s \in Session |-> FALSE]
    /\ open = [s \in Session |-> {}]
    /\ closed = [s \in Session |-> {}]
    /\ pc = [x \in Tx |-> "idle"]
    /\ seen = [x \in Tx |-> 0]
    /\ at = [x \in Tx |-> Null]
    /\ todo = [x \in Tx |-> {}]
    /\ target = [x \in Tx |-> {}]
    /\ rowLock = [x \in Tx |-> {}]
    /\ added = [x \in Tx |-> {}]
    /\ locked = [x \in Tx |-> {}]
    /\ late = [x \in Activator |-> {}]
    /\ outcome = [x \in Request |-> "none"]

Statement(x) ==
    \/ LookupSession(x) \/ ActivateSelect(x) \/ ActivateUpdate(x)
    \/ getActivatedSession(x)
    \/ LookupForCancel(x) \/ CancelUpdate(x) \/ NullFkUpdate(x) \/ CancelSelect(x)
    \/ Snapshot(x) \/ EndCurrentRows(x)
    \/ TerminateSelect(x)
    \/ \E s \in Session : TerminateUpdate(x, s) \/ TerminateTrigger(x, s)
    \/ AuthorizeInsert(x)
    \/ Commit(x)
    \/ DeadlockDetected(x)

Next ==
    \/ \E x \in Tx : Statement(x) \/ Interrupted(x)
    \/ \E s \in Session, c \in Authorizer : CloseConnection(s, c)
    \/ \E s \in Session : Expire(s)

Spec == Init /\ [][Next]_vars

(***************************************************************************)
(* Fairness: the database queues the transactions that wait for a row, so  *)
(* each gets its turn, and it finds every cycle of waits; the ticker ticks *)
(* for ever and a connection is closed in the end.                         *)
(***************************************************************************)
Fairness ==
    /\ \A x \in Tx : SF_vars(pc[x] # "idle" /\ Statement(x))
    /\ \A x \in Ticker : WF_vars(TerminateSelect(x))
    /\ \A s \in Session, c \in Authorizer : WF_vars(CloseConnection(s, c))

FairSpec == Spec /\ Fairness

-----------------------------------------------------------------------------
(* Properties.                                                             *)

\* Of activations that race each other, only the ones with the token that
\* was bound are told that the session is theirs.
TofuAgreement ==
    \A x \in Activator :
        outcome[x] \in {"ok", "duplicate"} => tofu[On[x]] = Token[x]

\* An activation that begins after a cancellation or termination of the
\* session was committed does not succeed, although a deleted host cancels
\* without changing the version; except that a termination which ends the
\* canceling row while the activation waits for it hides that row from it.
NoActivationAfterEnd ==
    \A x \in Activator : outcome[x] = "ok" /\ late[x] # {} =>
        late[x] = {"canceling"} /\ "terminated" \in states[On[x]]

\* A cancel that was answered, and a deletion that was committed, did end the
\* session, whichever transactions ran at the same time.
CancelNotLost ==
    \A x \in Canceler \union UserDeleter \union HostDeleter :
        outcome[x] = "ok" => states[On[x]] \intersect EndState # {}

\* No transaction stays unfinished: row locks taken in opposite orders delay
\* it or fail it but do not leave it waiting.
TransactionsFinish == \A x \in Tx : []<>(pc[x] \in {"idle", "done"})

\* Every session has one session_state row with a null end_time.
OneCurrentState == \A s \in Session : Cardinality(current[s]) = 1

\* Cancels, deletions of a user and terminations update the session row before
\* they insert a state, which serialises them: a second current row needs an
\* activation or the deletion of a host, which insert first.
SecondRowNeedsUnlocked ==
    \A s \in Session : Cardinality(current[s]) > 1 =>
        \E x \in Activator \union HostDeleter : On[x] = s /\ outcome[x] = "ok"
=============================================================================
