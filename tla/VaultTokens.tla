---------------------------- MODULE VaultTokens ----------------------------
(***************************************************************************)
(* One Vault credential store: its Vault tokens, the credentials (leases)  *)
(* issued with them to sessions, and the jobs that renew, revoke and clean *)
(* them up.  The state of the database and the state of Vault are separate *)
(* and every operation changes them in separate steps, so anything may     *)
(* happen, and a controller may die, between the call to Vault and the     *)
(* statement that records its answer.                                      *)
(***************************************************************************)
EXTENDS Naturals, FiniteSets

CONSTANTS
    Token,          \* Vault tokens users give to the store
    Cred,           \* rows (session, library, purpose) a credential is due for,
                    \* with a lease that expires and can be renewed
    Sess,           \* sessions
    SessionOf,      \* the session a credential is issued to
    Limit,          \* rows one run of a job fetches
    MaxVersion,     \* bound: versions of the store
    MaxEvents,      \* bound: failures, crashes, and expiries in Vault
    MaxRunning,     \* bound: jobs that run at the same time
    Null

ASSUME VaultAssumption ==
    /\ SessionOf \in [Cred -> Sess]
    /\ Limit \in Nat \ {0} /\ MaxRunning \in Nat \ {0}
    /\ MaxVersion \in Nat \ {0} /\ MaxEvents \in Nat
    /\ Null \notin Token \union Cred

VARIABLES
    store,      \* the row of the store: absent, live, soft deleted, deleted
    version,    \* its version
    library,    \* its credential library exists
    token,      \* token -> status of its row
    lapsed,     \* tokens whose recorded expiration_time has passed
    cred,       \* credential -> status of its row
    credToken,  \* credential -> token its lease was obtained with
    session,    \* session -> open, ended (canceling or terminated), deleted
    issue,      \* session -> progress of AuthorizeSession in Issue
    update,     \* progress of UpdateCredentialStore
    job,        \* job -> progress of its run
    vaultToken, \* Vault: token is alive or dead
    lease,      \* Vault: credential -> its lease
    ahead,      \* tokens renewed in Vault and not yet in the database
    early,      \* history: tokens alive when their recorded expiry passed
    revokedBy,  \* history: tokens the revocation job has revoked in Vault
    late,       \* history: credentials stored when their token was not current
    events      \* failures and expiries so far

rows  == <<store, version, library, token, lapsed, cred, credToken, session>>
procs == <<issue, update, job>>
vault == <<vaultToken, lease, ahead>>
hist  == <<early, revokedBy, late, events>>
vars  == <<rows, procs, vault, hist>>

TokenStatus == {"current", "maintaining", "revoke", "revoked", "expired"}
CredStatus  == {"active", "revoke", "revoked", "expired"}
Final       == {"revoked", "expired"}
TokenJob    == {"tokenRenewal", "tokenRevocation"}
CredJob     == {"credRenewal", "credRevocation"}
Job         == TokenJob \union CredJob \union {"storeCleanup"}

IssueState == [pc : {"read", "get", "put", "done"},
               token : Token \union {Null},
               todo : SUBSET Cred, item : Cred \union {Null}]
Row  == Token \union Cred \union {Null}
Run  == [pc : {"idle", "loop", "write", "creds"}, batch : SUBSET Row,
         item : Row, alive : BOOLEAN]
Idle == [pc |-> "idle", batch |-> {}, item |-> Null, alive |-> FALSE]

HasRow(t)   == token[t] \in TokenStatus
Current     == {t \in Token : token[t] = "current"}
CredsOf(t)  == {c \in Cred : cred[c] \in CredStatus /\ credToken[c] = t}
CredsFor(s) == {c \in Cred : SessionOf[c] = s}
Detached(c) == session[SessionOf[c]] = "deleted"     \* session_id is null

\* The types of the variables: a row has one of the statuses the schema lists.
TypeOK ==
    /\ store \in {"none", "live", "soft", "gone"}
    /\ version \in 1..MaxVersion + 1
    /\ library \in BOOLEAN
    /\ token \in [Token -> {"none", "gone"} \union TokenStatus]
    /\ lapsed \subseteq Token
    /\ cred \in [Cred -> {"none", "gone"} \union CredStatus]
    /\ credToken \in [Cred -> Token \union {Null}]
    /\ session \in [Sess -> {"open", "ended", "deleted"}]
    /\ issue \in [Sess -> IssueState]
    /\ update \in [pc : {"idle", "put"}, token : Token \union {Null},
                   version : 0..MaxVersion + 1]
    /\ job \in [Job -> Run]
    /\ vaultToken \in [Token -> {"alive", "dead"}]
    /\ lease \in [Cred -> {"none", "alive", "dead"}]
    /\ ahead \subseteq Token /\ early \subseteq Token
    /\ revokedBy \subseteq Token /\ late \subseteq Cred
    /\ events \in 0..MaxEvents

Init ==
    /\ store = "none" /\ version = 1 /\ library = FALSE
    /\ token = [t \in Token |-> "none"] /\ lapsed = {}
    /\ cred = [c \in Cred |-> "none"] /\ credToken = [c \in Cred |-> Null]
    /\ session = [s \in Sess |-> "open"]
    /\ issue = [s \in Sess |-> [pc |-> "read", token |-> Null, todo |-> {},
                                item |-> Null]]
    /\ update = [pc |-> "idle", token |-> Null, version |-> 0]
    /\ job = [j \in Job |-> Idle]
    /\ vaultToken = [t \in Token |-> "alive"]
    /\ lease = [c \in Cred |-> "none"]
    /\ ahead = {} /\ early = {} /\ revokedBy = {} /\ late = {} /\ events = 0

-----------------------------------------------------------------------------
(* Vault: a dead token takes its leases with it; tokens and leases that    *)
(* are not renewed expire.                                                 *)

LeasesWithout(t) ==
    [c \in Cred |-> IF credToken[c] = t /\ lease[c] = "alive" THEN "dead"
                                                              ELSE lease[c]]

TokenDies(t) ==
    /\ vaultToken' = [vaultToken EXCEPT ![t] = "dead"]
    /\ lease' = LeasesWithout(t)
    /\ ahead' = ahead \ {t}

VaultTokenExpires(t) ==
    /\ vaultToken[t] = "alive" /\ events < MaxEvents
    /\ TokenDies(t)
    /\ events' = events + 1
    /\ UNCHANGED <<rows, procs, early, revokedBy, late>>

LeaseExpires(c) ==
    /\ lease[c] = "alive" /\ events < MaxEvents
    /\ lease' = [lease EXCEPT ![c] = "dead"]
    /\ events' = events + 1
    /\ UNCHANGED <<rows, procs, vaultToken, ahead, early, revokedBy, late>>

\* The recorded expiry comes from Vault's answer, so it passes after the
\* token has died, unless a renewal was not recorded.  It is looked at in rows
\* with status revoke only.
RecordedExpiryPasses(t) ==
    /\ token[t] = "revoke" /\ t \notin lapsed
    /\ vaultToken[t] = "dead" \/ t \in ahead
    /\ lapsed' = lapsed \union {t}
    /\ early' = IF vaultToken[t] = "alive" THEN early \union {t} ELSE early
    /\ UNCHANGED <<store, version, library, token, cred, credToken, session,
                   procs, vault, revokedBy, late, events>>

-----------------------------------------------------------------------------
(* The repository.                                                         *)

\* Insertion of a token: the trigger moves the current one to maintaining.
InsertToken(t) ==
    token' = [u \in Token |-> IF u = t THEN "current"
                              ELSE IF token[u] = "current" THEN "maintaining"
                              ELSE token[u]]

CreateCredentialStore(t) ==
    /\ store = "none" /\ vaultToken[t] = "alive"
    /\ store' = "live" /\ library' = TRUE
    /\ InsertToken(t)
    /\ UNCHANGED <<version, lapsed, cred, credToken, session, procs, vault, hist>>

\* The store is read and the new token validated and renewed.
UpdateRead(t) ==
    /\ update.pc = "idle" /\ store = "live" /\ version < MaxVersion
    /\ token[t] = "none" /\ vaultToken[t] = "alive"
    /\ update' = [pc |-> "put", token |-> t, version |-> version]
    /\ UNCHANGED <<rows, issue, job, vault, hist>>

\* Mutant: the transaction does not compare the version.
UpdateWriteBlind ==
    /\ update.pc = "put"
    /\ IF store # "gone" THEN version' = version + 1 /\ InsertToken(update.token)
                         ELSE UNCHANGED <<version, token>>
    /\ update' = [pc |-> "idle", token |-> Null, version |-> 0]
    /\ UNCHANGED <<store, library, lapsed, cred, credToken, session, issue, job,
                   vault, hist>>

\* The transaction does nothing when the version has changed.
UpdateWrite ==
    /\ update.pc = "put"
    /\ IF version = update.version /\ store = "live"
       THEN /\ version' = version + 1
            /\ InsertToken(update.token)
       ELSE UNCHANGED <<version, token>>
    /\ update' = [pc |-> "idle", token |-> Null, version |-> 0]
    /\ UNCHANGED <<store, library, lapsed, cred, credToken, session, issue, job,
                   vault, hist>>

\* Mutant: the trigger does not look at the status of the tokens.
DeleteCredentialStoreAllTokens ==
    /\ store = "live"
    /\ store' = "soft" /\ version' = version + 1 /\ library' = FALSE
    /\ token' = [t \in Token |-> IF HasRow(t) THEN "revoke" ELSE token[t]]
    /\ UNCHANGED <<lapsed, cred, credToken, session, procs, vault, hist>>

\* Soft deletion, with its trigger; the schedule of the jobs is left to them.
DeleteCredentialStore ==
    /\ store = "live"
    /\ store' = "soft" /\ version' = version + 1 /\ library' = FALSE
    /\ token' = [t \in Token |-> IF token[t] \in {"current", "maintaining"}
                                 THEN "revoke" ELSE token[t]]
    /\ UNCHANGED <<lapsed, cred, credToken, session, procs, vault, hist>>

DeleteCredentialLibrary ==
    /\ store = "live" /\ library
    /\ library' = FALSE
    /\ UNCHANGED <<store, version, token, lapsed, cred, credToken, session,
                   procs, vault, hist>>

-----------------------------------------------------------------------------
(* Sessions.  Deletion sets session_id to null, and the trigger on that    *)
(* column, like the one on the session states, asks for revocation.        *)

RevokeCredsOf(s) ==
    cred' = [c \in Cred |-> IF SessionOf[c] = s /\ cred[c] = "active"
                            THEN "revoke" ELSE cred[c]]

EndSession(s) ==
    /\ session[s] = "open"
    /\ session' = [session EXCEPT ![s] = "ended"]
    /\ RevokeCredsOf(s)
    /\ UNCHANGED <<store, version, library, token, lapsed, credToken, procs,
                   vault, hist>>

DeleteSession(s) ==
    /\ session[s] = "ended"
    /\ session' = [session EXCEPT ![s] = "deleted"]
    /\ RevokeCredsOf(s)
    /\ UNCHANGED <<store, version, library, token, lapsed, credToken, procs,
                   vault, hist>>

\* Where AuthorizeSession is, what it has still to get and what to store.
IssueAt(s, pc, todo, item) ==
    issue' = [issue EXCEPT ![s] = [pc |-> pc, token |-> issue[s].token,
                                   todo |-> todo, item |-> item]]

\* AuthorizeSession returns an error: its deferred functions delete the session
\* and, once Issue has returned, first revoke what it stored.
AuthorizeFails(s) ==
    /\ session' = [session EXCEPT ![s] = "deleted"]
    /\ RevokeCredsOf(s)
    /\ IssueAt(s, "done", {}, Null)
    /\ UNCHANGED <<store, version, library, token, lapsed, credToken>>

-----------------------------------------------------------------------------
(* Issue: the libraries are read with the current token of their store,    *)
(* then one credential after the other is requested from Vault and stored. *)

IssueRead(s) ==
    /\ issue[s].pc = "read" /\ store # "none"
    /\ \E t \in IF Current = {} THEN {Null} ELSE Current :
          issue' = [issue EXCEPT ![s] =
              [pc |-> "get", token |-> t, item |-> Null,
               todo |-> IF library THEN CredsFor(s) ELSE {}]]
    /\ UNCHANGED <<rows, update, job, vault, hist>>

\* A secret without a lease is handed out and not stored.
IssueGet(s, c) ==
    LET t == issue[s].token IN
    /\ issue[s].pc = "get" /\ c \in issue[s].todo
    /\ IF t # Null /\ vaultToken[t] = "alive"
       THEN \/ /\ lease' = [lease EXCEPT ![c] = "alive"]
               /\ credToken' = [credToken EXCEPT ![c] = t]
               /\ IssueAt(s, "put", issue[s].todo \ {c}, c)
               /\ UNCHANGED <<store, version, library, token, lapsed, cred,
                              session>>
            \/ /\ IssueAt(s, "get", issue[s].todo \ {c}, Null)
               /\ UNCHANGED <<rows, lease>>
       ELSE AuthorizeFails(s) /\ UNCHANGED lease
    /\ UNCHANGED <<update, job, vaultToken, ahead, hist>>

\* The row needs its library, its session and its token; the row of
\* session_credential_dynamic goes with the first two.
IssuePut(s) ==
    LET c == issue[s].item IN
    /\ issue[s].pc = "put"
    /\ IF library /\ session[s] # "deleted" /\ HasRow(credToken[c])
       THEN /\ cred' = [cred EXCEPT ![c] = "active"]
            /\ late' = IF token[credToken[c]] = "current" THEN late
                                                          ELSE late \union {c}
            /\ IssueAt(s, "get", issue[s].todo, Null)
            /\ UNCHANGED <<store, version, library, token, lapsed, credToken,
                           session>>
       ELSE AuthorizeFails(s) /\ UNCHANGED late
    /\ UNCHANGED <<update, job, vault, early, revokedBy, events>>

IssueDone(s) ==
    /\ issue[s].pc = "get" /\ issue[s].todo = {}
    /\ IssueAt(s, "done", {}, Null)
    /\ UNCHANGED <<rows, update, job, vault, hist>>

\* A statement, the context or a later part of the handler fails.
IssueFails(s) ==
    /\ issue[s].pc \in {"get", "put"} /\ events < MaxEvents
    /\ events' = events + 1
    /\ AuthorizeFails(s)
    /\ UNCHANGED <<update, job, vault, early, revokedBy, late>>

\* The controller dies: the deferred functions do not run.
IssueCrashes(s) ==
    /\ issue[s].pc \in {"get", "put"} /\ events < MaxEvents
    /\ events' = events + 1
    /\ IssueAt(s, "done", {}, Null)
    /\ UNCHANGED <<rows, update, job, vault, early, revokedBy, late>>

-----------------------------------------------------------------------------
(* The jobs.  A run fetches rows and handles them one after the other; an  *)
(* error with one row is logged and the run goes on to the next.           *)

\* Mutant: replaced tokens are revoked whatever was issued with them.
TokensToRevokeInUse ==
    {t \in Token : token[t] \in {"revoke", "maintaining"}}

\* Tokens to revoke, and of those replaced the ones without an active
\* credential.
TokensToRevoke ==
    {t \in Token : \/ token[t] = "revoke"
                   \/ /\ token[t] = "maintaining"
                      /\ \A c \in CredsOf(t) : cred[c] # "active"}

\* Mutant: the tokens of the store are not looked at.
StoreToDeleteAtOnce == store = "soft"

\* A soft deleted store goes when no token of it waits for revocation; a
\* token whose recorded expiry has passed is not waited for.
StoreToDelete ==
    store = "soft" /\ \A t \in Token : token[t] = "revoke" => t \in lapsed

\* The rows a run of a job looks for.  The view leaves out credentials that never
\* expire; those have no lease and are not in Cred.
Due(j) ==
    CASE j = "tokenRenewal" ->
            {t \in Token : token[t] \in {"current", "maintaining", "revoke"}}
      [] j = "tokenRevocation" -> TokensToRevoke
      [] j = "credRenewal" -> {c \in Cred : cred[c] = "active"}
      [] j = "credRevocation" -> {c \in Cred : cred[c] = "revoke"}
      [] j = "storeCleanup" -> IF StoreToDelete THEN {Null} ELSE {}

\* Only what is near its renewal time is fetched for renewal, so any of the
\* rows may be; of more than Limit rows the database returns any Limit.
Batches(j) ==
    {B \in SUBSET Due(j) :
        /\ B # {} /\ Cardinality(B) <= Limit
        /\ \/ j \in {"tokenRenewal", "credRenewal"}
           \/ B = Due(j) \/ Cardinality(B) = Limit}

\* Where the run of job j is, the rows left, and what it knows of one row.
RunAt(j, pc, B, x, alive) ==
    job' = [job EXCEPT ![j] = [pc |-> pc, batch |-> B, item |-> x,
                               alive |-> alive]]

\* The run goes on with the rows B, or ends.
Continue(j, B) == RunAt(j, IF B = {} THEN "idle" ELSE "loop", B, Null, FALSE)

Fetch(j) ==
    /\ job[j].pc = "idle"
    /\ Cardinality({i \in Job : job[i].pc # "idle"}) < MaxRunning
    /\ \E B \in Batches(j) :
          Continue(j, B)
    /\ UNCHANGED <<rows, issue, update, vault, hist>>

\* Vault has answered the call about x: alive, or a code that says it is not.
Answered(j, x, alive) ==
    RunAt(j, "write", job[j].batch \ {x}, x, alive)

\* The answer says nothing about x: the error is logged.
Skipped(j, x) == Continue(j, job[j].batch \ {x})

\* Mutant: any error is taken as the answer that the token is dead.
RenewTokenAnyError(t) ==
    /\ job["tokenRenewal"].pc = "loop" /\ t \in job["tokenRenewal"].batch
    /\ Answered("tokenRenewal", t, FALSE)
    /\ UNCHANGED <<rows, issue, update, vault, hist>>

RenewToken(t) ==
    /\ job["tokenRenewal"].pc = "loop" /\ t \in job["tokenRenewal"].batch
    /\ Answered("tokenRenewal", t, vaultToken[t] = "alive")
    /\ ahead' = IF vaultToken[t] = "alive" THEN ahead \union {t} ELSE ahead
    /\ UNCHANGED <<rows, issue, update, vaultToken, lease, hist>>

\* A renewal is recorded; a refusal makes the token, and in a statement of
\* its own its credentials, expired, whatever their status is by now.
RecordRenewal ==
    LET j == "tokenRenewal"  t == job[j].item IN
    /\ job[j].pc = "write"
    /\ IF job[j].alive \/ ~HasRow(t)
       THEN Continue(j, job[j].batch) /\ UNCHANGED token
       ELSE /\ token' = [token EXCEPT ![t] = "expired"]
            /\ RunAt(j, "creds", job[j].batch, t, FALSE)
    /\ IF job[j].alive /\ HasRow(t)
       THEN lapsed' = lapsed \ {t} /\ ahead' = ahead \ {t}
       ELSE UNCHANGED <<lapsed, ahead>>
    /\ UNCHANGED <<store, version, library, cred, credToken, session, issue,
                   update, vaultToken, lease, hist>>

\* A dead token answers 403, which is taken as success.
RevokeToken(t) ==
    /\ job["tokenRevocation"].pc = "loop" /\ t \in job["tokenRevocation"].batch
    /\ Answered("tokenRevocation", t, FALSE)
    /\ TokenDies(t)
    /\ revokedBy' = IF vaultToken[t] = "alive" THEN revokedBy \union {t}
                                               ELSE revokedBy
    /\ UNCHANGED <<rows, issue, update, early, late, events>>

RecordRevocation ==
    LET j == "tokenRevocation"  t == job[j].item IN
    /\ job[j].pc = "write"
    /\ IF HasRow(t)
       THEN /\ token' = [token EXCEPT ![t] = "revoked"]
            /\ RunAt(j, "creds", job[j].batch, t, FALSE)
       ELSE Continue(j, job[j].batch) /\ UNCHANGED token
    /\ UNCHANGED <<store, version, library, lapsed, cred, credToken, session,
                   issue, update, vault, hist>>

\* The credentials of the token follow it.
UpdateCredentialStatusByToken(j) ==
    /\ job[j].pc = "creds"
    /\ cred' = [c \in Cred |->
                  IF c \in CredsOf(job[j].item)
                  THEN IF j = "tokenRenewal" THEN "expired" ELSE "revoked"
                  ELSE cred[c]]
    /\ Continue(j, job[j].batch)
    /\ UNCHANGED <<store, version, library, token, lapsed, credToken, session,
                   issue, update, vault, hist>>

\* 400 says that the lease is gone; a dead token gets 403, an error.  The leases
\* in Cred can be renewed: the job does not consult is_renewable, and would take
\* Vault's 400 for a lease that cannot be renewed for the end of the lease.
RenewCred(c) ==
    /\ job["credRenewal"].pc = "loop" /\ c \in job["credRenewal"].batch
    /\ IF vaultToken[credToken[c]] = "alive"
       THEN Answered("credRenewal", c, lease[c] = "alive")
       ELSE Skipped("credRenewal", c)
    /\ UNCHANGED <<rows, issue, update, vault, hist>>

RecordCredRenewal ==
    LET j == "credRenewal"  c == job[j].item IN
    /\ job[j].pc = "write"
    /\ cred' = IF ~job[j].alive /\ cred[c] \in CredStatus
               THEN [cred EXCEPT ![c] = "expired"] ELSE cred
    /\ Continue(j, job[j].batch)
    /\ UNCHANGED <<store, version, library, token, lapsed, credToken, session,
                   issue, update, vault, hist>>

RevokeCred(c) ==
    /\ job["credRevocation"].pc = "loop" /\ c \in job["credRevocation"].batch
    /\ IF vaultToken[credToken[c]] = "alive"
       THEN /\ Answered("credRevocation", c, FALSE)
            /\ lease' = [lease EXCEPT ![c] = "dead"]
       ELSE Skipped("credRevocation", c) /\ UNCHANGED lease
    /\ UNCHANGED <<rows, issue, update, vaultToken, ahead, hist>>

RecordCredRevocation ==
    LET j == "credRevocation"  c == job[j].item IN
    /\ job[j].pc = "write"
    /\ cred' = IF cred[c] \in CredStatus THEN [cred EXCEPT ![c] = "revoked"]
                                         ELSE cred
    /\ Continue(j, job[j].batch)
    /\ UNCHANGED <<store, version, library, token, lapsed, credToken, session,
                   issue, update, vault, hist>>

\* The row of the store takes its tokens and their credentials with it.
CleanupStore ==
    /\ job["storeCleanup"].pc = "loop" /\ Null \in job["storeCleanup"].batch
    /\ store' = "gone"
    /\ token' = [t \in Token |-> IF HasRow(t) THEN "gone" ELSE token[t]]
    /\ cred' = [c \in Cred |-> IF cred[c] \in CredStatus THEN "gone"
                                                         ELSE cred[c]]
    /\ Skipped("storeCleanup", Null)
    /\ UNCHANGED <<version, library, lapsed, credToken, session, issue, update,
                   vault, hist>>

CleanupCreds ==
    LET done == {c \in Cred : Detached(c) /\ cred[c] \in Final} IN
    /\ done # {}
    /\ cred' = [c \in Cred |-> IF c \in done THEN "gone" ELSE cred[c]]
    /\ UNCHANGED <<store, version, library, token, lapsed, credToken, session,
                   procs, vault, hist>>

\* A statement fails or Vault does not answer: the row is left as it is.
RowFails(j) ==
    /\ events < MaxEvents /\ events' = events + 1
    /\ \/ job[j].pc \in {"write", "creds"} /\ Continue(j, job[j].batch)
       \/ job[j].pc = "loop" /\ \E x \in job[j].batch : Skipped(j, x)
    /\ UNCHANGED <<rows, issue, update, vault, early, revokedBy, late>>

\* The controller that runs the job stops.
RunStops(j) ==
    /\ events < MaxEvents /\ events' = events + 1
    /\ job[j].pc # "idle" /\ RunAt(j, "idle", {}, Null, FALSE)
    /\ UNCHANGED <<rows, issue, update, vault, early, revokedBy, late>>

-----------------------------------------------------------------------------

IssueStep(s) == IssueRead(s) \/ (\E c \in Cred : IssueGet(s, c))
                \/ IssuePut(s) \/ IssueDone(s)

JobStep(j) ==
    \/ Fetch(j)
    \/ j \in TokenJob /\ UpdateCredentialStatusByToken(j)
    \/ j = "tokenRenewal" /\ ((\E t \in Token : RenewToken(t)) \/ RecordRenewal)
    \/ j = "tokenRevocation"
       /\ ((\E t \in Token : RevokeToken(t)) \/ RecordRevocation)
    \/ j = "credRenewal" /\ ((\E c \in Cred : RenewCred(c)) \/ RecordCredRenewal)
    \/ j = "credRevocation"
       /\ ((\E c \in Cred : RevokeCred(c)) \/ RecordCredRevocation)
    \/ j = "storeCleanup" /\ CleanupStore

Next ==
    \/ \E t \in Token : \/ VaultTokenExpires(t) \/ RecordedExpiryPasses(t)
                        \/ CreateCredentialStore(t) \/ UpdateRead(t)
    \/ \E c \in Cred : LeaseExpires(c)
    \/ UpdateWrite \/ DeleteCredentialStore \/ DeleteCredentialLibrary
    \/ \E s \in Sess : \/ EndSession(s) \/ DeleteSession(s)
                       \/ IssueStep(s) \/ IssueFails(s) \/ IssueCrashes(s)
    \/ CleanupCreds
    \/ \E j \in Job : JobStep(j) \/ RowFails(j) \/ RunStops(j)

Spec == Init /\ [][Next]_vars

-----------------------------------------------------------------------------

\* A final status is true of Vault: the token of a row that is revoked or
\* expired is dead, and so is the lease of such a credential, although the
\* statements that write these statuses look at nothing.
FinalMeansDead ==
    /\ \A t \in Token : token[t] \in Final => vaultToken[t] = "dead"
    /\ \A c \in Cred : cred[c] \in Final => lease[c] = "dead"

\* When the cleanup job has deleted the store, no token it ever had is alive
\* in Vault, and so no lease either, unless a renewal was not recorded before
\* the recorded expiry passed.
NoTokenForgotten ==
    store = "gone" =>
        /\ \A t \in Token : token[t] = "gone" /\ t \notin early
                                => vaultToken[t] = "dead"
        /\ \A c \in Cred : lease[c] = "alive" => credToken[c] \in early

\* While the store is in use, the revocation job does not revoke the token
\* of an active credential, unless Issue stored that credential after the
\* token it had read was replaced.
ActiveTokenKept ==
    store = "live" =>
        \A c \in Cred : cred[c] = "active" /\ credToken[c] \in revokedBy
                            => c \in late

\* Neither the triggers nor the jobs, which write without looking, take a
\* token or a credential back from a final status.
FinalIsFinal ==
    [][/\ \A t \in Token : token[t] \in Final
                               => token'[t] \in Final \union {"gone"}
       /\ \A c \in Cred : cred[c] \in Final
                               => cred'[c] \in Final \union {"gone"}]_vars

\* Whatever is alive in Vault and no longer wanted still has the status that
\* makes a job fetch it: the tokens of a soft deleted store, whatever token
\* an UpdateCredentialStore was bringing in, and the leases of sessions that
\* are deleted, whatever Issue was storing for them.
AliveIsDue ==
    /\ store = "soft" =>
          \A t \in Token : HasRow(t) /\ vaultToken[t] = "alive"
                               => token[t] = "revoke"
    /\ \A c \in Cred :
          Detached(c) /\ cred[c] \in CredStatus /\ lease[c] = "alive"
              => cred[c] = "revoke"

=============================================================================
