# Verification of Boundary's control plane

Boundary brokers network sessions. A *controller* (several may share one
Postgres database) authorizes a session and hands it to a client; the client
connects through a *worker*, which proxies its connections to the target and
reports to a controller every few seconds. This project models the parts on which
the product's promise rests. A session lives exactly as long as it may and then
really ends: the session and connection tables with their triggers, the
transactions that race on them, the scheduler that runs the clean-up jobs, and
the worker that holds the connections. The secrets a session was given end with
it: Vault's tokens and leases. And those who take part are who they were
registered as: the credentials of workers and their rotation, and the login of a
user with an identity provider.

Run `tlc -config X.cfg M` for a model and `tlapm M.tla` for the proofs. The runs,
their properties and the source lines of every definition are in `PROJECT.json`.

## 1. Inventory

| Component | State | Operations | Interaction | What is hard | Correct when |
|---|---|---|---|---|---|
| Session repository (`internal/session`, migrations 0/50, 24, 28, 29, 60) | `session` (version, tofu token, termination reason, expiration), `session_state` rows | create, look up, activate, cancel, terminate (ticker and after a close), delete | called by API handlers, the worker service, triggers of deleted users, hosts, targets | optimistic versions, triggers, READ COMMITTED races | one current state, never back, one token, ends in the end |
| Connection repository | `session_connection`, `session_connection_state` | authorize, connect, close, close orphans, close for dead or deleted workers | called by the worker service and a job | late, lost and repeated calls of workers | limit kept; closed before termination |
| Dynamic credentials (`credential/vault`) | status of a session's credential | issue, revoke, triggers on state and on deletion | AuthorizeSession calls Vault between transactions | slow Vault, handler crash | no credential outlives its session for long |
| Scheduler (`internal/scheduler`) | `job`, `job_run`; per controller `runningJobs` | RunJobs, runJob, CompleteRun, FailRun, UpdateProgress, InterruptRuns, run at once | every clean-up, revocation and rotation job runs on it | several controllers, crash, interruption of a live run | one running row per job, runs resolved, jobs run again |
| Worker proxy handler (`daemon/worker/handler.go`) | a goroutine per connection | look up, check token, activate or cancel, authorize, dial, connect, proxy, close | calls the controller; shares session objects | answers applied out of order or lost | only the bound client is proxied |
| Worker session manager (`daemon/worker/session`) | `sessionMap`, objects with status, token, connections | load, get, delete, apply, request, cancel | shared by handlers and status loop | an object forgotten while a handler holds it | nothing is cut too early, or lives on after the end |
| Worker status loop (`status.go`) | time of last success | send status, apply answer, break glass, clean up | Status call of the worker service | controller unreachable, made-up close answers | ended sessions are cut, also when cut off |
| Worker service (`cluster/handlers`) | none | Status, LookupSession, Cancel, Activate, Authorize-, Connect-, CloseConnection | RPC | several transactions per call | composes the above |
| AuthorizeSession (`targets`) | none | create session, issue credentials, undo on error | | crash between the steps | nothing is left over for ever |
| Vault tokens and leases (`credential/vault`) | status of a store, its tokens, its credentials; in Vault: tokens and leases | create, update, soft delete a store; Issue; jobs that renew and revoke tokens and leases and clean up | AuthorizeSession, session triggers, Scheduler, Vault | every change is made twice, in Vault and in the database, with a crash in between | what is recorded as ended is ended, what is unwanted is ended in the end |
| Worker credential rotation (`server`, `worker/auth_rotation.go`) | `worker_auth_authorized`, certificate bundles, two roots; the worker's own storage | create worker, fetch, rotate credentials, rotate or reinitialize roots | multi-hop service of the controller, the rotation job | lost answers, late requests, two controllers storing at once | a worker with a row can always prove who it is |
| Downstream connections (`daemon/cluster`) | `workerConnections`, `keyToWorkerId` of a controller | Accept, disconnect missing workers and keys | listener and a ticker | two locks, worker deleted meanwhile | a deleted worker is cut |
| OIDC login and auth tokens (`auth/oidc`, `authtoken`, `iam`) | accounts, users, managed groups, memberships, auth tokens | start, callback, poll for the token, validate, close expired; administration of all of them | browser, polling client, ticker, administrators | a callback is five transactions that race and may stop anywhere | memberships as matched, one user per account, a token goes to one client |
| Host plug-in sync; grants; key destruction | | | | | not modelled yet, see section 8 |
| Password and LDAP, scopes and roles, static catalogs, targets, recording format, rate limiter, events, plug-ins, API client, CLI, UI, migrations | | | | | not modelled: single transactions, file formats, presentation or external code |

`PROJECT.json` lists every component with its files, and the hazards of this code
at the line where each one bites.

## 2. Modules

    SessionLifecycle          what a session is, abstractly
          ^ implemented by (proved, and checked)
    SessionStore              the tables; an action is a committed transaction
          | opened up in            | the controller's side of
    SessionRaces              WorkerProxy
    (statements, row locks)   (handlers, manager, status loop; its session
                               keeps to SessionLifecycle: proved)

    Scheduler                 the controllers' job scheduler
    VaultTokens               a credential store: database, Vault, five jobs
    WorkerAuth                a worker's credentials, the roots, its connection
    OidcLogin                 logins: callbacks, clients, administrators

`MC*` modules give the constants values for TLC. `*Proofs` modules hold the
theorems.

### SessionStore

One variable per column or fact: `states`/`current` are a session's
`session_state` rows and those with a null `end_time`; `version`, `tofu`,
`reason`, `owner`, `connStates`, `connCurrent`, `closedReason`, `connWorker` are
columns; `cred` is the status of the session's dynamic credential; `authz` is how
far the AuthorizeSession handler got; `lookups` and `cancels` hold the versions
that a worker or a cancel handler read and has not used yet; `terminating` are
sessions a close request still has to try to terminate. Every action is one
transaction with all its triggers: `ActivateSession` includes the insert trigger
that ends the current row and checks `session_valid_state`; `CancelSession`,
`CancelSessionWithNullFk` (the triggers of deleted resources) and `Terminate`
include the trigger that marks credentials; `CloseRows` is the trigger on
`closed_reason`, which inserts a closed state only if there was none;
`DeleteRows` cascades. A worker's request may arrive at any time, so
`ConnectConnection` and `CloseConnections` are enabled as long as the row exists:
that covers late, repeated and lost calls. `Crash` drops what handlers keep in
memory. Time is abstract: `Expire` and `GracePeriodPasses` happen at any moment.

### SessionLifecycle

Phases none, pending, active, canceling, terminated, deleted, never back; a token
bound once, at activation; connections admitted only while active and within the
limit. `SessionStore!ImplementsLifecycle` maps the phase to the current row,
the holder to `tofu` and the admitted connections to the connection rows.

### SessionRaces

The same transactions as processes that take one statement at a time at READ
COMMITTED. A statement sees committed rows, waits for a row that another
transaction has updated and then evaluates its condition again; `Commit` publishes
and releases; `DeadlockDetected` fails a transaction in a cycle of waits;
`Interrupted` is a lost connection to the database or a canceled context.
`insert_session_state` is `Snapshot` and `EndCurrentRows`: between them another
transaction can end the row. The unique error of a second activation and
`getActivatedSession`, the loop over sessions in the ticker's one statement and
its trigger, and the count in `authorizeConnectionCte` are modelled as they are.
Connections are represented by the request that created them. `KindAssumption`
says that a transaction is one of the kinds: it runs one of the programs.

### Scheduler

`status`, `runJob`, `controller`, `stale` are columns of `job_run` (`stale`: not
updated within the interrupt threshold), `due` is `next_scheduled_run`, `exec` is
where a run's goroutine is, `runningJobs` is the map of each controller. The
scheduling loop is `RunJobsSelect`, `RunJobsInsert` (the snapshot and the insert
with `on conflict do nothing`), `StartRun` and `SpawnRun`; a goroutine is
`JobReturns`, `CompleteRun`, `FailRun` or `UpdateLost`, `DeleteRunning`; the
monitor loop is `MonitorTick`, `updateRunningJobProgress`, `InterruptRuns`.
`Start` interrupts the controller's own old runs. `Crash`, `Shutdown` and the
panic of a canceled run whose `cancelCtx` is not assigned yet (`Lose`) stop a
controller. A run id is used again once no goroutine and no running row has it,
which keeps the state finite. Errors of the database that only delay a loop are
left out.

### WorkerProxy

One worker and one session. The controller's side is `session`, `tofu`, `expired`
and `db` (a connection's current state; "reopened" means connected although
`closed_reason` is set), as SessionStore says. The worker's side: `sessionMap`
is the manager's object, objects have `status`, `tofuToken` and the token of the
last response `respTofu`; a handler has a program counter, the object it holds
and answers that are not yet applied; `info`, `closeTime`, `canceled` are a
connection's `ConnInfo` and context; the status loop has a program counter and
the request or answer under way. A call is executed by the controller in one step
(`RequestX`) and applied in another (`Activated`, `Authorized`, `Connected`,
`CloseApplied`, ...); it can fail before or after it is executed (`GiveUp`,
`CloseLost`, `StatusFails`). `CloseLost` and `CleanupCloseLost` are
`makeFakeSessionCloseInfo`. The client of a `Visitor` leaves after the TLS
handshake: its only effect is a LookupSession answer, possibly stale, applied to
the object. `late` is a history variable: connections stored in an object after
the loop had decided to forget it.

A handshake has a command. `CheckTofu` has the three ways the handler takes when the
session is bound to no token it knows of: it refuses if the session is not pending,
it activates if the command is to connect, and for any other value of the open enum
(`AnyCommand`; cancel has its own step) it goes on without activating, to an
AuthorizeConnection that carries no token.

A connection's id is its own, and a client tries once; `Sess` bounds how often an
object is made anew. The two reads of the token and the read of the status in the
handler's check are one step: a value that changes in between only makes the
handler give up or the controller refuse.

### VaultTokens

One credential store. The database: `store` (live, soft deleted, gone), `version`,
`library`, `token` and `cred` with the statuses of the schema, `credToken`,
`session`, and `lapsed`, the tokens whose recorded expiry has passed. Vault:
`vaultToken` and `lease`, alive or dead; a token that dies takes its leases along.
The processes: `issue`, the loop of `Issue` (`IssueRead`, then `IssueGet` from
Vault and `IssuePut` into the database for each library); `update`, the two halves
of `UpdateCredentialStore`; `job`, a run of each job, which fetches a batch
(`Fetch`), calls Vault for one row (`RenewToken`, `RevokeToken`, `RenewCred`,
`RevokeCred`), writes the answer (`Record...`) and in a statement of its own what
follows for the credentials (`UpdateCredentialStatusByToken`). Answers are
Vault's: 403 for a dead token, 400 for a lease that is gone. `RowFails`,
`RunStops`, `IssueFails` and `IssueCrashes` end any of these between two steps;
`ahead` are tokens whose renewal Vault granted and nobody recorded. `late`,
`early` and `revokedBy` are history.

### WorkerAuth

One worker. `state` and `bundle` are its rows by key, `root` and `version` the two
root certificates, `own` and `certs` what the worker keeps on its disk. A rotation
of credentials is `rotateWorkerAuth` (new keys in memory only), in the controller
`loadNodeInformation`, `StoreBegins` and `StoreNodeInformationTx` (the trigger
`insert_worker_auth_authorized`: the previous row it sees is deleted, the current
one becomes previous; the unique key on worker and state refuses what a concurrent
transaction would make two of), and `StoreNewCreds`. `WorkerGivesUp` forgets the
new keys while the request may be carried out at any later time. `RotateRoots` is
`LoadVersion`, `loadRootCertificates` or `removeCertificateAuthority`, and
`storeRootCertificates`, which goes by the version. `Accept` is two steps under
two locks, and the maintenance is a snapshot followed by two disconnections
(`Connected`, `DisconnectMissingWorkers`, `DisconnectMissingUnmappedKeyIds`).

### OidcLogin

One auth method. `Callback` is the sequence of its transactions: `CallbackStart`
and `Exchange` (the identity provider, external, answers with any account and claims
on which every filter matches, does not, or cannot be evaluated), `upsertAccount`,
`ListManagedGroups` (fails if the filter of some group cannot be evaluated; an
absent claim is no match), the transaction of
`SetManagedGroupMemberships` as `GetTicket`, `CompareMemberships` (the version
updates, which lock the groups' rows) and `RedeemTicket` (deletions, insertions and
the oplog ticket; a ticket somebody else redeemed starts the transaction again with
the local variables as they are), `LookupUserWithLogin`, `AutoVivify`,
`CreateAuthToken`. A callback has failed when a step after `upsertAccount` returned
an error of its own; `Crash` stops it between any two. `TokenRequest` is the polling
client with `IssueAuthToken`; its answer may be lost. `ValidateToken` is the case in
which a token is deleted. Administrators create, change, associate and delete
everything a callback relies on; `SetUserAccounts` does both halves of its
transaction. `disturbed` and `gone` are history: rows were
changed, the account was deleted, by somebody else while the callback ran.

## 3. Runs

| Run | Question | Result |
|---|---|---|
| `store` | do all sequences of transactions keep the tables consistent and implement the life cycle; are canceled and expired sessions terminated, late credentials revoked? | yes; the termination unless a connection was reopened |
| `store_reopened` | is every ended session terminated (documentation)? | no: a late ConnectConnection reopens a connection for good |
| `races_safety` | with statements interleaved: is only the bound token told it owns the session, does nothing activate after an end it could see, is no answered cancel lost, are the transactions that update the session row first serialised? | yes |
| `races_finish` | does every transaction finish although locks are taken in both orders, also by two tickers over two sessions? | yes |
| `races_current` | is there one current row (comment in the schema)? | no, an activation and a cancel leave two |
| `sched` | one running row, one goroutine per controller, final statuses stable, the schedule moved only by a run that is still running; are runs resolved and jobs run again, whoever stops; is an interrupted execution canceled, even if jobs hang? | yes |
| `worker_safety` | does a client that asks to connect get past the check only with the bound token, and nobody to a connection before one is bound; is no live connection of a session that goes on cut because of a stale or made-up answer? | yes |
| `worker_liveness` | are ended sessions and those of an isolated worker cut; is a canceled session terminated although closes are lost? | yes; the first only at expiry for a connection stored in an object the manager gave up, the last unless a connection was reopened |
| `vault` | with Vault and the database changed in separate steps: is what is recorded as final dead in Vault and final for good, does the clean-up forget no living token, are tokens in use kept, is whatever is alive and unwanted still due for a job? | yes |
| `worker_auth` | do concurrent rotations leave a worker with rows that are accepted; does it survive a lost answer; do roots move one place at a time; is a deleted worker cut? | yes |
| `login` | overlapping logins, a polling client, the ticker and administrators: are users, memberships and tokens consistent, and does a callback nobody disturbs fail only with an error about its own login? | yes |
| `login_groups` | does SetManagedGroupMemberships set the groups that matched (comment)? | no, its second try removes groups the first one found in place |

The findings in `PROJECT.json` quote the sentence each violated run contradicts.
Two facts hold in SessionStore because its transactions do not overlap, and are
not properties of the code: a session has one current row, and no more connections
than its limit. Statement by statement the first fails (`races_current`), and
`SecondRowNeedsUnlocked` says what is left of it: a second current row needs an
activation or a deleted host, the two transactions that insert a state before they
lock the session row. So does the second, see below. `TerminatedAllClosed` is a
property of SessionStore only: an authorization that overlaps a termination may
commit after it.

Three more disagreements with comments are behaviours of the models and have no
run of their own; `hazards` in `PROJECT.json` has them at their lines. Two
authorizations that overlap exceed the connection limit. A request to run a job at
once that arrives during a run is overwritten when that run completes; what holds
is `OnlyLiveRunPostpones`, that no late report of an interrupted run does so. A
connection whose authorization is answered while the status loop forgets its
session is stored in an object nobody looks at and is proxied until the session
expires: that is the exception in `EndedSessionIsCut`.

The liveness properties of SessionRaces, Scheduler and WorkerProxy have the form
`[]<>~P`: the bad situation P does not last. That is the same as `P ~> ~P`, and
much cheaper to check.

## 4. Bounds

* `store`: one session (operations on different sessions touch different rows
  except in the ticker's and the deletion's batches, which the proofs cover for any
  number), three connections with a limit of two (so that a third request is
  refused), one worker, two tokens; `MaxVersion` 3 bounds repeated cancels.
* `races_safety`: one session that begins pending or active, two activations with
  different tokens, one of each other transaction; requests run once, the ticker
  repeats. `races_finish`: two sessions and two tickers, so that the rows of one
  statement are locked in either order, with an activation and a cancel.
* `sched`: two controllers and two runs are what one job can have at once (a
  running row and an interrupted execution); a run refused for lack of a free id
  is tried again later. Two stops (`MaxStops`) per behaviour. Every controller
  registers the job (`Everywhere`); the proofs cover other registrations and
  several jobs.
* `worker_safety`: two clients with different tokens, one of them with another
  command, two objects, so that one can be forgotten and made anew; behaviours
  in which the session expires and a grace period passes too are not followed
  further (`ExpiryOrGrace`, a state constraint), since after expiry nothing is
  authorized and every cut is justified (4.5 million states, about 2 minutes).
  `worker_liveness`: one client and a visitor, one object.
* `vault`: two tokens, so that one is replaced; one session with one credential;
  batches of one row, so that a run does not see everything that is due; two of the
  five jobs at a time (`MaxRunning`), since a race is between two of them or one
  and Issue, an update or a deletion; two failures, crashes or expiries
  (`MaxEvents`), after the second of which jobs run one at a time (the constraint
  `RaceBeforeSecondEvent`); two versions of the store.
* `worker_auth`: three keys, the least with which a late request and a new rotation
  overlap; two rotators; three versions of the roots, so that a rotation follows
  another or a reinitialization; one loss (`MaxMissed`), which is what
  `OneLossIsSurvived` is about, so that a request given up and the one awaited are
  under way at the same time; two connections (`MaxLinks`), so that the maintenance
  runs for one while Accept is between its two locks for the other; the rotators
  overlap only before the worker connects (the constraint `OneRotatorOnceLinked`),
  since one is enough to move the roots under credentials that are being stored.
* `login`: two callbacks with the state of one attempt, two accounts, three
  users, a group with two filters and one administrative operation between any two
  steps (`MaxChanges`). `login_groups` needs two groups and one callback: the
  administrative operation redeems the ticket.

`CHECK_DEADLOCK FALSE` stands in the configurations of `races_*`, `vault`,
`worker_auth` and `login*`: their requests run once, or their bounds are used up,
and then the system rests. Symmetry is used in runs without liveness.

## 5. Fairness

* SessionStore: the ticker and the two jobs run for ever (tickers.go, registered
  jobs); an open connection is closed in the end, by the worker, as an orphan or
  for a dead worker. That assumption is discharged, in part, by
  `worker_liveness`.
* SessionRaces: Postgres queues waiting transactions (strong fairness of a
  transaction's next statement) and detects deadlocks; tickers tick.
* Scheduler: `LoopFairness`, part of the specification, is only that the two loops
  of a running controller tick; `InterruptedIsCanceled` uses nothing else.
  `RunsAreResolved` and `JobsRunAgain` assume `JobFairness` in the property: jobs
  return, time passes and not all controllers stay down.
* WorkerProxy: `WorkerFairness` is that the status loop goes on, time passes and
  a proxy whose context is done ends. Calls may fail for ever. Only
  `CanceledIsTerminated` assumes `Reachable`, that a status call succeeds again and
  again (strong fairness) and that the ticker ticks.
* WorkerAuth: the maintenance runs on a timer and Accept is one function of a
  running controller, so both go on.

VaultTokens and OidcLogin have safety properties only. `AliveIsDue` is the part of
"revoked in the end" that the store is answerable for: a row that must go is one
the next run of its job selects; that jobs run again is `JobsRunAgain`, that Vault
answers nobody promises.

No property assumes that a call is delivered at once, in order or exactly once.

## 6. Proofs

All for every value of the constants that satisfies the named assumptions.

* `SessionStoreProofs`: `TypeCorrect`, `TerminationSafe`, `ReasonSafe`, `TofuSafe`,
  `RowsStayConsistent` from one inductive invariant `IInv`, the conjunction of the
  type invariant, the properties, `RowsConsistent` and `SerialRows`, the one
  current row that transactions which do not overlap give. `RowsConsistent` is what the
  others need of each other: the current row is the last state entered, connection
  rows belong to stored sessions, a current closed state has a row, only a session
  that was handed out has an activation under way. The proof has one step per action
  for the session rows and one for the connection rows.
* `SessionRefinementProofs`: `Refinement`, SessionStore implements
  SessionLifecycle. Each action is shown to be a named step of the life cycle or
  to change nothing it sees; a batch of the ticker is `End(S)`. The limit on admitted
  connections uses `FiniteSetTheorems` and `ConnAssumption` (`Conn` is finite).
* `SchedulerProofs`: `SingleRunningRow`, `SingleGoroutine`, `FinalStatusKept`,
  `SchedulerTypeCorrect`. The invariant adds `RunsBelong` (a run with a goroutine
  has a controller and a job): from the map agreeing with the goroutines follows
  that `LoadOrStore` refuses a second one. `LiveRunsPostpone` follows from the
  statuses alone: a completion updates a row that is still running.
* `WorkerProxyProofs`: `BoundTokenOnly`, `CutsAreJustified`, `WorkerTypeCorrect`.
  `Copies`: every copy of the token, however stale, is the bound one or missing,
  because a token is bound once, and an active session has one. `Held`: connections
  are stored only in objects their handlers have taken. `Known`: a session that some
  answer, report or object of the worker calls ended has ended, however old that
  knowledge is, because an end is final. `Replies`: answers under way have a
  session's state. `WorkerKeepsLifecycle`: for a session that starts as pending,
  every step of handlers, status loop and controller is a step of SessionLifecycle or
  changes nothing it sees (phase: `session`, holder: `tofu`, admitted: the
  connections with a row). `Rows`, which says that a handler is past
  AuthorizeConnection exactly when the row exists, shows that a connection is
  admitted once.
* `SessionRacesProofs`: `TokensAgree`, `LateActivationsFail`, `CancelsLast`,
  `LockedInsertsSerialise`, `TypeCorrect`, `ReasonsAreTerminations`,
  `CommittedRowsStay`, for any number of sessions and transactions. What a
  transaction has written is not visible to the others, so the invariant says for
  each place in its program what it holds and what its snapshot is still worth.
  `Holding`: it has updated or inserted nothing before its first statement and after
  its end. `Exclusive`: no two have the same session row or insert the same state
  row. `Inserted`: a state to be inserted is new when it is committed, and the rows it
  ends may precede it (`session_valid_state`). `Activation`: of the ends of a session
  committed before it began, an activation finds one among the rows it is to end and
  fails, or a termination has ended the canceling row meanwhile. `Cancellation`,
  `Termination`: the end that is answered is among the rows inserted or committed.
  `Serial`: as long as no activation and no deletion of a host has committed, who
  holds the session row sees and ends every current row. `CommittedRows`: a
  terminated row stays current, a canceling row is ended only by a termination, and
  a token is bound exactly if there is an active row. Each statement is shown to
  preserve what its own transaction holds and, once for all, what the others hold;
  only `Commit` changes rows. TLC checked the invariant with the constants of
  `races_safety` and `races_finish` before it was proved.
* `VaultTokensProofs`: `FinalStatusIsTrue`, `CleanupForgetsNothing`,
  `ActiveTokensAreKept`, `WhatIsAliveIsDue`, `FinalStaysFinal`, `TypeCorrect`. The
  jobs write without looking, so the invariant says what they know. `RenewalKnows`,
  `RevocationKnows`, `CredRunsKnow`: the row a run is about to mark as ended is dead
  in Vault, where nothing comes back to life, and a row fetched for revocation is
  never current again. `CleanupKnows` and `StoreAndTokens`: a soft deleted store has
  no token that is current or maintaining, so nothing alive hides behind a status
  the clean-up does not look at. `IssueKnows`, `LeaseNeedsToken`,
  `DetachedNotActive`: where leases are while Issue holds them. `RevokedUnused`: a
  revoked token has no active credential that was stored in time.
* `WorkerAuthProofs`: `RecordsStayValid`, `OneLossSurvived`,
  `RootsOnlyMoveForward`, `TypeCorrect`. `OneRowEach` is the unique key and the
  trigger together. `OwnKept` is the argument for one loss: the worker's key is
  current, or previous with the current one stored by the one late call there can be
  (`LateOnes`); `CallsBehind` says that every row a transaction may delete comes from
  a call that is over, so that the late call cannot be in front of it.
  `RotationsCurrent`: a rotation whose version is still the table's holds the table's
  next root.
* `OidcLoginProofs`: `OnlyDisturbedCallbacksFail`, `MembershipsAsMatched`,
  `ReplacementsAreRaces`, `AssociationsStayConsistent`, `HeldTokensIssued`,
  `TokensOnlyMoveForward`, `TypeCorrect`, all properties of the run. The invariant
  says what a callback's local variables still tell about the rows. `Evaluated`: a
  group with the version that was read has the filter that was evaluated.
  `LocksHeld`: between the version updates and the ticket nobody else has the
  groups. `Compared`: while the ticket can be redeemed, what was compared is what is
  stored, because every change of a membership redeems it or deletes the account.
  `Undisturbed`: what holds as long as nobody else changed a row; a callback then
  finds what it wrote itself, and the errors left are those of `Refused`. Each action is
  shown to preserve the part of its own callback and, once for all (`Bystander`), the
  parts of the others.

The type invariants of SessionStore, Scheduler, WorkerProxy, VaultTokens and
WorkerAuth, `RowsConsistent` and `TofuBoundByActivation` of SessionStore, and
`StatusForward` of OidcLogin are proved and therefore not repeated in a run; those of
SessionRaces and OidcLogin (whose type invariant holds the foreign keys) are checked
and proved.

Only model-checked: liveness (under fairness, out of the prover's reach) and the
violated runs. Every invariant and every action property of a passing run is proved.

## 7. What is left out of the modelled parts

* Row contents without a property: names, addresses, byte counters, encryption
  and key ids; list and read operations.
* WorkerProxy: several sessions (they share no state but the map), connection
  limits, Shutdown's `cleanupConnections(ignoreSessionState)`, deletion of the
  session row (an hour after termination at the earliest), connection changes in
  a status answer (the controller never fills them), activations that overlap
  (in SessionRaces). A proxied protocol is TCP.
* SessionRaces: connections are closed in one step, workers and jobs that close
  them are not processes, and session rows are not deleted. Two more effects of
  overlap are behaviours of the module that no run looks for: a connection whose
  authorization commits after its session was terminated, and a session with two
  current rows whose failing trigger rolls back the termination of all others.
* SessionStore: a credential that Vault issues after the session was terminated
  stays active until the session's row is deleted (`LateCredentialRevoked` says
  only that it is revoked in the end).
* VaultTokens: credentials without an expiry, which have no lease and which the view
  of the jobs leaves out (56/02), and leases that cannot be renewed: the renewal job
  does not consult `is_renewable`, and a 400 of Vault for such a lease would be
  recorded as its end. The resets of job schedules (a job that is due runs at any
  time anyway), client certificates, what a library reads. A run that is invoked
  while it runs: the guard `running.CAS(running.Load(), true)` (jobs.go:135) refuses
  nothing, and the scheduler starts one at a time. Several controllers: a job runs on
  one of them.
* WorkerAuth: the library that encrypts and signs (external); the activation-token
  way of registering; a worker that registers again after it was locked out; KMS
  workers. A root rotation deletes all certificate bundles by cascade; that the
  maintenance then drops connections of unmapped keys is in the model and no
  property forbids it.
* OidcLogin: creation and deletion of auth methods, the number of tries of DoTx,
  which is unbounded in the model, and tokens of other auth methods. Group rows that
  are deleted are not created again under their id. Errors before the account is
  stored are one refusal, errors of the database, the keys and the event log are
  `Crash`.
* Scheduler: the limit on runs per tick, which the controller sets to none
  (controller.go:369).

Hazards met while reading for which no property is stated:

* `scheduler.go:139` and `credential/vault/jobs.go:135`: `CAS(Load(), true)` refuses
  nothing; `Start` is called once and the scheduler runs a job once at a time.
* `worker_service.go:280`: a session whose row was deleted is answered as
  unspecified, and the worker cancels nothing; rows are deleted an hour after the end.
* `repository_connection.go:332`: one unknown connection fails a whole batch of
  closes; connection rows outlive the worker's objects until the session is deleted.
* `session/query.go:375`: a connection closed as an orphan while its answer is on its
  way is proxied although the controller counts it as closed, until its session ends.
* `credential/vault/jobs.go:739`: revoking a lease with a dead token is an error, so
  the row is tried at every run until a token job records the token's end.
* `repository_workerauth.go:620`: after a root rotation, keys without a worker id
  count as not authorized until they rotate.
* `service_token_request.go:87`: when the answer with the token is lost, later polls
  are answered as if the login was not finished.
* `repository_user.go:617`: SetUserAccounts associates before it dissociates, so that
  replacing a user's account by another one of the same auth method is refused.

## 8. Plan

Done: sections 2 to 6. Next, in this order:

1. The safety half of the liveness arguments as theorems: what stays true from the
   step that asks for an end to the step that brings it (a canceled connection stays
   canceled, an interrupted run stays interrupted, a late credential stays marked).
2. A composition of SessionStore and WorkerProxy with row deletion, two workers
   and worker shutdown; batches of closes that fail as a whole.
3. Grants as operators: `Allowed` of `perms/acl.go` against a reference definition
   over bounded grants.
4. Host plug-in synchronisation against updates and orphan deletion; destruction of
   data key versions against rewrapping.
