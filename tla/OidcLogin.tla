----------------------------- MODULE OidcLogin -----------------------------
(***************************************************************************)
(* Logging in with an OIDC auth method: the attempt a client starts, the   *)
(* callback that the browser makes, as a sequence of transactions on the   *)
(* account, its managed groups, its user and the auth token, and the       *)
(* client that polls for the token.  Several callbacks run at the same     *)
(* time, administrators change everything a callback relies on, and a      *)
(* callback may stop between any two of its transactions.                  *)
(***************************************************************************)
EXTENDS Naturals, FiniteSets

CONSTANTS
    Request,        \* login attempts, each with the id of its token
    Callback,       \* calls of Callback
    Account,        \* subjects of the identity provider, one account each
    User,
    Group,          \* managed groups of the auth method
    Filter,         \* filters a managed group may have
    MaxChanges,     \* bound: administrative operations
    Null

ASSUME LoginAssumption ==
    /\ MaxChanges \in Nat
    /\ Null \notin Request \union Callback \union Account \union User \union Filter

VARIABLES
    active,     \* the auth method is active
    config,     \* its configuration (ConfigHash)
    primary,    \* it is the primary auth method of its scope
    accounts,   \* the accounts that exist
    userOf,     \* account -> iam_user_id
    users,      \* the users that exist
    born,       \* the users that exist or existed
    filter,     \* group -> its filter, Null if there is no such group
    version,    \* group -> its version, 0 if it was never created
    ticket,     \* version of the oplog ticket of the managed groups
    member,     \* account -> the groups it is a member of
    token,      \* request -> status of the auth token with its id
    tokenOf,    \* request -> account of that token
    value,      \* request -> the callback that created that token
    overdue,    \* tokens whose expiration_time has passed
    attempt,    \* request -> not started, started, expired
    started,    \* request -> configuration when it was started
    held,       \* request -> token (by its callback) the client was given
    call,       \* callback -> its next step and its local variables
    disturbed,  \* history: rows were changed by others during the callback
    gone,       \* history: the account was deleted during the callback
    changes     \* administrative operations so far

method   == <<active, config, primary>>
accts    == <<accounts, userOf, users, born>>
groups   == <<filter, version, ticket, member>>
tokens   == <<token, tokenOf, value, overdue>>
rows     == <<method, accts, groups, tokens>>
client   == <<attempt, started, held>>
vars     == <<rows, client, call, disturbed, gone, changes>>

Running == {"exchange", "upsert", "list", "ticket", "groups", "redeem",
            "lookup", "vivify", "token"}

\* The variables of Callback and of the functions it calls.
Blank ==
    [at      |-> "idle",
     req     |-> Null,                   \* TokenRequestId of the state
     acct    |-> Null,
     claims  |-> {},                     \* filters that the claims match
     faulty  |-> {},                     \* filters that fail on the claims
     matched |-> [g \in Group |-> 0],    \* version when its filter matched, or 0
     want    |-> {},                     \* newMgPublicIds
     drop    |-> {},                     \* toDelete
     ticket  |-> 0,
     retried |-> FALSE,                  \* history: DoTx has tried again
     user    |-> Null]

Call ==
    [at : {"idle", "done", "failed"} \union Running,
     req : Request \union {Null}, acct : Account \union {Null},
     claims : SUBSET Filter, faulty : SUBSET Filter, matched : [Group -> Nat],
     want : SUBSET Group, drop : SUBSET Group, ticket : Nat,
     retried : BOOLEAN, user : User \union {Null}]

Assign(b, locals) == call' = [call EXCEPT ![b] = locals]

Goto(b, step) == Assign(b, [call[b] EXCEPT !.at = step])

\* Callback returns.  It has "failed" when the account was stored and a later
\* step returned an error of its own; it is "done" when it succeeded, when it was
\* refused before that, and when it stopped (Crash).
Return(b, how) == Assign(b, [Blank EXCEPT !.at = how])

\* The history: a step of callback b (of somebody else if b is Null) that
\* changes rows disturbs the callbacks that are running.
Observe(b) ==
    /\ disturbed' = [c \in Callback |->
            /\ call'[c].at \in Running
            /\ disturbed[c] \/ (c # b /\ rows' # rows)]
    /\ gone' = [c \in Callback |->
            /\ call'[c].at \in Running
            /\ gone[c] \/ call[c].acct \in accounts \ accounts']

-----------------------------------------------------------------------------
(* The client and the first part of the callback.                          *)

StartAuth(r) ==
    /\ attempt[r] = "new"
    /\ active
    /\ attempt' = [attempt EXCEPT ![r] = "started"]
    /\ started' = [started EXCEPT ![r] = config]
    /\ UNCHANGED <<rows, held, call, changes>>

AttemptExpires(r) ==
    /\ attempt[r] = "started"
    /\ attempt' = [attempt EXCEPT ![r] = "expired"]
    /\ UNCHANGED <<rows, started, held, call, changes>>

\* The provider from the cache has the configuration of the auth method that
\* was just read, so an old entry of the cache is never used.
Refuses(r) ==
    \/ started[r] # config /\ ~active
    \/ attempt[r] = "expired"

CallbackStart(b, r) ==
    /\ call[b].at = "idle"
    /\ attempt[r] # "new"
    /\ IF Refuses(r)
       THEN Return(b, "done")
       ELSE Assign(b, [call[b] EXCEPT !.at = "exchange", !.req = r])
    /\ UNCHANGED <<rows, client, changes>>

\* The identity provider answers with the claims of some account or refuses.
\* A filter matches the claims, does not (a claim that is absent included), or
\* cannot be evaluated on them, for example on a claim of another type.
Exchange(b) ==
    /\ call[b].at = "exchange"
    /\ \/ \E a \in Account, F \in SUBSET Filter : \E E \in SUBSET (Filter \ F) :
            Assign(b, [call[b] EXCEPT !.at = "upsert", !.acct = a, !.claims = F,
                                      !.faulty = E])
       \/ Return(b, "done")
    /\ UNCHANGED <<rows, client, changes>>

\* Mutant: the account is inserted without an on conflict clause.
upsertAccountInsertOnly(b) ==
    /\ call[b].at = "upsert"
    /\ accounts' = accounts \union {call[b].acct}
    /\ IF call[b].acct \in accounts THEN Return(b, "failed") ELSE Goto(b, "list")
    /\ UNCHANGED <<method, userOf, users, born, groups, tokens, client, changes>>

upsertAccount(b) ==
    /\ call[b].at = "upsert"
    /\ accounts' = accounts \union {call[b].acct}
    /\ Goto(b, "list")
    /\ UNCHANGED <<method, userOf, users, born, groups, tokens, client, changes>>

-----------------------------------------------------------------------------
(* SetManagedGroupMemberships.  Its transaction reads the ticket, checks   *)
(* and raises the versions of the groups that matched, which locks their   *)
(* rows, compares with the memberships, writes and redeems the ticket.     *)

Exists(g)  == filter[g] # Null
Matched(b) == {g \in Group : call[b].matched[g] # 0}
Locked(g)  == \E c \in Callback : call[c].at = "redeem" /\ g \in Matched(c)

\* The filter of some group cannot be evaluated on the claims of callback b.
FilterFails(b) == \E g \in Group : Exists(g) /\ filter[g] \in call[b].faulty

\* One filter that cannot be evaluated is enough for the callback to fail.
ListManagedGroups(b) ==
    LET match == {g \in Group : Exists(g) /\ filter[g] \in call[b].claims}
    IN  /\ call[b].at = "list"
        /\ \/ FilterFails(b) /\ Return(b, "failed")
           \/ /\ \A g \in Group : ~Exists(g)
              /\ Assign(b, [call[b] EXCEPT !.at = "lookup", !.faulty = {}])
           \/ /\ ~FilterFails(b) /\ \E g \in Group : Exists(g)
              /\ Assign(b, [call[b] EXCEPT
                    !.at = "ticket", !.faulty = {},
                    !.matched = [g \in Group |-> IF g \in match THEN version[g] ELSE 0],
                    !.want = match])
        /\ UNCHANGED <<rows, client, changes>>

GetTicket(b) ==
    /\ call[b].at = "ticket"
    /\ Assign(b, [call[b] EXCEPT !.at = "groups", !.ticket = ticket])
    /\ UNCHANGED <<rows, client, changes>>

\* The function returns and its variables are gone.
GroupsDone(b) ==
    Assign(b, [Blank EXCEPT !.at = "lookup", !.req = call[b].req,
                            !.acct = call[b].acct])

\* Mutant: the versions of the groups are not compared.
VersionsUnchecked(b) == \A g \in Matched(b) : Exists(g)

\* The filters that were evaluated are the ones the groups have now.
VersionsMatch(b) ==
    \A g \in Matched(b) : Exists(g) /\ version[g] = call[b].matched[g]

\* newMgPublicIds loses the groups the account is in already.  It is declared
\* outside the transaction: a second try starts with what the first left.
CompareMemberships(b) ==
    LET current  == member[call[b].acct]
        toDelete == current \ call[b].want
    IN  /\ call[b].at = "groups"
        /\ \A g \in Matched(b) : ~Locked(g)
        /\ \/ ~VersionsMatch(b) /\ Return(b, "failed")
           \/ /\ VersionsMatch(b)
              /\ Matched(b) = {} /\ toDelete = {}
              /\ GroupsDone(b)
           \/ /\ VersionsMatch(b)
              /\ Matched(b) # {} \/ toDelete # {}
              /\ Assign(b, [call[b] EXCEPT !.at = "redeem", !.drop = toDelete,
                                            !.want = @ \ current])
        /\ UNCHANGED <<rows, client, changes>>

\* The deletions and insertions, whose errors end the transaction, then the
\* ticket, whose error makes DoTx start again.
RowsAsExpected(b) ==
    /\ call[b].drop \subseteq member[call[b].acct]
    /\ call[b].want \intersect member[call[b].acct] = {}
    /\ call[b].want = {} \/ call[b].acct \in accounts

RedeemTicket(b) ==
    /\ call[b].at = "redeem"
    /\ \/ /\ ~RowsAsExpected(b)
          /\ Return(b, "failed")
          /\ UNCHANGED groups
       \/ /\ RowsAsExpected(b)
          /\ ticket # call[b].ticket
          /\ Assign(b, [call[b] EXCEPT !.at = "ticket", !.retried = TRUE])
          /\ UNCHANGED groups
       \/ /\ RowsAsExpected(b)
          /\ ticket = call[b].ticket
          /\ ticket' = ticket + 1
          /\ version' = [g \in Group |->
                IF g \in Matched(b) THEN version[g] + 1 ELSE version[g]]
          /\ member' = [member EXCEPT ![call[b].acct] =
                (@ \ call[b].drop) \union call[b].want]
          /\ GroupsDone(b)
          /\ UNCHANGED filter
    /\ UNCHANGED <<method, accts, tokens, client, changes>>

-----------------------------------------------------------------------------
(* The user of the account and the token.                                  *)

\* Mutant: the user is created without looking whether the account has one.
LookupUserWithLoginUnread(b) ==
    /\ call[b].at = "lookup"
    /\ IF call[b].acct \in accounts /\ primary
       THEN Goto(b, "vivify") ELSE Return(b, "failed")
    /\ UNCHANGED <<rows, client, changes>>

\* LookupUserWithLogin before its transaction: getUserWithAccount, then the
\* account and allowUserAutoVivify.
LookupUserWithLogin(b) ==
    LET a == call[b].acct
    IN  /\ call[b].at = "lookup"
        /\ CASE userOf[a] # Null ->
                    Assign(b, [call[b] EXCEPT !.at = "token", !.user = userOf[a]])
             [] userOf[a] = Null /\ (a \notin accounts \/ ~primary) ->
                    Return(b, "failed")
             [] OTHER -> Goto(b, "vivify")
        /\ UNCHANGED <<rows, client, changes>>

\* Its transaction creates a user and writes it into the account, whatever
\* user the account has by now.
AutoVivify(b) ==
    LET a == call[b].acct
    IN  /\ call[b].at = "vivify"
        /\ \/ \E u \in User \ born :
                /\ a \in accounts
                /\ users' = users \union {u}
                /\ born' = born \union {u}
                /\ userOf' = [userOf EXCEPT ![a] = u]
                /\ Assign(b, [call[b] EXCEPT !.at = "token", !.user = u])
           \/ /\ a \notin accounts
              /\ Return(b, "failed")
              /\ UNCHANGED <<users, born, userOf>>
        /\ UNCHANGED <<method, accounts, groups, tokens, client, changes>>

CreateAuthToken(b) ==
    LET a == call[b].acct
        r == call[b].req
    IN  /\ call[b].at = "token"
        /\ \/ /\ a \notin accounts \/ userOf[a] # call[b].user
              /\ Return(b, "failed")
              /\ UNCHANGED tokens
           \/ /\ a \in accounts /\ userOf[a] = call[b].user
              /\ token[r] # "none"          \* "not a unique request"
              /\ Return(b, "failed")
              /\ UNCHANGED tokens
           \/ /\ a \in accounts /\ userOf[a] = call[b].user
              /\ token[r] = "none"
              /\ token' = [token EXCEPT ![r] = "pending"]
              /\ tokenOf' = [tokenOf EXCEPT ![r] = a]
              /\ value' = [value EXCEPT ![r] = b]
              /\ overdue' = overdue \ {r}
              /\ Return(b, "done")
        /\ UNCHANGED <<method, accts, groups, client, changes>>

\* A callback may stop anywhere: its controller dies or the database fails.
Crash(b) ==
    /\ call[b].at \in Running
    /\ Return(b, "done")
    /\ UNCHANGED <<rows, client, changes>>

-----------------------------------------------------------------------------
(* Auth tokens.                                                            *)

\* TokenRequest with IssueAuthToken.  The check that last access is not after
\* expiration_time fails for a token that is overdue.  The answer may be lost.
TokenRequest(r) ==
    /\ attempt[r] = "started"
    /\ token[r] = "pending"
    /\ r \notin overdue
    /\ token' = [token EXCEPT ![r] = "issued"]
    /\ \/ held' = [held EXCEPT ![r] = value[r]]
       \/ UNCHANGED held
    /\ UNCHANGED <<method, accts, groups, tokenOf, value, overdue, attempt,
                   started, call, changes>>

TokenExpires(r) ==
    /\ token[r] # "none"
    /\ overdue' = overdue \union {r}
    /\ UNCHANGED <<method, accts, groups, token, tokenOf, value, client, call,
                   changes>>

\* Mutant: tokens are closed whatever their status is.
ClosableWhenOverdue == {r \in Request : token[r] # "none" /\ r \in overdue}

Closable == {r \in Request : token[r] = "pending" /\ r \in overdue}

CloseExpiredPendingTokens ==
    /\ Closable # {}
    /\ token' = [r \in Request |-> IF r \in Closable THEN "failed" ELSE token[r]]
    /\ UNCHANGED <<method, accts, groups, tokenOf, value, overdue, client,
                   call, changes>>

RemoveTokens(R) ==
    /\ token' = [r \in Request |-> IF r \in R THEN "none" ELSE token[r]]
    /\ tokenOf' = [r \in Request |-> IF r \in R THEN Null ELSE tokenOf[r]]
    /\ value' = [r \in Request |-> IF r \in R THEN Null ELSE value[r]]
    /\ overdue' = overdue \ R

\* A token that is presented when it has expired, or was not used for too
\* long, which may be at any time, is deleted.
ValidateToken(r) ==
    /\ token[r] # "none"
    /\ RemoveTokens({r})
    /\ UNCHANGED <<method, accts, groups, client, call, changes>>

DeleteAuthToken(r) ==
    /\ token[r] # "none"
    /\ RemoveTokens({r})
    /\ UNCHANGED <<method, accts, groups, client, call>>

-----------------------------------------------------------------------------
(* Administrators.                                                         *)

UpdateAuthMethod ==
    /\ config' = config + 1
    /\ UNCHANGED <<active, primary, accts, groups, tokens, client, call>>

transitionAuthMethodTo ==
    /\ active' = ~active
    /\ UNCHANGED <<config, primary, accts, groups, tokens, client, call>>

SetPrimaryAuthMethod ==
    /\ primary' = ~primary
    /\ UNCHANGED <<active, config, accts, groups, tokens, client, call>>

CreateUser ==
    /\ \E u \in User \ born :
        /\ users' = users \union {u}
        /\ born' = born \union {u}
    /\ UNCHANGED <<method, accounts, userOf, groups, tokens, client, call>>

DeleteUser(u) ==
    /\ u \in users
    /\ users' = users \ {u}
    /\ userOf' = [a \in Account |-> IF userOf[a] = u THEN Null ELSE userOf[a]]
    /\ UNCHANGED <<method, accounts, born, groups, tokens, client, call>>

\* The update is conditional on the account's user, and a user has one
\* account of an auth method.
MayAssociate(u, a) ==
    /\ u \in users /\ a \in accounts
    /\ userOf[a] \in {Null, u}
    /\ \A other \in Account \ {a} : userOf[other] # u

\* AddUserAccounts with an account.
associateUserWithAccounts(u, a) ==
    /\ MayAssociate(u, a)
    /\ userOf' = [userOf EXCEPT ![a] = u]
    /\ UNCHANGED <<method, accounts, users, born, groups, tokens, client, call>>

\* DeleteUserAccounts with an account.
dissociateUserFromAccounts(u, a) ==
    /\ u \in users /\ a \in accounts
    /\ userOf[a] = u
    /\ userOf' = [userOf EXCEPT ![a] = Null]
    /\ UNCHANGED <<method, accounts, users, born, groups, tokens, client, call>>

\* The accounts of user u become A in one transaction that associates before it
\* dissociates.  The unique (auth_method_id, iam_user_id) is compared with every
\* row that is written, so at most one account is associated, and only if the
\* user has none: an account is not exchanged for another in one call.
SetUserAccounts(u, A) ==
    LET current       == {a \in Account : userOf[a] = u}
        associate     == A \ current
        disassociate  == current \ A
    IN  /\ u \in users
        /\ associate # {} \/ disassociate # {}
        /\ \A a \in associate : MayAssociate(u, a)
        /\ \A a, b \in associate : a = b
        /\ userOf' = [a \in Account |-> IF a \in associate THEN u
                                      ELSE IF a \in disassociate THEN Null
                                      ELSE userOf[a]]
        /\ UNCHANGED <<method, accounts, users, born, groups, tokens, client, call>>

\* Mutant: the link to the user stays.
DeleteAccountKeepsUser(a) ==
    /\ a \in accounts
    /\ accounts' = accounts \ {a}
    /\ member' = [member EXCEPT ![a] = {}]
    /\ RemoveTokens({r \in Request : tokenOf[r] = a})
    /\ UNCHANGED <<method, userOf, users, born, filter, version, ticket, client,
                   call>>

\* Its user link, memberships and tokens go with the account.
DeleteAccount(a) ==
    /\ a \in accounts
    /\ accounts' = accounts \ {a}
    /\ userOf' = [userOf EXCEPT ![a] = Null]
    /\ member' = [member EXCEPT ![a] = {}]
    /\ RemoveTokens({r \in Request : tokenOf[r] = a})
    /\ UNCHANGED <<method, users, born, filter, version, ticket, client, call>>

CreateManagedGroup(g, f) ==
    /\ version[g] = 0
    /\ filter' = [filter EXCEPT ![g] = f]
    /\ version' = [version EXCEPT ![g] = 1]
    /\ ticket' = ticket + 1
    /\ UNCHANGED <<method, accts, member, tokens, client, call>>

UpdateManagedGroup(g, f) ==
    /\ Exists(g) /\ ~Locked(g)
    /\ filter' = [filter EXCEPT ![g] = f]
    /\ version' = [version EXCEPT ![g] = @ + 1]
    /\ ticket' = ticket + 1
    /\ UNCHANGED <<method, accts, member, tokens, client, call>>

\* Mutant: the memberships stay.
DeleteManagedGroupKeepsMembers(g) ==
    /\ Exists(g) /\ ~Locked(g)
    /\ filter' = [filter EXCEPT ![g] = Null]
    /\ ticket' = ticket + 1
    /\ UNCHANGED <<method, accts, version, member, tokens, client, call>>

DeleteManagedGroup(g) ==
    /\ Exists(g) /\ ~Locked(g)
    /\ filter' = [filter EXCEPT ![g] = Null]
    /\ member' = [a \in Account |-> member[a] \ {g}]
    /\ ticket' = ticket + 1
    /\ UNCHANGED <<method, accts, version, tokens, client, call>>

-----------------------------------------------------------------------------

\* The user of an account exists, and no two accounts of the auth method have
\* the same user, whatever logins and administrators do to them.
AssociationsConsistent ==
    /\ \A a \in Account : userOf[a] # Null => a \in accounts /\ userOf[a] \in users
    /\ \A a, b \in Account : userOf[a] # Null /\ userOf[a] = userOf[b] => a = b

\* Some accounts, users and managed groups exist, from earlier logins.
Init ==
    /\ active = TRUE /\ config = 1 /\ primary = TRUE
    /\ accounts \in SUBSET Account
    /\ userOf \in [Account -> User \union {Null}]
    /\ \A a \in Account : userOf[a] # Null <=> a \in accounts
    /\ users = {userOf[a] : a \in Account} \ {Null}
    /\ AssociationsConsistent
    /\ born = users
    /\ filter \in [Group -> Filter \union {Null}]
    /\ version = [g \in Group |-> IF filter[g] = Null THEN 0 ELSE 1]
    /\ ticket = 1
    /\ member \in [Account -> SUBSET {g \in Group : Exists(g)}]
    /\ \A a \in Account : member[a] # {} => a \in accounts
    /\ token = [r \in Request |-> "none"]
    /\ tokenOf = [r \in Request |-> Null]
    /\ value = [r \in Request |-> Null]
    /\ overdue = {}
    /\ attempt = [r \in Request |-> "new"]
    /\ started = [r \in Request |-> 0]
    /\ held = [r \in Request |-> Null]
    /\ call = [b \in Callback |-> Blank]
    /\ disturbed = [b \in Callback |-> FALSE]
    /\ gone = [b \in Callback |-> FALSE]
    /\ changes = 0

CallbackStep(b) ==
    \/ \E r \in Request : CallbackStart(b, r)
    \/ Exchange(b) \/ upsertAccount(b)
    \/ ListManagedGroups(b) \/ GetTicket(b) \/ CompareMemberships(b)
    \/ RedeemTicket(b)
    \/ LookupUserWithLogin(b) \/ AutoVivify(b) \/ CreateAuthToken(b)
    \/ Crash(b)

TokenStep(r) ==
    \/ StartAuth(r) \/ AttemptExpires(r) \/ TokenRequest(r)
    \/ TokenExpires(r) \/ ValidateToken(r)

Administer ==
    \/ \E r \in Request : DeleteAuthToken(r)
    \/ UpdateAuthMethod \/ transitionAuthMethodTo \/ SetPrimaryAuthMethod
    \/ CreateUser
    \/ \E u \in User : DeleteUser(u)
    \/ \E u \in User, a \in Account :
        associateUserWithAccounts(u, a) \/ dissociateUserFromAccounts(u, a)
    \/ \E u \in User, A \in SUBSET Account : SetUserAccounts(u, A)
    \/ \E a \in Account : DeleteAccount(a)
    \/ \E g \in Group :
        \/ \E f \in Filter : CreateManagedGroup(g, f) \/ UpdateManagedGroup(g, f)
        \/ DeleteManagedGroup(g)

Next ==
    \/ \E b \in Callback : CallbackStep(b) /\ Observe(b)
    \/ \E r \in Request : TokenStep(r) /\ Observe(Null)
    \/ CloseExpiredPendingTokens /\ Observe(Null)
    \/ Administer /\ changes < MaxChanges /\ changes' = changes + 1 /\ Observe(Null)

Spec == Init /\ [][Next]_vars

-----------------------------------------------------------------------------
(* Properties.                                                             *)

\* The types of the variables, with the foreign keys of auth_token and of
\* auth_oidc_managed_group_member_account.
TypeOK ==
    /\ active \in BOOLEAN /\ config \in Nat /\ primary \in BOOLEAN
    /\ accounts \subseteq Account
    /\ users \subseteq born /\ born \subseteq User
    /\ userOf \in [Account -> User \union {Null}]
    /\ filter \in [Group -> Filter \union {Null}]
    /\ version \in [Group -> Nat]
    /\ ticket \in Nat
    /\ member \in [Account -> SUBSET {g \in Group : Exists(g)}]
    /\ token \in [Request -> {"none", "pending", "issued", "failed"}]
    /\ tokenOf \in [Request -> accounts \union {Null}]
    /\ value \in [Request -> Callback \union {Null}]
    /\ overdue \subseteq Request
    /\ attempt \in [Request -> {"new", "started", "expired"}]
    /\ started \in [Request -> Nat]
    /\ held \in [Request -> Callback \union {Null}]
    /\ call \in [Callback -> Call]
    /\ disturbed \in [Callback -> BOOLEAN]
    /\ gone \in [Callback -> BOOLEAN]
    /\ changes \in Nat

\* ValidateToken compares the value and not the status of a token.  That is
\* enough: a client that holds the value of a stored token was given it by
\* IssueAuthToken, and closing expired tokens has left it issued.
HeldIsIssued ==
    \A r \in Request :
        token[r] # "none" /\ held[r] = value[r] => token[r] = "issued"

\* A token that was closed is never issued and one that was issued is never
\* closed, although the ticker and the polling client race each other.
StatusForward ==
    [][\A r \in Request :
        token[r] \in {"issued", "failed"} => token'[r] \in {token[r], "none"}]_vars

\* The errors of a callback that are about the login itself: a filter cannot be
\* evaluated on the claims, the account has no user and the auth method may not
\* create one, the request has its token already.
Refused(b) ==
    \/ call[b].at = "list" /\ FilterFails(b)
    \/ call[b].at = "lookup" /\ userOf[call[b].acct] = Null /\ ~primary
    \/ call[b].at = "token" /\ token[call[b].req] # "none"

\* service_callback.go:78-86: callbacks that stopped half way leave rows that do
\* not hamper later ones.  A callback for which nobody changes a row while it is
\* running fails only with an error about the login itself, never because of an
\* account, a user, a membership, a version or a ticket it finds.
OnlyDisturbedFails ==
    [][\A b \in Callback :
        call[b].at # "failed" /\ call'[b].at = "failed"
        => disturbed[b] \/ Refused(b)]_vars

\* The account of callback b, unless it was deleted meanwhile, is now in the
\* groups that matched and in no others, and the claims match the filters these
\* groups have now.  A group that did not match may have got another filter.
GroupsSet(b) ==
    ~gone[b] =>
        /\ member'[call[b].acct] = Matched(b)
        /\ \A g \in Matched(b) : filter[g] \in call[b].claims

\* When SetManagedGroupMemberships succeeds at its first try, the account is in
\* exactly the groups that matched when they were listed, and each of them still
\* has the filter that was evaluated, whatever was changed in between.
GroupsAsMatched ==
    [][\A b \in Callback :
        /\ call[b].at \in {"groups", "redeem"} /\ call'[b].at = "lookup"
        /\ ~call[b].retried
        => GroupsSet(b)]_vars

\* The user of an account is replaced by another one only by a login that ran
\* while the first user was associated, never by AddUserAccounts.
ReplacedOnlyByRacingLogin ==
    [][\A a \in Account :
        userOf[a] # Null /\ userOf'[a] \notin {Null, userOf[a]}
        => \E b \in Callback :
            /\ call[b].acct = a /\ disturbed[b]
            /\ call[b].at = "vivify" /\ call'[b].at = "token"]_vars

\* SetManagedGroupMemberships sets the account's groups to the ones that
\* matched, as its comment says (repository_managed_group_members.go:16).
DocMembershipsSet ==
    [][\A b \in Callback :
        call[b].at \in {"groups", "redeem"} /\ call'[b].at = "lookup"
        => GroupsSet(b)]_vars

=============================================================================
