-------------------------- MODULE OidcLoginProofs --------------------------
(***************************************************************************)
(* Proofs about OidcLogin, for any number of callbacks, accounts, users,   *)
(* managed groups and administrative operations.  The invariant says what  *)
(* the local variables of a callback still tell about the rows, depending  *)
(* on who changed them meanwhile.                                          *)
(***************************************************************************)
EXTENDS OidcLogin, TLAPS

InGroups == {"ticket", "groups", "redeem"}

\* What a callback has found out by the step it is at.
Known(b) ==
    /\ call[b].at \in Running => call[b].req \in Request
    /\ call[b].at \in Running \ {"exchange"} => call[b].acct \in Account
    /\ call[b].at = "token" => call[b].user \in User
    /\ call[b].at \in InGroups => call[b].want \subseteq Matched(b)

\* A transaction that is about to redeem its ticket holds the rows of its
\* groups: they are as it read them and nobody else's.
LocksHeld ==
    /\ \A b \in Callback : call[b].at = "redeem" => VersionsMatch(b)
    /\ \A b, c \in Callback :
        b # c /\ call[b].at = "redeem" /\ call[c].at = "redeem"
        => Matched(b) \intersect Matched(c) = {}

\* A group that exists has a version.
Versioned == \A g \in Group : Exists(g) => version[g] # 0

\* As long as a group has the version that was read, it has the filter that
\* was evaluated.
Evaluated(b) ==
    call[b].at \in InGroups =>
        \A g \in Matched(b) :
            /\ call[b].matched[g] <= version[g]
            /\ Exists(g) /\ version[g] = call[b].matched[g]
               => filter[g] \in call[b].claims

\* While a ticket can be redeemed, what was compared is what is stored.
Compared(b) ==
    /\ call[b].at \in {"groups", "redeem"} => call[b].ticket <= ticket
    /\ call[b].at \in {"ticket", "groups"} /\ ~call[b].retried
       => call[b].want = Matched(b)
    /\ /\ call[b].at = "redeem" /\ ~call[b].retried /\ ~gone[b]
       /\ call[b].ticket = ticket
       => /\ call[b].drop = member[call[b].acct] \ Matched(b)
          /\ call[b].want = Matched(b) \ member[call[b].acct]

\* What a callback that nobody disturbed can rely on.
Undisturbed(b) ==
    ~disturbed[b] =>
        /\ call[b].at \in Running \ {"exchange", "upsert"}
           => call[b].acct \in accounts
        /\ call[b].at \in InGroups => VersionsMatch(b)
        /\ call[b].at \in {"groups", "redeem"} => call[b].ticket = ticket
        /\ call[b].at = "redeem" => RowsAsExpected(b)
        /\ call[b].at = "vivify" => userOf[call[b].acct] = Null
        /\ call[b].at = "token" => userOf[call[b].acct] = call[b].user

\* The callback that created a token has returned, and every token has one.
Issuers ==
    \A r \in Request :
        /\ token[r] # "none" => value[r] # Null
        /\ \A b \in {value[r], held[r]} : b # Null => call[b].at = "done"

\* What is true of each callback.
Own(b) == Known(b) /\ Evaluated(b) /\ Compared(b) /\ Undisturbed(b)

IInv ==
    /\ TypeOK
    /\ \A b \in Callback : Own(b)
    /\ LocksHeld /\ Versioned
    /\ AssociationsConsistent
    /\ Issuers /\ HeldIsIssued

-----------------------------------------------------------------------------
(* What a step does to the rows and to the other callbacks. *)

\* Steps that are not a callback's.
OtherStep ==
    \/ \E r \in Request : TokenStep(r)
    \/ CloseExpiredPendingTokens
    \/ Administer

\* A step of callback b, or of somebody else if b is Null: versions and the
\* ticket go up with what they protect, and locked rows stay.
GroupStep(b) ==
    /\ \A g \in Group :
        /\ version[g] <= version'[g]
        /\ version'[g] = version[g] => filter'[g] \in {filter[g], Null}
    /\ \A c \in Callback \ {b} : call[c].at = "redeem" =>
        \A g \in Matched(c) : version'[g] = version[g] /\ filter'[g] = filter[g]
    /\ ticket <= ticket'
    /\ \A a \in Account :
        ticket' = ticket => member'[a] = member[a] \/ a \in accounts \ accounts'

\* The versions of RedeemTicket are raised for groups that only it has locked.
LEMMA CallbackGroups ==
    ASSUME TypeOK, LocksHeld, NEW b \in Callback, Known(b), CallbackStep(b)
    PROVE  GroupStep(b)
<1>1. CASE UNCHANGED groups
  BY <1>1 DEF GroupStep, TypeOK, groups, Matched
<1>2. CASE RedeemTicket(b) /\ ~UNCHANGED groups
  <2>1. /\ call[b].at = "redeem"
        /\ ticket' = ticket + 1
        /\ version' = [g \in Group |->
                IF g \in Matched(b) THEN version[g] + 1 ELSE version[g]]
        /\ filter' = filter
    BY <1>2 DEF RedeemTicket, groups
  <2>2. \A c \in Callback \ {b} : call[c].at = "redeem" =>
            \A g \in Matched(c) : g \notin Matched(b)
    BY <2>1 DEF LocksHeld
  <2>3. ticket \in Nat /\ version \in [Group -> Nat]
    BY DEF TypeOK
  <2>4. \A c \in Callback : Matched(c) \subseteq Group
    BY DEF Matched
  <2>5. ticket <= ticket' /\ ticket' # ticket
    BY <2>1, <2>3
  <2>6. \A g \in Group : version[g] <= version'[g]
    BY <2>1, <2>3
  <2>7. \A c \in Callback \ {b} : call[c].at = "redeem" =>
            \A g \in Matched(c) : version'[g] = version[g]
    BY <2>1, <2>2, <2>4
  <2>. QED
    BY <2>1, <2>5, <2>6, <2>7 DEF GroupStep
<1>. QED
  BY <1>1, <1>2, ZenonT(40) DEF CallbackStep, CallbackStart, Exchange, upsertAccount,
     ListManagedGroups, GetTicket, CompareMemberships, LookupUserWithLogin,
     AutoVivify, CreateAuthToken, Crash, rows, groups

LEMMA OtherGroups ==
    ASSUME TypeOK, LocksHeld, OtherStep
    PROVE  GroupStep(Null)
<1>. /\ ticket \in Nat /\ version \in [Group -> Nat]
     /\ filter \in [Group -> Filter \union {Null}]
     /\ member \in [Account -> SUBSET Group]
  BY DEF TypeOK
<1>. \A c \in Callback : call[c].at = "redeem" =>
        \A g \in Matched(c) : g \in Group /\ version[g] # 0 /\ Locked(g)
  BY DEF LocksHeld, VersionsMatch, Matched, Locked
<1>1. CASE UNCHANGED groups
  BY <1>1 DEF GroupStep, groups
<1>2. ASSUME NEW a \in Account, DeleteAccount(a) PROVE GroupStep(Null)
  BY <1>2 DEF GroupStep, DeleteAccount
<1>3. ASSUME NEW g \in Group, NEW f \in Filter, CreateManagedGroup(g, f)
      PROVE  GroupStep(Null)
  BY <1>3 DEF GroupStep, CreateManagedGroup
<1>4. ASSUME NEW g \in Group, NEW f \in Filter, UpdateManagedGroup(g, f)
      PROVE  GroupStep(Null)
  BY <1>4 DEF GroupStep, UpdateManagedGroup
<1>5. ASSUME NEW g \in Group, DeleteManagedGroup(g) PROVE GroupStep(Null)
  BY <1>5 DEF GroupStep, DeleteManagedGroup
<1>. QED
  BY <1>1, <1>2, <1>3, <1>4, <1>5 DEF OtherStep, TokenStep, StartAuth,
     AttemptExpires, TokenRequest, TokenExpires, ValidateToken,
     CloseExpiredPendingTokens, Administer, DeleteAuthToken, UpdateAuthMethod,
     transitionAuthMethodTo, SetPrimaryAuthMethod, CreateUser, DeleteUser,
     associateUserWithAccounts, dissociateUserFromAccounts, SetUserAccounts, rows,
     groups

\* Assign replaces the record of one callback.
LEMMA AssignType ==
    ASSUME TypeOK, NEW b \in Callback, NEW c \in Call, Assign(b, c)
    PROVE  /\ call' \in [Callback -> Call]
           /\ call'[b] = c
           /\ \A d \in Callback \ {b} : call'[d] = call[d]
  BY DEF TypeOK, Assign

LEMMA ReturnType ==
    ASSUME TypeOK, NEW b \in Callback, NEW how \in {"done", "failed"},
           Return(b, how)
    PROVE  /\ call' \in [Callback -> Call]
           /\ call'[b].at = how
           /\ \A c \in Callback \ {b} : call'[c] = call[c]
<1>1. [Blank EXCEPT !.at = how] \in Call /\ [Blank EXCEPT !.at = how].at = how
  BY DEF Blank, Call
<1>. QED
  BY <1>1, AssignType DEF Return

LEMMA GotoType ==
    ASSUME TypeOK, NEW b \in Callback, NEW step \in Running, Goto(b, step)
    PROVE  /\ call' \in [Callback -> Call]
           /\ call'[b] = [call[b] EXCEPT !.at = step]
           /\ \A c \in Callback \ {b} : call'[c] = call[c]
<1>0. call[b] \in Call
  BY DEF TypeOK
<1>1. [call[b] EXCEPT !.at = step] \in Call
  BY <1>0 DEF Call
<1>. QED
  BY <1>1, AssignType DEF Goto

LEMMA GroupsDoneType ==
    ASSUME TypeOK, NEW b \in Callback, GroupsDone(b)
    PROVE  /\ call' \in [Callback -> Call]
           /\ call'[b].at = "lookup" /\ call'[b].req = call[b].req
           /\ call'[b].acct = call[b].acct
           /\ \A c \in Callback \ {b} : call'[c] = call[c]
<1>. DEFINE new == [Blank EXCEPT !.at = "lookup", !.req = call[b].req,
                                 !.acct = call[b].acct]
<1>1. /\ new \in Call
      /\ new.at = "lookup" /\ new.req = call[b].req /\ new.acct = call[b].acct
  BY DEF TypeOK, Blank, Call, Running
<1>. HIDE DEF new
<1>2. Assign(b, new)
  BY DEF GroupsDone, new
<1>. QED
  BY <1>1, <1>2, AssignType

-----------------------------------------------------------------------------
(* What a callback knows after each of its own steps. *)

\* The callback keeps what it knows, and the other callbacks' variables.
Keeps(b) ==
    /\ call' \in [Callback -> Call]
    /\ \A c \in Callback \ {b} : call'[c] = call[c]
    /\ Own(b)'

LEMMA ReturnKeeps ==
    ASSUME TypeOK, NEW b \in Callback, NEW how \in {"done", "failed"},
           Return(b, how)
    PROVE  Keeps(b) /\ call'[b].at = how
<1>1. /\ call' \in [Callback -> Call] /\ call'[b].at = how
      /\ \A c \in Callback \ {b} : call'[c] = call[c]
  BY ReturnType
<1>. QED
  BY <1>1 DEF Keeps, Own, Known, Evaluated, Compared, Undisturbed, Running,
     InGroups

\* Own steps leave the history of the callback as it is.
LEMMA HistoryKept ==
    ASSUME NEW b \in Callback, Observe(b), call'[b].at \in Running
    PROVE  /\ ~disturbed'[b] => ~disturbed[b]
           /\ ~gone'[b] => ~gone[b]
  BY DEF Observe

LEMMA CallbackStartKeeps ==
    ASSUME TypeOK, NEW b \in Callback, NEW r \in Request, CallbackStart(b, r)
    PROVE  Keeps(b)
<1>1. CASE Return(b, "done")
  BY <1>1, ReturnKeeps
<1>. DEFINE new == [call[b] EXCEPT !.at = "exchange", !.req = r]
<1>2. CASE Assign(b, new)
  <2>1. call[b] \in Call
    BY DEF TypeOK
  <2>2. new \in Call /\ new.at = "exchange" /\ new.req = r
    BY <2>1 DEF Call, Running
  <2>. HIDE DEF new
  <2>3. /\ call' \in [Callback -> Call] /\ call'[b] = new
        /\ \A c \in Callback \ {b} : call'[c] = call[c]
    BY <1>2, <2>2, AssignType
  <2>. QED
    BY <2>2, <2>3 DEF Keeps, Own, Known, Evaluated, Compared, Undisturbed, Running,
       InGroups
<1>. QED
  BY <1>1, <1>2 DEF CallbackStart

LEMMA ExchangeKeeps ==
    ASSUME TypeOK, NEW b \in Callback, Own(b), Exchange(b)
    PROVE  Keeps(b)
<1>1. CASE Return(b, "done")
  BY <1>1, ReturnKeeps
<1>2. ASSUME NEW a \in Account, NEW F \in SUBSET Filter,
             NEW E \in SUBSET (Filter \ F),
             Assign(b, [call[b] EXCEPT !.at = "upsert", !.acct = a, !.claims = F,
                                       !.faulty = E])
      PROVE  Keeps(b)
  <2>. DEFINE new == [call[b] EXCEPT !.at = "upsert", !.acct = a, !.claims = F,
                                     !.faulty = E]
  <2>1. call[b] \in Call
    BY DEF TypeOK
  <2>2. new \in Call /\ new.at = "upsert" /\ new.acct = a /\ new.req = call[b].req
    BY <2>1 DEF Call, Running
  <2>. HIDE DEF new
  <2>3. /\ call' \in [Callback -> Call] /\ call'[b] = new
        /\ \A c \in Callback \ {b} : call'[c] = call[c]
    BY <1>2, <2>2, AssignType DEF new
  <2>4. call[b].req \in Request
    BY DEF Exchange, Own, Known, Running
  <2>. QED
    BY <2>2, <2>3, <2>4 DEF Keeps, Own, Known, Evaluated, Compared, Undisturbed,
       Running, InGroups
<1>. QED
  BY <1>1, <1>2 DEF Exchange

LEMMA GotoKeeps ==
    ASSUME TypeOK, NEW b \in Callback, Own(b), call[b].at \in Running \ {"exchange"},
           NEW step \in {"list", "lookup", "vivify"}, Goto(b, step),
           call[b].acct \in accounts' \/ disturbed'[b],
           step = "vivify" => userOf'[call[b].acct] = Null
    PROVE  Keeps(b)
<1>0. call[b] \in Call
  BY DEF TypeOK
<1>1. /\ call' \in [Callback -> Call]
      /\ call'[b] = [call[b] EXCEPT !.at = step]
      /\ \A c \in Callback \ {b} : call'[c] = call[c]
  BY GotoType DEF Running
<1>2. /\ call'[b].at = step /\ call'[b].req = call[b].req
      /\ call'[b].acct = call[b].acct
  BY <1>0, <1>1 DEF Call
<1>3. call[b].req \in Request /\ call[b].acct \in Account
  BY DEF Own, Known
<1>4. Known(b)'
  BY <1>2, <1>3 DEF Known, InGroups
<1>5. Evaluated(b)' /\ Compared(b)'
  BY <1>2 DEF Evaluated, Compared, InGroups
<1>6. Undisturbed(b)'
  BY <1>2 DEF Undisturbed, InGroups
<1>. QED
  BY <1>1, <1>4, <1>5, <1>6 DEF Keeps, Own

LEMMA upsertAccountKeeps ==
    ASSUME TypeOK, NEW b \in Callback, Own(b), upsertAccount(b)
    PROVE  Keeps(b)
  BY GotoKeeps DEF upsertAccount, Running

LEMMA ListManagedGroupsKeeps ==
    ASSUME TypeOK, Versioned, NEW b \in Callback, Own(b), ListManagedGroups(b),
           Observe(b)
    PROVE  Keeps(b)
<1>. DEFINE match == {g \in Group : Exists(g) /\ filter[g] \in call[b].claims}
            mv == [g \in Group |-> IF g \in match THEN version[g] ELSE 0]
            new == [call[b] EXCEPT !.at = "ticket", !.faulty = {}, !.matched = mv,
                                   !.want = match]
            skip == [call[b] EXCEPT !.at = "lookup", !.faulty = {}]
<1>0. call[b] \in Call /\ version \in [Group -> Nat]
  BY DEF TypeOK
<1>1. call[b].at = "list" /\ UNCHANGED rows
  BY DEF ListManagedGroups
<1>2. CASE Assign(b, skip)
  <2>1. /\ skip \in Call /\ skip.at = "lookup" /\ skip.acct = call[b].acct
        /\ skip.req = call[b].req
    BY <1>0 DEF Call, Running
  <2>. HIDE DEF skip
  <2>2. /\ call' \in [Callback -> Call] /\ call'[b] = skip
        /\ \A c \in Callback \ {b} : call'[c] = call[c]
    BY <1>2, <2>1, AssignType
  <2>3. ~disturbed'[b] => ~disturbed[b]
    BY <2>1, <2>2, HistoryKept DEF Running
  <2>4. call[b].acct \in accounts' \/ disturbed'[b]
    BY <1>1, <2>3 DEF Own, Undisturbed, Running, rows, accts
  <2>5. Known(b)'
    BY <1>1, <2>1, <2>2 DEF Own, Known, Running, InGroups
  <2>6. Evaluated(b)' /\ Compared(b)' /\ Undisturbed(b)'
    BY <2>1, <2>2, <2>4 DEF Evaluated, Compared, Undisturbed, InGroups
  <2>. QED
    BY <2>2, <2>5, <2>6 DEF Keeps, Own
<1>4. CASE Return(b, "failed")
  BY <1>4, ReturnKeeps
<1>3. CASE Assign(b, new)
  <2>1. mv \in [Group -> Nat]
    BY <1>0
  <2>2. /\ new \in Call /\ new.at = "ticket" /\ new.matched = mv
        /\ new.want = match /\ new.acct = call[b].acct /\ new.req = call[b].req
        /\ new.claims = call[b].claims
    BY <1>0, <2>1 DEF Call, Running
  <2>. HIDE DEF new
  <2>3. /\ call' \in [Callback -> Call] /\ call'[b] = new
        /\ \A c \in Callback \ {b} : call'[c] = call[c]
    BY <1>3, <2>2, AssignType
  <2>4. UNCHANGED <<filter, version, accounts>>
    BY <1>1 DEF rows, groups, accts
  <2>5. \A g \in Group : g \in match <=> mv[g] # 0
    BY <1>0 DEF Versioned
  <2>6. Matched(b)' = match
    BY <2>2, <2>3, <2>5 DEF Matched
  <2>7. Known(b)'
    BY <1>1, <2>2, <2>3, <2>6 DEF Own, Known, Running, InGroups
  <2>8. /\ VersionsMatch(b)' /\ Evaluated(b)'
    <3>1. \A g \in match : /\ g \in Group /\ mv[g] = version[g] /\ Exists(g)
                           /\ filter[g] \in call[b].claims
      OBVIOUS
    <3>2. \A g \in match : version[g] \in Nat
      BY <1>0
    <3>. HIDE DEF match, mv
    <3>. QED
      BY <2>2, <2>3, <2>4, <2>6, <3>1, <3>2 DEF VersionsMatch, Evaluated, Exists
  <2>9. Compared(b)'
    BY <2>2, <2>3, <2>6 DEF Compared
  <2>10. Undisturbed(b)'
    <3>1. ~disturbed'[b] => ~disturbed[b]
      BY <2>2, <2>3, HistoryKept DEF Running
    <3>. QED
      BY <1>1, <2>2, <2>3, <2>4, <2>8, <3>1 DEF Own, Undisturbed, Running
  <2>. QED
    BY <2>3, <2>7, <2>8, <2>9, <2>10 DEF Keeps, Own
<1>. QED
  BY <1>2, <1>3, <1>4 DEF ListManagedGroups

LEMMA GetTicketKeeps ==
    ASSUME TypeOK, NEW b \in Callback, Own(b), GetTicket(b), Observe(b)
    PROVE  Keeps(b)
<1>. DEFINE new == [call[b] EXCEPT !.at = "groups", !.ticket = ticket]
<1>0. call[b] \in Call /\ ticket \in Nat
  BY DEF TypeOK
<1>1. call[b].at = "ticket" /\ UNCHANGED rows /\ Assign(b, new)
  BY DEF GetTicket
<1>2. /\ new \in Call /\ new.at = "groups" /\ new.matched = call[b].matched
      /\ new.want = call[b].want /\ new.acct = call[b].acct
      /\ new.req = call[b].req /\ new.claims = call[b].claims
      /\ new.retried = call[b].retried /\ new.ticket = ticket
  BY <1>0 DEF Call, Running
<1>. HIDE DEF new
<1>3. /\ call' \in [Callback -> Call] /\ call'[b] = new
      /\ \A c \in Callback \ {b} : call'[c] = call[c]
  BY <1>1, <1>2, AssignType
<1>4. UNCHANGED <<filter, version, ticket, accounts>>
  BY <1>1 DEF rows, groups, accts
<1>5. Matched(b)' = Matched(b)
  BY <1>2, <1>3 DEF Matched
<1>6. Known(b)'
  BY <1>1, <1>2, <1>3, <1>5 DEF Own, Known, Running, InGroups
<1>7. Evaluated(b)'
  BY <1>1, <1>2, <1>3, <1>4, <1>5 DEF Own, Evaluated, InGroups, Exists
<1>8. Compared(b)'
  BY <1>0, <1>1, <1>2, <1>3, <1>4, <1>5 DEF Own, Compared
<1>9. Undisturbed(b)'
  <2>1. ~disturbed'[b] => ~disturbed[b]
    BY <1>2, <1>3, HistoryKept DEF Running
  <2>2. VersionsMatch(b) => VersionsMatch(b)'
    BY <1>2, <1>3, <1>4, <1>5 DEF VersionsMatch, Exists
  <2>. QED
    BY <1>1, <1>2, <1>3, <1>4, <2>1, <2>2 DEF Own, Undisturbed, Running, InGroups
<1>. QED
  BY <1>3, <1>6, <1>7, <1>8, <1>9 DEF Keeps, Own

LEMMA GroupsDoneKeeps ==
    ASSUME TypeOK, NEW b \in Callback, Own(b), call[b].at \in InGroups,
           GroupsDone(b), UNCHANGED accounts, Observe(b)
    PROVE  Keeps(b)
<1>1. /\ call' \in [Callback -> Call]
      /\ call'[b].at = "lookup" /\ call'[b].req = call[b].req
      /\ call'[b].acct = call[b].acct
      /\ \A c \in Callback \ {b} : call'[c] = call[c]
  BY GroupsDoneType
<1>2. Known(b)'
  BY <1>1 DEF Own, Known, Running, InGroups
<1>3. Evaluated(b)' /\ Compared(b)'
  BY <1>1 DEF Evaluated, Compared, InGroups
<1>4. Undisturbed(b)'
  <2>1. ~disturbed'[b] => ~disturbed[b]
    BY <1>1, HistoryKept DEF Running
  <2>. QED
    BY <1>1, <2>1 DEF Own, Undisturbed, InGroups, Running
<1>. QED
  BY <1>1, <1>2, <1>3, <1>4 DEF Keeps, Own

LEMMA CompareMembershipsKeeps ==
    ASSUME TypeOK, NEW b \in Callback, Own(b), CompareMemberships(b), Observe(b)
    PROVE  /\ Keeps(b)
           /\ call'[b].at = "redeem" =>
                /\ Matched(b)' = Matched(b) /\ VersionsMatch(b)
                /\ VersionsMatch(b)' /\ \A g \in Matched(b) : ~Locked(g)
<1>. DEFINE current == member[call[b].acct]
            toDelete == current \ call[b].want
            new == [call[b] EXCEPT !.at = "redeem", !.drop = toDelete,
                                   !.want = @ \ current]
<1>0. call[b] \in Call /\ ticket \in Nat
  BY DEF TypeOK
<1>1. call[b].at = "groups" /\ UNCHANGED rows
  BY DEF CompareMemberships
<1>2. UNCHANGED <<filter, version, ticket, member, accounts>>
  BY <1>1 DEF rows, groups, accts
<1>3. CASE Return(b, "failed")
  BY <1>3, ReturnKeeps
<1>4. CASE GroupsDone(b)
  <2>1. call'[b].at = "lookup"
    BY <1>4, GroupsDoneType
  <2>. QED
    BY <1>1, <1>2, <1>4, <2>1, GroupsDoneKeeps DEF InGroups
<1>5. CASE Assign(b, new) /\ VersionsMatch(b) /\ \A g \in Matched(b) : ~Locked(g)
  <2>1. call[b].acct \in Account /\ current \subseteq Group
    BY <1>1 DEF Own, Known, Running, TypeOK
  <2>2. /\ new \in Call /\ new.at = "redeem" /\ new.matched = call[b].matched
        /\ new.want = call[b].want \ current /\ new.acct = call[b].acct
        /\ new.req = call[b].req /\ new.claims = call[b].claims
        /\ new.retried = call[b].retried /\ new.ticket = call[b].ticket
        /\ new.drop = toDelete
    BY <1>0, <2>1 DEF Call, Running
  <2>. HIDE DEF new
  <2>3. /\ call' \in [Callback -> Call] /\ call'[b] = new
        /\ \A c \in Callback \ {b} : call'[c] = call[c]
    BY <1>5, <2>2, AssignType
  <2>4. Matched(b)' = Matched(b)
    BY <2>2, <2>3 DEF Matched
  <2>5. VersionsMatch(b)'
    BY <1>2, <1>5, <2>2, <2>3, <2>4 DEF VersionsMatch, Exists
  <2>6. Known(b)'
    BY <1>1, <2>2, <2>3, <2>4 DEF Own, Known, Running, InGroups
  <2>7. Evaluated(b)'
    BY <1>1, <1>2, <2>2, <2>3, <2>4 DEF Own, Evaluated, InGroups, Exists
  <2>8. Compared(b)'
    BY <1>0, <1>1, <1>2, <2>2, <2>3, <2>4 DEF Own, Compared
  <2>9. Undisturbed(b)'
    <3>1. ~disturbed'[b] => ~disturbed[b]
      BY <2>2, <2>3, HistoryKept DEF Running
    <3>2. ~disturbed[b] => call[b].acct \in accounts /\ call[b].ticket = ticket
      BY <1>1 DEF Own, Undisturbed, Running
    <3>3. ~disturbed[b] => RowsAsExpected(b)'
      BY <1>2, <2>2, <2>3, <3>2 DEF RowsAsExpected
    <3>. QED
      BY <1>2, <2>2, <2>3, <2>5, <3>1, <3>2, <3>3 DEF Undisturbed
  <2>. QED
    BY <1>5, <2>3, <2>4, <2>5, <2>6, <2>7, <2>8, <2>9 DEF Keeps, Own
<1>. QED
  BY <1>3, <1>4, <1>5 DEF CompareMemberships

LEMMA RedeemTicketKeeps ==
    ASSUME TypeOK, NEW b \in Callback, Own(b), RedeemTicket(b), Observe(b)
    PROVE  Keeps(b) /\ call'[b].at # "redeem"
<1>. DEFINE new == [call[b] EXCEPT !.at = "ticket", !.retried = TRUE]
<1>0. call[b] \in Call
  BY DEF TypeOK
<1>1. call[b].at = "redeem" /\ UNCHANGED accounts
  BY DEF RedeemTicket, accts
<1>2. CASE Return(b, "failed")
  BY <1>2, ReturnKeeps
<1>3. CASE GroupsDone(b)
  <2>1. call'[b].at = "lookup"
    BY <1>3, GroupsDoneType
  <2>. QED
    BY <1>1, <1>3, <2>1, GroupsDoneKeeps DEF InGroups
<1>4. CASE Assign(b, new) /\ ticket # call[b].ticket /\ UNCHANGED groups
  <2>1. /\ new \in Call /\ new.at = "ticket" /\ new.matched = call[b].matched
        /\ new.want = call[b].want /\ new.acct = call[b].acct
        /\ new.req = call[b].req /\ new.claims = call[b].claims
        /\ new.retried = TRUE
    BY <1>0 DEF Call, Running
  <2>. HIDE DEF new
  <2>2. /\ call' \in [Callback -> Call] /\ call'[b] = new
        /\ \A c \in Callback \ {b} : call'[c] = call[c]
    BY <1>4, <2>1, AssignType
  <2>3. Matched(b)' = Matched(b)
    BY <2>1, <2>2 DEF Matched
  <2>4. Known(b)'
    BY <1>1, <2>1, <2>2, <2>3 DEF Own, Known, Running, InGroups
  <2>5. Evaluated(b)'
    BY <1>1, <1>4, <2>1, <2>2, <2>3 DEF Own, Evaluated, InGroups, Exists, groups
  <2>6. Compared(b)'
    BY <2>1, <2>2 DEF Compared
  <2>7. disturbed[b]
    BY <1>1, <1>4 DEF Own, Undisturbed
  <2>8. disturbed'[b]
    BY <2>1, <2>2, <2>7, HistoryKept DEF Running
  <2>9. Undisturbed(b)'
    BY <2>8 DEF Undisturbed
  <2>. QED
    BY <2>1, <2>2, <2>4, <2>5, <2>6, <2>9 DEF Keeps, Own
<1>. QED
  BY <1>2, <1>3, <1>4 DEF RedeemTicket

LEMMA LookupUserWithLoginKeeps ==
    ASSUME TypeOK, NEW b \in Callback, Own(b), LookupUserWithLogin(b), Observe(b)
    PROVE  Keeps(b)
<1>. DEFINE a == call[b].acct
            new == [call[b] EXCEPT !.at = "token", !.user = userOf[a]]
<1>0. call[b] \in Call /\ userOf \in [Account -> User \union {Null}]
  BY DEF TypeOK
<1>1. call[b].at = "lookup" /\ UNCHANGED <<accounts, userOf>>
  BY DEF LookupUserWithLogin, rows, accts
<1>2. a \in Account /\ call[b].req \in Request
  BY <1>1 DEF Own, Known, Running
<1>3. ~disturbed[b] => a \in accounts
  BY <1>1 DEF Own, Undisturbed, Running
<1>4. CASE Return(b, "failed") \/ Return(b, "done")
  BY <1>4, ReturnKeeps
<1>5. CASE Goto(b, "vivify") /\ userOf[a] = Null /\ a \in accounts
  BY <1>1, <1>5, GotoKeeps DEF Running
<1>6. CASE Assign(b, new) /\ userOf[a] # Null
  <2>1. userOf[a] \in User
    BY <1>0, <1>2, <1>6
  <2>2. /\ new \in Call /\ new.at = "token" /\ new.acct = a
        /\ new.req = call[b].req /\ new.user = userOf[a]
    BY <1>0, <2>1 DEF Call, Running
  <2>. HIDE DEF new
  <2>3. /\ call' \in [Callback -> Call] /\ call'[b] = new
        /\ \A c \in Callback \ {b} : call'[c] = call[c]
    BY <1>6, <2>2, AssignType
  <2>4. Known(b)'
    BY <1>2, <2>1, <2>2, <2>3 DEF Known, InGroups
  <2>5. Evaluated(b)' /\ Compared(b)'
    BY <2>2, <2>3 DEF Evaluated, Compared, InGroups
  <2>6. ~disturbed'[b] => ~disturbed[b]
    BY <2>2, <2>3, HistoryKept DEF Running
  <2>7. Undisturbed(b)'
    BY <1>1, <1>3, <2>2, <2>3, <2>6 DEF Undisturbed, InGroups
  <2>. QED
    BY <2>3, <2>4, <2>5, <2>7 DEF Keeps, Own
<1>. QED
  BY <1>4, <1>5, <1>6 DEF LookupUserWithLogin

LEMMA AutoVivifyKeeps ==
    ASSUME TypeOK, NEW b \in Callback, Own(b), AutoVivify(b), Observe(b)
    PROVE  Keeps(b)
<1>. DEFINE a == call[b].acct
<1>0. call[b] \in Call /\ userOf \in [Account -> User \union {Null}]
  BY DEF TypeOK
<1>1. call[b].at = "vivify" /\ UNCHANGED accounts
  BY DEF AutoVivify
<1>2. a \in Account /\ call[b].req \in Request
  BY <1>1 DEF Own, Known, Running
<1>3. CASE Return(b, "failed")
  BY <1>3, ReturnKeeps
<1>4. ASSUME NEW u \in User, a \in accounts, userOf' = [userOf EXCEPT ![a] = u],
             Assign(b, [call[b] EXCEPT !.at = "token", !.user = u])
      PROVE  Keeps(b)
  <2>. DEFINE new == [call[b] EXCEPT !.at = "token", !.user = u]
  <2>1. /\ new \in Call /\ new.at = "token" /\ new.acct = a
        /\ new.req = call[b].req /\ new.user = u
    BY <1>0 DEF Call, Running
  <2>. HIDE DEF new
  <2>2. /\ call' \in [Callback -> Call] /\ call'[b] = new
        /\ \A c \in Callback \ {b} : call'[c] = call[c]
    BY <1>4, <2>1, AssignType DEF new
  <2>3. userOf'[a] = u
    BY <1>0, <1>2, <1>4
  <2>4. Known(b)'
    BY <1>2, <2>1, <2>2 DEF Known, InGroups
  <2>5. Evaluated(b)' /\ Compared(b)'
    BY <2>1, <2>2 DEF Evaluated, Compared, InGroups
  <2>6. Undisturbed(b)'
    BY <1>1, <1>4, <2>1, <2>2, <2>3 DEF Undisturbed, InGroups
  <2>. QED
    BY <2>2, <2>4, <2>5, <2>6 DEF Keeps, Own
<1>. QED
  BY <1>3, <1>4 DEF AutoVivify

\* All steps of a callback together.
LEMMA CallbackKeeps ==
    ASSUME TypeOK, Versioned, NEW b \in Callback, Own(b), CallbackStep(b), Observe(b)
    PROVE  Keeps(b)
<1>1. ASSUME CreateAuthToken(b) \/ Crash(b) PROVE Keeps(b)
  BY <1>1, ReturnKeeps DEF CreateAuthToken, Crash
<1>. QED
  BY <1>1, CallbackStartKeeps, ExchangeKeeps, upsertAccountKeeps,
     ListManagedGroupsKeeps, GetTicketKeeps, CompareMembershipsKeeps,
     RedeemTicketKeeps, LookupUserWithLoginKeeps, AutoVivifyKeeps
  DEF CallbackStep

-----------------------------------------------------------------------------
(* Types. *)

\* The part of the type invariant that is about the rows and the clients.
RowsOK ==
    /\ active \in BOOLEAN /\ config \in Nat /\ primary \in BOOLEAN
    /\ accounts \subseteq Account
    /\ users \subseteq born /\ born \subseteq User
    /\ userOf \in [Account -> User \union {Null}]
    /\ filter \in [Group -> Filter \union {Null}]
    /\ version \in [Group -> Nat]
    /\ ticket \in Nat
    /\ member \in [Account -> SUBSET {g \in Group : Exists(g)}]
    /\ token \in [Request -> {"none", "pending", "issued", "failed"}]
    /\ tokenOf \in [Request -> accounts \union {Null}]
    /\ value \in [Request -> Callback \union {Null}]
    /\ overdue \subseteq Request
    /\ attempt \in [Request -> {"new", "started", "expired"}]
    /\ started \in [Request -> Nat]
    /\ held \in [Request -> Callback \union {Null}]
    /\ changes \in Nat

LEMMA RowsAndCalls ==
    TypeOK <=> /\ RowsOK
               /\ call \in [Callback -> Call]
               /\ disturbed \in [Callback -> BOOLEAN]
               /\ gone \in [Callback -> BOOLEAN]
  BY ZenonT(40) DEF TypeOK, RowsOK

LEMMA CallbackRowsType ==
    ASSUME RowsOK, LocksHeld, NEW b \in Callback, Known(b), CallbackStep(b)
    PROVE  RowsOK'
<1>1. CASE UNCHANGED <<rows, client, changes>>
  BY <1>1 DEF RowsOK, rows, method, accts, groups, tokens, client, Exists
<1>2. CASE upsertAccount(b)
  <2>1. call[b].acct \in Account
    BY <1>2 DEF Known, upsertAccount, Running
  <2>. QED
    BY <1>2, <2>1 DEF upsertAccount, RowsOK, method, groups, tokens, client, Exists
<1>3. CASE RedeemTicket(b) /\ ~UNCHANGED groups
  <2>1. /\ call[b].at = "redeem"
        /\ ticket' = ticket + 1
        /\ version' = [g \in Group |->
              IF g \in Matched(b) THEN version[g] + 1 ELSE version[g]]
        /\ member' = [member EXCEPT ![call[b].acct] =
              (@ \ call[b].drop) \union call[b].want]
        /\ filter' = filter
        /\ UNCHANGED <<method, accts, tokens, client, changes>>
    BY <1>3 DEF RedeemTicket, groups
  <2>2. call[b].acct \in Account /\ call[b].want \subseteq Matched(b)
    BY <2>1 DEF Known, Running, InGroups
  <2>3. \A g \in Matched(b) : g \in Group /\ Exists(g)
    BY <2>1 DEF LocksHeld, VersionsMatch, Matched
  <2>4. version' \in [Group -> Nat] /\ ticket' \in Nat
    BY <2>1 DEF RowsOK
  <2>5. member' \in [Account -> SUBSET {g \in Group : Exists(g)}]
    BY <2>1, <2>2, <2>3 DEF RowsOK
  <2>. QED
    BY <2>1, <2>4, <2>5 DEF RowsOK, method, accts, tokens, client, Exists
<1>4. CASE AutoVivify(b)
  <2>1. call[b].acct \in Account
    BY <1>4 DEF Known, AutoVivify, Running
  <2>. QED
    BY <1>4, <2>1 DEF AutoVivify, RowsOK, method, groups, tokens, client, Exists
<1>5. CASE CreateAuthToken(b)
  <2>1. call[b].req \in Request
    BY <1>5 DEF Known, CreateAuthToken, Running
  <2>. QED
    BY <1>5, <2>1 DEF CreateAuthToken, RowsOK, method, accts, groups, tokens, client,
       Exists
<1>. QED
  BY <1>1, <1>2, <1>3, <1>4, <1>5, ZenonT(40) DEF CallbackStep, CallbackStart, Exchange,
     ListManagedGroups, GetTicket, CompareMemberships, RedeemTicket,
     LookupUserWithLogin, Crash, rows

LEMMA OtherRowsType ==
    ASSUME RowsOK, OtherStep, changes' \in {changes, changes + 1}
    PROVE  RowsOK'
<1>. USE DEF RowsOK, method, accts, groups, tokens, rows, client, Exists
<1>1. ASSUME NEW r \in Request, TokenStep(r) PROVE RowsOK'
  <2>1. CASE StartAuth(r)
    BY <2>1 DEF StartAuth
  <2>2. CASE AttemptExpires(r)
    BY <2>2 DEF AttemptExpires
  <2>3. CASE TokenRequest(r)
    BY <2>3 DEF TokenRequest
  <2>4. CASE TokenExpires(r)
    BY <2>4 DEF TokenExpires
  <2>5. CASE ValidateToken(r)
    BY <2>5 DEF ValidateToken, RemoveTokens
  <2>. QED
    BY <1>1, <2>1, <2>2, <2>3, <2>4, <2>5 DEF TokenStep
<1>2. CASE CloseExpiredPendingTokens
  BY <1>2 DEF CloseExpiredPendingTokens, Closable
<1>3. ASSUME NEW r \in Request, DeleteAuthToken(r) PROVE RowsOK'
  BY <1>3 DEF DeleteAuthToken, RemoveTokens
<1>4. CASE UpdateAuthMethod \/ transitionAuthMethodTo \/ SetPrimaryAuthMethod
  <2>1. active' \in BOOLEAN /\ primary' \in BOOLEAN
    BY <1>4, Zenon DEF UpdateAuthMethod, transitionAuthMethodTo, SetPrimaryAuthMethod
  <2>2. config' \in Nat /\ UNCHANGED <<accts, groups, tokens, client>>
    BY <1>4 DEF UpdateAuthMethod, transitionAuthMethodTo, SetPrimaryAuthMethod
  <2>. QED
    BY <2>1, <2>2
<1>5. CASE CreateUser
  BY <1>5 DEF CreateUser
<1>6. ASSUME NEW u \in User, DeleteUser(u) PROVE RowsOK'
  BY <1>6 DEF DeleteUser
<1>7. ASSUME NEW u \in User, NEW a \in Account,
             associateUserWithAccounts(u, a) \/ dissociateUserFromAccounts(u, a)
      PROVE  RowsOK'
  BY <1>7 DEF associateUserWithAccounts, dissociateUserFromAccounts, MayAssociate
<1>8. ASSUME NEW a \in Account, DeleteAccount(a) PROVE RowsOK'
  BY <1>8 DEF DeleteAccount, RemoveTokens
<1>11. ASSUME NEW u \in User, NEW A \in SUBSET Account, SetUserAccounts(u, A)
       PROVE  RowsOK'
  BY <1>11 DEF SetUserAccounts
<1>9. ASSUME NEW g \in Group, NEW f \in Filter,
             CreateManagedGroup(g, f) \/ UpdateManagedGroup(g, f)
      PROVE  RowsOK'
  BY <1>9, LoginAssumption DEF CreateManagedGroup, UpdateManagedGroup
<1>10. ASSUME NEW g \in Group, DeleteManagedGroup(g) PROVE RowsOK'
  BY <1>10 DEF DeleteManagedGroup
<1>. QED
  BY <1>1, <1>2, <1>3, <1>4, <1>5, <1>6, <1>7, <1>8, <1>9, <1>10, <1>11
  DEF OtherStep, Administer

\* A step is a callback's or somebody else's, and the history is kept.
LEMMA Steps ==
    ASSUME Next
    PROVE  \/ \E b \in Callback : CallbackStep(b) /\ Observe(b)
           \/ /\ OtherStep /\ Observe(Null) /\ UNCHANGED call
              /\ changes' \in {changes, changes + 1}
<1>1. ASSUME NEW r \in Request, TokenStep(r)
      PROVE  UNCHANGED <<call, changes>>
  BY <1>1 DEF TokenStep, StartAuth, AttemptExpires, TokenRequest, TokenExpires,
     ValidateToken
<1>2. ASSUME CloseExpiredPendingTokens PROVE UNCHANGED <<call, changes>>
  BY <1>2 DEF CloseExpiredPendingTokens
<1>3. ASSUME Administer PROVE UNCHANGED call
  BY <1>3 DEF Administer, DeleteAuthToken, UpdateAuthMethod,
     transitionAuthMethodTo, SetPrimaryAuthMethod, CreateUser, DeleteUser,
     associateUserWithAccounts, dissociateUserFromAccounts, SetUserAccounts,
     DeleteAccount, CreateManagedGroup, UpdateManagedGroup, DeleteManagedGroup
<1>. QED
  BY <1>1, <1>2, <1>3 DEF Next, OtherStep

LEMMA TypeStep ==
    ASSUME IInv, Next
    PROVE  TypeOK'
<1>1. disturbed' \in [Callback -> BOOLEAN] /\ gone' \in [Callback -> BOOLEAN]
  BY Steps, Zenon DEF Observe
<1>2. CASE \E b \in Callback : CallbackStep(b) /\ Observe(b)
  BY <1>1, <1>2, RowsAndCalls, CallbackRowsType, CallbackKeeps DEF IInv, Own, Keeps,
     TypeOK, RowsOK
<1>3. CASE OtherStep /\ UNCHANGED call /\ changes' \in {changes, changes + 1}
  <2>1. RowsOK /\ call \in [Callback -> Call]
    BY RowsAndCalls DEF IInv
  <2>2. RowsOK'
    BY <1>3, <2>1, OtherRowsType
  <2>. QED
    BY <1>1, <1>3, <2>1, <2>2 DEF TypeOK, RowsOK
<1>. QED
  BY <1>2, <1>3, Steps

-----------------------------------------------------------------------------
(* What a callback knows after the steps of others. *)

LEMMA Bystander ==
    ASSUME TypeOK, TypeOK', NEW c \in Callback, Own(c), NEW b, b # c, Observe(b),
           GroupStep(b), call'[c] = call[c]
    PROVE  Own(c)'
<1>. Matched(c)' = Matched(c)
  BY DEF Matched
<1>0. call[c] \in Call /\ ticket \in Nat /\ ticket' \in Nat
  BY DEF TypeOK
<1>1. Known(c)'
  BY DEF Own, Known
<1>2. Evaluated(c)'
  <2>. SUFFICES ASSUME call[c].at \in InGroups, NEW g \in Matched(c)
                PROVE  /\ call[c].matched[g] <= version'[g]
                       /\ Exists(g)' /\ version'[g] = call[c].matched[g]
                          => filter'[g] \in call[c].claims
    BY DEF Evaluated
  <2>1. /\ g \in Group /\ call[c].matched[g] \in Nat
        /\ version[g] \in Nat /\ version'[g] \in Nat
    BY <1>0 DEF Matched, TypeOK, Call
  <2>2. /\ call[c].matched[g] <= version[g]
        /\ Exists(g) /\ version[g] = call[c].matched[g]
           => filter[g] \in call[c].claims
    BY DEF Own, Evaluated
  <2>3. /\ version[g] <= version'[g]
        /\ version'[g] = version[g] => filter'[g] \in {filter[g], Null}
    BY <2>1 DEF GroupStep
  <2>. QED
    BY <2>1, <2>2, <2>3 DEF Exists
<1>3. Compared(c)'
  <2>. SUFFICES ASSUME call[c].at \in InGroups PROVE Compared(c)'
    BY DEF Compared, InGroups
  <2>1. call[c].acct \in Account
    BY DEF Own, Known, InGroups, Running
  <2>2. ~gone'[c] => ~gone[c] /\ call[c].acct \notin accounts \ accounts'
    BY DEF Observe, InGroups, Running
  <2>3. ticket <= ticket'
    BY DEF GroupStep
  <2>4. ~gone'[c] /\ ticket' = ticket => member'[call[c].acct] = member[call[c].acct]
    BY <2>1, <2>2 DEF GroupStep
  <2>5. call[c].at \in {"groups", "redeem"} => call[c].ticket <= ticket
    BY DEF Own, Compared
  <2>6. call[c].ticket \in Nat
    BY <1>0 DEF Call
  <2>7. call[c].at \in {"groups", "redeem"} => call[c].ticket <= ticket'
    BY <1>0, <2>3, <2>5, <2>6
  <2>8. call[c].at \in {"groups", "redeem"} /\ call[c].ticket = ticket' =>
            ticket' = ticket
    BY <1>0, <2>3, <2>5, <2>6
  <2>. QED
    BY <2>2, <2>4, <2>7, <2>8 DEF Own, Compared
<1>4. Undisturbed(c)'
  <2>. SUFFICES ASSUME call[c].at \in Running, ~disturbed'[c] PROVE Undisturbed(c)'
    BY DEF Undisturbed, InGroups, Running
  <2>1. ~disturbed[c] /\ rows' = rows
    BY DEF Observe
  <2>2. UNCHANGED <<accounts, filter, version, ticket, member, userOf>>
    BY <2>1 DEF rows, accts, groups
  <2>3. VersionsMatch(c) => VersionsMatch(c)'
    BY <2>2 DEF VersionsMatch, Exists
  <2>4. RowsAsExpected(c) => RowsAsExpected(c)'
    BY <2>2 DEF RowsAsExpected
  <2>. QED
    BY <2>1, <2>2, <2>3, <2>4 DEF Own, Undisturbed
<1>. QED
  BY <1>1, <1>2, <1>3, <1>4 DEF Own

\* Every callback, whoever takes the step.
LEMMA OwnStep ==
    ASSUME IInv, Next
    PROVE  \A c \in Callback : Own(c)'
<1>. TypeOK /\ TypeOK' /\ LocksHeld /\ Versioned /\ \A c \in Callback : Own(c)
  BY TypeStep DEF IInv
<1>1. ASSUME NEW b \in Callback, CallbackStep(b), Observe(b)
      PROVE  \A c \in Callback : Own(c)'
  <2>1. Keeps(b)
    BY <1>1, CallbackKeeps
  <2>2. GroupStep(b)
    BY <1>1, CallbackGroups DEF Own
  <2>. QED
    BY <1>1, <2>1, <2>2, Bystander DEF Keeps
<1>2. ASSUME OtherStep, Observe(Null), UNCHANGED call
      PROVE  \A c \in Callback : Own(c)'
  <2>1. GroupStep(Null)
    BY <1>2, OtherGroups
  <2>2. Null \notin Callback
    BY LoginAssumption
  <2>. QED
    BY <1>2, <2>1, <2>2, Bystander
<1>. QED
  BY <1>1, <1>2, Steps

\* The locks are taken by CompareMemberships.
LEMMA OnlyCompareLocks ==
    ASSUME TypeOK, NEW b \in Callback, Own(b), CallbackStep(b), Observe(b),
           call'[b].at = "redeem"
    PROVE  CompareMemberships(b)
<1>0. call \in [Callback -> Call]
  BY DEF TypeOK
<1>1. ASSUME NEW how \in {"done", "failed"}, Return(b, how) PROVE FALSE
  BY <1>1, ReturnType
<1>2. ASSUME NEW step \in {"list", "lookup", "vivify"}, Goto(b, step) PROVE FALSE
  BY <1>0, <1>2 DEF Goto, Assign, Call
<1>3. ASSUME NEW r \in Request, CallbackStart(b, r) PROVE FALSE
  BY <1>0, <1>1, <1>3 DEF CallbackStart, Assign, Call
<1>4. ASSUME Exchange(b) PROVE FALSE
  BY <1>0, <1>1, <1>4 DEF Exchange, Assign, Call
<1>5. ASSUME ListManagedGroups(b) PROVE FALSE
  BY <1>0, <1>1, <1>5 DEF ListManagedGroups, Assign, Call
<1>6. ASSUME GetTicket(b) PROVE FALSE
  BY <1>0, <1>6 DEF GetTicket, Assign, Call
<1>7. ASSUME LookupUserWithLogin(b) PROVE FALSE
  BY <1>0, <1>1, <1>2, <1>7 DEF LookupUserWithLogin, Assign, Call
<1>8. ASSUME AutoVivify(b) PROVE FALSE
  <2>1. ASSUME NEW u \in User, Assign(b, [call[b] EXCEPT !.at = "token", !.user = u])
        PROVE  FALSE
    BY <1>0, <2>1 DEF Assign, Call
  <2>. QED
    BY <1>1, <1>8, <2>1 DEF AutoVivify
<1>9. ASSUME upsertAccount(b) \/ CreateAuthToken(b) \/ Crash(b) PROVE FALSE
  BY <1>1, <1>2, <1>9 DEF upsertAccount, CreateAuthToken, Crash
<1>. QED
  BY <1>3, <1>4, <1>5, <1>6, <1>7, <1>8, <1>9, RedeemTicketKeeps DEF CallbackStep

\* Locks, whoever takes the step.
LEMMA LocksStep ==
    ASSUME IInv, Next
    PROVE  LocksHeld'
<1>. TypeOK /\ LocksHeld /\ Versioned /\ \A c \in Callback : Own(c)
  BY DEF IInv
<1>1. ASSUME NEW b, GroupStep(b), NEW c \in Callback, c # b,
             call[c].at = "redeem", call'[c] = call[c]
      PROVE  VersionsMatch(c)' /\ Matched(c)' = Matched(c)
  <2>1. Matched(c)' = Matched(c)
    BY <1>1 DEF Matched
  <2>2. VersionsMatch(c)
    BY <1>1 DEF LocksHeld
  <2>3. \A g \in Matched(c) : version'[g] = version[g] /\ filter'[g] = filter[g]
    BY <1>1 DEF GroupStep
  <2>. QED
    BY <1>1, <2>1, <2>2, <2>3 DEF VersionsMatch, Exists
<1>2. ASSUME NEW b \in Callback, CallbackStep(b), Observe(b)
      PROVE  LocksHeld'
  <2>1. Keeps(b) /\ GroupStep(b)
    BY <1>2, CallbackKeeps, CallbackGroups DEF Own
  <2>2. ASSUME call'[b].at = "redeem"
        PROVE  /\ VersionsMatch(b)'
               /\ \A c \in Callback \ {b} : call[c].at = "redeem" =>
                    Matched(b)' \intersect Matched(c) = {}
    <3>1. CompareMemberships(b)
      BY <1>2, <2>2, OnlyCompareLocks
    <3>2. /\ Matched(b)' = Matched(b) /\ VersionsMatch(b)'
          /\ \A g \in Matched(b) : ~Locked(g)
      BY <1>2, <2>2, <3>1, CompareMembershipsKeeps
    <3>. QED
      BY <3>2 DEF Locked
  <2>. QED
    BY <1>1, <2>1, <2>2 DEF LocksHeld, Keeps
<1>3. ASSUME OtherStep, UNCHANGED call PROVE LocksHeld'
  <2>1. GroupStep(Null) /\ Null \notin Callback
    BY <1>3, OtherGroups, LoginAssumption
  <2>. QED
    BY <1>1, <1>3, <2>1 DEF LocksHeld
<1>. QED
  BY <1>2, <1>3, Steps

LEMMA VersionedStep ==
    ASSUME IInv, Next
    PROVE  Versioned'
<1>1. /\ TypeOK /\ Versioned /\ version \in [Group -> Nat]
      /\ filter \in [Group -> Filter \union {Null}]
  BY DEF IInv, TypeOK
<1>2. CASE UNCHANGED <<filter, version>>
  BY <1>1, <1>2 DEF Versioned, Exists
<1>3. ASSUME NEW b \in Callback, RedeemTicket(b), ~UNCHANGED groups
      PROVE  Versioned'
  BY <1>1, <1>3 DEF RedeemTicket, Versioned, Exists, groups
<1>4. ASSUME NEW g \in Group, NEW f \in Filter,
             CreateManagedGroup(g, f) \/ UpdateManagedGroup(g, f)
      PROVE  Versioned'
  BY <1>1, <1>4 DEF CreateManagedGroup, UpdateManagedGroup, Versioned, Exists
<1>5. ASSUME NEW g \in Group, DeleteManagedGroup(g) PROVE Versioned'
  <2>1. filter' = [filter EXCEPT ![g] = Null] /\ version' = version
    BY <1>5, Zenon DEF DeleteManagedGroup
  <2>2. \A h \in Group : filter'[h] # Null => filter[h] # Null
    BY <1>1, <2>1, ZenonT(40)
  <2>. QED
    BY <1>1, <2>1, <2>2 DEF Versioned, Exists
<1>6. ASSUME NEW b \in Callback, CallbackStep(b), ~RedeemTicket(b) PROVE Versioned'
  BY <1>2, <1>6, ZenonT(40) DEF CallbackStep, CallbackStart, Exchange, upsertAccount,
     ListManagedGroups, GetTicket, CompareMemberships, LookupUserWithLogin,
     AutoVivify, CreateAuthToken, Crash, rows, groups
<1>7. ASSUME OtherStep PROVE Versioned'
  BY <1>2, <1>4, <1>5, <1>7 DEF OtherStep, TokenStep, StartAuth,
     AttemptExpires, TokenRequest, TokenExpires, ValidateToken,
     CloseExpiredPendingTokens, Administer, DeleteAuthToken, UpdateAuthMethod,
     transitionAuthMethodTo, SetPrimaryAuthMethod, CreateUser, DeleteUser,
     associateUserWithAccounts, dissociateUserFromAccounts, SetUserAccounts,
     DeleteAccount, rows, groups
<1>. QED
  BY <1>2, <1>3, <1>6, <1>7, Steps DEF groups

-----------------------------------------------------------------------------
(* Users of accounts, and tokens. *)

LEMMA AssociationsStep ==
    ASSUME IInv, Next
    PROVE  AssociationsConsistent'
<1>0. /\ users \subseteq born /\ born \subseteq User
      /\ userOf \in [Account -> User \union {Null}]
      /\ Null \notin User /\ AssociationsConsistent
  BY LoginAssumption DEF IInv, TypeOK
<1>. USE <1>0 DEF AssociationsConsistent
<1>1. CASE UNCHANGED accts
  BY <1>1 DEF accts
<1>2. ASSUME NEW b \in Callback, upsertAccount(b) PROVE AssociationsConsistent'
  BY <1>2 DEF upsertAccount
<1>3. ASSUME NEW b \in Callback, AutoVivify(b) PROVE AssociationsConsistent'
  <2>1. call[b].acct \in Account
    BY <1>3 DEF IInv, Own, Known, AutoVivify, Running
  <2>2. ASSUME NEW u \in User \ born, call[b].acct \in accounts,
               users' = users \union {u}, accounts' = accounts,
               userOf' = [userOf EXCEPT ![call[b].acct] = u]
        PROVE  AssociationsConsistent'
    <3>1. \A a \in Account : userOf[a] # u
      OBVIOUS
    <3>. QED
      BY <2>1, <2>2, <3>1
  <2>3. CASE UNCHANGED <<accounts, userOf, users>>
    BY <2>3
  <2>. HIDE DEF AssociationsConsistent
  <2>. QED
    BY <1>3, <2>2, <2>3 DEF AutoVivify
<1>4. CASE CreateUser
  BY <1>4 DEF CreateUser
<1>5. ASSUME NEW u \in User, DeleteUser(u) PROVE AssociationsConsistent'
  BY <1>5 DEF DeleteUser
<1>6. ASSUME NEW u \in User, NEW a \in Account,
             associateUserWithAccounts(u, a) \/ dissociateUserFromAccounts(u, a)
      PROVE  AssociationsConsistent'
  BY <1>6 DEF associateUserWithAccounts, dissociateUserFromAccounts, MayAssociate
<1>7. ASSUME NEW a \in Account, DeleteAccount(a) PROVE AssociationsConsistent'
  <2>1. /\ accounts' = accounts \ {a} /\ users' = users
        /\ userOf' = [userOf EXCEPT ![a] = Null]
    BY <1>7 DEF DeleteAccount
  <2>2. userOf'[a] = Null /\ \A d \in Account \ {a} : userOf'[d] = userOf[d]
    <3>. HIDE DEF AssociationsConsistent
    <3>. QED
      BY <2>1, ZenonT(40)
  <2>. QED
    BY <2>1, <2>2
<1>10. ASSUME NEW u \in User, NEW A \in SUBSET Account, SetUserAccounts(u, A)
       PROVE  AssociationsConsistent'
  <2>. DEFINE associate == A \ {a \in Account : userOf[a] = u}
  <2>1. /\ \A a \in associate : MayAssociate(u, a)
        /\ \A a, b \in associate : a = b
        /\ \A a \in Account : userOf'[a] # Null =>
                userOf'[a] = IF a \in associate THEN u ELSE userOf[a]
        /\ u \in users /\ UNCHANGED <<accounts, users>>
    BY <1>10 DEF SetUserAccounts
  <2>2. \A a \in associate : \A b \in Account : userOf[b] = u => a = b
    BY <2>1 DEF MayAssociate
  <2>3. \A a \in Account : userOf'[a] # Null => a \in accounts /\ userOf'[a] \in users
    BY <2>1 DEF MayAssociate
  <2>4. ASSUME NEW a \in Account, NEW b \in Account, userOf'[a] # Null,
               userOf'[a] = userOf'[b]
        PROVE  a = b
    <3>. HIDE DEF associate, AssociationsConsistent
    <3>1. /\ userOf'[a] = IF a \in associate THEN u ELSE userOf[a]
          /\ userOf'[b] = IF b \in associate THEN u ELSE userOf[b]
      BY <2>1, <2>4
    <3>2. CASE a \in associate /\ b \in associate
      BY <2>1, <3>2
    <3>3. CASE a \in associate /\ b \notin associate
      BY <2>2, <2>4, <3>1, <3>3
    <3>4. CASE a \notin associate /\ b \in associate
      BY <2>2, <2>4, <3>1, <3>4
    <3>5. CASE a \notin associate /\ b \notin associate
      BY <1>0, <2>4, <3>1, <3>5 DEF AssociationsConsistent
    <3>. QED
      BY <3>2, <3>3, <3>4, <3>5
  <2>5. \A a \in Account : userOf'[a] # Null => a \in accounts' /\ userOf'[a] \in users'
    BY <2>1, <2>3
  <2>. HIDE <1>0
  <2>. QED
    BY <2>4, <2>5, Zenon DEF AssociationsConsistent
<1>8. ASSUME NEW b \in Callback, CallbackStep(b), ~upsertAccount(b), ~AutoVivify(b)
      PROVE  AssociationsConsistent'
  BY <1>1, <1>8, ZenonT(40) DEF CallbackStep, CallbackStart, Exchange, ListManagedGroups,
     GetTicket, CompareMemberships, RedeemTicket, LookupUserWithLogin,
     CreateAuthToken, Crash, rows
<1>9. ASSUME OtherStep PROVE AssociationsConsistent'
  <2>. USE <1>0 DEF rows
  <2>1. ASSUME NEW r \in Request, TokenStep(r) PROVE UNCHANGED accts
    BY <2>1 DEF TokenStep, StartAuth, AttemptExpires, TokenRequest, TokenExpires,
       ValidateToken
  <2>2. ASSUME CloseExpiredPendingTokens PROVE UNCHANGED accts
    BY <2>2 DEF CloseExpiredPendingTokens
  <2>3. ASSUME NEW r \in Request, DeleteAuthToken(r) PROVE UNCHANGED accts
    BY <2>3 DEF DeleteAuthToken
  <2>4. ASSUME UpdateAuthMethod \/ transitionAuthMethodTo \/ SetPrimaryAuthMethod
        PROVE  UNCHANGED accts
    BY <2>4 DEF UpdateAuthMethod, transitionAuthMethodTo, SetPrimaryAuthMethod
  <2>5. ASSUME NEW g \in Group, NEW f \in Filter,
               CreateManagedGroup(g, f) \/ UpdateManagedGroup(g, f)
                                        \/ DeleteManagedGroup(g)
        PROVE  UNCHANGED accts
    BY <2>5 DEF CreateManagedGroup, UpdateManagedGroup, DeleteManagedGroup
  <2>6. ASSUME NEW g \in Group, DeleteManagedGroup(g) PROVE UNCHANGED accts
    BY <2>6 DEF DeleteManagedGroup
  <2>. HIDE DEF AssociationsConsistent
  <2>. QED
    BY <1>1, <1>4, <1>5, <1>6, <1>7, <1>9, <1>10, <2>1, <2>2, <2>3, <2>4, <2>5, <2>6
    DEF OtherStep, Administer
<1>. HIDE DEF AssociationsConsistent
<1>. QED
  BY <1>2, <1>3, <1>8, <1>9, Steps

LEMMA TokensStep ==
    ASSUME IInv, Next
    PROVE  Issuers' /\ HeldIsIssued'
<1>0. /\ TypeOK /\ Issuers /\ HeldIsIssued /\ \A b \in Callback : Own(b) /\ Null # b
  BY LoginAssumption DEF IInv
<1>1. /\ token \in [Request -> {"none", "pending", "issued", "failed"}]
      /\ value \in [Request -> Callback \union {Null}]
      /\ held \in [Request -> Callback \union {Null}]
  BY <1>0 DEF TypeOK
<1>2. ASSUME NEW R, RemoveTokens(R), UNCHANGED <<held, call>>
      PROVE  Issuers' /\ HeldIsIssued'
  BY <1>0, <1>1, <1>2 DEF RemoveTokens, Issuers, HeldIsIssued
<1>3. ASSUME NEW r \in Request, TokenRequest(r) PROVE Issuers' /\ HeldIsIssued'
  BY <1>0, <1>1, <1>3 DEF TokenRequest, Issuers, HeldIsIssued
<1>4. ASSUME CloseExpiredPendingTokens PROVE Issuers' /\ HeldIsIssued'
  BY <1>0, <1>1, <1>4 DEF CloseExpiredPendingTokens, Closable, client, Issuers,
     HeldIsIssued
<1>5. ASSUME UNCHANGED <<token, value, held, call>>
      PROVE  Issuers' /\ HeldIsIssued'
  BY <1>0, <1>5 DEF Issuers, HeldIsIssued
<1>6. ASSUME OtherStep PROVE Issuers' /\ HeldIsIssued'
  <2>1. ASSUME NEW r \in Request, TokenStep(r) PROVE Issuers' /\ HeldIsIssued'
    BY <1>2, <1>3, <1>5, <2>1 DEF TokenStep, StartAuth, AttemptExpires, TokenExpires,
       ValidateToken, rows, tokens, client
  <2>2. CASE Administer
    BY <1>2, <1>5, <2>2, ZenonT(60) DEF Administer, DeleteAuthToken, UpdateAuthMethod,
       transitionAuthMethodTo, SetPrimaryAuthMethod, CreateUser, DeleteUser,
       associateUserWithAccounts, dissociateUserFromAccounts, SetUserAccounts,
       DeleteAccount,
       CreateManagedGroup, UpdateManagedGroup, DeleteManagedGroup, rows, tokens,
       client
  <2>. QED
    BY <1>4, <1>6, <2>1, <2>2 DEF OtherStep
<1>7. ASSUME NEW b \in Callback, CallbackStep(b), Observe(b)
      PROVE  Issuers' /\ HeldIsIssued'
  <2>1. call[b].at # "done"
    BY <1>7 DEF CallbackStep, CallbackStart, Exchange, upsertAccount,
       ListManagedGroups, GetTicket, CompareMemberships, RedeemTicket,
       LookupUserWithLogin, AutoVivify, CreateAuthToken, Crash, Running
  <2>2. \A c \in Callback \ {b} : call'[c] = call[c]
    BY <1>0, <1>7, CallbackKeeps DEF Keeps, IInv
  <2>3. CASE UNCHANGED <<token, value, held>>
    BY <1>0, <1>1, <2>1, <2>2, <2>3 DEF Issuers, HeldIsIssued
  <2>4. CASE CreateAuthToken(b) /\ ~UNCHANGED tokens
    <3>. DEFINE r == call[b].req
    <3>1. r \in Request
      BY <1>0, <2>4 DEF CreateAuthToken, Own, Known, Running
    <3>2. /\ token' = [token EXCEPT ![r] = "pending"]
          /\ value' = [value EXCEPT ![r] = b]
          /\ held' = held /\ Return(b, "done")
      BY <2>4 DEF CreateAuthToken, client
    <3>3. call'[b].at = "done"
      BY <1>0, <3>2, ReturnType
    <3>4. held[r] # b
      BY <1>0, <2>1, <3>1 DEF Issuers
    <3>. HIDE DEF r
    <3>5. \A s \in Request : s # r => token'[s] = token[s] /\ value'[s] = value[s]
      BY <1>1, <3>2
    <3>6. token'[r] = "pending" /\ value'[r] = b
      BY <1>1, <3>1, <3>2
    <3>7. Issuers'
      BY <1>0, <1>1, <2>1, <2>2, <3>1, <3>2, <3>3, <3>5, <3>6 DEF Issuers
    <3>8. HeldIsIssued'
      BY <1>0, <3>1, <3>2, <3>4, <3>5, <3>6 DEF HeldIsIssued
    <3>. QED
      BY <3>7, <3>8
  <2>. QED
    BY <1>7, <2>3, <2>4, ZenonT(40) DEF CallbackStep, CallbackStart, Exchange, upsertAccount,
       ListManagedGroups, GetTicket, CompareMemberships, RedeemTicket,
       LookupUserWithLogin, AutoVivify, CreateAuthToken, Crash, rows, tokens, client
<1>. QED
  BY <1>6, <1>7, Steps

-----------------------------------------------------------------------------
(* The invariant. *)

LEMMA InitInv == Init => IInv
<1>. SUFFICES ASSUME Init PROVE IInv
  OBVIOUS
<1>1. \A b \in Callback : call[b] = Blank
  BY DEF Init
<1>2. /\ Blank.at = "idle" /\ Blank \in Call
  BY DEF Blank, Call
<1>3. RowsOK
  <2>1. userOf \in [Account -> User \union {Null}] /\ users \subseteq User
    BY DEF Init
  <2>2. version \in [Group -> Nat] /\ filter \in [Group -> Filter \union {Null}]
    BY DEF Init
  <2>3. member \in [Account -> SUBSET {g \in Group : Exists(g)}]
    BY DEF Init
  <2>. QED
    BY <2>1, <2>2, <2>3 DEF Init, RowsOK
<1>4. call \in [Callback -> Call] /\ disturbed \in [Callback -> BOOLEAN]
      /\ gone \in [Callback -> BOOLEAN]
  BY <1>2 DEF Init
<1>5. \A b \in Callback : Own(b)
  BY <1>1, <1>2 DEF Own, Known, Evaluated, Compared, Undisturbed, InGroups, Running
<1>6. LocksHeld
  BY <1>1, <1>2 DEF LocksHeld
<1>7. Versioned
  BY DEF Init, Versioned, Exists
<1>8. AssociationsConsistent /\ Issuers /\ HeldIsIssued
  BY DEF Init, Issuers, HeldIsIssued
<1>. QED
  BY <1>3, <1>4, <1>5, <1>6, <1>7, <1>8, RowsAndCalls DEF IInv

LEMMA StutterInv == IInv /\ UNCHANGED vars => IInv'
<1>. SUFFICES ASSUME IInv, UNCHANGED vars PROVE IInv'
  OBVIOUS
<1>1. /\ UNCHANGED <<active, config, primary, accounts, userOf, users, born>>
      /\ UNCHANGED <<filter, version, ticket, member, token, tokenOf, value, overdue>>
      /\ UNCHANGED <<attempt, started, held, call, disturbed, gone, changes>>
  BY DEF vars, rows, method, accts, groups, tokens, client
<1>2. TypeOK'
  BY <1>1 DEF IInv, TypeOK, Exists
<1>3. \A b \in Callback : Own(b)'
  BY <1>1 DEF IInv, Own, Known, Evaluated, Compared, Undisturbed, Matched,
     VersionsMatch, RowsAsExpected, Exists
<1>4. LocksHeld' /\ Versioned'
  BY <1>1 DEF IInv, LocksHeld, Versioned, Matched, VersionsMatch, Exists
<1>5. AssociationsConsistent' /\ Issuers' /\ HeldIsIssued'
  BY <1>1 DEF IInv, AssociationsConsistent, Issuers, HeldIsIssued
<1>. QED
  BY <1>2, <1>3, <1>4, <1>5 DEF IInv

\* The invariant holds in every state of every behaviour.
THEOREM Inductive == Spec => []IInv
<1>1. IInv /\ [Next]_vars => IInv'
  <2>1. IInv /\ Next => IInv'
    BY TypeStep, OwnStep, LocksStep, VersionedStep, AssociationsStep, TokensStep
    DEF IInv
  <2>. QED
    BY <2>1, StutterInv
<1>. QED
  BY <1>1, InitInv, PTL DEF Spec

\* The types of the variables with the foreign keys of tokens and memberships.
THEOREM TypeCorrect == Spec => []TypeOK
<1>1. IInv => TypeOK
  BY DEF IInv
<1>. QED
  BY <1>1, Inductive, PTL

\* Whatever logins and administrators do to them, the user of an account exists
\* and no other account has it.
THEOREM AssociationsStayConsistent == Spec => []AssociationsConsistent
<1>1. IInv => AssociationsConsistent
  BY DEF IInv
<1>. QED
  BY <1>1, Inductive, PTL

\* A client that holds the value of a stored token holds an issued one.
THEOREM HeldTokensIssued == Spec => []HeldIsIssued
<1>1. IInv => HeldIsIssued
  BY DEF IInv
<1>. QED
  BY <1>1, Inductive, PTL

-----------------------------------------------------------------------------
(* Action properties. *)

LEMMA Stutter ==
    ASSUME UNCHANGED vars
    PROVE  UNCHANGED <<token, call, userOf>>
  BY DEF vars, rows, accts, tokens

\* Tokens that are issued or closed stay so until they are deleted.
THEOREM TokensOnlyMoveForward == Spec => StatusForward
<1>. DEFINE P == \A r \in Request :
        token[r] \in {"issued", "failed"} => token'[r] \in {token[r], "none"}
<1>1. IInv /\ Next => P
  <2>. SUFFICES ASSUME IInv, Next PROVE P
    OBVIOUS
  <2>0. token \in [Request -> {"none", "pending", "issued", "failed"}]
    BY DEF IInv, TypeOK
  <2>1. CASE UNCHANGED token
    BY <2>1
  <2>2. ASSUME NEW R, RemoveTokens(R) PROVE P
    <3>1. token' = [r \in Request |-> IF r \in R THEN "none" ELSE token[r]]
      BY <2>2 DEF RemoveTokens
    <3>2. \A r \in Request : token'[r] \in {token[r], "none"}
      BY <3>1
    <3>. QED
      BY <3>2
  <2>3. ASSUME NEW b \in Callback, CallbackStep(b) PROVE P
    <3>1. CASE CreateAuthToken(b)
      <4>1. call[b].req \in Request
        BY <3>1 DEF CreateAuthToken, IInv, Own, Known, Running
      <4>. QED
        BY <2>0, <3>1, <4>1 DEF CreateAuthToken, tokens
    <3>. QED
      BY <2>1, <2>3, <3>1, ZenonT(40) DEF CallbackStep, CallbackStart, Exchange,
         upsertAccount, ListManagedGroups, GetTicket, CompareMemberships, RedeemTicket,
         LookupUserWithLogin, AutoVivify, Crash, rows, tokens
  <2>4. ASSUME NEW r \in Request, TokenRequest(r) PROVE P
    BY <2>0, <2>4 DEF TokenRequest
  <2>5. ASSUME CloseExpiredPendingTokens PROVE P
    BY <2>0, <2>5 DEF CloseExpiredPendingTokens, Closable
  <2>6. ASSUME OtherStep PROVE P
    <3>. HIDE DEF P
    <3>. QED
      BY <2>1, <2>2, <2>4, <2>5, <2>6 DEF OtherStep, TokenStep, StartAuth,
         AttemptExpires, TokenExpires, ValidateToken, Administer, DeleteAuthToken,
         UpdateAuthMethod, transitionAuthMethodTo, SetPrimaryAuthMethod, CreateUser,
         DeleteUser, associateUserWithAccounts, dissociateUserFromAccounts, SetUserAccounts,
         DeleteAccount, CreateManagedGroup, UpdateManagedGroup, DeleteManagedGroup,
         rows, tokens
  <2>. HIDE DEF P
  <2>. QED
    BY <2>3, <2>6, Steps
<1>2. UNCHANGED vars => P
  BY Stutter
<1>3. IInv /\ [Next]_vars => [P]_vars
  BY <1>1, <1>2
<1>. QED
  BY <1>3, Inductive, PTL DEF Spec, StatusForward

\* A callback that nobody disturbs fails only with an error about the login
\* itself.
THEOREM OnlyDisturbedCallbacksFail == Spec => OnlyDisturbedFails
<1>. DEFINE P == \A b \in Callback :
        call[b].at # "failed" /\ call'[b].at = "failed" => disturbed[b] \/ Refused(b)
<1>1. IInv /\ Next => P
  <2>. SUFFICES ASSUME IInv, Next, NEW b \in Callback, call[b].at # "failed",
                       call'[b].at = "failed", ~disturbed[b], ~Refused(b)
                PROVE  FALSE
    OBVIOUS
  <2>0. TypeOK /\ Versioned /\ Own(b) /\ call \in [Callback -> Call]
    BY DEF IInv, TypeOK
  <2>1. PICK c \in Callback : CallbackStep(c) /\ Observe(c)
    BY Steps
  <2>2. c = b
    BY <2>0, <2>1, CallbackKeeps DEF Keeps, IInv
  <2>3. CallbackStep(b)
    BY <2>1, <2>2
  <2>4. ~Return(b, "done")
    BY <2>0, ReturnType
  <2>5. \A step \in Running : ~Goto(b, step)
    BY <2>0 DEF Goto, Assign, Call, Running
  <2>6. ~GroupsDone(b)
    BY <2>0, GroupsDoneType
  <2>7. ~CreateAuthToken(b)
    BY <2>0, <2>4 DEF CreateAuthToken, Own, Undisturbed, Running, Refused
  <2>8. ~AutoVivify(b)
    <3>1. ASSUME NEW u, Assign(b, [call[b] EXCEPT !.at = "token", !.user = u])
          PROVE  FALSE
      BY <2>0, <3>1 DEF Assign, Call
    <3>. QED
      BY <2>0, <3>1 DEF AutoVivify, Own, Undisturbed, Running
  <2>9. ~LookupUserWithLogin(b)
    <3>1. ASSUME NEW u, Assign(b, [call[b] EXCEPT !.at = "token", !.user = u])
          PROVE  FALSE
      BY <2>0, <3>1 DEF Assign, Call
    <3>. QED
      BY <2>0, <2>5, <3>1 DEF LookupUserWithLogin, Own, Undisturbed, Running, Refused
  <2>10. ~RedeemTicket(b)
    BY <2>0, <2>6 DEF RedeemTicket, Own, Undisturbed, Assign, Call
  <2>11. ~CompareMemberships(b)
    <3>1. ASSUME CompareMemberships(b) PROVE VersionsMatch(b)
      BY <2>0, <3>1 DEF CompareMemberships, Own, Undisturbed, InGroups
    <3>2. ASSUME NEW w, NEW d,
                 Assign(b, [call[b] EXCEPT !.at = "redeem", !.drop = d, !.want = w])
          PROVE  FALSE
      BY <2>0, <3>2 DEF Assign, Call
    <3>. QED
      BY <2>6, <3>1, <3>2 DEF CompareMemberships
  <2>12. ~GetTicket(b)
    BY <2>0 DEF GetTicket, Assign, Call
  <2>13. ~ListManagedGroups(b)
    <3>1. ASSUME Assign(b, [call[b] EXCEPT !.at = "lookup", !.faulty = {}])
          PROVE  FALSE
      BY <2>0, <3>1 DEF Assign, Call
    <3>2. ASSUME NEW m, NEW w,
                 Assign(b, [call[b] EXCEPT !.at = "ticket", !.faulty = {},
                                           !.matched = m, !.want = w])
          PROVE  FALSE
      BY <2>0, <3>2 DEF Assign, Call
    <3>. QED
      BY <3>1, <3>2 DEF ListManagedGroups, Refused
  <2>14. ~upsertAccount(b) /\ ~Crash(b)
    BY <2>4, <2>5 DEF upsertAccount, Crash, Running
  <2>15. ~Exchange(b)
    BY <2>0, <2>4 DEF Exchange, Assign, Call
  <2>16. \A r \in Request : ~CallbackStart(b, r)
    BY <2>0, <2>4 DEF CallbackStart, Assign, Call
  <2>. QED
    BY <2>3, <2>7, <2>8, <2>9, <2>10, <2>11, <2>12, <2>13, <2>14, <2>15, <2>16
    DEF CallbackStep
<1>2. UNCHANGED vars => P
  BY Stutter
<1>3. IInv /\ [Next]_vars => [P]_vars
  BY <1>1, <1>2
<1>. QED
  BY <1>3, Inductive, PTL DEF Spec, OnlyDisturbedFails

\* The user of an account is replaced only by a login that raced with the one
\* that associated it.
THEOREM ReplacementsAreRaces == Spec => ReplacedOnlyByRacingLogin
<1>. DEFINE Raced(a) == \E b \in Callback :
                /\ call[b].acct = a /\ disturbed[b]
                /\ call[b].at = "vivify" /\ call'[b].at = "token"
            P == \A a \in Account :
                userOf[a] # Null /\ userOf'[a] \notin {Null, userOf[a]} => Raced(a)
<1>1. IInv /\ Next => P
  <2>. SUFFICES ASSUME IInv, Next, NEW a \in Account, userOf[a] # Null,
                       userOf'[a] \notin {Null, userOf[a]}
                PROVE  Raced(a)
    OBVIOUS
  <2>0. /\ TypeOK /\ userOf \in [Account -> User \union {Null}]
        /\ call \in [Callback -> Call]
    BY DEF IInv, TypeOK
  <2>1. ~UNCHANGED userOf
    OBVIOUS
  <2>2. ASSUME NEW b \in Callback, AutoVivify(b) PROVE Raced(a)
    <3>1. call[b].at = "vivify" /\ call[b].acct \in Account
      BY <2>2 DEF AutoVivify, IInv, Own, Known, Running
    <3>2. PICK u \in User :
            /\ userOf' = [userOf EXCEPT ![call[b].acct] = u]
            /\ Assign(b, [call[b] EXCEPT !.at = "token", !.user = u])
      BY <2>1, <2>2 DEF AutoVivify
    <3>3. call[b].acct = a
      BY <2>0, <3>1, <3>2
    <3>4. disturbed[b]
      BY <3>1, <3>3 DEF IInv, Own, Undisturbed
    <3>5. call'[b].at = "token"
      BY <2>0, <3>2 DEF Assign, Call
    <3>. QED
      BY <3>1, <3>3, <3>4, <3>5
  <2>3. ASSUME NEW u \in User, DeleteUser(u) PROVE FALSE
    BY <2>0, <2>3 DEF DeleteUser
  <2>4. ASSUME NEW u \in User, NEW d \in Account,
               associateUserWithAccounts(u, d) \/ dissociateUserFromAccounts(u, d)
        PROVE  FALSE
    BY <2>0, <2>4 DEF associateUserWithAccounts, dissociateUserFromAccounts,
       MayAssociate
  <2>5. ASSUME NEW d \in Account, DeleteAccount(d) PROVE FALSE
    BY <2>0, <2>5 DEF DeleteAccount
  <2>8. ASSUME NEW u \in User, NEW A \in SUBSET Account, SetUserAccounts(u, A)
        PROVE  FALSE
    BY <2>0, <2>8 DEF SetUserAccounts, MayAssociate
  <2>6. ASSUME OtherStep PROVE FALSE
    BY <2>1, <2>3, <2>4, <2>5, <2>6, <2>8 DEF OtherStep, TokenStep, StartAuth,
       AttemptExpires, TokenRequest, TokenExpires, ValidateToken,
       CloseExpiredPendingTokens, Administer, DeleteAuthToken, UpdateAuthMethod,
       transitionAuthMethodTo, SetPrimaryAuthMethod, CreateUser,
       CreateManagedGroup, UpdateManagedGroup, DeleteManagedGroup, rows, accts
  <2>7. ASSUME NEW b \in Callback, CallbackStep(b) PROVE AutoVivify(b)
    BY <2>1, <2>7, ZenonT(40) DEF CallbackStep, CallbackStart, Exchange, upsertAccount,
       ListManagedGroups, GetTicket, CompareMemberships, RedeemTicket,
       LookupUserWithLogin, CreateAuthToken, Crash, rows, accts
  <2>. HIDE DEF Raced
  <2>. QED
    BY <2>2, <2>6, <2>7, Steps
<1>2. UNCHANGED vars => P
  BY Stutter
<1>3. IInv /\ [Next]_vars => [P]_vars
  BY <1>1, <1>2
<1>. QED
  BY <1>3, Inductive, PTL DEF Spec, ReplacedOnlyByRacingLogin

\* A first try of SetManagedGroupMemberships that succeeds leaves the account in
\* the groups that matched, and in no others, with the filters they have then.
THEOREM MembershipsAsMatched == Spec => GroupsAsMatched
<1>. DEFINE P == \A b \in Callback :
        /\ call[b].at \in {"groups", "redeem"} /\ call'[b].at = "lookup"
        /\ ~call[b].retried
        => GroupsSet(b)
<1>1. IInv /\ Next => P
  <2>. SUFFICES ASSUME IInv, Next, NEW b \in Callback,
                       call[b].at \in {"groups", "redeem"}, call'[b].at = "lookup",
                       ~call[b].retried, ~gone[b]
                PROVE  /\ member'[call[b].acct] = Matched(b)
                       /\ \A g \in Matched(b) : filter[g] \in call[b].claims
    BY DEF GroupsSet
  <2>0. TypeOK /\ Versioned /\ Own(b) /\ call \in [Callback -> Call]
    BY DEF IInv, TypeOK
  <2>1. PICK c \in Callback : CallbackStep(c) /\ Observe(c)
    BY Steps
  <2>2. c = b
    <3>1. Keeps(c)
      BY <2>0, <2>1, CallbackKeeps, ZenonT(40) DEF IInv
    <3>. QED
      BY <3>1 DEF Keeps
  <2>3. CompareMemberships(b) \/ RedeemTicket(b)
    <3>1. ~Crash(b)
      BY <2>0, ReturnType DEF Crash
    <3>. QED
      BY <2>1, <2>2, <3>1, ZenonT(40) DEF CallbackStep, CallbackStart, Exchange,
         upsertAccount, ListManagedGroups, GetTicket, LookupUserWithLogin, AutoVivify,
         CreateAuthToken
  <2>4. ~Return(b, "failed")
    BY <2>0, ReturnType
  <2>5. call[b].acct \in Account
    BY <2>0 DEF Own, Known, Running
  <2>6. ASSUME VersionsMatch(b) PROVE \A g \in Matched(b) : filter[g] \in call[b].claims
    BY <2>0, <2>6 DEF Own, Evaluated, VersionsMatch, InGroups
  <2>7. CASE CompareMemberships(b)
    <3>1. /\ VersionsMatch(b) /\ Matched(b) = {}
          /\ member[call[b].acct] \ call[b].want = {} /\ UNCHANGED member
      BY <2>0, <2>4, <2>7 DEF CompareMemberships, Assign, Call, rows, groups
    <3>2. call[b].want = Matched(b)
      BY <2>0, <2>7 DEF CompareMemberships, Own, Compared
    <3>. QED
      BY <2>6, <3>1, <3>2
  <2>8. CASE RedeemTicket(b)
    <3>1. /\ call[b].at = "redeem" /\ ticket = call[b].ticket
          /\ member' = [member EXCEPT ![call[b].acct] =
                (@ \ call[b].drop) \union call[b].want]
      BY <2>0, <2>4, <2>8 DEF RedeemTicket, Assign, Call
    <3>2. VersionsMatch(b)
      BY <3>1 DEF IInv, LocksHeld
    <3>3. /\ call[b].drop = member[call[b].acct] \ Matched(b)
          /\ call[b].want = Matched(b) \ member[call[b].acct]
      BY <2>0, <3>1 DEF Own, Compared
    <3>4. member'[call[b].acct] =
            (member[call[b].acct] \ call[b].drop) \union call[b].want
      BY <2>0, <2>5, <3>1 DEF TypeOK
    <3>. QED
      BY <2>6, <3>2, <3>3, <3>4
  <2>. QED
    BY <2>3, <2>7, <2>8
<1>2. UNCHANGED vars => P
  BY Stutter
<1>3. IInv /\ [Next]_vars => [P]_vars
  BY <1>1, <1>2
<1>. QED
  BY <1>3, Inductive, PTL DEF Spec, GroupsAsMatched

=============================================================================
