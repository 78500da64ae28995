------------------------- MODULE SessionRacesProofs -------------------------
(***************************************************************************)
(* Proofs about SessionRaces, for any number of sessions and concurrent    *)
(* transactions.  The invariant says what a transaction holds at each of   *)
(* its steps, that no two hold the same row, and what the committed rows   *)
(* of a session tell about each other.                                     *)
(***************************************************************************)
EXTENDS SessionRaces, FiniteSetTheorems, TLAPS

\* Transactions that update the session row before they insert a state.
Locker == Canceler \union UserDeleter \union Ticker

\* Where a transaction can be.
Place(x) ==
    /\ x \in Activator => pc[x] \in {"idle", "ready", "insert", "end", "update",
                                     "commit", "duplicate", "done"}
    /\ x \in Canceler => pc[x] \in {"idle", "ready", "select", "insert", "end",
                                    "commit", "done"}
    /\ x \in UserDeleter => pc[x] \in {"idle", "select", "insert", "end", "commit",
                                       "done"}
    /\ x \in HostDeleter => pc[x] \in {"idle", "insert", "end", "commit", "done"}
    /\ x \in Authorizer => pc[x] \in {"idle", "commit", "done"}
    /\ x \in Ticker => pc[x] \in {"idle", "lock", "trigger", "insert", "end"}
    /\ x \in Request /\ outcome[x] # "none" => pc[x] = "done"

\* The rows a transaction has updated or inserted: none before it begins and
\* after its end, and its own session's only.
Holding(x) ==
    /\ pc[x] \in {"idle", "ready", "select", "lock", "duplicate", "done"} =>
           added[x] = {} /\ rowLock[x] = {}
    /\ x \in Request /\ pc[x] \in {"insert", "end"} =>
           added[x] = {} /\ rowLock[x] = {}
    /\ pc[x] \in {"idle", "ready", "duplicate", "done"} => locked[x] = {}
    /\ x \in Activator /\ pc[x] # "commit" => locked[x] = {}
    /\ x \in Request => locked[x] \subseteq {On[x]}
    /\ x \in Canceler \union UserDeleter
           /\ pc[x] \in {"select", "insert", "end", "commit"} => On[x] \in locked[x]
    /\ pc[x] \in {"insert", "end"} =>
           IF x \in Ticker THEN at[x] \in locked[x] ELSE at[x] = On[x]
    /\ x \in Ticker /\ pc[x] \in {"trigger", "insert", "end"} =>
           todo[x] \subseteq locked[x]

\* A state row that is inserted is new, one that is ended makes room for it.
Inserted(x) ==
    /\ \A s \in Session, q \in State : <<s, q>> \in added[x] =>
           /\ q = StateOf(x) /\ q \notin states[s] /\ x \notin Authorizer
           /\ IF x \in Ticker THEN s \in locked[x] ELSE s = On[x]
    /\ \A s \in Session, p \in State : <<s, p>> \in rowLock[x] =>
           <<s, StateOf(x)>> \in added[x] /\ <<p, StateOf(x)>> \in session_valid_state

\* What an activation that began late has seen of the end of its session.
Activation(x) ==
    x \in Activator =>
        LET s == On[x] IN
        /\ pc[x] \in {"update", "commit"} => <<s, "active">> \in added[x]
        /\ pc[x] = "duplicate" => "active" \in states[s]
        /\ outcome[x] \in {"ok", "duplicate"} => tofu[s] = Token[x]
        /\ late[x] \subseteq states[s]
        /\ pc[x] = "end" =>
               /\ target[x] \subseteq states[s]
               /\ late[x] # {} => target[x] \intersect EndState # {}
               /\ "terminated" \in late[x] => "terminated" \in target[x]
        /\ (pc[x] \in {"update", "commit"} \/ outcome[x] = "ok") /\ late[x] # {} =>
               late[x] = {"canceling"} /\ "terminated" \in states[s]

\* A cancellation found the session ended, or ends it.
Cancellation(x) ==
    x \in Canceler \union UserDeleter \union HostDeleter =>
        /\ pc[x] = "commit" => \/ <<On[x], "canceling">> \in added[x]
                               \/ states[On[x]] \intersect EndState # {}
        /\ outcome[x] = "ok" => states[On[x]] \intersect EndState # {}

\* A session whose row a termination has updated is still to be looked at, or
\* it is terminated.
Termination(x) ==
    x \in Ticker /\ pc[x] \in {"trigger", "insert", "end"} =>
        \A s \in locked[x] : \/ s \in todo[x]
                             \/ pc[x] # "trigger" /\ at[x] = s
                             \/ "terminated" \in states[s]
                             \/ <<s, "terminated">> \in added[x]

\* A transaction that does not update the session row has changed the rows.
Disturbed(s) == \E x \in Activator \union HostDeleter : On[x] = s /\ outcome[x] = "ok"

\* Otherwise who holds the session row sees every current state row and ends it.
Serial(x) ==
    x \in Locker => \A s \in Session : ~Disturbed(s) =>
        /\ pc[x] = "end" /\ at[x] = s => target[x] = current[s]
        /\ <<s, StateOf(x)>> \in added[x] =>
               \A q \in current[s] : <<s, q>> \in rowLock[x]

Mine(x) == /\ Place(x) /\ Holding(x) /\ Inserted(x) /\ Activation(x)
           /\ Cancellation(x) /\ Termination(x) /\ Serial(x)

\* Two transactions never update the same session row or insert the same
\* state row.
Exclusive ==
    \A x, y \in Tx : x # y => /\ locked[x] \intersect locked[y] = {}
                              /\ added[x] \intersect added[y] = {}

\* The committed rows of a session: a termination stays current, and ends the
\* only current row an end of the session may lose.
CommittedRows(s) ==
    /\ current[s] \subseteq states[s]
    /\ "terminated" \in states[s] => "terminated" \in current[s]
    /\ "canceling" \in states[s] => current[s] \intersect EndState # {}
    /\ tofu[s] # Null <=> "active" \in states[s]
    /\ ended[s] => "terminated" \in states[s]
    /\ ~Disturbed(s) => \E q \in State : current[s] = {q}

IInv ==
    /\ TypeOK
    /\ \A x \in Tx : Mine(x)
    /\ Exclusive
    /\ \A s \in Session : CommittedRows(s)

\* Only the transaction x moves, and its answer is final.
Only(x) ==
    /\ \A y \in Tx \ {x} :
           /\ pc'[y] = pc[y] /\ at'[y] = at[y] /\ todo'[y] = todo[y]
           /\ target'[y] = target[y] /\ rowLock'[y] = rowLock[y]
           /\ added'[y] = added[y] /\ locked'[y] = locked[y]
    /\ \A y \in Activator \ {x} : late'[y] = late[y]
    /\ \A y \in Request \ {x} : outcome'[y] = outcome[y]
    /\ x \in Request /\ outcome[x] = "ok" => outcome'[x] = "ok"

-----------------------------------------------------------------------------
(* The frame of a statement.                                               *)

\* A transaction has one kind, which determines the state it inserts.
LEMMA Kinds ==
    ASSUME NEW x \in Tx
    PROVE  /\ x \in Request <=> x \notin Ticker
           /\ x \in Locker <=> x \in Canceler \/ x \in UserDeleter \/ x \in Ticker
           /\ x \in Request => On[x] \in Session
           /\ x \in Activator => /\ x \in Request /\ StateOf(x) = "active"
                                 /\ x \notin Locker
                                 /\ x \notin HostDeleter /\ x \notin Authorizer
           /\ x \in Ticker => StateOf(x) = "terminated"
           /\ x \notin Ticker /\ x \notin Activator => StateOf(x) = "canceling"
           /\ StateOf(x) \in State
           /\ x \in HostDeleter => x \notin Locker /\ x \notin Authorizer
           /\ x \in Authorizer => x \notin Locker
           /\ x \in Canceler => x \notin UserDeleter
  BY KindAssumption, RequestAssumption
  DEF Tx, Request, Locker, StateOf, State, EndState

\* A session whose rows were changed without its row stays so.
LEMMA DisturbedStays ==
    ASSUME NEW x \in Tx, Only(x), NEW s \in Session, Disturbed(s)
    PROVE  Disturbed(s)'
  BY DEF Disturbed, Only, Request

\* What another transaction does before it commits does not concern y.
LEMMA OthersKeep ==
    ASSUME IInv, NEW x \in Tx, Only(x), UNCHANGED committed, NEW y \in Tx \ {x}
    PROVE  Mine(y)'
<1>1. /\ pc'[y] = pc[y] /\ at'[y] = at[y] /\ todo'[y] = todo[y]
      /\ target'[y] = target[y] /\ rowLock'[y] = rowLock[y]
      /\ added'[y] = added[y] /\ locked'[y] = locked[y]
      /\ y \in Activator => late'[y] = late[y]
      /\ y \in Request => outcome'[y] = outcome[y]
      /\ states' = states /\ current' = current /\ tofu' = tofu
      /\ Mine(y)
  BY DEF Only, committed, IInv
<1>2. Place(y)'
  BY <1>1 DEF Mine, Place
<1>3. Holding(y)'
  BY <1>1 DEF Mine, Holding
<1>4. Inserted(y)'
  BY <1>1 DEF Mine, Inserted, StateOf
<1>5. Activation(y)'
  BY <1>1 DEF Mine, Activation, Request
<1>6. Cancellation(y)'
  BY <1>1 DEF Mine, Cancellation, Request
<1>7. Termination(y)'
  BY <1>1 DEF Mine, Termination
<1>8. Serial(y)'
  BY <1>1, DisturbedStays DEF Mine, Serial, StateOf
<1>. QED
  BY <1>2, <1>3, <1>4, <1>5, <1>6, <1>7, <1>8 DEF Mine

\* A statement of x keeps the invariant if x gets no row that another holds.
LEMMA StatementKeeps ==
    ASSUME IInv, NEW x \in Tx, Only(x), UNCHANGED committed, TypeOK', Mine(x)',
           \A y \in Tx \ {x} : /\ locked'[x] \intersect locked[y] = {}
                               /\ added'[x] \intersect added[y] = {}
    PROVE  IInv'
<1>1. \A y \in Tx : Mine(y)'
  BY OthersKeep
<1>2. Exclusive'
  BY DEF Only, Exclusive, IInv
<1>3. ASSUME NEW s \in Session PROVE CommittedRows(s)'
  BY DisturbedStays DEF IInv, CommittedRows, committed
<1>. QED
  BY <1>1, <1>2, <1>3 DEF IInv

\* ... in particular if x gets no row at all.
LEMMA NoNewRowKeeps ==
    ASSUME IInv, NEW x \in Tx, Only(x), UNCHANGED committed, TypeOK', Mine(x)',
           locked'[x] \subseteq locked[x], added'[x] \subseteq added[x]
    PROVE  IInv'
<1>1. \A y \in Tx \ {x} : /\ locked'[x] \intersect locked[y] = {}
                          /\ added'[x] \intersect added[y] = {}
  BY DEF IInv, Exclusive
<1>. QED
  BY <1>1, StatementKeeps

-----------------------------------------------------------------------------
(* Failing.                                                                *)

\* A transaction that has ended without success, or has not begun, holds
\* nothing; of the invariant, its place and the history of an activation are
\* left to show.
LEMMA ReleasedMine ==
    ASSUME IInv, NEW x \in Tx, UNCHANGED committed, UNCHANGED late,
           added'[x] = {}, rowLock'[x] = {}, locked'[x] = {},
           pc'[x] \in {"idle", "ready", "duplicate", "done"}, Place(x)',
           pc'[x] = "duplicate" /\ x \in Activator => "active" \in states[On[x]],
           x \in Request => outcome'[x] \in {outcome[x], "error"}
    PROVE  Mine(x)'
<1>1. Mine(x) /\ states' = states /\ current' = current /\ tofu' = tofu
  BY DEF IInv, committed
<1>2. Holding(x)' /\ Inserted(x)' /\ Termination(x)' /\ Serial(x)'
  BY Kinds DEF Holding, Inserted, Termination, Serial
<1>3. Activation(x)'
  BY <1>1, Kinds DEF Mine, Activation
<1>4. Cancellation(x)'
  BY <1>1, Kinds DEF Mine, Cancellation, Request
<1>. QED
  BY <1>2, <1>3, <1>4 DEF Mine

\* What Release does.
LEMMA ReleaseType ==
    ASSUME TypeOK, NEW x \in Tx, Release(x)
    PROVE  /\ seen' = seen
           /\ at' \in [Tx -> Session \union {Null}]
           /\ todo' \in [Tx -> SUBSET Session]
           /\ target' \in [Tx -> SUBSET State]
           /\ rowLock' \in [Tx -> SUBSET (Session \X State)]
           /\ added' \in [Tx -> SUBSET (Session \X State)]
           /\ locked' \in [Tx -> SUBSET Session]
           /\ added'[x] = {} /\ rowLock'[x] = {} /\ locked'[x] = {}
           /\ \A y \in Tx \ {x} :
                  /\ at'[y] = at[y] /\ todo'[y] = todo[y]
                  /\ target'[y] = target[y] /\ rowLock'[y] = rowLock[y]
                  /\ added'[y] = added[y] /\ locked'[y] = locked[y]
<1>1. /\ at' \in [Tx -> Session \union {Null}]
      /\ \A y \in Tx \ {x} : at'[y] = at[y]
  BY DEF TypeOK, Release
<1>2. /\ todo' \in [Tx -> SUBSET Session] /\ locked' \in [Tx -> SUBSET Session]
      /\ locked'[x] = {}
      /\ \A y \in Tx \ {x} : todo'[y] = todo[y] /\ locked'[y] = locked[y]
  BY DEF TypeOK, Release
<1>3. /\ rowLock' \in [Tx -> SUBSET (Session \X State)]
      /\ added' \in [Tx -> SUBSET (Session \X State)]
      /\ added'[x] = {} /\ rowLock'[x] = {}
      /\ \A y \in Tx \ {x} : rowLock'[y] = rowLock[y] /\ added'[y] = added[y]
  BY DEF TypeOK, Release
<1>4. /\ target' \in [Tx -> SUBSET State]
      /\ \A y \in Tx \ {x} : target'[y] = target[y]
  BY DEF TypeOK, Release
<1>. QED
  BY <1>1, <1>2, <1>3, <1>4 DEF Release

\* What Go does.
Label == {"idle", "ready", "select", "insert", "end", "update", "lock", "trigger",
          "commit", "duplicate", "done"}

LEMMA GoType ==
    ASSUME TypeOK, NEW x \in Tx, NEW label \in Label, Go(x, label)
    PROVE  /\ pc' \in [Tx -> Label] /\ pc'[x] = label
           /\ \A y \in Tx \ {x} : pc'[y] = pc[y]
  BY DEF TypeOK, Go, Label

\* A statement that fails keeps the invariant.
LEMMA FailKeeps ==
    ASSUME IInv, NEW x \in Tx, Fail(x), x \in Request => pc[x] # "done"
    PROVE  IInv'
<1>0. TypeOK /\ Mine(x)
  BY DEF IInv
<1>1. Release(x) /\ UNCHANGED <<committed, expired, late>>
  BY DEF Fail
<1>2. /\ pc' \in [Tx -> Label] /\ pc'[x] = IF x \in Ticker THEN "idle" ELSE "done"
      /\ \A y \in Tx \ {x} : pc'[y] = pc[y]
  BY <1>0, GoType DEF Fail, Label
<1>3. /\ outcome' \in [Request -> {"none", "ok", "duplicate", "error"}]
      /\ \A y \in Request \ {x} : outcome'[y] = outcome[y]
      /\ x \in Request => outcome'[x] = "error" /\ outcome[x] = "none"
  BY <1>0, Kinds DEF Fail, TypeOK, Mine, Place
<1>4. TypeOK'
  BY <1>0, <1>1, <1>2, <1>3, ReleaseType DEF TypeOK, committed, Label
<1>5. Only(x)
  BY <1>0, <1>1, <1>2, <1>3, ReleaseType DEF Only
<1>6. Place(x)'
  BY <1>2, Kinds DEF Place, Request
<1>7. Mine(x)'
  BY <1>0, <1>1, <1>2, <1>3, <1>6, ReleaseType, ReleasedMine
<1>. QED
  BY <1>0, <1>1, <1>4, <1>5, <1>7, ReleaseType, NoNewRowKeeps

LEMMA DeadlockDetectedKeeps ==
    ASSUME IInv, NEW x \in Tx, DeadlockDetected(x)
    PROVE  IInv'
<1>1. pc[x] # "done"
  BY DEF DeadlockDetected, Blockers
<1>. QED
  BY <1>1, FailKeeps DEF DeadlockDetected

LEMMA InterruptedKeeps ==
    ASSUME IInv, NEW x \in Tx, Interrupted(x)
    PROVE  IInv'
  BY FailKeeps DEF Interrupted

\* An insert that meets the state it wants to insert keeps the invariant.
LEMMA FailUniqueKeeps ==
    ASSUME IInv, NEW x \in Tx, pc[x] = "end", StateOf(x) \in states[at[x]],
           FailUnique(x)
    PROVE  IInv'
<1>0. TypeOK /\ Mine(x)
  BY DEF IInv
<1>1. CASE x \notin Activator
  BY <1>1, FailKeeps DEF FailUnique
<1>2. CASE x \in Activator
  <2>1. /\ Release(x) /\ Go(x, "duplicate")
        /\ UNCHANGED <<committed, expired, late, outcome>>
    BY <1>2 DEF FailUnique
  <2>2. /\ pc' \in [Tx -> Label] /\ pc'[x] = "duplicate"
        /\ \A y \in Tx \ {x} : pc'[y] = pc[y]
    BY <1>0, <2>1, GoType DEF Label
  <2>3. TypeOK'
    BY <1>0, <2>1, <2>2, ReleaseType DEF TypeOK, committed, Label
  <2>4. Only(x)
    BY <1>0, <2>1, <2>2, ReleaseType DEF Only
  <2>5. "active" \in states[On[x]] /\ outcome[x] = "none"
    BY <1>0, <1>2, Kinds DEF Mine, Holding, Place
  <2>6. Place(x)'
    BY <1>2, <2>1, <2>2, <2>5, Kinds DEF Place, Locker
  <2>7. Mine(x)'
    BY <1>0, <2>1, <2>2, <2>5, <2>6, ReleaseType, ReleasedMine
  <2>. QED
    BY <1>0, <2>1, <2>3, <2>4, <2>7, ReleaseType, NoNewRowKeeps
<1>. QED
  BY <1>1, <1>2

-----------------------------------------------------------------------------
(* Statements that take no row.                                            *)

LEMMA LookupKeeps ==
    ASSUME IInv, NEW x \in Tx, LookupSession(x) \/ LookupForCancel(x)
    PROVE  IInv'
<1>0. TypeOK /\ Mine(x) /\ x \in Request
  BY Kinds DEF IInv, LookupSession, LookupForCancel, Request
<1>1. /\ x \in Activator \union Canceler /\ pc[x] = "idle"
      /\ seen' = [seen EXCEPT ![x] = version[On[x]]] /\ Go(x, "ready")
      /\ UNCHANGED <<committed, expired, at, todo, target, rowLock, added, locked,
                     late, outcome>>
  BY DEF LookupSession, LookupForCancel
<1>2. /\ pc' \in [Tx -> Label] /\ pc'[x] = "ready"
      /\ \A y \in Tx \ {x} : pc'[y] = pc[y]
  BY <1>0, <1>1, GoType DEF Label
<1>3. seen' \in [Tx -> Nat]
  BY <1>0, <1>1, Kinds DEF TypeOK
<1>4. TypeOK'
  BY <1>0, <1>1, <1>2, <1>3 DEF TypeOK, committed, Label
<1>5. Only(x)
  BY <1>1, <1>2 DEF Only
<1>6. Place(x)'
  BY <1>0, <1>1, <1>2, Kinds DEF Mine, Place, Locker
<1>7. added[x] = {} /\ rowLock[x] = {} /\ locked[x] = {}
  BY <1>0, <1>1 DEF Mine, Holding
<1>8. Mine(x)'
  BY <1>1, <1>2, <1>6, <1>7, ReleasedMine
<1>. QED
  BY <1>1, <1>4, <1>5, <1>8, NoNewRowKeeps

LEMMA getActivatedSessionKeeps ==
    ASSUME IInv, NEW x \in Tx, getActivatedSession(x)
    PROVE  IInv'
<1>0. /\ TypeOK /\ Mine(x) /\ pc[x] = "duplicate" /\ x \in Activator
      /\ x \in Request /\ On[x] \in Session
  BY Kinds DEF IInv, getActivatedSession, Mine, Place, Tx, Request
<1>1. UNCHANGED <<committed, expired, locals, late>>
  BY DEF getActivatedSession
<1>2. /\ pc' \in [Tx -> Label] /\ pc'[x] = "done"
      /\ \A y \in Tx \ {x} : pc'[y] = pc[y]
  BY <1>0, GoType DEF getActivatedSession, Label
<1>3. /\ outcome' \in [Request -> {"none", "ok", "duplicate", "error"}]
      /\ \A y \in Request \ {x} : outcome'[y] = outcome[y]
      /\ outcome'[x] = IF tofu[On[x]] \in {Null, Token[x]} THEN "duplicate" ELSE "error"
      /\ outcome[x] = "none"
  BY <1>0 DEF getActivatedSession, TypeOK, Mine, Place
<1>4. TypeOK'
  BY <1>0, <1>1, <1>2, <1>3 DEF TypeOK, committed, locals, Label
<1>5. Only(x)
  BY <1>1, <1>2, <1>3 DEF Only, locals
<1>6. tofu[On[x]] # Null
  BY <1>0 DEF Mine, Activation, IInv, CommittedRows
<1>7. added[x] = {} /\ rowLock[x] = {} /\ locked[x] = {}
  BY <1>0 DEF Mine, Holding
<1>8. Mine(x)'
  <2>1. Place(x)'
    BY <1>2, Kinds, <1>0 DEF Place
  <2>2. Holding(x)' /\ Inserted(x)' /\ Termination(x)' /\ Serial(x)'
    BY <1>1, <1>2, <1>7 DEF Holding, Inserted, Termination, Serial, locals
  <2>3. Activation(x)'
    BY <1>0, <1>1, <1>2, <1>3, <1>6 DEF Mine, Activation, committed
  <2>4. Cancellation(x)'
    BY <1>0, Kinds, <1>3 DEF Cancellation
  <2>. QED
    BY <2>1, <2>2, <2>3, <2>4 DEF Mine
<1>. QED
  BY <1>1, <1>4, <1>5, <1>8, NoNewRowKeeps DEF locals

LEMMA AuthorizeInsertKeeps ==
    ASSUME IInv, NEW x \in Tx, AuthorizeInsert(x)
    PROVE  IInv'
<1>0. TypeOK /\ Mine(x) /\ x \in Authorizer /\ pc[x] = "idle" /\ x \in Request
  BY DEF IInv, AuthorizeInsert, Request
<1>1. UNCHANGED <<committed, expired, locals, late, outcome>>
  BY DEF AuthorizeInsert
<1>2. /\ pc' \in [Tx -> Label] /\ pc'[x] = "commit"
      /\ \A y \in Tx \ {x} : pc'[y] = pc[y]
  BY <1>0, GoType DEF AuthorizeInsert, Label
<1>3. TypeOK'
  BY <1>0, <1>1, <1>2 DEF TypeOK, committed, locals, Label
<1>4. Only(x)
  BY <1>1, <1>2 DEF Only, locals
<1>5. added[x] = {} /\ rowLock[x] = {} /\ locked[x] = {} /\ outcome[x] = "none"
  BY <1>0 DEF Mine, Holding, Place
<1>6. Mine(x)'
  <2>1. /\ x \notin Locker /\ x \notin Activator /\ x \notin HostDeleter
        /\ x \notin Ticker /\ x \notin Canceler /\ x \notin UserDeleter
    BY <1>0, Kinds DEF Locker
  <2>. QED
    BY <1>0, <1>1, <1>2, <1>5, <2>1 DEF Mine, Place, Holding, Inserted, Activation,
       Cancellation, Termination, Serial, locals
<1>. QED
  BY <1>1, <1>3, <1>4, <1>6, NoNewRowKeeps DEF locals

LEMMA ActivateSelectKeeps ==
    ASSUME IInv, NEW x \in Tx, ActivateSelect(x)
    PROVE  IInv'
<1>0. /\ TypeOK /\ Mine(x) /\ x \in Activator /\ pc[x] = "ready" /\ x \in Request
      /\ On[x] \in Session
  BY Kinds DEF IInv, ActivateSelect
<1>1. UNCHANGED <<committed, expired, seen, todo, target, rowLock, added, locked>>
  BY DEF ActivateSelect
<1>2. /\ late' \in [Activator -> SUBSET EndState]
      /\ late'[x] = states[On[x]] \intersect EndState
      /\ \A y \in Activator \ {x} : late'[y] = late[y]
  BY <1>0 DEF ActivateSelect, TypeOK
<1>3. /\ pc' \in [Tx -> Label] /\ pc'[x] \in {"insert", "done"}
      /\ \A y \in Tx \ {x} : pc'[y] = pc[y]
  BY <1>0, GoType DEF ActivateSelect, Inserting, Label
<1>4. /\ at' \in [Tx -> Session \union {Null}]
      /\ \A y \in Tx \ {x} : at'[y] = at[y]
      /\ pc'[x] = "insert" => at'[x] = On[x]
  <2>1. CASE Inserting(x, On[x])
    BY <1>0, <2>1 DEF Inserting, TypeOK
  <2>2. CASE Go(x, "done") /\ UNCHANGED at
    BY <1>0, <2>2, GoType DEF TypeOK, Label
  <2>. QED
    BY <2>1, <2>2 DEF ActivateSelect
<1>5. /\ outcome' \in [Request -> {"none", "ok", "duplicate", "error"}]
      /\ \A y \in Request \ {x} : outcome'[y] = outcome[y]
      /\ outcome'[x] \in {"none", "error"} /\ outcome[x] = "none"
      /\ pc'[x] = "insert" => outcome'[x] = "none"
  <2>1. outcome[x] = "none"
    BY <1>0 DEF Mine, Place
  <2>2. CASE Inserting(x, On[x]) /\ UNCHANGED outcome
    BY <1>0, <2>1, <2>2 DEF TypeOK
  <2>3. CASE Go(x, "done") /\ outcome' = [outcome EXCEPT ![x] = "error"]
    <3>1. pc'[x] = "done"
      BY <1>0, <2>3, GoType DEF Label
    <3>. QED
      BY <1>0, <2>1, <2>3, <3>1 DEF TypeOK
  <2>. QED
    BY <2>2, <2>3 DEF ActivateSelect
<1>6. TypeOK'
  BY <1>0, <1>1, <1>2, <1>3, <1>4, <1>5 DEF TypeOK, committed, Label
<1>7. Only(x)
  BY <1>1, <1>2, <1>3, <1>4, <1>5 DEF Only
<1>8. added[x] = {} /\ rowLock[x] = {} /\ locked[x] = {}
  BY <1>0 DEF Mine, Holding
<1>9. Mine(x)'
  <2>1. /\ x \notin Locker /\ x \notin HostDeleter /\ x \notin Authorizer
        /\ x \notin Ticker /\ x \notin Canceler /\ x \notin UserDeleter
    BY <1>0, Kinds DEF Locker
  <2>2. Place(x)' /\ Cancellation(x)' /\ Termination(x)' /\ Serial(x)'
    BY <1>3, <1>5, <2>1 DEF Place, Cancellation, Termination, Serial
  <2>3. Holding(x)' /\ Inserted(x)'
    BY <1>1, <1>3, <1>4, <1>8, <2>1 DEF Holding, Inserted
  <2>4. Activation(x)'
    BY <1>1, <1>2, <1>3, <1>5 DEF Activation, committed
  <2>. QED
    BY <2>2, <2>3, <2>4 DEF Mine
<1>. QED
  BY <1>1, <1>6, <1>7, <1>9, NoNewRowKeeps

LEMMA CancelSelectKeeps ==
    ASSUME IInv, NEW x \in Tx, CancelSelect(x)
    PROVE  IInv'
<1>0. /\ TypeOK /\ Mine(x) /\ x \in HostDeleter \union UserDeleter \union Canceler
      /\ pc[x] = (IF x \in HostDeleter THEN "idle" ELSE "select") /\ x \in Request
      /\ On[x] \in Session
  BY Kinds DEF IInv, CancelSelect, Request
<1>1. UNCHANGED <<committed, expired, seen, todo, target, rowLock, added, locked,
                  late, outcome>>
  BY DEF CancelSelect
<1>2. /\ pc' \in [Tx -> Label] /\ pc'[x] \in {"insert", "commit"}
      /\ \A y \in Tx \ {x} : pc'[y] = pc[y]
  BY <1>0, GoType DEF CancelSelect, Inserting, Label
<1>3. /\ at' \in [Tx -> Session \union {Null}]
      /\ \A y \in Tx \ {x} : at'[y] = at[y]
      /\ pc'[x] = "insert" => at'[x] = On[x]
      /\ pc'[x] = "commit" => states[On[x]] \intersect EndState # {}
  <2>1. CASE Inserting(x, On[x])
    <3>1. pc'[x] = "insert"
      BY <1>0, <2>1, GoType DEF Inserting, Label
    <3>. QED
      BY <1>0, <2>1, <3>1 DEF Inserting, TypeOK
  <2>2. CASE Go(x, "commit") /\ UNCHANGED at /\ states[On[x]] \intersect EndState # {}
    <3>1. pc'[x] = "commit"
      BY <1>0, <2>2, GoType DEF Label
    <3>. QED
      BY <1>0, <2>2, <3>1 DEF TypeOK
  <2>. QED
    BY <2>1, <2>2 DEF CancelSelect
<1>4. TypeOK'
  BY <1>0, <1>1, <1>2, <1>3 DEF TypeOK, committed, Label
<1>5. Only(x)
  BY <1>1, <1>2, <1>3 DEF Only
<1>6. added[x] = {} /\ rowLock[x] = {} /\ outcome[x] = "none"
  BY <1>0 DEF Mine, Holding, Place
<1>7. Mine(x)'
  <2>1. x \notin Activator /\ x \notin Authorizer /\ x \notin Ticker
    BY <1>0, Kinds DEF Locker
  <2>2. Place(x)'
    BY <1>0, <1>1, <1>2, <1>6, <2>1, KindAssumption DEF Place
  <2>3. Holding(x)'
    BY <1>0, <1>1, <1>2, <1>3, <1>6, <2>1, KindAssumption DEF Mine, Holding
  <2>4. Inserted(x)' /\ Activation(x)' /\ Termination(x)' /\ Serial(x)'
    BY <1>1, <1>2, <1>6, <2>1 DEF Inserted, Activation, Termination, Serial
  <2>5. Cancellation(x)'
    BY <1>0, <1>1, <1>2, <1>3, <1>6 DEF Cancellation, committed
  <2>. QED
    BY <2>2, <2>3, <2>4, <2>5 DEF Mine
<1>. QED
  BY <1>1, <1>4, <1>5, <1>7, NoNewRowKeeps

LEMMA SnapshotKeeps ==
    ASSUME IInv, NEW x \in Tx, Snapshot(x)
    PROVE  IInv'
<1>0. TypeOK /\ Mine(x) /\ pc[x] = "insert" /\ at[x] \in Session
  BY Kinds DEF IInv, Snapshot, Mine, Holding, TypeOK
<1>1. UNCHANGED <<committed, expired, seen, at, todo, rowLock, added, locked, late,
                  outcome>>
  BY DEF Snapshot
<1>2. /\ pc' \in [Tx -> Label] /\ pc'[x] = "end"
      /\ \A y \in Tx \ {x} : pc'[y] = pc[y]
  BY <1>0, GoType DEF Snapshot, Label
<1>3. /\ target' \in [Tx -> SUBSET State] /\ target'[x] = current[at[x]]
      /\ \A y \in Tx \ {x} : target'[y] = target[y]
  BY <1>0 DEF Snapshot, TypeOK
<1>4. TypeOK'
  BY <1>0, <1>1, <1>2, <1>3 DEF TypeOK, committed, Label
<1>5. Only(x)
  BY <1>1, <1>2, <1>3 DEF Only
<1>6. Mine(x)'
  <2>1. Place(x)'
    BY <1>0, <1>1, <1>2 DEF Mine, Place
  <2>2. Holding(x)'
    BY <1>0, <1>1, <1>2 DEF Mine, Holding
  <2>3. Inserted(x)'
    BY <1>0, <1>1 DEF Mine, Inserted, committed, StateOf
  <2>4. Activation(x)'
    <3>1. ASSUME x \in Activator
          PROVE  /\ at[x] = On[x] /\ CommittedRows(On[x])
                 /\ late[x] \subseteq states[On[x]] /\ late[x] \subseteq EndState
                 /\ outcome[x] = "none"
      BY <1>0, <3>1, Kinds DEF Mine, Holding, Activation, Place, IInv, TypeOK
    <3>2. x \in Activator => /\ target'[x] \subseteq states[On[x]]
                             /\ late[x] # {} => target'[x] \intersect EndState # {}
                             /\ "terminated" \in late[x] => "terminated" \in target'[x]
      BY <1>3, <3>1 DEF CommittedRows, EndState
    <3>. QED
      BY <1>0, <1>1, <1>2, <3>1, <3>2 DEF Mine, Activation, committed
  <2>5. Cancellation(x)'
    BY <1>0, <1>1, <1>2 DEF Mine, Cancellation, committed
  <2>6. Termination(x)'
    BY <1>0, <1>1, <1>2 DEF Mine, Termination, committed
  <2>7. Serial(x)'
    <3>1. \A s \in Session : Disturbed(s)' = Disturbed(s)
      BY <1>1 DEF Disturbed
    <3>. QED
      BY <1>0, <1>1, <1>2, <1>3, <3>1 DEF Mine, Serial, committed, StateOf
  <2>. QED
    BY <2>1, <2>2, <2>3, <2>4, <2>5, <2>6, <2>7 DEF Mine
<1>. QED
  BY <1>1, <1>4, <1>5, <1>6, NoNewRowKeeps

-----------------------------------------------------------------------------
(* Statements that update the session row.                                 *)

\* A row that nobody else has updated.
LEMMA NoHolder ==
    ASSUME NEW x \in Tx, NEW s, Holders(x, s) = {}, NEW y \in Tx \ {x}
    PROVE  s \notin locked[y]
  BY DEF Holders

LEMMA ActivateUpdateKeeps ==
    ASSUME IInv, NEW x \in Tx, ActivateUpdate(x)
    PROVE  IInv'
<1>0. /\ TypeOK /\ Mine(x) /\ x \in Activator /\ pc[x] = "update" /\ x \in Request
      /\ On[x] \in Session
  BY Kinds DEF IInv, ActivateUpdate
<1>1. CASE Fail(x)
  BY <1>0, <1>1, FailKeeps
<1>2. CASE /\ locked' = [locked EXCEPT ![x] = {On[x]}]
           /\ Go(x, "commit")
           /\ UNCHANGED <<committed, expired, seen, at, todo, target, rowLock, added,
                          late, outcome>>
  <2>1. /\ pc' \in [Tx -> Label] /\ pc'[x] = "commit"
        /\ \A y \in Tx \ {x} : pc'[y] = pc[y]
    BY <1>0, <1>2, GoType DEF Label
  <2>2. /\ locked' \in [Tx -> SUBSET Session] /\ locked'[x] = {On[x]}
        /\ \A y \in Tx \ {x} : locked'[y] = locked[y]
    BY <1>0, <1>2 DEF TypeOK
  <2>3. TypeOK'
    BY <1>0, <1>2, <2>1, <2>2 DEF TypeOK, committed, Label
  <2>4. Only(x)
    BY <1>2, <2>1, <2>2 DEF Only
  <2>5. Mine(x)'
    <3>1. /\ x \notin Locker /\ x \notin HostDeleter /\ x \notin Authorizer
          /\ x \notin Ticker /\ x \notin Canceler /\ x \notin UserDeleter
      BY <1>0, Kinds DEF Locker
    <3>2. Place(x)' /\ Cancellation(x)' /\ Termination(x)' /\ Serial(x)'
      BY <1>0, <1>2, <2>1, <3>1 DEF Mine, Place, Cancellation, Termination, Serial
    <3>3. Holding(x)'
      BY <2>1, <2>2, <3>1 DEF Holding
    <3>4. Inserted(x)'
      BY <1>0, <1>2, <3>1 DEF Mine, Inserted, committed, StateOf
    <3>5. Activation(x)'
      BY <1>0, <1>2, <2>1 DEF Mine, Activation, committed
    <3>. QED
      BY <3>2, <3>3, <3>4, <3>5 DEF Mine
  <2>6. Holders(x, On[x]) = {}
    BY <1>0 DEF ActivateUpdate, Blockers
  <2>7. \A y \in Tx \ {x} : /\ locked'[x] \intersect locked[y] = {}
                            /\ added'[x] \intersect added[y] = {}
    BY <1>2, <2>2, <2>6, NoHolder DEF IInv, Exclusive
  <2>. QED
    BY <1>2, <2>3, <2>4, <2>5, <2>7, StatementKeeps
<1>. QED
  BY <1>1, <1>2 DEF ActivateUpdate

LEMMA LockSessionKeeps ==
    ASSUME IInv, NEW x \in Tx, CancelUpdate(x) \/ NullFkUpdate(x)
    PROVE  IInv'
<1>0. /\ TypeOK /\ Mine(x) /\ x \in Request /\ On[x] \in Session
      /\ (x \in Canceler /\ pc[x] = "ready") \/ (x \in UserDeleter /\ pc[x] = "idle")
  BY Kinds DEF IInv, CancelUpdate, NullFkUpdate, Request
<1>1. CASE Fail(x)
  BY <1>0, <1>1, FailKeeps
<1>2. CASE LockSession(x)
  <2>0. /\ locked' = [locked EXCEPT ![x] = {On[x]}] /\ Go(x, "select")
        /\ UNCHANGED <<committed, expired, seen, at, todo, target, rowLock, added,
                       late, outcome>>
    BY <1>2 DEF LockSession
  <2>1. /\ pc' \in [Tx -> Label] /\ pc'[x] = "select"
        /\ \A y \in Tx \ {x} : pc'[y] = pc[y]
    BY <1>0, <2>0, GoType DEF Label
  <2>2. /\ locked' \in [Tx -> SUBSET Session] /\ locked'[x] = {On[x]}
        /\ \A y \in Tx \ {x} : locked'[y] = locked[y]
    BY <1>0, <2>0 DEF TypeOK
  <2>3. TypeOK'
    BY <1>0, <2>0, <2>1, <2>2 DEF TypeOK, committed, Label
  <2>4. Only(x)
    BY <2>0, <2>1, <2>2 DEF Only
  <2>5. added[x] = {} /\ rowLock[x] = {} /\ outcome[x] = "none"
    BY <1>0 DEF Mine, Holding, Place
  <2>6. Mine(x)'
    <3>1. /\ x \notin Activator /\ x \notin HostDeleter /\ x \notin Authorizer
          /\ x \notin Ticker
      BY <1>0, Kinds DEF Locker
    <3>2. Place(x)' /\ Holding(x)'
      BY <1>0, <2>0, <2>1, <2>2, <2>5, <3>1 DEF Mine, Place, Holding
    <3>3. /\ Inserted(x)' /\ Activation(x)' /\ Cancellation(x)' /\ Termination(x)'
          /\ Serial(x)'
      BY <2>0, <2>1, <2>5, <3>1
      DEF Inserted, Activation, Cancellation, Termination, Serial
    <3>. QED
      BY <3>2, <3>3 DEF Mine
  <2>7. Holders(x, On[x]) = {}
    BY <1>0, <1>2, KindAssumption DEF LockSession, Blockers
  <2>8. \A y \in Tx \ {x} : /\ locked'[x] \intersect locked[y] = {}
                            /\ added'[x] \intersect added[y] = {}
    BY <2>0, <2>2, <2>5, <2>7, NoHolder
  <2>. QED
    BY <2>0, <2>3, <2>4, <2>6, <2>8, StatementKeeps
<1>. QED
  BY <1>1, <1>2 DEF CancelUpdate, NullFkUpdate

LEMMA TerminateSelectKeeps ==
    ASSUME IInv, NEW x \in Tx, TerminateSelect(x)
    PROVE  IInv'
<1>0. TypeOK /\ Mine(x) /\ x \in Ticker /\ pc[x] = "idle"
  BY DEF IInv, TerminateSelect
<1>1. UNCHANGED <<committed, expired, seen, at, target, rowLock, added, locked, late,
                  outcome>>
  BY DEF TerminateSelect
<1>2. /\ pc' \in [Tx -> Label] /\ pc'[x] = "lock"
      /\ \A y \in Tx \ {x} : pc'[y] = pc[y]
  BY <1>0, GoType DEF TerminateSelect, Label
<1>3. /\ todo' \in [Tx -> SUBSET Session]
      /\ \A y \in Tx \ {x} : todo'[y] = todo[y]
  BY <1>0 DEF TerminateSelect, TypeOK
<1>4. TypeOK'
  BY <1>0, <1>1, <1>2, <1>3 DEF TypeOK, committed, Label
<1>5. Only(x)
  BY <1>1, <1>2, <1>3, Kinds, <1>0 DEF Only
<1>6. added[x] = {} /\ rowLock[x] = {}
  BY <1>0 DEF Mine, Holding
<1>7. Mine(x)'
  <2>1. /\ x \notin Activator /\ x \notin HostDeleter /\ x \notin Authorizer
        /\ x \notin Canceler /\ x \notin UserDeleter /\ x \notin Request
    BY <1>0, Kinds DEF Request
  <2>. QED
    BY <1>0, <1>1, <1>2, <1>6, <2>1 DEF Mine, Place, Holding, Inserted, Activation,
       Cancellation, Termination, Serial
<1>. QED
  BY <1>1, <1>4, <1>5, <1>7, NoNewRowKeeps

LEMMA TerminateUpdateKeeps ==
    ASSUME IInv, NEW x \in Tx, NEW s \in Session, TerminateUpdate(x, s)
    PROVE  IInv'
<1>0. TypeOK /\ Mine(x) /\ x \in Ticker /\ pc[x] = "lock" /\ s \in todo[x]
  BY Kinds DEF IInv, TerminateUpdate, Mine, Place, Request
<1>1. UNCHANGED <<committed, expired, seen, at, target, rowLock, added, late, outcome>>
  BY DEF TerminateUpdate
<1>2. /\ locked' \in [Tx -> SUBSET Session] /\ locked'[x] \subseteq locked[x] \union {s}
      /\ \A y \in Tx \ {x} : locked'[y] = locked[y]
  BY <1>0 DEF TerminateUpdate, TypeOK
<1>3. /\ pc' \in [Tx -> Label] /\ pc'[x] \in {"lock", "trigger"}
      /\ \A y \in Tx \ {x} : pc'[y] = pc[y]
  <2>1. CASE Go(x, "trigger")
    BY <1>0, <2>1, GoType DEF Label
  <2>2. CASE UNCHANGED pc
    BY <1>0, <2>2 DEF TypeOK, Label
  <2>. QED
    BY <2>1, <2>2 DEF TerminateUpdate
<1>4. /\ todo' \in [Tx -> SUBSET Session]
      /\ \A y \in Tx \ {x} : todo'[y] = todo[y]
      /\ pc'[x] = "trigger" => todo'[x] = locked'[x]
  <2>1. CASE todo' = [todo EXCEPT ![x] = locked'[x]]
    BY <1>0, <1>2, <2>1 DEF TypeOK
  <2>2. CASE todo' = [todo EXCEPT ![x] = @ \ {s}] /\ UNCHANGED pc
    BY <1>0, <2>2 DEF TypeOK
  <2>. QED
    BY <2>1, <2>2 DEF TerminateUpdate
<1>5. TypeOK'
  BY <1>0, <1>1, <1>2, <1>3, <1>4 DEF TypeOK, committed, Label
<1>6. Only(x)
  BY <1>1, <1>2, <1>3, <1>4, Kinds, <1>0 DEF Only
<1>7. added[x] = {} /\ rowLock[x] = {}
  BY <1>0 DEF Mine, Holding
<1>8. Mine(x)'
  <2>1. /\ x \notin Activator /\ x \notin HostDeleter /\ x \notin Authorizer
        /\ x \notin Canceler /\ x \notin UserDeleter /\ x \notin Request
    BY <1>0, Kinds DEF Request
  <2>. QED
    BY <1>0, <1>1, <1>3, <1>4, <1>7, <2>1 DEF Mine, Place, Holding, Inserted,
       Activation, Cancellation, Termination, Serial
<1>9. \A y \in Tx \ {x} : s \notin locked[y]
  BY NoHolder DEF TerminateUpdate
<1>10. \A y \in Tx \ {x} : /\ locked'[x] \intersect locked[y] = {}
                           /\ added'[x] \intersect added[y] = {}
  BY <1>1, <1>2, <1>7, <1>9 DEF IInv, Exclusive
<1>. QED
  BY <1>1, <1>5, <1>6, <1>8, <1>10, StatementKeeps

LEMMA TerminateTriggerKeeps ==
    ASSUME IInv, NEW x \in Tx, NEW s \in Session, TerminateTrigger(x, s)
    PROVE  IInv'
<1>0. TypeOK /\ Mine(x) /\ x \in Ticker /\ pc[x] = "trigger" /\ s \in todo[x]
  BY Kinds DEF IInv, TerminateTrigger, Mine, Place, Request
<1>1. CASE Fail(x)
  BY <1>0, <1>1, FailKeeps
<1>2. CASE open[s] = {}
  <2>0. /\ todo' = [todo EXCEPT ![x] = @ \ {s}]
        /\ IF "terminated" \in states[s] THEN UNCHANGED <<at, pc>> ELSE Inserting(x, s)
        /\ UNCHANGED <<committed, expired, seen, target, rowLock, added, locked, late,
                       outcome>>
    BY <1>2 DEF TerminateTrigger
  <2>1. /\ todo' \in [Tx -> SUBSET Session] /\ todo'[x] = todo[x] \ {s}
        /\ \A y \in Tx \ {x} : todo'[y] = todo[y]
    BY <1>0, <2>0 DEF TypeOK
  <2>2. /\ pc' \in [Tx -> Label]
        /\ pc'[x] = IF "terminated" \in states[s] THEN "trigger" ELSE "insert"
        /\ \A y \in Tx \ {x} : pc'[y] = pc[y]
    <3>1. CASE "terminated" \in states[s]
      BY <1>0, <2>0, <3>1 DEF TypeOK, Label
    <3>2. CASE "terminated" \notin states[s]
      BY <1>0, <2>0, <3>2, GoType DEF Inserting, Label
    <3>. QED
      BY <3>1, <3>2
  <2>3. /\ at' \in [Tx -> Session \union {Null}]
        /\ "terminated" \notin states[s] => at'[x] = s
        /\ \A y \in Tx \ {x} : at'[y] = at[y]
    BY <1>0, <2>0 DEF TypeOK, Inserting
  <2>4. TypeOK'
    BY <1>0, <2>0, <2>1, <2>2, <2>3 DEF TypeOK, committed, Label
  <2>5. Only(x)
    BY <2>0, <2>1, <2>2, <2>3, Kinds, <1>0 DEF Only
  <2>6. Mine(x)'
    <3>1. /\ x \notin Activator /\ x \notin HostDeleter /\ x \notin Authorizer
          /\ x \notin Canceler /\ x \notin UserDeleter /\ x \notin Request
      BY <1>0, Kinds DEF Request
    <3>2. Place(x)' /\ Activation(x)' /\ Cancellation(x)'
      BY <1>0, <2>2, <3>1 DEF Place, Activation, Cancellation
    <3>3. Holding(x)'
      BY <1>0, <2>0, <2>1, <2>2, <2>3, <3>1 DEF Mine, Holding
    <3>4. Inserted(x)'
      BY <1>0, <2>0 DEF Mine, Inserted, committed, StateOf
    <3>5. Termination(x)'
      BY <1>0, <2>0, <2>1, <2>2, <2>3 DEF Mine, Termination, committed
    <3>6. Serial(x)'
      <4>1. \A r \in Session : Disturbed(r)' = Disturbed(r)
        BY <2>0 DEF Disturbed
      <4>. QED
        BY <1>0, <2>0, <2>2, <4>1 DEF Mine, Serial, committed, StateOf
    <3>. QED
      BY <3>2, <3>3, <3>4, <3>5, <3>6 DEF Mine
  <2>. QED
    BY <2>0, <2>4, <2>5, <2>6, NoNewRowKeeps
<1>. QED
  BY <1>1, <1>2 DEF TerminateTrigger

-----------------------------------------------------------------------------
(* The insert of a state row.                                              *)

\* Its effect, once it neither waits nor fails.
InsertRow(x, s, rows) ==
    /\ rowLock' = [rowLock EXCEPT ![x] = @ \union ({s} \X rows)]
    /\ added' = [added EXCEPT ![x] = @ \union {<<s, StateOf(x)>>}]
    /\ Go(x, IF x \in Activator THEN "update"
             ELSE IF x \in Ticker THEN "trigger" ELSE "commit")
    /\ UNCHANGED <<committed, expired, seen, at, todo, target, locked, late, outcome>>

LEMMA InsertRowMine ==
    ASSUME IInv, NEW x \in Tx, NEW s \in Session, s = at[x], pc[x] = "end",
           StateOf(x) \notin states[s],
           \A p \in target[x] \intersect current[s] :
               <<p, StateOf(x)>> \in session_valid_state,
           InsertRow(x, s, target[x] \intersect current[s])
    PROVE  TypeOK' /\ Only(x) /\ Mine(x)' /\ added'[x] = added[x] \union {<<s, StateOf(x)>>}
<1>. DEFINE q    == StateOf(x)
            rows == target[x] \intersect current[s]
<1>0. TypeOK /\ Mine(x) /\ q \in State /\ rows \subseteq State
  BY Kinds DEF IInv, TypeOK
<1>1. UNCHANGED <<committed, expired, seen, at, todo, target, locked, late, outcome>>
  BY DEF InsertRow
<1>2. /\ pc' \in [Tx -> Label]
      /\ pc'[x] = IF x \in Activator THEN "update"
                  ELSE IF x \in Ticker THEN "trigger" ELSE "commit"
      /\ \A y \in Tx \ {x} : pc'[y] = pc[y]
  BY <1>0, GoType DEF InsertRow, Label
<1>3. /\ rowLock' \in [Tx -> SUBSET (Session \X State)]
      /\ rowLock'[x] = rowLock[x] \union ({s} \X rows)
      /\ \A y \in Tx \ {x} : rowLock'[y] = rowLock[y]
  <2>1. {s} \X rows \subseteq Session \X State
    BY <1>0
  <2>2. rowLock \in [Tx -> SUBSET (Session \X State)]
    BY <1>0 DEF TypeOK
  <2>3. rowLock' = [rowLock EXCEPT ![x] = @ \union ({s} \X rows)]
    BY DEF InsertRow
  <2>. HIDE DEF rows
  <2>. QED
    BY <2>1, <2>2, <2>3
<1>4. /\ added' \in [Tx -> SUBSET (Session \X State)]
      /\ added'[x] = added[x] \union {<<s, q>>}
      /\ \A y \in Tx \ {x} : added'[y] = added[y]
  <2>1. {<<s, q>>} \subseteq Session \X State
    BY <1>0
  <2>2. added \in [Tx -> SUBSET (Session \X State)]
    BY <1>0 DEF TypeOK
  <2>3. added' = [added EXCEPT ![x] = @ \union {<<s, q>>}]
    BY DEF InsertRow
  <2>. HIDE DEF q
  <2>. QED
    BY <2>1, <2>2, <2>3
<1>5. TypeOK'
  BY <1>0, <1>1, <1>2, <1>3, <1>4 DEF TypeOK, committed, Label
<1>6. Only(x)
  BY <1>1, <1>2, <1>3, <1>4 DEF Only
<1>7. /\ \A r \in Session, p \in State : <<r, p>> \in added'[x] <=>
             <<r, p>> \in added[x] \/ (r = s /\ p = q)
      /\ \A r \in Session, p \in State : <<r, p>> \in rowLock'[x] <=>
             <<r, p>> \in rowLock[x] \/ (r = s /\ p \in rows)
  <2>. HIDE DEF q, rows
  <2>. QED
    BY <1>3, <1>4
<1>8. /\ x \notin Authorizer
      /\ IF x \in Ticker THEN s \in locked[x] ELSE s = On[x]
  BY <1>0 DEF Mine, Place, Holding
<1>9. Mine(x)'
  <2>1. Place(x)'
    BY <1>0, <1>1, <1>2, <1>8, KindAssumption DEF Mine, Place, Request
  <2>2. Holding(x)'
    BY <1>0, <1>1, <1>2, <1>8, KindAssumption DEF Mine, Holding, Request
  <2>3. Inserted(x)'
    <3>1. StateOf(x)' = q /\ states' = states /\ locked' = locked
      BY <1>1 DEF StateOf, committed
    <3>2. Inserted(x)
      BY <1>0 DEF Mine
    <3>3. ASSUME NEW r \in Session, NEW p \in State, <<r, p>> \in added'[x]
          PROVE  /\ p = q /\ p \notin states[r] /\ x \notin Authorizer
                 /\ IF x \in Ticker THEN r \in locked[x] ELSE r = On[x]
      BY <1>7, <1>8, <3>2, <3>3 DEF Inserted
    <3>4. ASSUME NEW r \in Session, NEW p \in State, <<r, p>> \in rowLock'[x]
          PROVE  <<r, q>> \in added'[x] /\ <<p, q>> \in session_valid_state
      BY <1>0, <1>7, <3>2, <3>4 DEF Inserted
    <3>. QED
      BY <3>1, <3>3, <3>4 DEF Inserted
  <2>4. Activation(x)'
    <3>. SUFFICES ASSUME x \in Activator
                  PROVE  Activation(x)'
      BY DEF Activation
    <3>0. /\ q = "active" /\ s = On[x] /\ outcome[x] = "none" /\ late[x] \subseteq EndState
          /\ pc'[x] = "update" /\ CommittedRows(s) /\ Activation(x)
      BY <1>0, <1>2, <1>8, Kinds DEF Mine, Place, IInv, TypeOK
    <3>1. "canceling" \notin rows /\ "terminated" \notin rows
      BY <3>0 DEF session_valid_state
    <3>2. late[x] # {} => late[x] = {"canceling"} /\ "terminated" \in states[s]
      BY <3>0, <3>1 DEF Activation, CommittedRows, EndState
    <3>3. <<s, "active">> \in added'[x]
      BY <1>4, <3>0
    <3>. QED
      BY <1>1, <3>0, <3>2, <3>3 DEF Activation, committed
  <2>5. Cancellation(x)'
    <3>. SUFFICES ASSUME x \in Canceler \union UserDeleter \union HostDeleter
                  PROVE  Cancellation(x)'
      BY DEF Cancellation
    <3>1. q = "canceling" /\ s = On[x] /\ outcome[x] = "none"
      BY <1>0, <1>8, Kinds DEF Mine, Place, Request, Locker
    <3>2. <<On[x], "canceling">> \in added'[x]
      BY <1>4, <3>1
    <3>. QED
      BY <1>1, <3>1, <3>2 DEF Cancellation
  <2>6. Termination(x)'
    <3>. SUFFICES ASSUME x \in Ticker
                  PROVE  Termination(x)'
      BY DEF Termination
    <3>1. q = "terminated" /\ pc'[x] = "trigger" /\ Termination(x)
      BY <1>0, <1>2, Kinds DEF Mine
    <3>2. <<s, "terminated">> \in added'[x] /\ added[x] \subseteq added'[x]
      BY <1>4, <3>1
    <3>. QED
      BY <1>1, <3>1, <3>2 DEF Termination, committed
  <2>7. Serial(x)'
    <3>0. StateOf(x)' = q /\ q \in State
      BY <1>0 DEF StateOf
    <3>1. \A r \in Session : Disturbed(r)' = Disturbed(r)
      BY <1>1 DEF Disturbed
    <3>2. ASSUME x \in Locker, NEW r \in Session, ~Disturbed(r), <<r, q>> \in added'[x],
                 NEW p \in current[r]
          PROVE  <<r, p>> \in rowLock'[x]
      <4>0. p \in State
        BY <1>0 DEF TypeOK
      <4>1. CASE <<r, q>> \in added[x]
        BY <1>0, <1>7, <3>2, <4>0, <4>1 DEF Mine, Serial
      <4>2. CASE r = s
        <5>1. target[x] = current[s]
          BY <1>0, <3>2, <4>2 DEF Mine, Serial
        <5>. QED
          BY <1>7, <4>0, <4>2, <5>1
      <4>. QED
        BY <1>7, <3>0, <3>2, <4>1, <4>2
    <3>3. pc'[x] # "end" /\ current' = current
      BY <1>1, <1>2 DEF committed
    <3>. HIDE DEF q
    <3>. QED
      BY <3>0, <3>1, <3>2, <3>3 DEF Serial
  <2>. QED
    BY <2>1, <2>2, <2>3, <2>4, <2>5, <2>6, <2>7 DEF Mine
<1>. QED
  BY <1>4, <1>5, <1>6, <1>9

LEMMA EndCurrentRowsKeeps ==
    ASSUME IInv, NEW x \in Tx, EndCurrentRows(x)
    PROVE  IInv'
<1>. DEFINE s    == at[x]
            q    == StateOf(x)
            rows == target[x] \intersect current[s]
<1>0. TypeOK /\ Mine(x) /\ pc[x] = "end" /\ s \in Session
  BY Kinds DEF IInv, EndCurrentRows, Mine, Holding, TypeOK
<1>1. CASE Fail(x)
  BY <1>0, <1>1, FailKeeps
<1>2. CASE q \in states[s] /\ FailUnique(x)
  BY <1>0, <1>2, FailUniqueKeeps
<1>3. CASE /\ q \notin states[s] /\ \A p \in rows : <<p, q>> \in session_valid_state
           /\ InsertRow(x, s, rows)
  <2>1. TypeOK' /\ Only(x) /\ Mine(x)' /\ added'[x] = added[x] \union {<<s, q>>}
    BY <1>0, <1>3, InsertRowMine
  <2>2. \A y \in Tx \ {x} : <<s, q>> \notin added[y]
    BY <1>0 DEF EndCurrentRows, Blockers, RowHolders
  <2>3. UNCHANGED <<committed, locked>>
    BY <1>3 DEF InsertRow
  <2>4. \A y \in Tx \ {x} : /\ locked'[x] \intersect locked[y] = {}
                            /\ added'[x] \intersect added[y] = {}
    <3>1. \A y \in Tx \ {x} : /\ locked[x] \intersect locked[y] = {}
                              /\ added[x] \intersect added[y] = {}
      BY DEF IInv, Exclusive
    <3>. HIDE DEF s, q
    <3>. QED
      BY <2>1, <2>2, <2>3, <3>1
  <2>. QED
    BY <2>1, <2>3, <2>4, StatementKeeps
<1>. QED
  BY <1>0, <1>1, <1>2, <1>3 DEF EndCurrentRows, InsertRow

-----------------------------------------------------------------------------
(* The commit.                                                             *)

\* The rows of session s that x has ended.
EndedBy(x, s) == {p \in State : <<s, p>> \in rowLock[x]}

\* A commit leaves the rows of a session alone, or inserts one new state and
\* ends rows it may follow.
LEMMA CommitSession ==
    ASSUME IInv, NEW x \in Tx, Commit(x), NEW s \in Session
    PROVE  \/ /\ <<s, StateOf(x)>> \notin added[x]
              /\ states'[s] = states[s] /\ current'[s] = current[s]
           \/ /\ <<s, StateOf(x)>> \in added[x] /\ StateOf(x) \notin states[s]
              /\ states'[s] = states[s] \union {StateOf(x)}
              /\ current'[s] = (current[s] \ EndedBy(x, s)) \union {StateOf(x)}
              /\ \A p \in EndedBy(x, s) : <<p, StateOf(x)>> \in session_valid_state
<1>. DEFINE New == {q \in State : <<s, q>> \in added[x]}
<1>1. /\ states'[s] = states[s] \union New
      /\ current'[s] = (current[s] \ EndedBy(x, s)) \union New
  BY DEF Commit, EndedBy
<1>2. Inserted(x) /\ StateOf(x) \in State
  BY Kinds DEF IInv, Mine
<1>3. CASE <<s, StateOf(x)>> \notin added[x]
  <2>1. New = {} /\ EndedBy(x, s) = {}
    BY <1>2, <1>3 DEF Inserted, EndedBy
  <2>. QED
    BY <1>1, <1>3, <2>1
<1>4. CASE <<s, StateOf(x)>> \in added[x]
  <2>1. New = {StateOf(x)} /\ StateOf(x) \notin states[s]
    BY <1>2, <1>4 DEF Inserted
  <2>2. \A p \in EndedBy(x, s) : <<p, StateOf(x)>> \in session_valid_state
    BY <1>2 DEF Inserted, EndedBy
  <2>. HIDE DEF New
  <2>. QED
    BY <1>1, <1>4, <2>1, <2>2
<1>. QED
  BY <1>3, <1>4

\* What has been committed stays, and the token of a session with it.
LEMMA CommitGrows ==
    ASSUME IInv, NEW x \in Tx, Commit(x), NEW s \in Session
    PROVE  /\ states[s] \subseteq states'[s]
           /\ tofu[s] # Null => tofu'[s] = tofu[s]
           /\ x \in Activator /\ s = On[x] =>
                  <<s, "active">> \in added[x] /\ tofu'[s] = Token[x]
           /\ x \notin Activator \/ s # On[x] => tofu'[s] = tofu[s]
<1>0. TypeOK /\ Mine(x) /\ CommittedRows(s)
  BY DEF IInv
<1>1. states[s] \subseteq states'[s]
  BY DEF Commit
<1>2. CASE x \in Activator
  <2>1. pc[x] = "commit" /\ On[x] \in Session
    BY <1>0, <1>2, Kinds DEF Commit, Mine, Place
  <2>2. <<On[x], "active">> \in added[x]
    BY <1>0, <1>2, <2>1 DEF Mine, Activation
  <2>3. tofu' = [tofu EXCEPT ![On[x]] = Token[x]]
    BY <1>2 DEF Commit
  <2>4. /\ tofu'[On[x]] = Token[x]
        /\ s # On[x] => tofu'[s] = tofu[s]
    BY <1>0, <2>1, <2>3 DEF TypeOK
  <2>5. "active" \notin states[On[x]]
    BY <1>0, <2>1, <2>2 DEF Mine, Inserted, State
  <2>6. s = On[x] => tofu[s] = Null
    BY <1>0, <2>5 DEF CommittedRows
  <2>. QED
    BY <1>1, <1>2, <2>2, <2>4, <2>6
<1>3. CASE x \notin Activator
  BY <1>1, <1>3 DEF Commit
<1>. QED
  BY <1>2, <1>3

\* The parts of a commit besides the state rows.
LEMMA CommitEnds ==
    ASSUME IInv, NEW x \in Tx, Commit(x)
    PROVE  /\ TypeOK' /\ Only(x) /\ late' = late
           /\ pc'[x] = IF x \in Ticker THEN "idle" ELSE "done"
           /\ added'[x] = {} /\ rowLock'[x] = {} /\ locked'[x] = {}
           /\ x \in Request => outcome'[x] = "ok" /\ outcome[x] = "none"
           /\ \A s \in Session : ended'[s] => ended[s] \/ (x \in Ticker /\ s \in locked[x])
<1>0. TypeOK /\ Mine(x)
  BY DEF IInv
<1>1. /\ Release(x) /\ UNCHANGED <<closed, expired, late>>
  BY DEF Commit
<1>2. /\ pc' \in [Tx -> Label] /\ pc'[x] = IF x \in Ticker THEN "idle" ELSE "done"
      /\ \A y \in Tx \ {x} : pc'[y] = pc[y]
  BY <1>0, GoType DEF Commit, Label
<1>3. /\ outcome' \in [Request -> {"none", "ok", "duplicate", "error"}]
      /\ \A y \in Request \ {x} : outcome'[y] = outcome[y]
      /\ x \in Request => outcome'[x] = "ok" /\ outcome[x] = "none"
  BY <1>0, Kinds DEF Commit, TypeOK, Mine, Place
<1>4. /\ states' \in [Session -> SUBSET State]
      /\ current' \in [Session -> SUBSET State]
  BY <1>0 DEF Commit, TypeOK
<1>5. version' \in [Session -> Nat]
  BY <1>0 DEF Commit, TypeOK
<1>6. tofu' \in [Session -> Tofu \union {Null}]
  BY <1>0, RequestAssumption DEF Commit, TypeOK
<1>7. /\ ended' \in [Session -> BOOLEAN]
      /\ \A s \in Session : ended'[s] => ended[s] \/ (x \in Ticker /\ s \in locked[x])
  BY <1>0, Zenon DEF Commit, TypeOK
<1>8. open' \in [Session -> SUBSET Authorizer]
  BY <1>0, Kinds DEF Commit, TypeOK, Request
<1>9. TypeOK'
  BY <1>0, <1>1, <1>2, <1>3, <1>4, <1>5, <1>6, <1>7, <1>8, ReleaseType
  DEF TypeOK, Label
<1>10. Only(x)
  BY <1>0, <1>1, <1>2, <1>3, ReleaseType DEF Only
<1>. QED
  BY <1>0, <1>1, <1>2, <1>3, <1>7, <1>9, <1>10, ReleaseType

\* Who is to insert, or has inserted, a state after updating the session row
\* still holds that row.
LEMMA LockerHolds ==
    ASSUME IInv, NEW y \in Tx, y \in Locker, NEW s \in Session,
           (pc[y] = "end" /\ at[y] = s) \/ <<s, StateOf(y)>> \in added[y]
    PROVE  s \in locked[y]
<1>0. Mine(y) /\ TypeOK /\ StateOf(y) \in State
  BY Kinds DEF IInv
<1>1. CASE y \in Ticker
  BY <1>0, <1>1 DEF Mine, Holding, Inserted
<1>2. CASE y \in Canceler \union UserDeleter
  <2>1. y \in Request /\ y \notin Ticker
    BY <1>2, Kinds DEF Request
  <2>2. s = On[y]
    BY <1>0, <2>1 DEF Mine, Holding, Inserted
  <2>3. pc[y] \in {"end", "commit"}
    BY <1>0, <1>2, <2>1 DEF Mine, Place, Holding
  <2>. QED
    BY <1>0, <1>2, <2>2, <2>3 DEF Mine, Holding
<1>. QED
  BY <1>1, <1>2 DEF Locker

\* A commit that changes the rows of a session without its row disturbs it.
LEMMA CommitDisturbs ==
    ASSUME IInv, NEW x \in Tx, Commit(x), NEW s \in Session,
           <<s, StateOf(x)>> \in added[x], ~Disturbed(s)'
    PROVE  x \in Locker /\ s \in locked[x]
<1>1. Mine(x) /\ StateOf(x) \in State
  BY Kinds DEF IInv
<1>2. x \notin Authorizer /\ (x \notin Ticker => s = On[x])
  BY <1>1 DEF Mine, Inserted
<1>3. x \notin Activator \union HostDeleter
  BY <1>2, CommitEnds, Kinds DEF Disturbed, Request
<1>4. x \in Locker
  BY <1>2, <1>3 DEF Tx, Request, Locker
<1>. QED
  BY <1>4, LockerHolds

LEMMA CommitRowsKeep ==
    ASSUME IInv, NEW x \in Tx, Commit(x), NEW s \in Session
    PROVE  CommittedRows(s)'
<1>. DEFINE q == StateOf(x)
<1>0. /\ TypeOK /\ Mine(x) /\ CommittedRows(s) /\ Only(x)
      /\ q \in {"active", "canceling", "terminated"}
      /\ q = "active" <=> x \in Activator
      /\ x \in Ticker => q = "terminated"
      /\ x \in Activator /\ s = On[x] => <<s, q>> \in added[x]
      /\ x \in Activator /\ <<s, q>> \in added[x] => s = On[x]
  BY CommitEnds, CommitGrows, Kinds DEF IInv, StateOf, Mine, Inserted
<1>1. ended'[s] => "terminated" \in states'[s]
  <2>1. ASSUME x \in Ticker, s \in locked[x]
        PROVE  "terminated" \in states[s] \/ <<s, "terminated">> \in added[x]
    <3>1. pc[x] = "trigger" /\ todo[x] = {}
      BY <1>0, <2>1 DEF Commit, Mine, Place
    <3>. QED
      BY <1>0, <2>1, <3>1 DEF Mine, Termination
  <2>2. <<s, "terminated">> \in added[x] /\ x \in Ticker => "terminated" \in states'[s]
    BY <1>0, CommitSession
  <2>. QED
    BY <1>0, <2>1, <2>2, CommitEnds, CommitGrows DEF CommittedRows
<1>2. Disturbed(s) => Disturbed(s)'
  BY <1>0, DisturbedStays
<1>3. CASE /\ <<s, q>> \notin added[x]
           /\ states'[s] = states[s] /\ current'[s] = current[s]
  <2>1. tofu'[s] = tofu[s]
    BY <1>0, <1>3, CommitGrows
  <2>. QED
    BY <1>0, <1>1, <1>2, <1>3, <2>1 DEF CommittedRows
<1>4. CASE /\ <<s, q>> \in added[x] /\ q \notin states[s]
           /\ states'[s] = states[s] \union {q}
           /\ current'[s] = (current[s] \ EndedBy(x, s)) \union {q}
           /\ \A p \in EndedBy(x, s) : <<p, q>> \in session_valid_state
  <2>1. /\ "terminated" \notin EndedBy(x, s)
        /\ "canceling" \in EndedBy(x, s) => q = "terminated"
    <3>. HIDE DEF q
    <3>. QED
      BY <1>0, <1>4 DEF session_valid_state
  <2>2. /\ current'[s] \subseteq states'[s]
        /\ "terminated" \in states'[s] => "terminated" \in current'[s]
        /\ "canceling" \in states'[s] => current'[s] \intersect EndState # {}
    <3>. HIDE DEF q
    <3>. QED
      BY <1>0, <1>4, <2>1 DEF CommittedRows, EndState
  <2>3. tofu'[s] # Null <=> "active" \in states'[s]
    <3>1. CASE x \in Activator
      <4>1. Token[x] # Null /\ tofu'[s] = Token[x]
        BY <1>0, <1>4, <3>1, CommitGrows, RequestAssumption
      <4>. QED
        BY <1>0, <1>4, <3>1, <4>1
    <3>2. CASE x \notin Activator
      BY <1>0, <1>4, <3>2, CommitGrows DEF CommittedRows
    <3>. QED
      BY <3>1, <3>2
  <2>4. ASSUME ~Disturbed(s)' PROVE current'[s] = {q}
    <3>1. x \in Locker /\ ~Disturbed(s)
      BY <1>2, <1>4, <2>4, CommitDisturbs
    <3>2. current[s] \subseteq EndedBy(x, s)
      BY <1>0, <1>4, <3>1 DEF Mine, Serial, EndedBy, TypeOK
    <3>. QED
      BY <1>4, <3>2
  <2>5. q \in State
    BY <1>0 DEF State, EndState
  <2>. HIDE DEF q
  <2>. QED
    BY <1>1, <2>2, <2>3, <2>4, <2>5 DEF CommittedRows
<1>. QED
  BY <1>3, <1>4, CommitSession

LEMMA CommitOthers ==
    ASSUME IInv, NEW x \in Tx, Commit(x), NEW y \in Tx \ {x}
    PROVE  Mine(y)'
<1>1. /\ pc'[y] = pc[y] /\ at'[y] = at[y] /\ todo'[y] = todo[y]
      /\ target'[y] = target[y] /\ rowLock'[y] = rowLock[y]
      /\ added'[y] = added[y] /\ locked'[y] = locked[y]
      /\ y \in Activator => late'[y] = late[y]
      /\ y \in Request => outcome'[y] = outcome[y] /\ On[y] \in Session
      /\ Mine(y) /\ TypeOK
  BY CommitEnds, Kinds DEF Only, IInv
<1>2. Place(y)' /\ Holding(y)'
  BY <1>1 DEF Mine, Place, Holding
<1>3. \A s \in Session : states[s] \subseteq states'[s]
  BY CommitGrows
<1>4. Inserted(y)'
  <2>1. ASSUME NEW s \in Session, NEW q \in State, <<s, q>> \in added[y]
        PROVE  q \notin states'[s]
    <3>1. q \notin states[s]
      BY <1>1, <2>1 DEF Mine, Inserted
    <3>2. <<s, q>> \notin added[x]
      BY <2>1 DEF IInv, Exclusive
    <3>3. states'[s] = states[s] \union {p \in State : <<s, p>> \in added[x]}
      BY DEF Commit
    <3>. QED
      BY <3>1, <3>2, <3>3
  <2>. QED
    BY <1>1, <2>1 DEF Mine, Inserted, StateOf
<1>5. Activation(y)'
  <2>. SUFFICES ASSUME y \in Activator PROVE Activation(y)'
    BY DEF Activation
  <2>1. /\ Token[y] # Null /\ Activation(y) /\ y \in Request /\ On[y] \in Session
        /\ states[On[y]] \subseteq states'[On[y]]
    BY <1>1, <1>3, Kinds, RequestAssumption DEF Mine
  <2>2. tofu[On[y]] # Null => tofu'[On[y]] = tofu[On[y]]
    BY <2>1, CommitGrows
  <2>. QED
    BY <1>1, <2>1, <2>2 DEF Activation
<1>6. Cancellation(y)'
  BY <1>1, <1>3 DEF Mine, Cancellation, Request
<1>7. Termination(y)'
  <2>1. y \in Ticker /\ pc[y] \in {"trigger", "insert", "end"} => locked[y] \subseteq Session
    BY <1>1 DEF TypeOK
  <2>. QED
    BY <1>1, <1>3, <2>1 DEF Mine, Termination
<1>8. Serial(y)'
  <2>. SUFFICES ASSUME y \in Locker, NEW s \in Session, ~Disturbed(s)'
                PROVE  /\ pc[y] = "end" /\ at[y] = s => target[y] = current'[s]
                       /\ <<s, StateOf(y)>> \in added[y] =>
                              \A q \in current'[s] : <<s, q>> \in rowLock[y]
    BY <1>1 DEF Serial, StateOf
  <2>1. ~Disturbed(s)
    BY CommitEnds, DisturbedStays
  <2>2. CASE <<s, StateOf(x)>> \in added[x]
    <3>1. s \notin locked[y]
      BY <2>2, CommitDisturbs DEF IInv, Exclusive
    <3>. QED
      BY <3>1, LockerHolds
  <2>3. CASE <<s, StateOf(x)>> \notin added[x]
    BY <1>1, <2>1, <2>3, CommitSession DEF Mine, Serial
  <2>. QED
    BY <2>2, <2>3
<1>. QED
  BY <1>2, <1>4, <1>5, <1>6, <1>7, <1>8 DEF Mine

LEMMA CommitMine ==
    ASSUME IInv, NEW x \in Tx, Commit(x)
    PROVE  Mine(x)'
<1>0. TypeOK /\ Mine(x)
  BY DEF IInv
<1>1. /\ pc'[x] = IF x \in Ticker THEN "idle" ELSE "done"
      /\ added'[x] = {} /\ rowLock'[x] = {} /\ locked'[x] = {} /\ late' = late
      /\ x \in Request => outcome'[x] = "ok" /\ On[x] \in Session
      /\ x \in Request => states[On[x]] \subseteq states'[On[x]] /\ pc[x] = "commit"
  <2>1. x \in Request => pc[x] = "commit"
    BY <1>0, Kinds DEF Commit, Mine, Place, Request
  <2>. QED
    BY <2>1, CommitEnds, CommitGrows, Kinds
<1>2. Place(x)'
  BY <1>1, Kinds DEF Place, Request
<1>3. Holding(x)' /\ Inserted(x)' /\ Termination(x)' /\ Serial(x)'
  BY <1>1, Kinds DEF Holding, Inserted, Termination, Serial
<1>4. Activation(x)'
  BY <1>0, <1>1, Kinds, CommitGrows DEF Mine, Activation
<1>5. Cancellation(x)'
  <2>. SUFFICES ASSUME x \in Canceler \union UserDeleter \union HostDeleter
                PROVE  Cancellation(x)'
    BY DEF Cancellation
  <2>1. x \in Request /\ StateOf(x) = "canceling"
    BY Kinds DEF Request, Locker
  <2>2. states'[On[x]] \intersect EndState # {}
    BY <1>0, <1>1, <2>1, CommitSession DEF Mine, Cancellation, EndState
  <2>. QED
    BY <1>1, <2>1, <2>2 DEF Cancellation
<1>. QED
  BY <1>2, <1>3, <1>4, <1>5 DEF Mine

LEMMA CommitKeeps ==
    ASSUME IInv, NEW x \in Tx, Commit(x)
    PROVE  IInv'
<1>1. Exclusive'
  BY CommitEnds DEF Only, Exclusive, IInv
<1>. QED
  BY <1>1, CommitEnds, CommitRowsKeep, CommitOthers, CommitMine DEF IInv

-----------------------------------------------------------------------------
(* The theorems.                                                           *)

LEMMA InitIInv == Init => IInv
<1>. SUFFICES ASSUME Init PROVE IInv
  OBVIOUS
<1>1. PICK A \in SUBSET Session :
        /\ states = [s \in Session |-> IF s \in A THEN {"pending", "active"} ELSE {"pending"}]
        /\ current = [s \in Session |-> IF s \in A THEN {"active"} ELSE {"pending"}]
        /\ version = [s \in Session |-> IF s \in A THEN 2 ELSE 1]
        /\ tofu \in [Session -> Tofu \union {Null}]
        /\ \A s \in Session : tofu[s] # Null <=> s \in A
  BY DEF Init
<1>2. /\ pc = [x \in Tx |-> "idle"] /\ seen = [x \in Tx |-> 0]
      /\ at = [x \in Tx |-> Null] /\ todo = [x \in Tx |-> {}]
      /\ target = [x \in Tx |-> {}] /\ rowLock = [x \in Tx |-> {}]
      /\ added = [x \in Tx |-> {}] /\ locked = [x \in Tx |-> {}]
      /\ late = [x \in Activator |-> {}] /\ outcome = [x \in Request |-> "none"]
  BY DEF Init
<1>3. /\ expired = [s \in Session |-> FALSE] /\ ended = [s \in Session |-> FALSE]
      /\ open = [s \in Session |-> {}] /\ closed = [s \in Session |-> {}]
  BY DEF Init
<1>4. TypeOK
  <2>1. /\ states \in [Session -> SUBSET State] /\ current \in [Session -> SUBSET State]
        /\ version \in [Session -> Nat]
    BY <1>1 DEF State, EndState
  <2>. QED
    BY <1>1, <1>2, <1>3, <2>1 DEF TypeOK
<1>5. ASSUME NEW x \in Tx PROVE Mine(x)
  <2>1. /\ pc[x] = "idle" /\ added[x] = {} /\ rowLock[x] = {} /\ locked[x] = {}
        /\ x \in Request => outcome[x] = "none"
        /\ x \in Activator => late[x] = {} /\ x \in Request
        /\ x \in Canceler \union UserDeleter \union HostDeleter => x \in Request
    BY <1>2, Kinds DEF Request
  <2>. QED
    BY <2>1 DEF Mine, Place, Holding, Inserted, Activation, Cancellation, Termination,
       Serial
<1>6. Exclusive
  BY <1>2 DEF Exclusive
<1>7. ASSUME NEW s \in Session PROVE CommittedRows(s)
  <2>1. /\ s \in A => states[s] = {"pending", "active"} /\ current[s] = {"active"}
        /\ s \notin A => states[s] = {"pending"} /\ current[s] = {"pending"}
        /\ ~ended[s]
    BY <1>1, <1>3
  <2>. QED
    BY <1>1, <2>1 DEF CommittedRows, State
<1>. QED
  BY <1>4, <1>5, <1>6, <1>7 DEF IInv

\* The steps outside of the transactions leave the rows and the transactions
\* alone.
LEMMA OutsideKeeps ==
    ASSUME IInv, TypeOK', UNCHANGED <<states, current, tofu, ended, pc, locals, late, outcome>>
    PROVE  IInv'
<1>0. \A s : Disturbed(s)' <=> Disturbed(s)
  BY DEF Disturbed
<1>1. ASSUME NEW x \in Tx PROVE Mine(x)'
  <2>0. Mine(x)
    BY DEF IInv
  <2>1. Place(x)' /\ Holding(x)' /\ Activation(x)' /\ Cancellation(x)' /\ Termination(x)'
    BY <2>0 DEF Mine, Place, Holding, Activation, Cancellation, Termination, locals
  <2>2. Inserted(x)' /\ Serial(x)'
    BY <1>0, <2>0 DEF Mine, Inserted, Serial, StateOf, locals
  <2>. QED
    BY <2>1, <2>2 DEF Mine
<1>2. Exclusive'
  BY DEF IInv, Exclusive, locals
<1>3. ASSUME NEW s \in Session PROVE CommittedRows(s)'
  BY <1>0 DEF IInv, CommittedRows
<1>. QED
  BY <1>1, <1>2, <1>3 DEF IInv

LEMMA NextIInv == IInv /\ [Next]_vars => IInv'
<1>. SUFFICES ASSUME IInv, [Next]_vars PROVE IInv'
  OBVIOUS
<1>0. TypeOK
  BY DEF IInv
<1>1. ASSUME NEW x \in Tx, Statement(x) PROVE IInv'
  BY <1>1, LookupKeeps, ActivateSelectKeeps, ActivateUpdateKeeps,
     getActivatedSessionKeeps, LockSessionKeeps, CancelSelectKeeps, SnapshotKeeps,
     EndCurrentRowsKeeps, TerminateSelectKeeps, TerminateUpdateKeeps,
     TerminateTriggerKeeps, AuthorizeInsertKeeps, CommitKeeps, DeadlockDetectedKeeps
  DEF Statement
<1>2. ASSUME NEW s \in Session, NEW c \in Authorizer, CloseConnection(s, c)
      PROVE  IInv'
  <2>1. TypeOK'
    BY <1>0, <1>2 DEF CloseConnection, TypeOK, locals
  <2>. QED
    BY <1>2, <2>1, OutsideKeeps DEF CloseConnection
<1>3. ASSUME NEW s \in Session, Expire(s) PROVE IInv'
  <2>1. TypeOK'
    BY <1>0, <1>3 DEF Expire, TypeOK, committed, locals
  <2>. QED
    BY <1>3, <2>1, OutsideKeeps DEF Expire, committed
<1>4. CASE UNCHANGED vars
  <2>1. TypeOK'
    BY <1>0, <1>4 DEF vars, TypeOK, committed, locals
  <2>. QED
    BY <1>4, <2>1, OutsideKeeps DEF vars, committed
<1>. QED
  BY <1>1, <1>2, <1>3, <1>4, InterruptedKeeps DEF Next

\* The invariant holds always.
THEOREM Inductive == Spec => []IInv
  BY InitIInv, NextIInv, PTL DEF Spec

\* Every variable keeps its type, whatever the transactions interleave.
THEOREM TypeCorrect == Spec => []TypeOK
<1>1. IInv => TypeOK
  BY DEF IInv
<1>. QED
  BY <1>1, Inductive, PTL

\* Of the activations that race each other, ActivateSession answers only those
\* with the token that was bound.
THEOREM TokensAgree == Spec => []TofuAgreement
<1>1. IInv => TofuAgreement
  BY DEF IInv, Mine, Activation, TofuAgreement, Tx, Request
<1>. QED
  BY <1>1, Inductive, PTL

\* An activation that begins after the end of its session was committed does
\* not succeed, but for the canceling row that a termination ended meanwhile.
THEOREM LateActivationsFail == Spec => []NoActivationAfterEnd
<1>1. IInv => NoActivationAfterEnd
  BY DEF IInv, Mine, Activation, NoActivationAfterEnd, Tx, Request
<1>. QED
  BY <1>1, Inductive, PTL

\* A cancel that was answered and a deletion that was committed have ended the
\* session.
THEOREM CancelsLast == Spec => []CancelNotLost
<1>1. IInv => CancelNotLost
  BY DEF IInv, Mine, Cancellation, CancelNotLost, Tx, Request
<1>. QED
  BY <1>1, Inductive, PTL

\* Transactions that update the session row first leave one current state row.
THEOREM LockedInsertsSerialise == Spec => []SecondRowNeedsUnlocked
<1>1. IInv => SecondRowNeedsUnlocked
  <2>. SUFFICES ASSUME IInv, NEW s \in Session, ~Disturbed(s)
                PROVE  ~(Cardinality(current[s]) > 1)
    BY DEF SecondRowNeedsUnlocked, Disturbed
  <2>1. PICK q \in State : current[s] = {q}
    BY DEF IInv, CommittedRows
  <2>2. Cardinality(current[s]) = 1
    BY <2>1, FS_Singleton
  <2>. QED
    BY <2>2
<1>. QED
  BY <1>1, Inductive, PTL

-----------------------------------------------------------------------------
(* What else the invariant says about the committed rows.                  *)

\* A termination_reason is committed with the state row that belongs to it,
\* although the trigger skips a session that another transaction terminated.
ReasonMeansTerminated == \A s \in Session : ended[s] => "terminated" \in states[s]

\* TerminateCompletedSessions never leaves a reason without the terminated row.
THEOREM ReasonsAreTerminations == Spec => []ReasonMeansTerminated
<1>1. IInv => ReasonMeansTerminated
  BY DEF IInv, CommittedRows, ReasonMeansTerminated
<1>. QED
  BY <1>1, Inductive, PTL

\* No commit takes back a state, replaces a token that is bound or ends the row
\* of a termination, also where two rows are current.
CommittedStays ==
    [][\A s \in Session :
         /\ states[s] \subseteq states'[s]
         /\ tofu[s] # Null => tofu'[s] = tofu[s]
         /\ "terminated" \in current[s] => "terminated" \in current'[s]]_vars

\* Only a commit changes the rows.
LEMMA OnlyCommitWrites ==
    ASSUME Next, ~\E x \in Tx : Commit(x)
    PROVE  UNCHANGED <<states, current, tofu>>
<1>. USE DEF Fail, FailUnique, committed
<1>1. ASSUME NEW x \in Tx, Statement(x) PROVE UNCHANGED <<states, current, tofu>>
  <2>1. CASE LookupSession(x) \/ ActivateSelect(x) \/ ActivateUpdate(x)
             \/ getActivatedSession(x)
    BY <2>1 DEF LookupSession, ActivateSelect, ActivateUpdate, getActivatedSession
  <2>2. CASE LookupForCancel(x) \/ CancelUpdate(x) \/ NullFkUpdate(x) \/ CancelSelect(x)
    BY <2>2 DEF LookupForCancel, CancelUpdate, NullFkUpdate, CancelSelect, LockSession
  <2>3. CASE Snapshot(x) \/ EndCurrentRows(x)
    BY <2>3 DEF Snapshot, EndCurrentRows
  <2>4. ASSUME NEW s \in Session,
               TerminateSelect(x) \/ TerminateUpdate(x, s) \/ TerminateTrigger(x, s)
        PROVE  UNCHANGED <<states, current, tofu>>
    BY <2>4 DEF TerminateSelect, TerminateUpdate, TerminateTrigger
  <2>5. CASE AuthorizeInsert(x) \/ DeadlockDetected(x)
    BY <2>5 DEF AuthorizeInsert, DeadlockDetected
  <2>6. CASE TerminateSelect(x)
    BY <2>6 DEF TerminateSelect
  <2>. QED
    BY <1>1, <2>1, <2>2, <2>3, <2>4, <2>5, <2>6 DEF Statement
<1>2. ASSUME NEW x \in Tx, Interrupted(x) PROVE UNCHANGED <<states, current, tofu>>
  BY <1>2 DEF Interrupted
<1>3. ASSUME NEW s \in Session, NEW c \in Authorizer, CloseConnection(s, c)
      PROVE  UNCHANGED <<states, current, tofu>>
  BY <1>3 DEF CloseConnection
<1>4. ASSUME NEW s \in Session, Expire(s) PROVE UNCHANGED <<states, current, tofu>>
  BY <1>4 DEF Expire
<1>. QED
  BY <1>1, <1>2, <1>3, <1>4 DEF Next

\* What activations, cancellations and terminations have committed stays.
THEOREM CommittedRowsStay == Spec => CommittedStays
<1>. DEFINE P == \A s \in Session :
                   /\ states[s] \subseteq states'[s]
                   /\ tofu[s] # Null => tofu'[s] = tofu[s]
                   /\ "terminated" \in current[s] => "terminated" \in current'[s]
<1>1. IInv /\ Next => P
  <2>. SUFFICES ASSUME IInv, Next PROVE P
    OBVIOUS
  <2>1. ASSUME NEW x \in Tx, Commit(x) PROVE P
    <3>. SUFFICES ASSUME NEW s \in Session, "terminated" \in current[s]
                  PROVE  "terminated" \in current'[s]
      BY <2>1, CommitGrows
    <3>1. "terminated" \in states[s]
      BY DEF IInv, CommittedRows
    <3>2. "terminated" \in states'[s]
      BY <2>1, <3>1, CommitGrows
    <3>. QED
      BY <2>1, <3>2, CommitRowsKeep DEF CommittedRows
  <2>. QED
    BY <2>1, OnlyCommitWrites
<1>2. IInv /\ [Next]_vars => [P]_vars
  BY <1>1
<1>. QED
  BY <1>2, Inductive, PTL DEF Spec, CommittedStays
=============================================================================
