-------------------------- MODULE WorkerAuthProofs --------------------------
(***************************************************************************)
(* Proofs about WorkerAuth, for any keys, rotations, versions, losses and  *)
(* connections.  The invariant adds to the type what a rotation of the     *)
(* roots has loaded, which rows a worker has, where the calls behind them  *)
(* are, and which of them keeps the worker in.                             *)
(***************************************************************************)
EXTENDS WorkerAuth, FiniteSetTheorems, TLAPS

\* A rotation that is not behind holds the next root of the table.
RotationsCurrent ==
    \A r \in Rotator :
        /\ rotate[r].pc # "idle" =>
               rotate[r].version <= version /\ rotate[r].version <= MaxVersion
        /\ rotate[r].pc = "versioned" => rotate[r].version < MaxVersion
        /\ rotate[r].pc = "loaded" /\ rotate[r].version = version =>
               rotate[r].next = root.next

\* One row for each state, a current one if there is any, and none without a
\* worker.
OneRowEach ==
    /\ \A s \in {"current", "previous"} : \A j, k \in InState(s) : j = k
    /\ Rows # {} => InState("current") # {}
    /\ worker # "exists" => Rows = {}
    /\ worker = "exists" => own # Null

\* Calls that have stored nothing.
Early == {"none", "sent", "loaded", "storing"}

\* Every row, and every row a transaction has seen, comes from a call that
\* was carried out, and a row that was previous is never current again.
CallsBehind ==
    /\ worker = "none" => /\ certs = {}
                          /\ \A k \in Key : call[k].pc \in {"none", "over"}
    /\ own # Null => call[own].pc \notin Early
    /\ \A k \in Rows : call[k].pc \notin Early
    /\ \A n \in Key : call[n].pc = "storing" =>
           \A k \in call[n].previous : /\ call[k].pc \notin Early
                                       /\ state[k] # "current"

\* Calls the worker has given up that may be, or have been, carried out.
Late == {k \in Key : k # waiting
                     /\ call[k].pc \in {"sent", "loaded", "storing", "answered"}}

\* A loss leaves one such call at most.
LateOnes ==
    /\ missed = 0 => Late = {}
    /\ missed = 1 => \A j, k \in Late : j = k

\* The answer is on its way to the worker.
Answered == waiting # Null /\ call[waiting].pc = "answered"

\* A key is current, or it is previous and a late call took its place.
Kept(k) ==
    \/ state[k] = "current"
    \/ /\ state[k] = "previous"
       /\ \E m \in Late : call[m].pc = "answered" /\ state[m] = "current"

\* What keeps a worker in after one loss: its own key, or the one of the
\* answer it is about to get.
OwnKept ==
    worker = "exists" /\ missed <= 1 =>
        /\ ~Answered => Kept(own)
        /\ Answered => Kept(waiting)
        /\ Answered /\ missed = 0 => state[own] = "previous"

\* Accept has a connection in its hands.
LinkInUse == accept # "none" => link # Null

IInv ==
    /\ TypeOK /\ RotationsCurrent /\ OneRowEach
    /\ CallsBehind /\ LateOnes /\ OwnKept /\ LinkInUse

RotateRec == [pc : {"idle", "versioned", "loaded"}, version : Nat,
              reinit : BOOLEAN, next : RootId \union {Null}]
CallRec   == [pc : {"none", "sent", "loaded", "storing", "answered", "over"},
              by : Key \union {Null}, roots : SUBSET RootId,
              previous : SUBSET Key]

-----------------------------------------------------------------------------
(* What the helpers do. *)

\* RotateAt replaces the record of one rotation.
LEMMA RotateAtType ==
    ASSUME TypeOK, NEW r \in Rotator, NEW pc \in {"idle", "versioned", "loaded"},
           NEW v \in Nat, NEW reinit \in BOOLEAN,
           NEW next \in RootId \union {Null}, RotateAt(r, pc, v, reinit, next)
    PROVE  /\ rotate' \in [Rotator -> RotateRec]
           /\ rotate'[r] = [pc |-> pc, version |-> v, reinit |-> reinit,
                            next |-> next]
           /\ \A q \in Rotator \ {r} : rotate'[q] = rotate[q]
  BY DEF TypeOK, RotateAt, RotateRec

\* CallAt replaces the record of one call.
LEMMA CallAtType ==
    ASSUME TypeOK, NEW n \in Key,
           NEW pc \in {"none", "sent", "loaded", "storing", "answered", "over"},
           NEW by \in Key \union {Null}, NEW rts \in SUBSET RootId,
           NEW previous \in SUBSET Key, CallAt(n, pc, by, rts, previous)
    PROVE  /\ call' \in [Key -> CallRec]
           /\ call'[n] = [pc |-> pc, by |-> by, roots |-> rts,
                          previous |-> previous]
           /\ \A k \in Key \ {n} : call'[k] = call[k]
  BY DEF TypeOK, CallAt, CallRec

\* The pieces of the invariant only depend on their own variables.
LEMMA RotationsFrame ==
    ASSUME RotationsCurrent, UNCHANGED <<rotate, version, root>>
    PROVE  RotationsCurrent'
  BY DEF RotationsCurrent

LEMMA RowsFrame ==
    ASSUME OneRowEach, UNCHANGED <<state, worker, own>>
    PROVE  OneRowEach'
  BY DEF OneRowEach, InState, Rows

LEMMA CallsFrame ==
    ASSUME CallsBehind, UNCHANGED <<worker, own, certs, call, state>>
    PROVE  CallsBehind'
  BY DEF CallsBehind, Rows

LEMMA LateFrame ==
    ASSUME LateOnes, UNCHANGED <<missed, waiting, call>>
    PROVE  LateOnes'
  BY DEF LateOnes, Late

LEMMA LinkFrame ==
    ASSUME LinkInUse, UNCHANGED <<accept, link>>
    PROVE  LinkInUse'
  BY DEF LinkInUse

LEMMA KeptFrame ==
    ASSUME OwnKept, UNCHANGED <<worker, missed, waiting, call, state, own>>
    PROVE  OwnKept'
  BY DEF OwnKept, Kept, Late, Answered

\* A call that fails before it stored anything takes nothing away.
LEMMA CallFailsKeeps ==
    ASSUME IInv, NEW n \in Key, call[n].pc \in {"sent", "loaded", "storing"},
           CallFails(n), UNCHANGED <<worker, certs, state, own, missed>>
    PROVE  /\ call' \in [Key -> CallRec] /\ waiting' \in Key \union {Null}
           /\ CallsBehind' /\ LateOnes' /\ OwnKept'
<1>1. /\ call' \in [Key -> CallRec]
      /\ call'[n] = [pc |-> "over", by |-> Null, roots |-> {}, previous |-> {}]
      /\ \A k \in Key \ {n} : call'[k] = call[k]
  <2>1. CallAt(n, "over", Null, {}, {})
    BY DEF CallFails
  <2>. QED
    BY <2>1, CallAtType DEF IInv
<1>2. waiting' \in Key \union {Null} /\ waiting' \in {waiting, Null}
      /\ (waiting' # waiting => waiting = n)
  BY DEF IInv, TypeOK, CallFails
<1>3. CallsBehind'
  <2>1. CallsBehind /\ own \in Key \union {Null} /\ call \in [Key -> CallRec]
    BY DEF IInv, TypeOK, CallRec
  <2>2. /\ \A k \in Key : call[k].pc \notin Early => call'[k].pc \notin Early
        /\ \A k \in Key : call'[k].pc = "storing" => k # n /\ call'[k] = call[k]
        /\ \A k \in Key : call[k].pc \in {"none", "over"} =>
                             call'[k].pc \in {"none", "over"}
    BY <1>1 DEF Early
  <2>3. \A k \in Key : call[k].previous \subseteq Key
    BY <2>1 DEF CallRec
  <2>4. worker = "none" => /\ certs = {}
                           /\ \A k \in Key : call'[k].pc \in {"none", "over"}
    BY <2>1, <2>2 DEF CallsBehind
  <2>5. own # Null => call'[own].pc \notin Early
    BY <2>1, <2>2 DEF CallsBehind
  <2>6. \A k \in Rows : call'[k].pc \notin Early
    BY <2>1, <2>2 DEF CallsBehind, Rows
  <2>7. ASSUME NEW m \in Key, call'[m].pc = "storing", NEW k \in call'[m].previous
        PROVE  call'[k].pc \notin Early /\ state[k] # "current"
    BY <2>1, <2>2, <2>3, <2>7 DEF CallsBehind
  <2>. QED
    BY <2>4, <2>5, <2>6, <2>7 DEF CallsBehind, Rows, Early
<1>4. Late' \subseteq Late
  BY <1>1, <1>2 DEF Late
<1>5. LateOnes'
  BY <1>4 DEF IInv, LateOnes
<1>6. Answered' <=> Answered
  BY <1>1, <1>2, WorkerAuthAssumption DEF Answered, IInv, TypeOK
<1>7. ASSUME NEW k \in Key, Kept(k)
      PROVE  Kept(k)'
  BY <1>1, <1>2, <1>7, WorkerAuthAssumption DEF Kept, Late
<1>8. Answered => waiting' = waiting
  BY <1>2 DEF Answered
<1>9. OwnKept'
  BY <1>6, <1>7, <1>8 DEF IInv, OwnKept, OneRowEach, TypeOK, Answered
<1>. QED
  BY <1>1, <1>2, <1>3, <1>5, <1>9

-----------------------------------------------------------------------------
(* The roots. *)

\* LoadVersion keeps the invariant.
LEMMA LoadVersionKeeps ==
    ASSUME IInv, NEW r \in Rotator, NEW reinit \in BOOLEAN, LoadVersion(r, reinit)
    PROVE  IInv'
<1>1. /\ rotate' \in [Rotator -> RotateRec]
      /\ rotate'[r] = [pc |-> "versioned", version |-> version,
                       reinit |-> reinit, next |-> Null]
      /\ \A q \in Rotator \ {r} : rotate'[q] = rotate[q]
  BY RotateAtType DEF LoadVersion, IInv, TypeOK
<1>2. TypeOK'
  BY <1>1 DEF IInv, TypeOK, LoadVersion, auth, node, manager, RotateRec
<1>3. RotationsCurrent'
  BY <1>1, WorkerAuthAssumption DEF IInv, TypeOK, RotationsCurrent, LoadVersion
<1>4. OneRowEach'
  BY RowsFrame DEF IInv, LoadVersion, auth, node, manager
<1>5. CallsBehind'
  BY CallsFrame DEF IInv, LoadVersion, auth, node, manager
<1>6. LateOnes'
  BY LateFrame DEF IInv, LoadVersion, auth, node, manager
<1>7. OwnKept'
  BY KeptFrame DEF IInv, LoadVersion, auth, node, manager
<1>8. LinkInUse'
  BY LinkFrame DEF IInv, LoadVersion, auth, node, manager
<1>. QED
  BY <1>1, <1>2, <1>3, <1>4, <1>5, <1>6, <1>7, <1>8 DEF IInv

\* removeCertificateAuthority keeps the invariant.
LEMMA removeCertificateAuthorityKeeps ==
    ASSUME IInv, NEW r \in Rotator, removeCertificateAuthority(r)
    PROVE  IInv'
<1>1. ASSUME version = rotate[r].version
      PROVE  TypeOK' /\ RotationsCurrent'
  <2>1. /\ rotate' \in [Rotator -> RotateRec]
        /\ rotate'[r] = [pc |-> "loaded", version |-> version + 1,
                         reinit |-> TRUE, next |-> Null]
        /\ \A q \in Rotator \ {r} : rotate'[q] = rotate[q]
    <3>1. version + 1 \in Nat /\ TRUE \in BOOLEAN
      BY DEF IInv, TypeOK
    <3>2. RotateAt(r, "loaded", version + 1, TRUE, Null)
      BY <1>1 DEF removeCertificateAuthority
    <3>. QED
      BY <3>1, <3>2, RotateAtType DEF IInv
  <2>2. root' = NoRoots /\ version' = version + 1 /\ bundle' = [k \in Key |-> {}]
    BY <1>1 DEF removeCertificateAuthority, DropBundles
  <2>3. TypeOK'
    BY <2>1, <2>2 DEF IInv, TypeOK, removeCertificateAuthority, node, manager,
                      RotateRec, NoRoots
  <2>4. RotationsCurrent'
    BY <1>1, <2>1, <2>2, WorkerAuthAssumption
       DEF IInv, TypeOK, RotationsCurrent, removeCertificateAuthority, NoRoots
  <2>. QED
    BY <2>3, <2>4
<1>2. ASSUME version # rotate[r].version
      PROVE  TypeOK' /\ RotationsCurrent'
  <2>1. /\ rotate' \in [Rotator -> RotateRec]
        /\ rotate'[r] = [pc |-> "idle", version |-> 0, reinit |-> FALSE,
                         next |-> Null]
        /\ \A q \in Rotator \ {r} : rotate'[q] = rotate[q]
    BY <1>2, RotateAtType DEF removeCertificateAuthority, IInv, TypeOK
  <2>2. UNCHANGED <<root, version, bundle>>
    BY <1>2 DEF removeCertificateAuthority
  <2>3. TypeOK'
    BY <2>1, <2>2 DEF IInv, TypeOK, removeCertificateAuthority, node, manager,
                      RotateRec
  <2>4. RotationsCurrent'
    BY <2>1, <2>2 DEF IInv, TypeOK, RotationsCurrent
  <2>. QED
    BY <2>3, <2>4
<1>3. TypeOK' /\ RotationsCurrent'
  BY <1>1, <1>2
<1>4. OneRowEach'
  BY RowsFrame DEF IInv, removeCertificateAuthority, node, manager
<1>5. CallsBehind'
  BY CallsFrame DEF IInv, removeCertificateAuthority, node, manager
<1>6. LateOnes'
  BY LateFrame DEF IInv, removeCertificateAuthority, node, manager
<1>7. OwnKept'
  BY KeptFrame DEF IInv, removeCertificateAuthority, node, manager
<1>8. LinkInUse'
  BY LinkFrame DEF IInv, removeCertificateAuthority, node, manager
<1>. QED
  BY <1>1, <1>2, <1>3, <1>4, <1>5, <1>6, <1>7, <1>8 DEF IInv

\* loadRootCertificates keeps the invariant.
LEMMA loadRootCertificatesKeeps ==
    ASSUME IInv, NEW r \in Rotator, loadRootCertificates(r)
    PROVE  IInv'
<1>1. root.next \in RootId \union {Null}
  BY DEF IInv, TypeOK, NoRoots
<1>2. /\ rotate' \in [Rotator -> RotateRec]
      /\ rotate'[r] = [pc |-> "loaded", version |-> rotate[r].version,
                       reinit |-> FALSE, next |-> root.next]
      /\ \A q \in Rotator \ {r} : rotate'[q] = rotate[q]
  BY <1>1, RotateAtType DEF loadRootCertificates, IInv, TypeOK
<1>3. TypeOK'
  BY <1>2 DEF IInv, TypeOK, loadRootCertificates, auth, node, manager, RotateRec
<1>4. RotationsCurrent'
  BY <1>2 DEF IInv, TypeOK, RotationsCurrent, loadRootCertificates
<1>5. OneRowEach'
  BY RowsFrame DEF IInv, loadRootCertificates, auth, node, manager
<1>6. CallsBehind'
  BY CallsFrame DEF IInv, loadRootCertificates, auth, node, manager
<1>7. LateOnes'
  BY LateFrame DEF IInv, loadRootCertificates, auth, node, manager
<1>8. OwnKept'
  BY KeptFrame DEF IInv, loadRootCertificates, auth, node, manager
<1>9. LinkInUse'
  BY LinkFrame DEF IInv, loadRootCertificates, auth, node, manager
<1>. QED
  BY <1>1, <1>2, <1>3, <1>4, <1>5, <1>6, <1>7, <1>8, <1>9 DEF IInv

\* The pair that is stored is a pair of roots whose current one was next.
LEMMA NewRootsAreRoots ==
    ASSUME IInv, NEW r \in Rotator, rotate[r].pc = "loaded",
           version = rotate[r].version
    PROVE  /\ NewRoots(r) \in [current : RootId, next : RootId]
           /\ root = NoRoots \/ NewRoots(r).current = root.next
<1>1. version \in Nat /\ version <= MaxVersion /\ rotate[r].next = root.next
  BY DEF IInv, TypeOK, RotationsCurrent
<1>2. version >= 1
  BY DEF IInv, TypeOK
<1>3. 2 * version \in RootId /\ 2 * version - 1 \in RootId
  BY <1>1, <1>2, WorkerAuthAssumption DEF RootId
<1>4. CASE rotate[r].next = Null
  <2>1. root = NoRoots
    BY <1>1, <1>4, WorkerAuthAssumption DEF IInv, TypeOK, RootId
  <2>. QED
    BY <1>3, <1>4, <2>1 DEF NewRoots
<1>5. CASE rotate[r].next # Null
  <2>1. rotate[r].next \in RootId
    BY <1>5 DEF IInv, TypeOK
  <2>. QED
    BY <1>1, <1>3, <1>5, <2>1 DEF NewRoots
<1>. QED
  BY <1>4, <1>5

\* storeRootCertificates keeps the invariant.
LEMMA storeRootCertificatesKeeps ==
    ASSUME IInv, NEW r \in Rotator, storeRootCertificates(r)
    PROVE  IInv'
<1>1. /\ rotate' \in [Rotator -> RotateRec]
      /\ rotate'[r] = [pc |-> "idle", version |-> 0, reinit |-> FALSE,
                       next |-> Null]
      /\ \A q \in Rotator \ {r} : rotate'[q] = rotate[q]
  BY RotateAtType DEF storeRootCertificates, IInv, TypeOK
<1>2. ASSUME version = rotate[r].version
      PROVE  TypeOK' /\ RotationsCurrent'
  <2>1. root' = NewRoots(r) /\ version' = version + 1
        /\ bundle' = [k \in Key |-> {}]
    BY <1>2 DEF storeRootCertificates, DropBundles
  <2>2. root' \in [current : RootId, next : RootId]
    BY <1>2, <2>1, NewRootsAreRoots DEF storeRootCertificates
  <2>3. TypeOK'
    BY <1>1, <2>1, <2>2 DEF IInv, TypeOK, storeRootCertificates, node, manager,
                            RotateRec
  <2>4. RotationsCurrent'
    BY <1>1, <2>1 DEF IInv, TypeOK, RotationsCurrent
  <2>. QED
    BY <2>3, <2>4
<1>3. ASSUME version # rotate[r].version
      PROVE  TypeOK' /\ RotationsCurrent'
  <2>1. UNCHANGED <<root, version, bundle>>
    BY <1>3 DEF storeRootCertificates
  <2>2. TypeOK'
    BY <1>1, <2>1 DEF IInv, TypeOK, storeRootCertificates, node, manager, RotateRec
  <2>3. RotationsCurrent'
    BY <1>1, <2>1 DEF IInv, TypeOK, RotationsCurrent
  <2>. QED
    BY <2>2, <2>3
<1>4. TypeOK' /\ RotationsCurrent'
  BY <1>2, <1>3
<1>5. OneRowEach'
  BY RowsFrame DEF IInv, storeRootCertificates, node, manager
<1>6. CallsBehind'
  BY CallsFrame DEF IInv, storeRootCertificates, node, manager
<1>7. LateOnes'
  BY LateFrame DEF IInv, storeRootCertificates, node, manager
<1>8. OwnKept'
  BY KeptFrame DEF IInv, storeRootCertificates, node, manager
<1>9. LinkInUse'
  BY LinkFrame DEF IInv, storeRootCertificates, node, manager
<1>. QED
  BY <1>1, <1>2, <1>3, <1>4, <1>5, <1>6, <1>7, <1>8, <1>9 DEF IInv

\* RotateFails keeps the invariant.
LEMMA RotateFailsKeeps ==
    ASSUME IInv, NEW r \in Rotator, RotateFails(r)
    PROVE  IInv'
<1>1. /\ rotate' \in [Rotator -> RotateRec]
      /\ rotate'[r] = [pc |-> "idle", version |-> 0, reinit |-> FALSE,
                       next |-> Null]
      /\ \A q \in Rotator \ {r} : rotate'[q] = rotate[q]
  BY RotateAtType DEF RotateFails, IInv, TypeOK
<1>2. TypeOK'
  BY <1>1 DEF IInv, TypeOK, RotateFails, auth, node, manager, RotateRec
<1>3. RotationsCurrent'
  BY <1>1 DEF IInv, TypeOK, RotationsCurrent, RotateFails
<1>4. OneRowEach'
  BY RowsFrame DEF IInv, RotateFails, auth, node, manager
<1>5. CallsBehind'
  BY CallsFrame DEF IInv, RotateFails, auth, node, manager
<1>6. LateOnes'
  BY LateFrame DEF IInv, RotateFails, auth, node, manager
<1>7. OwnKept'
  BY KeptFrame DEF IInv, RotateFails, auth, node, manager
<1>8. LinkInUse'
  BY LinkFrame DEF IInv, RotateFails, auth, node, manager
<1>. QED
  BY <1>1, <1>2, <1>3, <1>4, <1>5, <1>6, <1>7, <1>8 DEF IInv

-----------------------------------------------------------------------------
(* The worker. *)

\* WorkerStarts keeps the invariant.
LEMMA WorkerStartsKeeps ==
    ASSUME IInv, NEW n \in Key, WorkerStarts(n)
    PROVE  IInv'
<1>1. /\ call' \in [Key -> CallRec]
      /\ call'[n] = [pc |-> "over", by |-> Null, roots |-> {}, previous |-> {}]
      /\ \A k \in Key \ {n} : call'[k] = call[k]
  BY CallAtType DEF WorkerStarts, IInv
<1>2. call[n].pc = "none" /\ worker # "exists" /\ own' = n
  <2>1. n \in Fresh
    BY DEF WorkerStarts, NewKey
  <2>. QED
    BY <2>1 DEF WorkerStarts, Fresh, IInv, OneRowEach
<1>3. TypeOK'
  BY <1>1, <1>2 DEF IInv, TypeOK, WorkerStarts, auth, roots, manager, CallRec
<1>4. OneRowEach'
  BY <1>2 DEF IInv, OneRowEach, InState, Rows, WorkerStarts, auth
<1>5. CallsBehind'
  <2>1. UNCHANGED <<worker, state, certs>> /\ Rows = {}
    BY <1>2 DEF IInv, OneRowEach, WorkerStarts, auth
  <2>2. /\ own' # Null => call'[own'].pc \notin Early
        /\ worker = "none" => \A k \in Key : call'[k].pc \in {"none", "over"}
    BY <1>1, <1>2 DEF IInv, CallsBehind, Early
  <2>3. ASSUME NEW q \in Key, call'[q].pc = "storing", NEW k \in call'[q].previous
        PROVE  call'[k].pc \notin Early /\ state'[k] # "current"
    <3>1. q # n /\ call'[q] = call[q]
      BY <1>1, <2>3
    <3>2. k \in Key
      BY <2>3, <3>1 DEF IInv, TypeOK
    <3>. QED
      BY <1>1, <2>1, <2>3, <3>1, <3>2 DEF IInv, CallsBehind, Early
  <2>. QED
    BY <2>1, <2>2, <2>3 DEF IInv, CallsBehind, Rows
<1>6. LateOnes'
  <2>1. Late' \subseteq Late
    BY <1>1 DEF Late, WorkerStarts
  <2>. QED
    BY <2>1 DEF IInv, LateOnes, WorkerStarts
<1>7. OwnKept'
  BY <1>2 DEF OwnKept, WorkerStarts, auth
<1>8. RotationsCurrent'
  BY RotationsFrame DEF IInv, WorkerStarts, roots, manager
<1>9. LinkInUse'
  BY LinkFrame DEF IInv, WorkerStarts, roots, manager
<1>. QED
  BY <1>1, <1>2, <1>3, <1>4, <1>5, <1>6, <1>7, <1>8, <1>9 DEF IInv

\* CreateWorker keeps the invariant.
LEMMA CreateWorkerKeeps ==
    ASSUME IInv, CreateWorker
    PROVE  IInv'
<1>1. own \in Key /\ worker' = "exists" /\ Rows = {} /\ UNCHANGED <<own, call, missed, waiting>>
      /\ \A k \in Key : state'[k] = IF k = own THEN "current" ELSE "none"
  BY DEF CreateWorker, node, IInv, TypeOK, OneRowEach, Rows
<1>2. RootSet \subseteq RootId
  BY DEF IInv, TypeOK, RootSet, NoRoots
<1>3. TypeOK'
  BY <1>1, <1>2 DEF IInv, TypeOK, CreateWorker, roots, node, manager
<1>4. OneRowEach'
  BY <1>1, WorkerAuthAssumption DEF OneRowEach, InState, Rows
<1>5. \A k \in Key : call[k].pc \in {"none", "over"}
  BY DEF IInv, CallsBehind, CreateWorker
<1>6. call[own].pc # "none"
  BY <1>1, WorkerAuthAssumption DEF IInv, CallsBehind, Early
<1>7. CallsBehind'
  BY <1>1, <1>5, <1>6 DEF CallsBehind, Rows, Early
<1>8. OwnKept'
  <2>1. ~Answered
    BY <1>5, WorkerAuthAssumption DEF Answered, IInv, TypeOK
  <2>. QED
    BY <1>1, <2>1 DEF OwnKept, Answered, Kept
<1>9. RotationsCurrent'
  BY RotationsFrame DEF IInv, CreateWorker, roots, node, manager
<1>10. LateOnes'
  BY LateFrame DEF IInv, CreateWorker, roots, node, manager
<1>11. LinkInUse'
  BY LinkFrame DEF IInv, CreateWorker, roots, node, manager
<1>. QED
  BY <1>1, <1>2, <1>3, <1>4, <1>5, <1>6, <1>7, <1>8, <1>9, <1>10, <1>11 DEF IInv

\* DeleteWorker keeps the invariant.
LEMMA DeleteWorkerKeeps ==
    ASSUME IInv, DeleteWorker
    PROVE  IInv'
<1>1. TypeOK'
  BY DEF IInv, TypeOK, DeleteWorker, DropBundles, roots, node, manager
<1>2. worker' = "deleted" /\ Rows' = {}
  BY DEF DeleteWorker, Rows
<1>3. OneRowEach'
  BY <1>2 DEF OneRowEach, InState, Rows
<1>4. CallsBehind'
  BY <1>2 DEF IInv, TypeOK, CallsBehind, DeleteWorker, Rows, node
<1>5. OwnKept'
  BY <1>2 DEF OwnKept
<1>6. RotationsCurrent'
  BY RotationsFrame DEF IInv, DeleteWorker, roots, node, manager
<1>7. LateOnes'
  BY LateFrame DEF IInv, DeleteWorker, roots, node, manager
<1>8. LinkInUse'
  BY LinkFrame DEF IInv, DeleteWorker, roots, node, manager
<1>. QED
  BY <1>1, <1>2, <1>3, <1>4, <1>5, <1>6, <1>7, <1>8 DEF IInv

\* FetchNodeCredentials keeps the invariant.
LEMMA FetchNodeCredentialsKeeps ==
    ASSUME IInv, FetchNodeCredentials
    PROVE  IInv'
<1>1. own \in Key /\ own \in Rows
  BY DEF FetchNodeCredentials, IInv, TypeOK, Rows
<1>2. TypeOK'
  BY <1>1 DEF IInv, TypeOK, FetchNodeCredentials, auth, roots, manager
<1>3. CallsBehind'
  BY <1>1 DEF IInv, OneRowEach, CallsBehind, Rows, FetchNodeCredentials, auth
<1>4. RotationsCurrent'
  BY RotationsFrame DEF IInv, FetchNodeCredentials, auth, roots, manager
<1>5. OneRowEach'
  BY RowsFrame DEF IInv, FetchNodeCredentials, auth, roots, manager
<1>6. LateOnes'
  BY LateFrame DEF IInv, FetchNodeCredentials, auth, roots, manager
<1>7. OwnKept'
  BY KeptFrame DEF IInv, FetchNodeCredentials, auth, roots, manager
<1>8. LinkInUse'
  BY LinkFrame DEF IInv, FetchNodeCredentials, auth, roots, manager
<1>. QED
  BY <1>1, <1>2, <1>3, <1>4, <1>5, <1>6, <1>7, <1>8 DEF IInv

\* rotateWorkerAuth keeps the invariant.
LEMMA rotateWorkerAuthKeeps ==
    ASSUME IInv, NEW n \in Key, rotateWorkerAuth(n)
    PROVE  IInv'
<1>1. /\ call' \in [Key -> CallRec]
      /\ call'[n] = [pc |-> "sent", by |-> own, roots |-> {}, previous |-> {}]
      /\ \A k \in Key \ {n} : call'[k] = call[k]
  <2>1. own \in Key \union {Null}
    BY DEF IInv, TypeOK
  <2>. QED
    BY <2>1, CallAtType DEF rotateWorkerAuth, IInv
<1>2. call[n].pc = "none" /\ waiting = Null /\ waiting' = n
  <2>1. n \in Fresh
    BY DEF rotateWorkerAuth, NewKey
  <2>. QED
    BY <2>1 DEF rotateWorkerAuth, Fresh
<1>3. worker # "none"
  BY FS_EmptySet DEF rotateWorkerAuth, IInv, CallsBehind
<1>4. TypeOK'
  BY <1>1, <1>2 DEF IInv, TypeOK, rotateWorkerAuth, auth, roots, manager, CallRec
<1>5. CallsBehind'
  BY <1>1, <1>2, <1>3 DEF IInv, TypeOK, CallsBehind, Rows, Early,
                          rotateWorkerAuth, auth
<1>6. Late' = Late /\ n \notin Late
  BY <1>1, <1>2, WorkerAuthAssumption DEF Late
<1>7. LateOnes'
  BY <1>6 DEF IInv, LateOnes, rotateWorkerAuth
<1>8. OwnKept'
  <2>1. ~Answered /\ ~Answered'
    BY <1>1, <1>2 DEF Answered
  <2>2. ASSUME Kept(own)
        PROVE  Kept(own)'
    BY <1>1, <1>6, <2>2 DEF Kept, Late, rotateWorkerAuth, auth
  <2>. QED
    BY <2>1, <2>2 DEF IInv, OwnKept, rotateWorkerAuth, auth
<1>9. RotationsCurrent'
  BY RotationsFrame DEF IInv, rotateWorkerAuth, auth, roots, manager
<1>10. OneRowEach'
  BY RowsFrame DEF IInv, rotateWorkerAuth, auth, roots, manager
<1>11. LinkInUse'
  BY LinkFrame DEF IInv, rotateWorkerAuth, auth, roots, manager
<1>. QED
  BY <1>1, <1>2, <1>3, <1>4, <1>5, <1>6, <1>7, <1>8, <1>9, <1>10, <1>11 DEF IInv

\* StoreNewCreds keeps the invariant.
LEMMA StoreNewCredsKeeps ==
    ASSUME IInv, NEW n \in Key, StoreNewCreds(n)
    PROVE  IInv'
<1>1. /\ call' \in [Key -> CallRec]
      /\ call'[n] = [pc |-> "over", by |-> Null, roots |-> {}, previous |-> {}]
      /\ \A k \in Key \ {n} : call'[k] = call[k]
  BY CallAtType DEF StoreNewCreds, IInv
<1>2. waiting = n /\ call[n].pc = "answered" /\ waiting' = Null /\ own' = n
  BY DEF StoreNewCreds
<1>3. n # Null
  BY WorkerAuthAssumption
<1>4. worker # "none"
  BY <1>2 DEF IInv, CallsBehind
<1>5. TypeOK'
  BY <1>1, <1>2 DEF IInv, TypeOK, StoreNewCreds, auth, roots, manager, CallRec
<1>6. OneRowEach'
  BY <1>2, <1>3 DEF IInv, OneRowEach, InState, Rows, StoreNewCreds, auth
<1>7. CallsBehind'
  BY <1>1, <1>2, <1>4 DEF IInv, TypeOK, CallsBehind, Rows, Early, StoreNewCreds, auth
<1>8. Late' = Late /\ n \notin Late
  BY <1>1, <1>2, <1>3, WorkerAuthAssumption DEF Late
<1>9. LateOnes'
  BY <1>8 DEF IInv, LateOnes, StoreNewCreds
<1>10. OwnKept'
  <2>1. Answered /\ ~Answered'
    BY <1>2, <1>3 DEF Answered
  <2>2. ASSUME Kept(n)
        PROVE  Kept(n)'
    BY <1>1, <1>8, <2>2 DEF Kept, Late, StoreNewCreds, auth
  <2>. QED
    BY <1>2, <2>1, <2>2 DEF IInv, OwnKept, StoreNewCreds, auth, Kept
<1>11. RotationsCurrent'
  BY RotationsFrame DEF IInv, StoreNewCreds, roots, manager
<1>12. LinkInUse'
  BY LinkFrame DEF IInv, StoreNewCreds, roots, manager
<1>. QED
  BY <1>1, <1>2, <1>3, <1>4, <1>5, <1>6, <1>7, <1>8, <1>9, <1>10, <1>11, <1>12 DEF IInv

\* WorkerGivesUp keeps the invariant.
LEMMA WorkerGivesUpKeeps ==
    ASSUME IInv, WorkerGivesUp
    PROVE  IInv'
<1>1. waiting \in Key /\ waiting' = Null /\ missed' = missed + 1 /\ missed \in Nat
      /\ UNCHANGED <<own, certs, call, worker, state>>
  BY DEF WorkerGivesUp, auth, IInv, TypeOK
<1>2. TypeOK'
  BY <1>1, WorkerAuthAssumption DEF IInv, TypeOK, WorkerGivesUp, auth, roots, manager
<1>3. Late' \subseteq Late \union {waiting} /\ Late \subseteq Late'
  BY <1>1, WorkerAuthAssumption DEF Late
<1>4. LateOnes'
  BY <1>1, <1>3 DEF IInv, LateOnes
<1>5. OwnKept'
  <2>1. SUFFICES ASSUME worker = "exists", missed = 0
                 PROVE  Kept(own)'
    BY <1>1 DEF OwnKept, Answered
  <2>2. CASE ~Answered
    BY <1>1, <1>3, <2>1, <2>2 DEF IInv, OwnKept, Kept
  <2>3. CASE Answered
    <3>1. state[own] = "previous" /\ state[waiting] = "current"
      BY <2>1, <2>3 DEF IInv, OwnKept, Kept, LateOnes
    <3>2. waiting \in Late'
      BY <1>1, <2>3, WorkerAuthAssumption DEF Late, Answered
    <3>. QED
      BY <1>1, <2>3, <3>1, <3>2 DEF Kept, Answered
  <2>. QED
    BY <2>2, <2>3
<1>6. RotationsCurrent'
  BY RotationsFrame DEF IInv, WorkerGivesUp, auth, roots, manager
<1>7. OneRowEach'
  BY RowsFrame DEF IInv, WorkerGivesUp, auth, roots, manager
<1>8. CallsBehind'
  BY CallsFrame DEF IInv, WorkerGivesUp, auth, roots, manager
<1>9. LinkInUse'
  BY LinkFrame DEF IInv, WorkerGivesUp, auth, roots, manager
<1>. QED
  BY <1>1, <1>2, <1>3, <1>4, <1>5, <1>6, <1>7, <1>8, <1>9 DEF IInv

-----------------------------------------------------------------------------
(* RotateNodeCredentials. *)

\* loadNodeInformation keeps the invariant.
LEMMA loadNodeInformationKeeps ==
    ASSUME IInv, NEW n \in Key, loadNodeInformation(n)
    PROVE  IInv'
<1>1. RootSet \subseteq RootId /\ call[n].by \in Key \union {Null}
      /\ call[n].pc = "sent"
  BY DEF IInv, TypeOK, RootSet, NoRoots, loadNodeInformation
<1>2. ASSUME CallFails(n)
      PROVE  TypeOK' /\ CallsBehind' /\ LateOnes' /\ OwnKept'
  <2>1. /\ call' \in [Key -> CallRec] /\ waiting' \in Key \union {Null}
        /\ CallsBehind' /\ LateOnes' /\ OwnKept'
    BY <1>1, <1>2, CallFailsKeeps DEF loadNodeInformation, auth
  <2>. QED
    BY <2>1 DEF IInv, TypeOK, loadNodeInformation, auth, roots, manager, CallRec
<1>3. ASSUME CallAt(n, "loaded", call[n].by, RootSet, {}), UNCHANGED waiting
      PROVE  TypeOK' /\ CallsBehind' /\ LateOnes' /\ OwnKept'
  <2>1. /\ call' \in [Key -> CallRec]
        /\ call'[n] = [pc |-> "loaded", by |-> call[n].by, roots |-> RootSet,
                       previous |-> {}]
        /\ \A k \in Key \ {n} : call'[k] = call[k]
    BY <1>1, <1>3, CallAtType DEF IInv
  <2>2. TypeOK'
    BY <1>3, <2>1 DEF IInv, TypeOK, loadNodeInformation, auth, roots, manager, CallRec
  <2>3. CallsBehind'
    BY <1>1, <2>1 DEF IInv, TypeOK, CallsBehind, Rows, Early,
                      loadNodeInformation, auth
  <2>4. Late' = Late
    BY <1>1, <1>3, <2>1 DEF Late
  <2>5. LateOnes'
    BY <1>3, <2>4 DEF IInv, LateOnes, loadNodeInformation
  <2>6. OwnKept'
    BY <1>1, <1>3, <2>1, <2>4 DEF IInv, OwnKept, Kept, Late, Answered, TypeOK,
                                  loadNodeInformation, auth
  <2>. QED
    BY <2>2, <2>3, <2>5, <2>6
<1>4. TypeOK' /\ CallsBehind' /\ LateOnes' /\ OwnKept'
  BY <1>2, <1>3 DEF loadNodeInformation
<1>5. RotationsCurrent'
  BY RotationsFrame DEF IInv, loadNodeInformation, auth, roots, manager
<1>6. OneRowEach'
  BY RowsFrame DEF IInv, loadNodeInformation, auth, roots, manager
<1>7. LinkInUse'
  BY LinkFrame DEF IInv, loadNodeInformation, auth, roots, manager
<1>. QED
  BY <1>1, <1>2, <1>3, <1>4, <1>5, <1>6, <1>7 DEF IInv

\* StoreBegins keeps the invariant.
LEMMA StoreBeginsKeeps ==
    ASSUME IInv, NEW n \in Key, StoreBegins(n)
    PROVE  IInv'
<1>1. /\ call' \in [Key -> CallRec]
      /\ call'[n] = [pc |-> "storing", by |-> call[n].by, roots |-> call[n].roots,
                     previous |-> InState("previous")]
      /\ \A k \in Key \ {n} : call'[k] = call[k]
  <2>1. /\ call[n].by \in Key \union {Null} /\ call[n].roots \in SUBSET RootId
        /\ InState("previous") \in SUBSET Key
    BY DEF IInv, TypeOK, InState
  <2>. QED
    BY <2>1, CallAtType DEF StoreBegins, IInv
<1>2. call[n].pc = "loaded" /\ UNCHANGED <<auth, roots, node, manager>>
  BY DEF StoreBegins
<1>3. TypeOK'
  BY <1>1, <1>2 DEF IInv, TypeOK, auth, roots, node, manager, CallRec
<1>4. CallsBehind'
  BY <1>1, <1>2 DEF IInv, TypeOK, CallsBehind, Rows, Early, auth, node, InState
<1>5. Late' = Late
  BY <1>1, <1>2 DEF Late, node
<1>6. LateOnes'
  BY <1>2, <1>5 DEF IInv, LateOnes, node
<1>7. OwnKept'
  BY <1>1, <1>2, <1>5 DEF IInv, OwnKept, Kept, Late, Answered, TypeOK, auth, node
<1>8. RotationsCurrent'
  BY RotationsFrame DEF IInv, StoreBegins, auth, roots, node, manager
<1>9. OneRowEach'
  BY RowsFrame DEF IInv, StoreBegins, auth, roots, node, manager
<1>10. LinkInUse'
  BY LinkFrame DEF IInv, StoreBegins, auth, roots, node, manager
<1>. QED
  BY <1>1, <1>2, <1>3, <1>4, <1>5, <1>6, <1>7, <1>8, <1>9, <1>10 DEF IInv

\* What the rows are when a store has been committed.
LEMMA RowsStored ==
    ASSUME IInv, NEW n \in Key, call[n].pc = "storing",
           InState("previous") \subseteq call[n].previous,
           state' = Inserted(n, call[n].previous)
    PROVE  /\ state' \in [Key -> {"none", "current", "previous"}]
           /\ state'[n] = "current"
           /\ \A k \in Key \ {n} :
                 state'[k] = IF state[k] = "current" THEN "previous" ELSE "none"
<1>1. \A k \in Key : state[k] = "current" => k \notin call[n].previous
  BY DEF IInv, CallsBehind
<1>2. \A k \in Key : state[k] = "previous" => k \in call[n].previous
  BY DEF InState
<1>3. \A k \in Key : state[k] \in {"none", "current", "previous"}
  BY DEF IInv, TypeOK
<1>. QED
  BY <1>1, <1>2, <1>3 DEF Inserted

\* StoreNodeInformationTx keeps the invariant.
LEMMA StoreNodeInformationTxKeeps ==
    ASSUME IInv, NEW n \in Key, StoreNodeInformationTx(n)
    PROVE  IInv'
<1>1. call[n].pc = "storing"
      /\ UNCHANGED <<worker, roots, own, certs, missed, manager>>
  BY DEF StoreNodeInformationTx
<1>2. ASSUME CallFails(n), UNCHANGED <<state, bundle>>
      PROVE  TypeOK' /\ OneRowEach' /\ CallsBehind' /\ LateOnes' /\ OwnKept'
  <2>1. /\ call' \in [Key -> CallRec] /\ waiting' \in Key \union {Null}
        /\ CallsBehind' /\ LateOnes' /\ OwnKept'
    BY <1>1, <1>2, CallFailsKeeps
  <2>2. TypeOK'
    BY <1>1, <1>2, <2>1 DEF IInv, TypeOK, roots, manager, CallRec
  <2>3. OneRowEach'
    BY <1>1, <1>2, RowsFrame DEF IInv
  <2>. QED
    BY <2>1, <2>2, <2>3
<1>3. ASSUME worker = "exists", InState("previous") \subseteq call[n].previous,
             state' = Inserted(n, call[n].previous), UNCHANGED waiting,
             bundle' = [k \in Key |-> IF k = n THEN call[n].roots
                                      ELSE IF k \in call[n].previous THEN {}
                                      ELSE bundle[k]],
             CallAt(n, "answered", call[n].by, call[n].roots, {})
      PROVE  TypeOK' /\ OneRowEach' /\ CallsBehind' /\ LateOnes' /\ OwnKept'
  <2>2. /\ state' \in [Key -> {"none", "current", "previous"}]
        /\ state'[n] = "current"
        /\ \A k \in Key \ {n} :
              state'[k] = IF state[k] = "current" THEN "previous" ELSE "none"
    BY <1>1, <1>3, RowsStored
  <2>3. /\ call' \in [Key -> CallRec]
        /\ call'[n] = [pc |-> "answered", by |-> call[n].by,
                       roots |-> call[n].roots, previous |-> {}]
        /\ \A k \in Key \ {n} : call'[k] = call[k]
    <3>1. call[n].by \in Key \union {Null} /\ call[n].roots \in SUBSET RootId
      BY DEF IInv, TypeOK
    <3>. QED
      BY <1>3, <3>1, CallAtType, {} \in SUBSET Key DEF IInv
  <2>4. bundle' \in [Key -> SUBSET RootId]
    BY <1>3 DEF IInv, TypeOK
  <2>5. TypeOK'
    BY <1>1, <1>3, <2>2, <2>3, <2>4 DEF IInv, TypeOK, roots, manager, CallRec
  <2>6. OneRowEach'
    BY <1>1, <1>3, <2>2 DEF IInv, OneRowEach, InState, Rows
  <2>7. CallsBehind'
    BY <1>1, <1>3, <2>2, <2>3 DEF IInv, TypeOK, CallsBehind, Rows, Early
  <2>8. Late' = Late /\ LateOnes'
    BY <1>1, <1>3, <2>3 DEF IInv, Late, LateOnes
  <2>9. OwnKept'
    <3>1. SUFFICES ASSUME missed <= 1
                   PROVE  OwnKept'
      BY <1>1 DEF OwnKept
    <3>2. own \in Key /\ waiting \in Key \union {Null} /\ missed \in Nat
      BY <1>3 DEF IInv, TypeOK, OneRowEach
    <3>3. CASE waiting = n
      <4>1. ~Answered /\ Answered' /\ Kept(n)'
        BY <1>1, <1>3, <2>2, <2>3, <3>3, WorkerAuthAssumption DEF Answered, Kept
      <4>2. ASSUME missed = 0
            PROVE  state'[own] = "previous"
        <5>1. state[own] = "current" /\ own \in Rows
          BY <1>3, <3>1, <3>2, <4>1, <4>2 DEF IInv, OwnKept, Kept, LateOnes, Rows
        <5>2. own # n
          BY <1>1, <5>1 DEF IInv, CallsBehind, Early
        <5>. QED
          BY <2>2, <3>2, <5>1, <5>2
      <4>. QED
        BY <1>1, <1>3, <3>3, <4>1, <4>2 DEF OwnKept
    <3>4. CASE waiting # n
      <4>1. n \in Late /\ missed = 1 /\ \A m \in Late : call[m].pc # "answered"
        BY <1>1, <3>1, <3>2, <3>4 DEF IInv, Late, LateOnes
      <4>2. ASSUME NEW k \in Key, Kept(k)
            PROVE  Kept(k)'
        <5>1. state[k] = "current" /\ k \in Rows
          BY <4>1, <4>2 DEF Kept, Rows
        <5>2. k # n
          BY <1>1, <5>1 DEF IInv, CallsBehind, Early
        <5>3. state'[k] = "previous"
          BY <2>2, <5>1, <5>2
        <5>. QED
          BY <2>2, <2>3, <2>8, <4>1, <5>3 DEF Kept
      <4>3. Answered' <=> Answered
        BY <1>3, <2>3, <3>2, <3>4 DEF Answered
      <4>4. Answered => waiting \in Key
        BY <3>2 DEF Answered
      <4>. QED
        BY <1>1, <1>3, <3>1, <3>2, <4>1, <4>2, <4>3, <4>4 DEF IInv, OwnKept
    <3>. QED
      BY <3>3, <3>4
  <2>. QED
    BY <2>5, <2>6, <2>7, <2>8, <2>9
<1>4. TypeOK' /\ OneRowEach' /\ CallsBehind' /\ LateOnes' /\ OwnKept'
  BY <1>2, <1>3 DEF StoreNodeInformationTx
<1>5. RotationsCurrent'
  BY RotationsFrame DEF IInv, StoreNodeInformationTx, roots, manager
<1>6. LinkInUse'
  BY LinkFrame DEF IInv, StoreNodeInformationTx, roots, manager
<1>. QED
  BY <1>1, <1>2, <1>3, <1>4, <1>5, <1>6 DEF IInv

\* RotateNodeCredentialsFails keeps the invariant.
LEMMA RotateNodeCredentialsFailsKeeps ==
    ASSUME IInv, NEW n \in Key, RotateNodeCredentialsFails(n)
    PROVE  IInv'
<1>1. /\ call' \in [Key -> CallRec] /\ waiting' \in Key \union {Null}
      /\ CallsBehind' /\ LateOnes' /\ OwnKept'
  BY CallFailsKeeps DEF RotateNodeCredentialsFails, auth
<1>2. TypeOK'
  BY <1>1 DEF IInv, TypeOK, RotateNodeCredentialsFails, auth, roots, manager, CallRec
<1>3. RotationsCurrent'
  BY RotationsFrame DEF IInv, RotateNodeCredentialsFails, auth, roots, manager
<1>4. OneRowEach'
  BY RowsFrame DEF IInv, RotateNodeCredentialsFails, auth, roots, manager
<1>5. LinkInUse'
  BY LinkFrame DEF IInv, RotateNodeCredentialsFails, auth, roots, manager
<1>. QED
  BY <1>1, <1>2, <1>3, <1>4, <1>5 DEF IInv

-----------------------------------------------------------------------------
(* The connection: the rows and the credentials stay as they are. *)

\* A step that only changes what a controller records of the connection.
LEMMA ManagerKeeps ==
    ASSUME IInv, UNCHANGED <<auth, roots, node, call>>,
           link' \in Key \union {Null}, links' \in 0..MaxLinks,
           accept' \in {"none", "map", "add"}, LinkInUse',
           tracked' \subseteq Key, mapped' \subseteq Key,
           sweep' \in [pc : {"idle", "workers", "keys"}, worker : BOOLEAN,
                       keys : SUBSET Key]
    PROVE  IInv'
<1>1. TypeOK'
  BY DEF IInv, TypeOK, auth, roots, node
<1>2. RotationsCurrent'
  BY RotationsFrame DEF IInv, auth, roots, node
<1>3. OneRowEach'
  BY RowsFrame DEF IInv, auth, roots, node
<1>4. CallsBehind'
  BY CallsFrame DEF IInv, auth, roots, node
<1>5. LateOnes'
  BY LateFrame DEF IInv, auth, roots, node
<1>6. OwnKept'
  BY KeptFrame DEF IInv, auth, roots, node
<1>. QED
  BY <1>1, <1>2, <1>3, <1>4, <1>5, <1>6 DEF IInv

\* Closing connections keeps the records typed.
LEMMA CloseType ==
    ASSUME TypeOK, LinkInUse, NEW K, Close(K), accept' = accept
    PROVE  /\ link' \in Key \union {Null} /\ LinkInUse'
           /\ tracked' \subseteq Key /\ mapped' \subseteq Key
  BY DEF TypeOK, Close, LinkInUse

\* The steps of the connection keep the invariant.
LEMMA ConnectionKeeps ==
    ASSUME IInv, Connect \/ LinkBreaks \/ Accept \/ Sweep
    PROVE  IInv'
<1>. TypeOK /\ LinkInUse
  BY DEF IInv
<1>1. CASE Connect
  <2>1. links' \in 0..MaxLinks
    BY <1>1, WorkerAuthAssumption DEF Connect, TypeOK
  <2>. QED
    BY <1>1, <2>1, ManagerKeeps DEF LinkInUse, Connect, TypeOK
<1>2. CASE LinkBreaks
  BY <1>2, ManagerKeeps DEF LinkInUse, LinkBreaks, TypeOK
<1>3. CASE mapKeyToWorkerId
  <2>1. link \in Key
    BY <1>3 DEF mapKeyToWorkerId, LinkInUse, TypeOK
  <2>. QED
    BY <1>3, <2>1, ManagerKeeps DEF LinkInUse, mapKeyToWorkerId, TypeOK
<1>4. CASE addConnection
  <2>1. link \in Key
    BY <1>4 DEF addConnection, LinkInUse, TypeOK
  <2>. QED
    BY <1>4, <2>1, ManagerKeeps DEF LinkInUse, addConnection, TypeOK
<1>5. CASE Connected
  <2>1. /\ (tracked \intersect mapped # {}) \in BOOLEAN
        /\ tracked \ mapped \subseteq Key
    BY DEF TypeOK
  <2>2. sweep' \in [pc : {"idle", "workers", "keys"}, worker : BOOLEAN,
                    keys : SUBSET Key]
    BY <1>5, <2>1 DEF Connected
  <2>. QED
    BY <1>5, <2>2, ManagerKeeps DEF LinkInUse, Connected, TypeOK
<1>6. CASE DisconnectMissingWorkers
  <2>1. /\ link' \in Key \union {Null} /\ LinkInUse'
        /\ tracked' \subseteq Key /\ mapped' \subseteq Key
    <3>1. CASE Close(mapped)
      BY <1>6, <3>1, CloseType DEF DisconnectMissingWorkers
    <3>2. CASE UNCHANGED <<link, tracked, mapped>>
      BY <1>6, <3>2 DEF TypeOK, LinkInUse, DisconnectMissingWorkers
    <3>. QED
      BY <1>6, <3>1, <3>2 DEF DisconnectMissingWorkers
  <2>2. sweep' \in [pc : {"idle", "workers", "keys"}, worker : BOOLEAN,
                    keys : SUBSET Key]
    BY <1>6 DEF DisconnectMissingWorkers, TypeOK
  <2>. QED
    BY <1>6, <2>1, <2>2, ManagerKeeps DEF LinkInUse, DisconnectMissingWorkers, TypeOK
<1>7. CASE DisconnectMissingUnmappedKeyIds
  <2>1. /\ link' \in Key \union {Null} /\ LinkInUse'
        /\ tracked' \subseteq Key /\ mapped' \subseteq Key
    BY <1>7, CloseType DEF DisconnectMissingUnmappedKeyIds
  <2>2. sweep' \in [pc : {"idle", "workers", "keys"}, worker : BOOLEAN,
                    keys : SUBSET Key]
    BY <1>7 DEF DisconnectMissingUnmappedKeyIds, NoSweep
  <2>. QED
    BY <1>7, <2>1, <2>2, ManagerKeeps DEF LinkInUse, DisconnectMissingUnmappedKeyIds, TypeOK
<1>. QED
  BY <1>1, <1>2, <1>3, <1>4, <1>5, <1>6, <1>7 DEF Accept, Sweep

-----------------------------------------------------------------------------
(* The theorems. *)

\* The invariant holds at the start.
LEMMA InitIInv == Init => IInv
<1>. SUFFICES ASSUME Init PROVE IInv
  OBVIOUS
<1>1. TypeOK
  BY WorkerAuthAssumption DEF Init, TypeOK, NoRoots, NoRotate, NoCall, NoSweep
<1>2. RotationsCurrent
  BY DEF Init, RotationsCurrent, NoRotate
<1>3. OneRowEach /\ LinkInUse
  BY DEF Init, OneRowEach, InState, Rows, LinkInUse
<1>4. CallsBehind
  BY DEF Init, CallsBehind, Rows, NoCall, Early
<1>5. LateOnes
  BY DEF Init, LateOnes, Late, NoCall
<1>6. OwnKept
  BY DEF Init, OwnKept
<1>. QED
  BY <1>1, <1>2, <1>3, <1>4, <1>5, <1>6 DEF IInv

\* Every step keeps it.
LEMMA NextIInv == IInv /\ [Next]_vars => IInv'
<1>. SUFFICES ASSUME IInv, [Next]_vars PROVE IInv'
  OBVIOUS
<1>1. CASE UNCHANGED vars
  <2>1. UNCHANGED <<auth, roots, node, call>> /\ UNCHANGED manager
    BY <1>1 DEF vars
  <2>. QED
    BY <2>1, ManagerKeeps DEF manager, IInv, TypeOK, LinkInUse
<1>2. ASSUME NEW r \in Rotator, Rotation(r)
      PROVE  IInv'
  BY <1>2, LoadVersionKeeps, removeCertificateAuthorityKeeps,
     loadRootCertificatesKeeps, storeRootCertificatesKeeps, RotateFailsKeeps
     DEF Rotation
<1>3. ASSUME NEW k \in Key, RotateNodeCredentials(k)
      PROVE  IInv'
  BY <1>3, loadNodeInformationKeeps, StoreBeginsKeeps,
     StoreNodeInformationTxKeeps, RotateNodeCredentialsFailsKeeps
     DEF RotateNodeCredentials
<1>4. ASSUME NEW k \in Key,
             WorkerStarts(k) \/ rotateWorkerAuth(k) \/ StoreNewCreds(k)
      PROVE  IInv'
  BY <1>4, WorkerStartsKeeps, rotateWorkerAuthKeeps, StoreNewCredsKeeps
<1>5. CASE CreateWorker \/ DeleteWorker \/ FetchNodeCredentials \/ WorkerGivesUp
  BY <1>5, CreateWorkerKeeps, DeleteWorkerKeeps, FetchNodeCredentialsKeeps,
     WorkerGivesUpKeeps
<1>6. CASE Connect \/ LinkBreaks \/ Accept \/ Sweep
  BY <1>6, ConnectionKeeps
<1>. QED
  BY <1>1, <1>2, <1>3, <1>4, <1>5, <1>6 DEF Next

\* The invariant, for every behaviour of the rotations, the worker, the
\* controllers and the connection.
THEOREM Inductive == Spec => []IInv
  BY InitIInv, NextIInv, PTL DEF Spec

\* Type correctness of the worker's authentication.
THEOREM TypeCorrect == Spec => []TypeOK
<1>1. IInv => TypeOK
  BY DEF IInv
<1>. QED
  BY <1>1, Inductive, PTL

\* validateWorkerAuths accepts the rows of every worker that has any, however
\* many stores overlap.
THEOREM RecordsStayValid == Spec => []RecordsValid
<1>1. IInv => RecordsValid
  <2>. SUFFICES ASSUME IInv, Rows # {} PROVE validateWorkerAuths
    BY DEF RecordsValid
  <2>1. PICK k \in InState("current") : TRUE
    BY DEF IInv, OneRowEach
  <2>2. InState("current") = {k}
    BY <2>1 DEF IInv, OneRowEach
  <2>3. Cardinality(InState("current")) = 1
    BY <2>2, FS_Singleton
  <2>4. CASE InState("previous") = {}
    BY <2>3, <2>4, FS_EmptySet DEF validateWorkerAuths
  <2>5. CASE InState("previous") # {}
    <3>1. PICK j \in InState("previous") : TRUE
      BY <2>5
    <3>2. InState("previous") = {j}
      BY <3>1 DEF IInv, OneRowEach
    <3>. QED
      BY <2>3, <3>2, FS_Singleton DEF validateWorkerAuths
  <2>. QED
    BY <2>4, <2>5
<1>. QED
  BY <1>1, Inductive, PTL

\* A worker that lost one answer of a rotation can still authenticate.
THEOREM OneLossSurvived == Spec => []OneLossIsSurvived
<1>1. IInv => OneLossIsSurvived
  <2>. SUFFICES ASSUME IInv, worker = "exists", missed <= 1
                PROVE  \/ state[own] # "none"
                       \/ /\ waiting # Null /\ call[waiting].pc = "answered"
                          /\ state[waiting] # "none"
    BY DEF OneLossIsSurvived
  <2>1. CASE Answered
    BY <2>1 DEF IInv, OwnKept, Kept, Answered
  <2>2. CASE ~Answered
    BY <2>2 DEF IInv, OwnKept, Kept
  <2>. QED
    BY <2>1, <2>2
<1>. QED
  BY <1>1, Inductive, PTL

\* A rotation that has loaded an old version replaces nothing: roots move one
\* place at a time.
THEOREM RootsOnlyMoveForward == Spec => RootsMoveForward
<1> DEFINE Step == root' # root => root = NoRoots \/ root' = NoRoots
                                   \/ root'.current = root.next
<1>1. IInv /\ [Next]_vars => [Step]_root
  <2>. SUFFICES ASSUME IInv, [Next]_vars, root' # root
                PROVE  Step
    OBVIOUS
  <2>1. PICK r \in Rotator : removeCertificateAuthority(r) \/ storeRootCertificates(r)
    BY DEF Next, vars, roots, Rotation, LoadVersion, loadRootCertificates,
           RotateFails, WorkerStarts, rotateWorkerAuth, StoreNewCreds,
           RotateNodeCredentials, loadNodeInformation, StoreBegins,
           StoreNodeInformationTx, RotateNodeCredentialsFails, CreateWorker,
           DeleteWorker, FetchNodeCredentials, WorkerGivesUp, Connect,
           LinkBreaks, Accept, mapKeyToWorkerId, addConnection, Sweep,
           Connected, DisconnectMissingWorkers, DisconnectMissingUnmappedKeyIds
  <2>2. CASE removeCertificateAuthority(r)
    BY <2>2 DEF removeCertificateAuthority
  <2>3. CASE storeRootCertificates(r)
    BY <2>3, NewRootsAreRoots DEF storeRootCertificates
  <2>. QED
    BY <2>1, <2>2, <2>3
<1>2. [][Step]_root <=> RootsMoveForward
  BY DEF RootsMoveForward
<1>. QED
  BY <1>1, Inductive, PTL DEF Spec, RootsMoveForward

=============================================================================
