----------------------------- MODULE WorkerAuth -----------------------------
(***************************************************************************)
(* How one worker proves who it is: the credentials in its own storage,    *)
(* the rows of worker_auth_authorized and of the certificate bundles that  *)
(* the controllers keep for it, the two root certificates that sign them,  *)
(* the rotation of both, and a controller's record of its connection.      *)
(* Answers to rotation requests are lost and requests arrive late, two     *)
(* controllers store credentials or roots at the same time, and the worker *)
(* is deleted while its connection is being accepted.                      *)
(***************************************************************************)
EXTENDS Naturals, FiniteSets

CONSTANTS
    Key,        \* credentials the worker generates, named by their key id
    Rotator,    \* who runs RotateRoots: the job, a controller at its start
    MaxVersion, \* bound: versions of the roots
    MaxMissed,  \* bound: rotation requests the worker gives up
    MaxLinks,   \* bound: connections the worker opens
    Null

ASSUME WorkerAuthAssumption ==
    /\ MaxVersion \in Nat /\ MaxMissed \in Nat /\ MaxLinks \in Nat
    /\ Null \notin Key \union (1..(2 * MaxVersion))

VARIABLES
    worker,     \* the row of the worker: none, exists, deleted
    state,      \* key -> state of its row in worker_auth_authorized
    bundle,     \* key -> roots of its rows in worker_auth_certificate_bundle
    root,       \* the rows of worker_auth_ca_certificate
    version,    \* version of worker_auth_ca
    rotate,     \* rotator -> progress of RotateRoots and what it has loaded
    own,        \* credentials in the storage of the worker
    certs,      \* roots that signed the certificates the worker has for them
    waiting,    \* key the worker waits for
    missed,     \* requests given up so far
    call,       \* key -> progress of the RotateNodeCredentials that asks for it
    link,       \* key of the open connection to the controller
    links,      \* connections opened so far
    accept,     \* progress of Accept with that connection
    tracked,    \* keys with an entry in workerConnections
    mapped,     \* keys with an entry in keyToWorkerId
    sweep       \* progress of the connection maintenance and its snapshot

auth    == <<worker, state, bundle>>
roots   == <<root, version, rotate>>
node    == <<own, certs, waiting, missed>>
manager == <<link, links, accept, tracked, mapped, sweep>>
vars    == <<auth, roots, node, call, manager>>

\* The roots created at version v are 2v - 1 and 2v, or 2v alone.
RootId  == 1..(2 * MaxVersion)
NoRoots == [current |-> Null, next |-> Null]
RootSet == {root.current, root.next} \ {Null}
Rows    == {k \in Key : state[k] # "none"}
InState(s) == {k \in Key : state[k] = s}

NoCall   == [pc |-> "none", by |-> Null, roots |-> {}, previous |-> {}]
NoRotate == [pc |-> "idle", version |-> 0, reinit |-> FALSE, next |-> Null]
NoSweep  == [pc |-> "idle", worker |-> FALSE, keys |-> {}]

\* The types of the variables: the roots are a pair or both missing, and a
\* key has a row in one of two states or none.
TypeOK ==
    /\ worker \in {"none", "exists", "deleted"}
    /\ state \in [Key -> {"none", "current", "previous"}]
    /\ bundle \in [Key -> SUBSET RootId]
    /\ root \in [current : RootId, next : RootId] \union {NoRoots}
    /\ version \in Nat \ {0}
    /\ rotate \in [Rotator -> [pc : {"idle", "versioned", "loaded"},
                               version : Nat, reinit : BOOLEAN,
                               next : RootId \union {Null}]]
    /\ own \in Key \union {Null} /\ certs \subseteq RootId
    /\ waiting \in Key \union {Null} /\ missed \in 0..MaxMissed
    /\ call \in [Key -> [pc : {"none", "sent", "loaded", "storing", "answered",
                               "over"},
                         by : Key \union {Null}, roots : SUBSET RootId,
                         previous : SUBSET Key]]
    /\ link \in Key \union {Null} /\ links \in 0..MaxLinks
    /\ accept \in {"none", "map", "add"}
    /\ tracked \subseteq Key /\ mapped \subseteq Key
    /\ sweep \in [pc : {"idle", "workers", "keys"}, worker : BOOLEAN,
                  keys : SUBSET Key]

Init ==
    /\ worker = "none" /\ state = [k \in Key |-> "none"]
    /\ bundle = [k \in Key |-> {}]
    /\ root = NoRoots /\ version = 1
    /\ rotate = [r \in Rotator |-> NoRotate]
    /\ own = Null /\ certs = {} /\ waiting = Null /\ missed = 0
    /\ call = [k \in Key |-> NoCall]
    /\ link = Null /\ links = 0 /\ accept = "none"
    /\ tracked = {} /\ mapped = {} /\ sweep = NoSweep

-----------------------------------------------------------------------------
(* The roots.  RotateRoots loads the version, the library then loads the   *)
(* certificates and stores the new pair, which goes by that version.       *)

RotateAt(r, pc, v, reinit, next) ==
    rotate' = [rotate EXCEPT ![r] = [pc |-> pc, version |-> v,
                                     reinit |-> reinit, next |-> next]]

LoadVersion(r, reinit) ==
    /\ rotate[r].pc = "idle" /\ version < MaxVersion
    /\ RotateAt(r, "versioned", version, reinit, Null)
    /\ UNCHANGED <<auth, root, version, node, call, manager>>

\* Deleting a root certificate deletes the bundles that go with it.
DropBundles == bundle' = [k \in Key |-> {}]

\* A reinitialization removes the roots first, and goes on with the next
\* version.
removeCertificateAuthority(r) ==
    /\ rotate[r].pc = "versioned" /\ rotate[r].reinit
    /\ IF version = rotate[r].version
       THEN /\ root' = NoRoots /\ version' = version + 1 /\ DropBundles
            /\ RotateAt(r, "loaded", version + 1, TRUE, Null)
       ELSE /\ RotateAt(r, "idle", 0, FALSE, Null)
            /\ UNCHANGED <<root, version, bundle>>
    /\ UNCHANGED <<worker, state, node, call, manager>>

loadRootCertificates(r) ==
    /\ rotate[r].pc = "versioned" /\ ~rotate[r].reinit
    /\ RotateAt(r, "loaded", rotate[r].version, FALSE, root.next)
    /\ UNCHANGED <<auth, root, version, node, call, manager>>

\* The next root becomes the current one; without roots, two are created.
NewRoots(r) ==
    [current |-> IF rotate[r].next = Null THEN 2 * version - 1
                                          ELSE rotate[r].next,
     next |-> 2 * version]

\* Mutant: the version is not part of the update.
storeRootCertificatesBlind(r) ==
    /\ rotate[r].pc = "loaded" /\ version <= MaxVersion
    /\ root' = NewRoots(r) /\ version' = version + 1 /\ DropBundles
    /\ RotateAt(r, "idle", 0, FALSE, Null)
    /\ UNCHANGED <<worker, state, node, call, manager>>

\* The new pair is stored if the version is still the one that was loaded.
storeRootCertificates(r) ==
    /\ rotate[r].pc = "loaded"
    /\ IF version = rotate[r].version
       THEN root' = NewRoots(r) /\ version' = version + 1 /\ DropBundles
       ELSE UNCHANGED <<root, version, bundle>>
    /\ RotateAt(r, "idle", 0, FALSE, Null)
    /\ UNCHANGED <<worker, state, node, call, manager>>

RotateFails(r) ==
    /\ rotate[r].pc # "idle"
    /\ RotateAt(r, "idle", 0, FALSE, Null)
    /\ UNCHANGED <<auth, root, version, node, call, manager>>

-----------------------------------------------------------------------------
(* The worker: its first credentials, and their rotation.                  *)

\* New credentials have a key that was never used; which one makes no
\* difference.
Fresh == {k \in Key : call[k].pc = "none"}
NewKey(k) == Fresh # {} /\ k = CHOOSE f \in Fresh : TRUE

CallAt(n, pc, by, rts, previous) ==
    call' = [call EXCEPT ![n] = [pc |-> pc, by |-> by, roots |-> rts,
                                 previous |-> previous]]

WorkerStarts(k) ==
    /\ own = Null /\ NewKey(k) /\ own' = k
    /\ CallAt(k, "over", Null, {}, {})
    /\ UNCHANGED <<auth, roots, certs, waiting, missed, manager>>

\* An operator creates the worker with the fetch request it shows.
CreateWorker ==
    /\ worker = "none" /\ own # Null /\ RootSet # {}
    /\ worker' = "exists"
    /\ state' = [state EXCEPT ![own] = "current"]
    /\ bundle' = [bundle EXCEPT ![own] = RootSet]
    /\ UNCHANGED <<roots, node, call, manager>>

DeleteWorker ==
    /\ worker = "exists" /\ worker' = "deleted"
    /\ state' = [k \in Key |-> "none"] /\ DropBundles
    /\ UNCHANGED <<roots, node, call, manager>>

\* The worker polls until it gets its certificates.
FetchNodeCredentials ==
    /\ own # Null /\ certs = {} /\ state[own] # "none" /\ bundle[own] # {}
    /\ certs' = bundle[own]
    /\ UNCHANGED <<auth, roots, own, waiting, missed, call, manager>>

\* New credentials, not stored yet, go into a request under the own ones.
rotateWorkerAuth(n) ==
    /\ waiting = Null /\ link # Null /\ Cardinality(certs) = 2 /\ NewKey(n)
    /\ CallAt(n, "sent", own, {}, {})
    /\ waiting' = n
    /\ UNCHANGED <<auth, roots, own, certs, missed, manager>>

\* The answer makes the new credentials the own ones.
StoreNewCreds(n) ==
    /\ waiting = n /\ call[n].pc = "answered"
    /\ own' = n /\ certs' = call[n].roots /\ waiting' = Null
    /\ CallAt(n, "over", Null, {}, {})
    /\ UNCHANGED <<auth, roots, missed, manager>>

\* The connection breaks or the worker restarts: the new credentials are lost,
\* while the request may still be on its way.
WorkerGivesUp ==
    /\ waiting # Null /\ missed < MaxMissed
    /\ waiting' = Null /\ missed' = missed + 1
    /\ UNCHANGED <<auth, roots, own, certs, call, manager>>

-----------------------------------------------------------------------------
(* A controller: RotateNodeCredentials.                                    *)

\* The rows of a worker that are accepted: the current one, and possibly the
\* previous one.
validateWorkerAuths ==
    /\ Cardinality(InState("current")) = 1
    /\ Cardinality(InState("previous")) \in {0, 1}

\* The handler returns an error.
CallFails(n) ==
    /\ CallAt(n, "over", Null, {}, {})
    /\ waiting' = IF waiting = n THEN Null ELSE waiting

\* The request is decrypted with the rows of the key it came under, and the
\* new key is signed with both roots.
loadNodeInformation(n) ==
    LET by == call[n].by IN
    /\ call[n].pc = "sent"
    /\ IF state[by] # "none" /\ validateWorkerAuths /\ RootSet # {}
       THEN CallAt(n, "loaded", by, RootSet, {}) /\ UNCHANGED waiting
       ELSE CallFails(n)
    /\ UNCHANGED <<auth, roots, own, certs, missed, manager>>

\* The transaction begins: the trigger deletes the previous row it sees.
StoreBegins(n) ==
    /\ call[n].pc = "loaded"
    /\ CallAt(n, "storing", call[n].by, call[n].roots, InState("previous"))
    /\ UNCHANGED <<auth, roots, node, manager>>

\* The rows of the worker when the trigger has run for key n.
Inserted(n, deleted) ==
    [k \in Key |-> IF k = n THEN "current"
                   ELSE IF k \in deleted THEN "none"
                   ELSE IF state[k] = "current" THEN "previous"
                   ELSE state[k]]

\* Mutant: the rows are not unique by worker and state.
StoreNodeInformationTxAnyRows(n) ==
    /\ call[n].pc = "storing"
    /\ IF worker = "exists" /\ call[n].roots \subseteq RootSet
       THEN /\ state' = Inserted(n, call[n].previous)
            /\ bundle' = [k \in Key |-> IF k = n THEN call[n].roots
                                        ELSE IF k \in call[n].previous THEN {}
                                        ELSE bundle[k]]
            /\ CallAt(n, "answered", call[n].by, call[n].roots, {})
            /\ UNCHANGED waiting
       ELSE CallFails(n) /\ UNCHANGED <<state, bundle>>
    /\ UNCHANGED <<worker, roots, own, certs, missed, manager>>

\* Mutant: the trigger deletes the row that was current.
StoreNodeInformationTxReplaces(n) ==
    /\ call[n].pc = "storing"
    /\ IF worker = "exists" /\ call[n].roots \subseteq RootSet
       THEN /\ state' = [k \in Key |-> IF k = n THEN "current" ELSE "none"]
            /\ bundle' = [k \in Key |-> IF k = n THEN call[n].roots ELSE {}]
            /\ CallAt(n, "answered", call[n].by, call[n].roots, {})
            /\ UNCHANGED waiting
       ELSE CallFails(n) /\ UNCHANGED <<state, bundle>>
    /\ UNCHANGED <<worker, roots, own, certs, missed, manager>>

\* It commits if the worker and both roots are still there and if no other
\* transaction has moved the rows of the worker since: there is one row for
\* each state of a worker.
StoreNodeInformationTx(n) ==
    /\ call[n].pc = "storing"
    /\ IF /\ worker = "exists" /\ call[n].roots \subseteq RootSet
          /\ InState("previous") \subseteq call[n].previous
       THEN /\ state' = Inserted(n, call[n].previous)
            /\ bundle' = [k \in Key |-> IF k = n THEN call[n].roots
                                        ELSE IF k \in call[n].previous THEN {}
                                        ELSE bundle[k]]
            /\ CallAt(n, "answered", call[n].by, call[n].roots, {})
            /\ UNCHANGED waiting
       ELSE CallFails(n) /\ UNCHANGED <<state, bundle>>
    /\ UNCHANGED <<worker, roots, own, certs, missed, manager>>

RotateNodeCredentialsFails(n) ==
    /\ call[n].pc \in {"sent", "loaded", "storing"}
    /\ CallFails(n)
    /\ UNCHANGED <<auth, roots, own, certs, missed, manager>>

-----------------------------------------------------------------------------
(* A controller: the connection of the worker.                             *)

\* The worker is let in when its key has a row and a root is known.
Connect ==
    /\ link = Null /\ links < MaxLinks /\ own # Null
    /\ state[own] # "none" /\ certs \intersect RootSet # {}
    /\ link' = own /\ links' = links + 1 /\ accept' = "map"
    /\ UNCHANGED <<auth, roots, node, call, tracked, mapped, sweep>>

\* Accept: the key is mapped to the worker, if the worker sends its id.
mapKeyToWorkerId ==
    /\ accept = "map" /\ accept' = "add"
    /\ mapped' \in {mapped, mapped \union {link}}
    /\ UNCHANGED <<auth, roots, node, call, link, links, tracked, sweep>>

\* Accept: under another lock, the connection is added.
addConnection ==
    /\ accept = "add" /\ accept' = "none"
    /\ tracked' = tracked \union {link}
    /\ UNCHANGED <<auth, roots, node, call, link, links, mapped, sweep>>

\* The worker closes the connection; its entry stays.
LinkBreaks ==
    /\ link # Null /\ accept = "none"
    /\ link' = Null
    /\ UNCHANGED <<auth, roots, node, call, links, accept, tracked, mapped, sweep>>

\* The connections of the keys K that have an entry are closed.
Close(K) ==
    /\ link' = IF accept = "none" /\ link \in K \intersect tracked THEN Null
                                                                   ELSE link
    /\ tracked' = tracked \ K
    /\ mapped' = mapped \ K

\* The maintenance takes a snapshot of what it tracks.
Connected ==
    /\ sweep.pc = "idle" /\ tracked # {}
    /\ sweep' = [pc |-> "workers", worker |-> tracked \intersect mapped # {},
                 keys |-> tracked \ mapped]
    /\ UNCHANGED <<auth, roots, node, call, link, links, accept, tracked, mapped>>

\* Workers without a row lose all their connections.
DisconnectMissingWorkers ==
    /\ sweep.pc = "workers"
    /\ IF sweep.worker /\ worker # "exists" THEN Close(mapped)
       ELSE UNCHANGED <<link, tracked, mapped>>
    /\ sweep' = [pc |-> "keys", worker |-> FALSE, keys |-> sweep.keys]
    /\ UNCHANGED <<auth, roots, node, call, links, accept>>

\* Mutant: only connections with a known worker are looked at.
DisconnectMissingUnmappedKeyIdsNever ==
    /\ sweep.pc = "keys" /\ sweep' = NoSweep
    /\ UNCHANGED <<auth, roots, node, call, link, links, accept, tracked, mapped>>

\* Keys without a worker id that have no certificate bundle lose theirs.
DisconnectMissingUnmappedKeyIds ==
    /\ sweep.pc = "keys"
    /\ Close({k \in sweep.keys : bundle[k] = {}})
    /\ sweep' = NoSweep
    /\ UNCHANGED <<auth, roots, node, call, links, accept>>

-----------------------------------------------------------------------------

Sweep == Connected \/ DisconnectMissingWorkers \/ DisconnectMissingUnmappedKeyIds
Accept == mapKeyToWorkerId \/ addConnection

Rotation(r) ==
    \/ \E reinit \in BOOLEAN : LoadVersion(r, reinit)
    \/ removeCertificateAuthority(r) \/ loadRootCertificates(r)
    \/ storeRootCertificates(r) \/ RotateFails(r)

RotateNodeCredentials(n) ==
    \/ loadNodeInformation(n) \/ StoreBegins(n) \/ StoreNodeInformationTx(n)
    \/ RotateNodeCredentialsFails(n)

Next ==
    \/ \E r \in Rotator : Rotation(r)
    \/ \E k \in Key : \/ WorkerStarts(k) \/ rotateWorkerAuth(k)
                      \/ StoreNewCreds(k) \/ RotateNodeCredentials(k)
    \/ CreateWorker \/ DeleteWorker \/ FetchNodeCredentials \/ WorkerGivesUp
    \/ Connect \/ LinkBreaks \/ Accept \/ Sweep

\* The maintenance runs on a timer, and Accept is one function.
Fairness == WF_vars(Sweep) /\ WF_vars(Accept)

Spec == Init /\ [][Next]_vars /\ Fairness

-----------------------------------------------------------------------------

\* The rows of a worker are none, a current one, or a current and a previous
\* one, so that validateWorkerAuths never refuses a worker that has rows,
\* however many controllers store credentials for it at the same time.
RecordsValid == Rows # {} => validateWorkerAuths

\* A worker that has given up at most one rotation is not locked out: the
\* credentials in its storage, or those of an answer on its way to it, have a
\* row, although the request it gave up may be carried out at any later time.
OneLossIsSurvived ==
    worker = "exists" /\ certs # {} /\ missed <= 1 =>
        \/ state[own] # "none"
        \/ /\ waiting # Null /\ call[waiting].pc = "answered"
           /\ state[waiting] # "none"

\* Roots move one place at a time, so that certificates survive a rotation: a
\* new current root was the next one, and the next one never changes alone,
\* except after a reinitialization has removed both.
RootsMoveForward ==
    [][root' # root => root = NoRoots \/ root' = NoRoots
                       \/ root'.current = root.next]_root

\* The connection of a deleted worker is closed sooner or later, also when
\* Accept was recording it at that time.
DeletedWorkerCut == []<>(worker = "deleted" => link = Null)

=============================================================================
