------------------------- MODULE VaultTokensProofs -------------------------
(***************************************************************************)
(* Proofs about VaultTokens for any number of tokens, credentials and      *)
(* sessions, any batch size of the jobs and any number of failures.        *)
(*                                                                         *)
(* IInv is the inductive invariant.  What the jobs write blindly is right  *)
(* because of what a run knows about the row it holds (RunsKnow): once     *)
(* Vault has said that a token or a lease is dead it stays dead, and a     *)
(* row fetched for revocation is never the current token again.            *)
(***************************************************************************)
EXTENDS VaultTokens, TLAPS

\* A living lease has a living token, a stored credential has a lease, and
\* only tokens that were once stored have been used.
LeaseNeedsToken ==
    \A c \in Cred :
        /\ lease[c] = "alive" => /\ credToken[c] \in Token
                                 /\ vaultToken[credToken[c]] = "alive"
        /\ cred[c] # "none" => credToken[c] \in Token /\ lease[c] # "none"
        /\ credToken[c] \in Token => token[credToken[c]] # "none"

\* What Issue has still to get has no lease, and what it has still to store
\* has no row.
IssueKnows ==
    \A s \in Sess :
        /\ issue[s].token \in Token => token[issue[s].token] # "none"
        /\ issue[s].pc = "put" =>
              /\ issue[s].item \in Cred /\ SessionOf[issue[s].item] = s
              /\ issue[s].item \notin issue[s].todo
              /\ cred[issue[s].item] = "none" /\ lease[issue[s].item] # "none"
              /\ credToken[issue[s].item] \in Token
        /\ \A c \in Cred :
              c \in issue[s].todo \/ (issue[s].pc = "read" /\ SessionOf[c] = s)
                  => /\ SessionOf[c] = s
                     /\ cred[c] = "none" /\ lease[c] = "none"

\* What the run of a job knows about the rows it holds.
RenewalKnows ==
    LET r == job["tokenRenewal"] IN
    /\ r.batch \subseteq Token
    /\ r.pc \in {"write", "creds"} => r.item \in Token
    /\ r.pc = "creds" \/ (r.pc = "write" /\ ~r.alive)
          => vaultToken[r.item] = "dead"

RevocationKnows ==
    LET r == job["tokenRevocation"] IN
    /\ r.batch \subseteq Token
    /\ \A t \in r.batch : token[t] \notin {"none", "current"}
    /\ r.pc \in {"write", "creds"}
          => r.item \in Token /\ vaultToken[r.item] = "dead"

CredRunsKnow ==
    \A j \in CredJob :
        /\ job[j].batch \subseteq Cred
        /\ \A c \in job[j].batch : cred[c] # "none"
        /\ job[j].pc = "write" =>
              /\ job[j].item \in Cred /\ cred[job[j].item] # "none"
              /\ ~job[j].alive => lease[job[j].item] = "dead"
        /\ j = "credRevocation" => ~job[j].alive

CleanupKnows ==
    /\ job["storeCleanup"].pc \in {"idle", "loop"}
    /\ job["storeCleanup"].pc = "loop" =>
          /\ store \in {"soft", "gone"}
          /\ \A t \in Token : token[t] = "revoke" /\ t \notin early
                                  => vaultToken[t] = "dead"

\* The statuses tokens can have with each state of the store.
StoreAndTokens ==
    /\ \A t \in Token :
          /\ store = "none" => token[t] = "none"
          /\ store = "soft" => token[t] \notin {"current", "maintaining"}
          /\ store = "gone" => token[t] \in {"none", "gone"}
          /\ token[t] = "revoke" => store = "soft"
          /\ token[t] = "gone" => store = "gone"
          /\ token[t] = "gone" /\ t \notin early => vaultToken[t] = "dead"
          /\ t \in lapsed => vaultToken[t] = "dead" \/ t \in early
    /\ update.pc = "put" => /\ update.token \in Token
                            /\ store # "none" /\ token[update.token] = "none"
                            /\ update.version < MaxVersion
    /\ store \in {"none", "live"} => version <= MaxVersion

\* A token that was, or is about to be, revoked is not current, and what was
\* stored for it while it was is not active.
RevokedUnused ==
    /\ \A t \in revokedBy : token[t] \notin {"none", "current"}
    /\ store = "live" =>
          \A c \in Cred :
              /\ cred[c] = "active"
              /\ \/ credToken[c] \in revokedBy
                 \/ credToken[c] \in job["tokenRevocation"].batch
              => c \in late

DetachedNotActive == \A c \in Cred : Detached(c) => cred[c] # "active"

IInv ==
    /\ TypeOK /\ FinalMeansDead /\ LeaseNeedsToken /\ IssueKnows
    /\ RenewalKnows /\ RevocationKnows /\ CredRunsKnow /\ CleanupKnows
    /\ StoreAndTokens /\ RevokedUnused /\ DetachedNotActive

\* The progress of a run keeps its type, and those of the others.
LEMMA RunAtType ==
    ASSUME TypeOK, NEW j \in Job, NEW pc \in {"idle", "loop", "write", "creds"},
           NEW B \in SUBSET Row, NEW x \in Row, NEW alive \in BOOLEAN,
           RunAt(j, pc, B, x, alive)
    PROVE  /\ job' \in [Job -> Run]
           /\ job'[j] = [pc |-> pc, batch |-> B, item |-> x, alive |-> alive]
           /\ \A i \in Job \ {j} : job'[i] = job[i]
  BY DEF TypeOK, RunAt, Run

\* The same for the run that goes on with the rows it has left.
LEMMA ContinueType ==
    ASSUME TypeOK, NEW j \in Job, NEW B \in SUBSET Row, Continue(j, B)
    PROVE  /\ job' \in [Job -> Run]
           /\ job'[j].batch = B /\ job'[j].pc \in {"idle", "loop"}
           /\ job'[j].pc = "loop" => B # {}
           /\ job'[j].alive = FALSE
           /\ \A i \in Job \ {j} : job'[i] = job[i]
<1> DEFINE pc == IF B = {} THEN "idle" ELSE "loop"
<1>1. pc \in {"idle", "loop"} /\ pc \in {"idle", "loop", "write", "creds"}
  OBVIOUS
<1>2. RunAt(j, pc, B, Null, FALSE) BY DEF Continue
<1>3. Null \in Row BY DEF Row
<1> HIDE DEF pc
<1>5. FALSE \in BOOLEAN OBVIOUS
<1>4. /\ job' \in [Job -> Run]
      /\ job'[j] = [pc |-> pc, batch |-> B, item |-> Null, alive |-> FALSE]
      /\ \A i \in Job \ {j} : job'[i] = job[i]
  BY ONLY <1>1, <1>2, <1>3, <1>5, RunAtType, TypeOK, j \in Job,
     B \in SUBSET Row
<1>q. QED BY <1>1, <1>4 DEF pc

\* A step of Issue keeps the type of its progress.
LEMMA IssueAtType ==
    ASSUME TypeOK, NEW s \in Sess, NEW pc \in {"get", "put", "done"},
           NEW todo \in SUBSET Cred, NEW item \in Cred \union {Null},
           IssueAt(s, pc, todo, item)
    PROVE  issue' \in [Sess -> IssueState]
  BY DEF TypeOK, IssueAt, IssueState

\* A token that expires takes its leases with it, and what was dead stays dead.
LEMMA VaultTokenExpiresKeeps ==
    ASSUME IInv, NEW t \in Token, VaultTokenExpires(t)
    PROVE  IInv'
<1>1. TypeOK'
  BY VaultAssumption DEF VaultTokenExpires, TokenDies, LeasesWithout, rows,
     procs, IInv, TypeOK, TokenStatus, CredStatus, TokenJob, CredJob, Job
<1>2. FinalMeansDead'
  BY DEF VaultTokenExpires, TokenDies, LeasesWithout, rows, procs, IInv,
     FinalMeansDead
<1>3. LeaseNeedsToken'
  BY DEF VaultTokenExpires, TokenDies, LeasesWithout, rows, procs, IInv,
     LeaseNeedsToken
<1>4. IssueKnows'
  BY DEF VaultTokenExpires, TokenDies, LeasesWithout, rows, procs, IInv,
     IssueKnows
<1>5. RenewalKnows'
  BY DEF VaultTokenExpires, TokenDies, LeasesWithout, rows, procs, IInv,
     RenewalKnows
<1>6. RevocationKnows'
  BY DEF VaultTokenExpires, TokenDies, LeasesWithout, rows, procs, IInv,
     RevocationKnows
<1>7. CredRunsKnow'
  BY DEF VaultTokenExpires, TokenDies, LeasesWithout, rows, procs, IInv,
     CredRunsKnow, TokenStatus, CredStatus, Final, TokenJob, CredJob, Job
<1>8. CleanupKnows'
  BY DEF VaultTokenExpires, TokenDies, LeasesWithout, rows, procs, IInv,
     CleanupKnows
<1>9. StoreAndTokens'
  BY DEF VaultTokenExpires, TokenDies, LeasesWithout, rows, procs, IInv,
     StoreAndTokens
<1>10. RevokedUnused' /\ DetachedNotActive'
  BY DEF VaultTokenExpires, TokenDies, rows, procs, IInv, RevokedUnused,
     DetachedNotActive, Detached
<1>q. QED BY <1>1, <1>2, <1>3, <1>4, <1>5, <1>6, <1>7, <1>8, <1>9, <1>10 DEF
   IInv

\* A lease that expires was not dead before, and no row is touched.
LEMMA LeaseExpiresKeeps ==
    ASSUME IInv, NEW c \in Cred, LeaseExpires(c)
    PROVE  IInv'
<1>1. TypeOK'
  BY VaultAssumption DEF LeaseExpires, rows, procs, IInv, TypeOK,
     TokenStatus, CredStatus, TokenJob, CredJob, Job
<1>2. FinalMeansDead'
  BY DEF LeaseExpires, rows, procs, IInv, FinalMeansDead
<1>3. LeaseNeedsToken'
  BY DEF LeaseExpires, rows, procs, IInv, LeaseNeedsToken
<1>4. IssueKnows'
  BY DEF LeaseExpires, rows, procs, IInv, IssueKnows
<1>5. CredRunsKnow'
  BY DEF LeaseExpires, rows, procs, IInv, CredRunsKnow, TokenStatus,
     CredStatus, Final, TokenJob, CredJob, Job
<1>6. /\ RenewalKnows' /\ RevocationKnows' /\ CleanupKnows'
      /\ StoreAndTokens' /\ RevokedUnused' /\ DetachedNotActive'
  BY DEF LeaseExpires, rows, procs, IInv, RenewalKnows, RevocationKnows,
     CleanupKnows, StoreAndTokens, RevokedUnused, DetachedNotActive,
     Detached
<1>q. QED BY <1>1, <1>2, <1>3, <1>4, <1>5, <1>6 DEF IInv

\* The recorded expiry of a living token passes only when a renewal is not
\* recorded, which the history remembers.
LEMMA RecordedExpiryPassesKeeps ==
    ASSUME IInv, NEW t \in Token, RecordedExpiryPasses(t)
    PROVE  IInv'
<1>1. TypeOK'
  BY DEF RecordedExpiryPasses, procs, vault, IInv, TypeOK
<1>2. CleanupKnows'
  BY DEF RecordedExpiryPasses, procs, vault, IInv, CleanupKnows
<1>3. StoreAndTokens'
  BY VaultAssumption DEF RecordedExpiryPasses, procs, vault, IInv, TypeOK,
     StoreAndTokens, TokenStatus, CredStatus, Final, TokenJob, CredJob, Job
<1>4. /\ FinalMeansDead' /\ LeaseNeedsToken' /\ IssueKnows'
      /\ RenewalKnows' /\ RevocationKnows' /\ CredRunsKnow'
      /\ RevokedUnused' /\ DetachedNotActive'
  BY DEF RecordedExpiryPasses, procs, vault, IInv, FinalMeansDead,
     LeaseNeedsToken, IssueKnows, RenewalKnows, RevocationKnows,
     CredRunsKnow, RevokedUnused, DetachedNotActive, Detached
<1>q. QED BY <1>1, <1>2, <1>3, <1>4 DEF IInv

\* The first token becomes current; nothing was issued before.
LEMMA CreateCredentialStoreKeeps ==
    ASSUME IInv, NEW t \in Token, CreateCredentialStore(t)
    PROVE  IInv'
<1>1. TypeOK'
  BY VaultAssumption DEF CreateCredentialStore, InsertToken, procs, vault,
     hist, IInv, TypeOK, TokenStatus, CredStatus, TokenJob, CredJob, Job
<1>2. FinalMeansDead'
  BY VaultAssumption DEF CreateCredentialStore, InsertToken, procs, vault,
     hist, IInv, TypeOK, FinalMeansDead, TokenStatus, CredStatus, Final,
     TokenJob, CredJob, Job
<1>3. LeaseNeedsToken'
  BY DEF CreateCredentialStore, InsertToken, procs, vault, hist, IInv,
     LeaseNeedsToken
<1>4. IssueKnows'
  BY DEF CreateCredentialStore, InsertToken, procs, vault, hist, IInv,
     IssueKnows
<1>5. RevocationKnows'
  BY VaultAssumption DEF CreateCredentialStore, InsertToken, procs, vault,
     hist, IInv, TypeOK, RevocationKnows, LeaseNeedsToken, StoreAndTokens,
     TokenStatus, CredStatus, Final, TokenJob, CredJob, Job
<1>6. CleanupKnows'
  BY DEF CreateCredentialStore, InsertToken, procs, vault, hist, IInv,
     CleanupKnows
<1>7. StoreAndTokens'
  BY DEF CreateCredentialStore, InsertToken, procs, vault, hist, IInv,
     StoreAndTokens
<1>8. RevokedUnused'
  BY VaultAssumption DEF CreateCredentialStore, InsertToken, procs, vault,
     hist, IInv, TypeOK, RevokedUnused, LeaseNeedsToken, StoreAndTokens,
     TokenStatus, CredStatus, Final, TokenJob, CredJob, Job
<1>9. /\ RenewalKnows' /\ CredRunsKnow' /\ DetachedNotActive'
  BY DEF CreateCredentialStore, procs, vault, hist, IInv, RenewalKnows,
     CredRunsKnow, DetachedNotActive, Detached
<1>q. QED BY <1>1, <1>2, <1>3, <1>4, <1>5, <1>6, <1>7, <1>8, <1>9 DEF IInv

\* A token that is being brought in has no row yet.
LEMMA UpdateReadKeeps ==
    ASSUME IInv, NEW t \in Token, UpdateRead(t)
    PROVE  IInv'
<1>1. TypeOK'
  BY DEF UpdateRead, rows, vault, hist, IInv, TypeOK
<1>2. StoreAndTokens'
  BY DEF UpdateRead, rows, vault, hist, IInv, StoreAndTokens
<1>3. /\ FinalMeansDead' /\ LeaseNeedsToken' /\ IssueKnows'
      /\ RenewalKnows' /\ RevocationKnows' /\ CredRunsKnow'
      /\ CleanupKnows' /\ RevokedUnused' /\ DetachedNotActive'
  BY DEF UpdateRead, rows, vault, hist, IInv, FinalMeansDead,
     LeaseNeedsToken, IssueKnows, RenewalKnows, RevocationKnows,
     CredRunsKnow, CleanupKnows, RevokedUnused, DetachedNotActive, Detached
<1>q. QED BY <1>1, <1>2, <1>3 DEF IInv

\* A new token leaves the old one maintaining, which no job has revoked while
\* it was current; the version protects a store that was deleted meanwhile.
LEMMA UpdateWriteKeeps ==
    ASSUME IInv, UpdateWrite
    PROVE  IInv'
<1>1. TypeOK'
  BY VaultAssumption DEF UpdateWrite, InsertToken, vault, hist, IInv,
     TypeOK, LeaseNeedsToken, StoreAndTokens, TokenStatus, CredStatus,
     TokenJob, CredJob, Job
<1>2. FinalMeansDead'
  BY VaultAssumption DEF UpdateWrite, InsertToken, vault, hist, IInv,
     TypeOK, FinalMeansDead, TokenStatus, CredStatus, Final, TokenJob,
     CredJob, Job
<1>3. LeaseNeedsToken'
  BY DEF UpdateWrite, InsertToken, vault, hist, IInv, LeaseNeedsToken
<1>4. IssueKnows'
  BY DEF UpdateWrite, InsertToken, vault, hist, IInv, IssueKnows
<1>5. RevocationKnows'
  BY VaultAssumption DEF UpdateWrite, InsertToken, vault, hist, IInv,
     TypeOK, RevocationKnows, LeaseNeedsToken, StoreAndTokens, TokenStatus,
     CredStatus, Final, TokenJob, CredJob, Job
<1>6. CleanupKnows'
  BY DEF UpdateWrite, InsertToken, vault, hist, IInv, CleanupKnows
<1>7. StoreAndTokens'
  BY VaultAssumption DEF UpdateWrite, InsertToken, vault, hist, IInv,
     TypeOK, StoreAndTokens, TokenStatus, CredStatus, Final, TokenJob,
     CredJob, Job
<1>8. RevokedUnused'
  BY VaultAssumption DEF UpdateWrite, InsertToken, vault, hist, IInv,
     TypeOK, RevokedUnused, LeaseNeedsToken, StoreAndTokens, TokenStatus,
     CredStatus, Final, TokenJob, CredJob, Job
<1>9. /\ RenewalKnows' /\ CredRunsKnow' /\ DetachedNotActive'
  BY DEF UpdateWrite, vault, hist, IInv, RenewalKnows, CredRunsKnow,
     DetachedNotActive, Detached
<1>q. QED BY <1>1, <1>2, <1>3, <1>4, <1>5, <1>6, <1>7, <1>8, <1>9 DEF IInv

\* The trigger moves the tokens that are not final to revoke.
LEMMA DeleteCredentialStoreKeeps ==
    ASSUME IInv, DeleteCredentialStore
    PROVE  IInv'
<1>1. TypeOK'
  <2>1. version' \in 1..MaxVersion + 1
    BY VaultAssumption DEF DeleteCredentialStore, IInv, TypeOK, StoreAndTokens
  <2>2. token' \in [Token -> {"none", "gone"} \union TokenStatus]
    BY DEF DeleteCredentialStore, IInv, TypeOK, TokenStatus
  <2>q. QED BY <2>1, <2>2 DEF DeleteCredentialStore, procs, vault, hist, IInv, TypeOK
<1>2. FinalMeansDead'
  BY VaultAssumption DEF DeleteCredentialStore, procs, vault, hist, IInv,
     TypeOK, FinalMeansDead, TokenStatus, CredStatus, Final, TokenJob,
     CredJob, Job
<1>3. LeaseNeedsToken'
  BY DEF DeleteCredentialStore, procs, vault, hist, IInv, LeaseNeedsToken
<1>4. IssueKnows'
  BY DEF DeleteCredentialStore, procs, vault, hist, IInv, IssueKnows
<1>5. RevocationKnows'
  BY DEF DeleteCredentialStore, procs, vault, hist, IInv, RevocationKnows
<1>6. CleanupKnows'
  BY DEF DeleteCredentialStore, procs, vault, hist, IInv, CleanupKnows
<1>7. StoreAndTokens'
  BY DEF DeleteCredentialStore, procs, vault, hist, IInv, StoreAndTokens
<1>8. RevokedUnused'
  BY VaultAssumption DEF DeleteCredentialStore, procs, vault, hist, IInv,
     TypeOK, RevokedUnused, TokenStatus, CredStatus, Final, TokenJob,
     CredJob, Job
<1>9. /\ RenewalKnows' /\ CredRunsKnow' /\ DetachedNotActive'
  BY DEF DeleteCredentialStore, procs, vault, hist, IInv, RenewalKnows,
     CredRunsKnow, DetachedNotActive, Detached
<1>q. QED BY <1>1, <1>2, <1>3, <1>4, <1>5, <1>6, <1>7, <1>8, <1>9 DEF IInv

\* Deleting the library touches no token and no credential.
LEMMA DeleteCredentialLibraryKeeps ==
    ASSUME IInv, DeleteCredentialLibrary
    PROVE  IInv'
<1>1. TypeOK'
  BY DEF DeleteCredentialLibrary, procs, vault, hist, IInv, TypeOK
<1>2. /\ FinalMeansDead' /\ LeaseNeedsToken' /\ IssueKnows'
      /\ RenewalKnows' /\ RevocationKnows' /\ CredRunsKnow'
      /\ CleanupKnows' /\ StoreAndTokens' /\ RevokedUnused'
      /\ DetachedNotActive'
  BY DEF DeleteCredentialLibrary, procs, vault, hist, IInv, FinalMeansDead,
     LeaseNeedsToken, IssueKnows, RenewalKnows, RevocationKnows,
     CredRunsKnow, CleanupKnows, StoreAndTokens, RevokedUnused,
     DetachedNotActive, Detached
<1>q. QED BY <1>1, <1>2 DEF IInv

\* The end of a session asks for revocation of its active credentials.
LEMMA EndSessionKeeps ==
    ASSUME IInv, NEW s \in Sess, EndSession(s)
    PROVE  IInv'
<1>1. TypeOK'
  BY VaultAssumption DEF EndSession, RevokeCredsOf, procs, vault, hist,
     IInv, TypeOK, TokenStatus, CredStatus, TokenJob, CredJob, Job
<1>2. FinalMeansDead'
  BY VaultAssumption DEF EndSession, RevokeCredsOf, procs, vault, hist,
     IInv, TypeOK, FinalMeansDead, TokenStatus, CredStatus, Final, TokenJob,
     CredJob, Job
<1>3. LeaseNeedsToken'
  BY DEF EndSession, RevokeCredsOf, procs, vault, hist, IInv,
     LeaseNeedsToken
<1>4. IssueKnows'
  BY DEF EndSession, RevokeCredsOf, procs, vault, hist, IInv, IssueKnows
<1>5. CredRunsKnow'
  BY DEF EndSession, RevokeCredsOf, procs, vault, hist, IInv, CredRunsKnow,
     TokenStatus, CredStatus, Final, TokenJob, CredJob, Job
<1>6. RevokedUnused'
  BY DEF EndSession, RevokeCredsOf, procs, vault, hist, IInv, RevokedUnused
<1>7. DetachedNotActive'
  BY DEF EndSession, RevokeCredsOf, procs, vault, hist, IInv,
     DetachedNotActive, Detached
<1>8. /\ RenewalKnows' /\ RevocationKnows' /\ CleanupKnows'
      /\ StoreAndTokens'
  BY DEF EndSession, procs, vault, hist, IInv, RenewalKnows,
     RevocationKnows, CleanupKnows, StoreAndTokens
<1>q. QED BY <1>1, <1>2, <1>3, <1>4, <1>5, <1>6, <1>7, <1>8 DEF IInv

\* So does its deletion, which also detaches them.
LEMMA DeleteSessionKeeps ==
    ASSUME IInv, NEW s \in Sess, DeleteSession(s)
    PROVE  IInv'
<1>1. TypeOK'
  BY VaultAssumption DEF DeleteSession, RevokeCredsOf, procs, vault, hist,
     IInv, TypeOK, TokenStatus, CredStatus, TokenJob, CredJob, Job
<1>2. FinalMeansDead'
  BY VaultAssumption DEF DeleteSession, RevokeCredsOf, procs, vault, hist,
     IInv, TypeOK, FinalMeansDead, TokenStatus, CredStatus, Final, TokenJob,
     CredJob, Job
<1>3. LeaseNeedsToken'
  BY DEF DeleteSession, RevokeCredsOf, procs, vault, hist, IInv,
     LeaseNeedsToken
<1>4. IssueKnows'
  BY DEF DeleteSession, RevokeCredsOf, procs, vault, hist, IInv, IssueKnows
<1>5. CredRunsKnow'
  BY DEF DeleteSession, RevokeCredsOf, procs, vault, hist, IInv,
     CredRunsKnow, TokenStatus, CredStatus, Final, TokenJob, CredJob, Job
<1>6. RevokedUnused'
  BY DEF DeleteSession, RevokeCredsOf, procs, vault, hist, IInv,
     RevokedUnused
<1>7. DetachedNotActive'
  BY DEF DeleteSession, RevokeCredsOf, procs, vault, hist, IInv,
     DetachedNotActive, Detached
<1>8. /\ RenewalKnows' /\ RevocationKnows' /\ CleanupKnows'
      /\ StoreAndTokens'
  BY DEF DeleteSession, procs, vault, hist, IInv, RenewalKnows,
     RevocationKnows, CleanupKnows, StoreAndTokens
<1>q. QED BY <1>1, <1>2, <1>3, <1>4, <1>5, <1>6, <1>7, <1>8 DEF IInv

\* Issue starts with the token that is current.
LEMMA IssueReadKeeps ==
    ASSUME IInv, NEW s \in Sess, IssueRead(s)
    PROVE  IInv'
<1>1. TypeOK'
  BY VaultAssumption DEF IssueRead, Current, CredsFor, rows, vault, hist,
     IInv, TypeOK, IssueState, TokenStatus, CredStatus, TokenJob, CredJob,
     Job
<1>2. IssueKnows'
  BY VaultAssumption DEF IssueRead, Current, CredsFor, rows, vault, hist,
     IInv, TypeOK, IssueKnows, IssueState, TokenStatus, CredStatus, Final,
     TokenJob, CredJob, Job
<1>3. /\ FinalMeansDead' /\ LeaseNeedsToken' /\ RenewalKnows'
      /\ RevocationKnows' /\ CredRunsKnow' /\ CleanupKnows'
      /\ StoreAndTokens' /\ RevokedUnused' /\ DetachedNotActive'
  BY DEF IssueRead, rows, vault, hist, IInv, FinalMeansDead,
     LeaseNeedsToken, RenewalKnows, RevocationKnows, CredRunsKnow,
     CleanupKnows, StoreAndTokens, RevokedUnused, DetachedNotActive,
     Detached
<1>q. QED BY <1>1, <1>2, <1>3 DEF IInv

\* A lease is obtained with a living token for a credential without a row.
LEMMA IssueGetKeeps ==
    ASSUME IInv, NEW s \in Sess, NEW c \in Cred, IssueGet(s, c)
    PROVE  IInv'
<1>1. TypeOK'
  <2>1. issue' \in [Sess -> IssueState]
    <3>1. TypeOK BY DEF IInv
    <3>2. /\ issue[s].todo \ {c} \in SUBSET Cred /\ {} \in SUBSET Cred
          /\ Null \in Cred \union {Null} /\ c \in Cred \union {Null}
      BY <3>1 DEF TypeOK, IssueState
    <3>3. \/ IssueAt(s, "put", issue[s].todo \ {c}, c)
          \/ IssueAt(s, "get", issue[s].todo \ {c}, Null)
          \/ IssueAt(s, "done", {}, Null)
      BY DEF IssueGet, AuthorizeFails
    <3>q. QED BY <3>1, <3>2, <3>3, IssueAtType
  <2>2. /\ cred' \in [Cred -> {"none", "gone"} \union CredStatus]
        /\ credToken' \in [Cred -> Token \union {Null}]
        /\ session' \in [Sess -> {"open", "ended", "deleted"}]
        /\ lease' \in [Cred -> {"none", "alive", "dead"}]
    <3>1. TypeOK BY DEF IInv
    <3>2. issue[s].token \in Token \union {Null}
      BY <3>1 DEF TypeOK, IssueState
    <3>3. CASE AuthorizeFails(s) /\ UNCHANGED lease
      BY <3>1, <3>3 DEF AuthorizeFails, RevokeCredsOf, TypeOK, CredStatus
    <3>4. CASE /\ lease' = [lease EXCEPT ![c] = "alive"]
               /\ credToken' = [credToken EXCEPT ![c] = issue[s].token]
               /\ UNCHANGED <<cred, session>>
      BY <3>1, <3>2, <3>4 DEF TypeOK
    <3>5. CASE UNCHANGED <<rows, lease>>
      BY <3>1, <3>5 DEF rows, TypeOK
    <3>q. QED BY <3>3, <3>4, <3>5 DEF IssueGet
  <2>3. UNCHANGED <<store, version, library, token, lapsed, update, job, vaultToken,
                    ahead, hist>>
    BY DEF IssueGet, AuthorizeFails, rows
  <2>q. QED BY <2>1, <2>2, <2>3 DEF hist, IInv, TypeOK
<1>2. FinalMeansDead'
  BY VaultAssumption DEF IssueGet, AuthorizeFails, IssueAt, RevokeCredsOf,
     rows, hist, IInv, TypeOK, FinalMeansDead, IssueKnows, IssueState,
     TokenStatus, CredStatus, Final, TokenJob, CredJob, Job
<1>3. LeaseNeedsToken'
  BY VaultAssumption DEF IssueGet, AuthorizeFails, IssueAt, RevokeCredsOf,
     rows, hist, IInv, TypeOK, LeaseNeedsToken, IssueKnows, IssueState,
     TokenStatus, CredStatus, Final, TokenJob, CredJob, Job
<1>4. IssueKnows'
  BY VaultAssumption, SMTT(40) DEF IssueGet, AuthorizeFails, IssueAt, RevokeCredsOf,
     rows, hist, IInv, TypeOK, IssueKnows, LeaseNeedsToken, StoreAndTokens,
     IssueState, TokenStatus, CredStatus, Final, TokenJob, CredJob, Job
<1>5. CredRunsKnow'
  BY VaultAssumption DEF IssueGet, AuthorizeFails, IssueAt, RevokeCredsOf,
     rows, hist, IInv, TypeOK, CredRunsKnow, IssueKnows, IssueState,
     TokenStatus, CredStatus, Final, TokenJob, CredJob, Job
<1>6. RevokedUnused'
  <2>1. /\ UNCHANGED <<store, token, job, hist>>
        /\ \A x \in Cred : cred'[x] = "active" =>
              cred[x] = "active" /\ credToken'[x] = credToken[x]
    <3>1. cred[c] = "none" BY DEF IssueGet, IInv, IssueKnows
    <3>2. UNCHANGED <<store, token, job, hist>>
      BY DEF IssueGet, AuthorizeFails, rows
    <3>q. QED BY <3>1, <3>2 DEF IssueGet, AuthorizeFails, RevokeCredsOf, rows, IInv, TypeOK
  <2>q. QED BY <2>1 DEF hist, IInv, RevokedUnused
<1>7. DetachedNotActive'
  BY VaultAssumption DEF IssueGet, AuthorizeFails, IssueAt, RevokeCredsOf,
     rows, hist, IInv, TypeOK, DetachedNotActive, IssueState, TokenStatus,
     CredStatus, Final, TokenJob, CredJob, Job, Detached
<1>8. /\ RenewalKnows' /\ RevocationKnows' /\ CleanupKnows'
      /\ StoreAndTokens'
  BY DEF IssueGet, AuthorizeFails, rows, hist, IInv, RenewalKnows,
     RevocationKnows, CleanupKnows, StoreAndTokens
<1>q. QED BY <1>1, <1>2, <1>3, <1>4, <1>5, <1>6, <1>7, <1>8 DEF IInv

\* The credential becomes active only while its session is there; if its
\* token is no longer current the history remembers it as late.
LEMMA IssuePutKeeps ==
    ASSUME IInv, NEW s \in Sess, IssuePut(s)
    PROVE  IInv'
<1>1. TypeOK'
  <2>1. issue' \in [Sess -> IssueState]
    <3>1. TypeOK BY DEF IInv
    <3>2. /\ issue[s].todo \in SUBSET Cred /\ {} \in SUBSET Cred
          /\ Null \in Cred \union {Null}
      BY <3>1 DEF TypeOK, IssueState
    <3>3. \/ IssueAt(s, "get", issue[s].todo, Null)
          \/ IssueAt(s, "done", {}, Null)
      BY DEF IssuePut, AuthorizeFails
    <3>q. QED BY <3>1, <3>2, <3>3, IssueAtType
  <2>2. /\ cred' \in [Cred -> {"none", "gone"} \union CredStatus]
        /\ session' \in [Sess -> {"open", "ended", "deleted"}]
        /\ late' \subseteq Cred
    BY DEF IssuePut, AuthorizeFails, RevokeCredsOf, IInv, TypeOK, CredStatus, IssueKnows
  <2>3. UNCHANGED <<store, version, library, token, lapsed, credToken, update, job,
                    vault, early, revokedBy, events>>
    BY DEF IssuePut, AuthorizeFails
  <2>q. QED BY <2>1, <2>2, <2>3 DEF vault, IInv, TypeOK
<1>2. FinalMeansDead'
  BY VaultAssumption DEF IssuePut, AuthorizeFails, IssueAt, RevokeCredsOf,
     HasRow, vault, IInv, TypeOK, FinalMeansDead, IssueState, TokenStatus,
     CredStatus, Final, TokenJob, CredJob, Job
<1>3. LeaseNeedsToken'
  BY VaultAssumption DEF IssuePut, AuthorizeFails, IssueAt, RevokeCredsOf,
     HasRow, vault, IInv, TypeOK, LeaseNeedsToken, IssueKnows, IssueState,
     TokenStatus, CredStatus, Final, TokenJob, CredJob, Job
<1>4. IssueKnows'
  <2>1. /\ TypeOK /\ IssueKnows BY DEF IInv
  <2>2. CASE library /\ session[s] # "deleted" /\ HasRow(credToken[issue[s].item])
    <3>1. /\ cred' = [cred EXCEPT ![issue[s].item] = "active"]
          /\ IssueAt(s, "get", issue[s].todo, Null)
          /\ UNCHANGED <<token, credToken, lease>>
      BY <2>2 DEF IssuePut, vault
    <3>2. issue[s].item \in Cred /\ SessionOf[issue[s].item] = s
          /\ issue[s].item \notin issue[s].todo
      BY <2>1 DEF IssuePut, IssueKnows
    <3>q. QED BY <2>1, <3>1, <3>2 DEF IssuePut, IssueAt, TypeOK, IssueState, IssueKnows
  <2>3. CASE ~(library /\ session[s] # "deleted" /\ HasRow(credToken[issue[s].item]))
    <3>1. AuthorizeFails(s) /\ UNCHANGED lease
      BY <2>3 DEF IssuePut, vault
    <3>q. QED BY <2>1, <3>1 DEF AuthorizeFails, IssueAt, RevokeCredsOf, TypeOK,
                 IssueState, IssueKnows
  <2>q. QED BY <2>2, <2>3
<1>5. CredRunsKnow'
  BY VaultAssumption DEF IssuePut, AuthorizeFails, IssueAt, RevokeCredsOf,
     HasRow, vault, IInv, TypeOK, CredRunsKnow, IssueState, TokenStatus,
     CredStatus, Final, TokenJob, CredJob, Job
<1>6. RevokedUnused'
  BY VaultAssumption DEF IssuePut, AuthorizeFails, IssueAt, RevokeCredsOf,
     HasRow, vault, IInv, TypeOK, RevokedUnused, IssueKnows,
     RevocationKnows, IssueState, TokenStatus, CredStatus, Final, TokenJob,
     CredJob, Job
<1>7. DetachedNotActive'
  BY VaultAssumption DEF IssuePut, AuthorizeFails, IssueAt, RevokeCredsOf,
     HasRow, vault, IInv, TypeOK, DetachedNotActive, IssueKnows, IssueState,
     TokenStatus, CredStatus, Final, TokenJob, CredJob, Job, Detached
<1>8. /\ RenewalKnows' /\ RevocationKnows' /\ CleanupKnows'
      /\ StoreAndTokens'
  BY DEF IssuePut, AuthorizeFails, vault, IInv, RenewalKnows,
     RevocationKnows, CleanupKnows, StoreAndTokens
<1>q. QED BY <1>1, <1>2, <1>3, <1>4, <1>5, <1>6, <1>7, <1>8 DEF IInv

\* Issue ends with nothing left to store.
LEMMA IssueDoneKeeps ==
    ASSUME IInv, NEW s \in Sess, IssueDone(s)
    PROVE  IInv'
<1>1. TypeOK'
  BY VaultAssumption DEF IssueDone, IssueAt, rows, vault, hist, IInv,
     TypeOK, IssueState, TokenStatus, CredStatus, TokenJob, CredJob, Job
<1>2. IssueKnows'
  BY DEF IssueDone, IssueAt, rows, vault, hist, IInv, IssueKnows
<1>3. /\ FinalMeansDead' /\ LeaseNeedsToken' /\ RenewalKnows'
      /\ RevocationKnows' /\ CredRunsKnow' /\ CleanupKnows'
      /\ StoreAndTokens' /\ RevokedUnused' /\ DetachedNotActive'
  BY DEF IssueDone, rows, vault, hist, IInv, FinalMeansDead,
     LeaseNeedsToken, RenewalKnows, RevocationKnows, CredRunsKnow,
     CleanupKnows, StoreAndTokens, RevokedUnused, DetachedNotActive,
     Detached
<1>q. QED BY <1>1, <1>2, <1>3 DEF IInv

\* An error revokes what was stored and detaches it.
LEMMA IssueFailsKeeps ==
    ASSUME IInv, NEW s \in Sess, IssueFails(s)
    PROVE  IInv'
<1>1. TypeOK'
  BY VaultAssumption DEF IssueFails, AuthorizeFails, IssueAt, RevokeCredsOf,
     vault, IInv, TypeOK, IssueState, TokenStatus, CredStatus, TokenJob,
     CredJob, Job
<1>2. FinalMeansDead'
  BY VaultAssumption DEF IssueFails, AuthorizeFails, IssueAt, RevokeCredsOf,
     vault, IInv, TypeOK, FinalMeansDead, IssueState, TokenStatus,
     CredStatus, Final, TokenJob, CredJob, Job
<1>3. LeaseNeedsToken'
  BY DEF IssueFails, AuthorizeFails, IssueAt, RevokeCredsOf, vault, IInv,
     LeaseNeedsToken
<1>4. IssueKnows'
  BY DEF IssueFails, AuthorizeFails, IssueAt, RevokeCredsOf, vault, IInv,
     IssueKnows
<1>5. CredRunsKnow'
  BY DEF IssueFails, AuthorizeFails, IssueAt, RevokeCredsOf, vault, IInv,
     CredRunsKnow, IssueState, TokenStatus, CredStatus, Final, TokenJob,
     CredJob, Job
<1>6. RevokedUnused'
  BY DEF IssueFails, AuthorizeFails, IssueAt, RevokeCredsOf, vault, IInv,
     RevokedUnused
<1>7. DetachedNotActive'
  BY DEF IssueFails, AuthorizeFails, IssueAt, RevokeCredsOf, vault, IInv,
     DetachedNotActive, Detached
<1>8. /\ RenewalKnows' /\ RevocationKnows' /\ CleanupKnows'
      /\ StoreAndTokens'
  BY DEF IssueFails, AuthorizeFails, vault, IInv, RenewalKnows,
     RevocationKnows, CleanupKnows, StoreAndTokens
<1>q. QED BY <1>1, <1>2, <1>3, <1>4, <1>5, <1>6, <1>7, <1>8 DEF IInv

\* A crash leaves the lease without a row.
LEMMA IssueCrashesKeeps ==
    ASSUME IInv, NEW s \in Sess, IssueCrashes(s)
    PROVE  IInv'
<1>1. TypeOK'
  BY VaultAssumption DEF IssueCrashes, IssueAt, rows, vault, IInv, TypeOK,
     IssueState, TokenStatus, CredStatus, TokenJob, CredJob, Job
<1>2. IssueKnows'
  BY DEF IssueCrashes, IssueAt, rows, vault, IInv, IssueKnows
<1>3. /\ FinalMeansDead' /\ LeaseNeedsToken' /\ RenewalKnows'
      /\ RevocationKnows' /\ CredRunsKnow' /\ CleanupKnows'
      /\ StoreAndTokens' /\ RevokedUnused' /\ DetachedNotActive'
  BY DEF IssueCrashes, rows, vault, IInv, FinalMeansDead, LeaseNeedsToken,
     RenewalKnows, RevocationKnows, CredRunsKnow, CleanupKnows,
     StoreAndTokens, RevokedUnused, DetachedNotActive, Detached
<1>q. QED BY <1>1, <1>2, <1>3 DEF IInv

\* What a run fetches has the status it asked for: no token fetched for
\* revocation is current or has an active credential, and a store fetched for
\* deletion has no living token that waits.
LEMMA FetchKeeps ==
    ASSUME IInv, NEW j \in Job, Fetch(j)
    PROVE  IInv'
<1>1. TypeOK'
  BY VaultAssumption DEF Fetch, Continue, RunAt, Batches, Due,
     TokensToRevoke, StoreToDelete, CredsOf, rows, vault, hist, IInv,
     TypeOK, Row, Run, TokenStatus, CredStatus, TokenJob, CredJob, Job
<1>2. RenewalKnows'
  BY DEF Fetch, Continue, RunAt, Batches, Due, TokensToRevoke,
     StoreToDelete, CredsOf, rows, vault, hist, IInv, RenewalKnows
<1>3. RevocationKnows'
  BY DEF Fetch, Continue, RunAt, Batches, Due, TokensToRevoke,
     StoreToDelete, CredsOf, rows, vault, hist, IInv, RevocationKnows
<1>4. CredRunsKnow'
  BY DEF Fetch, Continue, RunAt, Batches, Due, TokensToRevoke,
     StoreToDelete, CredsOf, rows, vault, hist, IInv, CredRunsKnow, Row,
     Run, TokenStatus, CredStatus, Final, TokenJob, CredJob, Job
<1>5. CleanupKnows'
  BY VaultAssumption DEF Fetch, Continue, RunAt, Batches, Due,
     TokensToRevoke, StoreToDelete, CredsOf, rows, vault, hist, IInv,
     TypeOK, CleanupKnows, LeaseNeedsToken, StoreAndTokens, Row, Run,
     TokenStatus, CredStatus, Final, TokenJob, CredJob, Job
<1>6. RevokedUnused'
  BY VaultAssumption DEF Fetch, Continue, RunAt, Batches, Due,
     TokensToRevoke, StoreToDelete, CredsOf, rows, vault, hist, IInv,
     TypeOK, RevokedUnused, LeaseNeedsToken, StoreAndTokens, Row, Run,
     TokenStatus, CredStatus, Final, TokenJob, CredJob, Job
<1>7. /\ FinalMeansDead' /\ LeaseNeedsToken' /\ IssueKnows'
      /\ StoreAndTokens' /\ DetachedNotActive'
  BY DEF Fetch, rows, vault, hist, IInv, FinalMeansDead, LeaseNeedsToken,
     IssueKnows, StoreAndTokens, DetachedNotActive, Detached
<1>q. QED BY <1>1, <1>2, <1>3, <1>4, <1>5, <1>6, <1>7 DEF IInv

\* The run remembers whether the token was alive when Vault answered.
LEMMA RenewTokenKeeps ==
    ASSUME IInv, NEW t \in Token, RenewToken(t)
    PROVE  IInv'
<1>1. TypeOK'
  BY VaultAssumption DEF RenewToken, Answered, RunAt, rows, hist, IInv,
     TypeOK, Row, Run, TokenStatus, CredStatus, TokenJob, CredJob, Job
<1>2. RenewalKnows'
  BY VaultAssumption DEF RenewToken, Answered, RunAt, rows, hist, IInv,
     TypeOK, RenewalKnows, Row, Run, TokenStatus, CredStatus, Final,
     TokenJob, CredJob, Job
<1>3. RevocationKnows'
  BY DEF RenewToken, Answered, RunAt, rows, hist, IInv, RevocationKnows
<1>4. CredRunsKnow'
  BY DEF RenewToken, Answered, RunAt, rows, hist, IInv, CredRunsKnow, Row,
     Run, TokenStatus, CredStatus, Final, TokenJob, CredJob, Job
<1>5. CleanupKnows'
  BY DEF RenewToken, Answered, RunAt, rows, hist, IInv, CleanupKnows
<1>6. RevokedUnused'
  BY DEF RenewToken, Answered, RunAt, rows, hist, IInv, RevokedUnused
<1>7. /\ FinalMeansDead' /\ LeaseNeedsToken' /\ IssueKnows'
      /\ StoreAndTokens' /\ DetachedNotActive'
  BY DEF RenewToken, Answered, rows, hist, IInv, FinalMeansDead,
     LeaseNeedsToken, IssueKnows, StoreAndTokens, DetachedNotActive,
     Detached
<1>q. QED BY <1>1, <1>2, <1>3, <1>4, <1>5, <1>6, <1>7 DEF IInv

\* A token is recorded as expired only after Vault said that it is dead.
LEMMA RecordRenewalKeeps ==
    ASSUME IInv, RecordRenewal
    PROVE  IInv'
<1>1. TypeOK'
  <2> DEFINE r == job["tokenRenewal"]
  <2>1. TypeOK /\ "tokenRenewal" \in Job BY DEF IInv, Job, TokenJob
  <2>2. r.batch \in SUBSET Row /\ r.item \in Token /\ r.item \in Row
    BY <2>1 DEF RecordRenewal, IInv, RenewalKnows, TypeOK, Run, Row
  <2>3. \/ Continue("tokenRenewal", r.batch)
        \/ RunAt("tokenRenewal", "creds", r.batch, r.item, FALSE)
    BY DEF RecordRenewal
  <2> HIDE DEF r
  <2>4. job' \in [Job -> Run]
    <3>1. CASE Continue("tokenRenewal", r.batch)
      BY <2>1, <2>2, <3>1, ContinueType
    <3>2. CASE RunAt("tokenRenewal", "creds", r.batch, r.item, FALSE)
      BY <2>1, <2>2, <3>2, RunAtType
    <3>q. QED BY <2>3, <3>1, <3>2
  <2>5. /\ token' \in [Token -> {"none", "gone"} \union TokenStatus]
        /\ lapsed' \subseteq Token /\ ahead' \subseteq Token
    BY <2>1 DEF RecordRenewal, vault, TypeOK, TokenStatus
  <2>q. QED BY <2>1, <2>4, <2>5 DEF RecordRenewal, vault, hist, TypeOK
<1>2. FinalMeansDead'
  BY VaultAssumption DEF RecordRenewal, Continue, RunAt, HasRow, hist, IInv,
     TypeOK, FinalMeansDead, RenewalKnows, Row, Run, TokenStatus,
     CredStatus, Final, TokenJob, CredJob, Job
<1>3. LeaseNeedsToken'
  BY VaultAssumption DEF RecordRenewal, Continue, RunAt, HasRow, hist, IInv,
     TypeOK, LeaseNeedsToken, Row, Run, TokenStatus, CredStatus, Final,
     TokenJob, CredJob, Job
<1>4. IssueKnows'
  BY VaultAssumption DEF RecordRenewal, Continue, RunAt, HasRow, hist, IInv,
     TypeOK, IssueKnows, Row, Run, TokenStatus, CredStatus, Final, TokenJob,
     CredJob, Job
<1>5. RenewalKnows'
  BY VaultAssumption DEF RecordRenewal, Continue, RunAt, HasRow, hist, IInv,
     TypeOK, RenewalKnows, Row, Run, TokenStatus, CredStatus, Final,
     TokenJob, CredJob, Job
<1>6. RevocationKnows'
  BY VaultAssumption DEF RecordRenewal, Continue, RunAt, HasRow, hist, IInv,
     TypeOK, RevocationKnows, LeaseNeedsToken, StoreAndTokens, Row, Run,
     TokenStatus, CredStatus, Final, TokenJob, CredJob, Job
<1>7. CredRunsKnow'
  BY VaultAssumption DEF RecordRenewal, Continue, RunAt, HasRow, hist, IInv,
     TypeOK, CredRunsKnow, LeaseNeedsToken, StoreAndTokens, Row, Run,
     TokenStatus, CredStatus, Final, TokenJob, CredJob, Job
<1>8. CleanupKnows'
  BY VaultAssumption DEF RecordRenewal, Continue, RunAt, HasRow, hist, IInv,
     TypeOK, CleanupKnows, LeaseNeedsToken, StoreAndTokens, Row, Run,
     TokenStatus, CredStatus, Final, TokenJob, CredJob, Job
<1>9. StoreAndTokens'
  BY VaultAssumption DEF RecordRenewal, Continue, RunAt, HasRow, hist, IInv,
     TypeOK, StoreAndTokens, Row, Run, TokenStatus, CredStatus, Final,
     TokenJob, CredJob, Job
<1>10. RevokedUnused'
  BY VaultAssumption DEF RecordRenewal, Continue, RunAt, HasRow, hist, IInv,
     TypeOK, RevokedUnused, Row, Run, TokenStatus, CredStatus, Final,
     TokenJob, CredJob, Job
<1>11. DetachedNotActive'
  BY DEF RecordRenewal, hist, IInv, DetachedNotActive, Detached
<1>q. QED BY <1>1, <1>2, <1>3, <1>4, <1>5, <1>6, <1>7, <1>8, <1>9, <1>10,
   <1>11 DEF IInv

\* Revoking a token in Vault kills its leases.
LEMMA RevokeTokenKeeps ==
    ASSUME IInv, NEW t \in Token, RevokeToken(t)
    PROVE  IInv'
<1>1. TypeOK'
  BY VaultAssumption DEF RevokeToken, Answered, RunAt, TokenDies,
     LeasesWithout, rows, IInv, TypeOK, Row, Run, TokenStatus, CredStatus,
     TokenJob, CredJob, Job
<1>2. FinalMeansDead'
  BY DEF RevokeToken, Answered, RunAt, TokenDies, LeasesWithout, rows, IInv,
     FinalMeansDead
<1>3. LeaseNeedsToken'
  BY DEF RevokeToken, Answered, RunAt, TokenDies, LeasesWithout, rows, IInv,
     LeaseNeedsToken
<1>4. IssueKnows'
  BY DEF RevokeToken, Answered, RunAt, TokenDies, LeasesWithout, rows, IInv,
     IssueKnows
<1>5. RenewalKnows'
  BY DEF RevokeToken, Answered, RunAt, TokenDies, LeasesWithout, rows, IInv,
     RenewalKnows
<1>6. RevocationKnows'
  BY VaultAssumption DEF RevokeToken, Answered, RunAt, TokenDies,
     LeasesWithout, rows, IInv, TypeOK, RevocationKnows, Row, Run,
     TokenStatus, CredStatus, Final, TokenJob, CredJob, Job
<1>7. CredRunsKnow'
  BY DEF RevokeToken, Answered, RunAt, TokenDies, LeasesWithout, rows, IInv,
     CredRunsKnow, Row, Run, TokenStatus, CredStatus, Final, TokenJob,
     CredJob, Job
<1>8. CleanupKnows'
  BY DEF RevokeToken, Answered, RunAt, TokenDies, LeasesWithout, rows, IInv,
     CleanupKnows
<1>9. StoreAndTokens'
  BY DEF RevokeToken, Answered, RunAt, TokenDies, LeasesWithout, rows, IInv,
     StoreAndTokens
<1>10. RevokedUnused'
  BY VaultAssumption DEF RevokeToken, Answered, RunAt, TokenDies,
     LeasesWithout, rows, IInv, TypeOK, RevokedUnused, RevocationKnows, Row,
     Run, TokenStatus, CredStatus, Final, TokenJob, CredJob, Job
<1>11. DetachedNotActive'
  BY DEF RevokeToken, Answered, TokenDies, rows, IInv, DetachedNotActive,
     Detached
<1>q. QED BY <1>1, <1>2, <1>3, <1>4, <1>5, <1>6, <1>7, <1>8, <1>9, <1>10,
   <1>11 DEF IInv

\* A token is recorded as revoked only after it was revoked in Vault.
LEMMA RecordRevocationKeeps ==
    ASSUME IInv, RecordRevocation
    PROVE  IInv'
<1>1. TypeOK'
  <2> DEFINE r == job["tokenRevocation"]
  <2>1. TypeOK /\ "tokenRevocation" \in Job BY DEF IInv, Job, TokenJob
  <2>2. r.batch \in SUBSET Row /\ r.item \in Token /\ r.item \in Row
    BY <2>1 DEF RecordRevocation, IInv, RevocationKnows, TypeOK, Run, Row
  <2>3. \/ Continue("tokenRevocation", r.batch)
        \/ RunAt("tokenRevocation", "creds", r.batch, r.item, FALSE)
    BY DEF RecordRevocation
  <2> HIDE DEF r
  <2>4. job' \in [Job -> Run]
    <3>1. CASE Continue("tokenRevocation", r.batch)
      BY <2>1, <2>2, <3>1, ContinueType
    <3>2. CASE RunAt("tokenRevocation", "creds", r.batch, r.item, FALSE)
      BY <2>1, <2>2, <3>2, RunAtType
    <3>q. QED BY <2>3, <3>1, <3>2
  <2>5. /\ token' \in [Token -> {"none", "gone"} \union TokenStatus]
        /\ lapsed' \subseteq Token /\ ahead' \subseteq Token
    BY <2>1 DEF RecordRevocation, vault, TypeOK, TokenStatus
  <2>q. QED BY <2>1, <2>4, <2>5 DEF RecordRevocation, vault, hist, TypeOK
<1>2. FinalMeansDead'
  BY VaultAssumption DEF RecordRevocation, Continue, RunAt, HasRow, vault,
     hist, IInv, TypeOK, FinalMeansDead, RevocationKnows, Row, Run,
     TokenStatus, CredStatus, Final, TokenJob, CredJob, Job
<1>3. LeaseNeedsToken'
  BY VaultAssumption DEF RecordRevocation, Continue, RunAt, HasRow, vault,
     hist, IInv, TypeOK, LeaseNeedsToken, Row, Run, TokenStatus, CredStatus,
     Final, TokenJob, CredJob, Job
<1>4. IssueKnows'
  BY VaultAssumption DEF RecordRevocation, Continue, RunAt, HasRow, vault,
     hist, IInv, TypeOK, IssueKnows, Row, Run, TokenStatus, CredStatus,
     Final, TokenJob, CredJob, Job
<1>5. RenewalKnows'
  <2>1. \A i \in Job \ {"tokenRevocation"} : job'[i] = job[i]
    BY DEF RecordRevocation, Continue, RunAt, IInv, TypeOK
  <2>2. job'["tokenRenewal"] = job["tokenRenewal"] BY <2>1 DEF Job, TokenJob
  <2>q. QED BY <2>2 DEF RecordRevocation, vault, IInv, RenewalKnows
<1>6. RevocationKnows'
  BY VaultAssumption DEF RecordRevocation, Continue, RunAt, HasRow, vault,
     hist, IInv, TypeOK, RevocationKnows, Row, Run, TokenStatus, CredStatus,
     Final, TokenJob, CredJob, Job
<1>7. CredRunsKnow'
  <2>1. \A i \in Job \ {"tokenRevocation"} : job'[i] = job[i]
    BY DEF RecordRevocation, Continue, RunAt, IInv, TypeOK
  <2>2. \A i \in CredJob : job'[i] = job[i] BY <2>1 DEF Job, CredJob
  <2>q. QED BY <2>2 DEF RecordRevocation, vault, IInv, CredRunsKnow
<1>8. CleanupKnows'
  BY VaultAssumption DEF RecordRevocation, Continue, RunAt, HasRow, vault,
     hist, IInv, TypeOK, CleanupKnows, Row, Run, TokenStatus, CredStatus,
     Final, TokenJob, CredJob, Job
<1>9. StoreAndTokens'
  BY VaultAssumption DEF RecordRevocation, Continue, RunAt, HasRow, vault,
     hist, IInv, TypeOK, StoreAndTokens, Row, Run, TokenStatus, CredStatus,
     Final, TokenJob, CredJob, Job
<1>10. RevokedUnused'
  BY VaultAssumption DEF RecordRevocation, Continue, RunAt, HasRow, vault,
     hist, IInv, TypeOK, RevokedUnused, Row, Run, TokenStatus, CredStatus,
     Final, TokenJob, CredJob, Job
<1>11. DetachedNotActive'
  BY DEF RecordRevocation, vault, hist, IInv, DetachedNotActive, Detached
<1>q. QED BY <1>1, <1>2, <1>3, <1>4, <1>5, <1>6, <1>7, <1>8, <1>9, <1>10,
   <1>11 DEF IInv

\* The credentials of a dead token have dead leases.
LEMMA UpdateCredentialStatusByTokenKeeps ==
    ASSUME IInv, NEW j \in TokenJob, UpdateCredentialStatusByToken(j)
    PROVE  IInv'
<1>1. TypeOK'
  BY VaultAssumption DEF UpdateCredentialStatusByToken, Continue, RunAt,
     CredsOf, vault, hist, IInv, TypeOK, Row, Run, TokenStatus, CredStatus,
     TokenJob, CredJob, Job
<1>2. FinalMeansDead'
  <2>1. job[j].item \in Token /\ vaultToken[job[j].item] = "dead"
    BY DEF UpdateCredentialStatusByToken, TokenJob, IInv, RenewalKnows, RevocationKnows
  <2>2. \A c \in CredsOf(job[j].item) : lease[c] = "dead"
    BY <2>1 DEF CredsOf, CredStatus, IInv, TypeOK, LeaseNeedsToken
  <2>q. QED BY <2>2 DEF UpdateCredentialStatusByToken, vault, IInv, TypeOK, FinalMeansDead
<1>3. LeaseNeedsToken'
  BY VaultAssumption DEF UpdateCredentialStatusByToken, Continue, RunAt,
     CredsOf, vault, hist, IInv, TypeOK, LeaseNeedsToken, Row, Run,
     TokenStatus, CredStatus, Final, TokenJob, CredJob, Job
<1>4. IssueKnows'
  BY VaultAssumption DEF UpdateCredentialStatusByToken, Continue, RunAt,
     CredsOf, vault, hist, IInv, TypeOK, IssueKnows, Row, Run, TokenStatus,
     CredStatus, Final, TokenJob, CredJob, Job
<1>5. RenewalKnows'
  BY DEF UpdateCredentialStatusByToken, Continue, RunAt, CredsOf, vault,
     hist, IInv, RenewalKnows
<1>6. RevocationKnows'
  BY DEF UpdateCredentialStatusByToken, Continue, RunAt, CredsOf, vault,
     hist, IInv, RevocationKnows
<1>7. CredRunsKnow'
  BY DEF UpdateCredentialStatusByToken, Continue, RunAt, CredsOf, vault,
     hist, IInv, CredRunsKnow, Row, Run, TokenStatus, CredStatus, Final,
     TokenJob, CredJob, Job
<1>8. CleanupKnows'
  BY VaultAssumption DEF UpdateCredentialStatusByToken, Continue, RunAt,
     CredsOf, vault, hist, IInv, TypeOK, CleanupKnows, Row, Run,
     TokenStatus, CredStatus, Final, TokenJob, CredJob, Job
<1>9. RevokedUnused'
  BY DEF UpdateCredentialStatusByToken, Continue, RunAt, CredsOf, vault,
     hist, IInv, RevokedUnused
<1>10. DetachedNotActive'
  BY DEF UpdateCredentialStatusByToken, Continue, RunAt, CredsOf, vault,
     hist, IInv, DetachedNotActive, Detached
<1>11. StoreAndTokens'
  BY DEF UpdateCredentialStatusByToken, vault, hist, IInv, StoreAndTokens
<1>q. QED BY <1>1, <1>2, <1>3, <1>4, <1>5, <1>6, <1>7, <1>8, <1>9, <1>10,
   <1>11 DEF IInv

\* The run remembers whether the lease was alive when Vault answered.
LEMMA RenewCredKeeps ==
    ASSUME IInv, NEW c \in Cred, RenewCred(c)
    PROVE  IInv'
<1>1. TypeOK'
  <2> DEFINE B == job["credRenewal"].batch \ {c}
              alive == lease[c] = "alive"
  <2>1. TypeOK /\ "credRenewal" \in Job BY DEF IInv, Job, CredJob
  <2>2. /\ B \in SUBSET Row /\ c \in Row /\ alive \in BOOLEAN
        /\ "write" \in {"idle", "loop", "write", "creds"}
    BY <2>1 DEF TypeOK, Run, Row
  <2>3. Continue("credRenewal", B) \/ RunAt("credRenewal", "write", B, c, alive)
    BY DEF RenewCred, Answered, Skipped
  <2> HIDE DEF B, alive
  <2>4. job' \in [Job -> Run]
    BY <2>1, <2>2, <2>3, ContinueType, RunAtType
  <2>5. lease' \in [Cred -> {"none", "alive", "dead"}]
    BY <2>1 DEF RenewCred, vault, TypeOK
  <2>q. QED BY <2>1, <2>4, <2>5 DEF RenewCred, rows, vault, hist, TypeOK
<1>2. RenewalKnows'
  BY VaultAssumption DEF RenewCred, Answered, Skipped, Continue, RunAt,
     rows, vault, hist, IInv, TypeOK, RenewalKnows, Row, Run, TokenStatus,
     CredStatus, Final, TokenJob, CredJob, Job
<1>3. RevocationKnows'
  BY VaultAssumption DEF RenewCred, Answered, Skipped, Continue, RunAt,
     rows, vault, hist, IInv, TypeOK, RevocationKnows, Row, Run,
     TokenStatus, CredStatus, Final, TokenJob, CredJob, Job
<1>4. CredRunsKnow'
  <2> DEFINE j == "credRenewal"
             B == job[j].batch \ {c}
  <2>1. TypeOK /\ j \in Job /\ j \in CredJob BY DEF IInv, Job, CredJob
  <2>2. B \in SUBSET Row BY <2>1 DEF TypeOK, Run
  <2>3. CASE vaultToken[credToken[c]] = "alive"
    <3>1. RunAt(j, "write", B, c, lease[c] = "alive")
      BY <2>3 DEF RenewCred, Answered
    <3>2. /\ c \in job[j].batch /\ c \in Row
          /\ (lease[c] = "alive") \in BOOLEAN
          /\ cred[c] # "none"
      BY <2>1 DEF RenewCred, Row, IInv, CredRunsKnow
    <3>3. lease[c] # "alive" => lease[c] = "dead"
      BY <3>2 DEF IInv, TypeOK, LeaseNeedsToken
    <3> HIDE DEF B, j
    <3>4. /\ job'[j] = [pc |-> "write", batch |-> B, item |-> c,
                        alive |-> (lease[c] = "alive")]
          /\ \A i \in Job \ {j} : job'[i] = job[i]
      BY <2>1, <2>2, <3>1, <3>2, RunAtType
    <3>5. UNCHANGED <<cred, lease>> BY DEF RenewCred, rows, vault
    <3>6. \A i \in CredJob \ {j} : job'[i] = job[i] BY <3>4 DEF Job
    <3>7. /\ job'[j].batch = B /\ job'[j].pc = "write" /\ job'[j].item = c
          /\ job'[j].alive = (lease[c] = "alive")
      BY <3>4
    <3>8. ~job'[j].alive => lease[c] = "dead" BY <3>3, <3>7
    <3>9. /\ B \subseteq Cred /\ \A x \in B : cred[x] # "none"
          /\ j # "credRevocation"
      BY <2>1 DEF j, B, IInv, CredRunsKnow
    <3>10. ASSUME NEW i \in CredJob, i # j
           PROVE  job'[i] = job[i]
      BY <3>6, <3>10
    <3>q. QED BY <3>2, <3>5, <3>7, <3>8, <3>9, <3>10 DEF IInv, CredRunsKnow
  <2>4. CASE vaultToken[credToken[c]] # "alive"
    <3>1. Continue(j, B) BY <2>4 DEF RenewCred, Skipped
    <3> HIDE DEF B
    <3>2. /\ job'[j].batch = B /\ job'[j].pc # "write"
          /\ \A i \in Job \ {j} : job'[i] = job[i]
      BY <2>1, <2>2, <3>1, ContinueType
    <3>3. \A i \in CredJob \ {j} : job'[i] = job[i] BY <3>2 DEF Job
    <3>q. QED BY <2>1, <3>2, <3>3 DEF B, RenewCred, rows, vault, IInv, Job, CredJob, CredRunsKnow
  <2>q. QED BY <2>3, <2>4
<1>5. CleanupKnows'
  BY VaultAssumption DEF RenewCred, Answered, Skipped, Continue, RunAt,
     rows, vault, hist, IInv, TypeOK, CleanupKnows, Row, Run, TokenStatus,
     CredStatus, Final, TokenJob, CredJob, Job
<1>6. RevokedUnused'
  BY VaultAssumption DEF RenewCred, Answered, Skipped, Continue, RunAt,
     rows, vault, hist, IInv, TypeOK, RevokedUnused, Row, Run, TokenStatus,
     CredStatus, Final, TokenJob, CredJob, Job
<1>7. /\ FinalMeansDead' /\ LeaseNeedsToken' /\ IssueKnows'
      /\ StoreAndTokens' /\ DetachedNotActive'
  BY DEF RenewCred, Answered, Skipped, rows, vault, hist, IInv,
     FinalMeansDead, LeaseNeedsToken, IssueKnows, StoreAndTokens,
     DetachedNotActive, Detached
<1>q. QED BY <1>1, <1>2, <1>3, <1>4, <1>5, <1>6, <1>7 DEF IInv

\* A credential is recorded as expired only after Vault said so.
LEMMA RecordCredRenewalKeeps ==
    ASSUME IInv, RecordCredRenewal
    PROVE  IInv'
<1>1. TypeOK'
  BY VaultAssumption DEF RecordCredRenewal, Continue, RunAt, vault, hist,
     IInv, TypeOK, Row, Run, TokenStatus, CredStatus, TokenJob, CredJob, Job
<1>2. FinalMeansDead'
  BY VaultAssumption DEF RecordCredRenewal, Continue, RunAt, vault, hist,
     IInv, TypeOK, FinalMeansDead, CredRunsKnow, Row, Run, TokenStatus,
     CredStatus, Final, TokenJob, CredJob, Job
<1>3. LeaseNeedsToken'
  BY VaultAssumption DEF RecordCredRenewal, Continue, RunAt, vault, hist,
     IInv, TypeOK, LeaseNeedsToken, Row, Run, TokenStatus, CredStatus,
     Final, TokenJob, CredJob, Job
<1>4. IssueKnows'
  BY VaultAssumption DEF RecordCredRenewal, Continue, RunAt, vault, hist,
     IInv, TypeOK, IssueKnows, Row, Run, TokenStatus, CredStatus, Final,
     TokenJob, CredJob, Job
<1>5. RenewalKnows'
  BY DEF RecordCredRenewal, Continue, RunAt, vault, hist, IInv, RenewalKnows
<1>6. RevocationKnows'
  BY DEF RecordCredRenewal, Continue, RunAt, vault, hist, IInv,
     RevocationKnows
<1>7. CredRunsKnow'
  BY DEF RecordCredRenewal, Continue, RunAt, vault, hist, IInv,
     CredRunsKnow, Row, Run, TokenStatus, CredStatus, Final, TokenJob,
     CredJob, Job
<1>8. CleanupKnows'
  BY DEF RecordCredRenewal, Continue, RunAt, vault, hist, IInv, CleanupKnows
<1>9. RevokedUnused'
  BY DEF RecordCredRenewal, Continue, RunAt, vault, hist, IInv,
     RevokedUnused
<1>10. DetachedNotActive'
  BY DEF RecordCredRenewal, Continue, RunAt, vault, hist, IInv,
     DetachedNotActive, Detached
<1>11. StoreAndTokens'
  BY DEF RecordCredRenewal, vault, hist, IInv, StoreAndTokens
<1>q. QED BY <1>1, <1>2, <1>3, <1>4, <1>5, <1>6, <1>7, <1>8, <1>9, <1>10,
   <1>11 DEF IInv

\* Revoking a credential in Vault kills its lease.
LEMMA RevokeCredKeeps ==
    ASSUME IInv, NEW c \in Cred, RevokeCred(c)
    PROVE  IInv'
<1>1. TypeOK'
  <2> DEFINE B == job["credRevocation"].batch \ {c}
              alive == FALSE
  <2>1. TypeOK /\ "credRevocation" \in Job BY DEF IInv, Job, CredJob
  <2>2. /\ B \in SUBSET Row /\ c \in Row /\ alive \in BOOLEAN
        /\ "write" \in {"idle", "loop", "write", "creds"}
    BY <2>1 DEF TypeOK, Run, Row
  <2>3. Continue("credRevocation", B) \/ RunAt("credRevocation", "write", B, c, alive)
    BY DEF RevokeCred, Answered, Skipped
  <2> HIDE DEF B, alive
  <2>4. job' \in [Job -> Run]
    BY <2>1, <2>2, <2>3, ContinueType, RunAtType
  <2>5. lease' \in [Cred -> {"none", "alive", "dead"}]
    BY <2>1 DEF RevokeCred, vault, TypeOK
  <2>q. QED BY <2>1, <2>4, <2>5 DEF RevokeCred, rows, vault, hist, TypeOK
<1>2. FinalMeansDead'
  BY VaultAssumption DEF RevokeCred, Answered, Skipped, Continue, RunAt,
     rows, hist, IInv, TypeOK, FinalMeansDead, Row, Run, TokenStatus,
     CredStatus, Final, TokenJob, CredJob, Job
<1>3. LeaseNeedsToken'
  BY VaultAssumption DEF RevokeCred, Answered, Skipped, Continue, RunAt,
     rows, hist, IInv, TypeOK, LeaseNeedsToken, Row, Run, TokenStatus,
     CredStatus, Final, TokenJob, CredJob, Job
<1>4. IssueKnows'
  BY VaultAssumption DEF RevokeCred, Answered, Skipped, Continue, RunAt,
     rows, hist, IInv, TypeOK, IssueKnows, CredRunsKnow, Row, Run,
     TokenStatus, CredStatus, Final, TokenJob, CredJob, Job
<1>5. RenewalKnows'
  BY VaultAssumption DEF RevokeCred, Answered, Skipped, Continue, RunAt,
     rows, hist, IInv, TypeOK, RenewalKnows, Row, Run, TokenStatus,
     CredStatus, Final, TokenJob, CredJob, Job
<1>6. RevocationKnows'
  BY VaultAssumption DEF RevokeCred, Answered, Skipped, Continue, RunAt,
     rows, hist, IInv, TypeOK, RevocationKnows, LeaseNeedsToken,
     StoreAndTokens, Row, Run, TokenStatus, CredStatus, Final, TokenJob,
     CredJob, Job
<1>7. CredRunsKnow'
  BY VaultAssumption DEF RevokeCred, Answered, Skipped, Continue, RunAt,
     rows, hist, IInv, TypeOK, CredRunsKnow, Row, Run, TokenStatus,
     CredStatus, Final, TokenJob, CredJob, Job
<1>8. CleanupKnows'
  <2>1. job'["storeCleanup"] = job["storeCleanup"]
    BY DEF RevokeCred, Answered, Skipped, Continue, RunAt, IInv, TypeOK, Job
  <2>q. QED BY <2>1 DEF RevokeCred, rows, hist, IInv, CleanupKnows
<1>9. RevokedUnused'
  BY VaultAssumption DEF RevokeCred, Answered, Skipped, Continue, RunAt,
     rows, hist, IInv, TypeOK, RevokedUnused, LeaseNeedsToken,
     StoreAndTokens, Row, Run, TokenStatus, CredStatus, Final, TokenJob,
     CredJob, Job
<1>10. StoreAndTokens' /\ DetachedNotActive'
  BY DEF RevokeCred, Answered, Skipped, rows, hist, IInv, StoreAndTokens,
     DetachedNotActive, Detached
<1>q. QED BY <1>1, <1>2, <1>3, <1>4, <1>5, <1>6, <1>7, <1>8, <1>9, <1>10 DEF
   IInv

\* A credential is recorded as revoked only after it was revoked in Vault.
LEMMA RecordCredRevocationKeeps ==
    ASSUME IInv, RecordCredRevocation
    PROVE  IInv'
<1>1. TypeOK'
  BY VaultAssumption DEF RecordCredRevocation, Continue, RunAt, vault, hist,
     IInv, TypeOK, Row, Run, TokenStatus, CredStatus, TokenJob, CredJob, Job
<1>2. FinalMeansDead'
  BY VaultAssumption DEF RecordCredRevocation, Continue, RunAt, vault, hist,
     IInv, TypeOK, FinalMeansDead, CredRunsKnow, Row, Run, TokenStatus,
     CredStatus, Final, TokenJob, CredJob, Job
<1>3. LeaseNeedsToken'
  BY VaultAssumption DEF RecordCredRevocation, Continue, RunAt, vault, hist,
     IInv, TypeOK, LeaseNeedsToken, Row, Run, TokenStatus, CredStatus,
     Final, TokenJob, CredJob, Job
<1>4. IssueKnows'
  BY VaultAssumption DEF RecordCredRevocation, Continue, RunAt, vault, hist,
     IInv, TypeOK, IssueKnows, Row, Run, TokenStatus, CredStatus, Final,
     TokenJob, CredJob, Job
<1>5. RenewalKnows'
  BY DEF RecordCredRevocation, Continue, RunAt, vault, hist, IInv,
     RenewalKnows
<1>6. RevocationKnows'
  BY DEF RecordCredRevocation, Continue, RunAt, vault, hist, IInv,
     RevocationKnows
<1>7. CredRunsKnow'
  BY DEF RecordCredRevocation, Continue, RunAt, vault, hist, IInv,
     CredRunsKnow, Row, Run, TokenStatus, CredStatus, Final, TokenJob,
     CredJob, Job
<1>8. CleanupKnows'
  BY DEF RecordCredRevocation, Continue, RunAt, vault, hist, IInv,
     CleanupKnows
<1>9. RevokedUnused'
  BY DEF RecordCredRevocation, Continue, RunAt, vault, hist, IInv,
     RevokedUnused
<1>10. DetachedNotActive'
  BY DEF RecordCredRevocation, Continue, RunAt, vault, hist, IInv,
     DetachedNotActive, Detached
<1>11. StoreAndTokens'
  BY DEF RecordCredRevocation, vault, hist, IInv, StoreAndTokens
<1>q. QED BY <1>1, <1>2, <1>3, <1>4, <1>5, <1>6, <1>7, <1>8, <1>9, <1>10,
   <1>11 DEF IInv

\* The deletion of the store takes dead tokens only.
LEMMA CleanupStoreKeeps ==
    ASSUME IInv, CleanupStore
    PROVE  IInv'
<1>1. TypeOK'
  BY VaultAssumption DEF CleanupStore, Skipped, Continue, RunAt, HasRow,
     vault, hist, IInv, TypeOK, Row, Run, TokenStatus, CredStatus, TokenJob,
     CredJob, Job
<1>2. FinalMeansDead'
  BY VaultAssumption DEF CleanupStore, Skipped, Continue, RunAt, HasRow,
     vault, hist, IInv, TypeOK, FinalMeansDead, Row, Run, TokenStatus,
     CredStatus, Final, TokenJob, CredJob, Job
<1>3. LeaseNeedsToken'
  BY VaultAssumption DEF CleanupStore, Skipped, Continue, RunAt, HasRow,
     vault, hist, IInv, TypeOK, LeaseNeedsToken, Row, Run, TokenStatus,
     CredStatus, Final, TokenJob, CredJob, Job
<1>4. IssueKnows'
  BY VaultAssumption DEF CleanupStore, Skipped, Continue, RunAt, HasRow,
     vault, hist, IInv, TypeOK, IssueKnows, Row, Run, TokenStatus,
     CredStatus, Final, TokenJob, CredJob, Job
<1>5. RenewalKnows'
  BY DEF CleanupStore, Skipped, Continue, RunAt, HasRow, vault, hist, IInv,
     RenewalKnows
<1>6. RevocationKnows'
  BY DEF CleanupStore, Skipped, Continue, RunAt, HasRow, vault, hist, IInv,
     RevocationKnows
<1>7. CredRunsKnow'
  BY DEF CleanupStore, Skipped, Continue, RunAt, HasRow, vault, hist, IInv,
     CredRunsKnow, Row, Run, TokenStatus, CredStatus, Final, TokenJob,
     CredJob, Job
<1>8. CleanupKnows'
  BY DEF CleanupStore, Skipped, Continue, RunAt, HasRow, vault, hist, IInv,
     CleanupKnows
<1>9. StoreAndTokens'
  BY VaultAssumption DEF CleanupStore, Skipped, Continue, RunAt, HasRow,
     vault, hist, IInv, TypeOK, StoreAndTokens, CleanupKnows,
     FinalMeansDead, Row, Run, TokenStatus, CredStatus, Final, TokenJob,
     CredJob, Job
<1>10. RevokedUnused'
  BY VaultAssumption DEF CleanupStore, Skipped, Continue, RunAt, HasRow,
     vault, hist, IInv, TypeOK, RevokedUnused, Row, Run, TokenStatus,
     CredStatus, Final, TokenJob, CredJob, Job
<1>11. DetachedNotActive'
  BY DEF CleanupStore, Skipped, Continue, RunAt, HasRow, vault, hist, IInv,
     DetachedNotActive, Detached
<1>q. QED BY <1>1, <1>2, <1>3, <1>4, <1>5, <1>6, <1>7, <1>8, <1>9, <1>10,
   <1>11 DEF IInv

\* Only final and detached credentials are deleted.
LEMMA CleanupCredsKeeps ==
    ASSUME IInv, CleanupCreds
    PROVE  IInv'
<1>1. TypeOK'
  BY DEF CleanupCreds, Detached, procs, vault, hist, IInv, TypeOK
<1>2. FinalMeansDead'
  BY DEF CleanupCreds, Detached, procs, vault, hist, IInv, FinalMeansDead
<1>3. LeaseNeedsToken'
  BY VaultAssumption DEF CleanupCreds, Detached, procs, vault, hist, IInv,
     TypeOK, LeaseNeedsToken, TokenStatus, CredStatus, Final, TokenJob,
     CredJob, Job
<1>4. IssueKnows'
  BY VaultAssumption DEF CleanupCreds, Detached, procs, vault, hist, IInv,
     TypeOK, IssueKnows, TokenStatus, CredStatus, Final, TokenJob, CredJob,
     Job
<1>5. CredRunsKnow'
  BY DEF CleanupCreds, Detached, procs, vault, hist, IInv, CredRunsKnow,
     TokenStatus, CredStatus, Final, TokenJob, CredJob, Job
<1>6. RevokedUnused'
  BY DEF CleanupCreds, Detached, procs, vault, hist, IInv, RevokedUnused
<1>7. DetachedNotActive'
  BY DEF CleanupCreds, Detached, procs, vault, hist, IInv, DetachedNotActive
<1>8. /\ RenewalKnows' /\ RevocationKnows' /\ CleanupKnows'
      /\ StoreAndTokens'
  BY DEF CleanupCreds, Detached, procs, vault, hist, IInv, RenewalKnows,
     RevocationKnows, CleanupKnows, StoreAndTokens
<1>q. QED BY <1>1, <1>2, <1>3, <1>4, <1>5, <1>6, <1>7, <1>8 DEF IInv

\* A row that fails is left as it is.
LEMMA RowFailsKeeps ==
    ASSUME IInv, NEW j \in Job, RowFails(j)
    PROVE  IInv'
<1>1. TypeOK'
  <2>1. TypeOK BY DEF IInv
  <2>2. job' \in [Job -> Run]
    <3>1. CASE Continue(j, job[j].batch)
      <4>1. job[j].batch \in SUBSET Row BY <2>1 DEF TypeOK, Run
      <4>q. QED BY <2>1, <3>1, <4>1, ContinueType
    <3>2. ASSUME NEW x \in job[j].batch, Skipped(j, x)
          PROVE  job' \in [Job -> Run]
      <4>1. job[j].batch \ {x} \in SUBSET Row BY <2>1 DEF TypeOK, Run
      <4>q. QED BY <2>1, <3>2, <4>1, ContinueType DEF Skipped
    <3>q. QED BY <3>1, <3>2 DEF RowFails
  <2>3. events' \in 0..MaxEvents
    BY <2>1, VaultAssumption DEF RowFails, TypeOK
  <2>q. QED BY <2>1, <2>2, <2>3 DEF RowFails, rows, vault, TypeOK
<1>2. RenewalKnows'
  BY VaultAssumption DEF RowFails, Skipped, Continue, RunAt, rows, vault,
     IInv, TypeOK, RenewalKnows, Row, Run, TokenStatus, CredStatus, Final,
     TokenJob, CredJob, Job
<1>3. RevocationKnows'
  BY VaultAssumption DEF RowFails, Skipped, Continue, RunAt, rows, vault,
     IInv, TypeOK, RevocationKnows, Row, Run, TokenStatus, CredStatus,
     Final, TokenJob, CredJob, Job
<1>4. CredRunsKnow'
  BY VaultAssumption DEF RowFails, Skipped, Continue, RunAt, rows, vault,
     IInv, TypeOK, CredRunsKnow, Row, Run, TokenStatus, CredStatus, Final,
     TokenJob, CredJob, Job
<1>5. CleanupKnows'
  <2>1. job["storeCleanup"].pc = "idle" => job'["storeCleanup"].pc = "idle"
    BY DEF RowFails, Skipped, Continue, RunAt, IInv, TypeOK, Job
  <2>2. job["storeCleanup"].pc \in {"idle", "loop"}
    BY DEF IInv, CleanupKnows
  <2>3. job'["storeCleanup"].pc \in {"idle", "loop"}
    BY <2>2 DEF RowFails, Skipped, Continue, RunAt, IInv, TypeOK, Job
  <2>q. QED BY <2>1, <2>2, <2>3 DEF RowFails, rows, vault, IInv, CleanupKnows
<1>6. RevokedUnused'
  BY VaultAssumption DEF RowFails, Skipped, Continue, RunAt, rows, vault,
     IInv, TypeOK, RevokedUnused, Row, Run, TokenStatus, CredStatus, Final,
     TokenJob, CredJob, Job
<1>7. /\ FinalMeansDead' /\ LeaseNeedsToken' /\ IssueKnows'
      /\ StoreAndTokens' /\ DetachedNotActive'
  BY DEF RowFails, Skipped, rows, vault, IInv, FinalMeansDead,
     LeaseNeedsToken, IssueKnows, StoreAndTokens, DetachedNotActive,
     Detached
<1>q. QED BY <1>1, <1>2, <1>3, <1>4, <1>5, <1>6, <1>7 DEF IInv

\* A run that stops forgets what it knew and writes nothing.
LEMMA RunStopsKeeps ==
    ASSUME IInv, NEW j \in Job, RunStops(j)
    PROVE  IInv'
<1>1. TypeOK'
  BY VaultAssumption DEF RunStops, RunAt, rows, vault, IInv, TypeOK, Row,
     Run, TokenStatus, CredStatus, TokenJob, CredJob, Job
<1>2. RenewalKnows'
  BY DEF RunStops, RunAt, rows, vault, IInv, RenewalKnows
<1>3. RevocationKnows'
  BY DEF RunStops, RunAt, rows, vault, IInv, RevocationKnows
<1>4. CredRunsKnow'
  BY DEF RunStops, RunAt, rows, vault, IInv, CredRunsKnow, Row, Run,
     TokenStatus, CredStatus, Final, TokenJob, CredJob, Job
<1>5. CleanupKnows'
  BY DEF RunStops, RunAt, rows, vault, IInv, CleanupKnows
<1>6. RevokedUnused'
  BY DEF RunStops, RunAt, rows, vault, IInv, RevokedUnused
<1>7. /\ FinalMeansDead' /\ LeaseNeedsToken' /\ IssueKnows'
      /\ StoreAndTokens' /\ DetachedNotActive'
  BY DEF RunStops, rows, vault, IInv, FinalMeansDead, LeaseNeedsToken,
     IssueKnows, StoreAndTokens, DetachedNotActive, Detached
<1>q. QED BY <1>1, <1>2, <1>3, <1>4, <1>5, <1>6, <1>7 DEF IInv

-----------------------------------------------------------------------------

\* Nothing is stored and nothing runs.
LEMMA InitIInv == Init => IInv
<1> SUFFICES ASSUME Init PROVE IInv OBVIOUS
<1>1. TypeOK
  <2>1. job \in [Job -> Run] BY DEF Init, Idle, Run, Row
  <2>2. issue \in [Sess -> IssueState] BY DEF Init, IssueState
  <2>3. version \in 1..MaxVersion + 1 /\ events \in 0..MaxEvents
    BY VaultAssumption DEF Init
  <2>4. update \in [pc : {"idle", "put"}, token : Token \union {Null},
                   version : 0..MaxVersion + 1]
    BY VaultAssumption DEF Init
  <2>q. QED BY <2>1, <2>2, <2>3, <2>4 DEF Init, TypeOK
<1>2. RenewalKnows /\ RevocationKnows /\ CredRunsKnow /\ CleanupKnows
  BY DEF Init, Idle, RenewalKnows, RevocationKnows, CredRunsKnow, CleanupKnows, Job,
         TokenJob, CredJob
<1>3. FinalMeansDead /\ LeaseNeedsToken /\ IssueKnows
  BY VaultAssumption DEF Init, FinalMeansDead, LeaseNeedsToken, IssueKnows, Final
<1>4. RevokedUnused /\ DetachedNotActive
  BY DEF Init, RevokedUnused, DetachedNotActive, Detached
<1>5. StoreAndTokens
  BY VaultAssumption DEF Init, StoreAndTokens
<1>q. QED BY <1>1, <1>2, <1>3, <1>4, <1>5 DEF IInv

\* A step of a job keeps the inductive invariant.
LEMMA JobStepKeeps ==
    ASSUME IInv, NEW j \in Job, JobStep(j) \/ RowFails(j) \/ RunStops(j)
    PROVE  IInv'
  BY FetchKeeps, RenewTokenKeeps, RecordRenewalKeeps, RevokeTokenKeeps,
     RecordRevocationKeeps, UpdateCredentialStatusByTokenKeeps, RenewCredKeeps,
     RecordCredRenewalKeeps, RevokeCredKeeps, RecordCredRevocationKeeps,
     CleanupStoreKeeps, RowFailsKeeps, RunStopsKeeps
     DEF JobStep

\* So does every step, and every stutter.
LEMMA NextIInv == IInv /\ [Next]_vars => IInv'
<1>1. ASSUME IInv, UNCHANGED vars PROVE IInv'
  BY <1>1 DEF vars, rows, procs, vault, hist, IInv, TypeOK, FinalMeansDead,
     LeaseNeedsToken, IssueKnows, RenewalKnows, RevocationKnows, CredRunsKnow,
     CleanupKnows, StoreAndTokens, RevokedUnused, DetachedNotActive, Detached
<1>2. ASSUME IInv, NEW s \in Sess, IssueStep(s) PROVE IInv'
  BY <1>2, IssueReadKeeps, IssueGetKeeps, IssuePutKeeps, IssueDoneKeeps DEF IssueStep
<1>3. ASSUME IInv, Next PROVE IInv'
  BY <1>2, <1>3, VaultTokenExpiresKeeps, RecordedExpiryPassesKeeps,
     CreateCredentialStoreKeeps, UpdateReadKeeps, LeaseExpiresKeeps, UpdateWriteKeeps,
     DeleteCredentialStoreKeeps, DeleteCredentialLibraryKeeps, EndSessionKeeps,
     DeleteSessionKeeps, IssueFailsKeeps, IssueCrashesKeeps, CleanupCredsKeeps,
     JobStepKeeps
     DEF Next
<1>q. QED BY <1>1, <1>3

\* The inductive invariant holds in every reachable state.
THEOREM Inductive == Spec => []IInv
  BY InitIInv, NextIInv, PTL DEF Spec

\* Every variable of the store, its jobs and of Vault keeps its type.
THEOREM TypeCorrect == Spec => []TypeOK
<1>1. IInv => TypeOK BY DEF IInv
<1>q. QED BY <1>1, Inductive, PTL

\* What is recorded as revoked or expired is dead in Vault, although the jobs
\* write these statuses without looking at the row (jobs.go).
THEOREM FinalStatusIsTrue == Spec => []FinalMeansDead
<1>1. IInv => FinalMeansDead BY DEF IInv
<1>q. QED BY <1>1, Inductive, PTL

\* The cleanup job deletes a store only when none of its tokens is alive in
\* Vault, except those whose last renewal was not recorded.
THEOREM CleanupForgetsNothing == Spec => []NoTokenForgotten
<1>1. IInv => NoTokenForgotten
  <2> SUFFICES ASSUME IInv, store = "gone" PROVE NoTokenForgotten
    BY DEF NoTokenForgotten
  <2>1. \A t \in Token : token[t] = "gone" /\ t \notin early => vaultToken[t] = "dead"
    BY DEF IInv, StoreAndTokens
  <2>2. ASSUME NEW c \in Cred, lease[c] = "alive" PROVE credToken[c] \in early
    <3>1. credToken[c] \in Token /\ vaultToken[credToken[c]] = "alive"
          /\ token[credToken[c]] # "none"
      BY <2>2 DEF IInv, LeaseNeedsToken
    <3>q. QED BY <3>1, <2>1 DEF IInv, StoreAndTokens
  <2>q. QED BY <2>1, <2>2 DEF NoTokenForgotten
<1>q. QED BY <1>1, Inductive, PTL

\* The revocation job never revokes the token of an active credential of a
\* store in use that was stored while that token was current.
THEOREM ActiveTokensAreKept == Spec => []ActiveTokenKept
<1>1. IInv => ActiveTokenKept BY DEF IInv, RevokedUnused, ActiveTokenKept
<1>q. QED BY <1>1, Inductive, PTL

\* Whatever is alive in Vault and no longer wanted is still found by a job.
THEOREM WhatIsAliveIsDue == Spec => []AliveIsDue
<1>1. IInv => AliveIsDue
  BY DEF IInv, TypeOK, AliveIsDue, FinalMeansDead, StoreAndTokens, DetachedNotActive,
     HasRow, Final, TokenStatus, CredStatus
<1>q. QED BY <1>1, Inductive, PTL

\* Neither a trigger nor a job takes a token or a credential back from a final
\* status.
THEOREM FinalStaysFinal == Spec => FinalIsFinal
<1> DEFINE Kept == /\ \A t \in Token : token[t] \in Final
                                   => token'[t] \in Final \union {"gone"}
                   /\ \A c \in Cred : cred[c] \in Final
                                   => cred'[c] \in Final \union {"gone"}
<1>1. ASSUME UNCHANGED <<token, cred>> PROVE Kept
  BY <1>1
<1>2. ASSUME IInv, NEW s \in Sess, UNCHANGED token, RevokeCredsOf(s) PROVE Kept
  BY <1>2 DEF IInv, TypeOK, RevokeCredsOf, Final
<1>3. ASSUME IInv, NEW t \in Token,
             VaultTokenExpires(t) \/ RecordedExpiryPasses(t) \/ UpdateRead(t)
      PROVE  Kept
  BY <1>1, <1>3 DEF VaultTokenExpires, RecordedExpiryPasses, UpdateRead, rows
<1>4. ASSUME IInv, NEW t \in Token, InsertToken(t), UNCHANGED cred,
             token[t] = "none"
      PROVE  Kept
  BY <1>4 DEF InsertToken, Final
<1>5. ASSUME IInv, NEW t \in Token, CreateCredentialStore(t) PROVE Kept
  <2>1. token[t] = "none" BY <1>5 DEF CreateCredentialStore, IInv, StoreAndTokens
  <2>q. QED BY <1>4, <1>5, <2>1 DEF CreateCredentialStore
<1>6. ASSUME IInv, UpdateWrite PROVE Kept
  <2>1. update.token \in Token /\ token[update.token] = "none"
    BY <1>6 DEF UpdateWrite, IInv, StoreAndTokens
  <2>2. InsertToken(update.token) \/ UNCHANGED token BY <1>6 DEF UpdateWrite
  <2>3. UNCHANGED cred BY <1>6 DEF UpdateWrite
  <2>q. QED BY <1>1, <1>4, <1>6, <2>1, <2>2, <2>3
<1>7. ASSUME IInv, DeleteCredentialStore \/ DeleteCredentialLibrary PROVE Kept
  BY <1>7 DEF DeleteCredentialStore, DeleteCredentialLibrary, Final
<1>8. ASSUME IInv, NEW s \in Sess,
             EndSession(s) \/ DeleteSession(s) \/ IssueFails(s) \/ IssueCrashes(s)
      PROVE  Kept
  BY <1>1, <1>2, <1>8 DEF EndSession, DeleteSession, IssueFails, IssueCrashes,
     AuthorizeFails, rows
<1>9. ASSUME IInv, NEW s \in Sess, IssueStep(s) PROVE Kept
  <2>1. ASSUME IssuePut(s) PROVE Kept
    <3>1. cred[issue[s].item] = "none" BY <2>1, <1>9 DEF IssuePut, IInv, IssueKnows
    <3>q. QED BY <1>2, <1>9, <2>1, <3>1 DEF IssuePut, AuthorizeFails, IInv, TypeOK,
                 Final
  <2>2. ASSUME NEW c \in Cred, IssueGet(s, c) PROVE Kept
    BY <1>1, <1>2, <1>9, <2>2 DEF IssueGet, AuthorizeFails, rows
  <2>3. ASSUME IssueRead(s) \/ IssueDone(s) PROVE Kept
    BY <1>1, <2>3 DEF IssueRead, IssueDone, rows
  <2>q. QED BY <1>9, <2>1, <2>2, <2>3 DEF IssueStep
<1>10. ASSUME IInv, CleanupCreds PROVE Kept
  BY <1>10 DEF CleanupCreds, Final
<1>11. ASSUME IInv, NEW c \in Cred,
              LeaseExpires(c) \/ RenewCred(c) \/ RevokeCred(c)
       PROVE  Kept
  BY <1>1, <1>11 DEF LeaseExpires, RenewCred, RevokeCred, rows
<1>12. ASSUME IInv, NEW t \in Token, RenewToken(t) \/ RevokeToken(t) PROVE Kept
  BY <1>1, <1>12 DEF RenewToken, RevokeToken, rows
<1>13. ASSUME IInv, \/ RecordRenewal \/ RecordRevocation \/ RecordCredRenewal
                    \/ RecordCredRevocation \/ CleanupStore
       PROVE  Kept
  BY <1>13 DEF IInv, TypeOK, RecordRenewal, RecordRevocation, RecordCredRenewal,
     RecordCredRevocation, CleanupStore, Final, HasRow
<1>14. ASSUME IInv, NEW j \in Job,
              \/ Fetch(j) \/ RowFails(j) \/ RunStops(j)
              \/ UpdateCredentialStatusByToken(j)
       PROVE  Kept
  BY <1>14 DEF Fetch, RowFails, RunStops, UpdateCredentialStatusByToken, rows, Final
<1>15. ASSUME IInv, [Next]_vars PROVE Kept
  <2>1. CASE UNCHANGED vars BY <1>1, <2>1 DEF vars, rows
  <2>2. ASSUME NEW j \in Job, JobStep(j) PROVE Kept
    BY <1>11, <1>12, <1>13, <1>14, <1>15, <2>2 DEF JobStep
  <2> HIDE DEF Kept
  <2>q. QED BY <1>3, <1>5, <1>6, <1>7, <1>8, <1>9, <1>10, <1>11, <1>14, <1>15, <2>1,
               <2>2 DEF Next
<1>q. QED BY <1>15, Inductive, PTL DEF Spec, FinalIsFinal

=============================================================================
