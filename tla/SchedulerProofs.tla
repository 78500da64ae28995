--------------------------- MODULE SchedulerProofs ---------------------------
(***************************************************************************)
(* Proofs about Scheduler, for every set of controllers, jobs and runs.    *)
(*                                                                         *)
(* The inductive invariant adds to the two properties that each needs the  *)
(* other's bookkeeping: that no job has two running rows follows from the  *)
(* guard of the insert, and that a controller has one goroutine per job    *)
(* from the map agreeing with the goroutines at every step.                *)
(***************************************************************************)
EXTENDS Scheduler, TLAPS

\* A run that is queued or in the map belongs to a controller and a job.
RunsBelong ==
    \A r \in Run : exec[r] # "none" => controller[r] \in Controller /\ runJob[r] \in Job

IInv ==
    /\ TypeOK
    /\ OneRunningRow
    /\ MapMatchesGoroutines
    /\ RunsBelong

USE DEF Final, InMap

-----------------------------------------------------------------------------
(* What the actions do to the types.                                       *)

\* The updates of job_run keep the types of the columns they change.
LEMMA SetStatusType ==
    ASSUME TypeOK, NEW R, NEW q \in Final, SetStatus(R, q)
    PROVE  /\ status' \in [Run -> {"none", "running"} \union Final]
           /\ stale' \in [Run -> BOOLEAN]
BY DEF TypeOK, SetStatus

\* Every step of the scheduler keeps the types.
LEMMA TypeStep ==
    ASSUME TypeOK, RunsBelong, [Next]_vars
    PROVE  TypeOK'
<1> USE RegisteredAssumption, StopsAssumption
<1>1. ASSUME NEW c \in Controller, Start(c) PROVE TypeOK'
    <2>1. /\ status' \in [Run -> {"none", "running"} \union Final]
          /\ stale' \in [Run -> BOOLEAN]
        BY <1>1, SetStatusType DEF Start
    <2> QED BY <1>1, <2>1 DEF Start, TypeOK, goroutines
<1>2. ASSUME NEW c \in Controller, Shutdown(c) PROVE TypeOK'
    BY <1>2 DEF Shutdown, TypeOK, tables, Of
<1>3. ASSUME NEW c \in Controller, Lose(c) PROVE TypeOK'
    BY <1>3 DEF Lose, TypeOK, tables
<1>4. ASSUME NEW c \in Controller, RunJobsSelect(c) PROVE TypeOK'
    BY <1>4 DEF RunJobsSelect, JobsToRun, TypeOK, tables, goroutines
<1>5. ASSUME NEW c \in Controller, RunJobsInsert(c) PROVE TypeOK'
    BY <1>5 DEF RunJobsInsert, Inserted, Free, TypeOK
<1>6. ASSUME NEW c \in Controller, Stopped(c) PROVE TypeOK'
    BY <1>6 DEF Stopped, TypeOK, tables, goroutines
<1>7. ASSUME NEW r \in Run, StartRun(r) PROVE TypeOK'
    <2>1. controller[r] \in Controller /\ runJob[r] \in Job
        BY <1>7 DEF StartRun, RunsBelong
    <2>2. CASE RefuseRun(r)
        <3>1. /\ status' \in [Run -> {"none", "running"} \union Final]
              /\ stale' \in [Run -> BOOLEAN]
            BY <2>2, SetStatusType DEF RefuseRun, TypeOK
        <3> QED BY <1>7, <2>2, <3>1 DEF StartRun, RefuseRun, TypeOK, loops
    <2>3. CASE ~MayNotRun(controller[r], runJob[r])
        <3> DEFINE c == controller[r]
                   j == runJob[r]
        <3>1. runningJobs[c] \in [Job -> Run \union {Null}]
            BY <2>1 DEF TypeOK
        <3>2. [runningJobs[c] EXCEPT ![j] = r] \in [Job -> Run \union {Null}]
            BY <3>1
        <3>3. runningJobs' = [runningJobs EXCEPT ![c] = [runningJobs[c] EXCEPT ![j] = r]]
            BY <1>7, <2>1, <2>3 DEF StartRun, TypeOK
        <3>4. runningJobs' \in [Controller -> [Job -> Run \union {Null}]]
            BY <2>1, <3>2, <3>3 DEF TypeOK
        <3>5. exec' \in [Run -> {"none", "queued"} \union InMap]
            <4>1. exec' = [exec EXCEPT ![r] = "stored"]
                BY <1>7, <2>3 DEF StartRun
            <4>2. exec \in [Run -> {"none", "queued"} \union InMap]
                BY DEF TypeOK
            <4> QED BY <4>1, <4>2 DEF InMap
        <3> QED BY <1>7, <2>3, <3>4, <3>5 DEF StartRun, TypeOK, loops
    <2> QED BY <1>7, <2>2, <2>3 DEF StartRun
<1>8. ASSUME NEW r \in Run, SpawnRun(r) PROVE TypeOK'
    BY <1>8 DEF SpawnRun, TypeOK, tables, loops
<1>9. ASSUME NEW r \in Run, NEW ok \in BOOLEAN, JobReturns(r, ok) PROVE TypeOK'
    BY <1>9 DEF JobReturns, TypeOK, tables, loops
<1>10. ASSUME NEW r \in Run, NEW next \in BOOLEAN, CompleteRun(r, next) PROVE TypeOK'
    <2>1. /\ status' \in [Run -> {"none", "running"} \union Final]
          /\ stale' \in [Run -> BOOLEAN]
        BY <1>10, SetStatusType DEF CompleteRun
    <2> QED BY <1>10, <2>1 DEF CompleteRun, TypeOK, loops
<1>11. ASSUME NEW r \in Run, FailRun(r) PROVE TypeOK'
    <2>1. /\ status' \in [Run -> {"none", "running"} \union Final]
          /\ stale' \in [Run -> BOOLEAN]
        BY <1>11, SetStatusType DEF FailRun
    <2> QED BY <1>11, <2>1 DEF FailRun, TypeOK, loops
<1>12. ASSUME NEW r \in Run, UpdateLost(r) PROVE TypeOK'
    BY <1>12 DEF UpdateLost, TypeOK, tables, loops
<1>13. ASSUME NEW r \in Run, DeleteRunning(r) PROVE TypeOK'
    BY <1>13 DEF DeleteRunning, RunsBelong, TypeOK, tables, loops
<1>14. ASSUME NEW c \in Controller, MonitorTick(c) PROVE TypeOK'
    BY <1>14 DEF MonitorTick, TypeOK, tables, goroutines
<1>15. ASSUME NEW c \in Controller, NEW r \in Run, NEW p \in BOOLEAN,
              updateRunningJobProgress(c, r, p)
       PROVE  TypeOK'
    <2>1. CASE status[r] = "running"
        <3>1. stale' = [stale EXCEPT ![r] = stale[r] /\ ~p]
            BY <1>15, <2>1 DEF updateRunningJobProgress
        <3>2. (stale[r] /\ ~p) \in BOOLEAN
            OBVIOUS
        <3>3. stale \in [Run -> BOOLEAN]
            BY DEF TypeOK
        <3>4. stale' \in [Run -> BOOLEAN]
            BY <3>1, <3>2, <3>3, Zenon
        <3>5. /\ updating' = [updating EXCEPT ![c] = @ \ {r}]
              /\ UNCHANGED <<jobs, due, status, runJob, controller, goroutines,
                             server, want, monitoring, stops>>
            BY <1>15, <2>1 DEF updateRunningJobProgress
        <3> QED BY <3>4, <3>5 DEF TypeOK, goroutines
    <2>2. CASE status[r] # "running" /\ exec[r] = "stored"
        BY <1>3, <1>15, <2>2 DEF updateRunningJobProgress
    <2>3. CASE status[r] # "running" /\ exec[r] # "stored"
        <3>1. /\ canceled' = canceled \union ({r} \intersect Of(c, InMap))
              /\ updating' = [updating EXCEPT ![c] = @ \ {r}]
              /\ UNCHANGED <<tables, exec, runningJobs, server, want, monitoring,
                             stops>>
            BY <1>15, <2>3 DEF updateRunningJobProgress
        <3> QED BY <3>1 DEF TypeOK, tables
    <2> QED BY <2>1, <2>2, <2>3
<1>16. ASSUME NEW c \in Controller, InterruptRuns(c) PROVE TypeOK'
    <2>1. /\ status' \in [Run -> {"none", "running"} \union Final]
          /\ stale' \in [Run -> BOOLEAN]
        BY <1>16, SetStatusType DEF InterruptRuns
    <2> QED BY <1>16, <2>1 DEF InterruptRuns, TypeOK, goroutines
<1>17. ASSUME NEW j \in Job, UpdateJobNextRunInAtLeast(j) PROVE TypeOK'
    BY <1>17 DEF UpdateJobNextRunInAtLeast, TypeOK, goroutines, loops
<1>18. ASSUME NEW j \in Job, BecomesDue(j) PROVE TypeOK'
    BY <1>18 DEF BecomesDue, TypeOK, goroutines, loops
<1>19. ASSUME NEW r \in Run, ThresholdPasses(r) PROVE TypeOK'
    BY <1>19 DEF ThresholdPasses, TypeOK, goroutines, loops
<1>20. CASE UNCHANGED vars
    BY <1>20 DEF TypeOK, vars, tables, goroutines, loops
<1> QED
    BY <1>1, <1>2, <1>3, <1>4, <1>5, <1>6, <1>7, <1>8, <1>9, <1>10, <1>11, <1>12,
       <1>13, <1>14, <1>15, <1>16, <1>17, <1>18, <1>19, <1>20
       DEF Next, SchedulingLoop, Goroutine, Monitor, Crash, Of

-----------------------------------------------------------------------------
(* The parts of the state the other conjuncts read.                        *)

rows == <<status, runJob>>
places == <<exec, runJob, controller, runningJobs>>

\* Apart from the insert of RunJobs, a step leaves runJob alone and makes no
\* row running.
Settling ==
    /\ UNCHANGED runJob
    /\ \A r \in Run : status'[r] = "running" => status[r] = "running"

\* Rows that only settle stay unique.
LEMMA SettlingKeepsOneRow ==
    ASSUME OneRunningRow, Settling
    PROVE  OneRunningRow'
BY DEF OneRunningRow, Settling

\* Every update of the status of runs settles.
LEMMA SetStatusSettles ==
    ASSUME TypeOK, NEW R, NEW q \in Final, SetStatus(R, q), UNCHANGED runJob
    PROVE  Settling
BY DEF TypeOK, SetStatus, Settling

\* The insert of RunJobs leaves out the jobs that have a running row.
LEMMA InsertKeepsOneRow ==
    ASSUME TypeOK, OneRunningRow, NEW c \in Controller, RunJobsInsert(c)
    PROVE  OneRunningRow'
<1>0. PICK R \in SUBSET Free : \E name \in [R -> Inserted(c)] :
        /\ \A q, r \in R : name[q] = name[r] => q = r
        /\ status' = [r \in Run |-> IF r \in R THEN "running" ELSE status[r]]
        /\ runJob' = [r \in Run |-> IF r \in R THEN name[r] ELSE runJob[r]]
    BY DEF RunJobsInsert
<1>1. PICK name \in [R -> Inserted(c)] :
        /\ \A q, r \in R : name[q] = name[r] => q = r
        /\ status' = [r \in Run |-> IF r \in R THEN "running" ELSE status[r]]
        /\ runJob' = [r \in Run |-> IF r \in R THEN name[r] ELSE runJob[r]]
    BY <1>0
<1>2. \A r \in R : r \in Run /\ runJob'[r] = name[r] /\ name[r] \in Inserted(c)
    BY <1>1 DEF Free
<1>3. \A r \in Run \ R : status'[r] = status[r] /\ runJob'[r] = runJob[r]
    BY <1>1
<1>4. \A q \in R, r \in Run \ R : status[r] = "running" => runJob[r] # name[q]
    BY <1>2 DEF Inserted, Running
<1> QED BY <1>1, <1>2, <1>3, <1>4 DEF OneRunningRow

\* No step of the scheduler gives a job a second running row.
LEMMA OneRowStep ==
    ASSUME TypeOK, RunsBelong, OneRunningRow, [Next]_vars
    PROVE  OneRunningRow'
<1>1. ASSUME NEW c \in Controller, RunJobsInsert(c) PROVE OneRunningRow'
    BY <1>1, InsertKeepsOneRow
<1>2. CASE UNCHANGED rows
    BY <1>2, SettlingKeepsOneRow DEF rows, Settling
<1>3. ASSUME NEW R, NEW q \in Final, SetStatus(R, q), UNCHANGED runJob
      PROVE  OneRunningRow'
    BY <1>3, SetStatusSettles, SettlingKeepsOneRow
<1>4. ASSUME NEW c \in Controller, Start(c) \/ InterruptRuns(c) PROVE OneRunningRow'
    BY <1>3, <1>4 DEF Start, InterruptRuns
<1>5. ASSUME NEW c \in Controller,
             \/ Shutdown(c) \/ Crash(c) \/ RunJobsSelect(c) \/ Stopped(c)
             \/ MonitorTick(c)
             \/ \E r \in Run, p \in BOOLEAN : updateRunningJobProgress(c, r, p)
      PROVE  OneRunningRow'
    BY <1>2, <1>5 DEF Shutdown, Crash, Lose, RunJobsSelect, Stopped, MonitorTick,
       updateRunningJobProgress, tables, rows
<1>6. ASSUME NEW r \in Run, StartRun(r) PROVE OneRunningRow'
    <2>1. CASE RefuseRun(r)
        BY <1>2, <1>3, <1>6, <2>1 DEF StartRun, RefuseRun, rows
    <2>2. CASE UNCHANGED status
        BY <1>2, <1>6, <2>2 DEF StartRun, rows
    <2> QED BY <1>6, <2>1, <2>2 DEF StartRun
<1>7. ASSUME NEW r \in Run,
             \/ \E next \in BOOLEAN : CompleteRun(r, next)
             \/ FailRun(r)
      PROVE  OneRunningRow'
    BY <1>3, <1>7 DEF CompleteRun, FailRun
<1>8. ASSUME NEW r \in Run,
             \/ SpawnRun(r) \/ UpdateLost(r) \/ DeleteRunning(r) \/ ThresholdPasses(r)
             \/ \E ok \in BOOLEAN : JobReturns(r, ok)
      PROVE  OneRunningRow'
    BY <1>2, <1>8 DEF SpawnRun, UpdateLost, DeleteRunning, ThresholdPasses,
       JobReturns, tables, rows
<1>9. ASSUME NEW j \in Job, UpdateJobNextRunInAtLeast(j) \/ BecomesDue(j)
      PROVE  OneRunningRow'
    BY <1>2, <1>9 DEF UpdateJobNextRunInAtLeast, BecomesDue, rows
<1>10. CASE UNCHANGED vars
    BY <1>2, <1>10 DEF vars, tables, rows
<1> QED
    BY <1>1, <1>4, <1>5, <1>6, <1>7, <1>8, <1>9, <1>10
       DEF Next, SchedulingLoop, Goroutine, Monitor, Of

-----------------------------------------------------------------------------
(* The map runningJobs.                                                    *)

\* What the invariant says of places.
PlacesOK == MapMatchesGoroutines /\ RunsBelong

\* A goroutine that stays in the map may move.
LEMMA MoveKeepsPlaces ==
    ASSUME TypeOK, PlacesOK, NEW r \in Run, NEW q \in InMap,
           exec[r] \in InMap, exec' = [exec EXCEPT ![r] = q],
           UNCHANGED <<runJob, controller, runningJobs>>
    PROVE  PlacesOK'
BY DEF TypeOK, PlacesOK, MapMatchesGoroutines, RunsBelong

\* No step of the scheduler makes the map disagree with the goroutines.
LEMMA PlacesStep ==
    ASSUME TypeOK, PlacesOK, [Next]_vars
    PROVE  PlacesOK'
<1> USE SchedulerNullAssumption
<1>1. ASSUME UNCHANGED places PROVE PlacesOK'
    BY <1>1 DEF PlacesOK, MapMatchesGoroutines, RunsBelong, places
<1>2. ASSUME NEW c \in Controller, Lose(c) PROVE PlacesOK'
    <2>1. /\ runningJobs' = [runningJobs EXCEPT ![c] = [j \in Job |-> Null]]
          /\ exec' = [r \in Run |-> IF controller[r] = c THEN "none" ELSE exec[r]]
          /\ UNCHANGED <<runJob, controller>>
        BY <1>2 DEF Lose, tables
    <2>2. \A d \in Controller, j \in Job :
            runningJobs'[d][j] = IF d = c THEN Null ELSE runningJobs[d][j]
        BY <2>1 DEF TypeOK
    <2> QED BY <2>1, <2>2 DEF PlacesOK, MapMatchesGoroutines, RunsBelong
<1>3. ASSUME NEW c \in Controller, RunJobsInsert(c) PROVE PlacesOK'
    <2>0. PICK R \in SUBSET Free : \E name \in [R -> Inserted(c)] :
            /\ runJob' = [r \in Run |-> IF r \in R THEN name[r] ELSE runJob[r]]
            /\ controller' = [r \in Run |-> IF r \in R THEN c ELSE controller[r]]
            /\ exec' = [r \in Run |-> IF r \in R THEN "queued" ELSE exec[r]]
        BY <1>3 DEF RunJobsInsert
    <2>1. PICK name \in [R -> Inserted(c)] :
            /\ runJob' = [r \in Run |-> IF r \in R THEN name[r] ELSE runJob[r]]
            /\ controller' = [r \in Run |-> IF r \in R THEN c ELSE controller[r]]
            /\ exec' = [r \in Run |-> IF r \in R THEN "queued" ELSE exec[r]]
        BY <2>0
    <2>2. \A r \in R : exec[r] = "none" /\ name[r] \in Job
        BY DEF Free, Inserted, TypeOK
    <2>3. UNCHANGED runningJobs
        BY <1>3 DEF RunJobsInsert
    <2> QED BY <2>1, <2>2, <2>3 DEF PlacesOK, MapMatchesGoroutines, RunsBelong
<1>4. ASSUME NEW r \in Run, StartRun(r) PROVE PlacesOK'
    <2> DEFINE c == controller[r]
               j == runJob[r]
    <2>1. c \in Controller /\ j \in Job /\ exec[r] = "queued"
        BY <1>4 DEF StartRun, PlacesOK, RunsBelong
    <2>2. CASE RefuseRun(r)
        BY <1>4, <2>1, <2>2
           DEF StartRun, RefuseRun, PlacesOK, MapMatchesGoroutines, RunsBelong, TypeOK
    <2>3. CASE ~MayNotRun(c, j)
        <3>1. /\ runningJobs' = [runningJobs EXCEPT ![c][j] = r]
              /\ exec' = [exec EXCEPT ![r] = "stored"]
              /\ UNCHANGED <<runJob, controller>>
            BY <1>4, <2>3 DEF StartRun
        <3>2. runningJobs[c][j] = Null
            BY <2>3 DEF MayNotRun
        <3>3. \A d \in Controller, k \in Job :
                runningJobs'[d][k] = IF d = c /\ k = j THEN r ELSE runningJobs[d][k]
            BY <2>1, <3>1 DEF TypeOK
        <3>4. \A q \in Run : exec'[q] = IF q = r THEN "stored" ELSE exec[q]
            BY <3>1 DEF TypeOK
        <3>5. ASSUME NEW d \in Controller, NEW k \in Job, NEW q \in Run
              PROVE  (runningJobs'[d][k] = q) <=>
                        (controller'[q] = d /\ runJob'[q] = k /\ exec'[q] \in InMap)
            <4>1. (runningJobs[d][k] = q) <=>
                    (controller[q] = d /\ runJob[q] = k /\ exec[q] \in InMap)
                BY DEF PlacesOK, MapMatchesGoroutines
            <4>2. CASE q = r
                BY <2>1, <3>1, <3>3, <3>4, <4>1, <4>2
            <4>3. CASE q # r
                BY <2>1, <3>1, <3>2, <3>3, <3>4, <4>1, <4>3
            <4> QED BY <4>2, <4>3
        <3>6. RunsBelong'
            BY <2>1, <3>1, <3>4 DEF PlacesOK, RunsBelong
        <3> QED BY <3>5, <3>6 DEF PlacesOK, MapMatchesGoroutines
    <2> QED BY <1>4, <2>2, <2>3 DEF StartRun
<1>5. ASSUME NEW r \in Run,
             \/ SpawnRun(r) \/ FailRun(r) \/ UpdateLost(r)
             \/ \E ok \in BOOLEAN : JobReturns(r, ok)
             \/ \E next \in BOOLEAN : CompleteRun(r, next)
      PROVE  PlacesOK'
    <2>1. /\ exec[r] \in InMap
          /\ \E q \in InMap : exec' = [exec EXCEPT ![r] = q]
          /\ UNCHANGED <<runJob, controller, runningJobs>>
        BY <1>5 DEF SpawnRun, FailRun, UpdateLost, JobReturns, CompleteRun, tables
    <2> QED BY <2>1, MoveKeepsPlaces
<1>6. ASSUME NEW r \in Run, DeleteRunning(r) PROVE PlacesOK'
    <2> DEFINE c == controller[r]
               j == runJob[r]
    <2>1. /\ c \in Controller /\ j \in Job /\ exec[r] = "reported"
          /\ runningJobs[c][j] = r
        BY <1>6 DEF DeleteRunning, PlacesOK, RunsBelong, MapMatchesGoroutines
    <2>2. /\ runningJobs' = [runningJobs EXCEPT ![c][j] = Null]
          /\ exec' = [exec EXCEPT ![r] = "none"]
          /\ UNCHANGED <<runJob, controller>>
        BY <1>6 DEF DeleteRunning, tables
    <2>3. \A d \in Controller, k \in Job :
            runningJobs'[d][k] = IF d = c /\ k = j THEN Null ELSE runningJobs[d][k]
        BY <2>1, <2>2 DEF TypeOK
    <2>4. \A q \in Run : exec'[q] = IF q = r THEN "none" ELSE exec[q]
        BY <2>2 DEF TypeOK
    <2>5. ASSUME NEW d \in Controller, NEW k \in Job, NEW q \in Run
          PROVE  (runningJobs'[d][k] = q) <=>
                    (controller'[q] = d /\ runJob'[q] = k /\ exec'[q] \in InMap)
        <3>1. (runningJobs[d][k] = q) <=>
                (controller[q] = d /\ runJob[q] = k /\ exec[q] \in InMap)
            BY DEF PlacesOK, MapMatchesGoroutines
        <3>2. CASE q = r
            BY <2>1, <2>2, <2>3, <2>4, <3>1, <3>2
        <3>3. CASE q # r
            BY <2>1, <2>2, <2>3, <2>4, <3>1, <3>3
        <3> QED BY <3>2, <3>3
    <2>6. RunsBelong'
        BY <2>2, <2>4 DEF PlacesOK, RunsBelong
    <2> QED BY <2>5, <2>6 DEF PlacesOK, MapMatchesGoroutines
<1>7. ASSUME NEW c \in Controller,
             \/ Start(c) \/ Shutdown(c) \/ RunJobsSelect(c) \/ Stopped(c)
             \/ MonitorTick(c) \/ InterruptRuns(c)
      PROVE  PlacesOK'
    BY <1>1, <1>7 DEF Start, Shutdown, RunJobsSelect, Stopped, MonitorTick,
       InterruptRuns, tables, goroutines, places
<1>8. ASSUME NEW c \in Controller, NEW r \in Run, NEW p \in BOOLEAN,
             updateRunningJobProgress(c, r, p)
      PROVE  PlacesOK'
    BY <1>1, <1>2, <1>8 DEF updateRunningJobProgress, tables, goroutines, places
<1>9. ASSUME NEW j \in Job, UpdateJobNextRunInAtLeast(j) \/ BecomesDue(j)
      PROVE  PlacesOK'
    BY <1>1, <1>9 DEF UpdateJobNextRunInAtLeast, BecomesDue, goroutines, places
<1>10. ASSUME NEW r \in Run, ThresholdPasses(r) PROVE PlacesOK'
    BY <1>1, <1>10 DEF ThresholdPasses, goroutines, places
<1>11. CASE UNCHANGED vars
    BY <1>1, <1>11 DEF vars, tables, goroutines, places
<1> QED
    BY <1>2, <1>3, <1>4, <1>5, <1>6, <1>7, <1>8, <1>9, <1>10, <1>11
       DEF Next, SchedulingLoop, Goroutine, Monitor, Crash, Of

-----------------------------------------------------------------------------
(* The theorems.                                                           *)

\* The invariant holds initially and every step keeps it.
THEOREM SchedulerInductive == Spec => []IInv
<1>1. Init => IInv
    BY SchedulerNullAssumption, StopsAssumption
       DEF Init, IInv, TypeOK, OneRunningRow, MapMatchesGoroutines, RunsBelong
<1>2. IInv /\ [Next]_vars => IInv'
    BY TypeStep, OneRowStep, PlacesStep DEF IInv, PlacesOK
<1> QED BY <1>1, <1>2, PTL DEF Spec

\* Every variable keeps its type.
THEOREM SchedulerTypeCorrect == Spec => []TypeOK
BY SchedulerInductive, PTL DEF IInv

\* The table job_run never has two running rows of a job, whatever the loops
\* of any number of controllers do.
THEOREM SingleRunningRow == Spec => []OneRunningRow
BY SchedulerInductive, PTL DEF IInv

\* The map of a controller names exactly the runs it executes, so that it has
\* at most one goroutine per job.
THEOREM SingleGoroutine == Spec => []MapMatchesGoroutines
BY SchedulerInductive, PTL DEF IInv

\* A final status is never changed while a goroutine of the run is left.
THEOREM FinalStatusKept == Spec => FinalStatusStable
<1> DEFINE A == \A r \in Run : status[r] \in Final /\ exec[r] # "none"
                                => status'[r] = status[r]
<1>1. ASSUME TypeOK, [Next]_vars PROVE A
    <2>1. ASSUME NEW R, NEW q, SetStatus(R, q) PROVE A
        BY <2>1 DEF SetStatus, TypeOK
    <2>2. ASSUME NEW c \in Controller, RunJobsInsert(c) PROVE A
        BY <2>2 DEF RunJobsInsert, Free, TypeOK
    <2>3. ASSUME UNCHANGED status PROVE A
        BY <2>3
    <2>4. ASSUME NEW c \in Controller,
                 Start(c) \/ Shutdown(c) \/ Crash(c) \/ SchedulingLoop(c) \/ Monitor(c)
          PROVE  A
        <3>1. CASE Start(c) \/ InterruptRuns(c)
            BY <2>1, <3>1 DEF Start, InterruptRuns
        <3>2. CASE RunJobsInsert(c)
            BY <2>2, <3>2
        <3>3. ASSUME NEW r \in Run, StartRun(r) PROVE A
            BY <2>1, <2>3, <3>3 DEF StartRun, RefuseRun
        <3>4. CASE \/ Shutdown(c) \/ Crash(c) \/ RunJobsSelect(c) \/ Stopped(c)
                   \/ MonitorTick(c)
            BY <2>3, <3>4
               DEF Shutdown, Crash, Lose, RunJobsSelect, Stopped, MonitorTick, tables
        <3>5. ASSUME NEW r \in Run, NEW p \in BOOLEAN, updateRunningJobProgress(c, r, p)
              PROVE  A
            BY <2>3, <3>5 DEF updateRunningJobProgress, Lose, tables
        <3>6. ASSUME NEW r \in Run, SpawnRun(r) PROVE A
            BY <2>3, <3>6 DEF SpawnRun, tables
        <3> QED BY <2>4, <3>1, <3>2, <3>3, <3>4, <3>5, <3>6
               DEF SchedulingLoop, Monitor, Of
    <2>5. ASSUME NEW r \in Run, Goroutine(r) \/ ThresholdPasses(r) PROVE A
        <3>1. CASE FailRun(r) \/ \E next \in BOOLEAN : CompleteRun(r, next)
            BY <2>1, <3>1 DEF FailRun, CompleteRun
        <3>2. CASE \/ UpdateLost(r) \/ DeleteRunning(r) \/ ThresholdPasses(r)
                   \/ \E ok \in BOOLEAN : JobReturns(r, ok)
            BY <2>3, <3>2
               DEF UpdateLost, DeleteRunning, ThresholdPasses, JobReturns, tables
        <3> QED BY <2>5, <3>1, <3>2 DEF Goroutine
    <2>6. ASSUME NEW j \in Job, UpdateJobNextRunInAtLeast(j) \/ BecomesDue(j) PROVE A
        BY <2>3, <2>6 DEF UpdateJobNextRunInAtLeast, BecomesDue
    <2>7. CASE UNCHANGED vars
        BY <2>3, <2>7 DEF vars, tables
    <2> QED BY <1>1, <2>4, <2>5, <2>6, <2>7 DEF Next
<1>2. TypeOK /\ [Next]_vars => [A]_vars
    BY <1>1
<1> QED BY <1>2, SchedulerTypeCorrect, PTL DEF Spec, FinalStatusStable

\* A job that is due is postponed only by a run of it that completes and was not
\* interrupted; reports that come late leave the schedule alone.
THEOREM LiveRunsPostpone == Spec => OnlyLiveRunPostpones
<1> DEFINE A == \A j \in Job : due[j] /\ ~due'[j] =>
                \E r \in Run : /\ runJob[r] = j
                               /\ status[r] = "running" /\ status'[r] = "completed"
<1>1. ASSUME TypeOK, [Next]_vars PROVE A
    <2>1. ASSUME UNCHANGED due PROVE A
        BY <2>1
    <2>2. ASSUME NEW c \in Controller, Start(c) PROVE A
        BY <2>2, <1>1 DEF Start, TypeOK
    <2>3. ASSUME NEW j \in Job, UpdateJobNextRunInAtLeast(j) \/ BecomesDue(j) PROVE A
        BY <2>3, <1>1 DEF UpdateJobNextRunInAtLeast, BecomesDue, TypeOK
    <2>4. ASSUME NEW r \in Run, NEW next \in BOOLEAN, CompleteRun(r, next) PROVE A
        <3>1. CASE status[r] # "running"
            BY <2>1, <2>4, <3>1 DEF CompleteRun
        <3>2. CASE status[r] = "running"
            <4>1. status'[r] = "completed"
                BY <1>1, <2>4, <3>2 DEF CompleteRun, SetStatus, TypeOK
            <4>2. \A j \in Job : j # runJob[r] => due'[j] = due[j]
                BY <1>1, <2>4, <3>2 DEF CompleteRun, TypeOK
            <4> QED BY <3>2, <4>1, <4>2
        <3> QED BY <3>1, <3>2
    <2>5. ASSUME NEW c \in Controller,
                 Shutdown(c) \/ Crash(c) \/ SchedulingLoop(c) \/ Monitor(c)
          PROVE  UNCHANGED due
        BY <2>5 DEF Shutdown, Crash, Lose, SchedulingLoop, RunJobsSelect,
           RunJobsInsert, StartRun, SpawnRun, Stopped, Monitor, MonitorTick,
           updateRunningJobProgress, InterruptRuns, tables
    <2>6. ASSUME NEW r \in Run, Goroutine(r) \/ ThresholdPasses(r),
                 ~\E next \in BOOLEAN : CompleteRun(r, next)
          PROVE  UNCHANGED due
        BY <2>6 DEF Goroutine, JobReturns, FailRun, UpdateLost, DeleteRunning,
           ThresholdPasses, tables
    <2>7. CASE UNCHANGED vars
        BY <2>1, <2>7 DEF vars, tables
    <2> HIDE DEF A
    <2> QED BY <1>1, <2>1, <2>2, <2>3, <2>4, <2>5, <2>6, <2>7 DEF Next
<1>2. TypeOK /\ [Next]_vars => [A]_vars
    BY <1>1
<1> QED BY <1>2, SchedulerTypeCorrect, PTL DEF Spec, OnlyLiveRunPostpones
=============================================================================
