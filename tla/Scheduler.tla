------------------------------ MODULE Scheduler ------------------------------
(***************************************************************************)
(* The job scheduler: the controllers that share the tables job and        *)
(* job_run, their scheduling and monitor loops, and the goroutines that    *)
(* execute runs.  The jobs that clean sessions, revoke credentials and     *)
(* rotate keys all run on it.                                              *)
(*                                                                         *)
(* Every action is one transaction of the job repository or one step of a  *)
(* goroutine between two of them.  Time is abstract: that a job is due and *)
(* that a run was not updated within the interrupt threshold are facts     *)
(* that become true at any moment.                                         *)
(***************************************************************************)
EXTENDS Naturals, FiniteSets

CONSTANTS
    Controller,     \* controllers, by name
    Job,            \* job names
    Run,            \* private ids of runs; one is used again once it is free
    Registered,     \* controller -> jobs it registers
    OnDemand,       \* jobs that other code asks to run at once
    MaxStops,       \* bound on the times a controller stops
    Null

ASSUME RegisteredAssumption == Registered \in [Controller -> SUBSET Job]
ASSUME OnDemandAssumption == OnDemand \subseteq Job
ASSUME SchedulerNullAssumption == Null \notin Run \union Controller \union Job
ASSUME StopsAssumption == MaxStops \in Nat

VARIABLES
    jobs,           \* rows of job
    due,            \* job -> next_scheduled_run has come
    status,         \* run -> status; "none" before its first use
    runJob,         \* run -> job_name
    controller,     \* run -> controller_id
    stale,          \* run -> update_time is past the interrupt threshold
    exec,           \* run -> where its goroutine is
    canceled,       \* runs whose context is canceled
    runningJobs,    \* controller -> job -> run in the map of running jobs
    server,         \* controller -> process state
    want,           \* controller -> jobs in the snapshot of its RunJobs
    monitoring,     \* controllers in a pass of the monitor loop
    updating,       \* controller -> runs left to update in that pass
    stops           \* crashes, panics and shutdowns so far

tables     == <<jobs, due, status, runJob, controller, stale>>
goroutines == <<exec, canceled, runningJobs>>
loops      == <<server, want, monitoring, updating, stops>>
vars       == <<tables, goroutines, loops>>

Final == {"completed", "failed", "interrupted"}

\* Places where a run is in the map runningJobs.
InMap == {"stored", "running", "succeeded", "erred", "reported"}

TypeOK ==
    /\ jobs \in SUBSET Job
    /\ due \in [Job -> BOOLEAN]
    /\ status \in [Run -> {"none", "running"} \union Final]
    /\ runJob \in [Run -> Job \union {Null}]
    /\ controller \in [Run -> Controller \union {Null}]
    /\ stale \in [Run -> BOOLEAN]
    /\ exec \in [Run -> {"none", "queued"} \union InMap]
    /\ canceled \in SUBSET Run
    /\ runningJobs \in [Controller -> [Job -> Run \union {Null}]]
    /\ server \in [Controller -> {"down", "up", "stopping"}]
    /\ want \in [Controller -> SUBSET Job]
    /\ monitoring \in SUBSET Controller
    /\ updating \in [Controller -> SUBSET Run]
    /\ stops \in 0..MaxStops

Running(j) == {r \in Run : status[r] = "running" /\ runJob[r] = j}

Of(c, place) == {r \in Run : controller[r] = c /\ exec[r] \in place}

\* Runs that nothing refers to any more: their ids stand for new ones.
Free == {r \in Run : /\ status[r] # "running"
                     /\ exec[r] = "none"
                     /\ \A c \in Controller : r \notin updating[c]}

-----------------------------------------------------------------------------
(* The repository.                                                         *)

\* Mutant: the update does not ask for "status = 'running'".
SetStatusAlways(R, q) ==
    /\ status' = [r \in Run |-> IF r \in R THEN q ELSE status[r]]
    /\ stale' = [r \in Run |-> r \notin R /\ stale[r]]

\* completeRunQuery, failRunQuery and interruptRunsQuery change running rows,
\* and a changed row has a new update_time.
SetStatus(R, q) ==
    /\ status' = [r \in Run |-> IF r \in R /\ status[r] = "running" THEN q
                                                                   ELSE status[r]]
    /\ stale' = [r \in Run |-> stale[r] /\ ~(r \in R /\ status[r] = "running")]

\* job_jobs_to_run.
JobsToRun == {j \in jobs : due[j] /\ Running(j) = {}}

RunJobsSelect(c) ==
    /\ server[c] = "up"
    /\ want[c] = {} /\ Of(c, {"queued", "stored"}) = {}
    /\ JobsToRun # {}
    /\ want' = [want EXCEPT ![c] = JobsToRun]
    /\ UNCHANGED <<tables, goroutines, server, monitoring, updating, stops>>

\* Mutant: the insert does not stop at the unique index of running rows.
InsertedAll(c) == want[c]

\* "on conflict do nothing": a job that another controller runs by now is
\* left out; one that it ran to the end since the snapshot is run again.
Inserted(c) == {j \in want[c] : Running(j) = {}}

RunJobsInsert(c) ==
    /\ want[c] # {}
    /\ want' = [want EXCEPT ![c] = {}]
    /\ \E R \in SUBSET Free : \E name \in [R -> Inserted(c)] :
        /\ \A j \in Inserted(c) : \E r \in R : name[r] = j
        /\ \A q, r \in R : name[q] = name[r] => q = r
        /\ status' = [r \in Run |-> IF r \in R THEN "running" ELSE status[r]]
        /\ runJob' = [r \in Run |-> IF r \in R THEN name[r] ELSE runJob[r]]
        /\ controller' = [r \in Run |-> IF r \in R THEN c ELSE controller[r]]
        /\ stale' = [r \in Run |-> r \notin R /\ stale[r]]
        /\ exec' = [r \in Run |-> IF r \in R THEN "queued" ELSE exec[r]]
    /\ UNCHANGED <<jobs, due, canceled, runningJobs, server, monitoring, updating,
                   stops>>

\* UpdateJobNextRunInAtLeast(0): the job is due now.
UpdateJobNextRunInAtLeast(j) ==
    /\ j \in jobs \intersect OnDemand
    /\ due' = [due EXCEPT ![j] = TRUE]
    /\ UNCHANGED <<jobs, status, runJob, controller, stale, goroutines, loops>>

-----------------------------------------------------------------------------
(* Starting the runs that RunJobs returned, one after the other.           *)

\* The job is not known here or still executes an earlier run: FailRun, which
\* may itself fail, and does in a shutdown.
RefuseRun(r) ==
    /\ \/ server[controller[r]] = "up" /\ SetStatus({r}, "failed")
       \/ UNCHANGED <<status, stale>>
    /\ exec' = [exec EXCEPT ![r] = "none"]
    /\ UNCHANGED runningJobs

\* Mutant: the entry of the map is replaced.
MayNotRunUnregistered(c, j) == j \notin Registered[c]

MayNotRun(c, j) == j \notin Registered[c] \/ runningJobs[c][j] # Null

\* runJob up to the entry in the map; ...
StartRun(r) ==
    /\ exec[r] = "queued"
    /\ Of(controller[r], {"stored"}) = {}
    /\ LET c == controller[r]
           j == runJob[r]
       IN  IF MayNotRun(c, j) THEN RefuseRun(r)
           ELSE /\ runningJobs' = [runningJobs EXCEPT ![c][j] = r]
                /\ exec' = [exec EXCEPT ![r] = "stored"]
                /\ UNCHANGED <<status, stale>>
    /\ UNCHANGED <<jobs, due, runJob, controller, canceled, loops>>

\* ... then its cancelCtx is set and the goroutine starts.
SpawnRun(r) ==
    /\ exec[r] = "stored"
    /\ exec' = [exec EXCEPT ![r] = "running"]
    /\ canceled' = IF server[controller[r]] = "up" THEN canceled
                                                   ELSE canceled \union {r}
    /\ UNCHANGED <<tables, runningJobs, loops>>

-----------------------------------------------------------------------------
(* The goroutine of a run.                                                 *)

JobReturns(r, ok) ==
    /\ exec[r] = "running"
    /\ exec' = [exec EXCEPT ![r] = IF ok THEN "succeeded" ELSE "erred"]
    /\ UNCHANGED <<tables, canceled, runningJobs, loops>>

\* Mutant: next_scheduled_run is set although the run is not running any more.
CompleteRunAlwaysSchedules(r, next) ==
    /\ exec[r] = "succeeded" /\ server[controller[r]] = "up"
    /\ SetStatus({r}, "completed")
    /\ due' = [due EXCEPT ![runJob[r]] = next]
    /\ exec' = [exec EXCEPT ![r] = "reported"]
    /\ UNCHANGED <<jobs, runJob, controller, canceled, runningJobs, loops>>

\* CompleteRun: also sets next_scheduled_run, now (next) or later.
CompleteRun(r, next) ==
    /\ exec[r] = "succeeded" /\ server[controller[r]] = "up"
    /\ SetStatus({r}, "completed")
    /\ due' = IF status[r] = "running" THEN [due EXCEPT ![runJob[r]] = next]
                                       ELSE due
    /\ exec' = [exec EXCEPT ![r] = "reported"]
    /\ UNCHANGED <<jobs, runJob, controller, canceled, runningJobs, loops>>

FailRun(r) ==
    /\ exec[r] = "erred" /\ server[controller[r]] = "up"
    /\ SetStatus({r}, "failed")
    /\ exec' = [exec EXCEPT ![r] = "reported"]
    /\ UNCHANGED <<jobs, due, runJob, controller, canceled, runningJobs,
                   loops>>

\* The update fails, or is skipped in a shutdown: the row stays as it is.
UpdateLost(r) ==
    /\ exec[r] \in {"succeeded", "erred"}
    /\ exec' = [exec EXCEPT ![r] = "reported"]
    /\ UNCHANGED <<tables, canceled, runningJobs, loops>>

\* Mutant: only a completed run leaves the map.
DeleteRunningIfCompleted(r) ==
    /\ exec[r] = "reported"
    /\ exec' = [exec EXCEPT ![r] = "none"]
    /\ runningJobs' = IF status[r] = "completed"
                      THEN [runningJobs EXCEPT ![controller[r]][runJob[r]] = Null]
                      ELSE runningJobs
    /\ canceled' = canceled \ {r}
    /\ UNCHANGED <<tables, loops>>

DeleteRunning(r) ==
    /\ exec[r] = "reported"
    /\ exec' = [exec EXCEPT ![r] = "none"]
    /\ runningJobs' = [runningJobs EXCEPT ![controller[r]][runJob[r]] = Null]
    /\ canceled' = canceled \ {r}
    /\ UNCHANGED <<tables, loops>>

-----------------------------------------------------------------------------
(* A crash ends a process with everything in it.                           *)

Lose(c) ==
    /\ stops < MaxStops
    /\ stops' = stops + 1
    /\ exec' = [r \in Run |-> IF controller[r] = c THEN "none" ELSE exec[r]]
    /\ canceled' = {r \in canceled : controller[r] # c}
    /\ runningJobs' = [runningJobs EXCEPT ![c] = [j \in Job |-> Null]]
    /\ server' = [server EXCEPT ![c] = "down"]
    /\ want' = [want EXCEPT ![c] = {}]
    /\ monitoring' = monitoring \ {c}
    /\ updating' = [updating EXCEPT ![c] = {}]
    /\ UNCHANGED tables

Crash(c) == server[c] # "down" /\ Lose(c)

-----------------------------------------------------------------------------
(* The monitor loop: update the progress of the runs in the map, then      *)
(* interrupt the runs nobody updated.                                      *)

MonitorTick(c) ==
    /\ server[c] = "up" /\ c \notin monitoring
    /\ monitoring' = monitoring \union {c}
    /\ updating' = [updating EXCEPT ![c] = {runningJobs[c][j] : j \in Job} \ {Null}]
    /\ UNCHANGED <<tables, goroutines, server, want, stops>>

\* Mutant: a final status is not an error.
updateRunningJobProgressIgnored(c, r, progress) ==
    /\ c \in monitoring /\ r \in updating[c]
    /\ stale' = [stale EXCEPT ![r] = @ /\ ~progress]
    /\ updating' = [updating EXCEPT ![c] = @ \ {r}]
    /\ UNCHANGED <<jobs, due, status, runJob, controller, goroutines,
                   server, want, monitoring, stops>>

\* The row's update_time moves only if the counts changed (progress).  A run
\* with a final status is canceled; without a cancelCtx yet, the call panics.
updateRunningJobProgress(c, r, progress) ==
    /\ c \in monitoring /\ r \in updating[c]
    /\ IF status[r] = "running"
       THEN /\ stale' = [stale EXCEPT ![r] = @ /\ ~progress]
            /\ updating' = [updating EXCEPT ![c] = @ \ {r}]
            /\ UNCHANGED <<jobs, due, status, runJob, controller,
                           goroutines, server, want, monitoring, stops>>
       ELSE IF exec[r] = "stored" THEN Lose(c)
       ELSE /\ canceled' = canceled \union ({r} \intersect Of(c, InMap))
            /\ updating' = [updating EXCEPT ![c] = @ \ {r}]
            /\ UNCHANGED <<tables, exec, runningJobs, server, want, monitoring,
                           stops>>

\* Mutant: each controller looks after its own runs only.
DefunctOwn(c) == {r \in Run : stale[r] /\ controller[r] = c}

Defunct(c) == {r \in Run : stale[r]}

InterruptRuns(c) ==
    /\ c \in monitoring /\ updating[c] = {}
    /\ SetStatus(Defunct(c), "interrupted")
    /\ monitoring' = monitoring \ {c}
    /\ UNCHANGED <<jobs, due, runJob, controller, goroutines, server, want,
                   updating, stops>>

-----------------------------------------------------------------------------
(* Controllers start and shut down.                                        *)

\* registerJobs, then Start: the runs the controller left are interrupted.
Start(c) ==
    /\ server[c] = "down"
    /\ server' = [server EXCEPT ![c] = "up"]
    /\ jobs' = jobs \union Registered[c]
    /\ due' = [j \in Job |-> due[j] \/ j \in Registered[c] \ jobs]
    /\ SetStatus({r \in Run : controller[r] = c}, "interrupted")
    /\ UNCHANGED <<runJob, controller, goroutines, want, monitoring,
                   updating, stops>>

\* The base context is canceled; transactions and the monitor pass fail.
Shutdown(c) ==
    /\ server[c] = "up"
    /\ stops < MaxStops
    /\ stops' = stops + 1
    /\ server' = [server EXCEPT ![c] = "stopping"]
    /\ canceled' = canceled \union Of(c, {"running", "succeeded", "erred", "reported"})
    /\ want' = [want EXCEPT ![c] = {}]
    /\ monitoring' = monitoring \ {c}
    /\ updating' = [updating EXCEPT ![c] = {}]
    /\ UNCHANGED <<tables, exec, runningJobs>>

Stopped(c) ==
    /\ server[c] = "stopping"
    /\ Of(c, {"queued"} \union InMap) = {}
    /\ server' = [server EXCEPT ![c] = "down"]
    /\ UNCHANGED <<tables, goroutines, want, monitoring, updating, stops>>

-----------------------------------------------------------------------------
(* Time.                                                                   *)

BecomesDue(j) ==
    /\ j \in jobs /\ ~due[j]
    /\ due' = [due EXCEPT ![j] = TRUE]
    /\ UNCHANGED <<jobs, status, runJob, controller, stale, goroutines,
                   loops>>

ThresholdPasses(r) ==
    /\ status[r] = "running" /\ ~stale[r]
    /\ stale' = [stale EXCEPT ![r] = TRUE]
    /\ UNCHANGED <<jobs, due, status, runJob, controller, goroutines, loops>>

-----------------------------------------------------------------------------

Init ==
    /\ jobs = {}
    /\ due = [j \in Job |-> FALSE]
    /\ status = [r \in Run |-> "none"]
    /\ runJob = [r \in Run |-> Null]
    /\ controller = [r \in Run |-> Null]
    /\ stale = [r \in Run |-> FALSE]
    /\ exec = [r \in Run |-> "none"]
    /\ canceled = {}
    /\ runningJobs = [c \in Controller |-> [j \in Job |-> Null]]
    /\ server = [c \in Controller |-> "down"]
    /\ want = [c \in Controller |-> {}]
    /\ monitoring = {}
    /\ updating = [c \in Controller |-> {}]
    /\ stops = 0

SchedulingLoop(c) ==
    \/ RunJobsSelect(c) \/ RunJobsInsert(c) \/ Stopped(c)
    \/ \E r \in Of(c, {"queued", "stored"}) : StartRun(r) \/ SpawnRun(r)

Goroutine(r) ==
    \/ \E ok \in BOOLEAN : JobReturns(r, ok)
    \/ \E next \in BOOLEAN : CompleteRun(r, next)
    \/ FailRun(r)
    \/ UpdateLost(r)
    \/ DeleteRunning(r)

Monitor(c) ==
    \/ MonitorTick(c)
    \/ \E r \in Run, p \in BOOLEAN : updateRunningJobProgress(c, r, p)
    \/ InterruptRuns(c)

Next ==
    \/ \E c \in Controller : \/ Start(c) \/ Shutdown(c) \/ Crash(c)
                             \/ SchedulingLoop(c) \/ Monitor(c)
    \/ \E r \in Run : Goroutine(r) \/ ThresholdPasses(r)
    \/ \E j \in Job : UpdateJobNextRunInAtLeast(j) \/ BecomesDue(j)

Spec == Init /\ [][Next]_vars

\* A controller is started when all are down.
Restart == (\A c \in Controller : server[c] = "down") /\ \E c \in Controller : Start(c)

(***************************************************************************)
(* Fairness: the loops of a controller tick for ever.  Where a property    *)
(* depends on the jobs it assumes more: goroutines go on, jobs return,     *)
(* time passes and the controllers do not all stay down, though one may.   *)
(***************************************************************************)
LoopFairness ==
    \A c \in Controller : WF_vars(SchedulingLoop(c)) /\ WF_vars(Monitor(c))

JobFairness ==
    /\ WF_vars(Restart)
    /\ \A r \in Run : WF_vars(Goroutine(r)) /\ WF_vars(ThresholdPasses(r))
    /\ \A j \in Job : WF_vars(BecomesDue(j))

FairSpec == Spec /\ LoopFairness

-----------------------------------------------------------------------------
(* Properties.                                                             *)

\* However the loops of several controllers, interruptions and stops
\* interleave, no job has two rows of job_run with status running.
OneRunningRow ==
    \A q, r \in Run :
        /\ status[q] = "running" /\ status[r] = "running"
        /\ runJob[q] = runJob[r]
        => q = r

\* Within one controller a job has at most one goroutine, also when its run
\* was interrupted and another was given to the same controller, because the
\* map runningJobs names exactly the run that executes.
MapMatchesGoroutines ==
    \A c \in Controller, j \in Job, r \in Run :
        (runningJobs[c][j] = r) <=>
            (controller[r] = c /\ runJob[r] = j /\ exec[r] \in InMap)

\* The report of a goroutine never changes a final status: a run that was
\* interrupted stays interrupted.
FinalStatusStable ==
    [][\A r \in Run : status[r] \in Final /\ exec[r] # "none"
                        => status'[r] = status[r]]_vars

\* No row stays running, whether its controller crashed, shut down, lost the
\* update or executes a job that makes no progress.
RunsAreResolved == JobFairness => \A r \in Run : []<>(status[r] # "running")

\* Once a run is interrupted the goroutine that still executes it is told to
\* stop by its own controller's monitor loop, even if jobs hang: two
\* executions of a job overlap only for a while.
InterruptedIsCanceled ==
    \A r \in Run :
        []<>~(exec[r] = "running" /\ status[r] = "interrupted" /\ r \notin canceled)

\* Every registered job is executed again and again.
JobsRunAgain ==
    JobFairness =>
        \A j \in Job : []<>(\E r \in Run : runJob[r] = j /\ exec[r] = "running")

\* A job that is due, because its time has come or because it was asked to run
\* at once, is postponed only by the completion of a run that was not
\* interrupted: the late report of a goroutine leaves the schedule alone.
OnlyLiveRunPostpones ==
    [][\A j \in Job : due[j] /\ ~due'[j] =>
        \E r \in Run : /\ runJob[r] = j
                       /\ status[r] = "running" /\ status'[r] = "completed"]_vars
=============================================================================
