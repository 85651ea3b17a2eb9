--------------------------- MODULE BuildLifecycle ---------------------------
(***************************************************************************)
(* One build of a project and its jobs, as the rows of the tables builds,  *)
(* jobs, job_histories and job_logs, and everything that writes them once  *)
(* the build exists: the job status consumer (JobUpdater#perform), the job *)
(* log consumer and the "restart" request of the web front end.            *)
(*                                                                         *)
(* JobUpdater#perform runs in one transaction that holds the row lock of   *)
(* the project, so it is one action.  A restart request is two: it loads   *)
(* the build and tests `finished?` BEFORE it takes that lock, and writes   *)
(* after.                                                                  *)
(*                                                                         *)
(* Status messages are not tied to a run of the build (job_version is      *)
(* always 1), and the broker may delay, duplicate or reorder them.  Here   *)
(* every status may therefore arrive for every job at any moment: whatever *)
(* holds below holds for every behaviour of the workers and the broker.    *)
(***************************************************************************)
EXTENDS Naturals, Sequences, FiniteSets, FiniteSetsExt

CONSTANTS
    Regular,    \* the jobs of kind "regular", from the build matrix
    Deploy,     \* the jobs of kind "deploy"
    Requests,   \* web requests that may ask for a restart
    MaxRuns     \* bound: runs of the build (the first one and its restarts)

Jobs == Regular \cup Deploy

\* A build without jobs is rolled back when it is created (`build.jobs.any?`).
ASSUME JobsAssumption ==
    /\ Regular \cap Deploy = {}
    /\ Jobs # {}
    /\ IsFiniteSet(Jobs)
ASSUME RunsAssumption == MaxRuns \in Nat \ {0}

\* The integers stored in the status columns.  6 means "deploying" for a
\* build and "cancelled" for a job.  The verdict is a maximum of them.
Initialized == 0
Started     == 2
Passed      == 3
Failed      == 4
Errored     == 5
Deploying   == 6
Cancelled   == 6

Finished    == {Passed, Failed, Errored}
BuildStatus == {Initialized, Started, Deploying} \cup Finished
JobStatus   == {Initialized, Started, Cancelled} \cup Finished
MessageStatus == {Initialized, Started} \cup Finished

VARIABLES
    build,       \* builds.status
    job,         \* jobs.status, by job
    history,     \* number of job_histories rows, by job
    logs,        \* does the job have rows in job_logs?
    dispatched,  \* PerformJob messages published in this run, by job
    notices,     \* statuses handed to the build notifier in this run
    restarting,  \* requests that saw a finished build and wait for the lock
    runs         \* 1 + the restarts committed so far

rows == <<build, job, history, logs, dispatched, notices>>
vars == <<build, job, history, logs, dispatched, notices, restarting, runs>>

-----------------------------------------------------------------------------
(* The state of a transaction of JobUpdater: the rows as it sees them, and  *)
(* whether StateMachine::InvalidTransition was raised.  The exception is    *)
(* rescued INSIDE the transaction: it skips the steps that remain, and what *)
(* the steps before it wrote is committed.                                  *)

Begin == [build |-> build, job |-> job, history |-> history, logs |-> logs,
          dispatched |-> dispatched, notices |-> notices, raised |-> FALSE]

\* Variants of the transitions: any state may move; an ended job may start.
JobSourcesUnchecked(status) == JobStatus
JobSourcesRestartable(status) ==
    IF status = Started THEN JobStatus \ {Cancelled} ELSE {Initialized, Started}

Rows(tx) == <<tx.build, tx.job, tx.history, tx.logs, tx.dispatched, tx.notices>>

\* The states a job may be in to move to `status`.
JobSources(status) ==
    CASE status = Started             -> {Initialized, Started}
      [] status \in {Passed, Failed}  -> {Started}
      [] status = Errored             -> {Initialized, Started}

\* Variant: the verdict events also accept a build that has a verdict.
BuildSourcesReopened(status) ==
    IF status \in Finished
    THEN BuildStatus
    ELSE {Initialized, Started}

\* The states a build may be in to move to `status`.
BuildSources(status) ==
    CASE status = Started             -> {Initialized}
      [] status \in {Passed, Failed}  -> {Started, Deploying}
      [] status = Errored             -> {Initialized, Started, Deploying}
      [] status = Deploying           -> {Initialized, Started}

\* A build event: the write, and the message to the notifier that follows.
Transition(tx, status) ==
    IF tx.build \in BuildSources(status)
    THEN [tx EXCEPT !.build = status, !.notices = Append(@, status)]
    ELSE [tx EXCEPT !.raised = TRUE]

\* Variants: "cancelled" is missing from the list; only regular jobs count.
AllJobsFinishedNotCancelled(tx) == \A j \in Jobs : tx.job[j] \in Finished
AllJobsFinishedRegular(tx) ==
    \A j \in Regular : tx.job[j] \in Finished \cup {Cancelled}

AllJobsFinished(tx)    == \A j \in Jobs : tx.job[j] \in Finished \cup {Cancelled}
AllRegularFinished(tx) == \A j \in Regular : tx.job[j] \in Finished

\* The jobs that publish_perform_job_messages sends to the workers.
FirstJobs == IF Regular # {} THEN Regular ELSE Deploy

\* Variants: minimum for maximum; any end of the regular jobs will do.
RegularPassedMin(tx) ==
    \/ Regular = {}
    \/ Min({tx.job[j] : j \in Regular}) = Passed
RegularPassedRed(tx) ==
    \/ Regular = {}
    \/ Max({tx.job[j] : j \in Regular}) \in Finished

\* build.jobs.regular.maximum(:status) is 3, or nil when there are none.
RegularPassed(tx) ==
    \/ Regular = {}
    \/ Max({tx.job[j] : j \in Regular}) = Passed

\* Variant: the best job decides.
NewBuildStatusMin(tx) == Min({tx.job[j] : j \in Jobs} \ {Cancelled})

\* The maximum of the statuses, "ignore cancelled jobs".
NewBuildStatus(tx) ==
    Max({tx.job[j] : j \in Jobs} \ {Cancelled})

UpdateAndSaveJobStatus(tx, j, status) ==
    IF status = Initialized
    THEN tx
    ELSE IF tx.job[j] \in JobSources(status)
         THEN [tx EXCEPT !.job[j] = status]
         ELSE [tx EXCEPT !.raised = TRUE]

CreateJobHistory(tx, j, status) ==
    IF ~tx.raised /\ status \in Finished /\ tx.job[j] \in Finished
    THEN [tx EXCEPT !.history[j] = @ + 1]
    ELSE tx

\* Variant: the log is deleted before the transition that may raise.
TruncateJobLogsFirst(tx, j, status) ==
    IF status = Started
    THEN [tx EXCEPT !.logs[j] = FALSE]
    ELSE tx

TruncateJobLogs(tx, j, status) ==
    IF ~tx.raised /\ status = Started
    THEN [tx EXCEPT !.logs[j] = FALSE]
    ELSE tx

StartBuild(tx, status) ==
    IF ~tx.raised /\ status = Started /\ tx.build = Initialized
    THEN Transition(tx, Started)
    ELSE tx

\* Variant: publishes all jobs of the build.
PublishPerformAllJobMessages(tx) ==
    IF tx.raised
    THEN tx
    ELSE [tx EXCEPT !.dispatched = [j \in Jobs |-> @[j] + 1]]

PublishPerformDeployJobMessages(tx) ==
    IF tx.raised
    THEN tx
    ELSE [tx EXCEPT !.dispatched =
             [j \in Jobs |-> IF j \in Deploy THEN @[j] + 1 ELSE @[j]]]

\* `cancel` without a bang: a deploy job that is not initialized is skipped.
CancelDeployJobs(tx) ==
    [tx EXCEPT !.job =
        [j \in Jobs |-> IF j \in Deploy /\ @[j] = Initialized
                        THEN Cancelled ELSE @[j]]]

StartDeploy(tx) ==
    IF tx.raised \/ ~AllRegularFinished(tx) \/ tx.build = Deploying \/ Deploy = {}
    THEN tx
    ELSE IF RegularPassed(tx)
         THEN PublishPerformDeployJobMessages(Transition(tx, Deploying))
         ELSE CancelDeployJobs(tx)

FinalizeBuild(tx) ==
    IF ~tx.raised /\ AllJobsFinished(tx) /\ NewBuildStatus(tx) \in Finished
    THEN Transition(tx, NewBuildStatus(tx))
    ELSE tx

\* JobUpdater#perform, for the message [job |-> j, status |-> status].
Perform(j, status) ==
    LET updated   == UpdateAndSaveJobStatus(Begin, j, status)
        recorded  == CreateJobHistory(updated, j, status)
        truncated == TruncateJobLogs(recorded, j, status)
        started   == StartBuild(truncated, status)
    IN  FinalizeBuild(StartDeploy(started))

-----------------------------------------------------------------------------
\* PerformBuild created the rows and published the first PerformJob messages.
FirstDispatch == [j \in Jobs |-> IF j \in FirstJobs THEN 1 ELSE 0]

Init ==
    /\ build = Initialized
    /\ job = [j \in Jobs |-> Initialized]
    /\ history = [j \in Jobs |-> 0]
    /\ logs = [j \in Jobs |-> FALSE]
    /\ dispatched = FirstDispatch
    /\ notices = <<>>
    /\ restarting = {}
    /\ runs = 1

\* The job status consumer handles a message and its transaction commits.
UpdateJob(j, status) ==
    \E tx \in {Perform(j, status)} :
        /\ build' = tx.build
        /\ job' = tx.job
        /\ history' = tx.history
        /\ logs' = tx.logs
        /\ dispatched' = tx.dispatched
        /\ notices' = tx.notices
        /\ UNCHANGED <<restarting, runs>>

\* The job log consumer stores a line.  It takes no lock and reads no status.
AppendLog(j) ==
    /\ logs' = [logs EXCEPT ![j] = TRUE]
    /\ UNCHANGED <<build, job, history, dispatched, notices, restarting, runs>>

\* Build#restart up to the lock: the row is loaded and is finished.
RequestRestart(r) ==
    /\ r \notin restarting
    /\ build \in Finished
    /\ restarting' = restarting \cup {r}
    /\ UNCHANGED <<rows, runs>>

\* Variant: the result of Job#restart is ignored.
RestartUnchecked(r) ==
    /\ r \in restarting
    /\ runs < MaxRuns
    /\ build' = Initialized
    /\ job' = [j \in Jobs |-> IF job[j] = Started THEN Started ELSE Initialized]
    /\ logs' = [j \in Jobs |-> FALSE]
    /\ dispatched' = FirstDispatch
    /\ notices' = <<>>
    /\ restarting' = restarting \ {r}
    /\ runs' = runs + 1
    /\ UNCHANGED history

\* Build#restart under the lock.  The build row is overwritten whatever it
\* holds now; each job is reset if it is finished or cancelled.
Restart(r) ==
    /\ r \in restarting
    /\ \A j \in Jobs : job[j] \in Finished \cup {Cancelled}
    /\ runs < MaxRuns
    /\ build' = Initialized
    /\ job' = [j \in Jobs |-> Initialized]
    /\ logs' = [j \in Jobs |-> FALSE]
    /\ dispatched' = FirstDispatch
    /\ notices' = <<>>
    /\ restarting' = restarting \ {r}
    /\ runs' = runs + 1
    /\ UNCHANGED history

\* One job cannot be restarted: Job#restart returns nil and
\* or_rollback_transaction undoes the whole restart.
RollbackRestart(r) ==
    /\ r \in restarting
    /\ \E j \in Jobs : job[j] \notin Finished \cup {Cancelled}
    /\ restarting' = restarting \ {r}
    /\ UNCHANGED <<rows, runs>>

Next ==
    \/ \E j \in Jobs, status \in MessageStatus : UpdateJob(j, status)
    \/ \E j \in Jobs : AppendLog(j)
    \/ \E r \in Requests : RequestRestart(r) \/ Restart(r) \/ RollbackRestart(r)

Spec == Init /\ [][Next]_vars

-----------------------------------------------------------------------------
(* Correctness                                                              *)

\* The type of every variable.
TypeOK ==
    /\ build \in BuildStatus
    /\ job \in [Jobs -> JobStatus]
    /\ history \in [Jobs -> Nat]
    /\ logs \in [Jobs -> BOOLEAN]
    /\ dispatched \in [Jobs -> Nat]
    /\ notices \in Seq(BuildStatus)
    /\ restarting \subseteq Requests
    /\ runs \in Nat \ {0}

Settled(j) == job[j] \in Finished \cup {Cancelled}

\* A build has a verdict exactly when none of its jobs can move any more: a
\* message that is late, repeated or out of order never closes a build early,
\* and the last job always closes it (JobUpdater#finalize_build).
VerdictIffSettled ==
    build \in Finished <=> \A j \in Jobs : Settled(j)

\* A build is green only if every one of its jobs ran and passed: ignoring
\* the cancelled jobs in new_build_status never hides a job that did not run.
PassedMeansAllPassed ==
    build = Passed => \A j \in Jobs : job[j] = Passed

\* A red build says why: it failed iff a job failed and none errored, and it
\* errored iff a job errored, whatever order the jobs ended in.
RedMeansWorst ==
    /\ build = Failed  => /\ \E j \in Jobs : job[j] = Failed
                          /\ \A j \in Jobs : job[j] # Errored
    /\ build = Errored => \E j \in Jobs : job[j] = Errored

\* No deploy job is sent to a worker before every regular job of the same run
\* has passed (start_deploy; publish_perform_job_messages at (re)start).
DeployGate ==
    \A d \in Deploy : dispatched[d] > 0 => \A j \in Regular : job[j] = Passed

\* Only deploy jobs are cancelled, and only in a run that a regular job has
\* already spoiled; a cancelled job was never sent to a worker.
CancelledOnlyAfterFailure ==
    \A j \in Jobs : job[j] = Cancelled =>
        /\ j \in Deploy
        /\ dispatched[j] = 0
        /\ \E k \in Regular : job[k] \in {Failed, Errored}

\* When InvalidTransition is raised the transaction has written nothing yet,
\* so rescuing it inside the transaction commits no half of an update.
RejectedMessageWritesNothing ==
    \A j \in Jobs, status \in MessageStatus :
        Perform(j, status).raised => Rows(Perform(j, status)) = rows

\* The usage that the billing counts: at most one job_histories row per job
\* and run, however often the final status of the job is delivered.
HistoryOncePerRun ==
    \A j \in Jobs :
        history[j] + (IF job[j] \in Finished THEN 0 ELSE 1) <= runs

\* The notifier hears of a verdict once per run, after everything else it
\* hears of that run, and it is the verdict that the build row keeps.
VerdictAnnouncedOnce ==
    /\ \A i \in 1..Len(notices) : notices[i] \in Finished => i = Len(notices)
    /\ build = IF notices = <<>> THEN Initialized ELSE notices[Len(notices)]

\* A verdict and the outcomes under it stay as they are until a restart.
VerdictIsFinal ==
    [][(build \in Finished /\ runs' = runs) => UNCHANGED <<build, job, history>>]_vars

\* A restart commits only over a run that is completely over, although it
\* tested `finished?` on a row it had read before it got the lock.
RestartOnlyWhenSettled ==
    [][(runs' # runs) => (build \in Finished /\ \A j \in Jobs : Settled(j))]_vars

\* The log of a job that has ended is deleted by a restart only: a late or
\* repeated "started" never truncates it.
FinishedLogsKept ==
    [][\A j \in Jobs : (Settled(j) /\ logs[j] /\ ~logs'[j]) => (runs' # runs)]_vars
=============================================================================
