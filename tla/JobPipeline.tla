----------------------------- MODULE JobPipeline -----------------------------
(***************************************************************************)
(* A build on its way through the system: the transaction that creates it, *)
(* the queue of PerformJob messages, the workers (another program), the    *)
(* queue of status messages and the consumers that apply them with         *)
(* JobUpdater.  The rows and what happens to them are those of             *)
(* BuildLifecycle; here every status message has a sender.                 *)
(*                                                                         *)
(*   - bin/consumers starts one JobStatusConsumer, and acknowledges a      *)
(*     message after JobUpdater has committed: a crash in between gives the*)
(*     message back to the head of the queue.  A crash before the commit   *)
(*     rolls the rows back but not what was published (JobsConsumer        *)
(*     publishes at once, not at the commit).                              *)
(*   - PerformBuild publishes the first PerformJob messages before it      *)
(*     commits: a worker may answer for a build nobody else can see yet.   *)
(*     It holds the lock of the project, which JobUpdater waits for.       *)
(*   - Build#restart publishes PerformJob messages as well before it commits,*)
(*     and is undone if it raises or dies afterwards.  Until it ends it     *)
(*     holds the lock of the project.                                      *)
(*   - The workers are modelled from the messages that JobUpdater accepts: *)
(*     each PerformJob is executed once, and ends with a final status.     *)
(*                                                                         *)
(* `run` in a message is not in the code (job_version is always 1): it     *)
(* names the run that sent it, for the properties only.  Log lines do not  *)
(* matter here: AppendLog is left out.                                     *)
(***************************************************************************)
EXTENDS BuildLifecycle

CONSTANTS
    Consumers,   \* the subscribed JobStatusConsumers
    MaxCrashes,  \* bound: crashes of consumers and undone restarts
    None         \* no message, or no request

ASSUME CrashesAssumption == MaxCrashes \in Nat
ASSUME NoneAssumption == None \notin Requests

VARIABLES
    creation,   \* the transaction of PerformBuild: open, committed, rolledback
    reopening,  \* the request whose restart is published and not committed
    performs,   \* how many PerformJob messages wait for a worker, by execution
    executing,  \* how many workers execute it, by execution
    statuses,   \* the queue of status messages
    handling,   \* the unacknowledged message of each consumer
    reported,   \* every final status that a worker has reported
    crashes     \* crashes of consumers, and restarts undone, so far

queues == <<performs, executing, statuses, handling, reported>>
pipelineVars == <<vars, creation, reopening, queues, crashes>>

Executions == [job: Jobs, run: 1..MaxRuns]
Messages   == [job: Jobs, status: MessageStatus, run: 1..MaxRuns]
Handlings  == [msg: Messages, committed: BOOLEAN]

\* The queue of PerformJob messages with one more for each job in S, run n.
PerformJobs(S, n) ==
    [e \in Executions |-> IF e.job \in S /\ e.run = n
                          THEN performs[e] + 1 ELSE performs[e]]

\* The jobs for which a transaction publishes a PerformJob message.
Published(tx) == {j \in Jobs : tx.dispatched[j] > dispatched[j]}

PipelineInit ==
    /\ Init
    /\ creation = "open"
    /\ reopening = None
    /\ performs = [e \in Executions |-> IF e.job \in FirstJobs /\ e.run = 1 THEN 1 ELSE 0]
    /\ executing = [e \in Executions |-> 0]
    /\ statuses = <<>>
    /\ handling = [c \in Consumers |-> None]
    /\ reported = {}
    /\ crashes = 0

\* PerformBuild#process ends.  It is rolled back when subscribe_author raises
\* or the process dies, after the messages are gone.
EndCreation ==
    /\ creation = "open"
    /\ creation' \in {"committed", "rolledback"}
    /\ UNCHANGED <<vars, reopening, queues, crashes>>

-----------------------------------------------------------------------------
(* The workers.                                                             *)

Send(e, status) == Append(statuses, [job |-> e.job, status |-> status, run |-> e.run])

StartExecution(e) ==
    /\ performs[e] > 0
    /\ performs' = [performs EXCEPT ![e] = @ - 1]
    /\ executing' = [executing EXCEPT ![e] = @ + 1]
    /\ statuses' = Send(e, Started)
    /\ UNCHANGED <<vars, creation, reopening, handling, reported, crashes>>

FinishExecution(e, status) ==
    /\ executing[e] > 0
    /\ executing' = [executing EXCEPT ![e] = @ - 1]
    /\ statuses' = Send(e, status)
    /\ reported' = reported \cup {<<e.job, e.run, status>>}
    /\ UNCHANGED <<vars, creation, reopening, performs, handling, crashes>>

\* A job that could not be started at all.
RefuseExecution(e) ==
    /\ performs[e] > 0
    /\ performs' = [performs EXCEPT ![e] = @ - 1]
    /\ statuses' = Send(e, Errored)
    /\ reported' = reported \cup {<<e.job, e.run, Errored>>}
    /\ UNCHANGED <<vars, creation, reopening, executing, handling, crashes>>

-----------------------------------------------------------------------------
(* The consumer of status messages.                                         *)

Deliver(c) ==
    /\ handling[c] = None
    /\ statuses # <<>>
    /\ handling' = [handling EXCEPT ![c] = [msg |-> Head(statuses), committed |-> FALSE]]
    /\ statuses' = Tail(statuses)
    /\ UNCHANGED <<vars, creation, reopening, performs, executing, reported, crashes>>

\* Variant: no lock on the project; a build nobody can see yet is not found.
HandleUnlocked(c) ==
    /\ handling[c] # None
    /\ ~handling[c].committed
    /\ handling' = [handling EXCEPT ![c].committed = TRUE]
    /\ LET msg == handling[c].msg
       IN  IF creation = "committed"
           THEN /\ UpdateJob(msg.job, msg.status)
                /\ performs' =
                     PerformJobs(Published(Perform(msg.job, msg.status)), runs)
           ELSE UNCHANGED <<vars, performs>>
    /\ UNCHANGED <<creation, reopening, executing, statuses, reported, crashes>>

\* JobUpdater#perform, once the project is locked: not while the transaction
\* that creates or restarts the build is open.  If the creation was rolled back
\* there is no build.
Handle(c) ==
    /\ handling[c] # None
    /\ ~handling[c].committed
    /\ creation # "open"
    /\ reopening = None
    /\ handling' = [handling EXCEPT ![c].committed = TRUE]
    /\ LET msg == handling[c].msg
       IN  IF creation = "committed"
           THEN /\ UpdateJob(msg.job, msg.status)
                /\ performs' =
                     PerformJobs(Published(Perform(msg.job, msg.status)), runs)
           ELSE UNCHANGED <<vars, performs>>
    /\ UNCHANGED <<creation, reopening, executing, statuses, reported, crashes>>

Acknowledge(c) ==
    /\ handling[c] # None
    /\ handling[c].committed
    /\ handling' = [handling EXCEPT ![c] = None]
    /\ UNCHANGED <<vars, creation, reopening, performs, executing, statuses, reported, crashes>>

\* The consumer dies.  Its message is delivered again; a transaction that had
\* not committed is undone, but may have published its PerformJob messages.
Crash(c) ==
    /\ handling[c] # None
    /\ crashes < MaxCrashes
    /\ crashes' = crashes + 1
    /\ statuses' = <<handling[c].msg>> \o statuses
    /\ handling' = [handling EXCEPT ![c] = None]
    /\ \/ performs' = performs
       \/ /\ creation = "committed" /\ reopening = None /\ ~handling[c].committed
          /\ LET msg == handling[c].msg
             IN  performs' =
                   PerformJobs(Published(Perform(msg.job, msg.status)), runs)
    /\ UNCHANGED <<vars, creation, reopening, executing, reported>>

-----------------------------------------------------------------------------
(* Restart requests.                                                        *)

AskRestart(r) ==
    /\ creation = "committed"
    /\ RequestRestart(r) \/ RollbackRestart(r)
    /\ UNCHANGED <<creation, reopening, queues, crashes>>

\* Build#restart gets the lock, resets the rows for itself and publishes.
OpenRestart(r) ==
    /\ reopening = None
    /\ r \in restarting
    /\ \A j \in Jobs : job[j] \in Finished \cup {Cancelled}
    /\ runs < MaxRuns
    /\ performs' = PerformJobs(FirstJobs, runs + 1)
    /\ reopening' = r
    /\ UNCHANGED <<vars, creation, executing, statuses, handling, reported, crashes>>

CommitRestart(r) ==
    /\ reopening = r
    /\ Restart(r)
    /\ reopening' = None
    /\ UNCHANGED <<creation, queues, crashes>>

\* Something raises after the messages are gone (`publish`, the commit), or the
\* process dies: the rows stay as they are.
UndoRestart(r) ==
    /\ reopening = r
    /\ crashes < MaxCrashes
    /\ crashes' = crashes + 1
    /\ restarting' = restarting \ {r}
    /\ reopening' = None
    /\ UNCHANGED <<rows, runs, creation, queues>>

-----------------------------------------------------------------------------
Work ==
    \E e \in Executions :
        \/ StartExecution(e)
        \/ RefuseExecution(e)
        \/ \E status \in Finished : FinishExecution(e, status)

Consume == \E c \in Consumers : Deliver(c) \/ Handle(c) \/ Acknowledge(c)

PipelineNext ==
    \/ EndCreation
    \/ Work
    \/ Consume
    \/ \E c \in Consumers : Crash(c)
    \/ \E r \in Requests :
          AskRestart(r) \/ OpenRestart(r) \/ CommitRestart(r) \/ UndoRestart(r)

\* A transaction ends, a worker ends what it was given, and the broker and the
\* consumer go on (the process is started again after a crash).  Nobody has to
\* ask for a restart, and no restart has to get the lock.
Fairness ==
    /\ WF_pipelineVars(EndCreation)
    /\ WF_pipelineVars(\E r \in Requests : CommitRestart(r) \/ UndoRestart(r))
    /\ WF_pipelineVars(Work)
    /\ \A c \in Consumers :
           WF_pipelineVars(Deliver(c) \/ Handle(c) \/ Acknowledge(c))

PipelineSpec == PipelineInit /\ [][PipelineNext]_pipelineVars /\ Fairness

-----------------------------------------------------------------------------
(* Correctness                                                              *)

PipelineTypeOK ==
    /\ TypeOK
    /\ creation \in {"open", "committed", "rolledback"}
    /\ reopening \in Requests \cup {None}
    /\ performs \in [Executions -> Nat]
    /\ executing \in [Executions -> Nat]
    /\ statuses \in Seq(Messages)
    /\ handling \in [Consumers -> Handlings \cup {None}]
    /\ reported \subseteq Jobs \X (1..MaxRuns) \X Finished
    /\ crashes \in 0..MaxCrashes

\* The outcome on the page of a job is what a worker reported for that job, in
\* this run or an earlier one: a message that a crash lets in twice, or a job that
\* an undone restart has sent, may end the job of a later run.  While no consumer
\* crashes and no restart is undone it is the outcome of this run, if no deploy job
\* is sent twice (a build without regular jobs).
OutcomesReported ==
    \A j \in Jobs : job[j] \in Finished =>
        \E n \in 1..runs :
            /\ <<j, n, job[j]>> \in reported
            /\ crashes = 0 /\ Regular # {} => n = runs

\* A deploy job reaches a worker only if the workers reported success for all
\* regular jobs, whatever transactions were undone on the way; in its own run,
\* while no consumer crashes and no restart is undone.
DeployAfterSuccess ==
    \A e \in Executions :
        e.job \in Deploy /\ performs[e] + executing[e] > 0 =>
            \A j \in Regular : \E n \in 1..e.run :
                /\ <<j, n, Passed>> \in reported
                /\ crashes = 0 => n = e.run

\* Every build that is committed gets its verdict, and so does every restart:
\* no message that matters is lost between the queues, and no build waits for
\* a job that nobody was told to run.
EveryRunEnds == creation = "committed" ~> build \in Finished
=============================================================================
