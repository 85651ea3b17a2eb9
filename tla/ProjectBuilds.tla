---------------------------- MODULE ProjectBuilds ----------------------------
(***************************************************************************)
(* How the builds of one project come into being: the payload consumer and *)
(* the "build head" request (PerformBuild#process), and the "rebuild"      *)
(* request (Project#rebuild, Build#rebuild).  Each is a transaction that   *)
(* takes the row lock of the project and only then reads maximum(:number). *)
(*                                                                         *)
(* Uncommitted rows are not visible to others (READ COMMITTED).  The       *)
(* unique index on (project_id, number) makes a row's number its key: the  *)
(* table is a function from numbers to rows.                               *)
(*                                                                         *)
(* Of the configuration of a build (builds.source) only the number of its  *)
(* regular and deploy jobs matters here.                                   *)
(***************************************************************************)
EXTENDS Naturals, FiniteSets, FiniteSetsExt

CONSTANTS
    Transactions,   \* requests and payload messages that create builds
    Branches,
    MaxBuilds,      \* bound: builds of the project
    Configurations, \* what a .travis.yml may ask for: numbers of jobs
    None

ASSUME BoundAssumption == MaxBuilds \in Nat
ASSUME ConfigurationsAssumption == Configurations \subseteq [regular: Nat, deploy: Nat]
ASSUME NoneAssumption == None \notin Transactions

VARIABLES
    builds,  \* the committed rows, by number
    tx,      \* the transactions
    lock     \* who holds the row lock of the project

vars == <<builds, tx, lock>>

Rows == [branch: Branches, config: Configurations, jobs: SUBSET Nat, finished: BOOLEAN]

Idle == [stage |-> "idle", rebuild |-> FALSE, branch |-> None, config |-> None, number |-> 0]

Numbers == DOMAIN builds

\* default_scope is "number DESC": `first` is the largest number.
FinishedIn(b) == {n \in Numbers : builds[n].branch = b /\ builds[n].finished}

-----------------------------------------------------------------------------
(* The numbers of the jobs.  create_deploy_jobs adds the index to           *)
(* `jobs.count`, which the loop itself increases: with r regular jobs the   *)
(* deploy jobs get r+1, r+3, r+5, ...                                       *)

RegularNumbers(c) == 1..c.regular

\* Variant: the count is read once, and the index starts at 0.
DeployNumbersFromZero(c) == {c.regular + idx : idx \in 0..(c.deploy - 1)}

DeployNumbers(c) == {(c.regular + idx) + idx + 1 : idx \in 0..(c.deploy - 1)}

JobNumbers(c) == RegularNumbers(c) \cup DeployNumbers(c)

-----------------------------------------------------------------------------
\* RepoCallbacksController, PayloadConsumer, build_head: PerformBuild#process
\* locks the project; the payload names the branch, its .travis.yml the jobs.
LockForPayload(t, b, c) ==
    /\ tx[t].stage = "idle"
    /\ lock = None
    /\ lock' = t
    /\ tx' = [tx EXCEPT ![t] = [stage |-> "locked", rebuild |-> FALSE,
                                branch |-> b, config |-> c, number |-> 0]]
    /\ UNCHANGED builds

\* Project#rebuild loads the last finished build of the branch.
LoadForRebuild(t, b) ==
    /\ tx[t].stage = "idle"
    /\ FinishedIn(b) # {}
    /\ tx' = [tx EXCEPT ![t] = [stage |-> "loaded", rebuild |-> TRUE, branch |-> b,
                                config |-> builds[Max(FinishedIn(b))].config,
                                number |-> 0]]
    /\ UNCHANGED <<builds, lock>>

\* Variant: Build#rebuild without its lock.
LockForRebuildSkipped(t) ==
    /\ tx[t].stage = "loaded"
    /\ tx' = [tx EXCEPT ![t].stage = "locked"]
    /\ UNCHANGED <<builds, lock>>

\* Variant: the requests wait for each other.
LockForRebuildAlone(t) ==
    /\ tx[t].stage = "loaded"
    /\ lock = None
    /\ \A u \in Transactions \ {t} : tx[u].stage = "idle"
    /\ lock' = t
    /\ tx' = [tx EXCEPT ![t].stage = "locked"]
    /\ UNCHANGED builds

\* Build#rebuild, once it gets the lock.
LockForRebuild(t) ==
    /\ tx[t].stage = "loaded"
    /\ lock = None
    /\ lock' = t
    /\ tx' = [tx EXCEPT ![t].stage = "locked"]
    /\ UNCHANGED builds

\* Variant: maximum(:number).to_i, without the 1.
AssignNumberMaximum(t) ==
    /\ tx[t].stage = "locked"
    /\ Cardinality(Numbers) < MaxBuilds
    /\ tx' = [tx EXCEPT ![t].stage = "numbered",
                        ![t].number = IF Numbers = {} THEN 0 ELSE Max(Numbers)]
    /\ UNCHANGED <<builds, lock>>

\* Build#assign_number, before the validation: maximum(:number).to_i + 1.
AssignNumber(t) ==
    /\ tx[t].stage = "locked"
    /\ Cardinality(Numbers) < MaxBuilds
    /\ tx' = [tx EXCEPT ![t].stage = "numbered",
                        ![t].number = IF Numbers = {} THEN 1 ELSE Max(Numbers) + 1]
    /\ UNCHANGED <<builds, lock>>

\* `build.jobs.any?` is asked by PerformBuild only.
HasJobs(t) == tx[t].config.regular + tx[t].config.deploy > 0

\* Variant: `build.jobs.any?` is not asked.
AcceptableAlways(t) == tx[t].number \notin Numbers

\* The validations that must hold for the row and its jobs to be saved.
Acceptable(t) ==
    /\ tx[t].number \notin Numbers
    /\ tx[t].rebuild \/ HasJobs(t)

NewRow(t) == [branch |-> tx[t].branch, config |-> tx[t].config,
              jobs |-> JobNumbers(tx[t].config), finished |-> FALSE]

Release(t) == IF lock = t THEN None ELSE lock

\* The rows are inserted and the transaction commits.
Commit(t) ==
    /\ tx[t].stage = "numbered"
    /\ Acceptable(t)
    /\ builds' = [n \in Numbers \cup {tx[t].number} |->
                     IF n = tx[t].number THEN NewRow(t) ELSE builds[n]]
    /\ lock' = Release(t)
    /\ tx' = [tx EXCEPT ![t] = Idle]

\* Any conjunct of the chain fails (no configuration, a row that is not valid,
\* no job), or an exception is raised, or the process dies.
Rollback(t) ==
    /\ tx[t].stage \in {"locked", "numbered"}
    /\ lock' = Release(t)
    /\ tx' = [tx EXCEPT ![t] = Idle]
    /\ UNCHANGED builds

\* JobUpdater and Build#restart, which lock the project as well.
FinishBuild(n) ==
    /\ lock = None
    /\ ~builds[n].finished
    /\ builds' = [builds EXCEPT ![n].finished = TRUE]
    /\ UNCHANGED <<tx, lock>>

\* Variant: the row is deleted and inserted again.
RestartBuildMoved(n) ==
    /\ lock = None
    /\ builds[n].finished
    /\ builds' = [m \in (Numbers \ {n}) \cup {Max(Numbers) + 1} |->
                     IF m \in Numbers THEN builds[m]
                     ELSE [builds[n] EXCEPT !.finished = FALSE]]
    /\ UNCHANGED <<tx, lock>>

RestartBuild(n) ==
    /\ lock = None
    /\ builds[n].finished
    /\ builds' = [builds EXCEPT ![n].finished = FALSE]
    /\ UNCHANGED <<tx, lock>>

-----------------------------------------------------------------------------
Init ==
    /\ builds = [n \in {} |-> None]
    /\ tx = [t \in Transactions |-> Idle]
    /\ lock = None

Proceed(t) == AssignNumber(t) \/ Commit(t) \/ Rollback(t)

Next ==
    \/ \E t \in Transactions :
          \/ \E b \in Branches, c \in Configurations : LockForPayload(t, b, c)
          \/ \E b \in Branches : LoadForRebuild(t, b)
          \/ LockForRebuild(t)
          \/ Proceed(t)
    \/ \E n \in Numbers : FinishBuild(n) \/ RestartBuild(n)

Spec == Init /\ [][Next]_vars

\* A transaction that is open ends, and a row lock that is asked for again and
\* again is granted some day (PostgreSQL queues the waiters).
FairSpec ==
    /\ Spec
    /\ \A t \in Transactions : WF_vars(Proceed(t)) /\ SF_vars(LockForRebuild(t))

-----------------------------------------------------------------------------
(* Correctness                                                              *)

TypeOK ==
    /\ Numbers \subseteq 1..MaxBuilds
    /\ \A n \in Numbers : builds[n] \in Rows
    /\ tx \in [Transactions ->
                 [stage: {"idle", "loaded", "locked", "numbered"}, rebuild: BOOLEAN,
                  branch: Branches \cup {None}, config: Configurations \cup {None},
                  number: Nat]]
    /\ lock \in Transactions \cup {None}

\* The builds of a project are numbered 1, 2, 3, ... without a gap, whatever
\* creations were rolled back or ran at the same time (Build#assign_number).
NumbersContiguous == Numbers = 1..Cardinality(Numbers)

\* The number a transaction computed is still free when it inserts the row: no
\* build is lost to the unique index (the row lock in PerformBuild#project and
\* Build#rebuild).
NumberStaysFree ==
    \A t \in Transactions : tx[t].stage = "numbered" =>
        /\ tx[t].number \notin Numbers
        /\ \A u \in Transactions \ {t} :
              tx[u].stage = "numbered" => tx[u].number # tx[t].number

\* Every build has a job, so that something will end it: Build#rebuild does not
\* ask, but what it copies was asked when it was created.
EveryBuildHasJobs == \A n \in Numbers : builds[n].jobs # {}

\* The jobs of a build have as many numbers as there are jobs: none is refused
\* as a duplicate, which would roll the build back (Build#create_deploy_jobs).
JobNumbersDistinct ==
    \A n \in Numbers :
        Cardinality(builds[n].jobs) = builds[n].config.regular + builds[n].config.deploy

\* A rebuild that found its build gets its turn, and ends, also while payloads
\* keep coming (Build#rebuild waits for the project's lock).
RebuildEnds == \A t \in Transactions : tx[t].stage = "loaded" ~> tx[t].stage = "idle"
=============================================================================
