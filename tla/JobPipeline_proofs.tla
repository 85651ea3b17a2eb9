-------------------------- MODULE JobPipeline_proofs --------------------------
(***************************************************************************)
(* Proofs about BuildLifecycle and about JobPipeline, whose rows are those *)
(* of BuildLifecycle: for any sets of jobs, requests and consumers, any    *)
(* number of restarts and any number of crashes.                           *)
(*                                                                         *)
(* First the rows.  JobUpdater#perform is a chain of steps over the rows of *)
(* a transaction, and the proof follows it: Consistent(tx) holds of the    *)
(* rows before the first step and after each of them, and the last step,   *)
(* finalize_build, restores Closed(tx): a run whose jobs are all over has a *)
(* verdict.                                                                *)
(*                                                                         *)
(* Then the rows implement BuildContract: what the contract says of the    *)
(* verdict follows from the invariant before and after a step, so only the *)
(* moves of the jobs are left to be matched.                               *)
(*                                                                         *)
(* Last the pipeline.  It keeps the invariant of the rows.  Beside it the  *)
(* proof follows the answers of the workers.  What holds whatever happens: *)
(* a message about an outcome was reported in this run or in an earlier    *)
(* one.  What holds until a consumer crashes: a job that is with a worker, *)
(* or whose answer waits, is not settled, belongs to this run, and is there *)
(* once; so a restart, which finds all jobs settled, leaves no answer      *)
(* behind.                                                                 *)
(***************************************************************************)
EXTENDS JobPipeline, BuildRefinement, TLAPS

Typed(tx) ==
    /\ tx.build \in BuildStatus
    /\ tx.job \in [Jobs -> JobStatus]
    /\ tx.history \in [Jobs -> Nat]
    /\ tx.logs \in [Jobs -> BOOLEAN]
    /\ tx.dispatched \in [Jobs -> Nat]
    /\ tx.notices \in Seq(BuildStatus)

Over == Finished \cup {Cancelled}

\* A build with a verdict has no job that can still move.
VerdictAfterJobs(tx) == tx.build \in Finished => \A j \in Jobs : tx.job[j] \in Over

\* A job leaves "initialized" without starting its build only by an error.
UntouchedBuild(tx) ==
    tx.build = Initialized =>
        \A j \in Jobs : tx.job[j] \in {Initialized, Errored, Cancelled}

\* While a build deploys, its regular jobs have passed.
GateOpened(tx) == tx.build = Deploying => \A j \in Regular : tx.job[j] = Passed

\* The verdict is that of the jobs.
VerdictOfJobs(tx) ==
    /\ tx.build = Passed => \A j \in Jobs : tx.job[j] = Passed
    /\ tx.build = Failed => /\ \E j \in Jobs : tx.job[j] = Failed
                            /\ \A j \in Jobs : tx.job[j] # Errored
    /\ tx.build = Errored => \E j \in Jobs : tx.job[j] = Errored

\* A deploy job that was sent had its regular jobs passed.
SentThroughGate(tx) ==
    \A d \in Deploy : tx.dispatched[d] > 0 => \A j \in Regular : tx.job[j] = Passed

\* A cancelled job is a deploy job behind a spoiled run.
CancelledBehindFailure(tx) ==
    \A j \in Jobs : tx.job[j] = Cancelled =>
        /\ j \in Deploy
        /\ tx.dispatched[j] = 0
        /\ \E k \in Regular : tx.job[k] \in {Failed, Errored}

\* The notices end with the status of the row; a verdict is the last one.
Announced(tx) ==
    /\ \A i \in 1..Len(tx.notices) :
           tx.notices[i] \in Finished => i = Len(tx.notices)
    /\ tx.build = IF tx.notices = <<>>
                  THEN Initialized ELSE tx.notices[Len(tx.notices)]

\* One job_histories row per job and run.
Counted(tx) ==
    \A j \in Jobs :
        tx.history[j] + (IF tx.job[j] \in Finished THEN 0 ELSE 1) <= runs

Consistent(tx) ==
    /\ Typed(tx)
    /\ VerdictAfterJobs(tx)
    /\ UntouchedBuild(tx)
    /\ GateOpened(tx)
    /\ VerdictOfJobs(tx)
    /\ SentThroughGate(tx)
    /\ CancelledBehindFailure(tx)
    /\ Announced(tx)
    /\ Counted(tx)

\* A run whose jobs are all over has a verdict.
Closed(tx) == (\A j \in Jobs : tx.job[j] \in Over) => tx.build \in Finished

\* The inductive invariant.
IInv ==
    /\ restarting \subseteq Requests
    /\ runs \in Nat \ {0}
    /\ Consistent(Begin)
    /\ Closed(Begin)

-----------------------------------------------------------------------------
\* The maximum of a non-empty set of statuses is its largest member.
LEMMA MaxStatus ==
    ASSUME NEW S, S \subseteq 0..6, S # {}
    PROVE  Max(S) \in S /\ \A y \in S : Max(S) >= y
<1>1. \E x \in S : \A y \in S : x >= y
  <2>1. CASE 6 \in S  BY <2>1
  <2>2. CASE 6 \notin S /\ 5 \in S  BY <2>2
  <2>3. CASE 6 \notin S /\ 5 \notin S /\ 4 \in S  BY <2>3
  <2>4. CASE 6 \notin S /\ 5 \notin S /\ 4 \notin S /\ 3 \in S  BY <2>4
  <2>5. CASE S \subseteq 0..2 /\ 2 \in S  BY <2>5
  <2>6. CASE S \subseteq 0..1 /\ 1 \in S  BY <2>6
  <2>7. CASE S \subseteq {0}
    <3>1. 0 \in S  BY <2>7
    <3>2. QED  BY <2>7, <3>1
  <2>8. QED  BY <2>1, <2>2, <2>3, <2>4, <2>5, <2>6, <2>7
<1>2. QED  BY <1>1 DEF Max

-----------------------------------------------------------------------------
USE DEF Initialized, Started, Passed, Failed, Errored, Deploying, Cancelled,
        Finished, Over

\* The type invariant, as a statement about the rows at the start of a
\* transaction.
LEMMA BeginType ==
    TypeOK <=> /\ Typed(Begin)
               /\ restarting \subseteq Requests
               /\ runs \in Nat \ {0}
BY DEF TypeOK, Begin, Typed

\* One more notice after notices without a verdict keeps them in order.
LEMMA NoticeAppended ==
    ASSUME NEW tx, Typed(tx), Announced(tx), tx.build \notin Finished,
           NEW status \in BuildStatus, NEW new, new.build = status,
           new.notices = Append(tx.notices, status)
    PROVE  Announced(new)
<1> DEFINE n == tx.notices
<1>1. n \in Seq(BuildStatus)  BY DEF Typed
<1>2. /\ Len(new.notices) = Len(n) + 1
      /\ Len(n) \in Nat
      /\ new.notices # <<>>
      /\ new.notices[Len(n) + 1] = status
      /\ \A i \in 1..Len(n) : new.notices[i] = n[i]
  BY <1>1
<1>3. \A i \in 1..Len(n) : n[i] \notin Finished
  <2>1. SUFFICES ASSUME NEW i \in 1..Len(n), n[i] \in Finished
                 PROVE  FALSE
    OBVIOUS
  <2>2. i = Len(n) /\ n # <<>>  BY <2>1, <1>1 DEF Announced
  <2>3. tx.build = n[Len(n)]  BY <2>2 DEF Announced
  <2>4. QED  BY <2>1, <2>2, <2>3
<1>4. \A i \in 1..Len(new.notices) :
          new.notices[i] \in Finished => i = Len(new.notices)
  BY <1>2, <1>3
<1>5. QED  BY <1>2, <1>4 DEF Announced

-----------------------------------------------------------------------------
\* The steps before start_deploy, as one function of the message.
StartedTx(j, status) ==
    StartBuild(
        TruncateJobLogs(
            CreateJobHistory(
                UpdateAndSaveJobStatus(Begin, j, status), j, status),
            j, status),
        status)

\* The rows of a transaction in which nothing was raised, field by field.
Written(tx, b, jobs, hist, lines, sent, told) ==
    /\ tx.build = b
    /\ tx.job = jobs
    /\ tx.history = hist
    /\ tx.logs = lines
    /\ tx.dispatched = sent
    /\ tx.notices = told
    /\ tx.raised = FALSE

Rejected == [Begin EXCEPT !.raised = TRUE]

\* A message either is rejected, or does nothing, or moves a job that is not
\* over; the last disjuncts say what else it writes.
LEMMA FirstSteps ==
    ASSUME IInv, NEW j \in Jobs, NEW status \in MessageStatus
    PROVE  \/ StartedTx(j, status) = Rejected
           \/ status = Initialized /\ StartedTx(j, status) = Begin
           \/ /\ job[j] \in {Initialized, Started} /\ status = Started
              /\ build = Initialized
              /\ Written(StartedTx(j, status), Started, [job EXCEPT ![j] = Started], history,
                             [logs EXCEPT ![j] = FALSE], dispatched,
                             Append(notices, Started))
           \/ /\ job[j] \in {Initialized, Started} /\ status = Started
              /\ build # Initialized
              /\ Written(StartedTx(j, status), build, [job EXCEPT ![j] = Started], history,
                             [logs EXCEPT ![j] = FALSE], dispatched, notices)
           \/ /\ job[j] = Started \/ (job[j] = Initialized /\ status = Errored)
              /\ status \in Finished
              /\ Written(StartedTx(j, status), build, [job EXCEPT ![j] = status],
                             [history EXCEPT ![j] = @ + 1], logs,
                             dispatched, notices)
<1> DEFINE u == UpdateAndSaveJobStatus(Begin, j, status)
           h == CreateJobHistory(u, j, status)
           t == TruncateJobLogs(h, j, status)
<1>0. StartedTx(j, status) = StartBuild(t, status)  BY DEF StartedTx
<1>1. job \in [Jobs -> JobStatus] /\ history \in [Jobs -> Nat]
  BY DEF IInv, Consistent, Begin, Typed
<1>2. Written(Begin, build, job, history, logs, dispatched, notices)
  BY DEF Begin, Written
<1>3. CASE status = Initialized
  <2>1. u = Begin  BY <1>3 DEF UpdateAndSaveJobStatus
  <2>2. t = Begin  BY <1>3, <2>1 DEF CreateJobHistory, TruncateJobLogs
  <2>3. StartBuild(t, status) = Begin  BY <1>3, <2>2 DEF StartBuild
  <2>4. QED  BY <1>0, <1>3, <2>3
<1>4. CASE status # Initialized /\ job[j] \notin JobSources(status)
  <2>1. u = Rejected  BY <1>4 DEF UpdateAndSaveJobStatus, Begin, Rejected
  <2>2. u.raised  BY <2>1 DEF Rejected, Begin
  <2>3. t = u  BY <2>2 DEF CreateJobHistory, TruncateJobLogs
  <2>4. StartBuild(t, status) = u  BY <2>2, <2>3 DEF StartBuild
  <2>5. QED  BY <1>0, <2>1, <2>4
<1>5. CASE status = Started /\ job[j] \in JobSources(status)
  <2>1. job[j] \in {Initialized, Started}  BY <1>5 DEF JobSources
  <2>2. Written(u, build, [job EXCEPT ![j] = Started], history, logs,
                    dispatched, notices)
    BY <1>2, <1>5 DEF UpdateAndSaveJobStatus, Written
  <2>3. h = u  BY <1>5 DEF CreateJobHistory
  <2>4. Written(t, build, [job EXCEPT ![j] = Started], history,
                    [logs EXCEPT ![j] = FALSE], dispatched, notices)
    <3>1. t = [u EXCEPT !.logs[j] = FALSE]
      BY <1>5, <2>2, <2>3 DEF TruncateJobLogs, Written
    <3> HIDE DEF u, t
    <3>2. QED  BY <2>2, <3>1 DEF Written
  <2>5. CASE build = Initialized
    <3>1. StartBuild(t, status) = Transition(t, Started)
      BY <1>5, <2>4, <2>5 DEF StartBuild, Written
    <3>2. Written(Transition(t, Started), Started, [job EXCEPT ![j] = Started], history,
                      [logs EXCEPT ![j] = FALSE], dispatched,
                      Append(notices, Started))
      BY <2>4, <2>5 DEF Transition, BuildSources, Written
    <3>3. QED  BY <1>0, <1>5, <2>1, <2>5, <3>1, <3>2
  <2>6. CASE build # Initialized
    <3>1. StartBuild(t, status) = t
      BY <1>5, <2>4, <2>6 DEF StartBuild, Written
    <3>2. QED  BY <1>0, <1>5, <2>1, <2>4, <2>6, <3>1
  <2>7. QED  BY <2>5, <2>6
<1>6. CASE status \in Finished /\ job[j] \in JobSources(status)
  <2>1. job[j] = Started \/ (job[j] = Initialized /\ status = Errored)
    BY <1>6 DEF JobSources
  <2>2. Written(u, build, [job EXCEPT ![j] = status], history, logs,
                    dispatched, notices)
    BY <1>2, <1>6 DEF UpdateAndSaveJobStatus, Written
  <2>3. u.job[j] = status  BY <1>1, <2>2 DEF Written
  <2>4. Written(h, build, [job EXCEPT ![j] = status],
                    [history EXCEPT ![j] = @ + 1], logs, dispatched, notices)
    BY <1>6, <2>2, <2>3 DEF CreateJobHistory, Written
  <2>5. t = h  BY <1>6 DEF TruncateJobLogs
  <2>6. StartBuild(t, status) = h  BY <1>6, <2>5 DEF StartBuild
  <2>7. QED  BY <1>0, <1>6, <2>1, <2>4, <2>6
<1>7. QED  BY <1>3, <1>4, <1>5, <1>6 DEF MessageStatus

\* The first steps moved job j, which was not over, to s, and wrote what
\* goes with it.
Moved(tx, j, s) ==
    /\ tx.job = [job EXCEPT ![j] = s]
    /\ s # Initialized
    /\ s # Cancelled
    /\ tx.dispatched = dispatched
    /\ tx.raised = FALSE
    /\ \/ /\ s = Started
          /\ tx.history = history
          /\ tx.logs = [logs EXCEPT ![j] = FALSE]
          /\ \/ /\ build = Initialized
                /\ tx.build = Started
                /\ tx.notices = Append(notices, Started)
             \/ /\ build # Initialized
                /\ tx.build = build
                /\ tx.notices = notices
       \/ /\ s \in Finished
          /\ s # Errored => job[j] = Started
          /\ tx.history = [history EXCEPT ![j] = @ + 1]
          /\ tx.logs = logs
          /\ tx.build = build
          /\ tx.notices = notices

\* After the first steps the rows are consistent, unless the message was
\* rejected; a message that writes finds a build without a verdict.
LEMMA StartedConsistent ==
    ASSUME IInv, NEW j \in Jobs, NEW status \in MessageStatus
    PROVE  \/ StartedTx(j, status) = Rejected
           \/ StartedTx(j, status) = Begin
           \/ /\ Consistent(StartedTx(j, status))
              /\ StartedTx(j, status).raised = FALSE
              /\ StartedTx(j, status).build \notin Finished
              /\ build \notin Finished
<1> DEFINE tx == StartedTx(j, status)
<1>0. /\ Consistent(Begin)
      /\ Written(Begin, build, job, history, logs, dispatched, notices)
      /\ runs \in Nat
  BY DEF IInv, Begin, Written
<1> SUFFICES ASSUME tx # Rejected, tx # Begin
             PROVE  /\ Consistent(tx)
                    /\ tx.raised = FALSE
                    /\ tx.build \notin Finished
                    /\ build \notin Finished
  OBVIOUS
<1> HIDE DEF tx
<1>1. /\ job[j] \in {Initialized, Started}
      /\ \E s \in JobStatus : Moved(tx, j, s)
  <2>1. CASE /\ job[j] \in {Initialized, Started}
             /\ build = Initialized
             /\ Written(tx, Started, [job EXCEPT ![j] = Started], history,
                        [logs EXCEPT ![j] = FALSE], dispatched,
                        Append(notices, Started))
    <3>1. Moved(tx, j, Started)  BY <2>1 DEF Moved, Written
    <3>2. QED  BY <2>1, <3>1 DEF JobStatus
  <2>2. CASE /\ job[j] \in {Initialized, Started}
             /\ build # Initialized
             /\ Written(tx, build, [job EXCEPT ![j] = Started], history,
                        [logs EXCEPT ![j] = FALSE], dispatched, notices)
    <3>1. Moved(tx, j, Started)  BY <2>2 DEF Moved, Written
    <3>2. QED  BY <2>2, <3>1 DEF JobStatus
  <2>3. CASE /\ job[j] = Started \/ (job[j] = Initialized /\ status = Errored)
             /\ status \in Finished
             /\ Written(tx, build, [job EXCEPT ![j] = status],
                        [history EXCEPT ![j] = @ + 1], logs, dispatched, notices)
    <3>1. Moved(tx, j, status)  BY <2>3 DEF Moved, Written
    <3>2. QED  BY <2>3, <3>1 DEF JobStatus
  <2>4. QED  BY <2>1, <2>2, <2>3, FirstSteps DEF tx
<1>2. PICK s \in JobStatus : Moved(tx, j, s)  BY <1>1
<1>3. /\ job \in [Jobs -> JobStatus]
      /\ build \in BuildStatus
      /\ history \in [Jobs -> Nat]
      /\ logs \in [Jobs -> BOOLEAN]
      /\ dispatched \in [Jobs -> Nat]
      /\ notices \in Seq(BuildStatus)
  BY <1>0 DEF Consistent, Typed, Written
<1>4. /\ tx.job[j] = s
      /\ \A i \in Jobs : i # j => tx.job[i] = job[i]
      /\ s # Initialized /\ s # Cancelled
      /\ tx.dispatched = dispatched
      /\ tx.raised = FALSE
      /\ s \in Finished /\ s # Errored => job[j] = Started
  BY <1>2, <1>3 DEF Moved
<1>b. \/ tx.build = Started /\ tx.notices = Append(notices, Started)
      \/ tx.build = build /\ tx.notices = notices
  BY <1>2 DEF Moved
<1>h. \/ s = Started /\ tx.history = history
      \/ s \in Finished /\ tx.history = [history EXCEPT ![j] = @ + 1]
  BY <1>2 DEF Moved
<1>l. \/ tx.logs = [logs EXCEPT ![j] = FALSE]
      \/ tx.logs = logs
  BY <1>2 DEF Moved
<1>5. build \notin Finished
  BY <1>0, <1>1 DEF Consistent, VerdictAfterJobs, Written
<1>6. tx.build \notin Finished  BY <1>2, <1>5 DEF Moved
<1>7. Typed(tx)
  <2>1. tx.build \in BuildStatus /\ tx.notices \in Seq(BuildStatus)
    <3>1. Started \in BuildStatus  BY DEF BuildStatus
    <3>2. Append(notices, Started) \in Seq(BuildStatus)  BY <1>3, <3>1
    <3>3. QED  BY <1>3, <1>b, <3>1, <3>2
  <2>2. tx.job \in [Jobs -> JobStatus]  BY <1>2, <1>3 DEF Moved
  <2>3. tx.history \in [Jobs -> Nat]
    <3>1. CASE tx.history = history  BY <1>3, <3>1
    <3>2. CASE tx.history = [history EXCEPT ![j] = @ + 1]
      <4> DEFINE more == history[j] + 1
      <4>1. more \in Nat  BY <1>3
      <4>2. tx.history = [history EXCEPT ![j] = more]  BY <3>2
      <4> HIDE DEF more
      <4>3. QED  BY <1>3, <4>1, <4>2
    <3>3. QED  BY <1>h, <3>1, <3>2
  <2>4. tx.logs \in [Jobs -> BOOLEAN]  BY <1>3, <1>l
  <2>5. QED  BY <1>3, <1>4, <2>1, <2>2, <2>3, <2>4 DEF Typed
<1>8. UntouchedBuild(tx)
  <2>1. SUFFICES ASSUME tx.build = Initialized, NEW i \in Jobs
                 PROVE  tx.job[i] \in {Initialized, Errored, Cancelled}
    BY DEF UntouchedBuild
  <2>2. build = Initialized /\ s \in Finished  BY <1>2, <2>1 DEF Moved
  <2>3. \A k \in Jobs : job[k] \in {Initialized, Errored, Cancelled}
    BY <1>0, <2>2 DEF Consistent, UntouchedBuild, Written
  <2>4. s = Errored  BY <1>4, <2>2, <2>3
  <2>5. QED  BY <1>4, <2>3, <2>4
<1>9. GateOpened(tx)
  <2>1. SUFFICES ASSUME tx.build = Deploying, NEW i \in Regular
                 PROVE  tx.job[i] = Passed
    BY DEF GateOpened
  <2>2. build = Deploying  BY <1>2, <2>1 DEF Moved
  <2>3. job[i] = Passed  BY <1>0, <2>2 DEF Consistent, GateOpened, Written
  <2>4. i # j  BY <1>1, <2>3
  <2>5. QED  BY <1>4, <2>3, <2>4 DEF Jobs
<1>10. SentThroughGate(tx)
  <2>1. SUFFICES ASSUME NEW d \in Deploy, tx.dispatched[d] > 0, NEW i \in Regular
                 PROVE  tx.job[i] = Passed
    BY DEF SentThroughGate
  <2>2. job[i] = Passed
    BY <1>0, <1>4, <2>1 DEF Consistent, SentThroughGate, Written
  <2>3. i # j  BY <1>1, <2>2
  <2>4. QED  BY <1>4, <2>2, <2>3 DEF Jobs
<1>11. CancelledBehindFailure(tx)
  <2>1. SUFFICES ASSUME NEW i \in Jobs, tx.job[i] = Cancelled
                 PROVE  /\ i \in Deploy
                        /\ tx.dispatched[i] = 0
                        /\ \E k \in Regular : tx.job[k] \in {Failed, Errored}
    BY DEF CancelledBehindFailure
  <2>2. job[i] = Cancelled  BY <1>4, <2>1
  <2>3. /\ i \in Deploy
        /\ dispatched[i] = 0
        /\ \E k \in Regular : job[k] \in {Failed, Errored}
    BY <1>0, <2>2 DEF Consistent, CancelledBehindFailure, Written
  <2>4. PICK k \in Regular : job[k] \in {Failed, Errored}  BY <2>3
  <2>5. k # j  BY <1>1, <2>4
  <2>6. QED  BY <1>1, <1>4, <2>3, <2>4, <2>5 DEF Jobs
<1>12. Announced(tx)
  <2>1. CASE tx.build = build /\ tx.notices = notices
    BY <1>0, <2>1 DEF Consistent, Announced, Written
  <2>2. CASE tx.build = Started /\ tx.notices = Append(notices, Started)
    BY <1>0, <1>5, <2>2, NoticeAppended DEF Consistent, Written, BuildStatus
  <2>3. QED  BY <1>b, <2>1, <2>2
<1>13. Counted(tx)
  <2>1. SUFFICES ASSUME NEW i \in Jobs
                 PROVE  tx.history[i] + (IF tx.job[i] \in Finished THEN 0 ELSE 1) <= runs
    BY DEF Counted
  <2>2. history[i] + (IF job[i] \in Finished THEN 0 ELSE 1) <= runs
    BY <1>0 DEF Consistent, Counted, Written
  <2>3. CASE i # j
    <3>1. tx.history[i] = history[i]  BY <1>3, <1>h, <2>3
    <3>2. QED  BY <1>4, <2>2, <2>3, <3>1
  <2>4. CASE i = j
    <3>1. history[i] + 1 <= runs  BY <1>1, <2>2, <2>4
    <3>2. CASE s = Started
      <4>1. tx.history = history  BY <1>h, <3>2
      <4>2. QED  BY <1>4, <2>4, <3>1, <3>2, <4>1
    <3>3. CASE s \in Finished
      <4> DEFINE more == history[j] + 1
      <4>1. tx.history = [history EXCEPT ![j] = more]  BY <1>h, <3>3
      <4> HIDE DEF more
      <4>2. tx.history[j] = more  BY <1>3, <4>1
      <4>3. tx.job[j] \in Finished  BY <1>4, <3>3
      <4>4. QED  BY <1>0, <1>3, <2>4, <3>1, <4>2, <4>3 DEF more
    <3>4. QED  BY <1>4, <3>2, <3>3 DEF JobStatus
  <2>5. QED  BY <2>3, <2>4
<1>14. VerdictAfterJobs(tx) /\ VerdictOfJobs(tx)
  BY <1>6 DEF VerdictAfterJobs, VerdictOfJobs
<1>15. QED
  BY <1>4, <1>5, <1>6, <1>7, <1>8, <1>9, <1>10, <1>11, <1>12, <1>13, <1>14
     DEF Consistent

-----------------------------------------------------------------------------
\* What the maximum over the regular jobs tells start_deploy.
LEMMA RegularVerdict ==
    ASSUME NEW tx, Typed(tx), AllRegularFinished(tx)
    PROVE  /\ RegularPassed(tx) => \A k \in Regular : tx.job[k] = Passed
           /\ ~RegularPassed(tx) => \E k \in Regular : tx.job[k] \in {Failed, Errored}
<1>1. CASE Regular = {}  BY <1>1 DEF RegularPassed
<1>2. CASE Regular # {}
  <2> DEFINE S == {tx.job[k] : k \in Regular}
  <2>1. S \subseteq Finished /\ S # {}  BY <1>2 DEF AllRegularFinished
  <2>2. Max(S) \in S /\ \A y \in S : Max(S) >= y
    <3>1. S \subseteq 0..6  BY <2>1
    <3> HIDE DEF S
    <3>2. QED  BY <2>1, <3>1, MaxStatus
  <2>3. RegularPassed(tx) <=> Max(S) = Passed  BY <1>2 DEF RegularPassed
  <2>4. \A k \in Regular : tx.job[k] \in S  OBVIOUS
  <2>5. \A y \in S : \E k \in Regular : tx.job[k] = y  OBVIOUS
  <2> HIDE DEF S
  <2>6. CASE Max(S) = Passed
    <3>1. \A y \in S : y = Passed  BY <2>1, <2>2, <2>6
    <3>2. QED  BY <2>3, <2>4, <2>6, <3>1
  <2>7. CASE Max(S) # Passed
    <3>1. Max(S) \in {Failed, Errored}  BY <2>1, <2>2, <2>7
    <3>2. QED  BY <2>2, <2>3, <2>5, <2>7, <3>1
  <2>8. QED  BY <2>6, <2>7
<1>3. QED  BY <1>1, <1>2

\* start_deploy raises nothing and keeps the rows consistent, whether it does
\* nothing, opens the gate or cancels the deploy jobs.
LEMMA DeployConsistent ==
    ASSUME NEW tx, Consistent(tx), tx.raised = FALSE, tx.build \notin Finished,
           runs \in Nat
    PROVE  /\ Consistent(StartDeploy(tx))
           /\ StartDeploy(tx).raised = FALSE
           /\ StartDeploy(tx).build \notin Finished
<1> DEFINE d == StartDeploy(tx)
<1>0. Typed(tx)  BY DEF Consistent
<1>1. CASE ~AllRegularFinished(tx) \/ tx.build = Deploying \/ Deploy = {}
  <2>1. d = tx  BY <1>1 DEF StartDeploy
  <2>2. QED  BY <2>1
<1>2. CASE /\ AllRegularFinished(tx) /\ tx.build # Deploying /\ Deploy # {}
           /\ RegularPassed(tx)
  <2>1. \A k \in Regular : tx.job[k] = Passed  BY <1>0, <1>2, RegularVerdict
  <2>2. tx.build \in {Initialized, Started}  BY <1>0, <1>2 DEF Typed, BuildStatus
  <2>3. d = PublishPerformDeployJobMessages(Transition(tx, Deploying))
    BY <1>2 DEF StartDeploy
  <2>4. Transition(tx, Deploying)
            = [tx EXCEPT !.build = Deploying, !.notices = Append(@, Deploying)]
    BY <2>2 DEF Transition, BuildSources
  <2>5. /\ d.build = Deploying
        /\ d.notices = Append(tx.notices, Deploying)
        /\ d.job = tx.job
        /\ d.history = tx.history
        /\ d.logs = tx.logs
        /\ d.raised = FALSE
        /\ d.dispatched = [j \in Jobs |-> IF j \in Deploy
                                         THEN tx.dispatched[j] + 1
                                         ELSE tx.dispatched[j]]
    <3> DEFINE t == Transition(tx, Deploying)
    <3>0. t = [tx EXCEPT !.build = Deploying, !.notices = Append(@, Deploying)]
      BY <2>4
    <3>2. d = PublishPerformDeployJobMessages(t)  BY <2>3
    <3> HIDE DEF t, d
    <3>1. /\ t.build = Deploying
          /\ t.notices = Append(tx.notices, Deploying)
          /\ t.job = tx.job
          /\ t.history = tx.history
          /\ t.logs = tx.logs
          /\ t.raised = FALSE
          /\ t.dispatched = tx.dispatched
      BY <1>2, <3>0
    <3>3. d = [t EXCEPT !.dispatched = [j \in Jobs |-> IF j \in Deploy
                                                      THEN @[j] + 1 ELSE @[j]]]
      BY <3>1, <3>2 DEF PublishPerformDeployJobMessages
    <3>4. QED  BY <3>1, <3>3
  <2> HIDE DEF d
  <2>6. Typed(d)
    <3>1. Deploying \in BuildStatus  BY DEF BuildStatus
    <3>2. d.notices \in Seq(BuildStatus)  BY <1>0, <2>5, <3>1 DEF Typed
    <3>3. d.dispatched \in [Jobs -> Nat]  BY <1>0, <2>5 DEF Typed
    <3>4. QED  BY <1>0, <2>5, <3>1, <3>2, <3>3 DEF Typed
  <2>7. Announced(d)
    BY <1>0, <2>5, NoticeAppended DEF Consistent, BuildStatus
  <2>8. VerdictAfterJobs(d) /\ UntouchedBuild(d) /\ VerdictOfJobs(d)
    BY <2>5 DEF VerdictAfterJobs, UntouchedBuild, VerdictOfJobs
  <2>9. GateOpened(d) /\ SentThroughGate(d)
    BY <2>1, <2>5 DEF GateOpened, SentThroughGate
  <2>10. CancelledBehindFailure(d)
    BY <2>1, <2>5 DEF Consistent, CancelledBehindFailure
  <2>11. Counted(d)  BY <2>5 DEF Consistent, Counted
  <2>12. QED
    BY <2>5, <2>6, <2>7, <2>8, <2>9, <2>10, <2>11 DEF Consistent, d
<1>3. CASE /\ AllRegularFinished(tx) /\ tx.build # Deploying /\ Deploy # {}
           /\ ~RegularPassed(tx)
  <2>1. PICK k \in Regular : tx.job[k] \in {Failed, Errored}
    BY <1>0, <1>3, RegularVerdict
  <2>2. d = CancelDeployJobs(tx)  BY <1>3 DEF StartDeploy
  <2>3. /\ d.build = tx.build
        /\ d.notices = tx.notices
        /\ d.history = tx.history
        /\ d.logs = tx.logs
        /\ d.raised = FALSE
        /\ d.dispatched = tx.dispatched
        /\ d.job = [j \in Jobs |-> IF j \in Deploy /\ tx.job[j] = Initialized
                                  THEN Cancelled ELSE tx.job[j]]
    BY <2>2 DEF CancelDeployJobs
  <2> HIDE DEF d
  <2>4. \A j \in Jobs : \/ d.job[j] = tx.job[j]
                        \/ /\ j \in Deploy
                           /\ tx.job[j] = Initialized
                           /\ d.job[j] = Cancelled
    BY <2>3
  <2>5. \A j \in Regular : d.job[j] = tx.job[j]
    BY <2>4, JobsAssumption DEF Jobs
  <2>6. Typed(d)
    <3>1. d.job \in [Jobs -> JobStatus]  BY <1>0, <2>3 DEF Typed, JobStatus
    <3>2. QED  BY <1>0, <2>3, <3>1 DEF Typed
  <2>7. UntouchedBuild(d)
    BY <2>3, <2>4 DEF Consistent, UntouchedBuild
  <2>8. GateOpened(d) /\ SentThroughGate(d)
    BY <2>3, <2>5 DEF Consistent, GateOpened, SentThroughGate
  <2>9. CancelledBehindFailure(d)
    <3>1. \A j \in Deploy : tx.dispatched[j] = 0
      <4>1. \A j \in Deploy : ~(tx.dispatched[j] > 0)
        BY <2>1 DEF Consistent, SentThroughGate
      <4>2. \A j \in Deploy : tx.dispatched[j] \in Nat  BY <1>0 DEF Typed, Jobs
      <4>3. QED  BY <4>1, <4>2
    <3>2. \A j \in Jobs : d.job[j] = Cancelled => j \in Deploy
      BY <2>4 DEF Consistent, CancelledBehindFailure
    <3>3. QED  BY <2>1, <2>3, <2>5, <3>1, <3>2 DEF CancelledBehindFailure
  <2>10. Announced(d)  BY <2>3 DEF Consistent, Announced
  <2>11. Counted(d)
    <3>1. SUFFICES ASSUME NEW j \in Jobs
                   PROVE  d.history[j] + (IF d.job[j] \in Finished THEN 0 ELSE 1) <= runs
      BY DEF Counted
    <3>2. tx.history[j] + (IF tx.job[j] \in Finished THEN 0 ELSE 1) <= runs
      BY DEF Consistent, Counted
    <3>3. d.job[j] \in Finished <=> tx.job[j] \in Finished  BY <2>4
    <3>4. QED  BY <2>3, <3>2, <3>3
  <2>12. VerdictAfterJobs(d) /\ VerdictOfJobs(d)
    BY <2>3 DEF VerdictAfterJobs, VerdictOfJobs
  <2>13. QED
    BY <2>3, <2>6, <2>7, <2>8, <2>9, <2>10, <2>11, <2>12 DEF Consistent, d
<1>4. QED  BY <1>1, <1>2, <1>3

-----------------------------------------------------------------------------
\* The verdict of a run whose jobs are all over: what maximum(:status) says,
\* and that the build's state machine accepts it.
LEMMA Verdict ==
    ASSUME NEW tx, Consistent(tx), tx.build \notin Finished, AllJobsFinished(tx)
    PROVE  /\ NewBuildStatus(tx) \in Finished
           /\ tx.build \in BuildSources(NewBuildStatus(tx))
           /\ \E j \in Jobs : tx.job[j] = NewBuildStatus(tx)
           /\ \A j \in Jobs : tx.job[j] # Cancelled => tx.job[j] <= NewBuildStatus(tx)
<1> DEFINE S == {tx.job[j] : j \in Jobs} \ {Cancelled}
           v == NewBuildStatus(tx)
<1>1. S \subseteq Finished  BY DEF AllJobsFinished
<1>2. S # {}
  <2>1. CASE \E j \in Jobs : tx.job[j] # Cancelled  BY <2>1
  <2>2. CASE \A j \in Jobs : tx.job[j] = Cancelled
    <3>1. PICK j \in Jobs : TRUE  BY JobsAssumption
    <3>2. PICK k \in Regular : tx.job[k] \in {Failed, Errored}
      BY <2>2, <3>1 DEF Consistent, CancelledBehindFailure
    <3>3. QED  BY <2>2, <3>2 DEF Jobs
  <2>3. QED  BY <2>1, <2>2
<1>3. v = Max(S)  BY DEF NewBuildStatus
<1>4. \A j \in Jobs : tx.job[j] # Cancelled => tx.job[j] \in S  OBVIOUS
<1>5. \A y \in S : \E j \in Jobs : tx.job[j] = y  OBVIOUS
<1>6. S \subseteq 0..6  BY <1>1
<1> HIDE DEF S, v
<1>7. v \in S /\ \A y \in S : v >= y  BY <1>2, <1>3, <1>6, MaxStatus
<1>8. v \in Finished  BY <1>1, <1>7
<1>9. \A j \in Jobs : tx.job[j] # Cancelled => tx.job[j] <= v
  BY <1>1, <1>4, <1>7
<1>10. tx.build \in BuildSources(v)
  <2>1. CASE tx.build = Initialized
    <3>1. PICK j \in Jobs : tx.job[j] = v  BY <1>5, <1>7
    <3>2. v = Errored
      BY <1>8, <2>1, <3>1 DEF Consistent, UntouchedBuild
    <3>3. QED  BY <2>1, <3>2 DEF BuildSources
  <2>2. CASE tx.build \in {Started, Deploying}
    BY <1>8, <2>2 DEF BuildSources
  <2>3. QED  BY <2>1, <2>2 DEF Consistent, Typed, BuildStatus
<1>11. QED  BY <1>5, <1>7, <1>8, <1>9, <1>10 DEF v

\* finalize_build raises nothing, keeps the rows consistent, and leaves no run
\* whose jobs are over without a verdict.
LEMMA FinalConsistent ==
    ASSUME NEW tx, Consistent(tx), tx.raised = FALSE, tx.build \notin Finished,
           runs \in Nat
    PROVE  /\ Consistent(FinalizeBuild(tx))
           /\ FinalizeBuild(tx).raised = FALSE
           /\ Closed(FinalizeBuild(tx))
<1> DEFINE f == FinalizeBuild(tx)
<1>0. Typed(tx)  BY DEF Consistent
<1>1. CASE ~AllJobsFinished(tx)
  <2>1. f = tx  BY <1>1 DEF FinalizeBuild
  <2>2. Closed(tx)  BY <1>1 DEF Closed, AllJobsFinished
  <2>3. QED  BY <2>1, <2>2
<1>2. CASE AllJobsFinished(tx)
  <2> DEFINE v == NewBuildStatus(tx)
  <2>1. /\ v \in Finished
        /\ tx.build \in BuildSources(v)
        /\ \E j \in Jobs : tx.job[j] = v
        /\ \A j \in Jobs : tx.job[j] # Cancelled => tx.job[j] <= v
    BY <1>2, Verdict
  <2>2. f = [tx EXCEPT !.build = v, !.notices = Append(@, v)]
    BY <1>2, <2>1 DEF FinalizeBuild, Transition
  <2> HIDE DEF v
  <2>3. /\ f.build = v
        /\ f.notices = Append(tx.notices, v)
        /\ f.job = tx.job
        /\ f.history = tx.history
        /\ f.logs = tx.logs
        /\ f.dispatched = tx.dispatched
        /\ f.raised = FALSE
    BY <2>2
  <2> HIDE DEF f
  <2>4. v \in BuildStatus  BY <2>1 DEF BuildStatus
  <2>5. Typed(f)
    <3>1. f.notices \in Seq(BuildStatus)  BY <1>0, <2>3, <2>4 DEF Typed
    <3>2. QED  BY <1>0, <2>3, <2>4, <3>1 DEF Typed
  <2>6. Announced(f)  BY <1>0, <2>3, <2>4, NoticeAppended DEF Consistent
  <2>7. VerdictAfterJobs(f)
    BY <1>2, <2>3 DEF VerdictAfterJobs, AllJobsFinished
  <2>8. UntouchedBuild(f) /\ GateOpened(f)
    BY <2>1, <2>3 DEF UntouchedBuild, GateOpened
  <2>9. SentThroughGate(f) /\ CancelledBehindFailure(f) /\ Counted(f)
    BY <2>3 DEF Consistent, SentThroughGate, CancelledBehindFailure, Counted
  <2>10. VerdictOfJobs(f)
    <3>1. ASSUME v = Passed PROVE \A j \in Jobs : tx.job[j] = Passed
      <4>1. \A k \in Regular : tx.job[k] \notin {Failed, Errored}
        BY <2>1, <3>1 DEF Jobs
      <4>2. \A j \in Jobs : tx.job[j] # Cancelled
        BY <4>1 DEF Consistent, CancelledBehindFailure
      <4>3. QED  BY <1>2, <2>1, <3>1, <4>2 DEF AllJobsFinished
    <3>2. ASSUME v = Failed
          PROVE  /\ \E j \in Jobs : tx.job[j] = Failed
                 /\ \A j \in Jobs : tx.job[j] # Errored
      BY <2>1, <3>2
    <3>3. QED  BY <2>1, <2>3, <3>1, <3>2 DEF VerdictOfJobs
  <2>11. Closed(f)  BY <2>1, <2>3 DEF Closed
  <2>12. QED
    BY <2>3, <2>5, <2>6, <2>7, <2>8, <2>9, <2>10, <2>11 DEF Consistent, f
<1>3. QED  BY <1>1, <1>2

-----------------------------------------------------------------------------
\* JobUpdater#perform on a build that has a verdict writes nothing.
LEMMA VerdictUnmoved ==
    ASSUME IInv, build \in Finished, NEW j \in Jobs, NEW status \in MessageStatus
    PROVE  Rows(Perform(j, status)) = rows
<1> DEFINE tx == StartedTx(j, status)
<1>0. Perform(j, status) = FinalizeBuild(StartDeploy(tx))
  BY DEF Perform, StartedTx
<1>1. CASE tx = Rejected
  <2>1. tx.raised  BY <1>1 DEF Rejected, Begin
  <2>2. Perform(j, status) = tx  BY <1>0, <2>1 DEF StartDeploy, FinalizeBuild
  <2>3. QED  BY <1>1, <2>2 DEF Rejected, Begin, Rows, rows
<1>2. CASE tx = Begin
  <2>1. job \in [Jobs -> JobStatus] /\ \A i \in Jobs : job[i] \in Over
    BY DEF IInv, Consistent, Typed, VerdictAfterJobs, Begin
  <2> DEFINE d == StartDeploy(Begin)
  <2>2. Rows(d) = rows
    <3>1. CASE d = Begin  BY <3>1 DEF Rows, rows, Begin
    <3>2. CASE d = PublishPerformDeployJobMessages(Transition(Begin, Deploying))
      <4>1. Transition(Begin, Deploying) = Rejected
        BY DEF Transition, BuildSources, Begin, Rejected
      <4>2. d = Rejected
        BY <3>2, <4>1 DEF PublishPerformDeployJobMessages, Rejected, Begin
      <4>3. QED  BY <4>2 DEF Rejected, Begin, Rows, rows
    <3>3. CASE d = CancelDeployJobs(Begin)
      <4>1. d.job = [i \in Jobs |-> IF i \in Deploy /\ job[i] = Initialized
                                   THEN Cancelled ELSE job[i]]
        BY <3>3 DEF CancelDeployJobs, Begin
      <4>2. d.job = job  BY <2>1, <4>1
      <4>3. QED  BY <3>3, <4>2 DEF CancelDeployJobs, Begin, Rows, rows
    <3>4. QED  BY <3>1, <3>2, <3>3 DEF StartDeploy
  <2> HIDE DEF d
  <2>3. d.build \in Finished  BY <2>2 DEF Rows, rows
  <2>4. FinalizeBuild(d) = d \/ FinalizeBuild(d) = [d EXCEPT !.raised = TRUE]
    <3>1. \A s \in Finished : d.build \notin BuildSources(s)
      BY <2>3 DEF BuildSources
    <3>2. QED  BY <3>1 DEF FinalizeBuild, Transition
  <2>5. Rows([d EXCEPT !.raised = TRUE]) = Rows(d)  BY DEF Rows
  <2>6. QED  BY <1>0, <1>2, <2>2, <2>4, <2>5 DEF d
<1>3. QED  BY <1>1, <1>2, StartedConsistent

\* JobUpdater#perform keeps the invariant, and when it raises it has written
\* nothing.
LEMMA PerformConsistent ==
    ASSUME IInv, NEW j \in Jobs, NEW status \in MessageStatus
    PROVE  /\ Consistent(Perform(j, status))
           /\ Closed(Perform(j, status))
           /\ Perform(j, status).raised => Rows(Perform(j, status)) = rows
<1> DEFINE tx == StartedTx(j, status)
           p == Perform(j, status)
<1>0. p = FinalizeBuild(StartDeploy(tx))  BY DEF Perform, StartedTx
<1>1. Consistent(Begin) /\ Closed(Begin) /\ runs \in Nat  BY DEF IInv
<1>2. ASSUME Rows(p) = rows  PROVE Consistent(p) /\ Closed(p)
  <2> HIDE DEF p
  <2>1. /\ p.build = build /\ p.job = job /\ p.history = history
        /\ p.logs = logs /\ p.dispatched = dispatched /\ p.notices = notices
    BY <1>2 DEF Rows, rows
  <2>2. Closed(p)  BY <1>1, <2>1 DEF Closed, Begin
  <2>3. Consistent(p)
    BY <1>1, <2>1
       DEF Consistent, Begin, Typed, VerdictAfterJobs, UntouchedBuild, GateOpened,
           VerdictOfJobs, SentThroughGate, CancelledBehindFailure, Announced, Counted
  <2>4. QED  BY <2>2, <2>3
<1>3. CASE build \in Finished
  <2>1. Rows(p) = rows  BY <1>3, VerdictUnmoved
  <2>2. QED  BY <1>2, <2>1
<1>4. CASE tx = Rejected
  <2>1. tx.raised  BY <1>4 DEF Rejected, Begin
  <2>2. p = tx  BY <1>0, <2>1 DEF StartDeploy, FinalizeBuild
  <2>3. Rows(p) = rows  BY <1>4, <2>2 DEF Rejected, Begin, Rows, rows
  <2>4. QED  BY <1>2, <2>3
<1>5. CASE build \notin Finished /\ tx # Rejected
  <2>1. Consistent(tx) /\ tx.raised = FALSE /\ tx.build \notin Finished
    <3>1. CASE tx = Begin  BY <1>1, <1>5, <3>1 DEF Begin
    <3>2. QED  BY <1>5, <3>1, StartedConsistent
  <2> DEFINE d == StartDeploy(tx)
  <2>2. Consistent(d) /\ d.raised = FALSE /\ d.build \notin Finished
    BY <1>1, <2>1, DeployConsistent
  <2> HIDE DEF d
  <2>3. /\ Consistent(FinalizeBuild(d))
        /\ FinalizeBuild(d).raised = FALSE
        /\ Closed(FinalizeBuild(d))
    BY <1>1, <2>2, FinalConsistent
  <2>4. QED  BY <1>0, <2>3 DEF d
<1>6. QED  BY <1>3, <1>4, <1>5

-----------------------------------------------------------------------------
\* The rows that PerformBuild and Build#restart leave are consistent.
LEMMA FreshRun ==
    ASSUME NEW tx,
           tx.build = Initialized,
           tx.job = [j \in Jobs |-> Initialized],
           tx.history \in [Jobs -> Nat],
           tx.logs = [j \in Jobs |-> FALSE],
           tx.dispatched = FirstDispatch,
           tx.notices = <<>>
    PROVE  /\ Typed(tx) /\ VerdictAfterJobs(tx) /\ UntouchedBuild(tx)
           /\ GateOpened(tx) /\ VerdictOfJobs(tx) /\ SentThroughGate(tx)
           /\ CancelledBehindFailure(tx) /\ Announced(tx) /\ Closed(tx)
<1>1. Typed(tx)
  <2>1. tx.build \in BuildStatus /\ tx.notices \in Seq(BuildStatus)
    BY DEF BuildStatus
  <2>2. tx.job \in [Jobs -> JobStatus] /\ tx.logs \in [Jobs -> BOOLEAN]
    BY DEF JobStatus
  <2>3. tx.dispatched \in [Jobs -> Nat]  BY DEF FirstDispatch
  <2>4. QED  BY <2>1, <2>2, <2>3 DEF Typed
<1>2. VerdictAfterJobs(tx) /\ UntouchedBuild(tx) /\ GateOpened(tx) /\ VerdictOfJobs(tx)
  BY DEF VerdictAfterJobs, UntouchedBuild, GateOpened, VerdictOfJobs
<1>3. SentThroughGate(tx)
  <2>1. ASSUME NEW d \in Deploy, tx.dispatched[d] > 0  PROVE Regular = {}
    <3>1. d \in FirstJobs  BY <2>1 DEF FirstDispatch, Jobs
    <3>2. QED  BY <3>1, JobsAssumption DEF FirstJobs
  <2>2. QED  BY <2>1 DEF SentThroughGate
<1>4. CancelledBehindFailure(tx)  BY DEF CancelledBehindFailure
<1>5. Announced(tx)  BY DEF Announced
<1>6. Closed(tx)  BY JobsAssumption DEF Closed
<1>7. QED  BY <1>1, <1>2, <1>3, <1>4, <1>5, <1>6

LEMMA InitInvariant == Init => IInv
<1> SUFFICES ASSUME Init  PROVE IInv
  OBVIOUS
<1>1. /\ Begin.build = Initialized
      /\ Begin.job = [j \in Jobs |-> Initialized]
      /\ Begin.history = [j \in Jobs |-> 0]
      /\ Begin.logs = [j \in Jobs |-> FALSE]
      /\ Begin.dispatched = FirstDispatch
      /\ Begin.notices = <<>>
  BY DEF Init, Begin
<1>2. runs = 1 /\ restarting = {}  BY DEF Init
<1>3. Begin.history \in [Jobs -> Nat] /\ Counted(Begin)
  BY <1>1, <1>2 DEF Counted
<1>4. Consistent(Begin) /\ Closed(Begin)
  BY <1>1, <1>3, FreshRun DEF Consistent
<1>5. QED  BY <1>2, <1>4 DEF IInv

LEMMA NextInvariant == IInv /\ [Next]_vars => IInv'
<1> SUFFICES ASSUME IInv, [Next]_vars  PROVE IInv'
  OBVIOUS
<1>0. /\ Consistent(Begin) /\ Closed(Begin)
      /\ restarting \subseteq Requests
      /\ runs \in Nat \ {0}
  BY DEF IInv
<1>1. ASSUME UNCHANGED rows, runs' = runs  PROVE Consistent(Begin)' /\ Closed(Begin)'
  <2>1. Begin' = Begin  BY <1>1 DEF Begin, rows
  <2>2. Closed(Begin)'  BY <1>0, <2>1 DEF Closed
  <2>3. Consistent(Begin)'
    BY <1>0, <1>1, <2>1
       DEF Consistent, Typed, VerdictAfterJobs, UntouchedBuild, GateOpened,
           VerdictOfJobs, SentThroughGate, CancelledBehindFailure, Announced, Counted
  <2>4. QED  BY <2>2, <2>3
<1>2. ASSUME NEW j \in Jobs, NEW status \in MessageStatus, UpdateJob(j, status)
      PROVE  IInv'
  <2> DEFINE p == Perform(j, status)
             b == Begin'
  <2>1. Consistent(p) /\ Closed(p)  BY PerformConsistent
  <2>2. /\ build' = p.build /\ job' = p.job /\ history' = p.history
        /\ logs' = p.logs /\ dispatched' = p.dispatched /\ notices' = p.notices
        /\ restarting' = restarting /\ runs' = runs
    BY <1>2 DEF UpdateJob
  <2>3. /\ b.build = p.build /\ b.job = p.job /\ b.history = p.history
        /\ b.logs = p.logs /\ b.dispatched = p.dispatched
        /\ b.notices = p.notices
    BY <2>2 DEF Begin
  <2> HIDE DEF p, b
  <2>4. Closed(b)  BY <2>1, <2>3 DEF Closed
  <2>5. Typed(b) /\ VerdictAfterJobs(b) /\ UntouchedBuild(b) /\ GateOpened(b)
    BY <2>1, <2>3
       DEF Consistent, Typed, VerdictAfterJobs, UntouchedBuild, GateOpened
  <2>6. /\ VerdictOfJobs(b) /\ SentThroughGate(b) /\ CancelledBehindFailure(b)
        /\ Announced(b)
    BY <2>1, <2>3
       DEF Consistent, VerdictOfJobs, SentThroughGate, CancelledBehindFailure, Announced
  <2>7. \A i \in Jobs :
            b.history[i] + (IF b.job[i] \in Finished THEN 0 ELSE 1) <= runs'
    BY <2>1, <2>2, <2>3 DEF Consistent, Counted
  <2>8. QED
    BY <1>0, <2>2, <2>4, <2>5, <2>6, <2>7
       DEF IInv, Consistent, Closed, Typed, VerdictAfterJobs, UntouchedBuild,
           GateOpened, VerdictOfJobs, SentThroughGate, CancelledBehindFailure,
           Announced, Counted, b
<1>3. ASSUME NEW j \in Jobs, AppendLog(j)  PROVE IInv'
  <2> DEFINE b == Begin'
  <2>1. /\ UNCHANGED <<build, job, history, dispatched, notices, restarting, runs>>
        /\ logs' \in [Jobs -> BOOLEAN]
    BY <1>0, <1>3 DEF AppendLog, Consistent, Typed, Begin
  <2>2. /\ b.build = Begin.build /\ b.job = Begin.job
        /\ b.history = Begin.history /\ b.dispatched = Begin.dispatched
        /\ b.notices = Begin.notices
        /\ b.logs \in [Jobs -> BOOLEAN]
    BY <2>1 DEF Begin
  <2> HIDE DEF b
  <2>3. Closed(b)  BY <1>0, <2>2 DEF Closed, IInv
  <2>4. Typed(b) /\ VerdictAfterJobs(b) /\ UntouchedBuild(b) /\ GateOpened(b)
    BY <1>0, <2>2
       DEF IInv, Consistent, Typed, VerdictAfterJobs, UntouchedBuild, GateOpened
  <2>5. /\ VerdictOfJobs(b) /\ SentThroughGate(b) /\ CancelledBehindFailure(b)
        /\ Announced(b)
    BY <1>0, <2>2
       DEF IInv, Consistent, VerdictOfJobs, SentThroughGate,
           CancelledBehindFailure, Announced
  <2>6. \A i \in Jobs :
            b.history[i] + (IF b.job[i] \in Finished THEN 0 ELSE 1) <= runs'
    BY <1>0, <2>1, <2>2 DEF IInv, Consistent, Counted
  <2>7. restarting' \subseteq Requests /\ runs' \in Nat \ {0}
    BY <1>0, <2>1 DEF IInv
  <2>8. QED
    BY <2>3, <2>4, <2>5, <2>6, <2>7
       DEF IInv, Consistent, Closed, Typed, VerdictAfterJobs, UntouchedBuild,
           GateOpened, VerdictOfJobs, SentThroughGate, CancelledBehindFailure,
           Announced, Counted, b
<1>4. ASSUME NEW r \in Requests, RequestRestart(r)  PROVE IInv'
  BY <1>0, <1>1, <1>4 DEF RequestRestart, IInv, rows
<1>5. ASSUME NEW r \in Requests, RollbackRestart(r)  PROVE IInv'
  BY <1>0, <1>1, <1>5 DEF RollbackRestart, IInv, rows
<1>6. ASSUME NEW r \in Requests, Restart(r)  PROVE IInv'
  <2>1. /\ (Begin').build = Initialized
        /\ (Begin').job = [j \in Jobs |-> Initialized]
        /\ (Begin').history = history
        /\ (Begin').logs = [j \in Jobs |-> FALSE]
        /\ (Begin').dispatched = FirstDispatch
        /\ (Begin').notices = <<>>
        /\ runs' = runs + 1
        /\ restarting' \subseteq Requests
    BY <1>0, <1>6 DEF Restart, Begin
  <2>2. \A j \in Jobs : history[j] \in Nat /\ history[j] <= runs
    <3>1. SUFFICES ASSUME NEW j \in Jobs
                   PROVE  history[j] \in Nat /\ history[j] <= runs
      OBVIOUS
    <3>2. history[j] \in Nat  BY <1>0 DEF Consistent, Typed, Begin
    <3>3. history[j] + (IF job[j] \in Finished THEN 0 ELSE 1) <= runs
      BY <1>0 DEF Consistent, Counted, Begin
    <3>4. QED  BY <1>0, <3>2, <3>3
  <2> DEFINE b == Begin'
  <2>3. /\ Typed(b) /\ VerdictAfterJobs(b) /\ UntouchedBuild(b)
        /\ GateOpened(b) /\ VerdictOfJobs(b) /\ SentThroughGate(b)
        /\ CancelledBehindFailure(b) /\ Announced(b) /\ Closed(b)
    <3>1. b.history \in [Jobs -> Nat]
      BY <1>0, <2>1 DEF Consistent, Typed, Begin
    <3> HIDE DEF b
    <3>2. QED  BY <2>1, <3>1, FreshRun DEF b
  <2>4. \A j \in Jobs :
            b.history[j] + (IF b.job[j] \in Finished THEN 0 ELSE 1) <= runs'
    <3>1. SUFFICES ASSUME NEW j \in Jobs
                   PROVE  b.history[j] + (IF b.job[j] \in Finished THEN 0 ELSE 1) <= runs'
      OBVIOUS
    <3>2. b.job[j] = Initialized /\ b.history[j] = history[j]  BY <2>1
    <3> HIDE DEF b
    <3>3. QED  BY <1>0, <2>1, <2>2, <3>2
  <2> HIDE DEF b
  <2>5. restarting' \subseteq Requests /\ runs' \in Nat \ {0}
    BY <1>0, <2>1
  <2>6. QED
    BY <2>3, <2>4, <2>5
       DEF IInv, Consistent, Closed, Typed, VerdictAfterJobs, UntouchedBuild,
           GateOpened, VerdictOfJobs, SentThroughGate, CancelledBehindFailure,
           Announced, Counted, b
<1>7. CASE UNCHANGED vars
  BY <1>0, <1>1, <1>7 DEF IInv, vars, rows
<1>8. QED
  BY <1>2, <1>3, <1>4, <1>5, <1>6, <1>7 DEF Next

-----------------------------------------------------------------------------
\* The invariant holds in every reachable state.
THEOREM Invariance == Spec => []IInv
<1>1. Init => IInv  BY InitInvariant
<1>2. IInv /\ [Next]_vars => IInv'  BY NextInvariant
<1>3. QED  BY <1>1, <1>2, PTL DEF Spec

\* The columns hold only the values their state machines know.
THEOREM TypeCorrectness == Spec => []TypeOK
<1>1. IInv => TypeOK  BY BeginType DEF IInv, Consistent
<1>2. QED  BY <1>1, Invariance, PTL

\* A build has a verdict exactly when all its jobs are over (finalize_build),
\* whatever messages the workers and the broker deliver, in whatever order.
THEOREM VerdictTimely == Spec => []VerdictIffSettled
<1>1. IInv => VerdictIffSettled
  BY DEF IInv, Consistent, Closed, VerdictAfterJobs, VerdictIffSettled, Settled, Begin
<1>2. QED  BY <1>1, Invariance, PTL

\* The verdict is the one its jobs deserve: green only if every job passed,
\* red for a reason.
THEOREM VerdictTrue == Spec => [](PassedMeansAllPassed /\ RedMeansWorst)
<1>1. IInv => PassedMeansAllPassed /\ RedMeansWorst
  BY DEF IInv, Consistent, VerdictOfJobs, PassedMeansAllPassed, RedMeansWorst, Begin
<1>2. QED  BY <1>1, Invariance, PTL

\* A red build says why: failed for a failed job and no error, errored for an
\* error (new_build_status is the maximum of the jobs' statuses).
THEOREM RedForAReason == Spec => []RedMeansWorst
<1>1. IInv => RedMeansWorst
  BY DEF IInv, Consistent, VerdictOfJobs, RedMeansWorst, Begin
<1>2. QED  BY <1>1, Invariance, PTL

\* No deploy job is sent out before its regular jobs passed, and only deploy
\* jobs behind a red regular job are cancelled (start_deploy).
THEOREM DeployGated == Spec => [](DeployGate /\ CancelledOnlyAfterFailure)
<1>1. IInv => DeployGate /\ CancelledOnlyAfterFailure
  BY DEF IInv, Consistent, SentThroughGate, CancelledBehindFailure,
         DeployGate, CancelledOnlyAfterFailure, Begin
<1>2. QED  BY <1>1, Invariance, PTL

\* The usage rows and the verdict notices are written once per run.
THEOREM OncePerRun == Spec => [](HistoryOncePerRun /\ VerdictAnnouncedOnce)
<1>1. IInv => HistoryOncePerRun
  BY DEF IInv, Consistent, Counted, HistoryOncePerRun, Begin
<1>2. IInv => VerdictAnnouncedOnce
  BY DEF IInv, Consistent, Announced, VerdictAnnouncedOnce, Begin
<1>3. QED  BY <1>1, <1>2, Invariance, PTL

\* The notifier is told the verdict of a run once, as the last thing it is told
\* of that run, and told what the row keeps (Transition#notify in Build).
THEOREM AnnouncedOnce == Spec => []VerdictAnnouncedOnce
<1>1. IInv => VerdictAnnouncedOnce
  BY DEF IInv, Consistent, Announced, VerdictAnnouncedOnce, Begin
<1>2. QED  BY <1>1, Invariance, PTL

\* A message whose transition is invalid commits nothing, although JobUpdater
\* rescues the exception inside its transaction.
THEOREM NoPartialCommit == Spec => []RejectedMessageWritesNothing
<1>1. IInv => RejectedMessageWritesNothing
  BY PerformConsistent DEF RejectedMessageWritesNothing
<1>2. QED  BY <1>1, Invariance, PTL

\* A verdict stands until a restart.
THEOREM VerdictStands == Spec => VerdictIsFinal
<1>1. IInv /\ [Next]_vars =>
          [(build \in Finished /\ runs' = runs) => UNCHANGED <<build, job, history>>]_vars
  <2>1. SUFFICES ASSUME IInv, Next, build \in Finished, runs' = runs
                 PROVE  UNCHANGED <<build, job, history>>
    OBVIOUS
  <2>2. ASSUME NEW j \in Jobs, NEW status \in MessageStatus, UpdateJob(j, status)
        PROVE  UNCHANGED <<build, job, history>>
    <3> DEFINE p == Perform(j, status)
    <3>1. Rows(p) = rows  BY <2>1, VerdictUnmoved
    <3>2. build' = p.build /\ job' = p.job /\ history' = p.history
      BY <2>2 DEF UpdateJob
    <3> HIDE DEF p
    <3>3. QED  BY <3>1, <3>2 DEF Rows, rows
  <2>3. ASSUME NEW j \in Jobs, AppendLog(j)  PROVE UNCHANGED <<build, job, history>>
    BY <2>3 DEF AppendLog
  <2>4. ASSUME NEW r \in Requests, RequestRestart(r) \/ RollbackRestart(r)
        PROVE  UNCHANGED <<build, job, history>>
    BY <2>4 DEF RequestRestart, RollbackRestart, rows
  <2>5. ASSUME NEW r \in Requests, Restart(r)  PROVE FALSE
    <3>1. runs' = runs + 1 /\ runs \in Nat  BY <2>1, <2>5 DEF Restart, IInv
    <3>2. QED  BY <2>1, <3>1
  <2>6. QED  BY <2>1, <2>2, <2>3, <2>4, <2>5 DEF Next
<1>2. QED  BY <1>1, Invariance, PTL DEF Spec, VerdictIsFinal

\* The log of a job that has ended is deleted by a restart only: JobUpdater
\* deletes it after the transition to started, which a settled job refuses.
THEOREM EndedLogsKept == Spec => FinishedLogsKept
<1>1. IInv /\ [Next]_vars =>
          [\A j \in Jobs : (Settled(j) /\ logs[j] /\ ~logs'[j]) => (runs' # runs)]_vars
  <2>1. SUFFICES ASSUME IInv, Next, NEW j \in Jobs, Settled(j), logs[j], runs' = runs
                 PROVE  logs'[j]
    OBVIOUS
  <2>2. logs \in [Jobs -> BOOLEAN]  BY <2>1 DEF IInv, Consistent, Typed, Begin
  <2>3. ASSUME NEW i \in Jobs, NEW status \in MessageStatus, UpdateJob(i, status)
        PROVE  logs'[j]
    <3> DEFINE tx == StartedTx(i, status)
               p == Perform(i, status)
    <3>1. logs' = p.logs  BY <2>3 DEF UpdateJob
    <3>2. p.logs = tx.logs
      BY DEF Perform, StartedTx, StartDeploy, FinalizeBuild, Transition, CancelDeployJobs,
             PublishPerformDeployJobMessages
    <3>3. tx.logs = logs \/ (i # j /\ tx.logs = [logs EXCEPT ![i] = FALSE])
      <4> HIDE DEF tx, p
      <4>1. CASE tx = Rejected \/ tx = Begin  BY <4>1 DEF Rejected, Begin
      <4>2. CASE /\ job[i] \in {Initialized, Started}
                 /\ tx.logs = [logs EXCEPT ![i] = FALSE]
        BY <2>1, <4>2 DEF Settled, Initialized, Started, Finished, Passed, Failed,
                          Errored, Cancelled
      <4>3. CASE tx.logs = logs  BY <4>3
      <4>4. QED  BY <2>1, <4>1, <4>2, <4>3, FirstSteps DEF Written, tx
    <3>4. QED  BY <2>1, <2>2, <3>1, <3>2, <3>3
  <2>4. ASSUME NEW i \in Jobs, AppendLog(i)  PROVE logs'[j]
    BY <2>1, <2>2, <2>4 DEF AppendLog
  <2>5. ASSUME NEW r \in Requests, RequestRestart(r) \/ RollbackRestart(r)
        PROVE  logs'[j]
    BY <2>1, <2>5 DEF RequestRestart, RollbackRestart, rows
  <2>6. ASSUME NEW r \in Requests, Restart(r)  PROVE FALSE
    <3>1. runs' = runs + 1 /\ runs \in Nat  BY <2>1, <2>6 DEF Restart, IInv
    <3>2. QED  BY <2>1, <3>1
  <2>7. QED  BY <2>1, <2>3, <2>4, <2>5, <2>6 DEF Next
<1>2. QED  BY <1>1, Invariance, PTL DEF Spec, FinishedLogsKept

\* A restart commits only over a finished run: the test made before the lock
\* is repeated, job by job, under it.
THEOREM RestartSafe == Spec => RestartOnlyWhenSettled
<1>1. IInv /\ [Next]_vars =>
          [(runs' # runs) => (build \in Finished /\ \A j \in Jobs : Settled(j))]_vars
  <2>1. SUFFICES ASSUME IInv, Next, runs' # runs
                 PROVE  build \in Finished /\ \A j \in Jobs : Settled(j)
    OBVIOUS
  <2>2. PICK r \in Requests : Restart(r)
    BY <2>1 DEF Next, UpdateJob, AppendLog, RequestRestart, RollbackRestart
  <2>3. \A j \in Jobs : Settled(j)  BY <2>2 DEF Restart, Settled
  <2>4. build \in Finished
    BY <2>1, <2>3 DEF IInv, Closed, Settled, Begin
  <2>5. QED  BY <2>3, <2>4
<1>2. QED  BY <1>1, Invariance, PTL DEF Spec, RestartOnlyWhenSettled

-----------------------------------------------------------------------------
(* The rows implement the contract                                          *)

\* Behind a spoiled run no deploy job waits: start_deploy has cancelled it in
\* the transaction that ended the last regular job.
GateClosed(tx) ==
    /\ \A k \in Regular : tx.job[k] \in Finished
    /\ \E k \in Regular : tx.job[k] \in {Failed, Errored}
    => \A d \in Deploy : tx.job[d] # Initialized

RInv == IInv /\ GateClosed(Begin)

Skip(tx) == [j \in Jobs |-> IF j \in Deploy /\ tx.job[j] = Initialized
                            THEN Cancelled ELSE tx.job[j]]

\* start_deploy moves no job unless a red regular job has spoiled the run, and
\* then it closes the gate.
LEMMA DeployMoves ==
    ASSUME NEW tx, Consistent(tx), tx.raised = FALSE, tx.build \notin Finished
    PROVE  /\ GateClosed(StartDeploy(tx))
           /\ \/ StartDeploy(tx).job = tx.job
              \/ /\ \A k \in Regular : tx.job[k] \in Finished
                 /\ \E k \in Regular : tx.job[k] \in {Failed, Errored}
                 /\ StartDeploy(tx).job = Skip(tx)
<1> DEFINE d == StartDeploy(tx)
<1>0. Typed(tx)  BY DEF Consistent
<1>1. CASE ~AllRegularFinished(tx) \/ tx.build = Deploying \/ Deploy = {}
  <2>1. d = tx  BY <1>1 DEF StartDeploy
  <2>2. CASE ~AllRegularFinished(tx) \/ Deploy = {}
    BY <2>1, <2>2 DEF GateClosed, AllRegularFinished
  <2>3. CASE tx.build = Deploying
    BY <2>1, <2>3 DEF GateClosed, Consistent, GateOpened
  <2>4. QED  BY <1>1, <2>1, <2>2, <2>3
<1>2. CASE /\ AllRegularFinished(tx) /\ tx.build # Deploying /\ Deploy # {}
           /\ RegularPassed(tx)
  <2>1. \A k \in Regular : tx.job[k] = Passed  BY <1>0, <1>2, RegularVerdict
  <2>2. d = PublishPerformDeployJobMessages(Transition(tx, Deploying))
    BY <1>2 DEF StartDeploy
  <2>3. Transition(tx, Deploying).job = tx.job  BY DEF Transition
  <2>4. d.job = tx.job
    <3> DEFINE t == Transition(tx, Deploying)
    <3> HIDE DEF t
    <3>1. PublishPerformDeployJobMessages(t).job = t.job
      BY DEF PublishPerformDeployJobMessages
    <3>2. QED  BY <2>2, <2>3, <3>1 DEF t
  <2>5. QED  BY <2>1, <2>4 DEF GateClosed
<1>3. CASE /\ AllRegularFinished(tx) /\ tx.build # Deploying /\ Deploy # {}
           /\ ~RegularPassed(tx)
  <2>1. \E k \in Regular : tx.job[k] \in {Failed, Errored}
    BY <1>0, <1>3, RegularVerdict
  <2>2. d.job = Skip(tx)  BY <1>3 DEF StartDeploy, CancelDeployJobs, Skip
  <2>3. \A i \in Deploy : d.job[i] # Initialized  BY <2>2 DEF Skip, Jobs
  <2>4. QED  BY <1>3, <2>1, <2>2, <2>3 DEF GateClosed, AllRegularFinished
<1>4. QED  BY <1>1, <1>2, <1>3

\* Job j was open and has ended with s, and the jobs of skipped went with it.
Ended(jobs, j, s) ==
    /\ job[j] \in {Initialized, Started}
    /\ s \in Finished
    /\ jobs[j] = s
    /\ \A i \in Jobs \ {j} :
          \/ jobs[i] = job[i]
          \/ i \in Deploy /\ job[i] = Initialized /\ jobs[i] = Cancelled
    /\ (\E i \in Jobs \ {j} : jobs[i] # job[i]) =>
          /\ \A k \in Regular : jobs[k] \in Finished
          /\ \E k \in Regular : jobs[k] \in {Failed, Errored}

\* Only a job that starts moves without an end.
OnlyStarts(jobs, j) ==
    /\ \A i \in Jobs \ {j} : jobs[i] = job[i]
    /\ \/ jobs[j] = job[j]
       \/ job[j] \in {Initialized, Started} /\ jobs[j] = Started

\* What JobUpdater#perform does to the jobs.
LEMMA PerformMoves ==
    ASSUME RInv, NEW j \in Jobs, NEW status \in MessageStatus
    PROVE  /\ GateClosed(Perform(j, status))
           /\ \/ OnlyStarts(Perform(j, status).job, j)
              \/ \E s \in Finished : Ended(Perform(j, status).job, j, s)
<1> DEFINE tx == StartedTx(j, status)
           d == StartDeploy(tx)
           p == Perform(j, status)
<1>0. /\ p = FinalizeBuild(d)
      /\ IInv /\ GateClosed(Begin) /\ Consistent(Begin)
      /\ job \in [Jobs -> JobStatus]
      /\ Begin.job = job
  BY DEF Perform, StartedTx, RInv, IInv, Consistent, Typed, Begin
<1>1. ASSUME Rows(p) = rows
      PROVE  GateClosed(p) /\ OnlyStarts(p.job, j)
  <2> HIDE DEF p
  <2>1. p.job = job  BY <1>1 DEF Rows, rows
  <2>2. QED  BY <1>0, <2>1 DEF GateClosed, OnlyStarts
<1>2. CASE build \in Finished  BY <1>0, <1>1, <1>2, VerdictUnmoved
<1>3. CASE tx = Rejected
  <2>1. tx.raised  BY <1>3 DEF Rejected, Begin
  <2>2. p = tx  BY <1>0, <2>1 DEF StartDeploy, FinalizeBuild
  <2>3. Rows(p) = rows  BY <1>3, <2>2 DEF Rejected, Begin, Rows, rows
  <2>4. QED  BY <1>1, <2>3
<1>4. ASSUME build \notin Finished, tx # Rejected
      PROVE  /\ GateClosed(p)
             /\ \/ p.job = tx.job
                \/ /\ \A k \in Regular : tx.job[k] \in Finished
                   /\ \E k \in Regular : tx.job[k] \in {Failed, Errored}
                   /\ p.job = Skip(tx)
  <2>1. Consistent(tx) /\ tx.raised = FALSE /\ tx.build \notin Finished
    <3>1. CASE tx = Begin  BY <1>0, <1>4, <3>1 DEF Begin
    <3>2. QED  BY <1>0, <1>4, <3>1, StartedConsistent
  <2>2. /\ GateClosed(d)
        /\ \/ d.job = tx.job
           \/ /\ \A k \in Regular : tx.job[k] \in Finished
              /\ \E k \in Regular : tx.job[k] \in {Failed, Errored}
              /\ d.job = Skip(tx)
    BY <2>1, DeployMoves
  <2>3. p.job = d.job
    <3> HIDE DEF d
    <3>1. FinalizeBuild(d).job = d.job  BY DEF FinalizeBuild, Transition
    <3>2. QED  BY <1>0, <3>1
  <2> HIDE DEF d, p, tx
  <2>4. QED  BY <2>2, <2>3 DEF GateClosed
<1>5. CASE build \notin Finished /\ tx = Begin
  <2>1. tx # Rejected  BY <1>5 DEF Begin, Rejected
  <2>2. p.job = job \/ p.job = Skip(Begin)
    BY <1>0, <1>4, <1>5, <2>1
  <2>3. CASE /\ \A k \in Regular : job[k] \in Finished
             /\ \E k \in Regular : job[k] \in {Failed, Errored}
    <3>1. \A i \in Deploy : job[i] # Initialized
      BY <1>0, <2>3 DEF GateClosed
    <3>2. Skip(Begin) = job  BY <1>0, <3>1 DEF Skip
    <3>3. QED  BY <1>0, <1>4, <1>5, <2>1, <2>2, <3>2 DEF OnlyStarts
  <2>4. QED  BY <1>0, <1>4, <1>5, <2>1, <2>3 DEF OnlyStarts
<1>6. CASE build \notin Finished /\ tx # Rejected /\ tx # Begin
  <2>0. SUFFICES OnlyStarts(p.job, j) \/ \E s \in Finished : Ended(p.job, j, s)
    BY <1>4, <1>6
  <2> HIDE DEF tx, d, p
  <2>1. PICK s \in {Started} \cup Finished :
            /\ job[j] \in {Initialized, Started}
            /\ tx.job = [job EXCEPT ![j] = s]
    <3>1. CASE /\ job[j] \in {Initialized, Started}
               /\ build = Initialized
               /\ Written(tx, Started, [job EXCEPT ![j] = Started], history,
                          [logs EXCEPT ![j] = FALSE], dispatched,
                          Append(notices, Started))
      BY <3>1 DEF Written
    <3>2. CASE /\ job[j] \in {Initialized, Started}
               /\ build # Initialized
               /\ Written(tx, build, [job EXCEPT ![j] = Started], history,
                          [logs EXCEPT ![j] = FALSE], dispatched, notices)
      BY <3>2 DEF Written
    <3>3. CASE /\ job[j] = Started \/ (job[j] = Initialized /\ status = Errored)
               /\ status \in Finished
               /\ Written(tx, build, [job EXCEPT ![j] = status],
                          [history EXCEPT ![j] = @ + 1], logs, dispatched, notices)
      BY <3>3 DEF Written
    <3>4. QED  BY <1>0, <1>6, <3>1, <3>2, <3>3, FirstSteps DEF tx
  <2>2. /\ tx.job[j] = s
        /\ \A i \in Jobs \ {j} : tx.job[i] = job[i]
    BY <1>0, <2>1
  <2>3. CASE p.job = tx.job /\ s = Started
    BY <2>1, <2>2, <2>3 DEF OnlyStarts
  <2>4. CASE p.job = tx.job /\ s \in Finished
    <3>1. Ended(p.job, j, s)  BY <2>1, <2>2, <2>4 DEF Ended
    <3>2. QED  BY <2>4, <3>1
  <2>5. CASE /\ \A k \in Regular : tx.job[k] \in Finished
             /\ \E k \in Regular : tx.job[k] \in {Failed, Errored}
             /\ p.job = Skip(tx)
    <3>1. \A i \in Jobs : \/ p.job[i] = tx.job[i]
                          \/ /\ i \in Deploy /\ tx.job[i] = Initialized
                             /\ p.job[i] = Cancelled
      BY <2>5 DEF Skip
    <3>2. p.job[j] = s  BY <2>1, <2>2, <3>1
    <3>3. CASE s \in Finished
      <4>1. \A k \in Regular : p.job[k] = tx.job[k]
        BY <2>5, <3>1 DEF Jobs
      <4>2. Ended(p.job, j, s)
        BY <2>1, <2>2, <2>5, <3>1, <3>2, <3>3, <4>1 DEF Ended
      <4>3. QED  BY <3>3, <4>2
    <3>4. CASE s = Started
      <4>1. j \notin Regular  BY <2>2, <2>5, <3>4
      <4>2. \A k \in Regular : tx.job[k] = job[k]
        BY <2>2, <4>1 DEF Jobs
      <4>3. \A i \in Deploy : job[i] # Initialized
        BY <1>0, <2>5, <4>2 DEF GateClosed
      <4>4. \A i \in Jobs \ {j} : p.job[i] = job[i]
        BY <2>2, <3>1, <4>3
      <4>5. QED  BY <2>1, <3>2, <3>4, <4>4 DEF OnlyStarts
    <3>5. QED  BY <3>3, <3>4
  <2>6. QED  BY <1>4, <1>6, <2>3, <2>4, <2>5
<1>7. QED  BY <1>2, <1>3, <1>5, <1>6

LEMMA RefinementInvariant == RInv /\ [Next]_vars => RInv'
<1> SUFFICES ASSUME RInv, [Next]_vars  PROVE RInv'
  OBVIOUS
<1>1. IInv'  BY NextInvariant DEF RInv
<1>2. ASSUME job' = job  PROVE GateClosed(Begin)'
  BY <1>2 DEF RInv, GateClosed, Begin
<1>3. ASSUME NEW j \in Jobs, NEW status \in MessageStatus, UpdateJob(j, status)
      PROVE  GateClosed(Begin)'
  <2> DEFINE p == Perform(j, status)
  <2>1. GateClosed(p)  BY PerformMoves
  <2>2. job' = p.job  BY <1>3 DEF UpdateJob
  <2> HIDE DEF p
  <2>3. QED  BY <2>1, <2>2 DEF GateClosed, Begin
<1>4. ASSUME NEW r \in Requests, Restart(r)  PROVE GateClosed(Begin)'
  BY <1>4 DEF Restart, GateClosed, Begin, Jobs
<1>5. GateClosed(Begin)'
  BY <1>2, <1>3, <1>4
     DEF Next, AppendLog, RequestRestart, RollbackRestart, vars, rows
<1>6. QED  BY <1>1, <1>5 DEF RInv

-----------------------------------------------------------------------------
\* The contract's verdict, as the invariant determines it from the outcomes.
VerdictMatches ==
    VerdictOf(build) =
        IF \E j \in Jobs : OutcomeOf(job[j]) = "open"
        THEN "none" ELSE Contract!Worst([j \in Jobs |-> OutcomeOf(job[j])])

\* The outcomes tell the statuses apart as far as the contract goes.
LEMMA Outcomes ==
    ASSUME NEW s \in JobStatus
    PROVE  /\ OutcomeOf(s) = "open" <=> s \in {Initialized, Started}
           /\ OutcomeOf(s) = "passed" <=> s = Passed
           /\ OutcomeOf(s) = "failed" <=> s = Failed
           /\ OutcomeOf(s) = "errored" <=> s = Errored
           /\ OutcomeOf(s) = "skipped" <=> s = Cancelled
           /\ OutcomeOf(s) \in Contract!Ends <=> s \in Finished
BY DEF OutcomeOf, JobStatus, Contract!Ends

LEMMA InvariantVerdict == IInv => VerdictMatches
<1> SUFFICES ASSUME IInv  PROVE VerdictMatches
  OBVIOUS
<1> DEFINE out == [j \in Jobs |-> OutcomeOf(job[j])]
<1>1. /\ job \in [Jobs -> JobStatus]
      /\ build \in BuildStatus
      /\ build \in Finished <=> \A j \in Jobs : job[j] \in Over
      /\ build = Passed => \A j \in Jobs : job[j] = Passed
      /\ build = Failed => /\ \E j \in Jobs : job[j] = Failed
                           /\ \A j \in Jobs : job[j] # Errored
      /\ build = Errored => \E j \in Jobs : job[j] = Errored
  BY DEF IInv, Consistent, Typed, VerdictOfJobs, VerdictAfterJobs, Closed, Begin
<1>2. \A j \in Jobs : /\ job[j] \in JobStatus
                      /\ out[j] = OutcomeOf(job[j])
  BY <1>1
<1>3. \A j \in Jobs : /\ out[j] = "open" <=> job[j] \notin Over
                      /\ out[j] = "failed" <=> job[j] = Failed
                      /\ out[j] = "errored" <=> job[j] = Errored
  <2>1. \A j \in Jobs : job[j] \in {Initialized, Started} <=> job[j] \notin Over
    BY <1>2 DEF JobStatus
  <2>2. QED  BY <1>2, <2>1, Outcomes
<1>4. Contract!Jobs = Jobs  BY DEF Contract!Jobs, Jobs
<1> HIDE DEF out
<1>5. CASE build \notin Finished
  <2>1. VerdictOf(build) = "none"  BY <1>5 DEF VerdictOf
  <2>2. \E j \in Jobs : OutcomeOf(job[j]) = "open"  BY <1>1, <1>2, <1>3, <1>5
  <2>3. QED  BY <2>1, <2>2 DEF VerdictMatches
<1>6. CASE build \in Finished
  <2>1. ~\E j \in Jobs : OutcomeOf(job[j]) = "open"  BY <1>1, <1>2, <1>3, <1>6
  <2>2. VerdictOf(build) = Contract!Worst(out)
    <3>1. CASE build = Passed
      BY <1>1, <1>3, <1>4, <3>1 DEF VerdictOf, Contract!Worst
    <3>2. CASE build = Failed
      BY <1>1, <1>3, <1>4, <3>2 DEF VerdictOf, Contract!Worst
    <3>3. CASE build = Errored
      BY <1>1, <1>3, <1>4, <3>3 DEF VerdictOf, Contract!Worst
    <3>4. QED  BY <1>6, <3>1, <3>2, <3>3
  <2>3. QED  BY <2>1, <2>2 DEF VerdictMatches, out
<1>7. QED  BY <1>5, <1>6

\* What the refinement uses of the invariant, in one state and in the next.
RowsMatch == job \in [Jobs -> JobStatus] /\ VerdictMatches

LEMMA InvariantRows == RInv => RowsMatch
<1>1. RInv => job \in [Jobs -> JobStatus]
  BY DEF RInv, IInv, Consistent, Typed, Begin
<1>2. QED  BY <1>1, InvariantVerdict DEF RInv, RowsMatch

LEMMA InvariantRowsNext == RInv' => RowsMatch'
BY InvariantRows, PTL

-----------------------------------------------------------------------------
\* A job that ends is a step of the contract.
LEMMA EndIsContractStep ==
    ASSUME RInv, RInv', NEW j \in Jobs, NEW s \in Finished,
           Ended(job', j, s), runs' = runs
    PROVE  Contract!JobEnds(j, OutcomeOf(s))
<1> DEFINE out == [i \in Jobs |-> OutcomeOf(job[i])]
           new == [i \in Jobs |-> OutcomeOf(job'[i])]
           skipped == {i \in Jobs \ {j} : job'[i] # job[i]}
<1>1. /\ job \in [Jobs -> JobStatus] /\ job' \in [Jobs -> JobStatus]
      /\ VerdictMatches /\ VerdictMatches'
  BY InvariantRows, InvariantRowsNext DEF RowsMatch
<1>2. Contract!Jobs = Jobs  BY DEF Contract!Jobs, Jobs
<1>3. \A i \in Jobs : /\ job[i] \in JobStatus /\ job'[i] \in JobStatus
                      /\ out[i] = OutcomeOf(job[i])
                      /\ new[i] = OutcomeOf(job'[i])
  BY <1>1
<1>4. out[j] = "open"  BY <1>3, Outcomes DEF Ended
<1>5. \A i \in Jobs \ {j} :
          IF i \in skipped
          THEN i \in Deploy /\ out[i] = "open" /\ new[i] = "skipped"
          ELSE new[i] = out[i]
  BY <1>3, Outcomes DEF Ended
<1>6. skipped \in SUBSET {d \in Deploy \ {j} : out[d] = "open"}  BY <1>5
<1>7. new = [i \in Contract!Jobs |-> IF i = j THEN OutcomeOf(s)
                                    ELSE IF i \in skipped THEN "skipped"
                                    ELSE out[i]]
  <2>1. job'[j] = s  BY DEF Ended
  <2>2. \A i \in Jobs : new[i] = IF i = j THEN OutcomeOf(s)
                                 ELSE IF i \in skipped THEN "skipped"
                                 ELSE out[i]
    BY <1>3, <1>5, <2>1
  <2> HIDE DEF skipped, out
  <2>2a. \A i \in Jobs : OutcomeOf(job'[i])
                              = IF i = j THEN OutcomeOf(s)
                                 ELSE IF i \in skipped THEN "skipped"
                                 ELSE out[i]
    BY <2>2
  <2>3. QED  BY <1>2, <2>2a
<1>8. skipped # {} => Contract!Spoiled(new)
  <2>1. SUFFICES ASSUME skipped # {}  PROVE Contract!Spoiled(new)
    OBVIOUS
  <2>2. /\ \A k \in Regular : job'[k] \in Finished
        /\ \E k \in Regular : job'[k] \in {Failed, Errored}
    BY <2>1 DEF Ended
  <2>3. \A k \in Regular : new[k] \in Contract!Ends
    BY <1>3, <2>2, Outcomes DEF Jobs
  <2>4. \E k \in Regular : new[k] # "passed"
    BY <1>3, <2>2, Outcomes DEF Jobs
  <2>5. QED  BY <2>3, <2>4 DEF Contract!Spoiled
<1>9. VerdictOf(build') = IF \E i \in Contract!Jobs : new[i] = "open"
                          THEN "none" ELSE Contract!Worst(new)
  BY <1>1, <1>2, <1>3 DEF VerdictMatches
<1> HIDE DEF skipped
<1>10. QED
  BY <1>4, <1>6, <1>7, <1>8, <1>9 DEF Contract!JobEnds

\* A step that only starts a job is invisible in the outcomes.
LEMMA StartIsInvisible ==
    ASSUME RInv, RInv', NEW j \in Jobs, OnlyStarts(job', j), runs' = runs
    PROVE  UNCHANGED Contract!contractVars
<1>1. /\ job \in [Jobs -> JobStatus] /\ job' \in [Jobs -> JobStatus]
      /\ VerdictMatches /\ VerdictMatches'
  BY InvariantRows, InvariantRowsNext DEF RowsMatch
<1>2. \A i \in Jobs : OutcomeOf(job'[i]) = OutcomeOf(job[i])
  BY <1>1, Outcomes DEF OnlyStarts
<1>3. [i \in Jobs |-> OutcomeOf(job'[i])] = [i \in Jobs |-> OutcomeOf(job[i])]
  BY <1>2
<1>4. VerdictOf(build') = VerdictOf(build)
  BY <1>1, <1>2, <1>3 DEF VerdictMatches
<1>5. QED  BY <1>3, <1>4 DEF Contract!contractVars

LEMMA StepRefines ==
    RInv /\ RInv' /\ [Next]_vars => [Contract!Next]_(Contract!contractVars)
<1> SUFFICES ASSUME RInv, RInv', [Next]_vars
             PROVE  [Contract!Next]_(Contract!contractVars)
  OBVIOUS
<1>1. ASSUME NEW j \in Jobs, NEW status \in MessageStatus, UpdateJob(j, status)
      PROVE  [Contract!Next]_(Contract!contractVars)
  <2> DEFINE p == Perform(j, status)
  <2>1. job' = p.job /\ runs' = runs  BY <1>1 DEF UpdateJob
  <2>2. OnlyStarts(p.job, j) \/ \E s \in Finished : Ended(p.job, j, s)
    BY PerformMoves
  <2> HIDE DEF p
  <2>3. CASE OnlyStarts(p.job, j)  BY <2>1, <2>3, StartIsInvisible
  <2>4. CASE \E s \in Finished : Ended(p.job, j, s)
    <3>1. PICK s \in Finished : Ended(job', j, s)  BY <2>1, <2>4
    <3>2. Contract!JobEnds(j, OutcomeOf(s))  BY <2>1, <3>1, EndIsContractStep
    <3>3. OutcomeOf(s) \in Contract!Ends  BY Outcomes DEF JobStatus
    <3>4. j \in Contract!Jobs  BY DEF Contract!Jobs, Jobs
    <3>5. QED  BY <3>2, <3>3, <3>4 DEF Contract!Next
  <2>5. QED  BY <2>2, <2>3, <2>4
<1>2. ASSUME UNCHANGED <<build, job, runs>>
      PROVE  [Contract!Next]_(Contract!contractVars)
  BY <1>2 DEF Contract!contractVars
<1>3. ASSUME NEW r \in Requests, Restart(r)  PROVE Contract!RunAgain
  <2>1. /\ build' = Initialized
        /\ job' = [j \in Jobs |-> Initialized]
        /\ runs' = runs + 1
        /\ \A j \in Jobs : job[j] \in Over
    BY <1>3 DEF Restart
  <2>2. build \in Finished  BY <2>1 DEF RInv, IInv, Closed, Begin
  <2>3. VerdictOf(build) # "none" /\ VerdictOf(build') = "none"
    BY <2>1, <2>2 DEF VerdictOf
  <2>4. OutcomeOf(Initialized) = "open"  BY DEF OutcomeOf
  <2>5. [j \in Jobs |-> OutcomeOf(job'[j])] = [j \in Contract!Jobs |-> "open"]
    BY <2>1, <2>4 DEF Contract!Jobs, Jobs
  <2>6. QED  BY <2>1, <2>3, <2>5 DEF Contract!RunAgain
<1>4. QED
  BY <1>1, <1>2, <1>3
     DEF Next, AppendLog, RequestRestart, RollbackRestart, vars, rows, Contract!Next

\* The rows implement what a project is promised (BuildContract): every job
\* ends once, the verdict comes in the very step in which the last job ends,
\* is the worst of the outcomes and stands until everything runs again, for
\* any message the consumer gets and any restart that is asked for.
THEOREM ContractImplemented == Spec => ImplementsContract
<1>1. Init => Contract!Init
  <2> SUFFICES ASSUME Init  PROVE Contract!Init
    OBVIOUS
  <2>1. OutcomeOf(Initialized) = "open"  BY DEF OutcomeOf
  <2>2. [j \in Jobs |-> OutcomeOf(job[j])] = [j \in Contract!Jobs |-> "open"]
    BY <2>1 DEF Init, Contract!Jobs, Jobs
  <2>3. QED  BY <2>2 DEF Init, Contract!Init, VerdictOf
<1>2. Init => RInv
  <2>1. Init => GateClosed(Begin)  BY DEF Init, GateClosed, Begin, Jobs
  <2>2. QED  BY <2>1, InitInvariant DEF RInv
<1>3. RInv /\ [Next]_vars => RInv'  BY RefinementInvariant
<1>4. QED
  BY <1>1, <1>2, <1>3, StepRefines, PTL
     DEF Spec, ImplementsContract, Contract!Spec

-----------------------------------------------------------------------------
(* The pipeline.                                                            *)

\* The run that is executed: the next one already while a restart is published.
Current == IF reopening = None THEN runs ELSE runs + 1

\* A restart that was published and undone leaves work for the next run with a
\* build that has its verdict.
OfRun(n) == n <= runs \/ (n = runs + 1 /\ \A j \in Jobs : Settled(j))

\* What a message says was reported, and not in a later run.
Told(m) ==
    /\ OfRun(m.run)
    /\ m.status \in Finished => <<m.job, m.run, m.status>> \in reported

AllTold ==
    /\ \A i \in DOMAIN statuses : Told(statuses[i])
    /\ \A c \in Consumers : handling[c] # None => Told(handling[c].msg)

\* Nothing is executed for a later run.
Timely == \A e \in Executions : performs[e] + executing[e] > 0 => OfRun(e.run)

\* A restart finds all jobs settled, and they stay until it ends.
Reopened == reopening # None => \A j \in Jobs : Settled(j)

\* While there are regular jobs, a deploy job is sent when the build deploys.
SentWhileDeploying(tx) ==
    Regular # {} =>
        \A d \in Deploy : tx.dispatched[d] > 0 => tx.build \in {Deploying} \cup Finished

\* An outcome of the job waits in the queue, or with a consumer.
Queued(i, j) == statuses[i].job = j /\ statuses[i].status \in Finished

Held(c, j) ==
    /\ handling[c] # None
    /\ ~handling[c].committed
    /\ handling[c].msg.job = j
    /\ handling[c].msg.status \in Finished

Answered(j) ==
    \/ \E i \in DOMAIN statuses : Queued(i, j)
    \/ \E c \in Consumers : Held(c, j)

\* A worker is to end the job: it was sent and is not settled, or a restart that
\* has not committed has sent it.
Pending(j) ==
    IF reopening = None THEN ~Settled(j) /\ dispatched[j] > 0 ELSE j \in FirstJobs

\* A job is with a worker once, before there is an answer, in this run.
OneExecution ==
    \A e \in Executions : performs[e] + executing[e] > 0 =>
        /\ performs[e] + executing[e] = 1
        /\ e.run = Current
        /\ Pending(e.job)
        /\ ~Answered(e.job)

\* There is one answer, to a job that a worker was to end.
OneAnswer ==
    \A j \in Jobs :
        /\ \A i, k \in DOMAIN statuses : Queued(i, j) /\ Queued(k, j) => i = k
        /\ \A c, d \in Consumers : Held(c, j) /\ Held(d, j) => c = d
        /\ \A i \in DOMAIN statuses, c \in Consumers : ~(Queued(i, j) /\ Held(c, j))
        /\ Answered(j) => Pending(j)

AnswersOfThisRun ==
    /\ \A i \in DOMAIN statuses :
          statuses[i].status \in Finished => statuses[i].run = Current
    /\ \A c \in Consumers :
          handling[c] # None /\ ~handling[c].committed
          /\ handling[c].msg.status \in Finished => handling[c].msg.run = Current

\* Who has an outcome was sent.
OutcomesOfSent == \A j \in Jobs : job[j] \in Finished => dispatched[j] > 0

Orderly == OneExecution /\ OneAnswer /\ AnswersOfThisRun /\ OutcomesOfSent

\* The inductive invariant.
PInv ==
    /\ RInv
    /\ PipelineTypeOK
    /\ runs <= MaxRuns
    /\ SentWhileDeploying(Begin)
    /\ AllTold /\ Timely /\ Reopened
    /\ OutcomesReported /\ DeployAfterSuccess
    /\ crashes = 0 /\ Regular # {} => Orderly

-----------------------------------------------------------------------------
\* start_deploy sends the deploy jobs when all regular jobs have passed and the
\* build begins to deploy, or sends nothing.
LEMMA DeploySends ==
    ASSUME NEW tx, Consistent(tx), tx.raised = FALSE, tx.build \notin Finished
    PROVE  \/ /\ StartDeploy(tx).dispatched = tx.dispatched
              /\ StartDeploy(tx).build = tx.build
           \/ /\ tx.build # Deploying
              /\ \A k \in Regular : tx.job[k] = Passed
              /\ StartDeploy(tx).job = tx.job
              /\ StartDeploy(tx).build = Deploying
              /\ StartDeploy(tx).dispatched =
                    [i \in Jobs |-> IF i \in Deploy THEN tx.dispatched[i] + 1
                                    ELSE tx.dispatched[i]]
<1> DEFINE d == StartDeploy(tx)
<1>0. Typed(tx)  BY DEF Consistent
<1>1. CASE ~AllRegularFinished(tx) \/ tx.build = Deploying \/ Deploy = {}
  BY <1>1 DEF StartDeploy
<1>2. CASE /\ AllRegularFinished(tx) /\ tx.build # Deploying /\ Deploy # {}
           /\ RegularPassed(tx)
  <2>1. \A k \in Regular : tx.job[k] = Passed  BY <1>0, <1>2, RegularVerdict
  <2> DEFINE t == Transition(tx, Deploying)
  <2>2. d = PublishPerformDeployJobMessages(t)  BY <1>2 DEF StartDeploy
  <2>3. /\ t.job = tx.job /\ t.dispatched = tx.dispatched
        /\ t.build = Deploying /\ t.raised = FALSE
    BY <1>0, <1>2 DEF Transition, BuildSources, Typed, BuildStatus
  <2> HIDE DEF t
  <2>4. PublishPerformDeployJobMessages(t) =
            [t EXCEPT !.dispatched =
                [i \in Jobs |-> IF i \in Deploy THEN @[i] + 1 ELSE @[i]]]
    BY <2>3 DEF PublishPerformDeployJobMessages
  <2>5. /\ d.job = tx.job /\ d.build = Deploying
        /\ d.dispatched = [i \in Jobs |-> IF i \in Deploy THEN tx.dispatched[i] + 1
                                          ELSE tx.dispatched[i]]
    BY <2>2, <2>3, <2>4
  <2>6. QED  BY <1>2, <2>1, <2>5
<1>3. CASE /\ AllRegularFinished(tx) /\ tx.build # Deploying /\ Deploy # {}
           /\ ~RegularPassed(tx)
  <2>1. d = CancelDeployJobs(tx)  BY <1>3 DEF StartDeploy
  <2>2. d.dispatched = tx.dispatched /\ d.build = tx.build
    BY <2>1 DEF CancelDeployJobs
  <2>3. QED  BY <2>2
<1>4. QED  BY <1>1, <1>2, <1>3

\* One more message for each deploy job.
AndDeploy(sent) ==
    [i \in Jobs |-> IF i \in Deploy THEN sent[i] + 1 ELSE sent[i]]

\* What JobUpdater#perform does to the jobs and sends to the workers.
LEMMA PerformWrites ==
    ASSUME RInv, SentWhileDeploying(Begin), NEW j \in Jobs, NEW status \in MessageStatus
    PROVE  /\ \A i \in Jobs :
                 \/ Perform(j, status).job[i] = job[i]
                 \/ i = j /\ Perform(j, status).job[i] = status
                 \/ Perform(j, status).job[i] = Cancelled
           /\ SentWhileDeploying(Perform(j, status))
           /\ \/ Perform(j, status).dispatched = dispatched
              \/ /\ Perform(j, status).dispatched = AndDeploy(dispatched)
                 /\ \A k \in Regular : Perform(j, status).job[k] = Passed
                 /\ Regular # {} => \A d \in Deploy : dispatched[d] = 0
<1> DEFINE tx == StartedTx(j, status)
           d == StartDeploy(tx)
           p == Perform(j, status)
<1>0. /\ p = FinalizeBuild(d)
      /\ IInv /\ Consistent(Begin)
      /\ job \in [Jobs -> JobStatus] /\ dispatched \in [Jobs -> Nat]
      /\ Begin.job = job /\ Begin.dispatched = dispatched /\ Begin.build = build
  BY DEF Perform, StartedTx, RInv, IInv, Consistent, Typed, Begin
<1>1. ASSUME Rows(p) = rows
      PROVE  /\ p.job = job /\ p.dispatched = dispatched
             /\ SentWhileDeploying(p)
  <2> HIDE DEF p
  <2>1. p.job = job /\ p.dispatched = dispatched /\ p.build = build
    BY <1>1 DEF Rows, rows
  <2>2. QED  BY <1>0, <2>1 DEF SentWhileDeploying
<1>2. CASE build \in Finished  BY <1>0, <1>1, <1>2, VerdictUnmoved
<1>3. CASE tx = Rejected
  <2>1. tx.raised  BY <1>3 DEF Rejected, Begin
  <2>2. p = tx  BY <1>0, <2>1 DEF StartDeploy, FinalizeBuild
  <2>3. Rows(p) = rows  BY <1>3, <2>2 DEF Rejected, Begin, Rows, rows
  <2>4. QED  BY <1>1, <2>3
<1>4. CASE build \notin Finished /\ tx # Rejected
  <2>1. Consistent(tx) /\ tx.raised = FALSE /\ tx.build \notin Finished
    <3>1. CASE tx = Begin  BY <1>0, <1>4, <3>1 DEF Begin
    <3>2. QED  BY <1>0, <1>4, <3>1, StartedConsistent
  <2>2. /\ tx.dispatched = dispatched
        /\ tx.build = build \/ (build = Initialized /\ tx.build = Started)
        /\ \A i \in Jobs : tx.job[i] = job[i] \/ (i = j /\ tx.job[i] = status)
    <3>1. CASE status = Initialized /\ tx = Begin  BY <1>0, <3>1
    <3>2. CASE /\ build = Initialized
               /\ status = Started
               /\ Written(tx, Started, [job EXCEPT ![j] = Started], history,
                          [logs EXCEPT ![j] = FALSE], dispatched,
                          Append(notices, Started))
      BY <1>0, <3>2 DEF Written
    <3>3. CASE /\ build # Initialized
               /\ status = Started
               /\ Written(tx, build, [job EXCEPT ![j] = Started], history,
                          [logs EXCEPT ![j] = FALSE], dispatched, notices)
      BY <1>0, <3>3 DEF Written
    <3>4. CASE Written(tx, build, [job EXCEPT ![j] = status],
                       [history EXCEPT ![j] = @ + 1], logs, dispatched, notices)
      BY <1>0, <3>4 DEF Written
    <3>5. QED  BY <1>0, <1>4, <3>1, <3>2, <3>3, <3>4, FirstSteps DEF tx
  <2> HIDE DEF tx
  <2>3. \/ /\ d.dispatched = tx.dispatched
           /\ d.build = tx.build
        \/ /\ tx.build # Deploying
           /\ \A k \in Regular : tx.job[k] = Passed
           /\ d.job = tx.job
           /\ d.build = Deploying
           /\ d.dispatched = AndDeploy(tx.dispatched)
    BY <2>1, DeploySends DEF AndDeploy
  <2>4. d.job = tx.job \/ d.job = Skip(tx)  BY <2>1, DeployMoves
  <2> HIDE DEF d
  <2>5. /\ p.job = d.job /\ p.dispatched = d.dispatched
        /\ p.build = d.build \/ p.build \in Finished
    BY <1>0 DEF FinalizeBuild, Transition
  <2> HIDE DEF p
  <2>6. \A i \in Jobs : \/ p.job[i] = job[i]
                        \/ i = j /\ p.job[i] = status
                        \/ p.job[i] = Cancelled
    BY <2>2, <2>4, <2>5 DEF Skip
  <2>7. CASE d.dispatched = tx.dispatched /\ d.build = tx.build
    BY <1>0, <2>2, <2>5, <2>6, <2>7 DEF SentWhileDeploying, p
  <2>8. CASE /\ tx.build # Deploying
             /\ \A k \in Regular : tx.job[k] = Passed
             /\ d.job = tx.job
             /\ d.build = Deploying
             /\ d.dispatched = AndDeploy(tx.dispatched)
    <3>1. Regular # {} => \A i \in Deploy : dispatched[i] = 0
      <4>1. SUFFICES ASSUME Regular # {}, NEW i \in Deploy, dispatched[i] > 0
                     PROVE  FALSE
        BY <1>0 DEF Jobs
      <4>2. build = Deploying  BY <1>0, <1>4, <4>1 DEF SentWhileDeploying
      <4>3. QED  BY <2>2, <2>8, <4>2
    <3>2. SentWhileDeploying(p)  BY <2>5, <2>8 DEF SentWhileDeploying
    <3>3. QED  BY <2>2, <2>5, <2>6, <2>8, <3>1, <3>2 DEF p
  <2>9. QED  BY <2>3, <2>7, <2>8
<1>5. QED  BY <1>2, <1>3, <1>4

-----------------------------------------------------------------------------
\* The types of the queues.
QueueTypes ==
    /\ creation \in {"open", "committed", "rolledback"}
    /\ reopening \in Requests \cup {None}
    /\ performs \in [Executions -> Nat]
    /\ executing \in [Executions -> Nat]
    /\ statuses \in Seq(Messages)
    /\ handling \in [Consumers -> Handlings \cup {None}]
    /\ reported \subseteq Jobs \X (1..MaxRuns) \X Finished
    /\ crashes \in 0..MaxCrashes

\* The types of what is in the queues, and of the rows.
LEMMA PipelineTyped ==
    ASSUME PInv
    PROVE  /\ runs \in 1..MaxRuns /\ MaxRuns \in Nat
           /\ statuses \in Seq(Messages)
           /\ \A i \in DOMAIN statuses : statuses[i] \in Messages
           /\ \A c \in Consumers : handling[c] # None =>
                 /\ handling[c] \in Handlings
                 /\ handling[c].msg \in Messages
                 /\ handling[c].committed \in BOOLEAN
           /\ \A m \in Messages :
                 m.job \in Jobs /\ m.status \in MessageStatus /\ m.run \in 1..MaxRuns
           /\ \A e \in Executions : e.job \in Jobs /\ e.run \in 1..MaxRuns
           /\ \A e \in Executions : performs[e] \in Nat /\ executing[e] \in Nat
           /\ \A j \in Jobs : dispatched[j] \in Nat
<1>1. PipelineTypeOK /\ runs <= MaxRuns /\ MaxRuns \in Nat
  BY RunsAssumption DEF PInv
<1>2. runs \in 1..MaxRuns  BY <1>1 DEF PipelineTypeOK, TypeOK
<1>3. statuses \in Seq(Messages) /\ handling \in [Consumers -> Handlings \cup {None}]
  BY <1>1 DEF PipelineTypeOK
<1>4. \A i \in DOMAIN statuses : statuses[i] \in Messages  BY <1>3
<1>5. \A c \in Consumers : handling[c] # None =>
          /\ handling[c] \in Handlings
          /\ handling[c].msg \in Messages
          /\ handling[c].committed \in BOOLEAN
  BY <1>3 DEF Handlings
<1>6. /\ \A m \in Messages :
            m.job \in Jobs /\ m.status \in MessageStatus /\ m.run \in 1..MaxRuns
      /\ \A e \in Executions : e.job \in Jobs /\ e.run \in 1..MaxRuns
  BY DEF Messages, Executions
<1>7. /\ \A e \in Executions : performs[e] \in Nat /\ executing[e] \in Nat
      /\ \A j \in Jobs : dispatched[j] \in Nat
  BY <1>1 DEF PipelineTypeOK, TypeOK
<1>8. QED  BY <1>1, <1>2, <1>3, <1>4, <1>5, <1>6, <1>7

\* A step of the queues that leaves the rows alone and lets no message appear
\* from nowhere.
LEMMA QuietStep ==
    ASSUME PInv, UNCHANGED vars, QueueTypes', AllTold',
           reported \subseteq reported', crashes' = crashes, reopening' = reopening,
           \A e \in Executions :
               performs'[e] + executing'[e] > 0 => performs[e] + executing[e] > 0,
           crashes = 0 /\ Regular # {} => OneExecution' /\ OneAnswer' /\ AnswersOfThisRun'
    PROVE  PInv'
<1>1. /\ UNCHANGED <<build, job, history, logs, dispatched, notices, restarting, runs>>
      /\ RInv
  BY DEF vars, PInv
<1>2. RInv'  BY <1>1, RefinementInvariant
<1>3. SentWhileDeploying(Begin)'
  BY <1>1 DEF PInv, SentWhileDeploying, Begin
<1>4. Timely' /\ Reopened' /\ runs' <= MaxRuns
  BY <1>1 DEF PInv, Timely, OfRun, Reopened, Settled
<1>5. OutcomesReported' /\ DeployAfterSuccess'
  BY <1>1 DEF PInv, OutcomesReported, DeployAfterSuccess
<1>6. crashes' = 0 /\ Regular # {} => Orderly'
  BY <1>1 DEF PInv, Orderly, OutcomesOfSent
<1>7. PipelineTypeOK'
  BY <1>1 DEF PInv, PipelineTypeOK, QueueTypes, TypeOK
<1>8. QED  BY <1>2, <1>3, <1>4, <1>5, <1>6, <1>7 DEF PInv

\* One more message in the queue.
LEMMA MessageSent ==
    ASSUME PInv, NEW m \in Messages, statuses' = Append(statuses, m),
           handling' = handling, UNCHANGED vars, reopening' = reopening,
           reported \subseteq reported', Told(m)'
    PROVE  /\ statuses' \in Seq(Messages)
           /\ AllTold'
           /\ \A j \in Jobs :
                 Answered(j)' => Answered(j) \/ (j = m.job /\ m.status \in Finished)
           /\ /\ Orderly
              /\ m.status \in Finished =>
                    m.run = Current /\ Pending(m.job) /\ ~Answered(m.job)
              => OneAnswer' /\ AnswersOfThisRun'
<1>0. /\ UNCHANGED <<build, job, history, logs, dispatched, notices, restarting, runs>>
      /\ AllTold /\ reopening' = reopening
      /\ Current' = Current /\ \A j \in Jobs : Pending(j)' = Pending(j)
  BY DEF vars, PInv, Current, Pending, Settled
<1>1. PICK n \in Nat :
          /\ DOMAIN statuses' = DOMAIN statuses \cup {n}
          /\ n \notin DOMAIN statuses
          /\ \A i \in DOMAIN statuses : statuses'[i] = statuses[i]
          /\ statuses'[n] = m
          /\ statuses' \in Seq(Messages)
  <2>1. statuses \in Seq(Messages)  BY PipelineTyped
  <2>2. Len(statuses) + 1 \in Nat  BY <2>1
  <2>3. QED  BY <2>1, <2>2
<1>2. AllTold'  BY <1>0, <1>1 DEF AllTold, Told, OfRun, Settled
<1>3. \A c \in Consumers, j \in Jobs : Held(c, j)' <=> Held(c, j)
  BY DEF Held
<1>4. \A j \in Jobs :
          Answered(j)' => Answered(j) \/ (j = m.job /\ m.status \in Finished)
  BY <1>1, <1>3 DEF Answered, Queued, Held
<1>5. ASSUME Orderly,
             m.status \in Finished =>
                    m.run = Current /\ Pending(m.job) /\ ~Answered(m.job)
      PROVE  OneAnswer' /\ AnswersOfThisRun'
  <2>1. OneAnswer /\ AnswersOfThisRun  BY <1>5 DEF Orderly
  <2>2. AnswersOfThisRun'  BY <1>0, <1>1, <1>5, <2>1 DEF AnswersOfThisRun
  <2>3. SUFFICES ASSUME NEW j \in Jobs
                 PROVE  /\ \A i, k \in DOMAIN statuses' :
                               Queued(i, j)' /\ Queued(k, j)' => i = k
                        /\ \A c, d \in Consumers : Held(c, j)' /\ Held(d, j)' => c = d
                        /\ \A i \in DOMAIN statuses', c \in Consumers :
                               ~(Queued(i, j)' /\ Held(c, j)')
                        /\ Answered(j)' => Pending(j)'
    BY <2>2 DEF OneAnswer, Queued, Held
  <2>4. \A c, d \in Consumers : Held(c, j)' /\ Held(d, j)' => c = d
    BY <1>3, <2>1 DEF OneAnswer, Held
  <2>5. Answered(j)' => Pending(j)'
    BY <1>0, <1>4, <1>5, <2>1 DEF OneAnswer
  <2>6. CASE j = m.job /\ m.status \in Finished
    <3>1. /\ \A i \in DOMAIN statuses : ~Queued(i, j)'
          /\ \A c \in Consumers : ~Held(c, j)'
      BY <1>1, <1>3, <1>5, <2>6 DEF Answered, Queued, Held
    <3>2. QED  BY <1>1, <2>4, <2>5, <3>1 DEF Queued, Held
  <2>7. CASE ~(j = m.job /\ m.status \in Finished)
    <3>1. ~Queued(n, j)'  BY <1>1, <2>7 DEF Queued
    <3>2. \A i, k \in DOMAIN statuses' : Queued(i, j)' /\ Queued(k, j)' => i = k
      BY <1>1, <2>1, <3>1 DEF OneAnswer, Queued
    <3>3. \A i \in DOMAIN statuses', c \in Consumers : ~(Queued(i, j)' /\ Held(c, j)')
      BY <1>1, <1>3, <2>1, <3>1 DEF OneAnswer, Queued, Held
    <3>4. QED  BY <2>4, <2>5, <3>2, <3>3 DEF Queued, Held
  <2>8. QED  BY <2>6, <2>7
<1>6. QED  BY <1>1, <1>2, <1>4, <1>5

\* A worker takes a job: it is with a worker as before.
LEMMA StartExecutionKeeps ==
    ASSUME PInv, NEW e \in Executions, StartExecution(e)
    PROVE  PInv'
<1> DEFINE m == [job |-> e.job, status |-> Started, run |-> e.run]
<1>0. /\ performs[e] > 0
      /\ performs' = [performs EXCEPT ![e] = @ - 1]
      /\ executing' = [executing EXCEPT ![e] = @ + 1]
      /\ statuses' = Append(statuses, m)
      /\ UNCHANGED vars
      /\ UNCHANGED <<creation, reopening, handling, reported, crashes>>
      /\ QueueTypes /\ Timely
      /\ Current' = Current /\ \A j \in Jobs : Pending(j)' = Pending(j)
  BY DEF StartExecution, Send, PInv, PipelineTypeOK, QueueTypes, vars, Current, Pending,
         Settled
<1>1. m \in Messages /\ m.status = Started /\ m.run = e.run
  BY DEF Messages, MessageStatus, Executions
<1> HIDE DEF m
<1>2. /\ performs' \in [Executions -> Nat] /\ executing' \in [Executions -> Nat]
      /\ \A f \in Executions : performs'[f] + executing'[f] = performs[f] + executing[f]
  <2>1. performs \in [Executions -> Nat] /\ executing \in [Executions -> Nat]
    BY <1>0 DEF QueueTypes
  <2>2. /\ performs' \in [Executions -> Nat] /\ executing' \in [Executions -> Nat]
        /\ performs'[e] = performs[e] - 1 /\ executing'[e] = executing[e] + 1
        /\ \A f \in Executions \ {e} :
              performs'[f] = performs[f] /\ executing'[f] = executing[f]
    BY <1>0, <2>1
  <2>3. QED  BY <2>1, <2>2
<1>3. Told(m)'
  <2>1. performs[e] + executing[e] > 0  BY <1>0, PipelineTyped
  <2>2. OfRun(e.run) /\ UNCHANGED <<runs, job>>  BY <1>0, <2>1 DEF Timely, vars
  <2>3. QED  BY <1>0, <1>1, <2>2 DEF Told, OfRun, Settled
<1>4. /\ statuses' \in Seq(Messages) /\ AllTold'
      /\ \A j \in Jobs : Answered(j)' => Answered(j)
      /\ Orderly => OneAnswer' /\ AnswersOfThisRun'
  BY <1>0, <1>1, <1>3, MessageSent
<1>5. QueueTypes'  BY <1>0, <1>2, <1>4 DEF QueueTypes
<1>6. Orderly => OneExecution'
  <2>1. SUFFICES ASSUME Orderly, NEW f \in Executions, performs'[f] + executing'[f] > 0
                 PROVE  /\ performs'[f] + executing'[f] = 1
                        /\ f.run = Current' /\ Pending(f.job)' /\ ~Answered(f.job)'
    BY DEF OneExecution
  <2>2. /\ performs[f] + executing[f] = 1
        /\ f.run = Current /\ Pending(f.job) /\ ~Answered(f.job)
    BY <1>2, <2>1 DEF Orderly, OneExecution
  <2>3. f.job \in Jobs  BY DEF Executions
  <2>4. ~Answered(f.job)'  BY <1>4, <2>2, <2>3
  <2>5. QED  BY <1>0, <1>2, <2>2, <2>3, <2>4
<1>7. crashes = 0 /\ Regular # {} => OneExecution' /\ OneAnswer' /\ AnswersOfThisRun'
  BY <1>4, <1>6 DEF PInv
<1>8. QED  BY <1>0, <1>2, <1>4, <1>5, <1>7, QuietStep

\* A worker answers: the job is no longer with a worker.
LEMMA AnswerKeeps ==
    ASSUME PInv, NEW e \in Executions, NEW status \in Finished,
           performs[e] + executing[e] > 0,
           performs' \in [Executions -> Nat], executing' \in [Executions -> Nat],
           performs'[e] + executing'[e] = performs[e] + executing[e] - 1,
           \A f \in Executions \ {e} :
               performs'[f] + executing'[f] = performs[f] + executing[f],
           statuses' = Send(e, status),
           reported' = reported \cup {<<e.job, e.run, status>>},
           UNCHANGED vars, UNCHANGED <<creation, reopening, handling, crashes>>
    PROVE  PInv'
<1> DEFINE m == [job |-> e.job, status |-> status, run |-> e.run]
<1>0. /\ UNCHANGED <<build, job, history, logs, dispatched, notices, restarting, runs>>
      /\ QueueTypes /\ Timely /\ statuses' = Append(statuses, m)
      /\ Current' = Current /\ \A j \in Jobs : Pending(j)' = Pending(j)
  BY DEF vars, Send, PInv, PipelineTypeOK, QueueTypes, Current, Pending, Settled
<1>1. /\ m \in Messages /\ m.status = status /\ m.run = e.run /\ m.job = e.job
      /\ e.job \in Jobs /\ e.run \in 1..MaxRuns
  BY DEF Messages, MessageStatus, Executions
<1> HIDE DEF m
<1>2. OfRun(e.run)  BY <1>0 DEF Timely
<1>3. Told(m)'  BY <1>0, <1>1, <1>2 DEF Told, OfRun, Settled
<1>4. /\ Orderly => e.run = Current /\ Pending(e.job) /\ ~Answered(e.job)
      /\ Orderly => performs'[e] + executing'[e] = 0
  BY PipelineTyped DEF Orderly, OneExecution
<1>5. /\ statuses' \in Seq(Messages) /\ AllTold'
      /\ \A j \in Jobs : Answered(j)' => Answered(j) \/ j = e.job
      /\ Orderly => OneAnswer' /\ AnswersOfThisRun'
  BY <1>0, <1>1, <1>3, <1>4, MessageSent
<1>6. QueueTypes'
  <2>1. <<e.job, e.run, status>> \in Jobs \X (1..MaxRuns) \X Finished  BY <1>1
  <2>2. QED  BY <1>0, <1>5, <2>1 DEF QueueTypes
<1>7. Orderly => OneExecution'
  <2>1. SUFFICES ASSUME Orderly, NEW f \in Executions, performs'[f] + executing'[f] > 0
                 PROVE  /\ performs'[f] + executing'[f] = 1
                        /\ f.run = Current' /\ Pending(f.job)' /\ ~Answered(f.job)'
    BY DEF OneExecution
  <2>2. f # e  BY <1>4, <2>1
  <2>3. /\ performs[f] + executing[f] = performs'[f] + executing'[f]
        /\ performs[f] + executing[f] = 1
        /\ f.run = Current /\ Pending(f.job) /\ ~Answered(f.job)
    BY <2>1, <2>2 DEF Orderly, OneExecution
  <2>4. f.job # e.job  BY <1>4, <2>1, <2>2, <2>3 DEF Executions
  <2>5. f.job \in Jobs  BY DEF Executions
  <2>6. ~Answered(f.job)'  BY <1>5, <2>3, <2>4, <2>5
  <2>7. QED  BY <1>0, <2>3, <2>5, <2>6
<1>8. crashes = 0 /\ Regular # {} => OneExecution' /\ OneAnswer' /\ AnswersOfThisRun'
  BY <1>5, <1>7 DEF PInv
<1>9. \A f \in Executions :
          performs'[f] + executing'[f] > 0 => performs[f] + executing[f] > 0
  BY PipelineTyped
<1>10. QED  BY <1>5, <1>6, <1>8, <1>9, QuietStep

LEMMA FinishExecutionKeeps ==
    ASSUME PInv, NEW e \in Executions, NEW status \in Finished, FinishExecution(e, status)
    PROVE  PInv'
<1>1. /\ performs \in [Executions -> Nat] /\ executing \in [Executions -> Nat]
      /\ executing[e] > 0
      /\ executing' = [executing EXCEPT ![e] = @ - 1]
      /\ UNCHANGED <<vars, creation, reopening, performs, handling, crashes>>
  BY DEF FinishExecution, PInv, PipelineTypeOK
<1>2. executing' \in [Executions -> Nat] /\ executing'[e] = executing[e] - 1
      /\ \A f \in Executions \ {e} : executing'[f] = executing[f]
  BY <1>1
<1>3. QED  BY <1>1, <1>2, AnswerKeeps, PipelineTyped DEF FinishExecution

LEMMA RefuseExecutionKeeps ==
    ASSUME PInv, NEW e \in Executions, RefuseExecution(e)
    PROVE  PInv'
<1>1. /\ performs \in [Executions -> Nat] /\ executing \in [Executions -> Nat]
      /\ performs[e] > 0
      /\ performs' = [performs EXCEPT ![e] = @ - 1]
      /\ UNCHANGED <<vars, creation, reopening, executing, handling, crashes>>
  BY DEF RefuseExecution, PInv, PipelineTypeOK
<1>2. performs' \in [Executions -> Nat] /\ performs'[e] = performs[e] - 1
      /\ \A f \in Executions \ {e} : performs'[f] = performs[f]
  BY <1>1
<1>3. /\ performs[e] + executing[e] > 0
      /\ performs'[e] + executing'[e] = performs[e] + executing[e] - 1
      /\ \A f \in Executions \ {e} :
            performs'[f] + executing'[f] = performs[f] + executing[f]
      /\ executing' \in [Executions -> Nat]
  BY <1>1, <1>2, PipelineTyped
<1>4. /\ Errored \in Finished
      /\ statuses' = Send(e, Errored)
      /\ reported' = reported \cup {<<e.job, e.run, Errored>>}
  BY DEF RefuseExecution
<1>5. QED  BY <1>1, <1>2, <1>3, <1>4, AnswerKeeps

LEMMA EndCreationKeeps ==
    ASSUME PInv, EndCreation
    PROVE  PInv'
<1>1. /\ creation' \in {"open", "committed", "rolledback"}
      /\ UNCHANGED vars
      /\ UNCHANGED <<build, job, history, logs, dispatched, notices, restarting, runs>>
      /\ UNCHANGED <<reopening, performs, executing, statuses, handling, reported, crashes>>
      /\ QueueTypes /\ AllTold
  BY DEF EndCreation, queues, vars, PInv, PipelineTypeOK, QueueTypes
<1>2. QueueTypes'  BY <1>1 DEF QueueTypes
<1>3. AllTold'  BY <1>1 DEF AllTold, Told, OfRun, Settled
<1>4. Orderly => OneExecution' /\ OneAnswer' /\ AnswersOfThisRun'
  BY <1>1 DEF Orderly, OneExecution, OneAnswer, AnswersOfThisRun, Answered, Queued, Held,
     Settled, Current, Pending
<1>5. QED  BY <1>1, <1>2, <1>3, <1>4, QuietStep DEF PInv

-----------------------------------------------------------------------------
(* The consumer                                                             *)

LEMMA DeliverKeeps ==
    ASSUME PInv, NEW c \in Consumers, Deliver(c)
    PROVE  PInv'
<1>0. /\ statuses # <<>> /\ statuses' = Tail(statuses)
      /\ handling' = [handling EXCEPT ![c] = [msg |-> Head(statuses), committed |-> FALSE]]
      /\ UNCHANGED vars
      /\ UNCHANGED <<build, job, history, logs, dispatched, notices, restarting, runs>>
      /\ UNCHANGED <<creation, reopening, performs, executing, reported, crashes>>
      /\ QueueTypes /\ AllTold
      /\ handling \in [Consumers -> Handlings \cup {None}]
      /\ statuses \in Seq(Messages)
      /\ Current' = Current /\ \A j \in Jobs : Pending(j)' = Pending(j)
  BY DEF Deliver, vars, PInv, PipelineTypeOK, QueueTypes, Current, Pending, Settled
<1>1. /\ \A i \in DOMAIN statuses' : i + 1 \in DOMAIN statuses /\ statuses'[i] = statuses[i + 1]
      /\ \A i \in DOMAIN statuses' : i \in Nat /\ i # 0
      /\ 1 \in DOMAIN statuses /\ Head(statuses) = statuses[1]
      /\ statuses' \in Seq(Messages)
  BY <1>0
<1> DEFINE h == [msg |-> Head(statuses), committed |-> FALSE]
<1>2. h \in Handlings /\ h.msg = statuses[1] /\ h.committed = FALSE
  BY <1>0, <1>1 DEF Handlings
<1> HIDE DEF h
<1>3. /\ handling' \in [Consumers -> Handlings \cup {None}]
      /\ handling'[c] = h
      /\ \A d \in Consumers \ {c} : handling'[d] = handling[d]
  BY <1>0, <1>2 DEF h
<1>4. QueueTypes'  BY <1>0, <1>1, <1>3 DEF QueueTypes
<1>5. AllTold'
  <2>1. \A i \in DOMAIN statuses' : Told(statuses'[i])
    BY <1>0, <1>1 DEF AllTold
  <2>2. \A d \in Consumers : handling'[d] # None => Told(handling'[d].msg)
    BY <1>0, <1>1, <1>2, <1>3 DEF AllTold
  <2>3. QED  BY <1>0, <2>1, <2>2 DEF AllTold, Told, OfRun, Settled
<1>6. /\ \A i \in DOMAIN statuses' : \A j \in Jobs : Queued(i, j)' => Queued(i + 1, j)
      /\ \A j \in Jobs : Held(c, j)' => Queued(1, j)
      /\ \A d \in Consumers \ {c} : \A j \in Jobs : Held(d, j)' => Held(d, j)
  BY <1>1, <1>2, <1>3 DEF Queued, Held
<1>7. \A j \in Jobs : Answered(j)' => Answered(j)
  <2>1. SUFFICES ASSUME NEW j \in Jobs, Answered(j)'  PROVE Answered(j)
    OBVIOUS
  <2>2. ASSUME NEW i \in DOMAIN statuses', Queued(i, j)'  PROVE Answered(j)
    <3>1. i + 1 \in DOMAIN statuses /\ Queued(i + 1, j)
      BY <1>1, <2>2 DEF Queued
    <3>2. QED  BY <3>1 DEF Answered
  <2>3. ASSUME NEW d \in Consumers, Held(d, j)'  PROVE Answered(j)
    <3>1. CASE d = c
      <4>1. 1 \in DOMAIN statuses /\ Queued(1, j)
        BY <1>1, <1>2, <1>3, <2>3, <3>1 DEF Queued, Held
      <4>2. QED  BY <4>1 DEF Answered
    <3>2. CASE d # c
      <4>1. Held(d, j)  BY <1>3, <2>3, <3>2 DEF Held
      <4>2. QED  BY <4>1 DEF Answered
    <3>3. QED  BY <3>1, <3>2
  <2>4. QED  BY <2>1, <2>2, <2>3 DEF Answered, Queued, Held
<1>8. ASSUME Orderly  PROVE OneExecution' /\ OneAnswer' /\ AnswersOfThisRun'
  <2>1. OneExecution'
    <3>1. SUFFICES ASSUME NEW f \in Executions, performs[f] + executing[f] > 0
                   PROVE  ~Answered(f.job)'
      BY <1>0, <1>8, PipelineTyped DEF Orderly, OneExecution
    <3>2. QED  BY <1>7, <1>8, <3>1, PipelineTyped DEF Orderly, OneExecution
  <2>2. AnswersOfThisRun'
    <3>1. \A i \in DOMAIN statuses' :
              statuses'[i].status \in Finished => statuses'[i].run = Current'
      BY <1>0, <1>1, <1>8 DEF Orderly, AnswersOfThisRun
    <3>2. \A d \in Consumers :
              handling'[d] # None /\ ~handling'[d].committed
              /\ handling'[d].msg.status \in Finished => handling'[d].msg.run = Current'
      BY <1>0, <1>1, <1>2, <1>3, <1>8 DEF Orderly, AnswersOfThisRun
    <3>3. QED  BY <3>1, <3>2 DEF AnswersOfThisRun
  <2>3. ASSUME NEW j \in Jobs
        PROVE  /\ \A i, k \in DOMAIN statuses' : Queued(i, j)' /\ Queued(k, j)' => i = k
               /\ \A d, g \in Consumers : Held(d, j)' /\ Held(g, j)' => d = g
               /\ \A i \in DOMAIN statuses', d \in Consumers :
                      ~(Queued(i, j)' /\ Held(d, j)')
               /\ Answered(j)' => Pending(j)'
    <3>0. /\ \A i, k \in DOMAIN statuses : Queued(i, j) /\ Queued(k, j) => i = k
          /\ \A d, g \in Consumers : Held(d, j) /\ Held(g, j) => d = g
          /\ \A i \in DOMAIN statuses, d \in Consumers : ~(Queued(i, j) /\ Held(d, j))
          /\ Answered(j) => Pending(j)
      BY <1>8 DEF Orderly, OneAnswer
    <3>1. \A i, k \in DOMAIN statuses' : Queued(i, j)' /\ Queued(k, j)' => i = k
      <4>1. SUFFICES ASSUME NEW i \in DOMAIN statuses', NEW k \in DOMAIN statuses',
                            Queued(i, j)', Queued(k, j)'
                     PROVE  i = k
        BY DEF Queued
      <4>2. i + 1 = k + 1  BY <1>1, <3>0, <4>1 DEF Queued
      <4>3. QED  BY <1>1, <4>2
    <3>2. \A d, g \in Consumers : Held(d, j)' /\ Held(g, j)' => d = g
      BY <1>1, <1>2, <1>3, <3>0 DEF Held, Queued
    <3>3. \A i \in DOMAIN statuses', d \in Consumers : ~(Queued(i, j)' /\ Held(d, j)')
      <4>1. SUFFICES ASSUME NEW i \in DOMAIN statuses', NEW d \in Consumers,
                            Queued(i, j)', Held(d, j)'
                     PROVE  FALSE
        BY DEF Queued, Held
      <4>2. i + 1 \in DOMAIN statuses /\ i + 1 # 1 /\ Queued(i + 1, j)
        BY <1>1, <4>1 DEF Queued
      <4>3. CASE d = c  BY <1>1, <1>2, <1>3, <3>0, <4>1, <4>2, <4>3 DEF Queued, Held
      <4>4. CASE d # c  BY <1>3, <3>0, <4>1, <4>2, <4>4 DEF Queued, Held
      <4>5. QED  BY <4>3, <4>4
    <3>4. Answered(j)' => Pending(j)'  BY <1>0, <1>7, <3>0
    <3>5. QED  BY <3>1, <3>2, <3>3, <3>4 DEF Queued, Held
  <2>4. OneAnswer'  BY <2>3 DEF OneAnswer, Queued, Held
  <2>5. QED  BY <2>1, <2>2, <2>4
<1>9. QED  BY <1>0, <1>4, <1>5, <1>8, QuietStep DEF PInv

\* A consumer that loses a message it has dealt with.
LEMMA AcknowledgeKeeps ==
    ASSUME PInv, NEW c \in Consumers, Acknowledge(c)
    PROVE  PInv'
<1>0. /\ handling' = [handling EXCEPT ![c] = None]
      /\ UNCHANGED vars
      /\ UNCHANGED <<build, job, history, logs, dispatched, notices, restarting, runs>>
      /\ UNCHANGED <<creation, reopening, performs, executing, statuses, reported, crashes>>
      /\ QueueTypes /\ AllTold
      /\ handling \in [Consumers -> Handlings \cup {None}]
  BY DEF Acknowledge, vars, PInv, PipelineTypeOK, QueueTypes
<1>1. /\ handling' \in [Consumers -> Handlings \cup {None}]
      /\ handling'[c] = None
      /\ \A d \in Consumers \ {c} : handling'[d] = handling[d]
  BY <1>0
<1>2. QueueTypes'  BY <1>0, <1>1 DEF QueueTypes
<1>3. AllTold'  BY <1>0, <1>1 DEF AllTold, Told, OfRun, Settled
<1>4. Orderly => OneAnswer' /\ AnswersOfThisRun'
  BY <1>0, <1>1
     DEF Orderly, OneAnswer, AnswersOfThisRun, Answered, Queued, Held, Settled, Current,
         Pending
<1>5. Orderly => OneExecution'
  BY <1>0, <1>1
     DEF Orderly, OneExecution, Answered, Queued, Held, Settled, Current, Pending
<1>6. QED  BY <1>0, <1>2, <1>3, <1>4, <1>5, QuietStep DEF PInv

\* What the messages of the consumers and of the queue say, once one of the
\* consumers has dealt with its message.
LEMMA Dealt ==
    ASSUME PInv, NEW c \in Consumers, handling[c] # None, ~handling[c].committed,
           handling' = [handling EXCEPT ![c].committed = TRUE],
           UNCHANGED <<statuses, reported, runs, reopening>>,
           (\A j \in Jobs : Settled(j)) => job' = job
    PROVE  /\ handling' \in [Consumers -> Handlings \cup {None}]
           /\ AllTold'
           /\ \A j \in Jobs : Answered(j)' => Answered(j)
           /\ AnswersOfThisRun => AnswersOfThisRun'
           /\ OneAnswer =>
                 \A j \in Jobs :
                    /\ \A i, k \in DOMAIN statuses' : Queued(i, j)' /\ Queued(k, j)' => i = k
                    /\ \A d, g \in Consumers : Held(d, j)' /\ Held(g, j)' => d = g
                    /\ \A i \in DOMAIN statuses', d \in Consumers :
                           ~(Queued(i, j)' /\ Held(d, j)')
                    /\ Answered(j)' => ~(handling[c].msg.job = j
                                         /\ handling[c].msg.status \in Finished)
<1> DEFINE h == [handling[c] EXCEPT !.committed = TRUE]
<1>0. /\ handling \in [Consumers -> Handlings \cup {None}]
      /\ handling[c] \in Handlings /\ AllTold
      /\ handling' = [handling EXCEPT ![c] = h]
  BY PipelineTyped DEF PInv, PipelineTypeOK
<1>1. h \in Handlings /\ h.msg = handling[c].msg /\ h.committed = TRUE
  BY <1>0 DEF Handlings
<1> HIDE DEF h
<1>2. /\ handling' \in [Consumers -> Handlings \cup {None}]
      /\ handling'[c] = h
      /\ \A d \in Consumers \ {c} : handling'[d] = handling[d]
  BY <1>0, <1>1
<1>3. AllTold'
  <2>1. \A m \in Messages : Told(m) => Told(m)'  BY DEF Told, OfRun, Settled
  <2>2. \A i \in DOMAIN statuses' : Told(statuses[i])'
    BY <1>0, <2>1, PipelineTyped DEF AllTold
  <2>3. \A d \in Consumers : handling'[d] # None => Told(handling[d].msg)'
    BY <1>0, <1>1, <1>2, <2>1, PipelineTyped DEF AllTold
  <2>4. QED  BY <2>2, <2>3 DEF AllTold, Told, OfRun, Settled
<1>4. \A d \in Consumers : \A j \in Jobs : Held(d, j)' => d # c /\ Held(d, j)
  BY <1>1, <1>2 DEF Held
<1>5. \A j \in Jobs : Answered(j)' => Answered(j)
  BY <1>4 DEF Answered, Queued, Held
<1>6. AnswersOfThisRun => AnswersOfThisRun'
  BY <1>1, <1>2 DEF AnswersOfThisRun, Current
<1>7. ASSUME OneAnswer, NEW j \in Jobs
      PROVE  /\ \A i, k \in DOMAIN statuses' : Queued(i, j)' /\ Queued(k, j)' => i = k
             /\ \A d, g \in Consumers : Held(d, j)' /\ Held(g, j)' => d = g
             /\ \A i \in DOMAIN statuses', d \in Consumers : ~(Queued(i, j)' /\ Held(d, j)')
             /\ Answered(j)' => ~(handling[c].msg.job = j
                                  /\ handling[c].msg.status \in Finished)
  <2>0. /\ \A i, k \in DOMAIN statuses : Queued(i, j) /\ Queued(k, j) => i = k
        /\ \A d, g \in Consumers : Held(d, j) /\ Held(g, j) => d = g
        /\ \A i \in DOMAIN statuses, d \in Consumers : ~(Queued(i, j) /\ Held(d, j))
    BY <1>7 DEF OneAnswer
  <2>1. /\ \A i, k \in DOMAIN statuses' : Queued(i, j)' /\ Queued(k, j)' => i = k
        /\ \A d, g \in Consumers : Held(d, j)' /\ Held(g, j)' => d = g
        /\ \A i \in DOMAIN statuses', d \in Consumers : ~(Queued(i, j)' /\ Held(d, j)')
    BY <1>4, <2>0 DEF Queued, Held
  <2>2. ASSUME handling[c].msg.job = j, handling[c].msg.status \in Finished
        PROVE  ~Answered(j)'
    <3>1. Held(c, j)  BY <2>2 DEF Held
    <3>2. \A i \in DOMAIN statuses' : ~Queued(i, j)'  BY <2>0, <3>1 DEF Queued
    <3>3. \A d \in Consumers : ~Held(d, j)'  BY <1>4, <2>0, <3>1 DEF Held
    <3>4. QED  BY <3>2, <3>3 DEF Answered, Queued, Held
  <2>3. QED  BY <2>1, <2>2 DEF Queued, Held, Answered
<1>8. QED  BY <1>2, <1>3, <1>5, <1>6, <1>7 DEF Answered, Queued, Held

\* A message changes no job of a build whose jobs are all settled.
LEMMA SettledStay ==
    ASSUME RInv, NEW j \in Jobs, NEW status \in MessageStatus,
           \A i \in Jobs : Settled(i)
    PROVE  Perform(j, status).job = job
<1> DEFINE p == Perform(j, status)
<1>1. IInv /\ build \in Finished
  BY DEF RInv, IInv, Closed, Settled, Begin
<1>2. Rows(p) = rows  BY <1>1, VerdictUnmoved
<1> HIDE DEF p
<1>3. p.job = job  BY <1>2 DEF Rows, rows
<1>4. QED  BY <1>3 DEF p

\* The outcomes that a transaction writes were reported.
LEMMA PerformReported ==
    ASSUME PInv, NEW m \in Messages, Told(m),
           crashes = 0 /\ Regular # {} /\ m.status \in Finished => m.run = runs,
           NEW i \in Jobs, Perform(m.job, m.status).job[i] \in Finished
    PROVE  \E n \in 1..runs :
              /\ <<i, n, Perform(m.job, m.status).job[i]>> \in reported
              /\ crashes = 0 /\ Regular # {} => n = runs
<1> DEFINE p == Perform(m.job, m.status)
<1>1. /\ RInv /\ SentWhileDeploying(Begin) /\ OutcomesReported
      /\ m.job \in Jobs /\ m.status \in MessageStatus /\ m.run \in 1..MaxRuns
      /\ runs \in 1..MaxRuns
  BY PipelineTyped DEF PInv
<1>2. \/ p.job[i] = job[i]
      \/ i = m.job /\ p.job[i] = m.status
      \/ p.job[i] = Cancelled
  BY <1>1, PerformWrites
<1> HIDE DEF p
<1>3. p.job[i] \in Finished  BY DEF p
<1>4. CASE p.job[i] = job[i]  BY <1>1, <1>3, <1>4 DEF OutcomesReported, p
<1>5. CASE i = m.job /\ p.job[i] = m.status /\ p.job[i] # job[i]
  <2>1. ~\A k \in Jobs : Settled(k)  BY <1>1, <1>5, SettledStay DEF p
  <2>2. m.run \in 1..runs /\ <<i, m.run, p.job[i]>> \in reported
    BY <1>1, <1>3, <1>5, <2>1 DEF Told, OfRun
  <2>3. QED  BY <1>3, <1>5, <2>2 DEF p
<1>6. QED  BY <1>2, <1>3, <1>4, <1>5

\* What a transaction publishes.
LEMMA PerformPublishes ==
    ASSUME PInv, NEW j \in Jobs, NEW status \in MessageStatus
    PROVE  \/ Published(Perform(j, status)) = {}
           \/ /\ Published(Perform(j, status)) = Deploy
              /\ \A k \in Regular : Perform(j, status).job[k] = Passed
              /\ Regular # {} => \A d \in Deploy : dispatched[d] = 0
<1> DEFINE p == Perform(j, status)
<1>1. /\ p.dispatched = dispatched
         \/ /\ p.dispatched = AndDeploy(dispatched)
            /\ \A k \in Regular : p.job[k] = Passed
            /\ Regular # {} => \A d \in Deploy : dispatched[d] = 0
      /\ \A i \in Jobs : dispatched[i] \in Nat
  BY PerformWrites, PipelineTyped DEF PInv
<1> HIDE DEF p
<1>2. CASE p.dispatched = dispatched  BY <1>1, <1>2 DEF Published, p
<1>3. CASE p.dispatched # dispatched
  <2>1. \A i \in Jobs : p.dispatched[i] > dispatched[i] <=> i \in Deploy
    BY <1>1, <1>3 DEF AndDeploy
  <2>2. Published(p) = Deploy  BY <2>1 DEF Published, Jobs
  <2>3. QED  BY <1>1, <1>3, <2>2 DEF p
<1>4. QED  BY <1>2, <1>3

\* Publishing keeps deploy jobs behind the regular jobs of their run.
LEMMA PublishedAfterSuccess ==
    ASSUME PInv, NEW m \in Messages, Told(m),
           crashes = 0 /\ Regular # {} /\ m.status \in Finished => m.run = runs,
           performs' = PerformJobs(Published(Perform(m.job, m.status)), runs),
           UNCHANGED <<executing, reported, runs>>, crashes' = 0 => crashes = 0,
           (\A j \in Jobs : Settled(j)) => job' = job
    PROVE  performs' \in [Executions -> Nat] /\ Timely' /\ DeployAfterSuccess'
<1> DEFINE P == Published(Perform(m.job, m.status))
<1>0. /\ m.job \in Jobs /\ m.status \in MessageStatus
      /\ runs \in 1..MaxRuns /\ MaxRuns \in Nat
      /\ \A e \in Executions : performs[e] \in Nat /\ executing[e] \in Nat
      /\ Timely /\ DeployAfterSuccess
  BY PipelineTyped DEF PInv
<1>1. P = {} \/ (P = Deploy /\ \A k \in Regular : Perform(m.job, m.status).job[k] = Passed)
  BY <1>0, PerformPublishes
<1>2. ASSUME P = Deploy, Deploy # {}
      PROVE  \A k \in Regular : \E n \in 1..runs :
                /\ <<k, n, Passed>> \in reported
                /\ crashes = 0 => n = runs
  <2>1. SUFFICES ASSUME NEW k \in Regular
                 PROVE  \E n \in 1..runs : /\ <<k, n, Passed>> \in reported
                                           /\ crashes = 0 => n = runs
    OBVIOUS
  <2>2. k \in Jobs /\ Regular # {}  BY DEF Jobs
  <2>3. Perform(m.job, m.status).job[k] = Passed  BY <1>1, <1>2
  <2>4. \E n \in 1..runs :
            /\ <<k, n, Perform(m.job, m.status).job[k]>> \in reported
            /\ crashes = 0 /\ Regular # {} => n = runs
    BY <2>2, <2>3, PerformReported
  <2>5. QED  BY <2>2, <2>3, <2>4
<1> HIDE DEF P
<1>3. performs' = [e \in Executions |-> IF e.job \in P /\ e.run = runs
                                        THEN performs[e] + 1 ELSE performs[e]]
  BY DEF PerformJobs, P
<1>4. performs' \in [Executions -> Nat]  BY <1>0, <1>3
<1>5. Timely'
  <2>1. SUFFICES ASSUME NEW e \in Executions, performs'[e] + executing'[e] > 0
                 PROVE  OfRun(e.run)'
    BY DEF Timely, OfRun, Settled
  <2>2. CASE e.run = runs  BY <1>0, <2>2 DEF OfRun
  <2>3. CASE e.run # runs
    <3>1. OfRun(e.run)  BY <1>0, <1>3, <2>1, <2>3 DEF Timely
    <3>2. QED  BY <3>1 DEF OfRun, Settled
  <2>4. QED  BY <2>2, <2>3
<1>6. DeployAfterSuccess'
  <2>1. SUFFICES ASSUME NEW e \in Executions, e.job \in Deploy,
                        performs'[e] + executing'[e] > 0, NEW k \in Regular
                 PROVE  \E n \in 1..e.run : /\ <<k, n, Passed>> \in reported
                                            /\ crashes = 0 => n = e.run
    BY DEF DeployAfterSuccess
  <2>2. CASE e.job \in P /\ e.run = runs  BY <1>1, <1>2, <2>1, <2>2
  <2>3. CASE ~(e.job \in P /\ e.run = runs)
    <3>1. performs[e] + executing[e] > 0  BY <1>3, <2>1, <2>3
    <3>2. QED  BY <1>0, <2>1, <3>1 DEF DeployAfterSuccess
  <2>4. QED  BY <2>2, <2>3
<1>7. QED  BY <1>4, <1>5, <1>6

\* Who was sent, and is not told an outcome, is not settled by a transaction.
LEMMA StillOpen ==
    ASSUME RInv, SentWhileDeploying(Begin), NEW j \in Jobs, NEW status \in MessageStatus,
           NEW i \in Jobs, ~Settled(i), i = j => status \notin Finished,
           Perform(j, status).dispatched[i] > 0
    PROVE  Perform(j, status).job[i] \notin Over
<1> DEFINE p == Perform(j, status)
<1>1. /\ \/ p.job[i] = job[i]
         \/ i = j /\ p.job[i] = status
         \/ p.job[i] = Cancelled
      /\ p.job[i] = Cancelled => p.dispatched[i] = 0
  <2>1. CancelledBehindFailure(p)  BY PerformConsistent DEF RInv, Consistent
  <2>2. QED  BY <2>1, PerformWrites DEF CancelledBehindFailure
<1>2. p.dispatched[i] > 0  OBVIOUS
<1> HIDE DEF p
<1>3. p.job[i] # Cancelled  BY <1>1, <1>2
<1>4. p.job[i] \notin Over  BY <1>1, <1>3 DEF Settled, MessageStatus
<1>5. QED  BY <1>4 DEF p

\* The rows are typed, before and after a step.
LEMMA RowsTyped == RInv => TypeOK
BY BeginType DEF RInv, IInv, Consistent

LEMMA RowsTypedNext == RInv' => TypeOK'
BY RowsTyped, PTL

\* JobUpdater#perform for the message of a consumer.
LEMMA UpdateKeeps ==
    ASSUME PInv, NEW c \in Consumers, NEW m \in Messages,
           handling[c] # None, ~handling[c].committed, handling[c].msg = m,
           handling' = [handling EXCEPT ![c].committed = TRUE],
           UpdateJob(m.job, m.status),
           performs' = PerformJobs(Published(Perform(m.job, m.status)), runs),
           reopening = None,
           UNCHANGED <<creation, reopening, executing, statuses, reported, crashes>>
    PROVE  PInv'
<1> DEFINE p == Perform(m.job, m.status)
<1>0. /\ RInv /\ SentWhileDeploying(Begin) /\ AllTold /\ QueueTypes
      /\ m.job \in Jobs /\ m.status \in MessageStatus
      /\ \A j \in Jobs : dispatched[j] \in Nat
      /\ \A e \in Executions : performs[e] \in Nat /\ executing[e] \in Nat
      /\ \A e \in Executions : e.job \in Jobs
      /\ runs <= MaxRuns
  BY PipelineTyped DEF PInv, PipelineTypeOK, QueueTypes
<1>1. /\ build' = p.build /\ job' = p.job /\ dispatched' = p.dispatched
      /\ runs' = runs
      /\ (\A j \in Jobs : Settled(j)) => job' = job
      /\ Current = runs /\ Current' = runs'
      /\ \A j \in Jobs : /\ Pending(j) <=> ~Settled(j) /\ dispatched[j] > 0
                         /\ Pending(j)' <=> ~Settled(j)' /\ dispatched'[j] > 0
  BY <1>0, SettledStay DEF UpdateJob, Current, Pending
<1>2. RInv'
  <2>1. Next  BY <1>0 DEF Next
  <2>2. QED  BY <1>0, <2>1, RefinementInvariant
<1>3. /\ \A i \in Jobs : p.job[i] = job[i] \/ (i = m.job /\ p.job[i] = m.status)
                         \/ p.job[i] = Cancelled
      /\ SentWhileDeploying(p)
      /\ \A i \in Jobs : p.dispatched[i] >= dispatched[i]
  <2>1. /\ \A i \in Jobs : p.job[i] = job[i] \/ (i = m.job /\ p.job[i] = m.status)
                            \/ p.job[i] = Cancelled
        /\ SentWhileDeploying(p)
        /\ p.dispatched = dispatched \/ p.dispatched = AndDeploy(dispatched)
    BY <1>0, PerformWrites
  <2> HIDE DEF p
  <2>2. \A i \in Jobs : p.dispatched[i] >= dispatched[i]
    BY <1>0, <2>1 DEF AndDeploy
  <2>3. QED  BY <2>1, <2>2
<1>4. SentWhileDeploying(Begin)'
  BY <1>1, <1>3 DEF SentWhileDeploying, Begin
<1>5. Told(m) /\ (crashes = 0 /\ Regular # {} /\ m.status \in Finished => m.run = runs)
  BY <1>0, <1>1 DEF AllTold, PInv, Orderly, AnswersOfThisRun
<1>6. performs' \in [Executions -> Nat] /\ Timely' /\ DeployAfterSuccess'
  BY <1>1, <1>5, PublishedAfterSuccess
<1>7. OutcomesReported'
  <2>1. \A i \in Jobs : p.job[i] \in Finished =>
            \E n \in 1..runs : /\ <<i, n, p.job[i]>> \in reported
                               /\ crashes = 0 /\ Regular # {} => n = runs
    BY <1>5, PerformReported
  <2>2. QED  BY <1>1, <2>1 DEF OutcomesReported
<1>8. /\ handling' \in [Consumers -> Handlings \cup {None}]
      /\ AllTold'
      /\ \A j \in Jobs : Answered(j)' => Answered(j)
      /\ AnswersOfThisRun => AnswersOfThisRun'
      /\ OneAnswer =>
            \A j \in Jobs :
               /\ \A i, k \in DOMAIN statuses' : Queued(i, j)' /\ Queued(k, j)' => i = k
               /\ \A d, g \in Consumers : Held(d, j)' /\ Held(g, j)' => d = g
               /\ \A i \in DOMAIN statuses', d \in Consumers :
                      ~(Queued(i, j)' /\ Held(d, j)')
               /\ Answered(j)' => ~(m.job = j /\ m.status \in Finished)
  BY <1>1, Dealt
<1>9. PipelineTypeOK'
  <2>1. TypeOK'  BY <1>2, RowsTypedNext
  <2>2. QED  BY <1>0, <1>6, <1>8, <2>1 DEF PipelineTypeOK, QueueTypes
<1>10. \A i \in Jobs : m.job = i /\ m.status \in Finished => Answered(i)
  BY DEF Answered, Held
<1>11. \A i \in Jobs : ~Settled(i) /\ ~(m.job = i /\ m.status \in Finished)
                       /\ p.dispatched[i] > 0 => p.job[i] \notin Over
  BY <1>0, StillOpen
<1>12. \/ Published(p) = {}
       \/ Published(p) = Deploy /\ (Regular # {} => \A d \in Deploy : dispatched[d] = 0)
  BY <1>0, PerformPublishes
<1>13. /\ performs' = [e \in Executions |-> IF e.job \in Published(p) /\ e.run = runs
                                            THEN performs[e] + 1 ELSE performs[e]]
       /\ \A i \in Published(p) : i \in Jobs /\ p.dispatched[i] > dispatched[i]
  BY DEF PerformJobs, Published
<1> HIDE DEF p
<1>14. ASSUME crashes = 0, Regular # {}  PROVE Orderly'
  <2>0. OneExecution /\ OneAnswer /\ AnswersOfThisRun /\ OutcomesOfSent
    BY <1>14 DEF PInv, Orderly
  <2>1. \A i \in Jobs : Answered(i) => ~Settled(i) /\ dispatched[i] > 0
    BY <1>1, <2>0 DEF OneAnswer
  <2>2. OutcomesOfSent'
    <3>1. SUFFICES ASSUME NEW i \in Jobs, p.job[i] \in Finished
                   PROVE  p.dispatched[i] > 0
      BY <1>1 DEF OutcomesOfSent
    <3>2. p.dispatched[i] >= dispatched[i] /\ p.dispatched[i] \in Nat
      BY <1>1, <1>3, <1>9 DEF PipelineTypeOK, TypeOK
    <3>3. CASE p.job[i] = job[i]  BY <1>0, <2>0, <3>1, <3>2, <3>3 DEF OutcomesOfSent
    <3>4. CASE i = m.job /\ p.job[i] = m.status
      BY <1>0, <1>10, <2>1, <3>1, <3>2, <3>4
    <3>5. QED  BY <1>3, <3>1, <3>3, <3>4
  <2>3. OneAnswer'
    <3>1. \A j \in Jobs : Answered(j)' => ~Settled(j)' /\ dispatched'[j] > 0
      <4>1. SUFFICES ASSUME NEW j \in Jobs, Answered(j)'
                     PROVE  p.job[j] \notin Over /\ p.dispatched[j] > 0
        BY <1>1 DEF Settled
      <4>2. ~Settled(j) /\ dispatched[j] > 0  BY <1>8, <2>1, <4>1
      <4>3. ~(m.job = j /\ m.status \in Finished)  BY <1>8, <2>0, <4>1
      <4>4. p.dispatched[j] > 0
        <5>1. p.dispatched[j] >= dispatched[j] /\ p.dispatched[j] \in Nat
          BY <1>1, <1>3, <1>9 DEF PipelineTypeOK, TypeOK
        <5>2. QED  BY <1>0, <4>2, <5>1
      <4>5. QED  BY <1>11, <4>2, <4>3, <4>4
    <3>2. QED  BY <1>1, <1>8, <2>0, <3>1 DEF OneAnswer
  <2>4. OneExecution'
    <3>1. SUFFICES ASSUME NEW e \in Executions, performs'[e] + executing'[e] > 0
                   PROVE  /\ performs'[e] + executing'[e] = 1
                          /\ e.run = runs'
                          /\ ~Settled(e.job)'
                          /\ dispatched'[e.job] > 0
                          /\ ~Answered(e.job)'
      BY <1>0, <1>1 DEF OneExecution
    <3>2. CASE e.job \in Published(p) /\ e.run = runs
      <4>1. /\ dispatched[e.job] = 0
            /\ p.dispatched[e.job] > 0
        BY <1>0, <1>12, <1>13, <1>14, <3>2
      <4>2. performs[e] + executing[e] = 0
        <5>1. ~Pending(e.job)  BY <1>0, <1>1, <4>1
        <5>2. ~(performs[e] + executing[e] > 0)  BY <2>0, <5>1 DEF OneExecution
        <5>3. QED  BY <1>0, <5>2
      <4>3. performs'[e] + executing'[e] = 1  BY <1>0, <1>13, <3>2, <4>2
      <4>4. ~Answered(e.job)  BY <1>0, <2>1, <4>1
      <4>5. job[e.job] \notin Finished  BY <1>0, <2>0, <4>1 DEF OutcomesOfSent
      <4>6. p.job[e.job] \notin Over
        <5>1. CASE job[e.job] # Cancelled
          <6>1. ~Settled(e.job)  BY <4>5, <5>1 DEF Settled
          <6>2. QED  BY <1>0, <1>10, <1>11, <4>1, <4>4, <6>1
        <5>2. CASE job[e.job] = Cancelled
          <6>1. CancelledBehindFailure(p)
            BY <1>0, PerformConsistent DEF RInv, Consistent, p
          <6>2. p.job[e.job] # Cancelled
            BY <1>0, <4>1, <6>1 DEF CancelledBehindFailure
          <6>3. QED  BY <1>0, <1>3, <1>10, <4>4, <5>2, <6>2
        <5>3. QED  BY <5>1, <5>2
      <4>7. ~Answered(e.job)'  BY <1>0, <1>8, <4>4
      <4>8. QED  BY <1>1, <3>2, <4>1, <4>3, <4>6, <4>7 DEF Settled
    <3>3. CASE ~(e.job \in Published(p) /\ e.run = runs)
      <4>1. performs'[e] = performs[e] /\ executing'[e] = executing[e]
        BY <1>13, <3>3
      <4>2. /\ performs[e] + executing[e] = 1
            /\ e.run = runs /\ ~Settled(e.job) /\ dispatched[e.job] > 0
            /\ ~Answered(e.job)
        BY <1>0, <1>1, <2>0, <3>1, <4>1 DEF OneExecution
      <4>3. p.dispatched[e.job] > 0
        <5>1. p.dispatched[e.job] >= dispatched[e.job] /\ p.dispatched[e.job] \in Nat
          BY <1>0, <1>1, <1>3, <1>9 DEF PipelineTypeOK, TypeOK
        <5>2. QED  BY <1>0, <4>2, <5>1
      <4>4. p.job[e.job] \notin Over
        BY <1>0, <1>10, <1>11, <4>2, <4>3
      <4>5. ~Answered(e.job)'  BY <1>0, <1>8, <4>2
      <4>6. QED  BY <1>1, <4>1, <4>2, <4>3, <4>4, <4>5 DEF Settled
    <3>4. QED  BY <3>2, <3>3
  <2>5. QED  BY <1>8, <2>0, <2>2, <2>3, <2>4 DEF Orderly
<1>15. Reopened'  BY DEF Reopened
<1>16. QED
  BY <1>0, <1>1, <1>2, <1>4, <1>6, <1>7, <1>8, <1>9, <1>14, <1>15 DEF PInv

LEMMA HandleKeeps ==
    ASSUME PInv, NEW c \in Consumers, Handle(c)
    PROVE  PInv'
<1>1. PICK m \in Messages : m = handling[c].msg
  BY PipelineTyped DEF Handle
<1>2. /\ handling[c] # None /\ ~handling[c].committed
      /\ handling' = [handling EXCEPT ![c].committed = TRUE]
      /\ reopening = None
      /\ UNCHANGED <<creation, reopening, executing, statuses, reported, crashes>>
  BY DEF Handle
<1>3. CASE creation = "committed"
  <2>1. /\ UpdateJob(m.job, m.status)
        /\ performs' = PerformJobs(Published(Perform(m.job, m.status)), runs)
    BY <1>1, <1>3 DEF Handle
  <2>2. QED  BY <1>1, <1>2, <2>1, UpdateKeeps
<1>4. CASE creation # "committed"
  <2>1. UNCHANGED vars /\ UNCHANGED performs
    BY <1>4 DEF Handle
  <2>2. UNCHANGED <<build, job, history, logs, dispatched, notices, restarting, runs>>
    BY <2>1 DEF vars
  <2>3. /\ handling' \in [Consumers -> Handlings \cup {None}]
        /\ AllTold'
        /\ \A j \in Jobs : Answered(j)' => Answered(j)
        /\ AnswersOfThisRun => AnswersOfThisRun'
        /\ OneAnswer =>
              \A j \in Jobs :
                 /\ \A i, k \in DOMAIN statuses' : Queued(i, j)' /\ Queued(k, j)' => i = k
                 /\ \A d, g \in Consumers : Held(d, j)' /\ Held(g, j)' => d = g
                 /\ \A i \in DOMAIN statuses', d \in Consumers :
                        ~(Queued(i, j)' /\ Held(d, j)')
    BY <1>2, <2>2, Dealt
  <2>4. QueueTypes'
    BY <1>2, <2>1, <2>3 DEF QueueTypes, PInv, PipelineTypeOK
  <2>5. ASSUME Orderly  PROVE OneExecution' /\ OneAnswer' /\ AnswersOfThisRun'
    <3>1. OneAnswer'
      BY <1>2, <2>2, <2>3, <2>5 DEF Orderly, OneAnswer, Settled, Pending
    <3>2. OneExecution'
      <4>1. SUFFICES ASSUME NEW e \in Executions, performs[e] + executing[e] > 0
                     PROVE  ~Answered(e.job)'
        BY <1>2, <2>1, <2>2, <2>5 DEF Orderly, OneExecution, Settled, Current, Pending
      <4>2. e.job \in Jobs /\ ~Answered(e.job)
        BY <2>5, <4>1, PipelineTyped DEF Orderly, OneExecution
      <4>3. QED  BY <2>3, <4>2
    <3>3. QED  BY <2>3, <2>5, <3>1, <3>2 DEF Orderly
  <2>6. QED  BY <1>2, <2>1, <2>3, <2>4, <2>5, QuietStep DEF PInv
<1>5. QED  BY <1>3, <1>4

\* A consumer dies: from here on nothing is certain of the answers but that a
\* worker gave them.
LEMMA CrashKeeps ==
    ASSUME PInv, NEW c \in Consumers, Crash(c)
    PROVE  PInv'
<1>1. PICK m \in Messages : m = handling[c].msg
  BY PipelineTyped DEF Crash
<1>2. /\ handling[c] # None /\ crashes < MaxCrashes /\ crashes' = crashes + 1
      /\ statuses' = <<m>> \o statuses
      /\ handling' = [handling EXCEPT ![c] = None]
      /\ UNCHANGED vars
      /\ UNCHANGED <<build, job, history, logs, dispatched, notices, restarting, runs>>
      /\ UNCHANGED <<creation, reopening, executing, reported>>
      /\ RInv /\ QueueTypes /\ AllTold /\ runs <= MaxRuns
      /\ crashes \in 0..MaxCrashes /\ MaxCrashes \in Nat
      /\ handling \in [Consumers -> Handlings \cup {None}]
      /\ statuses \in Seq(Messages)
  BY <1>1, CrashesAssumption DEF Crash, vars, PInv, PipelineTypeOK, QueueTypes
<1>3. crashes' \in 0..MaxCrashes /\ crashes' # 0  BY <1>2
<1>4. RInv' /\ SentWhileDeploying(Begin)'
  <2>1. RInv'  BY <1>2, RefinementInvariant
  <2>2. SentWhileDeploying(Begin)'  BY <1>2 DEF PInv, SentWhileDeploying, Begin
  <2>3. QED  BY <2>1, <2>2
<1>5. /\ handling' \in [Consumers -> Handlings \cup {None}]
      /\ handling'[c] = None
      /\ \A d \in Consumers \ {c} : handling'[d] = handling[d]
  BY <1>2
<1>6. /\ statuses' \in Seq(Messages)
      /\ \A i \in DOMAIN statuses' :
            statuses'[i] = m \/ \E k \in DOMAIN statuses : statuses'[i] = statuses[k]
  <2>1. <<m>> \in Seq(Messages)  OBVIOUS
  <2>2. statuses' \in Seq(Messages)  BY <1>2, <2>1
  <2>3. ASSUME NEW i \in DOMAIN statuses', i # 1
        PROVE  i - 1 \in DOMAIN statuses /\ statuses'[i] = statuses[i - 1]
    BY <1>2, <2>1, <2>3
  <2>4. statuses'[1] = m  BY <1>2, <2>1
  <2>5. QED  BY <2>2, <2>3, <2>4
<1>7. Told(m)  BY <1>1, <1>2 DEF AllTold
<1>8. AllTold'
  <2>1. \A i \in DOMAIN statuses' : Told(statuses'[i])
    BY <1>2, <1>6, <1>7 DEF AllTold
  <2>2. \A d \in Consumers : handling'[d] # None => Told(handling'[d].msg)
    BY <1>2, <1>5 DEF AllTold
  <2>3. QED  BY <1>2, <2>1, <2>2 DEF AllTold, Told, OfRun, Settled
<1>9. performs' \in [Executions -> Nat] /\ Timely' /\ DeployAfterSuccess'
  <2>1. CASE performs' = performs
    <3>1. performs' \in [Executions -> Nat] /\ Timely'
      BY <1>2, <2>1 DEF QueueTypes, PInv, Timely, OfRun, Settled
    <3>2. DeployAfterSuccess'
      BY <1>2, <1>3, <2>1 DEF PInv, DeployAfterSuccess
    <3>3. QED  BY <3>1, <3>2
  <2>2. CASE /\ reopening = None /\ ~handling[c].committed
             /\ performs' = PerformJobs(Published(Perform(m.job, m.status)), runs)
    <3>1. crashes = 0 /\ Regular # {} /\ m.status \in Finished => m.run = runs
      BY <1>1, <1>2, <2>2 DEF PInv, Orderly, AnswersOfThisRun, Current
    <3>2. QED  BY <1>2, <1>3, <1>7, <2>2, <3>1, PublishedAfterSuccess
  <2>3. QED  BY <1>1, <2>1, <2>2 DEF Crash
<1>10. OutcomesReported'  BY <1>2, <1>3 DEF PInv, OutcomesReported
<1>11. PipelineTypeOK'
  <2>1. TypeOK'  BY <1>4, RowsTypedNext
  <2>2. QED  BY <1>2, <1>3, <1>5, <1>6, <1>9, <2>1 DEF PipelineTypeOK, QueueTypes
<1>12. Reopened'  BY <1>2 DEF PInv, Reopened, Settled
<1>13. QED
  BY <1>2, <1>3, <1>4, <1>8, <1>9, <1>10, <1>11, <1>12 DEF PInv

-----------------------------------------------------------------------------
(* Restarts                                                                 *)

LEMMA AskRestartKeeps ==
    ASSUME PInv, NEW r \in Requests, AskRestart(r)
    PROVE  PInv'
<1>1. /\ UNCHANGED <<build, job, history, logs, dispatched, notices, runs>>
      /\ UNCHANGED <<creation, reopening, performs, executing, statuses, handling, reported,
                     crashes>>
      /\ Next
  BY DEF AskRestart, RequestRestart, RollbackRestart, rows, queues, Next
<1>2. RInv'  BY <1>1, RefinementInvariant DEF PInv
<1>3. TypeOK'  BY <1>2, RowsTypedNext
<1>4. PipelineTypeOK' /\ runs' <= MaxRuns
  BY <1>1, <1>3 DEF PInv, PipelineTypeOK
<1>5. SentWhileDeploying(Begin)'
  BY <1>1 DEF PInv, SentWhileDeploying, Begin
<1>6. AllTold' /\ Timely' /\ Reopened' /\ OutcomesReported' /\ DeployAfterSuccess'
  BY <1>1 DEF PInv, AllTold, Told, Timely, OfRun, Settled, Reopened, OutcomesReported,
              DeployAfterSuccess
<1>7. Orderly => Orderly'
  BY <1>1 DEF Orderly, OneExecution, OneAnswer, AnswersOfThisRun, OutcomesOfSent,
              Answered, Queued, Held, Settled, Current, Pending
<1>8. crashes' = 0 /\ Regular # {} => Orderly'  BY <1>1, <1>7 DEF PInv
<1>9. QED  BY <1>2, <1>4, <1>5, <1>6, <1>8 DEF PInv

\* A restart finds all jobs settled: unless a consumer has crashed or a restart
\* was undone, no job is with a worker and no answer is on its way.
LEMMA OpenRestartKeeps ==
    ASSUME PInv, NEW r \in Requests, OpenRestart(r)
    PROVE  PInv'
<1>0. /\ \A j \in Jobs : Settled(j)
      /\ reopening = None /\ reopening' = r /\ r # None
      /\ runs < MaxRuns /\ runs \in 1..MaxRuns /\ MaxRuns \in Nat
      /\ performs' = PerformJobs(FirstJobs, runs + 1)
      /\ UNCHANGED vars
      /\ UNCHANGED <<build, job, history, logs, dispatched, notices, restarting, runs>>
      /\ UNCHANGED <<creation, executing, statuses, handling, reported, crashes>>
      /\ QueueTypes /\ AllTold
      /\ \A e \in Executions : performs[e] \in Nat /\ executing[e] \in Nat
      /\ \A e \in Executions : e.job \in Jobs
  BY PipelineTyped, NoneAssumption
     DEF OpenRestart, vars, Settled, PInv, PipelineTypeOK, QueueTypes
<1>1. performs' = [e \in Executions |-> IF e.job \in FirstJobs /\ e.run = runs + 1
                                        THEN performs[e] + 1 ELSE performs[e]]
  BY <1>0 DEF PerformJobs
<1>2. RInv'  BY <1>0, RefinementInvariant DEF PInv
<1>3. TypeOK'  BY <1>2, RowsTypedNext
<1>4. performs' \in [Executions -> Nat]  BY <1>0, <1>1
<1>5. PipelineTypeOK' /\ runs' <= MaxRuns
  BY <1>0, <1>3, <1>4 DEF PipelineTypeOK, QueueTypes
<1>6. SentWhileDeploying(Begin)'
  BY <1>0 DEF PInv, SentWhileDeploying, Begin
<1>7. AllTold'  BY <1>0 DEF AllTold, Told, OfRun, Settled
<1>8. Timely'
  <2>1. SUFFICES ASSUME NEW e \in Executions, performs'[e] + executing'[e] > 0
                 PROVE  OfRun(e.run)
    BY <1>0 DEF Timely, OfRun, Settled
  <2>2. CASE e.run = runs + 1  BY <1>0, <2>2 DEF OfRun
  <2>3. CASE e.run # runs + 1
    <3>1. performs[e] + executing[e] > 0  BY <1>0, <1>1, <2>1, <2>3
    <3>2. QED  BY <3>1 DEF PInv, Timely
  <2>4. QED  BY <2>2, <2>3
<1>9. Reopened'  BY <1>0 DEF Reopened, Settled
<1>10. OutcomesReported'  BY <1>0 DEF PInv, OutcomesReported
<1>11. DeployAfterSuccess'
  <2>1. SUFFICES ASSUME NEW e \in Executions, e.job \in Deploy,
                        performs'[e] + executing'[e] > 0, NEW k \in Regular
                 PROVE  \E n \in 1..e.run : /\ <<k, n, Passed>> \in reported
                                            /\ crashes = 0 => n = e.run
    BY <1>0 DEF DeployAfterSuccess
  <2>2. e.job \notin FirstJobs  BY <2>1, JobsAssumption DEF FirstJobs
  <2>3. performs[e] + executing[e] > 0  BY <1>0, <1>1, <2>1, <2>2
  <2>4. QED  BY <2>1, <2>3 DEF PInv, DeployAfterSuccess
<1>12. ASSUME Orderly  PROVE Orderly'
  <2>1. \A j \in Jobs : ~Pending(j)  BY <1>0 DEF Pending
  <2>2. \A e \in Executions : performs[e] + executing[e] = 0
    BY <1>0, <1>12, <2>1 DEF Orderly, OneExecution
  <2>3. \A j \in Jobs : ~Answered(j)  BY <1>12, <2>1 DEF Orderly, OneAnswer
  <2>4. /\ \A i \in DOMAIN statuses : statuses[i].status \notin Finished
        /\ \A c \in Consumers : handling[c] # None /\ ~handling[c].committed
                                => handling[c].msg.status \notin Finished
    BY <2>3, PipelineTyped DEF Answered, Queued, Held
  <2>5. AnswersOfThisRun' /\ OneAnswer'
    BY <1>0, <2>4 DEF AnswersOfThisRun, OneAnswer, Answered, Queued, Held
  <2>6. OutcomesOfSent'  BY <1>0, <1>12 DEF Orderly, OutcomesOfSent
  <2>7. OneExecution'
    <3>1. SUFFICES ASSUME NEW e \in Executions, performs'[e] + executing'[e] > 0
                   PROVE  /\ performs'[e] + executing'[e] = 1
                          /\ e.run = Current'
                          /\ Pending(e.job)'
                          /\ ~Answered(e.job)'
      BY DEF OneExecution
    <3>2. e.job \in FirstJobs /\ e.run = runs + 1
      BY <1>0, <1>1, <2>2, <3>1
    <3>3. performs'[e] + executing'[e] = 1
      BY <1>0, <1>1, <2>2, <3>2
    <3>4. ~Answered(e.job)'
      BY <1>0, <2>4 DEF Answered, Queued, Held
    <3>5. QED  BY <1>0, <3>2, <3>3, <3>4 DEF Current, Pending
  <2>8. QED  BY <2>5, <2>6, <2>7 DEF Orderly
<1>13. crashes' = 0 /\ Regular # {} => Orderly'  BY <1>0, <1>12 DEF PInv
<1>14. QED
  BY <1>2, <1>5, <1>6, <1>7, <1>8, <1>9, <1>10, <1>11, <1>13 DEF PInv

\* The commit makes of the published run the run of the rows.
LEMMA CommitRestartKeeps ==
    ASSUME PInv, NEW r \in Requests, CommitRestart(r)
    PROVE  PInv'
<1>0. /\ reopening = r /\ reopening' = None /\ r # None
      /\ runs < MaxRuns /\ runs' = runs + 1
      /\ runs \in 1..MaxRuns /\ MaxRuns \in Nat
      /\ job' = [j \in Jobs |-> Initialized]
      /\ dispatched' = [j \in Jobs |-> IF j \in FirstJobs THEN 1 ELSE 0]
      /\ UNCHANGED <<creation, performs, executing, statuses, handling, reported, crashes>>
      /\ Next
      /\ QueueTypes /\ AllTold
      /\ \A e \in Executions : e.job \in Jobs
  BY PipelineTyped, NoneAssumption
     DEF CommitRestart, Restart, queues, FirstDispatch, Next, PInv, PipelineTypeOK, QueueTypes
<1>1. \A n \in 1..MaxRuns : OfRun(n) => OfRun(n)'  BY <1>0 DEF OfRun
<1>2. RInv'  BY <1>0, RefinementInvariant DEF PInv
<1>3. TypeOK'  BY <1>2, RowsTypedNext
<1>4. PipelineTypeOK' /\ runs' <= MaxRuns
  BY <1>0, <1>3 DEF PipelineTypeOK, QueueTypes
<1>5. Regular # {} => \A d \in Deploy : d \notin FirstJobs
  BY JobsAssumption DEF FirstJobs
<1>6. SentWhileDeploying(Begin)'
  BY <1>0, <1>5 DEF SentWhileDeploying, Begin, Jobs
<1>7. AllTold'
  <2>1. \A m \in Messages : Told(m) => Told(m)'  BY <1>0, <1>1 DEF Told, Messages
  <2>2. \A i \in DOMAIN statuses' : Told(statuses[i])'
    BY <1>0, <2>1, PipelineTyped DEF AllTold
  <2>3. \A c \in Consumers : handling'[c] # None => Told(handling[c].msg)'
    BY <1>0, <2>1, PipelineTyped DEF AllTold
  <2>4. QED  BY <2>2, <2>3 DEF AllTold, Told, OfRun, Settled
<1>8. Timely'
  <2>1. SUFFICES ASSUME NEW e \in Executions, performs'[e] + executing'[e] > 0
                 PROVE  OfRun(e.run)'
    BY DEF Timely, OfRun, Settled
  <2>2. QED  BY <1>0, <1>1, <2>1, PipelineTyped DEF PInv, Timely
<1>9. Reopened'  BY <1>0 DEF Reopened
<1>10. OutcomesReported'  BY <1>0 DEF OutcomesReported
<1>11. DeployAfterSuccess'  BY <1>0 DEF PInv, DeployAfterSuccess
<1>12. ASSUME Orderly  PROVE Orderly'
  <2>1. Current' = Current /\ \A j \in Jobs : Pending(j) => Pending(j)'
    BY <1>0 DEF Current, Pending, Settled
  <2>2. AnswersOfThisRun' /\ OneAnswer'
    BY <1>0, <1>12, <2>1
       DEF Orderly, AnswersOfThisRun, OneAnswer, Answered, Queued, Held
  <2>3. OutcomesOfSent'  BY <1>0 DEF OutcomesOfSent
  <2>4. OneExecution'
    BY <1>0, <1>12, <2>1 DEF Orderly, OneExecution, Answered, Queued, Held
  <2>5. QED  BY <2>2, <2>3, <2>4 DEF Orderly
<1>13. crashes' = 0 /\ Regular # {} => Orderly'  BY <1>0, <1>12 DEF PInv
<1>14. QED
  BY <1>2, <1>4, <1>6, <1>7, <1>8, <1>9, <1>10, <1>11, <1>13 DEF PInv

\* A restart that is undone leaves what it has published.
LEMMA UndoRestartKeeps ==
    ASSUME PInv, NEW r \in Requests, UndoRestart(r)
    PROVE  PInv'
<1>1. /\ UNCHANGED <<build, job, history, logs, dispatched, notices, runs>>
      /\ UNCHANGED <<creation, performs, executing, statuses, handling, reported>>
      /\ reopening' = None
      /\ restarting' = restarting \ {r}
      /\ crashes \in 0..MaxCrashes /\ MaxCrashes \in Nat
      /\ crashes < MaxCrashes /\ crashes' = crashes + 1
      /\ RInv
  BY CrashesAssumption DEF UndoRestart, rows, queues, PInv, PipelineTypeOK
<1>2. crashes' \in 0..MaxCrashes /\ crashes' # 0  BY <1>1
<1>3. RInv'
  <2>1. restarting' \subseteq Requests  BY <1>1 DEF RInv, IInv
  <2>2. Begin' = Begin  BY <1>1 DEF Begin
  <2>3. QED
    BY <1>1, <2>1, <2>2 DEF RInv, IInv, Consistent, Closed, GateClosed, Typed,
       VerdictAfterJobs, UntouchedBuild, GateOpened, VerdictOfJobs, SentThroughGate,
       CancelledBehindFailure, Announced, Counted
<1>4. TypeOK'  BY <1>3, RowsTypedNext
<1>5. PipelineTypeOK' /\ runs' <= MaxRuns
  BY <1>1, <1>2, <1>4 DEF PInv, PipelineTypeOK
<1>6. SentWhileDeploying(Begin)'  BY <1>1 DEF PInv, SentWhileDeploying, Begin
<1>7. AllTold' /\ Timely' /\ Reopened' /\ OutcomesReported' /\ DeployAfterSuccess'
  BY <1>1, <1>2 DEF PInv, AllTold, Told, Timely, OfRun, Settled, Reopened,
                    OutcomesReported, DeployAfterSuccess
<1>8. QED  BY <1>2, <1>3, <1>5, <1>6, <1>7 DEF PInv

-----------------------------------------------------------------------------
LEMMA PipelineInitKeeps == PipelineInit => PInv
<1> SUFFICES ASSUME PipelineInit  PROVE PInv
  OBVIOUS
<1>0. /\ Init /\ creation = "open" /\ reopening = None
      /\ performs = [e \in Executions |-> IF e.job \in FirstJobs /\ e.run = 1 THEN 1 ELSE 0]
      /\ executing = [e \in Executions |-> 0]
      /\ statuses = <<>>
      /\ handling = [c \in Consumers |-> None]
      /\ reported = {} /\ crashes = 0
      /\ job = [j \in Jobs |-> Initialized]
      /\ dispatched = [j \in Jobs |-> IF j \in FirstJobs THEN 1 ELSE 0]
      /\ runs = 1
      /\ MaxRuns \in Nat \ {0} /\ MaxCrashes \in Nat
      /\ \A e \in Executions : e.job \in Jobs
  BY RunsAssumption, CrashesAssumption
     DEF PipelineInit, Init, FirstDispatch, Executions
<1>1. RInv
  <2>1. \A k \in Regular : Begin.job[k] \notin {Failed, Errored}
    BY <1>0 DEF Begin, Jobs
  <2>2. GateClosed(Begin)  BY <2>1 DEF GateClosed
  <2>3. QED  BY <1>0, <2>2, InitInvariant DEF RInv
<1>2. PipelineTypeOK /\ runs <= MaxRuns
  BY <1>0, <1>1, RowsTyped DEF PipelineTypeOK
<1>3. Regular # {} => \A d \in Deploy : d \notin FirstJobs
  BY JobsAssumption DEF FirstJobs
<1>4. SentWhileDeploying(Begin)
  BY <1>0, <1>3 DEF SentWhileDeploying, Begin, Jobs
<1>5. AllTold /\ Reopened /\ OutcomesReported
  BY <1>0 DEF AllTold, Reopened, OutcomesReported
<1>6. Timely  BY <1>0 DEF Timely, OfRun
<1>7. DeployAfterSuccess  BY <1>0, <1>3 DEF DeployAfterSuccess
<1>8. Orderly
  <2>1. AnswersOfThisRun /\ OneAnswer
    BY <1>0 DEF AnswersOfThisRun, OneAnswer, Answered, Queued, Held
  <2>2. OutcomesOfSent  BY <1>0 DEF OutcomesOfSent
  <2>3. OneExecution
    BY <1>0 DEF OneExecution, Answered, Queued, Held, Settled, Current, Pending
  <2>4. QED  BY <2>1, <2>2, <2>3 DEF Orderly
<1>9. QED  BY <1>1, <1>2, <1>4, <1>5, <1>6, <1>7, <1>8 DEF PInv

LEMMA PipelineNextKeeps == PInv /\ [PipelineNext]_pipelineVars => PInv'
<1> SUFFICES ASSUME PInv, [PipelineNext]_pipelineVars  PROVE PInv'
  OBVIOUS
<1>1. CASE EndCreation  BY <1>1, EndCreationKeeps
<1>2. ASSUME NEW e \in Executions, StartExecution(e)  PROVE PInv'
  BY <1>2, StartExecutionKeeps
<1>3. ASSUME NEW e \in Executions, RefuseExecution(e)  PROVE PInv'
  BY <1>3, RefuseExecutionKeeps
<1>4. ASSUME NEW e \in Executions, NEW status \in Finished, FinishExecution(e, status)
      PROVE  PInv'
  BY <1>4, FinishExecutionKeeps
<1>5. ASSUME NEW c \in Consumers, Deliver(c)  PROVE PInv'
  BY <1>5, DeliverKeeps
<1>6. ASSUME NEW c \in Consumers, Handle(c)  PROVE PInv'
  BY <1>6, HandleKeeps
<1>7. ASSUME NEW c \in Consumers, Acknowledge(c)  PROVE PInv'
  BY <1>7, AcknowledgeKeeps
<1>8. ASSUME NEW c \in Consumers, Crash(c)  PROVE PInv'
  BY <1>8, CrashKeeps
<1>9. ASSUME NEW r \in Requests, AskRestart(r)  PROVE PInv'
  BY <1>9, AskRestartKeeps
<1>10. ASSUME NEW r \in Requests, OpenRestart(r)  PROVE PInv'
  BY <1>10, OpenRestartKeeps
<1>11. ASSUME NEW r \in Requests, CommitRestart(r)  PROVE PInv'
  BY <1>11, CommitRestartKeeps
<1>12. ASSUME NEW r \in Requests, UndoRestart(r)  PROVE PInv'
  BY <1>12, UndoRestartKeeps
<1>13. CASE UNCHANGED pipelineVars
  <2>1. /\ UNCHANGED vars
        /\ UNCHANGED <<build, job, history, logs, dispatched, notices, restarting, runs>>
        /\ UNCHANGED <<creation, reopening, performs, executing, statuses, handling, reported,
                       crashes>>
        /\ QueueTypes /\ AllTold
    BY <1>13 DEF pipelineVars, vars, queues, PInv, PipelineTypeOK, QueueTypes
  <2>2. QueueTypes'  BY <2>1 DEF QueueTypes
  <2>3. AllTold'  BY <2>1 DEF AllTold, Told, OfRun, Settled
  <2>4. Orderly => OneExecution' /\ OneAnswer' /\ AnswersOfThisRun'
    BY <2>1 DEF Orderly, OneExecution, OneAnswer, AnswersOfThisRun, Answered,
                Queued, Held, Settled, Current, Pending
  <2>5. QED  BY <2>1, <2>2, <2>3, <2>4, QuietStep DEF PInv
<1>14. QED
  BY <1>1, <1>2, <1>3, <1>4, <1>5, <1>6, <1>7, <1>8, <1>9, <1>10, <1>11, <1>12, <1>13
     DEF PipelineNext, Work, Consume

\* The invariant holds of every behaviour of the pipeline.
THEOREM PipelineInvariance == PipelineSpec => []PInv
<1>1. PipelineInit => PInv  BY PipelineInitKeeps
<1>2. PInv /\ [PipelineNext]_pipelineVars => PInv'  BY PipelineNextKeeps
<1>3. QED  BY <1>1, <1>2, PTL DEF PipelineSpec

\* Every variable of the pipeline has its type.
THEOREM PipelineTypes == PipelineSpec => []PipelineTypeOK
<1>1. PInv => PipelineTypeOK  BY DEF PInv
<1>2. QED  BY <1>1, PipelineInvariance, PTL

\* The outcome that the page of a job shows was reported by a worker for that
\* job in this run or an earlier one, however often consumers crash and restarts
\* are undone after they were published; in this run as long as neither happens
\* and there are regular jobs (JobUpdater#perform, Build#restart).
THEOREM ReportedOutcomes == PipelineSpec => []OutcomesReported
<1>1. PInv => OutcomesReported  BY DEF PInv
<1>2. QED  BY <1>1, PipelineInvariance, PTL

\* A deploy job reaches a worker only when the workers have reported success
\* for every regular job in its run or an earlier one, even if the transaction
\* that published it was undone; in its run as long as no consumer crashes and no
\* restart is undone (JobUpdater#start_deploy, Build#restart, JobsConsumer#publish).
THEOREM DeployBehindSuccess == PipelineSpec => []DeployAfterSuccess
<1>1. PInv => DeployAfterSuccess  BY DEF PInv
<1>2. QED  BY <1>1, PipelineInvariance, PTL
=============================================================================
