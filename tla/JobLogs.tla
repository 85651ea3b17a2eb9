-------------------------------- MODULE JobLogs --------------------------------
(***************************************************************************)
(* The log of one job on its way from the worker to a page.                *)
(*                                                                         *)
(* The worker sends statuses and lines through two queues, each with a     *)
(* consumer of its own, which acknowledges a message when it is done:      *)
(*                                                                         *)
(*   JobLogsConsumer     inserts the line, then publishes job_log:created  *)
(*   JobStatusConsumer   on "started" deletes the log of the run before,   *)
(*                       publishes job:logs_truncated, then commits        *)
(*                                                                         *)
(* Job#restart deletes the log as well, and publishes nothing about it.    *)
(* A browser keeps the log as a collection, fetched once and then changed  *)
(* by the events, which come over another connection than the answers.     *)
(*                                                                         *)
(* job_logs are ordered by tm.  It comes from the worker and is taken to   *)
(* grow from message to message, so that it is the order of the rows here. *)
(***************************************************************************)
EXTENDS LogOutput

CONSTANTS
    Chunks,     \* texts of messages
    MaxLines,   \* bound: messages with lines
    MaxRuns,    \* bound: runs of the job
    MaxCrashes  \* bound: crashes of consumers

ASSUME BoundsAssumption == {MaxLines, MaxRuns, MaxCrashes} \subseteq Nat

VARIABLES
    offers,    \* PerformJob messages that no worker has taken
    executing, \* the worker has the job
    job,       \* its status, as it is committed: "over" for passed, failed, errored
    lines,     \* queue of log messages
    statuses,  \* queue of status messages
    rows,      \* job_logs of the job
    appender,  \* what JobLogsConsumer has done for the first message of lines
    updater,   \* what JobStatusConsumer has done for that of statuses
    doomed,    \* how many rows its open transaction has deleted, from the first
    stream,    \* events on their way to the browser
    logs,      \* the collection all:job in the cache of jobLogModel
    answer,    \* the request for it: none, asked, or the rows that were read
    page,      \* the page of the job
    differs,   \* the collection is known to differ from the rows
    sent,      \* lines the worker has sent
    cut,       \* up to which a restart or a "started" has deleted them
    runs,      \* how often the job was sent to a worker
    crashes

worker == <<offers, executing>>
server == <<job, lines, statuses, rows, appender, updater, doomed>>
browser == <<logs, answer, page>>
history == <<sent, cut, runs, crashes>>
vars == <<worker, server, stream, browser, differs, history>>

Created(line) == [event |-> "created", line |-> line]
Truncated == [event |-> "truncated", line |-> None]

\* Variant: no handler of job:logs_truncated.
ApplyCreated(collection, it) ==
    IF it.event = "truncated" THEN collection ELSE Append(collection, it.line)

\* The handlers of jobLogModel; without a collection nothing happens.
Apply(collection, it) ==
    IF it.event = "truncated" THEN <<>> ELSE Append(collection, it.line)

\* Events the consumers have yet to publish.
Owed == (IF appender = "stored" THEN <<Created(Head(lines))>> ELSE <<>>)
        \o (IF updater = "deleted" THEN <<Truncated>> ELSE <<>>)

Surviving == SubSeq(rows, doomed + 1, Len(rows))

\* What the events make of a collection: the lines they bring, after the last
\* truncation if there is one.
Becomes(collection, events, result) ==
    \E n \in 0..Len(events) :
        /\ n # 0 => events[n].event = "truncated"
        /\ \A i \in DOMAIN events : i > n => events[i].event = "created"
        /\ result = (IF n = 0 THEN collection ELSE <<>>)
                    \o [i \in 1..(Len(events) - n) |-> events[n + i].line]

\* When all events have arrived the collection is the log.
Follows == logs # None => Becomes(logs, stream \o Owed, Surviving)

\* The steps after which it may not be: they are named where they are taken.
MayDiffer == differs' = ~Follows'
Repairs == differs' = (differs /\ ~Follows')

-----------------------------------------------------------------------------
(* The worker                                                               *)

\* It takes the PerformJob message.
StartJob ==
    /\ offers > 0 /\ ~executing
    /\ offers' = offers - 1
    /\ executing' = TRUE
    /\ statuses' = Append(statuses, "started")
    /\ UNCHANGED <<job, lines, rows, appender, updater, doomed, stream, browser, differs,
                   history>>

\* It cannot execute the job.
RefuseJob ==
    /\ offers > 0 /\ ~executing
    /\ offers' = offers - 1
    /\ statuses' = Append(statuses, "errored")
    /\ UNCHANGED <<executing, job, lines, rows, appender, updater, doomed, stream, browser,
                   differs, history>>

WriteLog(chunk) ==
    /\ executing
    /\ sent < MaxLines
    /\ sent' = sent + 1
    /\ lines' = Append(lines, [tm |-> sent + 1, chunk |-> chunk])
    /\ UNCHANGED <<worker, job, statuses, rows, appender, updater, doomed, stream, browser,
                   differs, cut, runs, crashes>>

\* The job passes or fails.
FinishJob ==
    /\ executing
    /\ executing' = FALSE
    /\ statuses' = Append(statuses, "finished")
    /\ UNCHANGED <<offers, job, lines, rows, appender, updater, doomed, stream, browser,
                   differs, history>>

-----------------------------------------------------------------------------
(* JobLogsConsumer                                                          *)

\* append_log_message commits by itself.  A line that is stored while "started"
\* has deleted the others but not yet said so is taken for one of them.
AppendLogMessage ==
    /\ lines # <<>>
    /\ appender = "idle"
    /\ rows' = Append(rows, Head(lines))
    /\ appender' = "stored"
    /\ UNCHANGED <<worker, job, lines, statuses, updater, doomed, stream, browser, history>>
    /\ IF updater = "deleted" THEN MayDiffer ELSE Repairs

PublishCreated ==
    /\ appender = "stored"
    /\ appender' = "published"
    /\ stream' = Append(stream, Created(Head(lines)))
    /\ UNCHANGED <<worker, job, lines, statuses, rows, updater, doomed, browser, history>>
    /\ Repairs

AckLog ==
    /\ appender = "published"
    /\ appender' = "idle"
    /\ lines' = Tail(lines)
    /\ UNCHANGED <<worker, job, statuses, rows, updater, doomed, stream, browser, differs,
                   history>>

\* The message is delivered again: the line is stored twice.
CrashAppender ==
    /\ crashes < MaxCrashes
    /\ appender # "idle"
    /\ appender' = "idle"
    /\ crashes' = crashes + 1
    /\ UNCHANGED <<worker, job, lines, statuses, rows, updater, doomed, stream, browser,
                   sent, cut, runs>>
    /\ MayDiffer

-----------------------------------------------------------------------------
(* JobStatusConsumer                                                        *)

\* The job may move to the status; otherwise InvalidTransition ends the update.
Accepts(status) ==
    CASE status = "started"  -> job \in {"initialized", "started"}
      [] status = "finished" -> job = "started"
      [] status = "errored"  -> job \in {"initialized", "started"}

\* Variant: the log is deleted by every status.
TruncatesAlways(status) == Accepts(status)

\* truncate_job_logs
Truncates(status) == status = "started" /\ Accepts(status)

\* JobUpdater#perform, up to the deletion of the log.
DeleteLogs ==
    /\ statuses # <<>>
    /\ updater = "idle"
    /\ Truncates(Head(statuses))
    /\ doomed' = Len(rows)
    /\ updater' = "deleted"
    /\ UNCHANGED <<worker, job, lines, statuses, rows, appender, stream, browser, history>>
    /\ Repairs

\* It is too early for the line that is stored and not yet published.
PublishTruncated ==
    /\ updater = "deleted"
    /\ updater' = "truncated"
    /\ stream' = Append(stream, Truncated)
    /\ UNCHANGED <<worker, job, lines, statuses, rows, appender, doomed, browser, history>>
    /\ IF appender = "stored" THEN MayDiffer ELSE Repairs

\* The transaction commits; it has something to delete only after "started".
CommitStatus ==
    LET status == Head(statuses) IN
    /\ statuses # <<>>
    /\ updater = IF Truncates(status) THEN "truncated" ELSE "idle"
    /\ rows' = Surviving
    /\ doomed' = 0
    /\ job' = IF ~Accepts(status) THEN job ELSE IF status = "started" THEN status ELSE "over"
    /\ updater' = "committed"
    /\ cut' = IF status = "started" /\ doomed > 0 THEN Max({cut, rows[doomed].tm}) ELSE cut
    /\ UNCHANGED <<worker, lines, statuses, appender, stream, browser, sent, runs, crashes>>
    /\ Repairs

AckStatus ==
    /\ updater = "committed"
    /\ updater' = "idle"
    /\ statuses' = Tail(statuses)
    /\ UNCHANGED <<worker, job, lines, rows, appender, doomed, stream, browser, differs,
                   history>>

\* What is not committed is undone, but for the event.  The message is delivered
\* again.
CrashUpdater ==
    /\ crashes < MaxCrashes
    /\ updater # "idle"
    /\ updater' = "idle"
    /\ doomed' = 0
    /\ crashes' = crashes + 1
    /\ UNCHANGED <<worker, job, lines, statuses, rows, appender, stream, browser, sent, cut,
                   runs>>
    /\ MayDiffer

\* Job#restart, under the lock of the project that every update takes.  It
\* deletes the log; the pages keep theirs until the next "started".
Restart ==
    /\ job = "over"
    /\ runs < MaxRuns
    /\ updater \in {"idle", "committed"}
    /\ runs' = runs + 1
    /\ offers' = offers + 1
    /\ job' = "initialized"
    /\ rows' = <<>>
    /\ cut' = sent
    /\ UNCHANGED <<executing, lines, statuses, appender, updater, doomed, stream, browser,
                   sent, crashes>>
    /\ MayDiffer

-----------------------------------------------------------------------------
(* The browser                                                              *)

Data(collection) == [i \in DOMAIN collection |-> collection[i].chunk]

\* A digest follows every event and every answer.
DigestPage(shown, collection) == Digest(shown, Data(collection))

\* JobCtrl asks jobLogModel.all for the log: it is in the cache, or asked for.
\* (Bound: one request at a time; ClientCache has several.)
OpenPage ==
    /\ page.stage = "closed"
    /\ answer = None
    /\ IF logs # None
       THEN page' = DigestPage([page EXCEPT !.stage = "open"], logs) /\ UNCHANGED answer
       ELSE /\ page' = [page EXCEPT !.stage = "waiting"]
            /\ answer' = [read |-> FALSE, rows |-> <<>>]
    /\ UNCHANGED <<worker, server, stream, logs, differs, history>>

\* Api::JobLogsController#index
ReadLogs ==
    /\ answer # None /\ ~answer.read
    /\ answer' = [read |-> TRUE, rows |-> rows]
    /\ UNCHANGED <<worker, server, stream, logs, page, differs, history>>

\* The answer goes into the cache.  An event that overtook it is missing there,
\* and one whose row it has is still to come.
AnswerLogs ==
    /\ answer # None /\ answer.read
    /\ logs' = answer.rows
    /\ answer' = None
    /\ page' = IF page.stage = "waiting"
               THEN DigestPage([page EXCEPT !.stage = "open"], logs') ELSE page
    /\ UNCHANGED <<worker, server, stream, history>>
    /\ MayDiffer

LeavePage ==
    /\ page.stage # "closed"
    /\ page' = Closed
    /\ UNCHANGED <<worker, server, stream, logs, answer, differs, history>>

\* Five other logs have taken the places of the cache; that of an open page is
\* the newest.
Evict ==
    /\ page.stage = "closed"
    /\ logs # None
    /\ logs' = None
    /\ UNCHANGED <<worker, server, stream, answer, page, history>>
    /\ Repairs

Receive ==
    /\ stream # <<>>
    /\ stream' = Tail(stream)
    /\ logs' = IF logs = None THEN None ELSE Apply(logs, Head(stream))
    /\ page' = IF logs = None THEN page ELSE DigestPage(page, logs')
    /\ UNCHANGED <<worker, server, answer, history>>
    /\ Repairs

-----------------------------------------------------------------------------
Init ==
    /\ offers = 1 /\ executing = FALSE
    /\ job = "initialized"
    /\ lines = <<>> /\ statuses = <<>> /\ rows = <<>>
    /\ appender = "idle" /\ updater = "idle" /\ doomed = 0
    /\ stream = <<>>
    /\ logs = None /\ answer = None /\ page = Closed
    /\ differs = FALSE
    /\ sent = 0 /\ cut = 0 /\ runs = 1 /\ crashes = 0

Next ==
    \/ StartJob \/ RefuseJob \/ FinishJob
    \/ \E chunk \in Chunks : WriteLog(chunk)
    \/ AppendLogMessage \/ PublishCreated \/ AckLog \/ CrashAppender
    \/ DeleteLogs \/ PublishTruncated \/ CommitStatus \/ AckStatus \/ CrashUpdater
    \/ Restart
    \/ OpenPage \/ ReadLogs \/ AnswerLogs \/ LeavePage \/ Evict \/ Receive

Spec == Init /\ [][Next]_vars

-----------------------------------------------------------------------------
(* Correctness                                                              *)

\* The collection of a page follows what is stored: every line and every
\* truncation reaches it once and in order.  Where a race lets them differ
\* (MayDiffer: a crash, a restart, a fetch, a line that crosses a truncation)
\* nothing else does, and once they agree they do so until the next such race.
CollectionFollowsRows == differs \/ Follows

\* The page shows its collection as a terminal would, wherever the log was cut
\* into messages, whenever the page was opened, and however often the log was
\* truncated (VxLib.LogOutput, appTaskOutput).
ScreenShowsLog ==
    page.stage = "open" =>
       Renders(IF page.output = None THEN <<>> ELSE page.output.lines,
               FlattenSeq(Data(logs)))

\* Lines are lost at the beginning of a run only: those that overtook its
\* "started", or the repetition of it.  What was consumed after them is stored,
\* whatever statuses and crashes come between.
LaterLinesAreKept ==
    \A tm \in (cut + 1)..sent :
        (\A i \in DOMAIN lines : lines[i].tm # tm) => \E i \in DOMAIN rows : rows[i].tm = tm
=============================================================================
