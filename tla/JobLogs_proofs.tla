---------------------------- MODULE JobLogs_proofs ----------------------------
(***************************************************************************)
(* Proofs about JobLogs, for any lines, runs and crashes.                  *)
(*                                                                         *)
(*   Typed      the variables have their types, and what a consumer has    *)
(*              done is something it has a message for                     *)
(*   Numbered   the queue holds the last lines that were sent, and every   *)
(*              line before them is stored, or was deleted at the          *)
(*              beginning of a run                                         *)
(*                                                                         *)
(* That the collection follows the rows needs, beside, what appending and  *)
(* receiving an event do to the collection that the events lead to.        *)
(***************************************************************************)
EXTENDS JobLogs, SequenceTheorems, TLAPS

Line == [tm: Nat, chunk: Chunks]
Shown == Line \cup {None}
Events == [event: {"created", "truncated"}, line: Shown]

Typed ==
    /\ lines \in Seq(Line)
    /\ statuses \in Seq({"started", "finished", "errored"})
    /\ rows \in Seq(Line)
    /\ appender \in {"idle", "stored", "published"}
    /\ updater \in {"idle", "deleted", "truncated", "committed"}
    /\ doomed \in 0..Len(rows)
    /\ stream \in Seq(Events)
    /\ logs \in Seq(Shown) \cup {None}
    /\ answer # None => answer.rows \in Seq(Line)
    /\ differs \in BOOLEAN
    /\ sent \in Nat
    /\ cut \in Nat
    /\ appender # "idle" => lines # <<>>
    /\ updater # "idle" => statuses # <<>>
    /\ updater \in {"idle", "committed"} => doomed = 0

\* Lines that the consumer is done with.
Consumed == sent - Len(lines)

Stored(tm) == \E i \in DOMAIN rows : rows[i].tm = tm

Numbered ==
    /\ Len(lines) <= sent
    /\ \A i \in DOMAIN lines : lines[i].tm = Consumed + i
    /\ \A i \in DOMAIN rows : rows[i].tm <= Consumed + 1
    /\ \A i, j \in DOMAIN rows : i <= j => rows[i].tm <= rows[j].tm
    /\ \A tm \in (cut + 1)..Consumed : Stored(tm)
    /\ appender # "idle" => Consumed + 1 <= cut \/ Stored(Consumed + 1)

Inv == Typed /\ Numbered

-----------------------------------------------------------------------------
(* Types                                                                    *)

LEMMA Sizes ==
    ASSUME Typed
    PROVE  /\ Len(lines) \in Nat /\ Len(rows) \in Nat /\ doomed \in Nat
           /\ DOMAIN lines = 1..Len(lines) /\ DOMAIN rows = 1..Len(rows)
           /\ lines # <<>> => Len(lines) > 0 /\ Head(lines) = lines[1] /\ lines[1] \in Line
BY DEF Typed

\* The rows that the open transaction leaves.
LEMMA Left ==
    ASSUME Typed
    PROVE  /\ Surviving \in Seq(Line)
           /\ Len(Surviving) = Len(rows) - doomed
           /\ \A i \in 1..Len(Surviving) : Surviving[i] = rows[doomed + i]
<1>1. /\ rows \in Seq(Line) /\ Len(rows) \in Nat /\ doomed \in Nat /\ doomed <= Len(rows)
  BY DEF Typed
<1>2. \A i \in (doomed + 1)..Len(rows) : rows[i] \in Line  BY <1>1
<1>3. /\ Surviving \in Seq(Line)
      /\ Len(Surviving) = IF doomed + 1 <= Len(rows) THEN Len(rows) - (doomed + 1) + 1 ELSE 0
      /\ \A i \in 1..(Len(rows) - (doomed + 1) + 1) :
            Surviving[i] = rows[(doomed + 1) + i - 1]
  BY <1>1, <1>2, SubSeqProperties DEF Surviving
<1>4. QED  BY <1>1, <1>3

LEMMA MaxOfTwo ==
    ASSUME NEW a \in Nat, NEW b \in Nat
    PROVE  Max({a, b}) \in {a, b} /\ Max({a, b}) >= a /\ Max({a, b}) >= b
<1>1. \E x \in {a, b} : \A y \in {a, b} : x >= y  OBVIOUS
<1>2. QED  BY <1>1 DEF Max

LEMMA TypedInit == Init => Typed
<1> SUFFICES ASSUME Init  PROVE Typed
  OBVIOUS
<1>1. /\ lines \in Seq(Line) /\ rows \in Seq(Line) /\ stream \in Seq(Events)
      /\ statuses \in Seq({"started", "finished", "errored"})
      /\ Len(rows) = 0
  BY DEF Init
<1>2. doomed \in 0..Len(rows)  BY <1>1 DEF Init
<1>3. QED  BY <1>1, <1>2 DEF Init, Typed

LEMMA TypedNext == Typed /\ [Next]_vars => Typed'
<1> SUFFICES ASSUME Typed, [Next]_vars  PROVE Typed'
  OBVIOUS
<1> USE DEF worker, server, browser, history, MayDiffer, Repairs
<1>1. CASE StartJob  BY <1>1 DEF StartJob, Typed
<1>2. CASE RefuseJob  BY <1>2 DEF RefuseJob, Typed
<1>3. CASE FinishJob  BY <1>3 DEF FinishJob, Typed
<1>4. ASSUME NEW chunk \in Chunks, WriteLog(chunk)  PROVE Typed'
  <2> DEFINE x == [tm |-> sent + 1, chunk |-> chunk]
  <2>1. x \in Line  BY DEF Line, Typed
  <2> HIDE DEF x
  <2>2. lines' = Append(lines, x) /\ sent' = sent + 1  BY <1>4 DEF WriteLog, x
  <2>3. lines' \in Seq(Line) /\ lines' # <<>> /\ sent' \in Nat
    BY <2>1, <2>2, AppendProperties DEF Typed
  <2>4. QED  BY <1>4, <2>3 DEF WriteLog, Typed
<1>5. CASE AppendLogMessage
  <2>1. rows' = Append(rows, Head(lines)) /\ Head(lines) \in Line
    BY <1>5, Sizes DEF AppendLogMessage
  <2>2. rows' \in Seq(Line) /\ Len(rows') = Len(rows) + 1
    BY <2>1 DEF Typed
  <2>3. doomed' \in 0..Len(rows')  BY <1>5, <2>2, Sizes DEF AppendLogMessage, Typed
  <2>4. differs' \in BOOLEAN  BY <1>5 DEF AppendLogMessage
  <2>5. QED  BY <1>5, <2>2, <2>3, <2>4 DEF AppendLogMessage, Typed
<1>6. CASE PublishCreated
  <2> DEFINE x == Created(Head(lines))
  <2>1. x \in Events
    BY <1>6, Sizes DEF PublishCreated, Typed, Created, Events, Shown
  <2> HIDE DEF x
  <2>2. stream' = Append(stream, x)  BY <1>6 DEF PublishCreated, x
  <2>3. stream' \in Seq(Events)  BY <2>1, <2>2 DEF Typed
  <2>4. differs' \in BOOLEAN  BY <1>6 DEF PublishCreated
  <2>5. QED  BY <1>6, <2>3, <2>4 DEF PublishCreated, Typed
<1>7. CASE AckLog
  <2>1. lines' \in Seq(Line)  BY <1>7 DEF AckLog, Typed
  <2>2. QED  BY <1>7, <2>1 DEF AckLog, Typed
<1>8. CASE CrashAppender
  <2>1. differs' \in BOOLEAN  BY <1>8 DEF CrashAppender
  <2>2. QED  BY <1>8, <2>1 DEF CrashAppender, Typed
<1>9. CASE DeleteLogs
  <2>1. differs' \in BOOLEAN  BY <1>9 DEF DeleteLogs
  <2>2. doomed' \in 0..Len(rows')  BY <1>9, Sizes DEF DeleteLogs
  <2>3. QED  BY <1>9, <2>1, <2>2 DEF DeleteLogs, Typed
<1>10. CASE PublishTruncated
  <2>1. differs' \in BOOLEAN  BY <1>10 DEF PublishTruncated
  <2>2. Truncated \in Events  BY DEF Truncated, Events, Shown
  <2>3. stream' \in Seq(Events)  BY <1>10, <2>2 DEF PublishTruncated, Typed
  <2>4. QED  BY <1>10, <2>1, <2>3 DEF PublishTruncated, Typed
<1>11. CASE CommitStatus
  <2>1. differs' \in BOOLEAN  BY <1>11 DEF CommitStatus
  <2>2. rows' \in Seq(Line) /\ doomed' = 0 /\ doomed' \in 0..Len(rows')
    BY <1>11, Left DEF CommitStatus
  <2>3. cut' \in Nat
    <3>1. CASE cut' = cut  BY <3>1 DEF Typed
    <3>2. CASE cut' # cut
      <4>1. doomed > 0 /\ cut' = Max({cut, rows[doomed].tm})  BY <1>11, <3>2 DEF CommitStatus
      <4>2. rows[doomed] \in Line  BY <4>1 DEF Typed
      <4>3. rows[doomed].tm \in Nat /\ cut \in Nat  BY <4>2 DEF Line, Typed
      <4>4. QED  BY <4>1, <4>3, MaxOfTwo
    <3>3. QED  BY <3>1, <3>2
  <2>4. QED  BY <1>11, <2>1, <2>2, <2>3 DEF CommitStatus, Typed
<1>12. CASE AckStatus
  <2>1. statuses' \in Seq({"started", "finished", "errored"})
    BY <1>12 DEF AckStatus, Typed
  <2>2. QED  BY <1>12, <2>1 DEF AckStatus, Typed
<1>13. CASE CrashUpdater
  <2>1. differs' \in BOOLEAN  BY <1>13 DEF CrashUpdater
  <2>2. doomed' \in 0..Len(rows')  BY <1>13, Sizes DEF CrashUpdater
  <2>3. QED  BY <1>13, <2>1, <2>2 DEF CrashUpdater, Typed
<1>14. CASE Restart
  <2>1. differs' \in BOOLEAN  BY <1>14 DEF Restart
  <2>2. rows' \in Seq(Line) /\ doomed' \in 0..Len(rows')
    BY <1>14 DEF Restart, Typed
  <2>3. QED  BY <1>14, <2>1, <2>2 DEF Restart, Typed
<1>15. CASE OpenPage
  <2>1. answer' # None => answer'.rows \in Seq(Line)
    <3>1. answer' = answer \/ answer' = [read |-> FALSE, rows |-> <<>>]
      BY <1>15 DEF OpenPage
    <3>2. CASE answer' = answer  BY <3>2 DEF Typed
    <3>3. CASE answer' = [read |-> FALSE, rows |-> <<>>]
      <4>1. answer'.rows = <<>>  BY <3>3
      <4>2. QED  BY <4>1
    <3>4. QED  BY <3>1, <3>2, <3>3
  <2>2. UNCHANGED <<lines, statuses, rows, appender, updater, doomed, stream, logs, differs,
                    sent, cut>>
    BY <1>15 DEF OpenPage
  <2>3. QED  BY <2>1, <2>2 DEF Typed
<1>16. CASE ReadLogs  BY <1>16 DEF ReadLogs, Typed
<1>17. CASE AnswerLogs
  <2>1. differs' \in BOOLEAN  BY <1>17 DEF AnswerLogs
  <2>2. logs' \in Seq(Shown)
    <3>1. logs' \in Seq(Line) /\ Line \subseteq Shown
      BY <1>17 DEF AnswerLogs, Typed, Shown
    <3>2. QED  BY <3>1, SeqMonotonic
  <2>3. QED  BY <1>17, <2>1, <2>2 DEF AnswerLogs, Typed
<1>18. CASE LeavePage  BY <1>18 DEF LeavePage, Typed
<1>19. CASE Evict
  <2>1. differs' \in BOOLEAN  BY <1>19 DEF Evict
  <2>2. QED  BY <1>19, <2>1 DEF Evict, Typed
<1>20. CASE Receive
  <2>1. differs' \in BOOLEAN  BY <1>20 DEF Receive
  <2>2. stream' \in Seq(Events) /\ Head(stream) \in Events  BY <1>20 DEF Receive, Typed
  <2>3. logs' \in Seq(Shown) \cup {None}
    <3>1. CASE logs = None  BY <1>20, <3>1 DEF Receive
    <3>2. CASE logs # None
      <4>1. logs' = Apply(logs, Head(stream)) /\ logs \in Seq(Shown)
        BY <1>20, <3>2 DEF Receive, Typed
      <4>2. Head(stream).line \in Shown  BY <2>2 DEF Events
      <4>3. QED  BY <4>1, <4>2 DEF Apply
    <3>3. QED  BY <3>1, <3>2
  <2>4. QED  BY <1>20, <2>1, <2>2, <2>3 DEF Receive, Typed
<1>21. CASE UNCHANGED vars  BY <1>21 DEF vars, Typed
<1>22. QED
  BY <1>1, <1>2, <1>3, <1>4, <1>5, <1>6, <1>7, <1>8, <1>9, <1>10, <1>11, <1>12, <1>13,
     <1>14, <1>15, <1>16, <1>17, <1>18, <1>19, <1>20, <1>21 DEF Next

-----------------------------------------------------------------------------
(* Which lines are kept                                                     *)

LEMMA NumberedInit == Init => Numbered
BY DEF Init, Numbered, Consumed

\* The numbers of lines and rows.
LEMMA Numbers ==
    ASSUME Inv
    PROVE  /\ Consumed \in Nat /\ Consumed = sent - Len(lines) /\ Len(lines) \in Nat
           /\ Len(rows) \in Nat /\ cut \in Nat /\ sent \in Nat
           /\ \A i \in DOMAIN rows : i \in 1..Len(rows) /\ rows[i].tm \in Nat
<1>1. /\ Len(lines) \in Nat /\ Len(rows) \in Nat /\ cut \in Nat /\ sent \in Nat
      /\ Len(lines) <= sent
  BY DEF Inv, Typed, Numbered
<1>2. \A i \in DOMAIN rows : i \in 1..Len(rows) /\ rows[i] \in Line
  BY DEF Inv, Typed
<1>3. QED  BY <1>1, <1>2 DEF Consumed, Line

LEMMA NumberedNext == Inv /\ Typed' /\ [Next]_vars => Numbered'
<1> SUFFICES ASSUME Inv, Typed', [Next]_vars  PROVE Numbered'
  OBVIOUS
<1> USE DEF worker, server, browser, history
<1>0. Typed /\ Numbered  BY DEF Inv
<1>1. ASSUME UNCHANGED <<lines, rows, sent, cut>>,
             appender' # "idle" => appender # "idle"
      PROVE  Numbered'
  BY <1>0, <1>1 DEF Numbered, Consumed, Stored
<1>2. CASE StartJob \/ RefuseJob \/ FinishJob
  BY <1>1, <1>2 DEF StartJob, RefuseJob, FinishJob
<1>3. CASE PublishCreated  BY <1>1, <1>3 DEF PublishCreated
<1>4. CASE CrashAppender  BY <1>1, <1>4 DEF CrashAppender
<1>5. CASE DeleteLogs \/ PublishTruncated \/ AckStatus \/ CrashUpdater
  BY <1>1, <1>5 DEF DeleteLogs, PublishTruncated, AckStatus, CrashUpdater
<1>6. CASE OpenPage \/ ReadLogs \/ AnswerLogs \/ LeavePage \/ Evict \/ Receive
  BY <1>1, <1>6 DEF OpenPage, ReadLogs, AnswerLogs, LeavePage, Evict, Receive
<1>7. CASE UNCHANGED vars  BY <1>1, <1>7 DEF vars
<1>8. ASSUME NEW chunk \in Chunks, WriteLog(chunk)  PROVE Numbered'
  <2>1. PICK x : /\ lines' = Append(lines, x) /\ x.tm = sent + 1
                 /\ UNCHANGED <<rows, cut, appender>> /\ sent' = sent + 1
    BY <1>8 DEF WriteLog
  <2>2. /\ Len(lines') = Len(lines) + 1 /\ DOMAIN lines' = 1..(Len(lines) + 1)
        /\ \A i \in 1..Len(lines) : i \in DOMAIN lines /\ lines'[i] = lines[i]
        /\ lines'[Len(lines) + 1].tm = sent + 1
    BY <1>0, <2>1 DEF Typed
  <2>3. Consumed' = Consumed  BY <2>1, <2>2, Numbers DEF Consumed
  <2>4. Len(lines') <= sent'  BY <1>0, <2>1, <2>2, Numbers DEF Numbered
  <2>5. \A i \in DOMAIN lines' : lines'[i].tm = Consumed' + i
    <3>1. ASSUME NEW i \in 1..Len(lines)  PROVE lines'[i].tm = Consumed + i
      BY <1>0, <2>2 DEF Numbered
    <3>2. sent + 1 = Consumed + (Len(lines) + 1)  BY Numbers
    <3>3. \A i \in DOMAIN lines' : i \in 1..Len(lines) \/ i = Len(lines) + 1
      BY <2>2, Numbers
    <3>4. QED  BY <2>2, <2>3, <3>1, <3>2, <3>3
  <2>6. QED  BY <1>0, <2>1, <2>3, <2>4, <2>5 DEF Numbered, Stored
<1>9. CASE AppendLogMessage
  <2>1. /\ lines # <<>> /\ rows' = Append(rows, lines[1]) /\ lines[1] \in Line
        /\ UNCHANGED <<lines, sent, cut>>
        /\ lines[1].tm = Consumed + 1
    <3>1. lines # <<>> /\ 1 \in DOMAIN lines  BY <1>0, <1>9, Sizes DEF AppendLogMessage
    <3>2. QED  BY <1>0, <1>9, <3>1, Sizes DEF AppendLogMessage, Numbered
  <2>2. /\ Len(rows') = Len(rows) + 1 /\ DOMAIN rows' = 1..(Len(rows) + 1)
        /\ \A i \in DOMAIN rows : i \in DOMAIN rows' /\ rows'[i] = rows[i]
        /\ rows'[Len(rows) + 1].tm = Consumed + 1
        /\ \A i \in DOMAIN rows' : i \in DOMAIN rows \/ i = Len(rows) + 1
    BY <1>0, <2>1 DEF Typed
  <2>3. Consumed' = Consumed  BY <2>1 DEF Consumed
  <2>4. \A i \in DOMAIN rows' : rows'[i].tm <= Consumed + 1
    BY <1>0, <2>2, Numbers DEF Numbered
  <2>5. \A i, j \in DOMAIN rows' : i <= j => rows'[i].tm <= rows'[j].tm
    <3> SUFFICES ASSUME NEW i \in DOMAIN rows', NEW j \in DOMAIN rows', i <= j
                 PROVE  rows'[i].tm <= rows'[j].tm
      OBVIOUS
    <3>1. CASE j \in DOMAIN rows
      <4>1. i \in DOMAIN rows  BY <2>2, <3>1, Numbers
      <4>2. QED  BY <1>0, <2>2, <3>1, <4>1 DEF Numbered
    <3>2. CASE j = Len(rows) + 1  BY <2>2, <2>4, <3>2
    <3>3. QED  BY <2>2, <3>1, <3>2
  <2>6. \A tm : Stored(tm) => Stored(tm)'  BY <2>2 DEF Stored
  <2>7. (\E i \in DOMAIN rows' : rows'[i].tm = Consumed + 1)
    BY <2>2, Numbers
  <2>8. QED
    BY <1>0, <2>1, <2>3, <2>4, <2>5, <2>6, <2>7 DEF Numbered, Stored
<1>10. CASE AckLog
  <2>1. /\ lines' = Tail(lines) /\ lines # <<>> /\ appender' = "idle"
        /\ UNCHANGED <<rows, sent, cut>> /\ appender # "idle"
    BY <1>0, <1>10 DEF AckLog, Typed
  <2>2. /\ Len(lines') = Len(lines) - 1 /\ Len(lines) > 0
        /\ \A i \in DOMAIN lines' : i \in Nat /\ i + 1 \in DOMAIN lines /\ lines'[i] = lines[i + 1]
    BY <1>0, <2>1 DEF Typed
  <2>3. Consumed' = Consumed + 1  BY <2>1, <2>2, Numbers DEF Consumed
  <2>4. \A i \in DOMAIN lines' : lines'[i].tm = Consumed' + i
    <3>1. \A i \in DOMAIN lines' : lines[i + 1].tm = Consumed + (i + 1)
      BY <1>0, <2>2 DEF Numbered
    <3>2. \A i \in Nat : Consumed + (i + 1) = (Consumed + 1) + i  BY Numbers
    <3>3. QED  BY <2>2, <2>3, <3>1, <3>2
  <2>5. Len(lines') <= sent'  BY <1>0, <2>1, <2>2, Numbers DEF Numbered
  <2>6. \A i \in DOMAIN rows : rows[i].tm <= Consumed' + 1
    BY <1>0, <2>3, Numbers DEF Numbered
  <2>7. \A tm \in (cut + 1)..Consumed' : Stored(tm)
    <3>1. \A tm \in (cut + 1)..(Consumed + 1) :
              tm \in (cut + 1)..Consumed \/ (tm = Consumed + 1 /\ ~(Consumed + 1 <= cut))
      BY Numbers
    <3>2. QED  BY <1>0, <2>1, <2>3, <3>1 DEF Numbered
  <2>8. QED  BY <1>0, <2>1, <2>4, <2>5, <2>6, <2>7 DEF Numbered, Stored
<1>11. CASE CommitStatus
  <2>1. /\ rows' = Surviving /\ UNCHANGED <<lines, sent, appender>>
        /\ cut' = cut \/ (doomed > 0 /\ cut' = Max({cut, rows[doomed].tm}))
        /\ doomed > 0 => cut' = Max({cut, rows[doomed].tm})
    <3>1. doomed > 0 => Head(statuses) = "started"
      BY <1>0, <1>11 DEF CommitStatus, Truncates, Typed
    <3>2. QED  BY <1>11, <3>1 DEF CommitStatus
  <2>2. /\ \A i \in DOMAIN rows' : doomed + i \in DOMAIN rows /\ rows'[i] = rows[doomed + i]
        /\ \A i \in DOMAIN rows : i > doomed => i - doomed \in DOMAIN rows'
                                             /\ rows'[i - doomed] = rows[i]
    <3>1. /\ rows' \in Seq(Line) /\ Len(rows') = Len(rows) - doomed
          /\ \A i \in 1..Len(rows') : rows'[i] = rows[doomed + i]
          /\ DOMAIN rows' = 1..Len(rows')
      BY <1>0, <2>1, Left
    <3>2. doomed \in Nat /\ Len(rows) \in Nat /\ DOMAIN rows = 1..Len(rows)
      BY <1>0, Sizes
    <3>3. \A i \in 1..(Len(rows) - doomed) : doomed + i \in 1..Len(rows)  BY <3>2
    <3>4. \A i \in 1..Len(rows) : i > doomed => /\ i - doomed \in 1..(Len(rows) - doomed)
                                              /\ doomed + (i - doomed) = i
      BY <3>2
    <3>5. QED  BY <3>1, <3>2, <3>3, <3>4
  <2>3. /\ cut' \in Nat /\ cut' >= cut
        /\ \A i \in DOMAIN rows : i <= doomed => rows[i].tm <= cut'
    <3>1. CASE doomed > 0
      <4>1. doomed \in DOMAIN rows  BY <1>0, <3>1, Sizes DEF Typed
      <4>2. cut' \in Nat /\ cut' >= cut /\ cut' >= rows[doomed].tm
        BY <2>1, <3>1, <4>1, MaxOfTwo, Numbers
      <4>3. \A i \in DOMAIN rows : i <= doomed => rows[i].tm <= rows[doomed].tm
        BY <1>0, <4>1 DEF Numbered
      <4>4. \A i \in DOMAIN rows : rows[i].tm \in Nat  BY Numbers
      <4>5. QED  BY <4>1, <4>2, <4>3, <4>4
    <3>2. CASE ~(doomed > 0)
      <4>1. cut' = cut /\ \A i \in DOMAIN rows : ~(i <= doomed)
        BY <1>0, <2>1, <3>2, Sizes, Numbers
      <4>2. QED  BY <4>1, Numbers
    <3>3. QED  BY <3>1, <3>2
  <2>4. Consumed' = Consumed  BY <2>1 DEF Consumed
  <2>5. \A tm \in Nat : Stored(tm) => tm <= cut' \/ \E i \in DOMAIN rows' : rows'[i].tm = tm
    <3> SUFFICES ASSUME NEW i \in DOMAIN rows
                 PROVE  rows[i].tm <= cut' \/ \E k \in DOMAIN rows' : rows'[k].tm = rows[i].tm
      BY DEF Stored
    <3>1. i \in Nat /\ doomed \in Nat  BY <1>0, Sizes, Numbers
    <3>2. CASE i <= doomed  BY <2>3, <3>2
    <3>3. CASE i > doomed  BY <2>2, <3>3
    <3>4. QED  BY <3>1, <3>2, <3>3
  <2>6. \A tm \in (cut' + 1)..Consumed : \E i \in DOMAIN rows' : rows'[i].tm = tm
    <3>1. \A tm \in (cut' + 1)..Consumed :
              tm \in Nat /\ tm \in (cut + 1)..Consumed /\ ~(tm <= cut')
      <4>1. cut' \in Nat /\ cut' >= cut  BY <2>3
      <4>2. cut \in Nat /\ Consumed \in Nat  BY Numbers
      <4>3. \A n, k, c \in Nat : n >= k =>
                \A tm \in (n + 1)..c : tm \in Nat /\ tm \in (k + 1)..c /\ ~(tm <= n)
        OBVIOUS
      <4>4. QED  BY <4>1, <4>2, <4>3
    <3>2. QED  BY <1>0, <2>5, <3>1 DEF Numbered
  <2>7. appender' # "idle" =>
            Consumed + 1 <= cut' \/ \E i \in DOMAIN rows' : rows'[i].tm = Consumed + 1
    <3>1. Consumed + 1 \in Nat /\ (Consumed + 1 <= cut => Consumed + 1 <= cut')
      BY <2>3, Numbers
    <3>2. QED  BY <1>0, <2>1, <2>5, <3>1 DEF Numbered
  <2>8. \A i, j \in DOMAIN rows' : i <= j => rows'[i].tm <= rows'[j].tm
    <3>1. \A i, j \in DOMAIN rows' : i <= j => doomed + i <= doomed + j
      <4>1. doomed \in Nat  BY <1>0, Sizes
      <4>2. \A i \in DOMAIN rows' : i \in Nat  BY <1>0, <2>1, Left
      <4>3. QED  BY <4>1, <4>2
    <3>2. QED  BY <1>0, <2>2, <3>1 DEF Numbered
  <2>9. QED  BY <1>0, <2>1, <2>2, <2>4, <2>6, <2>7, <2>8 DEF Numbered, Stored
<1>12. CASE Restart
  <2>1. rows' = <<>> /\ cut' = sent /\ UNCHANGED <<lines, sent, appender>>
    BY <1>12 DEF Restart
  <2>2. Consumed' = Consumed  BY <2>1 DEF Consumed
  <2>3. /\ \A tm \in (cut' + 1)..Consumed : FALSE
        /\ lines # <<>> => Consumed + 1 <= cut'
    BY <1>0, <2>1, Numbers, Sizes
  <2>4. appender' # "idle" => lines # <<>>  BY <1>0, <2>1 DEF Typed
  <2>5. QED  BY <1>0, <2>1, <2>2, <2>3, <2>4 DEF Numbered, Stored
<1>13. QED
  BY <1>2, <1>3, <1>4, <1>5, <1>6, <1>7, <1>8, <1>9, <1>10, <1>11, <1>12 DEF Next

\* Every variable has its type, and the lines are numbered.
THEOREM LogInvariance == Spec => []Inv
<1>1. Init => Inv  BY TypedInit, NumberedInit DEF Inv
<1>2. Inv /\ [Next]_vars => Inv'
  <2> SUFFICES ASSUME Inv, [Next]_vars  PROVE Inv'
    OBVIOUS
  <2>1. Typed'  BY TypedNext DEF Inv
  <2>2. QED  BY <2>1, NumberedNext DEF Inv
<1>3. QED  BY <1>1, <1>2, PTL DEF Spec

\* What was consumed after a run began is stored, whatever statuses and crashes
\* come between (JobLogsConsumer, JobUpdater#truncate_job_logs, Job#restart).
THEOREM LinesKept == Spec => []LaterLinesAreKept
<1>1. Inv => LaterLinesAreKept
  <2> SUFFICES ASSUME Inv, NEW tm \in (cut + 1)..sent, \A i \in DOMAIN lines : lines[i].tm # tm
               PROVE  \E i \in DOMAIN rows : rows[i].tm = tm
    BY DEF LaterLinesAreKept
  <2>1. tm <= Consumed
    <3>1. SUFFICES ASSUME tm > Consumed  PROVE FALSE
      BY Numbers
    <3>2. tm - Consumed \in 1..Len(lines) /\ Consumed + (tm - Consumed) = tm
      BY <3>1, Numbers
    <3>3. DOMAIN lines = 1..Len(lines)  BY Sizes DEF Inv
    <3>4. lines[tm - Consumed].tm = tm  BY <3>2, <3>3 DEF Inv, Numbered
    <3>5. QED  BY <3>2, <3>3, <3>4
  <2>2. tm \in (cut + 1)..Consumed  BY <2>1, Numbers
  <2>3. QED  BY <2>2 DEF Inv, Numbered, Stored
<1>2. QED  BY <1>1, LogInvariance, PTL

-----------------------------------------------------------------------------
(* The collection follows the rows                                          *)

\* The collection when the events after the n-th are appended to what the n-th
\* left, if that was a truncation.
After(collection, events, n) ==
    (IF n = 0 THEN collection ELSE <<>>)
        \o [i \in 1..(Len(events) - n) |-> events[n + i].line]

LEMMA AfterProperties ==
    ASSUME NEW c \in Seq(Shown), NEW e \in Seq(Events), NEW n \in 0..Len(e)
    PROVE  LET k == IF n = 0 THEN Len(c) ELSE 0 IN
           /\ After(c, e, n) \in Seq(Shown)
           /\ Len(After(c, e, n)) = k + Len(e) - n
           /\ \A i \in 1..Len(After(c, e, n)) :
                 After(c, e, n)[i] = IF i <= k THEN c[i] ELSE e[n + (i - k)].line
<1> DEFINE b == IF n = 0 THEN c ELSE <<>>
           k == IF n = 0 THEN Len(c) ELSE 0
           s == [i \in 1..(Len(e) - n) |-> e[n + i].line]
<1>1. b \in Seq(Shown) /\ Len(b) = k /\ k \in Nat /\ \A i \in 1..k : b[i] = c[i]
  <2>1. CASE n = 0  BY <2>1
  <2>2. CASE n # 0  BY <2>2
  <2>3. QED  BY <2>1, <2>2
<1>2. Len(e) \in Nat /\ n \in Nat /\ n <= Len(e) /\ Len(e) - n \in Nat  OBVIOUS
<1>3. \A i \in 1..(Len(e) - n) : e[n + i].line \in Shown
  <2>1. \A i \in 1..(Len(e) - n) : n + i \in 1..Len(e)  BY <1>2
  <2>2. \A i \in 1..Len(e) : e[i] \in Events  BY ElementOfSeq
  <2>3. \A x \in Events : x.line \in Shown  BY DEF Events
  <2>4. QED  BY <2>1, <2>2, <2>3
<1>4. s \in Seq(Shown) /\ Len(s) = Len(e) - n  BY <1>2, <1>3
<1>5. \A i \in 1..(Len(e) - n) : s[i] = e[n + i].line  OBVIOUS
<1> HIDE DEF b, k, s
<1>6. /\ b \o s \in Seq(Shown) /\ Len(b \o s) = k + (Len(e) - n)
      /\ \A i \in 1..(k + (Len(e) - n)) :
            (b \o s)[i] = IF i <= k THEN b[i] ELSE s[i - k]
  <2>1. /\ b \o s \in Seq(Shown) /\ Len(b \o s) = Len(b) + Len(s)
        /\ \A i \in 1..(Len(b) + Len(s)) :
              (b \o s)[i] = IF i <= Len(b) THEN b[i] ELSE s[i - Len(b)]
    BY <1>1, <1>4, ConcatProperties
  <2>2. QED  BY <1>1, <1>4, <2>1
<1>7. \A i \in 1..(k + (Len(e) - n)) :
          /\ i <= k => i \in 1..k
          /\ ~(i <= k) => i - k \in 1..(Len(e) - n)
  BY <1>1, <1>2
<1>8. After(c, e, n) = b \o s  BY DEF After, b, s
<1>9. k + (Len(e) - n) = k + Len(e) - n  BY <1>1, <1>2
<1>10. \A i \in 1..(k + (Len(e) - n)) :
            (b \o s)[i] = IF i <= k THEN c[i] ELSE e[n + (i - k)].line
  BY <1>1, <1>5, <1>6, <1>7
<1>11. /\ b \o s \in Seq(Shown)
       /\ Len(b \o s) = k + Len(e) - n
       /\ \A i \in 1..Len(b \o s) :
            (b \o s)[i] = IF i <= k THEN c[i] ELSE e[n + (i - k)].line
  BY <1>6, <1>9, <1>10
<1>12. QED  BY <1>8, <1>11 DEF k

LEMMA BecomesAfter ==
    ASSUME NEW c, NEW e, NEW r
    PROVE  Becomes(c, e, r) <=>
              \E n \in 0..Len(e) : /\ n # 0 => e[n].event = "truncated"
                                   /\ \A i \in DOMAIN e : i > n => e[i].event = "created"
                                   /\ r = After(c, e, n)
BY DEF Becomes, After

\* A line more.
LEMMA BecomesLonger ==
    ASSUME NEW c \in Seq(Shown), NEW e \in Seq(Events), NEW r, Becomes(c, e, r),
           NEW x \in Events, x.event = "created"
    PROVE  Becomes(c, Append(e, x), Append(r, x.line))
<1> DEFINE f == Append(e, x)
<1>1. PICK n \in 0..Len(e) : /\ n # 0 => e[n].event = "truncated"
                             /\ \A i \in DOMAIN e : i > n => e[i].event = "created"
                             /\ r = After(c, e, n)
  BY BecomesAfter
<1>2. /\ f \in Seq(Events) /\ Len(f) = Len(e) + 1 /\ Len(e) \in Nat
      /\ DOMAIN e = 1..Len(e) /\ DOMAIN f = 1..(Len(e) + 1)
      /\ \A i \in 1..Len(e) : f[i] = e[i]
      /\ f[Len(e) + 1] = x
      /\ n \in Nat /\ n <= Len(e) /\ n \in 0..Len(f)
  OBVIOUS
<1> DEFINE k == IF n = 0 THEN Len(c) ELSE 0
<1>3. k \in Nat  OBVIOUS
<1> HIDE DEF f, k
<1>4. /\ r \in Seq(Shown) /\ Len(r) = k + Len(e) - n
      /\ \A i \in 1..Len(r) : r[i] = IF i <= k THEN c[i] ELSE e[n + (i - k)].line
  BY <1>1, AfterProperties DEF k
<1>5. LET q == After(c, f, n) IN
      /\ q \in Seq(Shown) /\ Len(q) = k + Len(f) - n
      /\ \A i \in 1..Len(q) : q[i] = IF i <= k THEN c[i] ELSE f[n + (i - k)].line
  BY <1>2, AfterProperties DEF k
<1>6. Append(r, x.line) = After(c, f, n)
  <2> DEFINE p == Append(r, x.line)
             q == After(c, f, n)
  <2>1. x.line \in Shown  BY DEF Events
  <2>2. /\ p \in Seq(Shown) /\ Len(p) = Len(r) + 1
        /\ \A i \in 1..Len(r) : p[i] = r[i]
        /\ p[Len(r) + 1] = x.line
    BY <1>4, <2>1, AppendProperties
  <2> HIDE DEF p
  <2>3. Len(q) = Len(p) /\ q \in Seq(Shown)  BY <1>2, <1>3, <1>4, <1>5, <2>2
  <2>4. ASSUME NEW i \in 1..Len(p)  PROVE p[i] = q[i]
    <3>1. q[i] = IF i <= k THEN c[i] ELSE f[n + (i - k)].line  BY <1>5, <2>3
    <3>2. CASE i \in 1..Len(r)
      <4>1. p[i] = IF i <= k THEN c[i] ELSE e[n + (i - k)].line
        BY <1>4, <2>2, <3>2
      <4>2. ~(i <= k) => n + (i - k) \in 1..Len(e)
        BY <1>2, <1>3, <1>4, <3>2
      <4>3. QED  BY <1>2, <3>1, <4>1, <4>2
    <3>3. CASE i = Len(r) + 1
      <4>1. ~(i <= k) /\ n + (i - k) = Len(e) + 1  BY <1>2, <1>3, <1>4, <3>3
      <4>2. QED  BY <1>2, <2>2, <3>1, <3>3, <4>1
    <3>4. i \in 1..Len(r) \/ i = Len(r) + 1  BY <1>4, <2>2
    <3>5. QED  BY <3>2, <3>3, <3>4
  <2> HIDE DEF q
  <2>5. p = q  BY <2>2, <2>3, <2>4, SeqEqual
  <2>6. QED  BY <2>5 DEF p, q
<1>7. n # 0 => f[n].event = "truncated"  BY <1>1, <1>2
<1>8. \A i \in DOMAIN f : i > n => f[i].event = "created"
  <2>1. \A i \in 1..(Len(e) + 1) : i \in 1..Len(e) \/ i = Len(e) + 1  BY <1>2
  <2>2. QED  BY <1>1, <1>2, <2>1
<1>9. Becomes(c, f, Append(r, x.line))  BY <1>2, <1>6, <1>7, <1>8, BecomesAfter
<1>10. QED  BY <1>9 DEF f

\* A truncation.
LEMMA BecomesEmpty ==
    ASSUME NEW c \in Seq(Shown), NEW e \in Seq(Events),
           NEW x \in Events, x.event = "truncated"
    PROVE  Becomes(c, Append(e, x), <<>>)
<1> DEFINE f == Append(e, x)
           n == Len(e) + 1
<1>1. /\ f \in Seq(Events) /\ Len(f) = n /\ n \in Nat /\ n # 0 /\ n \in 0..Len(f)
      /\ f[n] = x /\ DOMAIN f = 1..n
  OBVIOUS
<1> HIDE DEF f, n
<1>2. /\ After(c, f, n) \in Seq(Shown) /\ Len(After(c, f, n)) = 0
  <2>1. After(c, f, n) \in Seq(Shown) /\ Len(After(c, f, n)) = 0 + Len(f) - n
    BY <1>1, AfterProperties
  <2>2. QED  BY <1>1, <2>1
<1>3. <<>> = After(c, f, n)  BY <1>2, EmptySeq
<1>4. \A i \in DOMAIN f : ~(i > n)  BY <1>1
<1>5. Becomes(c, f, <<>>)  BY <1>1, <1>3, <1>4, BecomesAfter
<1>6. QED  BY <1>5 DEF f

\* An event received.
LEMMA BecomesShorter ==
    ASSUME NEW c \in Seq(Shown), NEW e \in Seq(Events), e # <<>>, NEW r, Becomes(c, e, r)
    PROVE  /\ Apply(c, Head(e)) \in Seq(Shown)
           /\ Becomes(Apply(c, Head(e)), Tail(e), r)
<1> DEFINE f == Tail(e)
           d == Apply(c, Head(e))
<1>1. PICK n \in 0..Len(e) : /\ n # 0 => e[n].event = "truncated"
                             /\ \A i \in DOMAIN e : i > n => e[i].event = "created"
                             /\ r = After(c, e, n)
  BY BecomesAfter
<1>2. /\ Head(e) = e[1] /\ e[1] \in Events /\ e[1].line \in Shown
      /\ f \in Seq(Events) /\ Len(f) = Len(e) - 1 /\ Len(e) \in Nat /\ Len(e) > 0
      /\ DOMAIN e = 1..Len(e) /\ DOMAIN f = 1..(Len(e) - 1)
      /\ \A i \in 1..(Len(e) - 1) : f[i] = e[i + 1]
      /\ n \in Nat /\ n <= Len(e)
  <2>1. \A x \in Events : x.line \in Shown  BY DEF Events
  <2>2. Len(e) \in Nat /\ Len(e) > 0 /\ DOMAIN e = 1..Len(e) /\ n \in Nat /\ n <= Len(e)
    OBVIOUS
  <2>3. Head(e) = e[1] /\ e[1] \in Events  OBVIOUS
  <2>4. f \in Seq(Events) /\ Len(f) = Len(e) - 1  OBVIOUS
  <2>5. \A i \in 1..(Len(e) - 1) : f[i] = e[i + 1]  OBVIOUS
  <2>6. DOMAIN f = 1..(Len(e) - 1)  BY <2>4
  <2>7. QED  BY <2>1, <2>2, <2>3, <2>4, <2>5, <2>6
<1>3. d \in Seq(Shown) /\ Len(d) = (IF e[1].event = "truncated" THEN 0 ELSE Len(c) + 1)
  <2>1. CASE e[1].event = "truncated"
    <3>1. d = <<>>  BY <1>2, <2>1 DEF Apply
    <3>2. d \in Seq(Shown) /\ Len(d) = 0  BY <3>1, EmptySeq
    <3>3. QED  BY <2>1, <3>2
  <2>2. CASE e[1].event # "truncated"
    <3>1. d = Append(c, e[1].line)  BY <1>2, <2>2 DEF Apply
    <3>2. e[1].line \in Shown  BY <1>2
    <3>3. d \in Seq(Shown) /\ Len(d) = Len(c) + 1  BY <3>1, <3>2, AppendProperties
    <3>4. QED  BY <2>2, <3>3
  <2>3. QED  BY <2>1, <2>2
<1>4. e[1].event # "truncated" =>
          d[Len(c) + 1] = e[1].line /\ \A i \in 1..Len(c) : d[i] = c[i]
  BY <1>2 DEF Apply
<1> DEFINE m == IF n = 0 THEN 0 ELSE n - 1
           k == IF n = 0 THEN Len(c) ELSE 0
           l == IF m = 0 THEN Len(d) ELSE 0
<1>5. n = 0 => e[1].event # "truncated"  BY <1>1, <1>2
<1>6. n = 1 => e[1].event = "truncated"  BY <1>1
<1>7. /\ m \in 0..Len(f) /\ m \in Nat /\ k \in Nat /\ l \in Nat /\ Len(c) \in Nat
      /\ l - m = k - n + 1
      /\ n = 0 => m = 0 /\ k = Len(c) /\ l = Len(c) + 1
      /\ n # 0 => m = n - 1 /\ k = 0 /\ l = 0
  <2>1. CASE n = 0  BY <1>2, <1>3, <1>5, <2>1
  <2>2. CASE n = 1  BY <1>2, <1>3, <1>6, <2>2
  <2>3. CASE n > 1  BY <1>2, <2>3
  <2>4. QED  BY <1>2, <2>1, <2>2, <2>3
<1>8. /\ r \in Seq(Shown) /\ Len(r) = k + Len(e) - n
      /\ \A i \in 1..Len(r) : r[i] = IF i <= k THEN c[i] ELSE e[n + (i - k)].line
  BY <1>1, AfterProperties
<1> HIDE DEF f, d, m, k
<1>9. LET q == After(d, f, m) IN
      /\ q \in Seq(Shown) /\ Len(q) = l + Len(f) - m
      /\ \A i \in 1..Len(q) : q[i] = IF i <= l THEN d[i] ELSE f[m + (i - l)].line
  BY <1>2, <1>3, <1>7, AfterProperties
<1> HIDE DEF l
<1>10. r = After(d, f, m)
  <2> DEFINE q == After(d, f, m)
  <2>1. Len(q) = Len(r) /\ q \in Seq(Shown)
    <3>1. Len(q) = l + Len(f) - m /\ q \in Seq(Shown)  BY <1>9
    <3>2. \A a, b, g \in Nat, y \in Nat : a - b = g - n + 1 => a + (y - 1) - b = g + y - n
      BY <1>2
    <3>3. l + Len(f) - m = k + Len(e) - n
      <4>1. /\ l \in Nat /\ m \in Nat /\ k \in Nat /\ Len(e) \in Nat
            /\ l - m = k - n + 1 /\ Len(f) = Len(e) - 1
        BY <1>2, <1>7
      <4>2. QED  BY <3>2, <4>1
    <3>4. QED  BY <1>8, <3>1, <3>3
  <2>2. ASSUME NEW i \in 1..Len(r)  PROVE r[i] = q[i]
    <3>1. /\ r[i] = IF i <= k THEN c[i] ELSE e[n + (i - k)].line
          /\ q[i] = IF i <= l THEN d[i] ELSE f[m + (i - l)].line
      BY <1>8, <1>9, <2>1
    <3>2. Len(r) \in Nat /\ i \in Nat /\ i > 0 /\ i <= Len(r)  BY <1>8
    <3>3. CASE n = 0
      <4>1. CASE i <= k  BY <1>4, <1>5, <1>7, <3>1, <3>2, <3>3, <4>1
      <4>2. CASE i = k + 1
        <5>1. r[i] = e[1].line  BY <1>7, <3>1, <3>3, <4>2
        <5>2. q[i] = d[Len(c) + 1]  BY <1>7, <3>1, <3>3, <4>2
        <5>3. QED  BY <1>4, <1>5, <3>3, <5>1, <5>2
      <4>3. CASE i > k + 1
        <5>1. i - l \in 1..(Len(e) - 1) /\ (i - l) + 1 = i - k
          <6>1. l = k + 1 /\ i \in Nat /\ k \in Nat /\ Len(e) \in Nat /\ i <= k + Len(e)
            BY <1>2, <1>7, <1>8, <3>2, <3>3
          <6>2. QED  BY <4>3, <6>1
        <5>2. q[i] = f[i - l].line /\ r[i] = e[i - k].line
          BY <1>7, <3>1, <3>2, <3>3, <4>3
        <5>3. QED  BY <1>2, <5>1, <5>2
      <4>4. QED  BY <1>7, <3>2, <4>1, <4>2, <4>3
    <3>4. CASE n # 0
      <4>1. m + i \in 1..(Len(e) - 1) /\ (m + i) + 1 = n + i
        BY <1>2, <1>7, <1>8, <3>2, <3>4
      <4>2. q[i] = f[m + i].line /\ r[i] = e[n + i].line
        BY <1>2, <1>7, <3>1, <3>2, <3>4
      <4>3. QED  BY <1>2, <4>1, <4>2
    <3>5. QED  BY <3>3, <3>4
  <2> HIDE DEF q
  <2>3. r = q  BY <1>8, <2>1, <2>2, SeqEqual
  <2>4. QED  BY <2>3 DEF q
<1>11. m # 0 => f[m].event = "truncated"
  <2>1. m # 0 => m \in 1..(Len(e) - 1) /\ m + 1 = n /\ n # 0  BY <1>2, <1>7
  <2>2. QED  BY <1>1, <1>2, <2>1
<1>12. \A i \in DOMAIN f : i > m => f[i].event = "created"
  <2>1. \A i \in 1..(Len(e) - 1) : i + 1 \in 1..Len(e) /\ (i > m => i + 1 > n)
    BY <1>2, <1>7
  <2>2. QED  BY <1>1, <1>2, <2>1
<1>13. Becomes(d, f, r)  BY <1>7, <1>10, <1>11, <1>12, BecomesAfter
<1>14. QED  BY <1>3, <1>13 DEF d, f

LEMMA AppendToConcat ==
    ASSUME NEW S, NEW s \in Seq(S), NEW t \in Seq(S), NEW x \in S
    PROVE  Append(s, x) \o t = s \o (<<x>> \o t)
<1>1. <<x>> \in Seq(S)  OBVIOUS
<1>2. Append(s, x) = s \o <<x>>  BY AppendIsConcat
<1>3. (s \o <<x>>) \o t = s \o (<<x>> \o t)  BY <1>1, ConcatAssociative
<1>4. QED  BY <1>2, <1>3

LEMMA TailOfConcat ==
    ASSUME NEW S, NEW s \in Seq(S), NEW t \in Seq(S), s # <<>>
    PROVE  s \o t # <<>> /\ Head(s \o t) = Head(s) /\ Tail(s \o t) = Tail(s) \o t
<1> DEFINE u == s \o t
           v == Tail(s) \o t
<1>1. /\ u \in Seq(S) /\ Len(u) = Len(s) + Len(t)
      /\ \A i \in 1..(Len(s) + Len(t)) : u[i] = IF i <= Len(s) THEN s[i] ELSE t[i - Len(s)]
  BY ConcatProperties
<1>2. /\ Tail(s) \in Seq(S) /\ Len(Tail(s)) = Len(s) - 1 /\ Head(s) = s[1]
      /\ \A i \in 1..(Len(s) - 1) : Tail(s)[i] = s[i + 1]
  OBVIOUS
<1>3. Len(s) \in Nat /\ Len(s) > 0 /\ Len(t) \in Nat  OBVIOUS
<1>4. /\ v \in Seq(S) /\ Len(v) = Len(s) - 1 + Len(t)
      /\ \A i \in 1..(Len(s) - 1 + Len(t)) :
            v[i] = IF i <= Len(s) - 1 THEN Tail(s)[i] ELSE t[i - (Len(s) - 1)]
  BY <1>2, ConcatProperties
<1> HIDE DEF u, v
<1>5. u # <<>> /\ Head(u) = s[1]
  <2>1. u[1] = s[1] /\ Len(u) > 0  BY <1>1, <1>3
  <2>2. QED  BY <1>1, <2>1
<1>6. /\ Tail(u) \in Seq(S) /\ Len(Tail(u)) = Len(u) - 1
      /\ \A i \in 1..(Len(u) - 1) : Tail(u)[i] = u[i + 1]
  BY <1>1, <1>5
<1>7. ASSUME NEW i \in 1..(Len(s) - 1 + Len(t))  PROVE Tail(u)[i] = v[i]
  <2>1. i \in 1..(Len(u) - 1) /\ i + 1 \in 1..(Len(s) + Len(t))  BY <1>1, <1>3
  <2>2. Tail(u)[i] = IF i + 1 <= Len(s) THEN s[i + 1] ELSE t[(i + 1) - Len(s)]
    BY <1>1, <1>6, <2>1
  <2>3. CASE i <= Len(s) - 1
    <3>1. i \in 1..(Len(s) - 1) /\ i + 1 <= Len(s)  BY <1>3, <2>3
    <3>2. QED  BY <1>2, <1>4, <2>2, <2>3, <3>1
  <2>4. CASE ~(i <= Len(s) - 1)
    <3>1. ~(i + 1 <= Len(s)) /\ (i + 1) - Len(s) = i - (Len(s) - 1)  BY <1>3, <2>4
    <3>2. QED  BY <1>4, <2>2, <2>4, <3>1
  <2>5. QED  BY <2>3, <2>4
<1>8. Len(Tail(u)) = Len(v) /\ Len(v) = Len(s) - 1 + Len(t)  BY <1>1, <1>3, <1>4, <1>6
<1>9. Tail(u) = v  BY <1>4, <1>6, <1>7, <1>8, SeqEqual
<1>10. QED  BY <1>2, <1>5, <1>9 DEF u, v

\* The events on their way and those still owed, and the rows that stay.
LEMMA Underway ==
    ASSUME Typed
    PROVE  /\ stream \in Seq(Events) /\ Owed \in Seq(Events)
           /\ stream \o Owed \in Seq(Events)
           /\ Truncated \in Events /\ Truncated.event = "truncated"
           /\ Surviving \in Seq(Shown)
<1>1. Truncated \in Events /\ Truncated.event = "truncated"
  BY DEF Truncated, Events, Shown
<1>2. appender = "stored" => Created(Head(lines)) \in Events
  <2>1. appender = "stored" => Head(lines) \in Line  BY Sizes DEF Typed
  <2>2. QED  BY <2>1 DEF Created, Events, Shown
<1>3. stream \in Seq(Events)  BY DEF Typed
<1>4. Owed \in Seq(Events)
  <2> DEFINE a == IF appender = "stored" THEN <<Created(Head(lines))>> ELSE <<>>
             b == IF updater = "deleted" THEN <<Truncated>> ELSE <<>>
  <2>1. a \in Seq(Events)
    <3>1. CASE appender = "stored"  BY <1>2, <3>1
    <3>2. CASE appender # "stored"  BY <3>2
    <3>3. QED  BY <3>1, <3>2
  <2>2. b \in Seq(Events)
    <3>1. CASE updater = "deleted"  BY <1>1, <3>1
    <3>2. CASE updater # "deleted"  BY <3>2
    <3>3. QED  BY <3>1, <3>2
  <2> HIDE DEF a, b
  <2>3. a \o b \in Seq(Events)  BY <2>1, <2>2, ConcatProperties
  <2>4. QED  BY <2>3 DEF Owed, a, b
<1>5. stream \o Owed \in Seq(Events)  BY <1>3, <1>4, ConcatProperties
<1>6. Line \subseteq Shown  BY DEF Shown
<1>7. Surviving \in Seq(Shown)  BY Left, <1>6, SeqMonotonic
<1>8. QED  BY <1>1, <1>3, <1>4, <1>5, <1>7

LEMMA SameFollows ==
    ASSUME Follows, logs' = logs, (stream \o Owed)' = stream \o Owed,
           Surviving' = Surviving
    PROVE  Follows'
BY DEF Follows

\* The steps that are no race leave the collection following the rows.
LEMMA SteadyWorker ==
    ASSUME Typed, Follows, NEW chunk \in Chunks, WriteLog(chunk)
    PROVE  Follows'
<1>1. appender = "stored" => Head(lines') = Head(lines)
  <2> DEFINE x == [tm |-> sent + 1, chunk |-> chunk]
  <2>1. x \in Line /\ lines \in Seq(Line)  BY DEF Line, Typed
  <2> HIDE DEF x
  <2>2. lines' = Append(lines, x)  BY DEF WriteLog, x
  <2>3. appender = "stored" => lines # <<>>  BY DEF Typed
  <2>4. QED  BY <2>1, <2>2, <2>3, HeadTailAppend
<1>2. Owed' = Owed  BY <1>1 DEF WriteLog, Owed, Created
<1>3. Surviving' = Surviving /\ (stream \o Owed)' = stream \o Owed /\ logs' = logs
  BY <1>2 DEF WriteLog, browser, Surviving
<1>4. QED  BY <1>3, SameFollows

LEMMA SteadyAppend ==
    ASSUME Typed, Follows, AppendLogMessage, updater # "deleted"
    PROVE  Follows'
<1> DEFINE h == Head(lines)
<1>1. /\ lines # <<>> /\ h \in Line /\ h \in Shown /\ Created(h) \in Events
      /\ Created(h).event = "created" /\ Created(h).line = h
  <2>1. lines # <<>> /\ h \in Line  BY Sizes DEF AppendLogMessage
  <2>2. h \in Shown  BY <2>1 DEF Shown
  <2>3. QED  BY <2>1, <2>2 DEF Created, Events
<1> HIDE DEF h
<1>2. /\ appender = "idle" /\ appender' = "stored" /\ updater' = updater /\ lines' = lines
      /\ rows' = Append(rows, h) /\ doomed' = doomed /\ stream' = stream /\ logs' = logs
  BY DEF AppendLogMessage, browser, h
<1>3. (stream \o Owed)' = Append(stream \o Owed, Created(h))
  <2>1. Owed = <<>> \o <<>>  BY <1>2 DEF Owed
  <2>2. Owed' = <<Created(h)>> \o <<>>  BY <1>2 DEF Owed, h
  <2>3. <<>> \o <<>> = <<>> /\ <<Created(h)>> \o <<>> = <<Created(h)>>
    BY <1>1, ConcatEmptySeq
  <2>4. stream \o <<>> = stream  BY Underway, ConcatEmptySeq
  <2>5. Append(stream, Created(h)) = stream \o <<Created(h)>>
    BY <1>1, Underway, AppendIsConcat
  <2>6. QED  BY <1>2, <2>1, <2>2, <2>3, <2>4, <2>5
<1>4. Surviving' = Append(Surviving, h)
  <2> DEFINE s == SubSeq(Append(rows, h), doomed + 1, Len(rows) + 1)
  <2>1. /\ rows \in Seq(Line) /\ Len(rows) \in Nat /\ doomed \in Nat /\ doomed <= Len(rows)
    BY DEF Typed
  <2>2. /\ Append(rows, h) \in Seq(Line) /\ Len(Append(rows, h)) = Len(rows) + 1
        /\ \A i \in 1..Len(rows) : Append(rows, h)[i] = rows[i]
        /\ Append(rows, h)[Len(rows) + 1] = h
    BY <1>1, <2>1, AppendProperties
  <2>3. Surviving' = s  BY <1>2, <2>2 DEF Surviving
  <2>4. \A i \in (doomed + 1)..(Len(rows) + 1) : Append(rows, h)[i] \in Line
    <3>1. \A i \in (doomed + 1)..(Len(rows) + 1) : i \in 1..Len(Append(rows, h))
      BY <2>1, <2>2
    <3>2. QED  BY <2>2, <3>1, ElementOfSeq
  <2>5. /\ s \in Seq(Line)
        /\ Len(s) = IF doomed + 1 <= Len(rows) + 1
                    THEN (Len(rows) + 1) - (doomed + 1) + 1 ELSE 0
        /\ \A i \in 1..((Len(rows) + 1) - (doomed + 1) + 1) :
              s[i] = Append(rows, h)[(doomed + 1) + i - 1]
    BY <2>1, <2>4, SubSeqProperties
  <2> HIDE DEF s
  <2>6. /\ Surviving \in Seq(Line) /\ Len(Surviving) = Len(rows) - doomed
        /\ \A i \in 1..Len(Surviving) : Surviving[i] = rows[doomed + i]
    BY Left
  <2> DEFINE p == Append(Surviving, h)
  <2>7. /\ p \in Seq(Line) /\ Len(p) = Len(Surviving) + 1
        /\ \A i \in 1..Len(Surviving) : p[i] = Surviving[i]
        /\ p[Len(Surviving) + 1] = h
    BY <1>1, <2>6, AppendProperties
  <2> HIDE DEF p
  <2>8. Len(s) = Len(p)  BY <2>1, <2>5, <2>6, <2>7
  <2>9. ASSUME NEW i \in 1..Len(s)  PROVE s[i] = p[i]
    <3>1. /\ i \in Nat /\ i > 0 /\ i <= Len(rows) - doomed + 1
          /\ (doomed + 1) + i - 1 = doomed + i
          /\ i \in 1..((Len(rows) + 1) - (doomed + 1) + 1)
      BY <2>1, <2>5
    <3>2. s[i] = Append(rows, h)[doomed + i]  BY <2>5, <3>1
    <3>3. CASE i \in 1..Len(Surviving)
      <4>1. doomed + i \in 1..Len(rows)  BY <2>1, <2>6, <3>1, <3>3
      <4>2. QED  BY <2>2, <2>6, <2>7, <3>2, <3>3, <4>1
    <3>4. CASE i = Len(Surviving) + 1
      <4>1. doomed + i = Len(rows) + 1  BY <2>1, <2>6, <3>4
      <4>2. QED  BY <2>2, <2>7, <3>2, <3>4, <4>1
    <3>5. i \in 1..Len(Surviving) \/ i = Len(Surviving) + 1
      <4>1. Len(Surviving) \in Nat /\ i <= Len(Surviving) + 1  BY <2>1, <2>6, <3>1
      <4>2. QED  BY <3>1, <4>1
    <3>6. QED  BY <3>3, <3>4, <3>5
  <2>10. s = p  BY <2>5, <2>7, <2>8, <2>9, SeqEqual
  <2>11. QED  BY <2>3, <2>10 DEF p
<1>5. ASSUME logs # None  PROVE Becomes(logs, (stream \o Owed)', Surviving')
  <2>1. logs \in Seq(Shown)  BY <1>5 DEF Typed
  <2>2. Becomes(logs, stream \o Owed, Surviving)  BY <1>5 DEF Follows
  <2>3. Becomes(logs, Append(stream \o Owed, Created(h)), Append(Surviving, Created(h).line))
    BY <1>1, <2>1, <2>2, Underway, BecomesLonger
  <2>4. QED  BY <1>1, <1>3, <1>4, <2>3
<1>6. QED  BY <1>2, <1>5 DEF Follows

LEMMA SteadyPublishCreated ==
    ASSUME Typed, Follows, PublishCreated
    PROVE  Follows'
<1> DEFINE x == Created(Head(lines))
           t == IF updater = "deleted" THEN <<Truncated>> ELSE <<>>
<1>1. x \in Events
  BY Sizes DEF PublishCreated, Typed, Created, Events, Shown
<1>2. t \in Seq(Events)
  <2>1. CASE updater = "deleted"  BY <2>1, Underway
  <2>2. CASE updater # "deleted"  BY <2>2
  <2>3. QED  BY <2>1, <2>2
<1>3. Owed = <<x>> \o t  BY DEF PublishCreated, Owed
<1>4. Owed' = <<>> \o t  BY DEF PublishCreated, Owed
<1>5. stream' = Append(stream, x)  BY DEF PublishCreated
<1> HIDE DEF x, t
<1>6. stream' \o Owed' = stream \o Owed
  <2>1. <<>> \o t = t  BY <1>2, ConcatEmptySeq
  <2>2. Append(stream, x) \o t = stream \o (<<x>> \o t)
    BY <1>1, <1>2, Underway, AppendToConcat
  <2>3. QED  BY <1>3, <1>4, <1>5, <2>1, <2>2
<1>7. Surviving' = Surviving /\ logs' = logs  BY DEF PublishCreated, browser, Surviving
<1>8. QED  BY <1>6, <1>7, SameFollows

LEMMA SteadyDelete ==
    ASSUME Typed, Follows, DeleteLogs
    PROVE  Follows'
<1> DEFINE a == IF appender = "stored" THEN <<Created(Head(lines))>> ELSE <<>>
<1>1. a \in Seq(Events)
  <2>1. appender = "stored" => Created(Head(lines)) \in Events
    BY Sizes DEF Typed, Created, Events, Shown
  <2>2. CASE appender = "stored"  BY <2>1, <2>2
  <2>3. CASE appender # "stored"  BY <2>3
  <2>4. QED  BY <2>2, <2>3
<1>2. Owed = a \o <<>>  BY DEF DeleteLogs, Owed
<1>3. Owed' = a \o <<Truncated>>  BY DEF DeleteLogs, Owed, Created
<1> HIDE DEF a
<1>4. (stream \o Owed)' = Append(stream \o Owed, Truncated)
  <2>1. a \o <<>> = a  BY <1>1, ConcatEmptySeq
  <2>2. Append(stream \o a, Truncated) = stream \o (a \o <<Truncated>>)
    <3>1. stream \in Seq(Events) /\ Truncated \in Events  BY Underway
    <3>2. stream \o a \in Seq(Events) /\ <<Truncated>> \in Seq(Events)
      BY <1>1, <3>1, ConcatProperties
    <3>3. Append(stream \o a, Truncated) = (stream \o a) \o <<Truncated>>
      BY <3>1, <3>2, AppendIsConcat
    <3>4. (stream \o a) \o <<Truncated>> = stream \o (a \o <<Truncated>>)
      BY <1>1, <3>1, <3>2, ConcatAssociative
    <3>5. QED  BY <3>3, <3>4
  <2>3. stream' = stream  BY DEF DeleteLogs
  <2>4. QED  BY <1>2, <1>3, <2>1, <2>2, <2>3
<1>5. Surviving' = <<>>
  <2>1. rows' = rows /\ doomed' = Len(rows) /\ Len(rows) \in Nat
    BY Sizes DEF DeleteLogs
  <2>2. SubSeq(rows, Len(rows) + 1, Len(rows)) = <<>>
    <3>1. Len(rows) + 1 \in Int /\ Len(rows) \in Int /\ Len(rows) < Len(rows) + 1  BY <2>1
    <3>2. QED  BY <3>1, SubSeqEmpty
  <2>3. QED  BY <2>1, <2>2 DEF Surviving
<1>6. ASSUME logs # None  PROVE Becomes(logs, (stream \o Owed)', Surviving')
  <2>1. logs \in Seq(Shown)  BY <1>6 DEF Typed
  <2>2. Becomes(logs, Append(stream \o Owed, Truncated), <<>>)
    BY <2>1, Underway, BecomesEmpty
  <2>3. QED  BY <1>4, <1>5, <2>2
<1>7. logs' = logs  BY DEF DeleteLogs, browser
<1>8. QED  BY <1>6, <1>7 DEF Follows

LEMMA SteadyPublishTruncated ==
    ASSUME Typed, Follows, PublishTruncated, appender # "stored"
    PROVE  Follows'
<1>1. Owed = <<>> \o <<Truncated>> /\ Owed' = <<>> \o <<>>
  BY DEF PublishTruncated, Owed
<1>2. stream' = Append(stream, Truncated)  BY DEF PublishTruncated
<1>3. stream' \o Owed' = stream \o Owed
  <2>1. <<Truncated>> \in Seq(Events) /\ <<>> \in Seq(Events)  BY Underway
  <2>2. <<>> \o <<Truncated>> = <<Truncated>> /\ <<>> \o <<>> = <<>>
    BY <2>1, ConcatEmptySeq
  <2>3. Append(stream, Truncated) = stream \o <<Truncated>>  BY Underway, AppendIsConcat
  <2>4. stream' \in Seq(Events)  BY <1>2, Underway, AppendProperties
  <2>5. stream' \o <<>> = stream'  BY <2>4, ConcatEmptySeq
  <2>6. QED  BY <1>1, <1>2, <2>2, <2>3, <2>5
<1>4. Surviving' = Surviving /\ logs' = logs
  BY DEF PublishTruncated, browser, Surviving
<1>5. QED  BY <1>3, <1>4, SameFollows

LEMMA SteadyCommit ==
    ASSUME Typed, Follows, CommitStatus
    PROVE  Follows'
<1>1. /\ rows' = Surviving /\ doomed' = 0 /\ updater' = "committed" /\ lines' = lines
      /\ appender' = appender /\ stream' = stream /\ logs' = logs
  BY DEF CommitStatus, browser
<1>2. updater # "deleted"  BY DEF CommitStatus
<1>3. Owed' = Owed  BY <1>1, <1>2 DEF Owed, Created
<1>4. Surviving' = Surviving
  <2>1. Surviving' = SubSeq(Surviving, 0 + 1, Len(Surviving))  BY <1>1 DEF Surviving
  <2>2. SubSeq(Surviving, 1, Len(Surviving)) = Surviving  BY Underway, SubSeqFull
  <2>3. QED  BY <2>1, <2>2
<1>5. (stream \o Owed)' = stream \o Owed  BY <1>1, <1>3
<1>6. QED  BY <1>1, <1>4, <1>5, SameFollows

LEMMA SteadyReceive ==
    ASSUME Typed, Follows, Receive
    PROVE  Follows'
<1>1. /\ stream # <<>> /\ stream' = Tail(stream)
      /\ logs' = IF logs = None THEN None ELSE Apply(logs, Head(stream))
      /\ Owed' = Owed /\ Surviving' = Surviving
  BY DEF Receive, server, Owed, Surviving, Created
<1>2. /\ stream \o Owed # <<>> /\ Head(stream \o Owed) = Head(stream)
      /\ Tail(stream \o Owed) = Tail(stream) \o Owed
  BY <1>1, Underway, TailOfConcat
<1>3. ASSUME logs # None  PROVE Becomes(logs', (stream \o Owed)', Surviving')
  <2>1. logs \in Seq(Shown)  BY <1>3 DEF Typed
  <2>2. Becomes(logs, stream \o Owed, Surviving)  BY <1>3 DEF Follows
  <2>3. Becomes(Apply(logs, Head(stream \o Owed)), Tail(stream \o Owed), Surviving)
    BY <1>2, <2>1, <2>2, Underway, BecomesShorter
  <2>4. QED  BY <1>1, <1>2, <1>3, <2>3
<1>4. QED  BY <1>1, <1>3 DEF Follows

LEMMA FollowsNext ==
    Typed /\ Typed' /\ CollectionFollowsRows /\ [Next]_vars => CollectionFollowsRows'
<1> SUFFICES ASSUME Typed, Typed', CollectionFollowsRows, [Next]_vars
             PROVE  CollectionFollowsRows'
  OBVIOUS
<1> DEFINE Steady == Follows => Follows'
<1>1. ASSUME MayDiffer  PROVE CollectionFollowsRows'
  BY <1>1 DEF MayDiffer, CollectionFollowsRows
<1>2. ASSUME Repairs, Steady  PROVE CollectionFollowsRows'
  BY <1>2 DEF Repairs, CollectionFollowsRows, Typed
<1>3. ASSUME differs' = differs, Steady  PROVE CollectionFollowsRows'
  BY <1>3 DEF CollectionFollowsRows
<1>4. ASSUME UNCHANGED <<lines, rows, appender, updater, doomed, stream, logs, differs>>
      PROVE  CollectionFollowsRows'
  <2>1. (stream \o Owed)' = stream \o Owed /\ Surviving' = Surviving /\ logs' = logs
    BY <1>4 DEF Owed, Surviving, Created
  <2>2. Steady  BY <2>1, SameFollows
  <2>3. QED  BY <1>3, <1>4, <2>2
<1> HIDE DEF Steady
<1> USE DEF worker, server, browser, history
<1>5. CASE StartJob  BY <1>4, <1>5 DEF StartJob
<1>6. CASE RefuseJob  BY <1>4, <1>6 DEF RefuseJob
<1>7. CASE FinishJob  BY <1>4, <1>7 DEF FinishJob
<1>8. ASSUME NEW chunk \in Chunks, WriteLog(chunk)  PROVE CollectionFollowsRows'
  <2>1. Steady  BY <1>8, SteadyWorker DEF Steady
  <2>2. differs' = differs  BY <1>8 DEF WriteLog
  <2>3. QED  BY <1>3, <2>1, <2>2
<1>9. CASE AppendLogMessage
  <2>1. CASE updater = "deleted"  BY <1>1, <1>9, <2>1 DEF AppendLogMessage
  <2>2. CASE updater # "deleted"
    <3>1. Steady  BY <1>9, <2>2, SteadyAppend DEF Steady
    <3>2. Repairs  BY <1>9, <2>2 DEF AppendLogMessage
    <3>3. QED  BY <1>2, <3>1, <3>2
  <2>3. QED  BY <2>1, <2>2
<1>10. CASE PublishCreated
  <2>1. Steady  BY <1>10, SteadyPublishCreated DEF Steady
  <2>2. Repairs  BY <1>10 DEF PublishCreated
  <2>3. QED  BY <1>2, <2>1, <2>2
<1>11. CASE AckLog
  <2>1. /\ Owed' = Owed /\ Surviving' = Surviving /\ stream' = stream /\ logs' = logs
        /\ differs' = differs
    BY <1>11 DEF AckLog, Owed, Surviving
  <2>2. (stream \o Owed)' = stream \o Owed  BY <2>1
  <2>3. Steady  BY <2>1, <2>2, SameFollows DEF Steady
  <2>4. QED  BY <1>3, <2>1, <2>3
<1>12. CASE CrashAppender  BY <1>1, <1>12 DEF CrashAppender
<1>13. CASE DeleteLogs
  <2>1. Steady  BY <1>13, SteadyDelete DEF Steady
  <2>2. Repairs  BY <1>13 DEF DeleteLogs
  <2>3. QED  BY <1>2, <2>1, <2>2
<1>14. CASE PublishTruncated
  <2>1. CASE appender = "stored"  BY <1>1, <1>14, <2>1 DEF PublishTruncated
  <2>2. CASE appender # "stored"
    <3>1. Steady  BY <1>14, <2>2, SteadyPublishTruncated DEF Steady
    <3>2. Repairs  BY <1>14, <2>2 DEF PublishTruncated
    <3>3. QED  BY <1>2, <3>1, <3>2
  <2>3. QED  BY <2>1, <2>2
<1>15. CASE CommitStatus
  <2>1. Steady  BY <1>15, SteadyCommit DEF Steady
  <2>2. Repairs  BY <1>15 DEF CommitStatus
  <2>3. QED  BY <1>2, <2>1, <2>2
<1>16. CASE AckStatus
  <2>1. /\ Owed' = Owed /\ Surviving' = Surviving /\ stream' = stream /\ logs' = logs
        /\ differs' = differs
    BY <1>16 DEF AckStatus, Owed, Surviving, Created
  <2>2. (stream \o Owed)' = stream \o Owed  BY <2>1
  <2>3. Steady  BY <2>1, <2>2, SameFollows DEF Steady
  <2>4. QED  BY <1>3, <2>1, <2>3
<1>17. CASE CrashUpdater  BY <1>1, <1>17 DEF CrashUpdater
<1>18. CASE Restart  BY <1>1, <1>18 DEF Restart
<1>19. CASE OpenPage  BY <1>4, <1>19 DEF OpenPage
<1>20. CASE ReadLogs  BY <1>4, <1>20 DEF ReadLogs
<1>21. CASE AnswerLogs  BY <1>1, <1>21 DEF AnswerLogs
<1>22. CASE LeavePage  BY <1>4, <1>22 DEF LeavePage
<1>23. CASE Evict
  <2>1. Steady  BY <1>23 DEF Evict, Follows, Steady
  <2>2. Repairs  BY <1>23 DEF Evict
  <2>3. QED  BY <1>2, <2>1, <2>2
<1>24. CASE Receive
  <2>1. Steady  BY <1>24, SteadyReceive DEF Steady
  <2>2. Repairs  BY <1>24 DEF Receive
  <2>3. QED  BY <1>2, <2>1, <2>2
<1>25. CASE UNCHANGED vars  BY <1>4, <1>25 DEF vars
<1>26. QED
  BY <1>5, <1>6, <1>7, <1>8, <1>9, <1>10, <1>11, <1>12, <1>13, <1>14, <1>15, <1>16, <1>17,
     <1>18, <1>19, <1>20, <1>21, <1>22, <1>23, <1>24, <1>25 DEF Next

\* Outside the races that MayDiffer names, nothing lets the collection of a page
\* differ from job_logs, and once they agree only such a race ends it
\* (jobLogModel's handlers, JobLogsConsumer, JobUpdater#truncate_job_logs).
THEOREM RowsFollowed == Spec => []CollectionFollowsRows
<1>1. Init => CollectionFollowsRows  BY DEF Init, CollectionFollowsRows, Follows
<1>2. Inv /\ Inv' /\ CollectionFollowsRows /\ [Next]_vars => CollectionFollowsRows'
  BY FollowsNext DEF Inv
<1>3. QED  BY <1>1, <1>2, LogInvariance, PTL DEF Spec
=============================================================================
