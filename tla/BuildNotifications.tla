-------------------------- MODULE BuildNotifications --------------------------
(***************************************************************************)
(* What the outside world is told about the builds of one project: the     *)
(* notices that Build's after_transition publishes, BuildNotifyConsumer    *)
(* (one of them, see bin/consumers) with BuildNotifier, and the            *)
(* subscriptions of the project.                                           *)
(*                                                                         *)
(* A notice holds the attributes the build had when it was published; the  *)
(* previous build of the branch and the subscriptions are read when it is  *)
(* handled.  It is published inside the transaction of JobUpdater, which   *)
(* may be interrupted before it commits: the status message is then        *)
(* handled again, and publishes again.                                     *)
(*                                                                         *)
(* Builds are named by their numbers and are builds of different commits.  *)
(* Which jobs they have, and why they pass or fail, is in BuildLifecycle.  *)
(***************************************************************************)
EXTENDS Naturals, Sequences, FiniteSets, FiniteSetsExt

CONSTANTS
    Builds,            \* numbers of builds
    BranchOf,          \* the branch of each
    Users,
    Requests,          \* threads that change subscriptions
    Loyal,             \* users who are subscribed and leave it at that
    MaxRestarts,       \* bound: restarts of each build
    MaxInterruptions,  \* bound: times a consumer dies or a mail cannot be sent
    MaxQueue,          \* bound: notices that wait when a build is updated
    None

ASSUME BuildsAssumption == Builds \subseteq Nat /\ IsFiniteSet(Builds)
ASSUME LoyalAssumption == Loyal \subseteq Users
ASSUME BoundsAssumption == {MaxRestarts, MaxInterruptions, MaxQueue} \subseteq Nat

VARIABLES
    status,         \* builds.status, as committed
    restarts,       \* how often each was restarted
    updating,       \* the open transaction of JobUpdater, or the one to repeat
    queue,          \* vx.web.builds.notify
    worker,         \* the notice the consumer is handling
    subscriptions,  \* no row, subscribed, unsubscribed
    requests,       \* requests about subscriptions
    shown,          \* the commit status at the hosting service; "stale" if it did not
                    \* take the last one it was sent
    verdicts,       \* how often each build ended; of these, how often in red
    mails,          \* number of mails about a build, to a user
    lastMail,       \* and the verdict the last of them tells
    interruptions,
    inOrder         \* builds of a branch have ended in the order of their numbers

buildVars == <<status, restarts, updating, verdicts, inOrder>>
subscriptionVars == <<subscriptions, requests>>
mailVars == <<mails, lastMail>>
vars == <<status, restarts, updating, queue, worker, subscriptions, requests,
          shown, verdicts, mails, lastMail, interruptions, inOrder>>

Red == {"failed", "errored"}
Verdicts == Red \cup {"passed"}
Statuses == Verdicts \cup {"initialized", "started", "deploying"}
Notices == [build: Builds, status: Statuses]
Updates == [build: Builds, status: Statuses, open: BOOLEAN]
Workers == [notice: Notices, stage: {"taken", "posted", "mailing"},
            recipients: SUBSET Users]
SubscriptionRequests == [user: Users, want: {"on", "off", "author"},
                         seen: {"none", "on", "off"}]

ASSUME NoneAssumption == None \notin Updates \cup Workers \cup SubscriptionRequests

-----------------------------------------------------------------------------
(* Builds *)

\* The state machine of Build.
CanBecome(s, t) ==
    \/ t = "started"          /\ s = "initialized"
    \/ t \in {"passed", "failed"} /\ s \in {"started", "deploying"}
    \/ t = "errored"          /\ s \in {"initialized", "started", "deploying"}
    \/ t = "deploying"        /\ s \in {"initialized", "started"}

Earlier(b) == {c \in Builds : c < b /\ BranchOf[c] = BranchOf[b]}

Finished(b) == status[b] \in Verdicts

\* Variant: after_transition without :deploying.
NotifiesOfDeployNot(s) == s # "deploying"

\* after_transition any => [...]: all but the initial state.
NotifiesOf(s) == s # "initialized"

Publish(b, s) ==
    queue' = IF NotifiesOf(s) THEN Append(queue, [build |-> b, status |-> s]) ELSE queue

\* JobUpdater makes the build change its state; the notice is published.
UpdateBuild(b, s) ==
    /\ updating = None
    /\ CanBecome(status[b], s)
    /\ Len(queue) < MaxQueue
    /\ inOrder' = (inOrder /\ (s \in Verdicts => \A c \in Earlier(b) : Finished(c)))
    /\ updating' = [build |-> b, status |-> s, open |-> TRUE]
    /\ Publish(b, s)
    /\ UNCHANGED <<status, restarts, verdicts, worker, subscriptionVars, shown,
                   mailVars, interruptions>>

\* The transaction commits.
CommitUpdate ==
    /\ updating # None
    /\ updating.open
    /\ status' = [status EXCEPT ![updating.build] = updating.status]
    /\ verdicts' = [verdicts EXCEPT ![updating.build] =
                       [all |-> @.all + (IF updating.status \in Verdicts THEN 1 ELSE 0),
                        red |-> @.red + (IF updating.status \in Red THEN 1 ELSE 0)]]
    /\ updating' = None
    /\ UNCHANGED <<restarts, inOrder, queue, worker, subscriptionVars, shown, mailVars,
                   interruptions>>

\* It is rolled back instead; the status message returns to its queue.
InterruptUpdate ==
    /\ updating # None
    /\ updating.open
    /\ interruptions < MaxInterruptions
    /\ interruptions' = interruptions + 1
    /\ updating' = [updating EXCEPT !.open = FALSE]
    /\ UNCHANGED <<status, restarts, verdicts, inOrder, queue, worker, subscriptionVars, shown,
                   mailVars>>

\* The status message is handled again.
RepeatUpdate ==
    /\ updating # None
    /\ ~updating.open
    /\ updating' = [updating EXCEPT !.open = TRUE]
    /\ Publish(updating.build, updating.status)
    /\ UNCHANGED <<status, restarts, verdicts, inOrder, worker, subscriptionVars, shown,
                   mailVars, interruptions>>

\* The lock of the project is free.
Unlocked == updating # None => ~updating.open

\* Build#restart: no transition of the state machine, no notice.
Restart(b) ==
    /\ Unlocked
    /\ Finished(b)
    /\ restarts[b] < MaxRestarts
    /\ restarts' = [restarts EXCEPT ![b] = @ + 1]
    /\ status' = [status EXCEPT ![b] = "initialized"]
    /\ inOrder' = FALSE
    /\ UNCHANGED <<updating, verdicts, queue, worker, subscriptionVars, shown,
                   mailVars, interruptions>>

-----------------------------------------------------------------------------
(* BuildNotifyConsumer *)

\* A message is delivered; it stays unacknowledged.
Take ==
    /\ worker = None
    /\ queue # <<>>
    /\ worker' = [notice |-> Head(queue), stage |-> "taken", recipients |-> {}]
    /\ queue' = Tail(queue)
    /\ UNCHANGED <<buildVars, subscriptionVars, shown, mailVars, interruptions>>

\* create_commit_status: the service takes the status, or any exception is
\* rescued and the status is not sent again.
CreateCommitStatus ==
    /\ worker # None
    /\ worker.stage = "taken"
    /\ LET b == worker.notice.build IN
       \/ shown' = [shown EXCEPT ![b] = worker.notice.status]
       \/ shown' = [shown EXCEPT ![b] = "stale"]
    /\ worker' = [worker EXCEPT !.stage = "posted"]
    /\ UNCHANGED <<buildVars, queue, subscriptionVars, mailVars, interruptions>>

\* Variant: without `number < ?`.
PrevFinishedAny(b) == {c \in Builds : BranchOf[c] = BranchOf[b] /\ Finished(c)}

\* Candidates for prev_finished_build_in_branch, the last of which it is.
PrevFinished(b) == {c \in Earlier(b) : Finished(c)}

\* status_has_changed?, of the attributes in the notice.
StatusHasChanged(notice) ==
    LET prev == PrevFinished(notice.build) IN
    prev = {} \/ status[Max(prev)] # notice.status

\* Variant: red is told once.
NotifyOfChange(notice) == notice.status \in Verdicts /\ StatusHasChanged(notice)

\* Variant: deploying counts as finished, as it does by its number.
NotifyOfDeploy(notice) ==
    \/ notice.status \in Red \cup {"deploying"}
    \/ notice.status = "passed" /\ StatusHasChanged(notice)

\* notify?
Notify(notice) ==
    \/ notice.status \in Red
    \/ notice.status = "passed" /\ StatusHasChanged(notice)

\* delivery_email_notifications: notify? and the active subscriptions are read.
SelectRecipients ==
    /\ worker # None
    /\ worker.stage = "posted"
    /\ worker' = [worker EXCEPT
                     !.stage = "mailing",
                     !.recipients = IF Notify(worker.notice)
                                    THEN {u \in Users : subscriptions[u] = "on"}
                                    ELSE {}]
    /\ UNCHANGED <<buildVars, queue, subscriptionVars, shown, mailVars, interruptions>>

\* BuildsMailer.status_email
SendMail(u) ==
    /\ worker # None
    /\ u \in worker.recipients
    /\ mails' = [mails EXCEPT ![worker.notice.build][u] = @ + 1]
    /\ lastMail' = [lastMail EXCEPT ![worker.notice.build][u] = worker.notice.status]
    /\ worker' = [worker EXCEPT !.recipients = @ \ {u}]
    /\ UNCHANGED <<buildVars, queue, subscriptionVars, shown, interruptions>>

Acknowledge ==
    /\ worker # None
    /\ worker.stage = "mailing"
    /\ worker.recipients = {}
    /\ worker' = None
    /\ UNCHANGED <<buildVars, queue, subscriptionVars, shown, mailVars, interruptions>>

\* The consumer dies, or a mail raises: the notice returns to the head.
Interrupt ==
    /\ worker # None
    /\ interruptions < MaxInterruptions
    /\ interruptions' = interruptions + 1
    /\ queue' = <<worker.notice>> \o queue
    /\ worker' = None
    /\ UNCHANGED <<buildVars, subscriptionVars, shown, mailVars>>

-----------------------------------------------------------------------------
(* Subscriptions: the row of a user is read first, written then.            *)

\* Project#subscribe, #unsubscribe, the link in the mails, and
\* subscribe_by_email for the author of a commit.
LoadSubscription(r, u, want) ==
    /\ requests[r] = None
    /\ requests' = [requests EXCEPT ![r] = [user |-> u, want |-> want,
                                            seen |-> subscriptions[u]]]
    /\ UNCHANGED <<buildVars, queue, worker, subscriptions, shown, mailVars,
                   interruptions>>

\* Variant: subscribe_by_email as Project#subscribe does it.
WritesAlways(r) ==
    /\ requests[r].seen = "none" => subscriptions[requests[r].user] = "none"
    /\ requests[r].seen # IF requests[r].want = "author" THEN "on" ELSE requests[r].want

\* Whether the row is written: an insert that does not hit the unique index, an
\* update of a row that was loaded with another value.
Writes(r) ==
    \/ requests[r].seen = "none" /\ subscriptions[requests[r].user] = "none"
    \/ /\ requests[r].seen # "none"
       /\ requests[r].want # "author"
       /\ requests[r].seen # requests[r].want

SaveSubscription(r) ==
    /\ requests[r] # None
    /\ subscriptions' =
          IF Writes(r)
          THEN [subscriptions EXCEPT ![requests[r].user] =
                   IF requests[r].want = "off" THEN "off" ELSE "on"]
          ELSE subscriptions
    /\ requests' = [requests EXCEPT ![r] = None]
    /\ UNCHANGED <<buildVars, queue, worker, shown, mailVars, interruptions>>

-----------------------------------------------------------------------------
Init ==
    /\ status = [b \in Builds |-> "initialized"]
    /\ restarts = [b \in Builds |-> 0]
    /\ updating = None
    /\ queue = <<>>
    /\ worker = None
    /\ subscriptions = [u \in Users |-> IF u \in Loyal THEN "on" ELSE "none"]
    /\ requests = [r \in Requests |-> None]
    /\ shown = [b \in Builds |-> "none"]
    /\ verdicts = [b \in Builds |-> [all |-> 0, red |-> 0]]
    /\ mails = [b \in Builds |-> [u \in Users |-> 0]]
    /\ lastMail = [b \in Builds |-> [u \in Users |-> "none"]]
    /\ interruptions = 0
    /\ inOrder = TRUE

Consume == Take \/ CreateCommitStatus \/ SelectRecipients \/ Acknowledge
           \/ \E u \in Users : SendMail(u)

Next ==
    \/ \E b \in Builds : Restart(b) \/ \E s \in Statuses : UpdateBuild(b, s)
    \/ CommitUpdate \/ InterruptUpdate \/ RepeatUpdate
    \/ Consume
    \/ Interrupt
    \/ \E r \in Requests : SaveSubscription(r)
    \/ \E r \in Requests, u \in Users \ Loyal, want \in {"on", "off", "author"} :
          LoadSubscription(r, u, want)

Spec == Init /\ [][Next]_vars

\* The consumers run; nobody has to push, restart or subscribe.
Fairness == WF_vars(Consume) /\ WF_vars(CommitUpdate) /\ WF_vars(RepeatUpdate)

FairSpec == Spec /\ Fairness

-----------------------------------------------------------------------------
TypeOK ==
    /\ status \in [Builds -> Statuses]
    /\ restarts \in [Builds -> 0..MaxRestarts]
    /\ updating \in Updates \cup {None}
    /\ queue \in Seq(Notices)
    /\ worker \in Workers \cup {None}
    /\ subscriptions \in [Users -> {"none", "on", "off"}]
    /\ requests \in [Requests -> SubscriptionRequests \cup {None}]
    /\ shown \in [Builds -> Statuses \cup {"none", "stale"}]
    /\ verdicts \in [Builds -> [all: Nat, red: Nat]]
    /\ mails \in [Builds -> [Users -> Nat]]
    /\ lastMail \in [Builds -> [Users -> Verdicts \cup {"none"}]]
    /\ interruptions \in 0..MaxInterruptions
    /\ inOrder \in BOOLEAN

\* A notice about the build that is not handled yet, or will be published again.
Pending(b) ==
    \/ updating # None /\ updating.build = b
    \/ worker # None /\ worker.notice.build = b
    \/ \E i \in 1..Len(queue) : queue[i].build = b

\* The hosting service never gets stuck at an old status: once the notices of a
\* build are handled it shows the state the build is in, unless it refused the
\* last status it was sent (or the build was restarted and has not begun).
ServiceShowsStatus ==
    \A b \in Builds :
        ~Pending(b) /\ status[b] # "initialized" => shown[b] \in {status[b], "stale"}

\* A verdict is mailed to a user once, and again only because a consumer was
\* interrupted; a state that is no verdict is not mailed.
OneMailPerVerdict ==
    \A b \in Builds, u \in Users :
        mails[b][u] <= verdicts[b].all + interruptions + (IF Pending(b) THEN 1 ELSE 0)

\* While builds end in order and none is restarted, the newest build a subscriber
\* was mailed about has the verdict of the newest build of the branch: a mail is
\* left out only if it would say what the subscriber knows.
SubscribersKnowTheVerdict ==
    inOrder =>
    \A b \in Builds, u \in Loyal :
        LET builds == Earlier(b) \cup {b}
            told == {c \in builds : lastMail[c][u] # "none"}
        IN  Finished(b) /\ (\A c \in builds : ~Pending(c))
            => told # {} /\ lastMail[Max(told)][u] = status[b]

\* The author of a commit is subscribed unless he has a row already: somebody who
\* unsubscribed is subscribed again by a request of his own only.
AuthorsAreNotResubscribed ==
    [][\A u \in Users :
          subscriptions[u] = "off" /\ subscriptions'[u] = "on" =>
          \E r \in Requests : requests[r] # None /\ requests[r].user = u
                              /\ requests[r].want = "on" /\ requests'[r] = None]_vars

\* Every red verdict reaches those who stay subscribed, though consumers are
\* interrupted, the service fails, and builds are restarted meanwhile.
RedReachesSubscribers ==
    []<>(\A b \in Builds, u \in Loyal : mails[b][u] >= verdicts[b].red)
=============================================================================
