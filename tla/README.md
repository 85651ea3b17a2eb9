# Verification of vx-web

vx-web is the web application and the message consumers of a continuous
integration service (Rails, PostgreSQL, RabbitMQ, an AngularJS front end). A push
to a repository becomes a *build* of a *project*; its *jobs* are executed by
workers in another program, which report back over a queue; the outcome is shown
in the browser, posted to the code hosting service and mailed to subscribers.

This directory holds TLA+ modules of the parts of it that are hard to get right,
TLC configurations that check them on small instances, and proofs that TLAPS
checks for every instance.

| module | what it is |
| --- | --- |
| `BuildLifecycle` | the rows of one build and everything that writes them |
| `BuildContract` | what a project is promised about a build |
| `BuildRefinement` | the mapping from the rows to the promise |
| `JobPipeline` | the same build with its queues, workers, consumer, crashes |
| `JobPipeline_proofs` | both: the inductive invariants, the theorems, the refinement |
| `ProjectBuilds` | the transactions that create the builds of a project |
| `BuildLog`, `ProjectBuildsRefinement` | its builds as an append-only list, and the mapping |
| `ProjectBuilds_proofs` | numbering: the inductive invariant, the theorems, the refinement |
| `CompanyMembers` | the companies of a user: default, roles, invites |
| `CompanyMembers_proofs` | the theorems about them |
| `BuildNotifications` | commit statuses, mails, and the subscriptions of a project |
| `BuildNotifications_proofs` | its invariants and the theorems |
| `UserRepos` | the rows of repositories, their projects, hooks and keys |
| `UserRepos_proofs` | the inductive invariant and the theorems about them |
| `ClientCache` | the builds of a project as a browser keeps them |
| `ClientCache_proofs` | its inductive invariant and the theorems |
| `Accounts` | how users and companies come into being: signup, accepted invites |
| `Accounts_proofs` | the inductive invariant and the theorems about them |
| `LogOutput` | how the page of a job renders its log, piece by piece: functions |
| `JobLogs` | the log of a job from the worker through two queues to the page |
| `JobLogs_proofs` | its inductive invariant and the theorems |
| `MCBuildLifecycle`, `MCJobPipeline`, `MCProjectBuilds`, `MCCompanyMembers`, `MCBuildNotifications`, `MCUserRepos`, `MCClientCache`, `MCAccounts`, `MCJobLogs` | instances for TLC |

## Inventory

### Build lifecycle (modelled)

`app/models/job_updater.rb`, `build.rb`, `job.rb`. State: the rows of `builds`
and `jobs` (their `status` columns are integers 0, 2..6, and 6 means "deploying"
for a build but "cancelled" for a job), `job_histories` (from which usage is
billed) and `job_logs`. Operations: `JobUpdater#perform` for each status message,
`Build#restart`. The transactions hold the row lock of the project. Each of them
sends messages *before* it commits: `PerformJob` to the workers, the build's
attributes to the notifier, JSON to the browsers.

Hard: status messages are late, repeated, reordered; two kinds of jobs, the
second kind gated by the first; `InvalidTransition` is rescued inside the
transaction, so a partial update would be committed; `Build#restart` tests
`finished?` on a row it loaded before it got the lock; `job_version` is always 1,
so a message does not say to which run it belongs.

Correct means: one verdict per run, exactly when the last job is over, the worst
of the jobs; no deploy behind a red job; usage counted once; nothing half-written.

### Job pipeline (modelled)

`perform_build.rb`, `app/consumers/*`, `bin/consumers`, and the workers as they
appear from here. State: the queue of `PerformJob` messages, the queue of status
messages, the unacknowledged message of the consumer, the open transactions of
`PerformBuild` and `Build#restart`. Hard: acknowledgement after commit, redelivery
after a crash, publishing before commit, in a restart as well, the lock as the only
thing that orders a worker's answer after the creation or the restart. Correct means:
every committed build ends, and with the outcomes its workers reported, in this run
unless a crash or an undone restart let an old answer in.

### Build creation and numbering (modelled)

`PerformBuild#process`, `Build#rebuild`, `Project#rebuild`, `build_head_commit`.
State: the builds of a project with number, branch and jobs, the row lock of the
project, and the open transactions. Hard: the number is `maximum + 1`, read in
each of several transactions; a chain of steps any of which rolls back; a rebuild
copies a row it loaded before it waits for the lock; the numbers of the deploy
jobs come from a count that the loop itself changes. Correct means: numbers are
1, 2, 3, ... without gaps or clashes, no build is without a job, a rebuild ends.

### Notifications and subscriptions (modelled)

`build_notifier.rb`, `build_notify_consumer.rb`, `project_subscription.rb`. State:
the queue of notices, the notice the consumer is handling, the rows of
subscriptions. A notice carries the attributes the build had when it was
published, inside a transaction that may yet be rolled back; whether it is
mailed depends on the previous finished build of the branch *when it is
delivered*. The commit status is attempted once and any exception swallowed; a
crash between two mails repeats the first. Correct means: the hosting service is
not stuck at an old status, every red verdict reaches the subscribers, a mail is
left out only if it says nothing new, nobody is resubscribed by a commit.

### Repositories and hooks (partly modelled)

`user_repo.rb`, `user_identity.rb`, `user.rb#sync_repos`. State: the rows of
repositories in each company, with their projects; at the service, the
repositories with their names, hooks and deploy keys. Hooks and keys are changed
inside database transactions that may be rolled back; a repository renamed at the
service takes over the name of an older row; two companies may share a repository.
Nothing serialises the requests of two windows or companies but the lock of a row
that one of them has written, and `update_attribute` writes nothing when the row as
it was loaded has the value already. The page shows a row as subscribed if its
column says so, if it has a project, or if another project has its name
(`user_repo_serializer.rb:10`); in the last case the switch is disabled. Correct means:
the switch is disabled exactly when the project is not the row's own, a repository
has one hook, that of its project, and sync mirrors the service and loses
nothing. A user has one identity here, which is created, updated and destroyed.

### Users, companies, sessions (partly modelled)

`user.rb`, `user_company.rb`, `company.rb`, `invite.rb`, `user_signup.rb`,
`user_session/*`, the controllers of `users/`. State of one user: a row for each
company, with role and `default`, and the open invites. Hard: `default!` is two
statements, the second of which is left out if a stale copy makes it look
superfluous; accepting an invite takes three writes without a transaction; an
administrator updates or removes a member who is doing something. Correct means:
one default; invites spent on members only; roles changed by administrators only.
`CompanyMembers` has these.

How a user and a company come into being is `Accounts`. State: the rows of users,
identities, companies, memberships and invites, and the requests of people who
come back from GitHub. Hard: `UserSession::Github#create` has a transaction of its
own, which `UserSignup#create` nests in another, so that its Rollback ends the
inner block only and nobody notices; accepting an invite has no transaction around
its saves; addresses and names of companies are unique, but nothing makes an
account belong to one user. Correct means: every user can sign in, every company
has an administrator, one account is one user, a failed invite can be repeated.

### Job logs (modelled)

`job_logs_updater.rb`, `append_log_message.rb`, `job_updater.rb#truncate_job_logs`,
`jobLogModel`, `api/job_logs_controller.rb`. State: two queues, what the consumer
of each has done for its first message, the rows, the stream of events, the
collection in the browser. Hard: lines and statuses overtake each other, and the
status "started" deletes the log; a line commits by itself, before its event, and
the event of a deletion leaves before the deletion commits; a restart deletes the
log and says nothing; a message returns after a crash. Correct means: the page
follows the rows but for the races that are known, and lines are lost at the
beginning of a run only.

### Billing, cached files (not modelled)

`invoice.rb`, `company_usage.rb`, `credit_card.rb`: nothing in the repository calls
`Invoice#make_payment`, the only step that could fail halfway, and usage is a sum
over `job_histories`, whose rows `BuildLifecycle` has. `cached_file.rb`: a find or
create for a name under a unique index, and one file operation; nothing else
depends on which of two uploads wins.

### Front end cache and events (partly modelled)

`cacheService`, `buildModel`, `eventSource`, `BuildsCtrl`, and at the server
`api/builds_controller.rb` and `publish`. State: an LRU cache of five collections
and objects, the requests in flight, the stream of events, the page shown. An
event is published before its transaction commits, if it does; it comes over
another connection than the answers to requests; one about a key that is not in
the cache is dropped. Correct means: when nothing is in flight, a browser has what
the server would answer. The caches of jobs, logs and projects follow the same
pattern and are left out.

### Log output (partly modelled)

`logOutput`, `appTaskOutput`. State: how many chunks of the collection are
rendered, whether a carriage return is pending, and the lines made so far. Hard:
chunks end anywhere, also between `\r` and `\n`; the log is truncated and grows
again; the page opens before, between or after the chunks. Correct means: the
screen is what a terminal makes of the whole log. `LogOutput` has the functions,
`JobLogs` the collection they are applied to. Colours and escape sequences are
left out.

### Not modelled

Billing and cached files (above), serializers, presenters, mailers (formatting, no state), `db/` (generated; its
unique indexes are guards where a module needs them), vendored front-end
libraries, styles and templates, deployment files.
The program is written in Ruby and CoffeeScript; the `.js` files of the repository
are those vendored libraries (`app/assets/javascripts/lib`) and a few small files
that configure requests and format values, which have no state.

## How the code becomes actions

A transaction that takes the project's row lock first is one action; what a
request reads before the lock is an action of its own. `JobUpdater#perform` is
written as the chain of steps of the code:

    guard / update_and_save_job_status      UpdateAndSaveJobStatus
    create_job_history                      CreateJobHistory
    truncate_job_logs                       TruncateJobLogs
    start_build? && start_build             StartBuild
    start_deploy                            StartDeploy
    finalize_build                          FinalizeBuild

Each step maps a record `tx`, the rows as the transaction sees them, to the next
one. `tx.raised` says that `StateMachine::InvalidTransition` was raised; the
steps that follow do nothing, and what was written before is committed, as the
rescue inside the transaction does it. `Perform(j, status)` is the chain and
`UpdateJob(j, status)` the action that installs its result.

| action | code |
| --- | --- |
| `UpdateJob` | `JobUpdater#perform` for one message |
| `AppendLog` | `JobLogsUpdater#perform` |
| `RequestRestart` | `Build#restart`, loading the row and `finished?` |
| `Restart` | `Build#restart` under the lock, with `Job#restart` of every job |
| `RollbackRestart` | a job that cannot be restarted: `or_rollback_transaction` |
| `EndCreation` | `PerformBuild#process` commits, or is undone after it published |
| `OpenRestart`, `CommitRestart`, `UndoRestart` | `Build#restart` up to `publish_perform_job_messages`, and its commit, or what undoes it after that |
| `Deliver`, `Handle`, `Acknowledge`, `Crash` | the job status consumer |
| `StartExecution`, `FinishExecution`, `RefuseExecution` | a worker (external) |

`RequestRestart` does not hold a lock, so several requests may have seen the
build finished, and status messages may be handled between the test and the lock.
`ProjectBuilds` and `CompanyMembers` have several transactions at the same time.
A transaction is a record in `tx`, and its actions are what it does between two
points at which another may come in: taking a lock, reading, writing, committing.
What it has written others see when it commits.

| action | code |
| --- | --- |
| `LockForPayload` | `PerformBuild#process`, up to `Project.lock(true)` |
| `LoadForRebuild`, `LockForRebuild` | `Project#rebuild` loads a build; `Build#rebuild` gets the lock |
| `AssignNumber`, `Commit`, `Rollback` | `assign_number`; the chain that saves the rows, or undoes them |
| `FinishBuild`, `RestartBuild` | what `BuildLifecycle` does, as seen from here |
| `Begin`, `Load` | a request about a user, and the row it loads |
| `SaveNew`, `SaveRole`, `KeepRow` | `user_company.save` in `add_to_company` |
| `ClearOthers`, `Claim` | the two statements of `UserCompany#default!`, and the commit |
| `DestroyInvite`, `Remove`, `Abort` | `Invite#destroy`, `delete_from_company`, a failure anywhere |

`BuildNotifications` opens the transaction of `JobUpdater` once more, at the place
where it publishes, and `UserRepos` the one of a subscription at each call to the
service. Each window has a request of its own in `UserRepos`, so that those of two
windows and two companies overlap at each of these points. A request keeps the row as
it was loaded (`copy`); it writes, and locks, the row only if that copy has another
value (`Changes`), and waits for the lock of an open transaction that has written the
row (`Locked`). What it has written the others see when it commits. `sync_repos` is
a transaction as well: it asks for the list once, stores one repository after another
in a copy of the rows (`table`), in any order, and removes rows before it commits; the
service and the tables change meanwhile, and any step may raise, which drops the copy.

| action | code |
| --- | --- |
| `UpdateBuild`, `CommitUpdate` | a transition with its notice, and the commit |
| `InterruptUpdate`, `RepeatUpdate` | the transaction is undone, the status message redelivered |
| `Take`, `CreateCommitStatus`, `SelectRecipients`, `SendMail`, `Acknowledge` | `BuildNotifyConsumer`, `BuildNotifier#notify` |
| `LoadSubscription`, `SaveSubscription` | `Project#subscribe`, `#unsubscribe`, `subscribe_by_email` |
| `Begin` | `Api::UserReposController` loads the row |
| `FindProject`, `FindNoProject`, `CreateProject` | `update_attribute`, then the project that `subscribe` or `unsubscribe` finds or makes |
| `Commit`, `Fail` | the end of `subscribe`, `unsubscribe`; an exception, a deadlock or a crash anywhere before |
| `DestroyHooks`, `DestroyKeys`, `CreateHook`, `CreateKey` | the calls in `unsubscribe_project`, `subscribe_project` |
| `BeginSync` | `User#sync_repos` opens its transaction and asks for the repositories |
| `CreateRow`, `UpdateRow` | `find_or_create_by_sc` of a listed repository, without a row and with one |
| `LoadDuplicate`, `DestroyVictim` | the row with the name of a new one, loaded with its project and destroyed |
| `Prune` | a row that was not listed, loaded with its project; without one, `DestroyVictim` |
| `CommitSync`, `FailSync` | the commit; a taken name, or any other failure |
| `DestroyIdentity`, `DestroyIdentityFails` | `unsubscribe_and_destroy`, complete or cut off |
| `RenameRepo`, `RemoveRepo` | what happens at the service (external) |
| `CreateBuild`, `UpdateBuild`, `ServeRestart`, `Commit`, `Rollback` | transactions that write a build, with their event |
| `Fetch`, `LoadMore`, `Restart`, `Read`, `AnswerFetch`, `AnswerMore`, `AnswerRestart` | requests of `buildModel`, from asking to the answer |
| `Receive`, `OpenStream`, `ShowList` | `eventSource` and the handlers of `buildModel`; `truncateBuilds` |
| `SaveIdentity` | `create_identity`, `update_identity` of a GitLab session |
| `AppendLogMessage`, `PublishCreated`, `AckLog` | `JobLogsConsumer`, `JobLogsUpdater#perform` |
| `DeleteLogs`, `PublishTruncated`, `CommitStatus`, `AckStatus` | `JobStatusConsumer`, as far as it concerns the log |
| `CrashAppender`, `CrashUpdater` | either consumer dies, its message is delivered again |
| `StartJob`, `RefuseJob`, `WriteLog`, `FinishJob` | a worker (external) |
| `OpenPage`, `ReadLogs`, `AnswerLogs`, `LeavePage`, `Evict` | `JobCtrl`, `jobLogModel.all`, the controller behind it, and the end of either |
| `Receive` | the handlers of `jobLogModel`, with the digest that follows |
| `Begin`, `Find` | a person comes back from GitHub; `UserSession::Github#find` |
| `UpdateEmail`, `FindByEmail`, `SaveIdentity`, `SaveUser` | `UserSession::Github#create` for an invite (`trust_email`) |
| `Join`, `DestroyInvite` | the rest of `GithubController#invite` |
| `InsertUser`, `SaveCompany`, `CommitSignup`, `Fail` | `UserSignup#create`, and a failure anywhere |
| `Invite`, `ChangeEmail` | what administrators do: `Invite.mass_create`, `update_with_company` |

`dispatched` and `notices` count what was published in the current run; they
exist in the code as messages only.

In `BuildLifecycle` a status message may arrive for any job at any time: the
properties there hold whatever workers and broker do. In `JobPipeline` every
message has a sender, and the properties relate outcomes to what was reported.

## Runs

`lifecycle` (two regular jobs, two deploy jobs, two requests, three runs; 89 879
states up to symmetry). Two jobs of each kind are the least for which "the last
one", "the worst one" and "all" differ, two requests the least that race, and
three runs the least in which the second of two racing restarts finds another run
behind its stale `finished?`. It checks all
properties of the module and that the module implements `BuildContract`.

`pipeline` (one regular job, one deploy job, two restarts, one crash or undone restart;
297 891 states). A worker's messages interleave with the open creation and the open
restart, the deploy job waits behind the regular one, a crash redelivers a message or
undoes a transaction that has published, and a restart finds messages of an earlier
run still around; with the second restart one of them reaches a run after the next.
`MaxCrashes` bounds crashes and undone restarts together, which the properties except
together.

`project_builds` (two transactions, two branches, three builds, fair). Two
transactions race for a number; two branches, since a rebuild looks for the last
build of its own; the configurations are one without jobs, one with deploy jobs
only and one with both kinds. It checks the numbering, that the project's builds
are a `BuildLog`, and that a rebuild ends.

`members` (two companies, two requests of any kind; 1 041 284 states up to symmetry):
two companies are the least with "the other rows", two requests the least that wait
for each other. A row that a request created while another one was clearing
the others escapes it; such rows are in `added`, and `AtMostOneDefault` excepts
them. `members_stale_copy` is a finding below.

`accounts` (two of everything: users, accounts, addresses, companies, requests,
open invites; about 4.4 million states up to symmetry). Two requests are the least
that collide, and each pair of people, addresses and names may be the same or
not, so that a taken address, a claimed name and an account used twice all occur.

`job_logs` (two lines, two runs, one crash; about 7.4 million states). Two
lines in two runs: one of the run before that comes late, one that is kept. Their
texts are chosen to be hard to cut (`\r` and `\n` in two messages, a text that
replaces another one). The module also evaluates an assumption, that fed with
any log of up to four characters in any three pieces `LogOutput` makes the lines of
`Terminal`, a definition over the whole log that knows of neither chunks nor
`normalize`.

`notifications` (one build, a loyal subscriber and a user who comes and goes, two
requests): the notices of one build, with an interruption, under concurrent
requests about subscriptions. One build is enough for its properties: each
speaks of one. `notifications_fair` (two builds of a branch, one restart of each,
one interruption, fair): a verdict is compared with the previous one.

`repos` (two windows, two companies, two repositories, two names, two projects, three
requests; 1 604 770 states up to symmetry): two windows are the least that overlap,
two names the least that can be swapped or reused, two companies the least that share
a repository. Three requests let two overlap after another one has subscribed (so a
request finds a project, a hook, or a copy that is stale), or a sync run among two of
them; a second project is that of the other company, or one that is made again.
`repos_lost_project` is a finding below.

`client_cache` (two branches, two requests, three transactions, pages of one
build, a cache of two entries; about 7 million states up to symmetry). A page of one
build makes every list longer than a page, a cache of two makes every third key
evict one, and three transactions are the least in which a build is created or
updated while a second page is fetched. Which entry is evicted is left open. Of the
value of a spoiled key only the number of its last build is compared (`View`): a
later page starts there, and nothing else depends on that value until a fetch
replaces it. Where a spoiled list ends after it was cut is not told apart, so TLC
may leave out states that differ in that alone; the theorems leave out none.

Bounds: `MaxRuns` is a guard of `Restart`, `MaxCrashes` of the crashes, `MaxBuilds` of
`AssignNumber`, `MaxRestarts` and `MaxInterruptions` of what they count,
`MaxQueue` of `UpdateBuild`, `MaxProjects` of `CreateProject`, `MaxRequests` of `Send`
in `UserRepos`, `MaxInvites` of
`Invite`, `MaxLines` of `WriteLog`, `MaxWrites` of the transactions of `ClientCache`, where only the builds of `Opened` have a page of
their own. Nothing else is
bounded: a build has finitely many jobs, and a message is answered by finitely
many. Deadlock checking is switched off in `pipeline` and the two runs about
notifications because a build that is over, or was rolled back, receives nothing
more, and in `job_logs` likewise; in the runs about members because a user without company and invite makes
no request; in those about repositories because the service may have removed all
of them.

### Fairness

`JobPipeline` assumes that a transaction that was opened ends (a restart is committed
or undone), that a worker ends
what it took from the queue (the workers have a timeout of their own; they are
external), and that the consumer goes on delivering, handling and acknowledging,
since it is a service that is started again when it dies. Nothing is assumed of
users: a restart need not be requested, and one that was requested need not get
its lock; neither is it assumed that one is undone. `EveryRunEnds` is what follows.

`project_builds` assumes that an open transaction ends, and that a row lock
which is asked for again and again is granted some day: PostgreSQL queues the
waiters, so strong fairness of `LockForRebuild` is what the database provides.

`BuildNotifications` assumes that the consumer goes on, that an open transaction
of `JobUpdater` commits or is undone, and that a status message which returned to
its queue is handled again. Nothing is assumed of builds, users, or the service.

### Findings

- `members_stale_copy`: two overlapping requests that make different companies the
  default may leave none. The row of the first was loaded when it was the default,
  the second request changes that, and then `update default: 1` of the first has
  nothing to write (`user_company.rb:21`), after it cleared the second's. The test
  in `spec/models/user_company_spec.rb:17` states what `default!` is to do.
- `repos_lost_project`: sync keeps a row the service lists no more if it has a
  project (`spec/models/user_spec.rb:48`), but a listed repository without a row
  destroys the row that has its name, with its project and builds
  (`user_repo.rb:55`). `ProjectsAreKept` says exactly when a project is lost.

### What the models leave out

- `Accounts`: the save of a membership and `default!` are one step (their
  statements are in `CompanyMembers`), and so are a validation and the write that
  follows it at once. The removal of members, sessions, the destruction of
  identities and the setting that closes signup are not there. GitHub is taken
  to supply a token and an id; only the name may be missing.
- `JobLogs`: one job, one worker at a time, one request for the log at a time. The
  times of lines (`tm`), by which the rows are ordered, come from the worker and are
  taken to grow from message to message. A restart is one step.

- `UserRepos`: one identity. Its destruction is one step, and so are the read of a
  project and the statement before it. A request whose row is destroyed meanwhile
  finds no project, and its update then writes nothing. `Prune` takes the rows as they
  are when it comes to each, not as they were when the list of them was read. A sync
  that is open when the identity is destroyed ends there.

### What the checks found out about the limits of the code

These are not contradicted by a document or a test of the repository; they are
assumptions under which the properties above hold.

- *A status message outlives its run.* With a crash after the commit and a
  restart before the redelivery, the message of the old run is handled in the new
  one. `errored` is accepted by a job in `initialized`, so the new run takes an
  outcome nobody reported in it, and the execution of the new run reports later, into the
  one after that. A restart that is undone after `build.rb:257` does the same without a
  crash: its `PerformJob` messages are out, the next restart sends them again, and the
  second answer may be left to the run after that. `OutcomesReported` therefore says
  that an outcome was reported in this run or an earlier one, and in this one while no
  consumer crashes and no restart is undone; `DeployAfterSuccess` says the same of the
  successes a deploy job waits for. The comment at
  `job_updater.rb:40` ("TODO") marks the place.
- *A build of deploy jobs only is sent out twice*: by `PerformBuild`
  (`publish_perform_job_messages` falls back to the deploy jobs) and by the first
  message that arrives (`start_deploy`). The second execution may report into the
  next run: `OutcomesReported` speaks of the current run only if there are regular
  jobs.
- *One consumer.* `bin/consumers` subscribes one `JobStatusConsumer`. With two, a
  final status can overtake "started" and is then rejected for ever, and
  `EveryRunEnds` fails. The number in that list is load-bearing.
- *Two defaults.* `update_all` locks and clears the rows that exist
  (`user_company.rb:20`). A membership that is created after that, and makes itself
  the default, is followed by the commit of the first request. One of two defaults
  is always such a row (`added`): `AtMostOneDefault` says so.
- *Two users of one account.* Two requests with the same GitHub account and
  different addresses both find no identity and both make a user: the index on
  identities is by user, not by account. Later sign-ins find one of them.
  `OneUserPerAccount` excepts the accounts of requests that overlapped.
- *One invite, accepted twice at a time.* A member accepts an invite, another person the
  same one; an administrator gives the member another address before the second
  request looks for it. That request makes a new user, and if it fails then, the
  invite is already spent. `InviteCanBeRepeated` excepts invites of overlapping
  requests.
- *Early lines.* What overtakes the "started" of its run is deleted by it; and if
  "started" is delivered again after its commit, the transition from started to
  started is legal and the lines stored so far are deleted again
  (`job_updater.rb:49`). `LaterLinesAreKept` says that these are all.
- *What a page of a log misses.* The event of a deletion leaves before the commit and
  crosses a line that is stored meanwhile; a redelivered line is stored twice; a
  restart deletes the rows and tells no page until the next "started"; an event
  that overtakes the answer to a fetch is lost, or its line is there twice.
  `CollectionFollowsRows` says that nothing else makes them differ, and that
  once they agree again they do so until the next of these.
- *Silence after a restart.* `status_has_changed?` compares with the previous
  build only, so a build that is restarted after red and passes mails nothing if
  the build before it passed, and so do builds that end out of order.
  `SubscribersKnowTheVerdict` holds while neither happens.
- *A commit status is sent once.* If the service fails, it shows an old status for
  ever ("stale" in `ServiceShowsStatus`).
- *One repository, two companies.* Hooks are destroyed by host, not by project, so
  subscribing in one company disconnects the project of the other. `ProjectsListen`
  excepts these rows (`deaf`).
- *Two requests for one repository.* `repo.wait` disables one switch of one page; two
  windows, users or companies may send requests whose calls to the service interleave.
  Destroy, destroy, create, create leaves two hooks, of which the next subscription
  destroys both; and a hook may be destroyed after it was created. `OneHookAtMost` excepts
  repositories with a hook that was created after another request destroyed the hooks
  between the calls of its own (`doubled`, by way of `crossed`), and `ProjectsListen` the
  rows of both (`deaf`).
- *An overtaken request.* `update_attribute` leaves a row alone, and unlocked, that had the
  value when it was loaded (`user_repo.rb:70`, `:93`), though another request has changed it
  since. A row may then have a project and not be subscribed, so that the page shows it
  as subscribed, disabled by its own project; or be subscribed and have none; and two
  requests that both find no project can make two, if the repository was renamed in
  between. `SwitchOfOwnProject` and `ProjectsListen` except these rows (`overtaken`) until
  a request that none has overtaken changes them.
- *Sync beside another request.* Both read rows the other is changing: a row that gets a
  project while sync runs may be destroyed all the same, and its project stays without a
  row. `SyncMirrorsService` and `ProjectsAreKept` except such rows (`disturbed`).
- *A project with a new build is not destroyed.* `builds.project_id` has a foreign
  key with ON DELETE RESTRICT (`db/migrate/20140627173832_add_uuid_pk_to_projects.rb:98`): a build
  that is inserted while `unsubscribe` destroys the project makes the destruction
  raise, or the insert. The rows come back, the hook at the service does not, until
  the repository is subscribed again. In `UserRepos` this is a `Fail` of the request.
- *Swapped names.* If two repositories with rows exchange their names, each
  `save` of sync violates the unique index on names, and every later sync
  fails until one is renamed again. `SyncMirrorsService` speaks of the syncs that
  commit; no property is about those that fail.
- *What spoils a browser's list.* An event that arrives while the key it is about is
  fetched is lost, or its build is there twice; the event of a transaction that is
  rolled back (a build without jobs) shows a build that does not exist; a page of a
  branch is pushed to the list of all builds too (`buildModel.js.coffee:50`); the
  answer to a restart may overwrite a newer state; events before the stream opens
  are missed. Nothing repairs such a key before it is evicted, truncated away or the
  page is reloaded. `ClientCache` collects these keys in `spoiled`, and its
  properties are about all others. If the stream closes it stays closed.
- *Carriage returns in a row.* `normalize` makes one of two, but not of three, nor of
  two that come in different chunks; the empty text between them then replaces
  the line (`logOutput.js.coffee:40`), so a progress bar may show a blank line until
  its next text. `ScreenShowsLog` allows a blank there, and nowhere else.
- *A removed member may come back.* An administrator's update finds the member,
  another one removes them, and `find_or_initialize_by` creates the row again.
- *Publishing inside a transaction.* A crash between the publication and the
  commit sends the deploy jobs twice, after the redelivery, and a restart that is undone
  after it published sends jobs of a run that does not begin. `DeployAfterSuccess` holds
  all the same, with what it says of the current run only before the first of these.

## Proofs

The first part of `JobPipeline_proofs` is about `BuildLifecycle`. It proves, for any
finite non-empty set of jobs split in two kinds, any set of requests and any bound
on the runs:

- `Invariance`: `IInv` is an invariant of `Spec`;
- `TypeCorrectness`, `VerdictTimely` (`VerdictIffSettled`), `VerdictTrue`
  (`PassedMeansAllPassed`, `RedMeansWorst`), `DeployGated` (`DeployGate`,
  `CancelledOnlyAfterFailure`), `OncePerRun` (`HistoryOncePerRun`,
  `VerdictAnnouncedOnce`), `NoPartialCommit` (`RejectedMessageWritesNothing`);
- the action properties `VerdictStands` (`VerdictIsFinal`), `EndedLogsKept`
  (`FinishedLogsKept`) and `RestartSafe` (`RestartOnlyWhenSettled`).

`TypeOK`, `CancelledOnlyAfterFailure`, `RejectedMessageWritesNothing` and
`VerdictIsFinal` are proved only; no run checks them.

The argument. None of the properties is inductive. `VerdictIffSettled`, for one,
needs to know that a build that is still "initialized" has no passed or failed
job (otherwise `pass` and `decline` would be rejected at the end and the build
would stay open), and that a build that is "deploying" has all its regular jobs
passed (otherwise `start_deploy` would be skipped and deploy jobs behind a red
one would neither run nor be cancelled). `IInv` has these two facts
(`UntouchedBuild`, `GateOpened`) beside the properties.

`JobUpdater#perform` passes through states that are not consistent: between the
write of the last job and `finalize_build` all jobs are over and the build is
open. `IInv` is therefore split into `Consistent(tx)`, which every step of the
transaction preserves, and `Closed(tx)`, which only the last step restores. The
lemmas follow the chain: `FirstSteps` and `StartedConsistent` up to `StartBuild`,
`DeployConsistent` for `StartDeploy`, `Verdict` and `FinalConsistent` for
`FinalizeBuild`, `PerformConsistent` for the whole, `FreshRun` for `Init` and
`Restart`. `RegularVerdict` and `MaxStatus` say what the maximum of the statuses
means, from `CHOOSE` and the finiteness of the set of jobs.

`RedForAReason` and `AnnouncedOnce` are the parts of `VerdictTrue` and `OncePerRun` that a
run checks. `ContractImplemented` is the refinement: `Spec => ImplementsContract`. Each
step of the rows is one of `BuildContract` or leaves what it shows alone, and the
steps of `JobUpdater#perform` follow one another within one. The invariant is not enough
for it: that a job which ends moves the contract by one step, and the deploy jobs are
skipped in the same step as the last regular job ends red, needs that no deploy job
waits behind a red run before (`GateClosed`, in `RInv`).

`ProjectBuilds_proofs` proves, for any transactions, branches and configurations:
`NumberingInvariance`, `NumberingTypes` (`TypeOK`, which no run checks), `Contiguity`
(`NumbersContiguous`), `NumberUnshared` (`NumberStaysFree`), `NoEmptyBuild`
(`EveryBuildHasJobs`) and `JobsNumberedApart` (`JobNumbersDistinct`). The invariant
ties a transaction past its lock to the lock, and says that the number it computed
is the one after the last (`NextNumber`); `MaxInSet` and `MaxInterval` say what
`maximum(:number)` is. That a rebuild has jobs needs that what it copies has
(`Configured`), also while it waits for the lock. `LogImplemented` is the refinement:
`Spec => ImplementsLog`. The list of builds is read off the table (`NumberAt` counts the
numbers up to one), and with numbers 1, 2, 3, ... the build in place i has the number i.

`CompanyMembers_proofs` proves, for any companies, requests and kinds of request:
`MembersInvariance`, `MembersTypes` (`TypeOK`), `InvitesHonoured`
(`InviteSpentOnMember`), `RolesKept` (`RoleChangedByAdminOnly`) and `OneDefault`
(`AtMostOneDefault`), for all kinds of request together. The invariant says what an open request has written (`RoleWritten`) and what it knows
(`Known`); for the default, that a request between its two statements holds the
lock of every other row that is not in `added` (`OthersCleared`), which is why what
it read of them does not matter.

`Accounts_proofs` proves, for any users, accounts, addresses, companies, requests and
any bound on invites: `AccountsInvariance`, `SignInAlways` (`UsersCanSignIn`),
`AdminAlways` (`CompanyHasAdmin`), `OneUserEach` (`OneUserPerAccount`) and
`InvitesRepeatable` (`InviteCanBeRepeated`). None is inductive. That a signup makes
the first member an administrator needs that a company which is not committed
has no members (`Founded`) and that its name is claimed once (`NewNames`). That two
users do not share an account needs that a request which found none still finds
none when it inserts, unless another one came in between (`NotYet`, `Noticed`).
That a user without a company has an invite needs that no request which is about
to destroy it was accepted for somebody else (`Supported`, `Joined`, `InviteKept`).
There is a lemma for each part of the invariant, saying what a step of one request
must leave alone to keep it (`StagedKept`, `NewRowsKept`, ...), and one for each
action, which puts them together (`FindKeeps`, `SaveUserKeeps`, ...).

`UserRepos_proofs` proves, for any windows, companies, repositories and names and any bound
on projects and requests: `RepositoriesInvariance`, `RepositoriesTypes` (`TypeOK`),
`SwitchKnowsProject` (`SwitchOfOwnProject`), `NoSecondHook` (`OneHookAtMost`),
`ProjectsHeard` (`ProjectsListen`), and the action properties `MirrorOfService`
(`SyncMirrorsService`) and `ProjectsKept` (`ProjectsAreKept`). All of them are about overlapping
requests, so the invariant says for each open one what the others may have done to it.
`Staged` and `Identified` are what its stage says of the project it works for, `Crossing`
and `Hooked` what the calls so far have left at the service unless another request crossed
them. `Muted` says whose projects are then not heard, and `Listening` is
`ProjectsListen` in a form that survives the stages. `Paired` ties the column of a row to its
project, unless the row is `overtaken`, and says what a request that nobody has overtaken
knows of both (`Informed`): its copy is the row, and the project it found is the only
one. `Syncing` follows the copy a sync works on: what it has reached has the listed
name (`Written`, `Mirrored`), and a row that lost its project had its name taken by a
repository for which a row was made (`Displaced`), but for the rows that others disturbed;
what it has written nobody else writes (`Locking`).

The last part of `JobPipeline_proofs` proves, for any jobs, requests, consumers, restarts and crashes:
`PipelineInvariance`, `PipelineTypes`, `ReportedOutcomes` (`OutcomesReported`) and
`DeployBehindSuccess` (`DeployAfterSuccess`). The rows keep their invariant. `PInv` adds what holds whatever crashes: what a message says
was reported, in this run or before (`AllTold`, `Timely`), and what holds until the first
crash or undone restart, also while a restart is open: a job is with one worker, or has one answer waiting, and is then not settled
(`OneExecution`, `OneAnswer`, `AnswersOfThisRun`). A restart finds all jobs settled, and
so leaves no answer behind: this is why one run cannot report into another, though no
message carries its run (`job_version` is always 1). The proof attempt is
what showed that `OutcomesReported` needed a second restart in its run and an exception
for builds without regular jobs.

`BuildNotifications_proofs` proves, for any builds, branches, users, requests, restarts and
interruptions: `NotificationTypes` (`TypeOK`), `MailedOnce` (`OneMailPerVerdict`),
`StatusShown` (`ServiceShowsStatus`), `OwnRequestOnly` (`AuthorsAreNotResubscribed`) and
`VerdictKnown` (`SubscribersKnowTheVerdict`). Each has an invariant of its own over `Base`,
the types and what the stages of the consumer mean. `Balanced` is an account: mails sent,
notices in the queue and mails still owed are at most the verdicts, the interruptions and
the verdict being committed. `Follows` says that the last notice about a build tells the
state the build is in, or is about to be in again, or was handed to the service.
`Sorted` says that while builds end in order a notice of a verdict finds the builds before
it ended, whence what the consumer compares with (`last_finished`) is the verdict the
subscriber knows. The lemma `Weighed` counts places of a queue that lost its first or got
a last notice; `LeastOf` and `LastOf` find the first and the last such place.

`JobLogs_proofs` proves, for any lines, texts, runs and crashes: `LogInvariance`,
`LinesKept` (`LaterLinesAreKept`) and `RowsFollowed` (`CollectionFollowsRows`). `Numbered` is
the reason for the first: the queue holds the last lines that were sent, and each line
before them is stored or was cut off by a restart or a "started". For the second, `Follows`
is preserved by every step that is not a race (`SteadyAppend`, `SteadyReceive`, ...): a
stored line is owed to the pages as an event until it is published, and so is a
truncation. `Follows` says by places what the events make of a collection (`Becomes`: the
lines after the last truncation) rather than by applying them one after another, because
a proof about the latter is an induction over the events; `BecomesLonger`,
`BecomesEmpty` and `BecomesShorter` are what appending and receiving an event do to it.

`ClientCache_proofs` proves, for any branches, requests, sizes of a page and of the cache
and any number of transactions: `CacheInvariance`, `CacheTypes` (`TypeOK`),
`CacheBounded` (the cache holds no more than its capacity), `ListsInOrder`
(`NewestFirst`) and `ServerFollowed` (`CacheFollowsServer`). Neither property is inductive,
since a list is behind the server most of the time. The invariant compares every copy of
a build (in the cache, in an answer on its way, in an event) with the builds that are in
force (`Live`: the rows and what is being written). A copy that is older has an event to
come (`Fresh`, `Due`); a build that is missing is to be announced, or lies behind the end
of the list (`Complete`, `Announced`, `EndsAbove`). With no transaction open and no event
left, that is `CacheFollowsServer`. For it to survive the next event, the events must be
ordered: versions in the order of the transactions (`EventsInOrder`), new builds in the
order of their numbers (`NewBuildsInOrder`), after an event all later ones about its
build (`EventsFollow`), and a new build always goes on top (`ComesOnTop`). `RequestOK` says
the same of an answer that no event has overtaken (`late`), so a fetch may replace the
value of a key. The proof goes by what can change: one group of lemmas each for the
transactions (`EventsBegun`, `EventsCommitted`, `EventsRolledBack`), the delivery of
an event (`KeptReceived`), the answers (`KeptFetched`, `KeptLonger`, `KeptRestarted`) and
the cut of a list (`KeptTruncated`). A page is described by places: the i-th newest build
is the one with i builds at or above it (`Newest`), and the lemma `Places` says that
each place is taken by one build. `Identity` is what everything rests on: copies with
the same number are of one build, and have the same id, branch and keys.

The attempt showed three things about the model. A page was written with a filter on
sequences, about which nothing can be proved here; it is now the choice of the rows by
place, and TLC finds the same. The identities of keys, transactions and of the value
`None` were left to their names, and are now assumptions (`KeysAssumption`,
`NoneAssumption`). And the view of the run hid where a spoiled list ends, from which the
next page starts; it now shows it.

The assumptions are those the modules name: sets that are finite where the code counts,
bounds that are natural numbers, and that `None`, the value of an empty column or
variable, is no member of the sets it stands beside (`NoneAssumption`). TLC evaluates
them in the runs.

The type invariants (`TypeOK`, `PipelineTypeOK`, `Typed`) of these modules are proved; the
runs leave them to the theorems.

Only model-checked:

- liveness (`EveryRunEnds`, `RebuildEnds`, `RedReachesSubscribers`), which is out of the
  prover's reach;
- `ScreenShowsLog` and the assumption about `LogOutput`: both compare what two folds over
  the characters of a log make of it, which is an induction over data.

## Plan

1. `BuildLifecycle`, `BuildContract`, their proofs, `JobPipeline` (done).
2. `ProjectBuilds`, `BuildLog`, their proofs, `BuildNotifications` (done).
3. `UserRepos`, with requests that overlap, and its proofs (done).
4. `CompanyMembers`, `Accounts` and their proofs (done).
5. `ClientCache` and its proofs (done, for builds).
6. `LogOutput`, `JobLogs` (done).
7. The refinements, and safety of `JobPipeline`, `BuildNotifications`, `UserRepos` and
   `JobLogs`, proved (done).
8. `ClientCache` with its lists described by places, and `NewestFirst` and
   `CacheFollowsServer` proved (done). What is left are the caches of jobs and
   projects, which follow the same pattern.
