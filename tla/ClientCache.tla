----------------------------- MODULE ClientCache -----------------------------
(***************************************************************************)
(* The builds of one project as a browser keeps them: cacheService with    *)
(* the keys of buildModel, filled over HTTP and changed by the events of   *)
(* eventSource, against the rows of the server.                            *)
(*                                                                         *)
(* An event is published inside the transaction that causes it, so it may  *)
(* come before the commit, and there need be no commit.  A fetch is in     *)
(* flight between the reading at the server and the answer; an event about *)
(* a key that is not in the cache is dropped.                              *)
(*                                                                         *)
(* A build is known by its id and its number; everything else that changes *)
(* is a version.  The project's row lock leaves one transaction at a time. *)
(***************************************************************************)
EXTENDS Naturals, FiniteSets, SequencesExt

CONSTANTS
    Branches,
    All,          \* the key all:project
    PageSize,     \* limit(30), and the 30 of truncateBuilds
    Capacity,     \* entries of the LRU cache
    Requests,     \* HTTP requests of the browser
    MaxWrites,    \* bound: transactions that write builds
    Opened,       \* bound: builds whose own page is opened
    None

ASSUME SizesAssumption == {PageSize, Capacity, MaxWrites} \subseteq Nat \ {0}
ASSUME OpenedAssumption == Opened \subseteq 1..MaxWrites
ASSUME KeysAssumption == All \notin Branches /\ Opened \cap ({All} \cup Branches) = {}

VARIABLES
    builds,       \* the committed rows, by number
    writing,      \* the open transaction: what it writes, and whose request it is
    writes,       \* transactions so far: ids and versions
    open,         \* the event stream is open
    events,       \* and what it carries; "void": of a transaction rolled back
    cache,        \* collections and objects by key; an object as a list of one
    requests,     \* HTTP requests in flight
    spoiled       \* keys whose value missed an event, or met one it should not have

vars == <<builds, writing, writes, open, events, cache, requests, spoiled>>

Ids == 1..MaxWrites
Keys == {All} \cup Branches \cup Opened
Lists == {All} \cup Branches

Build == [id: Ids, number: Ids, branch: Branches, version: Ids]
Transaction == [build: Build, by: Requests \cup {None}]

ASSUME NoneAssumption == None \notin Requests /\ None \notin Transaction

\* The keys an event is about.
Concerns(build) == {All, build.branch, build.id} \cap Keys

Committed(id) == \E i \in DOMAIN builds : builds[i].id = id

-----------------------------------------------------------------------------
(* The server *)

\* order 'number DESC': which row comes in which place.
Newest(found, i) == CHOOSE n \in found : Cardinality({m \in found : m >= n}) = i

\* and limit(30)
Limited(found) ==
    [i \in 1..(IF Cardinality(found) < PageSize THEN Cardinality(found) ELSE PageSize) |->
        builds[Newest(found, i)]]

\* Variant: `number <= ?`
PageFromInclusive(key, from) ==
    Limited({n \in DOMAIN builds : n <= from /\ key \in Concerns(builds[n])})

\* Api::BuildsController#index with from_number, and #show.
Page(key, from) ==
    Limited({n \in DOMAIN builds : n < from /\ key \in Concerns(builds[n])})

FirstPage == MaxWrites + 1

\* The rows do not have the build that was created, or have it before it was updated.
Outdates(build, data) ==
    IF build.version = build.id THEN \A i \in DOMAIN data : data[i].id # build.id
    ELSE \E i \in DOMAIN data : data[i].id = build.id /\ data[i].version < build.version

\* What a request asks for has changed since the server read it.
Overtakes(build, request) ==
    /\ request # None
    /\ request.stage = "read"
    /\ request.key \in Concerns(build)
    /\ build.number < request.from
    /\ Outdates(build, request.data)

\* What happens to the requests in flight when the event about a build is gone.
Missed(build) ==
    [r \in Requests |-> IF Overtakes(build, requests[r])
                        THEN [requests[r] EXCEPT !.late = TRUE] ELSE requests[r]]

\* after_create, after_transition, Build#restart: the event leaves before the commit.
\* Nobody listens before the stream is open.
Publish(kind, build) ==
    IF open THEN /\ events' = Append(events, [kind |-> kind, build |-> build, void |-> FALSE])
                 /\ UNCHANGED <<requests, spoiled>>
    ELSE /\ requests' = Missed(build)
         /\ spoiled' = spoiled \cup Concerns(build)
         /\ UNCHANGED events

\* PerformBuild#process, Build#rebuild: assign_number and save.
CreateBuild(branch) ==
    LET build == [id |-> writes + 1, number |-> Len(builds) + 1, branch |-> branch,
                  version |-> writes + 1] IN
    /\ writing = None
    /\ writes < MaxWrites
    /\ writes' = writes + 1
    /\ writing' = [build |-> build, by |-> None]
    /\ Publish("created", build)
    /\ UNCHANGED <<builds, open, cache>>

\* JobUpdater changes the state of a build (by = None), or Build#restart does.  Of two
\* states in one transaction only the last is followed.
WriteBuild(number, by) ==
    LET build == [builds[number] EXCEPT !.version = writes + 1] IN
    /\ writing = None
    /\ writes < MaxWrites
    /\ writes' = writes + 1
    /\ writing' = [build |-> build, by |-> by]
    /\ Publish("updated", build)
    /\ UNCHANGED <<builds, open, cache>>

UpdateBuild(number) == WriteBuild(number, None)

RestartAsked(r) ==
    requests[r] # None /\ requests[r].op = "restart" /\ requests[r].stage = "asked"

\* Api::BuildsController#restart
ServeRestart(r) ==
    /\ RestartAsked(r)
    /\ \E number \in DOMAIN builds :
          builds[number].id = requests[r].key /\ WriteBuild(number, r)

\* head 422: the build is not finished.
RefuseRestart(r) ==
    /\ RestartAsked(r)
    /\ writing # None => writing.by # r
    /\ requests' = [requests EXCEPT ![r] = None]
    /\ UNCHANGED <<builds, writing, writes, open, events, cache, spoiled>>

\* A restart is answered with the row it wrote.
Commit ==
    /\ writing # None
    /\ builds' = [i \in 1..(IF writing.build.number > Len(builds) THEN Len(builds) + 1
                            ELSE Len(builds)) |->
                    IF i = writing.build.number THEN writing.build ELSE builds[i]]
    /\ writing' = None
    /\ requests' = [r \in Requests |->
                      IF r = writing.by /\ requests[r] # None
                      THEN [requests[r] EXCEPT !.stage = "read", !.data = <<writing.build>>]
                      ELSE requests[r]]
    /\ UNCHANGED <<writes, open, events, cache, spoiled>>

\* A build without jobs, a failure: the event was sent all the same.
Rollback ==
    LET sent == {i \in DOMAIN events : events[i].build = writing.build} IN
    /\ writing # None
    /\ events' = [i \in DOMAIN events |-> [events[i] EXCEPT !.void = @ \/ i \in sent]]
    /\ spoiled' = IF sent = {} THEN spoiled \cup Concerns(writing.build) ELSE spoiled
    /\ requests' = [r \in Requests |-> IF r = writing.by THEN None ELSE requests[r]]
    /\ writing' = None
    /\ UNCHANGED <<builds, writes, open, cache>>

\* The server reads the rows for a request.  A row that is missing is a 404.
Read(r) ==
    LET data == Page(requests[r].key, requests[r].from)
        \* Its event was dropped, and its rows are not to be seen yet.
        uncommitted == /\ writing # None
                       /\ requests[r].key \in Concerns(writing.build)
                       /\ writing.build.number < requests[r].from
                       /\ Outdates(writing.build, data)
                       /\ \A i \in DOMAIN events : events[i].build # writing.build
    IN
    /\ requests[r] # None
    /\ requests[r].op # "restart"
    /\ requests[r].stage = "asked"
    /\ requests' = [requests EXCEPT ![r] =
                      IF requests[r].key \in Opened /\ data = <<>> THEN None
                      ELSE [@ EXCEPT !.stage = "read", !.data = data, !.late = uncommitted]]
    /\ UNCHANGED <<builds, writing, writes, open, events, cache, spoiled>>

-----------------------------------------------------------------------------
(* The browser: eventSource *)

\* onopen, and the subscription to the company's channel.
OpenStream ==
    /\ ~open
    /\ open' = TRUE
    /\ UNCHANGED <<builds, writing, writes, events, cache, requests, spoiled>>

Cached(key) == cache[key] # None

\* updateAll, updateOne
Replace(list, build) ==
    [i \in DOMAIN list |-> IF list[i].id = build.id THEN build ELSE list[i]]

\* Variant: "build:created" without the key of the branch.
AppliedToAllOnly(event) ==
    [key \in Keys |->
        CASE ~Cached(key) \/ key \notin Concerns(event.build) -> cache[key]
          [] OTHER -> IF event.kind = "updated" THEN Replace(cache[key], event.build)
                      ELSE IF key = All THEN <<event.build>> \o cache[key]
                      ELSE cache[key]]

\* The handlers of buildModel: unshift in two lists, or updateAll in them and
\* updateOne.
Applied(event) ==
    [key \in Keys |->
        CASE ~Cached(key) \/ key \notin Concerns(event.build) -> cache[key]
          [] OTHER -> IF event.kind = "updated" THEN Replace(cache[key], event.build)
                      ELSE IF key \in Lists THEN <<event.build>> \o cache[key]
                      ELSE cache[key]]

Receive ==
    /\ events # <<>>
    /\ cache' = Applied(Head(events))
    /\ requests' = Missed(Head(events).build)
    /\ spoiled' = IF Head(events).void THEN spoiled \cup Concerns(Head(events).build)
                  ELSE spoiled
    /\ events' = Tail(events)
    /\ UNCHANGED <<builds, writing, writes, open>>

-----------------------------------------------------------------------------
(* The browser: cacheService and buildModel *)

Ask(r, op, key, from) ==
    /\ requests[r] = None
    /\ requests' = [requests EXCEPT ![r] = [op |-> op, key |-> key, from |-> from,
                                            stage |-> "asked", data |-> <<>>,
                                            late |-> FALSE]]
    /\ UNCHANGED <<builds, writing, writes, open, events, cache, spoiled>>

\* fetch, not in the cache; a second one for the same key goes out as well.
Fetch(r, key) == ~Cached(key) /\ (key \in Opened => key <= writes) /\ Ask(r, "fetch", key, FirstPage)

\* loadBuilds of BuildsCtrl for a list in the cache: truncateBuilds.
ShowList(key) ==
    /\ Cached(key)
    /\ Len(cache[key]) > PageSize
    /\ cache' = [cache EXCEPT ![key] = SubSeq(@, 1, PageSize)]
    /\ UNCHANGED <<builds, writing, writes, open, events, requests, spoiled>>

\* loadMore, of a list that is shown.
LoadMore(r, key) ==
    /\ Cached(key)
    /\ cache[key] # <<>>
    /\ Ask(r, "more", key, Last(cache[key]).number)

Restart(r, id) == Committed(id) /\ Ask(r, "restart", id, FirstPage)

\* cache.put; a full cache drops an entry (the stalest, here any).
Put(key, data) ==
    IF Cached(key) \/ Cardinality({k \in Keys : Cached(k)}) < Capacity
    THEN cache' = [cache EXCEPT ![key] = data]
    ELSE \E dropped \in {k \in Keys : Cached(k)} :
            cache' = [cache EXCEPT ![dropped] = None, ![key] = data]

Answered(r, op) ==
    /\ requests[r] # None
    /\ requests[r].op = op
    /\ requests[r].stage = "read"
    /\ requests' = [requests EXCEPT ![r] = None]
    /\ UNCHANGED <<builds, writing, writes, open, events>>

\* Spoiled if it missed an event, or an event will bring a build that is there.
AnswerFetch(r) ==
    LET key == requests[r].key
        data == requests[r].data
        twice == \E i \in DOMAIN events, j \in DOMAIN data :
                    events[i].kind = "created" /\ events[i].build.id = data[j].id
    IN
    /\ Answered(r, "fetch")
    /\ Put(key, data)
    /\ spoiled' = IF requests[r].late \/ (key \in Lists /\ twice) THEN spoiled \cup {key}
                  ELSE spoiled \ {key}

\* The page is pushed to the list of all builds whatever it is a page of.  It
\* fits if the list still ends where it ended.
AnswerMore(r) ==
    LET key == requests[r].key
        misfits(k) == \/ k # key
                      \/ requests[r].late
                      \/ Last(cache[k]).number # requests[r].from
    IN
    /\ Answered(r, "more")
    /\ Cached(key) => cache[key] # <<>>
    /\ cache' = [k \in Keys |-> IF k \in {All, key} /\ Cached(k)
                                THEN cache[k] \o requests[r].data ELSE cache[k]]
    /\ spoiled' = spoiled \cup {k \in {All, key} : Cached(k) /\ misfits(k)}

\* updateAll is given build.projectId, which a build does not have, and updates
\* no list; updateOne does, to an older version if events were faster.
AnswerRestart(r) ==
    LET key == requests[r].key
        build == Head(requests[r].data)
        older == Cached(key) /\ \E i \in DOMAIN cache[key] : cache[key][i].version > build.version
    IN
    /\ Answered(r, "restart")
    /\ cache' = [cache EXCEPT ![key] = IF Cached(key) THEN Replace(@, build) ELSE None]
    /\ spoiled' = IF older THEN spoiled \cup {key} ELSE spoiled

-----------------------------------------------------------------------------
Init ==
    /\ builds = <<>>
    /\ writing = None
    /\ writes = 0
    /\ open = FALSE
    /\ events = <<>>
    /\ cache = [key \in Keys |-> None]
    /\ requests = [r \in Requests |-> None]
    /\ spoiled = {}

Server ==
    \/ \E b \in Branches : CreateBuild(b)
    \/ \E n \in DOMAIN builds : UpdateBuild(n)
    \/ Commit \/ Rollback
    \/ \E r \in Requests : ServeRestart(r) \/ RefuseRestart(r) \/ Read(r)

Browser ==
    \/ OpenStream \/ Receive
    \/ \E key \in Lists : ShowList(key)
    \/ \E r \in Requests :
          \/ \E key \in Keys : Fetch(r, key)
          \/ \E key \in Lists : LoadMore(r, key)
          \/ \E id \in Opened : Restart(r, id)
          \/ AnswerFetch(r) \/ AnswerMore(r) \/ AnswerRestart(r)

Next == Server \/ Browser

Spec == Init /\ [][Next]_vars

-----------------------------------------------------------------------------
Event == [kind: {"created", "updated"}, build: Build, void: BOOLEAN]

Request == [op: {"fetch", "more", "restart"}, key: Keys, from: 1..FirstPage,
            stage: {"asked", "read"}, data: Seq(Build), late: BOOLEAN]

TypeOK ==
    /\ builds \in Seq(Build)
    /\ writing \in Transaction \cup {None}
    /\ writes \in 0..MaxWrites
    /\ open \in BOOLEAN
    /\ events \in Seq(Event)
    /\ cache \in [Keys -> Seq(Build) \cup {None}]
    /\ requests \in [Requests -> Request \cup {None}]
    /\ spoiled \subseteq Keys

InOrder(list) == \A i, j \in DOMAIN list : i < j => list[i].number > list[j].number

\* A list shows the newest build first and each build once, also while events and
\* pages arrive, unless one of the races named in `spoiled` happened to it.
NewestFirst == \A k \in Lists \ spoiled : Cached(k) => InOrder(cache[k])

IsQuiet == writing = None /\ events = <<>>

Has(list, number) == \E i \in DOMAIN list : list[i].number = number

\* The list has a page, and goes down to a newer build only.
EndsAbove(list, number) ==
    /\ Len(list) >= PageSize
    /\ \A i \in DOMAIN list : list[i].number > number

\* Once the events are delivered, what a browser keeps is what the server would
\* answer: its rows as they are, in order, and all of them, down to the last or to
\* where a page was cut off, whatever was evicted, truncated and loaded meanwhile.
\* The exceptions are the keys that are spoiled, by a race of an event with an
\* answer, a rollback, or a page of another list.
CacheFollowsServer ==
    IsQuiet =>
    \A k \in Keys \ spoiled : Cached(k) =>
        /\ InOrder(cache[k])
        /\ \A i \in DOMAIN cache[k] :
              LET build == cache[k][i] IN
              build.number \in DOMAIN builds /\ build = builds[build.number]
        /\ \A n \in DOMAIN builds : k \in Concerns(builds[n]) =>
              Has(cache[k], n) \/ EndsAbove(cache[k], n)
=============================================================================
