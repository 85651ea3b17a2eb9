------------------------------ MODULE UserRepos ------------------------------
(***************************************************************************)
(* The repositories of one user at one code hosting service (an identity), *)
(* the rows that mirror them in each company (UserRepo, User#sync_repos),  *)
(* and the projects, web hooks and deploy keys that subscribing makes.     *)
(*                                                                         *)
(* Requests overlap: of two windows or two companies, and a request of one *)
(* kind with one of another.  Each is a transaction at READ COMMITTED; what*)
(* keeps two of them apart is the lock of a row that one has written, and  *)
(* unique indexes.  No index and no foreign key ties a project to its row. *)
(*                                                                         *)
(* Hooks and keys are changed by calls to the service from inside the      *)
(* transaction.  A call that raises rolls the rows back; what the earlier  *)
(* calls did at the service stays.  Hooks and keys carry the number of the *)
(* project: its token and its key are unique.                              *)
(***************************************************************************)
EXTENDS Naturals, FiniteSets

CONSTANTS
    Windows,      \* who sends requests, one at a time each
    Companies,
    Repos,        \* external ids at the service
    Names,        \* full names
    MaxProjects,  \* bound: projects that are ever created
    MaxRequests,  \* bound: requests that are ever sent
    None

ASSUME BoundAssumption == MaxProjects \in Nat /\ MaxRequests \in Nat

VARIABLES
    service,   \* the name of each repository; "unborn", or "gone" for ever
    hooks,     \* at the service: projects whose hook the repository has
    keys,      \* and whose deploy key
    rows,      \* user_repos, by company and external id
    projects,  \* the projects
    request,   \* the open request of UserRepo#subscribe or #unsubscribe, by window
    sync,      \* the open request of User#sync_repos, by window
    created,   \* number of projects created
    sent,      \* number of requests sent
    identity,  \* none, or its version of the service is supported, or ignored
    deaf,      \* rows whose project may have lost its hook: calls raised half-way
               \* or crossed, or another company replaced it
    doubled,   \* repositories that got a hook from calls that crossed others
    overtaken  \* rows that an overtaken request has changed last

serviceVars == <<service, hooks, keys>>
tables == <<rows, projects>>
marks == <<deaf, doubled, overtaken>>
vars == <<serviceVars, tables, request, sync, created, sent, identity, marks>>

Row == [name: Names, subscribed: BOOLEAN]
Projects == [id: 1..MaxProjects, name: Names, company: Companies, repo: Repos \cup {None}]

Stages == {"loaded", "saved", "unhooked", "unkeyed", "hooked", "done"}

Requests ==
    [op: {"subscribe", "unsubscribe"}, company: Companies, repo: Repos,
     copy: Row,                         \* the row as it was loaded
     stage: Stages,
     project: Projects \cup {None},
     fresh: BOOLEAN,                    \* it has created the project
     gone: BOOLEAN,                     \* its row is destroyed
     overtaken: BOOLEAN,                \* another request has changed the row since
     crossed: BOOLEAN]                  \* calls of another request crossed its own

Syncs ==
    [company: Companies, listed: UNION {[L -> Names] : L \in SUBSET Repos},
     pending: SUBSET Repos,
     written: SUBSET Repos, table: [Repos -> Row \cup {None}],  \* its rows so far
     current: Repos \cup {None},         \* gets a new row when its victim is destroyed
     victim: [repo: Repos, project: Projects \cup {None}] \cup {None},
     destroyed: SUBSET Repos, doomed: SUBSET Projects,
     disturbed: SUBSET Repos]           \* rows that others have changed since

ASSUME NoneAssumption ==
    None \notin Names \cup Repos \cup Projects \cup Row \cup Requests \cup Syncs
                  \cup [repo: Repos, project: Projects \cup {None}]
ASSUME NamesAssumption == Names \cap {"unborn", "gone"} = {}

RowsOf(c) == {e \in Repos : rows[c][e] # None}
ProjectsOf(c, e) == {p \in projects : p.company = c /\ p.repo = e}

Listed == {e \in Repos : service[e] \in Names}

Send(w) ==
    /\ request[w] = None /\ sync[w] = None
    /\ sent < MaxRequests
    /\ sent' = sent + 1

-----------------------------------------------------------------------------
(* Subscribing *)

Wanted(r) == r.op = "subscribe"

\* update_attribute writes if the loaded row has another value.
Changes(r) == ~r.gone /\ r.copy.subscribed # Wanted(r)

For(r, c, e) == r # None /\ r.company = c /\ r.repo = e

\* Another transaction has written the row and is open.
Locked(w, c, e) ==
    \E v \in Windows \ {w} :
        \/ For(request[v], c, e) /\ request[v].stage # "loaded" /\ Changes(request[v])
        \/ sync[v] # None /\ sync[v].company = c /\ e \in sync[v].written

At(w, stage) == request[w] # None /\ request[w].stage = stage

\* The controller loads the row.  An ignored identity subscribes nothing.
Begin(w, c, e, op) ==
    /\ Send(w)
    /\ e \in RowsOf(c)
    /\ op = "subscribe" => identity = "supported"
    /\ request' = [request EXCEPT ![w] =
                      [op |-> op, company |-> c, repo |-> e, copy |-> rows[c][e],
                       stage |-> "loaded", project |-> None, fresh |-> FALSE,
                       gone |-> FALSE, overtaken |-> FALSE, crossed |-> FALSE]]
    /\ UNCHANGED <<serviceVars, tables, sync, created, identity, marks>>

\* update_attribute, and the project that is found or created after it.
Save(w, stage, project, fresh) ==
    /\ At(w, "loaded")
    /\ Changes(request[w]) => ~Locked(w, request[w].company, request[w].repo)
    /\ request' = [request EXCEPT
                      ![w].stage = stage, ![w].project = project, ![w].fresh = fresh,
                      ![w].overtaken = IF Changes(request[w]) THEN FALSE ELSE @]
    /\ UNCHANGED <<serviceVars, tables, sync, sent, identity, marks>>

\* The projects that has_one may find.
Found(r) == IF r.gone THEN {} ELSE ProjectsOf(r.company, r.repo)

FindProject(w) ==
    /\ request[w] # None
    /\ \E p \in Found(request[w]) :
          Save(w, IF ~Wanted(request[w]) /\ identity = "ignored" THEN "done" ELSE "saved",
               p, FALSE)
    /\ UNCHANGED created

FindNoProject(w) ==
    /\ request[w] # None
    /\ Found(request[w]) = {} /\ ~Wanted(request[w])
    /\ Save(w, "done", None, FALSE)
    /\ UNCHANGED created

\* The validation of Project and the unique index on (company_id, name), where
\* another transaction may have its entry.  With a name that is taken the request
\* is rolled back.
ProjectNameIsFree(c, n) ==
    /\ \A p \in projects : p.company = c => p.name # n
    /\ \A v \in Windows : request[v] # None /\ request[v].fresh /\ request[v].company = c
                          => request[v].project.name # n

CreateProject(w) ==
    /\ request[w] # None
    /\ Found(request[w]) = {} /\ Wanted(request[w])
    /\ ProjectNameIsFree(request[w].company, request[w].copy.name)
    /\ created < MaxProjects
    /\ created' = created + 1
    /\ Save(w, "saved", [id |-> created + 1, name |-> request[w].copy.name,
                         company |-> request[w].company, repo |-> request[w].repo], TRUE)

Calling(r, e) == r # None /\ r.repo = e /\ r.stage \in {"unhooked", "unkeyed", "hooked"}
Called(r, e) == r # None /\ r.repo = e /\ r.stage \notin {"loaded", "saved"}

\* The requests when the hooks of the repositories E are destroyed.
Cross(E) ==
    [v \in Windows |-> IF \E e \in E : Called(request[v], e)
                       THEN [request[v] EXCEPT !.crossed = TRUE] ELSE request[v]]

Call(w, stage, next) ==
    /\ At(w, stage)
    /\ service[request[w].repo] \in Names
    /\ request' = [request EXCEPT ![w].stage = next]
    /\ UNCHANGED <<service, tables, sync, created, sent, identity, overtaken>>

\* Variant: subscribe without unsubscribe_project.
DestroyHooksOfUnsubscribe(w) ==
    /\ Call(w, "saved", "unhooked")
    /\ hooks' = IF Wanted(request[w]) THEN hooks ELSE [hooks EXCEPT ![request[w].repo] = {}]
    /\ UNCHANGED <<keys, deaf, doubled>>

\* unsubscribe_project: the hooks for this host, those of the projects of other
\* companies as well.  Without its row a project has no model of the repository:
\* the call raises.
DestroyHooks(w) ==
    LET e == request[w].repo
    IN  /\ At(w, "saved")
        /\ service[e] \in Names
        /\ ~request[w].gone
        /\ hooks' = [hooks EXCEPT ![e] = {}]
        /\ request' = [Cross({e}) EXCEPT
                          ![w].stage = "unhooked",
                          ![w].crossed = \E v \in Windows : Calling(request[v], e)]
        /\ deaf' = deaf \cup {<<c, e>> : c \in Companies \ {request[w].company}}
        /\ doubled' = doubled \ {e}
        /\ UNCHANGED <<service, keys, tables, sync, created, sent, identity, overtaken>>

\* unsubscribe_project: the deploy keys of this name.
DestroyKeys(w) ==
    /\ Call(w, "unhooked", IF Wanted(request[w]) THEN "unkeyed" ELSE "done")
    /\ keys' = [keys EXCEPT ![request[w].repo] = {}]
    /\ UNCHANGED <<hooks, deaf, doubled>>

\* subscribe_project
CreateHook(w) ==
    LET e == request[w].repo
    IN  /\ Call(w, "unkeyed", "hooked")
        /\ hooks' = [hooks EXCEPT ![e] = @ \cup {request[w].project.id}]
        /\ doubled' = IF request[w].crossed THEN doubled \cup {e} ELSE doubled
        /\ UNCHANGED <<keys, deaf>>

CreateKey(w) ==
    /\ Call(w, "hooked", "done")
    /\ keys' = [keys EXCEPT ![request[w].repo] = @ \cup {request[w].project.id}]
    /\ UNCHANGED <<hooks, deaf, doubled>>

\* Variant: a call that raises is ignored.
FailIgnored(w) ==
    /\ request[w] # None
    /\ request' = [request EXCEPT ![w].stage = "done"]
    /\ UNCHANGED <<serviceVars, tables, sync, created, sent, identity, marks>>

\* A call raises, a name is taken, two transactions wait for one another, or the
\* process dies: the transaction is rolled back.
Fail(w) ==
    /\ request[w] # None
    /\ request' = [request EXCEPT ![w] = None]
    /\ deaf' = IF Called(request[w], request[w].repo)
               THEN deaf \cup {<<request[w].company, request[w].repo>>} ELSE deaf
    /\ UNCHANGED <<serviceVars, tables, sync, created, sent, identity, doubled, overtaken>>

\* The projects that are left when those of P are destroyed.
Without(P) == {q \in projects : \A p \in P : q.id # p.id}

\* Variant: the project is left to the next sync.
AfterCommitKept(r) ==
    IF r.fresh THEN projects \cup {[r.project EXCEPT !.repo = IF r.gone THEN None ELSE @]}
    ELSE projects

\* The projects after the commit; unsubscribe destroys the one it found.
AfterCommit(r) ==
    IF r.fresh THEN projects \cup {[r.project EXCEPT !.repo = IF r.gone THEN None ELSE @]}
    ELSE IF Wanted(r) \/ r.project = None THEN projects
    ELSE Without({r.project})

Commit(w) ==
    LET r == request[w]
        row == <<r.company, r.repo>>
    IN  /\ At(w, "done")
        /\ rows' = IF Changes(r) THEN [rows EXCEPT ![r.company][r.repo].subscribed = Wanted(r)]
                   ELSE rows
        /\ projects' = AfterCommit(r)
        /\ request' = [v \in Windows |->
                          IF v = w THEN None
                          ELSE IF /\ For(request[v], r.company, r.repo)
                                  /\ Changes(r) \/ AfterCommit(r) # projects
                          THEN [request[v] EXCEPT !.overtaken = TRUE] ELSE request[v]]
        /\ sync' = [v \in Windows |->
                       IF sync[v] # None /\ sync[v].company = r.company
                       THEN [sync[v] EXCEPT !.disturbed = @ \cup {r.repo}] ELSE sync[v]]
        /\ deaf' = IF r.crossed THEN deaf \cup {row}
                   ELSE IF Wanted(r) /\ ~r.gone THEN deaf \ {row} ELSE deaf
        /\ overtaken' = IF r.gone THEN overtaken
                        ELSE IF r.overtaken THEN overtaken \cup {row}
                        ELSE IF \A p, q \in ProjectsOf(r.company, r.repo) : p = q
                        THEN overtaken \ {row} ELSE overtaken
        /\ UNCHANGED <<serviceVars, created, sent, identity, doubled>>

-----------------------------------------------------------------------------
(* User#sync_repos: a transaction that asks for the list once, stores the   *)
(* repositories one after another and then removes rows.                    *)

BeginSync(w, c) ==
    /\ Send(w)
    /\ identity = "supported"
    /\ sync' = [sync EXCEPT ![w] =
                   [company |-> c, listed |-> [e \in Listed |-> service[e]],
                    pending |-> Repos, written |-> {}, table |-> [e \in Repos |-> None], current |-> None,
                    victim |-> None, destroyed |-> {}, doomed |-> {}, disturbed |-> {}]]
    /\ UNCHANGED <<serviceVars, tables, request, created, identity, marks>>

\* The row as the transaction sees it.
View(s, e) == IF e \in s.written THEN s.table[e] ELSE rows[s.company][e]

\* The next one may be e, which is in progress already if it is current.
Storing(w, e, current) ==
    /\ sync[w] # None
    /\ sync[w].victim = None
    /\ e \in sync[w].pending
    /\ sync[w].current = current

Step(w, s) ==
    /\ sync' = [sync EXCEPT ![w] = s]
    /\ UNCHANGED <<serviceVars, tables, request, created, sent, identity, marks>>

Stored(w, e, row) ==
    [sync[w] EXCEPT !.pending = @ \ {e}, !.current = None,
                    !.written = @ \cup {e}, !.table[e] = row]

\* Another row of the transaction has the name that is listed for e.
HasNameOf(s, d, e) ==
    d # e /\ View(s, d) # None /\ View(s, d).name = s.listed[e]

\* The unique index on names lets the row be written.
NameTaken(w, e) ==
    \/ \E d \in Repos : HasNameOf(sync[w], d, e)
    \/ \E v \in Windows \ {w} :
          /\ sync[v] # None /\ sync[v].company = sync[w].company
          /\ \E d \in sync[v].written :
                sync[v].table[d] # None /\ sync[v].table[d].name = sync[w].listed[e]

\* find_or_create_by_sc of a repository that has no row, another row having its
\* name: that one is loaded, with its project, and destroyed.
LoadDuplicate(w, e, d) ==
    /\ Storing(w, e, None) /\ e \in DOMAIN sync[w].listed
    /\ View(sync[w], e) = None
    /\ HasNameOf(sync[w], d, e)
    /\ \E p \in IF ProjectsOf(sync[w].company, d) = {} THEN {None}
                ELSE ProjectsOf(sync[w].company, d) :
          Step(w, [sync[w] EXCEPT !.current = e, !.victim = [repo |-> d, project |-> p]])

DestroyVictim(w) ==
    /\ sync[w] # None
    /\ sync[w].victim # None
    /\ ~Locked(w, sync[w].company, sync[w].victim.repo)
    /\ LET d == sync[w].victim.repo
           p == sync[w].victim.project
       IN  Step(w, [sync[w] EXCEPT
                       !.victim = None, !.destroyed = @ \cup {d},
                       !.doomed = IF p = None THEN @ ELSE @ \cup {p},
                       !.written = @ \cup {d}, !.table[d] = None])

CreateRow(w, e) ==
    /\ Storing(w, e, None) \/ Storing(w, e, e)
    /\ e \in DOMAIN sync[w].listed
    /\ View(sync[w], e) = None
    /\ ~NameTaken(w, e) /\ ~Locked(w, sync[w].company, e)
    /\ Step(w, Stored(w, e, [name |-> sync[w].listed[e], subscribed |-> FALSE]))

\* Variant: the name of an existing row is left as it is.
UpdateRowKeepsName(w, e) ==
    /\ Storing(w, e, None) /\ e \in DOMAIN sync[w].listed
    /\ View(sync[w], e) # None
    /\ Step(w, [sync[w] EXCEPT !.pending = @ \ {e}])

\* ... of one that has a row: the row takes over the name, against the unique
\* index on names.
UpdateRow(w, e) ==
    /\ Storing(w, e, None) /\ e \in DOMAIN sync[w].listed
    /\ \/ /\ View(sync[w], e) # None
          /\ View(sync[w], e).name = sync[w].listed[e]
          /\ Step(w, [sync[w] EXCEPT !.pending = @ \ {e}])
       \/ /\ View(sync[w], e) # None
          /\ View(sync[w], e).name # sync[w].listed[e]
          /\ ~NameTaken(w, e) /\ ~Locked(w, sync[w].company, e)
          /\ Step(w, Stored(w, e, [View(sync[w], e) EXCEPT !.name = sync[w].listed[e]]))
       \/ /\ View(sync[w], e) = None     \* destroyed since it was loaded
          /\ e \in sync[w].disturbed
          /\ Step(w, [sync[w] EXCEPT !.pending = @ \ {e}])

\* Variant: rows are removed whether they have a project or not.
PruneAll(w, e) ==
    /\ Storing(w, e, None) /\ sync[w].pending \cap DOMAIN sync[w].listed = {}
    /\ Step(w, [sync[w] EXCEPT
                   !.pending = @ \ {e},
                   !.victim = IF View(sync[w], e) = None THEN None
                              ELSE [repo |-> e, project |-> None]])

\* Rows the service did not list are destroyed unless they have a project.
Prune(w, e) ==
    /\ Storing(w, e, None) /\ sync[w].pending \cap DOMAIN sync[w].listed = {}
    /\ Step(w, [sync[w] EXCEPT
                   !.pending = @ \ {e},
                   !.victim = IF View(sync[w], e) = None \/ ProjectsOf(sync[w].company, e) # {}
                              THEN None ELSE [repo |-> e, project |-> None]])

\* A project keeps the key of a row that is destroyed without it.
Orphaned(ps, c, E) ==
    {IF p.company = c /\ p.repo \in E THEN [p EXCEPT !.repo = None] ELSE p : p \in ps}

CommitSync(w) ==
    LET s == sync[w]
        c == s.company
    IN  /\ s # None
        /\ s.pending = {} /\ s.victim = None
        /\ rows' = [rows EXCEPT ![c] = [e \in Repos |-> View(s, e)]]
        /\ projects' = Orphaned(Without(s.doomed), c, s.destroyed)
        /\ request' = [v \in Windows |->
                          IF \E e \in s.destroyed : For(request[v], c, e)
                          THEN [request[v] EXCEPT !.gone = TRUE] ELSE request[v]]
        /\ sync' = [v \in Windows |->
                       IF v = w THEN None
                       ELSE IF sync[v] # None /\ sync[v].company = c
                       THEN [sync[v] EXCEPT !.disturbed = @ \cup s.written]
                       ELSE sync[v]]
        /\ overtaken' = overtaken \ ({c} \X s.destroyed)
        /\ UNCHANGED <<serviceVars, created, sent, identity, deaf, doubled>>

\* A name is taken, another call raises, or the process dies: rolled back.
FailSync(w) ==
    /\ sync[w] # None
    /\ Step(w, None)

-----------------------------------------------------------------------------
(* The identity *)

ReposWithProject == {e \in Repos : \E c \in Companies : ProjectsOf(c, e) # {}}

\* UserIdentity#unsubscribe_and_destroy, when every call succeeds; of each row it
\* destroys the project that it finds.  What an open sync writes from now on is of
\* an identity that nobody has: it ends here.
DestroyIdentity ==
    /\ identity # "none"
    /\ ReposWithProject # {} => identity = "supported"
    /\ ReposWithProject \subseteq Listed
    /\ \A c \in Companies : \A e \in RowsOf(c), w \in Windows : ~Locked(w, c, e)
    /\ identity' = "none"
    /\ hooks' = [e \in Repos |-> IF e \in ReposWithProject THEN {} ELSE hooks[e]]
    /\ keys' = [e \in Repos |-> IF e \in ReposWithProject THEN {} ELSE keys[e]]
    /\ rows' = [c \in Companies |-> [e \in Repos |-> None]]
    /\ \E D \in SUBSET projects :
          /\ \A c \in Companies, e \in Repos :
                ProjectsOf(c, e) # {} => Cardinality(D \cap ProjectsOf(c, e)) = 1
          /\ projects' = {[p EXCEPT !.repo = None] : p \in projects \ D}
    /\ request' = [v \in Windows |-> IF request[v] = None THEN None
                                     ELSE [Cross(ReposWithProject)[v] EXCEPT !.gone = TRUE]]
    /\ sync' = [v \in Windows |-> None]
    /\ UNCHANGED <<service, created, sent, marks>>

\* A call for e raises after those for some of the others succeeded.
DestroyIdentityFails(e, unsubscribed) ==
    /\ identity = "supported"
    /\ e \in ReposWithProject
    /\ unsubscribed \subseteq ReposWithProject \cap Listed
    /\ hooks' = [d \in Repos |-> IF d \in unsubscribed THEN {} ELSE hooks[d]]
    /\ keys' = [d \in Repos |-> IF d \in unsubscribed \ {e} THEN {} ELSE keys[d]]
    /\ deaf' = deaf \cup (Companies \X unsubscribed)
    /\ request' = Cross(unsubscribed)
    /\ UNCHANGED <<service, tables, sync, created, sent, identity, doubled, overtaken>>

\* UserSession::Gitlab#create_identity and #update_identity: authenticate and
\* gitlab_version ask the service, whose version is supported or not.
SaveIdentity ==
    /\ identity' \in {"supported", "ignored"} \ {identity}
    /\ UNCHANGED <<serviceVars, tables, request, sync, created, sent, marks>>

-----------------------------------------------------------------------------
(* The service (external) *)

NameFree(n) == \A d \in Repos : service[d] # n

RenameRepo(e, n) ==
    /\ e \in Listed \/ service[e] = "unborn"
    /\ NameFree(n)
    /\ service' = [service EXCEPT ![e] = n]
    /\ UNCHANGED <<hooks, keys, tables, request, sync, created, sent, identity, marks>>

RemoveRepo(e) ==
    /\ e \in Listed
    /\ service' = [service EXCEPT ![e] = "gone"]
    /\ hooks' = [hooks EXCEPT ![e] = {}]
    /\ keys' = [keys EXCEPT ![e] = {}]
    /\ UNCHANGED <<tables, request, sync, created, sent, identity, marks>>

-----------------------------------------------------------------------------
\* The user has signed in with the service; some companies have synced since.
Init ==
    /\ service \in [Repos -> Names \cup {"unborn"}]
    /\ \A d, e \in Listed : service[d] = service[e] => d = e
    /\ hooks = [e \in Repos |-> {}]
    /\ keys = [e \in Repos |-> {}]
    /\ \E S \in SUBSET Companies :
          rows = [c \in Companies |-> [e \in Repos |->
                     IF c \in S /\ e \in Listed
                     THEN [name |-> service[e], subscribed |-> FALSE] ELSE None]]
    /\ projects = {}
    /\ request = [w \in Windows |-> None]
    /\ sync = [w \in Windows |-> None]
    /\ created = 0 /\ sent = 0
    /\ identity = "supported"
    /\ deaf = {} /\ doubled = {} /\ overtaken = {}

Request(w) ==
    \/ \E c \in Companies, e \in Repos, op \in {"subscribe", "unsubscribe"} : Begin(w, c, e, op)
    \/ FindProject(w) \/ FindNoProject(w) \/ CreateProject(w)
    \/ DestroyHooks(w) \/ DestroyKeys(w) \/ CreateHook(w) \/ CreateKey(w)
    \/ Commit(w) \/ Fail(w)

Sync(w) ==
    \/ \E c \in Companies : BeginSync(w, c)
    \/ \E e \in Repos : CreateRow(w, e) \/ UpdateRow(w, e) \/ Prune(w, e)
    \/ \E d, e \in Repos : LoadDuplicate(w, e, d)
    \/ DestroyVictim(w)
    \/ CommitSync(w) \/ FailSync(w)

Identity ==
    \/ DestroyIdentity
    \/ \E e \in Repos, S \in SUBSET Repos : DestroyIdentityFails(e, S)
    \/ SaveIdentity

Service == \E e \in Repos : RemoveRepo(e) \/ \E n \in Names : RenameRepo(e, n)

Next ==
    \/ \E w \in Windows : Request(w) \/ Sync(w)
    \/ Identity
    \/ Service

Spec == Init /\ [][Next]_vars

-----------------------------------------------------------------------------
TypeOK ==
    /\ service \in [Repos -> Names \cup {"unborn", "gone"}]
    /\ hooks \in [Repos -> SUBSET (1..MaxProjects)]
    /\ keys \in [Repos -> SUBSET (1..MaxProjects)]
    /\ rows \in [Companies -> [Repos -> Row \cup {None}]]
    /\ projects \in SUBSET Projects
    /\ request \in [Windows -> Requests \cup {None}]
    /\ sync \in [Windows -> Syncs \cup {None}]
    /\ created \in 0..MaxProjects /\ sent \in 0..MaxRequests
    /\ identity \in {"none", "supported", "ignored"}
    /\ identity = "none" => \A c \in Companies : RowsOf(c) = {}
    /\ deaf \subseteq Companies \X Repos
    /\ doubled \subseteq Repos
    /\ overtaken \subseteq Companies \X Repos

-----------------------------------------------------------------------------
(* The page of repositories *)

SameNameProjects(c, e) == {p \in projects : p.company = c /\ p.name = rows[c][e].name}

ShownSubscribed(c, e) ==
    rows[c][e].subscribed \/ ProjectsOf(c, e) # {} \/ SameNameProjects(c, e) # {}

Disabled(c, e) == ~rows[c][e].subscribed /\ SameNameProjects(c, e) # {}

\* The switch of a row that the page shows as subscribed can be turned off if the
\* row has the project itself, and is disabled if another one has it, however
\* calls failed, requests overlapped, repositories were renamed or rows replaced;
\* unless the last change of the row is that of a request which had loaded it
\* before another one changed it.
SwitchOfOwnProject ==
    \A c \in Companies : \A e \in RowsOf(c) :
        <<c, e>> \notin overtaken /\ ShownSubscribed(c, e) =>
        (Disabled(c, e) <=> ProjectsOf(c, e) = {})

\* A push is not delivered twice: a repository has one hook of this program at
\* most, though companies share it, requests overlap, and calls fail between
\* destroy and create; unless a hook was created after the calls of another
\* request crossed those of its own.
OneHookAtMost == \A e \in Repos \ doubled : Cardinality(hooks[e]) <= 1

\* The repository of a project has its hook and its key, unless since it was last
\* subscribed a call failed half-way or crossed others, another company replaced
\* them, or the row was changed by a request that another had overtaken.
ProjectsListen ==
    \A p \in projects :
        LET row == <<p.company, p.repo>>
        IN  /\ p.repo \in Listed
            /\ row \notin deaf \cup overtaken
            /\ \A w \in Windows : ~Called(request[w], p.repo)
            => hooks[p.repo] = {p.id} /\ keys[p.repo] = {p.id}

\* After sync the rows have the names the service listed when it was asked, and
\* what was not listed is kept for the sake of a project only; but for rows that
\* other requests changed meanwhile.
SyncMirrorsService ==
    [][\A w \in Windows : CommitSync(w) =>
          LET s == sync[w]
              row == rows'[s.company]
          IN  /\ \A e \in DOMAIN s.listed \ s.disturbed :
                    row[e] # None /\ row[e].name = s.listed[e]
              /\ \A e \in Repos \ (DOMAIN s.listed \cup s.disturbed) :
                    row[e] # None =>
                    \E p \in projects' : p.company = s.company /\ p.repo = e]_vars

\* The row of a company no longer has the project.
Lost(p) == p.repo # None /\ p \notin projects'

\* A project is lost when it is unsubscribed, when the identity goes, or when
\* another repository has its name and sync makes a row (for that one, or for a
\* third whose row it displaces, so that its row is made again); never because a
\* call failed or the service lists it no more.  Sync may also drop the row of a
\* project that another request made while sync ran.
ProjectsAreKept ==
    [][\A p \in projects : Lost(p) =>
          \/ identity' = "none"
          \/ \E w \in Windows :
                /\ Commit(w) /\ request[w].op = "unsubscribe" /\ request[w].project = p
          \/ \E w \in Windows :
                /\ CommitSync(w)
                /\ sync[w].company = p.company
                /\ \/ p.repo \in sync[w].disturbed
                   \/ \E d, new \in DOMAIN sync[w].listed :
                         /\ d # p.repo
                         /\ sync[w].listed[d] = rows[p.company][p.repo].name
                         /\ rows[p.company][new] = None \/ new \in sync[w].disturbed]_vars

\* What the specs of User say of sync_repos: "should keep repos with projects".
SyncKeepsProjects ==
    [][\A p \in projects : (\E w \in Windows : CommitSync(w)) => ~Lost(p)]_vars
=============================================================================
