--------------------------- MODULE UserRepos_proofs ---------------------------
(***************************************************************************)
(* Proofs about UserRepos.  Of a row and the project it has, an open       *)
(* request knows what it loaded and what has overtaken it (Paired); of its *)
(* calls to the service it knows whether others crossed them (Crossing),   *)
(* and then hooks and keys are what its own calls made them (Hooked).  A   *)
(* sync knows its rows by its locks (Locking) and remembers why it         *)
(* destroys one (Syncing).  Each action keeps all of this.                 *)
(***************************************************************************)
EXTENDS UserRepos, FiniteSetTheorems, TLAPS

\* A window waits for the answer of one request; nobody syncs without an identity.
Exclusive ==
    \A w \in Windows :
        /\ request[w] = None \/ sync[w] = None
        /\ sync[w] # None => identity # "none"

\* A row, a request and a list are of repositories the service has had; open
\* requests and projects are of a row, unless they know that it is gone; and no two
\* repositories have one name.
Born ==
    /\ \A c \in Companies, e \in Repos : rows[c][e] # None => service[e] # "unborn"
    /\ \A w \in Windows : request[w] # None =>
          /\ service[request[w].repo] # "unborn"
          /\ ~request[w].gone => rows[request[w].company][request[w].repo] # None
    /\ \A w \in Windows : sync[w] # None =>
          /\ \A e \in DOMAIN sync[w].listed : e \in Repos /\ service[e] # "unborn"
          /\ sync[w].listed \in [DOMAIN sync[w].listed -> Names]
          /\ \A d, e \in DOMAIN sync[w].listed : sync[w].listed[d] = sync[w].listed[e] => d = e
    /\ \A p \in projects : p.repo # None => rows[p.company][p.repo] # None
    /\ \A d, e \in Listed : service[d] = service[e] => d = e

\* q is what has become of the project p.
Same(q, p) == q.name = p.name /\ q.company = p.company /\ q.repo \in {p.repo, None}

\* The projects that transactions have loaded, and those they have created.
Loaded ==
    {p \in Projects :
        \/ \E w \in Windows : request[w] # None /\ request[w].project = p /\ ~request[w].fresh
        \/ \E w \in Windows : sync[w] # None /\ p \in sync[w].doomed
        \/ \E w \in Windows : /\ sync[w] # None /\ sync[w].victim # None
                              /\ sync[w].victim.project = p}

Fresh == {w \in Windows : request[w] # None /\ request[w].fresh}

\* Numbers of projects are unique, and those of open transactions are of their rows.
Identified ==
    /\ \A p \in projects \cup Loaded : p.id <= created
    /\ \A p \in Loaded, q \in projects : q.id = p.id => Same(q, p)
    /\ \A p, q \in projects : q.id = p.id => q = p
    /\ \A w \in Fresh :
          /\ request[w].project.id <= created
          /\ \A q \in projects \cup Loaded : q.id # request[w].project.id
          /\ \A v \in Fresh : request[v].project.id = request[w].project.id => v = w
    /\ \A w \in Windows : request[w] # None /\ request[w].project # None =>
          /\ request[w].project.company = request[w].company
          /\ request[w].project.repo = request[w].repo
          /\ request[w].gone =>
                \A q \in projects : q.id = request[w].project.id => q.repo = None
    /\ \A w \in Windows : sync[w] # None =>
          /\ \A p \in sync[w].doomed :
                p.company = sync[w].company /\ p.repo \in sync[w].destroyed
          /\ sync[w].victim # None /\ sync[w].victim.project # None =>
                /\ sync[w].victim.project.company = sync[w].company
                /\ sync[w].victim.project.repo = sync[w].victim.repo

\* What a request has at each stage.
Staged ==
    \A w \in Windows : request[w] # None =>
        /\ request[w].stage = "loaded" => request[w].project = None
        /\ request[w].project = None => ~request[w].fresh
        /\ request[w].project = None => request[w].stage \in {"loaded", "done"}
        /\ request[w].project = None /\ Wanted(request[w]) => request[w].stage = "loaded"
        /\ request[w].stage \in {"unkeyed", "hooked"} => Wanted(request[w])
        /\ request[w].fresh => Wanted(request[w])

\* A request that nobody has overtaken knows its row and the project of its row.
Informed(r) ==
    /\ ~Changes(r) => rows[r.company][r.repo].subscribed = Wanted(r)
    /\ r.stage # "loaded" /\ (r.fresh \/ r.project = None) => ProjectsOf(r.company, r.repo) = {}
    /\ r.project # None /\ ~r.fresh => r.project \in projects

\* A row has one project if it is subscribed, and else none, unless an overtaken
\* request changed it last.
Paired ==
    /\ \A c \in Companies : \A e \in RowsOf(c) : <<c, e>> \notin overtaken =>
          /\ \A p, q \in ProjectsOf(c, e) : p = q
          /\ rows[c][e].subscribed <=> ProjectsOf(c, e) # {}
    /\ \A w \in Windows :
          request[w] # None /\ ~request[w].gone /\ ~request[w].overtaken => Informed(request[w])

-----------------------------------------------------------------------------
\* What an open sync has written is locked, and what it has not is as it was.
HasLock(w, c, e) == request[w] # None /\ For(request[w], c, e)
                    /\ request[w].stage # "loaded" /\ Changes(request[w])

Locking ==
    \A w \in Windows : sync[w] # None =>
        /\ \A e \in sync[w].written : \A v \in Windows : ~HasLock(v, sync[w].company, e)
        /\ \A v \in Windows \ {w} : sync[v] # None /\ sync[v].company = sync[w].company
              => sync[v].written \cap sync[w].written = {}

Written(s) ==
    /\ s.destroyed \subseteq s.written
    /\ \A e \in s.written :
          /\ s.table[e] = None => e \in s.destroyed
          /\ s.table[e] # None =>
                /\ e \in DOMAIN s.listed
                /\ s.table[e].name = s.listed[e]
                /\ s.table[e].subscribed <=>
                      /\ e \notin s.destroyed
                      /\ rows[s.company][e] # None
                      /\ rows[s.company][e].subscribed

\* What the sync has passed is as the service listed it.
Mirrored(s) ==
    /\ \A e \in DOMAIN s.listed \ (s.pending \cup s.disturbed) :
          View(s, e) # None /\ View(s, e).name = s.listed[e]
    /\ \A e \in Repos \ (DOMAIN s.listed \cup s.pending \cup s.disturbed) :
          \/ View(s, e) = None
          \/ ProjectsOf(s.company, e) # {}
          \/ s.victim # None /\ s.victim.repo = e

\* A listed repository has no row yet, or others have changed it.
NewRow(s) ==
    \E new \in DOMAIN s.listed : rows[s.company][new] = None \/ new \in s.disturbed

LosesName(s, e) ==
    /\ rows[s.company][e] # None
    /\ \E d \in DOMAIN s.listed \ {e} : s.listed[d] = rows[s.company][e].name

\* What the sync destroys has lost its name, or had no project.
Displaced(s) ==
    /\ \A e \in s.destroyed :
          /\ e \in DOMAIN s.listed => NewRow(s)
          /\ \/ e \in s.disturbed
             \/ ProjectsOf(s.company, e) = {}
             \/ NewRow(s) /\ LosesName(s, e)
    /\ s.victim # None =>
          /\ s.victim.repo \in DOMAIN s.listed =>
                NewRow(s) /\ s.victim.repo \in s.pending \cup s.disturbed
          /\ \/ s.victim.repo \in s.disturbed
             \/ ProjectsOf(s.company, s.victim.repo) = {}
             \/ NewRow(s) /\ LosesName(s, s.victim.repo)

Syncing ==
    \A w \in Windows : sync[w] # None =>
        Written(sync[w]) /\ Mirrored(sync[w]) /\ Displaced(sync[w])

-----------------------------------------------------------------------------
\* Requests whose calls to the service overlap know that they cross.
Crossing ==
    \A v, w \in Windows, e \in Repos :
        /\ v # w
        /\ Calling(request[v], e) /\ Called(request[w], e)
        /\ Calling(request[w], e) \/ Wanted(request[w])
        => request[w].crossed

\* What the calls of a request that crossed no other have done.
Done(r) ==
    /\ r.stage \in {"unhooked", "unkeyed"} => hooks[r.repo] = {}
    /\ Wanted(r) /\ r.repo \in Listed =>
          /\ r.stage \in {"hooked", "done"} => hooks[r.repo] = {r.project.id}
          /\ r.stage \in {"unkeyed", "hooked"} => keys[r.repo] = {}
          /\ r.stage = "done" => keys[r.repo] = {r.project.id}

Hooked ==
    /\ \A w \in Windows : request[w] # None /\ ~request[w].crossed => Done(request[w])
    /\ \A e \in Repos \ doubled : \A i, j \in hooks[e] : i = j

\* The projects of a repository that a request is calling about are known not to
\* be heard, but for that of its own row.
Muted ==
    \A w \in Windows, p \in projects :
        Calling(request[w], p.repo) =>
        \/ <<p.company, p.repo>> \in deaf \cup overtaken
        \/ request[w].company = p.company /\ ~request[w].gone

Heard(p) == hooks[p.repo] = {p.id} /\ keys[p.repo] = {p.id}

\* The other projects are heard.
Listening ==
    \A p \in projects :
        p.repo \in Listed /\ <<p.company, p.repo>> \notin deaf \cup overtaken =>
        \/ Heard(p)
        \/ \E w \in Windows :
              /\ Called(request[w], p.repo)
              /\ request[w].company = p.company /\ ~request[w].gone

\* The inductive invariant.
IInv ==
    /\ TypeOK /\ Exclusive /\ Born /\ Identified /\ Staged /\ Paired
    /\ Locking /\ Syncing
    /\ Crossing /\ Hooked /\ Muted /\ Listening

-----------------------------------------------------------------------------
\* Who is open is typed.
LEMMA Typed ==
    ASSUME TypeOK
    PROVE  /\ \A w \in Windows : request[w] # None => request[w] \in Requests
           /\ \A w \in Windows : sync[w] # None => sync[w] \in Syncs
           /\ \A c \in Companies, e \in Repos : rows[c][e] # None => rows[c][e] \in Row
           /\ None \notin Names \cup Repos \cup Projects \cup Row \cup Requests \cup Syncs
           /\ DOMAIN request = Windows /\ DOMAIN sync = Windows
BY NoneAssumption DEF TypeOK

\* The fields of an open request.
LEMMA RequestTyped ==
    ASSUME NEW r \in Requests
    PROVE  /\ r.op \in {"subscribe", "unsubscribe"} /\ r.company \in Companies
           /\ r.repo \in Repos /\ r.copy \in Row /\ r.stage \in Stages
           /\ r.project \in Projects \cup {None}
           /\ r.fresh \in BOOLEAN /\ r.gone \in BOOLEAN
           /\ r.overtaken \in BOOLEAN /\ r.crossed \in BOOLEAN
BY DEF Requests

\* Open syncs do not see requests, hooks or keys.
LEMMA SyncingKept ==
    ASSUME Syncing, UNCHANGED <<tables, sync>>
    PROVE  Syncing'
BY DEF Syncing, Written, Mirrored, Displaced, View, ProjectsOf, NewRow, LosesName, tables

-----------------------------------------------------------------------------
(* The steps of a request                                                   *)

LEMMA BeginKeeps ==
    ASSUME IInv, NEW w \in Windows, NEW c \in Companies, NEW e \in Repos,
           NEW op \in {"subscribe", "unsubscribe"}, Begin(w, c, e, op)
    PROVE  IInv'
<1> DEFINE new == [op |-> op, company |-> c, repo |-> e, copy |-> rows[c][e],
                   stage |-> "loaded", project |-> None, fresh |-> FALSE,
                   gone |-> FALSE, overtaken |-> FALSE, crossed |-> FALSE]
<1>0. /\ request[w] = None /\ sync[w] = None /\ sent < MaxRequests /\ sent' = sent + 1
      /\ rows[c][e] # None
      /\ request' = [request EXCEPT ![w] = new]
      /\ UNCHANGED <<service, hooks, keys, rows, projects, sync, created, identity,
                     deaf, doubled, overtaken>>
      /\ TypeOK /\ DOMAIN request = Windows
  BY Typed DEF IInv, Begin, Send, serviceVars, tables, marks, RowsOf
<1>1. PICK r \in Requests : request' = [request EXCEPT ![w] = r] /\ r = new
  <2>1. rows[c][e] \in Row  BY <1>0, Typed
  <2>2. new \in Requests  BY <2>1 DEF Requests, Stages
  <2>3. QED  BY <1>0, <2>2
<1>2. /\ r.company = c /\ r.repo = e /\ r.copy = rows[c][e] /\ r.stage = "loaded"
      /\ r.project = None /\ r.fresh = FALSE /\ r.gone = FALSE /\ r.crossed = FALSE
      /\ r.op = op /\ r # None
  BY <1>1, NoneAssumption
<1> HIDE DEF new
<1>3. request'[w] = r /\ \A v \in Windows \ {w} : request'[v] = request[v]
  BY <1>0, <1>1
<1>4. TypeOK'
  BY <1>0, <1>1, BoundAssumption DEF TypeOK, RowsOf
<1>5. Exclusive'  BY <1>0, <1>3 DEF IInv, Exclusive
<1>6. Born'  BY <1>0, <1>1, <1>2, <1>3 DEF IInv, Born, Listed
<1>7. Identified'
  <2>1. Loaded' = Loaded  BY <1>0, <1>1, <1>2, <1>3, NoneAssumption DEF Loaded
  <2>2. Fresh' = Fresh  BY <1>0, <1>1, <1>2, <1>3 DEF Fresh
  <2>3. w \notin Fresh  BY <1>0 DEF Fresh
  <2>4. QED  BY <1>0, <1>1, <1>2, <1>3, <2>1, <2>2, <2>3 DEF IInv, Identified, Same
<1>8. Staged'  BY <1>0, <1>2, <1>3 DEF IInv, Staged, Wanted
<1>9. Paired'
  <2>1. Informed(r)'
    <3>1. rows[c][e].subscribed \in BOOLEAN  BY <1>0, Typed DEF Row
    <3>2. QED  BY <1>0, <1>2, <3>1 DEF Informed, Changes, Wanted
  <2>2. \A v \in Windows \ {w} : Informed(request[v])' <=> Informed(request[v])
    BY <1>0, <1>3 DEF Informed, ProjectsOf
  <2>3. QED  BY <1>0, <1>2, <1>3, <2>1, <2>2 DEF IInv, Paired, RowsOf, ProjectsOf
<1>10. Locking'  BY <1>0, <1>2, <1>3 DEF IInv, Locking, HasLock, For, Changes, Wanted
<1>11. Syncing'  BY <1>0, SyncingKept DEF IInv, tables
<1>12. Crossing'  BY <1>0, <1>2, <1>3 DEF IInv, Crossing, Calling, Called, Wanted
<1>13. Hooked'
  <2>1. Done(r)'  BY <1>2 DEF Done
  <2>2. QED  BY <1>0, <1>2, <1>3, <2>1 DEF IInv, Hooked, Done, Wanted, Listed
<1>14. Muted'  BY <1>0, <1>2, <1>3 DEF IInv, Muted, Calling
<1>15. Listening'  BY <1>0, <1>2, <1>3 DEF IInv, Listening, Heard, Called, Listed
<1>16. QED  BY <1>4, <1>5, <1>6, <1>7, <1>8, <1>9, <1>10, <1>11, <1>12, <1>13,
               <1>14, <1>15 DEF IInv

\* The three ways to save have this in common.
LEMMA SaveKeeps ==
    ASSUME IInv, NEW w \in Windows, request[w] # None,
           NEW stage \in {"saved", "done"}, NEW p \in Projects \cup {None}, NEW fresh \in BOOLEAN,
           Save(w, stage, p, fresh),
           created' \in 0..MaxProjects, created' >= created,
           stage = "done" => ~Wanted(request[w]),
           p = None => stage = "done" /\ ~fresh,
           p = None \/ fresh => Found(request[w]) = {},
           p # None /\ ~fresh => p \in Found(request[w]),
           fresh => /\ Wanted(request[w])
                    /\ p.id > created /\ p.id <= created'
                    /\ p.company = request[w].company /\ p.repo = request[w].repo
    PROVE  IInv'
<1> DEFINE new == [request[w] EXCEPT
                      !.stage = stage, !.project = p, !.fresh = fresh,
                      !.overtaken = IF Changes(request[w]) THEN FALSE ELSE request[w].overtaken]
<1>0. /\ request[w].stage = "loaded" /\ request[w].project = None
      /\ Changes(request[w]) => ~Locked(w, request[w].company, request[w].repo)
      /\ request' = [request EXCEPT ![w] = new]
      /\ UNCHANGED <<service, hooks, keys, rows, projects, sync, sent, identity,
                     deaf, doubled, overtaken>>
      /\ TypeOK /\ DOMAIN request = Windows /\ request[w] \in Requests
      /\ created \in 0..MaxProjects
  <2>1. TypeOK /\ DOMAIN request = Windows /\ request[w] \in Requests
    BY Typed DEF IInv
  <2>2. request[w].stage = "loaded"  BY DEF Save, At
  <2>3. request[w].project = None  BY <2>2 DEF IInv, Staged
  <2>4. request' = [request EXCEPT ![w] = new]  BY <2>1 DEF Save
  <2>5. QED  BY <2>1, <2>2, <2>3, <2>4 DEF Save, serviceVars, tables, marks, TypeOK
<1>1. PICK r \in Requests : request' = [request EXCEPT ![w] = r] /\ r = new
  <2>1. new \in Requests  BY <1>0 DEF Requests, Stages
  <2>2. QED  BY <1>0, <2>1
<1>2. /\ r.op = request[w].op /\ r.company = request[w].company /\ r.repo = request[w].repo
      /\ r.copy = request[w].copy /\ r.stage = stage /\ r.project = p /\ r.fresh = fresh
      /\ r.gone = request[w].gone /\ r.crossed = request[w].crossed
      /\ r.overtaken = (request[w].overtaken /\ ~Changes(request[w]))
      /\ r # None
  BY <1>0, <1>1, NoneAssumption DEF Requests
<1> HIDE DEF new
<1>3. request'[w] = r /\ \A v \in Windows \ {w} : request'[v] = request[v]
  BY <1>0, <1>1
<1>4. TypeOK'  BY <1>0, <1>1 DEF TypeOK, RowsOf
<1>5. Exclusive'  BY <1>0, <1>3 DEF IInv, Exclusive
<1>6. Born'  BY <1>0, <1>2, <1>3 DEF IInv, Born, Listed
<1>7. Identified'
  <2>1. \A q \in Loaded' : q \in Loaded \/ (q = p /\ p \in projects)
    <3>1. \A q \in Projects : q # None  BY NoneAssumption
    <3>2. p # None /\ ~fresh => p \in projects  BY DEF Found, ProjectsOf
    <3>3. QED  BY <1>0, <1>2, <1>3, <3>1, <3>2 DEF Loaded
  <2>2. \A v \in Fresh' : v \in Fresh \/ (v = w /\ fresh)
    BY <1>0, <1>2, <1>3 DEF Fresh
  <2>3. \A q \in projects \cup Loaded : q \in Projects /\ q.id <= created
    BY <1>0 DEF IInv, Identified, TypeOK, Loaded
  <2>4. \A q \in projects \cup Loaded' : q.id <= created'
    <3>1. \A q \in projects \cup Loaded' : q \in Projects /\ q.id <= created
      BY <2>1, <2>3
    <3>2. QED  BY <1>0, <3>1 DEF Projects
  <2>5. \A x \in Loaded', q \in projects : q.id = x.id => Same(q, x)'
    BY <1>0, <2>1 DEF IInv, Identified, Same
  <2>6. \A v \in Fresh' :
            /\ request'[v].project.id <= created'
            /\ \A q \in projects \cup Loaded' : q.id # request'[v].project.id
            /\ \A u \in Fresh' : request'[u].project.id = request'[v].project.id => u = v
    <3>1. \A v \in Fresh : /\ request[v] # None /\ request[v].project # None
                           /\ request[v].project \in Projects
                           /\ request[v].project.id \in Nat
                           /\ request[v].project.id <= created
                           /\ request[v].project.id <= created'
                           /\ v # w
      <4>1. TAKE v \in Fresh
      <4>2. v \in Windows /\ request[v] # None /\ request[v].fresh  BY DEF Fresh
      <4>3. request[v].project # None /\ request[v].project \in Projects
        BY <1>0, <4>2, Typed DEF IInv, Staged, Requests
      <4>4. request[v].project.id <= created  BY DEF IInv, Identified
      <4>5. request[v].project.id \in Nat  BY <4>3 DEF Projects
      <4>6. v # w  BY <1>0, <4>3
      <4>7. QED  BY <1>0, <4>2, <4>3, <4>4, <4>5, <4>6
    <3>2. \A q \in projects \cup Loaded' : q.id \in Nat /\ q.id <= created
      BY <2>1, <2>3 DEF Projects
    <3>3. CASE fresh
      <4>1. p \in Projects /\ p.id \in Nat /\ p.id > created /\ p.id <= created'
        BY <3>3, NoneAssumption DEF Projects
      <4>2. \A q \in projects \cup Loaded' : q.id # p.id  BY <1>0, <3>2, <4>1
      <4>3. \A v \in Fresh : request[v].project.id # p.id  BY <1>0, <3>1, <4>1
      <4>4. \A v \in Fresh, q \in projects \cup Loaded' : q.id # request[v].project.id
        BY <1>0, <2>1 DEF IInv, Identified
      <4>5. request'[w].project.id = p.id  BY <1>2, <1>3
      <4>6. \A v \in Fresh : v \in Windows /\ request'[v].project.id = request[v].project.id
        BY <1>3, <3>1 DEF Fresh
      <4>7. \A u, v \in Fresh : request[u].project.id = request[v].project.id => u = v
        BY DEF IInv, Identified
      <4>8. QED  BY <2>2, <3>1, <4>1, <4>2, <4>3, <4>4, <4>5, <4>6, <4>7
    <3>4. CASE ~fresh
      <4>1. \A v \in Fresh, q \in projects \cup Loaded' : q.id # request[v].project.id
        BY <1>0, <2>1 DEF IInv, Identified
      <4>2. \A v \in Fresh : v \in Windows /\ request'[v].project.id = request[v].project.id
        BY <1>3, <3>1 DEF Fresh
      <4>3. \A u, v \in Fresh : request[u].project.id = request[v].project.id => u = v
        BY DEF IInv, Identified
      <4>4. QED  BY <2>2, <3>1, <3>4, <4>1, <4>2, <4>3
    <3>5. QED  BY <3>3, <3>4
  <2>7. p # None => p.company = r.company /\ p.repo = r.repo
    BY <1>2 DEF Found, ProjectsOf
  <2>8. r.gone /\ p # None => fresh
    BY <1>2 DEF Found
  <2>9. r.gone /\ p # None => \A q \in projects : q.id # p.id
    <3>1. ASSUME r.gone, p # None, NEW q \in projects PROVE q.id # p.id
      <4>1. q.id <= created /\ q.id \in Nat /\ p.id > created /\ p.id \in Nat
        BY <2>3, <2>8, <3>1 DEF Projects
      <4>2. QED  BY <1>0, <4>1
    <3>2. QED  BY <3>1
  <2>10. QED  BY <1>0, <1>2, <1>3, <2>4, <2>5, <2>6, <2>7, <2>9 DEF IInv, Identified
<1>8. Staged'  BY <1>0, <1>2, <1>3 DEF IInv, Staged, Wanted
<1>9. Paired'
  <2>1. ~r.gone /\ ~r.overtaken => Informed(r)'
    <3>1. SUFFICES ASSUME ~r.gone, ~r.overtaken PROVE Informed(r)'
      OBVIOUS
    <3>2. Changes(r) <=> Changes(request[w])  BY <1>2 DEF Changes, Wanted
    <3>3. ~Changes(r) => Informed(request[w])
      BY <1>0, <1>2, <3>1, <3>2 DEF IInv, Paired
    <3>4. ~Changes(r)' => rows'[r.company][r.repo].subscribed = Wanted(r)'
      BY <1>0, <1>2, <3>2, <3>3 DEF Informed, Changes, Wanted
    <3>5. fresh \/ p = None => ProjectsOf(r.company, r.repo)' = {}
      BY <1>0, <1>2, <3>1 DEF Found, ProjectsOf
    <3>6. p # None /\ ~fresh => p \in projects'
      BY <1>0 DEF Found, ProjectsOf
    <3>7. QED  BY <1>2, <3>4, <3>5, <3>6 DEF Informed
  <2>2. \A v \in Windows \ {w} : Informed(request[v])' <=> Informed(request[v])
    BY <1>0, <1>3 DEF Informed, ProjectsOf
  <2>3. QED  BY <1>0, <1>2, <1>3, <2>1, <2>2 DEF IInv, Paired, RowsOf, ProjectsOf
<1>10. Locking'
  <2>1. HasLock(w, r.company, r.repo)' =>
           \A v \in Windows : sync[v] # None /\ sync[v].company = r.company
                              => r.repo \notin sync[v].written
    BY <1>0, <1>2, <1>3 DEF IInv, Exclusive, HasLock, For, Changes, Wanted, Locked
  <2>2. QED  BY <1>0, <1>2, <1>3, <2>1 DEF IInv, Locking, HasLock, For, Changes, Wanted
<1>11. Syncing'  BY <1>0, SyncingKept DEF IInv, tables
<1>12. Crossing'  BY <1>0, <1>2, <1>3 DEF IInv, Crossing, Calling, Called, Wanted
<1>13. Hooked'
  <2>1. Done(r)'  BY <1>2 DEF Done, Wanted
  <2>2. QED  BY <1>0, <1>2, <1>3, <2>1 DEF IInv, Hooked, Done, Wanted, Listed
<1>14. Muted'  BY <1>0, <1>2, <1>3 DEF IInv, Muted, Calling
<1>15. Listening'  BY <1>0, <1>2, <1>3 DEF IInv, Listening, Heard, Called, Listed
<1>16. QED  BY <1>4, <1>5, <1>6, <1>7, <1>8, <1>9, <1>10, <1>11, <1>12, <1>13,
               <1>14, <1>15 DEF IInv

LEMMA FindProjectKeeps ==
    ASSUME IInv, NEW w \in Windows, FindProject(w)
    PROVE  IInv'
<1>1. PICK p \in Found(request[w]) :
         Save(w, IF ~Wanted(request[w]) /\ identity = "ignored" THEN "done" ELSE "saved", p, FALSE)
  BY DEF FindProject
<1>2. p \in Projects /\ p # None /\ created' = created /\ created \in 0..MaxProjects
  BY NoneAssumption DEF FindProject, IInv, TypeOK, Found, ProjectsOf
<1>a. created' >= created  BY <1>2, BoundAssumption
<1> DEFINE stage == IF ~Wanted(request[w]) /\ identity = "ignored" THEN "done" ELSE "saved"
<1>3. PICK st \in {"saved", "done"} : st = stage  OBVIOUS
<1>4. st = "done" => ~Wanted(request[w])  BY <1>3
<1>5. Save(w, st, p, FALSE)  BY <1>1, <1>3
<1>6. request[w] # None  BY DEF FindProject
<1> HIDE DEF stage
<1>7. QED  BY <1>2, <1>a, <1>4, <1>5, <1>6, SaveKeeps

LEMMA FindNoProjectKeeps ==
    ASSUME IInv, NEW w \in Windows, FindNoProject(w)
    PROVE  IInv'
<1>1. created' = created /\ created \in 0..MaxProjects
  BY DEF FindNoProject, IInv, TypeOK
<1>a. created' >= created  BY <1>1, BoundAssumption
<1>2. QED  BY <1>1, <1>a, SaveKeeps DEF FindNoProject

LEMMA CreateProjectKeeps ==
    ASSUME IInv, NEW w \in Windows, CreateProject(w)
    PROVE  IInv'
<1> DEFINE p == [id |-> created + 1, name |-> request[w].copy.name,
                 company |-> request[w].company, repo |-> request[w].repo]
<1>1. /\ request[w] # None /\ Found(request[w]) = {} /\ Wanted(request[w])
      /\ created < MaxProjects /\ created' = created + 1
      /\ Save(w, "saved", p, TRUE)
      /\ request[w] \in Requests /\ created \in 0..MaxProjects
  BY Typed DEF CreateProject, IInv, TypeOK
<1>2. p \in Projects  BY <1>1, BoundAssumption DEF Requests, Row, Projects
<1>3. p # None /\ created' \in 0..MaxProjects /\ created' >= created
  BY <1>1, <1>2, NoneAssumption, BoundAssumption
<1>4. p.id > created /\ p.id <= created' /\ p.company = request[w].company /\ p.repo = request[w].repo
  BY <1>1
<1> HIDE DEF p
<1>5. QED  BY <1>1, <1>2, <1>3, <1>4, SaveKeeps

\* Calls change stages, crossings, hooks and keys.
Advanced(v) ==
    /\ request'[v] = None <=> request[v] = None
    /\ request[v] # None =>
          /\ request'[v].op = request[v].op /\ request'[v].company = request[v].company
          /\ request'[v].repo = request[v].repo /\ request'[v].copy = request[v].copy
          /\ request'[v].project = request[v].project /\ request'[v].fresh = request[v].fresh
          /\ request'[v].gone = request[v].gone
          /\ request'[v].overtaken = request[v].overtaken
          /\ \/ request'[v].stage = request[v].stage
             \/ /\ request[v].stage # "loaded" /\ request'[v].stage # "loaded"
                /\ request[v].project # None
                /\ request'[v].stage \in {"unkeyed", "hooked"} => Wanted(request[v])

LEMMA CallsKeepTables ==
    ASSUME IInv, UNCHANGED <<service, rows, projects, sync, created, sent, identity, overtaken>>,
           request' \in [Windows -> Requests \cup {None}],
           hooks' \in [Repos -> SUBSET (1..MaxProjects)],
           keys' \in [Repos -> SUBSET (1..MaxProjects)],
           deaf' \subseteq Companies \X Repos, doubled' \subseteq Repos,
           \A v \in Windows : Advanced(v)
    PROVE  /\ TypeOK' /\ Exclusive' /\ Born' /\ Identified' /\ Staged' /\ Paired'
           /\ Locking' /\ Syncing'
<1>1. TypeOK'  BY DEF IInv, TypeOK, RowsOf
<1>2. Exclusive'  BY DEF IInv, Exclusive, Advanced
<1>3. Born'  BY DEF IInv, Born, Listed, Advanced
<1>4. Identified'
  <2>1. Loaded' = Loaded  BY DEF Loaded, Advanced
  <2>2. Fresh' = Fresh  BY DEF Fresh, Advanced
  <2>3. \A v \in Windows : request[v] # None => request'[v].project = request[v].project
    BY DEF Advanced
  <2>4. Fresh \subseteq Windows /\ \A v \in Fresh : request[v] # None  BY DEF Fresh
  <2>5. QED  BY <2>1, <2>2, <2>3, <2>4 DEF IInv, Identified, Same, Advanced
<1>5. Staged'  BY DEF IInv, Staged, Wanted, Advanced
<1>6. Paired'
  <2>1. \A v \in Windows : request[v] # None => (Informed(request[v])' <=> Informed(request[v]))
    BY DEF Informed, ProjectsOf, Advanced, Changes, Wanted
  <2>2. QED  BY <2>1 DEF IInv, Paired, RowsOf, ProjectsOf, Advanced
<1>7. Locking'
  <2>1. \A v \in Windows, c \in Companies, e \in Repos : HasLock(v, c, e)' => HasLock(v, c, e)
    BY DEF HasLock, For, Changes, Wanted, Advanced
  <2>2. \A v \in Windows : sync[v] # None => sync[v].company \in Companies /\ sync[v].written \subseteq Repos
    BY Typed DEF IInv, Syncs
  <2>3. QED  BY <2>1, <2>2 DEF IInv, Locking
<1>8. Syncing'  BY SyncingKept DEF IInv, tables
<1>9. QED  BY <1>1, <1>2, <1>3, <1>4, <1>5, <1>6, <1>7, <1>8

LEMMA DestroyHooksKeeps ==
    ASSUME IInv, NEW w \in Windows, DestroyHooks(w)
    PROVE  IInv'
<1> DEFINE c == request[w].company
           e == request[w].repo
<1>0. /\ request[w] # None /\ request[w].stage = "saved" /\ service[e] \in Names
      /\ ~request[w].gone
      /\ hooks' = [hooks EXCEPT ![e] = {}]
      /\ request' = [Cross({e}) EXCEPT ![w].stage = "unhooked",
                                       ![w].crossed = \E v \in Windows : Calling(request[v], e)]
      /\ deaf' = deaf \cup {<<d, e>> : d \in Companies \ {c}}
      /\ doubled' = doubled \ {e}
      /\ UNCHANGED <<service, keys, rows, projects, sync, created, sent, identity, overtaken>>
      /\ TypeOK /\ DOMAIN request = Windows /\ request[w] \in Requests
      /\ c \in Companies /\ e \in Repos
      /\ request[w].project # None
  <2>1. TypeOK /\ DOMAIN request = Windows  BY Typed DEF IInv
  <2>2. request[w] # None /\ request[w].stage = "saved"  BY DEF DestroyHooks, At
  <2>3. request[w] \in Requests  BY <2>1, <2>2, Typed
  <2>4. c \in Companies /\ e \in Repos  BY <2>3, RequestTyped
  <2>5. request[w].project # None  BY <2>2 DEF IInv, Staged
  <2>6. QED  BY <2>1, <2>2, <2>3, <2>4, <2>5 DEF DestroyHooks, tables
<1>1. /\ request'[w] = [request[w] EXCEPT
                           !.stage = "unhooked",
                           !.crossed = \E v \in Windows : Calling(request[v], e)]
      /\ \A v \in Windows \ {w} :
            request'[v] = IF Called(request[v], e) THEN [request[v] EXCEPT !.crossed = TRUE]
                          ELSE request[v]
      /\ DOMAIN request' = Windows
  BY <1>0 DEF Cross, Called
<1>2. /\ request' \in [Windows -> Requests \cup {None}]
      /\ \A v \in Windows : Advanced(v)
  <2>1. request'[w] \in Requests /\ Advanced(w) /\ request'[w].stage = "unhooked"
    <3>1. PICK b \in BOOLEAN : b = \E v \in Windows : Calling(request[v], e)
      OBVIOUS
    <3>2. request'[w] = [request[w] EXCEPT !.stage = "unhooked", !.crossed = b]
      BY <1>1, <3>1
    <3>3. request[w] \in Requests /\ request[w].stage # "loaded" /\ request[w].project # None
      BY <1>0
    <3>4. request'[w] \in Requests  BY <3>2, <3>3 DEF Requests, Stages
    <3>5. /\ request'[w].stage = "unhooked" /\ request'[w].op = request[w].op
          /\ request'[w].company = request[w].company /\ request'[w].repo = request[w].repo
          /\ request'[w].copy = request[w].copy /\ request'[w].project = request[w].project
          /\ request'[w].fresh = request[w].fresh /\ request'[w].gone = request[w].gone
          /\ request'[w].overtaken = request[w].overtaken
      BY <3>2, <3>3 DEF Requests
    <3>6. request[w] # None /\ request'[w] # None  BY <1>0, <3>4, NoneAssumption
    <3>7. QED  BY <3>3, <3>4, <3>5, <3>6 DEF Advanced
  <2>2. ASSUME NEW v \in Windows \ {w}
        PROVE  request'[v] \in Requests \cup {None} /\ Advanced(v)
    <3>1. CASE Called(request[v], e)
      <4>1. request[v] # None  BY <3>1 DEF Called
      <4>2. request[v] \in Requests  BY <1>0, <4>1, Typed
      <4>3. request'[v] = [request[v] EXCEPT !.crossed = TRUE]  BY <1>1, <3>1
      <4>4. request'[v] \in Requests  BY <4>2, <4>3 DEF Requests
      <4>5. QED  BY <4>1, <4>2, <4>3, <4>4, NoneAssumption DEF Requests, Advanced
    <3>2. CASE ~Called(request[v], e)
      <4>1. request'[v] = request[v]  BY <1>1, <3>2
      <4>2. QED  BY <1>0, <4>1, Typed DEF Advanced
    <3>3. QED  BY <3>1, <3>2
  <2>3. request' = [v \in Windows |-> request'[v]]  BY <1>0 DEF Cross
  <2>4. QED  BY <2>1, <2>2, <2>3
<1>3. /\ request'[w].stage = "unhooked"
      /\ request'[w].crossed = \E v \in Windows : Calling(request[v], e)
      /\ request'[w].repo = e /\ request'[w].company = c /\ ~request'[w].gone
      /\ request'[w] # None
  <2>1. /\ request'[w].repo = e /\ request'[w].company = c /\ ~request'[w].gone
        /\ request'[w] # None
    BY <1>0, <1>2 DEF Advanced
  <2>2. PICK b \in BOOLEAN : b = \E v \in Windows : Calling(request[v], e)
    OBVIOUS
  <2>3. request'[w] = [request[w] EXCEPT !.stage = "unhooked", !.crossed = b]
    BY <1>1, <2>2
  <2>4. request[w] \in Requests  BY <1>0
  <2>5. request'[w].stage = "unhooked" /\ request'[w].crossed = b
    BY <2>3, <2>4 DEF Requests
  <2>6. QED  BY <2>1, <2>2, <2>5
<1>4. \A v \in Windows \ {w} : request[v] # None =>
         /\ request'[v].stage = request[v].stage /\ request'[v].repo = request[v].repo
         /\ request'[v].op = request[v].op /\ request'[v].project = request[v].project
         /\ request'[v].company = request[v].company /\ request'[v].gone = request[v].gone
         /\ request'[v].crossed <=> request[v].crossed \/ Called(request[v], e)
  <2>1. SUFFICES ASSUME NEW v \in Windows \ {w}, request[v] # None
                 PROVE  /\ request'[v].stage = request[v].stage
                        /\ request'[v].crossed <=> request[v].crossed \/ Called(request[v], e)
    BY <1>2 DEF Advanced
  <2>2. request[v] \in Requests /\ request[v].crossed \in BOOLEAN
    <3>1. request[v] \in Requests  BY <1>0, <2>1, Typed
    <3>2. QED  BY <3>1, RequestTyped
  <2>3. CASE Called(request[v], e)  BY <1>1, <2>2, <2>3 DEF Requests
  <2>4. CASE ~Called(request[v], e)  BY <1>1, <2>4
  <2>5. QED  BY <2>3, <2>4
<1>5. \A v \in Windows : request'[v] = None <=> request[v] = None  BY <1>2 DEF Advanced
<1>6. /\ hooks' \in [Repos -> SUBSET (1..MaxProjects)]
      /\ keys' \in [Repos -> SUBSET (1..MaxProjects)]
      /\ deaf' \subseteq Companies \X Repos
      /\ doubled' \subseteq Repos
      /\ hooks'[e] = {} /\ \A d \in Repos \ {e} : hooks'[d] = hooks[d]
  BY <1>0 DEF TypeOK
<1> HIDE DEF c, e
<1>7. /\ TypeOK' /\ Exclusive' /\ Born' /\ Identified' /\ Staged' /\ Paired'
      /\ Locking' /\ Syncing'
  BY <1>0, <1>2, <1>6, CallsKeepTables
<1>8. Crossing'
  <2>1. SUFFICES ASSUME NEW u \in Windows, NEW v \in Windows, NEW d \in Repos, u # v,
                        Calling(request'[u], d), Called(request'[v], d),
                        Calling(request'[v], d) \/ Wanted(request'[v])
                 PROVE  request'[v].crossed
    BY DEF Crossing, Calling, Called, Wanted
  <2>2. CASE v = w
    <3>1. d = e  BY <1>3, <2>1, <2>2 DEF Called
    <3>2. Calling(request[u], e)  BY <1>4, <1>5, <2>1, <2>2, <3>1 DEF Calling
    <3>3. QED  BY <1>3, <2>2, <3>2
  <2>3. CASE v # w
    <3>1. request[v] # None /\ Called(request[v], d)  BY <1>4, <1>5, <2>1, <2>3 DEF Called
    <3>2. CASE u = w
      <4>1. d = e  BY <1>3, <2>1, <3>2 DEF Calling
      <4>2. QED  BY <1>4, <2>3, <3>1, <4>1
    <3>3. CASE u # w
      <4>1. Calling(request[u], d)  BY <1>4, <1>5, <2>1, <3>3 DEF Calling
      <4>2. Calling(request[v], d) \/ Wanted(request[v])
        BY <1>4, <2>1, <2>3, <3>1 DEF Calling, Wanted
      <4>3. request[v].crossed  BY <2>1, <3>1, <4>1, <4>2 DEF IInv, Crossing
      <4>4. QED  BY <1>4, <2>3, <3>1, <4>3
    <3>4. QED  BY <3>2, <3>3
  <2>4. QED  BY <2>2, <2>3
<1>9. Hooked'
  <2>1. ASSUME NEW v \in Windows, request'[v] # None, ~request'[v].crossed
        PROVE  Done(request[v])'
    <3>1. CASE v = w  BY <1>3, <1>6, <3>1 DEF Done
    <3>2. CASE v # w
      <4>1. request[v] # None /\ ~request[v].crossed /\ ~Called(request[v], e)
        BY <1>4, <1>5, <2>1, <3>2
      <4>2. request[v].repo \in Repos  BY <1>0, <4>1, Typed, RequestTyped
      <4>3. Done(request[v])  BY <4>1 DEF IInv, Hooked
      <4>4. CASE request[v].repo # e
        BY <1>0, <1>4, <1>6, <3>2, <4>1, <4>2, <4>3, <4>4 DEF Done, Wanted, Listed
      <4>5. CASE request[v].repo = e
        BY <1>4, <3>2, <4>1, <4>5 DEF Called, Done
      <4>6. QED  BY <4>4, <4>5
    <3>3. QED  BY <3>1, <3>2
  <2>2. \A d \in Repos \ doubled' : \A i, j \in hooks'[d] : i = j
    BY <1>0, <1>6 DEF IInv, Hooked
  <2>3. QED  BY <2>1, <2>2 DEF Hooked
<1>10. Muted'
  <2>1. ASSUME NEW v \in Windows, NEW p \in projects, Calling(request'[v], p.repo)
        PROVE  \/ <<p.company, p.repo>> \in deaf' \cup overtaken
               \/ request'[v].company = p.company /\ ~request'[v].gone
    <3>1. p.company \in Companies  BY <1>0 DEF TypeOK, Projects
    <3>2. CASE v = w
      <4>1. p.repo = e  BY <1>3, <2>1, <3>2 DEF Calling
      <4>2. CASE p.company = c  BY <1>3, <3>2, <4>2
      <4>3. CASE p.company # c  BY <1>0, <3>1, <4>1, <4>3
      <4>4. QED  BY <4>2, <4>3
    <3>3. CASE v # w
      <4>1. request[v] # None /\ Calling(request[v], p.repo)
        BY <1>4, <1>5, <2>1, <3>3 DEF Calling
      <4>2. QED  BY <1>0, <1>4, <3>3, <4>1 DEF IInv, Muted
    <3>4. QED  BY <3>2, <3>3
  <2>2. QED  BY <1>0, <2>1 DEF Muted
<1>11. Listening'
  <2>1. ASSUME NEW p \in projects, p.repo \in Listed,
               <<p.company, p.repo>> \notin deaf' \cup overtaken
        PROVE  \/ Heard(p)'
               \/ \E v \in Windows : /\ Called(request'[v], p.repo)
                                     /\ request'[v].company = p.company /\ ~request'[v].gone
    <3>1. p.company \in Companies  BY <1>0 DEF TypeOK, Projects
    <3>2. CASE p.repo = e
      <4>1. p.company = c  BY <1>0, <2>1, <3>1, <3>2
      <4>2. QED  BY <1>3, <3>2, <4>1 DEF Called
    <3>3. CASE p.repo # e
      <4>1. p.repo \in Repos  BY <2>1 DEF Listed
      <4>2. CASE Heard(p)  BY <1>0, <1>6, <3>3, <4>1, <4>2 DEF Heard
      <4>3. CASE ~Heard(p)
        <5>1. PICK v \in Windows : /\ Called(request[v], p.repo)
                                   /\ request[v].company = p.company /\ ~request[v].gone
          BY <1>0, <2>1, <4>3 DEF IInv, Listening
        <5>2. v # w /\ request[v] # None  BY <1>0, <5>1 DEF Called
        <5>3. QED  BY <1>4, <1>5, <5>1, <5>2 DEF Called
      <4>4. QED  BY <4>2, <4>3
    <3>4. QED  BY <3>2, <3>3
  <2>2. QED  BY <1>0, <2>1 DEF Listening, Listed
<1>12. QED  BY <1>7, <1>8, <1>9, <1>10, <1>11 DEF IInv

\* The other three calls have this in common.
LEMMA CallKeeps ==
    ASSUME IInv, NEW w \in Windows, NEW stage, NEW next \in Stages,
           Call(w, stage, next), stage \in {"unhooked", "unkeyed", "hooked"},
           next \in {"unkeyed", "hooked", "done"},
           next \in {"unkeyed", "hooked"} => Wanted(request[w]),
           hooks' \in [Repos -> SUBSET (1..MaxProjects)],
           keys' \in [Repos -> SUBSET (1..MaxProjects)],
           doubled \subseteq doubled', doubled' \subseteq Repos, deaf' = deaf,
           \A d \in Repos \ {request[w].repo} : hooks'[d] = hooks[d] /\ keys'[d] = keys[d],
           \/ hooks' = hooks
           \/ request[w].stage = "unkeyed",
           request[w].repo \notin doubled' => \A i, j \in hooks'[request[w].repo] : i = j,
           ~request[w].crossed => Done(request[w])'
    PROVE  IInv'
<1> DEFINE c == request[w].company
           e == request[w].repo
<1>0. /\ request[w] # None /\ request[w].stage = stage
      /\ request' = [request EXCEPT ![w].stage = next]
      /\ UNCHANGED <<service, rows, projects, sync, created, sent, identity, overtaken>>
      /\ TypeOK /\ DOMAIN request = Windows /\ request[w] \in Requests
      /\ c \in Companies /\ e \in Repos
      /\ request[w].project # None
  <2>1. TypeOK /\ DOMAIN request = Windows  BY Typed DEF IInv
  <2>2. request[w] # None /\ request[w].stage = stage  BY DEF Call, At
  <2>3. request[w] \in Requests  BY <2>1, <2>2, Typed
  <2>4. c \in Companies /\ e \in Repos  BY <2>3, RequestTyped
  <2>5. request[w].project # None  BY <2>2 DEF IInv, Staged
  <2>6. QED  BY <2>1, <2>2, <2>3, <2>4, <2>5 DEF Call, tables
<1>1. /\ request'[w] = [request[w] EXCEPT !.stage = next]
      /\ \A v \in Windows \ {w} : request'[v] = request[v]
  BY <1>0
<1>2. /\ request'[w].stage = next /\ request'[w].op = request[w].op
      /\ request'[w].company = c /\ request'[w].repo = e
      /\ request'[w].copy = request[w].copy /\ request'[w].project = request[w].project
      /\ request'[w].fresh = request[w].fresh /\ request'[w].gone = request[w].gone
      /\ request'[w].overtaken = request[w].overtaken
      /\ request'[w].crossed = request[w].crossed
      /\ request'[w] \in Requests /\ request'[w] # None
  <2>1. request'[w] \in Requests  BY <1>0, <1>1 DEF Requests
  <2>2. request'[w] # None  BY <2>1, NoneAssumption
  <2>3. QED  BY <1>0, <1>1, <2>1, <2>2 DEF Requests
<1>3. /\ request' \in [Windows -> Requests \cup {None}]
      /\ \A v \in Windows : Advanced(v)
  <2>1. Advanced(w)  BY <1>0, <1>2 DEF Advanced
  <2>2. \A v \in Windows \ {w} : Advanced(v)  BY <1>1 DEF Advanced
  <2>3. QED  BY <1>0, <1>2, <2>1, <2>2 DEF TypeOK
<1>4. /\ TypeOK' /\ Exclusive' /\ Born' /\ Identified' /\ Staged' /\ Paired'
      /\ Locking' /\ Syncing'
  <2>1. deaf' \subseteq Companies \X Repos  BY <1>0 DEF TypeOK
  <2>2. QED  BY <1>0, <1>3, <2>1, CallsKeepTables
<1>5. Calling(request[w], e) /\ Called(request[w], e) /\ Called(request'[w], e)
  BY <1>0, <1>2 DEF Calling, Called
<1>6. \A v \in Windows \ {w} :
         /\ Called(request[v], e)
         /\ Calling(request[v], e) \/ Wanted(request[v])
         => request[v].crossed
  BY <1>0, <1>5 DEF IInv, Crossing
<1> HIDE DEF c, e
<1>7. Crossing'
  <2>1. SUFFICES ASSUME NEW u \in Windows, NEW v \in Windows, NEW d \in Repos, u # v,
                        Calling(request'[u], d), Called(request'[v], d),
                        Calling(request'[v], d) \/ Wanted(request'[v])
                 PROVE  request'[v].crossed
    BY DEF Crossing, Calling, Called, Wanted
  <2>2. Calling(request[u], d)
    <3>1. CASE u = w  BY <1>2, <1>5, <2>1, <3>1 DEF Calling
    <3>2. CASE u # w  BY <1>1, <2>1, <3>2
    <3>3. QED  BY <3>1, <3>2
  <2>3. CASE v = w
    <3>1. d = e  BY <1>2, <2>1, <2>3 DEF Called
    <3>2. request[w].crossed  BY <1>5, <2>1, <2>2, <2>3, <3>1 DEF IInv, Crossing
    <3>3. QED  BY <1>2, <2>3, <3>2
  <2>4. CASE v # w  BY <1>1, <2>1, <2>2, <2>4 DEF IInv, Crossing
  <2>5. QED  BY <2>3, <2>4
<1>8. Hooked'
  <2>1. ASSUME NEW v \in Windows, request'[v] # None, ~request'[v].crossed
        PROVE  Done(request[v])'
    <3>1. CASE v = w
      <4>1. ~request[w].crossed  BY <1>2, <2>1, <3>1
      <4>2. QED  BY <1>1, <3>1, <4>1
    <3>2. CASE v # w
      <4>1. request'[v] = request[v] /\ request[v] # None  BY <1>1, <2>1, <3>2
      <4>2. request[v].repo \in Repos /\ request[v].stage \in Stages
        BY <1>0, <4>1, Typed, RequestTyped
      <4>3. Done(request[v])  BY <2>1, <4>1 DEF IInv, Hooked
      <4>4. CASE request[v].repo # e
        BY <1>0, <4>1, <4>2, <4>3, <4>4 DEF Done, Wanted, Listed, e
      <4>5. CASE request[v].repo = e
        <5>1. ~Called(request[v], e) \/ (~Calling(request[v], e) /\ ~Wanted(request[v]))
          BY <1>6, <2>1, <3>2, <4>1
        <5>2. QED  BY <4>1, <4>5, <5>1 DEF Done, Called, Calling
      <4>6. QED  BY <4>4, <4>5
    <3>3. QED  BY <3>1, <3>2
  <2>2. \A d \in Repos \ doubled' : \A i, j \in hooks'[d] : i = j
    <3>1. \A d \in Repos \ doubled' : d # e => \A i, j \in hooks'[d] : i = j
      BY DEF IInv, Hooked, e
    <3>2. QED  BY <3>1 DEF e
  <2>3. QED  BY <2>1, <2>2 DEF Hooked
<1>9. Muted'
  <2>1. ASSUME NEW v \in Windows, NEW p \in projects, Calling(request'[v], p.repo)
        PROVE  \/ <<p.company, p.repo>> \in deaf \cup overtaken
               \/ request'[v].company = p.company /\ ~request'[v].gone
    <3>1. CASE v = w
      <4>1. p.repo = e  BY <1>2, <2>1, <3>1 DEF Calling
      <4>2. QED  BY <1>2, <1>5, <3>1, <4>1 DEF IInv, Muted, c
    <3>2. CASE v # w  BY <1>1, <2>1, <3>2 DEF IInv, Muted
    <3>3. QED  BY <3>1, <3>2
  <2>2. QED  BY <1>0, <2>1 DEF Muted
<1>10. Listening'
  <2>1. ASSUME NEW p \in projects, p.repo \in Listed,
               <<p.company, p.repo>> \notin deaf \cup overtaken
        PROVE  \/ Heard(p)'
               \/ \E v \in Windows : /\ Called(request'[v], p.repo)
                                     /\ request'[v].company = p.company /\ ~request'[v].gone
    <3>1. p.repo \in Repos  BY <2>1 DEF Listed
    <3>2. CASE p.repo = e
      <4>1. request[w].company = p.company /\ ~request[w].gone
        BY <1>5, <2>1, <3>2 DEF IInv, Muted
      <4>2. QED  BY <1>2, <1>5, <3>2, <4>1 DEF c
    <3>3. CASE p.repo # e
      <4>1. CASE Heard(p)  BY <3>1, <3>3, <4>1 DEF Heard, e
      <4>2. CASE ~Heard(p)
        <5>1. PICK v \in Windows : /\ Called(request[v], p.repo)
                                   /\ request[v].company = p.company /\ ~request[v].gone
          BY <1>0, <2>1, <4>2 DEF IInv, Listening
        <5>2. v # w  BY <3>3, <5>1 DEF Called, e
        <5>3. QED  BY <1>1, <5>1, <5>2
      <4>3. QED  BY <4>1, <4>2
    <3>4. QED  BY <3>2, <3>3
  <2>2. QED  BY <1>0, <2>1 DEF Listening, Listed
<1>11. QED  BY <1>4, <1>7, <1>8, <1>9, <1>10 DEF IInv

LEMMA DestroyKeysKeeps ==
    ASSUME IInv, NEW w \in Windows, DestroyKeys(w)
    PROVE  IInv'
<1> DEFINE e == request[w].repo
           r == request[w]
<1>0. /\ r # None /\ r.stage = "unhooked" /\ TypeOK /\ r \in Requests /\ e \in Repos
  <2>1. TypeOK /\ r # None /\ r.stage = "unhooked"
    BY DEF IInv, DestroyKeys, Call, At
  <2>2. r \in Requests  BY <2>1, Typed
  <2>3. QED  BY <2>1, <2>2, RequestTyped
<1>1. PICK next \in {"unkeyed", "done"} : next = IF Wanted(r) THEN "unkeyed" ELSE "done"
  OBVIOUS
<1>2. /\ Call(w, "unhooked", next) /\ keys' = [keys EXCEPT ![e] = {}]
      /\ UNCHANGED <<hooks, deaf, doubled>>
  BY <1>1 DEF DestroyKeys
<1>3. /\ hooks' \in [Repos -> SUBSET (1..MaxProjects)]
      /\ keys' \in [Repos -> SUBSET (1..MaxProjects)]
      /\ keys'[e] = {} /\ doubled' \subseteq Repos
      /\ \A d \in Repos \ {e} : hooks'[d] = hooks[d] /\ keys'[d] = keys[d]
  BY <1>0, <1>2 DEF TypeOK
<1>4. ~r.crossed => Done(request[w])'
  <2>1. SUFFICES ASSUME ~r.crossed PROVE Done(request[w])'  OBVIOUS
  <2>2. hooks[e] = {}  BY <1>0, <2>1 DEF IInv, Hooked, Done
  <2>3. request'[w] = [r EXCEPT !.stage = next]  BY <1>0, <1>2, Typed DEF Call
  <2>4. /\ request'[w].stage = next /\ request'[w].repo = e /\ request'[w].op = r.op
    BY <1>0, <2>3 DEF Requests
  <2>5. QED  BY <1>1, <1>2, <1>3, <2>2, <2>4 DEF Done, Wanted
<1>5. \A i, j \in hooks'[e] : e \notin doubled' => i = j
  BY <1>0, <1>2 DEF IInv, Hooked
<1> HIDE DEF e, r
<1>6. next \in Stages /\ (next \in {"unkeyed", "hooked"} => Wanted(r))  BY <1>1 DEF Stages
<1>7. QED  BY <1>0, <1>2, <1>3, <1>4, <1>5, <1>6, CallKeeps DEF e, r

LEMMA CreateHookKeeps ==
    ASSUME IInv, NEW w \in Windows, CreateHook(w)
    PROVE  IInv'
<1> DEFINE e == request[w].repo
           r == request[w]
<1>0. /\ r # None /\ r.stage = "unkeyed" /\ TypeOK /\ r \in Requests /\ e \in Repos
      /\ Wanted(r) /\ r.project # None /\ r.project.id \in 1..MaxProjects
      /\ DOMAIN request = Windows
  <2>1. TypeOK /\ r # None /\ r.stage = "unkeyed"
    BY DEF IInv, CreateHook, Call, At
  <2>2. r \in Requests  BY <2>1, Typed
  <2>3. Wanted(r) /\ r.project # None  BY <2>1 DEF IInv, Staged
  <2>4. r.project \in Projects  BY <2>2, <2>3, RequestTyped
  <2>5. r.project.id \in 1..MaxProjects  BY <2>4 DEF Projects
  <2>6. QED  BY <2>1, <2>2, <2>3, <2>5, RequestTyped, Typed
<1>1. /\ Call(w, "unkeyed", "hooked")
      /\ hooks' = [hooks EXCEPT ![e] = @ \cup {r.project.id}]
      /\ doubled' = IF r.crossed THEN doubled \cup {e} ELSE doubled
      /\ UNCHANGED <<keys, deaf>>
      /\ request' = [request EXCEPT ![w].stage = "hooked"]
  BY DEF CreateHook, Call
<1>2. /\ hooks' \in [Repos -> SUBSET (1..MaxProjects)]
      /\ keys' \in [Repos -> SUBSET (1..MaxProjects)]
      /\ hooks'[e] = hooks[e] \cup {r.project.id}
      /\ doubled \subseteq doubled' /\ doubled' \subseteq Repos
      /\ \A d \in Repos \ {e} : hooks'[d] = hooks[d] /\ keys'[d] = keys[d]
  BY <1>0, <1>1 DEF TypeOK
<1>3. ~r.crossed => hooks[e] = {} /\ (e \in Listed => keys[e] = {})
  BY <1>0 DEF IInv, Hooked, Done
<1>4. e \notin doubled' => \A i, j \in hooks'[e] : i = j  BY <1>0, <1>1, <1>2, <1>3
<1>5. ~r.crossed => Done(request[w])'
  <2>1. /\ request'[w].stage = "hooked" /\ request'[w].repo = e
        /\ request'[w].project = r.project
    BY <1>0, <1>1 DEF Requests
  <2>2. Listed' = Listed  BY <1>1 DEF Call, Listed
  <2>3. QED  BY <1>1, <1>2, <1>3, <2>1, <2>2 DEF Done
<1> HIDE DEF e, r
<1>6. "hooked" \in Stages  BY DEF Stages
<1>7. QED  BY <1>0, <1>1, <1>2, <1>4, <1>5, <1>6, CallKeeps DEF e, r

LEMMA CreateKeyKeeps ==
    ASSUME IInv, NEW w \in Windows, CreateKey(w)
    PROVE  IInv'
<1> DEFINE e == request[w].repo
           r == request[w]
<1>0. /\ r # None /\ r.stage = "hooked" /\ TypeOK /\ r \in Requests /\ e \in Repos
      /\ Wanted(r) /\ r.project # None /\ r.project.id \in 1..MaxProjects
      /\ DOMAIN request = Windows
  <2>1. TypeOK /\ r # None /\ r.stage = "hooked"
    BY DEF IInv, CreateKey, Call, At
  <2>2. r \in Requests  BY <2>1, Typed
  <2>3. Wanted(r) /\ r.project # None  BY <2>1 DEF IInv, Staged
  <2>4. r.project \in Projects  BY <2>2, <2>3, RequestTyped
  <2>5. r.project.id \in 1..MaxProjects  BY <2>4 DEF Projects
  <2>6. QED  BY <2>1, <2>2, <2>3, <2>5, RequestTyped, Typed
<1>1. /\ Call(w, "hooked", "done")
      /\ keys' = [keys EXCEPT ![e] = @ \cup {r.project.id}]
      /\ UNCHANGED <<hooks, deaf, doubled>>
      /\ request' = [request EXCEPT ![w].stage = "done"]
  BY DEF CreateKey, Call
<1>2. /\ hooks' \in [Repos -> SUBSET (1..MaxProjects)]
      /\ keys' \in [Repos -> SUBSET (1..MaxProjects)]
      /\ keys'[e] = keys[e] \cup {r.project.id}
      /\ doubled \subseteq doubled' /\ doubled' \subseteq Repos
      /\ \A d \in Repos \ {e} : hooks'[d] = hooks[d] /\ keys'[d] = keys[d]
  BY <1>0, <1>1 DEF TypeOK
<1>3. ~r.crossed => (e \in Listed => hooks[e] = {r.project.id} /\ keys[e] = {})
  BY <1>0 DEF IInv, Hooked, Done
<1>4. e \notin doubled' => \A i, j \in hooks'[e] : i = j
  BY <1>0, <1>1 DEF IInv, Hooked
<1>5. ~r.crossed => Done(request[w])'
  <2>1. /\ request'[w].stage = "done" /\ request'[w].repo = e
        /\ request'[w].project = r.project
    BY <1>0, <1>1 DEF Requests
  <2>2. Listed' = Listed  BY <1>1 DEF Call, Listed
  <2>3. QED  BY <1>1, <1>2, <1>3, <2>1, <2>2 DEF Done
<1> HIDE DEF e, r
<1>6. "done" \in Stages  BY DEF Stages
<1>7. QED  BY <1>0, <1>1, <1>2, <1>4, <1>5, <1>6, CallKeeps DEF e, r

LEMMA FailKeeps ==
    ASSUME IInv, NEW w \in Windows, Fail(w)
    PROVE  IInv'
<1>0. /\ request[w] # None /\ request' = [request EXCEPT ![w] = None]
      /\ deaf' = IF Called(request[w], request[w].repo)
                 THEN deaf \cup {<<request[w].company, request[w].repo>>} ELSE deaf
      /\ UNCHANGED <<service, hooks, keys, rows, projects, sync, created, sent, identity,
                     doubled, overtaken>>
      /\ TypeOK /\ request[w] \in Requests
  <2>1. request[w] # None /\ TypeOK  BY DEF Fail, IInv
  <2>2. QED  BY <2>1, Typed DEF Fail, serviceVars, tables
<1>1. request'[w] = None /\ \A v \in Windows \ {w} : request'[v] = request[v]
  BY <1>0 DEF TypeOK
<1>2. /\ request' \in [Windows -> Requests \cup {None}]
      /\ deaf' \subseteq Companies \X Repos /\ deaf \subseteq deaf'
  BY <1>0, RequestTyped DEF TypeOK
<1>3. TypeOK'  BY <1>0, <1>2 DEF TypeOK, RowsOf
<1>4. Exclusive'  BY <1>0, <1>1 DEF IInv, Exclusive
<1>5. Born'  BY <1>0, <1>1 DEF IInv, Born, Listed
<1>6. Identified'
  <2>1. Loaded' \subseteq Loaded  BY <1>0, <1>1 DEF Loaded
  <2>2. Fresh' \subseteq Fresh /\ \A v \in Fresh' : request'[v] = request[v]
    BY <1>0, <1>1 DEF Fresh
  <2>3. QED  BY <1>0, <1>1, <2>1, <2>2 DEF IInv, Identified, Same
<1>7. Staged'  BY <1>0, <1>1 DEF IInv, Staged, Wanted
<1>8. Paired'
  <2>1. \A v \in Windows \ {w} : Informed(request[v])' <=> Informed(request[v])
    BY <1>0, <1>1 DEF Informed, ProjectsOf
  <2>2. QED  BY <1>0, <1>1, <2>1 DEF IInv, Paired, RowsOf, ProjectsOf
<1>9. Locking'  BY <1>0, <1>1 DEF IInv, Locking, HasLock, For
<1>10. Syncing'  BY <1>0, SyncingKept DEF IInv, tables
<1>11. Crossing'  BY <1>0, <1>1 DEF IInv, Crossing, Calling, Called
<1>12. Hooked'  BY <1>0, <1>1 DEF IInv, Hooked, Done, Wanted, Listed
<1>13. Muted'  BY <1>0, <1>1, <1>2 DEF IInv, Muted, Calling
<1>14. Listening'
  <2>1. ASSUME NEW p \in projects, p.repo \in Listed,
               <<p.company, p.repo>> \notin deaf' \cup overtaken, ~Heard(p)
        PROVE  \E v \in Windows : /\ Called(request'[v], p.repo)
                                  /\ request'[v].company = p.company /\ ~request'[v].gone
    <3>1. PICK v \in Windows : /\ Called(request[v], p.repo)
                               /\ request[v].company = p.company /\ ~request[v].gone
      BY <1>2, <2>1 DEF IInv, Listening
    <3>2. v # w  BY <1>0, <2>1, <3>1 DEF Called
    <3>3. QED  BY <1>1, <3>1, <3>2
  <2>2. QED  BY <1>0, <2>1 DEF Listening, Listed, Heard
<1>15. QED  BY <1>3, <1>4, <1>5, <1>6, <1>7, <1>8, <1>9, <1>10, <1>11, <1>12, <1>13,
               <1>14 DEF IInv

-----------------------------------------------------------------------------
(* The identity and the service                                             *)

\* What crossing does to a request.
LEMMA Crossed ==
    ASSUME TypeOK, NEW E, NEW v \in Windows
    PROVE  /\ Cross(E)[v] = None <=> request[v] = None
           /\ request[v] # None =>
                 /\ Cross(E)[v] \in Requests
                 /\ Cross(E)[v].op = request[v].op /\ Cross(E)[v].company = request[v].company
                 /\ Cross(E)[v].repo = request[v].repo /\ Cross(E)[v].copy = request[v].copy
                 /\ Cross(E)[v].stage = request[v].stage
                 /\ Cross(E)[v].project = request[v].project
                 /\ Cross(E)[v].fresh = request[v].fresh /\ Cross(E)[v].gone = request[v].gone
                 /\ Cross(E)[v].overtaken = request[v].overtaken
                 /\ Cross(E)[v].crossed <=>
                       request[v].crossed \/ \E e \in E : Called(request[v], e)
<1>1. CASE \E e \in E : Called(request[v], e)
  <2>1. request[v] # None  BY <1>1 DEF Called
  <2>2. request[v] \in Requests  BY <2>1, Typed
  <2>3. Cross(E)[v] = [request[v] EXCEPT !.crossed = TRUE]  BY <1>1 DEF Cross
  <2>4. Cross(E)[v] \in Requests  BY <2>2, <2>3 DEF Requests
  <2>5. Cross(E)[v] # None  BY <2>4, NoneAssumption
  <2>6. /\ Cross(E)[v].op = request[v].op /\ Cross(E)[v].company = request[v].company
        /\ Cross(E)[v].repo = request[v].repo /\ Cross(E)[v].copy = request[v].copy
        /\ Cross(E)[v].stage = request[v].stage
        /\ Cross(E)[v].project = request[v].project
        /\ Cross(E)[v].fresh = request[v].fresh /\ Cross(E)[v].gone = request[v].gone
        /\ Cross(E)[v].overtaken = request[v].overtaken
        /\ Cross(E)[v].crossed
    BY <2>2, <2>3 DEF Requests
  <2>7. QED  BY <1>1, <2>1, <2>4, <2>5, <2>6
<1>2. CASE ~\E e \in E : Called(request[v], e)
  <2>1. Cross(E)[v] = request[v]  BY <1>2 DEF Cross
  <2>2. request[v] # None => request[v].crossed \in BOOLEAN  BY Typed, RequestTyped
  <2>3. QED  BY <1>2, <2>1, <2>2, Typed
<1>3. QED  BY <1>1, <1>2

LEMMA DestroyIdentityFailsKeeps ==
    ASSUME IInv, NEW e \in Repos, NEW S \in SUBSET Repos, DestroyIdentityFails(e, S)
    PROVE  IInv'
<1>0. /\ hooks' = [d \in Repos |-> IF d \in S THEN {} ELSE hooks[d]]
      /\ keys' = [d \in Repos |-> IF d \in S \ {e} THEN {} ELSE keys[d]]
      /\ deaf' = deaf \cup (Companies \X S)
      /\ request' = Cross(S)
      /\ UNCHANGED <<service, rows, projects, sync, created, sent, identity, doubled, overtaken>>
      /\ TypeOK
  BY DEF DestroyIdentityFails, tables, IInv
<1>1. \A v \in Windows :
         /\ request'[v] = None <=> request[v] = None
         /\ request[v] # None =>
               /\ request'[v].op = request[v].op /\ request'[v].company = request[v].company
               /\ request'[v].repo = request[v].repo /\ request'[v].copy = request[v].copy
               /\ request'[v].stage = request[v].stage
               /\ request'[v].project = request[v].project
               /\ request'[v].fresh = request[v].fresh /\ request'[v].gone = request[v].gone
               /\ request'[v].overtaken = request[v].overtaken
               /\ request'[v].crossed <=>
                     request[v].crossed \/ \E d \in S : Called(request[v], d)
  BY <1>0, Crossed
<1>2. /\ request' \in [Windows -> Requests \cup {None}]
      /\ \A v \in Windows : Advanced(v)
  <2>1. \A v \in Windows : request'[v] \in Requests \cup {None}  BY <1>0, Crossed
  <2>2. request' = [v \in Windows |-> request'[v]]  BY <1>0 DEF Cross
  <2>3. QED  BY <1>1, <2>1, <2>2 DEF Advanced
<1>3. /\ hooks' \in [Repos -> SUBSET (1..MaxProjects)]
      /\ keys' \in [Repos -> SUBSET (1..MaxProjects)]
      /\ deaf' \subseteq Companies \X Repos
      /\ doubled' \subseteq Repos
  BY <1>0 DEF TypeOK
<1>4. /\ TypeOK' /\ Exclusive' /\ Born' /\ Identified' /\ Staged' /\ Paired'
      /\ Locking' /\ Syncing'
  BY <1>0, <1>2, <1>3, CallsKeepTables
<1>5. Crossing'  BY <1>1 DEF IInv, Crossing, Calling, Called, Wanted
<1>6. Hooked'
  <2>1. ASSUME NEW v \in Windows, request'[v] # None, ~request'[v].crossed
        PROVE  Done(request[v])'
    <3>1. request[v] # None /\ ~request[v].crossed /\ \A d \in S : ~Called(request[v], d)
      BY <1>1, <2>1
    <3>2. request[v].repo \in Repos  BY <1>0, <3>1, Typed, RequestTyped
    <3>3. Done(request[v])  BY <3>1 DEF IInv, Hooked
    <3>4. CASE request[v].repo \notin S
      BY <1>0, <1>1, <3>1, <3>2, <3>3, <3>4 DEF Done, Wanted, Listed
    <3>5. CASE request[v].repo \in S
      BY <1>1, <3>1, <3>5 DEF Called, Done
    <3>6. QED  BY <3>4, <3>5
  <2>2. \A d \in Repos \ doubled' : \A i, j \in hooks'[d] : i = j
    BY <1>0 DEF IInv, Hooked
  <2>3. QED  BY <2>1, <2>2 DEF Hooked
<1>7. Muted'  BY <1>0, <1>1 DEF IInv, Muted, Calling
<1>8. Listening'
  <2>1. ASSUME NEW p \in projects, p.repo \in Listed,
               <<p.company, p.repo>> \notin deaf' \cup overtaken, ~Heard(p)'
        PROVE  \E v \in Windows : /\ Called(request'[v], p.repo)
                                  /\ request'[v].company = p.company /\ ~request'[v].gone
    <3>1. p.repo \in Repos /\ p.company \in Companies
      BY <1>0, <2>1 DEF Listed, TypeOK, Projects
    <3>2. p.repo \notin S  BY <1>0, <2>1, <3>1
    <3>3. ~Heard(p)  BY <1>0, <2>1, <3>1, <3>2 DEF Heard
    <3>4. PICK v \in Windows : /\ Called(request[v], p.repo)
                               /\ request[v].company = p.company /\ ~request[v].gone
      BY <1>0, <2>1, <3>3 DEF IInv, Listening
    <3>5. QED  BY <1>1, <3>4 DEF Called
  <2>2. QED  BY <1>0, <2>1 DEF Listening, Listed, Heard
<1>9. QED  BY <1>4, <1>5, <1>6, <1>7, <1>8 DEF IInv

\* Steps that leave rows, projects and transactions alone.
LEMMA TablesKept ==
    ASSUME IInv, UNCHANGED <<rows, projects, request, sync, created, sent, deaf, doubled, overtaken>>,
           \A e \in Repos : service[e] # "unborn" => service'[e] # "unborn",
           identity' # "none" \/ identity' = identity
    PROVE  /\ Exclusive' /\ Identified' /\ Staged' /\ Paired' /\ Locking' /\ Syncing'
           /\ Crossing' /\ Muted'
           /\ (\A d, e \in Listed : service[d] = service[e] => d = e)' => Born'
<1>0. TypeOK  BY DEF IInv
<1>1. Exclusive'  BY DEF IInv, Exclusive
<1>2. Identified'
  <2>1. Loaded' = Loaded /\ Fresh' = Fresh  BY DEF Loaded, Fresh
  <2>2. QED  BY <2>1 DEF IInv, Identified, Same
<1>3. Staged'  BY DEF IInv, Staged, Wanted
<1>4. Paired'  BY DEF IInv, Paired, RowsOf, ProjectsOf, Informed, Changes, Wanted
<1>5. Locking'  BY DEF IInv, Locking, HasLock, For, Changes, Wanted
<1>6. Syncing'  BY SyncingKept DEF IInv, tables
<1>7. Crossing'  BY DEF IInv, Crossing, Calling, Called, Wanted
<1>8. Muted'  BY DEF IInv, Muted, Calling
<1>9. (\A d, e \in Listed : service[d] = service[e] => d = e)' => Born'
  <2>1. \A w \in Windows : request[w] # None => request[w].repo \in Repos
    BY <1>0, Typed, RequestTyped
  <2>2. QED  BY <2>1 DEF IInv, Born
<1>10. QED  BY <1>1, <1>2, <1>3, <1>4, <1>5, <1>6, <1>7, <1>8, <1>9

LEMMA SaveIdentityKeeps ==
    ASSUME IInv, SaveIdentity
    PROVE  IInv'
<1>0. /\ identity' \in {"supported", "ignored"}
      /\ UNCHANGED <<service, hooks, keys, rows, projects, request, sync, created, sent,
                     deaf, doubled, overtaken>>
  BY DEF SaveIdentity, serviceVars, tables, marks
<1>1. TypeOK'  BY <1>0 DEF IInv, TypeOK, RowsOf
<1>2. Born'  BY <1>0 DEF IInv, Born, Listed
<1>3. Hooked'  BY <1>0 DEF IInv, Hooked, Done, Wanted, Listed
<1>4. Listening'  BY <1>0 DEF IInv, Listening, Listed, Heard, Called
<1>5. QED  BY <1>0, <1>1, <1>2, <1>3, <1>4, TablesKept DEF IInv

LEMMA RenameRepoKeeps ==
    ASSUME IInv, NEW e \in Repos, NEW n \in Names, RenameRepo(e, n)
    PROVE  IInv'
<1>0. /\ service' = [service EXCEPT ![e] = n] /\ NameFree(n)
      /\ e \in Listed \/ service[e] = "unborn"
      /\ UNCHANGED <<hooks, keys, rows, projects, request, sync, created, sent, identity,
                     deaf, doubled, overtaken>>
      /\ TypeOK
  BY DEF RenameRepo, tables, marks, IInv
<1>1. /\ n \notin {"unborn", "gone"}
      /\ service'[e] = n /\ \A d \in Repos \ {e} : service'[d] = service[d]
  BY <1>0, NamesAssumption DEF TypeOK
<1>2. \A d \in Repos : service[d] # "unborn" => service'[d] # "unborn"  BY <1>1
<1>3. TypeOK'  BY <1>0 DEF TypeOK, RowsOf
<1>4. (\A d, x \in Listed : service[d] = service[x] => d = x)'
  BY <1>0, <1>1 DEF IInv, Born, Listed, NameFree
<1>5. \A d \in Repos : service[d] # "unborn" => (d \in Listed' <=> d \in Listed)
  BY <1>0, <1>1 DEF Listed
<1>6. Hooked'
  <2>1. ASSUME NEW v \in Windows, request[v] # None, ~request[v].crossed
        PROVE  Done(request[v])'
    <3>1. request[v].repo \in Repos  BY <1>0, <2>1, Typed, RequestTyped
    <3>2. service[request[v].repo] # "unborn"  BY <2>1 DEF IInv, Born
    <3>3. Done(request[v])  BY <2>1 DEF IInv, Hooked
    <3>4. QED  BY <1>0, <1>5, <3>1, <3>2, <3>3 DEF Done, Wanted
  <2>2. QED  BY <1>0, <2>1 DEF IInv, Hooked
<1>7. Listening'
  <2>1. ASSUME NEW p \in projects, p.repo \in Listed'
        PROVE  p.repo \in Listed
    <3>1. p.repo \in Repos /\ p.company \in Companies
      BY <1>0, <2>1 DEF Listed, TypeOK, Projects
    <3>2. p.repo # None  BY <3>1, NoneAssumption
    <3>3. service[p.repo] # "unborn"  BY <3>1, <3>2 DEF IInv, Born
    <3>4. QED  BY <1>5, <2>1, <3>1, <3>3
  <2>2. QED  BY <1>0, <2>1 DEF IInv, Listening, Heard, Called
<1>8. QED  BY <1>0, <1>2, <1>3, <1>4, <1>6, <1>7, TablesKept DEF IInv

LEMMA RemoveRepoKeeps ==
    ASSUME IInv, NEW e \in Repos, RemoveRepo(e)
    PROVE  IInv'
<1>0. /\ service' = [service EXCEPT ![e] = "gone"]
      /\ hooks' = [hooks EXCEPT ![e] = {}] /\ keys' = [keys EXCEPT ![e] = {}]
      /\ UNCHANGED <<rows, projects, request, sync, created, sent, identity,
                     deaf, doubled, overtaken>>
      /\ TypeOK
  BY DEF RemoveRepo, tables, marks, IInv
<1>1. /\ service'[e] = "gone" /\ hooks'[e] = {}
      /\ \A d \in Repos \ {e} : /\ service'[d] = service[d]
                                /\ hooks'[d] = hooks[d] /\ keys'[d] = keys[d]
  BY <1>0 DEF TypeOK
<1>2. Listed' = Listed \ {e}  BY <1>1, NamesAssumption DEF Listed
<1>3. TypeOK'  BY <1>0 DEF TypeOK, RowsOf
<1>4. (\A d, x \in Listed : service[d] = service[x] => d = x)'
  BY <1>1, <1>2 DEF IInv, Born, Listed
<1>5. Hooked'
  <2>1. ASSUME NEW v \in Windows, request[v] # None, ~request[v].crossed
        PROVE  Done(request[v])'
    <3>1. request[v].repo \in Repos  BY <1>0, <2>1, Typed, RequestTyped
    <3>2. Done(request[v])  BY <2>1 DEF IInv, Hooked
    <3>3. QED  BY <1>0, <1>1, <1>2, <3>1, <3>2 DEF Done, Wanted
  <2>2. QED  BY <1>0, <1>1, <2>1 DEF IInv, Hooked
<1>6. Listening'
  <2>1. \A p \in projects : p.repo \in Listed' => p.repo \in Listed /\ p.repo \in Repos /\ p.repo # e
    BY <1>2 DEF Listed
  <2>2. QED  BY <1>0, <1>1, <2>1 DEF IInv, Listening, Heard, Called
<1>7. \A d \in Repos : service[d] # "unborn" => service'[d] # "unborn"  BY <1>1
<1>8. QED  BY <1>0, <1>3, <1>4, <1>5, <1>6, <1>7, TablesKept DEF IInv

-----------------------------------------------------------------------------
(* The steps of a sync                                                      *)

\* What the sync is told, and what it knows of projects and locks.
Told(s) ==
    /\ \A e \in DOMAIN s.listed : e \in Repos /\ service[e] # "unborn"
    /\ s.listed \in [DOMAIN s.listed -> Names]
    /\ \A d, e \in DOMAIN s.listed : s.listed[d] = s.listed[e] => d = e

Knows(s) ==
    /\ \A p \in s.doomed : /\ p.company = s.company /\ p.repo \in s.destroyed
                           /\ p \in projects \cup Loaded
    /\ s.victim # None /\ s.victim.project # None =>
          /\ s.victim.project.company = s.company
          /\ s.victim.project.repo = s.victim.repo
          /\ s.victim.project \in projects \cup Loaded

Holds(w, s) ==
    /\ \A e \in s.written : \A v \in Windows : ~HasLock(v, s.company, e)
    /\ \A v \in Windows \ {w} : sync[v] # None /\ sync[v].company = s.company
          => sync[v].written \cap s.written = {}

LEMMA SyncStepKeeps ==
    ASSUME IInv, NEW w \in Windows, request[w] = None, NEW s \in Syncs \cup {None},
           sync' = [sync EXCEPT ![w] = s], sent' \in 0..MaxRequests,
           UNCHANGED <<service, hooks, keys, rows, projects, request, created, identity,
                       deaf, doubled, overtaken>>,
           s # None => /\ identity # "none" /\ Told(s) /\ Knows(s) /\ Holds(w, s)
                       /\ Written(s) /\ Mirrored(s) /\ Displaced(s)
    PROVE  IInv'
<1>0. TypeOK  BY DEF IInv
<1>1. sync'[w] = s /\ \A v \in Windows \ {w} : sync'[v] = sync[v]
  BY <1>0 DEF TypeOK
<1>2. TypeOK'  BY <1>0 DEF TypeOK, RowsOf
<1>3. Exclusive'  BY <1>1 DEF IInv, Exclusive
<1>4. Born'  BY <1>1 DEF IInv, Born, Listed, Told
<1>5. Identified'
  <2>1. \A p \in Loaded' : p \in Loaded \cup projects
    <3>1. \A p \in Projects : p # None  BY NoneAssumption
    <3>2. QED  BY <1>1, <3>1 DEF Loaded, Knows
  <2>2. Fresh' = Fresh /\ Fresh \subseteq Windows  BY DEF Fresh
  <2>3. \A p \in Loaded', q \in projects : q.id = p.id => Same(q, p)
    BY <2>1 DEF IInv, Identified, Same
  <2>4. QED  BY <1>1, <2>1, <2>2, <2>3 DEF IInv, Identified, Knows, Same
<1>6. Staged'  BY DEF IInv, Staged, Wanted
<1>7. Paired'  BY DEF IInv, Paired, RowsOf, ProjectsOf, Informed, Changes, Wanted
<1>8. Locking'
  <2>1. \A v \in Windows : \A c, e : HasLock(v, c, e)' <=> HasLock(v, c, e)
    BY DEF HasLock, For, Changes, Wanted
  <2>2. ASSUME NEW v \in Windows, sync'[v] # None
        PROVE  /\ \A e \in sync'[v].written : \A u \in Windows : ~HasLock(u, sync'[v].company, e)
               /\ \A u \in Windows \ {v} : sync'[u] # None /\ sync'[u].company = sync'[v].company
                     => sync'[u].written \cap sync'[v].written = {}
    <3>1. CASE v = w  BY <1>1, <2>2, <3>1 DEF Holds
    <3>2. CASE v # w
      <4>1. sync'[v] = sync[v] /\ sync[v] # None  BY <1>1, <2>2, <3>2
      <4>2. \A u \in Windows \ {v} : sync'[u] # None /\ sync'[u].company = sync'[v].company
                     => sync'[u].written \cap sync'[v].written = {}
        BY <1>1, <4>1 DEF IInv, Locking, Holds
      <4>3. QED  BY <4>1, <4>2 DEF IInv, Locking
    <3>3. QED  BY <3>1, <3>2
  <2>3. QED  BY <2>1, <2>2 DEF Locking
<1>9. Syncing'
  <2>1. \A t : (Written(t) => Written(t)') /\ (Mirrored(t) => Mirrored(t)')
               /\ (Displaced(t) => Displaced(t)')
    BY DEF Written, Mirrored, Displaced, View, ProjectsOf, NewRow, LosesName
  <2>2. ASSUME NEW v \in Windows, sync'[v] # None
        PROVE  Written(sync[v])' /\ Mirrored(sync[v])' /\ Displaced(sync[v])'
    BY <1>1, <2>1, <2>2 DEF IInv, Syncing
  <2>3. QED  BY <2>2 DEF Syncing
<1>10. Crossing'  BY DEF IInv, Crossing, Calling, Called, Wanted
<1>11. Hooked'  BY DEF IInv, Hooked, Done, Wanted, Listed
<1>12. Muted'  BY DEF IInv, Muted, Calling
<1>13. Listening'  BY DEF IInv, Listening, Listed, Heard, Called
<1>14. QED  BY <1>2, <1>3, <1>4, <1>5, <1>6, <1>7, <1>8, <1>9, <1>10, <1>11, <1>12,
               <1>13 DEF IInv

\* What an open sync has.
LEMMA SyncFacts ==
    ASSUME IInv, NEW w \in Windows, sync[w] # None
    PROVE  /\ sync[w] \in Syncs /\ request[w] = None /\ identity # "none"
           /\ Told(sync[w]) /\ Knows(sync[w]) /\ Holds(w, sync[w])
           /\ Written(sync[w]) /\ Mirrored(sync[w]) /\ Displaced(sync[w])
<1>1. sync[w] \in Syncs /\ request[w] = None /\ identity # "none"
  BY Typed DEF IInv, Exclusive
<1>2. Told(sync[w])  BY DEF IInv, Born, Told
<1>3. Knows(sync[w])
  <2>1. /\ sync[w].doomed \subseteq Projects
        /\ sync[w].victim # None => sync[w].victim.project \in Projects \cup {None}
    BY <1>1 DEF Syncs
  <2>2. QED  BY <2>1 DEF IInv, Identified, Knows, Loaded
<1>4. Holds(w, sync[w])  BY DEF IInv, Locking, Holds
<1>5. Written(sync[w]) /\ Mirrored(sync[w]) /\ Displaced(sync[w])  BY DEF IInv, Syncing
<1>6. QED  BY <1>1, <1>2, <1>3, <1>4, <1>5

\* The fields of an open sync.
LEMMA SyncTyped ==
    ASSUME NEW s \in Syncs
    PROVE  /\ s.company \in Companies /\ s.pending \subseteq Repos /\ s.written \subseteq Repos
           /\ s.table \in [Repos -> Row \cup {None}] /\ s.current \in Repos \cup {None}
           /\ s.victim \in [repo: Repos, project: Projects \cup {None}] \cup {None}
           /\ s.destroyed \subseteq Repos /\ s.doomed \subseteq Projects
           /\ s.disturbed \subseteq Repos
           /\ s.listed \in UNION {[L -> Names] : L \in SUBSET Repos}
BY DEF Syncs

LEMMA BeginSyncKeeps ==
    ASSUME IInv, NEW w \in Windows, NEW c \in Companies, BeginSync(w, c)
    PROVE  IInv'
<1> DEFINE listed == [e \in Listed |-> service[e]]
           new == [company |-> c, listed |-> listed, pending |-> Repos, written |-> {},
                   table |-> [e \in Repos |-> None], current |-> None,
                   victim |-> None, destroyed |-> {}, doomed |-> {}, disturbed |-> {}]
<1>0. /\ request[w] = None /\ sync[w] = None /\ sent' = sent + 1 /\ sent < MaxRequests
      /\ sync' = [sync EXCEPT ![w] = new]
      /\ UNCHANGED <<service, hooks, keys, rows, projects, request, created, identity,
                     deaf, doubled, overtaken>>
      /\ sent \in 0..MaxRequests /\ identity # "none"
  BY DEF BeginSync, Send, serviceVars, tables, marks, IInv, TypeOK
<1>1. /\ listed \in [Listed -> Names] /\ Listed \subseteq Repos
      /\ \A e \in Listed : service[e] # "unborn"
  BY NamesAssumption DEF Listed
<1>2. new \in Syncs
  <2>1. listed \in UNION {[L -> Names] : L \in SUBSET Repos}  BY <1>1
  <2> HIDE DEF listed
  <2>2. QED  BY <2>1 DEF Syncs
<1>3. PICK s \in Syncs : s = new  BY <1>2
<1>4. /\ s.company = c /\ s.listed = listed /\ s.pending = Repos /\ s.written = {}
      /\ s.victim = None /\ s.destroyed = {} /\ s.doomed = {} /\ s.disturbed = {}
  BY <1>3
<1>5. sync' = [sync EXCEPT ![w] = s]  BY <1>0, <1>3
<1> HIDE DEF new
<1>6. DOMAIN s.listed = Listed /\ s.listed \in [Listed -> Names]  BY <1>1, <1>4
<1>7. Told(s)  BY <1>1, <1>4, <1>6 DEF Told, IInv, Born
<1>8. Knows(s) /\ Holds(w, s) /\ Written(s) /\ Displaced(s)
  BY <1>4 DEF Knows, Holds, Written, Displaced
<1>9. Mirrored(s)  BY <1>1, <1>4, <1>6 DEF Mirrored
<1>10. sent' \in 0..MaxRequests  BY <1>0, BoundAssumption
<1> HIDE DEF listed
<1>11. QED  BY <1>0, <1>5, <1>7, <1>8, <1>9, <1>10, SyncStepKeeps

LEMMA FailSyncKeeps ==
    ASSUME IInv, NEW w \in Windows, FailSync(w)
    PROVE  IInv'
<1>1. /\ sync[w] # None /\ sync' = [sync EXCEPT ![w] = None]
      /\ UNCHANGED <<service, hooks, keys, rows, projects, request, created, sent, identity,
                     deaf, doubled, overtaken>>
      /\ sent' \in 0..MaxRequests
  BY DEF FailSync, Step, serviceVars, tables, marks, IInv, TypeOK
<1>2. request[w] = None  BY <1>1, SyncFacts
<1>3. QED  BY <1>1, <1>2, SyncStepKeeps

\* A step of an open sync changes nothing else.
LEMMA StepKeeps ==
    ASSUME IInv, NEW w \in Windows, sync[w] # None, NEW s \in Syncs, Step(w, s),
           Told(s), Knows(s), Holds(w, s), Written(s), Mirrored(s), Displaced(s)
    PROVE  IInv'
<1>1. /\ sync' = [sync EXCEPT ![w] = s]
      /\ UNCHANGED <<service, hooks, keys, rows, projects, request, created, sent, identity,
                     deaf, doubled, overtaken>>
      /\ sent' \in 0..MaxRequests
  BY DEF Step, serviceVars, tables, marks, IInv, TypeOK
<1>2. request[w] = None /\ identity # "none"  BY SyncFacts
<1>3. QED  BY <1>1, <1>2, SyncStepKeeps

LEMMA PruneKeeps ==
    ASSUME IInv, NEW w \in Windows, NEW e \in Repos, Prune(w, e)
    PROVE  IInv'
<1> DEFINE s == sync[w]
           v == IF View(s, e) = None \/ ProjectsOf(s.company, e) # {}
                THEN None ELSE [repo |-> e, project |-> None]
           new == [s EXCEPT !.pending = @ \ {e}, !.victim = v]
<1>0. /\ s # None /\ s.victim = None /\ e \in s.pending
      /\ s.pending \cap DOMAIN s.listed = {}
      /\ Step(w, new)
      /\ s \in Syncs
      /\ Told(s) /\ Knows(s) /\ Holds(w, s) /\ Written(s) /\ Mirrored(s) /\ Displaced(s)
  BY SyncFacts DEF Prune, Storing
<1>1. PICK t \in Syncs : t = new
  <2>1. v \in [repo: Repos, project: Projects \cup {None}] \cup {None}  OBVIOUS
  <2> HIDE DEF v
  <2>2. new \in Syncs  BY <1>0, <2>1 DEF Syncs
  <2>3. QED  BY <2>2
<1>2. /\ t.company = s.company /\ t.listed = s.listed /\ t.pending = s.pending \ {e}
      /\ t.written = s.written /\ t.table = s.table /\ t.destroyed = s.destroyed
      /\ t.doomed = s.doomed /\ t.disturbed = s.disturbed /\ t.victim = v
  BY <1>0, <1>1 DEF Syncs
<1>3. Step(w, t)  BY <1>0, <1>1
<1> HIDE DEF new, s
<1>4. v # None => v.repo = e /\ v.project = None /\ ProjectsOf(s.company, e) = {}
  OBVIOUS
<1>5. v = None => View(s, e) = None \/ ProjectsOf(s.company, e) # {}
  BY NoneAssumption
<1> HIDE DEF v
<1>6. e \notin DOMAIN s.listed  BY <1>0
<1>7. Told(t) /\ Knows(t) /\ Holds(w, t) /\ Written(t)
  BY <1>0, <1>2, <1>4 DEF Told, Knows, Holds, Written
<1>8. \A x : View(t, x) = View(s, x)  BY <1>2 DEF View
<1>9. Mirrored(t)  BY <1>0, <1>2, <1>4, <1>5, <1>6, <1>8 DEF Mirrored
<1>10. Displaced(t)
  BY <1>0, <1>2, <1>4, <1>6 DEF Displaced, NewRow, LosesName
<1>11. QED  BY <1>0, <1>3, <1>7, <1>9, <1>10, StepKeeps DEF s

LEMMA LoadDuplicateKeeps ==
    ASSUME IInv, NEW w \in Windows, NEW d \in Repos, NEW e \in Repos, LoadDuplicate(w, e, d)
    PROVE  IInv'
<1> DEFINE s == sync[w]
           c == s.company
<1>0. /\ s # None /\ s.victim = None /\ e \in s.pending /\ e \in DOMAIN s.listed
      /\ View(s, e) = None /\ HasNameOf(s, d, e)
      /\ s \in Syncs
      /\ Told(s) /\ Knows(s) /\ Holds(w, s) /\ Written(s) /\ Mirrored(s) /\ Displaced(s)
  BY SyncFacts DEF LoadDuplicate, Storing
<1>1. PICK p \in IF ProjectsOf(c, d) = {} THEN {None} ELSE ProjectsOf(c, d) :
         Step(w, [s EXCEPT !.current = e, !.victim = [repo |-> d, project |-> p]])
  BY DEF LoadDuplicate
<1>2. /\ p \in Projects \cup {None}
      /\ p # None => p \in projects /\ p.company = c /\ p.repo = d
  BY DEF ProjectsOf, IInv, TypeOK
<1> DEFINE v == [repo |-> d, project |-> p]
           new == [s EXCEPT !.current = e, !.victim = v]
<1>3. v \in [repo: Repos, project: Projects \cup {None}]  BY <1>2
<1>4. v # None /\ v.repo = d /\ v.project = p  BY <1>3, NoneAssumption
<1>5. Step(w, new)  BY <1>1
<1> HIDE DEF v
<1>6. PICK t \in Syncs : t = new  BY <1>0, <1>3 DEF Syncs
<1>7. /\ t.company = s.company /\ t.listed = s.listed /\ t.pending = s.pending
      /\ t.written = s.written /\ t.table = s.table /\ t.destroyed = s.destroyed
      /\ t.doomed = s.doomed /\ t.disturbed = s.disturbed /\ t.victim = v
  BY <1>0, <1>6 DEF Syncs
<1>8. Step(w, t)  BY <1>5, <1>6
<1> HIDE DEF new, s, c
<1>9. d # e /\ View(s, d) # None /\ View(s, d).name = s.listed[e]  BY <1>0 DEF HasNameOf
<1>10. d \notin s.written
  <2>1. SUFFICES ASSUME d \in s.written PROVE FALSE  OBVIOUS
  <2>2. s.table[d] # None /\ s.table[d].name = s.listed[e]  BY <1>9, <2>1 DEF View
  <2>3. d \in DOMAIN s.listed /\ s.table[d].name = s.listed[d]
    BY <1>0, <2>1, <2>2 DEF Written
  <2>4. QED  BY <1>0, <1>9, <2>2, <2>3 DEF Told
<1>11. LosesName(s, d)
  <2>1. rows[s.company][d] # None /\ rows[s.company][d].name = s.listed[e]
    BY <1>9, <1>10 DEF View
  <2>2. QED  BY <1>0, <1>9, <2>1 DEF LosesName
<1>12. NewRow(s)
  <2>1. CASE e \in s.written
    <3>1. s.table[e] = None  BY <1>0, <2>1 DEF View
    <3>2. e \in s.destroyed  BY <1>0, <2>1, <3>1 DEF Written
    <3>3. QED  BY <1>0, <3>2 DEF Displaced
  <2>2. CASE e \notin s.written
    <3>1. rows[s.company][e] = None  BY <1>0, <2>2 DEF View
    <3>2. QED  BY <1>0, <3>1 DEF NewRow
  <2>3. QED  BY <2>1, <2>2
<1>13. d \in DOMAIN s.listed => d \in s.pending \cup s.disturbed
  <2>1. SUFFICES ASSUME d \in DOMAIN s.listed, d \notin s.pending \cup s.disturbed
                 PROVE  FALSE
    OBVIOUS
  <2>2. View(s, d).name = s.listed[d]  BY <1>0, <2>1 DEF Mirrored
  <2>3. QED  BY <1>0, <1>9, <2>1, <2>2 DEF Told
<1>14. Told(t) /\ Knows(t) /\ Holds(w, t) /\ Written(t)
  BY <1>0, <1>2, <1>4, <1>7 DEF Told, Knows, Holds, Written, c
<1>15. \A x : View(t, x) = View(s, x)  BY <1>7 DEF View
<1>16. Mirrored(t)  BY <1>0, <1>7, <1>15 DEF Mirrored
<1>17. Displaced(t)
  BY <1>0, <1>4, <1>7, <1>11, <1>12, <1>13 DEF Displaced, NewRow, LosesName
<1>18. QED  BY <1>0, <1>8, <1>14, <1>16, <1>17, StepKeeps DEF s

LEMMA DestroyVictimKeeps ==
    ASSUME IInv, NEW w \in Windows, DestroyVictim(w)
    PROVE  IInv'
<1> DEFINE s == sync[w]
           d == s.victim.repo
           p == s.victim.project
           doomed == IF p = None THEN s.doomed ELSE s.doomed \cup {p}
           new == [s EXCEPT !.victim = None, !.destroyed = @ \cup {d}, !.doomed = doomed,
                            !.written = @ \cup {d}, !.table[d] = None]
<1>0. /\ s # None /\ s.victim # None /\ ~Locked(w, s.company, d)
      /\ Step(w, new)
      /\ s \in Syncs /\ request[w] = None
      /\ Told(s) /\ Knows(s) /\ Holds(w, s) /\ Written(s) /\ Mirrored(s) /\ Displaced(s)
  BY SyncFacts DEF DestroyVictim
<1>1. d \in Repos /\ p \in Projects \cup {None} /\ doomed \subseteq Projects
  <2>1. s.victim \in [repo: Repos, project: Projects \cup {None}]
    BY <1>0, SyncTyped
  <2>2. s.doomed \subseteq Projects  BY <1>0, SyncTyped
  <2>3. QED  BY <2>1, <2>2
<1> HIDE DEF doomed
<1>2. PICK t \in Syncs : t = new
  <2>1. new \in Syncs  BY <1>0, <1>1 DEF Syncs
  <2>2. QED  BY <2>1
<1>3. /\ t.company = s.company /\ t.listed = s.listed /\ t.pending = s.pending
      /\ t.written = s.written \cup {d} /\ t.table = [s.table EXCEPT ![d] = None]
      /\ t.destroyed = s.destroyed \cup {d}
      /\ t.doomed = doomed /\ t.disturbed = s.disturbed /\ t.victim = None
  BY <1>0, <1>2 DEF Syncs
<1>4. t.table[d] = None /\ \A x \in Repos \ {d} : t.table[x] = s.table[x]
  BY <1>0, <1>1, <1>3, SyncTyped
<1>5. Step(w, t)  BY <1>0, <1>2
<1>6. \A x \in t.doomed : x \in s.doomed \/ (x = p /\ p # None)
  BY <1>3 DEF doomed
<1>7. s.written \subseteq Repos  BY <1>0, SyncTyped
<1> HIDE DEF new, s, d, p
<1>8. Told(t) /\ Knows(t)
  BY <1>0, <1>3, <1>6 DEF Told, Knows, d, p
<1>9. Holds(w, t)
  <2>1. \A v \in Windows : ~HasLock(v, s.company, d)
    BY <1>0 DEF Locked, HasLock, For
  <2>2. \A v \in Windows \ {w} : sync[v] # None /\ sync[v].company = s.company
           => d \notin sync[v].written
    BY <1>0 DEF Locked
  <2>3. QED  BY <1>0, <1>3, <2>1, <2>2 DEF Holds
<1>10. Written(t)
  BY <1>0, <1>1, <1>3, <1>4, <1>7 DEF Written
<1>11. View(t, d) = None /\ \A x \in Repos \ {d} : View(t, x) = View(s, x)
  BY <1>3, <1>4 DEF View
<1>12. Mirrored(t)
  <2>1. d \in DOMAIN s.listed => d \in s.pending \cup s.disturbed
    BY <1>0 DEF Displaced, d
  <2>2. DOMAIN s.listed \subseteq Repos  BY <1>0 DEF Told
  <2>3. QED  BY <1>0, <1>1, <1>3, <1>11, <2>1, <2>2 DEF Mirrored, d
<1>13. Displaced(t)
  BY <1>0, <1>3 DEF Displaced, NewRow, LosesName, d
<1>14. QED  BY <1>0, <1>5, <1>8, <1>9, <1>10, <1>12, <1>13, StepKeeps DEF s

\* A row is written under its listed name.
LEMMA StoredKeeps ==
    ASSUME IInv, NEW w \in Windows, sync[w] # None, sync[w].victim = None,
           NEW e \in Repos, e \in DOMAIN sync[w].listed,
           NEW row \in Row, row.name = sync[w].listed[e],
           row.subscribed <=> /\ e \notin sync[w].destroyed
                              /\ rows[sync[w].company][e] # None
                              /\ rows[sync[w].company][e].subscribed,
           ~Locked(w, sync[w].company, e),
           Step(w, Stored(w, e, row))
    PROVE  IInv'
<1> DEFINE s == sync[w]
           new == [s EXCEPT !.pending = @ \ {e}, !.current = None,
                            !.written = @ \cup {e}, !.table[e] = row]
<1>0. /\ Step(w, new)
      /\ s \in Syncs /\ request[w] = None
      /\ Told(s) /\ Knows(s) /\ Holds(w, s) /\ Written(s) /\ Mirrored(s) /\ Displaced(s)
  BY SyncFacts DEF Stored
<1>1. PICK t \in Syncs : t = new
  <2>1. new \in Syncs  BY <1>0 DEF Syncs
  <2>2. QED  BY <2>1
<1>2. /\ t.company = s.company /\ t.listed = s.listed /\ t.pending = s.pending \ {e}
      /\ t.written = s.written \cup {e} /\ t.table = [s.table EXCEPT ![e] = row]
      /\ t.destroyed = s.destroyed
      /\ t.doomed = s.doomed /\ t.disturbed = s.disturbed /\ t.victim = None
  BY <1>0, <1>1 DEF Syncs
<1>3. t.table[e] = row /\ \A x \in Repos \ {e} : t.table[x] = s.table[x]
  BY <1>0, <1>2, SyncTyped
<1>4. Step(w, t)  BY <1>0, <1>1
<1>5. row # None /\ s.written \subseteq Repos  BY <1>0, SyncTyped, NoneAssumption
<1> HIDE DEF new
<1>6. Told(t) /\ Knows(t)  BY <1>0, <1>2 DEF Told, Knows
<1>7. Holds(w, t)
  <2>1. \A v \in Windows : ~HasLock(v, s.company, e)
    BY <1>0 DEF Locked, HasLock, For
  <2>2. \A v \in Windows \ {w} : sync[v] # None /\ sync[v].company = s.company
           => e \notin sync[v].written
    BY DEF Locked
  <2>3. QED  BY <1>0, <1>2, <2>1, <2>2 DEF Holds
<1>8. Written(t)  BY <1>0, <1>2, <1>3, <1>5 DEF Written
<1>9. View(t, e) = row /\ \A x \in Repos \ {e} : View(t, x) = View(s, x)
  BY <1>2, <1>3 DEF View
<1>10. Mirrored(t)
  <2>1. DOMAIN s.listed \subseteq Repos  BY <1>0 DEF Told
  <2>2. QED  BY <1>0, <1>2, <1>5, <1>9, <2>1 DEF Mirrored
<1>11. Displaced(t)  BY <1>0, <1>2 DEF Displaced, NewRow, LosesName
<1>12. QED  BY <1>0, <1>4, <1>6, <1>7, <1>8, <1>10, <1>11, StepKeeps

LEMMA CreateRowKeeps ==
    ASSUME IInv, NEW w \in Windows, NEW e \in Repos, CreateRow(w, e)
    PROVE  IInv'
<1> DEFINE s == sync[w]
           row == [name |-> s.listed[e], subscribed |-> FALSE]
<1>0. /\ s # None /\ s.victim = None /\ e \in DOMAIN s.listed
      /\ View(s, e) = None /\ ~Locked(w, s.company, e)
      /\ Step(w, Stored(w, e, row))
  BY DEF CreateRow, Storing
<1>1. Told(s) /\ Written(s)  BY <1>0, SyncFacts
<1>2. row \in Row  BY <1>0, <1>1 DEF Row, Told
<1>3. e \in s.destroyed \/ rows[s.company][e] = None
  BY <1>0, <1>1 DEF View, Written
<1>4. row.name = s.listed[e] /\ ~row.subscribed  OBVIOUS
<1> HIDE DEF row
<1>5. QED  BY <1>0, <1>2, <1>3, <1>4, StoredKeeps

LEMMA UpdateRowKeeps ==
    ASSUME IInv, NEW w \in Windows, NEW e \in Repos, UpdateRow(w, e)
    PROVE  IInv'
<1> DEFINE s == sync[w]
           new == [s EXCEPT !.pending = @ \ {e}]
<1>0. /\ s # None /\ s.victim = None /\ e \in DOMAIN s.listed
      /\ s \in Syncs
      /\ Told(s) /\ Knows(s) /\ Holds(w, s) /\ Written(s) /\ Mirrored(s) /\ Displaced(s)
  BY SyncFacts DEF UpdateRow, Storing
<1>1. CASE /\ View(s, e) # None
           /\ View(s, e).name # s.listed[e]
           /\ ~Locked(w, s.company, e)
           /\ Step(w, Stored(w, e, [View(s, e) EXCEPT !.name = s.listed[e]]))
  <2>1. e \notin s.written  BY <1>0, <1>1 DEF View, Written
  <2>2. View(s, e) = rows[s.company][e]  BY <2>1 DEF View
  <2>3. View(s, e) \in Row
    <3>1. s.company \in Companies  BY <1>0, SyncTyped
    <3>2. QED  BY <1>1, <2>2, <3>1, Typed DEF IInv
  <2>4. PICK row \in Row : row = [View(s, e) EXCEPT !.name = s.listed[e]]
    BY <1>0, <2>3 DEF Row, Told
  <2>5. row.name = s.listed[e] /\ row.subscribed = View(s, e).subscribed
    BY <2>3, <2>4 DEF Row
  <2>6. e \notin s.destroyed  BY <1>0, <2>1 DEF Written
  <2>7. Step(w, Stored(w, e, row))  BY <1>1, <2>4
  <2>8. QED  BY <1>0, <1>1, <2>2, <2>5, <2>6, <2>7, StoredKeeps
<1>2. CASE /\ \/ View(s, e) # None /\ View(s, e).name = s.listed[e]
              \/ e \in s.disturbed
           /\ Step(w, new)
  <2>1. PICK t \in Syncs : t = new
    <3>1. new \in Syncs  BY <1>0 DEF Syncs
    <3>2. QED  BY <3>1
  <2>2. /\ t.company = s.company /\ t.listed = s.listed /\ t.pending = s.pending \ {e}
        /\ t.written = s.written /\ t.table = s.table /\ t.destroyed = s.destroyed
        /\ t.doomed = s.doomed /\ t.disturbed = s.disturbed /\ t.victim = None
    BY <1>0, <2>1 DEF Syncs
  <2>3. Step(w, t)  BY <1>2, <2>1
  <2> HIDE DEF new
  <2>4. Told(t) /\ Knows(t) /\ Holds(w, t) /\ Written(t)
    BY <1>0, <2>2 DEF Told, Knows, Holds, Written
  <2>5. \A x : View(t, x) = View(s, x)  BY <2>2 DEF View
  <2>6. Mirrored(t)  BY <1>0, <1>2, <2>2, <2>5 DEF Mirrored
  <2>7. Displaced(t)  BY <1>0, <2>2 DEF Displaced, NewRow, LosesName
  <2>8. QED  BY <1>0, <2>3, <2>4, <2>6, <2>7, StepKeeps
<1>3. QED  BY <1>1, <1>2 DEF UpdateRow

-----------------------------------------------------------------------------
(* The commit of a request                                                  *)

\* What a request does to the projects: those of other rows stay, and so do those
\* of its own row if that is gone.
LEMMA CommitProjects ==
    ASSUME IInv, NEW w \in Windows, NEW r, r = request[w], Commit(w)
    PROVE  /\ r \in Requests /\ r # None /\ r.stage = "done" /\ (r.fresh => Wanted(r))
           /\ Wanted(r) => r.project # None
           /\ r.project # None => /\ r.project \in Projects
                                  /\ r.project.company = r.company /\ r.project.repo = r.repo
           /\ projects' \in SUBSET Projects
           /\ \A q \in projects' \ projects :
                 /\ r.fresh /\ q.company = r.company /\ q.name = r.project.name
                 /\ q.id = r.project.id
                 /\ q.repo = (IF r.gone THEN None ELSE r.repo)
                 /\ ~r.gone => q = r.project
           /\ \A d \in Companies, x \in Repos :
                 <<d, x>> # <<r.company, r.repo>> \/ r.gone => ProjectsOf(d, x)' = ProjectsOf(d, x)
           /\ r.fresh /\ ~r.gone =>
                 ProjectsOf(r.company, r.repo)' = ProjectsOf(r.company, r.repo) \cup {r.project}
           /\ ~r.fresh /\ (Wanted(r) \/ r.project = None) => projects' = projects
           /\ ~r.fresh => projects' \subseteq projects
           /\ ~Wanted(r) /\ r.project # None => r.project \notin projects'
           /\ \A q \in projects \ projects' :
                 ~Wanted(r) /\ r.project # None /\ q.id = r.project.id /\ r.project \in Loaded
<1>1. /\ r # None /\ r \in Requests /\ r.stage = "done" /\ TypeOK
      /\ projects' = AfterCommit(r)
  <2>1. r # None /\ TypeOK /\ r.stage = "done" /\ projects' = AfterCommit(r)
    BY DEF Commit, At, IInv
  <2>2. QED  BY <2>1, Typed
<1>2. /\ r.fresh => Wanted(r)
      /\ r.fresh \/ Wanted(r) => r.project # None
      /\ r.project # None => /\ r.project \in Projects
                             /\ r.project.company = r.company /\ r.project.repo = r.repo
      /\ r.company \in Companies /\ r.repo \in Repos /\ r.repo # None
  <2>1. r.repo # None  BY <1>1, RequestTyped, NoneAssumption
  <2>2. r.fresh => Wanted(r)  BY <1>1 DEF IInv, Staged
  <2>3. Wanted(r) => r.project # None  BY <1>1 DEF IInv, Staged
  <2>4. r.project # None => r.project.company = r.company /\ r.project.repo = r.repo
    BY <1>1 DEF IInv, Identified
  <2>5. QED  BY <1>1, <2>1, <2>2, <2>3, <2>4, RequestTyped
<1>3. CASE r.fresh
  <2> DEFINE n == [r.project EXCEPT !.repo = IF r.gone THEN None ELSE r.project.repo]
  <2>1. projects' = projects \cup {n}  BY <1>1, <1>3 DEF AfterCommit
  <2>2. /\ n \in Projects /\ n.company = r.company /\ n.name = r.project.name
        /\ n.id = r.project.id
        /\ n.repo = (IF r.gone THEN None ELSE r.repo)
        /\ ~r.gone => n = r.project
    BY <1>2, <1>3 DEF Projects
  <2> HIDE DEF n
  <2>3. \A d \in Companies, x \in Repos :
           <<d, x>> # <<r.company, r.repo>> \/ r.gone => ProjectsOf(d, x)' = ProjectsOf(d, x)
    BY <1>2, <2>1, <2>2, NoneAssumption DEF ProjectsOf
  <2>4. ~r.gone =>
           ProjectsOf(r.company, r.repo)' = ProjectsOf(r.company, r.repo) \cup {r.project}
    BY <1>2, <2>1, <2>2 DEF ProjectsOf
  <2>5. projects' \in SUBSET Projects  BY <1>1, <2>1, <2>2 DEF TypeOK
  <2>6. QED  BY <1>1, <1>2, <1>3, <2>1, <2>2, <2>3, <2>4, <2>5
<1>4. CASE ~r.fresh /\ (Wanted(r) \/ r.project = None)
  <2>1. projects' = projects  BY <1>1, <1>4 DEF AfterCommit
  <2>2. QED  BY <1>1, <1>2, <1>4, <2>1 DEF ProjectsOf, TypeOK
<1>5. CASE ~r.fresh /\ ~Wanted(r) /\ r.project # None
  <2>1. projects' = {q \in projects : q.id # r.project.id}
    BY <1>1, <1>5 DEF AfterCommit, Without
  <2>2. r.project \in Loaded  BY <1>1, <1>2, <1>5 DEF Loaded
  <2>3. \A q \in projects : q.id = r.project.id =>
           /\ q.company = r.company /\ q.repo \in {r.repo, None}
           /\ r.gone => q.repo = None
    BY <1>1, <1>2, <1>5, <2>2 DEF IInv, Identified, Same
  <2>4. \A d \in Companies, x \in Repos :
           <<d, x>> # <<r.company, r.repo>> \/ r.gone => ProjectsOf(d, x)' = ProjectsOf(d, x)
    BY <2>1, <2>3, NoneAssumption DEF ProjectsOf
  <2>5. QED  BY <1>1, <1>2, <1>5, <2>1, <2>2, <2>4 DEF TypeOK
<1>6. QED  BY <1>3, <1>4, <1>5

\* ... and to its row, and to the row that nobody has overtaken it at.
LEMMA CommitRow ==
    ASSUME IInv, NEW w \in Windows, NEW r, r = request[w], Commit(w)
    PROVE  /\ rows' \in [Companies -> [Repos -> Row \cup {None}]]
           /\ \A d \in Companies, x \in Repos :
                 /\ rows'[d][x] = None <=> rows[d][x] = None
                 /\ rows'[d][x].name = rows[d][x].name
                 /\ <<d, x>> # <<r.company, r.repo>> \/ ~Changes(r) => rows'[d][x] = rows[d][x]
           /\ ~Changes(r) => rows' = rows
           /\ ~r.gone /\ ~r.overtaken =>
                 /\ rows'[r.company][r.repo].subscribed = Wanted(r)
                 /\ Wanted(r) =>
                       /\ r.project \in ProjectsOf(r.company, r.repo)'
                       /\ (\A p, q \in ProjectsOf(r.company, r.repo) : p = q) =>
                             ProjectsOf(r.company, r.repo)' = {r.project}
                 /\ ~Wanted(r) /\ (\A p, q \in ProjectsOf(r.company, r.repo) : p = q) =>
                       ProjectsOf(r.company, r.repo)' = {}
<1> DEFINE c == r.company
           e == r.repo
<1>1. /\ r # None /\ r \in Requests /\ TypeOK /\ c \in Companies /\ e \in Repos
      /\ r.stage = "done" /\ (r.fresh => Wanted(r)) /\ (Wanted(r) => r.project # None)
      /\ r.project # None => r.project.company = c /\ r.project.repo = e
      /\ Wanted(r) \in BOOLEAN
  BY CommitProjects, RequestTyped DEF IInv, Wanted
<1>2. rows' = IF Changes(r) THEN [rows EXCEPT ![c][e].subscribed = Wanted(r)] ELSE rows
  BY DEF Commit
<1>3. rows \in [Companies -> [Repos -> Row \cup {None}]]  BY <1>1 DEF TypeOK
<1>4. Changes(r) => rows[c][e] # None /\ rows[c][e] \in Row
  <2>1. Changes(r) => ~r.gone  BY DEF Changes
  <2>2. ~r.gone => rows[c][e] # None  BY <1>1 DEF IInv, Born
  <2>3. QED  BY <1>1, <1>3, <2>1, <2>2
<1>5. Changes(r) => /\ rows'[c][e] = [rows[c][e] EXCEPT !.subscribed = Wanted(r)]
                    /\ \A d \in Companies, x \in Repos :
                          <<d, x>> # <<c, e>> => rows'[d][x] = rows[d][x]
  BY <1>1, <1>2, <1>3
<1>6. Changes(r) => /\ rows'[c][e] \in Row /\ rows'[c][e] # None
                    /\ rows'[c][e].name = rows[c][e].name
                    /\ rows'[c][e].subscribed = Wanted(r)
  BY <1>1, <1>4, <1>5, NoneAssumption DEF Row
<1>7. rows' \in [Companies -> [Repos -> Row \cup {None}]]
  <2>1. CASE Changes(r)
    <3>1. [rows[c][e] EXCEPT !.subscribed = Wanted(r)] \in Row  BY <1>5, <1>6, <2>1
    <3>2. rows' = [rows EXCEPT ![c] = [rows[c] EXCEPT
                      ![e] = [rows[c][e] EXCEPT !.subscribed = Wanted(r)]]]
      BY <1>2, <2>1
    <3> DEFINE row == [rows[c][e] EXCEPT !.subscribed = Wanted(r)]
    <3> HIDE DEF row
    <3>3. row \in Row /\ rows' = [rows EXCEPT ![c] = [rows[c] EXCEPT ![e] = row]]
      BY <3>1, <3>2 DEF row
    <3>4. QED  BY <1>1, <1>3, <3>3
  <2>2. CASE ~Changes(r)  BY <1>2, <1>3, <2>2
  <2>3. QED  BY <2>1, <2>2
<1>8. \A d \in Companies, x \in Repos :
         /\ rows'[d][x] = None <=> rows[d][x] = None
         /\ rows'[d][x].name = rows[d][x].name
         /\ <<d, x>> # <<c, e>> \/ ~Changes(r) => rows'[d][x] = rows[d][x]
  BY <1>2, <1>4, <1>5, <1>6
<1>9. ASSUME ~r.gone, ~r.overtaken
      PROVE  /\ rows'[c][e].subscribed = Wanted(r)
             /\ Wanted(r) =>
                   /\ r.project \in ProjectsOf(c, e)'
                   /\ (\A p, q \in ProjectsOf(c, e) : p = q) => ProjectsOf(c, e)' = {r.project}
             /\ ~Wanted(r) /\ (\A p, q \in ProjectsOf(c, e) : p = q) =>
                   ProjectsOf(c, e)' = {}
  <2>1. Informed(r)  BY <1>1, <1>9 DEF IInv, Paired
  <2>2. rows'[c][e].subscribed = Wanted(r)  BY <1>2, <1>6, <2>1 DEF Informed
  <2>3. CASE r.fresh
    <3>1. ProjectsOf(c, e) = {}  BY <1>1, <2>1, <2>3 DEF Informed
    <3>2. ProjectsOf(c, e)' = ProjectsOf(c, e) \cup {r.project}  BY <1>9, <2>3, CommitProjects
    <3>3. QED  BY <1>1, <2>2, <2>3, <3>1, <3>2
  <2>4. CASE ~r.fresh /\ Wanted(r)
    <3>1. r.project \in ProjectsOf(c, e)  BY <1>1, <2>1, <2>4 DEF Informed, ProjectsOf
    <3>2. ProjectsOf(c, e)' = ProjectsOf(c, e)  BY <2>4, CommitProjects DEF ProjectsOf
    <3>3. QED  BY <2>2, <2>4, <3>1, <3>2
  <2>5. CASE ~r.fresh /\ ~Wanted(r) /\ r.project # None
    <3>1. r.project \in ProjectsOf(c, e)  BY <1>1, <2>1, <2>5 DEF Informed, ProjectsOf
    <3>2. projects' \subseteq projects /\ r.project \notin projects'  BY <2>5, CommitProjects
    <3>3. ProjectsOf(c, e)' \subseteq ProjectsOf(c, e) \ {r.project}  BY <3>2 DEF ProjectsOf
    <3>4. QED  BY <2>2, <2>5, <3>1, <3>3
  <2>6. CASE ~r.fresh /\ ~Wanted(r) /\ r.project = None
    <3>1. ProjectsOf(c, e) = {}  BY <1>1, <2>1, <2>6 DEF Informed
    <3>2. projects' = projects  BY <2>6, CommitProjects
    <3>3. QED  BY <2>2, <2>6, <3>1, <3>2 DEF ProjectsOf
  <2>7. QED  BY <2>3, <2>4, <2>5, <2>6
<1>10. ~Changes(r) => rows' = rows  BY <1>2
<1>11. QED  BY <1>7, <1>8, <1>9, <1>10

LEMMA CommitKeeps ==
    ASSUME IInv, NEW w \in Windows, Commit(w)
    PROVE  IInv'
<1>r. PICK r : r = request[w]  OBVIOUS
<1> DEFINE c == r.company
           e == r.repo
           row == <<c, e>>
           changed(v) == For(request[v], c, e) /\ (Changes(r) \/ projects' # projects)
<1>0. /\ r # None /\ r \in Requests /\ r.stage = "done" /\ TypeOK
      /\ c \in Companies /\ e \in Repos
      /\ r.fresh => Wanted(r)
      /\ r.crossed \in BOOLEAN /\ r.gone \in BOOLEAN /\ r.overtaken \in BOOLEAN
  BY <1>r, CommitProjects, RequestTyped DEF IInv
<1>1. /\ request' = [v \in Windows |->
                        IF v = w THEN None
                        ELSE IF changed(v) THEN [request[v] EXCEPT !.overtaken = TRUE]
                        ELSE request[v]]
      /\ sync' = [v \in Windows |->
                     IF sync[v] # None /\ sync[v].company = c
                     THEN [sync[v] EXCEPT !.disturbed = @ \cup {e}] ELSE sync[v]]
      /\ deaf' = IF r.crossed THEN deaf \cup {row}
                 ELSE IF Wanted(r) /\ ~r.gone THEN deaf \ {row} ELSE deaf
      /\ overtaken' = IF r.gone THEN overtaken
                      ELSE IF r.overtaken THEN overtaken \cup {row}
                      ELSE IF \A p, q \in ProjectsOf(c, e) : p = q
                      THEN overtaken \ {row} ELSE overtaken
      /\ UNCHANGED <<service, hooks, keys, created, sent, identity, doubled>>
  BY <1>r DEF Commit, serviceVars, For
\* Other requests learn no more than that they are overtaken.
<1>2. /\ request'[w] = None
      /\ \A v \in Windows \ {w} :
            /\ request'[v] = None <=> request[v] = None
            /\ request[v] # None =>
                  /\ request[v] \in Requests /\ request'[v] \in Requests
                  /\ request'[v].op = request[v].op
                  /\ request'[v].company = request[v].company
                  /\ request'[v].repo = request[v].repo /\ request'[v].copy = request[v].copy
                  /\ request'[v].stage = request[v].stage
                  /\ request'[v].project = request[v].project
                  /\ request'[v].fresh = request[v].fresh /\ request'[v].gone = request[v].gone
                  /\ request'[v].crossed = request[v].crossed
                  /\ request'[v].overtaken = (request[v].overtaken \/ changed(v))
  <2>1. request'[w] = None  BY <1>1
  <2>2. ASSUME NEW v \in Windows \ {w}, request[v] = None PROVE request'[v] = None
    BY <1>1, <2>2 DEF For
  <2>3. ASSUME NEW v \in Windows \ {w}, request[v] # None
        PROVE  /\ request[v] \in Requests /\ request'[v] \in Requests
               /\ request'[v] # None
               /\ request'[v].op = request[v].op
               /\ request'[v].company = request[v].company
               /\ request'[v].repo = request[v].repo /\ request'[v].copy = request[v].copy
               /\ request'[v].stage = request[v].stage
               /\ request'[v].project = request[v].project
               /\ request'[v].fresh = request[v].fresh /\ request'[v].gone = request[v].gone
               /\ request'[v].crossed = request[v].crossed
               /\ request'[v].overtaken = (request[v].overtaken \/ changed(v))
    <3>1. request[v] \in Requests  BY <1>0, <2>3, Typed
    <3>2. CASE changed(v)
      <4>1. request'[v] = [request[v] EXCEPT !.overtaken = TRUE]  BY <1>1, <3>2
      <4> HIDE DEF changed
      <4>2. request'[v] \in Requests  BY <3>1, <4>1 DEF Requests
      <4>3. QED  BY <3>1, <3>2, <4>1, <4>2, NoneAssumption DEF Requests
    <3>3. CASE ~changed(v)
      <4>1. request'[v] = request[v]  BY <1>1, <3>3
      <4>2. request[v].overtaken \in BOOLEAN  BY <3>1, RequestTyped
      <4> HIDE DEF changed
      <4>3. QED  BY <2>3, <3>1, <3>3, <4>1, <4>2
    <3>4. QED  BY <3>2, <3>3
  <2> HIDE DEF changed
  <2>4. QED  BY <2>1, <2>2, <2>3
<1>3. \A v \in Windows :
         /\ sync'[v] = None <=> sync[v] = None
         /\ sync[v] # None =>
               /\ sync[v] \in Syncs /\ sync'[v] \in Syncs
               /\ sync'[v].company = sync[v].company /\ sync'[v].listed = sync[v].listed
               /\ sync'[v].pending = sync[v].pending /\ sync'[v].written = sync[v].written
               /\ sync'[v].table = sync[v].table /\ sync'[v].victim = sync[v].victim
               /\ sync'[v].destroyed = sync[v].destroyed /\ sync'[v].doomed = sync[v].doomed
               /\ sync[v].disturbed \subseteq sync'[v].disturbed
               /\ sync[v].company = c => e \in sync'[v].disturbed
  <2>1. TAKE v \in Windows
  <2>2. CASE sync[v] # None /\ sync[v].company = c
    <3>1. sync[v] \in Syncs  BY <1>0, <2>2, Typed
    <3>2. sync'[v] = [sync[v] EXCEPT !.disturbed = sync[v].disturbed \cup {e}]  BY <1>1, <2>2
    <3>3. sync'[v] \in Syncs  BY <1>0, <3>1, <3>2 DEF Syncs
    <3>4. QED  BY <2>2, <3>1, <3>2, <3>3, NoneAssumption DEF Syncs
  <2>3. CASE ~(sync[v] # None /\ sync[v].company = c)
    <3>1. sync'[v] = sync[v]  BY <1>1, <2>3
    <3>2. QED  BY <1>0, <2>3, <3>1, Typed
  <2>4. QED  BY <2>2, <2>3
<1>4. \A d \in Companies, x \in Repos :
         <<d, x>> # row \/ r.gone =>
            ProjectsOf(d, x)' = ProjectsOf(d, x) /\ rows'[d][x] = rows[d][x]
  BY <1>r, CommitProjects, CommitRow DEF Changes
<1>5. /\ rows' \in [Companies -> [Repos -> Row \cup {None}]]
      /\ projects' \in SUBSET Projects
      /\ \A d \in Companies, x \in Repos :
            (rows'[d][x] = None <=> rows[d][x] = None) /\ rows'[d][x].name = rows[d][x].name
  BY <1>r, CommitProjects, CommitRow
<1>6. TypeOK'
  <2>1. request' \in [Windows -> Requests \cup {None}]
    <3>1. \A v \in Windows : request'[v] \in Requests \cup {None}  BY <1>2
    <3> HIDE DEF changed
    <3>2. QED  BY <1>1, <3>1
  <2>2. sync' \in [Windows -> Syncs \cup {None}]  BY <1>1, <1>3
  <2>3. deaf' \subseteq Companies \X Repos /\ overtaken' \subseteq Companies \X Repos
    BY <1>0, <1>1 DEF TypeOK
  <2>4. identity' = "none" => \A d \in Companies : RowsOf(d)' = {}
    BY <1>0, <1>1, <1>5 DEF TypeOK, RowsOf
  <2>5. QED  BY <1>0, <1>1, <1>5, <2>1, <2>2, <2>3, <2>4 DEF TypeOK
<1> HIDE DEF changed
<1>7. Exclusive'  BY <1>1, <1>2, <1>3 DEF IInv, Exclusive
<1>8. Born'
  <2>1. \A p \in projects' : p.repo # None => rows'[p.company][p.repo] # None
    <3>1. ~r.gone => rows[c][e] # None  BY <1>0, <1>r DEF IInv, Born
    <3>2. \A p \in projects' : p.repo # None =>
             p \in projects \/ (p.company = c /\ p.repo = e /\ ~r.gone)
      BY <1>r, CommitProjects
    <3>3. \A p \in projects' : p.company \in Companies /\ p.repo \in Repos \cup {None}
      BY <1>5 DEF Projects
    <3>4. QED  BY <1>5, <3>1, <3>2, <3>3 DEF IInv, Born
  <2>2. \A d \in Companies, x \in Repos : rows'[d][x] # None => service'[x] # "unborn"
    BY <1>1, <1>5 DEF IInv, Born
  <2>3. ASSUME NEW v \in Windows, request'[v] # None
        PROVE  /\ service'[request'[v].repo] # "unborn"
               /\ ~request'[v].gone => rows'[request'[v].company][request'[v].repo] # None
    <3>1. v # w /\ request[v] # None /\ request[v] \in Requests  BY <1>2, <2>3
    <3>2. request[v].company \in Companies /\ request[v].repo \in Repos  BY <3>1, RequestTyped
    <3>3. QED  BY <1>1, <1>2, <1>5, <3>1, <3>2 DEF IInv, Born
  <2>4. \A d, x \in Listed' : service'[d] = service'[x] => d = x
    BY <1>1 DEF IInv, Born, Listed
  <2>5. \A v \in Windows : sync'[v] # None =>
          /\ \A x \in DOMAIN sync'[v].listed : x \in Repos /\ service'[x] # "unborn"
          /\ sync'[v].listed \in [DOMAIN sync'[v].listed -> Names]
          /\ \A d, x \in DOMAIN sync'[v].listed :
                sync'[v].listed[d] = sync'[v].listed[x] => d = x
    BY <1>1, <1>3 DEF IInv, Born
  <2>6. QED  BY <2>1, <2>2, <2>3, <2>4, <2>5 DEF Born
<1>9. Identified'
  <2>1. Loaded' \subseteq Loaded  BY <1>2, <1>3 DEF Loaded
  <2>2. Fresh' \subseteq Fresh \ {w}
        /\ \A v \in Fresh' : request'[v].project = request[v].project
    BY <1>2 DEF Fresh
  <2>3. \A q \in projects' : \/ q \in projects
                             \/ w \in Fresh /\ q.id = request[w].project.id
    BY <1>0, <1>r, CommitProjects DEF Fresh
  <2>4. \A q \in projects' \cup Loaded' : q.id <= created'
    BY <1>1, <2>1, <2>3 DEF IInv, Identified
  <2>5. \A p \in Loaded', q \in projects' : q.id = p.id => Same(q, p)'
    BY <2>1, <2>3 DEF IInv, Identified, Same
  <2>6. \A p, q \in projects' : q.id = p.id => q = p
    <3>1. \A p, q \in projects' \ projects : q = p
      <4>1. \A p \in projects' \ projects :
               /\ p \in [id: 1..MaxProjects, name: Names, company: Companies,
                         repo: Repos \cup {None}]
               /\ p.id = r.project.id /\ p.name = r.project.name /\ p.company = c
               /\ p.repo = IF r.gone THEN None ELSE e
        BY <1>5, <1>r, CommitProjects DEF Projects
      <4>2. QED  BY <4>1
    <3>2. QED  BY <2>3, <3>1 DEF IInv, Identified
  <2>7. \A v \in Fresh' :
            /\ request'[v].project.id <= created'
            /\ \A q \in projects' \cup Loaded' : q.id # request'[v].project.id
            /\ \A u \in Fresh' : request'[u].project.id = request'[v].project.id => u = v
    <3>1. \A v \in Fresh' :
            /\ v \in Fresh /\ v # w /\ request'[v].project = request[v].project
            /\ request[v].project.id <= created
            /\ \A q \in projects \cup Loaded : q.id # request[v].project.id
            /\ w \in Fresh => request[w].project.id # request[v].project.id
            /\ \A u \in Fresh : request[u].project.id = request[v].project.id => u = v
      BY <2>2 DEF IInv, Identified
    <3>2. QED  BY <1>1, <2>1, <2>3, <3>1
  <2>8. ASSUME NEW v \in Windows, request'[v] # None, request'[v].project # None
        PROVE  /\ request'[v].project.company = request'[v].company
               /\ request'[v].project.repo = request'[v].repo
               /\ request'[v].gone =>
                     \A q \in projects' : q.id = request'[v].project.id => q.repo = None
    <3>1. v # w /\ request[v] # None /\ request[v].project # None  BY <1>2, <2>8
    <3>2. /\ request[v].project.company = request[v].company
          /\ request[v].project.repo = request[v].repo
          /\ request[v].gone =>
                \A q \in projects : q.id = request[v].project.id => q.repo = None
      BY <3>1 DEF IInv, Identified
    <3>3. w \in Fresh => request[w].project.id # request[v].project.id
      <4>1. request[v].project \in Projects  BY <1>2, <3>1, RequestTyped
      <4>2. v \in Fresh \/ request[v].project \in Loaded  BY <3>1, <4>1 DEF Fresh, Loaded
      <4>3. QED  BY <3>1, <4>2 DEF IInv, Identified
    <3>4. QED  BY <1>2, <2>3, <3>1, <3>2, <3>3
  <2>9. \A v \in Windows : sync'[v] # None =>
          /\ \A p \in sync'[v].doomed :
                p.company = sync'[v].company /\ p.repo \in sync'[v].destroyed
          /\ sync'[v].victim # None /\ sync'[v].victim.project # None =>
                /\ sync'[v].victim.project.company = sync'[v].company
                /\ sync'[v].victim.project.repo = sync'[v].victim.repo
    BY <1>3 DEF IInv, Identified
  <2>10. QED  BY <2>4, <2>5, <2>6, <2>7, <2>8, <2>9 DEF Identified
<1>10. Staged'  BY <1>2 DEF IInv, Staged, Wanted
<1>11. \A p, q \in ProjectsOf(c, e)' : row \notin overtaken' => p = q
  <2>1. CASE r.gone
    <3>1. row \notin overtaken' => row \notin overtaken /\ rows[c][e] = rows'[c][e]
      BY <1>0, <1>1, <1>4, <2>1
    <3>2. CASE rows[c][e] = None
      <4>1. ProjectsOf(c, e) = {}
        BY <3>2, <1>0, NoneAssumption DEF IInv, Born, ProjectsOf
      <4>2. QED  BY <1>0, <1>4, <2>1, <4>1
    <3>3. CASE rows[c][e] # None
      BY <1>0, <1>4, <2>1, <3>1, <3>3 DEF IInv, Paired, RowsOf
    <3>4. QED  BY <3>2, <3>3
  <2>2. CASE ~r.gone
    <3>1. row \notin overtaken' =>
             ~r.overtaken /\ \A p, q \in ProjectsOf(c, e) : p = q
      <4>1. rows[c][e] # None  BY <1>0, <1>r, <2>2 DEF IInv, Born
      <4>2. row \notin overtaken => \A p, q \in ProjectsOf(c, e) : p = q
        BY <1>0, <4>1 DEF IInv, Paired, RowsOf
      <4>3. QED  BY <1>0, <1>1, <2>2, <4>2
    <3>2. row \notin overtaken' => ProjectsOf(c, e)' \subseteq {r.project}
      <4>1. SUFFICES ASSUME row \notin overtaken'
                     PROVE  ProjectsOf(c, e)' \subseteq {r.project}
        OBVIOUS
      <4>2. CASE Wanted(r)  BY <1>r, <2>2, <3>1, <4>1, <4>2, CommitRow
      <4>3. CASE ~Wanted(r)  BY <1>r, <2>2, <3>1, <4>1, <4>3, CommitRow
      <4>4. QED  BY <4>2, <4>3
    <3>3. QED  BY <3>2
  <2>3. QED  BY <2>1, <2>2
\* The own row, if this was not overtaken.
<1>12. ~r.gone /\ row \notin overtaken' =>
          /\ Wanted(r) => ProjectsOf(c, e)' = {r.project}
          /\ ~Wanted(r) => ProjectsOf(c, e)' = {}
          /\ rows'[c][e].subscribed = Wanted(r)
  <2>1. SUFFICES ASSUME ~r.gone, row \notin overtaken'
                 PROVE  /\ Wanted(r) => ProjectsOf(c, e)' = {r.project}
                        /\ ~Wanted(r) => ProjectsOf(c, e)' = {}
                        /\ rows'[c][e].subscribed = Wanted(r)
    OBVIOUS
  <2>2. rows[c][e] # None  BY <1>0, <1>r, <2>1 DEF IInv, Born
  <2>3. row \notin overtaken => \A p, q \in ProjectsOf(c, e) : p = q
    BY <1>0, <2>2 DEF IInv, Paired, RowsOf
  <2>4. ~r.overtaken /\ \A p, q \in ProjectsOf(c, e) : p = q
    BY <1>0, <1>1, <2>1, <2>3
  <2>5. QED  BY <1>r, <2>1, <2>4, CommitRow
<1>13. Paired'
  <2>1. ASSUME NEW d \in Companies, NEW x \in Repos, rows'[d][x] # None,
               <<d, x>> \notin overtaken'
        PROVE  /\ \A p, q \in ProjectsOf(d, x)' : p = q
               /\ rows'[d][x].subscribed <=> ProjectsOf(d, x)' # {}
    <3>1. CASE <<d, x>> = row /\ ~r.gone
      <4>1. d = c /\ x = e /\ row \notin overtaken'  BY <2>1, <3>1
      <4>2. QED  BY <1>11, <1>12, <3>1, <4>1
    <3>2. CASE <<d, x>> # row \/ r.gone
      <4>1. <<d, x>> \notin overtaken  BY <1>1, <2>1, <3>2
      <4>2. rows[d][x] # None  BY <1>5, <2>1
      <4>3. /\ \A p, q \in ProjectsOf(d, x) : p = q
            /\ rows[d][x].subscribed <=> ProjectsOf(d, x) # {}
        BY <4>1, <4>2 DEF IInv, Paired, RowsOf
      <4>4. QED  BY <1>4, <3>2, <4>3
    <3>3. QED  BY <3>1, <3>2
  <2>2. ASSUME NEW v \in Windows, request'[v] # None, ~request'[v].gone, ~request'[v].overtaken
        PROVE  Informed(request[v])'
    <3>1. v # w /\ request[v] # None  BY <1>2, <2>2
    <3>2. ~request[v].gone /\ ~request[v].overtaken /\ ~changed(v) /\ request[v] \in Requests
      BY <1>2, <2>2, <3>1
    <3>3. Informed(request[v])  BY <3>1, <3>2 DEF IInv, Paired
    <3>4. request'[v] = request[v]  BY <1>1, <3>1, <3>2
    <3>5. request[v].company \in Companies /\ request[v].repo \in Repos
      BY <3>2, RequestTyped
    <3>6. CASE request[v].company = c /\ request[v].repo = e
      <4>1. ~Changes(r) /\ projects' = projects  BY <3>1, <3>2, <3>6 DEF changed, For
      <4>2. rows' = rows  BY <1>r, <4>1, CommitRow
      <4>3. QED  BY <3>3, <3>4, <4>1, <4>2 DEF Informed, ProjectsOf, Changes, Wanted
    <3>7. CASE ~(request[v].company = c /\ request[v].repo = e)
      <4>1. /\ ProjectsOf(request[v].company, request[v].repo)'
                 = ProjectsOf(request[v].company, request[v].repo)
            /\ rows'[request[v].company][request[v].repo]
                 = rows[request[v].company][request[v].repo]
        BY <1>4, <3>4, <3>5, <3>7
      <4>2. request[v].project # None /\ ~request[v].fresh => request[v].project \in projects'
        <5>1. SUFFICES ASSUME request[v].project # None, ~request[v].fresh
                       PROVE  request[v].project \in projects'
          OBVIOUS
        <5>2. request[v].project \in ProjectsOf(request[v].company, request[v].repo)
          BY <3>1, <3>3, <5>1 DEF Informed, IInv, Identified, ProjectsOf
        <5>3. QED  BY <3>4, <4>1, <5>2 DEF ProjectsOf
      <4>3. QED  BY <3>3, <3>4, <4>1, <4>2 DEF Informed, Changes, Wanted
    <3>8. QED  BY <3>6, <3>7
  <2>3. QED  BY <2>1, <2>2 DEF Paired, RowsOf
<1>14. Locking'
  <2>1. \A v \in Windows : \A d, x : HasLock(v, d, x)' => HasLock(v, d, x)
    BY <1>2 DEF HasLock, For, Changes, Wanted
  <2>2. QED  BY <1>3, <2>1 DEF IInv, Locking
<1>15. Syncing'
  <2>1. SUFFICES ASSUME NEW v \in Windows, sync[v] # None
                 PROVE  Written(sync[v])' /\ Mirrored(sync[v])' /\ Displaced(sync[v])'
    BY <1>3 DEF Syncing
  <2> DEFINE s == sync[v]
             t == sync'[v]
  <2>2. /\ s \in Syncs /\ s.company \in Companies /\ s.written \subseteq Repos
        /\ s.victim # None => s.victim.repo \in Repos
        /\ s.destroyed \subseteq Repos
        /\ \A x \in DOMAIN s.listed : x \in Repos
    <3>1. s \in Syncs /\ Told(s)  BY <2>1, SyncFacts
    <3>2. s.victim # None => s.victim.repo \in Repos  BY <3>1, SyncTyped
    <3>3. QED  BY <3>1, <3>2, SyncTyped DEF Told
  <2>3. Written(s) /\ Mirrored(s) /\ Displaced(s)  BY <2>1, SyncFacts
  <2>4. /\ t.company = s.company /\ t.listed = s.listed
        /\ t.pending = s.pending /\ t.written = s.written
        /\ t.table = s.table /\ t.victim = s.victim
        /\ t.destroyed = s.destroyed /\ t.doomed = s.doomed
        /\ s.disturbed \subseteq t.disturbed
        /\ s.company = c => e \in t.disturbed
    BY <1>3, <2>1
  <2>5. \A x \in Repos \ t.disturbed : ProjectsOf(s.company, x)' = ProjectsOf(s.company, x)
    BY <1>4, <2>2, <2>4
  <2>6. \A x \in s.written : rows'[s.company][x] = rows[s.company][x]
    <3>1. TAKE x \in s.written
    <3>2. CASE s.company = c /\ x = e
      <4>1. ~HasLock(w, c, e)  BY <2>1, <3>2 DEF IInv, Locking
      <4>2. ~Changes(r)  BY <1>0, <1>r, <4>1 DEF HasLock, For
      <4>3. QED  BY <1>r, <2>2, <4>2, CommitRow
    <3>3. CASE ~(s.company = c /\ x = e)  BY <1>4, <2>2, <3>3
    <3>4. QED  BY <3>2, <3>3
  <2>7. \A x \in Repos : /\ View(sync[v], x)' = None <=> View(s, x) = None
                         /\ View(sync[v], x)'.name = View(s, x).name
    BY <1>5, <2>2, <2>4 DEF View
  <2> HIDE DEF s, t
  <2>8. Written(sync[v])'
    BY <2>2, <2>3, <2>4, <2>6 DEF Written, s, t
  <2>9. Mirrored(sync[v])'
    BY <2>2, <2>3, <2>4, <2>5, <2>7 DEF Mirrored, s, t
  <2>10. NewRow(s) => NewRow(sync[v])'
    BY <1>5, <2>2, <2>4 DEF NewRow, s, t
  <2>11. \A x \in Repos : LosesName(s, x) => LosesName(sync[v], x)'
    BY <1>5, <2>2, <2>4 DEF LosesName, s, t
  <2>12. Displaced(sync[v])'
    BY <2>2, <2>3, <2>4, <2>5, <2>10, <2>11 DEF Displaced, s, t
  <2>13. QED  BY <2>8, <2>9, <2>12
<1>16. Crossing'  BY <1>2 DEF IInv, Crossing, Calling, Called, Wanted
<1>17. Hooked'
  <2>1. ASSUME NEW v \in Windows, request'[v] # None, ~request'[v].crossed
        PROVE  Done(request[v])'
    <3>1. v # w /\ request[v] # None /\ ~request[v].crossed  BY <1>2, <2>1
    <3>2. Done(request[v])  BY <3>1 DEF IInv, Hooked
    <3>3. QED  BY <1>1, <1>2, <3>1, <3>2 DEF Done, Wanted, Listed
  <2>2. QED  BY <1>1, <2>1 DEF IInv, Hooked
\* Whoever calls about the repository now has crossed the calls of this one.
<1>18. ASSUME NEW v \in Windows \ {w}, Calling(request[v], e), Wanted(r) PROVE r.crossed
  <2>1. Called(r, e)  BY <1>0 DEF Called
  <2>2. QED  BY <1>0, <1>r, <1>18, <2>1 DEF IInv, Crossing
<1>19. Muted'
  <2>1. SUFFICES ASSUME NEW v \in Windows, NEW p \in projects', Calling(request'[v], p.repo)
                 PROVE  \/ <<p.company, p.repo>> \in deaf' \cup overtaken'
                        \/ request'[v].company = p.company /\ ~request'[v].gone
    BY DEF Muted
  <2>2. v # w /\ request[v] # None /\ Calling(request[v], p.repo) /\ request[v] \in Requests
    BY <1>2, <2>1 DEF Calling
  <2>3. p.repo \in Repos /\ p.repo # None
    BY <2>2, RequestTyped, NoneAssumption DEF Calling
  <2>4. CASE <<p.company, p.repo>> = row
    <3>1. p.company = c /\ p.repo = e  BY <2>4
    <3>2. CASE Wanted(r)
      <4>1. r.crossed  BY <1>18, <2>2, <3>1, <3>2
      <4>2. QED  BY <1>1, <2>4, <4>1
    <3>3. CASE ~Wanted(r)
      <4>1. p \in projects  BY <1>0, <1>r, <3>3, CommitProjects
      <4>2. \/ <<p.company, p.repo>> \in deaf \cup overtaken
            \/ request[v].company = p.company /\ ~request[v].gone
        BY <2>2, <4>1 DEF IInv, Muted
      <4>3. row \in deaf => row \in deaf'  BY <1>1, <3>3
      <4>4. row \in overtaken => row \in overtaken'
        <5>1. SUFFICES ASSUME row \notin overtaken', row \in overtaken PROVE FALSE
          OBVIOUS
        <5>2. ~r.gone  BY <1>1, <5>1
        <5>3. ProjectsOf(c, e)' = {}  BY <1>12, <3>3, <5>1, <5>2
        <5>4. QED  BY <2>1, <3>1, <5>3 DEF ProjectsOf
      <4>5. QED  BY <1>2, <2>2, <2>4, <4>2, <4>3, <4>4
    <3>4. QED  BY <3>2, <3>3
  <2>5. CASE <<p.company, p.repo>> # row
    <3>1. p \in projects  BY <1>r, <2>3, <2>5, CommitProjects
    <3>2. \/ <<p.company, p.repo>> \in deaf \cup overtaken
          \/ request[v].company = p.company /\ ~request[v].gone
      BY <2>2, <3>1 DEF IInv, Muted
    <3>3. QED  BY <1>1, <1>2, <2>2, <2>5, <3>2
  <2>6. QED  BY <2>4, <2>5
<1>20. Listening'
  <2>1. SUFFICES ASSUME NEW p \in projects', p.repo \in Listed',
                        <<p.company, p.repo>> \notin deaf' \cup overtaken'
                 PROVE  \/ Heard(p)'
                        \/ \E v \in Windows :
                              /\ Called(request'[v], p.repo)
                              /\ request'[v].company = p.company /\ ~request'[v].gone
    BY DEF Listening
  <2>2. p.repo \in Listed /\ p.repo \in Repos /\ p.repo # None
    BY <1>1, <2>1, NoneAssumption DEF Listed
  <2>3. CASE <<p.company, p.repo>> = row /\ ~r.gone
    <3>1. p.company = c /\ p.repo = e  BY <2>3
    <3>2. p \in ProjectsOf(c, e)'  BY <2>1, <3>1 DEF ProjectsOf
    <3>3. Wanted(r) /\ p = r.project  BY <1>12, <2>1, <2>3, <3>2
    <3>4. ~r.crossed  BY <1>1, <2>1, <3>1
    <3>5. Done(r)  BY <1>0, <1>r, <3>4 DEF IInv, Hooked
    <3>6. Heard(p)  BY <1>0, <2>2, <3>1, <3>3, <3>5 DEF Done, Heard
    <3>7. QED  BY <1>1, <3>6 DEF Heard
  <2>4. CASE <<p.company, p.repo>> # row \/ r.gone
    <3>1. p \in projects  BY <1>r, <2>2, <2>4, CommitProjects
    <3>2. <<p.company, p.repo>> \notin deaf \cup overtaken  BY <1>1, <2>1, <2>4
    <3>3. CASE Heard(p)  BY <1>1, <3>3 DEF Heard
    <3>4. CASE ~Heard(p)
      <4>1. PICK v \in Windows : /\ Called(request[v], p.repo)
                                 /\ request[v].company = p.company /\ ~request[v].gone
        BY <2>2, <3>1, <3>2, <3>4 DEF IInv, Listening
      <4>2. v # w
        BY <1>r, <2>4, <4>1 DEF Called
      <4>3. request[v] # None  BY <4>1 DEF Called
      <4>4. QED  BY <1>2, <4>1, <4>2, <4>3 DEF Called
    <3>5. QED  BY <3>3, <3>4
  <2>5. QED  BY <2>3, <2>4
<1>21. QED  BY <1>6, <1>7, <1>8, <1>9, <1>10, <1>13, <1>14, <1>15, <1>16, <1>17, <1>19,
               <1>20 DEF IInv

-----------------------------------------------------------------------------
(* The commit of a sync                                                     *)

\* What a sync does to the rows of its company and to the projects.  A row that
\* it destroys has no project after it, though the row may have been made again.
LEMMA CommitSyncTables ==
    ASSUME IInv, NEW w \in Windows, CommitSync(w), NEW s, s = sync[w], NEW c, c = s.company
    PROVE  /\ rows' \in [Companies -> [Repos -> Row \cup {None}]]
           /\ \A d \in Companies \ {c}, x \in Repos : rows'[d][x] = rows[d][x]
           /\ \A x \in Repos : rows'[c][x] = View(s, x)
           /\ \A x \in Repos \ s.written : rows'[c][x] = rows[c][x]
           /\ \A x \in Repos : rows'[c][x] # None => service[x] # "unborn"
           /\ \A x \in Repos \ s.destroyed :
                 /\ rows[c][x] # None =>
                       /\ rows'[c][x] # None
                       /\ rows'[c][x].subscribed <=> rows[c][x].subscribed
                 /\ rows[c][x] = None /\ rows'[c][x] # None => ~rows'[c][x].subscribed
           /\ \A x \in s.destroyed :
                 /\ rows'[c][x] # None => ~rows'[c][x].subscribed
                 /\ ProjectsOf(c, x)' = {}
           /\ \A d \in Companies, x \in Repos :
                 d # c \/ x \notin s.destroyed => ProjectsOf(d, x)' = ProjectsOf(d, x)
           /\ projects' \in SUBSET Projects
           /\ \A q \in projects' : \E p \in projects :
                 /\ q.id = p.id /\ q.name = p.name /\ q.company = p.company
                 /\ q.repo = IF p.company = c /\ p.repo \in s.destroyed THEN None ELSE p.repo
                 /\ q.repo # None => q = p
<1> DEFINE Becomes(p) == IF p.company = c /\ p.repo \in s.destroyed
                         THEN [p EXCEPT !.repo = None] ELSE p
<1>1. /\ s \in Syncs /\ c \in Companies /\ TypeOK /\ s.destroyed \subseteq Repos
      /\ s.destroyed \subseteq s.written
      /\ Written(s) /\ Told(s) /\ s # None
  <2>1. s # None  BY DEF CommitSync
  <2>2. s \in Syncs /\ Written(s) /\ Told(s)  BY <2>1, SyncFacts
  <2>3. QED  BY <2>1, <2>2, SyncTyped DEF IInv, Written
<1>2. /\ rows' = [rows EXCEPT ![c] = [x \in Repos |-> View(s, x)]]
      /\ projects' = {Becomes(p) : p \in Without(s.doomed)}
  BY DEF CommitSync, Orphaned
<1>3. \A x \in Repos : View(s, x) \in Row \cup {None}
  BY <1>1, SyncTyped DEF View, TypeOK
<1>4. /\ rows' \in [Companies -> [Repos -> Row \cup {None}]]
      /\ \A d \in Companies \ {c}, x \in Repos : rows'[d][x] = rows[d][x]
      /\ \A x \in Repos : rows'[c][x] = View(s, x)
  <2> DEFINE mine == [x \in Repos |-> View(s, x)]
  <2>1. mine \in [Repos -> Row \cup {None}] /\ \A x \in Repos : mine[x] = View(s, x)
    BY <1>3
  <2>2. rows' = [rows EXCEPT ![c] = mine]  BY <1>2
  <2> HIDE DEF mine
  <2>3. QED  BY <1>1, <2>1, <2>2 DEF TypeOK
<1>5. \A x \in Repos \ s.written : rows'[c][x] = rows[c][x]  BY <1>1, <1>4 DEF View
<1>6. \A x \in Repos : rows'[c][x] # None => service[x] # "unborn"
  <2>1. \A x \in s.written : s.table[x] # None => x \in DOMAIN s.listed
    BY <1>1 DEF Written
  <2>2. QED  BY <1>1, <1>4, <2>1 DEF View, IInv, Born, Told
<1>7. \A x \in Repos \ s.destroyed :
         /\ rows[c][x] # None =>
               /\ rows'[c][x] # None
               /\ rows'[c][x].subscribed <=> rows[c][x].subscribed
         /\ rows[c][x] = None /\ rows'[c][x] # None => ~rows'[c][x].subscribed
  BY <1>1, <1>4 DEF Written, View
<1>8. \A x \in s.destroyed : rows'[c][x] # None => ~rows'[c][x].subscribed
  BY <1>1, <1>4 DEF Written, View
<1>9. ASSUME NEW p \in projects
      PROVE  /\ Becomes(p) \in Projects
             /\ Becomes(p).id = p.id /\ Becomes(p).name = p.name
             /\ Becomes(p).company = p.company
             /\ Becomes(p).repo = IF p.company = c /\ p.repo \in s.destroyed THEN None ELSE p.repo
             /\ Becomes(p).repo # None => Becomes(p) = p
  BY <1>1, <1>9 DEF TypeOK, Projects
<1> HIDE DEF Becomes
<1>10. Without(s.doomed) \subseteq projects  BY DEF Without
<1>11. \A q \in projects' : \E p \in projects : q = Becomes(p)  BY <1>2, <1>10
<1>12. \A q \in projects' : \E p \in projects :
                 /\ q.id = p.id /\ q.name = p.name /\ q.company = p.company
                 /\ q.repo = IF p.company = c /\ p.repo \in s.destroyed THEN None ELSE p.repo
                 /\ q.repo # None => q = p
  BY <1>9, <1>11
<1>13. projects' \in SUBSET Projects  BY <1>9, <1>11
<1>14. \A x \in s.destroyed : ProjectsOf(c, x)' = {}
  <2>1. SUFFICES ASSUME NEW x \in s.destroyed, NEW q \in projects', q.company = c, q.repo = x
                 PROVE  FALSE
    BY DEF ProjectsOf
  <2>2. x # None  BY <1>1, NoneAssumption
  <2>3. QED  BY <1>12, <2>1, <2>2
<1>15. ASSUME NEW d \in Companies, NEW x \in Repos, d # c \/ x \notin s.destroyed
       PROVE  ProjectsOf(d, x)' = ProjectsOf(d, x)
  <2>0. x # None  BY NoneAssumption
  <2>1. \A q \in ProjectsOf(d, x)' : q \in ProjectsOf(d, x)
    BY <1>12, <2>0 DEF ProjectsOf
  <2>2. ASSUME NEW p \in ProjectsOf(d, x) PROVE p \in ProjectsOf(d, x)'
    <3>1. p \in projects /\ p.company = d /\ p.repo = x  BY DEF ProjectsOf
    <3>2. \A m \in s.doomed : p.id # m.id
      <4>1. SUFFICES ASSUME NEW m \in s.doomed, p.id = m.id PROVE FALSE  OBVIOUS
      <4>2. m \in Loaded /\ m.company = c /\ m.repo \in s.destroyed
        <5>1. m \in Projects  BY <1>1, SyncTyped
        <5>2. m \in Loaded  BY <1>1, <5>1 DEF Loaded
        <5>3. QED  BY <1>1, <5>2 DEF IInv, Identified
      <4>3. Same(p, m)  BY <3>1, <4>1, <4>2 DEF IInv, Identified
      <4>4. QED  BY <1>15, <2>0, <3>1, <4>2, <4>3 DEF Same
    <3>3. p \in Without(s.doomed)  BY <3>1, <3>2 DEF Without
    <3>4. Becomes(p) = p  BY <1>15, <3>1 DEF Becomes
    <3>5. p \in projects'  BY <1>2, <3>3, <3>4
    <3>6. QED  BY <3>1, <3>5 DEF ProjectsOf
  <2>3. QED  BY <2>1, <2>2
<1>16. QED  BY <1>4, <1>5, <1>6, <1>7, <1>8, <1>12, <1>13, <1>14, <1>15

LEMMA CommitSyncKeeps ==
    ASSUME IInv, NEW w \in Windows, CommitSync(w)
    PROVE  IInv'
<1>s. PICK s : s = sync[w]  OBVIOUS
<1>c. PICK c : c = s.company  OBVIOUS
<1> DEFINE loses(v) == \E x \in s.destroyed : For(request[v], c, x)
<1>0. /\ s # None /\ s \in Syncs /\ c \in Companies /\ TypeOK /\ identity # "none"
      /\ s.destroyed \subseteq Repos /\ s.destroyed \subseteq s.written
      /\ s.written \subseteq Repos
  <2>1. s # None  BY <1>s DEF CommitSync
  <2>2. s \in Syncs /\ Written(s)  BY <1>s, <2>1, SyncFacts
  <2>3. identity # "none"  BY <1>s, <2>1 DEF IInv, Exclusive
  <2>4. QED  BY <1>c, <2>1, <2>2, <2>3, SyncTyped DEF IInv, Written
<1>1. /\ request' = [v \in Windows |-> IF loses(v) THEN [request[v] EXCEPT !.gone = TRUE]
                                       ELSE request[v]]
      /\ sync' = [v \in Windows |->
                     IF v = w THEN None
                     ELSE IF sync[v] # None /\ sync[v].company = c
                     THEN [sync[v] EXCEPT !.disturbed = @ \cup s.written] ELSE sync[v]]
      /\ overtaken' = overtaken \ ({c} \X s.destroyed)
      /\ UNCHANGED <<service, hooks, keys, created, sent, identity, deaf, doubled>>
  BY <1>s, <1>c DEF CommitSync, serviceVars
\* Requests for rows that are destroyed lose them, and that is all they notice.
<1>2. \A v \in Windows :
         /\ request'[v] = None <=> request[v] = None
         /\ request[v] # None =>
               /\ request[v] \in Requests /\ request'[v] \in Requests
               /\ request'[v].op = request[v].op
               /\ request'[v].company = request[v].company
               /\ request'[v].repo = request[v].repo /\ request'[v].copy = request[v].copy
               /\ request'[v].stage = request[v].stage
               /\ request'[v].project = request[v].project
               /\ request'[v].fresh = request[v].fresh
               /\ request'[v].crossed = request[v].crossed
               /\ request'[v].overtaken = request[v].overtaken
               /\ request'[v].gone = (request[v].gone \/ loses(v))
               /\ loses(v) <=> request[v].company = c /\ request[v].repo \in s.destroyed
  <2>1. ASSUME NEW v \in Windows, request[v] = None PROVE request'[v] = None
    BY <1>1, <2>1 DEF For
  <2>2. ASSUME NEW v \in Windows, request[v] # None
        PROVE  /\ request[v] \in Requests /\ request'[v] \in Requests
               /\ request'[v] # None
               /\ request'[v].op = request[v].op
               /\ request'[v].company = request[v].company
               /\ request'[v].repo = request[v].repo /\ request'[v].copy = request[v].copy
               /\ request'[v].stage = request[v].stage
               /\ request'[v].project = request[v].project
               /\ request'[v].fresh = request[v].fresh
               /\ request'[v].crossed = request[v].crossed
               /\ request'[v].overtaken = request[v].overtaken
               /\ request'[v].gone = (request[v].gone \/ loses(v))
               /\ loses(v) <=> request[v].company = c /\ request[v].repo \in s.destroyed
    <3>1. request[v] \in Requests /\ request[v].gone \in BOOLEAN
      BY <1>0, <2>2, Typed, RequestTyped
    <3>2. loses(v) <=> request[v].company = c /\ request[v].repo \in s.destroyed
      BY <2>2 DEF For
    <3>3. CASE loses(v)
      <4>1. request'[v] = [request[v] EXCEPT !.gone = TRUE]  BY <1>1, <3>3
      <4> HIDE DEF loses
      <4>2. request'[v] \in Requests  BY <3>1, <4>1 DEF Requests
      <4>3. QED  BY <3>1, <3>2, <3>3, <4>1, <4>2, NoneAssumption DEF Requests
    <3>4. CASE ~loses(v)
      <4>1. request'[v] = request[v]  BY <1>1, <3>4
      <4> HIDE DEF loses
      <4>2. QED  BY <2>2, <3>1, <3>2, <3>4, <4>1
    <3>5. QED  BY <3>3, <3>4
  <2> HIDE DEF loses
  <2>3. QED  BY <2>1, <2>2
<1>3. /\ sync'[w] = None
      /\ \A v \in Windows \ {w} :
            /\ sync'[v] = None <=> sync[v] = None
            /\ sync[v] # None =>
                  /\ sync[v] \in Syncs /\ sync'[v] \in Syncs
                  /\ sync'[v].company = sync[v].company /\ sync'[v].listed = sync[v].listed
                  /\ sync'[v].pending = sync[v].pending /\ sync'[v].written = sync[v].written
                  /\ sync'[v].table = sync[v].table /\ sync'[v].victim = sync[v].victim
                  /\ sync'[v].destroyed = sync[v].destroyed /\ sync'[v].doomed = sync[v].doomed
                  /\ sync[v].disturbed \subseteq sync'[v].disturbed
                  /\ sync[v].company = c => s.written \subseteq sync'[v].disturbed
  <2>0. sync'[w] = None  BY <1>1
  <2>1. ASSUME NEW v \in Windows \ {w}
        PROVE  /\ sync'[v] = None <=> sync[v] = None
               /\ sync[v] # None =>
                     /\ sync[v] \in Syncs /\ sync'[v] \in Syncs
                     /\ sync'[v].company = sync[v].company /\ sync'[v].listed = sync[v].listed
                     /\ sync'[v].pending = sync[v].pending /\ sync'[v].written = sync[v].written
                     /\ sync'[v].table = sync[v].table /\ sync'[v].victim = sync[v].victim
                     /\ sync'[v].destroyed = sync[v].destroyed
                     /\ sync'[v].doomed = sync[v].doomed
                     /\ sync[v].disturbed \subseteq sync'[v].disturbed
                     /\ sync[v].company = c => s.written \subseteq sync'[v].disturbed
    <3>1. CASE sync[v] # None /\ sync[v].company = c
      <4>1. sync[v] \in Syncs  BY <1>0, <3>1, Typed
      <4>2. sync'[v] = [sync[v] EXCEPT !.disturbed = sync[v].disturbed \cup s.written]
        BY <1>1, <3>1
      <4>3. sync'[v] \in Syncs  BY <1>0, <4>1, <4>2 DEF Syncs
      <4>4. QED  BY <3>1, <4>1, <4>2, <4>3, NoneAssumption DEF Syncs
    <3>2. CASE ~(sync[v] # None /\ sync[v].company = c)
      <4>1. sync'[v] = sync[v]  BY <1>1, <3>2
      <4>2. QED  BY <1>0, <3>2, <4>1, Typed
    <3>3. QED  BY <3>1, <3>2
  <2>2. QED  BY <2>0, <2>1
<1> HIDE DEF loses
<1>4. /\ rows' \in [Companies -> [Repos -> Row \cup {None}]]
      /\ projects' \in SUBSET Projects
      /\ \A d \in Companies, x \in Repos :
            d # c \/ x \notin s.destroyed =>
               /\ ProjectsOf(d, x)' = ProjectsOf(d, x)
               /\ rows[d][x] # None =>
                     /\ rows'[d][x] # None
                     /\ rows'[d][x].subscribed <=> rows[d][x].subscribed
               /\ rows[d][x] = None /\ rows'[d][x] # None => ~rows'[d][x].subscribed
      /\ \A d \in Companies, x \in Repos :
            d # c \/ x \notin s.written => rows'[d][x] = rows[d][x]
      /\ \A x \in s.destroyed : /\ rows'[c][x] # None => ~rows'[c][x].subscribed
                                /\ ProjectsOf(c, x)' = {}
  <2>1. rows' \in [Companies -> [Repos -> Row \cup {None}]] /\ projects' \in SUBSET Projects
    BY <1>s, <1>c, CommitSyncTables
  <2>2. \A d \in Companies, x \in Repos :
            d # c \/ x \notin s.destroyed => ProjectsOf(d, x)' = ProjectsOf(d, x)
    BY <1>s, <1>c, CommitSyncTables
  <2>3. \A d \in Companies \ {c}, x \in Repos : rows'[d][x] = rows[d][x]
    BY <1>s, <1>c, CommitSyncTables
  <2>4. \A x \in Repos \ s.written : rows'[c][x] = rows[c][x]
    BY <1>s, <1>c, CommitSyncTables
  <2>5. \A x \in Repos \ s.destroyed :
           /\ rows[c][x] # None =>
                 /\ rows'[c][x] # None
                 /\ rows'[c][x].subscribed <=> rows[c][x].subscribed
           /\ rows[c][x] = None /\ rows'[c][x] # None => ~rows'[c][x].subscribed
    BY <1>s, <1>c, CommitSyncTables
  <2>6. \A x \in s.destroyed : /\ rows'[c][x] # None => ~rows'[c][x].subscribed
                               /\ ProjectsOf(c, x)' = {}
    BY <1>s, <1>c, CommitSyncTables
  <2>7. QED  BY <2>1, <2>2, <2>3, <2>4, <2>5, <2>6
<1>5. \A q \in projects' : \E p \in projects :
         /\ q.id = p.id /\ q.name = p.name /\ q.company = p.company
         /\ q.repo = IF p.company = c /\ p.repo \in s.destroyed THEN None ELSE p.repo
         /\ q.repo # None => q = p
  BY <1>s, <1>c, CommitSyncTables
\* A project that still has a row is as it was.
<1>6. \A q \in projects' : q.repo # None =>
         /\ q \in projects /\ q.company \in Companies /\ q.repo \in Repos
         /\ q.company # c \/ q.repo \notin s.destroyed
  <2>1. \A q \in projects' : q.company \in Companies /\ q.repo \in Repos \cup {None}
    BY <1>4 DEF Projects
  <2>2. QED  BY <1>5, <2>1
<1>7. TypeOK'
  <2>1. request' \in [Windows -> Requests \cup {None}]
    <3>1. \A v \in Windows : request'[v] \in Requests \cup {None}  BY <1>2
    <3>2. QED  BY <1>1, <3>1
  <2>2. sync' \in [Windows -> Syncs \cup {None}]
    <3>1. \A v \in Windows : sync'[v] \in Syncs \cup {None}  BY <1>3
    <3>2. QED  BY <1>1, <3>1
  <2>3. QED  BY <1>0, <1>1, <1>4, <2>1, <2>2 DEF TypeOK
<1>8. Exclusive'  BY <1>0, <1>1, <1>2, <1>3 DEF IInv, Exclusive
<1>9. Born'
  <2>1. \A d \in Companies, x \in Repos : rows'[d][x] # None => service'[x] # "unborn"
    <3>1. \A x \in Repos : rows'[c][x] # None => service[x] # "unborn"
      BY <1>s, <1>c, CommitSyncTables
    <3>2. \A d \in Companies \ {c}, x \in Repos : rows'[d][x] = rows[d][x]  BY <1>4
    <3>3. QED  BY <1>1, <3>1, <3>2 DEF IInv, Born
  <2>2. ASSUME NEW v \in Windows, request'[v] # None
        PROVE  /\ service'[request'[v].repo] # "unborn"
               /\ ~request'[v].gone => rows'[request'[v].company][request'[v].repo] # None
    <3>1. request[v] # None /\ request[v] \in Requests  BY <1>2, <2>2
    <3>2. request[v].company \in Companies /\ request[v].repo \in Repos  BY <3>1, RequestTyped
    <3>3. service[request[v].repo] # "unborn"  BY <3>1 DEF IInv, Born
    <3>4. ASSUME ~request'[v].gone
          PROVE  rows'[request[v].company][request[v].repo] # None
      <4>1. ~request[v].gone /\ (request[v].company # c \/ request[v].repo \notin s.destroyed)
        BY <1>2, <3>1, <3>4
      <4>2. rows[request[v].company][request[v].repo] # None
        BY <3>1, <4>1 DEF IInv, Born
      <4>3. QED  BY <1>4, <3>2, <4>1, <4>2
    <3>5. QED  BY <1>1, <1>2, <3>1, <3>3, <3>4
  <2>3. \A v \in Windows : sync'[v] # None =>
          /\ \A x \in DOMAIN sync'[v].listed : x \in Repos /\ service'[x] # "unborn"
          /\ sync'[v].listed \in [DOMAIN sync'[v].listed -> Names]
          /\ \A d, x \in DOMAIN sync'[v].listed :
                sync'[v].listed[d] = sync'[v].listed[x] => d = x
    BY <1>1, <1>3 DEF IInv, Born
  <2>4. \A p \in projects' : p.repo # None => rows'[p.company][p.repo] # None
    BY <1>4, <1>6 DEF IInv, Born
  <2>5. \A d, x \in Listed' : service'[d] = service'[x] => d = x
    BY <1>1 DEF IInv, Born, Listed
  <2>6. QED  BY <2>1, <2>2, <2>3, <2>4, <2>5 DEF Born
<1>10. Identified'
  <2>1. Loaded' \subseteq Loaded  BY <1>2, <1>3 DEF Loaded
  <2>2. Fresh' = Fresh /\ \A v \in Fresh : v \in Windows /\ request'[v].project = request[v].project
    BY <1>2 DEF Fresh
  <2>3. \A q \in projects' \cup Loaded' : q.id <= created'
    BY <1>1, <1>5, <2>1 DEF IInv, Identified
  <2>4. \A p \in Loaded', q \in projects' : q.id = p.id => Same(q, p)'
    BY <1>5, <2>1 DEF IInv, Identified, Same
  <2>5. \A p, q \in projects' : q.id = p.id => q = p
    <3>1. SUFFICES ASSUME NEW p \in projects', NEW q \in projects', q.id = p.id PROVE q = p
      OBVIOUS
    <3>2. PICK p0 \in projects :
             /\ p.id = p0.id /\ p.name = p0.name /\ p.company = p0.company
             /\ p.repo = IF p0.company = c /\ p0.repo \in s.destroyed THEN None ELSE p0.repo
      BY <1>5
    <3>3. PICK q0 \in projects :
             /\ q.id = q0.id /\ q.name = q0.name /\ q.company = q0.company
             /\ q.repo = IF q0.company = c /\ q0.repo \in s.destroyed THEN None ELSE q0.repo
      BY <1>5
    <3>4. q0 = p0  BY <3>1, <3>2, <3>3 DEF IInv, Identified
    <3>5. q.id = p.id /\ q.name = p.name /\ q.company = p.company /\ q.repo = p.repo
      BY <3>2, <3>3, <3>4
    <3>6. p \in Projects /\ q \in Projects  BY <1>4
    <3>7. QED  BY <3>5, <3>6 DEF Projects
  <2>6. \A v \in Fresh' :
            /\ request'[v].project.id <= created'
            /\ \A q \in projects' \cup Loaded' : q.id # request'[v].project.id
            /\ \A u \in Fresh' : request'[u].project.id = request'[v].project.id => u = v
    BY <1>1, <1>5, <2>1, <2>2 DEF IInv, Identified
  <2>7. ASSUME NEW v \in Windows, request'[v] # None, request'[v].project # None
        PROVE  /\ request'[v].project.company = request'[v].company
               /\ request'[v].project.repo = request'[v].repo
               /\ request'[v].gone =>
                     \A q \in projects' : q.id = request'[v].project.id => q.repo = None
    <3>1. /\ request[v] # None /\ request[v].project # None
          /\ request[v].project \in Projects
      BY <1>2, <2>7, RequestTyped
    <3>2. /\ request[v].project.company = request[v].company
          /\ request[v].project.repo = request[v].repo
          /\ request[v].gone =>
                \A q \in projects : q.id = request[v].project.id => q.repo = None
      BY <3>1 DEF IInv, Identified
    <3>3. ASSUME request'[v].gone, NEW q \in projects', q.id = request[v].project.id
          PROVE  q.repo = None
      <4>1. PICK p \in projects :
               /\ q.id = p.id
               /\ q.repo = IF p.company = c /\ p.repo \in s.destroyed THEN None ELSE p.repo
        BY <1>5
      <4>2. CASE request[v].gone  BY <3>2, <3>3, <4>1, <4>2
      <4>3. CASE ~request[v].gone
        <5>1. request[v].company = c /\ request[v].repo \in s.destroyed
          BY <1>2, <3>1, <3>3, <4>3
        <5>2. v \notin Fresh  BY <3>3, <4>1 DEF IInv, Identified
        <5>3. request[v].project \in Loaded  BY <3>1, <5>2 DEF Fresh, Loaded
        <5>4. Same(p, request[v].project)  BY <3>3, <4>1, <5>3 DEF IInv, Identified
        <5>5. QED  BY <3>2, <4>1, <5>1, <5>4 DEF Same
      <4>4. QED  BY <4>2, <4>3
    <3>4. QED  BY <1>2, <3>1, <3>2, <3>3
  <2>8. \A v \in Windows : sync'[v] # None =>
          /\ \A p \in sync'[v].doomed :
                p.company = sync'[v].company /\ p.repo \in sync'[v].destroyed
          /\ sync'[v].victim # None /\ sync'[v].victim.project # None =>
                /\ sync'[v].victim.project.company = sync'[v].company
                /\ sync'[v].victim.project.repo = sync'[v].victim.repo
    BY <1>3 DEF IInv, Identified
  <2>9. QED  BY <2>3, <2>4, <2>5, <2>6, <2>7, <2>8 DEF Identified
<1>11. Staged'  BY <1>2 DEF IInv, Staged, Wanted
<1>12. Paired'
  <2>1. ASSUME NEW d \in Companies, NEW x \in Repos, rows'[d][x] # None,
               <<d, x>> \notin overtaken'
        PROVE  /\ \A p, q \in ProjectsOf(d, x)' : p = q
               /\ rows'[d][x].subscribed <=> ProjectsOf(d, x)' # {}
    <3>1. CASE d = c /\ x \in s.destroyed  BY <1>4, <2>1, <3>1
    <3>2. CASE d # c \/ x \notin s.destroyed
      <4>1. <<d, x>> \notin overtaken  BY <1>1, <2>1, <3>2
      <4>2. CASE rows[d][x] # None
        <5>1. /\ \A p, q \in ProjectsOf(d, x) : p = q
              /\ rows[d][x].subscribed <=> ProjectsOf(d, x) # {}
          BY <4>1, <4>2 DEF IInv, Paired, RowsOf
        <5>2. QED  BY <1>4, <3>2, <4>2, <5>1
      <4>3. CASE rows[d][x] = None
        <5>1. ProjectsOf(d, x) = {}  BY <4>3, NoneAssumption DEF IInv, Born, ProjectsOf
        <5>2. QED  BY <1>4, <2>1, <3>2, <4>3, <5>1
      <4>4. QED  BY <4>2, <4>3
    <3>3. QED  BY <3>1, <3>2
  <2>2. ASSUME NEW v \in Windows, request'[v] # None, ~request'[v].gone, ~request'[v].overtaken
        PROVE  Informed(request[v])'
    <3>1. /\ request[v] # None /\ ~request[v].gone /\ ~request[v].overtaken
          /\ request[v] \in Requests
          /\ request[v].company # c \/ request[v].repo \notin s.destroyed
      BY <1>2, <2>2
    <3>2. request'[v] = request[v]  BY <1>1, <1>2, <2>2, <3>1
    <3>3. Informed(request[v])  BY <3>1 DEF IInv, Paired
    <3>4. request[v].company \in Companies /\ request[v].repo \in Repos  BY <3>1, RequestTyped
    <3>5. rows[request[v].company][request[v].repo] # None  BY <3>1 DEF IInv, Born
    <3>6. /\ ProjectsOf(request[v].company, request[v].repo)'
               = ProjectsOf(request[v].company, request[v].repo)
          /\ rows'[request[v].company][request[v].repo].subscribed
               <=> rows[request[v].company][request[v].repo].subscribed
      BY <1>4, <3>1, <3>2, <3>4, <3>5
    <3>7. request[v].project # None /\ ~request[v].fresh => request[v].project \in projects'
      <4>1. SUFFICES ASSUME request[v].project # None, ~request[v].fresh
                     PROVE  request[v].project \in projects'
        OBVIOUS
      <4>2. request[v].project \in ProjectsOf(request[v].company, request[v].repo)
        BY <3>1, <3>3, <4>1 DEF Informed, IInv, Identified, ProjectsOf
      <4>3. QED  BY <3>2, <3>6, <4>2 DEF ProjectsOf
    <3>8. rows'[request[v].company][request[v].repo].subscribed \in BOOLEAN
          /\ rows[request[v].company][request[v].repo].subscribed \in BOOLEAN
      <4>1. rows[request[v].company][request[v].repo] \in Row  BY <1>0, <3>4, <3>5, Typed
      <4>2. rows'[request[v].company][request[v].repo] \in Row
        BY <1>4, <3>1, <3>4, <3>5
      <4>3. QED  BY <4>1, <4>2 DEF Row
    <3>9. rows'[request[v].company][request[v].repo].subscribed
            = rows[request[v].company][request[v].repo].subscribed
      BY <3>6, <3>8
    <3>10. QED  BY <3>2, <3>3, <3>6, <3>7, <3>9 DEF Informed, Changes, Wanted
  <2>3. QED  BY <2>1, <2>2 DEF Paired, RowsOf
<1>13. Locking'
  <2>1. \A v \in Windows : \A d, x : HasLock(v, d, x)' => HasLock(v, d, x)
    BY <1>2 DEF HasLock, For, Changes, Wanted
  <2>2. QED  BY <1>3, <2>1 DEF IInv, Locking
<1>14. Syncing'
  <2>1. SUFFICES ASSUME NEW v \in Windows \ {w}, sync[v] # None
                 PROVE  Written(sync[v])' /\ Mirrored(sync[v])' /\ Displaced(sync[v])'
    BY <1>3 DEF Syncing
  <2> DEFINE o == sync[v]
             t == sync'[v]
  <2>2. /\ o \in Syncs /\ o.company \in Companies /\ o.written \subseteq Repos
        /\ o.victim # None => o.victim.repo \in Repos
        /\ o.destroyed \subseteq Repos
        /\ \A x \in DOMAIN o.listed : x \in Repos
    <3>1. o \in Syncs /\ Told(o)  BY <2>1, SyncFacts
    <3>2. o.victim # None => o.victim.repo \in Repos  BY <3>1, SyncTyped
    <3>3. QED  BY <3>1, <3>2, SyncTyped DEF Told
  <2>3. Written(o) /\ Mirrored(o) /\ Displaced(o)  BY <2>1, SyncFacts
  <2>4. /\ t.company = o.company /\ t.listed = o.listed
        /\ t.pending = o.pending /\ t.written = o.written
        /\ t.table = o.table /\ t.victim = o.victim
        /\ t.destroyed = o.destroyed /\ t.doomed = o.doomed
        /\ o.disturbed \subseteq t.disturbed
        /\ o.company = c => s.written \subseteq t.disturbed
    BY <1>3, <2>1
  <2>5. \A x \in Repos \ t.disturbed : /\ ProjectsOf(o.company, x)' = ProjectsOf(o.company, x)
                                       /\ rows'[o.company][x] = rows[o.company][x]
    BY <1>0, <1>4, <2>2, <2>4
  <2>6. \A x \in o.written : rows'[o.company][x] = rows[o.company][x]
    <3>1. o.company = c => o.written \cap s.written = {}
      BY <1>0, <1>s, <1>c, <2>1 DEF IInv, Locking
    <3>2. QED  BY <1>4, <2>2, <3>1
  <2>7. \A x \in Repos \ t.disturbed : View(sync[v], x)' = View(o, x)
    BY <2>4, <2>5 DEF View
  <2> HIDE DEF o, t
  <2>8. Written(sync[v])'
    BY <2>2, <2>3, <2>4, <2>6 DEF Written, o, t
  <2>9. Mirrored(sync[v])'
    BY <2>2, <2>3, <2>4, <2>5, <2>7 DEF Mirrored, o, t
  <2>10. NewRow(o) => NewRow(sync[v])'
    BY <2>2, <2>4, <2>5 DEF NewRow, o, t
  <2>11. \A x \in Repos : LosesName(o, x) => x \in t.disturbed \/ LosesName(sync[v], x)'
    BY <2>2, <2>4, <2>5 DEF LosesName, o, t
  <2>12. Displaced(sync[v])'
    BY <2>2, <2>3, <2>4, <2>5, <2>10, <2>11 DEF Displaced, o, t
  <2>13. QED  BY <2>8, <2>9, <2>12
<1>15. Crossing'  BY <1>2 DEF IInv, Crossing, Calling, Called, Wanted
<1>16. Hooked'
  <2>1. ASSUME NEW v \in Windows, request'[v] # None, ~request'[v].crossed
        PROVE  Done(request[v])'
    <3>1. request[v] # None /\ ~request[v].crossed  BY <1>2, <2>1
    <3>2. Done(request[v])  BY <3>1 DEF IInv, Hooked
    <3>3. QED  BY <1>1, <1>2, <3>1, <3>2 DEF Done, Wanted, Listed
  <2>2. QED  BY <1>1, <2>1 DEF IInv, Hooked
<1>17. Muted'
  <2>1. SUFFICES ASSUME NEW v \in Windows, NEW p \in projects', Calling(request'[v], p.repo)
                 PROVE  \/ <<p.company, p.repo>> \in deaf' \cup overtaken'
                        \/ request'[v].company = p.company /\ ~request'[v].gone
    BY DEF Muted
  <2>2. /\ request[v] # None /\ Calling(request[v], p.repo) /\ request[v] \in Requests
        /\ request[v].repo = p.repo
    BY <1>2, <2>1 DEF Calling
  <2>3. p.repo # None  BY <2>2, RequestTyped, NoneAssumption
  <2>4. p \in projects /\ (p.company # c \/ p.repo \notin s.destroyed)  BY <1>6, <2>3
  <2>5. \/ <<p.company, p.repo>> \in deaf \cup overtaken
        \/ request[v].company = p.company /\ ~request[v].gone
    BY <2>2, <2>4 DEF IInv, Muted
  <2>6. QED  BY <1>1, <1>2, <2>2, <2>4, <2>5
<1>18. Listening'
  <2>1. SUFFICES ASSUME NEW p \in projects', p.repo \in Listed',
                        <<p.company, p.repo>> \notin deaf' \cup overtaken'
                 PROVE  \/ Heard(p)'
                        \/ \E v \in Windows :
                              /\ Called(request'[v], p.repo)
                              /\ request'[v].company = p.company /\ ~request'[v].gone
    BY DEF Listening
  <2>2. p.repo \in Listed /\ p.repo # None
    BY <1>1, <2>1, NoneAssumption DEF Listed
  <2>3. p \in projects /\ (p.company # c \/ p.repo \notin s.destroyed)  BY <1>6, <2>2
  <2>4. <<p.company, p.repo>> \notin deaf \cup overtaken  BY <1>1, <2>1, <2>3
  <2>5. CASE Heard(p)  BY <1>1, <2>5 DEF Heard
  <2>6. CASE ~Heard(p)
    <3>1. PICK v \in Windows : /\ Called(request[v], p.repo)
                               /\ request[v].company = p.company /\ ~request[v].gone
      BY <2>2, <2>3, <2>4, <2>6 DEF IInv, Listening
    <3>2. request[v] # None /\ request[v].repo = p.repo  BY <3>1 DEF Called
    <3>3. QED  BY <1>2, <2>3, <3>1, <3>2 DEF Called
  <2>7. QED  BY <2>5, <2>6
<1>19. QED  BY <1>7, <1>8, <1>9, <1>10, <1>11, <1>12, <1>13, <1>14, <1>15, <1>16, <1>17,
               <1>18 DEF IInv

-----------------------------------------------------------------------------
(* The whole                                                                *)

LEMMA DestroyIdentityKeeps ==
    ASSUME IInv, DestroyIdentity
    PROVE  IInv'
<1> DEFINE S == ReposWithProject
<1>0. /\ hooks' = [d \in Repos |-> IF d \in S THEN {} ELSE hooks[d]]
      /\ keys' = [d \in Repos |-> IF d \in S THEN {} ELSE keys[d]]
      /\ rows' = [c \in Companies |-> [d \in Repos |-> None]]
      /\ request' = [v \in Windows |-> IF request[v] = None THEN None
                                       ELSE [Cross(S)[v] EXCEPT !.gone = TRUE]]
      /\ sync' = [v \in Windows |-> None]
      /\ identity' = "none"
      /\ UNCHANGED <<service, created, sent, deaf, doubled, overtaken>>
      /\ TypeOK
  BY DEF DestroyIdentity, marks, IInv
<1>1. PICK D \in SUBSET projects : projects' = {[p EXCEPT !.repo = None] : p \in projects \ D}
  BY DEF DestroyIdentity
<1> HIDE DEF S
<1>2. \A q \in projects' :
         /\ q \in Projects /\ q.repo = None
         /\ \E p \in projects : q.id = p.id /\ q.name = p.name /\ q.company = p.company
  <2>1. \A p \in projects : LET q == [p EXCEPT !.repo = None]
                            IN  /\ q \in Projects /\ q.repo = None
                                /\ q.id = p.id /\ q.name = p.name /\ q.company = p.company
    BY <1>0 DEF TypeOK, Projects
  <2>2. QED  BY <1>1, <2>1
<1>3. \A v \in Windows :
         /\ request'[v] = None <=> request[v] = None
         /\ request[v] # None =>
               /\ request'[v] \in Requests
               /\ request'[v].op = request[v].op /\ request'[v].company = request[v].company
               /\ request'[v].repo = request[v].repo /\ request'[v].copy = request[v].copy
               /\ request'[v].stage = request[v].stage
               /\ request'[v].project = request[v].project
               /\ request'[v].fresh = request[v].fresh /\ request'[v].gone
               /\ request'[v].crossed <=>
                     request[v].crossed \/ \E d \in S : Called(request[v], d)
  <2>1. SUFFICES ASSUME NEW v \in Windows, request[v] # None
                 PROVE  /\ request'[v] \in Requests /\ request'[v] # None
                        /\ request'[v].op = request[v].op
                        /\ request'[v].company = request[v].company
                        /\ request'[v].repo = request[v].repo
                        /\ request'[v].copy = request[v].copy
                        /\ request'[v].stage = request[v].stage
                        /\ request'[v].project = request[v].project
                        /\ request'[v].fresh = request[v].fresh /\ request'[v].gone
                        /\ request'[v].crossed <=>
                              request[v].crossed \/ \E d \in S : Called(request[v], d)
    BY <1>0
  <2>2. PICK r : r = Cross(S)[v]  OBVIOUS
  <2>3. /\ r \in Requests /\ r.op = request[v].op /\ r.company = request[v].company
        /\ r.repo = request[v].repo /\ r.copy = request[v].copy /\ r.stage = request[v].stage
        /\ r.project = request[v].project /\ r.fresh = request[v].fresh
        /\ r.crossed <=> request[v].crossed \/ \E d \in S : Called(request[v], d)
    BY <1>0, <2>1, <2>2, Crossed
  <2>4. request'[v] = [r EXCEPT !.gone = TRUE]  BY <1>0, <2>1, <2>2
  <2>5. request'[v] \in Requests  BY <2>3, <2>4 DEF Requests
  <2>6. /\ request'[v].op = r.op /\ request'[v].company = r.company
        /\ request'[v].repo = r.repo /\ request'[v].copy = r.copy
        /\ request'[v].stage = r.stage /\ request'[v].project = r.project
        /\ request'[v].fresh = r.fresh /\ request'[v].gone /\ request'[v].crossed = r.crossed
    BY <2>3, <2>4 DEF Requests
  <2>7. QED  BY <2>3, <2>5, <2>6, NoneAssumption
<1>4. TypeOK'
  <2>1. request' \in [Windows -> Requests \cup {None}]
    <3>1. \A v \in Windows : request'[v] \in Requests \cup {None}  BY <1>3
    <3>2. QED  BY <1>0, <3>1
  <2>2. projects' \in SUBSET Projects  BY <1>2
  <2>3. \A c \in Companies : RowsOf(c)' = {}  BY <1>0 DEF RowsOf
  <2>4. QED  BY <1>0, <2>1, <2>2, <2>3 DEF TypeOK
<1>5. Exclusive'  BY <1>0 DEF Exclusive
<1>6. Born'
  <2>1. \A v \in Windows : request'[v] # None =>
          service'[request'[v].repo] # "unborn" /\ request'[v].gone
    BY <1>0, <1>3 DEF IInv, Born
  <2>2. \A d, x \in Listed' : service'[d] = service'[x] => d = x
    BY <1>0 DEF IInv, Born, Listed
  <2>3. QED  BY <1>0, <1>2, <2>1, <2>2 DEF Born
<1>7. Identified'
  <2>1. Loaded' \subseteq Loaded  BY <1>0, <1>3 DEF Loaded
  <2>2. Fresh' = Fresh /\ \A v \in Fresh : v \in Windows /\ request'[v].project = request[v].project
    BY <1>3 DEF Fresh
  <2>3. \A q \in projects' \cup Loaded' : q.id <= created'
    BY <1>0, <1>2, <2>1 DEF IInv, Identified
  <2>4. \A p \in Loaded', q \in projects' : q.id = p.id => Same(q, p)'
    BY <1>2, <2>1 DEF IInv, Identified, Same
  <2>5. \A p, q \in projects' : q.id = p.id => q = p
    <3>1. SUFFICES ASSUME NEW p \in projects', NEW q \in projects', q.id = p.id PROVE q = p
      OBVIOUS
    <3>2. PICK p0 \in projects : p.id = p0.id /\ p.name = p0.name /\ p.company = p0.company
      BY <1>2
    <3>3. PICK q0 \in projects : q.id = q0.id /\ q.name = q0.name /\ q.company = q0.company
      BY <1>2
    <3>4. q0 = p0  BY <3>1, <3>2, <3>3 DEF IInv, Identified
    <3>5. q.id = p.id /\ q.name = p.name /\ q.company = p.company /\ q.repo = p.repo
      BY <1>2, <3>2, <3>3, <3>4
    <3>6. p \in Projects /\ q \in Projects  BY <1>2
    <3>7. QED  BY <3>5, <3>6 DEF Projects
  <2>6. \A v \in Fresh' :
            /\ request'[v].project.id <= created'
            /\ \A q \in projects' \cup Loaded' : q.id # request'[v].project.id
            /\ \A u \in Fresh' : request'[u].project.id = request'[v].project.id => u = v
    <3>1. \A v \in Fresh :
            /\ request'[v].project = request[v].project
            /\ request[v].project.id <= created
            /\ \A q \in projects \cup Loaded : q.id # request[v].project.id
            /\ \A u \in Fresh : request[u].project.id = request[v].project.id => u = v
      BY <2>2 DEF IInv, Identified
    <3>2. \A q \in projects' \cup Loaded' : \E p \in projects \cup Loaded : q.id = p.id
      BY <1>2, <2>1
    <3>3. SUFFICES ASSUME NEW v \in Fresh
                   PROVE  /\ request'[v].project.id <= created'
                          /\ \A q \in projects' \cup Loaded' : q.id # request'[v].project.id
                          /\ \A u \in Fresh : request'[u].project.id = request'[v].project.id
                                => u = v
      BY <2>2
    <3>4. request'[v].project.id <= created'  BY <1>0, <3>1
    <3>5. \A q \in projects' \cup Loaded' : q.id # request'[v].project.id
      BY <3>1, <3>2
    <3>6. \A u \in Fresh : request'[u].project.id = request'[v].project.id => u = v
      BY <3>1
    <3>7. QED  BY <3>4, <3>5, <3>6
  <2>7. \A v \in Windows : request'[v] # None /\ request'[v].project # None =>
          /\ request'[v].project.company = request'[v].company
          /\ request'[v].project.repo = request'[v].repo
          /\ \A q \in projects' : q.id = request'[v].project.id => q.repo = None
    BY <1>2, <1>3 DEF IInv, Identified
  <2>8. QED  BY <1>0, <2>3, <2>4, <2>5, <2>6, <2>7 DEF Identified
<1>8. Staged'  BY <1>3 DEF IInv, Staged, Wanted
<1>9. Paired'  BY <1>0, <1>3 DEF Paired, RowsOf
<1>10. Locking' /\ Syncing'  BY <1>0 DEF Locking, Syncing
<1>11. Crossing'  BY <1>3 DEF IInv, Crossing, Calling, Called, Wanted
<1>12. Hooked'
  <2>1. ASSUME NEW v \in Windows, request'[v] # None, ~request'[v].crossed
        PROVE  Done(request[v])'
    <3>1. request[v] # None /\ ~request[v].crossed /\ \A d \in S : ~Called(request[v], d)
      BY <1>3, <2>1
    <3>2. request[v].repo \in Repos  BY <1>0, <3>1, Typed, RequestTyped
    <3>3. Done(request[v])  BY <3>1 DEF IInv, Hooked
    <3>4. CASE request[v].repo \notin S
      BY <1>0, <1>3, <3>1, <3>2, <3>3, <3>4 DEF Done, Wanted, Listed
    <3>5. CASE request[v].repo \in S
      BY <1>3, <3>1, <3>5 DEF Called, Done
    <3>6. QED  BY <3>4, <3>5
  <2>2. \A d \in Repos \ doubled' : \A i, j \in hooks'[d] : i = j
    BY <1>0 DEF IInv, Hooked
  <2>3. QED  BY <2>1, <2>2 DEF Hooked
<1>13. Muted' /\ Listening'
  <2>1. \A v \in Windows : ~Calling(request'[v], None)
    BY <1>0, <1>3, Typed, RequestTyped, NoneAssumption DEF Calling
  <2>2. None \notin Listed'  BY NoneAssumption DEF Listed
  <2>3. QED  BY <1>2, <2>1, <2>2 DEF Muted, Listening
<1>14. QED  BY <1>4, <1>5, <1>6, <1>7, <1>8, <1>9, <1>10, <1>11, <1>12, <1>13 DEF IInv

LEMMA InitEstablishes ==
    ASSUME Init
    PROVE  IInv
<1>0. /\ service \in [Repos -> Names \cup {"unborn"}]
      /\ \A d, e \in Listed : service[d] = service[e] => d = e
      /\ hooks = [e \in Repos |-> {}] /\ keys = [e \in Repos |-> {}]
      /\ projects = {} /\ created = 0 /\ sent = 0 /\ identity = "supported"
      /\ \A w \in Windows : request[w] = None /\ sync[w] = None
      /\ deaf = {} /\ doubled = {} /\ overtaken = {}
  BY DEF Init
<1>1. PICK S \in SUBSET Companies :
         rows = [c \in Companies |-> [e \in Repos |->
                    IF c \in S /\ e \in Listed
                    THEN [name |-> service[e], subscribed |-> FALSE] ELSE None]]
  BY DEF Init
<1>2. \A c \in Companies, e \in Repos :
         rows[c][e] # None => e \in Listed /\ rows[c][e].subscribed = FALSE
  BY <1>1
<1>3. TypeOK
  <2>1. \A e \in Listed : [name |-> service[e], subscribed |-> FALSE] \in Row
    BY DEF Listed, Row
  <2>2. rows \in [Companies -> [Repos -> Row \cup {None}]]  BY <1>1, <2>1
  <2>3. request \in [Windows -> Requests \cup {None}] /\ sync \in [Windows -> Syncs \cup {None}]
    BY DEF Init
  <2>4. QED  BY <1>0, <2>2, <2>3, BoundAssumption DEF TypeOK
<1>4. Exclusive /\ Locking /\ Syncing /\ Staged /\ Crossing
  BY <1>0 DEF Exclusive, Locking, Syncing, Staged, Crossing, Calling
<1>5. Born  BY <1>0, <1>2, NamesAssumption DEF Born, Listed
<1>6. Identified
  <2>1. Loaded = {} /\ Fresh = {}  BY <1>0 DEF Loaded, Fresh
  <2>2. QED  BY <1>0, <2>1 DEF Identified
<1>7. Paired  BY <1>0, <1>2 DEF Paired, RowsOf, ProjectsOf
<1>8. Hooked /\ Muted /\ Listening  BY <1>0 DEF Hooked, Muted, Listening
<1>9. QED  BY <1>3, <1>4, <1>5, <1>6, <1>7, <1>8 DEF IInv

\* Nothing of it changes when the program does nothing.
LEMMA StutterKeeps ==
    ASSUME IInv, UNCHANGED vars
    PROVE  IInv'
<1>1. UNCHANGED <<service, hooks, keys, rows, projects, request, sync, created, sent,
                  identity, deaf, doubled, overtaken>>
  BY DEF vars, serviceVars, tables, marks
<1>2. TypeOK'  BY <1>1 DEF IInv, TypeOK, RowsOf
<1>3. Born'  BY <1>1 DEF IInv, Born, Listed
<1>4. Hooked'  BY <1>1 DEF IInv, Hooked, Done, Wanted, Listed
<1>5. Listening'  BY <1>1 DEF IInv, Listening, Listed, Heard, Called
<1>6. QED  BY <1>1, <1>2, <1>3, <1>4, <1>5, TablesKept DEF IInv

LEMMA NextKeeps ==
    ASSUME IInv, Next
    PROVE  IInv'
<1>1. ASSUME NEW w \in Windows, Request(w) PROVE IInv'
  <2>1. ASSUME NEW c \in Companies, NEW e \in Repos, NEW op \in {"subscribe", "unsubscribe"},
               Begin(w, c, e, op)
        PROVE  IInv'
    BY <2>1, BeginKeeps
  <2>2. QED
    BY <1>1, <2>1, FindProjectKeeps, FindNoProjectKeeps, CreateProjectKeeps, DestroyHooksKeeps,
       DestroyKeysKeeps, CreateHookKeeps, CreateKeyKeeps, CommitKeeps, FailKeeps
    DEF Request
<1>2. ASSUME NEW w \in Windows, Sync(w) PROVE IInv'
  <2>1. ASSUME NEW c \in Companies, BeginSync(w, c) PROVE IInv'  BY <2>1, BeginSyncKeeps
  <2>2. ASSUME NEW e \in Repos, CreateRow(w, e) \/ UpdateRow(w, e) \/ Prune(w, e) PROVE IInv'
    BY <2>2, CreateRowKeeps, UpdateRowKeeps, PruneKeeps
  <2>3. ASSUME NEW d \in Repos, NEW e \in Repos, LoadDuplicate(w, e, d) PROVE IInv'
    BY <2>3, LoadDuplicateKeeps
  <2>4. QED
    BY <1>2, <2>1, <2>2, <2>3, DestroyVictimKeeps, CommitSyncKeeps, FailSyncKeeps DEF Sync
<1>3. ASSUME Identity PROVE IInv'
  BY <1>3, DestroyIdentityKeeps, DestroyIdentityFailsKeeps, SaveIdentityKeeps DEF Identity
<1>4. ASSUME Service PROVE IInv'
  BY <1>4, RemoveRepoKeeps, RenameRepoKeeps DEF Service
<1>5. QED  BY <1>1, <1>2, <1>3, <1>4 DEF Next

\* The inductive invariant holds however requests overlap and calls fail
\* (user_repo.rb, user.rb, user_identity.rb).
THEOREM RepositoriesInvariance == Spec => []IInv
<1>1. Init => IInv  BY InitEstablishes
<1>2. IInv /\ [Next]_vars => IInv'  BY NextKeeps, StutterKeeps
<1>3. QED  BY <1>1, <1>2, PTL DEF Spec

\* The rows, projects and open requests are what the code takes them for, and an
\* identity that is gone has no rows (user_identity.rb).
THEOREM RepositoriesTypes == Spec => []TypeOK
<1>1. IInv => TypeOK  BY DEF IInv
<1>2. QED  BY <1>1, RepositoriesInvariance, PTL

\* The switch of a row that the page shows as subscribed is disabled exactly if the
\* row has no project of its own, unless an overtaken request changed the row last
\* (user_repo_serializer.rb, UserRepo#subscribe and #unsubscribe).
THEOREM SwitchKnowsProject == Spec => []SwitchOfOwnProject
<1>1. IInv => SwitchOfOwnProject
  BY DEF IInv, Paired, SwitchOfOwnProject, ShownSubscribed, Disabled
<1>2. QED  BY <1>1, RepositoriesInvariance, PTL

\* A repository has one hook at most, however the calls of requests interleave,
\* unless one was created after other calls crossed those of its request
\* (UserRepo#unsubscribe_project and #subscribe_project).
THEOREM NoSecondHook == Spec => []OneHookAtMost
<1>1. IInv => OneHookAtMost
  <2>1. SUFFICES ASSUME IInv, NEW e \in Repos \ doubled  PROVE Cardinality(hooks[e]) <= 1
    BY DEF OneHookAtMost
  <2> DEFINE H == hooks[e]
  <2>2. \A x, y \in H : x = y  BY <2>1 DEF IInv, Hooked
  <2> HIDE DEF H
  <2>3. CASE H = {}
    <3>1. Cardinality({}) = 0  BY FS_EmptySet
    <3>2. QED  BY <2>3, <3>1 DEF H
  <2>4. CASE H # {}
    <3>1. PICK x : H = {x}  BY <2>2, <2>4
    <3>2. Cardinality({x}) = 1  BY FS_Singleton
    <3>3. QED  BY <3>1, <3>2 DEF H
  <2>5. QED  BY <2>3, <2>4
<1>2. QED  BY <1>1, RepositoriesInvariance, PTL

\* The repository of a project has the hook and the key of this project and no
\* other, but for calls that failed or crossed, and changes by requests that others
\* had overtaken (UserRepo#subscribe).
THEOREM ProjectsHeard == Spec => []ProjectsListen
<1>1. IInv => ProjectsListen
  BY DEF IInv, Listening, Heard, ProjectsListen
<1>2. QED  BY <1>1, RepositoriesInvariance, PTL

\* After sync a company has the repositories that the service listed, under the
\* names it listed, in whatever order they were stored and whatever other syncs
\* and requests did; but for the rows that these changed (User#sync_repos).
THEOREM MirrorOfService == Spec => SyncMirrorsService
<1>1. IInv /\ [Next]_vars =>
        [\A w \in Windows : CommitSync(w) =>
          LET s == sync[w]
              row == rows'[s.company]
          IN  /\ \A e \in DOMAIN s.listed \ s.disturbed :
                    row[e] # None /\ row[e].name = s.listed[e]
              /\ \A e \in Repos \ (DOMAIN s.listed \cup s.disturbed) :
                    row[e] # None =>
                    \E p \in projects' : p.company = s.company /\ p.repo = e]_vars
  <2>1. SUFFICES ASSUME IInv, NEW w \in Windows, CommitSync(w)
                 PROVE  LET s == sync[w]
                            row == rows'[s.company]
                        IN  /\ \A e \in DOMAIN s.listed \ s.disturbed :
                                  row[e] # None /\ row[e].name = s.listed[e]
                            /\ \A e \in Repos \ (DOMAIN s.listed \cup s.disturbed) :
                                  row[e] # None =>
                                  \E p \in projects' : p.company = s.company /\ p.repo = e
    OBVIOUS
  <2>2. PICK s : s = sync[w]  OBVIOUS
  <2>3. PICK c : c = s.company  OBVIOUS
  <2>4. /\ s # None /\ s.pending = {} /\ s.victim = None
        /\ Mirrored(s) /\ Written(s) /\ Told(s) /\ c \in Companies
    <3>1. s # None /\ s.pending = {} /\ s.victim = None
      BY <2>1, <2>2 DEF CommitSync
    <3>2. s \in Syncs /\ Mirrored(s) /\ Written(s) /\ Told(s)
      BY <2>1, <2>2, <3>1, SyncFacts
    <3>3. QED  BY <2>3, <3>1, <3>2, SyncTyped
  <2>5. \A x \in Repos : rows'[c][x] = View(s, x)
    BY <2>1, <2>2, <2>3, CommitSyncTables
  <2>6. \A e \in DOMAIN s.listed \ s.disturbed :
           rows'[c][e] # None /\ rows'[c][e].name = s.listed[e]
    BY <2>4, <2>5 DEF Mirrored, Told
  <2>7. ASSUME NEW e \in Repos \ (DOMAIN s.listed \cup s.disturbed), rows'[c][e] # None
        PROVE  \E p \in projects' : p.company = c /\ p.repo = e
    <3>1. ProjectsOf(c, e) # {}  BY <2>3, <2>4, <2>5, <2>7 DEF Mirrored
    <3>2. e \notin s.destroyed  BY <2>4, <2>5, <2>7 DEF Written, View
    <3>3. ProjectsOf(c, e)' = ProjectsOf(c, e)
      BY <2>1, <2>2, <2>3, <2>4, <3>2, CommitSyncTables
    <3>4. QED  BY <3>1, <3>3 DEF ProjectsOf
  <2>8. QED  BY <2>2, <2>3, <2>6, <2>7
<1>2. QED  BY <1>1, RepositoriesInvariance, PTL DEF SyncMirrorsService, Spec

\* A project is lost to its row when it is unsubscribed, when the identity goes, or
\* when sync makes a row while another repository has its name; never because a
\* call failed or the service lists it no more (UserRepo#unsubscribe,
\* find_or_create_by_sc, User#sync_repos).
THEOREM ProjectsKept == Spec => ProjectsAreKept
<1>1. IInv /\ [Next]_vars =>
        [\A p \in projects : Lost(p) =>
          \/ identity' = "none"
          \/ \E w \in Windows :
                /\ Commit(w) /\ request[w].op = "unsubscribe" /\ request[w].project = p
          \/ \E w \in Windows :
                /\ CommitSync(w)
                /\ sync[w].company = p.company
                /\ \/ p.repo \in sync[w].disturbed
                   \/ \E d, new \in DOMAIN sync[w].listed :
                         /\ d # p.repo
                         /\ sync[w].listed[d] = rows[p.company][p.repo].name
                         /\ rows[p.company][new] = None \/ new \in sync[w].disturbed]_vars
  <2>1. SUFFICES ASSUME IInv, Next, NEW p \in projects, Lost(p)
                 PROVE  \/ identity' = "none"
                        \/ \E w \in Windows :
                              /\ Commit(w) /\ request[w].op = "unsubscribe"
                              /\ request[w].project = p
                        \/ \E w \in Windows :
                              /\ CommitSync(w)
                              /\ sync[w].company = p.company
                              /\ \/ p.repo \in sync[w].disturbed
                                 \/ \E d, new \in DOMAIN sync[w].listed :
                                       /\ d # p.repo
                                       /\ sync[w].listed[d] = rows[p.company][p.repo].name
                                       /\ \/ rows[p.company][new] = None
                                          \/ new \in sync[w].disturbed
    OBVIOUS
  <2>2. /\ p.repo # None /\ p \notin projects' /\ p \in Projects
        /\ p.company \in Companies /\ p.repo \in Repos
    BY <2>1 DEF Lost, IInv, TypeOK, Projects
  <2>3. projects' # projects  BY <2>1, <2>2
  <2>4. \/ DestroyIdentity
        \/ \E w \in Windows : Commit(w)
        \/ \E w \in Windows : CommitSync(w)
    <3>1. ASSUME NEW w \in Windows, Request(w) PROVE Commit(w)
      BY <2>3, <3>1 DEF Request, Begin, FindProject, FindNoProject, CreateProject, Save,
         DestroyHooks, DestroyKeys, CreateHook, CreateKey, Call, Fail, tables
    <3>2. ASSUME NEW w \in Windows, Sync(w) PROVE CommitSync(w)
      BY <2>3, <3>2 DEF Sync, BeginSync, CreateRow, UpdateRow, Prune, LoadDuplicate,
         DestroyVictim, FailSync, Step, tables
    <3>3. Identity => DestroyIdentity
      BY <2>3 DEF Identity, DestroyIdentityFails, SaveIdentity, tables
    <3>4. ~Service  BY <2>3 DEF Service, RemoveRepo, RenameRepo, tables
    <3>5. QED  BY <2>1, <3>1, <3>2, <3>3, <3>4 DEF Next
  <2>5. CASE DestroyIdentity  BY <2>5 DEF DestroyIdentity
  <2>6. ASSUME NEW w \in Windows, Commit(w)
        PROVE  request[w].op = "unsubscribe" /\ request[w].project = p
    <3>1. PICK r : r = request[w]  OBVIOUS
    <3>2. /\ ~Wanted(r) /\ r.project # None /\ p.id = r.project.id /\ r.project \in Loaded
          /\ r \in Requests /\ r.project \in Projects /\ r.project.repo = r.repo
      BY <2>1, <2>2, <2>6, <3>1, CommitProjects
    <3>3. Same(p, r.project)  BY <2>1, <3>2 DEF IInv, Identified
    <3>4. p = r.project  BY <2>2, <3>2, <3>3 DEF Same, Projects
    <3>5. r.op = "unsubscribe"  BY <3>2, RequestTyped DEF Wanted
    <3>6. QED  BY <3>1, <3>4, <3>5
  <2>7. ASSUME NEW w \in Windows, CommitSync(w)
        PROVE  /\ sync[w].company = p.company
               /\ \/ p.repo \in sync[w].disturbed
                  \/ \E d, new \in DOMAIN sync[w].listed :
                        /\ d # p.repo
                        /\ sync[w].listed[d] = rows[p.company][p.repo].name
                        /\ rows[p.company][new] = None \/ new \in sync[w].disturbed
    <3>1. PICK s : s = sync[w]  OBVIOUS
    <3>2. PICK c : c = s.company  OBVIOUS
    <3>3. p \in ProjectsOf(p.company, p.repo)  BY <2>1 DEF ProjectsOf
    <3>4. p.company = c /\ p.repo \in s.destroyed
      <4>1. p \notin ProjectsOf(p.company, p.repo)'  BY <2>2 DEF ProjectsOf
      <4>2. p.company # c \/ p.repo \notin s.destroyed =>
               ProjectsOf(p.company, p.repo)' = ProjectsOf(p.company, p.repo)
        BY <2>1, <2>2, <2>7, <3>1, <3>2, CommitSyncTables
      <4>3. QED  BY <3>3, <4>1, <4>2
    <3>5. Displaced(s)
      <4>1. s # None  BY <2>7, <3>1 DEF CommitSync
      <4>2. QED  BY <2>1, <3>1, <4>1, SyncFacts
    <3>6. p.repo \in s.disturbed \/ (NewRow(s) /\ LosesName(s, p.repo))
      BY <3>2, <3>3, <3>4, <3>5 DEF Displaced
    <3>7. QED  BY <3>1, <3>2, <3>4, <3>6 DEF NewRow, LosesName
  <2>8. QED  BY <2>4, <2>5, <2>6, <2>7
<1>2. QED  BY <1>1, RepositoriesInvariance, PTL DEF ProjectsAreKept, Spec

=============================================================================
