-------------------------- MODULE ClientCache_proofs --------------------------
(***************************************************************************)
(* Proofs about ClientCache, for any branches, requests, sizes of a page   *)
(* and of the cache, and any number of transactions.                       *)
(*                                                                         *)
(* The invariant compares every copy of a build, in the cache, in an       *)
(* answer on its way or in an event, with the builds that are in force:    *)
(* the rows and what is being written.  A copy that is older than one of   *)
(* them has an event to come (Due), and a build that is missing is to be   *)
(* announced, or lies behind the end of the list (Complete).               *)
(***************************************************************************)
EXTENDS ClientCache, FiniteSetTheorems, SequenceTheorems, TLAPS

\* The builds in force: the rows, and the one that is being written.
Live == {builds[n] : n \in DOMAIN builds}
        \cup (IF writing = None THEN {} ELSE {writing.build})

Listened(i, b) == ~events[i].void /\ events[i].build = b
Announces(i, b) ==
    ~events[i].void /\ events[i].kind = "created" /\ events[i].build.id = b.id

\* The browser will be told of this version, or of the build for the first time.
Due(b) == \E i \in DOMAIN events : Listened(i, b)
Announced(b) == \E i \in DOMAIN events : Announces(i, b)

\* A build that is committed, in the version of its row or in an older one.
Stored(b) ==
    /\ b.number \in DOMAIN builds
    /\ builds[b.number].id = b.id
    /\ builds[b.number].branch = b.branch
    /\ b = builds[b.number] \/ b.version < builds[b.number].version

IsWritten(b) == writing # None /\ b = writing.build

Backed(b) == Stored(b) \/ IsWritten(b)

Dated(b) == b.id <= b.version /\ b.version <= writes

-----------------------------------------------------------------------------
(* The server *)

RowsOK ==
    /\ Len(builds) <= writes
    /\ \A n \in DOMAIN builds : builds[n].number = n /\ Dated(builds[n])
    /\ \A m, n \in DOMAIN builds : builds[m].id = builds[n].id => m = n

\* The open transaction has the last version, of a new build or of a row.
WritingOK ==
    writing # None =>
    /\ Len(builds) < writes
    /\ writing.build.version = writes
    /\ \A n \in DOMAIN builds : builds[n].version < writes
    /\ \/ writing.build.number = Len(builds) + 1 /\ writing.build.id = writes
       \/ /\ writing.build.number \in DOMAIN builds
          /\ builds[writing.build.number].id = writing.build.id
          /\ builds[writing.build.number].branch = writing.build.branch

\* A restart waits for the transaction that it caused.
RestartsOK ==
    writing # None /\ writing.by # None =>
    /\ requests[writing.by] # None
    /\ requests[writing.by].op = "restart"
    /\ requests[writing.by].stage = "asked"
    /\ requests[writing.by].key = writing.build.id

RestartsAnswered ==
    \A r \in Requests :
        requests[r] # None /\ requests[r].op = "restart" /\ requests[r].stage = "read" =>
            Len(requests[r].data) = 1

-----------------------------------------------------------------------------
(* The events *)

\* Each version is told once, in the order of the transactions.
EventsInOrder ==
    /\ ~open => events = <<>>
    /\ \A i \in DOMAIN events :
          /\ Dated(events[i].build)
          /\ events[i].kind = "created" <=> events[i].build.version = events[i].build.id
    /\ \A i, j \in DOMAIN events : i < j => events[i].build.version < events[j].build.version

\* An event that is not void tells of a build that is, or will be, a row.
EventsBacked ==
    \A i \in DOMAIN events :
    /\ ~events[i].void => Backed(events[i].build)
    /\ IsWritten(events[i].build) => ~events[i].void

\* While an event waits, so do the later ones about its build, and the later new builds.
EventsFollow ==
    \A i \in DOMAIN events : ~events[i].void =>
    \A b \in Live :
    /\ b.number = events[i].build.number => b.version <= events[i].build.version \/ Due(b)
    /\ events[i].kind = "created" /\ b.number > events[i].build.number => Announced(b)

NewBuildsInOrder ==
    \A i, j \in DOMAIN events :
    /\ i < j
    /\ ~events[i].void /\ events[i].kind = "created"
    /\ ~events[j].void /\ events[j].kind = "created"
    => events[i].build.number < events[j].build.number

-----------------------------------------------------------------------------
(* Lists *)

\* What is not up to date will be.
Fresh(list) ==
    \A i \in DOMAIN list : \A b \in Live :
        b.number = list[i].number => b.version <= list[i].version \/ Due(b)

\* What is missing will be announced, or is behind the end.
Complete(list, key, from) ==
    \A b \in Live : key \in Concerns(b) /\ b.number < from =>
        \/ Has(list, b.number)
        \/ key \in Lists /\ Announced(b)
        \/ EndsAbove(list, b.number)

\* What was read for a request.
Answerable(request) ==
    /\ InOrder(request.data)
    /\ request.key \in Opened => Len(request.data) = 1
    /\ \A i \in DOMAIN request.data :
          /\ Stored(request.data[i])
          /\ Dated(request.data[i])
          /\ request.key \in Concerns(request.data[i])
          /\ request.op # "restart" => request.data[i].number < request.from
    /\ request.op # "restart" /\ ~request.late =>
          Fresh(request.data) /\ Complete(request.data, request.key, request.from)

RequestOK(request) ==
    /\ request.op = "fetch" => request.from = FirstPage
    /\ request.op = "more" => request.key \in Lists
    /\ request.op = "restart" => request.key \in Opened
    /\ request.stage = "read" => Answerable(request)

RequestsOK == \A r \in Requests : requests[r] # None => RequestOK(requests[r])

\* What a browser keeps under a key, as long as nothing spoils it.
Followed(list, k) ==
    /\ InOrder(list)
    /\ k \in Opened => Len(list) = 1
    /\ \A i \in DOMAIN list :
          /\ Backed(list[i])
          /\ Dated(list[i])
          /\ k \in Concerns(list[i])
          /\ IsWritten(list[i]) => \A e \in DOMAIN events : events[e].build # list[i]
    /\ Fresh(list)
    /\ Complete(list, k, FirstPage)

\* A new build will come on top of its list.
ComesOnTop(list, k) ==
    \A e \in DOMAIN events :
        ~events[e].void /\ events[e].kind = "created" /\ k \in Concerns(events[e].build) =>
            \A i \in DOMAIN list : list[i].number < events[e].build.number

Kept(list, k) == Followed(list, k) /\ (k \in Lists => ComesOnTop(list, k))

CacheOK == \A k \in Keys \ spoiled : Cached(k) => Kept(cache[k], k)

CacheInv ==
    /\ RowsOK /\ WritingOK /\ RestartsOK /\ RestartsAnswered
    /\ EventsInOrder /\ EventsBacked /\ EventsFollow /\ NewBuildsInOrder
    /\ RequestsOK /\ CacheOK

-----------------------------------------------------------------------------
(* Pages *)

Above(S, n) == {m \in S : m >= n}

\* The places of the members of a set of numbers, counted from the last: 1 to their
\* number, each once.
LEMMA Places ==
    ASSUME NEW S, S \subseteq Nat, IsFiniteSet(S)
    PROVE  /\ Cardinality(S) \in Nat
           /\ \A n \in S : Cardinality(Above(S, n)) \in 1..Cardinality(S)
           /\ \A m, n \in S : m < n => Cardinality(Above(S, n)) < Cardinality(Above(S, m))
           /\ \A i \in 1..Cardinality(S) :
                 Newest(S, i) \in S /\ Cardinality(Above(S, Newest(S, i))) = i
<1> DEFINE place == [n \in S |-> Cardinality(Above(S, n))]
<1>1. Cardinality(S) \in Nat  BY FS_CardinalityType
<1>2. \A n \in S : IsFiniteSet(Above(S, n)) /\ Cardinality(Above(S, n)) \in Nat
                   /\ Cardinality(Above(S, n)) <= Cardinality(S)
  <2> SUFFICES ASSUME NEW n \in S
               PROVE  IsFiniteSet(Above(S, n)) /\ Cardinality(Above(S, n)) \in Nat
                      /\ Cardinality(Above(S, n)) <= Cardinality(S)
    OBVIOUS
  <2>1. Above(S, n) \in SUBSET S  BY DEF Above
  <2>2. QED  BY <2>1, FS_Subset, FS_CardinalityType
<1>3. \A n \in S : Cardinality(Above(S, n)) # 0
  <2> SUFFICES ASSUME NEW n \in S  PROVE Cardinality(Above(S, n)) # 0
    OBVIOUS
  <2>1. n \in Above(S, n)
    <3>1. n \in Nat  OBVIOUS
    <3>2. n >= n  BY <3>1
    <3>3. QED  BY <3>2 DEF Above
  <2>2. QED  BY <2>1, <1>2, FS_EmptySet
<1>4. \A n \in S : Cardinality(Above(S, n)) \in 1..Cardinality(S)
  <2>1. \A c, s \in Nat : c # 0 /\ c <= s => c \in 1..s  OBVIOUS
  <2>2. QED  BY <1>1, <1>2, <1>3, <2>1
<1>5. \A m, n \in S : m < n => Cardinality(Above(S, n)) < Cardinality(Above(S, m))
  <2> SUFFICES ASSUME NEW m \in S, NEW n \in S, m < n
               PROVE  Cardinality(Above(S, n)) < Cardinality(Above(S, m))
    OBVIOUS
  <2>1. Above(S, n) \in SUBSET Above(S, m)
    <3>1. \A x, y, z \in Nat : z >= y /\ x < y => z >= x  OBVIOUS
    <3>2. \A z \in S : z >= n => z >= m
      BY <3>1
    <3>3. QED  BY <3>2 DEF Above
  <2>2. m \in Above(S, m) /\ m \notin Above(S, n)
    <3>1. \A x, y \in Nat : x < y => x >= x /\ ~(x >= y)  OBVIOUS
    <3>2. m >= m /\ ~(m >= n)  BY <3>1
    <3>3. QED  BY <3>2 DEF Above
  <2>3. Cardinality(Above(S, n)) <= Cardinality(Above(S, m))
        /\ Cardinality(Above(S, m)) # Cardinality(Above(S, n))
    BY <2>1, <2>2, <1>2, FS_Subset
  <2>4. \A c, d \in Nat : c <= d /\ d # c => c < d  OBVIOUS
  <2>5. QED  BY <1>2, <2>3, <2>4
<1>6. place \in Injection(S, 1..Cardinality(S))
  <2>1. place \in [S -> 1..Cardinality(S)]  BY <1>4
  <2>2. \A m, n \in S : place[m] = place[n] => m = n
    <3> SUFFICES ASSUME NEW m \in S, NEW n \in S, place[m] = place[n], m # n  PROVE FALSE
      OBVIOUS
    <3>1. \A x, y \in Nat : x # y => x < y \/ y < x  OBVIOUS
    <3>2. m < n \/ n < m  BY <3>1
    <3>3. \A c \in Nat : ~(c < c)  OBVIOUS
    <3>4. QED  BY <1>2, <1>5, <3>2, <3>3
  <2>3. QED  BY <2>1, <2>2 DEF Injection, IsInjective
<1>7. place \in Surjection(S, 1..Cardinality(S))
  <2>1. IsFiniteSet(1..Cardinality(S)) /\ Cardinality(1..Cardinality(S)) = Cardinality(S)
    <3>1. \A c \in Nat : 1 \in Int /\ c \in Int /\ (IF 1 > c THEN 0 ELSE c - 1 + 1) = c
      OBVIOUS
    <3>2. 1 \in Int /\ Cardinality(S) \in Int
          /\ (IF 1 > Cardinality(S) THEN 0 ELSE Cardinality(S) - 1 + 1) = Cardinality(S)
      BY <1>1, <3>1
    <3> HIDE DEF place
    <3>3. QED  BY <3>2, FS_Interval
  <2> HIDE DEF place
  <2>2. QED  BY <1>6, <2>1, FS_Injection
<1>8. \A i \in 1..Cardinality(S) : \E n \in S : Cardinality(Above(S, n)) = i
  BY <1>7 DEF Surjection
<1>9. \A i \in 1..Cardinality(S) :
         Newest(S, i) \in S /\ Cardinality(Above(S, Newest(S, i))) = i
  <2> SUFFICES ASSUME NEW i \in 1..Cardinality(S)
               PROVE  Newest(S, i) \in S /\ Cardinality(Above(S, Newest(S, i))) = i
    OBVIOUS
  <2>1. \E n \in S : Cardinality({m \in S : m >= n}) = i  BY <1>8 DEF Above
  <2>2. QED  BY <2>1 DEF Newest, Above
<1>10. QED  BY <1>1, <1>4, <1>5, <1>9

LEMMA Sizes ==
    /\ PageSize \in Nat /\ PageSize >= 1
    /\ Capacity \in Nat /\ Capacity >= 1
    /\ MaxWrites \in Nat /\ FirstPage \in Nat /\ FirstPage = MaxWrites + 1
<1>1. PageSize \in Nat \ {0} /\ Capacity \in Nat \ {0} /\ MaxWrites \in Nat \ {0}
  BY SizesAssumption
<1>2. \A n \in Nat \ {0} : n >= 1  OBVIOUS
<1>3. QED  BY <1>1, <1>2 DEF FirstPage

\* The keys of lists are no ids.
LEMMA KeysApart == Keys = Lists \cup Opened /\ Lists \cap Opened = {}
BY KeysAssumption DEF Keys, Lists

LEMMA BuildFields ==
    ASSUME NEW b \in Build
    PROVE  b.id \in Nat /\ b.number \in Nat /\ b.version \in Nat /\ b.branch \in Branches
           /\ b.number \in 1..MaxWrites /\ b.number < FirstPage /\ b.id >= 1
<1>1. b.id \in 1..MaxWrites /\ b.number \in 1..MaxWrites /\ b.version \in 1..MaxWrites
      /\ b.branch \in Branches
  BY DEF Build, Ids
<1>2. \A m \in Nat : \A n \in 1..m : n \in Nat /\ n < m + 1 /\ n >= 1  OBVIOUS
<1>3. QED  BY <1>1, <1>2, Sizes

\* A row is in place of its number.
LEMMA RowsOfBuilds ==
    ASSUME TypeOK
    PROVE  /\ Len(builds) \in Nat /\ DOMAIN builds = 1..Len(builds)
           /\ \A n \in DOMAIN builds : builds[n] \in Build /\ n \in Nat
           /\ IsFiniteSet(DOMAIN builds)
<1>1. builds \in Seq(Build)  BY DEF TypeOK
<1>2. Len(builds) \in Nat /\ DOMAIN builds = 1..Len(builds)  BY <1>1, LenProperties
<1>3. \A n \in 1..Len(builds) : builds[n] \in Build  BY <1>1, ElementOfSeq
<1>4. \A l \in Nat : \A n \in 1..l : n \in Nat  OBVIOUS
<1>5. IsFiniteSet(1..Len(builds))  BY <1>2, FS_Interval
<1>6. QED  BY <1>2, <1>3, <1>4, <1>5

\* What a request reads: the newest rows it asks for, in order, and all of them or a
\* page full.
LEMMA PageProperties ==
    ASSUME TypeOK, RowsOK, NEW key, NEW from \in Nat
    PROVE  /\ Page(key, from) \in Seq(Build)
           /\ InOrder(Page(key, from))
           /\ \A i \in DOMAIN Page(key, from) :
                 LET build == Page(key, from)[i] IN
                 /\ build.number \in DOMAIN builds /\ build = builds[build.number]
                 /\ build.number < from /\ key \in Concerns(build)
           /\ \A n \in DOMAIN builds : n < from /\ key \in Concerns(builds[n]) =>
                 Has(Page(key, from), n) \/ EndsAbove(Page(key, from), n)
<1> DEFINE found == {n \in DOMAIN builds : n < from /\ key \in Concerns(builds[n])}
           size == IF Cardinality(found) < PageSize THEN Cardinality(found) ELSE PageSize
           page == Page(key, from)
           place(n) == Cardinality(Above(found, n))
<1>1. found \subseteq Nat /\ IsFiniteSet(found) /\ found \subseteq DOMAIN builds
  <2>1. found \in SUBSET DOMAIN builds  OBVIOUS
  <2>2. DOMAIN builds \subseteq Nat /\ IsFiniteSet(DOMAIN builds)  BY RowsOfBuilds
  <2> HIDE DEF found
  <2>3. QED  BY <2>1, <2>2, FS_Subset
<1>2. page = [i \in 1..size |-> builds[Newest(found, i)]]  BY DEF Page, Limited
<1>3. /\ Cardinality(found) \in Nat
      /\ \A n \in found : place(n) \in 1..Cardinality(found)
      /\ \A m, n \in found : m < n => place(n) < place(m)
      /\ \A i \in 1..Cardinality(found) :
            Newest(found, i) \in found /\ place(Newest(found, i)) = i
  <2> HIDE DEF found
  <2>1. QED  BY <1>1, Places
<1>4. \A n \in found : n < from /\ key \in Concerns(builds[n]) /\ n \in Nat
                       /\ builds[n] \in Build /\ builds[n].number = n
  BY <1>1, RowsOfBuilds DEF RowsOK
<1>5. size \in Nat /\ 1..size \subseteq 1..Cardinality(found)
      /\ (size = Cardinality(found) \/ size = PageSize)
  <2>1. \A c, p \in Nat :
           LET s == IF c < p THEN c ELSE p
           IN  s \in Nat /\ 1..s \subseteq 1..c /\ (s = c \/ s = p)
    OBVIOUS
  <2>2. QED  BY <1>3, <2>1, Sizes
<1> HIDE DEF found, size, page, place
<1>6. \A i \in 1..size : page[i] = builds[Newest(found, i)] /\ Newest(found, i) \in found
                         /\ page[i].number = Newest(found, i) /\ place(page[i].number) = i
  BY <1>2, <1>3, <1>4, <1>5
<1>7. page \in Seq(Build) /\ DOMAIN page = 1..size /\ Len(page) = size
  <2>1. page \in [1..size -> Build]  BY <1>2, <1>6, <1>4
  <2>2. page \in Seq(Build)  BY <1>5, <2>1, SeqDef
  <2>3. DOMAIN page = 1..size /\ DOMAIN page = 1..Len(page) /\ Len(page) \in Nat
    BY <2>1, <2>2, LenProperties
  <2>4. QED  BY <2>2, <2>3, <1>5
<1>8. InOrder(page)
  <2> SUFFICES ASSUME NEW i \in 1..size, NEW j \in 1..size, i < j
               PROVE  page[i].number > page[j].number
    BY <1>7 DEF InOrder
  <2>1. page[i].number \in found /\ page[j].number \in found
        /\ place(page[i].number) = i /\ place(page[j].number) = j
    BY <1>6
  <2>2. i \in Nat /\ j \in Nat /\ page[i].number \in Nat /\ page[j].number \in Nat
    BY <1>4, <1>5, <2>1
  <2>3. page[i].number < page[j].number => j < i  BY <1>3, <2>1
  <2>4. page[i].number = page[j].number => i = j  BY <2>1
  <2>5. QED  BY <2>2, <2>3, <2>4
<1>9. \A i \in DOMAIN page :
         /\ page[i].number \in DOMAIN builds /\ page[i] = builds[page[i].number]
         /\ page[i].number < from /\ key \in Concerns(page[i])
  BY <1>1, <1>4, <1>6, <1>7
<1>10. ASSUME NEW n \in DOMAIN builds, n < from, key \in Concerns(builds[n])
       PROVE  Has(page, n) \/ EndsAbove(page, n)
  <2>1. n \in found  BY <1>10 DEF found
  <2>2. place(n) \in 1..Cardinality(found)  BY <1>3, <2>1
  <2>3. CASE place(n) \in 1..size
    <3> DEFINE i == place(n)
    <3>1. page[i].number \in found /\ place(page[i].number) = place(n)  BY <1>6, <2>3
    <3>2. page[i].number = n
      <4>1. page[i].number \in Nat /\ n \in Nat  BY <3>1, <2>1, <1>4
      <4>2. ~(place(n) < place(n))
        <5>1. \A c \in Nat : ~(c < c)  OBVIOUS
        <5>2. QED  BY <2>3, <1>5, <5>1
      <4>3. ~(page[i].number < n) /\ ~(n < page[i].number)
        BY <1>3, <2>1, <3>1, <4>2
      <4> HIDE DEF i
      <4>4. QED  BY <4>1, <4>3
    <3>3. QED  BY <1>7, <2>3, <3>2 DEF Has
  <2>4. CASE place(n) \notin 1..size
    <3>1. size = PageSize /\ \A i \in 1..size : i < place(n)
      <4>1. \A s, c \in Nat : \A x \in 1..c : x \notin 1..s => s # c /\ \A i \in 1..s : i < x
        OBVIOUS
      <4>2. size # Cardinality(found) /\ \A i \in 1..size : i < place(n)
        BY <1>3, <1>5, <2>2, <2>4, <4>1
      <4>3. QED  BY <1>5, <4>2
    <3>2. ASSUME NEW i \in 1..size  PROVE page[i].number > n
      <4>1. page[i].number \in found /\ place(page[i].number) = i /\ i < place(n)
        BY <1>6, <3>1
      <4>2. page[i].number \in Nat /\ n \in Nat /\ i \in Nat /\ place(n) \in Nat
        BY <1>3, <1>4, <1>5, <2>1, <2>2, <4>1
      <4>3. page[i].number < n => place(n) < i  BY <1>3, <2>1, <4>1
      <4>4. page[i].number # n  BY <4>1, <4>2
      <4>5. QED  BY <4>1, <4>2, <4>3, <4>4
    <3>3. Len(page) >= PageSize  BY <1>7, <3>1, Sizes
    <3>4. QED  BY <1>7, <3>2, <3>3 DEF EndsAbove
  <2>5. QED  BY <2>3, <2>4
<1>11. QED  BY <1>7, <1>8, <1>9, <1>10 DEF page

-----------------------------------------------------------------------------
(* The steps *)

\* A transaction begins: of a new build, or of a new version of a row.
Begins(kind, build, by) ==
    /\ writing = None
    /\ writes' = writes + 1
    /\ writing' = [build |-> build, by |-> by]
    /\ Publish(kind, build)
    /\ UNCHANGED <<builds, open, cache>>
    /\ writes < MaxWrites
    /\ build.version = writes + 1
    /\ \/ kind = "created" /\ build.number = Len(builds) + 1 /\ build.id = writes + 1
       \/ /\ kind = "updated"
          /\ build.number \in DOMAIN builds
          /\ builds[build.number].id = build.id
          /\ builds[build.number].branch = build.branch
    /\ by # None => RestartAsked(by) /\ requests[by].key = build.id

\* A request is sent.
Asks(r, op, key, from) ==
    /\ Ask(r, op, key, from)
    /\ op = "fetch" => from = FirstPage
    /\ op = "more" => key \in Lists
    /\ op = "restart" => key \in Opened

LEMMA CreateBegins ==
    ASSUME TypeOK, RowsOK, NEW b \in Branches, CreateBuild(b)
    PROVE  \E build \in Build : Begins("created", build, None)
<1> DEFINE build == [id |-> writes + 1, number |-> Len(builds) + 1, branch |-> b,
                     version |-> writes + 1]
<1>1. writes + 1 \in Ids /\ Len(builds) + 1 \in Ids
  <2>1. writes \in 0..MaxWrites /\ writes < MaxWrites  BY DEF TypeOK, CreateBuild
  <2>2. Len(builds) \in Nat /\ Len(builds) <= writes  BY RowsOfBuilds DEF RowsOK
  <2>3. \A m \in Nat : \A w \in 0..m : \A l \in Nat :
           w < m /\ l <= w => w + 1 \in 1..m /\ l + 1 \in 1..m
    OBVIOUS
  <2>4. QED  BY <2>1, <2>2, <2>3, Sizes DEF Ids
<1>2. build \in Build  BY <1>1 DEF Build
<1>3. Begins("created", build, None)  BY DEF Begins, CreateBuild
<1>4. QED  BY <1>2, <1>3

LEMMA WriteBegins ==
    ASSUME TypeOK, RowsOK, NEW n \in DOMAIN builds, NEW by, WriteBuild(n, by),
           by # None => RestartAsked(by) /\ builds[n].id = requests[by].key
    PROVE  \E build \in Build : Begins("updated", build, by)
<1> DEFINE build == [builds[n] EXCEPT !.version = writes + 1]
<1>1. builds[n] \in Build  BY RowsOfBuilds
<1>2. writes + 1 \in Ids
  <2>1. writes \in 0..MaxWrites /\ writes < MaxWrites  BY DEF TypeOK, WriteBuild
  <2>2. \A m \in Nat : \A w \in 0..m : w < m => w + 1 \in 1..m  OBVIOUS
  <2>3. QED  BY <2>1, <2>2, Sizes DEF Ids
<1>3. build \in Build /\ build.version = writes + 1 /\ build.id = builds[n].id
      /\ build.number = builds[n].number /\ build.branch = builds[n].branch
  BY <1>1, <1>2 DEF Build
<1>4. builds[n].number = n  BY DEF RowsOK
<1> HIDE DEF build
<1>5. Begins("updated", build, by)  BY <1>3, <1>4 DEF Begins, WriteBuild, build
<1>6. QED  BY <1>3, <1>5

LEMMA LoadMoreAsks ==
    ASSUME TypeOK, NEW r \in Requests, NEW key \in Lists, LoadMore(r, key)
    PROVE  \E from \in 1..FirstPage : Asks(r, "more", key, from)
<1>1. key \in Keys  BY KeysApart
<1>2. cache[key] \in Seq(Build) /\ cache[key] # <<>>
  BY <1>1 DEF TypeOK, LoadMore, Cached
<1>3. Last(cache[key]) \in Build
  <2>1. Len(cache[key]) \in Nat \ {0}  BY <1>2, EmptySeq
  <2>2. \A l \in Nat \ {0} : l \in 1..l  OBVIOUS
  <2>3. QED  BY <1>2, <2>1, <2>2, ElementOfSeq DEF Last
<1>4. Last(cache[key]).number \in 1..FirstPage
  <2>1. Last(cache[key]).number \in 1..MaxWrites  BY <1>3, BuildFields
  <2>2. \A m \in Nat : \A n \in 1..m : n \in 1..(m + 1)  OBVIOUS
  <2>3. QED  BY <2>1, <2>2, Sizes
<1>5. QED  BY <1>4 DEF LoadMore, Asks

LEMMA StepCases ==
    ASSUME TypeOK, RowsOK, [Next]_vars
    PROVE  \/ \E kind \in {"created", "updated"}, build \in Build,
                 by \in Requests \cup {None} : Begins(kind, build, by)
           \/ Commit
           \/ Rollback
           \/ \E r \in Requests : RefuseRestart(r)
           \/ \E r \in Requests : Read(r)
           \/ OpenStream
           \/ Receive
           \/ \E key \in Lists : ShowList(key)
           \/ \E r \in Requests, op \in {"fetch", "more", "restart"}, key \in Keys,
                 from \in 1..FirstPage : Asks(r, op, key, from)
           \/ \E r \in Requests : AnswerFetch(r)
           \/ \E r \in Requests : AnswerMore(r)
           \/ \E r \in Requests : AnswerRestart(r)
           \/ UNCHANGED vars
<1>1. ASSUME NEW b \in Branches, CreateBuild(b)
      PROVE  \E build \in Build : Begins("created", build, None)
  BY <1>1, CreateBegins
<1>2. ASSUME NEW n \in DOMAIN builds, UpdateBuild(n)
      PROVE  \E build \in Build : Begins("updated", build, None)
  BY <1>2, WriteBegins DEF UpdateBuild
<1>3. ASSUME NEW r \in Requests, ServeRestart(r)
      PROVE  \E build \in Build : Begins("updated", build, r)
  <2>1. PICK n \in DOMAIN builds : builds[n].id = requests[r].key /\ WriteBuild(n, r)
    BY <1>3 DEF ServeRestart
  <2>2. RestartAsked(r)  BY <1>3 DEF ServeRestart
  <2>3. QED  BY <2>1, <2>2, WriteBegins
<1>4. FirstPage \in 1..FirstPage
  <2>1. \A m \in Nat : m + 1 \in 1..(m + 1)  OBVIOUS
  <2>2. QED  BY <2>1, Sizes
<1>5. ASSUME NEW r \in Requests, NEW key \in Keys, Fetch(r, key)
      PROVE  \E from \in 1..FirstPage : Asks(r, "fetch", key, from)
  BY <1>4, <1>5 DEF Fetch, Asks
<1>6. ASSUME NEW r \in Requests, NEW key \in Lists, LoadMore(r, key)
      PROVE  key \in Keys /\ \E from \in 1..FirstPage : Asks(r, "more", key, from)
  BY <1>6, LoadMoreAsks, KeysApart
<1>7. ASSUME NEW r \in Requests, NEW key \in Opened, Restart(r, key)
      PROVE  key \in Keys /\ \E from \in 1..FirstPage : Asks(r, "restart", key, from)
  BY <1>4, <1>7, KeysApart DEF Restart, Asks
<1>8. CASE Server
  <2>1. CASE \E b \in Branches : CreateBuild(b)  BY <2>1, <1>1
  <2>2. CASE \E n \in DOMAIN builds : UpdateBuild(n)  BY <2>2, <1>2
  <2>3. CASE \E r \in Requests : ServeRestart(r)  BY <2>3, <1>3
  <2>4. QED  BY <1>8, <2>1, <2>2, <2>3 DEF Server
<1>9. CASE Browser
  <2>1. CASE \E r \in Requests : \E key \in Keys : Fetch(r, key)  BY <2>1, <1>5
  <2>2. CASE \E r \in Requests : \E key \in Lists : LoadMore(r, key)  BY <2>2, <1>6
  <2>3. CASE \E r \in Requests : \E key \in Opened : Restart(r, key)  BY <2>3, <1>7
  <2>4. QED  BY <1>9, <2>1, <2>2, <2>3 DEF Browser
<1>10. QED  BY <1>8, <1>9 DEF Next

-----------------------------------------------------------------------------
(* Types *)

LEMMA ReplaceProperties ==
    ASSUME NEW list \in Seq(Build), NEW build \in Build
    PROVE  /\ Replace(list, build) \in Seq(Build)
           /\ Len(Replace(list, build)) = Len(list)
           /\ DOMAIN Replace(list, build) = DOMAIN list
           /\ \A i \in DOMAIN list : Replace(list, build)[i] =
                 IF list[i].id = build.id THEN build ELSE list[i]
<1>1. DOMAIN list = 1..Len(list) /\ Len(list) \in Nat  BY LenProperties
<1>2. \A i \in DOMAIN list : list[i] \in Build  BY <1>1, ElementOfSeq
<1>3. Replace(list, build) \in [1..Len(list) -> Build]  BY <1>1, <1>2 DEF Replace
<1>4. Replace(list, build) \in Seq(Build)  BY <1>1, <1>3, SeqDef
<1>5. DOMAIN Replace(list, build) = 1..Len(list)
      /\ DOMAIN Replace(list, build) = 1..Len(Replace(list, build))
      /\ Len(Replace(list, build)) \in Nat
  BY <1>3, <1>4, LenProperties
<1>6. QED  BY <1>1, <1>4, <1>5 DEF Replace

LEMMA UnshiftProperties ==
    ASSUME NEW list \in Seq(Build), NEW build \in Build
    PROVE  /\ <<build>> \o list \in Seq(Build)
           /\ Len(<<build>> \o list) = Len(list) + 1
           /\ DOMAIN (<<build>> \o list) = 1..(Len(list) + 1)
           /\ (<<build>> \o list)[1] = build
           /\ \A i \in DOMAIN list : i + 1 \in DOMAIN (<<build>> \o list)
                                     /\ (<<build>> \o list)[i + 1] = list[i]
           /\ \A i \in DOMAIN (<<build>> \o list) : i # 1 => i - 1 \in DOMAIN list
<1>1. DOMAIN list = 1..Len(list) /\ Len(list) \in Nat  BY LenProperties
<1>2. <<build>> \in Seq(Build) /\ Len(<<build>>) = 1 /\ <<build>>[1] = build  OBVIOUS
<1> DEFINE one == <<build>>
<1> HIDE DEF one
<1>3. /\ one \o list \in Seq(Build)
      /\ Len(one \o list) = Len(one) + Len(list)
      /\ \A i \in 1..(Len(one) + Len(list)) :
            (one \o list)[i] = IF i <= Len(one) THEN one[i] ELSE list[i - Len(one)]
  BY <1>2, ConcatProperties DEF one
<1>4. DOMAIN (one \o list) = 1..Len(one \o list)  BY <1>3, LenProperties
<1>5. \A l \in Nat : /\ 1 + l = l + 1
                     /\ 1 \in 1..(1 + l)
                     /\ \A i \in 1..l : i + 1 \in 1..(1 + l) /\ ~(i + 1 <= 1) /\ (i + 1) - 1 = i
                     /\ \A i \in 1..(l + 1) : i # 1 => i - 1 \in 1..l
  OBVIOUS
<1>6. Len(one) = 1 /\ one[1] = build  BY <1>2 DEF one
<1>7. QED  BY <1>1, <1>3, <1>4, <1>5, <1>6 DEF one

LEMMA MissedType ==
    ASSUME TypeOK, NEW build
    PROVE  Missed(build) \in [Requests -> Request \cup {None}]
<1> SUFFICES ASSUME NEW r \in Requests
             PROVE  (IF Overtakes(build, requests[r])
                     THEN [requests[r] EXCEPT !.late = TRUE] ELSE requests[r])
                    \in Request \cup {None}
  BY DEF Missed
<1>1. requests[r] \in Request \cup {None}  BY DEF TypeOK
<1>2. CASE Overtakes(build, requests[r])
  <2>1. requests[r] \in Request  BY <1>1, <1>2 DEF Overtakes
  <2>2. QED  BY <1>2, <2>1 DEF Request
<1>3. QED  BY <1>1, <1>2

LEMMA PublishTypes ==
    ASSUME TypeOK, NEW kind \in {"created", "updated"}, NEW build \in Build,
           Publish(kind, build)
    PROVE  /\ events' \in Seq(Event)
           /\ requests' \in [Requests -> Request \cup {None}]
           /\ spoiled' \subseteq Keys
<1>1. events \in Seq(Event) /\ requests \in [Requests -> Request \cup {None}]
      /\ spoiled \subseteq Keys
  BY DEF TypeOK
<1>2. CASE open
  <2> DEFINE event == [kind |-> kind, build |-> build, void |-> FALSE]
  <2>1. event \in Event  BY DEF Event
  <2>2. events' = Append(events, event) /\ UNCHANGED <<requests, spoiled>>
    BY <1>2 DEF Publish
  <2> HIDE DEF event
  <2>3. Append(events, event) \in Seq(Event)  BY <1>1, <2>1, AppendProperties
  <2>4. QED  BY <1>1, <2>2, <2>3
<1>3. CASE ~open
  <2>1. requests' = Missed(build) /\ spoiled' = spoiled \cup Concerns(build)
        /\ events' = events
    BY <1>3 DEF Publish
  <2>2. QED  BY <1>1, <2>1, MissedType DEF Concerns
<1>4. QED  BY <1>2, <1>3

LEMMA RequestType ==
    ASSUME TypeOK, NEW r \in Requests, requests[r] # None
    PROVE  /\ requests[r] \in Request
           /\ requests[r].key \in Keys /\ requests[r].data \in Seq(Build)
           /\ requests[r].from \in Nat /\ requests[r].late \in BOOLEAN
<1>1. requests[r] \in Request  BY DEF TypeOK
<1>2. \A m \in Nat : \A n \in 1..m : n \in Nat  OBVIOUS
<1>3. QED  BY <1>1, <1>2, Sizes DEF Request

LEMMA WritingType ==
    ASSUME TypeOK, writing # None
    PROVE  writing.build \in Build /\ writing.by \in Requests \cup {None}
BY DEF TypeOK, Transaction

\* The rows after a commit: one of them is what was written.
LEMMA CommittedRows ==
    ASSUME TypeOK, WritingOK, Commit
    PROVE  /\ writing # None
           /\ builds' \in Seq(Build)
           /\ DOMAIN builds' = DOMAIN builds \cup {writing.build.number}
           /\ builds'[writing.build.number] = writing.build
           /\ \A n \in DOMAIN builds : n # writing.build.number => builds'[n] = builds[n]
           /\ \/ Len(builds') = Len(builds) /\ writing.build.number \in DOMAIN builds
              \/ Len(builds') = Len(builds) + 1 /\ writing.build.number = Len(builds) + 1
<1> DEFINE number == writing.build.number
           length == IF number > Len(builds) THEN Len(builds) + 1 ELSE Len(builds)
<1>1. writing # None /\ writing.build \in Build  BY WritingType DEF Commit
<1>2. builds' = [i \in 1..length |-> IF i = number THEN writing.build ELSE builds[i]]
  BY DEF Commit
<1>3. number \in DOMAIN builds \/ number = Len(builds) + 1  BY <1>1 DEF WritingOK
<1>4. Len(builds) \in Nat /\ DOMAIN builds = 1..Len(builds)
      /\ \A n \in DOMAIN builds : builds[n] \in Build
  BY RowsOfBuilds
<1>5. /\ length \in Nat
      /\ 1..length = 1..Len(builds) \cup {number}
      /\ \/ length = Len(builds) /\ number \in 1..Len(builds)
         \/ length = Len(builds) + 1 /\ number = Len(builds) + 1
  <2>1. \A l \in Nat : LET k == IF l + 1 > l THEN l + 1 ELSE l IN
           k \in Nat /\ 1..k = 1..l \cup {l + 1} /\ k = l + 1
    OBVIOUS
  <2>2. \A l \in Nat : \A n \in 1..l : LET k == IF n > l THEN l + 1 ELSE l IN
           k \in Nat /\ 1..k = 1..l \cup {n} /\ k = l
    OBVIOUS
  <2>3. CASE number = Len(builds) + 1  BY <1>4, <2>1, <2>3
  <2>4. CASE number \in 1..Len(builds)  BY <1>4, <2>2, <2>4
  <2>5. QED  BY <1>3, <1>4, <2>3, <2>4
<1> HIDE DEF number, length
<1>6. builds' \in [1..length -> Build]
  <2> SUFFICES ASSUME NEW i \in 1..length
               PROVE  (IF i = number THEN writing.build ELSE builds[i]) \in Build
    BY <1>2
  <2>1. QED  BY <1>1, <1>4, <1>5
<1>7. builds' \in Seq(Build)  BY <1>5, <1>6, SeqDef
<1>8. Len(builds') = length
  <2>1. DOMAIN builds' = 1..Len(builds') /\ Len(builds') \in Nat  BY <1>7, LenProperties
  <2>2. DOMAIN builds' = 1..length  BY <1>6
  <2>3. \A a, b \in Nat : 1..a = 1..b => a = b
    <3>1. \A a, b \in Nat : a > b => a \in 1..a /\ a \notin 1..b  OBVIOUS
    <3>2. \A a, b \in Nat : a > b \/ b > a \/ a = b  OBVIOUS
    <3>3. QED  BY <3>1, <3>2
  <2>4. QED  BY <1>5, <2>1, <2>2, <2>3
<1>9. builds'[number] = writing.build /\ \A n \in DOMAIN builds : n # number => builds'[n] = builds[n]
  BY <1>2, <1>4, <1>5
<1>10. DOMAIN builds' = DOMAIN builds \cup {number}  BY <1>4, <1>5, <1>6
<1>11. QED  BY <1>1, <1>4, <1>5, <1>7, <1>8, <1>9, <1>10 DEF number

LEMMA AppliedType ==
    ASSUME TypeOK, NEW event \in Event
    PROVE  Applied(event) \in [Keys -> Seq(Build) \cup {None}]
<1>1. event.build \in Build  BY DEF Event
<1> DEFINE value(key) ==
        CASE ~Cached(key) \/ key \notin Concerns(event.build) -> cache[key]
          [] OTHER -> IF event.kind = "updated" THEN Replace(cache[key], event.build)
                      ELSE IF key \in Lists THEN <<event.build>> \o cache[key]
                      ELSE cache[key]
<1>2. ASSUME NEW key \in Keys
      PROVE  value(key) \in Seq(Build) \cup {None}
  <2>1. cache[key] \in Seq(Build) \cup {None}  BY DEF TypeOK
  <2>2. CASE ~Cached(key) \/ key \notin Concerns(event.build)
    BY <2>1, <2>2
  <2>3. CASE Cached(key) /\ key \in Concerns(event.build)
    <3>1. cache[key] \in Seq(Build)  BY <2>1, <2>3 DEF Cached
    <3>2. Replace(cache[key], event.build) \in Seq(Build)  BY <1>1, <3>1, ReplaceProperties
    <3>3. <<event.build>> \o cache[key] \in Seq(Build)  BY <1>1, <3>1, UnshiftProperties
    <3>4. \/ value(key) = Replace(cache[key], event.build)
          \/ value(key) = <<event.build>> \o cache[key]
          \/ value(key) = cache[key]
      BY <2>3
    <3> HIDE DEF value
    <3>5. QED  BY <3>1, <3>2, <3>3, <3>4
  <2>4. QED  BY <2>2, <2>3
<1>3. Applied(event) = [key \in Keys |-> value(key)]  BY DEF Applied
<1> HIDE DEF value
<1>4. QED  BY <1>2, <1>3

LEMMA TypesStep ==
    ASSUME TypeOK, RowsOK, WritingOK, RestartsAnswered, [Next]_vars
    PROVE  TypeOK'
<1> USE DEF TypeOK
<1>1. ASSUME NEW kind \in {"created", "updated"}, NEW build \in Build,
             NEW by \in Requests \cup {None}, Begins(kind, build, by)
      PROVE  TypeOK'
  <2>1. /\ events' \in Seq(Event)
        /\ requests' \in [Requests -> Request \cup {None}]
        /\ spoiled' \subseteq Keys
    BY <1>1, PublishTypes DEF Begins
  <2>2. writing' \in Transaction  BY <1>1 DEF Begins, Transaction
  <2>3. writes' \in 0..MaxWrites
    <3>1. \A m \in Nat : \A w \in 0..m : w < m => w + 1 \in 0..m  OBVIOUS
    <3>2. QED  BY <1>1, <3>1, Sizes DEF Begins
  <2>4. QED  BY <1>1, <2>1, <2>2, <2>3 DEF Begins
<1>2. ASSUME Commit  PROVE TypeOK'
  <2>1. builds' \in Seq(Build) /\ writing # None /\ writing.build \in Build
    BY <1>2, CommittedRows, WritingType
  <2>2. <<writing.build>> \in Seq(Build)  BY <2>1
  <2>3. ASSUME NEW r \in Requests
        PROVE  (IF r = writing.by /\ requests[r] # None
                THEN [requests[r] EXCEPT !.stage = "read", !.data = <<writing.build>>]
                ELSE requests[r]) \in Request \cup {None}
    <3>1. CASE r = writing.by /\ requests[r] # None
      <4>1. requests[r] \in Request  BY <3>1, RequestType
      <4>2. [requests[r] EXCEPT !.stage = "read", !.data = <<writing.build>>] \in Request
        BY <2>2, <4>1 DEF Request
      <4>3. QED  BY <3>1, <4>2
    <3>2. CASE ~(r = writing.by /\ requests[r] # None)  BY <3>2
    <3>3. QED  BY <3>1, <3>2
  <2>4. requests' \in [Requests -> Request \cup {None}]  BY <1>2, <2>3 DEF Commit
  <2>5. QED  BY <1>2, <2>1, <2>4 DEF Commit
<1>3. ASSUME Rollback  PROVE TypeOK'
  <2> DEFINE sent == {i \in DOMAIN events : events[i].build = writing.build}
  <2>1. DOMAIN events = 1..Len(events) /\ Len(events) \in Nat
        /\ \A i \in DOMAIN events : events[i] \in Event
    BY LenProperties, ElementOfSeq
  <2>2. \A i \in 1..Len(events) : [events[i] EXCEPT !.void = @ \/ i \in sent] \in Event
    BY <2>1 DEF Event
  <2>3. events' = [i \in 1..Len(events) |-> [events[i] EXCEPT !.void = @ \/ i \in sent]]
    BY <1>3, <2>1 DEF Rollback
  <2>4. spoiled' \subseteq Keys
    BY <1>3 DEF Rollback, Concerns
  <2> HIDE DEF sent
  <2>5. events' \in Seq(Event)
    <3>1. events' \in [1..Len(events) -> Event]  BY <2>2, <2>3
    <3>2. QED  BY <2>1, <3>1, SeqDef
  <2>6. requests' \in [Requests -> Request \cup {None}]  BY <1>3 DEF Rollback
  <2>7. QED  BY <1>3, <2>4, <2>5, <2>6 DEF Rollback
<1>4. ASSUME NEW r \in Requests, RefuseRestart(r)  PROVE TypeOK'
  BY <1>4 DEF RefuseRestart
<1>5. ASSUME NEW r \in Requests, Read(r)  PROVE TypeOK'
  <2>1. requests[r] \in Request /\ requests[r].from \in Nat
    BY <1>5, RequestType DEF Read
  <2>2. PICK late \in BOOLEAN : requests' =
           [requests EXCEPT ![r] =
              IF requests[r].key \in Opened /\ Page(requests[r].key, requests[r].from) = <<>>
              THEN None
              ELSE [@ EXCEPT !.stage = "read",
                             !.data = Page(requests[r].key, requests[r].from),
                             !.late = late]]
    BY <1>5 DEF Read
  <2>3. Page(requests[r].key, requests[r].from) \in Seq(Build)  BY <2>1, PageProperties
  <2>4. [requests[r] EXCEPT !.stage = "read",
                            !.data = Page(requests[r].key, requests[r].from),
                            !.late = late] \in Request
    BY <2>1, <2>3 DEF Request
  <2>5. requests' \in [Requests -> Request \cup {None}]  BY <2>2, <2>4
  <2>6. QED  BY <1>5, <2>5 DEF Read
<1>6. ASSUME OpenStream  PROVE TypeOK'
  BY <1>6 DEF OpenStream
<1>7. ASSUME Receive  PROVE TypeOK'
  <2>1. Head(events) \in Event /\ Tail(events) \in Seq(Event)
    BY <1>7, HeadTailProperties DEF Receive
  <2>2. Applied(Head(events)) \in [Keys -> Seq(Build) \cup {None}]  BY <2>1, AppliedType
  <2>3. Missed(Head(events).build) \in [Requests -> Request \cup {None}]  BY MissedType
  <2>4. spoiled' \subseteq Keys  BY <1>7 DEF Receive, Concerns
  <2>5. QED  BY <1>7, <2>1, <2>2, <2>3, <2>4 DEF Receive
<1>8. ASSUME NEW key \in Lists, ShowList(key)  PROVE TypeOK'
  <2>1. key \in Keys /\ cache[key] \in Seq(Build)
    BY <1>8, KeysApart DEF ShowList, Cached
  <2>2. SubSeq(cache[key], 1, PageSize) \in Seq(Build)
    <3>1. Len(cache[key]) \in Nat /\ Len(cache[key]) > PageSize
      BY <1>8, <2>1, LenProperties DEF ShowList
    <3>2. \A l, p \in Nat : l > p => \A i \in 1..p : i \in 1..l  OBVIOUS
    <3>3. \A i \in 1..PageSize : i \in 1..Len(cache[key])  BY <3>1, <3>2, Sizes
    <3>4. \A i \in 1..PageSize : cache[key][i] \in Build  BY <2>1, <3>3, ElementOfSeq
    <3>5. 1 \in Int /\ PageSize \in Int  BY Sizes
    <3>6. QED  BY <3>4, <3>5, SubSeqProperties
  <2>3. cache' \in [Keys -> Seq(Build) \cup {None}]  BY <1>8, <2>2 DEF ShowList
  <2>4. QED  BY <1>8, <2>3 DEF ShowList
<1>9. ASSUME NEW r \in Requests, NEW op \in {"fetch", "more", "restart"}, NEW key \in Keys,
             NEW from \in 1..FirstPage, Asks(r, op, key, from)
      PROVE  TypeOK'
  <2>1. <<>> \in Seq(Build)  BY EmptySeq
  <2>2. [op |-> op, key |-> key, from |-> from, stage |-> "asked", data |-> <<>>,
         late |-> FALSE] \in Request
    BY <2>1 DEF Request
  <2>3. QED  BY <1>9, <2>2 DEF Asks, Ask
<1>10. ASSUME NEW r \in Requests, AnswerFetch(r)  PROVE TypeOK'
  <2>1. requests[r].key \in Keys /\ requests[r].data \in Seq(Build)
    BY <1>10, RequestType DEF AnswerFetch, Answered
  <2>2. cache' \in [Keys -> Seq(Build) \cup {None}]
    BY <1>10, <2>1 DEF AnswerFetch, Put
  <2>3. requests' \in [Requests -> Request \cup {None}]
    BY <1>10 DEF AnswerFetch, Answered
  <2>4. spoiled' \subseteq Keys  BY <1>10, <2>1 DEF AnswerFetch
  <2>5. QED  BY <1>10, <2>2, <2>3, <2>4 DEF AnswerFetch, Answered
<1>11. ASSUME NEW r \in Requests, AnswerMore(r)  PROVE TypeOK'
  <2>1. requests[r].key \in Keys /\ requests[r].data \in Seq(Build)
    BY <1>11, RequestType DEF AnswerMore, Answered
  <2>2. ASSUME NEW k \in Keys
        PROVE  (IF k \in {All, requests[r].key} /\ Cached(k)
                THEN cache[k] \o requests[r].data ELSE cache[k]) \in Seq(Build) \cup {None}
    <3>1. CASE Cached(k)
      <4>1. cache[k] \in Seq(Build)  BY <3>1 DEF Cached
      <4>2. cache[k] \o requests[r].data \in Seq(Build)  BY <2>1, <4>1, ConcatProperties
      <4>3. QED  BY <4>1, <4>2
    <3>2. CASE ~Cached(k)  BY <3>2
    <3>3. QED  BY <3>1, <3>2
  <2>3. cache' \in [Keys -> Seq(Build) \cup {None}]  BY <1>11, <2>2 DEF AnswerMore
  <2>4. requests' \in [Requests -> Request \cup {None}]
    BY <1>11 DEF AnswerMore, Answered
  <2>5. spoiled' \subseteq Keys  BY <1>11, <2>1, KeysApart DEF AnswerMore, Lists
  <2>6. QED  BY <1>11, <2>3, <2>4, <2>5 DEF AnswerMore, Answered
<1>12. ASSUME NEW r \in Requests, AnswerRestart(r)  PROVE TypeOK'
  <2>1. requests[r].key \in Keys /\ requests[r].data \in Seq(Build)
    BY <1>12, RequestType DEF AnswerRestart, Answered
  <2>2. Head(requests[r].data) \in Build
    <3>1. Len(requests[r].data) = 1
      BY <1>12 DEF RestartsAnswered, AnswerRestart, Answered
    <3>2. requests[r].data # <<>>
      <4>1. Len(<<>>) = 0 /\ 0 # 1  OBVIOUS
      <4>2. QED  BY <3>1, <4>1
    <3>3. QED  BY <2>1, <3>2, HeadTailProperties
  <2>3. CASE Cached(requests[r].key)
    <3>1. cache[requests[r].key] \in Seq(Build)  BY <2>1, <2>3 DEF Cached
    <3>2. Replace(cache[requests[r].key], Head(requests[r].data)) \in Seq(Build)
      BY <2>2, <3>1, ReplaceProperties
    <3>3. cache' \in [Keys -> Seq(Build) \cup {None}]
      BY <1>12, <2>3, <3>2 DEF AnswerRestart
    <3>4. QED  BY <1>12, <2>1, <3>3 DEF AnswerRestart, Answered
  <2>4. CASE ~Cached(requests[r].key)
    <3>1. cache' \in [Keys -> Seq(Build) \cup {None}]
      BY <1>12, <2>4 DEF AnswerRestart
    <3>2. QED  BY <1>12, <2>1, <3>1 DEF AnswerRestart, Answered
  <2>5. QED  BY <2>3, <2>4
<1>13. ASSUME UNCHANGED vars  PROVE TypeOK'
  BY <1>13 DEF vars
<1>14. QED
  BY <1>1, <1>2, <1>3, <1>4, <1>5, <1>6, <1>7, <1>8, <1>9, <1>10, <1>11, <1>12, <1>13,
     StepCases

-----------------------------------------------------------------------------
(* Rows and restarts *)

\* What is being written is of another build than the other rows, and newer.
LEMMA WritingProperties ==
    ASSUME TypeOK, RowsOK, WritingOK, writing # None
    PROVE  /\ Dated(writing.build)
           /\ \A n \in DOMAIN builds :
                 /\ builds[n].version < writing.build.version
                 /\ builds[n].id = writing.build.id <=> n = writing.build.number
<1> DEFINE b == writing.build
<1>1. b \in Build /\ b.id \in Nat /\ b.version \in Nat /\ b.version = writes /\ writes \in Nat
      /\ b.number \in Nat
  BY WritingType, BuildFields DEF WritingOK
<1>2. \A n \in DOMAIN builds :
         /\ builds[n].id \in Nat /\ builds[n].version \in Nat /\ n \in 1..Len(builds)
         /\ builds[n].id <= builds[n].version /\ builds[n].version < writes
  BY RowsOfBuilds, BuildFields DEF RowsOK, WritingOK, Dated
<1>3. Len(builds) \in Nat  BY RowsOfBuilds
<1>4. \A l \in Nat : \A n \in 1..l : n # l + 1  OBVIOUS
<1>5. \A i, v, w \in Nat : i <= v /\ v < w => i <= w /\ i # w  OBVIOUS
<1>6. \A w \in Nat : w <= w  OBVIOUS
<1> HIDE DEF b
<1>7. \A n \in DOMAIN builds : builds[n].id # writes /\ builds[n].id <= writes
  BY <1>1, <1>2, <1>5
<1>8. CASE b.number = Len(builds) + 1 /\ b.id = writes
  <2>1. Dated(b)  BY <1>1, <1>8, <1>6 DEF Dated
  <2>2. \A n \in DOMAIN builds : builds[n].id # b.id /\ n # b.number
    BY <1>2, <1>3, <1>4, <1>7, <1>8
  <2>3. QED  BY <1>1, <1>2, <2>1, <2>2 DEF b
<1>9. CASE b.number \in DOMAIN builds /\ builds[b.number].id = b.id
  <2>1. Dated(b)  BY <1>1, <1>6, <1>7, <1>9 DEF Dated
  <2>2. \A n \in DOMAIN builds : builds[n].id = b.id <=> n = b.number
    BY <1>9 DEF RowsOK
  <2>3. QED  BY <1>1, <1>2, <2>1, <2>2 DEF b
<1>10. QED  BY <1>8, <1>9 DEF WritingOK, b

LEMMA RowsStep ==
    ASSUME TypeOK, RowsOK, WritingOK, [Next]_vars
    PROVE  RowsOK' /\ WritingOK'
<1>1. ASSUME NEW kind \in {"created", "updated"}, NEW build \in Build,
             NEW by \in Requests \cup {None}, Begins(kind, build, by)
      PROVE  RowsOK' /\ WritingOK'
  <2>1. builds' = builds /\ writes' = writes + 1 /\ writing'.build = build
    BY <1>1 DEF Begins
  <2>2. writes \in Nat /\ Len(builds) \in Nat /\ Len(builds) <= writes
    <3>1. \A m \in Nat : \A w \in 0..m : w \in Nat  OBVIOUS
    <3>2. QED  BY <3>1, RowsOfBuilds, Sizes DEF TypeOK, RowsOK
  <2>3. \A n \in DOMAIN builds : builds[n].version \in Nat /\ builds[n].version <= writes
    BY RowsOfBuilds, BuildFields DEF RowsOK, Dated
  <2>4. \A w \in Nat : \A x \in Nat : x <= w => x < w + 1 /\ x <= w + 1  OBVIOUS
  <2>5. RowsOK'
    BY <2>1, <2>2, <2>3, <2>4 DEF RowsOK, Dated
  <2>6. WritingOK'
    BY <1>1, <2>1, <2>2, <2>3, <2>4 DEF WritingOK, Begins
  <2>7. QED  BY <2>5, <2>6
<1>2. ASSUME Commit  PROVE RowsOK' /\ WritingOK'
  <2> DEFINE b == writing.build
  <2>1. writing # None /\ writing' = None /\ writes' = writes  BY <1>2 DEF Commit
  <2>2. /\ DOMAIN builds' = DOMAIN builds \cup {b.number}
        /\ builds'[b.number] = b
        /\ \A n \in DOMAIN builds : n # b.number => builds'[n] = builds[n]
        /\ Len(builds') = Len(builds) \/ Len(builds') = Len(builds) + 1
    BY <1>2, CommittedRows
  <2>3. /\ Dated(b)
        /\ \A n \in DOMAIN builds : builds[n].id = b.id <=> n = b.number
    BY <2>1, WritingProperties
  <2>4. Len(builds') <= writes
    <3>1. \A l, w \in Nat : l < w => l <= w /\ l + 1 <= w  OBVIOUS
    <3>2. writes \in Nat
      <4>1. \A m \in Nat : \A w \in 0..m : w \in Nat  OBVIOUS
      <4>2. QED  BY <4>1, Sizes DEF TypeOK
    <3>3. Len(builds) \in Nat /\ Len(builds) < writes  BY <2>1, RowsOfBuilds DEF WritingOK
    <3>4. QED  BY <2>2, <3>1, <3>2, <3>3
  <2> HIDE DEF b
  <2>5. \A n \in DOMAIN builds' : builds'[n].number = n /\ Dated(builds'[n])
    BY <2>2, <2>3 DEF RowsOK
  <2>6. \A m, n \in DOMAIN builds' : builds'[m].id = builds'[n].id => m = n
    BY <2>2, <2>3 DEF RowsOK
  <2>7. RowsOK'
    BY <2>1, <2>4, <2>5, <2>6 DEF RowsOK, Dated
  <2>8. QED  BY <2>1, <2>7 DEF WritingOK
<1>3. ASSUME Rollback  PROVE RowsOK' /\ WritingOK'
  BY <1>3 DEF Rollback, RowsOK, WritingOK, Dated
<1>4. ASSUME UNCHANGED <<builds, writing, writes>>  PROVE RowsOK' /\ WritingOK'
  BY <1>4 DEF RowsOK, WritingOK, Dated
<1>5. ASSUME NEW r \in Requests, RefuseRestart(r)  PROVE UNCHANGED <<builds, writing, writes>>
  BY <1>5 DEF RefuseRestart
<1>6. ASSUME NEW r \in Requests, Read(r)  PROVE UNCHANGED <<builds, writing, writes>>
  BY <1>6 DEF Read
<1>7. ASSUME OpenStream  PROVE UNCHANGED <<builds, writing, writes>>
  BY <1>7 DEF OpenStream
<1>8. ASSUME Receive  PROVE UNCHANGED <<builds, writing, writes>>
  BY <1>8 DEF Receive
<1>9. ASSUME NEW key \in Lists, ShowList(key)  PROVE UNCHANGED <<builds, writing, writes>>
  BY <1>9 DEF ShowList
<1>10. ASSUME NEW r, NEW op, NEW key, NEW from, Asks(r, op, key, from)
       PROVE  UNCHANGED <<builds, writing, writes>>
  BY <1>10 DEF Asks, Ask
<1>11. ASSUME NEW r \in Requests, AnswerFetch(r) \/ AnswerMore(r) \/ AnswerRestart(r)
       PROVE  UNCHANGED <<builds, writing, writes>>
  BY <1>11 DEF AnswerFetch, AnswerMore, AnswerRestart, Answered
<1>12. ASSUME UNCHANGED vars  PROVE UNCHANGED <<builds, writing, writes>>
  BY <1>12 DEF vars
<1>13. QED
  BY <1>1, <1>2, <1>3, <1>4, <1>5, <1>6, <1>7, <1>8, <1>9, <1>10, <1>11, <1>12, StepCases

\* An event that is missed changes nothing in a request but that it is late.
LEMMA MissedFields ==
    ASSUME TypeOK, NEW build, NEW r \in Requests
    PROVE  LET request == Missed(build)[r] IN
           /\ request # None => requests[r] # None
           /\ requests[r] # None =>
                 /\ request.op = requests[r].op /\ request.key = requests[r].key
                 /\ request.from = requests[r].from /\ request.stage = requests[r].stage
                 /\ request.data = requests[r].data
                 /\ ~request.late => ~requests[r].late /\ ~Overtakes(build, requests[r])
           /\ requests[r] = None \/ requests[r].stage = "asked" => request = requests[r]
<1>1. Missed(build)[r] = IF Overtakes(build, requests[r])
                         THEN [requests[r] EXCEPT !.late = TRUE] ELSE requests[r]
  BY DEF Missed
<1>2. CASE Overtakes(build, requests[r])
  <2>1. requests[r] # None /\ requests[r].stage = "read"  BY <1>2 DEF Overtakes
  <2>2. requests[r] \in Request  BY <2>1, RequestType
  <2>3. Missed(build)[r] = [requests[r] EXCEPT !.late = TRUE]  BY <1>1, <1>2
  <2>4. /\ Missed(build)[r].op = requests[r].op /\ Missed(build)[r].key = requests[r].key
        /\ Missed(build)[r].from = requests[r].from
        /\ Missed(build)[r].stage = requests[r].stage
        /\ Missed(build)[r].data = requests[r].data
        /\ Missed(build)[r].late = TRUE
    BY <2>2, <2>3 DEF Request
  <2>5. QED  BY <2>1, <2>4
<1>3. CASE ~Overtakes(build, requests[r])
  BY <1>1, <1>3
<1>4. QED  BY <1>2, <1>3

LEMMA RestartsStep ==
    ASSUME TypeOK, RowsOK, WritingOK, RestartsOK, RestartsAnswered, [Next]_vars
    PROVE  RestartsOK' /\ RestartsAnswered'
<1> DEFINE Waits(r) == /\ requests[r] # None
                       /\ requests[r].op = "restart"
                       /\ requests[r].stage = "asked"
                       /\ requests[r].key = writing.build.id
<1>1. ASSUME NEW kind \in {"created", "updated"}, NEW build \in Build,
             NEW by \in Requests \cup {None}, Begins(kind, build, by)
      PROVE  RestartsOK' /\ RestartsAnswered'
  <2>1. writing'.by = by /\ writing'.build = build  BY <1>1 DEF Begins
  <2>2. requests' = requests \/ requests' = Missed(build)
    BY <1>1 DEF Begins, Publish
  <2>3. by # None => requests[by] # None /\ requests[by].op = "restart"
                     /\ requests[by].stage = "asked" /\ requests[by].key = build.id
    BY <1>1 DEF Begins, RestartAsked
  <2>4. by # None => requests'[by] = requests[by]
    BY <2>2, <2>3, MissedFields
  <2>5. RestartsOK'  BY <2>1, <2>3, <2>4 DEF RestartsOK
  <2>6. ASSUME NEW r \in Requests, requests'[r] # None, requests'[r].op = "restart",
               requests'[r].stage = "read"
        PROVE  Len(requests'[r].data) = 1
    <3>1. requests[r] # None /\ requests'[r].op = requests[r].op
          /\ requests'[r].stage = requests[r].stage /\ requests'[r].data = requests[r].data
      BY <2>2, <2>6, MissedFields
    <3>2. QED  BY <2>6, <3>1 DEF RestartsAnswered
  <2>7. RestartsAnswered'  BY <2>6 DEF RestartsAnswered
  <2>8. QED  BY <2>5, <2>7
<1>2. ASSUME Commit  PROVE RestartsOK' /\ RestartsAnswered'
  <2>1. writing' = None  BY <1>2 DEF Commit
  <2>2. ASSUME NEW r \in Requests, requests'[r] # None, requests'[r].op = "restart",
               requests'[r].stage = "read"
        PROVE  Len(requests'[r].data) = 1
    <3>1. CASE r = writing.by /\ requests[r] # None
      <4>1. requests'[r] = [requests[r] EXCEPT !.stage = "read", !.data = <<writing.build>>]
        BY <1>2, <3>1 DEF Commit
      <4>2. requests'[r].data = <<writing.build>>
        BY <3>1, <4>1, RequestType DEF Request
      <4>3. QED  BY <4>2
    <3>2. CASE ~(r = writing.by /\ requests[r] # None)
      <4>1. requests'[r] = requests[r]  BY <1>2, <3>2 DEF Commit
      <4>2. QED  BY <2>2, <4>1 DEF RestartsAnswered
    <3>3. QED  BY <3>1, <3>2
  <2>3. QED  BY <2>1, <2>2 DEF RestartsOK, RestartsAnswered
<1>3. ASSUME Rollback  PROVE RestartsOK' /\ RestartsAnswered'
  <2>1. writing' = None /\ \A r \in Requests : requests'[r] \in {None, requests[r]}
    BY <1>3 DEF Rollback
  <2>2. QED  BY <2>1 DEF RestartsOK, RestartsAnswered
\* Of one request, that waits for no restart: the others are as they were.
<1>4. ASSUME NEW r \in Requests, writing' = writing,
             \A q \in Requests \ {r} : requests'[q] = requests[q],
             writing # None => writing.by # r,
             requests'[r] # None => requests'[r].op # "restart" \/ requests'[r].stage # "read"
      PROVE  RestartsOK' /\ RestartsAnswered'
  <2>1. RestartsOK'
    <3> SUFFICES ASSUME writing # None, writing.by # None
                 PROVE  /\ requests'[writing.by] # None
                        /\ requests'[writing.by].op = "restart"
                        /\ requests'[writing.by].stage = "asked"
                        /\ requests'[writing.by].key = writing.build.id
      BY <1>4 DEF RestartsOK
    <3>1. writing.by \in Requests \ {r}  BY <1>4, WritingType
    <3>2. QED  BY <1>4, <3>1 DEF RestartsOK
  <2>2. ASSUME NEW q \in Requests, requests'[q] # None, requests'[q].op = "restart",
               requests'[q].stage = "read"
        PROVE  Len(requests'[q].data) = 1
    BY <1>4, <2>2 DEF RestartsAnswered
  <2>3. QED  BY <2>1, <2>2 DEF RestartsAnswered
<1>5. ASSUME NEW r \in Requests, RefuseRestart(r)  PROVE RestartsOK' /\ RestartsAnswered'
  BY <1>4, <1>5 DEF RefuseRestart, TypeOK
<1>6. ASSUME NEW r \in Requests, Read(r)  PROVE RestartsOK' /\ RestartsAnswered'
  <2>1. requests[r] # None /\ requests[r].op # "restart" /\ requests[r] \in Request
    BY <1>6, RequestType DEF Read
  <2>2. PICK late : requests' =
           [requests EXCEPT ![r] =
              IF requests[r].key \in Opened /\ Page(requests[r].key, requests[r].from) = <<>>
              THEN None
              ELSE [@ EXCEPT !.stage = "read",
                             !.data = Page(requests[r].key, requests[r].from),
                             !.late = late]]
    BY <1>6 DEF Read
  <2>3. requests \in [Requests -> Request \cup {None}]  BY DEF TypeOK
  <2>4. requests'[r] # None => requests'[r].op # "restart"
    BY <2>1, <2>2, <2>3 DEF Request
  <2>5. \A q \in Requests \ {r} : requests'[q] = requests[q]  BY <2>2, <2>3
  <2>6. writing # None => writing.by # r
    <3> SUFFICES ASSUME writing # None, writing.by = r  PROVE FALSE
      OBVIOUS
    <3>1. r # None  BY NoneAssumption
    <3>2. QED  BY <2>1, <3>1 DEF RestartsOK
  <2>7. writing' = writing  BY <1>6 DEF Read
  <2>8. QED  BY <1>4, <2>4, <2>5, <2>6, <2>7
<1>7. ASSUME UNCHANGED <<writing, requests>>  PROVE RestartsOK' /\ RestartsAnswered'
  BY <1>7 DEF RestartsOK, RestartsAnswered
<1>8. ASSUME Receive  PROVE RestartsOK' /\ RestartsAnswered'
  <2>1. writing' = writing /\ requests' = Missed(Head(events).build)  BY <1>8 DEF Receive
  <2>2. RestartsOK'
    <3> SUFFICES ASSUME writing # None, writing.by # None
                 PROVE  /\ requests'[writing.by] # None
                        /\ requests'[writing.by].op = "restart"
                        /\ requests'[writing.by].stage = "asked"
                        /\ requests'[writing.by].key = writing.build.id
      BY <2>1 DEF RestartsOK
    <3>1. writing.by \in Requests /\ Waits(writing.by)  BY WritingType DEF RestartsOK
    <3>2. requests'[writing.by] = requests[writing.by]  BY <2>1, <3>1, MissedFields
    <3>3. QED  BY <3>1, <3>2
  <2>3. ASSUME NEW q \in Requests, requests'[q] # None, requests'[q].op = "restart",
               requests'[q].stage = "read"
        PROVE  Len(requests'[q].data) = 1
    <3>1. requests[q] # None /\ requests'[q].op = requests[q].op
          /\ requests'[q].stage = requests[q].stage /\ requests'[q].data = requests[q].data
      BY <2>1, <2>3, MissedFields
    <3>2. QED  BY <2>3, <3>1 DEF RestartsAnswered
  <2>4. QED  BY <2>2, <2>3 DEF RestartsAnswered
<1>9. ASSUME NEW r \in Requests, NEW op, NEW key, NEW from, Asks(r, op, key, from)
      PROVE  RestartsOK' /\ RestartsAnswered'
  <2>1. requests[r] = None /\ writing' = writing
        /\ requests' = [requests EXCEPT ![r] = [op |-> op, key |-> key, from |-> from,
                                            stage |-> "asked", data |-> <<>>,
                                            late |-> FALSE]]
    BY <1>9 DEF Asks, Ask
  <2>2. requests'[r].stage = "asked" /\ \A q \in Requests \ {r} : requests'[q] = requests[q]
    BY <2>1 DEF TypeOK
  <2>3. writing # None => writing.by # r
    BY <2>1, NoneAssumption DEF RestartsOK
  <2>4. QED  BY <1>4, <2>1, <2>2, <2>3
<1>10. ASSUME NEW r \in Requests, AnswerFetch(r) \/ AnswerMore(r) \/ AnswerRestart(r)
       PROVE  RestartsOK' /\ RestartsAnswered'
  <2>1. requests[r].stage = "read" /\ writing' = writing
        /\ requests' = [requests EXCEPT ![r] = None]
    BY <1>10 DEF AnswerFetch, AnswerMore, AnswerRestart, Answered
  <2>2. requests'[r] = None /\ \A q \in Requests \ {r} : requests'[q] = requests[q]
    BY <2>1 DEF TypeOK
  <2>3. writing # None => writing.by # r
    BY <2>1, NoneAssumption DEF RestartsOK
  <2>4. QED  BY <1>4, <2>1, <2>2, <2>3
<1>11. ASSUME OpenStream  PROVE UNCHANGED <<writing, requests>>
  BY <1>11 DEF OpenStream
<1>12. ASSUME NEW key \in Lists, ShowList(key)  PROVE UNCHANGED <<writing, requests>>
  BY <1>12 DEF ShowList
<1>13. ASSUME UNCHANGED vars  PROVE UNCHANGED <<writing, requests>>
  BY <1>13 DEF vars
<1>14. QED
  BY <1>1, <1>2, <1>3, <1>5, <1>6, <1>7, <1>8, <1>9, <1>10, <1>11, <1>12, <1>13, StepCases

-----------------------------------------------------------------------------
(* Builds in force *)

LEMMA WritesType ==
    ASSUME TypeOK
    PROVE  writes \in Nat /\ writes + 1 \in Nat
<1>1. \A m \in Nat : \A w \in 0..m : w \in Nat /\ w + 1 \in Nat  OBVIOUS
<1>2. QED  BY <1>1, Sizes DEF TypeOK

LEMMA LiveProperties ==
    ASSUME TypeOK, RowsOK, WritingOK, NEW b \in Live
    PROVE  b \in Build /\ Backed(b) /\ Dated(b)
<1>1. CASE b \in {builds[n] : n \in DOMAIN builds}
  <2>1. PICK n \in DOMAIN builds : b = builds[n]  BY <1>1
  <2>2. b \in Build /\ b.number = n /\ Dated(b)  BY <2>1, RowsOfBuilds DEF RowsOK
  <2>3. Stored(b)  BY <2>1, <2>2 DEF Stored
  <2>4. QED  BY <2>2, <2>3 DEF Backed
<1>2. CASE writing # None /\ b = writing.build
  BY <1>2, WritingType, WritingProperties DEF Backed, IsWritten
<1>3. QED  BY <1>1, <1>2 DEF Live

\* A build is known by its id as well as by its number.
LEMMA Identity ==
    ASSUME TypeOK, RowsOK, WritingOK, NEW b, NEW c, Backed(b), Backed(c)
    PROVE  /\ b.id = c.id <=> b.number = c.number
           /\ b.number = c.number => b.branch = c.branch /\ Concerns(b) = Concerns(c)
<1> DEFINE Row(x) == /\ x.number \in DOMAIN builds
                     /\ builds[x.number].id = x.id
                     /\ builds[x.number].branch = x.branch
           NewRow(x) == writing # None /\ x = writing.build /\ x.number \notin DOMAIN builds
                        /\ \A n \in DOMAIN builds : builds[n].id # x.id
<1>1. ASSUME NEW x, Backed(x)  PROVE Row(x) \/ NewRow(x)
  <2>1. CASE Stored(x)  BY <2>1 DEF Stored
  <2>2. CASE writing # None /\ x = writing.build
    <3>1. \A n \in DOMAIN builds : builds[n].id = x.id <=> n = x.number
      BY <2>2, WritingProperties
    <3>2. CASE x.number \in DOMAIN builds
      <4>1. x.number # Len(builds) + 1
        <5>1. \A l \in Nat : l + 1 \notin 1..l  OBVIOUS
        <5>2. QED  BY <3>2, <5>1, RowsOfBuilds
      <4>2. QED  BY <2>2, <3>2, <4>1 DEF WritingOK
    <3>3. CASE x.number \notin DOMAIN builds  BY <2>2, <3>1, <3>3
    <3>4. QED  BY <3>2, <3>3
  <2>3. QED  BY <1>1, <2>1, <2>2 DEF Backed, IsWritten
<1>2. Row(b) \/ NewRow(b)  BY <1>1
<1>3. Row(c) \/ NewRow(c)  BY <1>1
<1>4. b.id = c.id <=> b.number = c.number
  <2>1. CASE Row(b) /\ Row(c)  BY <2>1 DEF RowsOK
  <2>2. CASE Row(b) /\ NewRow(c)  BY <2>2
  <2>3. CASE NewRow(b) /\ Row(c)  BY <2>3
  <2>4. CASE NewRow(b) /\ NewRow(c)  BY <2>4
  <2>5. QED  BY <1>2, <1>3, <2>1, <2>2, <2>3, <2>4
<1>5. b.number = c.number => b.branch = c.branch
  BY <1>2, <1>3
<1>6. QED  BY <1>4, <1>5 DEF Concerns

\* What the commit and the rollback of a transaction leave in force.
LEMMA LiveCommitted ==
    ASSUME TypeOK, RowsOK, WritingOK, Commit
    PROVE  /\ Live' \subseteq Live
           /\ \A b : Backed(b) /\ b \in Build => Stored(b)'
           /\ \A b : ~IsWritten(b)'
<1>1. /\ writing # None /\ writing' = None
      /\ DOMAIN builds' = DOMAIN builds \cup {writing.build.number}
      /\ builds'[writing.build.number] = writing.build
      /\ \A n \in DOMAIN builds : n # writing.build.number => builds'[n] = builds[n]
  BY CommittedRows DEF Commit
<1>2. Live' = {builds'[n] : n \in DOMAIN builds'}  BY <1>1 DEF Live
<1>3. \A n \in DOMAIN builds' : builds'[n] \in Live  BY <1>1 DEF Live
<1>4. ASSUME NEW b \in Build, Backed(b)  PROVE Stored(b)'
  <2>1. CASE Stored(b) /\ b.number # writing.build.number
    BY <1>1, <2>1 DEF Stored
  <2>2. CASE Stored(b) /\ b.number = writing.build.number
    <3>1. b.number \in DOMAIN builds /\ builds[b.number].id = b.id
          /\ builds[b.number].branch = b.branch
      BY <2>2 DEF Stored
    <3>2. Backed(writing.build)  BY <1>1 DEF Backed, IsWritten
    <3>3. b.id = writing.build.id /\ b.branch = writing.build.branch
      BY <1>4, <2>2, <3>2, Identity
    <3>4. b.version < writing.build.version
      <4>1. builds[b.number].version < writing.build.version
        BY <1>1, <3>1, WritingProperties
      <4>2. b.version \in Nat /\ builds[b.number].version \in Nat
            /\ writing.build.version \in Nat
        BY <1>1, <3>1, BuildFields, RowsOfBuilds, WritingType
      <4>3. b.version = builds[b.number].version \/ b.version < builds[b.number].version
        BY <2>2 DEF Stored
      <4>4. QED  BY <4>1, <4>2, <4>3
    <3>5. QED  BY <1>1, <2>2, <3>1, <3>3, <3>4 DEF Stored
  <2>3. CASE b = writing.build
    BY <1>1, <2>3 DEF Stored
  <2>4. QED  BY <1>4, <2>1, <2>2, <2>3 DEF Backed, IsWritten
<1>5. QED  BY <1>1, <1>2, <1>3, <1>4 DEF IsWritten

LEMMA LiveRolledBack ==
    ASSUME TypeOK, RowsOK, WritingOK, Rollback
    PROVE  /\ Live' \subseteq Live
           /\ writing # None
           /\ \A b : Backed(b) /\ b # writing.build => Stored(b)'
           /\ \A b : Stored(b) => Stored(b)'
           /\ \A b : ~IsWritten(b)'
           /\ \A b \in Live' : b # writing.build /\ b.id # writing.build.version
<1>1. writing # None /\ writing' = None /\ builds' = builds  BY DEF Rollback
<1>2. Live' = {builds[n] : n \in DOMAIN builds}  BY <1>1 DEF Live
<1>3. \A n \in DOMAIN builds : builds[n] # writing.build
                               /\ builds[n].id # writing.build.version
  <2> SUFFICES ASSUME NEW n \in DOMAIN builds
               PROVE  builds[n] # writing.build /\ builds[n].id # writing.build.version
    OBVIOUS
  <2>1. builds[n].version < writing.build.version  BY <1>1, WritingProperties
  <2>2. builds[n].id <= builds[n].version  BY DEF RowsOK, Dated
  <2>3. builds[n].id \in Nat /\ builds[n].version \in Nat /\ writing.build.version \in Nat
    BY <1>1, BuildFields, RowsOfBuilds, WritingType
  <2>4. \A i, v, w \in Nat : v < w /\ i <= v => i # w /\ v # w  OBVIOUS
  <2>5. builds[n].id # writing.build.version /\ builds[n].version # writing.build.version
    BY <2>1, <2>2, <2>3, <2>4
  <2>6. QED  BY <2>5
<1>4. QED  BY <1>1, <1>2, <1>3 DEF Live, Backed, IsWritten, Stored

\* What the beginning of a transaction adds to what is in force.
LEMMA LiveBegun ==
    ASSUME TypeOK, RowsOK, NEW kind, NEW build \in Build,
           NEW by \in Requests \cup {None}, Begins(kind, build, by)
    PROVE  /\ Live' = Live \cup {build}
           /\ \A b : Backed(b) => Stored(b) /\ Stored(b)' /\ Backed(b)'
           /\ \A b : IsWritten(b)' <=> b = build
           /\ \A b : Dated(b) /\ b \in Build => Dated(b)' /\ b.version < build.version
<1>1. writing = None /\ builds' = builds /\ writing'.build = build /\ writing' \in Transaction
      /\ writes' = writes + 1 /\ build.version = writes + 1
  BY DEF Begins, Transaction
<1>2. writing' # None  BY <1>1, NoneAssumption
<1>3. ASSUME NEW b \in Build, Dated(b)  PROVE Dated(b)' /\ b.version < build.version
  <2>1. b.version \in Nat /\ writes \in Nat  BY BuildFields, WritesType
  <2>2. QED  BY <1>1, <1>3, <2>1 DEF Dated
<1>4. QED  BY <1>1, <1>2, <1>3 DEF Live, Backed, IsWritten, Stored

-----------------------------------------------------------------------------
(* Events *)

LEMMA EventTypes ==
    ASSUME TypeOK
    PROVE  /\ Len(events) \in Nat /\ DOMAIN events = 1..Len(events)
           /\ \A i \in DOMAIN events :
                 /\ i \in Nat /\ events[i] \in Event
                 /\ events[i].build \in Build /\ events[i].void \in BOOLEAN
                 /\ events[i].kind \in {"created", "updated"}
<1>1. events \in Seq(Event)  BY DEF TypeOK
<1>2. Len(events) \in Nat /\ DOMAIN events = 1..Len(events)  BY <1>1, LenProperties
<1>3. \A i \in 1..Len(events) : events[i] \in Event  BY <1>1, ElementOfSeq
<1>4. \A l \in Nat : \A i \in 1..l : i \in Nat  OBVIOUS
<1>5. QED  BY <1>2, <1>3, <1>4 DEF Event

LEMMA PublishedEvents ==
    ASSUME TypeOK, EventsInOrder, NEW kind \in {"created", "updated"}, NEW build \in Build,
           Publish(kind, build)
    PROVE  \/ ~open /\ events' = events /\ DOMAIN events = {}
           \/ LET last == Len(events) + 1 IN
              /\ open /\ requests' = requests /\ spoiled' = spoiled
              /\ DOMAIN events' = DOMAIN events \cup {last}
              /\ last \notin DOMAIN events /\ last \in Nat
              /\ \A i \in DOMAIN events : i < last /\ ~(last < i) /\ events'[i] = events[i]
              /\ events'[last].kind = kind /\ events'[last].build = build
              /\ events'[last].void = FALSE
<1>1. CASE open
  <2> DEFINE event == [kind |-> kind, build |-> build, void |-> FALSE]
             last == Len(events) + 1
  <2>1. event \in Event  BY DEF Event
  <2>2. events' = Append(events, event)  BY <1>1 DEF Publish
  <2>3. Len(events) \in Nat /\ DOMAIN events = 1..Len(events)  BY EventTypes
  <2>4. event.kind = kind /\ event.build = build /\ event.void = FALSE  OBVIOUS
  <2> HIDE DEF event
  <2>5. /\ events' \in Seq(Event) /\ Len(events') = last
        /\ \A i \in 1..Len(events) : events'[i] = events[i]
        /\ events'[last] = event
    BY <2>1, <2>2, AppendProperties DEF TypeOK
  <2>6. DOMAIN events' = 1..last  BY <2>5, LenProperties
  <2>7. \A l \in Nat : /\ 1..(l + 1) = 1..l \cup {l + 1}
                       /\ l + 1 \notin 1..l /\ l + 1 \in Nat
                       /\ \A i \in 1..l : i < l + 1 /\ ~(l + 1 < i)
    OBVIOUS
  <2>8. UNCHANGED <<requests, spoiled>>  BY <1>1 DEF Publish
  <2>9. QED  BY <1>1, <2>3, <2>4, <2>5, <2>6, <2>7, <2>8
<1>2. CASE ~open
  <2>1. events = <<>> /\ events' = events  BY <1>2 DEF EventsInOrder, Publish
  <2>2. DOMAIN events = {}
    <3>1. DOMAIN <<>> = {}  OBVIOUS
    <3>2. QED  BY <2>1, <3>1
  <2>3. QED  BY <1>2, <2>1, <2>2
<1>3. QED  BY <1>1, <1>2

LEMMA ReceivedEvents ==
    ASSUME TypeOK, Receive
    PROVE  /\ 1 \in DOMAIN events /\ Head(events) = events[1]
           /\ \A i \in DOMAIN events' : i + 1 \in DOMAIN events /\ 1 < i + 1
                                        /\ events'[i] = events[i + 1]
           /\ \A i \in DOMAIN events : i # 1 => /\ i - 1 \in DOMAIN events'
                                                /\ events'[i - 1] = events[i]
           /\ \A i, j \in DOMAIN events' : i < j => i + 1 < j + 1
<1>1. events \in Seq(Event) /\ events # <<>> /\ events' = Tail(events)
  BY DEF TypeOK, Receive
<1>2. Len(events) \in Nat \ {0} /\ DOMAIN events = 1..Len(events)
  BY <1>1, EmptySeq, EventTypes
<1>3. /\ events' \in Seq(Event) /\ Len(events') = Len(events) - 1
      /\ \A i \in 1..Len(events') : events'[i] = events[i + 1]
  BY <1>1, HeadTailProperties
<1>4. DOMAIN events' = 1..Len(events')  BY <1>3, LenProperties
<1>5. Head(events) = events[1]  BY <1>1
<1>6. \A l \in Nat \ {0} :
         /\ 1 \in 1..l
         /\ \A i \in 1..(l - 1) : i + 1 \in 1..l /\ 1 < i + 1
         /\ \A i \in 1..l : i # 1 => i - 1 \in 1..(l - 1) /\ (i - 1) + 1 = i
         /\ \A i, j \in 1..(l - 1) : i < j => i + 1 < j + 1
  OBVIOUS
<1>7. QED  BY <1>2, <1>3, <1>4, <1>5, <1>6

LEMMA RolledBackEvents ==
    ASSUME TypeOK, Rollback
    PROVE  /\ DOMAIN events' = DOMAIN events
           /\ \A i \in DOMAIN events :
                 /\ events'[i].kind = events[i].kind /\ events'[i].build = events[i].build
                 /\ ~events'[i].void <=> ~events[i].void /\ events[i].build # writing.build
<1> DEFINE sent == {i \in DOMAIN events : events[i].build = writing.build}
<1>1. events' = [i \in DOMAIN events |-> [events[i] EXCEPT !.void = @ \/ i \in sent]]
  BY DEF Rollback
<1>2. \A i \in DOMAIN events : i \in sent <=> events[i].build = writing.build  OBVIOUS
<1> HIDE DEF sent
<1>3. DOMAIN events' = DOMAIN events  BY <1>1
<1>4. ASSUME NEW i \in DOMAIN events
      PROVE  /\ events'[i].kind = events[i].kind /\ events'[i].build = events[i].build
             /\ events'[i].void = (events[i].void \/ i \in sent)
  <2>1. events[i] \in Event  BY EventTypes
  <2>2. events'[i] = [events[i] EXCEPT !.void = @ \/ i \in sent]  BY <1>1
  <2>3. QED  BY <2>1, <2>2 DEF Event
<1>5. QED  BY <1>2, <1>3, <1>4

EventsInv == EventsInOrder /\ EventsBacked /\ EventsFollow /\ NewBuildsInOrder

LEMMA EventsBegun ==
    ASSUME TypeOK, RowsOK, WritingOK, EventsInv, NEW kind \in {"created", "updated"},
           NEW build \in Build, NEW by \in Requests \cup {None}, Begins(kind, build, by)
    PROVE  EventsInv'
<1> USE DEF EventsInv
<1> DEFINE last == Len(events) + 1
<1>1. Publish(kind, build) /\ open' = open /\ writing = None  BY DEF Begins
<1>2. \/ ~open /\ events' = events /\ DOMAIN events = {}
      \/ /\ open
         /\ DOMAIN events' = DOMAIN events \cup {last}
         /\ last \notin DOMAIN events
         /\ \A i \in DOMAIN events : i < last /\ ~(last < i) /\ events'[i] = events[i]
         /\ events'[last].kind = kind /\ events'[last].build = build
         /\ events'[last].void = FALSE
  BY <1>1, PublishedEvents
<1>3. /\ Live' = Live \cup {build}
      /\ \A b : Backed(b) => Backed(b)'
      /\ \A b : IsWritten(b)' <=> b = build
      /\ \A b \in Build : Dated(b) => Dated(b)' /\ b.version < build.version
  BY LiveBegun
<1>4. \A i \in DOMAIN events : events[i].build \in Build /\ Dated(events[i].build)
                               /\ i \in Nat
  BY EventTypes DEF EventsInOrder
<1>5. Dated(build)' /\ Backed(build)'
  <2>1. build.id \in Nat /\ build.version \in Nat /\ build.version = writes + 1
        /\ writes' = writes + 1 /\ writes \in Nat
    BY BuildFields, WritesType DEF Begins
  <2>2. build.id <= build.version
    <3>1. CASE kind = "created"  BY <2>1, <3>1 DEF Begins
    <3>2. CASE kind = "updated"
      <4>1. builds[build.number] \in Build /\ Dated(builds[build.number])
            /\ builds[build.number].id = build.id
        BY <3>2, RowsOfBuilds DEF Begins, RowsOK
      <4>2. builds[build.number].version < build.version
            /\ builds[build.number].version \in Nat
        BY <1>3, <4>1, BuildFields
      <4>3. QED  BY <2>1, <4>1, <4>2 DEF Dated
    <3>3. QED  BY <3>1, <3>2
  <2>3. QED  BY <1>3, <2>1, <2>2 DEF Dated, Backed
<1>6. kind = "created" <=> build.version = build.id
  <2>1. CASE kind = "created"  BY <2>1 DEF Begins
  <2>2. CASE kind = "updated"
    <3>1. builds[build.number] \in Build /\ Dated(builds[build.number])
          /\ builds[build.number].id = build.id
      BY <2>2, RowsOfBuilds DEF Begins, RowsOK
    <3>2. builds[build.number].version < build.version
          /\ builds[build.number].version \in Nat /\ build.version \in Nat /\ build.id \in Nat
      BY <1>3, <3>1, BuildFields
    <3>3. QED  BY <2>2, <3>1, <3>2 DEF Dated
  <2>3. QED  BY <2>1, <2>2
<1> HIDE DEF last
<1>7. EventsInOrder'
  <2>1. ~open' => events' = <<>>  BY <1>1, <1>2 DEF EventsInOrder
  <2>2. ASSUME NEW i \in DOMAIN events', NEW b, b = events'[i].build
        PROVE  Dated(b)' /\ (events'[i].kind = "created" <=> b.version = b.id)
    <3>1. CASE i \in DOMAIN events
      <4>1. events'[i] = events[i] /\ b \in Build /\ Dated(b)  BY <1>2, <1>4, <2>2, <3>1
      <4>2. QED  BY <1>3, <2>2, <3>1, <4>1 DEF EventsInOrder
    <3>2. CASE i \notin DOMAIN events
      <4>1. b = build /\ events'[i].kind = kind  BY <1>2, <2>2, <3>2
      <4>2. QED  BY <1>5, <1>6, <4>1
    <3>3. QED  BY <3>1, <3>2
  <2>3. \A i, j \in DOMAIN events' :
           i < j => events'[i].build.version < events'[j].build.version
    <3> SUFFICES ASSUME NEW i \in DOMAIN events', NEW j \in DOMAIN events', i < j
                 PROVE  events'[i].build.version < events'[j].build.version
      OBVIOUS
    <3>1. CASE i \in DOMAIN events /\ j \in DOMAIN events
      BY <1>2, <3>1 DEF EventsInOrder
    <3>2. CASE i \in DOMAIN events /\ j = last
      BY <1>2, <1>3, <1>4, <3>2
    <3>3. CASE i = last
      <4>1. \A x \in Nat : ~(x < x)  OBVIOUS
      <4>2. last \in Nat  BY EventTypes DEF last
      <4>3. QED  BY <1>2, <3>3, <4>1, <4>2
    <3>4. QED  BY <1>2, <3>1, <3>2, <3>3
  <2>4. QED  BY <2>1, <2>2, <2>3 DEF EventsInOrder, Dated
<1>8. EventsBacked'
  <2> SUFFICES ASSUME NEW i \in DOMAIN events', NEW b, b = events'[i].build
               PROVE  /\ ~events'[i].void => Backed(b)'
                      /\ IsWritten(b)' => ~events'[i].void
    BY DEF EventsBacked, Backed, Stored, IsWritten
  <2>1. CASE i \in DOMAIN events
    <3>1. events'[i] = events[i] /\ b = events[i].build  BY <1>2, <2>1
    <3>2. events[i].build # build
      <4>1. events[i].build.version < build.version /\ build.version \in Nat
        BY <1>3, <1>4, <2>1, BuildFields
      <4>2. \A x \in Nat : ~(x < x)  OBVIOUS
      <4>3. QED  BY <4>1, <4>2
    <3>3. QED  BY <1>3, <2>1, <3>1, <3>2 DEF EventsBacked
  <2>2. CASE i = last /\ i \notin DOMAIN events
    BY <1>2, <1>5, <2>2
  <2>3. QED  BY <1>2, <2>1, <2>2
\* What was to be told still is.
<1>9. \A b : (Due(b) => Due(b)') /\ (Announced(b) => Announced(b)')
  BY <1>2 DEF Due, Announced, Listened, Announces
<1>10. \A b \in Live : b \in Build /\ Backed(b) /\ Dated(b)  BY LiveProperties
<1>11. open => Due(build)' /\ (kind = "created" => Announced(build)')
  BY <1>2 DEF Due, Announced, Listened, Announces
<1>12. \A b \in Live : b.number \in DOMAIN builds
  BY <1>1, <1>10 DEF Backed, IsWritten, Stored
<1>13. EventsFollow'
  <2> SUFFICES ASSUME NEW i \in DOMAIN events', ~events'[i].void, NEW b \in Live'
               PROVE  /\ b.number = events'[i].build.number =>
                            b.version <= events'[i].build.version \/ Due(b)'
                      /\ events'[i].kind = "created" /\ b.number > events'[i].build.number =>
                            Announced(b)'
    BY DEF EventsFollow, Due, Announced, Live, Listened, Announces
  <2>1. CASE i \in DOMAIN events /\ b \in Live
    BY <1>2, <1>9, <2>1 DEF EventsFollow
  <2>2. CASE i \in DOMAIN events /\ b = build
    <3>1. open /\ events'[i] = events[i]  BY <1>2, <2>2
    <3>2. Due(b)'  BY <1>11, <2>2, <3>1
    <3>3. CASE kind = "created"  BY <1>11, <2>2, <3>1, <3>2, <3>3
    <3>4. CASE kind = "updated"
      <4>1. builds[b.number] \in Live /\ builds[b.number].id = b.id
            /\ builds[b.number].number = b.number
        BY <2>2, <3>4 DEF Begins, Live, RowsOK
      <4>2. events[i].kind = "created" /\ b.number > events[i].build.number =>
               Announced(builds[b.number])
        BY <2>2, <3>1, <4>1 DEF EventsFollow
      <4>3. Announced(builds[b.number]) => Announced(b)
        BY <4>1 DEF Announced, Announces
      <4>4. QED  BY <1>9, <3>1, <3>2, <4>2, <4>3
    <3>5. QED  BY <3>3, <3>4
  <2>3. CASE i \notin DOMAIN events
    <3>1. i = last /\ events'[i].build = build /\ open /\ events'[i].kind = kind
      BY <1>2, <2>3
    <3>2. b.version <= build.version
      <4>1. CASE b = build
        <5>1. build.version \in Nat  BY BuildFields
        <5>2. QED  BY <4>1, <5>1
      <4>2. CASE b \in Live
        <5>1. b.version < build.version /\ b.version \in Nat /\ build.version \in Nat
          BY <1>3, <1>10, <4>2, BuildFields
        <5>2. QED  BY <5>1
      <4>3. QED  BY <1>3, <4>1, <4>2
    <3>3. kind = "created" => ~(b.number > build.number)
      <4>1. CASE b = build
        <5>1. build.number \in Nat  BY BuildFields
        <5>2. QED  BY <4>1, <5>1
      <4>2. CASE b \in Live
        <5>1. b.number \in 1..Len(builds) /\ Len(builds) \in Nat
          BY <1>12, <4>2, RowsOfBuilds
        <5>2. \A l \in Nat : \A n \in 1..l : ~(n > l + 1)  OBVIOUS
        <5>3. QED  BY <5>1, <5>2 DEF Begins
      <4>3. QED  BY <1>3, <4>1, <4>2
    <3>4. QED  BY <3>1, <3>2, <3>3
  <2>4. QED  BY <1>3, <2>1, <2>2, <2>3
<1>14. NewBuildsInOrder'
  <2> SUFFICES ASSUME NEW i \in DOMAIN events', NEW j \in DOMAIN events', i < j,
                      ~events'[i].void, events'[i].kind = "created",
                      ~events'[j].void, events'[j].kind = "created"
               PROVE  events'[i].build.number < events'[j].build.number
    BY DEF NewBuildsInOrder
  <2>1. CASE i \in DOMAIN events /\ j \in DOMAIN events
    BY <1>2, <2>1 DEF NewBuildsInOrder
  <2>2. CASE i \in DOMAIN events /\ j \notin DOMAIN events
    <3>1. events'[i] = events[i] /\ events'[j].build = build /\ kind = "created"
      BY <1>2, <2>2
    <3>2. Backed(events[i].build)  BY <2>2, <3>1 DEF EventsBacked
    <3>3. events[i].build.number \in 1..Len(builds) /\ Len(builds) \in Nat
      BY <1>1, <3>2, RowsOfBuilds DEF Backed, IsWritten, Stored
    <3>4. \A l \in Nat : \A n \in 1..l : n < l + 1  OBVIOUS
    <3>5. QED  BY <3>1, <3>3, <3>4 DEF Begins
  <2>3. CASE i \notin DOMAIN events
    <3>1. i = last /\ last \in Nat  BY <1>2, <2>3, EventTypes DEF last
    <3>2. \A x \in Nat : ~(x < x)  OBVIOUS
    <3>3. QED  BY <1>2, <3>1, <3>2
  <2>4. QED  BY <2>1, <2>2, <2>3
<1>15. QED  BY <1>7, <1>8, <1>13, <1>14

LEMMA EventsCommitted ==
    ASSUME TypeOK, RowsOK, WritingOK, EventsInv, Commit
    PROVE  EventsInv'
<1> USE DEF EventsInv
<1>1. events' = events /\ open' = open /\ writes' = writes  BY DEF Commit
<1>2. /\ Live' \subseteq Live
      /\ \A b : Backed(b) /\ b \in Build => Stored(b)'
      /\ \A b : ~IsWritten(b)'
  BY LiveCommitted
<1>3. EventsInOrder'  BY <1>1 DEF EventsInOrder, Dated
<1>4. EventsBacked'
  <2> SUFFICES ASSUME NEW i \in DOMAIN events, NEW b, b = events[i].build, ~events[i].void
               PROVE  Backed(b)'
    BY <1>1, <1>2 DEF EventsBacked, Backed, Stored, IsWritten
  <2>1. b \in Build /\ Backed(b)  BY EventTypes DEF EventsBacked
  <2>2. Stored(b)'  BY <1>2, <2>1
  <2>3. QED  BY <2>2 DEF Backed
<1>5. EventsFollow'
  <2>1. \A b : (Due(b)' <=> Due(b)) /\ (Announced(b)' <=> Announced(b))
    BY <1>1 DEF Due, Announced, Listened, Announces
  <2> SUFFICES ASSUME NEW i \in DOMAIN events, ~events[i].void, NEW b \in Live'
               PROVE  /\ b.number = events[i].build.number =>
                            b.version <= events[i].build.version \/ Due(b)'
                      /\ events[i].kind = "created" /\ b.number > events[i].build.number =>
                            Announced(b)'
    BY <1>1 DEF EventsFollow, Due, Announced, Live, Listened, Announces
  <2>2. QED  BY <1>2, <2>1 DEF EventsFollow
<1>6. NewBuildsInOrder'  BY <1>1 DEF NewBuildsInOrder
<1>7. QED  BY <1>3, <1>4, <1>5, <1>6

\* A rollback takes back what is told of the transaction, and nothing else.
LEMMA ToldRolledBack ==
    ASSUME TypeOK, RowsOK, WritingOK, EventsInOrder, Rollback, NEW b \in Live'
    PROVE  (Due(b) => Due(b)') /\ (Announced(b) => Announced(b)')
<1>1. /\ DOMAIN events' = DOMAIN events
      /\ \A i \in DOMAIN events :
            /\ events'[i].kind = events[i].kind /\ events'[i].build = events[i].build
            /\ ~events'[i].void <=> ~events[i].void /\ events[i].build # writing.build
  BY RolledBackEvents
<1>2. b # writing.build /\ b.id # writing.build.version  BY LiveRolledBack
<1>3. Due(b) => Due(b)'  BY <1>1, <1>2 DEF Due, Listened
<1>4. ASSUME NEW i \in DOMAIN events, Announces(i, b)  PROVE Announces(i, b)'
  <2>1. events[i].build.version = b.id  BY <1>4 DEF Announces, EventsInOrder
  <2>2. events[i].build # writing.build  BY <1>2, <2>1
  <2>3. QED  BY <1>1, <1>4, <2>2 DEF Announces
<1>5. Announced(b) => Announced(b)'
  BY <1>1, <1>4 DEF Announced, Announces
<1>6. QED  BY <1>3, <1>5

LEMMA EventsRolledBack ==
    ASSUME TypeOK, RowsOK, WritingOK, EventsInv, Rollback
    PROVE  EventsInv'
<1> USE DEF EventsInv
<1>1. open' = open /\ writes' = writes  BY DEF Rollback
<1>2. /\ DOMAIN events' = DOMAIN events
      /\ \A i \in DOMAIN events :
            /\ events'[i].kind = events[i].kind /\ events'[i].build = events[i].build
            /\ ~events'[i].void <=> ~events[i].void /\ events[i].build # writing.build
  BY RolledBackEvents
<1>3. /\ Live' \subseteq Live
      /\ \A b : Backed(b) /\ b # writing.build => Stored(b)'
      /\ \A b : ~IsWritten(b)'
  BY LiveRolledBack
<1>4. EventsInOrder'
  <2>1. ~open' => events' = <<>>
    <3>1. ~open => events = <<>>  BY DEF EventsInOrder
    <3>2. events = <<>> => events' = <<>>
      <4> SUFFICES ASSUME events = <<>>  PROVE events' = <<>>
        OBVIOUS
      <4>1. DOMAIN events = {}  OBVIOUS
      <4>2. events' = [i \in {} |-> [events[i] EXCEPT !.void = @ \/
                                       i \in {e \in DOMAIN events : events[e].build = writing.build}]]
        BY <4>1 DEF Rollback
      <4>3. <<>> = [i \in {} |-> [events[i] EXCEPT !.void = @ \/
                                       i \in {e \in DOMAIN events : events[e].build = writing.build}]]
        OBVIOUS
      <4>4. QED  BY <4>2, <4>3
    <3>3. QED  BY <1>1, <3>1, <3>2
  <2>2. QED  BY <1>1, <1>2, <2>1 DEF EventsInOrder, Dated
<1>5. EventsBacked'
  <2> SUFFICES ASSUME NEW i \in DOMAIN events, NEW b, b = events[i].build, ~events'[i].void
               PROVE  Backed(b)'
    BY <1>2, <1>3 DEF EventsBacked, Backed, Stored, IsWritten
  <2>1. Backed(b) /\ b # writing.build  BY <1>2 DEF EventsBacked
  <2>2. Stored(b)'  BY <1>3, <2>1
  <2>3. QED  BY <2>2 DEF Backed
<1>6. EventsFollow'
  <2> SUFFICES ASSUME NEW i \in DOMAIN events, ~events'[i].void, NEW b \in Live'
               PROVE  /\ b.number = events[i].build.number =>
                            b.version <= events[i].build.version \/ Due(b)'
                      /\ events[i].kind = "created" /\ b.number > events[i].build.number =>
                            Announced(b)'
    BY <1>2 DEF EventsFollow, Due, Announced, Live, Listened, Announces
  <2>1. ~events[i].void /\ b \in Live  BY <1>2, <1>3
  <2>2. QED  BY <2>1, ToldRolledBack DEF EventsFollow
<1>7. NewBuildsInOrder'  BY <1>2 DEF NewBuildsInOrder
<1>8. QED  BY <1>4, <1>5, <1>6, <1>7

\* What was to be told still is, but for the event that was received.
LEMMA ToldReceived ==
    ASSUME TypeOK, Receive, NEW b
    PROVE  /\ Due(b) => Due(b)' \/ Listened(1, b)
           /\ Announced(b) => Announced(b)' \/ Announces(1, b)
           /\ Due(b)' => Due(b)
           /\ Announced(b)' => Announced(b)
<1>1. /\ \A i \in DOMAIN events' : i + 1 \in DOMAIN events /\ events'[i] = events[i + 1]
      /\ \A i \in DOMAIN events : i # 1 => i - 1 \in DOMAIN events' /\ events'[i - 1] = events[i]
  BY ReceivedEvents
<1>2. ASSUME Due(b), ~Listened(1, b)  PROVE Due(b)'
  <2>1. PICK i \in DOMAIN events : Listened(i, b)  BY <1>2 DEF Due
  <2>2. i # 1  BY <1>2, <2>1
  <2>3. QED  BY <1>1, <2>1, <2>2 DEF Due, Listened
<1>3. ASSUME Announced(b), ~Announces(1, b)  PROVE Announced(b)'
  <2>1. PICK i \in DOMAIN events : Announces(i, b)  BY <1>3 DEF Announced
  <2>2. i # 1  BY <1>3, <2>1
  <2>3. QED  BY <1>1, <2>1, <2>2 DEF Announced, Announces
<1>4. Due(b)' => Due(b)  BY <1>1 DEF Due, Listened
<1>5. Announced(b)' => Announced(b)  BY <1>1 DEF Announced, Announces
<1>6. QED  BY <1>2, <1>3, <1>4, <1>5

LEMMA EventsReceived ==
    ASSUME TypeOK, RowsOK, WritingOK, EventsInv, Receive
    PROVE  EventsInv'
<1> USE DEF EventsInv
<1>1. UNCHANGED <<open, writes, writing, builds>>  BY DEF Receive
<1>2. /\ 1 \in DOMAIN events
      /\ \A i \in DOMAIN events' : i + 1 \in DOMAIN events /\ 1 < i + 1
                                   /\ events'[i] = events[i + 1]
      /\ \A i, j \in DOMAIN events' : i < j => i + 1 < j + 1
  BY ReceivedEvents
<1>3. EventsInOrder'
  <2>1. ~open => FALSE  BY DEF EventsInOrder, Receive
  <2>2. QED  BY <1>1, <1>2, <2>1 DEF EventsInOrder, Dated
<1>4. EventsBacked'
  BY <1>1, <1>2 DEF EventsBacked, Backed, Stored, IsWritten
<1>5. EventsFollow'
  <2> SUFFICES ASSUME NEW i \in DOMAIN events', ~events'[i].void, NEW b \in Live
               PROVE  /\ b.number = events'[i].build.number =>
                            b.version <= events'[i].build.version \/ Due(b)'
                      /\ events'[i].kind = "created" /\ b.number > events'[i].build.number =>
                            Announced(b)'
    BY <1>1 DEF EventsFollow, Due, Announced, Live, Listened, Announces
  <2>1. i + 1 \in DOMAIN events /\ events'[i] = events[i + 1] /\ 1 < i + 1
    BY <1>2
  <2>2. /\ b.number = events[i + 1].build.number =>
              b.version <= events[i + 1].build.version \/ Due(b)
        /\ events[i + 1].kind = "created" /\ b.number > events[i + 1].build.number =>
              Announced(b)
    BY <2>1 DEF EventsFollow
  <2>3. /\ Due(b) => Due(b)' \/ Listened(1, b)
        /\ Announced(b) => Announced(b)' \/ Announces(1, b)
    BY ToldReceived
  <2>4. Listened(1, b) => b.version <= events[i + 1].build.version
    <3> SUFFICES ASSUME Listened(1, b)  PROVE b.version <= events[i + 1].build.version
      OBVIOUS
    <3>1. b.version < events[i + 1].build.version
      BY <1>2, <2>1 DEF Listened, EventsInOrder
    <3>2. b \in Build /\ events[i + 1].build \in Build
      BY <2>1, EventTypes, LiveProperties
    <3>3. b.version \in Nat /\ events[i + 1].build.version \in Nat  BY <3>2, BuildFields
    <3>4. QED  BY <3>1, <3>3
  <2>5. ASSUME events[i + 1].kind = "created", b.number > events[i + 1].build.number,
               Announces(1, b)
        PROVE  FALSE
    <3>1. Backed(events[1].build) /\ events[1].build.id = b.id /\ Backed(b)
      BY <1>2, <2>5, LiveProperties DEF Announces, EventsBacked
    <3>2. events[1].build.number = b.number  BY <3>1, Identity
    <3>3. events[1].build.number < events[i + 1].build.number
      BY <1>2, <2>1, <2>5 DEF Announces, NewBuildsInOrder
    <3>4. b \in Build /\ events[i + 1].build \in Build
      BY <2>1, EventTypes, LiveProperties
    <3>5. b.number \in Nat /\ events[i + 1].build.number \in Nat  BY <3>4, BuildFields
    <3>6. \A x, y \in Nat : ~(x > y /\ x < y)  OBVIOUS
    <3>7. QED  BY <2>5, <3>2, <3>3, <3>5, <3>6
  <2>6. QED  BY <2>1, <2>2, <2>3, <2>4, <2>5
<1>6. NewBuildsInOrder'  BY <1>2 DEF NewBuildsInOrder
<1>7. QED  BY <1>3, <1>4, <1>5, <1>6

LEMMA EventsKept ==
    ASSUME EventsInv, UNCHANGED <<builds, writing, writes, events>>, open' \in {open, TRUE}
    PROVE  EventsInv'
<1>1. EventsInOrder'  BY DEF EventsInv, EventsInOrder, Dated
<1>2. EventsBacked'  BY DEF EventsInv, EventsBacked, Backed, Stored, IsWritten
<1>3. EventsFollow'
  BY DEF EventsInv, EventsFollow, Due, Announced, Live, Listened, Announces
<1>4. NewBuildsInOrder'  BY DEF EventsInv, NewBuildsInOrder
<1>5. QED  BY <1>1, <1>2, <1>3, <1>4 DEF EventsInv

LEMMA EventsStep ==
    ASSUME TypeOK, RowsOK, WritingOK, EventsInv, [Next]_vars
    PROVE  EventsInv'
<1>1. ASSUME NEW kind \in {"created", "updated"}, NEW build \in Build,
             NEW by \in Requests \cup {None}, Begins(kind, build, by)
      PROVE  EventsInv'
  BY <1>1, EventsBegun
<1>2. CASE Commit  BY <1>2, EventsCommitted
<1>3. CASE Rollback  BY <1>3, EventsRolledBack
<1>4. CASE Receive  BY <1>4, EventsReceived
<1>5. CASE OpenStream  BY <1>5, EventsKept DEF OpenStream
<1>6. ASSUME NEW r \in Requests, RefuseRestart(r)  PROVE EventsInv'
  BY <1>6, EventsKept DEF RefuseRestart
<1>7. ASSUME NEW r \in Requests, Read(r)  PROVE EventsInv'
  <2>1. UNCHANGED <<builds, writing, writes, events, open>>  BY <1>7 DEF Read
  <2>2. QED  BY <2>1, EventsKept
<1>8. ASSUME NEW key \in Lists, ShowList(key)  PROVE EventsInv'
  BY <1>8, EventsKept DEF ShowList
<1>9. ASSUME NEW r, NEW op, NEW key, NEW from, Asks(r, op, key, from)  PROVE EventsInv'
  BY <1>9, EventsKept DEF Asks, Ask
<1>10. ASSUME NEW r \in Requests, AnswerFetch(r) \/ AnswerMore(r) \/ AnswerRestart(r)
       PROVE  EventsInv'
  <2>1. UNCHANGED <<builds, writing, writes, events, open>>
    BY <1>10 DEF AnswerFetch, AnswerMore, AnswerRestart, Answered
  <2>2. QED  BY <2>1, EventsKept
<1>11. CASE UNCHANGED vars  BY <1>11, EventsKept DEF vars
<1>12. QED
  BY <1>1, <1>2, <1>3, <1>4, <1>5, <1>6, <1>7, <1>8, <1>9, <1>10, <1>11, StepCases

-----------------------------------------------------------------------------
(* Lists that the server or the stream leave alone *)

LEMMA ListTypes ==
    ASSUME NEW list \in Seq(Build)
    PROVE  /\ Len(list) \in Nat /\ DOMAIN list = 1..Len(list)
           /\ \A i \in DOMAIN list : list[i] \in Build /\ i \in Nat
<1>1. Len(list) \in Nat /\ DOMAIN list = 1..Len(list)  BY LenProperties
<1>2. \A i \in 1..Len(list) : list[i] \in Build  BY ElementOfSeq
<1>3. \A l \in Nat : \A i \in 1..l : i \in Nat  OBVIOUS
<1>4. QED  BY <1>1, <1>2, <1>3

LEMMA StoredStep ==
    ASSUME TypeOK, RowsOK, WritingOK, [Next]_vars
    PROVE  /\ \A b \in Build : Stored(b) => Stored(b)'
           /\ \A b \in Build : Dated(b) => Dated(b)'
<1>1. ASSUME NEW kind \in {"created", "updated"}, NEW build \in Build,
             NEW by \in Requests \cup {None}, Begins(kind, build, by)
      PROVE  /\ \A b \in Build : Stored(b) => Stored(b)'
             /\ \A b \in Build : Dated(b) => Dated(b)'
  BY <1>1, LiveBegun DEF Backed
<1>2. ASSUME Commit
      PROVE  /\ \A b \in Build : Stored(b) => Stored(b)'
             /\ \A b \in Build : Dated(b) => Dated(b)'
  <2>1. writes' = writes  BY <1>2 DEF Commit
  <2>2. \A b \in Build : Stored(b) => Stored(b)'  BY <1>2, LiveCommitted DEF Backed
  <2>3. QED  BY <2>1, <2>2 DEF Dated
<1>3. ASSUME UNCHANGED <<builds, writes>>
      PROVE  /\ \A b \in Build : Stored(b) => Stored(b)'
             /\ \A b \in Build : Dated(b) => Dated(b)'
  BY <1>3 DEF Stored, Dated
<1>4. CASE Rollback  BY <1>3, <1>4 DEF Rollback
<1>5. CASE Receive  BY <1>3, <1>5 DEF Receive
<1>6. CASE OpenStream  BY <1>3, <1>6 DEF OpenStream
<1>7. ASSUME NEW r \in Requests, RefuseRestart(r)  PROVE UNCHANGED <<builds, writes>>
  BY <1>7 DEF RefuseRestart
<1>8. ASSUME NEW r \in Requests, Read(r)  PROVE UNCHANGED <<builds, writes>>
  BY <1>8 DEF Read
<1>9. ASSUME NEW key \in Lists, ShowList(key)  PROVE UNCHANGED <<builds, writes>>
  BY <1>9 DEF ShowList
<1>10. ASSUME NEW r, NEW op, NEW key, NEW from, Asks(r, op, key, from)
       PROVE  UNCHANGED <<builds, writes>>
  BY <1>10 DEF Asks, Ask
<1>11. ASSUME NEW r \in Requests, AnswerFetch(r) \/ AnswerMore(r) \/ AnswerRestart(r)
       PROVE  UNCHANGED <<builds, writes>>
  BY <1>11 DEF AnswerFetch, AnswerMore, AnswerRestart, Answered
<1>12. CASE UNCHANGED vars  BY <1>3, <1>12 DEF vars
<1>13. QED
  BY <1>1, <1>2, <1>3, <1>4, <1>5, <1>6, <1>7, <1>8, <1>9, <1>10, <1>11, <1>12, StepCases

\* While nothing new is in force and what was to be told still is, lists are as good
\* as before.
StillTold(b) == b \in Live /\ (Due(b) => Due(b)') /\ (Announced(b) => Announced(b)')

LEMMA ListsKept ==
    ASSUME \A b \in Live' : StillTold(b)
    PROVE  /\ \A list : Fresh(list) => Fresh(list)'
           /\ \A list, key, from : Complete(list, key, from) => Complete(list, key, from)'
<1>1. ASSUME NEW list, Fresh(list)  PROVE Fresh(list)'
  <2> SUFFICES ASSUME NEW i \in DOMAIN list, NEW b \in Live', b.number = list[i].number
               PROVE  b.version <= list[i].version \/ Due(b)'
    BY DEF Fresh
  <2>1. QED  BY <1>1 DEF Fresh, StillTold
<1>2. ASSUME NEW list, NEW key, NEW from, Complete(list, key, from)
      PROVE  Complete(list, key, from)'
  <2> SUFFICES ASSUME NEW b \in Live', key \in Concerns(b), b.number < from
               PROVE  \/ Has(list, b.number)
                      \/ key \in Lists /\ Announced(b)'
                      \/ EndsAbove(list, b.number)
    BY DEF Complete, Has, EndsAbove, Concerns
  <2>1. QED  BY <1>2 DEF Complete, StillTold
<1>3. QED  BY <1>1, <1>2

\* A transaction that begins is told to a browser that listens.
LEMMA ToldBegun ==
    ASSUME TypeOK, EventsInOrder, NEW kind \in {"created", "updated"},
           NEW build \in Build, NEW by, Begins(kind, build, by), open
    PROVE  /\ Due(build)' /\ (kind = "created" => Announced(build)')
           /\ \A b : (Due(b) => Due(b)') /\ (Announced(b) => Announced(b)')
           /\ requests' = requests /\ spoiled' = spoiled
<1> DEFINE last == Len(events) + 1
<1>1. /\ DOMAIN events' = DOMAIN events \cup {last}
      /\ \A i \in DOMAIN events : events'[i] = events[i]
      /\ events'[last].kind = kind /\ events'[last].build = build
      /\ events'[last].void = FALSE
      /\ requests' = requests /\ spoiled' = spoiled
  BY PublishedEvents DEF Begins
<1> HIDE DEF last
<1>2. QED  BY <1>1 DEF Due, Announced, Listened, Announces

\* A new version of a row is missing where the row is missing.
LEMMA BegunOverRow ==
    ASSUME TypeOK, RowsOK, NEW kind \in {"created", "updated"}, NEW build \in Build,
           NEW by, Begins(kind, build, by), kind = "updated",
           NEW list, NEW key, NEW from, Complete(list, key, from),
           key \in Concerns(build), build.number < from
    PROVE  \/ Has(list, build.number)
           \/ key \in Lists /\ Announced(build)
           \/ EndsAbove(list, build.number)
<1> DEFINE row == builds[build.number]
<1>1. row \in Live /\ row.id = build.id /\ row.number = build.number /\ row.branch = build.branch
  BY DEF Begins, Live, RowsOK
<1>2. Concerns(row) = Concerns(build)  BY <1>1 DEF Concerns
<1>3. Announced(row) => Announced(build)  BY <1>1 DEF Announced, Announces
<1> HIDE DEF row
<1>4. QED  BY <1>1, <1>2, <1>3 DEF Complete

LEMMA ListsBegun ==
    ASSUME TypeOK, RowsOK, EventsInOrder, NEW kind \in {"created", "updated"},
           NEW build \in Build, NEW by \in Requests \cup {None},
           Begins(kind, build, by), open,
           NEW list \in Seq(Build), NEW key \in Keys, NEW from
    PROVE  /\ Fresh(list) => Fresh(list)'
           /\ Complete(list, key, from) /\ (key \in Lists \/ key # build.id) =>
                 Complete(list, key, from)'
           /\ Complete(list, key, from) /\ kind = "updated" => Complete(list, key, from)'
<1>1. Live' = Live \cup {build}  BY LiveBegun
<1>2. /\ Due(build)' /\ (kind = "created" => Announced(build)')
      /\ \A b : (Due(b) => Due(b)') /\ (Announced(b) => Announced(b)')
  BY ToldBegun
<1>3. ASSUME Fresh(list)  PROVE Fresh(list)'
  <2> SUFFICES ASSUME NEW i \in DOMAIN list, NEW b \in Live', b.number = list[i].number
               PROVE  b.version <= list[i].version \/ Due(b)'
    BY DEF Fresh
  <2>1. QED  BY <1>1, <1>2, <1>3 DEF Fresh
<1>4. ASSUME Complete(list, key, from), key \in Lists \/ key # build.id \/ kind = "updated"
      PROVE  Complete(list, key, from)'
  <2> SUFFICES ASSUME NEW b \in Live', key \in Concerns(b), b.number < from
               PROVE  \/ Has(list, b.number)
                      \/ key \in Lists /\ Announced(b)'
                      \/ EndsAbove(list, b.number)
    BY DEF Complete, Has, EndsAbove, Concerns
  <2>1. CASE b \in Live  BY <1>2, <1>4, <2>1 DEF Complete
  <2>2. CASE b = build /\ kind = "updated"
    BY <1>2, <1>4, <2>2, BegunOverRow
  <2>3. CASE b = build /\ kind = "created"
    <3>1. key \in Lists
      <4>1. key \in Lists \/ (key # build.id /\ key \in {All, build.branch, build.id})
        BY <1>4, <2>3 DEF Concerns
      <4>2. QED  BY <4>1, BuildFields DEF Lists
    <3>2. QED  BY <1>2, <2>3, <3>1
  <2>4. QED  BY <1>1, <2>1, <2>2, <2>3
<1>5. QED  BY <1>3, <1>4

\* An object is known by its id.
LEMMA OpenedId ==
    ASSUME NEW key \in Opened, NEW b \in Build, key \in Concerns(b)
    PROVE  b.id = key
BY KeysApart, BuildFields DEF Concerns, Lists

\* A version of a build that is no new build, and one that is.
LEMMA BegunVersion ==
    ASSUME TypeOK, RowsOK, NEW kind \in {"created", "updated"}, NEW build \in Build,
           NEW by \in Requests \cup {None}, Begins(kind, build, by)
    PROVE  /\ kind = "created" <=> build.version = build.id
           /\ kind = "created" => \A b \in Build : Dated(b) => b.id # build.id
           /\ kind = "created" => build.number \notin DOMAIN builds
<1>1. writes \in Nat /\ build.version = writes + 1  BY WritesType DEF Begins
<1>2. CASE kind = "created"
  <2>1. build.id = writes + 1 /\ build.number = Len(builds) + 1  BY <1>2 DEF Begins
  <2>2. ASSUME NEW b \in Build, Dated(b)  PROVE b.id # writes + 1
    <3>1. b.id \in Nat /\ b.version \in Nat /\ b.id <= b.version /\ b.version <= writes
      BY <2>2, BuildFields DEF Dated
    <3>2. \A i, v, w \in Nat : i <= v /\ v <= w => i # w + 1  OBVIOUS
    <3>3. QED  BY <1>1, <3>1, <3>2
  <2>3. build.number \notin DOMAIN builds
    <3>1. \A l \in Nat : l + 1 \notin 1..l  OBVIOUS
    <3>2. QED  BY <2>1, <3>1, RowsOfBuilds
  <2>4. QED  BY <1>1, <1>2, <2>1, <2>2, <2>3
<1>3. CASE kind = "updated"
  <2>1. builds[build.number] \in Build /\ Dated(builds[build.number])
        /\ builds[build.number].id = build.id
    BY <1>3, RowsOfBuilds DEF Begins, RowsOK
  <2>2. build.id \in Nat /\ builds[build.number].version \in Nat
        /\ build.id <= builds[build.number].version /\ builds[build.number].version <= writes
    BY <2>1, BuildFields DEF Dated
  <2>3. \A i, v, w \in Nat : i <= v /\ v <= w => i # w + 1  OBVIOUS
  <2>4. build.version # build.id  BY <1>1, <2>2, <2>3
  <2>5. QED  BY <1>3, <2>4
<1>4. QED  BY <1>2, <1>3

-----------------------------------------------------------------------------
(* Requests *)

LEMMA RequestsNext ==
    ASSUME \A r \in Requests : \A new : new = requests'[r] /\ new # None => RequestOK(new)'
    PROVE  RequestsOK'
BY DEF RequestsOK, RequestOK, Answerable, Stored, Dated, Fresh, Complete, Live, Due, Announced,
       Listened, Announces, Has, EndsAbove, InOrder, Concerns

\* A request that at most is late now.
LEMMA RequestStays ==
    ASSUME TypeOK, RowsOK, WritingOK, [Next]_vars,
           NEW old \in Request, RequestOK(old), NEW new,
           new.op = old.op, new.key = old.key, new.from = old.from,
           new.stage = old.stage, new.data = old.data,
           ~new.late => ~old.late,
           /\ Fresh(old.data) /\ Complete(old.data, old.key, old.from)
           /\ old.stage = "read" /\ old.op # "restart" /\ ~new.late
           => Fresh(old.data)' /\ Complete(old.data, old.key, old.from)'
    PROVE  RequestOK(new)'
<1>1. CASE old.stage = "read"
  <2>1. Answerable(old)  BY <1>1 DEF RequestOK
  <2>2. old.data \in Seq(Build)  BY DEF Request
  <2>3. \A i \in DOMAIN old.data : old.data[i] \in Build  BY <2>2, ListTypes
  <2>4. \A i \in DOMAIN old.data : Stored(old.data[i])' /\ Dated(old.data[i])'
    BY <2>1, <2>3, StoredStep DEF Answerable
  <2>5. new.op # "restart" /\ ~new.late =>
           Fresh(old.data)' /\ Complete(old.data, old.key, old.from)'
    BY <1>1, <2>1 DEF Answerable
  <2>6. Answerable(new)'
    BY <2>1, <2>4, <2>5 DEF Answerable
  <2>7. QED  BY <2>6 DEF RequestOK
<1>2. CASE old.stage # "read"
  BY <1>2 DEF RequestOK
<1>3. QED  BY <1>1, <1>2

\* A request that a step leaves as it is, and what it read with it.
LEMMA RequestKept ==
    ASSUME TypeOK, RowsOK, WritingOK, RequestsOK, [Next]_vars,
           \A b \in Live' : StillTold(b),
           NEW r \in Requests, requests'[r] \in {None, requests[r]},
           NEW new, new = requests'[r], new # None
    PROVE  RequestOK(new)'
<1>1. new = requests[r] /\ requests[r] # None  OBVIOUS
<1>2. new \in Request /\ RequestOK(new)
  BY <1>1, RequestType DEF RequestsOK
<1>3. /\ Fresh(new.data) => Fresh(new.data)'
      /\ Complete(new.data, new.key, new.from) => Complete(new.data, new.key, new.from)'
  BY ListsKept
<1>4. QED  BY <1>2, <1>3, RequestStays

\* What was read for a request, and is not late.
AnswerOK(list, key, from) ==
    /\ \A i \in DOMAIN list :
          /\ Stored(list[i]) /\ Dated(list[i])
          /\ key \in Concerns(list[i])
          /\ list[i].number < from
    /\ Fresh(list) /\ Complete(list, key, from)

\* Nobody listens, and a transaction begins that the answer needs not know.
LEMMA BegunUnheard ==
    ASSUME TypeOK, RowsOK, EventsInOrder, NEW kind \in {"created", "updated"},
           NEW build \in Build, NEW by \in Requests \cup {None}, Begins(kind, build, by),
           ~open, NEW list \in Seq(Build), NEW key, NEW from, AnswerOK(list, key, from),
           ~(key \in Concerns(build) /\ build.number < from /\ Outdates(build, list))
    PROVE  Fresh(list)' /\ Complete(list, key, from)'
<1>1. Live' = Live \cup {build}  BY LiveBegun
<1>2. \A b : (Due(b) => Due(b)') /\ (Announced(b) => Announced(b)')
  <2>1. events' = events  BY PublishedEvents DEF Begins
  <2>2. QED  BY <2>1 DEF Due, Announced, Listened, Announces
<1>3. \A i \in DOMAIN list : list[i] \in Build /\ Dated(list[i]) /\ Stored(list[i])
                             /\ list[i].version < build.version
  BY ListTypes, LiveBegun DEF AnswerOK
<1>4. kind = "created" => build.version = build.id /\ build.number \notin DOMAIN builds
                          /\ \A i \in DOMAIN list : list[i].id # build.id
  BY <1>3, BegunVersion
<1>5. kind = "updated" => build.version # build.id
  BY BegunVersion
<1>6. Fresh(list)'
  <2> SUFFICES ASSUME NEW i \in DOMAIN list, NEW b \in Live', b.number = list[i].number
               PROVE  b.version <= list[i].version \/ Due(b)'
    BY DEF Fresh
  <2>1. CASE b \in Live  BY <1>2, <2>1 DEF AnswerOK, Fresh
  <2>2. CASE b = build
    <3>1. build.number \in DOMAIN builds /\ build.number < from /\ kind = "updated"
      BY <1>3, <1>4, <2>2 DEF AnswerOK, Stored
    <3>2. build.id = list[i].id /\ build.branch = list[i].branch
      BY <1>3, <2>2, <3>1 DEF Begins, Stored
    <3>3. key \in Concerns(build)  BY <3>2 DEF AnswerOK, Concerns
    <3>4. Outdates(build, list)  BY <1>3, <1>5, <3>1, <3>2 DEF Outdates
    <3>5. QED  BY <3>1, <3>3, <3>4
  <2>3. QED  BY <1>1, <2>1, <2>2
<1>7. Complete(list, key, from)'
  <2> SUFFICES ASSUME NEW b \in Live', key \in Concerns(b), b.number < from
               PROVE  \/ Has(list, b.number)
                      \/ key \in Lists /\ Announced(b)'
                      \/ EndsAbove(list, b.number)
    BY DEF Complete, Has, EndsAbove, Concerns
  <2>1. CASE b \in Live  BY <1>2, <2>1 DEF AnswerOK, Complete
  <2>2. CASE b = build /\ kind = "updated"
    BY <1>2, <2>2, BegunOverRow DEF AnswerOK
  <2>3. CASE b = build /\ kind = "created"
    BY <1>4, <2>3 DEF Outdates
  <2>4. QED  BY <1>1, <2>1, <2>2, <2>3
<1>8. QED  BY <1>6, <1>7

LEMMA RequestsBegun ==
    ASSUME TypeOK, RowsOK, WritingOK, EventsInOrder, RequestsOK, [Next]_vars,
           NEW kind \in {"created", "updated"}, NEW build \in Build,
           NEW by \in Requests \cup {None}, Begins(kind, build, by)
    PROVE  RequestsOK'
<1> SUFFICES ASSUME NEW r \in Requests, NEW new, new = requests'[r], new # None
             PROVE  RequestOK(new)'
  BY RequestsNext
<1>1. CASE open
  <2>1. new = requests[r] /\ requests[r] # None  BY <1>1, ToldBegun
  <2>2. new \in Request /\ RequestOK(new) /\ new.key \in Keys /\ new.data \in Seq(Build)
    BY <2>1, RequestType DEF RequestsOK
  <2>3. ASSUME new.stage = "read", Fresh(new.data), Complete(new.data, new.key, new.from)
        PROVE  Fresh(new.data)' /\ Complete(new.data, new.key, new.from)'
    <3>1. Answerable(new)  BY <2>2, <2>3 DEF RequestOK
    <3>2. new.key \in Lists \/ new.key # build.id \/ kind = "updated"
      <4> SUFFICES ASSUME new.key \in Opened, kind = "created"  PROVE new.key # build.id
        BY <2>2, KeysApart
      <4>1. Len(new.data) = 1  BY <3>1 DEF Answerable
      <4>2. 1 \in DOMAIN new.data /\ new.data[1] \in Build
        <5>1. 1 \in 1..1  OBVIOUS
        <5>2. QED  BY <2>2, <4>1, <5>1, ListTypes
      <4>3. new.key \in Concerns(new.data[1]) /\ Dated(new.data[1])
        BY <3>1, <4>2 DEF Answerable
      <4>4. new.data[1].id = new.key  BY <4>2, <4>3, OpenedId
      <4>5. QED  BY <4>2, <4>3, <4>4, BegunVersion
    <3>3. QED  BY <1>1, <2>2, <2>3, <3>2, ListsBegun
  <2>4. QED  BY <2>2, <2>3, RequestStays
<1>2. CASE ~open
  <2> SUFFICES ASSUME NEW old, old = requests[r]  PROVE RequestOK(new)'
    OBVIOUS
  <2>1. new = Missed(build)[r]
    BY <1>2 DEF Begins, Publish
  <2>2. /\ old # None
        /\ new.op = old.op /\ new.key = old.key /\ new.from = old.from
        /\ new.stage = old.stage /\ new.data = old.data
        /\ ~new.late => ~old.late /\ ~Overtakes(build, old)
    BY <2>1, MissedFields
  <2>3. old \in Request /\ RequestOK(old) /\ old.data \in Seq(Build)
    BY <2>2, RequestType DEF RequestsOK
  <2>4. ASSUME old.stage = "read", old.op # "restart", ~new.late,
               Fresh(old.data), Complete(old.data, old.key, old.from)
        PROVE  Fresh(old.data)' /\ Complete(old.data, old.key, old.from)'
    <3>1. AnswerOK(old.data, old.key, old.from)
      BY <2>3, <2>4 DEF RequestOK, Answerable, AnswerOK
    <3>2. ~(old.key \in Concerns(build) /\ build.number < old.from
            /\ Outdates(build, old.data))
      BY <2>2, <2>4 DEF Overtakes
    <3>3. QED  BY <1>2, <2>3, <3>1, <3>2, BegunUnheard
  <2>5. QED  BY <2>2, <2>3, <2>4, RequestStays
<1>3. QED  BY <1>1, <1>2

LEMMA ToldCommitted ==
    ASSUME TypeOK, RowsOK, WritingOK, Commit
    PROVE  \A b \in Live' : StillTold(b)
<1>1. Live' \subseteq Live /\ events' = events  BY LiveCommitted DEF Commit
<1>2. QED  BY <1>1 DEF StillTold, Due, Announced, Listened, Announces

LEMMA ToldAsBefore ==
    ASSUME UNCHANGED <<builds, writing, events>>
    PROVE  \A b \in Live' : StillTold(b)
BY DEF StillTold, Live, Due, Announced, Listened, Announces

LEMMA RequestsCommitted ==
    ASSUME TypeOK, RowsOK, WritingOK, RestartsOK, RequestsOK, [Next]_vars, Commit
    PROVE  RequestsOK'
<1> SUFFICES ASSUME NEW r \in Requests, NEW new, new = requests'[r], new # None
             PROVE  RequestOK(new)'
  BY RequestsNext
<1>1. CASE r = writing.by /\ requests[r] # None
  <2> SUFFICES ASSUME NEW old, old = requests[r], NEW build, build = writing.build
               PROVE  RequestOK(new)'
    OBVIOUS
  <2>1. old \in Request /\ RequestOK(old)  BY <1>1, RequestType DEF RequestsOK
  <2>2. new = [old EXCEPT !.stage = "read", !.data = <<build>>]  BY <1>1 DEF Commit
  <2>3. /\ new.op = old.op /\ new.key = old.key /\ new.from = old.from
        /\ new.data = <<build>>
    BY <2>1, <2>2 DEF Request
  <2>4. writing # None /\ build \in Build  BY WritingType DEF Commit
  <2>5. r # None  BY NoneAssumption
  <2>6. old.op = "restart" /\ old.key = build.id
    BY <1>1, <2>4, <2>5 DEF RestartsOK
  <2>7. old.key \in Opened /\ old.key \in Concerns(build)
    BY <2>1, <2>6, KeysApart DEF RequestOK, Concerns
  <2>8. Stored(build)'  BY <2>4, LiveCommitted DEF Backed, IsWritten
  <2>9. Dated(build)'
    <3>1. Dated(build) /\ writes' = writes  BY <2>4, WritingProperties DEF Commit
    <3>2. QED  BY <3>1 DEF Dated
  <2>10. Len(<<build>>) = 1 /\ DOMAIN <<build>> = {1} /\ <<build>>[1] = build  OBVIOUS
  <2>11. InOrder(<<build>>)
    <3>1. ~(1 < 1)  OBVIOUS
    <3>2. QED  BY <2>10, <3>1 DEF InOrder
  <2>12. Answerable(new)'
    BY <2>3, <2>6, <2>7, <2>8, <2>9, <2>10, <2>11 DEF Answerable, InOrder
  <2>13. QED  BY <2>3, <2>6, <2>7, <2>12 DEF RequestOK
<1>2. CASE ~(r = writing.by /\ requests[r] # None)
  <2>1. requests'[r] = requests[r]  BY <1>2 DEF Commit
  <2>2. QED  BY <2>1, RequestKept, ToldCommitted
<1>3. QED  BY <1>1, <1>2

\* The row of an object is one.
LEMMA ReadOpened ==
    ASSUME TypeOK, RowsOK, NEW key \in Opened, NEW from \in Nat, Page(key, from) # <<>>
    PROVE  Len(Page(key, from)) = 1
<1> SUFFICES ASSUME NEW page, page = Page(key, from)  PROVE Len(page) = 1
  OBVIOUS
<1>1. /\ page \in Seq(Build) /\ InOrder(page)
      /\ \A i \in DOMAIN page : /\ page[i].number \in DOMAIN builds
                                /\ page[i] = builds[page[i].number]
                                /\ key \in Concerns(page[i])
  BY PageProperties
<1>2. Len(page) \in Nat \ {0} /\ DOMAIN page = 1..Len(page)
      /\ \A i \in DOMAIN page : page[i] \in Build
  BY <1>1, EmptySeq, ListTypes
<1>3. Len(page) # 1 => 1 \in DOMAIN page /\ 2 \in DOMAIN page
  <2>1. \A l \in Nat \ {0} : l # 1 => 1 \in 1..l /\ 2 \in 1..l  OBVIOUS
  <2>2. QED  BY <1>2, <2>1
<1>4. ASSUME 1 \in DOMAIN page, 2 \in DOMAIN page  PROVE FALSE
  <2>1. page[1].id = key /\ page[2].id = key  BY <1>1, <1>2, <1>4, OpenedId
  <2>2. page[1].number = page[2].number  BY <1>1, <1>4, <2>1 DEF RowsOK
  <2>3. page[1].number > page[2].number
    <3>1. 1 < 2  OBVIOUS
    <3>2. QED  BY <1>1, <1>4, <3>1 DEF InOrder
  <2>4. page[1].number \in Nat  BY <1>2, <1>4, BuildFields
  <2>5. \A n \in Nat : ~(n > n)  OBVIOUS
  <2>6. QED  BY <2>2, <2>3, <2>4, <2>5
<1>5. QED  BY <1>3, <1>4

\* A row comes with what is told of it, unless its transaction is open and was told to
\* nobody.
LEMMA ReadFresh ==
    ASSUME TypeOK, RowsOK, WritingOK, EventsInv, NEW key, NEW from \in Nat,
           NEW page, page = Page(key, from), key \in Opened => Len(page) = 1,
           ~(/\ writing # None
             /\ key \in Concerns(writing.build)
             /\ writing.build.number < from
             /\ Outdates(writing.build, page)
             /\ \A i \in DOMAIN events : events[i].build # writing.build)
    PROVE  Fresh(page) /\ Complete(page, key, from)
<1>1. /\ page \in Seq(Build)
      /\ \A i \in DOMAIN page : /\ page[i].number \in DOMAIN builds
                                /\ page[i] = builds[page[i].number]
                                /\ page[i].number < from /\ key \in Concerns(page[i])
      /\ \A n \in DOMAIN builds : n < from /\ key \in Concerns(builds[n]) =>
            Has(page, n) \/ EndsAbove(page, n)
  BY PageProperties
<1>2. \A i \in DOMAIN page : page[i] \in Build  BY <1>1, ListTypes
<1>3. \A i \in DOMAIN page : page[i] \in Live /\ Stored(page[i]) /\ Dated(page[i])
  BY <1>1 DEF Live, Stored, RowsOK
<1>4. ASSUME writing # None, NEW b, b = writing.build, key \in Concerns(b), b.number < from,
             Outdates(b, page)
      PROVE  Due(b) /\ (b.version = b.id => Announced(b))
  <2>1. PICK i \in DOMAIN events : events[i].build = b  BY <1>4
  <2>2. ~events[i].void  BY <1>4, <2>1 DEF EventsInv, EventsBacked, IsWritten
  <2>3. b.version = b.id => events[i].kind = "created"  BY <2>1 DEF EventsInv, EventsInOrder
  <2>4. QED  BY <2>1, <2>2, <2>3 DEF Due, Announced, Listened, Announces
<1>5. \A b \in Live : \/ writing # None /\ b = writing.build
                      \/ b.number \in DOMAIN builds /\ b = builds[b.number]
  BY DEF Live, RowsOK
<1>6. Fresh(page)
  <2> SUFFICES ASSUME NEW i \in DOMAIN page, NEW b \in Live, b.number = page[i].number
               PROVE  b.version <= page[i].version \/ Due(b)
    BY DEF Fresh
  <2>1. CASE b.number \in DOMAIN builds /\ b = builds[b.number]
    <3>1. b = page[i]  BY <1>1, <2>1
    <3>2. page[i].version \in Nat  BY <1>2, BuildFields
    <3>3. QED  BY <3>1, <3>2
  <2>2. CASE writing # None /\ b = writing.build
    <3>1. Backed(b) /\ Backed(page[i])  BY <1>3, LiveProperties DEF Backed
    <3>2. b.id = page[i].id /\ key \in Concerns(b) /\ b.number < from
      BY <1>1, <3>1, Identity
    <3>3. page[i].version < b.version  BY <1>1, <2>2, WritingProperties
    <3>4. b.version # b.id
      <4>1. b.version \in Nat /\ page[i].version \in Nat /\ page[i].id \in Nat
            /\ page[i].id <= page[i].version
        BY <1>2, <1>3, LiveProperties, BuildFields DEF Dated
      <4>2. \A x, v, w \in Nat : x <= v /\ v < w => w # x  OBVIOUS
      <4>3. QED  BY <3>2, <3>3, <4>1, <4>2
    <3>5. Outdates(b, page)  BY <3>2, <3>3, <3>4 DEF Outdates
    <3>6. QED  BY <1>4, <2>2, <3>2, <3>5
  <2>3. QED  BY <1>5, <2>1, <2>2
<1>7. Complete(page, key, from)
  <2> SUFFICES ASSUME NEW b \in Live, key \in Concerns(b), b.number < from
               PROVE  \/ Has(page, b.number)
                      \/ key \in Lists /\ Announced(b)
                      \/ EndsAbove(page, b.number)
    BY DEF Complete
  <2>1. CASE b.number \in DOMAIN builds
    <3>1. Backed(b) /\ Stored(builds[b.number]) /\ builds[b.number].number = b.number
      BY <2>1, LiveProperties DEF Stored, RowsOK
    <3>2. key \in Concerns(builds[b.number])  BY <3>1, Identity DEF Backed
    <3>3. QED  BY <1>1, <2>1, <3>2
  <2>2. CASE writing # None /\ b = writing.build /\ b.number \notin DOMAIN builds
    <3>1. b.version = b.id  BY <2>2 DEF WritingOK
    <3>2. Backed(b)  BY LiveProperties
    <3>3. CASE Outdates(b, page)
      <4>1. Announced(b)  BY <1>4, <2>2, <3>1, <3>3
      <4>2. key \in Lists
        <5>1. key \in Lists \/ key \in Opened  BY KeysApart DEF Concerns
        <5>2. ASSUME key \in Opened  PROVE FALSE
          <6>1. Len(page) = 1  BY <5>2
          <6>2. 1 \in DOMAIN page
            <7>1. 1 \in 1..1  OBVIOUS
            <7>2. QED  BY <1>1, <6>1, <7>1, ListTypes
          <6>3. page[1].id = key /\ b.id = key
            BY <1>1, <1>2, <5>2, <6>2, OpenedId, LiveProperties
          <6>4. QED  BY <3>1, <3>3, <6>2, <6>3 DEF Outdates
        <5>3. QED  BY <5>1, <5>2
      <4>3. QED  BY <4>1, <4>2
    <3>4. CASE ~Outdates(b, page)
      <4>1. PICK i \in DOMAIN page : page[i].id = b.id  BY <3>1, <3>4 DEF Outdates
      <4>2. page[i].number = b.number  BY <1>3, <3>2, <4>1, Identity DEF Backed
      <4>3. QED  BY <4>2 DEF Has
    <3>5. QED  BY <3>3, <3>4
  <2>3. QED  BY <1>5, <2>1, <2>2
<1>8. QED  BY <1>6, <1>7

LEMMA RequestsRead ==
    ASSUME TypeOK, RowsOK, WritingOK, EventsInv, RequestsOK, [Next]_vars,
           NEW reader \in Requests, Read(reader)
    PROVE  RequestsOK'
<1> SUFFICES ASSUME NEW r \in Requests, NEW new, new = requests'[r], new # None
             PROVE  RequestOK(new)'
  BY RequestsNext
<1>1. requests[reader] # None /\ requests[reader].op # "restart"
      /\ UNCHANGED <<builds, writing, writes, events>>
  BY DEF Read
<1>2. CASE r # reader
  <2>1. requests'[r] = requests[r]  BY <1>2 DEF Read, TypeOK
  <2>2. QED  BY <1>1, <2>1, RequestKept, ToldAsBefore
<1>3. CASE r = reader
  <2> SUFFICES ASSUME NEW old, old = requests[r],
                      NEW page, page = Page(old.key, old.from)
               PROVE  RequestOK(new)'
    OBVIOUS
  <2>1. old \in Request /\ RequestOK(old) /\ old.op # "restart" /\ old.from \in Nat
    BY <1>1, <1>3, RequestType DEF RequestsOK
  <2> DEFINE uncommitted == /\ writing # None
                            /\ old.key \in Concerns(writing.build)
                            /\ writing.build.number < old.from
                            /\ Outdates(writing.build, page)
                            /\ \A i \in DOMAIN events : events[i].build # writing.build
  <2>2. requests' = [requests EXCEPT ![r] =
                        IF old.key \in Opened /\ page = <<>> THEN None
                        ELSE [old EXCEPT !.stage = "read", !.data = page,
                                         !.late = uncommitted]]
    BY <1>3 DEF Read
  <2> HIDE DEF uncommitted
  <2>3. requests \in [Requests -> Request \cup {None}]  BY DEF TypeOK
  <2>4. ~(old.key \in Opened /\ page = <<>>)
        /\ new = [old EXCEPT !.stage = "read", !.data = page, !.late = uncommitted]
    BY <2>2, <2>3
  <2>5. /\ new.op = old.op /\ new.key = old.key /\ new.from = old.from
        /\ new.data = page /\ new.late = uncommitted
    BY <2>1, <2>4 DEF Request
  <2>6. /\ page \in Seq(Build) /\ InOrder(page)
        /\ \A i \in DOMAIN page : /\ page[i].number \in DOMAIN builds
                                  /\ page[i] = builds[page[i].number]
                                  /\ page[i].number < old.from /\ old.key \in Concerns(page[i])
    BY <2>1, PageProperties
  <2>7. old.key \in Opened => Len(page) = 1  BY <2>1, <2>4, ReadOpened
  <2>8. ~uncommitted => Fresh(page) /\ Complete(page, old.key, old.from)
    BY <2>1, <2>7, ReadFresh DEF uncommitted
  <2>9. \A i \in DOMAIN page : Stored(page[i])' /\ Dated(page[i])'
    BY <1>1, <2>6 DEF Stored, Dated, RowsOK
  <2>10. /\ Fresh(page) => Fresh(page)'
         /\ Complete(page, old.key, old.from) => Complete(page, old.key, old.from)'
    BY <1>1, ToldAsBefore, ListsKept
  <2>11. Answerable(new)'
    BY <2>5, <2>6, <2>7, <2>8, <2>9, <2>10 DEF Answerable
  <2>12. QED  BY <2>1, <2>5, <2>11 DEF RequestOK
<1>4. QED  BY <1>2, <1>3

\* An event arrives that the answer needs not know.
LEMMA ReceivedOver ==
    ASSUME TypeOK, RowsOK, WritingOK, EventsInv, Receive,
           NEW list \in Seq(Build), NEW key, NEW from, AnswerOK(list, key, from),
           NEW b1, b1 = events[1].build,
           ~(key \in Concerns(b1) /\ b1.number < from /\ Outdates(b1, list))
    PROVE  Fresh(list)' /\ Complete(list, key, from)'
<1>1. Live' = Live  BY DEF Receive, Live
<1>2. 1 \in DOMAIN events  BY ReceivedEvents
<1>3. \A i \in DOMAIN list : list[i] \in Build /\ Backed(list[i]) /\ Dated(list[i])
  BY ListTypes DEF AnswerOK, Backed
<1>4. Fresh(list)'
  <2> SUFFICES ASSUME NEW i \in DOMAIN list, NEW b \in Live, b.number = list[i].number,
                      ~Due(b)'
               PROVE  b.version <= list[i].version
    BY <1>1 DEF Fresh
  <2>1. b.version <= list[i].version \/ Listened(1, b)
    BY ToldReceived DEF AnswerOK, Fresh
  <2>2. ASSUME Listened(1, b)  PROVE b.version <= list[i].version
    <3>1. b = b1 /\ Backed(b) /\ b \in Build  BY <2>2, LiveProperties DEF Listened
    <3>2. b.id = list[i].id /\ key \in Concerns(b) /\ b.number < from
      BY <1>3, <3>1, Identity DEF AnswerOK
    <3>3. ~Outdates(b, list)  BY <3>1, <3>2
    <3>4. b.version \in Nat /\ list[i].version \in Nat  BY <1>3, <3>1, BuildFields
    <3>5. CASE b.version = b.id
      BY <1>3, <3>2, <3>5 DEF Dated
    <3>6. CASE b.version # b.id
      <4>1. ~(list[i].version < b.version)  BY <3>2, <3>3, <3>6 DEF Outdates
      <4>2. QED  BY <3>4, <4>1
    <3>7. QED  BY <3>5, <3>6
  <2>3. QED  BY <2>1, <2>2
<1>5. Complete(list, key, from)'
  <2> SUFFICES ASSUME NEW b \in Live, key \in Concerns(b), b.number < from
               PROVE  \/ Has(list, b.number)
                      \/ key \in Lists /\ Announced(b)'
                      \/ EndsAbove(list, b.number)
    BY <1>1 DEF Complete, Has, EndsAbove, Concerns
  <2>1. \/ Has(list, b.number)
        \/ key \in Lists /\ Announced(b)'
        \/ EndsAbove(list, b.number)
        \/ Announces(1, b)
    BY ToldReceived DEF AnswerOK, Complete
  <2>2. ASSUME Announces(1, b)  PROVE Has(list, b.number)
    <3>1. Backed(b1) /\ b1.id = b.id /\ b1.version = b1.id /\ Backed(b)
      BY <1>2, <2>2, LiveProperties DEF Announces, EventsInv, EventsBacked, EventsInOrder
    <3>2. b1.number = b.number /\ Concerns(b1) = Concerns(b)  BY <3>1, Identity
    <3>3. PICK i \in DOMAIN list : list[i].id = b1.id
      BY <3>1, <3>2 DEF Outdates
    <3>4. list[i].number = b.number  BY <1>3, <3>1, <3>2, <3>3, Identity
    <3>5. QED  BY <3>4 DEF Has
  <2>3. QED  BY <2>1, <2>2
<1>6. QED  BY <1>4, <1>5

LEMMA RequestsReceived ==
    ASSUME TypeOK, RowsOK, WritingOK, EventsInv, RequestsOK, [Next]_vars, Receive
    PROVE  RequestsOK'
<1> SUFFICES ASSUME NEW r \in Requests, NEW new, new = requests'[r], new # None,
                    NEW old, old = requests[r], NEW b1, b1 = events[1].build
             PROVE  RequestOK(new)'
  BY RequestsNext
<1>1. new = Missed(b1)[r]
  BY ReceivedEvents DEF Receive
<1>2. /\ old # None
      /\ new.op = old.op /\ new.key = old.key /\ new.from = old.from
      /\ new.stage = old.stage /\ new.data = old.data
      /\ ~new.late => ~old.late /\ ~Overtakes(b1, old)
  BY <1>1, MissedFields
<1>3. old \in Request /\ RequestOK(old) /\ old.data \in Seq(Build)
  BY <1>2, RequestType DEF RequestsOK
<1>4. ASSUME old.stage = "read", old.op # "restart", ~new.late,
             Fresh(old.data), Complete(old.data, old.key, old.from)
      PROVE  Fresh(old.data)' /\ Complete(old.data, old.key, old.from)'
  <2>1. AnswerOK(old.data, old.key, old.from)
    BY <1>3, <1>4 DEF RequestOK, Answerable, AnswerOK
  <2>2. ~(old.key \in Concerns(b1) /\ b1.number < old.from /\ Outdates(b1, old.data))
    BY <1>2, <1>4 DEF Overtakes
  <2>3. QED  BY <1>3, <2>1, <2>2, ReceivedOver
<1>5. QED  BY <1>2, <1>3, <1>4, RequestStays

LEMMA RequestsStep ==
    ASSUME TypeOK, RowsOK, WritingOK, RestartsOK, EventsInv, RequestsOK, [Next]_vars
    PROVE  RequestsOK'
\* Requests are as they were, or are answered; and so is what will be told.
<1>1. ASSUME UNCHANGED <<builds, writing, events>>,
             \A r \in Requests : requests'[r] \in {None, requests[r]}
      PROVE  RequestsOK'
  BY <1>1, ToldAsBefore, RequestKept, RequestsNext
<1>2. ASSUME NEW kind \in {"created", "updated"}, NEW build \in Build,
             NEW by \in Requests \cup {None}, Begins(kind, build, by)
      PROVE  RequestsOK'
  BY <1>2, RequestsBegun DEF EventsInv
<1>3. CASE Commit  BY <1>3, RequestsCommitted
<1>4. CASE Rollback
  <2>1. \A b \in Live' : StillTold(b)
    BY <1>4, LiveRolledBack, ToldRolledBack DEF StillTold, EventsInv
  <2>2. \A r \in Requests : requests'[r] \in {None, requests[r]}  BY <1>4 DEF Rollback
  <2>3. QED  BY <2>1, <2>2, RequestKept, RequestsNext
<1>5. ASSUME NEW r \in Requests, RefuseRestart(r)  PROVE RequestsOK'
  BY <1>1, <1>5 DEF RefuseRestart, TypeOK
<1>6. ASSUME NEW r \in Requests, Read(r)  PROVE RequestsOK'
  BY <1>6, RequestsRead
<1>7. CASE OpenStream  BY <1>1, <1>7 DEF OpenStream
<1>8. CASE Receive  BY <1>8, RequestsReceived
<1>9. ASSUME NEW key \in Lists, ShowList(key)  PROVE RequestsOK'
  BY <1>1, <1>9 DEF ShowList
<1>10. ASSUME NEW r \in Requests, NEW op, NEW key, NEW from, Asks(r, op, key, from)
       PROVE  RequestsOK'
  <2> SUFFICES ASSUME NEW q \in Requests, NEW new, new = requests'[q], new # None
               PROVE  RequestOK(new)'
    BY RequestsNext
  <2>1. UNCHANGED <<builds, writing, events>>  BY <1>10 DEF Asks, Ask
  <2>2. CASE q = r
    <3>1. new.op = op /\ new.key = key /\ new.from = from /\ new.stage = "asked"
      BY <1>10, <2>2 DEF Asks, Ask, TypeOK
    <3>2. QED  BY <1>10, <3>1 DEF Asks, RequestOK
  <2>3. CASE q # r
    <3>1. requests'[q] = requests[q]  BY <1>10, <2>3 DEF Asks, Ask, TypeOK
    <3>2. QED  BY <2>1, <3>1, RequestKept, ToldAsBefore
  <2>4. QED  BY <2>2, <2>3
<1>11. ASSUME NEW r \in Requests, AnswerFetch(r) \/ AnswerMore(r) \/ AnswerRestart(r)
       PROVE  RequestsOK'
  <2>1. /\ UNCHANGED <<builds, writing, events>>
        /\ requests' = [requests EXCEPT ![r] = None]
    BY <1>11 DEF AnswerFetch, AnswerMore, AnswerRestart, Answered
  <2>2. QED  BY <1>1, <2>1 DEF TypeOK
<1>12. CASE UNCHANGED vars  BY <1>1, <1>12 DEF vars
<1>13. QED
  BY <1>2, <1>3, <1>4, <1>5, <1>6, <1>7, <1>8, <1>9, <1>10, <1>11, <1>12, StepCases

-----------------------------------------------------------------------------
(* The cache *)

LEMMA CacheNext ==
    ASSUME \A k \in Keys \ spoiled' : \A new : new = cache'[k] /\ new # None => Kept(new, k)'
    PROVE  CacheOK'
BY DEF CacheOK, Cached, Kept, Followed, ComesOnTop, Backed, Stored, IsWritten, Dated, Fresh,
       Complete, Live, Due, Announced, Listened, Announces, Has, EndsAbove, InOrder, Concerns

LEMMA CacheType ==
    ASSUME TypeOK, CacheOK, NEW k \in Keys, cache[k] # None
    PROVE  cache[k] \in Seq(Build) /\ (k \notin spoiled => Kept(cache[k], k))
BY DEF TypeOK, CacheOK, Cached

\* Steps of neither the server nor the stream.
LEMMA KeptAsBefore ==
    ASSUME UNCHANGED <<builds, writing, writes, events>>, NEW list, NEW k, Kept(list, k)
    PROVE  Kept(list, k)'
BY DEF Kept, Followed, ComesOnTop, Backed, Stored, IsWritten, Dated, Fresh, Complete, Live,
       Due, Announced, Listened, Announces

\* A transaction ends.
LEMMA KeptEnded ==
    ASSUME TypeOK, NEW list \in Seq(Build), NEW k, Kept(list, k),
           \A b \in Live' : StillTold(b),
           \A i \in DOMAIN list : Stored(list[i])' /\ ~IsWritten(list[i])',
           writes' = writes,
           DOMAIN events' = DOMAIN events,
           \A e \in DOMAIN events : /\ events'[e].kind = events[e].kind
                                    /\ events'[e].build = events[e].build
                                    /\ ~events'[e].void => ~events[e].void
    PROVE  Kept(list, k)'
<1>1. Fresh(list)' /\ Complete(list, k, FirstPage)'
  BY ListsKept DEF Kept, Followed
<1>2. \A i \in DOMAIN list : Backed(list[i])' /\ Dated(list[i])'
  BY DEF Kept, Followed, Backed, Dated
<1>3. Followed(list, k)'
  BY <1>1, <1>2 DEF Kept, Followed
<1>4. k \in Lists => ComesOnTop(list, k)'
  BY DEF Kept, ComesOnTop
<1>5. QED  BY <1>3, <1>4 DEF Kept

LEMMA CacheCommitted ==
    ASSUME TypeOK, RowsOK, WritingOK, CacheOK, Commit
    PROVE  CacheOK'
<1> SUFFICES ASSUME NEW k \in Keys \ spoiled', NEW list, list = cache'[k], list # None
             PROVE  Kept(list, k)'
  BY CacheNext
<1>1. UNCHANGED <<cache, spoiled, events, writes>>  BY DEF Commit
<1>2. list \in Seq(Build) /\ Kept(list, k)  BY <1>1, CacheType
<1>3. \A i \in DOMAIN list : Stored(list[i])' /\ ~IsWritten(list[i])'
  BY <1>2, ListTypes, LiveCommitted DEF Kept, Followed
<1>4. QED  BY <1>1, <1>2, <1>3, ToldCommitted, KeptEnded

LEMMA CacheRolledBack ==
    ASSUME TypeOK, RowsOK, WritingOK, EventsInv, CacheOK, Rollback
    PROVE  CacheOK'
<1> SUFFICES ASSUME NEW k \in Keys \ spoiled', NEW list, list = cache'[k], list # None
             PROVE  Kept(list, k)'
  BY CacheNext
<1> DEFINE sent == {i \in DOMAIN events : events[i].build = writing.build}
<1>1. UNCHANGED <<cache, writes>>  BY DEF Rollback
<1>2. /\ spoiled' = IF sent = {} THEN spoiled \cup Concerns(writing.build) ELSE spoiled
      /\ writing # None
  BY DEF Rollback
<1>3. list \in Seq(Build) /\ Kept(list, k)  BY <1>1, <1>2, CacheType
<1>4. ASSUME NEW i \in DOMAIN list  PROVE list[i] # writing.build
  <2>1. CASE sent = {}
    BY <1>2, <1>3, <2>1 DEF Kept, Followed
  <2>2. CASE sent # {}
    <3>1. PICK e \in DOMAIN events : events[e].build = writing.build  BY <2>2
    <3>2. QED  BY <1>2, <1>3, <3>1 DEF Kept, Followed, IsWritten
  <2>3. QED  BY <2>1, <2>2
<1>5. \A i \in DOMAIN list : Stored(list[i])' /\ ~IsWritten(list[i])'
  BY <1>3, <1>4, LiveRolledBack DEF Kept, Followed
<1>6. \A b \in Live' : StillTold(b)
  BY LiveRolledBack, ToldRolledBack DEF StillTold, EventsInv
<1>7. /\ DOMAIN events' = DOMAIN events
      /\ \A e \in DOMAIN events : /\ events'[e].kind = events[e].kind
                                  /\ events'[e].build = events[e].build
                                  /\ ~events'[e].void => ~events[e].void
  BY RolledBackEvents
<1>8. QED  BY <1>1, <1>3, <1>5, <1>6, <1>7, KeptEnded

LEMMA CacheBegun ==
    ASSUME TypeOK, RowsOK, WritingOK, EventsInv, CacheOK,
           NEW kind \in {"created", "updated"}, NEW build \in Build,
           NEW by \in Requests \cup {None}, Begins(kind, build, by)
    PROVE  CacheOK'
<1> SUFFICES ASSUME NEW k \in Keys \ spoiled', NEW list, list = cache'[k], list # None
             PROVE  Kept(list, k)'
  BY CacheNext
<1> DEFINE last == Len(events) + 1
<1>1. cache' = cache /\ Publish(kind, build)  BY DEF Begins
<1>2. \/ /\ ~open /\ events' = events /\ DOMAIN events = {}
         /\ spoiled' = spoiled \cup Concerns(build)
      \/ /\ open /\ spoiled' = spoiled
         /\ DOMAIN events' = DOMAIN events \cup {last}
         /\ \A e \in DOMAIN events : events'[e] = events[e]
         /\ events'[last].kind = kind /\ events'[last].build = build
  BY <1>1, PublishedEvents DEF EventsInv, Publish
<1> HIDE DEF last
<1>3. list \in Seq(Build) /\ Kept(list, k)  BY <1>1, <1>2, CacheType
<1>4. \A i \in DOMAIN list : list[i] \in Build /\ Backed(list[i]) /\ Dated(list[i])
                             /\ k \in Concerns(list[i])
  BY <1>3, ListTypes DEF Kept, Followed
<1>5. \A i \in DOMAIN list : /\ Stored(list[i]) /\ Backed(list[i])' /\ Dated(list[i])'
                             /\ list[i] # build
  <2> SUFFICES ASSUME NEW i \in DOMAIN list
               PROVE  /\ Stored(list[i]) /\ Backed(list[i])' /\ Dated(list[i])'
                      /\ list[i] # build
    OBVIOUS
  <2>1. list[i].version < build.version /\ build.version \in Nat
    BY <1>4, LiveBegun, BuildFields
  <2>2. \A n \in Nat : ~(n < n)  OBVIOUS
  <2>3. QED  BY <1>4, <2>1, <2>2, LiveBegun
<1>6. \A b : IsWritten(b)' <=> b = build  BY LiveBegun
<1>7. CASE open
  <2>1. kind = "updated" \/ k \in Lists \/ k # build.id
    <3> SUFFICES ASSUME k \in Opened, kind = "created"  PROVE k # build.id
      BY KeysApart
    <3>1. 1 \in DOMAIN list
      <4>1. Len(list) = 1  BY <1>3 DEF Kept, Followed
      <4>2. 1 \in 1..1  OBVIOUS
      <4>3. QED  BY <1>3, <4>1, <4>2, ListTypes
    <3>2. list[1].id = k  BY <1>4, <3>1, OpenedId
    <3>3. QED  BY <1>4, <3>1, <3>2, BegunVersion
  <2>2. Fresh(list)' /\ Complete(list, k, FirstPage)'
    BY <1>3, <1>7, <2>1, ListsBegun DEF Kept, Followed, EventsInv
  <2>3. Followed(list, k)'
    BY <1>3, <1>4, <1>5, <1>6, <2>2 DEF Kept, Followed
  <2>4. ASSUME k \in Lists, NEW e \in DOMAIN events', ~events'[e].void,
               events'[e].kind = "created", k \in Concerns(events'[e].build),
               NEW i \in DOMAIN list
        PROVE  list[i].number < events'[e].build.number
    <3>1. CASE e \in DOMAIN events
      BY <1>2, <1>3, <1>7, <2>4, <3>1 DEF Kept, ComesOnTop
    <3>2. CASE e = last
      <4>1. events'[e].build = build /\ kind = "created"  BY <1>2, <1>7, <2>4, <3>2
      <4>2. list[i].number \in 1..Len(builds) /\ Len(builds) \in Nat
        BY <1>5, RowsOfBuilds DEF Stored
      <4>3. build.number = Len(builds) + 1  BY <4>1 DEF Begins
      <4>4. \A l \in Nat : \A n \in 1..l : n < l + 1  OBVIOUS
      <4>5. QED  BY <4>1, <4>2, <4>3, <4>4
    <3>3. QED  BY <1>2, <1>7, <3>1, <3>2
  <2>5. k \in Lists => ComesOnTop(list, k)'  BY <2>4 DEF ComesOnTop
  <2>6. QED  BY <2>3, <2>5 DEF Kept
<1>8. CASE ~open
  <2>1. k \notin Concerns(build) /\ events' = events  BY <1>2, <1>8
  <2>2. Live' = Live \cup {build}  BY LiveBegun
  <2>3. \A b : (Due(b) => Due(b)') /\ (Announced(b) => Announced(b)')
    BY <2>1 DEF Due, Announced, Listened, Announces
  <2>4. \A i \in DOMAIN list : build.number # list[i].number
    <3> SUFFICES ASSUME NEW i \in DOMAIN list, build.number = list[i].number  PROVE FALSE
      OBVIOUS
    <3>1. build.number \in DOMAIN builds  BY <1>5 DEF Stored
    <3>2. kind = "updated"  BY <3>1, BegunVersion
    <3>3. build.id = list[i].id /\ build.branch = list[i].branch
      BY <1>5, <3>2 DEF Begins, Stored
    <3>4. QED  BY <1>4, <2>1, <3>3 DEF Concerns
  <2>5. Fresh(list)'
    <3> SUFFICES ASSUME NEW i \in DOMAIN list, NEW b \in Live', b.number = list[i].number
                 PROVE  b.version <= list[i].version \/ Due(b)'
      BY DEF Fresh
    <3>1. QED  BY <1>3, <2>2, <2>3, <2>4 DEF Kept, Followed, Fresh
  <2>6. Complete(list, k, FirstPage)'
    <3> SUFFICES ASSUME NEW b \in Live', k \in Concerns(b), b.number < FirstPage
                 PROVE  \/ Has(list, b.number)
                        \/ k \in Lists /\ Announced(b)'
                        \/ EndsAbove(list, b.number)
      BY DEF Complete, Has, EndsAbove, Concerns
    <3>1. QED  BY <1>3, <2>1, <2>2, <2>3 DEF Kept, Followed, Complete
  <2>7. Followed(list, k)'
    BY <1>3, <1>4, <1>5, <1>6, <2>5, <2>6 DEF Kept, Followed
  <2>8. k \in Lists => ComesOnTop(list, k)'  BY <1>3, <2>1 DEF Kept, ComesOnTop
  <2>9. QED  BY <2>7, <2>8 DEF Kept
<1>9. QED  BY <1>7, <1>8

\* A version that takes the place of another changes no number.
LEMMA ReplacedNumbers ==
    ASSUME TypeOK, RowsOK, WritingOK, NEW list \in Seq(Build), NEW build \in Build,
           \A i \in DOMAIN list : Backed(list[i]), Backed(build),
           NEW new, new = Replace(list, build)
    PROVE  /\ new \in Seq(Build) /\ Len(new) = Len(list) /\ DOMAIN new = DOMAIN list
           /\ \A i \in DOMAIN list : /\ new[i].number = list[i].number
                                     /\ new[i] = build \/ new[i] = list[i]
                                     /\ list[i].id # build.id => new[i] = list[i]
                                     /\ list[i].id = build.id => new[i] = build
           /\ InOrder(list) => InOrder(new)
           /\ \A n : (Has(list, n) => Has(new, n)) /\ (EndsAbove(list, n) => EndsAbove(new, n))
<1>1. /\ new \in Seq(Build) /\ Len(new) = Len(list) /\ DOMAIN new = DOMAIN list
      /\ \A i \in DOMAIN list : new[i] = IF list[i].id = build.id THEN build ELSE list[i]
  BY ReplaceProperties
<1>2. \A i \in DOMAIN list : new[i].number = list[i].number
  BY <1>1, Identity
<1>3. InOrder(list) => InOrder(new)  BY <1>1, <1>2 DEF InOrder
<1>4. \A n : (Has(list, n) => Has(new, n)) /\ (EndsAbove(list, n) => EndsAbove(new, n))
  BY <1>1, <1>2 DEF Has, EndsAbove
<1>5. QED  BY <1>1, <1>2, <1>3, <1>4

\* The handlers of eventSource do to a list what the event says.
LEMMA KeptReceived ==
    ASSUME TypeOK, RowsOK, WritingOK, EventsInv, Receive,
           NEW list \in Seq(Build), NEW k \in Keys, Kept(list, k),
           NEW e1, e1 = events[1], NEW b1, b1 = e1.build,
           k \in Concerns(b1) => ~e1.void,
           NEW new, new = IF k \notin Concerns(b1) THEN list
                          ELSE IF e1.kind = "updated" THEN Replace(list, b1)
                          ELSE IF k \in Lists THEN <<b1>> \o list
                          ELSE list
    PROVE  Kept(new, k)'
<1>1. /\ 1 \in DOMAIN events
      /\ \A i \in DOMAIN events' : i + 1 \in DOMAIN events /\ 1 < i + 1
                                   /\ events'[i] = events[i + 1]
  BY ReceivedEvents
<1>2. UNCHANGED <<builds, writing, writes>> /\ Live' = Live  BY DEF Receive, Live
<1>3. b1 \in Build /\ e1.kind \in {"created", "updated"} /\ Dated(b1)
      /\ (e1.kind = "created" <=> b1.version = b1.id)
  BY <1>1, EventTypes DEF EventsInv, EventsInOrder
<1>4. \A i \in DOMAIN list : list[i] \in Build /\ Backed(list[i]) /\ Dated(list[i])
                             /\ k \in Concerns(list[i])
                             /\ (IsWritten(list[i]) =>
                                    \A e \in DOMAIN events : events[e].build # list[i])
  BY ListTypes DEF Kept, Followed
<1>5. \A b \in Live : /\ b \in Build /\ Backed(b)
                      /\ Due(b) => Due(b)' \/ (~e1.void /\ b = b1)
                      /\ Announced(b) => Announced(b)' \/ (~e1.void /\ e1.kind = "created" /\ b1.id = b.id)
  BY LiveProperties, ToldReceived DEF Listened, Announces
<1>6. ~e1.void => Backed(b1)  BY <1>1 DEF EventsInv, EventsBacked
<1>7. \A e \in DOMAIN events' : events'[e].build # b1
  <2> SUFFICES ASSUME NEW e \in DOMAIN events', events'[e].build = b1  PROVE FALSE
    OBVIOUS
  <2>1. b1.version < events[e + 1].build.version /\ events[e + 1].build = b1
    BY <1>1 DEF EventsInv, EventsInOrder
  <2>2. b1.version \in Nat  BY <1>3, BuildFields
  <2>3. \A n \in Nat : ~(n < n)  OBVIOUS
  <2>4. QED  BY <2>1, <2>2, <2>3
\* What the new value is made of.
<1>8. ASSUME NEW b, Backed(b), Dated(b), k \in Concerns(b),
             b = b1 \/ \E i \in DOMAIN list : b = list[i]
      PROVE  /\ Backed(b)' /\ Dated(b)' /\ k \in Concerns(b)
             /\ IsWritten(b)' => \A e \in DOMAIN events' : events'[e].build # b
  <2>1. Backed(b)' /\ Dated(b)' /\ (IsWritten(b)' => IsWritten(b))
    BY <1>2, <1>8 DEF Backed, Stored, IsWritten, Dated
  <2>2. IsWritten(b) => \A e \in DOMAIN events' : events'[e].build # b
    BY <1>1, <1>4, <1>7, <1>8
  <2>3. QED  BY <1>8, <2>1, <2>2
<1>9. \A b \in Live : b.number = b1.number /\ ~e1.void => b.version <= b1.version \/ Due(b)'
  <2> SUFFICES ASSUME NEW b \in Live, b.number = b1.number, ~e1.void, ~Due(b)'
               PROVE  b.version <= b1.version
    OBVIOUS
  <2>1. b.version <= b1.version \/ b = b1
    BY <1>1, <1>5 DEF EventsInv, EventsFollow
  <2>2. b1.version \in Nat  BY <1>3, BuildFields
  <2>3. QED  BY <2>1, <2>2
<1>10. \A i \in DOMAIN list, b \in Live :
          b.number = list[i].number => \/ b.version <= list[i].version
                                       \/ Due(b)'
                                       \/ ~e1.void /\ b = b1 /\ list[i].id = b1.id
                                          /\ k \in Concerns(b1)
  <2> SUFFICES ASSUME NEW i \in DOMAIN list, NEW b \in Live, b.number = list[i].number
               PROVE  \/ b.version <= list[i].version
                      \/ Due(b)'
                      \/ ~e1.void /\ b = b1 /\ list[i].id = b1.id /\ k \in Concerns(b1)
    OBVIOUS
  <2>1. list[i].id = b.id /\ k \in Concerns(b)  BY <1>4, <1>5, Identity
  <2>2. b.version <= list[i].version \/ Due(b)  BY DEF Kept, Followed, Fresh
  <2>3. QED  BY <1>5, <2>1, <2>2
<1>11. \A b \in Live : k \in Concerns(b) =>
          \/ Has(list, b.number) \/ EndsAbove(list, b.number)
          \/ k \in Lists /\ Announced(b)'
          \/ k \in Lists /\ ~e1.void /\ e1.kind = "created" /\ b1.number = b.number /\ k \in Concerns(b1)
  <2> SUFFICES ASSUME NEW b \in Live, k \in Concerns(b)
               PROVE  \/ Has(list, b.number) \/ EndsAbove(list, b.number)
                      \/ k \in Lists /\ Announced(b)'
                      \/ /\ k \in Lists /\ ~e1.void /\ e1.kind = "created"
                         /\ b1.number = b.number /\ k \in Concerns(b1)
    OBVIOUS
  <2>1. b.number < FirstPage  BY <1>5, BuildFields
  <2>2. \/ Has(list, b.number) \/ EndsAbove(list, b.number)
        \/ k \in Lists /\ Announced(b)
    BY <2>1 DEF Kept, Followed, Complete
  <2>3. ~e1.void /\ b1.id = b.id => b1.number = b.number /\ k \in Concerns(b1)
    BY <1>5, <1>6, Identity
  <2>4. QED  BY <1>5, <2>2, <2>3
<1>12. k \in Lists => ComesOnTop(list, k)'
  BY <1>1 DEF Kept, ComesOnTop
\* The event is of another key, or of an object that is new and is there.
<1>13. CASE k \notin Concerns(b1) \/ (e1.kind = "created" /\ k \notin Lists)
  <2>1. new = list  BY <1>3, <1>13
  <2>2. Fresh(list)'
    <3> SUFFICES ASSUME NEW i \in DOMAIN list, NEW b \in Live, b.number = list[i].number
                 PROVE  b.version <= list[i].version \/ Due(b)'
      BY <1>2 DEF Fresh
    <3>1. b = b1 /\ list[i].id = b1.id /\ k \in Concerns(b1) => b.version <= list[i].version
      BY <1>3, <1>4, <1>13 DEF Dated
    <3>2. QED  BY <1>10, <3>1
  <2>3. Complete(list, k, FirstPage)'
    <3> SUFFICES ASSUME NEW b \in Live, k \in Concerns(b)
                 PROVE  \/ Has(list, b.number)
                        \/ k \in Lists /\ Announced(b)'
                        \/ EndsAbove(list, b.number)
      BY <1>2 DEF Complete, Has, EndsAbove, Concerns
    <3>1. QED  BY <1>11, <1>13
  <2>4. Followed(list, k)'
    BY <1>4, <1>8, <2>2, <2>3 DEF Kept, Followed
  <2>5. QED  BY <1>12, <2>1, <2>4 DEF Kept
<1>14. CASE k \in Concerns(b1) /\ e1.kind = "updated"
  <2>1. ~e1.void /\ Backed(b1) /\ new = Replace(list, b1)  BY <1>6, <1>14
  <2>2. /\ new \in Seq(Build) /\ Len(new) = Len(list) /\ DOMAIN new = DOMAIN list
        /\ \A i \in DOMAIN list : /\ new[i].number = list[i].number
                                  /\ new[i] = b1 \/ new[i] = list[i]
                                  /\ list[i].id # b1.id => new[i] = list[i]
                                  /\ list[i].id = b1.id => new[i] = b1
        /\ InOrder(list) => InOrder(new)
        /\ \A n : (Has(list, n) => Has(new, n)) /\ (EndsAbove(list, n) => EndsAbove(new, n))
    BY <1>3, <1>4, <2>1, ReplacedNumbers
  <2>3. Fresh(new)'
    <3> SUFFICES ASSUME NEW i \in DOMAIN list, NEW b \in Live, b.number = list[i].number
                 PROVE  b.version <= new[i].version \/ Due(b)'
      BY <1>2, <2>2 DEF Fresh
    <3>1. CASE list[i].id = b1.id  BY <1>9, <2>1, <2>2, <3>1
    <3>2. CASE list[i].id # b1.id  BY <1>10, <2>2, <3>2
    <3>3. QED  BY <3>1, <3>2
  <2>4. Complete(new, k, FirstPage)'
    <3> SUFFICES ASSUME NEW b \in Live, k \in Concerns(b)
                 PROVE  \/ Has(new, b.number)
                        \/ k \in Lists /\ Announced(b)'
                        \/ EndsAbove(new, b.number)
      BY <1>2 DEF Complete, Has, EndsAbove, Concerns
    <3>1. QED  BY <1>11, <1>14, <2>2
  <2>5. \A i \in DOMAIN new : /\ Backed(new[i])' /\ Dated(new[i])' /\ k \in Concerns(new[i])
                              /\ IsWritten(new[i])' =>
                                    \A e \in DOMAIN events' : events'[e].build # new[i]
    <3> SUFFICES ASSUME NEW i \in DOMAIN list, NEW b, b = new[i]
                 PROVE  /\ Backed(b)' /\ Dated(b)' /\ k \in Concerns(b)
                        /\ IsWritten(b)' => \A e \in DOMAIN events' : events'[e].build # b
      BY <2>2
    <3>1. QED  BY <1>3, <1>4, <1>8, <1>14, <2>1, <2>2
  <2>6. Followed(new, k)'
    BY <2>2, <2>3, <2>4, <2>5 DEF Kept, Followed
  <2>7. k \in Lists => ComesOnTop(new, k)'
    BY <1>12, <2>2 DEF ComesOnTop
  <2>8. QED  BY <2>6, <2>7 DEF Kept
<1>15. CASE k \in Concerns(b1) /\ e1.kind = "created" /\ k \in Lists
  <2>1. ~e1.void /\ Backed(b1) /\ new = <<b1>> \o list /\ k \notin Opened
    BY <1>6, <1>15, KeysApart
  <2>2. /\ new \in Seq(Build) /\ Len(new) = Len(list) + 1 /\ DOMAIN new = 1..(Len(list) + 1)
        /\ new[1] = b1
        /\ \A i \in DOMAIN list : i + 1 \in DOMAIN new /\ new[i + 1] = list[i]
        /\ \A i \in DOMAIN new : i # 1 => i - 1 \in DOMAIN list
    <3> DEFINE longer == <<b1>> \o list
    <3>1. /\ longer \in Seq(Build) /\ Len(longer) = Len(list) + 1
          /\ DOMAIN longer = 1..(Len(list) + 1)
          /\ longer[1] = b1
          /\ \A i \in DOMAIN list : i + 1 \in DOMAIN longer /\ longer[i + 1] = list[i]
          /\ \A i \in DOMAIN longer : i # 1 => i - 1 \in DOMAIN list
      BY <1>3, UnshiftProperties
    <3>2. new = longer  BY <2>1
    <3> HIDE DEF longer
    <3>3. QED  BY <3>1, <3>2
  <2>3. \A i \in DOMAIN new : i = 1 \/ (i - 1 \in DOMAIN list /\ new[i] = list[i - 1])
    <3>1. Len(list) \in Nat  BY ListTypes
    <3>2. \A l \in Nat : \A i \in 1..(l + 1) : (i - 1) + 1 = i  OBVIOUS
    <3>3. QED  BY <2>2, <3>1, <3>2
  <2>4. \A i \in DOMAIN list : list[i].number < b1.number
    BY <1>1, <1>15, <2>1 DEF Kept, ComesOnTop
  <2>5. 1 \in DOMAIN new
    <3>1. Len(list) \in Nat  BY ListTypes
    <3>2. \A l \in Nat : 1 \in 1..(l + 1)  OBVIOUS
    <3>3. QED  BY <2>2, <3>1, <3>2
  <2>6. b1.number \in Nat /\ \A i \in DOMAIN list : list[i].number \in Nat
    BY <1>3, <1>4, BuildFields
  <2>7. InOrder(new)
    <3> SUFFICES ASSUME NEW i \in DOMAIN new, NEW j \in DOMAIN new, i < j
                 PROVE  new[i].number > new[j].number
      BY DEF InOrder
    <3>1. j # 1 /\ (i # 1 => i - 1 < j - 1)
      <4>1. \A l \in Nat : \A x, y \in 1..(l + 1) : x < y => y # 1 /\ x - 1 < y - 1  OBVIOUS
      <4>2. Len(list) \in Nat  BY ListTypes
      <4>3. QED  BY <2>2, <4>1, <4>2
    <3>2. new[j] = list[j - 1] /\ j - 1 \in DOMAIN list  BY <2>3, <3>1
    <3>3. CASE i = 1
      <4>1. new[j].number < b1.number /\ new[j].number \in Nat  BY <2>4, <2>6, <3>2
      <4>2. QED  BY <2>2, <2>6, <3>3, <4>1
    <3>4. CASE i # 1
      BY <2>3, <3>1, <3>2, <3>4 DEF Kept, Followed, InOrder
    <3>5. QED  BY <3>3, <3>4
  <2>8. Fresh(new)'
    <3> SUFFICES ASSUME NEW i \in DOMAIN new, NEW b \in Live, b.number = new[i].number
                 PROVE  b.version <= new[i].version \/ Due(b)'
      BY <1>2 DEF Fresh
    <3>1. CASE i = 1  BY <1>9, <2>1, <2>2, <3>1
    <3>2. CASE i # 1
      <4>1. i - 1 \in DOMAIN list /\ new[i] = list[i - 1]  BY <2>3, <3>2
      <4>2. b # b1
        <5>1. b.number < b1.number  BY <2>4, <4>1
        <5>2. \A n \in Nat : ~(n < n)  OBVIOUS
        <5>3. QED  BY <2>6, <5>1, <5>2
      <4>3. QED  BY <1>10, <4>1, <4>2
    <3>3. QED  BY <3>1, <3>2
  <2>9. ASSUME NEW n \in Nat, EndsAbove(list, n)  PROVE EndsAbove(new, n)
    <3>1. Len(list) \in Nat /\ PageSize \in Nat /\ PageSize >= 1 /\ Len(list) >= PageSize
          /\ DOMAIN list = 1..Len(list)
      BY <2>9, Sizes, ListTypes DEF EndsAbove
    <3>2. Len(new) >= PageSize /\ 1 \in DOMAIN list
      <4>1. \A l, p \in Nat : l >= p /\ p >= 1 => l + 1 >= p /\ 1 \in 1..l  OBVIOUS
      <4>2. QED  BY <2>2, <3>1, <4>1
    <3>3. \A i \in DOMAIN list : list[i].number > n  BY <2>9 DEF EndsAbove
    <3>4. b1.number > n
      <4>1. list[1].number > n /\ list[1].number < b1.number /\ list[1].number \in Nat
        BY <2>4, <2>6, <3>2, <3>3
      <4>2. QED  BY <2>6, <4>1
    <3>5. QED  BY <2>2, <2>3, <3>2, <3>3, <3>4 DEF EndsAbove
  <2>10. Complete(new, k, FirstPage)'
    <3> SUFFICES ASSUME NEW b \in Live, k \in Concerns(b)
                 PROVE  \/ Has(new, b.number)
                        \/ k \in Lists /\ Announced(b)'
                        \/ EndsAbove(new, b.number)
      BY <1>2 DEF Complete, Has, EndsAbove, Concerns
    <3>1. ASSUME Has(list, b.number)  PROVE Has(new, b.number)
      <4>1. PICK i \in DOMAIN list : list[i].number = b.number  BY <3>1 DEF Has
      <4>2. i + 1 \in DOMAIN new /\ new[i + 1].number = b.number  BY <2>2, <4>1
      <4>3. QED  BY <4>2 DEF Has
    <3>2. b1.number = b.number => Has(new, b.number)  BY <2>2, <2>5 DEF Has
    <3>3. b.number \in Nat  BY <1>5, BuildFields
    <3>4. QED  BY <1>11, <2>9, <3>1, <3>2, <3>3
  <2>11. \A i \in DOMAIN new : /\ Backed(new[i])' /\ Dated(new[i])' /\ k \in Concerns(new[i])
                               /\ IsWritten(new[i])' =>
                                     \A e \in DOMAIN events' : events'[e].build # new[i]
    <3> SUFFICES ASSUME NEW i \in DOMAIN new, NEW b, b = new[i]
                 PROVE  /\ Backed(b)' /\ Dated(b)' /\ k \in Concerns(b)
                        /\ IsWritten(b)' => \A e \in DOMAIN events' : events'[e].build # b
      OBVIOUS
    <3>1. b = b1 \/ \E j \in DOMAIN list : b = list[j]  BY <2>2, <2>3
    <3>2. Backed(b) /\ Dated(b) /\ k \in Concerns(b)  BY <1>3, <1>4, <1>15, <2>1, <3>1
    <3>3. QED  BY <1>8, <3>1, <3>2
  <2>12. Followed(new, k)'
    BY <2>1, <2>7, <2>8, <2>10, <2>11 DEF Followed
  <2>13. ComesOnTop(new, k)'
    <3> SUFFICES ASSUME NEW e \in DOMAIN events', ~events'[e].void,
                        events'[e].kind = "created", k \in Concerns(events'[e].build),
                        NEW i \in DOMAIN new
                 PROVE  new[i].number < events'[e].build.number
      BY DEF ComesOnTop
    <3>1. CASE i = 1
      <4>1. e + 1 \in DOMAIN events /\ 1 < e + 1 /\ events'[e] = events[e + 1]  BY <1>1
      <4>2. QED
        BY <1>1, <1>15, <2>1, <2>2, <3>1, <4>1 DEF EventsInv, NewBuildsInOrder
    <3>2. CASE i # 1
      BY <1>12, <1>15, <2>3, <3>2 DEF ComesOnTop
    <3>3. QED  BY <3>1, <3>2
  <2>14. QED  BY <2>12, <2>13 DEF Kept
<1>16. QED  BY <1>3, <1>13, <1>14, <1>15

LEMMA CacheReceived ==
    ASSUME TypeOK, RowsOK, WritingOK, EventsInv, CacheOK, Receive
    PROVE  CacheOK'
<1> SUFFICES ASSUME NEW k \in Keys \ spoiled', NEW new, new = cache'[k], new # None,
                    NEW list, list = cache[k], NEW e1, e1 = events[1], NEW b1, b1 = e1.build
             PROVE  Kept(new, k)'
  BY CacheNext
<1>1. e1 = Head(events)  BY ReceivedEvents
<1>2. cache' = Applied(e1)
      /\ spoiled' = IF e1.void THEN spoiled \cup Concerns(b1) ELSE spoiled
  BY <1>1 DEF Receive
<1>3. new = CASE ~Cached(k) \/ k \notin Concerns(b1) -> list
              [] OTHER -> IF e1.kind = "updated" THEN Replace(list, b1)
                          ELSE IF k \in Lists THEN <<b1>> \o list
                          ELSE list
  BY <1>2 DEF Applied
<1>4. list # None  BY <1>3 DEF Cached
<1>5. new = IF k \notin Concerns(b1) THEN list
            ELSE IF e1.kind = "updated" THEN Replace(list, b1)
            ELSE IF k \in Lists THEN <<b1>> \o list
            ELSE list
  BY <1>3, <1>4 DEF Cached
<1>6. (k \in Concerns(b1) => ~e1.void) /\ k \notin spoiled  BY <1>2
<1>7. list \in Seq(Build) /\ Kept(list, k)  BY <1>4, <1>6, CacheType
<1>8. QED  BY <1>5, <1>6, <1>7, KeptReceived

\* truncateBuilds leaves a page, and what is below it is behind the end.
LEMMA KeptTruncated ==
    ASSUME TypeOK, RowsOK, WritingOK, NEW list \in Seq(Build), NEW k \in Lists, Kept(list, k),
           Len(list) > PageSize,
           NEW new, new = SubSeq(list, 1, PageSize)
    PROVE  Kept(new, k)
<1>1. Len(list) \in Nat /\ DOMAIN list = 1..Len(list)
      /\ \A i \in DOMAIN list : list[i] \in Build /\ list[i].number \in Nat
  BY ListTypes, BuildFields
<1>2. 1..PageSize \subseteq DOMAIN list
  <2>1. \A l, p \in Nat : l > p => 1..p \subseteq 1..l  OBVIOUS
  <2>2. QED  BY <1>1, <2>1, Sizes
<1>3. /\ new \in Seq(Build) /\ Len(new) = PageSize /\ DOMAIN new = 1..PageSize
      /\ \A i \in DOMAIN new : i \in DOMAIN list /\ new[i] = list[i]
  <2>1. 1 \in Int /\ PageSize \in Int /\ PageSize \in Nat /\ PageSize >= 1  BY Sizes
  <2>2. \A i \in 1..PageSize : list[i] \in Build  BY <1>1, <1>2
  <2>3. /\ SubSeq(list, 1, PageSize) \in Seq(Build)
        /\ Len(SubSeq(list, 1, PageSize)) = IF 1 <= PageSize THEN PageSize - 1 + 1 ELSE 0
        /\ \A i \in 1..(PageSize - 1 + 1) : SubSeq(list, 1, PageSize)[i] = list[1 + i - 1]
    BY <2>1, <2>2, SubSeqProperties
  <2>4. \A p \in Nat : p >= 1 => /\ (IF 1 <= p THEN p - 1 + 1 ELSE 0) = p /\ p - 1 + 1 = p
                                 /\ \A i \in 1..p : 1 + i - 1 = i
    OBVIOUS
  <2>5. /\ new \in Seq(Build) /\ Len(new) = PageSize
        /\ \A i \in 1..PageSize : new[i] = list[i]
    BY <2>1, <2>3, <2>4
  <2>6. DOMAIN new = 1..PageSize  BY <2>5, LenProperties
  <2>7. QED  BY <1>2, <2>5, <2>6
<1>4. InOrder(new)  BY <1>3 DEF Kept, Followed, InOrder
<1>5. Fresh(new)  BY <1>3 DEF Kept, Followed, Fresh
<1>6. Complete(new, k, FirstPage)
  <2> SUFFICES ASSUME NEW b \in Live, k \in Concerns(b), b.number < FirstPage
               PROVE  \/ Has(new, b.number)
                      \/ k \in Lists /\ Announced(b)
                      \/ EndsAbove(new, b.number)
    BY DEF Complete
  <2>1. Len(new) >= PageSize  BY <1>3, Sizes
  <2>2. CASE EndsAbove(list, b.number)
    BY <1>3, <2>1, <2>2 DEF EndsAbove
  <2>3. CASE Has(list, b.number)
    <3>1. PICK j \in DOMAIN list : list[j].number = b.number  BY <2>3 DEF Has
    <3>2. CASE j \in DOMAIN new  BY <1>3, <3>1, <3>2 DEF Has
    <3>3. CASE j \notin DOMAIN new
      <4>1. \A i \in 1..PageSize : i < j
        <5>1. \A l, p \in Nat : \A x \in 1..l : x \notin 1..p => \A i \in 1..p : i < x
          OBVIOUS
        <5>2. QED  BY <1>1, <1>3, <3>3, <5>1, Sizes
      <4>2. \A i \in DOMAIN new : new[i].number > b.number
        BY <1>3, <3>1, <4>1 DEF Kept, Followed, InOrder
      <4>3. QED  BY <2>1, <4>2 DEF EndsAbove
    <3>4. QED  BY <3>2, <3>3
  <2>4. QED  BY <2>2, <2>3 DEF Kept, Followed, Complete
<1>7. Followed(new, k)
  BY <1>3, <1>4, <1>5, <1>6, KeysApart DEF Kept, Followed
<1>8. ComesOnTop(new, k)  BY <1>3 DEF Kept, ComesOnTop
<1>9. QED  BY <1>7, <1>8 DEF Kept

LEMMA StoredNotWritten ==
    ASSUME TypeOK, RowsOK, WritingOK, NEW b \in Build, Stored(b)
    PROVE  ~IsWritten(b)
<1> SUFFICES ASSUME IsWritten(b)  PROVE FALSE
  OBVIOUS
<1>1. b.number \in DOMAIN builds /\ builds[b.number].version < b.version
  BY WritingProperties DEF IsWritten, Stored
<1>2. b.version \in Nat /\ builds[b.number].version \in Nat
  BY <1>1, BuildFields, RowsOfBuilds
<1>3. b = builds[b.number] \/ b.version < builds[b.number].version
  BY DEF Stored
<1>4. \A v, w \in Nat : ~(v < w /\ w < v) /\ ~(v < v)  OBVIOUS
<1>5. QED  BY <1>1, <1>2, <1>3, <1>4

\* An answer that missed nothing, and holds no build that is to be announced.
LEMMA KeptFetched ==
    ASSUME TypeOK, RowsOK, WritingOK, EventsInv, NEW request \in Request, RequestOK(request),
           request.op = "fetch", request.stage = "read", ~request.late,
           NEW key, key = request.key, NEW list, list = request.data,
           key \in Lists => \A e \in DOMAIN events, j \in DOMAIN list :
              events[e].kind = "created" => events[e].build.id # list[j].id
    PROVE  Kept(list, key)
<1>1. Answerable(request) /\ request.from = FirstPage  BY DEF RequestOK
<1>2. list \in Seq(Build)  BY DEF Request
<1>3. \A i \in DOMAIN list : /\ list[i] \in Build /\ Stored(list[i]) /\ Backed(list[i])
                             /\ Dated(list[i]) /\ key \in Concerns(list[i])
  BY <1>1, <1>2, ListTypes DEF Answerable, Backed
<1>4. \A i \in DOMAIN list : ~IsWritten(list[i])
  BY <1>3, StoredNotWritten
<1>5. Followed(list, key)
  BY <1>1, <1>3, <1>4 DEF Answerable, Followed
<1>6. ASSUME key \in Lists, NEW e \in DOMAIN events, ~events[e].void,
             events[e].kind = "created", NEW j \in DOMAIN list
      PROVE  list[j].number < events[e].build.number
  <2> SUFFICES ASSUME NEW b, b = events[e].build, NEW row, row = builds[list[j].number],
                      ~(list[j].number < b.number)
               PROVE  FALSE
    OBVIOUS
  <2>1. b \in Build /\ Backed(b)  BY <1>6, EventTypes DEF EventsInv, EventsBacked
  <2>2. row \in Live /\ row.id = list[j].id /\ row.number = list[j].number
    BY <1>3 DEF Stored, Live, RowsOK
  <2>3. b.id # list[j].id  BY <1>6
  <2>4. b.number # list[j].number  BY <1>3, <2>1, <2>3, Identity
  <2>5. list[j].number > b.number
    <3>1. b.number \in Nat /\ list[j].number \in Nat  BY <1>3, <2>1, BuildFields
    <3>2. QED  BY <2>4, <3>1
  <2>6. Announced(row)  BY <1>6, <2>2, <2>5 DEF EventsInv, EventsFollow
  <2>7. QED  BY <1>6, <2>2, <2>6 DEF Announced, Announces
<1>7. key \in Lists => ComesOnTop(list, key)  BY <1>6 DEF ComesOnTop
<1>8. QED  BY <1>5, <1>7 DEF Kept

\* A page that fits: it begins below the last entry of the list.
LEMMA KeptLonger ==
    ASSUME TypeOK, RowsOK, WritingOK, NEW request \in Request, RequestOK(request),
           request.op = "more", request.stage = "read", ~request.late,
           NEW key, key = request.key, NEW list \in Seq(Build), Kept(list, key),
           list # <<>>, Last(list).number = request.from,
           NEW page, page = request.data, NEW new, new = list \o page
    PROVE  Kept(new, key)
<1> DEFINE l == Len(list)
           from == request.from
<1>1. Answerable(request) /\ key \in Lists /\ key \notin Opened
  BY KeysApart DEF RequestOK
<1>2. page \in Seq(Build)  BY DEF Request
<1>3. /\ l \in Nat \ {0} /\ DOMAIN list = 1..l
      /\ Len(page) \in Nat /\ DOMAIN page = 1..Len(page)
  BY <1>2, EmptySeq, ListTypes
<1>4. \A i \in DOMAIN list : list[i] \in Build /\ list[i].number \in Nat
  BY ListTypes, BuildFields
<1>5. \A i \in DOMAIN page : /\ page[i] \in Build /\ page[i].number \in Nat
                             /\ Stored(page[i]) /\ Dated(page[i]) /\ key \in Concerns(page[i])
                             /\ page[i].number < from
  BY <1>1, <1>2, ListTypes, BuildFields DEF Answerable
<1>6. l \in DOMAIN list /\ list[l].number = from /\ from \in Nat
  <2>1. \A n \in Nat \ {0} : n \in 1..n  OBVIOUS
  <2>2. QED  BY <1>3, <1>4, <2>1 DEF Last
<1> HIDE DEF l, from
<1>7. /\ new \in Seq(Build) /\ Len(new) = l + Len(page) /\ DOMAIN new = 1..(l + Len(page))
      /\ \A i \in 1..(l + Len(page)) : new[i] = IF i <= l THEN list[i] ELSE page[i - l]
  <2>1. /\ new \in Seq(Build) /\ Len(new) = l + Len(page)
        /\ \A i \in 1..(l + Len(page)) : new[i] = IF i <= l THEN list[i] ELSE page[i - l]
    BY <1>2, ConcatProperties DEF l
  <2>2. DOMAIN new = 1..Len(new)  BY <2>1, LenProperties
  <2>3. QED  BY <2>1, <2>2
<1>8. /\ \A i \in DOMAIN list : i \in DOMAIN new /\ new[i] = list[i]
      /\ \A j \in DOMAIN page : l + j \in DOMAIN new /\ new[l + j] = page[j]
      /\ \A i \in DOMAIN new : \/ i \in DOMAIN list /\ new[i] = list[i]
                               \/ i - l \in DOMAIN page /\ new[i] = page[i - l] /\ i > l
      /\ \A i \in DOMAIN list : i <= l
      /\ \A i, j \in DOMAIN new : i < j => i - l < j - l /\ (i > l => j > l)
  <2>1. \A m, n \in Nat : \A i \in 1..m : i \in 1..(m + n) /\ i <= m  OBVIOUS
  <2>2. \A m, n \in Nat : \A j \in 1..n : m + j \in 1..(m + n) /\ ~(m + j <= m) /\ (m + j) - m = j
    OBVIOUS
  <2>3. \A m, n \in Nat : \A i \in 1..(m + n) :
           IF i <= m THEN i \in 1..m ELSE i - m \in 1..n /\ i > m
    OBVIOUS
  <2>4. \A m, n \in Nat : \A i, j \in 1..(m + n) : i < j => i - m < j - m /\ (i > m => j > m)
    OBVIOUS
  <2>5. l \in Nat /\ Len(page) \in Nat /\ DOMAIN list = 1..l /\ DOMAIN page = 1..Len(page)
        /\ DOMAIN new = 1..(l + Len(page))
    BY <1>3, <1>7
  <2>6. \A i \in DOMAIN list : i \in DOMAIN new /\ new[i] = list[i] /\ i <= l
    BY <1>7, <2>1, <2>5
  <2>7. \A j \in DOMAIN page : l + j \in DOMAIN new /\ new[l + j] = page[j]
    BY <1>7, <2>2, <2>5
  <2>8. \A i \in DOMAIN new : \/ i \in DOMAIN list /\ new[i] = list[i]
                              \/ i - l \in DOMAIN page /\ new[i] = page[i - l] /\ i > l
    BY <1>7, <2>3, <2>5
  <2>9. \A i, j \in DOMAIN new : i < j => i - l < j - l /\ (i > l => j > l)
    BY <2>4, <2>5
  <2>10. QED  BY <2>6, <2>7, <2>8, <2>9
<1>9. \A i \in DOMAIN list : list[i].number >= from
  <2> SUFFICES ASSUME NEW i \in DOMAIN list  PROVE list[i].number >= from
    OBVIOUS
  <2>1. i = l \/ i < l  BY <1>3, <1>8
  <2>2. i < l => list[i].number > list[l].number
    BY <1>6 DEF Kept, Followed, InOrder
  <2>3. QED  BY <1>4, <1>6, <2>1, <2>2
<1>10. InOrder(new)
  <2> SUFFICES ASSUME NEW i \in DOMAIN new, NEW j \in DOMAIN new, i < j
               PROVE  new[i].number > new[j].number
    BY DEF InOrder
  <2>1. CASE i \in DOMAIN list /\ j \in DOMAIN list
    BY <1>8, <2>1 DEF Kept, Followed, InOrder
  <2>2. CASE i \in DOMAIN list /\ j - l \in DOMAIN page /\ new[j] = page[j - l]
    <3>1. new[i].number \in Nat /\ new[i].number >= from /\ new[j].number \in Nat
          /\ new[j].number < from
      BY <1>4, <1>5, <1>8, <1>9, <2>2
    <3>2. QED  BY <1>6, <3>1
  <2>3. CASE i - l \in DOMAIN page /\ new[i] = page[i - l] /\ i > l
    <3>1. j > l /\ i - l < j - l  BY <1>8, <2>3
    <3>2. j \notin DOMAIN list
      <4>1. \A m \in Nat : \A x \in 1..m : ~(x > m)  OBVIOUS
      <4>2. QED  BY <1>3, <3>1, <4>1
    <3>3. j - l \in DOMAIN page /\ new[j] = page[j - l]  BY <1>8, <3>2
    <3>4. QED  BY <1>1, <2>3, <3>1, <3>3 DEF Answerable, InOrder
  <2>4. QED  BY <1>8, <2>1, <2>2, <2>3
<1>11. \A i \in DOMAIN new :
          /\ Backed(new[i]) /\ Dated(new[i]) /\ key \in Concerns(new[i])
          /\ IsWritten(new[i]) => \A e \in DOMAIN events : events[e].build # new[i]
  <2> SUFFICES ASSUME NEW i \in DOMAIN new
               PROVE  /\ Backed(new[i]) /\ Dated(new[i]) /\ key \in Concerns(new[i])
                      /\ IsWritten(new[i]) => \A e \in DOMAIN events : events[e].build # new[i]
    OBVIOUS
  <2>1. CASE i \in DOMAIN list /\ new[i] = list[i]  BY <2>1 DEF Kept, Followed
  <2>2. CASE i - l \in DOMAIN page /\ new[i] = page[i - l]
    <3> SUFFICES ASSUME NEW b, b = new[i]
                 PROVE  Backed(b) /\ Dated(b) /\ key \in Concerns(b) /\ ~IsWritten(b)
      OBVIOUS
    <3>1. b \in Build /\ Stored(b) /\ Dated(b) /\ key \in Concerns(b)  BY <1>5, <2>2
    <3>2. QED  BY <3>1, StoredNotWritten DEF Backed
  <2>3. QED  BY <1>8, <2>1, <2>2
<1>12. Fresh(page) /\ Complete(page, key, from)
  BY <1>1 DEF Answerable, from
<1>13. Fresh(new)
  <2> SUFFICES ASSUME NEW i \in DOMAIN new, NEW b \in Live, b.number = new[i].number
               PROVE  b.version <= new[i].version \/ Due(b)
    BY DEF Fresh
  <2>1. CASE i \in DOMAIN list /\ new[i] = list[i]
    BY <2>1 DEF Kept, Followed, Fresh
  <2>2. CASE i - l \in DOMAIN page /\ new[i] = page[i - l]
    BY <1>12, <2>2 DEF Fresh
  <2>3. QED  BY <1>8, <2>1, <2>2
<1>14. Complete(new, key, FirstPage)
  <2> SUFFICES ASSUME NEW b \in Live, key \in Concerns(b), b.number < FirstPage
               PROVE  \/ Has(new, b.number)
                      \/ key \in Lists /\ Announced(b)
                      \/ EndsAbove(new, b.number)
    BY DEF Complete
  <2>1. b.number \in Nat  BY LiveProperties, BuildFields
  <2>2. Has(list, b.number) \/ Has(page, b.number) => Has(new, b.number)
    <3>1. ASSUME NEW i \in DOMAIN list, list[i].number = b.number  PROVE Has(new, b.number)
      <4>1. i \in DOMAIN new /\ new[i].number = b.number  BY <1>8, <3>1
      <4>2. QED  BY <4>1 DEF Has
    <3>2. ASSUME NEW j \in DOMAIN page, page[j].number = b.number  PROVE Has(new, b.number)
      <4>1. l + j \in DOMAIN new /\ new[l + j].number = b.number  BY <1>8, <3>2
      <4>2. QED  BY <4>1 DEF Has
    <3>3. QED  BY <3>1, <3>2 DEF Has
  <2>3. ASSUME EndsAbove(list, b.number)
        PROVE  \/ Has(new, b.number)
               \/ key \in Lists /\ Announced(b)
               \/ EndsAbove(new, b.number)
    <3>1. b.number < from
      <4>1. list[l].number > b.number  BY <1>6, <2>3 DEF EndsAbove
      <4>2. QED  BY <1>6, <2>1, <4>1
    <3>2. \/ Has(page, b.number)
          \/ key \in Lists /\ Announced(b)
          \/ EndsAbove(page, b.number)
      BY <1>12, <3>1 DEF Complete
    <3>3. EndsAbove(page, b.number) => EndsAbove(new, b.number)
      <4> SUFFICES ASSUME EndsAbove(page, b.number)  PROVE EndsAbove(new, b.number)
        OBVIOUS
      <4>1. Len(new) >= PageSize
        <5>1. \A m, n, p \in Nat : n >= p => m + n >= p  OBVIOUS
        <5>2. Len(page) >= PageSize  BY DEF EndsAbove
        <5>3. QED  BY <1>3, <1>7, <5>1, <5>2, Sizes
      <4>2. \A i \in DOMAIN new : new[i].number > b.number
        BY <1>8, <2>3 DEF EndsAbove
      <4>3. QED  BY <4>1, <4>2 DEF EndsAbove
    <3>4. QED  BY <2>2, <3>2, <3>3
  <2>4. QED  BY <2>2, <2>3 DEF Kept, Followed, Complete
<1>15. Followed(new, key)
  BY <1>1, <1>10, <1>11, <1>13, <1>14 DEF Followed
<1>16. ComesOnTop(new, key)
  <2> SUFFICES ASSUME NEW e \in DOMAIN events, ~events[e].void,
                      events[e].kind = "created", key \in Concerns(events[e].build),
                      NEW i \in DOMAIN new
               PROVE  new[i].number < events[e].build.number
    BY DEF ComesOnTop
  <2>1. \A j \in DOMAIN list : list[j].number < events[e].build.number
    BY <1>1 DEF Kept, ComesOnTop
  <2>2. CASE i \in DOMAIN list /\ new[i] = list[i]  BY <2>1, <2>2
  <2>3. CASE i - l \in DOMAIN page /\ new[i] = page[i - l]
    <3>1. new[i].number < from /\ from < events[e].build.number /\ new[i].number \in Nat
      BY <1>5, <1>6, <2>1, <2>3
    <3>2. events[e].build.number \in Nat  BY EventTypes, BuildFields
    <3>3. QED  BY <1>6, <3>1, <3>2
  <2>4. QED  BY <1>8, <2>2, <2>3
<1>17. QED  BY <1>15, <1>16 DEF Kept

\* The row that a restart wrote, in an object that was not newer.
LEMMA KeptRestarted ==
    ASSUME TypeOK, RowsOK, WritingOK, NEW build \in Build, Stored(build), Dated(build),
           NEW key \in Opened, key \in Concerns(build),
           NEW list \in Seq(Build), Kept(list, key),
           \A i \in DOMAIN list : ~(list[i].version > build.version),
           NEW new, new = Replace(list, build)
    PROVE  Kept(new, key)
<1>1. \A i \in DOMAIN list :
         /\ list[i] \in Build /\ Backed(list[i]) /\ Dated(list[i]) /\ key \in Concerns(list[i])
         /\ list[i].version \in Nat /\ list[i].number \in Nat
         /\ IsWritten(list[i]) => \A e \in DOMAIN events : events[e].build # list[i]
  BY ListTypes, BuildFields DEF Kept, Followed
<1>2. Backed(build) /\ ~IsWritten(build) /\ build.version \in Nat
  BY StoredNotWritten, BuildFields DEF Backed
<1>3. /\ new \in Seq(Build) /\ Len(new) = Len(list) /\ DOMAIN new = DOMAIN list
      /\ \A i \in DOMAIN list : /\ new[i].number = list[i].number
                                /\ new[i] = build \/ new[i] = list[i]
      /\ InOrder(list) => InOrder(new)
      /\ \A n : (Has(list, n) => Has(new, n)) /\ (EndsAbove(list, n) => EndsAbove(new, n))
  BY <1>1, <1>2, ReplacedNumbers
<1>4. Fresh(new)
  <2> SUFFICES ASSUME NEW i \in DOMAIN list, NEW b \in Live, b.number = list[i].number
               PROVE  b.version <= new[i].version \/ Due(b)
    BY <1>3 DEF Fresh
  <2>1. b.version <= list[i].version \/ Due(b)  BY DEF Kept, Followed, Fresh
  <2>2. list[i].version <= build.version
    BY <1>1, <1>2
  <2>3. b.version \in Nat  BY LiveProperties, BuildFields
  <2>4. b.version <= list[i].version => b.version <= build.version
    BY <1>1, <1>2, <2>2, <2>3
  <2>5. QED  BY <1>3, <2>1, <2>4
<1>5. Complete(new, key, FirstPage)
  BY <1>3 DEF Kept, Followed, Complete
<1>6. \A i \in DOMAIN new :
         /\ Backed(new[i]) /\ Dated(new[i]) /\ key \in Concerns(new[i])
         /\ IsWritten(new[i]) => \A e \in DOMAIN events : events[e].build # new[i]
  BY <1>1, <1>2, <1>3
<1>7. Followed(new, key)
  BY <1>3, <1>4, <1>5, <1>6 DEF Kept, Followed
<1>8. QED  BY <1>7, KeysApart DEF Kept

LEMMA CacheShown ==
    ASSUME TypeOK, RowsOK, WritingOK, CacheOK, NEW key \in Lists, ShowList(key)
    PROVE  CacheOK'
<1> SUFFICES ASSUME NEW k \in Keys \ spoiled', NEW new, new = cache'[k], new # None,
                    NEW list, list = cache[k]
             PROVE  Kept(new, k)'
  BY CacheNext
<1>1. /\ UNCHANGED <<builds, writing, writes, events, spoiled>>
      /\ cache' = [cache EXCEPT ![key] = SubSeq(@, 1, PageSize)]
      /\ Len(cache[key]) > PageSize /\ cache[key] # None
  BY DEF ShowList, Cached
<1>2. cache \in [Keys -> Seq(Build) \cup {None}]  BY DEF TypeOK
<1>3. list # None  BY <1>1, <1>2
<1>4. list \in Seq(Build) /\ Kept(list, k)  BY <1>1, <1>3, CacheType
<1>5. CASE k = key
  <2>1. new = SubSeq(list, 1, PageSize) /\ Len(list) > PageSize  BY <1>1, <1>2, <1>5
  <2>2. Kept(new, k)  BY <1>4, <1>5, <2>1, KeptTruncated
  <2>3. QED  BY <1>1, <2>2, KeptAsBefore
<1>6. CASE k # key
  <2>1. new = list  BY <1>1, <1>2, <1>6
  <2>2. QED  BY <1>1, <1>4, <2>1, KeptAsBefore
<1>7. QED  BY <1>5, <1>6

LEMMA CacheFetched ==
    ASSUME TypeOK, RowsOK, WritingOK, EventsInv, RequestsOK, CacheOK,
           NEW r \in Requests, AnswerFetch(r)
    PROVE  CacheOK'
<1> SUFFICES ASSUME NEW k \in Keys \ spoiled', NEW new, new = cache'[k], new # None,
                    NEW request, request = requests[r]
             PROVE  Kept(new, k)'
  BY CacheNext
<1> DEFINE twice == \E i \in DOMAIN events, j \in DOMAIN request.data :
              events[i].kind = "created" /\ events[i].build.id = request.data[j].id
<1>1. /\ UNCHANGED <<builds, writing, writes, events>>
      /\ request # None /\ request.op = "fetch" /\ request.stage = "read"
      /\ Put(request.key, request.data)
      /\ spoiled' = IF request.late \/ (request.key \in Lists /\ twice)
                    THEN spoiled \cup {request.key} ELSE spoiled \ {request.key}
  BY DEF AnswerFetch, Answered
<1>2. request \in Request /\ RequestOK(request) /\ request.key \in Keys
  BY <1>1, RequestType DEF RequestsOK
<1>3. cache \in [Keys -> Seq(Build) \cup {None}]  BY DEF TypeOK
<1>4. CASE k = request.key
  <2>1. ~request.late /\ ~(k \in Lists /\ twice)  BY <1>1, <1>4
  <2>2. new = request.data
    BY <1>1, <1>3, <1>4 DEF Put
  <2>3. Kept(new, k)  BY <1>1, <1>2, <1>4, <2>1, <2>2, KeptFetched
  <2>4. QED  BY <1>1, <2>3, KeptAsBefore
<1>5. CASE k # request.key
  <2>1. k \notin spoiled /\ new \in {None, cache[k]}
    BY <1>1, <1>3, <1>5 DEF Put
  <2>2. new = cache[k]  BY <2>1
  <2>3. Kept(new, k)  BY <2>1, <2>2, CacheType
  <2>4. QED  BY <1>1, <2>3, KeptAsBefore
<1>6. QED  BY <1>4, <1>5

LEMMA CacheLoadedMore ==
    ASSUME TypeOK, RowsOK, WritingOK, RequestsOK, CacheOK, NEW r \in Requests, AnswerMore(r)
    PROVE  CacheOK'
<1> SUFFICES ASSUME NEW k \in Keys \ spoiled', NEW new, new = cache'[k], new # None,
                    NEW request, request = requests[r], NEW list, list = cache[k]
             PROVE  Kept(new, k)'
  BY CacheNext
<1>1. /\ UNCHANGED <<builds, writing, writes, events>>
      /\ request # None /\ request.op = "more" /\ request.stage = "read"
      /\ Cached(request.key) => cache[request.key] # <<>>
      /\ new = IF k \in {All, request.key} /\ Cached(k) THEN list \o request.data ELSE list
      /\ spoiled' = spoiled \cup {x \in {All, request.key} :
                                     Cached(x) /\ (\/ x # request.key
                                                   \/ request.late
                                                   \/ Last(cache[x]).number # request.from)}
  BY DEF AnswerMore, Answered
<1>2. request \in Request /\ RequestOK(request)
  BY <1>1, RequestType DEF RequestsOK
<1>3. list # None  BY <1>1 DEF Cached
<1>4. list \in Seq(Build) /\ Kept(list, k)  BY <1>1, <1>3, CacheType
<1>5. CASE k \in {All, request.key}
  <2>1. Cached(k)  BY <1>3 DEF Cached
  <2>2. k = request.key /\ ~request.late /\ Last(list).number = request.from
        /\ list # <<>> /\ new = list \o request.data
    BY <1>1, <1>5, <2>1
  <2>3. Kept(new, k)  BY <1>1, <1>2, <1>4, <2>2, KeptLonger
  <2>4. QED  BY <1>1, <2>3, KeptAsBefore
<1>6. CASE k \notin {All, request.key}
  <2>1. new = list  BY <1>1, <1>6
  <2>2. QED  BY <1>1, <1>4, <2>1, KeptAsBefore
<1>7. QED  BY <1>5, <1>6

LEMMA CacheRestarted ==
    ASSUME TypeOK, RowsOK, WritingOK, RequestsOK, CacheOK, NEW r \in Requests,
           AnswerRestart(r)
    PROVE  CacheOK'
<1> SUFFICES ASSUME NEW k \in Keys \ spoiled', NEW new, new = cache'[k], new # None,
                    NEW request, request = requests[r], NEW list, list = cache[k],
                    NEW build, build = Head(request.data)
             PROVE  Kept(new, k)'
  BY CacheNext
<1>1. /\ UNCHANGED <<builds, writing, writes, events>>
      /\ request # None /\ request.op = "restart" /\ request.stage = "read"
      /\ cache' = [cache EXCEPT ![request.key] =
                      IF Cached(request.key) THEN Replace(@, build) ELSE None]
      /\ spoiled' = IF Cached(request.key) /\ \E i \in DOMAIN cache[request.key] :
                          cache[request.key][i].version > build.version
                    THEN spoiled \cup {request.key} ELSE spoiled
  BY DEF AnswerRestart, Answered
<1>2. request \in Request /\ RequestOK(request) /\ request.data \in Seq(Build)
  BY <1>1, RequestType DEF RequestsOK
<1>3. request.key \in Opened /\ Answerable(request)  BY <1>1, <1>2 DEF RequestOK
<1>4. 1 \in DOMAIN request.data /\ build = request.data[1]
  <2>1. Len(request.data) = 1  BY <1>3 DEF Answerable
  <2>2. 1 \in 1..1 /\ Len(<<>>) = 0 /\ 0 # 1  OBVIOUS
  <2>3. 1 \in DOMAIN request.data  BY <1>2, <2>1, <2>2, ListTypes
  <2>4. request.data # <<>>  BY <2>1, <2>2
  <2>5. QED  BY <1>2, <2>3, <2>4
<1>5. build \in Build /\ Stored(build) /\ Dated(build) /\ request.key \in Concerns(build)
  BY <1>2, <1>3, <1>4, ListTypes DEF Answerable
<1>6. cache \in [Keys -> Seq(Build) \cup {None}] /\ k \notin spoiled  BY <1>1 DEF TypeOK
<1>7. list # None  BY <1>1, <1>6 DEF Cached
<1>8. list \in Seq(Build) /\ Kept(list, k)  BY <1>6, <1>7, CacheType
<1>9. CASE k = request.key
  <2>1. new = Replace(list, build) /\ \A i \in DOMAIN list : ~(list[i].version > build.version)
    BY <1>1, <1>6, <1>7, <1>9 DEF Cached
  <2>2. Kept(new, k)  BY <1>3, <1>5, <1>8, <1>9, <2>1, KeptRestarted
  <2>3. QED  BY <1>1, <2>2, KeptAsBefore
<1>10. CASE k # request.key
  <2>1. new = list  BY <1>1, <1>6, <1>10
  <2>2. QED  BY <1>1, <1>8, <2>1, KeptAsBefore
<1>11. QED  BY <1>9, <1>10

LEMMA CacheStep ==
    ASSUME TypeOK, RowsOK, WritingOK, EventsInv, RequestsOK, CacheOK, [Next]_vars
    PROVE  CacheOK'
<1>1. ASSUME UNCHANGED <<builds, writing, writes, events, cache, spoiled>>  PROVE CacheOK'
  <2> SUFFICES ASSUME NEW k \in Keys \ spoiled', NEW list, list = cache'[k], list # None
               PROVE  Kept(list, k)'
    BY CacheNext
  <2>1. Kept(list, k)  BY <1>1, CacheType
  <2>2. QED  BY <1>1, <2>1, KeptAsBefore
<1>2. ASSUME NEW kind \in {"created", "updated"}, NEW build \in Build,
             NEW by \in Requests \cup {None}, Begins(kind, build, by)
      PROVE  CacheOK'
  BY <1>2, CacheBegun
<1>3. CASE Commit  BY <1>3, CacheCommitted
<1>4. CASE Rollback  BY <1>4, CacheRolledBack
<1>5. ASSUME NEW r \in Requests, RefuseRestart(r)  PROVE CacheOK'
  BY <1>1, <1>5 DEF RefuseRestart
<1>6. ASSUME NEW r \in Requests, Read(r)  PROVE CacheOK'
  <2>1. UNCHANGED <<builds, writing, writes, events, cache, spoiled>>  BY <1>6 DEF Read
  <2>2. QED  BY <1>1, <2>1
<1>7. CASE OpenStream  BY <1>1, <1>7 DEF OpenStream
<1>8. CASE Receive  BY <1>8, CacheReceived
<1>9. ASSUME NEW key \in Lists, ShowList(key)  PROVE CacheOK'
  BY <1>9, CacheShown
<1>10. ASSUME NEW r, NEW op, NEW key, NEW from, Asks(r, op, key, from)  PROVE CacheOK'
  BY <1>1, <1>10 DEF Asks, Ask
<1>11. ASSUME NEW r \in Requests, AnswerFetch(r)  PROVE CacheOK'
  BY <1>11, CacheFetched
<1>12. ASSUME NEW r \in Requests, AnswerMore(r)  PROVE CacheOK'
  BY <1>12, CacheLoadedMore
<1>13. ASSUME NEW r \in Requests, AnswerRestart(r)  PROVE CacheOK'
  BY <1>13, CacheRestarted
<1>14. CASE UNCHANGED vars  BY <1>1, <1>14 DEF vars
<1>15. QED
  BY <1>2, <1>3, <1>4, <1>5, <1>6, <1>7, <1>8, <1>9, <1>10, <1>11, <1>12, <1>13, <1>14,
     StepCases

-----------------------------------------------------------------------------
(* The room of the cache *)

WithinCapacity ==
    LET kept == {k \in Keys : Cached(k)}
    IN  IsFiniteSet(kept) /\ Cardinality(kept) <= Capacity

\* cache.put makes room before it keeps one more.
LEMMA RoomToPut ==
    ASSUME TypeOK, WithinCapacity, NEW key \in Keys, NEW data \in Seq(Build), Put(key, data)
    PROVE  WithinCapacity'
<1> DEFINE kept == {k \in Keys : cache[k] # None}
           now == {k \in Keys : cache'[k] # None}
<1>1. IsFiniteSet(kept) /\ Cardinality(kept) <= Capacity /\ Cardinality(kept) \in Nat
  BY FS_CardinalityType DEF WithinCapacity, Cached
<1>2. cache \in [Keys -> Seq(Build) \cup {None}]  BY DEF TypeOK
<1>3. SUFFICES IsFiniteSet(now) /\ Cardinality(now) <= Capacity
  BY DEF WithinCapacity, Cached
<1>4. \/ key \in kept /\ cache' = [cache EXCEPT ![key] = data]
      \/ Cardinality(kept) < Capacity /\ cache' = [cache EXCEPT ![key] = data]
      \/ \E dropped \in kept : cache' = [cache EXCEPT ![dropped] = None, ![key] = data]
  BY DEF Put, Cached
<1>5. CASE key \in kept /\ cache' = [cache EXCEPT ![key] = data]
  <2>1. now \in SUBSET kept  BY <1>2, <1>5
  <2> HIDE DEF now, kept
  <2>2. IsFiniteSet(now) /\ Cardinality(now) \in Nat /\ Cardinality(now) <= Cardinality(kept)
    BY <1>1, <2>1, FS_Subset, FS_CardinalityType
  <2>3. QED  BY <1>1, <2>2, Sizes
<1>6. CASE Cardinality(kept) < Capacity /\ cache' = [cache EXCEPT ![key] = data]
  <2>1. now \in SUBSET (kept \cup {key})  BY <1>2, <1>6
  <2> HIDE DEF now, kept
  <2>2. IsFiniteSet(kept \cup {key})
        /\ Cardinality(kept \cup {key}) \in {Cardinality(kept), Cardinality(kept) + 1}
    BY <1>1, FS_AddElement
  <2>3. IsFiniteSet(now) /\ Cardinality(now) \in Nat
        /\ Cardinality(now) <= Cardinality(kept \cup {key})
    BY <2>1, <2>2, FS_Subset, FS_CardinalityType
  <2>4. QED  BY <1>1, <1>6, <2>2, <2>3, Sizes
<1>7. ASSUME NEW dropped \in kept,
             cache' = [cache EXCEPT ![dropped] = None, ![key] = data]
      PROVE  IsFiniteSet(now) /\ Cardinality(now) <= Capacity
  <2> DEFINE others == kept \ {dropped}
  <2>1. now \in SUBSET (others \cup {key})  BY <1>2, <1>7
  <2> HIDE DEF now, kept
  <2>2. IsFiniteSet(others) /\ Cardinality(others) = Cardinality(kept) - 1
        /\ Cardinality(others) \in Nat
    BY <1>1, <1>7, FS_RemoveElement, FS_CardinalityType
  <2> HIDE DEF others
  <2>3. IsFiniteSet(others \cup {key})
        /\ Cardinality(others \cup {key}) \in {Cardinality(others), Cardinality(others) + 1}
    BY <2>2, FS_AddElement
  <2>4. IsFiniteSet(now) /\ Cardinality(now) \in Nat
        /\ Cardinality(now) <= Cardinality(others \cup {key})
    BY <2>1, <2>3, FS_Subset, FS_CardinalityType
  <2>5. QED  BY <1>1, <2>2, <2>3, <2>4, Sizes
<1>8. QED  BY <1>4, <1>5, <1>6, <1>7

LEMMA CapacityStep ==
    ASSUME TypeOK, RowsOK, WithinCapacity, [Next]_vars
    PROVE  WithinCapacity'
\* Nothing comes into the cache.
<1>1. ASSUME \A k \in Keys : cache'[k] # None => cache[k] # None
      PROVE  WithinCapacity'
  <2> DEFINE kept == {k \in Keys : cache[k] # None}
             now == {k \in Keys : cache'[k] # None}
  <2>1. now \in SUBSET kept  BY <1>1
  <2>2. IsFiniteSet(kept) /\ Cardinality(kept) <= Capacity
    BY DEF WithinCapacity, Cached
  <2>3. SUFFICES IsFiniteSet(now) /\ Cardinality(now) <= Capacity
    BY DEF WithinCapacity, Cached
  <2> HIDE DEF now, kept
  <2>4. IsFiniteSet(now) /\ Cardinality(now) <= Cardinality(kept)
        /\ Cardinality(now) \in Nat /\ Cardinality(kept) \in Nat
    BY <2>1, <2>2, FS_Subset, FS_CardinalityType
  <2>5. QED  BY <2>2, <2>4, Sizes
<1>2. cache \in [Keys -> Seq(Build) \cup {None}]  BY DEF TypeOK
<1>3. ASSUME NEW kind, NEW build, NEW by, Begins(kind, build, by)
      PROVE  cache' = cache
  BY <1>3 DEF Begins
<1>4. Commit \/ Rollback \/ OpenStream => cache' = cache
  BY DEF Commit, Rollback, OpenStream
<1>5. ASSUME NEW r \in Requests, RefuseRestart(r)  PROVE cache' = cache
  BY <1>5 DEF RefuseRestart
<1>6. ASSUME NEW r \in Requests, Read(r)  PROVE cache' = cache
  BY <1>6 DEF Read
<1>7. ASSUME Receive, NEW k \in Keys, cache'[k] # None  PROVE cache[k] # None
  BY <1>7 DEF Receive, Applied, Cached
<1>8. ASSUME NEW key \in Lists, ShowList(key), NEW k \in Keys, cache'[k] # None
      PROVE  cache[k] # None
  BY <1>2, <1>8 DEF ShowList, Cached
<1>9. ASSUME NEW r, NEW op, NEW key, NEW from, Asks(r, op, key, from)  PROVE cache' = cache
  BY <1>9 DEF Asks, Ask
<1>10. ASSUME NEW r \in Requests, AnswerFetch(r)  PROVE WithinCapacity'
  <2>1. requests[r].key \in Keys /\ requests[r].data \in Seq(Build)
        /\ Put(requests[r].key, requests[r].data)
    BY <1>10, RequestType DEF AnswerFetch, Answered
  <2>2. QED  BY <2>1, RoomToPut
<1>11. ASSUME NEW r \in Requests, AnswerMore(r), NEW k \in Keys, cache'[k] # None
       PROVE  cache[k] # None
  BY <1>11 DEF AnswerMore, Cached
<1>12. ASSUME NEW r \in Requests, AnswerRestart(r), NEW k \in Keys, cache'[k] # None
       PROVE  cache[k] # None
  BY <1>2, <1>12 DEF AnswerRestart, Cached
<1>13. UNCHANGED vars => cache' = cache  BY DEF vars
<1>14. QED
  BY <1>1, <1>3, <1>4, <1>5, <1>6, <1>7, <1>8, <1>9, <1>10, <1>11, <1>12, <1>13, StepCases

-----------------------------------------------------------------------------
(* Theorems *)

IInv == TypeOK /\ CacheInv /\ WithinCapacity

LEMMA Initially == Init => IInv
<1> SUFFICES ASSUME Init  PROVE IInv
  OBVIOUS
<1>1. /\ builds = <<>> /\ writing = None /\ writes = 0 /\ open = FALSE /\ events = <<>>
      /\ cache = [key \in Keys |-> None] /\ requests = [r \in Requests |-> None]
      /\ spoiled = {}
  BY DEF Init
<1>2. builds \in Seq(Build) /\ events \in Seq(Event) /\ Len(builds) = 0
      /\ DOMAIN builds = {} /\ DOMAIN events = {}
  <2>1. <<>> \in Seq(Build) /\ <<>> \in Seq(Event)  BY EmptySeq
  <2>2. Len(<<>>) = 0 /\ DOMAIN <<>> = {}  OBVIOUS
  <2>3. QED  BY <1>1, <2>1, <2>2
<1>3. TypeOK
  <2>1. \A m \in Nat : 0 \in 0..m  OBVIOUS
  <2>2. QED  BY <1>1, <1>2, <2>1, Sizes DEF TypeOK
<1>4. RowsOK /\ WritingOK /\ RestartsOK /\ RestartsAnswered /\ RequestsOK /\ CacheOK
  BY <1>1, <1>2 DEF RowsOK, WritingOK, RestartsOK, RestartsAnswered, RequestsOK, CacheOK, Cached
<1>5. EventsInOrder /\ EventsBacked /\ EventsFollow /\ NewBuildsInOrder
  BY <1>1, <1>2 DEF EventsInOrder, EventsBacked, EventsFollow, NewBuildsInOrder
<1>6. WithinCapacity
  <2>1. {k \in Keys : Cached(k)} = {}  BY <1>1 DEF Cached
  <2>2. QED  BY <2>1, FS_EmptySet, Sizes DEF WithinCapacity
<1>7. QED  BY <1>3, <1>4, <1>5, <1>6 DEF IInv, CacheInv

LEMMA Inductive == IInv /\ [Next]_vars => IInv'
<1> SUFFICES ASSUME IInv, [Next]_vars  PROVE IInv'
  OBVIOUS
<1>1. /\ TypeOK /\ RowsOK /\ WritingOK /\ RestartsOK /\ RestartsAnswered /\ EventsInv
      /\ RequestsOK /\ CacheOK /\ WithinCapacity
  BY DEF IInv, CacheInv, EventsInv
<1>2. TypeOK'  BY <1>1, TypesStep
<1>3. RowsOK' /\ WritingOK'  BY <1>1, RowsStep
<1>4. RestartsOK' /\ RestartsAnswered'  BY <1>1, RestartsStep
<1>5. EventsInv'  BY <1>1, EventsStep
<1>6. RequestsOK'  BY <1>1, RequestsStep
<1>7. CacheOK'  BY <1>1, CacheStep
<1>8. WithinCapacity'  BY <1>1, CapacityStep
<1>9. QED  BY <1>2, <1>3, <1>4, <1>5, <1>6, <1>7, <1>8 DEF IInv, CacheInv, EventsInv

\* A copy of a build that is older than the server's has an event to come, and a build
\* that is missing from a list is to be announced or lies behind its end: whatever
\* transactions, events, fetches, pages, evictions and restarts of builds interleave,
\* but for the keys that are spoiled.
THEOREM CacheInvariance == Spec => []IInv
BY Initially, Inductive, PTL DEF Spec

\* Rows, events, answers and what is cached keep their shape.
THEOREM CacheTypes == Spec => []TypeOK
<1>1. IInv => TypeOK  BY DEF IInv
<1>2. QED  BY <1>1, CacheInvariance, PTL

\* cacheService never holds more than it was made for.
THEOREM CacheBounded == Spec => []WithinCapacity
<1>1. IInv => WithinCapacity  BY DEF IInv
<1>2. QED  BY <1>1, CacheInvariance, PTL

\* A list shows the newest build first and each build once, while events and pages
\* arrive in any order.
THEOREM ListsInOrder == Spec => []NewestFirst
<1>1. IInv => NewestFirst
  BY KeysApart DEF IInv, CacheInv, CacheOK, Kept, Followed, NewestFirst
<1>2. QED  BY <1>1, CacheInvariance, PTL

\* Once the events are delivered, a key that is not spoiled holds the rows of the server
\* as they are, and all of them down to where a page was cut off.
THEOREM ServerFollowed == Spec => []CacheFollowsServer
<1>1. ASSUME IInv  PROVE CacheFollowsServer
  <2> SUFFICES ASSUME writing = None, events = <<>>,
                      NEW k \in Keys \ spoiled, Cached(k),
                      NEW list, list = cache[k]
               PROVE  /\ InOrder(list)
                      /\ \A i \in DOMAIN list : /\ list[i].number \in DOMAIN builds
                                                /\ list[i] = builds[list[i].number]
                      /\ \A n \in DOMAIN builds : k \in Concerns(builds[n]) =>
                            Has(list, n) \/ EndsAbove(list, n)
    BY DEF CacheFollowsServer, IsQuiet
  <2>1. TypeOK /\ RowsOK /\ CacheOK  BY <1>1 DEF IInv, CacheInv
  <2>2. list \in Seq(Build) /\ Followed(list, k)
    BY <2>1, CacheType DEF Cached, Kept
  <2>3. \A b : ~Due(b) /\ ~Announced(b)
    <3>1. DOMAIN <<>> = {}  OBVIOUS
    <3>2. QED  BY <3>1 DEF Due, Announced
  <2>4. \A n \in DOMAIN builds : builds[n] \in Live /\ builds[n].number = n
    BY <2>1 DEF Live, RowsOK
  <2>5. ASSUME NEW i \in DOMAIN list
        PROVE  list[i].number \in DOMAIN builds /\ list[i] = builds[list[i].number]
    <3>1. Stored(list[i])  BY <2>2 DEF Followed, Backed, IsWritten
    <3>2. builds[list[i].number].version <= list[i].version
      BY <2>2, <2>3, <2>4, <3>1 DEF Followed, Fresh, Stored
    <3>3. builds[list[i].number].version \in Nat /\ list[i].version \in Nat
      BY <2>1, <2>2, <3>1, ListTypes, RowsOfBuilds, BuildFields DEF Stored
    <3>4. QED  BY <3>1, <3>2, <3>3 DEF Stored
  <2>6. ASSUME NEW n \in DOMAIN builds, k \in Concerns(builds[n])
        PROVE  Has(list, n) \/ EndsAbove(list, n)
    <3>1. n < FirstPage  BY <2>1, <2>4, RowsOfBuilds, BuildFields
    <3>2. QED  BY <2>2, <2>3, <2>4, <2>6, <3>1 DEF Followed, Complete
  <2>7. QED  BY <2>2, <2>5, <2>6 DEF Followed
<1>2. QED  BY <1>1, CacheInvariance, PTL
=============================================================================
