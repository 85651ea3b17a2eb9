------------------------- MODULE ProjectBuilds_proofs -------------------------
(***************************************************************************)
(* Why the builds of a project are numbered without gaps and without       *)
(* clashes, for any number of transactions, branches and configurations.   *)
(*                                                                         *)
(* The argument: the numbers in the table are 1..k; a transaction that has *)
(* computed a number holds the lock, so nobody else has one, and nobody    *)
(* commits a row until it has used or dropped it: its number is k+1.       *)
(***************************************************************************)
EXTENDS ProjectBuildsRefinement, FiniteSetTheorems, FunctionTheorems,
        SequenceTheorems, WellFoundedInduction, TLAPS

Holding == {"locked", "numbered"}

\* Who is inside its transaction holds the lock, and the other way round.
LockHeld == \A t \in Transactions : tx[t].stage \in Holding <=> lock = t

\* The table has no gaps.
Dense == \E k \in Nat : Numbers = 1..k

\* A number that was computed follows the last one in the table.
NextNumber ==
    \A t \in Transactions : tx[t].stage = "numbered" =>
        /\ tx[t].number \in 1..MaxBuilds
        /\ Numbers = 1..(tx[t].number - 1)

AsksForJobs(c) == c.regular + c.deploy > 0

\* Every build asked for a job, and so does whatever is going to be copied.
Configured ==
    /\ \A t \in Transactions : tx[t].stage # "idle" =>
          /\ tx[t].branch \in Branches
          /\ tx[t].config \in Configurations
          /\ tx[t].rebuild => AsksForJobs(tx[t].config)
    /\ \A n \in Numbers :
          /\ AsksForJobs(builds[n].config)
          /\ builds[n].jobs = JobNumbers(builds[n].config)

IInv == TypeOK /\ LockHeld /\ Dense /\ NextNumber /\ Configured

-----------------------------------------------------------------------------
\* The maximum of an interval that starts at 1 is its end.
LEMMA MaxInterval ==
    ASSUME NEW k \in Nat, k # 0
    PROVE  Max(1..k) = k
<1>1. k \in 1..k /\ \A y \in 1..k : k >= y  OBVIOUS
<1>2. \A x \in 1..k : (\A y \in 1..k : x >= y) => x = k  BY <1>1
<1>3. QED  BY <1>1, <1>2 DEF Max

\* A finite non-empty set of integers has a maximum, in it: the member with the
\* smallest set of larger members.
LEMMA MaxInSet ==
    ASSUME NEW S, S \subseteq Int, S # {}, IsFiniteSet(S)
    PROVE  Max(S) \in S
<1> DEFINE Above(x) == {y \in S : y > x}
           T == {Above(x) : x \in S}
           R == StrictSubsetOrdering(S)
<1>1. IsWellFoundedOn(R, SUBSET S)
  BY FS_StrictSubsetOrderingWellFounded, FS_FiniteSubsetsOfFinite
<1>2. T # {} /\ T \subseteq SUBSET S  OBVIOUS
<1>3. \E U \in T : \A V \in T : ~ (<<V, U>> \in R)
  <2> HIDE DEF T, R
  <2> QED  BY <1>1, <1>2, WFMin
<1>4. PICK x \in S : \A V \in T : ~ (<<V, Above(x)>> \in R)  BY <1>3
<1>5. \A y \in S : x >= y
  <2>1. SUFFICES ASSUME NEW y \in S, y > x  PROVE FALSE
    <3>1. x \in Int /\ \A z \in S : z \in Int  BY <1>4
    <3>2. QED  BY <3>1
  <2>2. y \in Above(x) /\ y \notin Above(y) /\ Above(y) \subseteq Above(x)
    <3>1. x \in Int /\ y \in Int /\ \A z \in S : z \in Int  BY <1>4
    <3>2. ~ (y > y)  BY <3>1
    <3>3. \A z \in S : z > y => z > x
      <4>1. SUFFICES ASSUME NEW z \in S, z > y  PROVE z > x  OBVIOUS
      <4>2. z \in Int  BY <3>1
      <4>3. QED  BY <2>1, <3>1, <4>1, <4>2
    <3>4. QED  BY <2>1, <3>2, <3>3
  <2>3. <<Above(y), Above(x)>> \in R
    <3>1. Above(y) \in SUBSET S /\ Above(x) \in SUBSET S  OBVIOUS
    <3>2. Above(y) \subseteq Above(x) /\ Above(y) # Above(x)  BY <2>2
    <3> HIDE DEF Above
    <3>3. QED  BY <3>1, <3>2 DEF StrictSubsetOrdering
  <2>4. Above(y) \in T  OBVIOUS
  <2>5. QED  BY <1>4, <2>3, <2>4
<1>6. QED  BY <1>5 DEF Max

-----------------------------------------------------------------------------
\* Nothing in an interval of length n-1 is missing below n.
LEMMA NextOfDense ==
    ASSUME NEW k \in Nat, Numbers = 1..k
    PROVE  /\ IsFiniteSet(Numbers)
           /\ Cardinality(Numbers) = k
           /\ (IF Numbers = {} THEN 1 ELSE Max(Numbers) + 1) = k + 1
<1>1. IsFiniteSet(Numbers) /\ Cardinality(Numbers) = k
  BY FS_Interval
<1>2. (IF Numbers = {} THEN 1 ELSE Max(Numbers) + 1) = k + 1
  <2>1. CASE k = 0  BY <2>1
  <2>2. CASE k # 0
    <3>0. 1 \in 1..k  BY <2>2
    <3>1. Numbers # {}  BY <3>0
    <3>2. Max(1..k) = k  BY <2>2, MaxInterval
    <3>3. QED  BY <3>1, <3>2
  <2>3. QED  BY <2>1, <2>2
<1>3. QED  BY <1>1, <1>2

LEMMA InitInvariant == Init => IInv
<1> SUFFICES ASSUME Init  PROVE IInv  OBVIOUS
<1>1. Numbers = {}  BY DEF Init, Numbers
<1>2. \A t \in Transactions : tx[t] = Idle  BY DEF Init
<1>3. Numbers = 1..0  BY <1>1
<1>4. TypeOK
  BY <1>1 DEF Init, TypeOK, Idle
<1>5. LockHeld
  BY <1>2, NoneAssumption DEF Init, LockHeld, Holding, Idle
<1>6. NextNumber /\ Configured
  BY <1>1, <1>2 DEF NextNumber, Configured, Idle
<1>7. QED  BY <1>3, <1>4, <1>5, <1>6 DEF IInv, Dense

\* Nothing that a commit relies on changes while no row is added.
LEMMA TableKept ==
    ASSUME IInv, Numbers' = Numbers,
           \A n \in Numbers : /\ builds'[n] \in Rows
                              /\ builds'[n].config = builds[n].config
                              /\ builds'[n].jobs = builds[n].jobs
    PROVE  /\ Dense'
           /\ Numbers' \subseteq 1..MaxBuilds
           /\ \A n \in Numbers' : builds'[n] \in Rows
           /\ \A n \in Numbers' : /\ AsksForJobs(builds'[n].config)
                                  /\ builds'[n].jobs = JobNumbers(builds'[n].config)
  BY DEF IInv, Dense, TypeOK, Configured

LEMMA NextInvariant == IInv /\ [Next]_vars => IInv'
<1> SUFFICES ASSUME IInv, [Next]_vars  PROVE IInv'  OBVIOUS
<1>0. TypeOK /\ LockHeld /\ Dense /\ NextNumber /\ Configured  BY DEF IInv
<1>1. ASSUME NEW t \in Transactions, NEW b \in Branches, NEW c \in Configurations,
             LockForPayload(t, b, c)
      PROVE  IInv'
  <2> DEFINE new == [stage |-> "locked", rebuild |-> FALSE,
                     branch |-> b, config |-> c, number |-> 0]
  <2>1. /\ builds' = builds /\ lock = None /\ lock' = t
        /\ tx' = [tx EXCEPT ![t] = new]
    BY <1>1 DEF LockForPayload
  <2>2. /\ tx'[t] = new
        /\ \A u \in Transactions \ {t} : tx'[u] = tx[u]
    BY <1>0, <2>1 DEF TypeOK
  <2>3. TypeOK'
    BY <1>0, <2>1 DEF TypeOK, Numbers
  <2>4. LockHeld'
    BY <1>0, <2>1, <2>2, NoneAssumption DEF LockHeld, Holding
  <2>5. NextNumber' /\ Configured' /\ Dense'
    BY <1>0, <2>1, <2>2 DEF NextNumber, Configured, Dense, Numbers
  <2>6. QED  BY <2>3, <2>4, <2>5 DEF IInv
<1>2. ASSUME NEW t \in Transactions, NEW b \in Branches, LoadForRebuild(t, b)
      PROVE  IInv'
  <2> DEFINE n == Max(FinishedIn(b))
             new == [stage |-> "loaded", rebuild |-> TRUE, branch |-> b,
                     config |-> builds[n].config, number |-> 0]
  <2>1. /\ builds' = builds /\ lock' = lock
        /\ tx[t].stage = "idle"
        /\ tx' = [tx EXCEPT ![t] = new]
    BY <1>2 DEF LoadForRebuild
  <2>2. n \in Numbers
    <3>1. FinishedIn(b) \subseteq Numbers /\ FinishedIn(b) # {}
      BY <1>2 DEF LoadForRebuild, FinishedIn
    <3>2. IsFiniteSet(FinishedIn(b)) /\ FinishedIn(b) \subseteq Int
      BY <1>0, <3>1, NextOfDense, FS_Subset DEF Dense
    <3>3. QED  BY <3>1, <3>2, MaxInSet
  <2>3. builds[n].config \in Configurations /\ AsksForJobs(builds[n].config)
    BY <1>0, <2>2 DEF TypeOK, Rows, Configured
  <2> HIDE DEF n
  <2>4. /\ tx'[t] = new
        /\ \A u \in Transactions \ {t} : tx'[u] = tx[u]
    BY <1>0, <2>1 DEF TypeOK
  <2>5. TypeOK'
    BY <1>0, <2>1, <2>3 DEF TypeOK, Numbers
  <2>6. LockHeld'
    BY <1>0, <2>1, <2>4, NoneAssumption DEF LockHeld, Holding
  <2>7. NextNumber' /\ Configured' /\ Dense'
    BY <1>0, <2>1, <2>3, <2>4 DEF NextNumber, Configured, Dense, Numbers
  <2>8. QED  BY <2>5, <2>6, <2>7 DEF IInv
<1>3. ASSUME NEW t \in Transactions, LockForRebuild(t)  PROVE IInv'
  <2>1. /\ builds' = builds /\ lock = None /\ lock' = t
        /\ tx[t].stage = "loaded"
        /\ tx'[t] = [tx[t] EXCEPT !.stage = "locked"]
        /\ \A u \in Transactions \ {t} : tx'[u] = tx[u]
    BY <1>0, <1>3 DEF LockForRebuild, TypeOK
  <2>2. /\ tx'[t].stage = "locked" /\ tx'[t].rebuild = tx[t].rebuild
        /\ tx'[t].branch = tx[t].branch /\ tx'[t].config = tx[t].config
    BY <1>0, <2>1 DEF TypeOK
  <2>3. TypeOK'
    BY <1>0, <1>3, <2>1 DEF LockForRebuild, TypeOK, Numbers
  <2>4. LockHeld'
    BY <1>0, <2>1, <2>2, NoneAssumption DEF LockHeld, Holding
  <2>5. NextNumber' /\ Configured' /\ Dense'
    BY <1>0, <2>1, <2>2 DEF NextNumber, Configured, Dense, Numbers
  <2>6. QED  BY <2>3, <2>4, <2>5 DEF IInv
<1>4. ASSUME NEW t \in Transactions, AssignNumber(t)  PROVE IInv'
  <2>1. /\ builds' = builds /\ lock' = lock /\ tx[t].stage = "locked"
        /\ Cardinality(Numbers) < MaxBuilds
    BY <1>4 DEF AssignNumber
  <2>2. PICK k \in Nat : Numbers = 1..k  BY <1>0 DEF Dense
  <2>3. /\ k < MaxBuilds
        /\ tx' = [tx EXCEPT ![t].stage = "numbered", ![t].number = k + 1]
    BY <1>4, <2>1, <2>2, NextOfDense DEF AssignNumber
  <2>4. /\ tx'[t] = [tx[t] EXCEPT !.stage = "numbered", !.number = k + 1]
        /\ \A u \in Transactions \ {t} : tx'[u] = tx[u]
    BY <1>0, <2>3 DEF TypeOK
  <2>5. /\ tx'[t].stage = "numbered" /\ tx'[t].rebuild = tx[t].rebuild
        /\ tx'[t].branch = tx[t].branch /\ tx'[t].config = tx[t].config
        /\ tx'[t].number = k + 1
    BY <1>0, <2>4 DEF TypeOK
  <2>6. TypeOK'
    <3>1. k + 1 \in Nat  OBVIOUS
    <3> DEFINE new == k + 1
    <3>2. tx' = [tx EXCEPT ![t].stage = "numbered", ![t].number = new]
      BY <2>3
    <3>3. builds' = builds /\ lock' = lock  BY <2>1
    <3> HIDE DEF new
    <3>4. new \in Nat  BY <3>1 DEF new
    <3>5. QED  BY <1>0, <3>2, <3>3, <3>4 DEF TypeOK, Numbers
  <2>7. LockHeld'
    <3>1. tx[t].stage \in Holding /\ tx'[t].stage \in Holding
      BY <2>1, <2>5 DEF Holding
    <3>2. \A u \in Transactions : tx'[u].stage \in Holding <=> tx[u].stage \in Holding
      BY <2>4, <3>1
    <3>3. QED  BY <1>0, <2>1, <3>2 DEF LockHeld
  <2>8. NextNumber'
    <3>1. k + 1 \in 1..MaxBuilds /\ (k + 1) - 1 = k
      BY <2>2, <2>3, BoundAssumption
    <3>2. tx'[t].number \in 1..MaxBuilds /\ Numbers' = 1..(tx'[t].number - 1)
      BY <2>1, <2>2, <2>5, <3>1 DEF Numbers
    <3>3. QED  BY <1>0, <2>1, <2>4, <3>2 DEF NextNumber, Numbers
  <2>9. Configured' /\ Dense'
    BY <1>0, <2>1, <2>4, <2>5 DEF Configured, Dense, Numbers
  <2>10. QED  BY <2>6, <2>7, <2>8, <2>9 DEF IInv
<1>5. ASSUME NEW t \in Transactions, Commit(t)  PROVE IInv'
  <2> DEFINE n == tx[t].number
  <2>1. tx[t].stage = "numbered" /\ Acceptable(t)  BY <1>5 DEF Commit
  <2>2. lock = t  BY <1>0, <2>1 DEF LockHeld, Holding
  <2>3. /\ lock' = None /\ tx'[t] = Idle
        /\ \A u \in Transactions \ {t} : tx'[u] = tx[u]
    BY <1>0, <1>5, <2>2 DEF Commit, Release, TypeOK
  <2>4. n \in 1..MaxBuilds /\ Numbers = 1..(n - 1)
    BY <1>0, <2>1 DEF NextNumber
  <2>5. /\ Numbers' = Numbers \cup {n}
        /\ builds'[n] = NewRow(t)
        /\ \A m \in Numbers : builds'[m] = builds[m]
    BY <1>5, <2>4 DEF Commit, Numbers
  <2>6. Numbers' = 1..n  BY <2>4, <2>5
  <2>7. /\ tx[t].branch \in Branches /\ tx[t].config \in Configurations
        /\ AsksForJobs(tx[t].config)
    BY <1>0, <2>1 DEF Configured, Acceptable, HasJobs, AsksForJobs
  <2>8. /\ NewRow(t) \in Rows
        /\ NewRow(t).config = tx[t].config
        /\ NewRow(t).jobs = JobNumbers(tx[t].config)
    <3>1. tx[t].config.regular \in Nat /\ tx[t].config.deploy \in Nat
      BY <2>7, ConfigurationsAssumption
    <3>2. JobNumbers(tx[t].config) \subseteq Nat
      BY <3>1 DEF JobNumbers, RegularNumbers, DeployNumbers
    <3>3. QED  BY <2>7, <3>2 DEF NewRow, Rows
  <2> HIDE DEF n
  <2>9. TypeOK'
    <3>1. Numbers' \subseteq 1..MaxBuilds  BY <2>4, <2>6, BoundAssumption
    <3>2. \A m \in Numbers' : builds'[m] \in Rows
      BY <1>0, <2>5, <2>8 DEF TypeOK
    <3>3. QED
      BY <1>0, <1>5, <2>3, <3>1, <3>2 DEF TypeOK, Commit, Idle
  <2>10. LockHeld'
    BY <1>0, <2>2, <2>3, NoneAssumption DEF LockHeld, Holding, Idle
  <2>11. Dense'  BY <2>4, <2>6 DEF Dense
  <2>12. NextNumber'
    <3>1. \A u \in Transactions : tx'[u].stage # "numbered"
      BY <1>0, <2>2, <2>3 DEF LockHeld, Holding, Idle
    <3>2. QED  BY <3>1 DEF NextNumber
  <2>13. Configured'
    <3>1. \A m \in Numbers' : /\ AsksForJobs(builds'[m].config)
                              /\ builds'[m].jobs = JobNumbers(builds'[m].config)
      BY <1>0, <2>5, <2>7, <2>8 DEF Configured
    <3>2. QED  BY <1>0, <2>3, <3>1 DEF Configured, Idle
  <2>14. QED  BY <2>9, <2>10, <2>11, <2>12, <2>13 DEF IInv
<1>6. ASSUME NEW t \in Transactions, Rollback(t)  PROVE IInv'
  <2>1. lock = t  BY <1>0, <1>6 DEF Rollback, LockHeld, Holding
  <2>2. /\ builds' = builds /\ lock' = None /\ tx'[t] = Idle
        /\ \A u \in Transactions \ {t} : tx'[u] = tx[u]
    BY <1>0, <1>6, <2>1 DEF Rollback, Release, TypeOK
  <2>3. TypeOK'
    BY <1>0, <1>6, <2>2 DEF Rollback, TypeOK, Idle, Numbers
  <2>4. LockHeld'
    BY <1>0, <2>1, <2>2, NoneAssumption DEF LockHeld, Holding, Idle
  <2>5. NextNumber' /\ Configured' /\ Dense'
    BY <1>0, <2>2 DEF NextNumber, Configured, Dense, Idle, Numbers
  <2>6. QED  BY <2>3, <2>4, <2>5 DEF IInv
<1>7. ASSUME NEW n \in Numbers, FinishBuild(n)  PROVE IInv'
  <2>1. /\ Numbers' = Numbers /\ tx' = tx /\ lock' = lock
        /\ \A m \in Numbers : /\ builds'[m] \in Rows
                              /\ builds'[m].config = builds[m].config
                              /\ builds'[m].jobs = builds[m].jobs
    BY <1>0, <1>7 DEF FinishBuild, TypeOK, Numbers, Rows
  <2>2. QED
    BY <1>0, <2>1, TableKept
       DEF IInv, TypeOK, LockHeld, NextNumber, Configured
<1>8. ASSUME NEW n \in Numbers, RestartBuild(n)  PROVE IInv'
  <2>1. /\ Numbers' = Numbers /\ tx' = tx /\ lock' = lock
        /\ \A m \in Numbers : /\ builds'[m] \in Rows
                              /\ builds'[m].config = builds[m].config
                              /\ builds'[m].jobs = builds[m].jobs
    BY <1>0, <1>8 DEF RestartBuild, TypeOK, Numbers, Rows
  <2>2. QED
    BY <1>0, <2>1, TableKept
       DEF IInv, TypeOK, LockHeld, NextNumber, Configured
<1>9. CASE UNCHANGED vars
  BY <1>0, <1>9
     DEF vars, IInv, TypeOK, LockHeld, Dense, NextNumber, Configured, Numbers
<1>10. QED
  BY <1>1, <1>2, <1>3, <1>4, <1>5, <1>6, <1>7, <1>8, <1>9 DEF Next, Proceed

-----------------------------------------------------------------------------
\* The invariant holds in every state of every behaviour.
THEOREM NumberingInvariance == Spec => []IInv
  BY InitInvariant, NextInvariant, PTL DEF Spec

\* The rows, the transactions and the lock have their types.
THEOREM NumberingTypes == Spec => []TypeOK
<1>1. IInv => TypeOK  BY DEF IInv
<1>2. QED  BY NumberingInvariance, <1>1, PTL

\* Builds are numbered 1, 2, 3, ... without a gap.
THEOREM Contiguity == Spec => []NumbersContiguous
<1>1. IInv => NumbersContiguous
  BY NextOfDense DEF IInv, Dense, NumbersContiguous
<1>2. QED  BY NumberingInvariance, <1>1, PTL

\* The number that a transaction computed under the lock is never taken.
THEOREM NumberUnshared == Spec => []NumberStaysFree
<1>1. IInv => NumberStaysFree
  <2>1. SUFFICES ASSUME IInv, NEW t \in Transactions, tx[t].stage = "numbered"
                 PROVE  /\ tx[t].number \notin Numbers
                        /\ \A u \in Transactions \ {t} :
                              tx[u].stage = "numbered" => tx[u].number # tx[t].number
    BY DEF NumberStaysFree
  <2>2. tx[t].number \in Nat /\ tx[t].number \notin 1..(tx[t].number - 1)
    BY <2>1 DEF IInv, NextNumber
  <2>3. tx[t].number \notin Numbers  BY <2>1, <2>2 DEF IInv, NextNumber
  <2>4. \A u \in Transactions \ {t} : tx[u].stage # "numbered"
    BY <2>1 DEF IInv, LockHeld, Holding
  <2>5. QED  BY <2>3, <2>4
<1>2. QED  BY NumberingInvariance, <1>1, PTL

\* No build is created that nothing could end, by a rebuild either.
THEOREM NoEmptyBuild == Spec => []EveryBuildHasJobs
<1>1. IInv => EveryBuildHasJobs
  <2>1. SUFFICES ASSUME IInv, NEW n \in Numbers  PROVE builds[n].jobs # {}
    BY DEF EveryBuildHasJobs
  <2> DEFINE c == builds[n].config
  <2>2. c.regular \in Nat /\ c.deploy \in Nat /\ c.regular + c.deploy > 0
    BY <2>1, ConfigurationsAssumption DEF IInv, TypeOK, Rows, Configured, AsksForJobs
  <2>3. builds[n].jobs = JobNumbers(c)  BY <2>1 DEF IInv, Configured
  <2> HIDE DEF c
  <2>4. CASE c.regular > 0
    <3>1. 1 \in RegularNumbers(c)  BY <2>2, <2>4 DEF RegularNumbers
    <3>2. QED  BY <2>3, <3>1 DEF JobNumbers
  <2>5. CASE c.deploy > 0
    <3>1. 0 \in 0..(c.deploy - 1)  BY <2>2, <2>5
    <3>2. (c.regular + 0) + 0 + 1 \in DeployNumbers(c)  BY <3>1 DEF DeployNumbers
    <3>3. QED  BY <2>3, <3>2 DEF JobNumbers
  <2>6. QED  BY <2>2, <2>4, <2>5
<1>2. QED  BY NumberingInvariance, <1>1, PTL

\* The numbers of the deploy jobs are pairwise different, and above those of the
\* regular jobs.
LEMMA DeployNumbersCount ==
    ASSUME NEW c \in Configurations
    PROVE  /\ IsFiniteSet(DeployNumbers(c))
           /\ Cardinality(DeployNumbers(c)) = c.deploy
           /\ RegularNumbers(c) \cap DeployNumbers(c) = {}
<1> DEFINE r == c.regular
           S == 0..(c.deploy - 1)
           f == [idx \in S |-> (r + idx) + idx + 1]
<1>1. r \in Nat /\ c.deploy \in Nat  BY ConfigurationsAssumption
<1>2. IsFiniteSet(S) /\ Cardinality(S) = c.deploy
  <2> DEFINE last == c.deploy - 1
  <2>1. 0 \in Int /\ last \in Int  BY <1>1
  <2>2. (IF 0 > last THEN 0 ELSE last - 0 + 1) = c.deploy  BY <1>1
  <2> HIDE DEF last
  <2>3. IsFiniteSet(0..last) /\ Cardinality(0..last) = c.deploy
    BY <2>1, <2>2, FS_Interval
  <2>4. QED  BY <2>3 DEF last
<1>3. DeployNumbers(c) = {(r + idx) + idx + 1 : idx \in S}  BY DEF DeployNumbers
<1> HIDE DEF S
<1>4. \A idx \in S : f[idx] = (r + idx) + idx + 1  OBVIOUS
<1>5. \A a, b \in S : f[a] = f[b] => a = b
  <2>1. SUFFICES ASSUME NEW a \in S, NEW b \in S, f[a] = f[b]  PROVE a = b  OBVIOUS
  <2>2. a \in Int /\ b \in Int  BY <1>1 DEF S
  <2>3. (r + a) + a + 1 = (r + b) + b + 1  BY <1>4, <2>1
  <2>4. QED  BY <1>1, <2>2, <2>3
<1>6. f \in [S -> DeployNumbers(c)] /\ \A t \in DeployNumbers(c) : \E s \in S : f[s] = t
  BY <1>3, <1>4
<1> HIDE DEF f
<1>7. f \in Bijection(S, DeployNumbers(c))  BY <1>5, <1>6, Fun_IsBij
<1>8. ExistsBijection(S, DeployNumbers(c))  BY <1>7 DEF ExistsBijection
<1>9. RegularNumbers(c) \cap DeployNumbers(c) = {}
  <2>1. SUFFICES ASSUME NEW idx \in S  PROVE (r + idx) + idx + 1 \notin 1..r
    BY <1>3 DEF RegularNumbers
  <2>2. idx \in Nat  BY <1>1 DEF S
  <2>3. QED  BY <1>1, <2>2
<1>10. QED  BY <1>2, <1>8, <1>9, FS_Bijection

\* Every job of a build has a number of its own.
THEOREM JobsNumberedApart == Spec => []JobNumbersDistinct
<1>1. IInv => JobNumbersDistinct
  <2>1. SUFFICES ASSUME IInv, NEW n \in Numbers
                 PROVE  Cardinality(builds[n].jobs)
                          = builds[n].config.regular + builds[n].config.deploy
    BY DEF JobNumbersDistinct
  <2> DEFINE c == builds[n].config
  <2>2. c \in Configurations /\ builds[n].jobs = RegularNumbers(c) \cup DeployNumbers(c)
    BY <2>1 DEF IInv, TypeOK, Rows, Configured, JobNumbers
  <2>3. c.regular \in Nat /\ c.deploy \in Nat  BY <2>2, ConfigurationsAssumption
  <2> HIDE DEF c
  <2>4. IsFiniteSet(RegularNumbers(c)) /\ Cardinality(RegularNumbers(c)) = c.regular
    <3> DEFINE r == c.regular
    <3>1. 1 \in Int /\ r \in Int  BY <2>3
    <3>2. (IF 1 > r THEN 0 ELSE r - 1 + 1) = r  BY <2>3
    <3> HIDE DEF r
    <3>3. IsFiniteSet(1..r) /\ Cardinality(1..r) = r  BY <3>1, <3>2, FS_Interval
    <3>4. QED  BY <3>3 DEF r, RegularNumbers
  <2>5. /\ IsFiniteSet(DeployNumbers(c))
        /\ Cardinality(DeployNumbers(c)) = c.deploy
        /\ RegularNumbers(c) \cap DeployNumbers(c) = {}
    BY <2>2, DeployNumbersCount
  <2> DEFINE A == RegularNumbers(c)
             D == DeployNumbers(c)
  <2>6. Cardinality(A \cup D) = Cardinality(A) + Cardinality(D) - Cardinality(A \cap D)
    <3> HIDE DEF A, D
    <3> QED  BY <2>4, <2>5, FS_Union DEF A, D
  <2>7. Cardinality(A \cap D) = 0  BY <2>5, FS_EmptySet
  <2>8. Cardinality(builds[n].jobs) = c.regular + c.deploy
    BY <2>2, <2>3, <2>4, <2>5, <2>6, <2>7
  <2>9. QED  BY <2>8 DEF c
<1>2. QED  BY NumberingInvariance, <1>1, PTL

-----------------------------------------------------------------------------
(* The table implements the log                                             *)

\* In a table without gaps the build in place i has the number i.
LEMMA PlaceIsNumber ==
    ASSUME NEW k \in Nat, Numbers = 1..k, NEW i \in 1..k
    PROVE  NumberAt(i) = i
<1>1. ASSUME NEW n \in 1..k  PROVE Cardinality({m \in Numbers : m <= n}) = n
  <2>1. {m \in Numbers : m <= n} = 1..n  OBVIOUS
  <2>2. Cardinality(1..n) = n
    <3>1. 1 \in Int /\ n \in Int /\ (IF 1 > n THEN 0 ELSE n - 1 + 1) = n  OBVIOUS
    <3>2. QED  BY <3>1, FS_Interval
  <2>3. QED  BY <2>1, <2>2
<1>2. \A n \in Numbers : Cardinality({m \in Numbers : m <= n}) = i <=> n = i
  BY <1>1
<1>3. i \in Numbers  OBVIOUS
<1>4. QED  BY <1>2, <1>3 DEF NumberAt

\* The log of a table without gaps: place and number are the same.
ListedByNumber ==
    \A k \in Nat : Numbers = 1..k => Listed = [i \in 1..k |-> builds[i].branch]

LEMMA LogOfTable == ListedByNumber
<1> SUFFICES ASSUME NEW k \in Nat, Numbers = 1..k
             PROVE  Listed = [i \in 1..k |-> builds[i].branch]
  BY DEF ListedByNumber
<1>1. Cardinality(Numbers) = k  BY NextOfDense
<1>2. \A i \in 1..k : builds[NumberAt(i)].branch = builds[i].branch
  BY PlaceIsNumber
<1>3. QED  BY <1>1, <1>2 DEF Listed

LEMMA LogOfTableNext == ListedByNumber'
BY LogOfTable, PTL

\* A commit appends its branch to the log; nothing else shows in it.
LEMMA LogStep ==
    IInv /\ IInv' /\ [Next]_vars =>
        (\E b \in Branches : Listed' = Append(Listed, b)) \/ Listed' = Listed
<1> SUFFICES ASSUME IInv, IInv', [Next]_vars
             PROVE  (\E b \in Branches : Listed' = Append(Listed, b)) \/ Listed' = Listed
  OBVIOUS
<1>1. PICK k \in Nat : Numbers = 1..k  BY DEF IInv, Dense
<1>2. Listed = [i \in 1..k |-> builds[i].branch]
  BY <1>1, LogOfTable DEF ListedByNumber
<1>3. ASSUME Numbers' = Numbers, \A n \in Numbers : builds'[n].branch = builds[n].branch
      PROVE  Listed' = Listed
  <2>1. Listed' = [i \in 1..k |-> builds'[i].branch]
    BY <1>1, <1>3, LogOfTableNext DEF ListedByNumber
  <2>2. \A i \in 1..k : builds'[i].branch = builds[i].branch  BY <1>1, <1>3
  <2>3. QED  BY <1>2, <2>1, <2>2
<1>4. ASSUME NEW t \in Transactions, Commit(t)
      PROVE  \E b \in Branches : Listed' = Append(Listed, b)
  <2> DEFINE b == tx[t].branch
  <2>1. /\ tx[t].stage = "numbered"
        /\ builds' = [n \in Numbers \cup {tx[t].number} |->
                         IF n = tx[t].number THEN NewRow(t) ELSE builds[n]]
    BY <1>4 DEF Commit
  <2>2. tx[t].number = k + 1
    <3>1. tx[t].number \in 1..MaxBuilds /\ Numbers = 1..(tx[t].number - 1)
      BY <2>1 DEF IInv, NextNumber
    <3>2. tx[t].number \in Nat \ {0}  BY <3>1, BoundAssumption
    <3>3. 1..k = 1..(tx[t].number - 1)  BY <1>1, <3>1
    <3>4. QED  BY <3>2, <3>3
  <2>3. Numbers' = 1..(k + 1)
    <3>1. Numbers' = Numbers \cup {tx[t].number}  BY <2>1 DEF Numbers
    <3>2. QED  BY <1>1, <2>2, <3>1
  <2>4. /\ builds'[k + 1].branch = b
        /\ \A i \in 1..k : builds'[i].branch = builds[i].branch
    <3>1. builds'[k + 1] = NewRow(t)  BY <2>1, <2>2
    <3>2. \A i \in 1..k : builds'[i] = builds[i]  BY <1>1, <2>1, <2>2
    <3>3. QED  BY <3>1, <3>2 DEF NewRow
  <2>5. Listed' = [i \in 1..(k + 1) |-> builds'[i].branch]
    <3>1. k + 1 \in Nat  OBVIOUS
    <3>2. QED  BY <2>3, <3>1, LogOfTableNext DEF ListedByNumber
  <2>6. b \in Branches  BY <2>1 DEF IInv, Configured
  <2>7. Listed' = Append(Listed, b)
    <3> HIDE DEF b
    <3>1. \A i \in 1..k : builds[i].branch \in Branches
      BY <1>1 DEF IInv, TypeOK, Rows
    <3>2. Listed \in Seq(Branches) /\ Len(Listed) = k
      BY <1>2, <3>1
    <3> DEFINE more == Append(Listed, b)
    <3>3. /\ more \in Seq(Branches)
          /\ Len(more) = k + 1
          /\ \A i \in 1..k : more[i] = Listed[i]
          /\ more[k + 1] = b
      BY <2>6, <3>2, AppendProperties
    <3>4. \A i \in 1..(k + 1) : builds'[i].branch = more[i]
      BY <1>2, <2>4, <3>3
    <3> HIDE DEF more
    <3>5. more = [i \in 1..(k + 1) |-> more[i]]  BY <3>3
    <3>6. QED  BY <2>5, <3>4, <3>5 DEF more
  <2>8. QED  BY <2>6, <2>7
<1>5. ASSUME NEW n \in Numbers, FinishBuild(n) \/ RestartBuild(n)
      PROVE  Listed' = Listed
  <2>1. \/ builds' = [builds EXCEPT ![n].finished = TRUE]
        \/ builds' = [builds EXCEPT ![n].finished = FALSE]
    BY <1>5 DEF FinishBuild, RestartBuild
  <2>2. \A m \in Numbers : builds[m] \in Rows  BY DEF IInv, TypeOK
  <2>3. Numbers' = Numbers /\ \A m \in Numbers : builds'[m].branch = builds[m].branch
    BY <2>1, <2>2 DEF Numbers, Rows
  <2>4. QED  BY <1>3, <2>3
<1>6. ASSUME UNCHANGED builds  PROVE Listed' = Listed
  BY <1>3, <1>6 DEF Numbers
<1>7. QED
  BY <1>4, <1>5, <1>6
     DEF Next, Proceed, LockForPayload, LoadForRebuild, LockForRebuild,
         AssignNumber, Rollback, vars

\* The builds of a project are a list that only grows at its end, and the
\* number of a build is its place in it, for good: nothing that creates, ends
\* or restarts builds moves, replaces or renumbers a row (PerformBuild,
\* Build#rebuild, Build#restart).
THEOREM LogImplemented == Spec => ImplementsLog
<1>1. Init => Log!Init
  <2> SUFFICES ASSUME Init  PROVE Listed = <<>>
    BY DEF Log!Init
  <2>1. Numbers = 1..0  BY DEF Init, Numbers
  <2>2. Listed = [i \in 1..0 |-> builds[i].branch]
    BY <2>1, LogOfTable DEF ListedByNumber
  <2>3. QED  BY <2>2
<1>2. IInv /\ IInv' /\ [Next]_vars => [Log!Next]_Listed
  BY LogStep DEF Log!Next
<1>3. QED
  BY <1>1, <1>2, InitInvariant, NextInvariant, PTL
     DEF Spec, ImplementsLog, Log!Spec
=============================================================================
