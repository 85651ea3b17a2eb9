---------------------- MODULE BuildNotifications_proofs ----------------------
(***************************************************************************)
(* Proofs about BuildNotifications, for any builds, branches and users, any*)
(* number of requests and restarts, and any number of interruptions.       *)
(*                                                                         *)
(* Each property has an invariant of its own over the same base:           *)
(*                                                                         *)
(*   Balanced    every mail that was sent or is owed is paid for by a      *)
(*               verdict, an interruption or the verdict being committed   *)
(*   Follows     the last notice about a build says what the build is, or  *)
(*               has been handed to the hosting service                    *)
(*   Sorted      while builds end in order, a notice of a verdict finds    *)
(*               the builds before it ended                                *)
(***************************************************************************)
EXTENDS BuildNotifications, FiniteSetTheorems, FunctionTheorems,
        WellFoundedInduction, TLAPS

\* Mails are due for a verdict, once the recipients are chosen.
MailsVerdicts ==
    worker # None /\ worker.recipients # {} =>
        worker.stage = "mailing" /\ worker.notice.status \in Verdicts

\* The update that is open, or to be repeated, is one the build can make.
UpdateFits == updating # None => CanBecome(status[updating.build], updating.status)

\* Who stays subscribed is not in the way of a request.
LoyalStay ==
    /\ \A u \in Loyal : subscriptions[u] = "on"
    /\ \A r \in Requests : requests[r] # None => requests[r].user \notin Loyal

Base == TypeOK /\ MailsVerdicts /\ UpdateFits /\ LoyalStay

-----------------------------------------------------------------------------
\* The places of the queue with a verdict on the build.
VerdictsIn(q, b) == {i \in DOMAIN q : q[i].build = b /\ q[i].status \in Verdicts}

\* Does the consumer owe the user a mail, or the decision that there is none?
Owes(b, u) ==
    /\ worker # None
    /\ worker.notice.build = b
    /\ worker.notice.status \in Verdicts
    /\ worker.stage # "mailing" \/ u \in worker.recipients

\* A verdict on the build is about to be committed.
Committing(b) ==
    /\ updating # None
    /\ updating.build = b
    /\ updating.open
    /\ updating.status \in Verdicts

Balanced ==
    \A b \in Builds, u \in Users :
        mails[b][u] + Cardinality(VerdictsIn(queue, b)) + (IF Owes(b, u) THEN 1 ELSE 0)
          <= verdicts[b].all + interruptions + (IF Committing(b) THEN 1 ELSE 0)

-----------------------------------------------------------------------------
\* The update of the build was undone and will be repeated.
Undone(b) == updating # None /\ updating.build = b /\ ~updating.open

\* What the build is, or is about to be.
Target(b) == IF updating # None /\ updating.build = b THEN updating.status ELSE status[b]

\* Is the build in the queue, and does its last notice there tell the state?
In(q, b) == \E i \in DOMAIN q : q[i].build = b

LastTells(q, b, state) ==
    \A i \in DOMAIN q :
        q[i].build = b /\ (\A k \in DOMAIN q : k > i => q[k].build # b)
        => q[i].status = state

Handled(b) == worker # None /\ worker.notice.build = b

\* The last notice about the build, and what the service was sent.
LastNotice(b) ==
    /\ LastTells(queue, b, Target(b))
    /\ ~In(queue, b) =>
          /\ Handled(b) => worker.notice.status = Target(b)
          /\ \/ Handled(b) /\ worker.stage = "taken"
             \/ shown[b] \in {Target(b), "stale"}

Follows ==
    \A b \in Builds : ~Undone(b) /\ Target(b) # "initialized" => LastNotice(b)

-----------------------------------------------------------------------------
Ended(b) ==
    \/ Finished(b)
    \/ updating # None /\ updating.build = b /\ updating.status \in Verdicts

\* A notice of a verdict tells the verdict.
Tells(n) == n.status \in Verdicts => Ended(n.build) /\ Target(n.build) = n.status

\* The user was told, or would hear what the builds before have said.
Knows(b, u) ==
    \/ lastMail[b][u] # "none"
    \/ /\ Target(b) = "passed"
       /\ Earlier(b) # {}
       /\ status[Max(Earlier(b))] = "passed"

Sorted ==
    inOrder =>
        /\ \A b \in Builds : Ended(b) => \A c \in Earlier(b) : Finished(c)
        /\ \A i \in DOMAIN queue : Tells(queue[i])
        /\ worker # None => Tells(worker.notice)
        /\ \A b \in Builds, u \in Users :
              lastMail[b][u] # "none" => Ended(b) /\ lastMail[b][u] = Target(b)
        /\ \A b \in Builds, u \in Loyal :
              Ended(b) /\ ~Undone(b) /\ VerdictsIn(queue, b) = {} /\ ~Owes(b, u)
              => Knows(b, u)

-----------------------------------------------------------------------------
(* The base                                                                 *)

\* A build leaves its state for one it was not created in, and never leaves a
\* verdict.
LEMMA Moves ==
    ASSUME NEW s, NEW t, CanBecome(s, t)
    PROVE  t # "initialized" /\ s \notin Verdicts
BY DEF CanBecome, Verdicts, Red

LEMMA Published ==
    ASSUME NEW b \in Builds, NEW s \in Statuses, s # "initialized", Publish(b, s)
    PROVE  /\ [build |-> b, status |-> s] \in Notices
           /\ queue' = Append(queue, [build |-> b, status |-> s])
BY DEF Publish, NotifiesOf, Notices

\* The types of the variables that a notice, a build or a mail is about.
LEMMA Types ==
    ASSUME Base
    PROVE  /\ updating # None =>
                 /\ updating.build \in Builds /\ updating.status \in Statuses
                 /\ updating.open \in BOOLEAN
                 /\ updating.status # "initialized"
                 /\ status[updating.build] \notin Verdicts
           /\ worker # None =>
                 /\ worker.notice \in Notices
                 /\ worker.notice.build \in Builds /\ worker.notice.status \in Statuses
                 /\ worker.stage \in {"taken", "posted", "mailing"}
                 /\ worker.recipients \subseteq Users
           /\ queue \in Seq(Notices)
           /\ interruptions \in Nat
           /\ \A b \in Builds : verdicts[b].all \in Nat
           /\ \A b \in Builds, u \in Users : mails[b][u] \in Nat
<1>1. TypeOK /\ UpdateFits  BY DEF Base
<1>2. updating # None =>
          /\ updating.build \in Builds /\ updating.status \in Statuses
          /\ updating.open \in BOOLEAN
  BY <1>1 DEF TypeOK, Updates
<1>3. updating # None => /\ updating.status # "initialized"
                         /\ status[updating.build] \notin Verdicts
  BY <1>1, Moves DEF UpdateFits
<1>4. worker # None =>
          /\ worker.notice \in Notices
          /\ worker.notice.build \in Builds /\ worker.notice.status \in Statuses
          /\ worker.stage \in {"taken", "posted", "mailing"}
          /\ worker.recipients \subseteq Users
  BY <1>1 DEF TypeOK, Workers, Notices
<1>5. interruptions \in Nat
  BY <1>1, BoundsAssumption DEF TypeOK
<1>6. /\ \A b \in Builds : verdicts[b].all \in Nat
      /\ \A b \in Builds, u \in Users : mails[b][u] \in Nat
  BY <1>1 DEF TypeOK
<1>7. QED  BY <1>1, <1>2, <1>3, <1>4, <1>5, <1>6 DEF TypeOK

LEMMA BaseInit == Init => Base
<1> SUFFICES ASSUME Init  PROVE Base
  OBVIOUS
<1>1. TypeOK  BY BoundsAssumption, LoyalAssumption DEF Init, TypeOK, Statuses, Verdicts, Red
<1>2. MailsVerdicts /\ UpdateFits  BY DEF Init, MailsVerdicts, UpdateFits
<1>3. LoyalStay  BY LoyalAssumption DEF Init, LoyalStay
<1>4. QED  BY <1>1, <1>2, <1>3 DEF Base

LEMMA BaseNext == Base /\ [Next]_vars => Base'
<1> SUFFICES ASSUME Base, [Next]_vars  PROVE Base'
  OBVIOUS
<1> USE DEF Base
<1>1. ASSUME NEW b \in Builds, NEW s \in Statuses, UpdateBuild(b, s)
      PROVE  Base'
  <2>1. CanBecome(status[b], s) /\ s # "initialized"  BY <1>1, Moves DEF UpdateBuild
  <2>2. /\ [build |-> b, status |-> s] \in Notices
        /\ queue' = Append(queue, [build |-> b, status |-> s])
    BY <1>1, <2>1, Published DEF UpdateBuild
  <2>3. updating' \in Updates /\ updating'.build = b /\ updating'.status = s
    BY <1>1 DEF UpdateBuild, Updates
  <2>4. queue' \in Seq(Notices)  BY <2>2 DEF TypeOK
  <2>5. TypeOK'
    BY <1>1, <2>3, <2>4 DEF UpdateBuild, TypeOK, subscriptionVars, mailVars
  <2>6. QED
    BY <1>1, <2>1, <2>3, <2>5
       DEF UpdateBuild, MailsVerdicts, UpdateFits, LoyalStay, subscriptionVars, mailVars
<1>2. CASE CommitUpdate
  <2>1. TypeOK'
    BY <1>2, Types DEF CommitUpdate, TypeOK, subscriptionVars, mailVars
  <2>2. QED
    BY <1>2, <2>1
       DEF CommitUpdate, MailsVerdicts, UpdateFits, LoyalStay, subscriptionVars, mailVars
<1>3. CASE InterruptUpdate
  <2>1. updating' \in Updates /\ updating'.build = updating.build
        /\ updating'.status = updating.status
    BY <1>3 DEF InterruptUpdate, TypeOK, Updates
  <2>2. interruptions' \in 0..MaxInterruptions
    BY <1>3, BoundsAssumption DEF InterruptUpdate, TypeOK
  <2>3. TypeOK'
    BY <1>3, <2>1, <2>2 DEF InterruptUpdate, TypeOK, subscriptionVars, mailVars
  <2>4. QED
    BY <1>3, <2>1, <2>3
       DEF InterruptUpdate, MailsVerdicts, UpdateFits, LoyalStay, subscriptionVars, mailVars
<1>4. CASE RepeatUpdate
  <2>1. updating' \in Updates /\ updating'.build = updating.build
        /\ updating'.status = updating.status
    BY <1>4 DEF RepeatUpdate, TypeOK, Updates
  <2>2. queue' \in Seq(Notices)
    <3>1. \E n \in Notices : queue' = Append(queue, n)
      BY <1>4, Types, Published DEF RepeatUpdate
    <3>2. QED  BY <3>1 DEF TypeOK
  <2>3. TypeOK'
    BY <1>4, <2>1, <2>2 DEF RepeatUpdate, TypeOK, subscriptionVars, mailVars
  <2>4. QED
    BY <1>4, <2>1, <2>3
       DEF RepeatUpdate, MailsVerdicts, UpdateFits, LoyalStay, subscriptionVars, mailVars
<1>5. ASSUME NEW b \in Builds, Restart(b)  PROVE Base'
  <2>1. restarts' \in [Builds -> 0..MaxRestarts]
    BY <1>5, BoundsAssumption DEF Restart, TypeOK
  <2>2. TypeOK'
    BY <1>5, <2>1 DEF Restart, TypeOK, subscriptionVars, mailVars, Statuses
  <2>3. updating # None => updating.build # b
    BY <1>5, Types DEF Restart, Finished
  <2>4. QED
    BY <1>5, <2>2, <2>3
       DEF Restart, MailsVerdicts, UpdateFits, LoyalStay, subscriptionVars, mailVars, TypeOK
<1>6. CASE Take
  <2>1. Head(queue) \in Notices /\ queue' \in Seq(Notices)
    BY <1>6 DEF Take, TypeOK
  <2>2. worker' \in Workers /\ worker'.recipients = {}
    BY <1>6, <2>1 DEF Take, Workers
  <2>3. TypeOK'
    BY <1>6, <2>1, <2>2 DEF Take, TypeOK, buildVars, subscriptionVars, mailVars
  <2>4. QED
    BY <1>6, <2>2, <2>3
       DEF Take, MailsVerdicts, UpdateFits, LoyalStay, buildVars, subscriptionVars, mailVars
<1>7. CASE CreateCommitStatus
  <2>1. /\ worker' \in Workers /\ worker'.recipients = worker.recipients
        /\ worker'.notice = worker.notice
        /\ worker.recipients = {}
    BY <1>7 DEF CreateCommitStatus, TypeOK, Workers, MailsVerdicts
  <2>2. shown' \in [Builds -> Statuses \cup {"none", "stale"}]
    BY <1>7, Types DEF CreateCommitStatus, TypeOK
  <2>3. TypeOK'
    BY <1>7, <2>1, <2>2
       DEF CreateCommitStatus, TypeOK, buildVars, subscriptionVars, mailVars
  <2>4. QED
    BY <1>7, <2>1, <2>3
       DEF CreateCommitStatus, MailsVerdicts, UpdateFits, LoyalStay, buildVars,
           subscriptionVars, mailVars
<1>8. CASE SelectRecipients
  <2>1. /\ worker' \in Workers
        /\ worker'.notice = worker.notice /\ worker'.stage = "mailing"
        /\ worker'.recipients # {} => Notify(worker.notice)
    BY <1>8 DEF SelectRecipients, TypeOK, Workers
  <2>2. Notify(worker.notice) => worker.notice.status \in Verdicts
    BY DEF Notify, Verdicts
  <2>3. TypeOK'
    BY <1>8, <2>1
       DEF SelectRecipients, TypeOK, buildVars, subscriptionVars, mailVars
  <2>4. QED
    BY <1>8, <2>1, <2>2, <2>3
       DEF SelectRecipients, MailsVerdicts, UpdateFits, LoyalStay, buildVars,
           subscriptionVars, mailVars
<1>9. ASSUME NEW u \in Users, SendMail(u)  PROVE Base'
  <2>1. /\ worker' \in Workers /\ worker'.notice = worker.notice
        /\ worker'.stage = worker.stage
        /\ worker'.recipients \subseteq worker.recipients
    BY <1>9 DEF SendMail, TypeOK, Workers
  <2>2. worker.notice.status \in Verdicts /\ worker.notice.build \in Builds
    BY <1>9, Types DEF SendMail, MailsVerdicts
  <2>3. /\ mails' \in [Builds -> [Users -> Nat]]
        /\ lastMail' \in [Builds -> [Users -> Verdicts \cup {"none"}]]
    BY <1>9, <2>2 DEF SendMail, TypeOK
  <2>4. TypeOK'
    BY <1>9, <2>1, <2>3 DEF SendMail, TypeOK, buildVars, subscriptionVars
  <2>5. QED
    BY <1>9, <2>1, <2>2, <2>4
       DEF SendMail, MailsVerdicts, UpdateFits, LoyalStay, buildVars, subscriptionVars
<1>10. CASE Acknowledge
  <2>1. TypeOK'
    BY <1>10 DEF Acknowledge, TypeOK, buildVars, subscriptionVars, mailVars
  <2>2. QED
    BY <1>10, <2>1
       DEF Acknowledge, MailsVerdicts, UpdateFits, LoyalStay, buildVars,
           subscriptionVars, mailVars
<1>11. CASE Interrupt
  <2>1. worker.notice \in Notices  BY <1>11, Types DEF Interrupt
  <2>2. <<worker.notice>> \in Seq(Notices)  BY <2>1
  <2>3. queue' \in Seq(Notices)  BY <1>11, <2>2 DEF Interrupt, TypeOK
  <2>4. interruptions' \in 0..MaxInterruptions
    BY <1>11, BoundsAssumption DEF Interrupt, TypeOK
  <2>5. TypeOK'
    BY <1>11, <2>3, <2>4 DEF Interrupt, TypeOK, buildVars, subscriptionVars, mailVars
  <2>6. QED
    BY <1>11, <2>5
       DEF Interrupt, MailsVerdicts, UpdateFits, LoyalStay, buildVars, subscriptionVars,
           mailVars
<1>12. ASSUME NEW r \in Requests, NEW u \in Users \ Loyal,
              NEW want \in {"on", "off", "author"}, LoadSubscription(r, u, want)
       PROVE  Base'
  <2> DEFINE q == [user |-> u, want |-> want, seen |-> subscriptions[u]]
  <2>1. q \in SubscriptionRequests /\ q.user = u
    BY DEF TypeOK, SubscriptionRequests
  <2> HIDE DEF q
  <2>2. requests' = [requests EXCEPT ![r] = q]  BY <1>12 DEF LoadSubscription, q
  <2>3. TypeOK'
    BY <1>12, <2>1, <2>2 DEF LoadSubscription, TypeOK, buildVars, mailVars
  <2>4. LoyalStay'
    BY <1>12, <2>1, <2>2 DEF LoadSubscription, LoyalStay, TypeOK
  <2>5. QED
    BY <1>12, <2>3, <2>4
       DEF LoadSubscription, MailsVerdicts, UpdateFits, buildVars, mailVars
<1>13. ASSUME NEW r \in Requests, SaveSubscription(r)  PROVE Base'
  <2>1. requests[r] \in SubscriptionRequests /\ requests[r].user \in Users
    BY <1>13 DEF SaveSubscription, TypeOK, SubscriptionRequests
  <2>2. /\ subscriptions' \in [Users -> {"none", "on", "off"}]
        /\ \A u \in Users : u # requests[r].user => subscriptions'[u] = subscriptions[u]
        /\ requests' \in [Requests -> SubscriptionRequests \cup {None}]
        /\ \A q \in Requests : requests'[q] = requests[q] \/ requests'[q] = None
    BY <1>13, <2>1 DEF SaveSubscription, TypeOK
  <2>3. TypeOK'
    BY <1>13, <2>2 DEF SaveSubscription, TypeOK, buildVars, mailVars
  <2>4. LoyalStay'
    BY <1>13, <2>1, <2>2, LoyalAssumption DEF SaveSubscription, LoyalStay
  <2>5. QED
    BY <1>13, <2>3, <2>4
       DEF SaveSubscription, MailsVerdicts, UpdateFits, buildVars, mailVars
<1>14. CASE UNCHANGED vars
  BY <1>14 DEF vars, buildVars, subscriptionVars, mailVars, TypeOK, MailsVerdicts,
               UpdateFits, LoyalStay
<1>15. QED
  BY <1>1, <1>2, <1>3, <1>4, <1>5, <1>6, <1>7, <1>8, <1>9, <1>10, <1>11, <1>12, <1>13,
     <1>14 DEF Next, Consume

\* Every variable has its type, and so on: the base holds of every behaviour.
THEOREM BaseInvariance == Spec => []Base
<1>1. QED  BY BaseInit, BaseNext, PTL DEF Spec

\* Every variable has its type.
THEOREM NotificationTypes == Spec => []TypeOK
<1>1. Base => TypeOK  BY DEF Base
<1>2. QED  BY <1>1, BaseInvariance, PTL

-----------------------------------------------------------------------------
(* The queue                                                                *)

\* The queue p is q behind the notice n.
Ahead(p, n, q) ==
    /\ 1 \in DOMAIN p /\ p[1] = n
    /\ \A i \in DOMAIN q : i \in Nat \ {0} /\ i + 1 \in DOMAIN p /\ p[i + 1] = q[i]
    /\ \A i \in DOMAIN p :
          i \in Nat \ {0} /\ (i # 1 => i - 1 \in DOMAIN q /\ p[i] = q[i - 1])

LEMMA HeadAhead ==
    ASSUME NEW q \in Seq(Notices), q # <<>>
    PROVE  /\ Ahead(q, Head(q), Tail(q))
           /\ Head(q) \in Notices /\ Tail(q) \in Seq(Notices)
<1>1. /\ Tail(q) \in Seq(Notices) /\ Len(Tail(q)) = Len(q) - 1 /\ Len(q) \in Nat \ {0}
      /\ \A i \in 1..Len(Tail(q)) : Tail(q)[i] = q[i + 1]
      /\ Head(q) = q[1] /\ Head(q) \in Notices
      /\ DOMAIN q = 1..Len(q) /\ DOMAIN Tail(q) = 1..Len(Tail(q))
  OBVIOUS
<1>2. QED  BY <1>1 DEF Ahead

LEMMA BackAhead ==
    ASSUME NEW q \in Seq(Notices), NEW n \in Notices
    PROVE  Ahead(<<n>> \o q, n, q) /\ <<n>> \o q \in Seq(Notices)
<1> DEFINE p == <<n>> \o q
<1>1. <<n>> \in Seq(Notices)  OBVIOUS
<1>2. /\ p \in Seq(Notices) /\ Len(p) = Len(q) + 1 /\ Len(q) \in Nat
      /\ p[1] = n
      /\ \A i \in 2..Len(p) : p[i] = q[i - 1]
      /\ DOMAIN p = 1..Len(p) /\ DOMAIN q = 1..Len(q)
  BY <1>1
<1> HIDE DEF p
<1>3. \A i \in DOMAIN q : p[i + 1] = q[i]
  <2>1. SUFFICES ASSUME NEW i \in DOMAIN q  PROVE p[i + 1] = q[i]
    OBVIOUS
  <2>2. i + 1 \in 2..Len(p) /\ (i + 1) - 1 = i  BY <1>2
  <2>3. QED  BY <1>2, <2>2
<1>4. Ahead(p, n, q)  BY <1>2, <1>3 DEF Ahead
<1>5. QED  BY <1>2, <1>4 DEF p

\* What a new notice changes is the end of the queue.
LEMMA AppendedNotice ==
    ASSUME NEW q \in Seq(Notices), NEW n \in Notices
    PROVE  /\ Append(q, n) \in Seq(Notices)
           /\ \E l \in Nat :
                 /\ l \notin DOMAIN q /\ \A i \in DOMAIN q : i \in Nat /\ l > i
                 /\ DOMAIN Append(q, n) = DOMAIN q \cup {l}
                 /\ \A i \in DOMAIN q : Append(q, n)[i] = q[i]
                 /\ Append(q, n)[l] = n
<1>1. Len(q) + 1 \in Nat  OBVIOUS
<1>2. QED  BY <1>1

LEMMA CountType ==
    ASSUME NEW q \in Seq(Notices), NEW b
    PROVE  /\ IsFiniteSet(VerdictsIn(q, b))
           /\ Cardinality(VerdictsIn(q, b)) \in Nat
<1>1. VerdictsIn(q, b) \in SUBSET (1..Len(q)) /\ Len(q) \in Int /\ 1 \in Int
  BY DEF VerdictsIn
<1>2. IsFiniteSet(1..Len(q))  BY <1>1, FS_Interval
<1>3. IsFiniteSet(VerdictsIn(q, b))  BY <1>1, <1>2, FS_Subset
<1>4. QED  BY <1>3, FS_CardinalityType

LEMMA CountAhead ==
    ASSUME NEW p \in Seq(Notices), NEW q \in Seq(Notices), NEW n, Ahead(p, n, q), NEW b
    PROVE  Cardinality(VerdictsIn(p, b)) =
               Cardinality(VerdictsIn(q, b))
                 + (IF n.build = b /\ n.status \in Verdicts THEN 1 ELSE 0)
<1> DEFINE S == VerdictsIn(q, b)
           T == VerdictsIn(p, b) \ {1}
           f == [i \in S |-> i + 1]
<1>1. IsFiniteSet(S) /\ Cardinality(S) \in Nat  BY CountType
<1>2. \A i \in S : i \in Nat \ {0} /\ i + 1 \in T
  BY DEF Ahead, VerdictsIn
<1>3. \A k \in T : k \in Nat \ {0} /\ k - 1 \in S
  BY DEF Ahead, VerdictsIn
<1>4. 1 \in VerdictsIn(p, b) <=> n.build = b /\ n.status \in Verdicts
  BY DEF Ahead, VerdictsIn
<1>5. f \in Bijection(S, T)
  <2> HIDE DEF S, T
  <2>1. f \in [S -> T]  BY <1>2
  <2>2. \A i, k \in S : f[i] = f[k] => i = k  BY <1>2
  <2>3. \A k \in T : \E i \in S : f[i] = k  BY <1>2, <1>3
  <2>4. QED
    BY <2>1, <2>2, <2>3 DEF Bijection, Injection, Surjection, IsInjective
<1>6. IsFiniteSet(T) /\ Cardinality(T) = Cardinality(S)
  <2> HIDE DEF S, T, f
  <2>1. ExistsBijection(S, T)  BY <1>5 DEF ExistsBijection
  <2>2. QED  BY <1>1, <2>1, FS_Bijection
<1>7. CASE 1 \in VerdictsIn(p, b)
  <2>1. VerdictsIn(p, b) = T \cup {1} /\ 1 \notin T  BY <1>7
  <2>2. Cardinality(T \cup {1}) = Cardinality(T) + 1
    <3> HIDE DEF T
    <3> QED  BY <1>6, <2>1, FS_AddElement
  <2>3. QED  BY <1>4, <1>6, <1>7, <2>1, <2>2
<1>8. CASE 1 \notin VerdictsIn(p, b)
  <2>1. VerdictsIn(p, b) = T  BY <1>8
  <2> HIDE DEF S, T
  <2>2. Cardinality(VerdictsIn(p, b)) = Cardinality(S)  BY <1>6, <2>1
  <2>3. QED  BY <1>1, <1>4, <1>8, <2>2 DEF S
<1>9. QED  BY <1>7, <1>8

LEMMA CountAppend ==
    ASSUME NEW q \in Seq(Notices), NEW n \in Notices, NEW b
    PROVE  Cardinality(VerdictsIn(Append(q, n), b)) =
               Cardinality(VerdictsIn(q, b))
                 + (IF n.build = b /\ n.status \in Verdicts THEN 1 ELSE 0)
<1> DEFINE S == VerdictsIn(q, b)
           p == Append(q, n)
<1>1. IsFiniteSet(S) /\ Cardinality(S) \in Nat  BY CountType
<1>2. PICK l \in Nat : /\ l \notin DOMAIN q
                       /\ DOMAIN p = DOMAIN q \cup {l}
                       /\ \A i \in DOMAIN q : p[i] = q[i]
                       /\ p[l] = n
  BY AppendedNotice
<1> HIDE DEF p
<1>3. VerdictsIn(p, b) = IF n.build = b /\ n.status \in Verdicts THEN S \cup {l} ELSE S
  BY <1>2 DEF VerdictsIn
<1>4. l \notin S  BY <1>2 DEF VerdictsIn
<1>5. Cardinality(S \cup {l}) = Cardinality(S) + 1
  <2> HIDE DEF S
  <2> QED  BY <1>1, <1>4, FS_AddElement
<1>6. CASE n.build = b /\ n.status \in Verdicts
  <2>1. VerdictsIn(p, b) = S \cup {l}  BY <1>3, <1>6
  <2>2. QED  BY <1>5, <1>6, <2>1 DEF p
<1>7. CASE ~(n.build = b /\ n.status \in Verdicts)
  <2>1. VerdictsIn(p, b) = S  BY <1>3, <1>7
  <2>2. QED  BY <1>1, <1>7, <2>1 DEF p
<1>8. QED  BY <1>6, <1>7

-----------------------------------------------------------------------------
(* One mail per verdict                                                     *)

LEMMA BalancedInit == Init => Balanced
<1> SUFFICES ASSUME Init, NEW b \in Builds, NEW u \in Users
             PROVE  mails[b][u] + Cardinality(VerdictsIn(queue, b))
                      + (IF Owes(b, u) THEN 1 ELSE 0)
                    <= verdicts[b].all + interruptions + (IF Committing(b) THEN 1 ELSE 0)
  BY DEF Balanced
<1>1. VerdictsIn(queue, b) = {}  BY DEF Init, VerdictsIn
<1>2. Cardinality(VerdictsIn(queue, b)) = 0  BY <1>1, FS_EmptySet
<1>3. QED  BY <1>2 DEF Init, Owes, Committing

\* The sum of Balanced after a step, from the sum before and what the step adds.
LEMMA Weighed ==
    ASSUME NEW x \in Nat, NEW n \in Nat, NEW owed \in {0, 1},
           NEW y \in Nat, NEW i \in Nat, NEW paid \in {0, 1},
           NEW m \in Nat, NEW owedNext \in {0, 1}, NEW j \in Nat, NEW paidNext \in {0, 1},
           NEW xx \in Nat, NEW yy \in Nat,
           x + n + owed <= y + i + paid,
           yy = y,
           \/ xx = x /\ m + owedNext <= n /\ j = i /\ paidNext = paid
           \/ xx = x /\ m = n /\ owedNext = owed /\ j = i + 1
           \/ xx = x /\ m <= n + 1 /\ owedNext = 0 /\ j = i + 1 /\ paidNext = paid
           \/ xx = x + 1 /\ owed = 1 /\ owedNext = 0 /\ m = n /\ j = i /\ paidNext = paid
           \/ xx = x /\ m = n /\ j = i /\ paidNext = paid /\ (owed = 0 => owedNext = 0)
    PROVE  xx + m + owedNext <= yy + j + paidNext
OBVIOUS

LEMMA BalancedNext == Base /\ Base' /\ Balanced /\ [Next]_vars => Balanced'
<1> SUFFICES ASSUME Base, Base', Balanced, [Next]_vars, NEW b \in Builds, NEW u \in Users
             PROVE  mails'[b][u] + Cardinality(VerdictsIn(queue', b))
                      + (IF Owes(b, u)' THEN 1 ELSE 0)
                    <= verdicts'[b].all + interruptions'
                       + (IF Committing(b)' THEN 1 ELSE 0)
  BY DEF Balanced, Owes, Committing, VerdictsIn
<1> DEFINE n == Cardinality(VerdictsIn(queue, b))
           m == Cardinality(VerdictsIn(queue', b))
           owed == IF Owes(b, u) THEN 1 ELSE 0
           owedNext == IF Owes(b, u)' THEN 1 ELSE 0
           paid == IF Committing(b) THEN 1 ELSE 0
           paidNext == IF Committing(b)' THEN 1 ELSE 0
<1> SUFFICES mails'[b][u] + m + owedNext <= verdicts'[b].all + interruptions' + paidNext
  OBVIOUS
<1>0. /\ mails[b][u] \in Nat /\ verdicts[b].all \in Nat /\ interruptions \in Nat
      /\ n \in Nat
      /\ mails[b][u] + n + owed <= verdicts[b].all + interruptions + paid
      /\ queue \in Seq(Notices)
      /\ owed \in {0, 1} /\ owedNext \in {0, 1} /\ paid \in {0, 1} /\ paidNext \in {0, 1}
  BY Types, CountType DEF Balanced
<1>a. /\ Owes(b, u) <=> owed = 1
      /\ Owes(b, u)' <=> owedNext = 1
      /\ Committing(b) <=> paid = 1
      /\ Committing(b)' <=> paidNext = 1
  OBVIOUS
<1>b. /\ mails'[b][u] \in Nat /\ verdicts'[b].all \in Nat /\ interruptions' \in Nat
      /\ m \in Nat
  <2>1. TypeOK'  BY DEF Base
  <2>2. interruptions' \in Nat  BY <2>1, BoundsAssumption DEF TypeOK
  <2>3. queue' \in Seq(Notices)  BY <2>1 DEF TypeOK
  <2>4. m \in Nat  BY <2>3, CountType
  <2>5. QED  BY <2>1, <2>2, <2>4 DEF TypeOK
<1>c. /\ mails[b][u] \in Nat /\ verdicts[b].all \in Nat /\ interruptions \in Nat
      /\ n \in Nat
      /\ owed \in {0, 1} /\ owedNext \in {0, 1} /\ paid \in {0, 1} /\ paidNext \in {0, 1}
      /\ mails[b][u] + n + owed <= verdicts[b].all + interruptions + paid
  BY <1>0
<1> HIDE DEF owed, owedNext, paid, paidNext
<1>1. ASSUME NEW c \in Builds, NEW s \in Statuses, UpdateBuild(c, s)
      PROVE  mails'[b][u] + m + owedNext <= verdicts'[b].all + interruptions' + paidNext
  <2>1. s # "initialized"  BY <1>1, Moves DEF UpdateBuild
  <2>2. m = n + (IF c = b /\ s \in Verdicts THEN 1 ELSE 0)
    <3> DEFINE x == [build |-> c, status |-> s]
    <3>1. x \in Notices /\ queue' = Append(queue, x) /\ x.build = c /\ x.status = s
      BY <1>1, <2>1, Published DEF UpdateBuild
    <3> HIDE DEF x
    <3>2. QED  BY <1>0, <3>1, CountAppend
  <2>3. ~Committing(b) /\ (Committing(b)' <=> c = b /\ s \in Verdicts)
    <3>1. /\ updating' = [build |-> c, status |-> s, open |-> TRUE]
          /\ updating' \in Updates /\ updating = None
      BY <1>1 DEF UpdateBuild, Updates
    <3>2. updating' # None  BY <3>1, NoneAssumption
    <3>3. QED  BY <3>1, <3>2 DEF Committing
  <2>4. UNCHANGED <<mails, worker, verdicts, interruptions>>
    BY <1>1 DEF UpdateBuild, mailVars
  <2>5. Owes(b, u)' <=> Owes(b, u)  BY <2>4 DEF Owes
  <2> HIDE DEF n, m
  <2>6. QED  BY <1>0, <1>a, <1>b, <2>2, <2>3, <2>4, <2>5
<1>2. CASE CommitUpdate
  <2>1. UNCHANGED <<mails, worker, queue, interruptions>>
    BY <1>2 DEF CommitUpdate, mailVars
  <2>2. Owes(b, u)' <=> Owes(b, u)  BY <2>1 DEF Owes
  <2>3. ~Committing(b)'  BY <1>2 DEF CommitUpdate, Committing
  <2>4. verdicts'[b].all = verdicts[b].all + paid
    <3>1. verdicts \in [Builds -> [all: Nat, red: Nat]]  BY DEF Base, TypeOK
    <3>2. QED  BY <1>0, <1>a, <1>2, <3>1 DEF CommitUpdate, Committing
  <2>5. m = n  BY <2>1
  <2> HIDE DEF n, m
  <2>6. QED  BY <1>0, <1>a, <1>b, <2>1, <2>2, <2>3, <2>4, <2>5
<1>3. CASE InterruptUpdate
  <2>1. UNCHANGED <<mails, worker, queue, verdicts>> /\ interruptions' = interruptions + 1
    BY <1>3 DEF InterruptUpdate, mailVars
  <2>2. Owes(b, u)' <=> Owes(b, u)  BY <2>1 DEF Owes
  <2>3. m = n  BY <2>1
  <2> HIDE DEF n, m
  <2>4. owedNext = owed  BY <1>0, <1>a, <2>2
  <2>5. mails'[b][u] = mails[b][u] /\ verdicts'[b] = verdicts[b]  BY <2>1
  <2>6. interruptions' = interruptions + 1  BY <2>1
  <2>7. QED  BY <1>c, <1>b, <2>3, <2>4, <2>5, <2>6, Weighed
<1>4. CASE RepeatUpdate
  <2>1. PICK c \in Builds, s \in Statuses :
            updating.build = c /\ updating.status = s /\ s # "initialized"
    BY <1>4, Types DEF RepeatUpdate
  <2>2. m = n + (IF c = b /\ s \in Verdicts THEN 1 ELSE 0)
    <3> DEFINE x == [build |-> c, status |-> s]
    <3>1. x \in Notices /\ queue' = Append(queue, x) /\ x.build = c /\ x.status = s
      BY <1>4, <2>1, Published DEF RepeatUpdate
    <3> HIDE DEF x
    <3>2. QED  BY <1>0, <3>1, CountAppend
  <2>3. ~Committing(b) /\ (Committing(b)' <=> c = b /\ s \in Verdicts)
    <3>1. updating \in Updates /\ updating' = [updating EXCEPT !.open = TRUE]
          /\ ~updating.open
      BY <1>4 DEF RepeatUpdate, Base, TypeOK
    <3>2. updating' \in Updates /\ updating'.build = c /\ updating'.status = s
          /\ updating'.open
      BY <2>1, <3>1 DEF Updates
    <3>3. updating' # None  BY <3>2, NoneAssumption
    <3>4. QED  BY <3>1, <3>2, <3>3 DEF Committing
  <2>4. UNCHANGED <<mails, worker, verdicts, interruptions>>
    BY <1>4 DEF RepeatUpdate, mailVars
  <2>5. Owes(b, u)' <=> Owes(b, u)  BY <2>4 DEF Owes
  <2> HIDE DEF n, m
  <2>6. QED  BY <1>0, <1>a, <1>b, <2>2, <2>3, <2>4, <2>5
<1>5. CASE Take
  <2>1. PICK x \in Notices :
            /\ Ahead(queue, x, queue') /\ queue' \in Seq(Notices)
            /\ worker' = [notice |-> x, stage |-> "taken", recipients |-> {}]
    BY <1>0, <1>5, HeadAhead DEF Take
  <2>2. n = m + (IF x.build = b /\ x.status \in Verdicts THEN 1 ELSE 0) /\ m \in Nat
    BY <1>0, <2>1, CountAhead, CountType
  <2>3. UNCHANGED <<mails, verdicts, updating, interruptions>> /\ worker = None
    BY <1>5 DEF Take, buildVars, mailVars
  <2>4. Committing(b)' <=> Committing(b)  BY <2>3 DEF Committing
  <2>5. ~Owes(b, u) /\ (Owes(b, u)' => x.build = b /\ x.status \in Verdicts)
    BY <2>1, <2>3 DEF Owes
  <2> HIDE DEF n, m
  <2>6. paidNext = paid /\ owed = 0  BY <1>0, <1>a, <2>4, <2>5
  <2>7. m + owedNext <= n
    <3>1. CASE x.build = b /\ x.status \in Verdicts  BY <1>0, <2>2, <3>1
    <3>2. CASE ~(x.build = b /\ x.status \in Verdicts)
      <4>1. owedNext = 0  BY <1>0, <1>a, <2>5, <3>2
      <4>2. QED  BY <1>0, <2>2, <3>2, <4>1
    <3>3. QED  BY <3>1, <3>2
  <2>8. /\ mails'[b][u] = mails[b][u] /\ verdicts'[b] = verdicts[b]
        /\ interruptions' = interruptions
    BY <2>3
  <2>9. QED  BY <1>c, <1>b, <2>6, <2>7, <2>8, Weighed
<1>6. ASSUME UNCHANGED <<mails, verdicts, updating, interruptions, queue>>,
             Owes(b, u)' => Owes(b, u)
      PROVE  mails'[b][u] + m + owedNext <= verdicts'[b].all + interruptions' + paidNext
  <2>1. Committing(b)' <=> Committing(b)  BY <1>6 DEF Committing
  <2>2. m = n  BY <1>6
  <2> HIDE DEF n, m
  <2>3. QED  BY <1>0, <1>a, <1>b, <1>6, <2>1, <2>2
<1>7. CASE CreateCommitStatus
  <2>1. worker' = [worker EXCEPT !.stage = "posted"] /\ worker \in Workers
        /\ worker # None /\ worker.stage = "taken"
    BY <1>7 DEF CreateCommitStatus, Base, TypeOK
  <2>2. Owes(b, u)' => Owes(b, u)  BY <2>1 DEF Owes, Workers
  <2>3. UNCHANGED <<mails, verdicts, updating, interruptions, queue>>
    BY <1>7 DEF CreateCommitStatus, buildVars, mailVars
  <2>4. QED  BY <1>6, <2>2, <2>3
<1>8. CASE SelectRecipients
  <2>1. /\ worker \in Workers /\ worker # None /\ worker.stage = "posted"
        /\ worker'.notice = worker.notice
    BY <1>8 DEF SelectRecipients, Base, TypeOK, Workers
  <2>2. Owes(b, u)' => Owes(b, u)  BY <2>1 DEF Owes, Workers
  <2>3. UNCHANGED <<mails, verdicts, updating, interruptions, queue>>
    BY <1>8 DEF SelectRecipients, buildVars, mailVars
  <2>4. QED  BY <1>6, <2>2, <2>3
<1>9. ASSUME NEW v \in Users, SendMail(v)
      PROVE  mails'[b][u] + m + owedNext <= verdicts'[b].all + interruptions' + paidNext
  <2>1. /\ worker \in Workers /\ worker # None /\ worker.stage = "mailing"
        /\ worker.notice.status \in Verdicts /\ worker.notice.build \in Builds
        /\ v \in worker.recipients
        /\ worker'.recipients = worker.recipients \ {v}
        /\ worker'.notice = worker.notice /\ worker'.stage = worker.stage
    BY <1>9, Types DEF SendMail, Base, TypeOK, Workers, MailsVerdicts
  <2>2. mails'[b][u] = mails[b][u] + (IF worker.notice.build = b /\ u = v THEN 1 ELSE 0)
    <3>1. mails \in [Builds -> [Users -> Nat]]  BY DEF Base, TypeOK
    <3>2. QED  BY <1>9, <2>1, <3>1 DEF SendMail
  <2>3. UNCHANGED <<verdicts, updating, interruptions, queue>>
    BY <1>9 DEF SendMail, buildVars
  <2>4. CASE worker.notice.build = b /\ u = v
    <3>1. Owes(b, u) /\ ~Owes(b, u)'  BY <2>1, <2>4 DEF Owes
    <3>2. Committing(b)' <=> Committing(b)  BY <2>3 DEF Committing
    <3>3. m = n  BY <2>3
    <3> HIDE DEF n, m
    <3>4. owed = 1 /\ owedNext = 0 /\ paidNext = paid  BY <1>c, <1>a, <3>1, <3>2
    <3>5. mails'[b][u] = mails[b][u] + 1  BY <2>2, <2>4
    <3>6. verdicts'[b] = verdicts[b] /\ interruptions' = interruptions  BY <2>3
    <3>7. QED  BY <1>c, <1>b, <3>3, <3>4, <3>5, <3>6, Weighed
  <2>5. CASE ~(worker.notice.build = b /\ u = v)
    <3>1. Owes(b, u)' => Owes(b, u)  BY <2>1, <2>5 DEF Owes
    <3>2. Committing(b)' <=> Committing(b)  BY <2>3 DEF Committing
    <3>3. m = n  BY <2>3
    <3> HIDE DEF n, m
    <3>4. (owed = 0 => owedNext = 0) /\ paidNext = paid  BY <1>c, <1>a, <3>1, <3>2
    <3>5. mails'[b][u] = mails[b][u]  BY <1>c, <2>2, <2>5
    <3>6. verdicts'[b] = verdicts[b] /\ interruptions' = interruptions  BY <2>3
    <3>7. QED  BY <1>c, <1>b, <3>3, <3>4, <3>5, <3>6, Weighed
  <2>6. QED  BY <2>4, <2>5
<1>10. CASE Acknowledge
  <2>1. worker' = None  BY <1>10 DEF Acknowledge
  <2>2. ~Owes(b, u)'  BY <2>1 DEF Owes
  <2>3. UNCHANGED <<mails, verdicts, updating, interruptions, queue>>
    BY <1>10 DEF Acknowledge, buildVars, mailVars
  <2>4. QED  BY <1>6, <2>2, <2>3
<1>11. CASE Interrupt
  <2>1. worker # None /\ worker.notice \in Notices  BY <1>11, Types DEF Interrupt
  <2>2. PICK x \in Notices : x = worker.notice  BY <2>1
  <2>3. Ahead(queue', x, queue) /\ queue' \in Seq(Notices)
    BY <1>0, <1>11, <2>2, BackAhead DEF Interrupt
  <2>4. m = n + (IF x.build = b /\ x.status \in Verdicts THEN 1 ELSE 0)
    BY <1>0, <2>3, CountAhead
  <2>5. /\ UNCHANGED <<mails, verdicts, updating>>
        /\ interruptions' = interruptions + 1 /\ worker' = None
    BY <1>11 DEF Interrupt, buildVars, mailVars
  <2>6. Committing(b)' <=> Committing(b)  BY <2>5 DEF Committing
  <2>7. ~Owes(b, u)'  BY <2>5 DEF Owes
  <2> HIDE DEF n, m
  <2>8. owedNext = 0 /\ paidNext = paid  BY <1>c, <1>a, <2>6, <2>7
  <2>9. m <= n + 1
    <3>1. m = n \/ m = n + 1  BY <1>c, <2>4
    <3>2. QED  BY <1>b, <1>c, <3>1
  <2>10. /\ mails'[b][u] = mails[b][u] /\ verdicts'[b] = verdicts[b]
         /\ interruptions' = interruptions + 1
    BY <2>5
  <2>11. QED  BY <1>c, <1>b, <2>8, <2>9, <2>10, Weighed
<1>12. ASSUME UNCHANGED <<mails, verdicts, updating, interruptions, queue, worker>>
       PROVE  mails'[b][u] + m + owedNext <= verdicts'[b].all + interruptions' + paidNext
  <2>1. Owes(b, u)' => Owes(b, u)  BY <1>12 DEF Owes
  <2>2. QED  BY <1>6, <1>12, <2>1
<1>13. ASSUME NEW c \in Builds, Restart(c)
       PROVE  UNCHANGED <<mails, verdicts, updating, interruptions, queue, worker>>
  BY <1>13 DEF Restart, mailVars
<1>14. ASSUME NEW r \in Requests, NEW v \in Users \ Loyal,
              NEW want \in {"on", "off", "author"}, LoadSubscription(r, v, want)
       PROVE  UNCHANGED <<mails, verdicts, updating, interruptions, queue, worker>>
  BY <1>14 DEF LoadSubscription, buildVars, mailVars
<1>15. ASSUME NEW r \in Requests, SaveSubscription(r)
       PROVE  UNCHANGED <<mails, verdicts, updating, interruptions, queue, worker>>
  BY <1>15 DEF SaveSubscription, buildVars, mailVars
<1>16. CASE UNCHANGED vars
  BY <1>12, <1>16 DEF vars
<1> HIDE DEF n, m
<1>17. QED
  BY <1>1, <1>2, <1>3, <1>4, <1>5, <1>7, <1>8, <1>9, <1>10, <1>11, <1>12, <1>13, <1>14,
     <1>15, <1>16 DEF Next, Consume

\* A verdict is mailed to a user once, and again only because a consumer was
\* interrupted (BuildNotifier#delivery_email_notifications), however often the
\* build is restarted and however long the queue is.
THEOREM MailedOnce == Spec => []OneMailPerVerdict
<1>1. Base /\ Balanced => OneMailPerVerdict
  <2> SUFFICES ASSUME Base, Balanced, NEW b \in Builds, NEW u \in Users
               PROVE  mails[b][u] <= verdicts[b].all + interruptions
                                     + (IF Pending(b) THEN 1 ELSE 0)
    BY DEF OneMailPerVerdict
  <2>1. /\ mails[b][u] \in Nat /\ verdicts[b].all \in Nat /\ interruptions \in Nat
        /\ Cardinality(VerdictsIn(queue, b)) \in Nat
    BY Types, CountType
  <2>2. Committing(b) => Pending(b)  BY DEF Committing, Pending
  <2>3. mails[b][u] + Cardinality(VerdictsIn(queue, b)) + (IF Owes(b, u) THEN 1 ELSE 0)
          <= verdicts[b].all + interruptions + (IF Committing(b) THEN 1 ELSE 0)
    BY DEF Balanced
  <2>4. QED  BY <2>1, <2>2, <2>3
<1>2. Init => Balanced  BY BalancedInit
<1>3. Base /\ Base' /\ Balanced /\ [Next]_vars => Balanced'  BY BalancedNext
<1>4. QED  BY <1>1, <1>2, <1>3, BaseInvariance, PTL DEF Spec

-----------------------------------------------------------------------------
(* What the hosting service shows                                           *)

LEMMA TellsAhead ==
    ASSUME NEW p \in Seq(Notices), NEW q \in Seq(Notices), NEW n, Ahead(p, n, q),
           NEW b, NEW state
    PROVE  /\ In(p, b) <=> n.build = b \/ In(q, b)
           /\ In(q, b) => (LastTells(p, b, state) <=> LastTells(q, b, state))
           /\ ~In(q, b) => (LastTells(p, b, state) <=> (n.build = b => n.status = state))
<1>1. In(p, b) <=> n.build = b \/ In(q, b)
  <2>1. ASSUME In(p, b), n.build # b  PROVE In(q, b)
    <3>1. PICK i \in DOMAIN p : p[i].build = b  BY <2>1 DEF In
    <3>2. i - 1 \in DOMAIN q /\ p[i] = q[i - 1]  BY <2>1, <3>1 DEF Ahead
    <3>3. QED  BY <3>1, <3>2 DEF In
  <2>2. n.build = b => In(p, b)  BY DEF Ahead, In
  <2>3. ASSUME In(q, b)  PROVE In(p, b)
    <3>1. PICK i \in DOMAIN q : q[i].build = b  BY <2>3 DEF In
    <3>2. QED  BY <3>1 DEF Ahead, In
  <2>4. QED  BY <2>1, <2>2, <2>3
<1>2. ASSUME LastTells(p, b, state)  PROVE LastTells(q, b, state)
  <2> SUFFICES ASSUME NEW i \in DOMAIN q, q[i].build = b,
                      \A k \in DOMAIN q : k > i => q[k].build # b
               PROVE  q[i].status = state
    BY DEF LastTells
  <2>1. i \in Nat \ {0} /\ i + 1 \in DOMAIN p /\ p[i + 1] = q[i]  BY DEF Ahead
  <2>2. ASSUME NEW k \in DOMAIN p, k > i + 1  PROVE p[k].build # b
    <3>1. k \in Nat \ {0} /\ k # 1 /\ k - 1 > i  BY <2>1, <2>2 DEF Ahead
    <3>2. k - 1 \in DOMAIN q /\ p[k] = q[k - 1]  BY <3>1 DEF Ahead
    <3>3. QED  BY <3>1, <3>2
  <2>3. QED  BY <1>2, <2>1, <2>2 DEF LastTells
<1>3. ASSUME LastTells(q, b, state), In(q, b)  PROVE LastTells(p, b, state)
  <2> SUFFICES ASSUME NEW i \in DOMAIN p, p[i].build = b,
                      \A k \in DOMAIN p : k > i => p[k].build # b
               PROVE  p[i].status = state
    BY DEF LastTells
  <2>1. i # 1
    <3>1. PICK k \in DOMAIN q : q[k].build = b  BY <1>3 DEF In
    <3>2. k \in Nat \ {0} /\ k + 1 \in DOMAIN p /\ p[k + 1] = q[k]  BY DEF Ahead
    <3>3. k + 1 > 1  BY <3>2
    <3>4. QED  BY <3>1, <3>2, <3>3
  <2>2. i \in Nat /\ i - 1 \in DOMAIN q /\ p[i] = q[i - 1]  BY <2>1 DEF Ahead
  <2>3. ASSUME NEW k \in DOMAIN q, k > i - 1  PROVE q[k].build # b
    <3>1. k \in Nat /\ k + 1 \in DOMAIN p /\ p[k + 1] = q[k]  BY DEF Ahead
    <3>2. k + 1 > i  BY <2>2, <2>3, <3>1
    <3>3. QED  BY <3>1, <3>2
  <2>4. QED  BY <1>3, <2>2, <2>3 DEF LastTells
<1>4. ASSUME ~In(q, b)
      PROVE  LastTells(p, b, state) <=> (n.build = b => n.status = state)
  <2>1. \A i \in DOMAIN p : p[i].build = b => i = 1
    BY <1>4 DEF Ahead, In
  <2>2. 1 \in DOMAIN p /\ p[1] = n /\ \A k \in DOMAIN p : k > 1 => k # 1
    BY DEF Ahead
  <2>3. QED  BY <2>1, <2>2 DEF LastTells
<1>5. QED  BY <1>1, <1>2, <1>3, <1>4

LEMMA TellsAppend ==
    ASSUME NEW q \in Seq(Notices), NEW n \in Notices, NEW b, NEW state
    PROVE  /\ In(Append(q, n), b) <=> n.build = b \/ In(q, b)
           /\ LastTells(Append(q, n), b, state) <=>
                 IF n.build = b THEN n.status = state ELSE LastTells(q, b, state)
<1> DEFINE p == Append(q, n)
<1>1. PICK l \in Nat : /\ l \notin DOMAIN q
                       /\ \A i \in DOMAIN q : i \in Nat /\ l > i
                       /\ DOMAIN p = DOMAIN q \cup {l}
                       /\ \A i \in DOMAIN q : p[i] = q[i]
                       /\ p[l] = n
  BY AppendedNotice
<1> HIDE DEF p
<1>2. In(p, b) <=> n.build = b \/ In(q, b)  BY <1>1 DEF In
<1>3. CASE n.build = b
  <2>1. \A k \in DOMAIN p : ~(k > l)  BY <1>1
  <2>2. \A i \in DOMAIN p : i # l => l > i  BY <1>1
  <2>3. QED  BY <1>1, <1>2, <1>3, <2>1, <2>2 DEF LastTells, p
<1>4. CASE n.build # b
  <2>1. LastTells(p, b, state) <=> LastTells(q, b, state)  BY <1>1, <1>4 DEF LastTells
  <2>2. QED  BY <1>2, <1>4, <2>1 DEF p
<1>5. QED  BY <1>3, <1>4

LEMMA FollowsInit == Init => Follows
BY DEF Init, Follows, Undone, Target

LEMMA FollowsNext == Base /\ Base' /\ Follows /\ [Next]_vars => Follows'
<1> SUFFICES ASSUME Base, Base', Follows, [Next]_vars, NEW b \in Builds,
                    ~Undone(b)', Target(b)' # "initialized"
             PROVE  LastNotice(b)'
  BY DEF Follows, Undone, Target, LastNotice, Handled, In, LastTells
<1>q. queue \in Seq(Notices) /\ queue' \in Seq(Notices)
  BY DEF Base, TypeOK
<1>s. PICK s : s = Target(b)  OBVIOUS
<1>t. PICK t : t = Target(b)'  OBVIOUS
<1> DEFINE Goal ==
             /\ LastTells(queue', b, t)
             /\ ~In(queue', b) =>
                   /\ worker' # None /\ worker'.notice.build = b => worker'.notice.status = t
                   /\ \/ worker' # None /\ worker'.notice.build = b /\ worker'.stage = "taken"
                      \/ shown'[b] \in {t, "stale"}
<1>g. SUFFICES Goal
  BY <1>t DEF LastNotice, Handled, In, LastTells, Target
<1>u. ~Undone(b) /\ s # "initialized" =>
         /\ LastTells(queue, b, s)
         /\ ~In(queue, b) =>
              /\ worker # None /\ worker.notice.build = b => worker.notice.status = s
              /\ \/ worker # None /\ worker.notice.build = b /\ worker.stage = "taken"
                 \/ shown[b] \in {s, "stale"}
  BY <1>s DEF Follows, LastNotice, Handled
<1>v. ~Undone(b)' /\ t # "initialized"
  BY <1>t DEF Undone, Target
\* What publishing a notice and what handling it come to.
<1>1. ASSUME NEW n \in Notices, queue' = Append(queue, n),
             UNCHANGED <<worker, shown>>,
             n.build = b => n.status = t,
             n.build # b => ~Undone(b) /\ s = t
      PROVE  Goal
  <2>1. /\ In(queue', b) <=> n.build = b \/ In(queue, b)
        /\ LastTells(queue', b, t) <=>
              IF n.build = b THEN n.status = t ELSE LastTells(queue, b, t)
    BY <1>q, <1>1, TellsAppend
  <2>2. CASE n.build = b  BY <1>1, <2>1, <2>2
  <2>3. CASE n.build # b  BY <1>u, <1>v, <1>1, <2>1, <2>3
  <2>4. QED  BY <2>2, <2>3
<1>2. ASSUME UNCHANGED <<queue, worker, shown>>, ~Undone(b), s = t
      PROVE  Goal
  BY <1>u, <1>v, <1>2
<1>3. ASSUME UNCHANGED <<updating, status>>
      PROVE  ~Undone(b) /\ s = t
  BY <1>s, <1>t, <1>v, <1>3 DEF Undone, Target
<1>4. ASSUME NEW c \in Builds, NEW x \in Statuses, UpdateBuild(c, x)  PROVE Goal
  <2>1. x # "initialized"  BY <1>4, Moves DEF UpdateBuild
  <2>2. /\ updating' = [build |-> c, status |-> x, open |-> TRUE]
        /\ updating' \in Updates /\ updating = None
        /\ UNCHANGED <<status, worker, shown>>
    BY <1>4 DEF UpdateBuild, Updates
  <2>3. updating' # None  BY <2>2, NoneAssumption
  <2>4. PICK n \in Notices : queue' = Append(queue, n) /\ n.build = c /\ n.status = x
    BY <1>4, <2>1, Published DEF UpdateBuild
  <2>5. (c = b => t = x) /\ (c # b => ~Undone(b) /\ s = t)
    BY <1>s, <1>t, <2>2, <2>3 DEF Undone, Target
  <2>6. QED  BY <1>1, <2>2, <2>4, <2>5
<1>5. CASE CommitUpdate
  <2>1. /\ updating # None /\ updating.open /\ updating.build \in Builds
        /\ status' = [status EXCEPT ![updating.build] = updating.status]
        /\ updating' = None /\ UNCHANGED <<queue, worker, shown>>
    BY <1>5, Types DEF CommitUpdate
  <2>2. status \in [Builds -> Statuses]  BY DEF Base, TypeOK
  <2>3. ~Undone(b) /\ s = t  BY <1>s, <1>t, <2>1, <2>2 DEF Undone, Target
  <2>4. QED  BY <1>2, <2>1, <2>3
<1>6. CASE InterruptUpdate
  <2>1. /\ updating # None /\ updating.open /\ updating \in Updates
        /\ updating' = [updating EXCEPT !.open = FALSE]
        /\ updating' \in Updates
        /\ UNCHANGED <<status, queue, worker, shown>>
    BY <1>6 DEF InterruptUpdate, Base, TypeOK, Updates
  <2>2. /\ updating' # None /\ updating'.build = updating.build
        /\ updating'.status = updating.status /\ ~updating'.open
    BY <2>1, NoneAssumption DEF Updates
  <2>3. ~Undone(b) /\ s = t  BY <1>s, <1>t, <1>v, <2>1, <2>2 DEF Undone, Target
  <2>4. QED  BY <1>2, <2>1, <2>3
<1>7. CASE RepeatUpdate
  <2>1. /\ updating # None /\ ~updating.open /\ updating \in Updates
        /\ updating' = [updating EXCEPT !.open = TRUE]
        /\ updating' \in Updates
        /\ UNCHANGED <<status, worker, shown>>
    BY <1>7 DEF RepeatUpdate, Base, TypeOK, Updates
  <2>2. /\ updating' # None /\ updating'.build = updating.build
        /\ updating'.status = updating.status
    BY <2>1, NoneAssumption DEF Updates
  <2>3. PICK n \in Notices : /\ queue' = Append(queue, n)
                             /\ n.build = updating.build /\ n.status = updating.status
    BY <1>7, Types, Published DEF RepeatUpdate
  <2>4. /\ updating.build = b => t = updating.status
        /\ updating.build # b => ~Undone(b) /\ s = t
    BY <1>s, <1>t, <2>1, <2>2 DEF Undone, Target
  <2>5. QED  BY <1>1, <2>1, <2>3, <2>4
<1>8. ASSUME NEW c \in Builds, Restart(c)  PROVE Goal
  <2>1. /\ status' = [status EXCEPT ![c] = "initialized"] /\ Finished(c)
        /\ UNCHANGED <<updating, queue, worker, shown>>
        /\ status \in [Builds -> Statuses]
    BY <1>8 DEF Restart, Base, TypeOK
  <2>2. updating # None => updating.build # c  BY <2>1, Types DEF Finished
  <2>3. c # b  BY <1>t, <1>v, <2>1, <2>2 DEF Target
  <2>4. ~Undone(b) /\ s = t  BY <1>s, <1>t, <1>v, <2>1, <2>3 DEF Undone, Target
  <2>5. QED  BY <1>2, <2>1, <2>4
<1>9. CASE Take
  <2>1. PICK n \in Notices :
            /\ Ahead(queue, n, queue')
            /\ worker' = [notice |-> n, stage |-> "taken", recipients |-> {}]
    BY <1>q, <1>9, HeadAhead DEF Take
  <2>2. /\ In(queue, b) <=> n.build = b \/ In(queue', b)
        /\ In(queue', b) => (LastTells(queue, b, s) <=> LastTells(queue', b, s))
        /\ ~In(queue', b) =>
              /\ LastTells(queue, b, s) <=> (n.build = b => n.status = s)
              /\ LastTells(queue, b, s) => LastTells(queue', b, s)
    <3>1. ~In(queue', b) => LastTells(queue', b, s)  BY DEF In, LastTells
    <3>2. QED  BY <1>q, <2>1, <3>1, TellsAhead
  <2>3. /\ UNCHANGED <<updating, status, shown>> /\ worker = None
        /\ worker'.notice = n /\ worker'.stage = "taken"
    BY <1>9, <2>1 DEF Take, buildVars
  <2>4. worker' # None
    <3>1. worker' \in Workers  BY <2>1 DEF Workers
    <3>2. QED  BY <3>1, NoneAssumption
  <2>5. ~Undone(b) /\ s = t  BY <1>3, <2>3
  <2>6. QED  BY <1>u, <1>v, <2>2, <2>3, <2>4, <2>5
<1>10. CASE CreateCommitStatus
  <2>1. /\ worker \in Workers /\ worker # None /\ worker.notice.build \in Builds
        /\ worker' \in Workers /\ worker'.notice = worker.notice
        /\ worker.stage = "taken"
        /\ UNCHANGED <<updating, status, queue>>
    BY <1>10, Types DEF CreateCommitStatus, Base, TypeOK, Workers, buildVars
  <2>2. worker' # None  BY <2>1, NoneAssumption
  <2>3. shown \in [Builds -> Statuses \cup {"none", "stale"}]  BY DEF Base, TypeOK
  <2>4. /\ worker.notice.build = b => shown'[b] \in {worker.notice.status, "stale"}
        /\ worker.notice.build # b => shown'[b] = shown[b]
    BY <1>10, <2>1, <2>3 DEF CreateCommitStatus
  <2>5. ~Undone(b) /\ s = t  BY <1>3, <2>1
  <2>6. QED  BY <1>u, <1>v, <2>1, <2>2, <2>4, <2>5
\* The steps after it leave what was shown.
<1>11. ASSUME UNCHANGED <<updating, status, queue, shown>>,
              worker # None, worker.stage # "taken",
              worker' = None \/ worker'.notice = worker.notice
       PROVE  Goal
  <2>1. ~Undone(b) /\ s = t  BY <1>3, <1>11
  <2>2. QED  BY <1>u, <1>v, <1>11, <2>1
<1>12. CASE SelectRecipients
  <2>1. worker'.notice = worker.notice
    BY <1>12 DEF SelectRecipients, Base, TypeOK, Workers
  <2>2. QED  BY <1>11, <1>12, <2>1 DEF SelectRecipients, buildVars
<1>13. ASSUME NEW v \in Users, SendMail(v)  PROVE Goal
  <2>1. worker'.notice = worker.notice /\ worker.stage = "mailing"
    BY <1>13 DEF SendMail, Base, TypeOK, Workers, MailsVerdicts
  <2>2. QED  BY <1>11, <1>13, <2>1 DEF SendMail, buildVars
<1>14. CASE Acknowledge
  BY <1>11, <1>14 DEF Acknowledge, buildVars
<1>15. CASE Interrupt
  <2>1. worker # None /\ worker.notice \in Notices  BY <1>15, Types DEF Interrupt
  <2>2. PICK n \in Notices : n = worker.notice  BY <2>1
  <2>3. Ahead(queue', n, queue)  BY <1>q, <1>15, <2>2, BackAhead DEF Interrupt
  <2>4. /\ In(queue', b) <=> n.build = b \/ In(queue, b)
        /\ In(queue, b) => (LastTells(queue', b, s) <=> LastTells(queue, b, s))
        /\ ~In(queue, b) => (LastTells(queue', b, s) <=> (n.build = b => n.status = s))
    BY <1>q, <2>3, TellsAhead
  <2>5. UNCHANGED <<updating, status, shown>> /\ worker' = None
    BY <1>15 DEF Interrupt, buildVars
  <2>6. ~Undone(b) /\ s = t  BY <1>3, <2>5
  <2>7. QED  BY <1>u, <1>v, <2>1, <2>2, <2>4, <2>5, <2>6
<1>16. ASSUME NEW r \in Requests, NEW v \in Users \ Loyal,
              NEW want \in {"on", "off", "author"}, LoadSubscription(r, v, want)
       PROVE  Goal
  BY <1>2, <1>3, <1>16 DEF LoadSubscription, buildVars
<1>17. ASSUME NEW r \in Requests, SaveSubscription(r)  PROVE Goal
  BY <1>2, <1>3, <1>17 DEF SaveSubscription, buildVars
<1>18. CASE UNCHANGED vars
  BY <1>2, <1>3, <1>18 DEF vars
<1> HIDE DEF Goal
<1>19. QED
  BY <1>4, <1>5, <1>6, <1>7, <1>8, <1>9, <1>10, <1>12, <1>13, <1>14, <1>15, <1>16,
     <1>17, <1>18 DEF Next, Consume

\* Once the notices of a build are handled, the hosting service shows the state the
\* build is in, unless it refused the last status it was sent
\* (BuildNotifier#create_commit_status): it never gets stuck at an old one.
THEOREM StatusShown == Spec => []ServiceShowsStatus
<1>1. Follows => ServiceShowsStatus
  <2> SUFFICES ASSUME Follows, NEW b \in Builds, ~Pending(b), status[b] # "initialized"
               PROVE  shown[b] \in {status[b], "stale"}
    BY DEF ServiceShowsStatus
  <2>1. Target(b) = status[b] /\ ~Undone(b) /\ ~Handled(b) /\ ~In(queue, b)
    BY DEF Pending, Target, Undone, Handled, In
  <2>2. QED  BY <2>1 DEF Follows, LastNotice
<1>2. QED  BY <1>1, FollowsInit, FollowsNext, BaseInvariance, PTL DEF Spec

-----------------------------------------------------------------------------
(* Subscriptions                                                            *)

LEMMA WritesOfSubscriptions ==
    ASSUME TypeOK, [Next]_vars, NEW u \in Users, subscriptions'[u] # subscriptions[u]
    PROVE  \E r \in Requests : SaveSubscription(r)
<1>1. ASSUME UNCHANGED subscriptions  PROVE FALSE  BY <1>1
<1>2. ASSUME NEW b \in Builds, NEW s \in Statuses, UpdateBuild(b, s)  PROVE FALSE
  BY <1>1, <1>2 DEF UpdateBuild, subscriptionVars
<1>3. ~CommitUpdate /\ ~InterruptUpdate /\ ~RepeatUpdate
  BY <1>1 DEF CommitUpdate, InterruptUpdate, RepeatUpdate, subscriptionVars
<1>4. ASSUME NEW b \in Builds, Restart(b)  PROVE FALSE
  BY <1>1, <1>4 DEF Restart, subscriptionVars
<1>5. ~Take /\ ~CreateCommitStatus /\ ~SelectRecipients /\ ~Acknowledge /\ ~Interrupt
  BY <1>1 DEF Take, CreateCommitStatus, SelectRecipients, Acknowledge, Interrupt,
              subscriptionVars
<1>6. ASSUME NEW v \in Users, SendMail(v)  PROVE FALSE
  BY <1>1, <1>6 DEF SendMail, subscriptionVars
<1>7. ASSUME NEW r \in Requests, NEW v \in Users \ Loyal,
             NEW want \in {"on", "off", "author"}, LoadSubscription(r, v, want)
      PROVE  FALSE
  BY <1>1, <1>7 DEF LoadSubscription
<1>8. ~UNCHANGED vars  BY <1>1 DEF vars
<1>9. QED  BY <1>2, <1>3, <1>4, <1>5, <1>6, <1>7, <1>8 DEF Next, Consume

\* Somebody who unsubscribed is subscribed again by a request of his own only, not
\* by the commits he is the author of (ProjectSubscription.subscribe_by_email).
THEOREM OwnRequestOnly == Spec => AuthorsAreNotResubscribed
<1> DEFINE A == \A u \in Users :
                   subscriptions[u] = "off" /\ subscriptions'[u] = "on" =>
                   \E r \in Requests : requests[r] # None /\ requests[r].user = u
                                       /\ requests[r].want = "on" /\ requests'[r] = None
<1>1. ASSUME TypeOK, [Next]_vars  PROVE A
  <2> SUFFICES ASSUME NEW u \in Users, subscriptions[u] = "off", subscriptions'[u] = "on"
               PROVE  \E r \in Requests : requests[r] # None /\ requests[r].user = u
                                       /\ requests[r].want = "on" /\ requests'[r] = None
    OBVIOUS
  <2>1. PICK r \in Requests : SaveSubscription(r)  BY <1>1, WritesOfSubscriptions
  <2>2. /\ subscriptions \in [Users -> {"none", "on", "off"}]
        /\ requests \in [Requests -> SubscriptionRequests \cup {None}]
    BY <1>1 DEF TypeOK
  <2>3. requests[r] # None /\ requests'[r] = None /\ requests[r] \in SubscriptionRequests
    BY <2>1, <2>2 DEF SaveSubscription
  <2>4. Writes(r) /\ requests[r].user = u /\ requests[r].want # "off"
    BY <2>1, <2>2 DEF SaveSubscription
  <2>5. requests[r].want # "author"  BY <2>4 DEF Writes
  <2>6. requests[r].want = "on"  BY <2>3, <2>4, <2>5 DEF SubscriptionRequests
  <2>7. QED  BY <2>3, <2>4, <2>6
<1>2. Spec => [][TypeOK /\ [Next]_vars]_vars  BY NotificationTypes, PTL DEF Spec
<1>3. TypeOK /\ [Next]_vars => A  BY <1>1
<1>4. Spec => [][A]_vars  BY <1>2, <1>3, PTL
<1>5. QED  BY <1>4 DEF AuthorsAreNotResubscribed

-----------------------------------------------------------------------------
(* What subscribers know                                                    *)

\* A set of numbers has a first member.
LEMMA LeastOf ==
    ASSUME NEW S, S \subseteq Nat, S # {}
    PROVE  \E x \in S : \A y \in S : x <= y
<1>1. PICK x \in S : \A y \in S : ~ (<<y, x>> \in OpToRel(<, Nat))
  BY NatLessThanWellFounded, WFMin, Zenon
<1>2. \A y \in S : ~(y < x)
  <2>1. \A y \in S : <<y, x>> \in Nat \X Nat  OBVIOUS
  <2>2. \A y \in S : ~(<<y, x>>[1] < <<y, x>>[2])
    BY <1>1, <2>1, Zenon DEF OpToRel
  <2>3. QED  BY <2>2
<1>3. \A y \in S : x \in Nat /\ y \in Nat  OBVIOUS
<1>4. QED  BY <1>2, <1>3

\* A finite set of numbers has a last member: one with the fewest above it.
LEMMA LastOf ==
    ASSUME NEW S, S \subseteq Nat, S # {}, IsFiniteSet(S)
    PROVE  Max(S) \in S /\ \A y \in S : Max(S) >= y
<1> DEFINE Above(x) == {y \in S : y > x}
           T == {Cardinality(Above(x)) : x \in S}
<1>1. \A x \in S : IsFiniteSet(Above(x)) /\ Cardinality(Above(x)) \in Nat
  <2> SUFFICES ASSUME NEW x \in S
               PROVE  IsFiniteSet(Above(x)) /\ Cardinality(Above(x)) \in Nat
    OBVIOUS
  <2>1. Above(x) \subseteq S  OBVIOUS
  <2> HIDE DEF Above
  <2>2. QED  BY <2>1, FS_Subset, FS_CardinalityType
<1>2. T \subseteq Nat /\ T # {}  BY <1>1
<1>3. PICK k \in T : \A l \in T : k <= l
  <2> HIDE DEF T
  <2> QED  BY <1>2, LeastOf
<1>4. PICK x \in S : k = Cardinality(Above(x))  OBVIOUS
<1>5. \A y \in S : x >= y
  <2> SUFFICES ASSUME NEW y \in S, ~ (x >= y)  PROVE FALSE
    OBVIOUS
  <2>1. x \in Nat /\ y \in Nat /\ y > x /\ \A z \in S : z \in Nat  OBVIOUS
  <2>2. Above(y) \subseteq Above(x) /\ y \in Above(x) /\ y \notin Above(y)
    <3>1. \A z \in S : z > y => z > x
      <4>1. \A z \in Nat : z > y => z > x  BY <2>1
      <4>2. QED  BY <2>1, <4>1
    <3>2. y > x /\ ~(y > y)  BY <2>1
    <3>3. QED  BY <3>1, <3>2
  <2>3. Cardinality(Above(x)) <= Cardinality(Above(y))  BY <1>3, <1>4
  <2> HIDE DEF Above, T
  <2>4. Cardinality(Above(y)) <= Cardinality(Above(x))
        /\ (Cardinality(Above(y)) = Cardinality(Above(x)) => Above(y) = Above(x))
    BY <1>1, <2>2, FS_Subset
  <2>5. QED  BY <1>1, <2>2, <2>3, <2>4
<1>6. QED  BY <1>5 DEF Max

LEMMA EarlierBuilds ==
    ASSUME NEW b \in Builds
    PROVE  /\ Earlier(b) \subseteq Builds /\ Earlier(b) \subseteq Nat /\ b \in Nat
           /\ Earlier(b) # {} => Max(Earlier(b)) \in Earlier(b)
           /\ \A c \in Earlier(b) : Max(Earlier(b)) >= c
<1>1. Earlier(b) \in SUBSET Builds /\ Earlier(b) \subseteq Nat /\ b \in Nat
  BY BuildsAssumption DEF Earlier
<1>2. IsFiniteSet(Earlier(b))  BY <1>1, BuildsAssumption, FS_Subset
<1>3. QED  BY <1>1, <1>2, LastOf

\* While builds end in order, a build that has ended stays as it is.
LEMMA EndedStays ==
    ASSUME Base, Base', [Next]_vars, inOrder', NEW b \in Builds
    PROVE  /\ inOrder
           /\ Finished(b) => Finished(b)' /\ status'[b] = status[b]
           /\ Ended(b) => Ended(b)' /\ Target(b)' = Target(b)
           /\ Ended(b)' => \/ Ended(b)
                           \/ \E s \in Verdicts : UpdateBuild(b, s)
<1> DEFINE Goal ==
             /\ inOrder
             /\ Finished(b) => Finished(b)' /\ status'[b] = status[b]
             /\ Ended(b) => Ended(b)' /\ Target(b)' = Target(b)
             /\ Ended(b)' => \/ Ended(b)
                             \/ \E s \in Verdicts : UpdateBuild(b, s)
<1> SUFFICES Goal
  OBVIOUS
<1>0. status \in [Builds -> Statuses] /\ inOrder \in BOOLEAN  BY DEF Base, TypeOK
<1>1. ASSUME UNCHANGED <<status, updating, inOrder>>  PROVE Goal
  BY <1>1 DEF Finished, Ended, Target
<1>2. ASSUME NEW c \in Builds, NEW s \in Statuses, UpdateBuild(c, s)  PROVE Goal
  <2>1. CanBecome(status[c], s) /\ status[c] \notin Verdicts
    BY <1>2, Moves DEF UpdateBuild
  <2>2. /\ updating' = [build |-> c, status |-> s, open |-> TRUE]
        /\ updating' \in Updates /\ updating = None /\ UNCHANGED status
        /\ inOrder' = (inOrder /\ (s \in Verdicts => \A d \in Earlier(c) : Finished(d)))
    BY <1>2 DEF UpdateBuild, Updates
  <2>3. updating' # None  BY <2>2, NoneAssumption
  <2>4. inOrder  BY <2>2
  <2>5. CASE c = b
    <3>1. ~Ended(b) /\ ~Finished(b)  BY <2>1, <2>2, <2>5 DEF Ended, Finished
    <3>2. Ended(b)' => s \in Verdicts  BY <2>1, <2>2, <2>5 DEF Ended, Finished
    <3>3. QED  BY <1>2, <2>4, <2>5, <3>1, <3>2
  <2>6. CASE c # b
    <3>1. /\ Finished(b)' <=> Finished(b)
          /\ Ended(b)' <=> Ended(b)
          /\ Target(b)' = Target(b)
      BY <2>2, <2>3, <2>6 DEF Ended, Finished, Target
    <3>2. QED  BY <2>2, <2>4, <3>1
  <2>7. QED  BY <2>5, <2>6
<1>3. CASE CommitUpdate
  <2>1. /\ updating # None /\ updating.build \in Builds
        /\ status[updating.build] \notin Verdicts
        /\ status' = [status EXCEPT ![updating.build] = updating.status]
        /\ updating' = None /\ UNCHANGED inOrder
    BY <1>3, Types DEF CommitUpdate
  <2>2. CASE updating.build = b
    <3>1. status'[b] = updating.status  BY <1>0, <2>1, <2>2
    <3>2. QED  BY <2>1, <2>2, <3>1 DEF Ended, Finished, Target
  <2>3. CASE updating.build # b
    <3>1. status'[b] = status[b]  BY <1>0, <2>1, <2>3
    <3>2. QED  BY <2>1, <2>3, <3>1 DEF Ended, Finished, Target
  <2>4. QED  BY <2>2, <2>3
<1>4. ASSUME updating # None, updating' # None, updating'.build = updating.build,
             updating'.status = updating.status, UNCHANGED <<status, inOrder>>
      PROVE  Goal
  BY <1>4 DEF Ended, Finished, Target
<1>5. CASE InterruptUpdate
  <2>1. /\ updating # None /\ updating' \in Updates
        /\ updating'.build = updating.build /\ updating'.status = updating.status
        /\ UNCHANGED <<status, inOrder>>
    BY <1>5 DEF InterruptUpdate, Base, TypeOK, Updates
  <2>2. QED  BY <1>4, <2>1, NoneAssumption
<1>6. CASE RepeatUpdate
  <2>1. /\ updating # None /\ updating' \in Updates
        /\ updating'.build = updating.build /\ updating'.status = updating.status
        /\ UNCHANGED <<status, inOrder>>
    BY <1>6 DEF RepeatUpdate, Base, TypeOK, Updates
  <2>2. QED  BY <1>4, <2>1, NoneAssumption
<1>7. ASSUME NEW c \in Builds, Restart(c)  PROVE Goal
  BY <1>7 DEF Restart
<1>8. CASE Take \/ CreateCommitStatus \/ SelectRecipients \/ Acknowledge \/ Interrupt
  BY <1>1, <1>8 DEF Take, CreateCommitStatus, SelectRecipients, Acknowledge, Interrupt,
                    buildVars
<1>9. ASSUME NEW v \in Users, SendMail(v)  PROVE Goal
  BY <1>1, <1>9 DEF SendMail, buildVars
<1>10. ASSUME NEW r \in Requests, NEW v \in Users \ Loyal,
              NEW want \in {"on", "off", "author"}, LoadSubscription(r, v, want)
       PROVE  Goal
  BY <1>1, <1>10 DEF LoadSubscription, buildVars
<1>11. ASSUME NEW r \in Requests, SaveSubscription(r)  PROVE Goal
  BY <1>1, <1>11 DEF SaveSubscription, buildVars
<1>12. CASE UNCHANGED vars
  BY <1>1, <1>12 DEF vars
<1> HIDE DEF Goal
<1>13. QED
  BY <1>2, <1>3, <1>5, <1>6, <1>7, <1>8, <1>9, <1>10, <1>11, <1>12 DEF Next, Consume

\* Where the notices of the queue and the notice of the consumer come from.
LEMMA NoticesComeFrom ==
    ASSUME Base, Base', [Next]_vars
    PROVE  /\ \A i \in DOMAIN queue' :
                 \/ \E k \in DOMAIN queue : queue'[i] = queue[k]
                 \/ worker # None /\ queue'[i] = worker.notice
                 \/ \E c \in Builds, s \in Statuses :
                       /\ queue'[i].build = c /\ queue'[i].status = s
                       /\ \/ UpdateBuild(c, s)
                          \/ RepeatUpdate /\ updating.build = c /\ updating.status = s
           /\ worker' # None =>
                 \/ worker # None /\ worker'.notice = worker.notice
                 \/ \E k \in DOMAIN queue : worker'.notice = queue[k]
<1> DEFINE Goal ==
             /\ \A i \in DOMAIN queue' :
                   \/ \E k \in DOMAIN queue : queue'[i] = queue[k]
                   \/ worker # None /\ queue'[i] = worker.notice
                   \/ \E c \in Builds, s \in Statuses :
                         /\ queue'[i].build = c /\ queue'[i].status = s
                         /\ \/ UpdateBuild(c, s)
                            \/ RepeatUpdate /\ updating.build = c /\ updating.status = s
             /\ worker' # None =>
                   \/ worker # None /\ worker'.notice = worker.notice
                   \/ \E k \in DOMAIN queue : worker'.notice = queue[k]
<1> SUFFICES Goal
  OBVIOUS
<1>0. queue \in Seq(Notices) /\ queue' \in Seq(Notices)  BY DEF Base, TypeOK
<1>1. ASSUME UNCHANGED queue, worker' = None \/ (worker # None /\ worker'.notice = worker.notice)
      PROVE  Goal
  BY <1>1
<1>2. ASSUME NEW c \in Builds, NEW s \in Statuses, s # "initialized", Publish(c, s),
             \/ UpdateBuild(c, s)
             \/ RepeatUpdate /\ updating.build = c /\ updating.status = s,
             UNCHANGED worker
      PROVE  Goal
  <2>1. PICK n \in Notices : queue' = Append(queue, n) /\ n.build = c /\ n.status = s
    BY <1>2, Published
  <2>2. \A i \in DOMAIN queue' : queue'[i] = n \/ \E k \in DOMAIN queue : queue'[i] = queue[k]
    BY <1>0, <2>1, AppendedNotice
  <2>3. QED  BY <1>2, <2>1, <2>2
<1>3. ASSUME NEW c \in Builds, NEW s \in Statuses, UpdateBuild(c, s)  PROVE Goal
  <2>1. s # "initialized" /\ Publish(c, s) /\ UNCHANGED worker
    BY <1>3, Moves DEF UpdateBuild
  <2>2. QED  BY <1>2, <1>3, <2>1
<1>4. CASE RepeatUpdate
  <2>1. PICK c \in Builds, s \in Statuses :
            updating.build = c /\ updating.status = s /\ s # "initialized"
    BY <1>4, Types DEF RepeatUpdate
  <2>2. Publish(c, s) /\ UNCHANGED worker  BY <1>4, <2>1 DEF RepeatUpdate
  <2>3. QED  BY <1>2, <1>4, <2>1, <2>2
<1>5. CASE Take
  <2>1. /\ Ahead(queue, Head(queue), queue') /\ worker'.notice = Head(queue)
        /\ queue # <<>>
    BY <1>0, <1>5, HeadAhead DEF Take
  <2>2. /\ \A i \in DOMAIN queue' : i + 1 \in DOMAIN queue /\ queue[i + 1] = queue'[i]
        /\ 1 \in DOMAIN queue /\ queue[1] = Head(queue)
    BY <2>1 DEF Ahead
  <2>3. QED  BY <2>1, <2>2
<1>6. CASE Interrupt
  <2>1. worker # None /\ worker.notice \in Notices /\ worker' = None
        /\ queue' = <<worker.notice>> \o queue
    BY <1>6, Types DEF Interrupt
  <2>2. Ahead(queue', worker.notice, queue)  BY <1>0, <2>1, BackAhead
  <2>3. \A i \in DOMAIN queue' :
            IF i = 1 THEN queue'[i] = worker.notice
            ELSE i - 1 \in DOMAIN queue /\ queue'[i] = queue[i - 1]
    BY <2>2 DEF Ahead
  <2>4. QED  BY <2>1, <2>3
<1>7. CASE CreateCommitStatus \/ SelectRecipients
  <2>1. worker # None /\ worker'.notice = worker.notice /\ UNCHANGED queue
    BY <1>7 DEF CreateCommitStatus, SelectRecipients, Base, TypeOK, Workers
  <2>2. QED  BY <1>1, <2>1
<1>8. ASSUME NEW v \in Users, SendMail(v)  PROVE Goal
  <2>1. worker # None /\ worker'.notice = worker.notice /\ UNCHANGED queue
    BY <1>8 DEF SendMail, Base, TypeOK, Workers
  <2>2. QED  BY <1>1, <2>1
<1>9. CASE Acknowledge  BY <1>1, <1>9 DEF Acknowledge
<1>10. ASSUME UNCHANGED <<queue, worker>>  PROVE Goal
  BY <1>1, <1>10
<1>11. CASE CommitUpdate \/ InterruptUpdate
  BY <1>10, <1>11 DEF CommitUpdate, InterruptUpdate
<1>12. ASSUME NEW c \in Builds, Restart(c)  PROVE Goal
  BY <1>10, <1>12 DEF Restart
<1>13. ASSUME NEW r \in Requests, NEW v \in Users \ Loyal,
              NEW want \in {"on", "off", "author"}, LoadSubscription(r, v, want)
       PROVE  Goal
  BY <1>10, <1>13 DEF LoadSubscription
<1>14. ASSUME NEW r \in Requests, SaveSubscription(r)  PROVE Goal
  BY <1>10, <1>14 DEF SaveSubscription
<1>15. CASE UNCHANGED vars
  BY <1>10, <1>15 DEF vars
<1> HIDE DEF Goal
<1>16. QED
  BY <1>3, <1>4, <1>5, <1>6, <1>7, <1>8, <1>9, <1>11, <1>12, <1>13, <1>14, <1>15
     DEF Next, Consume

LEMMA LastMails ==
    ASSUME Base, [Next]_vars, NEW b \in Builds, NEW u \in Users,
           lastMail'[b][u] # lastMail[b][u]
    PROVE  /\ SendMail(u) /\ worker # None /\ worker.notice.build = b
           /\ lastMail'[b][u] = worker.notice.status
           /\ worker.notice.status \in Verdicts
<1>1. lastMail' # lastMail  OBVIOUS
<1>2. \E v \in Users : SendMail(v)
  <2>1. ASSUME NEW c \in Builds, NEW s \in Statuses, UpdateBuild(c, s)  PROVE FALSE
    BY <1>1, <2>1 DEF UpdateBuild, mailVars
  <2>2. ~CommitUpdate /\ ~InterruptUpdate /\ ~RepeatUpdate
    BY <1>1 DEF CommitUpdate, InterruptUpdate, RepeatUpdate, mailVars
  <2>3. ASSUME NEW c \in Builds, Restart(c)  PROVE FALSE
    BY <1>1, <2>3 DEF Restart, mailVars
  <2>4. ~Take /\ ~CreateCommitStatus /\ ~SelectRecipients /\ ~Acknowledge /\ ~Interrupt
    BY <1>1 DEF Take, CreateCommitStatus, SelectRecipients, Acknowledge, Interrupt, mailVars
  <2>5. ASSUME NEW r \in Requests, NEW v \in Users \ Loyal,
               NEW want \in {"on", "off", "author"}, LoadSubscription(r, v, want)
        PROVE  FALSE
    BY <1>1, <2>5 DEF LoadSubscription, mailVars
  <2>6. ASSUME NEW r \in Requests, SaveSubscription(r)  PROVE FALSE
    BY <1>1, <2>6 DEF SaveSubscription, mailVars
  <2>7. ~UNCHANGED vars  BY <1>1 DEF vars
  <2>8. QED  BY <2>1, <2>2, <2>3, <2>4, <2>5, <2>6, <2>7 DEF Next, Consume
<1>3. PICK v \in Users : SendMail(v)  BY <1>2
<1>4. /\ worker # None /\ worker.notice.build \in Builds
      /\ worker.notice.status \in Verdicts
    BY <1>3, Types DEF SendMail, Base, MailsVerdicts
<1>5. lastMail \in [Builds -> [Users -> Verdicts \cup {"none"}]]  BY DEF Base, TypeOK
<1>6. lastMail' = [lastMail EXCEPT ![worker.notice.build][v] = worker.notice.status]
  BY <1>3 DEF SendMail
<1>7. worker.notice.build = b /\ v = u  BY <1>4, <1>5, <1>6
<1>8. lastMail'[b][u] = worker.notice.status  BY <1>5, <1>6, <1>7
<1>9. QED  BY <1>3, <1>4, <1>7, <1>8

\* The parts of Sorted about notices and mails.
LEMMA NoticesTell ==
    ASSUME Base, Base', [Next]_vars, inOrder', Sorted,
           NEW b \in Builds, NEW x \in Verdicts
    PROVE  /\ \A i \in DOMAIN queue' :
                 queue'[i].build = b /\ queue'[i].status = x => Ended(b)' /\ Target(b)' = x
           /\ worker' # None /\ worker'.notice.build = b /\ worker'.notice.status = x
                 => Ended(b)' /\ Target(b)' = x
           /\ \A u \in Users : lastMail'[b][u] = x => Ended(b)' /\ Target(b)' = x
<1>1. inOrder /\ (Ended(b) => Ended(b)' /\ Target(b)' = Target(b))  BY EndedStays
<1>2. /\ \A k \in DOMAIN queue :
            queue[k].build = b /\ queue[k].status = x => Ended(b) /\ Target(b) = x
      /\ worker # None /\ worker.notice.build = b /\ worker.notice.status = x
            => Ended(b) /\ Target(b) = x
      /\ \A u \in Users : lastMail[b][u] = x => Ended(b) /\ Target(b) = x
  BY <1>1 DEF Sorted, Tells, Verdicts, Red
<1>3. ASSUME UpdateBuild(b, x) \/ (RepeatUpdate /\ updating.build = b /\ updating.status = x)
      PROVE  Ended(b)' /\ Target(b)' = x
  <2>1. /\ updating' \in Updates /\ updating'.build = b /\ updating'.status = x
    <3>1. x \in Statuses  BY DEF Statuses
    <3>2. CASE UpdateBuild(b, x)  BY <3>1, <3>2 DEF UpdateBuild, Updates
    <3>3. CASE RepeatUpdate /\ updating.build = b /\ updating.status = x
      BY <3>3 DEF RepeatUpdate, Base, TypeOK, Updates
    <3>4. QED  BY <1>3, <3>2, <3>3
  <2>2. updating' # None  BY <2>1, NoneAssumption
  <2>3. QED  BY <2>1, <2>2 DEF Ended, Target
<1>4. ASSUME NEW i \in DOMAIN queue', queue'[i].build = b, queue'[i].status = x
      PROVE  Ended(b)' /\ Target(b)' = x
  <2>1. \/ \E k \in DOMAIN queue : queue'[i] = queue[k]
        \/ worker # None /\ queue'[i] = worker.notice
        \/ UpdateBuild(b, x)
        \/ RepeatUpdate /\ updating.build = b /\ updating.status = x
    BY <1>4, NoticesComeFrom
  <2>2. CASE \E k \in DOMAIN queue : queue'[i] = queue[k]
    BY <1>1, <1>2, <1>4, <2>2
  <2>3. CASE worker # None /\ queue'[i] = worker.notice
    BY <1>1, <1>2, <1>4, <2>3
  <2>4. QED  BY <1>3, <2>1, <2>2, <2>3
<1>5. ASSUME worker' # None, worker'.notice.build = b, worker'.notice.status = x
      PROVE  Ended(b)' /\ Target(b)' = x
  <2>1. \/ worker # None /\ worker'.notice = worker.notice
        \/ \E k \in DOMAIN queue : worker'.notice = queue[k]
    BY <1>5, NoticesComeFrom
  <2>2. QED  BY <1>1, <1>2, <1>5, <2>1
<1>6. ASSUME NEW u \in Users, lastMail'[b][u] = x
      PROVE  Ended(b)' /\ Target(b)' = x
  <2>1. CASE lastMail'[b][u] = lastMail[b][u]
    BY <1>1, <1>2, <1>6, <2>1
  <2>2. CASE lastMail'[b][u] # lastMail[b][u]
    <3>1. worker # None /\ worker.notice.build = b /\ worker.notice.status = x
      BY <1>6, <2>2, LastMails
    <3>2. QED  BY <1>1, <1>2, <3>1
  <2>3. QED  BY <2>1, <2>2
<1>7. QED  BY <1>4, <1>5, <1>6

\* The part about what is known: nobody forgets it, and a mail that is left out
\* would say what the build before has said.
LEMMA KnowledgeGrows ==
    ASSUME Base, Base', [Next]_vars, inOrder', Sorted, NEW b \in Builds, NEW u \in Loyal,
           Ended(b)', ~Undone(b)', VerdictsIn(queue', b) = {}, ~Owes(b, u)'
    PROVE  Knows(b, u)'
<1>0. /\ inOrder
      /\ Ended(b) => Ended(b)' /\ Target(b)' = Target(b)
      /\ Ended(b)' => Ended(b) \/ \E s \in Verdicts : UpdateBuild(b, s)
  BY EndedStays
<1>q. queue \in Seq(Notices) /\ queue' \in Seq(Notices) /\ u \in Users
  BY LoyalAssumption DEF Base, TypeOK
<1>1. ASSUME NEW s \in Verdicts, NEW n \in Notices, n.build = b, n.status = s,
             queue' = Append(queue, n)
      PROVE  FALSE
  <2>1. PICK l \in DOMAIN queue' : queue'[l] = n  BY <1>q, <1>1, AppendedNotice
  <2>2. l \in VerdictsIn(queue', b)  BY <1>1, <2>1 DEF VerdictsIn
  <2>3. QED  BY <2>2
<1>2. ASSUME NEW s \in Verdicts, UpdateBuild(b, s)  PROVE FALSE
  <2>1. s \in Statuses /\ s # "initialized"  BY DEF Statuses, Verdicts, Red
  <2>2. PICK n \in Notices : queue' = Append(queue, n) /\ n.build = b /\ n.status = s
    BY <1>2, <2>1, Published DEF UpdateBuild
  <2>3. QED  BY <1>1, <2>2
<1>3. Ended(b) /\ Ended(b)' /\ Target(b)' = Target(b)  BY <1>0, <1>2
\* What was known.
<1>4. ASSUME Knows(b, u)  PROVE Knows(b, u)'
  <2>1. CASE lastMail[b][u] # "none"
    <3>1. lastMail'[b][u] # "none"
      <4>1. lastMail'[b][u] # lastMail[b][u] => lastMail'[b][u] \in Verdicts
        BY <1>q, LastMails
      <4>2. QED  BY <2>1, <4>1 DEF Verdicts, Red
    <3>2. QED  BY <3>1 DEF Knows
  <2>2. CASE lastMail[b][u] = "none"
    <3>1. Target(b) = "passed" /\ Earlier(b) # {} /\ status[Max(Earlier(b))] = "passed"
      BY <1>4, <2>2 DEF Knows
    <3>2. PICK c \in Builds : c = Max(Earlier(b))  BY <3>1, EarlierBuilds
    <3>3. status'[c] = status[c]
      <4>1. Finished(c)  BY <3>1, <3>2 DEF Finished, Verdicts
      <4>2. QED  BY <4>1, EndedStays
    <3>4. Target(b)' = "passed" /\ status'[Max(Earlier(b))] = "passed"
      BY <1>3, <3>1, <3>2, <3>3
    <3>5. QED  BY <3>1, <3>4 DEF Knows, Earlier
  <2>3. QED  BY <2>1, <2>2
<1>5. ASSUME ~Undone(b), VerdictsIn(queue, b) = {}, ~Owes(b, u)
      PROVE  Knows(b, u)'
  BY <1>0, <1>3, <1>4, <1>5 DEF Sorted
\* What is in the queue stays in it.
<1>6. ASSUME NEW n \in Notices, queue' = Append(queue, n)  PROVE VerdictsIn(queue, b) = {}
  <2>1. /\ DOMAIN queue \subseteq DOMAIN queue'
        /\ \A i \in DOMAIN queue : queue'[i] = queue[i]
    BY <1>q, <1>6, AppendedNotice
  <2>2. VerdictsIn(queue, b) \subseteq VerdictsIn(queue', b)  BY <2>1 DEF VerdictsIn
  <2>3. QED  BY <2>2
<1>7. ASSUME UNCHANGED <<updating, queue>>, ~Owes(b, u)  PROVE Knows(b, u)'
  <2>1. ~Undone(b)  BY <1>7 DEF Undone
  <2>2. QED  BY <1>5, <1>7, <2>1
<1>8. ASSUME UNCHANGED <<updating, queue, worker>>  PROVE Knows(b, u)'
  <2>1. ~Owes(b, u)  BY <1>8 DEF Owes
  <2>2. QED  BY <1>7, <1>8, <2>1
<1>9. ASSUME NEW c \in Builds, NEW s \in Statuses, UpdateBuild(c, s)  PROVE Knows(b, u)'
  <2>1. s # "initialized" /\ updating = None /\ UNCHANGED worker
    BY <1>9, Moves DEF UpdateBuild
  <2>2. PICK n \in Notices : queue' = Append(queue, n)
    BY <1>9, <2>1, Published DEF UpdateBuild
  <2>3. ~Undone(b) /\ ~Owes(b, u)  BY <2>1 DEF Undone, Owes
  <2>4. QED  BY <1>5, <1>6, <2>2, <2>3
<1>10. CASE CommitUpdate \/ InterruptUpdate
  <2>1. updating.open /\ UNCHANGED <<queue, worker>>
    BY <1>10 DEF CommitUpdate, InterruptUpdate
  <2>2. ~Undone(b) /\ ~Owes(b, u)  BY <2>1 DEF Undone, Owes
  <2>3. QED  BY <1>5, <2>1, <2>2
<1>11. CASE RepeatUpdate
  <2>1. PICK c \in Builds, s \in Statuses :
            updating.build = c /\ updating.status = s /\ s # "initialized"
    BY <1>11, Types DEF RepeatUpdate
  <2>2. PICK n \in Notices : queue' = Append(queue, n) /\ n.build = c /\ n.status = s
    BY <1>11, <2>1, Published DEF RepeatUpdate
  <2>3. ~Undone(b)
    <3>1. SUFFICES ASSUME c = b  PROVE FALSE  BY <2>1 DEF Undone
    <3>2. s \in Verdicts
      <4>1. status[b] \notin Verdicts  BY <1>11, <2>1, <3>1, Types DEF RepeatUpdate
      <4>2. QED  BY <1>3, <2>1, <4>1 DEF Ended, Finished
    <3>3. QED  BY <1>1, <2>2, <3>1, <3>2
  <2>4. ~Owes(b, u)  BY <1>11 DEF RepeatUpdate, Owes
  <2>5. QED  BY <1>5, <1>6, <2>2, <2>3, <2>4
<1>12. CASE Take
  <2>1. PICK n \in Notices :
            /\ Ahead(queue, n, queue')
            /\ worker' = [notice |-> n, stage |-> "taken", recipients |-> {}]
    BY <1>q, <1>12, HeadAhead DEF Take
  <2>2. worker' # None
    <3>1. worker' \in Workers  BY <2>1 DEF Workers
    <3>2. QED  BY <3>1, NoneAssumption
  <2>3. ~(n.build = b /\ n.status \in Verdicts)  BY <2>1, <2>2 DEF Owes
  <2>4. VerdictsIn(queue, b) = {}
    <3>1. ASSUME NEW i \in DOMAIN queue, queue[i].build = b, queue[i].status \in Verdicts
          PROVE  FALSE
      <4>1. i # 1  BY <2>1, <2>3, <3>1 DEF Ahead
      <4>2. i - 1 \in DOMAIN queue' /\ queue'[i - 1] = queue[i]  BY <2>1, <4>1 DEF Ahead
      <4>3. i - 1 \in VerdictsIn(queue', b)  BY <3>1, <4>2 DEF VerdictsIn
      <4>4. QED  BY <4>3
    <3>2. QED  BY <3>1 DEF VerdictsIn
  <2>5. ~Undone(b) /\ ~Owes(b, u)  BY <1>12 DEF Take, buildVars, Undone, Owes
  <2>6. QED  BY <1>5, <2>4, <2>5
<1>13. CASE CreateCommitStatus
  <2>1. /\ worker \in Workers /\ worker # None /\ worker.stage = "taken"
        /\ worker' = [worker EXCEPT !.stage = "posted"]
        /\ worker' \in Workers /\ UNCHANGED <<updating, queue>>
    BY <1>13 DEF CreateCommitStatus, Base, TypeOK, Workers, buildVars
  <2>2. worker' # None  BY <2>1, NoneAssumption
  <2>3. ~Owes(b, u)  BY <2>1, <2>2 DEF Owes, Workers
  <2>4. QED  BY <1>7, <2>1, <2>3
<1>14. CASE SelectRecipients
  <2>1. /\ worker \in Workers /\ worker # None /\ worker.stage = "posted"
        /\ worker' \in Workers /\ worker'.stage = "mailing"
        /\ worker'.notice = worker.notice
        /\ worker'.recipients = IF Notify(worker.notice)
                                THEN {v \in Users : subscriptions[v] = "on"} ELSE {}
        /\ UNCHANGED <<updating, queue>>
    BY <1>14, Types DEF SelectRecipients, Base, TypeOK, Workers, buildVars
  <2>2. worker' # None  BY <2>1, NoneAssumption
  <2>3. CASE ~Owes(b, u)  BY <1>7, <2>1, <2>3
  <2>4. CASE Owes(b, u)
    <3>1. worker.notice.build = b /\ worker.notice.status \in Verdicts
      BY <2>4 DEF Owes
    <3>2. u \notin worker'.recipients  BY <2>1, <2>2, <3>1 DEF Owes
    <3>3. ~Notify(worker.notice)
      <4>1. subscriptions[u] = "on"  BY DEF Base, LoyalStay
      <4>2. QED  BY <1>q, <2>1, <3>2, <4>1
    <3>4. worker.notice.status = "passed" /\ ~StatusHasChanged(worker.notice)
      BY <3>1, <3>3 DEF Notify, Verdicts
    <3>5. Target(b) = "passed" /\ PrevFinished(b) = Earlier(b)
      <4>1. Ended(b) /\ Target(b) = "passed"
        BY <1>0, <2>1, <3>1, <3>4 DEF Sorted, Tells, Verdicts
      <4>2. \A c \in Earlier(b) : Finished(c)  BY <1>0, <4>1 DEF Sorted
      <4>3. QED  BY <4>1, <4>2 DEF PrevFinished
    <3>6. Earlier(b) # {} /\ status[Max(Earlier(b))] = "passed"
      BY <3>1, <3>4, <3>5 DEF StatusHasChanged
    <3>7. Knows(b, u)  BY <3>5, <3>6 DEF Knows
    <3>8. QED  BY <1>4, <3>7
  <2>5. QED  BY <2>3, <2>4
<1>15. ASSUME NEW v \in Users, SendMail(v)  PROVE Knows(b, u)'
  <2>1. /\ worker # None /\ worker.stage = "mailing" /\ worker.notice.build \in Builds
        /\ worker.notice.status \in Verdicts
        /\ worker' # None
        /\ worker'.stage = worker.stage /\ worker'.notice = worker.notice
        /\ worker'.recipients = worker.recipients \ {v}
        /\ UNCHANGED <<updating, queue>>
    <3>1. /\ worker \in Workers /\ worker # None /\ v \in worker.recipients
          /\ worker' = [worker EXCEPT !.recipients = @ \ {v}]
          /\ UNCHANGED <<updating, queue>>
      BY <1>15 DEF SendMail, Base, TypeOK, buildVars
    <3>2. worker' \in Workers  BY <3>1 DEF Workers
    <3>3. worker' # None  BY <3>2, NoneAssumption
    <3>4. QED  BY <3>1, <3>3, Types DEF Workers, Base, MailsVerdicts
  <2>2. CASE ~Owes(b, u)  BY <1>7, <2>1, <2>2
  <2>3. CASE Owes(b, u)
    <3>1. worker.notice.build = b /\ v = u  BY <2>1, <2>3 DEF Owes
    <3>2. lastMail'[b][u] = worker.notice.status
      <4>1. lastMail \in [Builds -> [Users -> Verdicts \cup {"none"}]]
        BY DEF Base, TypeOK
      <4>2. QED  BY <1>15, <3>1, <4>1 DEF SendMail
    <3>3. QED  BY <2>1, <3>2 DEF Knows, Verdicts, Red
  <2>4. QED  BY <2>2, <2>3
<1>16. CASE Acknowledge
  <2>1. worker.stage = "mailing" /\ worker.recipients = {} /\ UNCHANGED <<updating, queue>>
    BY <1>16 DEF Acknowledge, buildVars
  <2>2. ~Owes(b, u)  BY <2>1 DEF Owes
  <2>3. QED  BY <1>7, <2>1, <2>2
<1>17. CASE Interrupt
  <2>1. worker # None /\ worker.notice \in Notices  BY <1>17, Types DEF Interrupt
  <2>2. PICK n \in Notices : n = worker.notice  BY <2>1
  <2>3. Ahead(queue', n, queue)  BY <1>q, <1>17, <2>2, BackAhead DEF Interrupt
  <2>4. ~(n.build = b /\ n.status \in Verdicts)
    <3>1. n.build = b /\ n.status \in Verdicts => 1 \in VerdictsIn(queue', b)
      BY <2>3 DEF Ahead, VerdictsIn
    <3>2. QED  BY <3>1
  <2>5. VerdictsIn(queue, b) = {}
    <3>1. ASSUME NEW i \in VerdictsIn(queue, b)  PROVE i + 1 \in VerdictsIn(queue', b)
      BY <2>3, <3>1 DEF Ahead, VerdictsIn
    <3>2. QED  BY <3>1
  <2>6. ~Owes(b, u) /\ ~Undone(b)
    BY <1>17, <2>2, <2>4 DEF Interrupt, Owes, Undone, buildVars
  <2>7. QED  BY <1>5, <2>5, <2>6
<1>18. ASSUME NEW c \in Builds, Restart(c)  PROVE Knows(b, u)'
  BY <1>8, <1>18 DEF Restart
<1>19. ASSUME NEW r \in Requests, NEW v \in Users \ Loyal,
              NEW want \in {"on", "off", "author"}, LoadSubscription(r, v, want)
       PROVE  Knows(b, u)'
  BY <1>8, <1>19 DEF LoadSubscription, buildVars
<1>20. ASSUME NEW r \in Requests, SaveSubscription(r)  PROVE Knows(b, u)'
  BY <1>8, <1>20 DEF SaveSubscription, buildVars
<1>21. CASE UNCHANGED vars
  BY <1>8, <1>21 DEF vars
<1>22. QED
  BY <1>9, <1>10, <1>11, <1>12, <1>13, <1>14, <1>15, <1>16, <1>17, <1>18, <1>19, <1>20,
     <1>21 DEF Next, Consume

LEMMA SortedInit == Init => Sorted
BY LoyalAssumption DEF Init, Sorted, Ended, Finished, Verdicts, Red

LEMMA SortedNext == Base /\ Base' /\ Sorted /\ [Next]_vars => Sorted'
<1> SUFFICES ASSUME Base, Base', Sorted, [Next]_vars, inOrder'  PROVE Sorted'
  BY DEF Sorted
<1>1. ASSUME NEW b \in Builds, Ended(b)', NEW c \in Earlier(b)  PROVE Finished(c)'
  <2>1. c \in Builds  BY EarlierBuilds
  <2>2. Finished(c)
    <3>1. inOrder /\ (Ended(b) \/ \E s \in Verdicts : UpdateBuild(b, s))
      BY <1>1, EndedStays
    <3>2. CASE Ended(b)  BY <3>1, <3>2 DEF Sorted
    <3>3. ASSUME NEW s \in Verdicts, UpdateBuild(b, s)  PROVE Finished(c)
      BY <3>3 DEF UpdateBuild
    <3>4. QED  BY <3>1, <3>2, <3>3
  <2>3. QED  BY <2>1, <2>2, EndedStays
<1>2. TypeOK'  BY DEF Base
<1>3. ASSUME NEW i \in DOMAIN queue', queue'[i].status \in Verdicts
      PROVE  \E b \in Builds : /\ queue'[i].build = b
                               /\ Ended(b)' /\ Target(b)' = queue'[i].status
  <2>1. queue'[i] \in Notices  BY <1>2 DEF TypeOK
  <2>2. PICK b \in Builds, x \in Verdicts : queue'[i].build = b /\ queue'[i].status = x
    BY <1>3, <2>1 DEF Notices
  <2>3. Ended(b)' /\ Target(b)' = x  BY <2>2, NoticesTell
  <2>4. QED  BY <2>2, <2>3
<1>4. ASSUME worker' # None, worker'.notice.status \in Verdicts
      PROVE  \E b \in Builds : /\ worker'.notice.build = b
                               /\ Ended(b)' /\ Target(b)' = worker'.notice.status
  <2>1. worker'.notice \in Notices  BY <1>2, <1>4 DEF TypeOK, Workers
  <2>2. PICK b \in Builds, x \in Verdicts : worker'.notice.build = b /\ worker'.notice.status = x
    BY <1>4, <2>1 DEF Notices
  <2>3. Ended(b)' /\ Target(b)' = x  BY <1>4, <2>2, NoticesTell
  <2>4. QED  BY <2>2, <2>3
<1>5. ASSUME NEW b \in Builds, NEW u \in Users, lastMail'[b][u] # "none"
      PROVE  Ended(b)' /\ lastMail'[b][u] = Target(b)'
  <2>1. PICK x \in Verdicts : lastMail'[b][u] = x  BY <1>2, <1>5 DEF TypeOK
  <2>2. QED  BY <2>1, NoticesTell
<1>6. ASSUME NEW b \in Builds, NEW u \in Loyal,
             Ended(b)', ~Undone(b)', VerdictsIn(queue', b) = {}, ~Owes(b, u)'
      PROVE  Knows(b, u)'
  BY <1>6, KnowledgeGrows
<1>7. (\A b \in Builds : Ended(b) => \A c \in Earlier(b) : Finished(c))'
  BY <1>1 DEF Earlier, Ended, Finished
<1>8. (\A i \in DOMAIN queue : Tells(queue[i]))'
  BY <1>3 DEF Tells, Ended, Finished, Target
<1>9. (worker # None => Tells(worker.notice))'
  BY <1>4 DEF Tells, Ended, Finished, Target
<1>10. (\A b \in Builds, u \in Users :
            lastMail[b][u] # "none" => Ended(b) /\ lastMail[b][u] = Target(b))'
  BY <1>5 DEF Ended, Finished, Target
<1>11. (\A b \in Builds, u \in Loyal :
            Ended(b) /\ ~Undone(b) /\ VerdictsIn(queue, b) = {} /\ ~Owes(b, u)
            => Knows(b, u))'
  BY <1>6 DEF Ended, Finished, Undone, VerdictsIn, Owes, Knows, Target, Earlier
<1>12. QED  BY <1>7, <1>8, <1>9, <1>10, <1>11 DEF Sorted

\* While the builds of a branch end in order and none is restarted, the newest
\* build that somebody who stays subscribed was mailed about has the verdict of the
\* newest build: BuildNotifier leaves out a mail only if it would say what he knows.
THEOREM VerdictKnown == Spec => []SubscribersKnowTheVerdict
<1>1. Base /\ Sorted => SubscribersKnowTheVerdict
  <2> SUFFICES ASSUME Base, Sorted, inOrder, NEW b \in Builds, NEW u \in Loyal, Finished(b),
                      \A c \in Earlier(b) \cup {b} : ~Pending(c)
               PROVE  LET builds == Earlier(b) \cup {b}
                          told == {c \in builds : lastMail[c][u] # "none"}
                      IN  told # {} /\ lastMail[Max(told)][u] = status[b]
    BY DEF SubscribersKnowTheVerdict
  <2> DEFINE builds == Earlier(b) \cup {b}
             told == {c \in builds : lastMail[c][u] # "none"}
  <2>1. builds \in SUBSET Builds /\ builds \subseteq Nat /\ u \in Users
    BY BuildsAssumption, LoyalAssumption, EarlierBuilds
  <2>2. \A c \in builds : Earlier(c) \subseteq builds
    <3>1. \A c \in Nat, d \in Nat : d < c /\ c < b => d < b
      BY BuildsAssumption
    <3>2. ASSUME NEW c \in builds, NEW d \in Earlier(c)  PROVE d \in Earlier(b)
      <4>1. d \in Nat /\ c \in Nat /\ d \in Builds /\ d < c /\ BranchOf[d] = BranchOf[c]
        BY <2>1, BuildsAssumption DEF Earlier
      <4>2. c = b \/ (c < b /\ BranchOf[c] = BranchOf[b])  BY DEF Earlier
      <4>3. QED  BY <3>1, <4>1, <4>2 DEF Earlier
    <3>3. QED  BY <3>2
  <2>3. \A c \in builds, d \in builds : d < c => d \in Earlier(c)
    BY <2>1 DEF Earlier
\* Each of the builds has ended, and what it says was mailed or is known.
  <2>4. ASSUME NEW c \in builds
        PROVE  /\ lastMail[c][u] # "none" => lastMail[c][u] = status[c]
               /\ lastMail[c][u] = "none" =>
                     /\ status[c] = "passed"
                     /\ Earlier(c) # {} /\ status[Max(Earlier(c))] = "passed"
    <3>1. c \in Builds /\ ~Pending(c)  BY <2>1
    <3>2. Ended(b)  BY DEF Ended
    <3>3. Finished(c)  BY <3>2 DEF Sorted
    <3>4. Ended(c) /\ Target(c) = status[c] /\ ~Undone(c) /\ ~Owes(c, u)
      BY <3>1, <3>3 DEF Ended, Target, Undone, Owes, Pending
    <3>5. VerdictsIn(queue, c) = {}
      <4>1. queue \in Seq(Notices)  BY DEF Base, TypeOK
      <4>2. QED  BY <3>1, <4>1 DEF Pending, VerdictsIn
    <3>6. Knows(c, u)  BY <3>1, <3>4, <3>5 DEF Sorted
    <3>7. lastMail[c][u] # "none" => lastMail[c][u] = Target(c)
      BY <2>1, <3>1 DEF Sorted
    <3>8. QED  BY <3>4, <3>6, <3>7 DEF Knows
  <2> HIDE DEF builds
  <2>5. told # {}
    <3>1. SUFFICES ASSUME told = {}  PROVE FALSE  OBVIOUS
    <3>2. b \in builds  BY DEF builds
    <3>3. PICK c \in builds : \A d \in builds : c <= d  BY <2>1, <3>2, LeastOf
    <3>4. Earlier(c) # {}  BY <2>4, <3>1
    <3>5. PICK d \in Earlier(c) : TRUE  BY <3>4
    <3>6. d \in builds /\ d < c /\ d \in Nat /\ c \in Nat  BY <2>1, <2>2, <3>5 DEF Earlier
    <3>7. QED  BY <3>3, <3>6
  <2>6. told \in SUBSET Builds /\ told \subseteq builds /\ told \subseteq Nat
        /\ IsFiniteSet(told)
    <3>1. told \in SUBSET Builds /\ told \subseteq builds /\ told \subseteq Nat  BY <2>1
    <3> HIDE DEF told
    <3>2. QED  BY <3>1, BuildsAssumption, FS_Subset
  <2>7. PICK m \in told : m = Max(told) /\ \A c \in told : m >= c
    <3> HIDE DEF told
    <3> QED  BY <2>5, <2>6, LastOf
\* After the last build that was mailed, all say the same.
  <2>8. ASSUME NEW c \in builds, c >= m  PROVE status[c] = status[m]
    <3> DEFINE odd == {d \in builds : d >= m /\ status[d] # status[m]}
    <3>1. SUFFICES ASSUME odd # {}  PROVE FALSE  BY <2>8
    <3>2. odd \subseteq Nat  BY <2>1
    <3>3. PICK d \in odd : \A e \in odd : d <= e
      <4> HIDE DEF odd
      <4> QED  BY <3>1, <3>2, LeastOf
    <3>4. d \in builds /\ d \in Nat /\ m \in builds /\ m \in Nat /\ d > m
      BY <2>1, <2>6, <3>3
    <3>5. d \notin told  BY <2>7, <3>4
    <3>6. status[d] = "passed" /\ Earlier(d) # {} /\ status[Max(Earlier(d))] = "passed"
      BY <2>4, <3>4, <3>5
    <3>7. PICK e \in builds : e = Max(Earlier(d)) /\ e < d /\ e >= m
      <4>1. d \in Builds /\ m \in Earlier(d)  BY <2>1, <2>3, <3>4
      <4>2. Max(Earlier(d)) \in Earlier(d) /\ Max(Earlier(d)) >= m
        BY <4>1, EarlierBuilds
      <4>3. QED  BY <2>2, <3>4, <4>2 DEF Earlier
    <3>8. e \notin odd  BY <2>1, <3>3, <3>4, <3>7
    <3>9. status[e] = status[m]  BY <3>7, <3>8
    <3>10. QED  BY <3>3, <3>6, <3>7, <3>9
  <2>9. b \in builds /\ b >= m
    <3>1. \A c \in builds : b >= c  BY <2>1, EarlierBuilds DEF builds, Earlier
    <3>2. QED  BY <2>6, <3>1 DEF builds
  <2>10. lastMail[m][u] = status[m] /\ status[m] = status[b]
    BY <2>4, <2>6, <2>8, <2>9
  <2>11. QED  BY <2>5, <2>7, <2>10 DEF builds
<1>2. QED  BY <1>1, SortedInit, SortedNext, BaseInvariance, PTL DEF Spec
=============================================================================
