---------------------------- MODULE Accounts_proofs ----------------------------
(***************************************************************************)
(* What holds of Accounts for any numbers of users, accounts, addresses,   *)
(* companies and requests: the invariant IInv, and the properties of the   *)
(* module from it.                                                         *)
(***************************************************************************)
EXTENDS Accounts, TLAPS

-----------------------------------------------------------------------------
(* The inductive invariant *)

\* What a request has at each of its stages.
StagedAt(r) ==
    /\ tx[r].stage = "idle" => tx[r] = Idle
    /\ Active(r) => /\ tx[r].kind \in {"signup", "invite"} /\ tx[r].account # None
                    /\ tx[r].email # None /\ tx[r].company # None
    /\ tx[r].stage \in {"known", "loaded", "joined"} => tx[r].kind = "invite"
    /\ tx[r].stage = "company" => tx[r].kind = "signup"
    /\ tx[r].stage \in {"known", "joined"} => tx[r].user # None
    /\ tx[r].stage = "user" /\ tx[r].kind = "invite" => tx[r].user # None
    /\ tx[r].stage \in {"begun", "unknown"} => tx[r].user = None
    /\ tx[r].new => /\ tx[r].kind = "signup"
                    /\ tx[r].stage \in {"user", "company"}
                    /\ tx[r].user # None
    /\ tx[r].saved => tx[r].stage = "company"

Staged == \A r \in Requests : StagedAt(r)

\* A user that is not committed has an id and an address of their own.
NewRows ==
    \A r \in Requests : tx[r].new =>
        /\ ~Exists(tx[r].user)
        /\ \A v \in Users : email[v] # tx[r].email
        /\ \A q \in Requests : tx[q].new /\ q # r =>
              tx[q].user # tx[r].user /\ tx[q].email # tx[r].email

\* Every other user that a request has is committed.
OldUsers ==
    \A r \in Requests : tx[r].user # None /\ ~tx[r].new => Exists(tx[r].user)

\* A name of a company that is not committed is claimed once.
NewNames ==
    \A r \in Requests : tx[r].saved =>
        /\ tx[r].company \notin companies
        /\ \A q \in Requests : tx[q].saved /\ q # r => tx[q].company # tx[r].company

\* Only companies that exist have members, and only users that exist an account.
Founded ==
    /\ \A c \in Companies : c \notin companies => \A u \in Users : role[c][u] = None
    /\ \A u \in Users : account[u] # None => Exists(u)

\* Two requests never share an account, or an invite, unnoticed.
Noticed ==
    \A r, q \in Requests : Active(r) /\ Active(q) /\ r # q =>
        SubjectsOf(r) \cap SubjectsOf(q) \subseteq overlaps

\* The account is not known before the request makes a user for it.
Unknown(r) ==
    \/ tx[r].stage = "unknown"
    \/ tx[r].stage = "loaded" /\ tx[r].user = None
    \/ tx[r].new

NotYet ==
    \A r \in Requests : Unknown(r) =>
        \A u \in Users : account[u] = tx[r].account => tx[r].account \in overlaps

InviteOf(r) == <<tx[r].company, tx[r].email>>

\* The invite is there as long as a request is at it.
InviteKept ==
    \A r \in Requests : Active(r) /\ tx[r].kind = "invite" =>
        InviteOf(r) \in invites \cup overlaps

\* Only companies that exist invite.
Invited ==
    /\ \A c \in Companies, e \in Emails : <<c, e>> \in invites => c \in companies
    /\ \A r \in Requests : Active(r) /\ tx[r].kind = "invite" => tx[r].company \in companies

\* Who has accepted is a member.
Joined ==
    \A r \in Requests : tx[r].stage = "joined" => Member(tx[r].user, tx[r].company)

\* Who is no member has an invite that nobody is about to destroy.
Supports(c, e) ==
    \/ <<c, e>> \in overlaps
    \/ /\ <<c, e>> \in invites
       /\ \A r \in Requests : tx[r].stage = "joined" => InviteOf(r) # <<c, e>>

Homeless(u) == \A c \in Companies : ~Member(u, c)

Supported ==
    \A u \in Users : Exists(u) /\ Homeless(u) => \E c \in Companies : Supports(c, email[u])

IInv ==
    /\ TypeOK /\ Staged /\ NewRows /\ OldUsers /\ NewNames /\ Founded
    /\ Noticed /\ NotYet /\ InviteKept /\ Invited /\ Joined /\ Supported
    /\ UsersCanSignIn /\ CompanyHasAdmin /\ OneUserPerAccount

-----------------------------------------------------------------------------
(* What a step of one request leaves of each part                           *)

\* Only the request r takes a step.
Step(r) ==
    /\ tx \in [Requests -> Request]
    /\ tx' \in [Requests -> Request]
    /\ \A q \in Requests \ {r} : tx'[q] = tx[q]
    /\ StagedAt(r)'

SameAsk(r) ==
    /\ tx'[r].kind = tx[r].kind /\ tx'[r].account = tx[r].account
    /\ tx'[r].email = tx[r].email /\ tx'[r].company = tx[r].company

Goes(r) == Active(r)' => Active(r) /\ SameAsk(r)

LEMMA StagedKept ==
    ASSUME NEW r \in Requests, Step(r), Staged
    PROVE  Staged'
<1> SUFFICES ASSUME NEW q \in Requests PROVE StagedAt(q)'
  BY DEF Staged
<1>1. CASE q = r
  BY <1>1 DEF Step
<1>2. CASE q # r
  <2>1. tx'[q] = tx[q]
    BY <1>2 DEF Step
  <2> QED BY <2>1 DEF Staged, StagedAt, Active
<1> QED BY <1>1, <1>2

LEMMA NewRowsKept ==
    ASSUME NEW r \in Requests, Step(r), NewRows, email' = email,
           tx'[r].new => tx[r].new /\ SameAsk(r) /\ tx'[r].user = tx[r].user
    PROVE  NewRows'
<1> SUFFICES ASSUME NEW q \in Requests, tx'[q].new
             PROVE  /\ ~Exists(tx[q].user)'
                    /\ \A v \in Users : email'[v] # tx'[q].email
                    /\ \A p \in Requests : tx'[p].new /\ p # q =>
                          tx'[p].user # tx'[q].user /\ tx'[p].email # tx'[q].email
  BY DEF NewRows, Exists
<1>1. \A p \in Requests : tx'[p].new => /\ tx[p].new /\ tx'[p].user = tx[p].user
                                        /\ tx'[p].email = tx[p].email
  BY DEF Step, SameAsk
<1> QED BY <1>1 DEF NewRows, Exists

LEMMA OldUsersKept ==
    ASSUME NEW r \in Requests, Step(r), OldUsers,
           \A u \in Users : Exists(u) => Exists(u)',
           tx'[r].user # None /\ ~tx'[r].new => Exists(tx[r].user)'
    PROVE  OldUsers'
<1> SUFFICES ASSUME NEW q \in Requests, tx'[q].user # None, ~tx'[q].new
             PROVE  Exists(tx[q].user)'
  BY DEF OldUsers, Exists
<1>1. CASE q = r
  BY <1>1
<1>2. CASE q # r
  <2>1. tx'[q] = tx[q] /\ tx[q] \in Request
    BY <1>2 DEF Step
  <2>2. Exists(tx[q].user) /\ tx[q].user \in Users
    BY <2>1 DEF OldUsers, Request
  <2> QED BY <2>1, <2>2 DEF Exists
<1> QED BY <1>1, <1>2

LEMMA NewNamesKept ==
    ASSUME NEW r \in Requests, Step(r), NewNames, companies' = companies,
           tx'[r].saved => tx[r].saved /\ SameAsk(r)
    PROVE  NewNames'
<1>1. \A p \in Requests : tx'[p].saved => tx[p].saved /\ tx'[p].company = tx[p].company
  BY DEF Step, SameAsk
<1> QED BY <1>1 DEF NewNames

LEMMA NoticedKept ==
    ASSUME NEW r \in Requests, Step(r), Noticed, overlaps' = overlaps, Goes(r)
    PROVE  Noticed'
<1>1. \A p \in Requests : Active(p)' => Active(p) /\ SubjectsOf(p)' = SubjectsOf(p)
  BY DEF Step, Goes, SameAsk, Active, SubjectsOf, Subjects
<1> QED BY <1>1 DEF Noticed

LEMMA NotYetKept ==
    ASSUME NEW r \in Requests, Step(r), NotYet, account' = account, overlaps \subseteq overlaps',
           Unknown(r)' => \A u \in Users : account[u] = tx'[r].account => tx'[r].account \in overlaps
    PROVE  NotYet'
<1> SUFFICES ASSUME NEW q \in Requests, Unknown(q)',
                    NEW u \in Users, account'[u] = tx'[q].account
             PROVE  tx'[q].account \in overlaps'
  BY DEF NotYet
<1>1. CASE q = r
  BY <1>1
<1>2. CASE q # r
  <2>1. tx'[q] = tx[q]
    BY <1>2 DEF Step
  <2>2. Unknown(q)
    BY <2>1 DEF Unknown
  <2> QED BY <2>1, <2>2 DEF NotYet
<1> QED BY <1>1, <1>2

LEMMA InviteKeptKept ==
    ASSUME NEW r \in Requests, Step(r), InviteKept, Goes(r),
           invites \subseteq invites', overlaps \subseteq overlaps'
    PROVE  InviteKept'
<1>1. \A p \in Requests : Active(p)' => /\ Active(p) /\ tx'[p].kind = tx[p].kind
                                        /\ InviteOf(p)' = InviteOf(p)
  BY DEF Step, Goes, SameAsk, Active, InviteOf
<1> QED BY <1>1 DEF InviteKept

LEMMA InvitedKept ==
    ASSUME NEW r \in Requests, Step(r), Invited, Goes(r),
           invites' \subseteq invites, companies \subseteq companies'
    PROVE  Invited'
<1>1. \A p \in Requests : Active(p)' => /\ Active(p) /\ tx'[p].kind = tx[p].kind
                                        /\ tx'[p].company = tx[p].company
  BY DEF Step, Goes, SameAsk, Active
<1> QED BY <1>1 DEF Invited

LEMMA JoinedKept ==
    ASSUME NEW r \in Requests, Step(r), Joined, Staged,
           \A u \in Users, c \in Companies : Member(u, c) => Member(u, c)',
           tx'[r].stage = "joined" => Member(tx[r].user, tx[r].company)'
    PROVE  Joined'
<1> SUFFICES ASSUME NEW q \in Requests, tx'[q].stage = "joined"
             PROVE  Member(tx[q].user, tx[q].company)'
  BY DEF Joined, Member
<1>1. CASE q = r
  BY <1>1
<1>2. CASE q # r
  <2>1. tx'[q] = tx[q] /\ tx[q] \in Request
    BY <1>2 DEF Step
  <2>2. tx[q].user \in Users /\ tx[q].company \in Companies
    BY <2>1 DEF Staged, StagedAt, Active, Request
  <2>3. Member(tx[q].user, tx[q].company)
    BY <2>1 DEF Joined
  <2> QED BY <2>1, <2>2, <2>3 DEF Member
<1> QED BY <1>1, <1>2

LEMMA SupportsKept ==
    ASSUME NEW r \in Requests, Step(r),
           invites \subseteq invites', overlaps \subseteq overlaps',
           tx'[r].stage = "joined" => tx[r].stage = "joined" /\ SameAsk(r),
           NEW c \in Companies, NEW e \in Emails, Supports(c, e)
    PROVE  Supports(c, e)'
<1>1. \A p \in Requests : tx'[p].stage = "joined" =>
                             tx[p].stage = "joined" /\ InviteOf(p)' = InviteOf(p)
  BY DEF Step, SameAsk, InviteOf
<1> QED BY <1>1 DEF Supports

LEMMA SupportedKept ==
    ASSUME NEW r \in Requests, Step(r), TypeOK, Supported, email' = email,
           \A u \in Users, c \in Companies : Member(u, c) => Member(u, c)',
           invites \subseteq invites', overlaps \subseteq overlaps',
           tx'[r].stage = "joined" => tx[r].stage = "joined" /\ SameAsk(r)
    PROVE  Supported'
<1> SUFFICES ASSUME NEW u \in Users, Exists(u)', Homeless(u)'
             PROVE  \E c \in Companies : Supports(c, email[u])'
  BY DEF Supported
<1>1. Exists(u) /\ Homeless(u) /\ email[u] \in Emails
  BY DEF Exists, Homeless, TypeOK
<1>2. PICK c \in Companies : Supports(c, email[u])
  BY <1>1 DEF Supported
<1>3. Supports(c, email[u])'
  BY <1>1, <1>2, SupportsKept
<1> QED BY <1>3

\* The rows stay as they are.
LEMMA RowsKept ==
    ASSUME Founded, UsersCanSignIn, CompanyHasAdmin, OneUserPerAccount,
           UNCHANGED <<email, account, companies, role>>, overlaps \subseteq overlaps'
    PROVE  Founded' /\ UsersCanSignIn' /\ CompanyHasAdmin' /\ OneUserPerAccount'
<1>1. Founded'
  BY DEF Founded, Exists
<1>2. UsersCanSignIn'
  BY DEF UsersCanSignIn, Exists, Member
<1>3. CompanyHasAdmin'
  BY DEF CompanyHasAdmin
<1>4. OneUserPerAccount'
  BY DEF OneUserPerAccount, Exists
<1> QED BY <1>1, <1>2, <1>3, <1>4

\* A step that reads, or ends a request.
LEMMA QuietStep ==
    ASSUME NEW r \in Requests, IInv, Step(r), Goes(r),
           UNCHANGED <<email, account, companies, role, invites, overlaps>>,
           tx'[r].new => tx[r].new /\ tx'[r].user = tx[r].user,
           tx'[r].user # None /\ ~tx'[r].new => Exists(tx[r].user)',
           tx'[r].saved => tx[r].saved,
           tx'[r].stage # "joined",
           Unknown(r)' => \A u \in Users : account[u] = tx'[r].account => tx'[r].account \in overlaps
    PROVE  IInv'
<1>1. TypeOK'
  BY DEF IInv, TypeOK, Step, Exists
<1>2. Staged'
  BY StagedKept DEF IInv
<1>3. tx'[r].new \/ tx'[r].saved => Active(r)'
  BY DEF Step, StagedAt, Active
<1>4. NewRows'
  BY <1>3, NewRowsKept DEF IInv, Goes
<1>5. OldUsers'
  BY OldUsersKept DEF IInv, Exists
<1>6. NewNames'
  BY <1>3, NewNamesKept DEF IInv, Goes
<1>7. Noticed'
  BY NoticedKept DEF IInv
<1>8. NotYet'
  BY NotYetKept DEF IInv
<1>9. InviteKept' /\ Invited'
  BY InviteKeptKept, InvitedKept DEF IInv
<1>10. Joined'
  BY JoinedKept DEF IInv, Member
<1>11. Supported'
  BY SupportedKept DEF IInv, Member
<1>12. Founded' /\ UsersCanSignIn' /\ CompanyHasAdmin' /\ OneUserPerAccount'
  BY RowsKept DEF IInv
<1> QED BY <1>1, <1>2, <1>4, <1>5, <1>6, <1>7, <1>8, <1>9, <1>10, <1>11, <1>12 DEF IInv

-----------------------------------------------------------------------------
(* One lemma for each action                                                *)

\* What is known of a request before its step.
LEMMA Before ==
    ASSUME NEW r \in Requests, IInv
    PROVE  tx \in [Requests -> Request] /\ tx[r] \in Request /\ StagedAt(r)
BY DEF IInv, TypeOK, Staged

LEMMA IdleIsRequest == Idle \in Request
BY DEF Idle, Request, Stages

LEMMA FindKeeps ==
    ASSUME NEW r \in Requests, IInv, Find(r)
    PROVE  IInv'
<1>1. tx \in [Requests -> Request] /\ tx[r] \in Request /\ StagedAt(r)
  BY Before
<1>2. UNCHANGED <<email, account, companies, role, invites, overlaps>>
  BY DEF Find
<1>3. CASE Found(r) = {} /\ tx' = [tx EXCEPT ![r].stage = "unknown"]
  <2>1. Step(r) /\ Goes(r)
    BY <1>1, <1>3 DEF Find, Step, Goes, SameAsk, StagedAt, Active, Request, Stages
  <2>2. tx'[r].stage = "unknown" /\ tx'[r].user = None /\ ~tx'[r].new /\ ~tx'[r].saved
        /\ tx'[r].account = tx[r].account
    BY <1>1, <1>3 DEF Find, StagedAt, Request
  <2>3. \A u \in Users : account[u] # tx[r].account
    BY <1>3 DEF Found
  <2> QED BY <1>2, <2>1, <2>2, <2>3, QuietStep
<1>4. ASSUME NEW u \in Found(r), tx[r].kind = "signup",
             tx' = [tx EXCEPT ![r].stage = "user", ![r].user = u]
      PROVE  IInv'
  <2>1. u \in Users /\ Exists(u)
    BY <1>1, <1>4 DEF Found, IInv, Founded, Find, StagedAt, Active
  <2>2. Step(r) /\ Goes(r)
    BY <1>1, <1>4, <2>1 DEF Find, Step, Goes, SameAsk, StagedAt, Active, Request, Stages
  <2>3. tx'[r].stage = "user" /\ tx'[r].user = u /\ ~tx'[r].new /\ ~tx'[r].saved
    BY <1>1, <1>4 DEF Find, StagedAt, Request
  <2> QED BY <1>2, <2>1, <2>2, <2>3, QuietStep DEF Unknown, Exists
<1>5. ASSUME NEW u \in Found(r), tx[r].kind = "invite",
             tx' = [tx EXCEPT ![r].stage = "known", ![r].user = u, ![r].copy = email[u]]
      PROVE  IInv'
  <2>1. u \in Users /\ Exists(u) /\ email[u] \in Emails
    BY <1>1, <1>5 DEF Found, IInv, TypeOK, Founded, Find, StagedAt, Active, Exists
  <2>2. Step(r) /\ Goes(r)
    BY <1>1, <1>5, <2>1, NoneAssumption
       DEF Find, Step, Goes, SameAsk, StagedAt, Active, Request, Stages
  <2>3. tx'[r].stage = "known" /\ tx'[r].user = u /\ ~tx'[r].new /\ ~tx'[r].saved
    BY <1>1, <1>5 DEF Find, StagedAt, Request
  <2> QED BY <1>2, <2>1, <2>2, <2>3, QuietStep DEF Unknown, Exists
<1> QED BY <1>3, <1>4, <1>5 DEF Find

LEMMA FindByEmailKeeps ==
    ASSUME NEW r \in Requests, IInv, FindByEmail(r)
    PROVE  IInv'
<1>1. tx \in [Requests -> Request] /\ tx[r] \in Request /\ StagedAt(r)
  BY Before
<1>2. UNCHANGED <<email, account, companies, role, invites, overlaps>>
  BY DEF FindByEmail
<1>3. ASSUME NEW u \in Users, email[u] = tx[r].email,
             tx' = [tx EXCEPT ![r].stage = "loaded", ![r].user = u]
      PROVE  IInv'
  <2>1. Step(r) /\ Goes(r)
    BY <1>1, <1>3 DEF FindByEmail, Step, Goes, SameAsk, StagedAt, Active, Request, Stages
  <2>2. tx'[r].stage = "loaded" /\ tx'[r].user = u /\ ~tx'[r].new /\ ~tx'[r].saved
    BY <1>1, <1>3 DEF FindByEmail, StagedAt, Request
  <2>3. Exists(u) /\ u # None
    BY <1>1, <1>3, NoneAssumption DEF Exists, FindByEmail, StagedAt, Active
  <2> QED BY <1>2, <2>1, <2>2, <2>3, QuietStep DEF Unknown, Exists
<1>4. CASE tx' = [tx EXCEPT ![r].stage = "loaded"]
  <2>1. Step(r) /\ Goes(r)
    BY <1>1, <1>4 DEF FindByEmail, Step, Goes, SameAsk, StagedAt, Active, Request, Stages
  <2>2. tx'[r].stage = "loaded" /\ tx'[r].user = None /\ ~tx'[r].new /\ ~tx'[r].saved
        /\ tx'[r].account = tx[r].account
    BY <1>1, <1>4 DEF FindByEmail, StagedAt, Request
  <2>3. Unknown(r)
    BY DEF FindByEmail, Unknown
  <2> QED BY <1>2, <2>1, <2>2, <2>3, QuietStep DEF IInv, NotYet
<1> QED BY <1>3, <1>4 DEF FindByEmail

LEMMA SaveIdentityKeeps ==
    ASSUME NEW r \in Requests, IInv, SaveIdentity(r)
    PROVE  IInv'
<1>1. tx \in [Requests -> Request] /\ tx[r] \in Request /\ StagedAt(r)
  BY Before
<1>2. tx' = [tx EXCEPT ![r].stage = "user"]
  BY DEF SaveIdentity
<1>3. Step(r) /\ Goes(r)
  BY <1>1, <1>2 DEF SaveIdentity, Step, Goes, SameAsk, StagedAt, Active, Request, Stages
<1>4. tx'[r].stage = "user" /\ tx'[r].user = tx[r].user /\ ~tx'[r].new /\ ~tx'[r].saved
  BY <1>1, <1>2 DEF SaveIdentity, StagedAt, Request
<1>5. tx[r].user \in Users /\ Exists(tx[r].user)
  BY <1>1 DEF SaveIdentity, IInv, OldUsers, Request, StagedAt
<1>6. UNCHANGED <<email, account, companies, role, invites, overlaps>>
  BY <1>5 DEF SaveIdentity, IInv, UsersCanSignIn
<1> QED BY <1>3, <1>4, <1>5, <1>6, QuietStep DEF Unknown, Exists

LEMMA ResetKeeps ==
    ASSUME NEW r \in Requests, IInv, tx' = [tx EXCEPT ![r] = Idle],
           UNCHANGED <<email, account, companies, role, invites, overlaps>>
    PROVE  IInv'
<1>1. tx \in [Requests -> Request]
  BY Before
<1>2. tx'[r] = Idle
  BY <1>1
<1>3. Step(r) /\ Goes(r)
  BY <1>1, <1>2, IdleIsRequest DEF Step, Goes, StagedAt, Active, Idle
<1> QED BY <1>2, <1>3, QuietStep DEF Idle, Unknown

LEMMA BeginKeeps ==
    ASSUME NEW r \in Requests, NEW kind \in {"signup", "invite"}, NEW g \in Accounts,
           NEW e \in Emails, NEW c \in Companies, IInv, Begin(r, kind, g, e, c)
    PROVE  IInv'
<1>1. tx \in [Requests -> Request] /\ tx[r] \in Request /\ StagedAt(r)
  BY Before
<1>2. UNCHANGED <<email, account, companies, role, invites>>
  BY DEF Begin
<1>3. /\ tx'[r].stage = "begun" /\ tx'[r].kind = kind /\ tx'[r].account = g
      /\ tx'[r].email = e /\ tx'[r].company = c /\ tx'[r].user = None
      /\ ~tx'[r].new /\ ~tx'[r].saved
  BY <1>1 DEF Begin, Idle
<1>4. Step(r)
  <2> DEFINE begun == [Idle EXCEPT !.stage = "begun", !.kind = kind, !.account = g,
                                   !.email = e, !.company = c]
  <2>1. begun \in Request
    BY DEF Idle, Request, Stages
  <2>2. tx' = [tx EXCEPT ![r] = begun]
    BY DEF Begin
  <2>3. tx' \in [Requests -> Request] /\ \A q \in Requests \ {r} : tx'[q] = tx[q]
    <3> HIDE DEF begun
    <3> QED BY <1>1, <2>1, <2>2
  <2>4. StagedAt(r)'
    BY <1>3, NoneAssumption DEF StagedAt, Active
  <2> QED BY <1>1, <2>3, <2>4 DEF Step
<1>5. /\ overlaps \subseteq overlaps'
      /\ \A q \in Requests : q # r => Shared(Subjects(kind, g, e, c), q) \subseteq overlaps'
  BY DEF Begin
<1>6. overlaps' \subseteq Accounts \cup (Companies \X Emails)
  <2>1. Subjects(kind, g, e, c) \subseteq Accounts \cup (Companies \X Emails)
    BY DEF Subjects
  <2>2. overlaps' \subseteq overlaps \cup Subjects(kind, g, e, c)
    BY DEF Begin, Shared
  <2> QED BY <2>1, <2>2 DEF IInv, TypeOK
<1>7. TypeOK'
  BY <1>2, <1>4, <1>6 DEF IInv, TypeOK, Step, Exists
<1>8. Noticed'
  <2> SUFFICES ASSUME NEW p \in Requests, NEW q \in Requests, p # q,
                      Active(p)', Active(q)'
               PROVE  SubjectsOf(p)' \cap SubjectsOf(q)' \subseteq overlaps'
    BY DEF Noticed
  <2>1. SubjectsOf(r)' = Subjects(kind, g, e, c)
    BY <1>3 DEF SubjectsOf
  <2>2. \A t \in Requests : t # r => Active(t)' = Active(t) /\ SubjectsOf(t)' = SubjectsOf(t)
    BY <1>4 DEF Step, Active, SubjectsOf
  <2>3. CASE p = r
    BY <1>5, <2>1, <2>2, <2>3 DEF Shared
  <2>4. CASE q = r
    BY <1>5, <2>1, <2>2, <2>4 DEF Shared
  <2>5. CASE p # r /\ q # r
    BY <1>5, <2>2, <2>5 DEF IInv, Noticed
  <2> QED BY <2>3, <2>4, <2>5
<1>9. InviteKept'
  <2> SUFFICES ASSUME NEW q \in Requests, Active(q)', tx'[q].kind = "invite"
               PROVE  <<tx'[q].company, tx'[q].email>> \in invites' \cup overlaps'
    BY DEF InviteKept, InviteOf
  <2>1. CASE q = r
    BY <1>2, <1>3, <2>1 DEF Begin
  <2>2. CASE q # r
    BY <1>2, <1>4, <1>5, <2>2 DEF Step, IInv, InviteKept, InviteOf, Active
  <2> QED BY <2>1, <2>2
<1>10. Staged'
  BY <1>4, StagedKept DEF IInv
<1>11. NewRows'
  BY <1>2, <1>3, <1>4, NewRowsKept DEF IInv
<1>12. OldUsers'
  BY <1>2, <1>3, <1>4, OldUsersKept DEF IInv, Exists
<1>13. NewNames'
  BY <1>2, <1>3, <1>4, NewNamesKept DEF IInv
<1>14. NotYet'
  BY <1>2, <1>3, <1>4, <1>5, NotYetKept DEF IInv, Unknown
<1>15. Joined'
  BY <1>2, <1>3, <1>4, JoinedKept DEF IInv, Member
<1>16. Supported'
  BY <1>2, <1>3, <1>4, <1>5, SupportedKept DEF IInv, Member
<1>17. Founded' /\ UsersCanSignIn' /\ CompanyHasAdmin' /\ OneUserPerAccount'
  BY <1>2, <1>5, RowsKept DEF IInv
<1>18. Invited'
  <2>1. kind = "invite" => c \in companies
    BY DEF Begin, IInv, Invited
  <2> QED BY <1>2, <1>3, <1>4, <2>1 DEF Step, IInv, Invited, Active
<1> QED BY <1>7, <1>8, <1>9, <1>10, <1>11, <1>12, <1>13, <1>14, <1>15, <1>16, <1>17, <1>18 DEF IInv

\* The request r is at its invite alone, or that two are is noticed.
LEMMA AloneAtInvite ==
    ASSUME NEW r \in Requests, IInv, Active(r), tx[r].kind = "invite", tx[r].stage # "joined"
    PROVE  Supports(tx[r].company, tx[r].email)
<1>1. InviteOf(r) \in invites \cup overlaps
  BY DEF IInv, InviteKept
<1>2. ASSUME NEW q \in Requests, tx[q].stage = "joined", InviteOf(q) = InviteOf(r)
      PROVE  InviteOf(r) \in overlaps
  <2>1. q # r /\ Active(q) /\ tx[q].kind = "invite"
    BY <1>2 DEF IInv, Staged, StagedAt, Active
  <2>2. InviteOf(r) \in SubjectsOf(q) \cap SubjectsOf(r)
    BY <1>2, <2>1 DEF SubjectsOf, Subjects, InviteOf
  <2> QED BY <2>1, <2>2 DEF IInv, Noticed
<1> QED BY <1>1, <1>2 DEF Supports, InviteOf

LEMMA UpdateEmailKeeps ==
    ASSUME NEW r \in Requests, IInv, UpdateEmail(r)
    PROVE  IInv'
<1>1. tx \in [Requests -> Request] /\ tx[r] \in Request /\ StagedAt(r)
  BY Before
<1>2. tx[r].stage = "known" /\ UNCHANGED <<account, companies, role, invites, overlaps>>
  BY DEF UpdateEmail
<1>3. CASE tx' = [tx EXCEPT ![r] = Idle] /\ UNCHANGED email
  BY <1>2, <1>3, ResetKeeps
<1>4. ASSUME tx' = [tx EXCEPT ![r].stage = "user", ![r].copy = None],
             ~Taken(tx[r].email, tx[r].user),
             \/ UNCHANGED email
             \/ /\ ~Awaited(tx[r].email, r)
                /\ email' = [email EXCEPT ![tx[r].user] = tx[r].email]
      PROVE  IInv'
  <2>1. Step(r) /\ Goes(r)
    BY <1>1, <1>2, <1>4 DEF Step, Goes, SameAsk, StagedAt, Active, Request, Stages
  <2>2. /\ tx'[r].stage = "user" /\ tx'[r].user = tx[r].user /\ ~tx'[r].new /\ ~tx'[r].saved
        /\ tx[r].kind = "invite"
    BY <1>1, <1>2, <1>4 DEF StagedAt, Request
  <2>3. /\ tx[r].user \in Users /\ Exists(tx[r].user) /\ tx[r].email \in Emails
        /\ tx[r].company \in Companies /\ Active(r)
    BY <1>1, <1>2 DEF IInv, OldUsers, Request, StagedAt, Active
  <2>4. CASE UNCHANGED email
    BY <1>2, <2>1, <2>2, <2>3, <2>4, QuietStep DEF Unknown, Exists
  <2>5. ASSUME ~Awaited(tx[r].email, r),
               email' = [email EXCEPT ![tx[r].user] = tx[r].email]
        PROVE  IInv'
    <3>1. /\ email \in [Users -> Emails \cup {None}]
          /\ email' \in [Users -> Emails \cup {None}]
          /\ email'[tx[r].user] = tx[r].email
          /\ \A u \in Users : u # tx[r].user => email'[u] = email[u]
      BY <2>3, <2>5 DEF IInv, TypeOK
    <3>2. \A u \in Users : Exists(u)' <=> Exists(u)
      BY <2>3, <3>1, NoneAssumption DEF Exists
    <3>3. \A v \in Users : v # tx[r].user => email[v] # tx[r].email
      BY <1>4 DEF Taken
    <3>4. TypeOK'
      <4>1. \A u, v \in Users : Exists(u)' /\ email'[u] = email'[v] => u = v
        BY <3>1, <3>2, <3>3 DEF IInv, TypeOK
      <4> QED BY <1>2, <2>1, <3>1, <4>1 DEF IInv, TypeOK, Step
    <3>5. NewRows'
      <4> SUFFICES ASSUME NEW q \in Requests, tx'[q].new
                   PROVE  /\ ~Exists(tx[q].user)'
                          /\ \A v \in Users : email'[v] # tx'[q].email
                          /\ \A p \in Requests : tx'[p].new /\ p # q =>
                                tx'[p].user # tx'[q].user /\ tx'[p].email # tx'[q].email
        BY DEF NewRows, Exists
      <4>1. \A p \in Requests : tx'[p].new => p # r /\ tx'[p] = tx[p]
        BY <2>1, <2>2 DEF Step
      <4>2. tx[q].user \in Users /\ tx[q].email # tx[r].email
        BY <1>1, <2>5, <4>1 DEF IInv, Staged, StagedAt, Request, Awaited
      <4> QED BY <3>1, <3>2, <4>1, <4>2 DEF IInv, NewRows, Exists
    <3>6. Supported'
      <4> SUFFICES ASSUME NEW u \in Users, Exists(u)', Homeless(u)'
                   PROVE  \E c \in Companies : Supports(c, email[u])'
        BY DEF Supported
      <4>1. Exists(u) /\ Homeless(u)
        BY <1>2, <3>2 DEF Homeless, Member
      <4>2. CASE u # tx[r].user
        <5>1. email'[u] = email[u] /\ email[u] \in Emails
          BY <3>1, <4>1, <4>2 DEF Exists
        <5>2. PICK c \in Companies : Supports(c, email[u])
          BY <4>1 DEF IInv, Supported
        <5>3. Supports(c, email[u])'
          BY <1>2, <2>1, <2>2, <5>1, <5>2, SupportsKept DEF Supports
        <5> QED BY <5>3
      <4>3. CASE u = tx[r].user
        <5>1. PICK c \in Companies, e \in Emails : e = email'[u] /\ Supports(c, e)
          BY <1>2, <2>2, <2>3, <3>1, <4>3, AloneAtInvite
        <5>2. Supports(c, e)'
          BY <1>2, <2>1, <2>2, <5>1, SupportsKept
        <5> QED BY <5>1, <5>2 DEF Supports
      <4> QED BY <4>2, <4>3
    <3>7. UsersCanSignIn'
      BY <1>2, <3>2 DEF IInv, UsersCanSignIn, Member
    <3>8. OneUserPerAccount'
      BY <1>2, <3>2 DEF IInv, OneUserPerAccount
    <3>9. Founded' /\ CompanyHasAdmin'
      BY <1>2, <3>2 DEF IInv, Founded, CompanyHasAdmin
    <3>10. Staged'
      BY <2>1, StagedKept DEF IInv
    <3>11. OldUsers'
      BY <2>1, <2>2, <2>3, <3>2, OldUsersKept DEF IInv, Exists
    <3>12. NewNames'
      BY <1>2, <2>1, <2>2, NewNamesKept DEF IInv
    <3>13. Noticed'
      BY <1>2, <2>1, NoticedKept DEF IInv
    <3>14. NotYet'
      BY <1>2, <2>1, <2>2, NotYetKept DEF IInv, Unknown
    <3>15. InviteKept' /\ Invited'
      BY <1>2, <2>1, InviteKeptKept, InvitedKept DEF IInv
    <3>16. Joined'
      BY <1>2, <2>1, <2>2, JoinedKept DEF IInv, Member
    <3> QED BY <3>4, <3>5, <3>6, <3>7, <3>8, <3>9, <3>10, <3>11, <3>12, <3>13, <3>14, <3>15,
               <3>16 DEF IInv
  <2> QED BY <1>4, <2>4, <2>5
<1> QED BY <1>2, <1>3, <1>4 DEF UpdateEmail

LEMMA SaveUserKeeps ==
    ASSUME NEW r \in Requests, IInv, SaveUser(r)
    PROVE  IInv'
<1>1. tx \in [Requests -> Request] /\ tx[r] \in Request /\ StagedAt(r)
  BY Before
<1>2. /\ tx[r].stage = "loaded" /\ tx[r].user = None
      /\ \A v \in Users : email[v] # tx[r].email
      /\ ~Awaited(tx[r].email, r)
      /\ UNCHANGED <<companies, role, invites, overlaps>>
  BY NoneAssumption DEF SaveUser, Taken
<1>3. PICK n \in Fresh(r) :
            /\ email' = [email EXCEPT ![n] = tx[r].email]
            /\ account' = [account EXCEPT ![n] = tx[r].account]
            /\ tx' = [tx EXCEPT ![r].stage = "user", ![r].user = n]
  BY DEF SaveUser
<1>4. n \in Users /\ ~Exists(n) /\ ~Reserved(n, r) /\ n # None
  BY NoneAssumption DEF Fresh
<1>5. /\ Active(r) /\ tx[r].kind = "invite" /\ ~tx[r].new /\ ~tx[r].saved
      /\ tx[r].email \in Emails /\ tx[r].account \in Accounts /\ tx[r].company \in Companies
  BY <1>1, <1>2 DEF StagedAt, Active, Request
<1>6. Step(r) /\ Goes(r)
  BY <1>1, <1>2, <1>3, <1>4, <1>5
     DEF Step, Goes, SameAsk, StagedAt, Active, Request, Stages
<1>7. /\ tx'[r].stage = "user" /\ tx'[r].user = n /\ ~tx'[r].new /\ ~tx'[r].saved
  BY <1>1, <1>3, <1>5 DEF Request
<1>8. /\ email' \in [Users -> Emails \cup {None}]
      /\ account' \in [Users -> Accounts \cup {None}]
      /\ email'[n] = tx[r].email /\ account'[n] = tx[r].account
      /\ \A u \in Users : u # n => email'[u] = email[u] /\ account'[u] = account[u]
  BY <1>3, <1>4, <1>5 DEF IInv, TypeOK
<1>9. \A u \in Users : Exists(u)' <=> Exists(u) \/ u = n
  BY <1>5, <1>8, NoneAssumption DEF Exists
<1>10. TypeOK'
  <2>1. \A u, v \in Users : Exists(u)' /\ email'[u] = email'[v] => u = v
    BY <1>2, <1>8, <1>9 DEF IInv, TypeOK
  <2> QED BY <1>2, <1>6, <1>8, <2>1 DEF IInv, TypeOK, Step
<1>11. Staged'
  BY <1>6, StagedKept DEF IInv
<1>12. NewRows'
  <2> SUFFICES ASSUME NEW q \in Requests, tx'[q].new
               PROVE  /\ ~Exists(tx[q].user)'
                      /\ \A v \in Users : email'[v] # tx'[q].email
                      /\ \A p \in Requests : tx'[p].new /\ p # q =>
                            tx'[p].user # tx'[q].user /\ tx'[p].email # tx'[q].email
    BY DEF NewRows, Exists
  <2>1. \A p \in Requests : tx'[p].new => p # r /\ tx'[p] = tx[p]
    BY <1>6, <1>7 DEF Step
  <2>2. tx[q].user \in Users /\ tx[q].email # tx[r].email /\ tx[q].user # n
    BY <1>1, <1>2, <1>4, <2>1 DEF IInv, Staged, StagedAt, Request, Awaited, Reserved
  <2> QED BY <1>8, <1>9, <2>1, <2>2 DEF IInv, NewRows, Exists
<1>13. OldUsers'
  BY <1>4, <1>6, <1>7, <1>9, OldUsersKept DEF IInv, Exists
<1>14. NewNames'
  BY <1>2, <1>6, <1>7, NewNamesKept DEF IInv
<1>15. Founded'
  BY <1>2, <1>8, <1>9 DEF IInv, Founded
<1>16. Noticed'
  BY <1>2, <1>6, NoticedKept DEF IInv
<1>17. NotYet'
  <2> SUFFICES ASSUME NEW q \in Requests, Unknown(q)',
                      NEW u \in Users, account'[u] = tx'[q].account
               PROVE  tx'[q].account \in overlaps
    BY <1>2 DEF NotYet
  <2>1. q # r /\ tx'[q] = tx[q] /\ Unknown(q)
    BY <1>6, <1>7 DEF Step, Unknown
  <2>2. CASE u = n
    <3>1. Active(q)
      BY <2>1 DEF Unknown, IInv, Staged, StagedAt, Active
    <3>2. tx[q].account = tx[r].account
      BY <1>8, <2>1, <2>2
    <3>3. tx[r].account \in SubjectsOf(q) \cap SubjectsOf(r)
      BY <3>2 DEF SubjectsOf, Subjects
    <3> QED BY <1>5, <2>1, <3>1, <3>2, <3>3 DEF IInv, Noticed
  <2>3. CASE u # n
    BY <1>8, <2>1, <2>3 DEF IInv, NotYet
  <2> QED BY <2>2, <2>3
<1>18. InviteKept' /\ Invited'
  BY <1>2, <1>6, InviteKeptKept, InvitedKept DEF IInv
<1>19. Joined'
  BY <1>2, <1>6, <1>7, JoinedKept DEF IInv, Member
<1>20. Supported'
  <2> SUFFICES ASSUME NEW u \in Users, Exists(u)', Homeless(u)'
               PROVE  \E c \in Companies : Supports(c, email[u])'
    BY DEF Supported
  <2>1. PICK c \in Companies, e \in Emails : e = email'[u] /\ Supports(c, e)
    <3>1. CASE u = n
      BY <1>2, <1>5, <1>8, <3>1, AloneAtInvite
    <3>2. CASE u # n
      BY <1>2, <1>8, <1>9, <3>2 DEF IInv, TypeOK, Supported, Homeless, Member, Exists
    <3> QED BY <3>1, <3>2
  <2>2. Supports(c, e)'
    BY <1>2, <1>6, <1>7, <2>1, SupportsKept
  <2> QED BY <2>1, <2>2 DEF Supports
<1>21. UsersCanSignIn'
  BY <1>2, <1>5, <1>8, <1>9, NoneAssumption DEF IInv, UsersCanSignIn, Member
<1>22. CompanyHasAdmin'
  BY <1>2 DEF IInv, CompanyHasAdmin
<1>23. OneUserPerAccount'
  <2>1. \A u \in Users : account[u] = tx[r].account => tx[r].account \in overlaps
    BY <1>2 DEF IInv, NotYet, Unknown
  <2> QED BY <1>2, <1>8, <1>9, <2>1 DEF IInv, OneUserPerAccount, Founded
<1> QED BY <1>10, <1>11, <1>12, <1>13, <1>14, <1>15, <1>16, <1>17, <1>18, <1>19, <1>20, <1>21,
           <1>22, <1>23 DEF IInv

LEMMA JoinKeeps ==
    ASSUME NEW r \in Requests, IInv, Join(r)
    PROVE  IInv'
<1> DEFINE u == tx[r].user
           c == tx[r].company
           e == tx[r].email
<1>1. tx \in [Requests -> Request] /\ tx[r] \in Request /\ StagedAt(r)
  BY Before
<1>2. /\ tx[r].stage = "user" /\ tx[r].kind = "invite" /\ ~Taken(e, u)
      /\ tx' = [tx EXCEPT ![r].stage = "joined"]
      /\ UNCHANGED <<email, account, companies, invites, overlaps>>
  BY DEF Join
<1>3. u \in Users /\ c \in Companies /\ e \in Emails /\ ~tx[r].new /\ ~tx[r].saved
  BY <1>1, <1>2 DEF StagedAt, Active, Request
<1>4. Exists(u)
  BY <1>3, NoneAssumption DEF IInv, OldUsers
<1>5. Step(r) /\ Goes(r)
  BY <1>1, <1>2, <1>3 DEF Step, Goes, SameAsk, StagedAt, Active, Request, Stages
<1>6. /\ tx'[r].stage = "joined" /\ tx'[r].user = u /\ tx'[r].company = c
      /\ tx'[r].email = e /\ ~tx'[r].new /\ ~tx'[r].saved
  BY <1>1, <1>2, <1>3 DEF Request
<1>7. /\ role' \in [Companies -> [Users -> Roles \cup {None}]]
      /\ role'[c][u] # None
      /\ \A d \in Companies, v \in Users :
            d # c \/ v # u \/ Member(u, c) => role'[d][v] = role[d][v]
  <2>1. CASE Member(u, c)
    BY <1>3, <2>1 DEF Join, Member, IInv, TypeOK
  <2>2. CASE ~Member(u, c)
    <3>1. role' = [role EXCEPT ![c][u] = "developer"]
      BY <2>2 DEF Join
    <3>2. "developer" \in Roles /\ "developer" # None
      BY NoneAssumption DEF Roles
    <3> QED BY <1>3, <2>2, <3>1, <3>2 DEF Member, IInv, TypeOK
  <2> QED BY <2>1, <2>2
<1>8. \A v \in Users, d \in Companies : Member(v, d) => Member(v, d)'
  BY <1>3, <1>7 DEF Member
<1> HIDE DEF u, c, e
<1>9. TypeOK'
  BY <1>2, <1>5, <1>7 DEF IInv, TypeOK, Step, Exists
<1>10. Founded'
  <2>1. c \in companies
    BY <1>2 DEF IInv, Invited, Active, c
  <2> QED BY <1>2, <1>3, <1>7, <2>1 DEF IInv, Founded, Exists
<1>11. Supported'
  <2> SUFFICES ASSUME NEW v \in Users, Exists(v)', Homeless(v)'
               PROVE  \E d \in Companies : Supports(d, email[v])'
    BY DEF Supported
  <2>1. Exists(v) /\ Homeless(v) /\ v # u /\ email[v] \in Emails
    BY <1>2, <1>3, <1>7, <1>8 DEF Exists, Homeless, Member, IInv, TypeOK
  <2>2. email[v] # e
    BY <1>2, <2>1 DEF Taken, u, e
  <2>3. PICK d \in Companies : Supports(d, email[v])
    BY <2>1 DEF IInv, Supported
  <2>4. \A q \in Requests : tx'[q].stage = "joined" =>
          <<tx'[q].company, tx'[q].email>> # <<d, email[v]>>
             \/ (tx[q].stage = "joined" /\ tx'[q] = tx[q])
    BY <1>5, <1>6, <2>2 DEF Step, c, e
  <2>5. Supports(d, email[v])'
    BY <1>2, <2>3, <2>4 DEF Supports, InviteOf
  <2> QED BY <2>5
<1>12. UsersCanSignIn'
  BY <1>2, <1>4, <1>7 DEF IInv, UsersCanSignIn, Member, Exists
<1>13. CompanyHasAdmin'
  BY <1>2, <1>3, <1>7, NoneAssumption DEF IInv, CompanyHasAdmin, Member, TypeOK, Roles
<1>14. OneUserPerAccount'
  BY <1>2 DEF IInv, OneUserPerAccount, Exists
<1>15. Staged'
  BY <1>5, StagedKept DEF IInv
<1>16. NewRows'
  BY <1>2, <1>5, <1>6, NewRowsKept DEF IInv
<1>17. OldUsers'
  BY <1>2, <1>4, <1>5, <1>6, OldUsersKept DEF IInv, Exists
<1>18. NewNames'
  BY <1>2, <1>5, <1>6, NewNamesKept DEF IInv
<1>19. Noticed'
  BY <1>2, <1>5, NoticedKept DEF IInv
<1>20. NotYet'
  BY <1>2, <1>5, <1>6, NotYetKept DEF IInv, Unknown
<1>21. InviteKept' /\ Invited'
  BY <1>2, <1>5, InviteKeptKept, InvitedKept DEF IInv
<1>22. Joined'
  BY <1>5, <1>6, <1>7, <1>8, JoinedKept DEF IInv, Member
<1> QED BY <1>9, <1>10, <1>11, <1>12, <1>13, <1>14, <1>15, <1>16, <1>17, <1>18, <1>19, <1>20,
           <1>21, <1>22 DEF IInv

LEMMA DestroyInviteKeeps ==
    ASSUME NEW r \in Requests, IInv, DestroyInvite(r)
    PROVE  IInv'
<1>1. tx \in [Requests -> Request] /\ tx[r] \in Request /\ StagedAt(r)
  BY Before
<1>2. /\ tx[r].stage = "joined" /\ tx[r].kind = "invite" /\ Active(r)
      /\ invites' = invites \ {InviteOf(r)}
      /\ UNCHANGED <<email, account, companies, role, overlaps>>
  BY <1>1 DEF DestroyInvite, StagedAt, Active, InviteOf
<1>3. tx'[r] = Idle
  BY <1>1 DEF DestroyInvite
<1>4. Step(r) /\ Goes(r) /\ ~Active(r)'
  BY <1>1, <1>3, IdleIsRequest DEF DestroyInvite, Step, Goes, StagedAt, Active, Idle
<1>5. /\ tx'[r].stage = "idle" /\ ~tx'[r].new /\ ~tx'[r].saved /\ tx'[r].user = None
  BY <1>3 DEF Idle
<1>6. TypeOK'
  BY <1>2, <1>4 DEF IInv, TypeOK, Step, Exists
<1>7. InviteKept'
  <2> SUFFICES ASSUME NEW q \in Requests, Active(q)', tx'[q].kind = "invite"
               PROVE  InviteOf(q)' \in invites' \cup overlaps'
    BY DEF InviteKept
  <2>1. q # r /\ Active(q) /\ tx[q].kind = "invite" /\ InviteOf(q)' = InviteOf(q)
    BY <1>4 DEF Step, Active, InviteOf
  <2>2. CASE InviteOf(q) = InviteOf(r)
    <3>1. InviteOf(q) \in SubjectsOf(q) \cap SubjectsOf(r)
      BY <1>2, <2>1, <2>2 DEF SubjectsOf, Subjects, InviteOf
    <3> QED BY <1>2, <2>1, <3>1 DEF IInv, Noticed
  <2>3. CASE InviteOf(q) # InviteOf(r)
    BY <1>2, <2>1, <2>3 DEF IInv, InviteKept
  <2> QED BY <2>2, <2>3
<1>8. Supported'
  <2> SUFFICES ASSUME NEW u \in Users, Exists(u)', Homeless(u)'
               PROVE  \E c \in Companies : Supports(c, email[u])'
    BY DEF Supported
  <2>1. PICK c \in Companies : Supports(c, email[u])
    BY <1>2 DEF IInv, Supported, Exists, Homeless, Member
  <2>2. \A q \in Requests : tx'[q].stage = "joined" =>
          tx[q].stage = "joined" /\ InviteOf(q)' = InviteOf(q)
    BY <1>4, <1>5 DEF Step, InviteOf
  <2>3. <<c, email[u]>> \in overlaps \/ <<c, email[u]>> \in invites'
    BY <1>2, <2>1 DEF Supports
  <2>4. Supports(c, email[u])'
    BY <1>2, <2>1, <2>2, <2>3 DEF Supports
  <2> QED BY <2>4
<1>9. Staged'
  BY <1>4, StagedKept DEF IInv
<1>10. NewRows'
  BY <1>2, <1>4, <1>5, NewRowsKept DEF IInv
<1>11. OldUsers'
  BY <1>2, <1>4, <1>5, OldUsersKept DEF IInv, Exists
<1>12. NewNames'
  BY <1>2, <1>4, <1>5, NewNamesKept DEF IInv
<1>13. Noticed'
  BY <1>2, <1>4, NoticedKept DEF IInv
<1>14. NotYet'
  BY <1>2, <1>4, <1>5, NotYetKept DEF IInv, Unknown
<1>15. Joined'
  BY <1>2, <1>4, <1>5, JoinedKept DEF IInv, Member
<1>16. Founded' /\ UsersCanSignIn' /\ CompanyHasAdmin' /\ OneUserPerAccount'
  BY <1>2, RowsKept DEF IInv
<1>17. Invited'
  BY <1>2, <1>4, InvitedKept DEF IInv
<1> QED BY <1>6, <1>7, <1>8, <1>9, <1>10, <1>11, <1>12, <1>13, <1>14, <1>15, <1>16, <1>17
        DEF IInv

LEMMA InsertUserKeeps ==
    ASSUME NEW r \in Requests, IInv, InsertUser(r)
    PROVE  IInv'
<1>1. tx \in [Requests -> Request] /\ tx[r] \in Request /\ StagedAt(r)
  BY Before
<1>2. /\ tx[r].stage = "unknown" /\ tx[r].kind = "signup" /\ tx[r].user = None /\ Active(r)
      /\ ~tx[r].new /\ ~tx[r].saved
      /\ UNCHANGED <<email, account, companies, role, invites, overlaps>>
  BY <1>1 DEF InsertUser, StagedAt, Active
<1>3. \/ tx' = [tx EXCEPT ![r].stage = "user"]
      \/ \E n \in Fresh(r) :
            /\ ~Taken(tx[r].email, None) /\ ~Awaited(tx[r].email, r)
            /\ tx' = [tx EXCEPT ![r].stage = "user", ![r].user = n, ![r].new = TRUE]
  BY DEF InsertUser
<1>4. CASE tx' = [tx EXCEPT ![r].stage = "user"]
  <2>1. Step(r) /\ Goes(r)
    BY <1>1, <1>2, <1>4 DEF Step, Goes, SameAsk, StagedAt, Active, Request, Stages
  <2>2. tx'[r].stage = "user" /\ tx'[r].user = None /\ ~tx'[r].new /\ ~tx'[r].saved
    BY <1>1, <1>2, <1>4 DEF Request
  <2> QED BY <1>2, <2>1, <2>2, QuietStep DEF Unknown
<1>5. ASSUME NEW n \in Fresh(r), ~Taken(tx[r].email, None), ~Awaited(tx[r].email, r),
             tx' = [tx EXCEPT ![r].stage = "user", ![r].user = n, ![r].new = TRUE]
      PROVE  IInv'
  <2>1. n \in Users /\ ~Exists(n) /\ ~Reserved(n, r) /\ n # None
    BY NoneAssumption DEF Fresh
  <2>2. Step(r) /\ Goes(r)
    BY <1>1, <1>2, <1>5, <2>1 DEF Step, Goes, SameAsk, StagedAt, Active, Request, Stages
  <2>3. /\ tx'[r].stage = "user" /\ tx'[r].user = n /\ tx'[r].new /\ ~tx'[r].saved
        /\ tx'[r].email = tx[r].email /\ tx'[r].account = tx[r].account
    BY <1>1, <1>2, <1>5 DEF Request
  <2>4. \A v \in Users : email[v] # tx[r].email
    BY <1>5, NoneAssumption DEF Taken
  <2>5. TypeOK'
    BY <1>2, <2>2 DEF IInv, TypeOK, Step, Exists
  <2>6. NewRows'
    <3> SUFFICES ASSUME NEW q \in Requests, tx'[q].new
                 PROVE  /\ ~Exists(tx[q].user)'
                        /\ \A v \in Users : email'[v] # tx'[q].email
                        /\ \A p \in Requests : tx'[p].new /\ p # q =>
                              tx'[p].user # tx'[q].user /\ tx'[p].email # tx'[q].email
      BY DEF NewRows, Exists
    <3>1. \A p \in Requests : p # r => tx'[p] = tx[p]
      BY <2>2 DEF Step
    <3>2. \A p \in Requests : p # r /\ tx[p].new => tx[p].user # n /\ tx[p].email # tx[r].email
      BY <1>5, <2>1 DEF Reserved, Awaited
    <3>3. CASE q = r
      BY <1>2, <2>1, <2>3, <2>4, <3>1, <3>2, <3>3 DEF Exists
    <3>4. CASE q # r
      BY <1>2, <2>3, <3>1, <3>2, <3>4 DEF IInv, NewRows, Exists
    <3> QED BY <3>3, <3>4
  <2>7. Staged'
    BY <2>2, StagedKept DEF IInv
  <2>8. OldUsers'
    BY <1>2, <2>2, <2>3, OldUsersKept DEF IInv, Exists
  <2>9. NewNames'
    BY <1>2, <2>2, <2>3, NewNamesKept DEF IInv
  <2>10. Noticed'
    BY <1>2, <2>2, NoticedKept DEF IInv
  <2>11. NotYet'
    BY <1>2, <2>2, <2>3, NotYetKept DEF IInv, NotYet, Unknown
  <2>12. InviteKept' /\ Invited'
    BY <1>2, <2>2, InviteKeptKept, InvitedKept DEF IInv
  <2>13. Joined'
    BY <1>2, <2>2, <2>3, JoinedKept DEF IInv, Member
  <2>14. Supported'
    BY <1>2, <2>2, <2>3, SupportedKept DEF IInv, Member
  <2>15. Founded' /\ UsersCanSignIn' /\ CompanyHasAdmin' /\ OneUserPerAccount'
    BY <1>2, RowsKept DEF IInv
  <2> QED BY <2>5, <2>6, <2>7, <2>8, <2>9, <2>10, <2>11, <2>12, <2>13, <2>14, <2>15 DEF IInv
<1> QED BY <1>3, <1>4, <1>5

LEMMA SaveCompanyKeeps ==
    ASSUME NEW r \in Requests, IInv, SaveCompany(r)
    PROVE  IInv'
<1>1. tx \in [Requests -> Request] /\ tx[r] \in Request /\ StagedAt(r)
  BY Before
<1>2. /\ tx[r].stage = "user" /\ tx[r].kind = "signup" /\ Active(r) /\ ~NameAwaited(r)
      /\ tx' = [tx EXCEPT ![r].stage = "company", ![r].saved = tx[r].company \notin companies]
      /\ UNCHANGED <<email, account, companies, role, invites, overlaps>>
  BY DEF SaveCompany, Active
<1>3. Step(r) /\ Goes(r)
  BY <1>1, <1>2 DEF Step, Goes, SameAsk, StagedAt, Active, Request, Stages
<1>4. /\ tx'[r].stage = "company" /\ tx'[r].user = tx[r].user /\ tx'[r].new = tx[r].new
      /\ tx'[r].saved = (tx[r].company \notin companies)
      /\ tx'[r].company = tx[r].company /\ tx'[r].account = tx[r].account /\ SameAsk(r)
  BY <1>1, <1>2 DEF Request, SameAsk
<1>5. TypeOK'
  BY <1>2, <1>3 DEF IInv, TypeOK, Step, Exists
<1>6. NewNames'
  <2> SUFFICES ASSUME NEW q \in Requests, tx'[q].saved
               PROVE  /\ tx'[q].company \notin companies
                      /\ \A p \in Requests : tx'[p].saved /\ p # q => tx'[p].company # tx'[q].company
    BY <1>2 DEF NewNames
  <2>1. \A p \in Requests : p # r => tx'[p] = tx[p]
    BY <1>3 DEF Step
  <2>2. \A p \in Requests : p # r /\ tx[p].saved => tx[p].company # tx[r].company
    BY <1>2 DEF NameAwaited
  <2>3. CASE q = r
    BY <1>4, <2>1, <2>2, <2>3
  <2>4. CASE q # r
    BY <1>4, <2>1, <2>2, <2>4 DEF IInv, NewNames
  <2> QED BY <2>3, <2>4
<1>7. Staged'
  BY <1>3, StagedKept DEF IInv
<1>8. NewRows'
  BY <1>2, <1>3, <1>4, NewRowsKept DEF IInv
<1>9. OldUsers'
  <2>1. tx'[r].user # None /\ ~tx'[r].new => Exists(tx[r].user)'
    BY <1>2, <1>4 DEF IInv, OldUsers, Exists
  <2> QED BY <1>2, <1>3, <2>1, OldUsersKept DEF IInv, Exists
<1>10. Noticed'
  BY <1>2, <1>3, NoticedKept DEF IInv
<1>11. NotYet'
  BY <1>2, <1>3, <1>4, NotYetKept DEF IInv, NotYet, Unknown
<1>12. InviteKept' /\ Invited'
  BY <1>2, <1>3, InviteKeptKept, InvitedKept DEF IInv
<1>13. Joined'
  BY <1>2, <1>3, <1>4, JoinedKept DEF IInv, Member
<1>14. Supported'
  BY <1>2, <1>3, <1>4, SupportedKept DEF IInv, Member
<1>15. Founded' /\ UsersCanSignIn' /\ CompanyHasAdmin' /\ OneUserPerAccount'
  BY <1>2, RowsKept DEF IInv
<1> QED BY <1>5, <1>6, <1>7, <1>8, <1>9, <1>10, <1>11, <1>12, <1>13, <1>14, <1>15 DEF IInv

LEMMA CommitSignupKeeps ==
    ASSUME NEW r \in Requests, IInv, CommitSignup(r)
    PROVE  IInv'
<1> DEFINE u == tx[r].user
           c == tx[r].company
           e == tx[r].email
           g == tx[r].account
           UsersKept ==
               /\ TypeOK' /\ NewRows' /\ OldUsers' /\ NotYet' /\ Supported'
               /\ \A v \in Users : account'[v] # None => Exists(v)'
               /\ UsersCanSignIn' /\ OneUserPerAccount'
<1>1. tx \in [Requests -> Request] /\ tx[r] \in Request /\ StagedAt(r)
  BY Before
<1>2. /\ tx[r].stage = "company" /\ tx[r].kind = "signup" /\ Active(r)
      /\ tx[r].saved /\ u # None
      /\ UNCHANGED <<invites, overlaps>> /\ companies' = companies \cup {c}
  BY <1>1 DEF CommitSignup, Accepted, StagedAt, Active
<1>3. u \in Users /\ c \in Companies /\ e \in Emails /\ g \in Accounts
  BY <1>1, <1>2 DEF StagedAt, Active, Request
<1>4. c \notin companies /\ \A v \in Users : ~Member(v, c)
  BY <1>2, <1>3 DEF IInv, NewNames, Founded, Member
<1>5. tx' = [tx EXCEPT ![r] = Idle] /\ role' = [role EXCEPT ![c][u] = "admin"]
  BY <1>4 DEF CommitSignup, DefaultUserRole
<1>6. tx'[r] = Idle
  BY <1>1, <1>5
<1>7. Step(r) /\ Goes(r) /\ ~Active(r)'
  BY <1>1, <1>5, <1>6, IdleIsRequest DEF Step, Goes, StagedAt, Active, Idle
<1>8. tx'[r].stage = "idle" /\ ~tx'[r].new /\ ~tx'[r].saved /\ tx'[r].user = None
  BY <1>6 DEF Idle
<1>9. /\ role' \in [Companies -> [Users -> Roles \cup {None}]]
      /\ role'[c][u] = "admin" /\ "admin" # None
      /\ \A d \in Companies, v \in Users : d # c \/ v # u => role'[d][v] = role[d][v]
  <2>1. "admin" \in Roles /\ "admin" # None
    BY NoneAssumption DEF Roles
  <2> QED BY <1>3, <1>5, <2>1 DEF IInv, TypeOK
<1>10. \A v \in Users, d \in Companies : Member(v, d) => Member(v, d)'
  BY <1>9 DEF Member
<1>11. ASSUME ~tx[r].new PROVE UsersKept
  <2>1. UNCHANGED <<email, account>>
    BY <1>11 DEF CommitSignup
  <2>2. Exists(u)
    BY <1>2, <1>11 DEF IInv, OldUsers
  <2> HIDE DEF u, c, e, g
  <2>3. TypeOK'
    BY <1>2, <1>3, <1>7, <1>9, <2>1 DEF IInv, TypeOK, Step, Exists
  <2>4. NewRows'
    BY <1>7, <1>8, <2>1, NewRowsKept DEF IInv
  <2>5. OldUsers'
    BY <1>7, <1>8, <2>1, OldUsersKept DEF IInv, Exists
  <2>6. NotYet'
    BY <1>2, <1>7, <1>8, <2>1, NotYetKept DEF IInv, Unknown
  <2>7. Supported'
    BY <1>2, <1>7, <1>8, <1>10, <2>1, SupportedKept DEF IInv
  <2>8. \A v \in Users : account'[v] # None => Exists(v)'
    BY <2>1 DEF IInv, Founded, Exists
  <2>9. UsersCanSignIn'
    BY <1>3, <1>9, <2>1, <2>2 DEF IInv, UsersCanSignIn, Exists, Member
  <2>10. OneUserPerAccount'
    BY <1>2, <2>1 DEF IInv, OneUserPerAccount, Exists
  <2> QED BY <2>3, <2>4, <2>5, <2>6, <2>7, <2>8, <2>9, <2>10
<1>12. ASSUME tx[r].new PROVE UsersKept
  <2>1. email' = [email EXCEPT ![u] = e] /\ account' = [account EXCEPT ![u] = g]
    BY <1>12 DEF CommitSignup
  <2>2. /\ ~Exists(u)
        /\ \A v \in Users : email[v] # e
        /\ \A q \in Requests : tx[q].new /\ q # r => tx[q].user # u /\ tx[q].email # e
    BY <1>12 DEF IInv, NewRows
  <2>3. \A v \in Users : account[v] = g => g \in overlaps
    BY <1>12 DEF IInv, NotYet, Unknown
  <2>4. \A q \in Requests : q # r /\ Active(q) /\ tx[q].account = g => g \in overlaps
    <3> SUFFICES ASSUME NEW q \in Requests, q # r, Active(q), tx[q].account = g
                 PROVE  g \in overlaps
      OBVIOUS
    <3>1. g \in SubjectsOf(q) \cap SubjectsOf(r)
      BY DEF SubjectsOf, Subjects
    <3> QED BY <1>2, <3>1 DEF IInv, Noticed
  <2> HIDE DEF u, c, e, g
  <2>5. /\ email' \in [Users -> Emails \cup {None}]
        /\ account' \in [Users -> Accounts \cup {None}]
        /\ email'[u] = e /\ account'[u] = g
        /\ \A v \in Users : v # u => email'[v] = email[v] /\ account'[v] = account[v]
    BY <1>3, <2>1 DEF IInv, TypeOK
  <2>6. \A v \in Users : Exists(v)' <=> Exists(v) \/ v = u
    BY <1>3, <2>5, NoneAssumption DEF Exists
  <2>7. TypeOK'
    <3>1. \A v, w \in Users : Exists(v)' /\ email'[v] = email'[w] => v = w
      BY <2>2, <2>5, <2>6 DEF IInv, TypeOK
    <3> QED BY <1>2, <1>3, <1>7, <1>9, <2>5, <3>1 DEF IInv, TypeOK, Step
  <2>8. NewRows'
    <3> SUFFICES ASSUME NEW q \in Requests, tx'[q].new
                 PROVE  /\ ~Exists(tx[q].user)'
                        /\ \A v \in Users : email'[v] # tx'[q].email
                        /\ \A p \in Requests : tx'[p].new /\ p # q =>
                              tx'[p].user # tx'[q].user /\ tx'[p].email # tx'[q].email
      BY DEF NewRows, Exists
    <3>1. \A p \in Requests : tx'[p].new => p # r /\ tx'[p] = tx[p]
      BY <1>7, <1>8 DEF Step
    <3>2. tx[q].user \in Users /\ tx[q].user # u /\ tx[q].email # e
      BY <1>1, <2>2, <3>1 DEF IInv, Staged, StagedAt, Request
    <3> QED BY <2>5, <2>6, <3>1, <3>2 DEF IInv, NewRows, Exists
  <2>9. OldUsers'
    BY <1>7, <1>8, <2>6, OldUsersKept DEF IInv, Exists
  <2>10. NotYet'
    <3> SUFFICES ASSUME NEW q \in Requests, Unknown(q)',
                        NEW v \in Users, account'[v] = tx'[q].account
                 PROVE  tx'[q].account \in overlaps
      BY <1>2 DEF NotYet
    <3>1. q # r /\ tx'[q] = tx[q] /\ Unknown(q)
      BY <1>7, <1>8 DEF Step, Unknown
    <3>2. Active(q)
      BY <3>1 DEF Unknown, IInv, Staged, StagedAt, Active
    <3>3. CASE v = u
      BY <2>4, <2>5, <3>1, <3>2, <3>3
    <3>4. CASE v # u
      BY <2>5, <3>1, <3>4 DEF IInv, NotYet
    <3> QED BY <3>3, <3>4
  <2>11. Supported'
    <3> SUFFICES ASSUME NEW v \in Users, Exists(v)', Homeless(v)'
                 PROVE  \E d \in Companies : Supports(d, email[v])'
      BY DEF Supported
    <3>1. v # u
      BY <1>3, <1>9 DEF Homeless, Member
    <3>2. Exists(v) /\ Homeless(v) /\ email'[v] = email[v] /\ email[v] \in Emails
      BY <1>10, <2>5, <2>6, <3>1 DEF IInv, TypeOK, Homeless, Exists
    <3>3. PICK d \in Companies : Supports(d, email[v])
      BY <3>2 DEF IInv, Supported
    <3>4. PICK a \in Emails : a = email[v]
      BY <3>2
    <3>5. Supports(d, a)'
      BY <1>2, <1>7, <1>8, <3>3, <3>4, SupportsKept
    <3> QED BY <3>2, <3>4, <3>5 DEF Supports
  <2>12. \A v \in Users : account'[v] # None => Exists(v)'
    BY <2>5, <2>6 DEF IInv, Founded
  <2>13. UsersCanSignIn'
    BY <1>3, <1>9, <2>5, <2>6, NoneAssumption DEF IInv, UsersCanSignIn, Member
  <2>14. OneUserPerAccount'
    BY <1>2, <2>3, <2>5, <2>6 DEF IInv, OneUserPerAccount
  <2> QED BY <2>7, <2>8, <2>9, <2>10, <2>11, <2>12, <2>13, <2>14
<1>13. UsersKept
  BY <1>11, <1>12
<1>14. NewNames'
  <2>1. \A p \in Requests : tx'[p].saved => p # r /\ tx'[p] = tx[p]
    BY <1>7, <1>8 DEF Step
  <2> QED BY <1>2, <2>1 DEF IInv, NewNames
<1> HIDE DEF u, c, e, g
<1>15. Founded'
  BY <1>2, <1>9, <1>13 DEF IInv, Founded
<1>16. CompanyHasAdmin'
  BY <1>2, <1>3, <1>4, <1>9 DEF IInv, CompanyHasAdmin, TypeOK
<1>17. Staged'
  BY <1>7, StagedKept DEF IInv
<1>18. Noticed'
  BY <1>2, <1>7, NoticedKept DEF IInv
<1>19. InviteKept' /\ Invited'
  BY <1>2, <1>7, InviteKeptKept, InvitedKept DEF IInv
<1>20. Joined'
  BY <1>7, <1>8, <1>10, JoinedKept DEF IInv
<1> QED BY <1>13, <1>14, <1>15, <1>16, <1>17, <1>18, <1>19, <1>20 DEF IInv

LEMMA InviteKeeps ==
    ASSUME NEW c \in Companies, NEW e \in Emails, IInv, Invite(c, e)
    PROVE  IInv'
<1>1. /\ invites' = invites \cup {<<c, e>>}
      /\ UNCHANGED <<email, account, companies, role, tx, overlaps>>
  BY DEF Invite
<1>2. c \in companies
  BY NoneAssumption DEF Invite, IInv, Founded, Roles
<1>3. TypeOK'
  BY <1>1 DEF IInv, TypeOK, Exists
<1>4. Staged' /\ NewRows' /\ OldUsers' /\ NewNames'
  BY <1>1 DEF IInv, Staged, StagedAt, Active, NewRows, OldUsers, NewNames, Exists
<1>5. Noticed' /\ NotYet'
  BY <1>1 DEF IInv, Noticed, NotYet, Unknown, Active, SubjectsOf
<1>6. InviteKept'
  BY <1>1 DEF IInv, InviteKept, Active, InviteOf
<1>7. Invited'
  BY <1>1, <1>2 DEF IInv, Invited, Active
<1>8. Joined'
  BY <1>1 DEF IInv, Joined, Member
<1>9. Supported'
  BY <1>1 DEF IInv, Supported, Supports, Exists, Homeless, Member, InviteOf
<1>10. Founded' /\ UsersCanSignIn' /\ CompanyHasAdmin' /\ OneUserPerAccount'
  BY <1>1, RowsKept DEF IInv
<1> QED BY <1>3, <1>4, <1>5, <1>6, <1>7, <1>8, <1>9, <1>10 DEF IInv

LEMMA ChangeEmailKeeps ==
    ASSUME NEW u \in Users, NEW e \in Emails, IInv, ChangeEmail(u, e)
    PROVE  IInv'
<1>1. /\ \E c \in Companies : Member(u, c)
      /\ \A v \in Users : v # u => email[v] # e
      /\ \A q \in Requests : tx[q].new => tx[q].email # e
      /\ UNCHANGED <<account, companies, role, invites, tx, overlaps>>
  BY DEF ChangeEmail, Taken
<1>2. /\ email' \in [Users -> Emails \cup {None}]
      /\ email'[u] = e
      /\ \A v \in Users : v # u => email'[v] = email[v]
  BY DEF ChangeEmail, IInv, TypeOK
<1>3. Exists(u)
  BY <1>1 DEF IInv, UsersCanSignIn
<1>4. \A v \in Users : Exists(v)' <=> Exists(v)
  BY <1>2, <1>3, NoneAssumption DEF Exists
<1>5. TypeOK'
  <2>1. \A v, w \in Users : Exists(v)' /\ email'[v] = email'[w] => v = w
    BY <1>1, <1>2, <1>4 DEF IInv, TypeOK
  <2> QED BY <1>1, <1>2, <2>1 DEF IInv, TypeOK
<1>6. Staged' /\ NewNames'
  BY <1>1 DEF IInv, Staged, StagedAt, Active, NewNames
<1>7. NewRows'
  <2>1. \A q \in Requests : tx[q].new => tx[q].user \in Users
    BY DEF IInv, TypeOK, Staged, StagedAt, Request
  <2> QED BY <1>1, <1>2, <1>4, <2>1 DEF IInv, NewRows, Exists
<1>8. OldUsers'
  <2>1. \A q \in Requests : tx[q].user # None => tx[q].user \in Users
    BY DEF IInv, TypeOK, Request
  <2> QED BY <1>1, <1>4, <2>1 DEF IInv, OldUsers, Exists
<1>9. Noticed' /\ NotYet'
  BY <1>1 DEF IInv, Noticed, NotYet, Unknown, Active, SubjectsOf
<1>10. InviteKept' /\ Invited' /\ Joined'
  BY <1>1 DEF IInv, InviteKept, Invited, Joined, Active, InviteOf, Member
<1>11. Supported'
  <2> SUFFICES ASSUME NEW v \in Users, Exists(v)', Homeless(v)'
               PROVE  \E d \in Companies : Supports(d, email[v])'
    BY DEF Supported
  <2>1. v # u /\ Exists(v) /\ Homeless(v) /\ email'[v] = email[v]
    BY <1>1, <1>2, <1>4 DEF Homeless, Member
  <2>2. PICK d \in Companies : Supports(d, email[v])
    BY <2>1 DEF IInv, Supported
  <2> QED BY <1>1, <2>1, <2>2 DEF Supports, InviteOf
<1>12. Founded' /\ UsersCanSignIn' /\ CompanyHasAdmin' /\ OneUserPerAccount'
  BY <1>1, <1>4 DEF IInv, Founded, UsersCanSignIn, CompanyHasAdmin, OneUserPerAccount, Member
<1> QED BY <1>5, <1>6, <1>7, <1>8, <1>9, <1>10, <1>11, <1>12 DEF IInv

LEMMA StutterKeeps ==
    ASSUME IInv, UNCHANGED vars
    PROVE  IInv'
<1>1. UNCHANGED <<email, account, companies, role, invites, tx, overlaps>>
  BY DEF vars
<1>2. TypeOK'
  BY <1>1 DEF IInv, TypeOK, Exists
<1>3. Staged' /\ NewRows' /\ OldUsers' /\ NewNames'
  BY <1>1 DEF IInv, Staged, StagedAt, Active, NewRows, OldUsers, NewNames, Exists
<1>4. Noticed' /\ NotYet'
  BY <1>1 DEF IInv, Noticed, NotYet, Unknown, Active, SubjectsOf
<1>5. InviteKept' /\ Invited' /\ Joined'
  BY <1>1 DEF IInv, InviteKept, Invited, Joined, Active, InviteOf, Member
<1>6. Supported'
  BY <1>1 DEF IInv, Supported, Supports, Exists, Homeless, Member, InviteOf
<1>7. Founded' /\ UsersCanSignIn' /\ CompanyHasAdmin' /\ OneUserPerAccount'
  BY <1>1, RowsKept DEF IInv
<1> QED BY <1>2, <1>3, <1>4, <1>5, <1>6, <1>7 DEF IInv

-----------------------------------------------------------------------------
(* The theorems                                                             *)

\* The invariant holds of every behaviour: signups and invites in any number,
\* interleaved and failing anywhere (UserSignup#create, GithubController#invite).
THEOREM AccountsInvariance == Spec => []IInv
<1>1. Init => IInv
  <2> SUFFICES ASSUME Init PROVE IInv
    OBVIOUS
  <2>1. TypeOK
    BY IdleIsRequest DEF Init, TypeOK, Exists
  <2>2. Staged /\ NewRows /\ OldUsers /\ NewNames
    BY DEF Init, Staged, StagedAt, NewRows, OldUsers, NewNames, Active, Idle
  <2>3. Founded /\ Noticed /\ NotYet /\ InviteKept /\ Invited /\ Joined /\ Supported
    BY DEF Init, Founded, Noticed, NotYet, InviteKept, Invited, Joined, Supported, Active, Idle,
           Unknown, Exists
  <2>4. UsersCanSignIn /\ CompanyHasAdmin /\ OneUserPerAccount
    BY DEF Init, UsersCanSignIn, CompanyHasAdmin, OneUserPerAccount, Exists, Member
  <2> QED BY <2>1, <2>2, <2>3, <2>4 DEF IInv
<1>2. IInv /\ [Next]_vars => IInv'
  <2> SUFFICES ASSUME IInv, [Next]_vars PROVE IInv'
    OBVIOUS
  <2>1. ASSUME NEW r \in Requests, NEW kind \in {"signup", "invite"}, NEW g \in Accounts,
               NEW e \in Emails, NEW c \in Companies, Begin(r, kind, g, e, c)
        PROVE  IInv'
    BY <2>1, BeginKeeps
  <2>2. ASSUME NEW r \in Requests, Find(r) \/ UpdateEmail(r) \/ FindByEmail(r)
        PROVE  IInv'
    BY <2>2, FindKeeps, UpdateEmailKeeps, FindByEmailKeeps
  <2>3. ASSUME NEW r \in Requests, SaveIdentity(r) \/ SaveUser(r) \/ Join(r) \/ DestroyInvite(r)
        PROVE  IInv'
    BY <2>3, SaveIdentityKeeps, SaveUserKeeps, JoinKeeps, DestroyInviteKeeps
  <2>4. ASSUME NEW r \in Requests, InsertUser(r) \/ SaveCompany(r) \/ CommitSignup(r)
        PROVE  IInv'
    BY <2>4, InsertUserKeeps, SaveCompanyKeeps, CommitSignupKeeps
  <2>5. ASSUME NEW r \in Requests, Fail(r)
        PROVE  IInv'
    BY <2>5, ResetKeeps DEF Fail
  <2>6. ASSUME NEW c \in Companies, NEW e \in Emails, Invite(c, e)
        PROVE  IInv'
    BY <2>6, InviteKeeps
  <2>7. ASSUME NEW u \in Users, NEW e \in Emails, ChangeEmail(u, e)
        PROVE  IInv'
    BY <2>7, ChangeEmailKeeps
  <2>8. CASE UNCHANGED vars
    BY <2>8, StutterKeeps
  <2> QED BY <2>1, <2>2, <2>3, <2>4, <2>5, <2>6, <2>7, <2>8 DEF Next
<1> QED BY <1>1, <1>2, PTL DEF Spec

\* Every row of users, and every membership, has an identity that leads to it,
\* although the Rollback of the nested transaction is swallowed.
THEOREM SignInAlways == Spec => []UsersCanSignIn
<1>1. IInv => UsersCanSignIn
  BY DEF IInv
<1> QED BY <1>1, AccountsInvariance, PTL

\* A company comes into being with its administrator (UserSignup#create).
THEOREM AdminAlways == Spec => []CompanyHasAdmin
<1>1. IInv => CompanyHasAdmin
  BY DEF IInv
<1> QED BY <1>1, AccountsInvariance, PTL

\* Two users of one GitHub account need two requests about it at the same time
\* (UserSession::Github#find, then the insert).
THEOREM OneUserEach == Spec => []OneUserPerAccount
<1>1. IInv => OneUserPerAccount
  BY DEF IInv
<1> QED BY <1>1, AccountsInvariance, PTL

\* An invite is there for who has not yet joined by it, wherever the request that
\* accepts it stops (GithubController#invite).
THEOREM InvitesRepeatable == Spec => []InviteCanBeRepeated
<1>1. IInv => InviteCanBeRepeated
  BY DEF IInv, Supported, Supports, Homeless, InviteCanBeRepeated
<1> QED BY <1>1, AccountsInvariance, PTL
=============================================================================
