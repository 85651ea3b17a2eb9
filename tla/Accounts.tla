------------------------------- MODULE Accounts -------------------------------
(***************************************************************************)
(* How users and companies come into being: the rows of users,             *)
(* user_identities, companies, user_companies and invites, and the requests*)
(* of people who come back from GitHub:                                    *)
(*                                                                         *)
(*   signup   UserSignup#create, one transaction around everything         *)
(*   invite   GithubController#invite, where each save commits by itself   *)
(*                                                                         *)
(* Both call UserSession::Github#create.  Its own transaction is, in a     *)
(* signup, nested: a Rollback raised in it ends the inner block only, and  *)
(* the signup goes on with a user that was not saved.                      *)
(*                                                                         *)
(* Of a GitHub account a user has one at most (unique index on user,       *)
(* provider and url); nothing makes two users have different accounts.     *)
(* Addresses of users and names of companies are unique: who inserts one   *)
(* waits for the open transaction that has inserted it.                    *)
(***************************************************************************)
EXTENDS Naturals, FiniteSets

CONSTANTS
    Users,      \* ids a row of users may get
    Accounts,   \* GitHub accounts
    Emails,
    Companies,  \* names of companies
    Requests,   \* requests that are served at the same time
    MaxInvites, \* bound: open invites
    None

Roles == {"admin", "developer"}

ASSUME NoneAssumption ==
    None \notin Users \cup Accounts \cup Emails \cup Companies \cup Roles

VARIABLES
    email,      \* of each user that exists
    account,    \* the identity of each user
    companies,  \* the companies that exist
    role,       \* user_companies: of each user in each company
    invites,    \* open invites, each to an address and into a company
    tx,         \* the requests
    overlaps    \* accounts and invites two requests were about at the same time

vars == <<email, account, companies, role, invites, tx, overlaps>>

Idle == [stage |-> "idle", kind |-> None, account |-> None, email |-> None,
         company |-> None, user |-> None, new |-> FALSE, copy |-> None, saved |-> FALSE]

Active(r) == tx[r].stage # "idle"

Exists(u) == email[u] # None
Member(u, c) == role[c][u] # None

\* validates :email, uniqueness: for user u, or for a user without an id.
Taken(e, u) == \E v \in Users \ {u} : email[v] = e

\* Inserted by a signup that has not committed.
Reserved(u, r) == \E q \in Requests \ {r} : tx[q].new /\ tx[q].user = u
Awaited(e, r) == \E q \in Requests \ {r} : tx[q].new /\ tx[q].email = e

Fresh(r) == {u \in Users : ~Exists(u) /\ ~Reserved(u, r)}

-----------------------------------------------------------------------------
\* What a request is about.
Subjects(kind, g, e, c) == IF kind = "invite" THEN {g, <<c, e>>} ELSE {g}
SubjectsOf(q) == Subjects(tx[q].kind, tx[q].account, tx[q].email, tx[q].company)
Shared(subjects, q) == IF Active(q) THEN subjects \cap SubjectsOf(q) ELSE {}

Begin(r, kind, g, e, c) ==
    /\ ~Active(r)
    /\ kind = "invite" => <<c, e>> \in invites
    /\ tx' = [tx EXCEPT ![r] = [Idle EXCEPT !.stage = "begun", !.kind = kind,
                                            !.account = g, !.email = e, !.company = c]]
    /\ overlaps' = overlaps \cup UNION {Shared(Subjects(kind, g, e, c), q) : q \in Requests \ {r}}
    /\ UNCHANGED <<email, account, companies, role, invites>>

\* Variant: users are known by their address only.
FoundByEmail(r) == {u \in Users : email[u] = tx[r].email}

\* UserSession::Github#find
Found(r) == {u \in Users : account[u] = tx[r].account}

\* find_by: any of them.
Find(r) ==
    /\ tx[r].stage = "begun"
    /\ \/ /\ Found(r) = {}
          /\ tx' = [tx EXCEPT ![r].stage = "unknown"]
       \/ /\ tx[r].kind = "signup"
          /\ \E u \in Found(r) : tx' = [tx EXCEPT ![r].stage = "user", ![r].user = u]
       \/ /\ tx[r].kind = "invite"
          /\ \E u \in Found(r) :
                tx' = [tx EXCEPT ![r].stage = "known", ![r].user = u, ![r].copy = email[u]]
    /\ UNCHANGED <<email, account, companies, role, invites, overlaps>>

-----------------------------------------------------------------------------
(* GithubController#invite                                                  *)

\* create for an account that is known: `user.email = email` writes if the row
\* as it was loaded says another one; a user that is not valid gets no further.
UpdateEmail(r) ==
    LET u == tx[r].user IN
    /\ tx[r].stage = "known"
    /\ IF Taken(tx[r].email, u)
       THEN /\ tx' = [tx EXCEPT ![r] = Idle]
            /\ UNCHANGED email
       ELSE /\ tx' = [tx EXCEPT ![r].stage = "user", ![r].copy = None]
            /\ \/ tx[r].copy = tx[r].email /\ UNCHANGED email
               \/ /\ tx[r].copy # tx[r].email
                  /\ ~Awaited(tx[r].email, r)
                  /\ email' = [email EXCEPT ![u] = tx[r].email]
    /\ UNCHANGED <<account, companies, role, invites, overlaps>>

\* User.find_by(email: email)
FindByEmail(r) ==
    /\ tx[r].stage = "unknown"
    /\ tx[r].kind = "invite"
    /\ \/ \E u \in Users : /\ email[u] = tx[r].email
                           /\ tx' = [tx EXCEPT ![r].stage = "loaded", ![r].user = u]
       \/ /\ \A u \in Users : email[u] # tx[r].email
          /\ tx' = [tx EXCEPT ![r].stage = "loaded"]
    /\ UNCHANGED <<email, account, companies, role, invites, overlaps>>

\* The user of that address gets the account, unless they have another one:
\* then the transaction is undone and the user goes on as they were.
SaveIdentity(r) ==
    LET u == tx[r].user IN
    /\ tx[r].stage = "loaded"
    /\ u # None
    /\ ~Taken(tx[r].email, u)
    /\ account' = IF account[u] = None THEN [account EXCEPT ![u] = tx[r].account] ELSE account
    /\ tx' = [tx EXCEPT ![r].stage = "user"]
    /\ UNCHANGED <<email, companies, role, invites, overlaps>>

\* Variant: no transaction around the user and the identity.
SaveUserFirst(r) ==
    /\ tx[r].stage = "loaded"
    /\ tx[r].user = None
    /\ ~Taken(tx[r].email, None)
    /\ ~Awaited(tx[r].email, r)
    /\ \E u \in Fresh(r) :
          /\ email' = [email EXCEPT ![u] = tx[r].email]
          /\ \/ /\ account' = [account EXCEPT ![u] = tx[r].account]
                /\ tx' = [tx EXCEPT ![r].stage = "user", ![r].user = u]
             \/ /\ tx' = [tx EXCEPT ![r] = Idle]
                /\ UNCHANGED account
    /\ UNCHANGED <<companies, role, invites, overlaps>>

\* A new user with their identity, in one transaction.
SaveUser(r) ==
    /\ tx[r].stage = "loaded"
    /\ tx[r].user = None
    /\ ~Taken(tx[r].email, None)
    /\ ~Awaited(tx[r].email, r)
    /\ \E u \in Fresh(r) :
          /\ email' = [email EXCEPT ![u] = tx[r].email]
          /\ account' = [account EXCEPT ![u] = tx[r].account]
          /\ tx' = [tx EXCEPT ![r].stage = "user", ![r].user = u]
    /\ UNCHANGED <<companies, role, invites, overlaps>>

\* user.valid? and user.add_to_company(company, role: invite.role)
Join(r) ==
    LET u == tx[r].user
        c == tx[r].company
    IN
    /\ tx[r].stage = "user"
    /\ tx[r].kind = "invite"
    /\ ~Taken(tx[r].email, u)
    /\ role' = IF Member(u, c) THEN role ELSE [role EXCEPT ![c][u] = "developer"]
    /\ tx' = [tx EXCEPT ![r].stage = "joined"]
    /\ UNCHANGED <<email, account, companies, invites, overlaps>>

\* Variant: the invite is spent first.
DestroyInviteFirst(r) ==
    /\ tx[r].kind = "invite"
    /\ tx[r].stage \in {"user", "joined"}
    /\ invites' = invites \ {<<tx[r].company, tx[r].email>>}
    /\ tx' = [tx EXCEPT ![r] = IF tx[r].stage = "user" THEN @ ELSE Idle]
    /\ UNCHANGED <<email, account, companies, role, overlaps>>

\* invite.destroy
DestroyInvite(r) ==
    /\ tx[r].stage = "joined"
    /\ invites' = invites \ {<<tx[r].company, tx[r].email>>}
    /\ tx' = [tx EXCEPT ![r] = Idle]
    /\ UNCHANGED <<email, account, companies, role, overlaps>>

-----------------------------------------------------------------------------
(* UserSignup#create                                                        *)

\* create for an account that is not known: user and identity are inserted.  If
\* the address is taken, or GitHub tells no name, the Rollback of the nested
\* transaction is swallowed and the signup goes on without.
InsertUser(r) ==
    /\ tx[r].stage = "unknown"
    /\ tx[r].kind = "signup"
    /\ \E named \in BOOLEAN :
          IF named /\ ~Taken(tx[r].email, None)
          THEN /\ ~Awaited(tx[r].email, r)
               /\ \E u \in Fresh(r) :
                     tx' = [tx EXCEPT ![r].stage = "user", ![r].user = u, ![r].new = TRUE]
          ELSE tx' = [tx EXCEPT ![r].stage = "user"]
    /\ UNCHANGED <<email, account, companies, role, invites, overlaps>>

NameAwaited(r) == \E q \in Requests \ {r} : tx[q].saved /\ tx[q].company = tx[r].company

\* Variant: no transaction around the signup.
SaveCompanyAtOnce(r) ==
    /\ tx[r].stage = "user"
    /\ tx[r].kind = "signup"
    /\ tx' = [tx EXCEPT ![r].stage = "company", ![r].saved = tx[r].company \notin companies]
    /\ companies' = companies \cup {tx[r].company}
    /\ UNCHANGED <<email, account, role, invites, overlaps>>

\* Company#save: inserted, or not if the name exists.
SaveCompany(r) ==
    /\ tx[r].stage = "user"
    /\ tx[r].kind = "signup"
    /\ ~NameAwaited(r)
    /\ tx' = [tx EXCEPT ![r].stage = "company", ![r].saved = tx[r].company \notin companies]
    /\ UNCHANGED <<email, account, companies, role, invites, overlaps>>

\* A user that was not saved has no id, so that no membership is valid for them.
Accepted(r) == tx[r].user # None /\ tx[r].saved

\* Company#default_user_role
DefaultUserRole(c) == IF \E u \in Users : Member(u, c) THEN "developer" ELSE "admin"

\* add_to_company and the end of the transaction.
CommitSignup(r) ==
    LET u == tx[r].user
        c == tx[r].company
    IN
    /\ tx[r].stage = "company"
    /\ Accepted(r)
    /\ email' = IF tx[r].new THEN [email EXCEPT ![u] = tx[r].email] ELSE email
    /\ account' = IF tx[r].new THEN [account EXCEPT ![u] = tx[r].account] ELSE account
    /\ companies' = companies \cup {c}
    /\ role' = [role EXCEPT ![c][u] = DefaultUserRole(c)]
    /\ tx' = [tx EXCEPT ![r] = Idle]
    /\ UNCHANGED <<invites, overlaps>>

-----------------------------------------------------------------------------
\* A validation or a constraint fails, or the process dies: what is not
\* committed is undone.
Fail(r) ==
    /\ Active(r)
    /\ tx' = [tx EXCEPT ![r] = Idle]
    /\ UNCHANGED <<email, account, companies, role, invites, overlaps>>

\* Invite.mass_create, by an administrator of the company.
Invite(c, e) ==
    /\ \E u \in Users : role[c][u] = "admin"
    /\ Cardinality(invites) < MaxInvites
    /\ invites' = invites \cup {<<c, e>>}
    /\ UNCHANGED <<email, account, companies, role, tx, overlaps>>

\* User#update_with_company: an administrator changes the address of a member.
ChangeEmail(u, e) ==
    /\ \E c \in Companies : Member(u, c)
    /\ ~Taken(e, u)
    /\ \A q \in Requests : ~(tx[q].new /\ tx[q].email = e)
    /\ email' = [email EXCEPT ![u] = e]
    /\ UNCHANGED <<account, companies, role, invites, tx, overlaps>>

-----------------------------------------------------------------------------
Init ==
    /\ email = [u \in Users |-> None]
    /\ account = [u \in Users |-> None]
    /\ companies = {}
    /\ role = [c \in Companies |-> [u \in Users |-> None]]
    /\ invites = {}
    /\ tx = [r \in Requests |-> Idle]
    /\ overlaps = {}

Next ==
    \/ \E r \in Requests :
          \/ \E kind \in {"signup", "invite"}, g \in Accounts, e \in Emails, c \in Companies :
                Begin(r, kind, g, e, c)
          \/ Find(r)
          \/ UpdateEmail(r) \/ FindByEmail(r) \/ SaveIdentity(r) \/ SaveUser(r)
          \/ Join(r) \/ DestroyInvite(r)
          \/ InsertUser(r) \/ SaveCompany(r) \/ CommitSignup(r)
          \/ Fail(r)
    \/ \E c \in Companies, e \in Emails : Invite(c, e)
    \/ \E u \in Users, e \in Emails : ChangeEmail(u, e)

Spec == Init /\ [][Next]_vars

-----------------------------------------------------------------------------
(* Correctness                                                              *)

Stages == {"idle", "begun", "unknown", "known", "loaded", "user", "company", "joined"}
Request == [stage : Stages, kind : {"signup", "invite", None}, account : Accounts \cup {None},
            email : Emails \cup {None}, company : Companies \cup {None},
            user : Users \cup {None}, new : BOOLEAN, copy : Emails \cup {None},
            saved : BOOLEAN]

\* Beside the types: the indexes on addresses and on the names of companies.
TypeOK ==
    /\ email \in [Users -> Emails \cup {None}]
    /\ account \in [Users -> Accounts \cup {None}]
    /\ companies \subseteq Companies
    /\ role \in [Companies -> [Users -> Roles \cup {None}]]
    /\ invites \subseteq Companies \X Emails
    /\ tx \in [Requests -> Request]
    /\ overlaps \subseteq Accounts \cup (Companies \X Emails)
    /\ \A u, v \in Users : Exists(u) /\ email[u] = email[v] => u = v

\* A user can always sign in: whichever validation fails and whichever Rollback
\* is swallowed, no row of users, and no membership, is committed without the
\* identity that leads to it.
UsersCanSignIn ==
    \A u \in Users : /\ Exists(u) => account[u] # None
                     /\ \A c \in Companies : Member(u, c) => Exists(u)

\* A company never comes into being without an administrator, wherever the signup
\* that creates it fails and whoever claims its name at the same time.  (What
\* administrators do to each other's roles is in CompanyMembers.)
CompanyHasAdmin ==
    \A c \in companies : \E u \in Users : role[c][u] = "admin"

\* One person is one user: a GitHub account leads to two users only if two
\* requests about it overlapped, as nothing in the database forbids it.
OneUserPerAccount ==
    \A u, v \in Users : Exists(u) /\ account[u] = account[v] => u = v \/ account[u] \in overlaps

\* An invite that failed halfway can be accepted again: a user who belongs to no
\* company has an open invite to their address, unless two requests had accepted
\* an invite to it at the same time.
InviteCanBeRepeated ==
    \A u \in Users : Exists(u) => \/ \E c \in Companies : Member(u, c)
                                  \/ \E c \in Companies :
                                        <<c, email[u]>> \in invites \cup overlaps
=============================================================================
