---------------------------- MODULE CompanyMembers ----------------------------
(***************************************************************************)
(* The companies of one user: the rows of user_companies, the company the  *)
(* user works in (`default`), the role, and the invites.  The requests:    *)
(*                                                                         *)
(*   default   User#set_default_company                                    *)
(*   role      User#update_with_company, by an administrator               *)
(*   join      accepting an invite: User#add_to_company, Invite#destroy    *)
(*   delete    User#delete_from_company, by an administrator               *)
(*                                                                         *)
(* UserCompany#default! is two statements in a transaction: "UPDATE ... SET*)
(* default = 0" of the other rows, and "UPDATE ... SET default = 1" of its *)
(* own, which ActiveRecord leaves out if the row it had loaded says 1.  A  *)
(* statement waits for the rows that another transaction has written; two  *)
(* that wait for each other are resolved by PostgreSQL (Abort).  What a    *)
(* transaction has written others see when it commits (READ COMMITTED).    *)
(***************************************************************************)
EXTENDS Naturals, FiniteSets

CONSTANTS
    Companies,
    Requests,   \* requests about this user that are served at the same time
    Kinds,      \* the kinds of request that occur
    None        \* no row, nothing chosen

Roles == {"admin", "developer"}
Row == [default : {0, 1}, role : Roles]

ASSUME KindsAssumption == Kinds \subseteq {"default", "role", "join", "delete"}
ASSUME NoRowAssumption == None \notin Companies /\ None \notin Row /\ None \notin Roles

VARIABLES
    rows,     \* the committed row of each company
    invites,  \* the companies with an open invite for the user
    removed,  \* the companies an administrator removed the user from
    added,    \* the companies whose row was created meanwhile
    tx        \* the requests

vars == <<rows, invites, removed, added, tx>>

NoWrites == [d \in {} |-> None]
Idle == [stage |-> "idle", kind |-> None, company |-> None, role |-> None,
         copy |-> None, writes |-> NoWrites]

\* A request that is over.
Over(stage) == [Idle EXCEPT !.stage = stage]

\* What request r sees: its own writes over the committed rows.
View(r) == [d \in Companies |->
              IF d \in DOMAIN tx[r].writes THEN tx[r].writes[d] ELSE rows[d]]

\* The row is locked by another request, which wrote it and has not committed.
Locked(d, r) == \E q \in Requests \ {r} : d \in DOMAIN tx[q].writes

DefaultsIn(table) == {d \in Companies : table[d] # None /\ table[d].default = 1}

-----------------------------------------------------------------------------
\* The controller has found what the request is about: a member, or an invite.
Begin(r, kind, c, role) ==
    /\ tx[r].stage \in {"idle", "done", "failed"}
    /\ IF kind = "join" THEN c \in invites /\ role = "developer" ELSE rows[c] # None
    /\ kind # "role" => role = "developer"
    /\ tx' = [tx EXCEPT ![r] = [stage |-> "found", kind |-> kind, company |-> c,
                                role |-> role, copy |-> None, writes |-> NoWrites]]
    /\ UNCHANGED <<rows, invites, removed, added>>

\* The row of the user and the company is loaded, or found missing.
Load(r) ==
    /\ tx[r].stage = "found"
    /\ LET copy == rows[tx[r].company]
           over == copy = None /\ tx[r].kind \in {"default", "delete"}
       IN  tx' = [tx EXCEPT ![r] = IF over THEN Over("done")
                                   ELSE [@ EXCEPT !.stage = "loaded", !.copy = copy]]
    /\ UNCHANGED <<rows, invites, removed, added>>

\* Variant: `user_company.role = role` for an invite as well.
WantedRoleOverriding(r) == tx[r].role

\* An invite does not change the role of a member: `role ||=`.
WantedRole(r) == IF tx[r].kind = "join" /\ tx[r].copy # None
                 THEN tx[r].copy.role ELSE tx[r].role

\* add_to_company, the copy of the row after user_company.save.
SavedCopy(r) == [default |-> IF tx[r].copy = None THEN 0 ELSE tx[r].copy.default,
                 role    |-> WantedRole(r)]

\* user_company.save: an invite commits the row at once, an update of the role
\* writes it in the transaction of the request.
Save(r, row) ==
    LET c == tx[r].company IN
    /\ ~Locked(c, r)
    /\ \/ /\ tx[r].kind = "join"
          /\ rows' = [rows EXCEPT ![c] = row]
          /\ tx' = [tx EXCEPT ![r].stage = "saved", ![r].copy = SavedCopy(r)]
       \/ /\ tx[r].kind = "role"
          /\ rows' = rows
          /\ tx' = [tx EXCEPT ![r].stage = "saved", ![r].copy = SavedCopy(r),
                              ![r].writes = [d \in {c} |-> row]]
    /\ UNCHANGED <<invites, removed>>

\* The row is created, unless another request has created it (Abort): for an
\* invite, or for a role if the user was removed since the member was found.
SaveNew(r) ==
    /\ tx[r].stage = "loaded"
    /\ tx[r].copy = None
    /\ rows[tx[r].company] = None
    /\ Save(r, SavedCopy(r))
    /\ added' = added \cup {tx[r].company}

\* The role is another one: UPDATE ... SET role.
SaveRole(r) ==
    /\ tx[r].stage = "loaded"
    /\ tx[r].copy # None
    /\ WantedRole(r) # tx[r].copy.role
    /\ rows[tx[r].company] # None
    /\ Save(r, [rows[tx[r].company] EXCEPT !.role = WantedRole(r)])
    /\ UNCHANGED added

\* There is nothing to write, or the row is gone.
KeepRow(r) ==
    /\ tx[r].stage = "loaded"
    /\ tx[r].kind \in {"join", "role"}
    /\ tx[r].copy # None
    /\ \/ WantedRole(r) = tx[r].copy.role
       \/ rows[tx[r].company] = None /\ ~Locked(tx[r].company, r)
    /\ tx' = [tx EXCEPT ![r].stage = "saved", ![r].copy = SavedCopy(r)]
    /\ UNCHANGED <<rows, invites, removed, added>>

-----------------------------------------------------------------------------
(* UserCompany#default!                                                     *)

ReadyForDefault(r) ==
    \/ tx[r].stage = "saved"
    \/ tx[r].stage = "loaded" /\ tx[r].kind = "default"

Others(r) == {d \in Companies \ {tx[r].company} : View(r)[d] # None}

Cleared(r) == [d \in DOMAIN tx[r].writes \cup Others(r) |->
                 IF d \in Others(r) THEN [View(r)[d] EXCEPT !.default = 0]
                 ELSE tx[r].writes[d]]

\* Variant: default! without its transaction.
ClearOthersCommitting(r) ==
    /\ ReadyForDefault(r)
    /\ \A d \in Others(r) : ~Locked(d, r)
    /\ rows' = [d \in Companies |-> IF d \in Others(r) THEN Cleared(r)[d] ELSE rows[d]]
    /\ tx' = [tx EXCEPT ![r].stage = "cleared"]
    /\ UNCHANGED <<invites, removed, added>>

\* update_all(default: 0)
ClearOthers(r) ==
    /\ ReadyForDefault(r)
    /\ \A d \in Others(r) : ~Locked(d, r)
    /\ tx' = [tx EXCEPT ![r].stage = "cleared", ![r].writes = Cleared(r)]
    /\ UNCHANGED <<rows, invites, removed, added>>

\* update(default: 1): nothing to write if the copy says so, or if the row is
\* gone; and the transaction commits.
Claimed(r) ==
    IF tx[r].copy.default = 1 \/ View(r)[tx[r].company] = None
    THEN View(r)
    ELSE [View(r) EXCEPT ![tx[r].company].default = 1]

Claim(r) ==
    /\ tx[r].stage = "cleared"
    /\ tx[r].copy.default = 1 \/ ~Locked(tx[r].company, r)
    /\ rows' = Claimed(r)
    /\ tx' = [tx EXCEPT ![r] = IF @.kind = "join"
                               THEN [@ EXCEPT !.stage = "joined", !.writes = NoWrites]
                               ELSE Over("done")]
    /\ UNCHANGED <<invites, removed, added>>

-----------------------------------------------------------------------------
\* Variant: the invite is destroyed when it is found.
DestroyInviteFirst(r) ==
    /\ tx[r].kind = "join"
    /\ tx[r].stage \in {"found", "joined"}
    /\ invites' = invites \ {tx[r].company}
    /\ tx' = [tx EXCEPT ![r].stage = IF @ = "found" THEN "loaded" ELSE "done",
                        ![r].copy = rows[tx[r].company]]
    /\ UNCHANGED <<rows, removed, added>>

\* GithubController#invite, after the user was added.
DestroyInvite(r) ==
    /\ tx[r].stage = "joined"
    /\ invites' = invites \ {tx[r].company}
    /\ tx' = [tx EXCEPT ![r] = Over("done")]
    /\ UNCHANGED <<rows, removed, added>>

\* delete_from_company: user_company.destroy.
Remove(r) ==
    /\ tx[r].stage = "loaded"
    /\ tx[r].kind = "delete"
    /\ ~Locked(tx[r].company, r)
    /\ rows' = [rows EXCEPT ![tx[r].company] = None]
    /\ removed' = removed \cup {tx[r].company}
    /\ tx' = [tx EXCEPT ![r] = Over("done")]
    /\ UNCHANGED <<invites, added>>

\* A validation fails, the process dies, a row that was to be created exists,
\* or the transaction is the victim of a deadlock: what it wrote is undone.
Abort(r) ==
    /\ tx[r].stage \in {"found", "loaded", "saved", "cleared", "joined"}
    /\ tx' = [tx EXCEPT ![r] = Over("failed")]
    /\ UNCHANGED <<rows, invites, removed, added>>

-----------------------------------------------------------------------------
Init ==
    /\ rows \in [Companies -> Row \cup {None}]
    /\ \A c, d \in DefaultsIn(rows) : c = d
    /\ invites = Companies
    /\ removed = {}
    /\ added = {}
    /\ tx = [r \in Requests |-> Idle]

Next == \E r \in Requests :
    \/ \E kind \in Kinds, c \in Companies, role \in Roles : Begin(r, kind, c, role)
    \/ Load(r)
    \/ SaveNew(r) \/ SaveRole(r) \/ KeepRow(r)
    \/ ClearOthers(r) \/ Claim(r)
    \/ DestroyInvite(r)
    \/ Remove(r)
    \/ Abort(r)

Spec == Init /\ [][Next]_vars

-----------------------------------------------------------------------------
(* Correctness                                                              *)

Stages == {"idle", "found", "loaded", "saved", "cleared", "joined", "done", "failed"}
Writes == UNION {[D -> Row] : D \in SUBSET Companies}
Transaction == [stage : Stages, kind : Kinds \cup {None}, company : Companies \cup {None},
                role : Roles \cup {None}, copy : Row \cup {None}, writes : Writes]

\* Beside the types: no two transactions have written the same row.
TypeOK ==
    /\ rows \in [Companies -> Row \cup {None}]
    /\ invites \subseteq Companies
    /\ removed \subseteq Companies
    /\ added \subseteq Companies
    /\ tx \in [Requests -> Transaction]
    /\ \A r \in Requests : \A d \in DOMAIN tx[r].writes : ~Locked(d, r)

\* A user works in one company: whatever requests about the user are served at
\* the same time, the row locks of default! leave at most one row with
\* default = 1.  Of two such rows one was created meanwhile: update_all(default:
\* 0) does not lock what is not there yet.
AtMostOneDefault ==
    \A c, d \in DefaultsIn(rows) : c = d \/ c \in added \/ d \in added

\* Accepting an invite, or changing the default, does not change the role a user
\* has in a company; what an administrator asked for is what changes it.
RoleChangedByAdminOnly ==
    [][\A c \in Companies :
          rows[c] # None /\ rows'[c] # None /\ rows'[c].role # rows[c].role =>
              \E r \in Requests : /\ tx[r].kind = "role" /\ tx[r].company = c
                                  /\ rows'[c].role = tx[r].role]_vars

\* An invite is spent only on a user who became a member (and may have been
\* removed since), wherever the request that accepts it fails.
InviteSpentOnMember ==
    \A c \in Companies \ invites : rows[c] # None \/ c \in removed

\* spec/models/user_company_spec.rb: default! makes the company the default.
DefaultTakesEffect ==
    [][\A r \in Requests :
          tx[r].stage = "cleared" /\ tx'[r].stage \in {"done", "joined"} =>
              LET row == rows'[tx[r].company] IN row = None \/ row.default = 1]_vars
=============================================================================
