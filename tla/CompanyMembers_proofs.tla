------------------------ MODULE CompanyMembers_proofs ------------------------
(***************************************************************************)
(* What holds of the companies of a user whatever requests overlap, for    *)
(* any companies and requests: roles, invites and the default.             *)
(*                                                                         *)
(* The argument for the default: a request that has cleared the other rows *)
(* holds the lock of each of them until it commits, except of those that   *)
(* were created since.  What it read of them before does not matter.       *)
(***************************************************************************)
EXTENDS CompanyMembers, TLAPS

Active == {"found", "loaded", "saved", "cleared", "joined"}

\* A request that is under way knows what it is about.
Begun == \A r \in Requests : tx[r].stage \in Active =>
            /\ tx[r].kind \in Kinds
            /\ tx[r].company \in Companies
            /\ tx[r].role \in Roles

\* A request that comes to default! has a copy of its row.
Copied == \A r \in Requests :
            \/ tx[r].stage \in {"saved", "cleared"}
            \/ tx[r].stage = "loaded" /\ tx[r].kind = "default"
            => tx[r].copy \in Row

\* A row that was loaded or saved is there, or was removed.
Known == \A r \in Requests :
            \/ tx[r].stage \in {"loaded", "saved", "cleared"} /\ tx[r].kind = "join"
               /\ tx[r].copy # None
            \/ tx[r].stage = "joined"
            => rows[tx[r].company] # None \/ tx[r].company \in removed

\* What was written differs from the committed row in the default only, or in
\* the role an administrator chose.
RoleWritten == \A r \in Requests : \A d \in DOMAIN tx[r].writes : rows[d] # None =>
            \/ tx[r].writes[d].role = rows[d].role
            \/ /\ tx[r].kind = "role"
               /\ d = tx[r].company
               /\ tx[r].writes[d].role = tx[r].role

\* Only requests under way have written anything.
WritesOpen == \A r \in Requests : \A d \in DOMAIN tx[r].writes :
                 tx[r].stage \in {"saved", "cleared"}

IInv == TypeOK /\ Begun /\ Copied /\ Known /\ RoleWritten /\ WritesOpen /\ InviteSpentOnMember

-----------------------------------------------------------------------------
(* Rows and writes.                                                         *)

\* What a set of writes is.
LEMMA WritesAre ==
    /\ NoWrites \in Writes /\ DOMAIN NoWrites = {}
    /\ \A w \in Writes : DOMAIN w \subseteq Companies
                         /\ \A d \in DOMAIN w : w[d] \in Row
    /\ \A c \in Companies, row \in Row : [d \in {c} |-> row] \in Writes
    /\ \A D \in SUBSET Companies : [D -> Row] \subseteq Writes
<1>1. \A D \in SUBSET Companies : [D -> Row] \subseteq Writes  BY DEF Writes
<1>2. NoWrites \in [{} -> Row] /\ DOMAIN NoWrites = {}  BY DEF NoWrites
<1>3. NoWrites \in Writes  BY <1>1, <1>2
<1>4. ASSUME NEW w \in Writes
      PROVE  DOMAIN w \subseteq Companies /\ \A d \in DOMAIN w : w[d] \in Row
  <2>1. PICK D \in SUBSET Companies : w \in [D -> Row]  BY DEF Writes
  <2>2. QED  BY <2>1
<1>5. ASSUME NEW c \in Companies, NEW row \in Row
      PROVE  [d \in {c} |-> row] \in Writes
  <2>1. [d \in {c} |-> row] \in [{c} -> Row]  OBVIOUS
  <2>2. {c} \in SUBSET Companies  OBVIOUS
  <2>3. QED  BY <1>1, <2>1, <2>2
<1>6. QED  BY <1>1, <1>2, <1>3, <1>4, <1>5

\* None is not a row.
LEMMA NoneIsNoRow ==
    None \notin Row /\ None \notin Companies /\ None \notin Roles
BY NoRowAssumption

\* A request sees a row wherever there is one.
LEMMA ViewIs ==
    ASSUME TypeOK, NEW r \in Requests
    PROVE  /\ View(r) \in [Companies -> Row \cup {None}]
           /\ \A d \in Companies : rows[d] # None => View(r)[d] # None
           /\ \A d \in Companies : d \in DOMAIN tx[r].writes => View(r)[d] = tx[r].writes[d]
           /\ \A d \in Companies : d \notin DOMAIN tx[r].writes => View(r)[d] = rows[d]
<1>1. tx[r].writes \in Writes  BY DEF TypeOK, Transaction
<1>2. \A d \in DOMAIN tx[r].writes : tx[r].writes[d] \in Row  BY <1>1, WritesAre
<1>3. rows \in [Companies -> Row \cup {None}]  BY DEF TypeOK
<1>4. QED  BY <1>2, <1>3, NoneIsNoRow DEF View

\* The rows that default! writes first.
LEMMA ClearedIs ==
    ASSUME TypeOK, NEW r \in Requests
    PROVE  /\ Cleared(r) \in Writes
           /\ DOMAIN Cleared(r) = DOMAIN tx[r].writes \cup Others(r)
           /\ \A d \in Others(r) : /\ Cleared(r)[d].default = 0
                                   /\ Cleared(r)[d].role = View(r)[d].role
           /\ \A d \in DOMAIN tx[r].writes \ Others(r) : Cleared(r)[d] = tx[r].writes[d]
<1> DEFINE D == DOMAIN tx[r].writes \cup Others(r)
<1>1. tx[r].writes \in Writes  BY DEF TypeOK, Transaction
<1>2. D \in SUBSET Companies  BY <1>1, WritesAre DEF Others
<1>3. \A d \in DOMAIN tx[r].writes : tx[r].writes[d] \in Row  BY <1>1, WritesAre
<1>4. ASSUME NEW d \in Others(r)
      PROVE  /\ [View(r)[d] EXCEPT !.default = 0] \in Row
             /\ [View(r)[d] EXCEPT !.default = 0].default = 0
             /\ [View(r)[d] EXCEPT !.default = 0].role = View(r)[d].role
  <2>1. View(r)[d] \in Row  BY ViewIs DEF Others
  <2>2. QED  BY <2>1 DEF Row
<1>5. Cleared(r) \in [D -> Row]  BY <1>3, <1>4 DEF Cleared
<1>6. Cleared(r) \in Writes  BY <1>2, <1>5, WritesAre
<1>7. QED  BY <1>4, <1>6 DEF Cleared

\* The rows after default!: those the request sees, but for its own default.
LEMMA ClaimedIs ==
    ASSUME TypeOK, Copied, Begun, NEW r \in Requests, tx[r].stage = "cleared"
    PROVE  /\ Claimed(r) \in [Companies -> Row \cup {None}]
           /\ \A d \in Companies : Claimed(r)[d] = None <=> View(r)[d] = None
           /\ \A d \in Companies : Claimed(r)[d] # None =>
                 Claimed(r)[d].role = View(r)[d].role
           /\ \A d \in Companies \ {tx[r].company} : Claimed(r)[d] = View(r)[d]
<1>1. tx[r].company \in Companies  BY DEF Begun, Active
<1>2. View(r) \in [Companies -> Row \cup {None}]  BY ViewIs
<1>3. CASE tx[r].copy.default = 1 \/ View(r)[tx[r].company] = None
  BY <1>2, <1>3 DEF Claimed
<1>4. CASE ~ (tx[r].copy.default = 1 \/ View(r)[tx[r].company] = None)
  <2> DEFINE c == tx[r].company
             row == [View(r)[c] EXCEPT !.default = 1]
  <2>1. View(r)[c] \in Row  BY <1>1, <1>2, <1>4
  <2>2. row \in Row /\ row.role = View(r)[c].role  BY <2>1 DEF Row
  <2>3. Claimed(r) = [View(r) EXCEPT ![c] = row]  BY <1>4 DEF Claimed
  <2> HIDE DEF row
  <2>4. QED  BY <1>1, <1>2, <2>1, <2>2, <2>3, NoneIsNoRow
<1>5. QED  BY <1>3, <1>4

\* The copy after user_company.save is a row.
LEMMA SavedCopyIs ==
    ASSUME TypeOK, Begun, NEW r \in Requests, tx[r].stage = "loaded"
    PROVE  SavedCopy(r) \in Row /\ WantedRole(r) \in Roles
<1>1. tx[r].role \in Roles /\ tx[r].copy \in Row \cup {None}
  BY DEF Begun, Active, TypeOK, Transaction
<1>2. WantedRole(r) \in Roles  BY <1>1 DEF WantedRole, Row
<1>3. QED  BY <1>1, <1>2 DEF SavedCopy, Row

-----------------------------------------------------------------------------
(* Types.                                                                   *)

\* One request changes, and writes only rows that no other has written.
LEMMA TransactionsTyped ==
    ASSUME TypeOK, NEW r \in Requests, NEW new \in Transaction,
           tx' = [tx EXCEPT ![r] = new],
           \A d \in DOMAIN new.writes : ~Locked(d, r)
    PROVE  /\ tx' \in [Requests -> Transaction]
           /\ \A q \in Requests : \A d \in DOMAIN tx'[q].writes : ~Locked(d, q)'
<1>1. tx' \in [Requests -> Transaction]  BY DEF TypeOK
<1>2. tx'[r] = new /\ \A q \in Requests \ {r} : tx'[q] = tx[q]  BY DEF TypeOK
<1>3. ASSUME NEW q \in Requests, NEW d \in DOMAIN tx'[q].writes
      PROVE  ~Locked(d, q)'
  <2>1. SUFFICES ASSUME NEW p \in Requests \ {q}, d \in DOMAIN tx'[p].writes
                 PROVE  FALSE
    BY DEF Locked
  <2>2. CASE q = r
    BY <1>2, <1>3, <2>1, <2>2 DEF Locked
  <2>3. CASE p = r
    BY <1>2, <1>3, <2>1, <2>3 DEF Locked
  <2>4. CASE q # r /\ p # r
    BY <1>2, <1>3, <2>1, <2>4 DEF TypeOK, Locked
  <2>5. QED  BY <2>2, <2>3, <2>4
<1>4. QED  BY <1>1, <1>3

\* A request that is over is a transaction that has written nothing.
LEMMA OverIs ==
    ASSUME NEW stage \in Stages
    PROVE  Over(stage) \in Transaction /\ Over(stage).writes = NoWrites
           /\ Over(stage).stage = stage /\ Over(stage).copy = None
<1>1. Idle \in Transaction /\ Idle.writes = NoWrites /\ Idle.copy = None
  BY WritesAre DEF Idle, Transaction, Stages
<1>2. QED  BY <1>1 DEF Over, Transaction

Step(r) ==
    \/ \E kind \in Kinds, c \in Companies, role \in Roles : Begin(r, kind, c, role)
    \/ Load(r)
    \/ SaveNew(r) \/ SaveRole(r) \/ KeepRow(r)
    \/ ClearOthers(r) \/ Claim(r)
    \/ DestroyInvite(r)
    \/ Remove(r)
    \/ Abort(r)

\* Only the creation of a row adds a company.
LEMMA AddedStep ==
    ASSUME TypeOK, Begun, NEW r \in Requests, Step(r)
    PROVE  /\ added \subseteq added' /\ added' \subseteq Companies
           /\ SaveNew(r) => added' = added \cup {tx[r].company}
<1>1. CASE SaveNew(r)
  <2>1. tx[r].company \in Companies  BY <1>1 DEF SaveNew, Begun, Active
  <2>2. QED  BY <1>1, <2>1 DEF SaveNew, TypeOK
<1>2. CASE ~SaveNew(r)
  <2>1. added' = added
    BY <1>2 DEF Step, Begin, Load, SaveRole, KeepRow, ClearOthers, Claim, DestroyInvite,
                Remove, Abort
  <2>2. QED  BY <1>2, <2>1 DEF TypeOK
<1>3. QED  BY <1>1, <1>2

\* Every action makes its request another one of the type, which holds no row
\* that another holds, and leaves the table well formed.
LEMMA NextTyped ==
    ASSUME TypeOK, Begun, Copied, Next
    PROVE  TypeOK'
<1>1. PICK r \in Requests :
        \/ \E kind \in Kinds, c \in Companies, role \in Roles : Begin(r, kind, c, role)
        \/ Load(r)
        \/ SaveNew(r) \/ SaveRole(r) \/ KeepRow(r)
        \/ ClearOthers(r) \/ Claim(r)
        \/ DestroyInvite(r)
        \/ Remove(r)
        \/ Abort(r)
  BY DEF Next
<1>2. tx[r] \in Transaction /\ tx \in [Requests -> Transaction]  BY DEF TypeOK
<1>3. \A d \in DOMAIN tx[r].writes : ~Locked(d, r)  BY DEF TypeOK
<1>4. \A d \in DOMAIN NoWrites : ~Locked(d, r)  BY WritesAre
<1>5. \A stage \in Stages : Over(stage) \in Transaction /\ Over(stage).writes = NoWrites
  BY OverIs
<1>6. SUFFICES
        /\ rows' \in [Companies -> Row \cup {None}]
        /\ invites' \subseteq Companies
        /\ removed' \subseteq Companies
        /\ \E new \in Transaction : /\ tx' = [tx EXCEPT ![r] = new]
                                    /\ \A d \in DOMAIN new.writes : ~Locked(d, r)
  <2>1. added' \subseteq Companies  BY <1>1, AddedStep DEF Step
  <2>2. QED  BY <1>2, <2>1, TransactionsTyped DEF TypeOK
<1>7. ASSUME NEW kind \in Kinds, NEW c \in Companies, NEW role \in Roles,
             Begin(r, kind, c, role)
      PROVE  rows' \in [Companies -> Row \cup {None}] /\ invites' \subseteq Companies
             /\ removed' \subseteq Companies
             /\ \E new \in Transaction : /\ tx' = [tx EXCEPT ![r] = new]
                                         /\ \A d \in DOMAIN new.writes : ~Locked(d, r)
  <2> DEFINE new == [stage |-> "found", kind |-> kind, company |-> c,
                     role |-> role, copy |-> None, writes |-> NoWrites]
  <2>1. new \in Transaction  BY WritesAre DEF Transaction, Stages
  <2>2. tx' = [tx EXCEPT ![r] = new]  BY <1>7 DEF Begin
  <2>3. \A d \in DOMAIN new.writes : ~Locked(d, r)  BY <1>4
  <2>4. UNCHANGED <<rows, invites, removed>>  BY <1>7 DEF Begin
  <2>5. QED  BY <2>1, <2>2, <2>3, <2>4 DEF TypeOK
<1>8. CASE Load(r)
  <2> DEFINE loaded == [tx[r] EXCEPT !.stage = "loaded", !.copy = rows[tx[r].company]]
  <2>1. tx[r].company \in Companies  BY <1>8 DEF Load, Begun, Active
  <2>2. loaded \in Transaction /\ loaded.writes = tx[r].writes
    BY <1>2, <2>1 DEF Transaction, Stages, TypeOK
  <2>3. tx' = [tx EXCEPT ![r] = loaded] \/ tx' = [tx EXCEPT ![r] = Over("done")]
    BY <1>8, <1>2 DEF Load
  <2>4. UNCHANGED <<rows, invites, removed>>  BY <1>8 DEF Load
  <2>5. "done" \in Stages  BY DEF Stages
  <2>6. QED  BY <1>3, <1>4, <1>5, <2>2, <2>3, <2>4, <2>5 DEF TypeOK
<1>9. ASSUME NEW row \in Row, tx[r].stage = "loaded", Save(r, row)
      PROVE  rows' \in [Companies -> Row \cup {None}] /\ invites' \subseteq Companies
             /\ removed' \subseteq Companies
             /\ \E new \in Transaction : /\ tx' = [tx EXCEPT ![r] = new]
                                         /\ \A d \in DOMAIN new.writes : ~Locked(d, r)
  <2> DEFINE c == tx[r].company
             saved == [tx[r] EXCEPT !.stage = "saved", !.copy = SavedCopy(r)]
             writing == [tx[r] EXCEPT !.stage = "saved", !.copy = SavedCopy(r),
                                      !.writes = [d \in {c} |-> row]]
  <2>1. c \in Companies  BY <1>9 DEF Begun, Active
  <2>2. saved \in Transaction /\ saved.writes = tx[r].writes
    BY <1>2, <1>9, SavedCopyIs DEF Transaction, Stages
  <2>3. [d \in {c} |-> row] \in Writes  BY <2>1, WritesAre
  <2>4. writing \in Transaction /\ writing.writes = [d \in {c} |-> row]
    BY <1>2, <1>9, <2>3, SavedCopyIs DEF Transaction, Stages
  <2>5. \A d \in DOMAIN writing.writes : ~Locked(d, r)  BY <1>9, <2>4 DEF Save
  <2>6. \/ tx' = [tx EXCEPT ![r] = saved] /\ rows' = [rows EXCEPT ![c] = row]
        \/ tx' = [tx EXCEPT ![r] = writing] /\ rows' = rows
    BY <1>2, <1>9 DEF Save
  <2>7. rows' \in [Companies -> Row \cup {None}]  BY <2>1, <2>6 DEF TypeOK
  <2>8. UNCHANGED <<invites, removed>>  BY <1>9 DEF Save
  <2> HIDE DEF saved, writing
  <2>9. QED  BY <1>3, <2>2, <2>4, <2>5, <2>6, <2>7, <2>8 DEF TypeOK
<1>10. CASE SaveNew(r)
  BY <1>9, <1>10, SavedCopyIs DEF SaveNew
<1>11. CASE SaveRole(r)
  <2> DEFINE row == [rows[tx[r].company] EXCEPT !.role = WantedRole(r)]
  <2>1. tx[r].company \in Companies /\ tx[r].stage = "loaded"
    BY <1>11 DEF SaveRole, Begun, Active
  <2>2. rows[tx[r].company] \in Row  BY <1>11, <2>1 DEF SaveRole, TypeOK
  <2>3. row \in Row  BY <2>1, <2>2, SavedCopyIs DEF Row
  <2>4. Save(r, row)  BY <1>11 DEF SaveRole
  <2>5. QED  BY <1>9, <2>1, <2>3, <2>4
<1>12. CASE KeepRow(r)
  <2> DEFINE saved == [tx[r] EXCEPT !.stage = "saved", !.copy = SavedCopy(r)]
  <2>1. saved \in Transaction /\ saved.writes = tx[r].writes
    BY <1>2, <1>12, SavedCopyIs DEF KeepRow, Transaction, Stages
  <2>2. tx' = [tx EXCEPT ![r] = saved]  BY <1>2, <1>12 DEF KeepRow
  <2>3. UNCHANGED <<rows, invites, removed>>  BY <1>12 DEF KeepRow
  <2>4. QED  BY <1>3, <2>1, <2>2, <2>3 DEF TypeOK
<1>13. CASE ClearOthers(r)
  <2> DEFINE cleared == [tx[r] EXCEPT !.stage = "cleared", !.writes = Cleared(r)]
  <2>1. cleared \in Transaction /\ cleared.writes = Cleared(r)
    BY <1>2, ClearedIs DEF Transaction, Stages
  <2>2. tx' = [tx EXCEPT ![r] = cleared]  BY <1>2, <1>13 DEF ClearOthers
  <2>3. \A d \in DOMAIN Cleared(r) : ~Locked(d, r)  BY <1>3, <1>13, ClearedIs DEF ClearOthers
  <2>4. UNCHANGED <<rows, invites, removed>>  BY <1>13 DEF ClearOthers
  <2>5. QED  BY <2>1, <2>2, <2>3, <2>4 DEF TypeOK
<1>14. CASE Claim(r)
  <2> DEFINE joined == [tx[r] EXCEPT !.stage = "joined", !.writes = NoWrites]
  <2>1. joined \in Transaction /\ joined.writes = NoWrites
    BY <1>2, WritesAre DEF Transaction, Stages
  <2>2. tx' = [tx EXCEPT ![r] = joined] \/ tx' = [tx EXCEPT ![r] = Over("done")]
    BY <1>2, <1>14 DEF Claim
  <2>3. rows' \in [Companies -> Row \cup {None}]  BY <1>14, ClaimedIs DEF Claim
  <2>4. UNCHANGED <<invites, removed>>  BY <1>14 DEF Claim
  <2>5. "done" \in Stages  BY DEF Stages
  <2>6. QED  BY <1>4, <1>5, <2>1, <2>2, <2>3, <2>4, <2>5 DEF TypeOK
<1>15. CASE DestroyInvite(r)
  <2>1. "done" \in Stages  BY DEF Stages
  <2>2. QED  BY <1>4, <1>5, <1>15, <2>1 DEF DestroyInvite, TypeOK
<1>16. CASE Remove(r)
  <2>1. tx[r].company \in Companies  BY <1>16 DEF Remove, Begun, Active
  <2>2. "done" \in Stages  BY DEF Stages
  <2>3. rows' \in [Companies -> Row \cup {None}] /\ removed' \subseteq Companies
    BY <1>16, <2>1 DEF Remove, TypeOK
  <2>4. QED  BY <1>4, <1>5, <1>16, <2>2, <2>3 DEF Remove, TypeOK
<1>17. CASE Abort(r)
  <2>1. "failed" \in Stages  BY DEF Stages
  <2>2. QED  BY <1>4, <1>5, <1>17, <2>1 DEF Abort, TypeOK
<1>18. QED
  BY <1>1, <1>7, <1>8, <1>10, <1>11, <1>12, <1>13, <1>14, <1>15, <1>16, <1>17

-----------------------------------------------------------------------------
(* What each action does to its request, field by field.                    *)

SameRequest(r) == /\ tx'[r].kind = tx[r].kind
                  /\ tx'[r].company = tx[r].company
                  /\ tx'[r].role = tx[r].role

NothingWritten(r) == DOMAIN tx'[r].writes = {}

Ends(r) == tx'[r].stage \in {"done", "failed"} /\ NothingWritten(r) /\ tx'[r].copy = None

LEMMA BeginFields ==
    ASSUME TypeOK, NEW r \in Requests, NEW kind, NEW c, NEW role, Begin(r, kind, c, role)
    PROVE  /\ tx'[r].stage = "found" /\ tx'[r].kind = kind /\ tx'[r].company = c
           /\ tx'[r].role = role /\ NothingWritten(r)
           /\ \A q \in Requests \ {r} : tx'[q] = tx[q]
           /\ UNCHANGED <<rows, invites, removed>>
BY WritesAre DEF Begin, TypeOK, NothingWritten

LEMMA LoadFields ==
    ASSUME TypeOK, NEW r \in Requests, Load(r)
    PROVE  /\ \/ Ends(r)
              \/ /\ tx'[r].stage = "loaded" /\ tx'[r].copy = rows[tx[r].company]
                 /\ SameRequest(r) /\ tx'[r].writes = tx[r].writes
                 /\ tx[r].kind \in {"default", "delete"} => tx'[r].copy # None
           /\ \A q \in Requests \ {r} : tx'[q] = tx[q]
           /\ UNCHANGED <<rows, invites, removed>>
<1>1. tx[r] \in Transaction  BY DEF TypeOK
<1>2. \A q \in Requests \ {r} : tx'[q] = tx[q]  BY DEF Load, TypeOK
<1>3. UNCHANGED <<rows, invites, removed>>  BY DEF Load
<1>4. "done" \in Stages  BY DEF Stages
<1>5. CASE rows[tx[r].company] = None /\ tx[r].kind \in {"default", "delete"}
  <2>1. tx'[r] = Over("done")  BY <1>5 DEF Load, TypeOK
  <2>2. QED  BY <1>2, <1>3, <1>4, <2>1, OverIs, WritesAre DEF Ends, NothingWritten
<1>6. CASE ~ (rows[tx[r].company] = None /\ tx[r].kind \in {"default", "delete"})
  <2>1. tx'[r] = [tx[r] EXCEPT !.stage = "loaded", !.copy = rows[tx[r].company]]
    BY <1>6 DEF Load, TypeOK
  <2>2. QED  BY <1>1, <1>2, <1>3, <1>6, <2>1 DEF SameRequest, Transaction
<1>7. QED  BY <1>5, <1>6

LEMMA SaveFields ==
    ASSUME TypeOK, NEW r \in Requests, NEW row, Save(r, row)
    PROVE  /\ tx'[r].stage = "saved" /\ tx'[r].copy = SavedCopy(r) /\ SameRequest(r)
           /\ ~Locked(tx[r].company, r)
           /\ \/ /\ tx[r].kind = "join" /\ tx'[r].writes = tx[r].writes
                 /\ rows' = [rows EXCEPT ![tx[r].company] = row]
              \/ /\ tx[r].kind = "role" /\ rows' = rows
                 /\ tx'[r].writes = [d \in {tx[r].company} |-> row]
           /\ \A q \in Requests \ {r} : tx'[q] = tx[q]
           /\ UNCHANGED <<invites, removed>>
<1>1. tx[r] \in Transaction  BY DEF TypeOK
<1>2. \A q \in Requests \ {r} : tx'[q] = tx[q]  BY DEF Save, TypeOK
<1>3. ~Locked(tx[r].company, r) /\ UNCHANGED <<invites, removed>>  BY DEF Save
<1>4. CASE tx[r].kind = "join" /\ rows' = [rows EXCEPT ![tx[r].company] = row]
           /\ tx' = [tx EXCEPT ![r].stage = "saved", ![r].copy = SavedCopy(r)]
  <2>1. tx'[r] = [tx[r] EXCEPT !.stage = "saved", !.copy = SavedCopy(r)]
    BY <1>4 DEF TypeOK
  <2>2. /\ tx'[r].stage = "saved" /\ tx'[r].copy = SavedCopy(r) /\ SameRequest(r)
        /\ tx'[r].writes = tx[r].writes
    BY <1>1, <2>1 DEF SameRequest, Transaction
  <2>3. QED  BY <1>2, <1>3, <1>4, <2>2
<1>5. CASE tx[r].kind = "role" /\ rows' = rows
           /\ tx' = [tx EXCEPT ![r].stage = "saved", ![r].copy = SavedCopy(r),
                               ![r].writes = [d \in {tx[r].company} |-> row]]
  <2>1. tx'[r] = [tx[r] EXCEPT !.stage = "saved", !.copy = SavedCopy(r),
                               !.writes = [d \in {tx[r].company} |-> row]]
    BY <1>5 DEF TypeOK
  <2>2. /\ tx'[r].stage = "saved" /\ tx'[r].copy = SavedCopy(r) /\ SameRequest(r)
        /\ tx'[r].writes = [d \in {tx[r].company} |-> row]
    BY <1>1, <2>1 DEF SameRequest, Transaction
  <2>3. QED  BY <1>2, <1>3, <1>5, <2>2
<1>6. QED  BY <1>4, <1>5 DEF Save

LEMMA KeepFields ==
    ASSUME TypeOK, NEW r \in Requests, KeepRow(r)
    PROVE  /\ tx'[r].stage = "saved" /\ tx'[r].copy = SavedCopy(r) /\ SameRequest(r)
           /\ tx'[r].writes = tx[r].writes
           /\ \A q \in Requests \ {r} : tx'[q] = tx[q]
           /\ UNCHANGED <<rows, invites, removed>>
<1>1. tx[r] \in Transaction  BY DEF TypeOK
<1>2. tx'[r] = [tx[r] EXCEPT !.stage = "saved", !.copy = SavedCopy(r)]
  BY DEF KeepRow, TypeOK
<1>3. QED  BY <1>1, <1>2 DEF KeepRow, SameRequest, Transaction, TypeOK

LEMMA ClearFields ==
    ASSUME TypeOK, NEW r \in Requests, ClearOthers(r)
    PROVE  /\ tx'[r].stage = "cleared" /\ tx'[r].copy = tx[r].copy /\ SameRequest(r)
           /\ tx'[r].writes = Cleared(r)
           /\ \A q \in Requests \ {r} : tx'[q] = tx[q]
           /\ UNCHANGED <<rows, invites, removed>>
<1>1. tx[r] \in Transaction  BY DEF TypeOK
<1>2. tx'[r] = [tx[r] EXCEPT !.stage = "cleared", !.writes = Cleared(r)]
  BY DEF ClearOthers, TypeOK
<1>3. QED  BY <1>1, <1>2 DEF ClearOthers, SameRequest, Transaction, TypeOK

LEMMA ClaimFields ==
    ASSUME TypeOK, NEW r \in Requests, Claim(r)
    PROVE  /\ \/ Ends(r)
              \/ tx'[r].stage = "joined" /\ tx[r].kind = "join" /\ SameRequest(r)
                 /\ NothingWritten(r)
           /\ rows' = Claimed(r)
           /\ \A q \in Requests \ {r} : tx'[q] = tx[q]
           /\ UNCHANGED <<invites, removed>>
<1>1. tx[r] \in Transaction  BY DEF TypeOK
<1>2. "done" \in Stages  BY DEF Stages
<1>3. CASE tx[r].kind = "join"
  <2>1. tx'[r] = [tx[r] EXCEPT !.stage = "joined", !.writes = NoWrites]
    BY <1>3 DEF Claim, TypeOK
  <2>2. QED
    BY <1>1, <1>3, <2>1, WritesAre DEF Claim, SameRequest, NothingWritten, Transaction, TypeOK
<1>4. CASE tx[r].kind # "join"
  <2>1. tx'[r] = Over("done")  BY <1>4 DEF Claim, TypeOK
  <2>2. QED  BY <1>2, <2>1, OverIs, WritesAre DEF Claim, Ends, NothingWritten, TypeOK
<1>5. QED  BY <1>3, <1>4

LEMMA EndFields ==
    ASSUME TypeOK, NEW r \in Requests, DestroyInvite(r) \/ Remove(r) \/ Abort(r)
    PROVE  /\ Ends(r)
           /\ \A q \in Requests \ {r} : tx'[q] = tx[q]
<1>1. tx'[r] = Over("done") \/ tx'[r] = Over("failed")
  BY DEF DestroyInvite, Remove, Abort, TypeOK
<1>2. "done" \in Stages /\ "failed" \in Stages  BY DEF Stages
<1>3. \A q \in Requests \ {r} : tx'[q] = tx[q]  BY DEF DestroyInvite, Remove, Abort, TypeOK
<1>4. QED  BY <1>1, <1>2, <1>3, OverIs, WritesAre DEF Ends, NothingWritten

-----------------------------------------------------------------------------
(* The invariant.                                                           *)

\* A save writes one row, and keeps it a row.
LEMMA SavedRow ==
    ASSUME TypeOK, Begun, NEW r \in Requests, SaveNew(r) \/ SaveRole(r)
    PROVE  /\ tx[r].stage = "loaded" /\ tx[r].company \in Companies
           /\ \E row \in Row : /\ Save(r, row)
                               /\ row.role = WantedRole(r)
                               /\ tx[r].copy = None => rows[tx[r].company] = None
                               /\ tx[r].copy # None => WantedRole(r) # tx[r].copy.role
<1>1. tx[r].stage = "loaded"  BY DEF SaveNew, SaveRole
<1>2. tx[r].company \in Companies  BY <1>1 DEF Begun, Active
<1>3. SavedCopy(r) \in Row /\ SavedCopy(r).role = WantedRole(r)
  BY <1>1, SavedCopyIs DEF SavedCopy
<1>4. CASE SaveNew(r)
  BY <1>1, <1>2, <1>3, <1>4 DEF SaveNew
<1>5. CASE SaveRole(r)
  <2> DEFINE row == [rows[tx[r].company] EXCEPT !.role = WantedRole(r)]
  <2>1. rows[tx[r].company] \in Row  BY <1>2, <1>5 DEF SaveRole, TypeOK
  <2>2. row \in Row /\ row.role = WantedRole(r)  BY <1>1, <2>1, SavedCopyIs DEF Row
  <2>3. QED  BY <1>1, <1>2, <1>5, <2>2 DEF SaveRole
<1>6. QED  BY <1>4, <1>5

\* The other requests stay what they are.
LEMMA OthersStay ==
    ASSUME TypeOK, Begun, NEW r \in Requests, Step(r)
    PROVE  \A q \in Requests \ {r} : tx'[q] = tx[q]
BY BeginFields, LoadFields, SavedRow, SaveFields, KeepFields, ClearFields, ClaimFields,
   EndFields DEF Step

\* A row that somebody else has locked is not touched, and a row disappears only
\* by a removal.
LEMMA RowsStep ==
    ASSUME TypeOK, Begun, Copied, NEW r \in Requests, Step(r)
    PROVE  /\ \A q \in Requests \ {r} : \A d \in DOMAIN tx[q].writes : rows'[d] = rows[d]
           /\ \A d \in Companies : rows[d] # None => rows'[d] # None \/ d \in removed'
           /\ removed \subseteq removed'
<1>0. rows \in [Companies -> Row \cup {None}]  BY DEF TypeOK
<1>1. CASE rows' = rows /\ removed' = removed
  BY <1>1
<1>2. CASE SaveNew(r) \/ SaveRole(r)
  <2>1. PICK row \in Row : Save(r, row)  BY <1>2, SavedRow
  <2>2. ~Locked(tx[r].company, r) /\ UNCHANGED removed
        /\ (rows' = rows \/ rows' = [rows EXCEPT ![tx[r].company] = row])
    BY <2>1, SaveFields
  <2>3. \A q \in Requests \ {r} : tx[r].company \notin DOMAIN tx[q].writes
    BY <2>2 DEF Locked
  <2>4. \A d \in Companies : d # tx[r].company => rows'[d] = rows[d]  BY <1>0, <2>2
  <2>5. \A q \in Requests : DOMAIN tx[q].writes \subseteq Companies
    BY WritesAre DEF TypeOK, Transaction
  <2>6. QED  BY <1>0, <2>2, <2>3, <2>4, <2>5, NoneIsNoRow
<1>3. CASE Claim(r)
  <2>1. rows' = Claimed(r) /\ removed' = removed  BY <1>3, ClaimFields
  <2>2. tx[r].stage = "cleared" /\ (tx[r].copy.default = 1 \/ ~Locked(tx[r].company, r))
    BY <1>3 DEF Claim
  <2>3. \A d \in Companies : rows[d] # None => rows'[d] # None
    BY <2>1, <2>2, ClaimedIs, ViewIs
  <2>4. ASSUME NEW q \in Requests \ {r}, NEW d \in DOMAIN tx[q].writes
        PROVE  rows'[d] = rows[d]
    <3>1. d \in Companies  BY WritesAre DEF TypeOK, Transaction
    <3>2. d \notin DOMAIN tx[r].writes  BY DEF TypeOK, Locked
    <3>3. View(r)[d] = rows[d]  BY <3>1, <3>2, ViewIs
    <3>4. CASE d # tx[r].company
      BY <2>1, <2>2, <3>1, <3>3, <3>4, ClaimedIs
    <3>5. CASE d = tx[r].company
      <4>1. tx[r].copy.default = 1  BY <2>2, <3>5 DEF Locked
      <4>2. QED  BY <2>1, <3>3, <4>1 DEF Claimed
    <3>6. QED  BY <3>4, <3>5
  <2>5. QED  BY <2>1, <2>3, <2>4
<1>4. CASE Remove(r)
  <2>1. rows' = [rows EXCEPT ![tx[r].company] = None] /\ removed' = removed \cup {tx[r].company}
        /\ ~Locked(tx[r].company, r)
    BY <1>4 DEF Remove
  <2>2. \A q \in Requests \ {r} : tx[r].company \notin DOMAIN tx[q].writes
    BY <2>1 DEF Locked
  <2>3. \A d \in Companies : d # tx[r].company => rows'[d] = rows[d]  BY <1>0, <2>1
  <2>4. \A q \in Requests : DOMAIN tx[q].writes \subseteq Companies
    BY WritesAre DEF TypeOK, Transaction
  <2>5. QED  BY <1>0, <2>1, <2>2, <2>3, <2>4
<1>5. (rows' = rows /\ removed' = removed) \/ SaveNew(r) \/ SaveRole(r) \/ Claim(r) \/ Remove(r)
  BY DEF Step, Begin, Load, KeepRow, ClearOthers, DestroyInvite, Abort
<1>6. QED  BY <1>1, <1>2, <1>3, <1>4, <1>5

\* What is known of a request while it runs stays true of it.
LEMMA RequestsStep ==
    ASSUME TypeOK, Begun, Copied, WritesOpen, NEW r \in Requests, Step(r)
    PROVE  Begun' /\ Copied' /\ WritesOpen'
<1> DEFINE B(q) == tx'[q].stage \in Active =>
                     tx'[q].kind \in Kinds /\ tx'[q].company \in Companies /\ tx'[q].role \in Roles
           C(q) == \/ tx'[q].stage \in {"saved", "cleared"}
                   \/ tx'[q].stage = "loaded" /\ tx'[q].kind = "default"
                   => tx'[q].copy \in Row
           W(q) == \A d \in DOMAIN tx'[q].writes : tx'[q].stage \in {"saved", "cleared"}
<1>1. \A q \in Requests \ {r} : B(q) /\ C(q) /\ W(q)
  BY OthersStay DEF Begun, Copied, WritesOpen
<1>2. ASSUME Ends(r)
      PROVE  B(r) /\ C(r) /\ W(r)
  BY <1>2 DEF Ends, NothingWritten, Active
<1>3. B(r) /\ C(r) /\ W(r)
  <2>1. ASSUME NEW kind \in Kinds, NEW c \in Companies, NEW role \in Roles,
               Begin(r, kind, c, role)
        PROVE  B(r) /\ C(r) /\ W(r)
    BY <2>1, BeginFields DEF NothingWritten
  <2>2. CASE Load(r)
    <3>1. CASE Ends(r)
      BY <1>2, <3>1
    <3>2. CASE ~Ends(r)
      <4>1. tx[r].stage = "found" /\ tx[r].company \in Companies
        BY <2>2 DEF Load, Begun, Active
      <4>2. rows[tx[r].company] \in Row \cup {None}  BY <4>1 DEF TypeOK
      <4>3. QED
        BY <2>2, <3>2, <4>1, <4>2, LoadFields DEF SameRequest, Begun, Active, WritesOpen
    <3>3. QED  BY <3>1, <3>2
  <2>3. CASE SaveNew(r) \/ SaveRole(r)
    <3>1. PICK row \in Row : Save(r, row)  BY <2>3, SavedRow
    <3>2. tx[r].stage = "loaded"  BY <2>3, SavedRow
    <3>3. QED  BY <3>1, <3>2, SaveFields, SavedCopyIs DEF SameRequest, Begun, Active
  <2>4. CASE KeepRow(r)
    <3>1. tx[r].stage = "loaded"  BY <2>4 DEF KeepRow
    <3>2. QED  BY <2>4, <3>1, KeepFields, SavedCopyIs DEF SameRequest, Begun, Active
  <2>5. CASE ClearOthers(r)
    <3>1. tx[r].stage = "saved" \/ (tx[r].stage = "loaded" /\ tx[r].kind = "default")
      BY <2>5 DEF ClearOthers, ReadyForDefault
    <3>2. QED  BY <2>5, <3>1, ClearFields DEF SameRequest, Begun, Copied, Active
  <2>6. CASE Claim(r)
    <3>1. tx[r].stage = "cleared"  BY <2>6 DEF Claim
    <3>2. QED
      BY <1>2, <2>6, <3>1, ClaimFields DEF SameRequest, NothingWritten, Begun, Active
  <2>7. CASE DestroyInvite(r) \/ Remove(r) \/ Abort(r)
    BY <1>2, <2>7, EndFields
  <2>8. QED  BY <2>1, <2>2, <2>3, <2>4, <2>5, <2>6, <2>7 DEF Step
<1>4. \A q \in Requests : B(q) /\ C(q) /\ W(q)  BY <1>1, <1>3
<1>5. QED  BY <1>4 DEF Begun, Copied, WritesOpen

\* A row that was saved for an invite is there until somebody removes it.
LEMMA KnownStep ==
    ASSUME TypeOK, Begun, Copied, Known, NEW r \in Requests, Step(r)
    PROVE  Known'
<1> DEFINE There(c) == rows'[c] # None \/ c \in removed'
           K(q) == \/ tx'[q].stage \in {"loaded", "saved", "cleared"} /\ tx'[q].kind = "join"
                      /\ tx'[q].copy # None
                   \/ tx'[q].stage = "joined"
                   => There(tx'[q].company)
           Before(c) == rows[c] # None \/ c \in removed
<1>1. \A c \in Companies : Before(c) => There(c)  BY RowsStep
<1>2. \A q \in Requests : tx[q].stage \in Active => tx[q].company \in Companies
  BY DEF Begun
<1>3. ASSUME NEW q \in Requests \ {r}
      PROVE  K(q)
  <2>1. tx'[q] = tx[q]  BY OthersStay
  <2>2. QED  BY <1>1, <1>2, <2>1 DEF Known, Active
<1>4. K(r)
  <2>1. ASSUME NEW kind \in Kinds, NEW c \in Companies, NEW role \in Roles,
               Begin(r, kind, c, role)
        PROVE  K(r)
    BY <2>1, BeginFields
  <2>2. CASE Ends(r)
    BY <2>2 DEF Ends
  <2>3. CASE Load(r)
    <3>1. CASE Ends(r)
      BY <2>2, <3>1
    <3>2. CASE ~Ends(r)
      BY <2>3, <3>2, LoadFields DEF SameRequest
    <3>3. QED  BY <3>1, <3>2
  <2>4. CASE SaveNew(r) \/ SaveRole(r)
    <3>1. PICK row \in Row : /\ Save(r, row)
                             /\ tx[r].copy = None => rows[tx[r].company] = None
      BY <2>4, SavedRow
    <3>2. tx[r].stage = "loaded" /\ tx[r].company \in Companies  BY <2>4, SavedRow
    <3>3. CASE tx[r].kind = "join" /\ rows' = [rows EXCEPT ![tx[r].company] = row]
      <4>1. rows'[tx[r].company] = row  BY <3>2, <3>3 DEF TypeOK
      <4>2. QED  BY <3>1, <4>1, SaveFields, NoneIsNoRow DEF SameRequest
    <3>4. CASE tx[r].kind = "role"
      BY <3>1, <3>4, SaveFields DEF SameRequest
    <3>5. QED  BY <3>1, <3>3, <3>4, SaveFields
  <2>5. CASE KeepRow(r)
    <3>1. tx[r].stage = "loaded" /\ tx[r].copy # None  BY <2>5 DEF KeepRow
    <3>2. QED  BY <1>1, <1>2, <2>5, <3>1, KeepFields DEF SameRequest, Known, Active
  <2>6. CASE ClearOthers(r)
    <3>1. tx[r].stage = "saved" \/ (tx[r].stage = "loaded" /\ tx[r].kind = "default")
      BY <2>6 DEF ClearOthers, ReadyForDefault
    <3>2. QED  BY <1>1, <1>2, <2>6, <3>1, ClearFields DEF SameRequest, Known, Active
  <2>7. CASE Claim(r)
    <3>1. tx[r].stage = "cleared"  BY <2>7 DEF Claim
    <3>2. tx[r].copy \in Row  BY <3>1 DEF Copied
    <3>3. QED
      BY <1>1, <1>2, <2>2, <2>7, <3>1, <3>2, NoneIsNoRow, ClaimFields
      DEF SameRequest, Known, Active
  <2>8. CASE DestroyInvite(r) \/ Remove(r) \/ Abort(r)
    BY <2>2, <2>8, EndFields
  <2>9. QED  BY <2>1, <2>3, <2>4, <2>5, <2>6, <2>7, <2>8 DEF Step
<1>5. QED  BY <1>3, <1>4 DEF Known

\* A request under way writes its own row with another role only for a role.
LEMMA RoleWrittenStep ==
    ASSUME TypeOK, Begun, Copied, RoleWritten, WritesOpen, NEW r \in Requests, Step(r)
    PROVE  RoleWritten'
<1> DEFINE R(q) == \A d \in DOMAIN tx'[q].writes : rows'[d] # None =>
                     \/ tx'[q].writes[d].role = rows'[d].role
                     \/ /\ tx'[q].kind = "role"
                        /\ d = tx'[q].company
                        /\ tx'[q].writes[d].role = tx'[q].role
<1>1. ASSUME NEW q \in Requests \ {r}
      PROVE  R(q)
  BY OthersStay, RowsStep DEF RoleWritten
<1>2. ASSUME NothingWritten(r)
      PROVE  R(r)
  BY <1>2 DEF NothingWritten
<1>3. tx[r].stage \in {"found", "loaded"} => DOMAIN tx[r].writes = {}
  BY DEF WritesOpen
<1>4. R(r)
  <2>1. ASSUME NEW kind \in Kinds, NEW c \in Companies, NEW role \in Roles,
               Begin(r, kind, c, role)
        PROVE  R(r)
    BY <1>2, <2>1, BeginFields
  <2>2. CASE Load(r)
    BY <1>2, <1>3, <2>2, LoadFields DEF Load, Ends, NothingWritten
  <2>3. CASE SaveNew(r) \/ SaveRole(r)
    <3>1. PICK row \in Row : Save(r, row) /\ row.role = WantedRole(r)
      BY <2>3, SavedRow
    <3>2. tx[r].stage = "loaded" /\ tx[r].company \in Companies  BY <2>3, SavedRow
    <3>3. CASE tx[r].kind = "join" /\ tx'[r].writes = tx[r].writes
      BY <1>2, <1>3, <3>2, <3>3 DEF NothingWritten
    <3>4. CASE tx[r].kind = "role" /\ tx'[r].writes = [d \in {tx[r].company} |-> row]
      <4>1. WantedRole(r) = tx[r].role  BY <3>4 DEF WantedRole
      <4>2. SameRequest(r)  BY <3>1, SaveFields
      <4>3. \A d \in DOMAIN tx'[r].writes : d = tx[r].company /\ tx'[r].writes[d] = row
        BY <3>4
      <4>4. tx'[r].kind = "role" /\ tx'[r].company = tx[r].company /\ tx'[r].role = row.role
        BY <3>1, <3>4, <4>1, <4>2 DEF SameRequest
      <4>5. QED  BY <4>3, <4>4
    <3>5. \/ tx[r].kind = "join" /\ tx'[r].writes = tx[r].writes
          \/ tx[r].kind = "role" /\ tx'[r].writes = [d \in {tx[r].company} |-> row]
      BY <3>1, SaveFields
    <3>6. QED  BY <3>3, <3>4, <3>5
  <2>4. CASE KeepRow(r)
    BY <1>2, <1>3, <2>4, KeepFields DEF KeepRow, NothingWritten
  <2>5. CASE ClearOthers(r)
    <3>1. tx'[r].writes = Cleared(r) /\ SameRequest(r) /\ rows' = rows
      BY <2>5, ClearFields
    <3>2. ASSUME NEW d \in DOMAIN Cleared(r), rows[d] # None
          PROVE  \/ Cleared(r)[d].role = rows[d].role
                 \/ /\ tx[r].kind = "role"
                    /\ d = tx[r].company
                    /\ Cleared(r)[d].role = tx[r].role
      <4>1. d \in Companies  BY ClearedIs, WritesAre
      <4>2. CASE d \in Others(r)
        <5>1. Cleared(r)[d].role = View(r)[d].role  BY <4>2, ClearedIs
        <5>2. d # tx[r].company  BY <4>2 DEF Others
        <5>3. View(r)[d].role = rows[d].role
          BY <3>2, <4>1, <5>2, ViewIs DEF RoleWritten
        <5>4. QED  BY <5>1, <5>3
      <4>3. CASE d \in DOMAIN tx[r].writes \ Others(r)
        BY <3>2, <4>3, ClearedIs DEF RoleWritten
      <4>4. QED  BY <4>2, <4>3, ClearedIs
    <3>3. QED  BY <3>1, <3>2 DEF SameRequest
  <2>6. CASE Claim(r)
    BY <1>2, <2>6, ClaimFields DEF Ends
  <2>7. CASE DestroyInvite(r) \/ Remove(r) \/ Abort(r)
    BY <1>2, <2>7, EndFields DEF Ends
  <2>8. QED  BY <2>1, <2>2, <2>3, <2>4, <2>5, <2>6, <2>7 DEF Step
<1>5. QED  BY <1>1, <1>4 DEF RoleWritten

\* An invite is destroyed by a request whose user joined.
LEMMA InvitesStep ==
    ASSUME IInv, NEW r \in Requests, Step(r)
    PROVE  InviteSpentOnMember'
<1>1. \A c \in Companies : rows[c] # None \/ c \in removed => rows'[c] # None \/ c \in removed'
  BY RowsStep DEF IInv
<1>2. CASE DestroyInvite(r)
  <2>1. invites' = invites \ {tx[r].company} /\ tx[r].stage = "joined"
    BY <1>2 DEF DestroyInvite
  <2>2. rows[tx[r].company] # None \/ tx[r].company \in removed  BY <2>1 DEF IInv, Known
  <2>3. QED  BY <1>1, <2>1, <2>2 DEF IInv, InviteSpentOnMember
<1>3. CASE ~DestroyInvite(r)
  <2>1. invites' = invites
    BY <1>3 DEF Step, Begin, Load, SaveNew, SaveRole, Save, KeepRow, ClearOthers, Claim,
                Remove, Abort
  <2>2. QED  BY <1>1, <2>1 DEF IInv, InviteSpentOnMember
<1>4. QED  BY <1>2, <1>3

\* Nothing is under way, and no invite is spent.
LEMMA InitInvariant ==
    ASSUME Init
    PROVE  IInv
<1>1. Idle \in Transaction /\ Idle.stage = "idle" /\ DOMAIN Idle.writes = {}
  BY WritesAre DEF Idle, Transaction, Stages
<1>2. TypeOK  BY <1>1 DEF Init, TypeOK
<1>3. Begun /\ Copied /\ Known /\ RoleWritten /\ WritesOpen
  BY <1>1 DEF Init, Begun, Copied, Known, RoleWritten, WritesOpen, Active
<1>4. InviteSpentOnMember  BY DEF Init, InviteSpentOnMember
<1>5. QED  BY <1>2, <1>3, <1>4 DEF IInv

\* The invariant is inductive.
LEMMA NextInvariant ==
    ASSUME IInv, [Next]_vars
    PROVE  IInv'
<1>1. CASE Next
  <2>1. PICK r \in Requests : Step(r)  BY <1>1 DEF Next, Step
  <2>2. TypeOK'  BY <1>1, NextTyped DEF IInv
  <2>3. Begun' /\ Copied' /\ WritesOpen'  BY <2>1, RequestsStep DEF IInv
  <2>4. Known' /\ RoleWritten'  BY <2>1, KnownStep, RoleWrittenStep DEF IInv
  <2>5. InviteSpentOnMember'  BY <2>1, InvitesStep
  <2>6. QED  BY <2>2, <2>3, <2>4, <2>5 DEF IInv
<1>2. CASE UNCHANGED vars
  BY <1>2 DEF vars, IInv, TypeOK, Begun, Copied, Known, RoleWritten, WritesOpen,
              InviteSpentOnMember, Locked
<1>3. QED  BY <1>1, <1>2

\* The inductive invariant, for any companies, requests and kinds of request.
THEOREM MembersInvariance == Spec => []IInv
<1>1. Init => IInv  BY InitInvariant
<1>2. IInv /\ [Next]_vars => IInv'  BY NextInvariant
<1>3. QED  BY <1>1, <1>2, PTL DEF Spec

\* The table and the requests are well formed, and no two have written one row.
THEOREM MembersTypes == Spec => []TypeOK
<1>1. IInv => TypeOK  BY DEF IInv
<1>2. QED  BY <1>1, MembersInvariance, PTL

\* An invite is spent only on a user who became a member.
THEOREM InvitesHonoured == Spec => []InviteSpentOnMember
<1>1. IInv => InviteSpentOnMember  BY DEF IInv
<1>2. QED  BY <1>1, MembersInvariance, PTL

-----------------------------------------------------------------------------
(* Roles.                                                                   *)

\* The role of a member changes to what an administrator chose.
LEMMA RoleStep ==
    ASSUME IInv, NEW r \in Requests, Step(r), NEW c \in Companies,
           rows[c] # None, rows'[c] # None, rows'[c].role # rows[c].role
    PROVE  tx[r].kind = "role" /\ tx[r].company = c /\ rows'[c].role = tx[r].role
<1>1. TypeOK /\ Begun /\ Copied /\ RoleWritten  BY DEF IInv
<1>2. CASE SaveNew(r) \/ SaveRole(r)
  <2>1. PICK row \in Row : /\ Save(r, row)
                           /\ tx[r].copy = None => rows[tx[r].company] = None
                           /\ tx[r].copy # None => WantedRole(r) # tx[r].copy.role
    BY <1>1, <1>2, SavedRow
  <2>2. tx[r].kind = "join" => tx[r].copy = None  BY <2>1 DEF WantedRole
  <2>3. rows' = rows \/ (tx[r].kind = "join" /\ rows' = [rows EXCEPT ![tx[r].company] = row])
    BY <1>1, <2>1, SaveFields
  <2>4. QED  BY <1>1, <2>1, <2>2, <2>3 DEF TypeOK
<1>3. CASE Claim(r)
  <2>1. rows' = Claimed(r) /\ tx[r].stage = "cleared"  BY <1>1, <1>3, ClaimFields DEF Claim
  <2>2. rows'[c].role = View(r)[c].role  BY <1>1, <2>1, ClaimedIs
  <2>3. c \in DOMAIN tx[r].writes /\ rows'[c].role = tx[r].writes[c].role
    BY <1>1, <2>2, ViewIs
  <2>4. QED  BY <1>1, <2>3 DEF RoleWritten
<1>4. CASE Remove(r)
  BY <1>1, <1>4 DEF Remove, TypeOK
<1>5. rows' = rows \/ SaveNew(r) \/ SaveRole(r) \/ Claim(r) \/ Remove(r)
  BY DEF Step, Begin, Load, KeepRow, ClearOthers, DestroyInvite, Abort
<1>6. QED  BY <1>2, <1>3, <1>4, <1>5

\* Accepting an invite or choosing a default changes nobody's role.
THEOREM RolesKept == Spec => RoleChangedByAdminOnly
<1> DEFINE A == \A c \in Companies :
          rows[c] # None /\ rows'[c] # None /\ rows'[c].role # rows[c].role =>
              \E r \in Requests : /\ tx[r].kind = "role" /\ tx[r].company = c
                                  /\ rows'[c].role = tx[r].role
<1>1. IInv /\ [Next]_vars => [A]_vars
  <2>1. SUFFICES ASSUME IInv, Next PROVE A  OBVIOUS
  <2>2. PICK r \in Requests : Step(r)  BY <2>1 DEF Next, Step
  <2>3. QED  BY <2>1, <2>2, RoleStep
<1>2. QED  BY <1>1, MembersInvariance, PTL DEF Spec, RoleChangedByAdminOnly

-----------------------------------------------------------------------------
(* The default.                                                             *)

\* What is written into a row that is not there creates it.
WritesKnown == \A r \in Requests : \A d \in DOMAIN tx[r].writes :
                  rows[d] # None \/ d \in added

\* After update_all(default: 0), the other rows are locked, with default = 0,
\* except those that were created meanwhile.
OthersCleared == \A r \in Requests : tx[r].stage = "cleared" =>
    \A d \in Companies \ {tx[r].company} : rows[d] # None =>
        \/ d \in added
        \/ d \in DOMAIN tx[r].writes /\ tx[r].writes[d].default = 0

DInv == IInv /\ WritesKnown /\ OthersCleared /\ AtMostOneDefault

\* A row that comes was created meanwhile.
LEMMA RowsCome ==
    ASSUME DInv, NEW r \in Requests, Step(r)
    PROVE  \A d \in Companies : rows'[d] # None => rows[d] # None \/ d \in added'
<1>1. TypeOK /\ Begun /\ Copied  BY DEF DInv, IInv
<1>2. added \subseteq added'  BY <1>1, AddedStep
<1>3. CASE rows' = rows
  BY <1>3
<1>4. CASE SaveNew(r) \/ SaveRole(r)
  <2>1. PICK row \in Row : Save(r, row)  BY <1>1, <1>4, SavedRow
  <2>2. rows' = rows \/ rows' = [rows EXCEPT ![tx[r].company] = row]
    BY <1>1, <2>1, SaveFields
  <2>3. \A d \in Companies \ {tx[r].company} : rows'[d] = rows[d]
    BY <1>1, <2>2 DEF TypeOK
  <2>4. tx[r].company \in added' \/ rows[tx[r].company] # None
    BY <1>1, <1>4, AddedStep DEF SaveRole
  <2>5. QED  BY <2>3, <2>4
<1>5. CASE Claim(r)
  <2>1. rows' = Claimed(r) /\ tx[r].stage = "cleared"  BY <1>1, <1>5, ClaimFields DEF Claim
  <2>2. \A d \in Companies : rows'[d] # None => View(r)[d] # None
    BY <1>1, <2>1, ClaimedIs
  <2>3. QED  BY <1>1, <1>2, <2>2, ViewIs DEF DInv, WritesKnown
<1>6. CASE Remove(r)
  BY <1>1, <1>6 DEF Remove, TypeOK
<1>7. rows' = rows \/ SaveNew(r) \/ SaveRole(r) \/ Claim(r) \/ Remove(r)
  BY DEF Step, Begin, Load, KeepRow, ClearOthers, DestroyInvite, Abort
<1>8. QED  BY <1>3, <1>4, <1>5, <1>6, <1>7

\* The facts about a request survive every step.
LEMMA DefaultRequestsStep ==
    ASSUME DInv, NEW r \in Requests, Step(r)
    PROVE  WritesKnown' /\ OthersCleared'
<1> DEFINE W(q) == \A d \in DOMAIN tx'[q].writes : rows'[d] # None \/ d \in added'
           O(q) == tx'[q].stage = "cleared" =>
                     \A d \in Companies \ {tx'[q].company} : rows'[d] # None =>
                        \/ d \in added'
                        \/ d \in DOMAIN tx'[q].writes /\ tx'[q].writes[d].default = 0
<1>1. TypeOK /\ Begun /\ Copied /\ WritesOpen  BY DEF DInv, IInv
<1>2. \A d \in Companies : rows'[d] # None => rows[d] # None \/ d \in added'  BY RowsCome
<1>3. added \subseteq added'  BY <1>1, AddedStep
<1>4. tx[r].stage \in {"found", "loaded"} => DOMAIN tx[r].writes = {}
  BY <1>1 DEF WritesOpen
<1>5. ASSUME NEW q \in Requests \ {r}
      PROVE  W(q) /\ O(q)
  <2>1. tx'[q] = tx[q]  BY <1>1, OthersStay
  <2>2. \A d \in DOMAIN tx[q].writes : rows'[d] = rows[d]  BY <1>1, RowsStep
  <2>3. W(q)  BY <1>3, <2>1, <2>2 DEF DInv, WritesKnown
  <2>4. O(q)  BY <1>2, <1>3, <2>1 DEF DInv, OthersCleared
  <2>5. QED  BY <2>3, <2>4
<1>6. ASSUME NothingWritten(r), tx'[r].stage # "cleared"
      PROVE  W(r) /\ O(r)
  BY <1>6 DEF NothingWritten
<1>7. W(r) /\ O(r)
  <2>1. ASSUME NEW kind \in Kinds, NEW c \in Companies, NEW role \in Roles,
               Begin(r, kind, c, role)
        PROVE  W(r) /\ O(r)
    BY <1>1, <1>6, <2>1, BeginFields
  <2>2. CASE Load(r)
    BY <1>1, <1>4, <1>6, <2>2, LoadFields DEF Load, Ends, NothingWritten
  <2>3. CASE SaveNew(r) \/ SaveRole(r)
    <3>1. PICK row \in Row : Save(r, row)  BY <1>1, <2>3, SavedRow
    <3>2. tx[r].stage = "loaded"  BY <2>3 DEF SaveNew, SaveRole
    <3>3. tx'[r].stage = "saved"  BY <1>1, <3>1, SaveFields
    <3>4. CASE tx'[r].writes = tx[r].writes
      BY <1>4, <1>6, <3>2, <3>3, <3>4 DEF NothingWritten
    <3>5. CASE rows' = rows /\ tx'[r].writes = [d \in {tx[r].company} |-> row]
      <4>1. tx[r].company \in added' \/ rows'[tx[r].company] # None
        BY <1>1, <2>3, <3>5, AddedStep DEF SaveRole
      <4>2. QED  BY <3>3, <3>5, <4>1
    <3>6. \/ tx'[r].writes = tx[r].writes
          \/ rows' = rows /\ tx'[r].writes = [d \in {tx[r].company} |-> row]
      BY <1>1, <3>1, SaveFields
    <3>7. QED  BY <3>4, <3>5, <3>6
  <2>4. CASE KeepRow(r)
    BY <1>1, <1>4, <1>6, <2>4, KeepFields DEF KeepRow, NothingWritten
  <2>5. CASE ClearOthers(r)
    <3>1. /\ tx'[r].company = tx[r].company /\ rows' = rows
          /\ tx'[r].writes = Cleared(r)
      BY <1>1, <2>5, ClearFields DEF SameRequest
    <3>2. DOMAIN Cleared(r) = DOMAIN tx[r].writes \cup Others(r)
          /\ \A d \in Others(r) : Cleared(r)[d].default = 0
      BY <1>1, ClearedIs
    <3>3. \A d \in Companies \ {tx[r].company} : rows[d] # None => d \in Others(r)
      BY <1>1, ViewIs DEF Others
    <3>4. \A d \in Others(r) : rows[d] # None \/ d \in added
      BY <1>1, ViewIs DEF Others, DInv, WritesKnown
    <3>5. W(r)  BY <1>3, <3>1, <3>2, <3>4 DEF DInv, WritesKnown
    <3>6. O(r)  BY <3>1, <3>2, <3>3
    <3>7. QED  BY <3>5, <3>6
  <2>6. CASE Claim(r)
    BY <1>1, <1>6, <2>6, ClaimFields DEF Ends
  <2>7. CASE DestroyInvite(r) \/ Remove(r) \/ Abort(r)
    BY <1>1, <1>6, <2>7, EndFields DEF Ends
  <2>8. QED  BY <2>1, <2>2, <2>3, <2>4, <2>5, <2>6, <2>7 DEF Step
<1>8. \A q \in Requests : W(q) /\ O(q)  BY <1>5, <1>7
<1>9. QED  BY <1>8 DEF WritesKnown, OthersCleared

\* A row that is saved keeps its default, or is new.
LEMMA SavedDefault ==
    ASSUME TypeOK, Begun, NEW r \in Requests, SaveNew(r) \/ SaveRole(r), Step(r)
    PROVE  \A d \in Companies : rows'[d] # None /\ d \notin added' =>
              rows[d] # None /\ rows'[d].default = rows[d].default
<1>1. CASE SaveNew(r)
  <2>1. PICK row \in Row : Save(r, row)  BY <1>1, SavedRow
  <2>2. rows' = rows \/ rows' = [rows EXCEPT ![tx[r].company] = row]
    BY <2>1, SaveFields
  <2>3. tx[r].company \in added'  BY <1>1, AddedStep
  <2>4. QED  BY <2>2, <2>3 DEF TypeOK
<1>2. CASE SaveRole(r)
  <2> DEFINE row == [rows[tx[r].company] EXCEPT !.role = WantedRole(r)]
  <2>1. tx[r].company \in Companies /\ rows[tx[r].company] # None
    BY <1>2 DEF SaveRole, Begun, Active
  <2>2. rows[tx[r].company] \in Row  BY <2>1 DEF TypeOK
  <2>3. row.default = rows[tx[r].company].default  BY <2>2 DEF Row
  <2>4. Save(r, row)  BY <1>2 DEF SaveRole
  <2> HIDE DEF row
  <2>5. rows' = rows \/ rows' = [rows EXCEPT ![tx[r].company] = row]
    BY <2>4, SaveFields
  <2>6. QED  BY <2>1, <2>3, <2>5 DEF TypeOK
<1>3. QED  BY <1>1, <1>2

\* A commit leaves no default but its own, and those of rows created meanwhile.
LEMMA DefaultStep ==
    ASSUME DInv, NEW r \in Requests, Step(r)
    PROVE  AtMostOneDefault'
<1>1. TypeOK /\ Begun /\ Copied  BY DEF DInv, IInv
<1>2. added \subseteq added'  BY <1>1, AddedStep
<1>3. ASSUME \A d \in Companies : rows'[d] # None /\ d \notin added' =>
                rows[d] # None /\ rows'[d].default = rows[d].default
      PROVE  AtMostOneDefault'
  <2>1. \A d \in DefaultsIn(rows') : d \in added' \/ d \in DefaultsIn(rows)
    BY <1>3 DEF DefaultsIn
  <2>2. QED  BY <1>2, <2>1 DEF DInv, AtMostOneDefault
<1>4. CASE rows' = rows
  BY <1>3, <1>4
<1>5. CASE SaveNew(r) \/ SaveRole(r)
  BY <1>1, <1>3, <1>5, SavedDefault
<1>6. CASE Claim(r)
  <2>1. tx[r].stage = "cleared" /\ rows' = Claimed(r)
    BY <1>1, <1>6, ClaimFields DEF Claim
  <2>2. ASSUME NEW d \in Companies \ {tx[r].company}, rows'[d] # None, d \notin added'
        PROVE  rows'[d].default = 0
    <3>1. rows[d] # None  BY <2>2, RowsCome
    <3>2. d \in DOMAIN tx[r].writes /\ tx[r].writes[d].default = 0
      BY <1>2, <2>1, <2>2, <3>1 DEF DInv, OthersCleared
    <3>3. rows'[d] = View(r)[d] /\ View(r)[d] = tx[r].writes[d]
      BY <1>1, <2>1, <2>2, <3>2, ClaimedIs, ViewIs
    <3>4. QED  BY <3>2, <3>3
  <2>3. \A d \in DefaultsIn(rows') : d = tx[r].company \/ d \in added'
    BY <2>2 DEF DefaultsIn
  <2>4. QED  BY <2>3 DEF AtMostOneDefault
<1>7. CASE Remove(r)
  BY <1>1, <1>3, <1>7 DEF Remove, TypeOK
<1>8. rows' = rows \/ SaveNew(r) \/ SaveRole(r) \/ Claim(r) \/ Remove(r)
  BY DEF Step, Begin, Load, KeepRow, ClearOthers, DestroyInvite, Abort
<1>9. QED  BY <1>4, <1>5, <1>6, <1>7, <1>8

\* Overlapping requests of any kind leave at most one default company among
\* those whose row was there before, for any number of requests and companies.
THEOREM OneDefault == Spec => []AtMostOneDefault
<1>1. Init => DInv
  <2>1. SUFFICES ASSUME Init PROVE DInv  OBVIOUS
  <2>2. IInv  BY <2>1, InitInvariant
  <2>3. Idle.stage = "idle" /\ DOMAIN Idle.writes = {}  BY WritesAre DEF Idle
  <2>4. WritesKnown /\ OthersCleared  BY <2>1, <2>3 DEF Init, WritesKnown, OthersCleared
  <2>5. QED  BY <2>1, <2>2, <2>4 DEF Init, DInv, AtMostOneDefault
<1>2. DInv /\ [Next]_vars => DInv'
  <2>1. SUFFICES ASSUME DInv, [Next]_vars PROVE DInv'  OBVIOUS
  <2>2. IInv'  BY <2>1, NextInvariant DEF DInv
  <2>3. CASE Next
    <3>1. PICK r \in Requests : Step(r)  BY <2>3 DEF Next, Step
    <3>2. QED  BY <2>1, <2>2, <3>1, DefaultRequestsStep, DefaultStep DEF DInv
  <2>4. CASE UNCHANGED vars
    BY <2>1, <2>2, <2>4 DEF vars, DInv, WritesKnown, OthersCleared,
                            AtMostOneDefault, DefaultsIn
  <2>5. QED  BY <2>1, <2>3, <2>4
<1>3. DInv => AtMostOneDefault  BY DEF DInv
<1>4. QED  BY <1>1, <1>2, <1>3, PTL DEF Spec
=============================================================================
