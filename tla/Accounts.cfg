\* Two people, two addresses, two companies, two requests, two open invites.
CONSTANTS
    Users = {u1, u2}
    Accounts = {g1, g2}
    Emails = {e1, e2}
    Companies = {c1, c2}
    Requests = {r1, r2}
    MaxInvites = 2
    None = None
SPECIFICATION Spec
SYMMETRY Symmetry
INVARIANTS
    UsersCanSignIn
    CompanyHasAdmin
    OneUserPerAccount
    InviteCanBeRepeated
