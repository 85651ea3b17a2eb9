\* Two companies, two requests of any kind at the same time.
CONSTANTS
    Companies = {a, b}
    Requests = {r1, r2}
    Kinds <- KindsOfAll
    None = None
SPECIFICATION Spec
SYMMETRY Symmetry
INVARIANTS
    AtMostOneDefault
    InviteSpentOnMember
PROPERTIES
    RoleChangedByAdminOnly
\* A user without a company and without an invite makes no request.
CHECK_DEADLOCK FALSE
