\* A row that another request changes after it was loaded.
CONSTANTS
    Companies = {a, b}
    Requests = {r1, r2}
    Kinds <- KindsOfMembers
    None = None
SPECIFICATION Spec
SYMMETRY Symmetry
PROPERTIES
    DefaultTakesEffect
\* A user without a company and without an invite makes no request.
CHECK_DEADLOCK FALSE
