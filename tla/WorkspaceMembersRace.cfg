SPECIFICATION Spec
CONSTANTS
    User = {u1, u2, u3}
    Workspace = {w1, w2}
    Request = {r1, r2}
    SignIn = {s1}
    Token <- Tokens
    Profile = {"ADMIN", "VIEWER"}
    AdminEmail = {"x", "y"}
    NoOne = NoOne
    SameTarget = TRUE
    AnyFirst = FALSE
SYMMETRY Symmetric
CHECK_DEADLOCK FALSE
INVARIANTS
    AdminRemains
