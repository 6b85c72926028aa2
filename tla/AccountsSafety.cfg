SPECIFICATION Spec
CONSTANTS
    Tasks = {t1, t2, t3}
    Users = {u1, u2}
    Issuers = {i1, i2}
    Settings = {s0, s1}
    Initial = s0
    None = None
SYMMETRY Symmetry
INVARIANTS
    OneRoot
    CommittedIssuerTrusted
    PermissionHolds
PROPERTIES
    SetupFinal
