SPECIFICATION Spec
CONSTANTS
    Tasks = {t1, t2}
    Providers = {p1}
    Users = {u1}
    Details = {d1}
    MaxTime = 1
    MaxCircuits = 1
    None = None
INVARIANTS
    RevokedGrantsGone
