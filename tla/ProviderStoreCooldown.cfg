SPECIFICATION Spec
CONSTANTS
    Tasks = {t1, t2}
    Providers = {p1, p2}
    Users = {}
    Details = {d1}
    MaxTime = 1
    MaxCircuits = 1
    None = None
PROPERTIES
    CooldownRespected
