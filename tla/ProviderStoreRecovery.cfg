SPECIFICATION RecoverySpec
CONSTANTS
    Tasks = {t1}
    Providers = {p1, p2}
    Users = {u1}
    Details = {d1, d2}
    MaxTime = 1
    MaxCircuits = 3
    None = None
PROPERTIES
    CircuitsClose
