SPECIFICATION Spec
CONSTANTS
    Tasks = {t1}
    Providers = {p1}
    Users = {}
    Details = {d1, d2}
    MaxTime = 2
    MaxCircuits = 2
    None = None
SYMMETRY Symmetry
INVARIANTS
    OpenCircuitIffCooldown
    CooldownsEnd
PROPERTIES
    CircuitsOnlyExtend
