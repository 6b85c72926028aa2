SPECIFICATION Spec
CONSTANTS
    Calls = {c1, c2}
    Providers = {p1, p2, p3}
    UsizeModulus = 5
    None = None
SYMMETRY Symmetry
INVARIANTS
    InflightExact
    RetriedElsewhere
    SpoolForRetryOnly
