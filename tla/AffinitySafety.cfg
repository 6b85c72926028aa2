SPECIFICATION FairSpec
CONSTANTS
    Tasks = {t1, t2}
    Sessions = {h1}
    Providers = {p1, p2}
    TTL = 1
    MaxTime = 1
    MaxRestarts = 1
    None = None
INVARIANTS
    MarkedOrWritten
PROPERTIES
    AffinityKept
    DeletedForgotten
