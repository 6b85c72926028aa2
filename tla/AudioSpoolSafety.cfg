SPECIFICATION FairSpec
CONSTANTS
    Calls = {c1, c2}
    MAX_RETENTION = 6
    CLEANUP_INTERVAL = 2
    USE_LIMIT = 1
    None = None
INVARIANTS
    OrphansExpire
    SentFilesKept
PROPERTIES
    OrphansRemoved
