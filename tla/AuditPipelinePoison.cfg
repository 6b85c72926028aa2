SPECIFICATION FairSpec
CONSTANTS
    Calls = {c1, c2}
    Consumers = {k1, k2}
    Providers = {p1}
    QUEUE_CAPACITY = 2
    BATCH_CAPACITY = 1
    QUEUE_BYTE_CAPACITY = 0
    ARCHIVE_RESERVATION_BYTES = 3
    None = None
PROPERTY
    QueuedEventsRecorded
CHECK_DEADLOCK FALSE
