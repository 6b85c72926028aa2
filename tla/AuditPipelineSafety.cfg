SPECIFICATION FairSpec
CONSTANTS
    Calls = {c1, c2}
    Consumers = {k1}
    Providers = {p1}
    QUEUE_CAPACITY = 2
    BATCH_CAPACITY = 2
    QUEUE_BYTE_CAPACITY = 5
    ARCHIVE_RESERVATION_BYTES = 3
    None = None
INVARIANTS
    CapacityConserved
    BudgetConserved
    ArchiveMemoryBounded
    ReservedOnce
    SettledOnce
    TransportAfterEvent
    ReferencesHold
PROPERTIES
    ImplementsLedger
    RowsAreFinal
    EventsRecordedUnlessPoisoned
CHECK_DEADLOCK FALSE
