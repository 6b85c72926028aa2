SPECIFICATION Spec
CONSTANTS
    Requests <- MCRequests
    Bodies <- MCBodies
    Images = {"i1", "i2"}
    Statuses = {200, 201, 429}
    MAX_REFERENCE_IMAGES = 2
    image_host_model = image_host_model
    ARCHIVE_BODY_LIMIT = 5
    PENDING_LIMIT = 4
    MaxChunk = 6
    LONG_CONTEXT_THRESHOLD_TOKENS = 3
    I64_MAX = 100000
    None = None
    Panic = Panic
INVARIANTS
    TypeOK
    FieldsAccountedFor
    UsageExact
    ArchiveHonest
    OutcomeRecorded
    ImagesOnce
    StreamsSettled
    TokensPricedOnce
CHECK_DEADLOCK FALSE
