SPECIFICATION FairSpec
CONSTANTS
    LineSize <- MCLineSize
    OtherSizes <- MCOtherSizes
    MaxBytes = 5
    MaxEvents = 3
    BatchBytes = 3
    BatchEvents = 2
    MaxSequence = 4
    MaxFailures = 2
    MaxDrops = 1
INVARIANTS
    TypeOK
    LinesExactlyOnce
    AccountingIsExact
    QueueIsContiguous
    HonestReplyIsAccepted
PROPERTIES
    ImplementsQueue
    EverythingIsDelivered
\* Once every event is delivered and the bounds are reached, the pipeline rests.
CHECK_DEADLOCK FALSE
