SPECIFICATION FairSpec
CONSTANTS
    QueueSize = 4
    FullAt = 3
INVARIANTS
    TypeOK
    StartsOutstanding
    SlowAfterQueue
PROPERTIES
    CommandsAnswered
