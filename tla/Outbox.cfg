\* Two rows compete for a batch of one, polled by the workers of two processes.
CONSTANTS
    Rows = {1, 2}
    Workers = {w1, w2}
    BatchSize = 1
    SelectLimit = 2
    MaxAttempts = 2
SPECIFICATION FairSpec
INVARIANTS TypeOK PublishedWasSent
PROPERTIES PendingIsSettled
