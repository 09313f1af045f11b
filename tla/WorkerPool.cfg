\* Four jobs for two workers and a buffer of two: full, with jobs in progress, and
\* with callers parked when the workers have gone.
CONSTANTS
    Jobs = {j1, j2, j3, j4}
    Workers = {w1, w2}
    QueueDepth = 2
    NoJob = NoJob
    Gone = Gone
SPECIFICATION FairSpec
INVARIANTS TypeOK OnePlace DrainIsComplete
PROPERTIES LedgerSpec AcceptedIsProcessed ShutdownEnds
\* All jobs done, or the pool shut down.
CHECK_DEADLOCK FALSE
