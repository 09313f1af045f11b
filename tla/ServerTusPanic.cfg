\* A photo in the hands of the worker, another with consumeHooks.
CONSTANTS
    FormJobs = {f1}
    TusJobs = {t1}
    Workers = {w1}
    QueueDepth = 1
    NoJob = NoJob
    Gone = Gone
SPECIFICATION Spec
INVARIANT EndsOnlyAfterDrain
\* The process ends.
CHECK_DEADLOCK FALSE
