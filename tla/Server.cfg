\* A photo with the worker and one in the buffer, one with which a form request or
\* consumeHooks is parked when the shutdown comes, and a PATCH that waits for it.
CONSTANTS
    FormJobs = {f1}
    TusJobs = {t1, t2, t3}
    Workers = {w1}
    QueueDepth = 1
    NoJob = NoJob
    Gone = Gone
SPECIFICATION MainFairSpec
INVARIANTS FormNeverMeetsClose CleanExitLosesNothing
PROPERTIES ShutdownTerminates RequestsEnd
\* The process ends.
CHECK_DEADLOCK FALSE
