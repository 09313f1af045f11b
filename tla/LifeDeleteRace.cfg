\* One photo, one worker, one delete request, no fault.
CONSTANTS
    Photos = {p1}
    TusPhotos = {}
    Workers = {w1}
    Deleters = {d1}
    Faults = {}
    NoPhoto = NoPhoto
SPECIFICATION Spec
INVARIANT DeletedLeavesNoFile
\* Once all is uploaded, settled and deleted, nothing is left to do.
CHECK_DEADLOCK FALSE
