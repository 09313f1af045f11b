\* Every fault at once: a photo by each upload path, two workers and two
\* delete requests, so that both may be at the same photo.
CONSTANTS
    Photos = {p1, p2}
    TusPhotos = {p2}
    Workers = {w1, w2}
    Deleters = {d1, d2}
    Faults = {"db", "disk", "dropGallery", "crash"}
    NoPhoto = NoPhoto
SPECIFICATION Spec
INVARIANTS TypeOK ProcessingHasJob ReadyIsBacked CleanDelete
PROPERTY PhotoStatusSpec
\* Once all is uploaded, settled and deleted, nothing is left to do.
CHECK_DEADLOCK FALSE
