\* Three photos, two of them through the one consumer of tus uploads, statements
\* that fail, and a delete: who still gets an end, and what is left on disk.
CONSTANTS
    Photos = {p1, p2, p3}
    TusPhotos = {p2, p3}
    Workers = {w1}
    Deleters = {d1}
    Faults = {"db"}
    NoPhoto = NoPhoto
SPECIFICATION FairSpec
INVARIANT NoStrayUpload
PROPERTIES SettlesOrStranded UploadEnds
\* All uploaded, settled and deleted.
CHECK_DEADLOCK FALSE
