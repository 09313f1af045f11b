\* A reorder and a sort of three photos, whose lists overlap in any order: all were
\* uploaded at one instant, and the worker finds that some were taken at a later one.
CONSTANTS
    Photos = {1, 2, 3}
    Editors = {e1, s1}
    Sorters = {s1}
    Viewers = {}
    Directions = {"asc"}
    ShotTimes = {1}
    MaxTime = 0
    NoTime = NoTime
    NoPhoto = NoPhoto
SPECIFICATION FairSpec
INVARIANTS TypeOK UploadsKeepOrder
PROPERTIES SortedByDate WholeSpec EditsEnd
\* All uploaded, deleted and answered.
CHECK_DEADLOCK FALSE
