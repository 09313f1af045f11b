\* A photo page against uploads, deletes and a reorder, with upload times that may be
\* equal and numbers that may be: three photos, one between two others.
CONSTANTS
    Photos = {1, 2, 3}
    Editors = {e1}
    Sorters = {}
    Viewers = {v1}
    Directions = {}
    ShotTimes = {}
    MaxTime = 1
    NoTime = NoTime
    NoPhoto = NoPhoto
SPECIFICATION Spec
INVARIANTS ArrowsFollowGrid
\* All uploaded, deleted and shown.
CHECK_DEADLOCK FALSE
