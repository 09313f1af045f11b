\* Two updates of one gallery, one of which sets a password the other has not read.
CONSTANTS
    Galleries = {g1}
    Slugs = {s1}
    Hashes = {h1, h2}
    Tokens = {t1}
    Visitors = {v1}
    Editors = {e1, e2}
    None = None
    Lifetime = 1
SPECIFICATION Spec
PROPERTY KeepsExistingHash
CHECK_DEADLOCK FALSE
