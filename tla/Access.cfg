\* Two galleries whose slugs may change places, two overlapping updates, and a visitor
\* whose sessions may expire, and may belong to either gallery under either slug.
CONSTANTS
    Galleries = {g1, g2}
    Slugs = {s1, s2}
    Hashes = {h1, h2}
    Tokens = {t1, t2}
    Visitors = {v1}
    Editors = {e1, e2}
    None = None
    Lifetime = 1
SPECIFICATION Spec
INVARIANTS TypeOK EntryNeedsPassword UnprotectedForgets
PROPERTY SessionsLast
SYMMETRY Symmetry
\* All ids are given out and the galleries are deleted.
CHECK_DEADLOCK FALSE
