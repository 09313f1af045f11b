\* Two users, who may be administrators, owners, editors and uploaders in each
\* other's galleries, and two requests that overtake each other.
CONSTANTS
    Users = {u1, u2}
    Galleries = {g1, g2}
    Photos = {p1}
    Requests = {r1, r2}
    None = None
SPECIFICATION Spec
INVARIANTS TypeOK AdminRemains UploadersWereEditors CoverInGallery
PROPERTY OthersPhotosStay
SYMMETRY Symmetry
\* All ids are given out, and everybody is deleted.
CHECK_DEADLOCK FALSE
