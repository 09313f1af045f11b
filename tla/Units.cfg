\* Two clients, the second request of either while the first is held up for a tick;
\* four limiters, so that there is always one to make.  A cut in the middle of
\* short titles, JPEGs with up to three segments of any kind in any order, and
\* videos with up to two boxes before the last one.
CONSTANTS
    Clients = {c1, c2}
    Requests = {r1, r2}
    Objects = {o1, o2, o3, o4}
    Idle = Idle
    Burst = 3
    Keep = 4
    MaxStall = 1
    MaxTitle = 6
    Titles <- AllTitles
    MaxCut = 4
    MaxSlug = 11
    HexLen = 1
    MaxSegments = 3
    Tiffs <- AllTiffs
    Jpegs <- AllJpegs
    MaxBoxes = 2
    Videos <- AllVideos
SPECIFICATION UnitsSpec
INVARIANTS CreatedSlugSaves PathsAgree JpegIsUnderstood VideoIsUnderstood
PROPERTY BucketSpec
SYMMETRY Symmetry
\* One gallery is created, one file uploaded, one scan made.
CHECK_DEADLOCK FALSE
