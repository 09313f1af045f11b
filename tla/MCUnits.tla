------------------------------- MODULE MCUnits -------------------------------
(***************************************************************************)
(* The parts of the program that stand alone, for TLC: the rate limiter,   *)
(* the slugs of new galleries, the types of uploads, and the scans of      *)
(* JPEGs and videos.  One of them runs at a time.                          *)
(***************************************************************************)
EXTENDS RateLimiter, Slug, MediaTypes, JpegMeta, VideoMeta, SequencesExt

CONSTANTS
    MaxTitle,    \* characters of a title
    MaxSegments, \* segments of a JPEG before its scan
    MaxBoxes     \* boxes of an MP4

VARIABLE unit  \* the part that runs

units == <<vars, gallery, types, jpegVars, videoVars, unit>>

AllTitles == UNION {[1..n -> Characters] : n \in 0..MaxTitle}

Entry(tag, text) == [tag |-> tag, ascii |-> TRUE, text |-> text]
NoText(tag) == [tag |-> tag, ascii |-> FALSE, text |-> NoDate]
Pointer == NoText("ExifIFD")

\* Directories in either order, with entries that are missing, empty, no text,
\* or no date.
AllTiffs ==
    LET tiffs == <<
        [root |-> <<Pointer, Entry("DateTime", "edited")>>,
         exif |-> <<Entry("Digitized", "scanned"), Entry("Original", "shot")>>],
        [root |-> <<Entry("DateTime", "edited"), Pointer>>,
         exif |-> <<NoText("Original"), Entry("Digitized", "scanned")>>],
        [root |-> <<Pointer, Entry("DateTime", "edited")>>,
         exif |-> <<Entry("Original", NoDate), NoText("Digitized")>>],
        [root |-> <<NoText("DateTime")>>, exif |-> <<>>],
        [root |-> <<Pointer, Entry("DateTime", "edited")>>,
         exif |-> <<Entry("Original", Unreadable), Entry("Digitized", "scanned")>>] >>
    IN  [x \in 260..264 |-> tiffs[x - 259]]

Segment(marker, payload) == <<FF, marker, 0, Len(payload) + 2>> \o payload

OtherText == 259

\* Segments of JPEGs; a table may hold bytes that look like a segment.
AllSegments ==
    {Segment(APP1, <<XmpHeader, x>>) : x \in {Panorama, OtherText}}
    \cup {Segment(APP1, <<ExifHeader, x>>) : x \in DOMAIN AllTiffs}
    \cup {Segment(219, <<0, FF, APP1, 0, 4, XmpHeader, Panorama>>), Segment(224, <<>>)}

\* Where parts begin that follow each other from byte s on.
Starts(parts, s) == [k \in 1..(Len(parts) + 1) |-> s + Len(FlattenSeq(SubSeq(parts, 1, k - 1)))]

\* The start of an image, its segments, and a scan: stuffed bytes, a restart.
AllJpegs ==
    LET files == UNION {[1..n -> AllSegments] : n \in 0..MaxSegments}
        scan == Segment(218, <<1>>) \o <<7, FF, 0, 7, FF, 208, 7, FF, 0, 9, FF, 217>>
    IN  {[data |-> <<FF, 216>> \o FlattenSeq(s) \o scan, start |-> Starts(s, 2)] : s \in files}

Box(type, payload) == <<0, 0, 0, 8 + Len(payload)>> \o type \o payload
Xmp(text) == Box(UuidType, xmpUUID \o <<text>>)
Moov == <<109, 111, 111, 118>>
Mdat == <<109, 100, 97, 116>>

\* Boxes of MP4s; one may hold another, or be of somebody else's id.
AllBoxes ==
    {Xmp(PanoramaText), Xmp(OtherText), Box(UuidType, [k \in 1..16 |-> 1] \o <<PanoramaText>>),
     Box(Moov, Xmp(PanoramaText)), Box(Moov, <<>>)}

Streams ==
    [type : {"video"}, width : {0, 4}, spherical : BOOLEAN]
    \cup [type : {"audio"}, width : {0}, spherical : BOOLEAN]
Probes ==
    [ok : BOOLEAN, streams : UNION {[1..n -> Streams] : n \in 1..2},
     spherical : BOOLEAN, year : {2024}]

\* The last box may have size 0 and go to the end of the file, or a size that
\* goes beyond what is read of the file, even in the middle of its header.
AllVideos ==
    LET bodies == UNION {[1..n -> AllBoxes] : n \in 0..MaxBoxes}
        last == <<0, 0, 0, 0>> \o Mdat \o <<7, 0, 9>>
        beyond == <<0, 0, 1, 0>> \o UuidType \o xmpUUID \o <<PanoramaText>>
        files ==
            {[data |-> FlattenSeq(b) \o r, start |-> Starts(b, 0)] : b \in bodies, r \in {<<>>, last}}
            \cup {[data |-> FlattenSeq(b) \o SubSeq(beyond, 1, n),
                   start |-> Append(Starts(b, 0), Len(FlattenSeq(b)) + 256)] :
                      b \in bodies, n \in {12, 24, 25}}
    IN  {[data |-> f.data, start |-> f.start, probe |-> p] : f \in files, p \in Probes}

UnitsInit ==
    /\ unit \in {"limiter", "slug", "types", "jpeg", "video"}
    /\ Init /\ SlugInit /\ TypesInit /\ JpegInit /\ VideoInit

UnitsNext ==
    \/ unit = "limiter" /\ Next /\ UNCHANGED <<gallery, types, jpegVars, videoVars, unit>>
    \/ unit = "slug" /\ CreateGallery /\ UNCHANGED <<vars, types, jpegVars, videoVars, unit>>
    \/ unit = "types" /\ TypesNext /\ UNCHANGED <<vars, gallery, jpegVars, videoVars, unit>>
    \/ unit = "jpeg" /\ JpegNext /\ UNCHANGED <<vars, gallery, types, videoVars, unit>>
    \/ unit = "video" /\ VideoNext /\ UNCHANGED <<vars, gallery, types, jpegVars, unit>>

UnitsSpec == UnitsInit /\ [][UnitsNext]_units

Symmetry == Permutations(Clients) \cup Permutations(Requests) \cup Permutations(Objects)
=============================================================================
