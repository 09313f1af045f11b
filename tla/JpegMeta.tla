------------------------------- MODULE JpegMeta ------------------------------
(***************************************************************************)
(* extractJPEGMeta: the scan over the bytes of a JPEG for the segments     *)
(* that say whether it is a panorama and when it was taken.  One action is *)
(* one turn of its loop.                                                   *)
(*                                                                         *)
(* A file is a sequence of bytes, in which a number past 255 stands for a  *)
(* header or a text that the code compares as a whole, or for TIFF data,   *)
(* and the starts of its segments, counted from 0 as the code does, which  *)
(* the code does not know.                                                 *)
(***************************************************************************)
EXTENDS Naturals, Sequences, FiniteSetsExt

FF == 255
APP1 == 225            \* 0xE1
Standalone == {216, 217, 208, 215}  \* the markers the code takes to have no length

XmpHeader == 256
ExifHeader == 257
Panorama == 258        \* an XMP text that detectIs360FromXMP finds a word in

NoDate == ""
Unreadable == "    :  :     :  :  "  \* a text that is no date

CONSTANTS
    Tiffs,  \* the TIFF data there is, by the number that stands for it
    Jpegs   \* the files there are

-----------------------------------------------------------------------------
(* TIFF data: the entries of the root directory, and of the one that the   *)
(* root's ExifIFD entry points to.  An entry has a text if it is one of    *)
(* text.                                                                   *)

Tags == {"ExifIFD", "DateTime", "Original", "Digitized", "Other"}

\* Each tag is there once, in its own directory.
IsTiff(tiff) ==
    /\ \A ifd \in {tiff.root, tiff.exif} :
          /\ ifd \in Seq([tag : Tags, ascii : BOOLEAN, text : STRING])
          /\ \A j, k \in DOMAIN ifd : ifd[j].tag = ifd[k].tag /\ ifd[j].tag # "Other" => j = k
          /\ \A k \in DOMAIN ifd : ~ifd[k].ascii => ifd[k].text = NoDate
    /\ \A k \in DOMAIN tiff.root : tiff.root[k].tag \notin {"Original", "Digitized"}
    /\ \A k \in DOMAIN tiff.exif : tiff.exif[k].tag \notin {"ExifIFD", "DateTime"}
    /\ tiff.exif # <<>> => \E k \in DOMAIN tiff.root : tiff.root[k].tag = "ExifIFD"

\* walkIFD: of several entries with a tag the last one counts.
Walk(ifd, tag) ==
    LET found == {k \in DOMAIN ifd : ifd[k].tag = tag /\ ifd[k].ascii} IN
    IF found = {} THEN NoDate ELSE ifd[Max(found)].text

parseDate(text) == IF text = Unreadable THEN NoDate ELSE text

\* The first text there is, also when it is no date.
extractExifDate(x) ==
    LET tiff == Tiffs[x]
        exif == IF \E k \in DOMAIN tiff.root : tiff.root[k].tag = "ExifIFD"
                THEN tiff.exif ELSE <<>>
    IN  IF x \notin DOMAIN Tiffs THEN NoDate
        ELSE IF Walk(exif, "Original") # NoDate THEN parseDate(Walk(exif, "Original"))
        ELSE IF Walk(exif, "Digitized") # NoDate THEN parseDate(Walk(exif, "Digitized"))
        ELSE parseDate(Walk(tiff.root, "DateTime"))

-----------------------------------------------------------------------------
(* Files.                                                                  *)

Segments(f) == 1..(Len(f.start) - 1)

\* Two bytes, the high one first: the length behind the marker at byte s.
Length(data, s) == 256 * data[s + 3] + data[s + 4]

\* The start of an image, segments with a length that counts itself, and then
\* bytes of which no two look like the marker of APP1: the scan and what is
\* behind it.
IsJpeg(f) ==
    /\ f.data \in Seq(Nat) /\ f.start \in Seq(Nat) /\ f.start # <<>>
    /\ f.start[1] = 2 /\ f.data[1] = FF /\ f.data[2] = 216
    /\ \A k \in DOMAIN f.start : f.start[k] < Len(f.data)
    /\ \A k \in Segments(f) :
          /\ f.start[k] + 4 < Len(f.data)
          /\ f.data[f.start[k] + 1] = FF
          /\ f.data[f.start[k] + 2] \notin Standalone
          /\ Length(f.data, f.start[k]) >= 2
          /\ f.start[k + 1] = f.start[k] + 2 + Length(f.data, f.start[k])
    /\ \A s \in f.start[Len(f.start)]..(Len(f.data) - 2) :
          ~(f.data[s + 1] = FF /\ f.data[s + 2] = APP1)

ASSUME JpegAssumption ==
    /\ \A x \in DOMAIN Tiffs : IsTiff(Tiffs[x])
    /\ \A f \in Jpegs : IsJpeg(f)

-----------------------------------------------------------------------------
VARIABLES
    jpeg,  \* the file that is scanned
    i,     \* the scan's index
    meta   \* what it has learnt

jpegVars == <<jpeg, i, meta>>

NoJpeg == [data |-> <<>>, start |-> <<>>]
Nothing == [is360 |-> FALSE, at |-> NoDate]

JpegInit == jpeg = NoJpeg /\ i = 0 /\ meta = Nothing

Open ==
    /\ jpeg = NoJpeg
    /\ jpeg' \in Jpegs
    /\ UNCHANGED <<i, meta>>

\* The loop goes on.
Scanning == jpeg # NoJpeg /\ i + 4 < Len(jpeg.data)

\* Byte k from where the scan is.
Byte(k) == jpeg.data[i + k + 1]

SkipByte ==
    /\ Scanning /\ Byte(0) # FF
    /\ i' = i + 1
    /\ UNCHANGED <<jpeg, meta>>

\* Mutation: the length of an APP1 segment is counted from behind its header.
SegmentEndLate == Min({i + 4 + Length(jpeg.data, i), Len(jpeg.data)})

SegmentEnd == Min({i + 2 + Length(jpeg.data, i), Len(jpeg.data)})

\* What an APP1 segment adds: one panorama is enough, and the first date stays.
Learn(seg) ==
    IF Len(seg) > 1 /\ seg[1] = XmpHeader
    THEN [meta EXCEPT !.is360 = @ \/ seg[2] = Panorama]
    ELSE IF Len(seg) > 1 /\ seg[1] = ExifHeader /\ meta.at = NoDate
    THEN [meta EXCEPT !.at = extractExifDate(seg[2])]
    ELSE meta

ReadSegment ==
    /\ Scanning /\ Byte(0) = FF /\ Byte(1) = APP1
    /\ meta' = Learn(SubSeq(jpeg.data, i + 5, SegmentEnd))
    /\ i' = SegmentEnd
    /\ UNCHANGED jpeg

SkipMarker ==
    /\ Scanning /\ Byte(0) = FF /\ Byte(1) \in Standalone
    /\ i' = i + 2
    /\ UNCHANGED <<jpeg, meta>>

SkipSegment ==
    /\ Scanning /\ Byte(0) = FF /\ Byte(1) \notin Standalone \cup {APP1}
    /\ i' = i + 2 + Length(jpeg.data, i)
    /\ UNCHANGED <<jpeg, meta>>

extractJPEGMeta == SkipByte \/ ReadSegment \/ SkipMarker \/ SkipSegment

JpegNext == Open \/ extractJPEGMeta

JpegSpec == JpegInit /\ [][JpegNext]_jpegVars

-----------------------------------------------------------------------------
(* What a JPEG says, by its segments.                                      *)

IsApp1(f, k) == f.data[f.start[k] + 2] = APP1

\* A segment behind its marker and length.
Body(f, k) == SubSeq(f.data, f.start[k] + 5, f.start[k + 1])

SaysPanorama(f, k) ==
    IsApp1(f, k) /\ Len(Body(f, k)) > 1 /\ Body(f, k)[1] = XmpHeader /\ Body(f, k)[2] = Panorama

\* The texts of a tag in TIFF data, wherever their entries are.
Texts(tiff, tag) ==
    {e.text : e \in {e \in Range(tiff.root) \cup Range(tiff.exif) : e.tag = tag}} \ {NoDate}

\* The text of the tag that tells best when a picture was taken, if it is a date.
Taken(tiff) ==
    LET best == IF Texts(tiff, "Original") # {} THEN Texts(tiff, "Original")
                ELSE IF Texts(tiff, "Digitized") # {} THEN Texts(tiff, "Digitized")
                ELSE Texts(tiff, "DateTime")
    IN  IF best \subseteq {Unreadable} THEN NoDate ELSE CHOOSE d \in best : TRUE

SaysTaken(f, k) ==
    IF IsApp1(f, k) /\ Len(Body(f, k)) > 1 /\ Body(f, k)[1] = ExifHeader
       /\ Body(f, k)[2] \in DOMAIN Tiffs
    THEN Taken(Tiffs[Body(f, k)[2]]) ELSE NoDate

\* The segments in K say together: it is a panorama if one of them says so, and
\* was taken when the first says that has a date.
Says(f, K) ==
    LET dated == {k \in K : SaysTaken(f, k) # NoDate} IN
    [is360 |-> \E k \in K : SaysPanorama(f, k),
     at |-> IF dated = {} THEN NoDate ELSE SaysTaken(f, Min(dated))]

\* The scan finds every APP1 segment of a JPEG and nothing else: it is a
\* panorama if one of its XMP texts says so, and was taken at the first date
\* its Exif blocks have, whatever lies between them and whatever looks alike,
\* and in whatever order their entries are.
JpegIsUnderstood ==
    jpeg # NoJpeg /\ ~Scanning => meta = Says(jpeg, Segments(jpeg))
=============================================================================
