------------------------------ MODULE VideoMeta ------------------------------
(***************************************************************************)
(* ExtractVideoMeta: what ffprobe says of a video, and, unless that makes  *)
(* it a panorama, the scan over the boxes of the file for an XMP text that *)
(* does.  One action is one turn of the scan's loop.                       *)
(*                                                                         *)
(* A file is what ffprobe says, its first 4 MB as a sequence of bytes, in  *)
(* which a number past 255 stands for a text, and the starts of its boxes, *)
(* counted from 0 as the code does, which the code does not know.          *)
(***************************************************************************)
EXTENDS Naturals, Sequences, FiniteSetsExt

PanoramaText == 256  \* an XMP text that detectIs360FromXMP finds a word in

UuidType == <<117, 117, 105, 100>>
xmpUUID == [k \in 1..16 |-> 90]  \* stands for the sixteen bytes of the id

CONSTANT Videos  \* the files there are

-----------------------------------------------------------------------------
(* Files.                                                                  *)

\* A stream has a type, a width, 0 if unknown, and what its side data says of
\* the projection; spherical is what the container's tags say of it, and year
\* that of its creation time.
IsProbe(p) ==
    /\ p.ok \in BOOLEAN /\ p.spherical \in BOOLEAN /\ p.year \in Nat
    /\ p.streams \in Seq([type : {"video", "audio"}, width : Nat, spherical : BOOLEAN])

Boxes(v) == 1..(Len(v.start) - 1)

\* Four bytes, the highest first.
BoxSize(data, s) == 256 * (256 * (256 * data[s + 1] + data[s + 2]) + data[s + 3]) + data[s + 4]

IsXmp(data, s) ==
    /\ s + 24 <= Len(data)
    /\ SubSeq(data, s + 5, s + 8) = UuidType
    /\ SubSeq(data, s + 9, s + 24) = xmpUUID

\* Boxes of a size that counts their header, the last of which may go on behind
\* the first 4 MB, and then nothing, or a box of size 0 to the end of the file,
\* in which nothing looks like a box of XMP.
IsVideo(v) ==
    /\ IsProbe(v.probe)
    /\ v.data \in Seq(Nat) /\ v.start \in Seq(Nat) /\ v.start # <<>>
    /\ v.start[1] = 0
    /\ \A k \in Boxes(v) :
          /\ v.start[k] + 8 <= Len(v.data)
          /\ BoxSize(v.data, v.start[k]) >= IF IsXmp(v.data, v.start[k]) THEN 24 ELSE 8
          /\ v.start[k + 1] = v.start[k] + BoxSize(v.data, v.start[k])
    /\ \A s \in v.start[Len(v.start)]..Len(v.data) : ~IsXmp(v.data, s)

ASSUME VideoAssumption == \A v \in Videos : IsVideo(v)

-----------------------------------------------------------------------------
VARIABLES
    video,  \* the file that is probed
    at,     \* the index of the scan
    vmeta   \* what is known of the video

videoVars == <<video, at, vmeta>>

NoProbe == [ok |-> FALSE, streams |-> <<>>, spherical |-> FALSE, year |-> 0]
NoVideo == [data |-> <<>>, start |-> <<>>, probe |-> NoProbe]
NoMeta == [width |-> 0, is360 |-> FALSE, year |-> 0]

VideoInit == video = NoVideo /\ at = 0 /\ vmeta = NoMeta

VideoStreams(p) == {k \in DOMAIN p.streams : p.streams[k].type = "video"}

\* What is made of ffprobe's answer; without one nothing is known.
Probed(p) ==
    LET sized == {k \in VideoStreams(p) : p.streams[k].width > 0} IN
    IF ~p.ok THEN NoMeta
    ELSE [width |-> IF sized = {} THEN 0 ELSE p.streams[Min(sized)].width,
          is360 |-> p.spherical \/ \E k \in VideoStreams(p) : p.streams[k].spherical,
          year |-> IF p.year >= 2000 THEN p.year ELSE 0]

Probe ==
    /\ video = NoVideo
    /\ \E v \in Videos : video' = v /\ vmeta' = Probed(v.probe)
    /\ UNCHANGED at

\* The loop goes on; it is not begun if ffprobe has failed or said enough.
Searching == video.probe.ok /\ ~vmeta.is360 /\ at + 8 <= Len(video.data)

\* A size that cannot be one is stepped over, byte by byte.
SkipNoBox ==
    /\ Searching /\ BoxSize(video.data, at) < 8
    /\ at' = at + 1
    /\ UNCHANGED <<video, vmeta>>

\* The text of a box of XMP, as far as it was read.
TextAt(v, s) == SubSeq(v.data, s + 25, Min({s + BoxSize(v.data, s), Len(v.data)}))

Finds == IsXmp(video.data, at) /\ PanoramaText \in Range(TextAt(video, at))

FindPanorama ==
    /\ Searching /\ BoxSize(video.data, at) >= 8 /\ Finds
    /\ vmeta' = [vmeta EXCEPT !.is360 = TRUE]
    /\ UNCHANGED <<video, at>>

\* Mutation: the size of a box is counted without its header.
SkipBoxLate ==
    /\ Searching /\ BoxSize(video.data, at) >= 8 /\ ~Finds
    /\ at' = at + 8 + BoxSize(video.data, at)
    /\ UNCHANGED <<video, vmeta>>

SkipBox ==
    /\ Searching /\ BoxSize(video.data, at) >= 8 /\ ~Finds
    /\ at' = at + BoxSize(video.data, at)
    /\ UNCHANGED <<video, vmeta>>

detectIs360FromMP4Bytes == SkipNoBox \/ FindPanorama \/ SkipBox

VideoNext == Probe \/ detectIs360FromMP4Bytes

VideoSpec == VideoInit /\ [][VideoNext]_videoVars

-----------------------------------------------------------------------------
\* A box at the top level of the file is one of XMP, and its text says that
\* this is a panorama.
BoxSays(v, k) == IsXmp(v.data, v.start[k]) /\ PanoramaText \in Range(TextAt(v, v.start[k]))

\* A video is a panorama only if ffprobe can read it and either says so of a
\* video stream or of the file, or the file has an XMP box at its top level
\* that says so, whichever boxes come before it, hold one like it or look alike.
VideoIsUnderstood ==
    video # NoVideo /\ ~Searching =>
        (vmeta.is360 <=>
            /\ video.probe.ok
            /\ \/ video.probe.spherical
               \/ \E s \in Range(video.probe.streams) : s.type = "video" /\ s.spherical
               \/ \E k \in Boxes(video) : BoxSays(video, k))
=============================================================================
