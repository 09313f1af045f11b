------------------------------ MODULE MediaTypes -----------------------------
(***************************************************************************)
(* The type of an upload and the extension it is stored under, which the   *)
(* two upload paths find in their own ways: processPart from the bytes,    *)
(* tusd's hooks from what the browser declares.  One file is uploaded by   *)
(* both of them.                                                           *)
(***************************************************************************)
EXTENDS FiniteSets

NoType == ""
NoExt == ""
Octets == "application/octet-stream"

\* allowedMIMEs
Allowed ==
    {"image/jpeg", "image/png", "image/webp", "image/heic", "image/heif", "video/mp4",
     "video/quicktime", "video/webm", "video/ogg", "video/x-msvideo"}

\* extensionForMIME
Extension(type) ==
    CASE type = "image/jpeg" -> ".jpg"
      [] type = "image/png" -> ".png"
      [] type = "image/webp" -> ".webp"
      [] type \in {"image/heic", "image/heif"} -> ".heic"
      [] type = "video/mp4" -> ".mp4"
      [] type = "video/quicktime" -> ".mov"
      [] type = "video/webm" -> ".webm"
      [] type = "video/ogg" -> ".ogv"
      [] type = "video/x-msvideo" -> ".avi"
      [] OTHER -> NoExt

Extensions ==
    {".mp4", ".m4v", ".mov", ".webm", ".ogv", ".ogg", ".avi", ".jpg", ".jpeg", ".png", ".webp",
     ".heic", ".heif"}

MIMEFromExtension(ext) ==
    CASE ext \in {".mp4", ".m4v"} -> "video/mp4"
      [] ext = ".mov" -> "video/quicktime"
      [] ext = ".webm" -> "video/webm"
      [] ext \in {".ogv", ".ogg"} -> "video/ogg"
      [] ext = ".avi" -> "video/x-msvideo"
      [] ext \in {".jpg", ".jpeg"} -> "image/jpeg"
      [] ext = ".png" -> "image/png"
      [] ext = ".webp" -> "image/webp"
      [] ext \in {".heic", ".heif"} -> "image/heic"
      [] OTHER -> NoType

\* What net/http sniffs of the bytes of a file of a type, and what browsers
\* declare, which go by the name and may not know it.  Of OGG and AVI files
\* net/http sniffs types that processPart refuses.
Sniffs(type) ==
    CASE type \in {"image/jpeg", "image/png", "image/webp", "video/webm"} -> {type}
      [] type = "video/mp4" -> {type, Octets}
      [] type \in {"image/heic", "video/quicktime"} -> {Octets}
      [] OTHER -> {}

Declares(type) == {NoType, Octets} \cup {t \in Allowed : Extension(t) = Extension(type)}

\* Files by their true type, with the extension of one of that type, or with
\* none if both bytes and browser tell it.
Files ==
    {f \in [type : Allowed, ext : Extensions \cup {NoExt},
            sniffed : Allowed \cup {Octets}, declared : Allowed \cup {Octets, NoType}] :
        /\ f.sniffed \in Sniffs(f.type)
        /\ f.declared \in Declares(f.type)
        /\ \/ MIMEFromExtension(f.ext) = f.type
           \/ f.ext = NoExt /\ f.sniffed = f.type /\ f.declared = f.type}

NoFile == [type |-> NoType, ext |-> NoExt, sniffed |-> NoType, declared |-> NoType]

Pending == [type |-> NoType, ext |-> "pending"]
Refused == [type |-> NoType, ext |-> "refused"]

VARIABLES
    file,      \* the file that is uploaded
    filetype,  \* what preCreate has passed on in the upload's metadata
    byForm,    \* the type and the extension it has got from processPart
    byTus      \* and from finishUpload

types == <<file, filetype, byForm, byTus>>

TypesInit == file = NoFile /\ filetype = NoType /\ byForm = Pending /\ byTus = Pending

Choose ==
    /\ file = NoFile
    /\ file' \in Files
    /\ UNCHANGED <<filetype, byForm, byTus>>

\* The type that is known, or else by the file's extension.
TypeOf(known, vague, ext) ==
    IF known \in vague /\ MIMEFromExtension(ext) # NoType THEN MIMEFromExtension(ext) ELSE known

\* processPart goes by the bytes, and stores under the type's extension.
processPart ==
    LET t == TypeOf(file.sniffed, {Octets, "application/zip"}, file.ext) IN
    /\ file # NoFile /\ byForm = Pending
    /\ byForm' = IF t \in Allowed THEN [type |-> t, ext |-> Extension(t)] ELSE Refused
    /\ UNCHANGED <<file, filetype, byTus>>

\* Mutation: preCreate passes on the type the browser declared.
PreCreatePassesOn ==
    LET t == TypeOf(file.declared, {NoType, Octets}, file.ext) IN
    /\ file # NoFile /\ filetype = NoType /\ byTus = Pending
    /\ IF t \in Allowed
       THEN filetype' = file.declared /\ UNCHANGED byTus
       ELSE byTus' = Refused /\ UNCHANGED filetype
    /\ UNCHANGED <<file, byForm>>

\* preCreate goes by what the browser declares, and passes on what it found.
preCreate ==
    LET t == TypeOf(file.declared, {NoType, Octets}, file.ext) IN
    /\ file # NoFile /\ filetype = NoType /\ byTus = Pending
    /\ IF t \in Allowed
       THEN filetype' = t /\ UNCHANGED byTus
       ELSE byTus' = Refused /\ UNCHANGED filetype
    /\ UNCHANGED <<file, byForm>>

\* finishUpload asks again, and stores under the extension of the file's name
\* if it has one.
finishUpload ==
    /\ filetype # NoType /\ byTus = Pending
    /\ byTus' = IF filetype \in Allowed
                THEN [type |-> filetype,
                      ext |-> IF file.ext = NoExt THEN Extension(filetype) ELSE file.ext]
                ELSE Refused
    /\ UNCHANGED <<file, filetype, byForm>>

TypesNext == Choose \/ processPart \/ preCreate \/ finishUpload

TypesSpec == TypesInit /\ [][TypesNext]_types

-----------------------------------------------------------------------------
\* A file whose extension, bytes and declared type agree (a member of Files) is
\* taken both ways, as a type with one extension, and the extension under which
\* it is stored, which is what it is served by, is one of that type.  Where the
\* three disagree the two ways may take it for different things.
PathsAgree == \A x \in {byForm, byTus} \ {Pending} :
    /\ x.type \in Allowed
    /\ Extension(x.type) = Extension(file.type)
    /\ Extension(MIMEFromExtension(x.ext)) = Extension(file.type)
=============================================================================
