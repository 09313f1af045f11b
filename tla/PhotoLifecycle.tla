---------------------------- MODULE PhotoLifecycle ---------------------------
(***************************************************************************)
(* One gallery's photos: the rows of the photos table, the files under     *)
(* UPLOADS_PATH, and everybody who changes them -                          *)
(*                                                                         *)
(*   the form upload     handler/upload.go    Upload, processPart          *)
(*   the tus upload      handler/tus.go       consumeHooks, finishUpload   *)
(*   the workers         worker/processor.go  process, processPhoto        *)
(*   the delete request  handler/upload.go    DeletePhoto                  *)
(*   the gallery delete  handler/admin.go     DeleteGallery                *)
(*                                                                         *)
(* Each is a goroutine that reads and writes the database and the disk in  *)
(* separate steps, with no transaction and no lock around them, so that    *)
(* the steps of all of them interleave.  The channel between the uploads   *)
(* and the workers is a set here (module WorkerPool has the channel).      *)
(*                                                                         *)
(* Faults names what may go wrong besides the interleavings:               *)
(*   "db"           a statement fails, or its outcome is not learnt        *)
(*   "disk"         a file cannot be written, moved or decoded             *)
(*   "dropGallery"  the gallery is deleted                                 *)
(*   "crash"        the process dies, or exits with work left, and starts  *)
(*                  again on the same database and disk                    *)
(***************************************************************************)
EXTENDS FiniteSets

CONSTANTS
    Photos,     \* the photo IDs the upload handlers draw
    TusPhotos,  \* those that arrive through tus, the others by the form
    Workers,    \* worker goroutines
    Deleters,   \* requests to delete a photo that are served at once
    Faults,     \* see above
    NoPhoto     \* what an idle worker or deleter holds

FaultKinds == {"db", "disk", "dropGallery", "crash"}

ASSUME LifecycleAssumption ==
    /\ TusPhotos \subseteq Photos
    /\ Faults \subseteq FaultKinds
    /\ NoPhoto \notin Photos

VARIABLES
    gallery,    \* whether the galleries row exists
    status,     \* [Photos -> ...]: the row's status, "none" for no row
    thumbPath,  \* [Photos -> ...]: which file the row's thumb_path names
    files,      \* the files on disk, as pairs of a photo and a kind
    intake,     \* [Photos -> ...]: where the upload of the photo stands
    jobs,       \* the photos whose job is in the channel
    worker,     \* [Workers -> [pc, photo]]
    deleter,    \* [Deleters -> [pc, photo, thumb]]
    born,       \* history: the photos that ever had a row
    stranded,   \* history: the photos whose job was lost, or ended with
                \* no status written
    unlinked    \* history: the photos whose files a delete has removed

dbVars == <<gallery, status, thumbPath>>
histVars == <<born, stranded, unlinked>>
vars == <<dbVars, files, intake, jobs, worker, deleter, histVars>>

Statuses == {"processing", "ready", "failed"}
FileKinds == {"staged", "original", "thumb"}
IntakeStates == {"idle", "staged", "taken", "saved", "inserted",
                 "accepted", "refused", "dropped", "cut"}

TypeOK ==
    /\ gallery \in BOOLEAN
    /\ status \in [Photos -> Statuses \cup {"none"}]
    /\ thumbPath \in [Photos -> {"original", "thumb"}]
    /\ files \in SUBSET (Photos \X FileKinds)
    /\ intake \in [Photos -> IntakeStates]
    /\ jobs \in SUBSET Photos
    /\ worker \in [Workers -> [pc : {"idle", "picked", "loaded", "read", "rendered", "erred"},
                               photo : Photos \cup {NoPhoto}]]
    /\ deleter \in [Deleters -> [pc : {"idle", "read", "unlinked"},
                                 photo : Photos \cup {NoPhoto},
                                 thumb : {"original", "thumb"}]]
    /\ \A w \in Workers : worker[w].pc = "idle" <=> worker[w].photo = NoPhoto
    /\ \A d \in Deleters : deleter[d].pc = "idle" <=> deleter[d].photo = NoPhoto
    /\ born \in SUBSET Photos
    /\ stranded \in SUBSET Photos
    /\ unlinked \in SUBSET Photos

IdleWorker == [pc |-> "idle", photo |-> NoPhoto]
IdleDeleter == [pc |-> "idle", photo |-> NoPhoto, thumb |-> "original"]

Init ==
    /\ gallery = TRUE
    /\ status = [p \in Photos |-> "none"]
    /\ thumbPath = [p \in Photos |-> "original"]
    /\ files = {}
    /\ intake = [p \in Photos |-> "idle"]
    /\ jobs = {}
    /\ worker = [w \in Workers |-> IdleWorker]
    /\ deleter = [d \in Deleters |-> IdleDeleter]
    /\ born = {}
    /\ stranded = {}
    /\ unlinked = {}

HasRow(p) == status[p] # "none"
Exists(p, kind) == <<p, kind>> \in files
Of(p, kinds) == {p} \X kinds

-----------------------------------------------------------------------------
(* Intake.  The two upload paths differ in how the original reaches its    *)
(* place; from there on processPart and finishUpload do the same.          *)

Advance(p, pc) == intake' = [intake EXCEPT ![p] = pc]

\* SaveOriginalFromReader has streamed the part into the originals directory.
\* requireGalleryEditor saw the gallery when the request came in.
SaveOriginal(p) ==
    /\ p \notin TusPhotos
    /\ intake[p] = "idle"
    /\ gallery
    /\ files' = files \cup Of(p, {"original"})
    /\ Advance(p, "saved")
    /\ UNCHANGED <<dbVars, jobs, worker, deleter, histVars>>

\* The part broke off or the disk refused it; SaveOriginalFromReader removed
\* what it had written, and the request reports the error.
SaveOriginalFails(p) ==
    /\ "disk" \in Faults
    /\ p \notin TusPhotos
    /\ intake[p] = "idle"
    /\ gallery
    /\ Advance(p, "refused")
    /\ UNCHANGED <<dbVars, files, jobs, worker, deleter, histVars>>

\* tusd has written the last chunk to the staging directory, and its PATCH
\* handler offers the event on CompleteUploads.  preCreate saw the gallery.
StageUpload(p) ==
    /\ p \in TusPhotos
    /\ intake[p] = "idle"
    /\ gallery
    /\ files' = files \cup Of(p, {"staged"})
    /\ Advance(p, "staged")
    /\ UNCHANGED <<dbVars, jobs, worker, deleter, histVars>>

\* Mutation: the consumer returns when finishUpload fails.
ConsumerBusyOrStopped == \E q \in TusPhotos : intake[q] \in {"taken", "saved", "inserted", "dropped"}

\* consumeHooks, one goroutine, is at its select and takes the event; with
\* that the PATCH is answered and the browser shows the file as done.
ConsumerBusy == \E q \in TusPhotos : intake[q] \in {"taken", "saved", "inserted"}

TakeUpload(p) ==
    /\ p \in TusPhotos
    /\ intake[p] = "staged"
    /\ ~ConsumerBusy
    /\ Advance(p, "taken")
    /\ UNCHANGED <<dbVars, files, jobs, worker, deleter, histVars>>

\* finishUpload renames the staged file, or copies and removes it.
MoveOriginal(p) ==
    /\ intake[p] = "taken"
    /\ files' = (files \ Of(p, {"staged"})) \cup Of(p, {"original"})
    /\ Advance(p, "saved")
    /\ UNCHANGED <<dbVars, jobs, worker, deleter, histVars>>

\* Neither worked: finishUpload returns and consumeHooks cleans the staging
\* directory.  A copy that breaks off leaves what it had copied.
MoveOriginalFails(p) ==
    /\ "disk" \in Faults
    /\ intake[p] = "taken"
    /\ \E partial \in SUBSET Of(p, {"original"}) :
          files' = (files \ Of(p, {"staged"})) \cup partial
    /\ Advance(p, "dropped")
    /\ UNCHANGED <<dbVars, jobs, worker, deleter, histVars>>

\* PhotoStore.Create: the row starts as 'processing' with the original as
\* its thumb_path.  The foreign key wants the gallery.
Insert(p) ==
    /\ intake[p] = "saved"
    /\ gallery
    /\ status' = [status EXCEPT ![p] = "processing"]
    /\ thumbPath' = [thumbPath EXCEPT ![p] = "original"]
    /\ born' = born \cup {p}
    /\ Advance(p, "inserted")
    /\ UNCHANGED <<gallery, files, jobs, worker, deleter, stranded, unlinked>>

\* The form reports an error; a tus upload has been answered long ago.
Rejected(p) == IF p \in TusPhotos THEN "dropped" ELSE "refused"

\* Mutation: the roll-back of the file is forgotten.
InsertFailsKeepsFile(p) ==
    /\ intake[p] = "saved"
    /\ ~gallery \/ "db" \in Faults
    /\ Advance(p, Rejected(p))
    /\ UNCHANGED <<dbVars, files, jobs, worker, deleter, histVars>>

\* Create returned an error: the file is rolled back.
InsertFails(p) ==
    /\ intake[p] = "saved"
    /\ ~gallery \/ "db" \in Faults
    /\ files' = files \ Of(p, {"original"})
    /\ Advance(p, Rejected(p))
    /\ UNCHANGED <<dbVars, jobs, worker, deleter, histVars>>

\* Create returned an error (the request was cancelled, the connection broke)
\* though the database had committed the row: the file is rolled back and no
\* job is enqueued.
InsertUnlearnt(p) ==
    /\ "db" \in Faults
    /\ intake[p] = "saved"
    /\ gallery
    /\ status' = [status EXCEPT ![p] = "processing"]
    /\ thumbPath' = [thumbPath EXCEPT ![p] = "original"]
    /\ files' = files \ Of(p, {"original"})
    /\ born' = born \cup {p}
    /\ stranded' = stranded \cup {p}
    /\ Advance(p, Rejected(p))
    /\ UNCHANGED <<gallery, jobs, worker, deleter, unlinked>>

\* Mutation: a send that does not block, and drops the job when it would.
EnqueueOrDrop(p) ==
    /\ intake[p] = "inserted"
    /\ jobs' = IF jobs = {} THEN {p} ELSE jobs
    /\ Advance(p, "accepted")
    /\ UNCHANGED <<dbVars, files, worker, deleter, histVars>>

Enqueue(p) ==
    /\ intake[p] = "inserted"
    /\ jobs' = jobs \cup {p}
    /\ Advance(p, "accepted")
    /\ UNCHANGED <<dbVars, files, worker, deleter, histVars>>

-----------------------------------------------------------------------------
(* The workers: process and processPhoto.                                  *)

WorkerGoes(w, pc) == worker' = [worker EXCEPT ![w].pc = pc]

\* Mutation: the worker goes idle and keeps the photo it was on.
WorkerReturnsHolding(w) == worker' = [worker EXCEPT ![w].pc = "idle"]

\* process returns, whatever came of it, and run goes back to the channel.
WorkerReturns(w) == worker' = [worker EXCEPT ![w] = IdleWorker]

\* Mutation: the job is read without being taken from the channel.
PickKeepsJob(w) ==
    /\ worker[w].pc = "idle"
    /\ \E p \in jobs : worker' = [worker EXCEPT ![w] = [pc |-> "picked", photo |-> p]]
    /\ UNCHANGED <<dbVars, files, intake, jobs, deleter, histVars>>

Pick(w) ==
    /\ worker[w].pc = "idle"
    /\ \E p \in jobs :
          /\ jobs' = jobs \ {p}
          /\ worker' = [worker EXCEPT ![w] = [pc |-> "picked", photo |-> p]]
    /\ UNCHANGED <<dbVars, files, intake, deleter, histVars>>

\* GetByID finds the row, or finds it deleted, and then process returns.
LoadRow(w) ==
    /\ worker[w].pc = "picked"
    /\ IF HasRow(worker[w].photo) THEN WorkerGoes(w, "loaded") ELSE WorkerReturns(w)
    /\ UNCHANGED <<dbVars, files, intake, jobs, deleter, histVars>>

\* os.Stat and the read of the original.
ReadOriginal(w) ==
    /\ worker[w].pc = "loaded"
    /\ WorkerGoes(w, IF Exists(worker[w].photo, "original") THEN "read" ELSE "erred")
    /\ UNCHANGED <<dbVars, files, intake, jobs, deleter, histVars>>

\* The thumbnail, or a video's placeholder, is on disk.  The original need no
\* longer be: an image is decoded from the bytes that were read.
WriteThumb(w) ==
    /\ worker[w].pc = "read"
    /\ files' = files \cup Of(worker[w].photo, {"thumb"})
    /\ WorkerGoes(w, "rendered")
    /\ UNCHANGED <<dbVars, intake, jobs, deleter, histVars>>

\* The image cannot be decoded, or saving the thumbnail breaks off and
\* leaves a part of it.
RenderFails(w) ==
    /\ "disk" \in Faults
    /\ worker[w].pc = "read"
    /\ \E partial \in SUBSET Of(worker[w].photo, {"thumb"}) : files' = files \cup partial
    /\ WorkerGoes(w, "erred")
    /\ UNCHANGED <<dbVars, intake, jobs, deleter, histVars>>

\* Mutation: the row is flipped before the thumbnail is written.
UpdateProcessedEarly(w) ==
    LET p == worker[w].photo IN
    /\ worker[w].pc \in {"read", "rendered"}
    /\ IF HasRow(p)
       THEN /\ status' = [status EXCEPT ![p] = "ready"]
            /\ thumbPath' = [thumbPath EXCEPT ![p] = "thumb"]
       ELSE UNCHANGED <<status, thumbPath>>
    /\ WorkerReturns(w)
    /\ UNCHANGED <<gallery, files, intake, jobs, deleter, histVars>>

\* Mutation: an upsert, which brings back a row deleted in the meantime.
UpdateProcessedUpserts(w) ==
    LET p == worker[w].photo IN
    /\ worker[w].pc = "rendered"
    /\ gallery
    /\ status' = [status EXCEPT ![p] = "ready"]
    /\ thumbPath' = [thumbPath EXCEPT ![p] = "thumb"]
    /\ WorkerReturns(w)
    /\ UNCHANGED <<gallery, files, intake, jobs, deleter, histVars>>

\* UpdateProcessed, an UPDATE by ID: it changes no row when there is none.
UpdateProcessed(w) ==
    LET p == worker[w].photo IN
    /\ worker[w].pc = "rendered"
    /\ IF HasRow(p)
       THEN /\ status' = [status EXCEPT ![p] = "ready"]
            /\ thumbPath' = [thumbPath EXCEPT ![p] = "thumb"]
       ELSE UNCHANGED <<status, thumbPath>>
    /\ WorkerReturns(w)
    /\ UNCHANGED <<gallery, files, intake, jobs, deleter, histVars>>

\* Mutation: an original that is gone is taken for a deleted photo, and the
\* row is left as it is.
MarkFailedIfOriginal(w) ==
    LET p == worker[w].photo IN
    /\ worker[w].pc = "erred"
    /\ status' = IF HasRow(p) /\ Exists(p, "original") THEN [status EXCEPT ![p] = "failed"] ELSE status
    /\ WorkerReturns(w)
    /\ UNCHANGED <<gallery, thumbPath, files, intake, jobs, deleter, histVars>>

MarkFailed(w) ==
    LET p == worker[w].photo IN
    /\ worker[w].pc = "erred"
    /\ status' = IF HasRow(p) THEN [status EXCEPT ![p] = "failed"] ELSE status
    /\ WorkerReturns(w)
    /\ UNCHANGED <<gallery, thumbPath, files, intake, jobs, deleter, histVars>>

\* GetByID, UpdateProcessed or MarkFailed returned an error: process logs it
\* and returns, and nobody tries again.
StatusWriteFails(w) ==
    /\ "db" \in Faults
    /\ worker[w].pc \in {"picked", "rendered", "erred"}
    /\ stranded' = stranded \cup {worker[w].photo}
    /\ WorkerReturns(w)
    /\ UNCHANGED <<dbVars, files, intake, jobs, deleter, born, unlinked>>

-----------------------------------------------------------------------------
(* Deleting.                                                               *)

\* DeletePhoto reads the row, and with it the thumb_path it will remove.
ReadRow(d, p) ==
    /\ deleter[d].pc = "idle"
    /\ gallery
    /\ HasRow(p)
    /\ deleter' = [deleter EXCEPT ![d] = [pc |-> "read", photo |-> p, thumb |-> thumbPath[p]]]
    /\ UNCHANGED <<dbVars, files, intake, jobs, worker, histVars>>

\* Processor.DeletePhoto removes the files at the two paths of that row.
RemoveFiles(d) ==
    /\ deleter[d].pc = "read"
    /\ files' = files \ Of(deleter[d].photo, {"original", deleter[d].thumb})
    /\ unlinked' = unlinked \cup {deleter[d].photo}
    /\ deleter' = [deleter EXCEPT ![d].pc = "unlinked"]
    /\ UNCHANGED <<dbVars, intake, jobs, worker, born, stranded>>

\* PhotoStore.Delete.
DeleteRow(d) ==
    /\ deleter[d].pc = "unlinked"
    /\ status' = [status EXCEPT ![deleter[d].photo] = "none"]
    /\ deleter' = [deleter EXCEPT ![d] = IdleDeleter]
    /\ UNCHANGED <<gallery, thumbPath, files, intake, jobs, worker, histVars>>

\* It failed: the request answers 500 and the row stays, without its files.
DeleteRowFails(d) ==
    /\ "db" \in Faults
    /\ deleter[d].pc = "unlinked"
    /\ deleter' = [deleter EXCEPT ![d] = IdleDeleter]
    /\ UNCHANGED <<dbVars, files, intake, jobs, worker, histVars>>

\* GalleryStore.Delete: the rows of the photos go with the gallery's by
\* ON DELETE CASCADE.  Nothing removes a file.
DeleteGallery ==
    /\ "dropGallery" \in Faults
    /\ gallery
    /\ gallery' = FALSE
    /\ status' = [p \in Photos |-> "none"]
    /\ UNCHANGED <<thumbPath, files, intake, jobs, worker, deleter, histVars>>

-----------------------------------------------------------------------------
\* The photos whose job is somewhere on its way to a worker's status write.
Underway(p) ==
    \/ intake[p] = "inserted"
    \/ p \in jobs
    \/ \E w \in Workers : worker[w].pc # "idle" /\ worker[w].photo = p

InFlight == {"staged", "taken", "saved", "inserted"}

\* The process dies and main starts it again.  The channel, the workers and
\* the requests were in its memory; main enqueues nothing at its start.
Crash ==
    /\ "crash" \in Faults
    /\ stranded' = stranded \cup {p \in Photos : Underway(p)}
    /\ intake' = [p \in Photos |-> IF intake[p] \in InFlight THEN "cut" ELSE intake[p]]
    /\ jobs' = {}
    /\ worker' = [w \in Workers |-> IdleWorker]
    /\ deleter' = [d \in Deleters |-> IdleDeleter]
    /\ UNCHANGED <<dbVars, files, born, unlinked>>

-----------------------------------------------------------------------------
IntakeStep(p) ==
    \/ TakeUpload(p) \/ MoveOriginal(p) \/ MoveOriginalFails(p)
    \/ Insert(p) \/ InsertFails(p) \/ InsertUnlearnt(p) \/ Enqueue(p)

Arrive(p) == SaveOriginal(p) \/ SaveOriginalFails(p) \/ StageUpload(p)

WorkerStep(w) ==
    \/ Pick(w) \/ LoadRow(w) \/ ReadOriginal(w) \/ WriteThumb(w) \/ RenderFails(w)
    \/ UpdateProcessed(w) \/ MarkFailed(w) \/ StatusWriteFails(w)

DeleterStep(d) == RemoveFiles(d) \/ DeleteRow(d) \/ DeleteRowFails(d)

Next ==
    \/ \E p \in Photos : Arrive(p) \/ IntakeStep(p)
    \/ \E w \in Workers : WorkerStep(w)
    \/ \E d \in Deleters : DeleterStep(d) \/ \E p \in Photos : ReadRow(d, p)
    \/ DeleteGallery
    \/ Crash

Spec == Init /\ [][Next]_vars

\* Goroutines that can run do run.  Nobody has to upload, to delete or to
\* crash.
Fairness ==
    /\ \A p \in Photos : WF_vars(IntakeStep(p))
    /\ \A w \in Workers : WF_vars(WorkerStep(w))
    /\ \A d \in Deleters : WF_vars(DeleterStep(d))

FairSpec == Spec /\ Fairness

-----------------------------------------------------------------------------
(* Properties.                                                             *)

\* A row says 'processing' only while its job is on its way to a worker, or
\* was lost to a failed status write, an insert of unknown outcome or a crash.
ProcessingHasJob ==
    \A p \in Photos : status[p] = "processing" => Underway(p) \/ p \in stranded

\* A photo is on one worker at most, and not in the channel at that time:
\* no two workers write one thumbnail or race for one status.
OneWorkerPerPhoto ==
    /\ \A w \in Workers : worker[w].pc # "idle" => worker[w].photo \notin jobs
    /\ \A v, w \in Workers :
          worker[v].pc # "idle" /\ worker[v].photo = worker[w].photo => v = w

\* A 'ready' photo has its original and its thumbnail on disk and names the
\* latter, unless a delete request has been at its files.
ReadyIsBacked ==
    \A p \in Photos : status[p] = "ready" /\ p \notin unlinked =>
        /\ thumbPath[p] = "thumb"
        /\ Exists(p, "original")
        /\ Exists(p, "thumb")

\* A delete request that read a row whose thumbnail was already recorded has
\* removed every file of the photo, and no worker writes one again behind it.
CleanDelete ==
    \A d \in Deleters : deleter[d].pc = "unlinked" /\ deleter[d].thumb = "thumb" =>
        \A k \in FileKinds : ~Exists(deleter[d].photo, k)

\* Uploads roll back: without a crash, a broken copy or a deleted gallery
\* every original on disk belongs to a row or is about to get one, and every
\* staged file belongs to an upload that is being finished.
NoStrayUpload ==
    \A p \in Photos :
        /\ Exists(p, "original") => HasRow(p) \/ intake[p] = "saved"
        /\ Exists(p, "staged") => intake[p] \in {"staged", "taken"}

\* The rows lead the lives PhotoStatus allows: settled once, never back to
\* 'processing', never back from the dead.
PhaseOf(p) ==
    CASE HasRow(p) -> status[p]
      [] ~HasRow(p) /\ p \in born -> "removed"
      [] OTHER -> "unborn"
Life == INSTANCE PhotoStatus WITH phase <- [p \in Photos |-> PhaseOf(p)]
PhotoStatusSpec == Life!Spec

\* Nothing is happening to p any more.
Quiet(p) ==
    /\ intake[p] \notin InFlight
    /\ ~Underway(p)
    /\ \A d \in Deleters : deleter[d].pc # "idle" => deleter[d].photo # p

\* Processor.DeletePhoto "removes original and thumbnail files for a photo
\* from disk": a deleted photo leaves no file behind.
DeletedLeavesNoFile ==
    \A p \in Photos : p \in born /\ ~HasRow(p) /\ Quiet(p) => ~\E k \in FileKinds : Exists(p, k)

\* Every photo settles, also when its files or its row are deleted under the
\* worker, unless its job was lost or its status write failed.
SettlesOrStranded ==
    \A p \in Photos : status[p] = "processing" ~> status[p] # "processing" \/ p \in stranded

\* Every upload whose bytes arrived comes to an end: accepted, refused or
\* dropped.  The single consumer of tus events is no bottleneck for ever.
UploadEnds ==
    \A p \in Photos : intake[p] \in InFlight ~> intake[p] \notin InFlight
=============================================================================
