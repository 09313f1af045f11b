# Verification of openscape

openscape is a self-hosted photo gallery: a Go server (`cmd/openscape`, `internal/`) with a
PostgreSQL database, a directory of files (`UPLOADS_PATH`) and HTML pages driven by HTMX. This
directory holds TLA+ models of it, the TLC runs that check them and proofs about them that TLAPS
checks. `PROJECT.json` says, definition by definition, which lines of the source each model stands
for (`map`), and lists the runs, the hazards, the findings and the theorems.

To check a run or a proof, in this directory:

    tlc -config LifeFaults.cfg PhotoLifecycle.tla
    tlapm PhotoLifecycleProofs.tla

## 1. Inventory

| Component | Source | State it keeps | Operations | Module |
| --- | --- | --- | --- | --- |
| Worker pool | `internal/worker/processor.go` | buffered channel of jobs, `NumCPU` worker goroutines, a WaitGroup, a `sync.Once` | `Enqueue`, `run`/`process`, `Shutdown` | `WorkerPool` |
| Photo intake, processing, removal | `handler/upload.go`, `handler/tus.go`, `worker/processor.go`, `media/processor.go`, `repository/photo.go` | rows of `photos` (`status`, `thumb_path`), files `originals/`, `thumbs/`, `.tus/` | `Upload`/`processPart`, `consumeHooks`/`finishUpload`, `process`, `DeletePhoto`, `DeleteGallery` | `PhotoLifecycle` |
| Server process | `cmd/openscape/main.go` | listener, goroutines, two deadlines | start, signal, `srv.Shutdown`, `workerPool.Shutdown`, `pool.Close`, return | `Server` |
| Gallery order | `repository/photo.go`, `handler/upload.go` | `sort_order`, `captured_at` | `GetNextSortOrder`, `Reorder`, `SortByDate`, `ListByGallery`, `Neighbors` | `GalleryOrder` |
| Gallery administration | `handler/admin.go`, `repository/gallery.go` | rows of `galleries`, `gallery_members` | create, update, delete, cover, members | `GalleryAccess`, `Accounts` |
| Gallery access | `auth/gallery_access.go`, `handler/gallery.go`, `repository/gallery_session.go` | `gallery_sessions`, cookies | unlock, view, expire | `GalleryAccess` |
| Users | `handler/auth.go`, `setup.go`, `users.go`, `repository/user.go` | rows of `users`, session cookies, a cached "set up" flag | set up, register, log in, delete | `Accounts` |
| Rate limiter | `middleware/ratelimit.go` | a map of token buckets under a mutex | allow, evict, stop | `RateLimiter` |
| Slugs | `repository/gallery.go`, `handler/helper.go` | none | `Slugify`, `isValidSlug`, `SlugExists` | `Slug` |
| Media detection | `media/metadata.go`, `handler/upload.go`, `handler/tus.go` | none | MIME types, EXIF dates, panoramas | `MediaTypes`, `JpegMeta`, `VideoMeta` |
| Configuration, database | `config`, `db` | none | load, connect, migrate | none |
| Front end | `web/` | the browser's upload queue | pump, poll, reorder | none |

**How they interact.** An upload handler writes the original, inserts a row with status `processing`
and `thumb_path` naming the original, and enqueues a job: a form upload does so on its request's
goroutine, a tus upload on the one goroutine `consumeHooks`, which takes the completed uploads one
at a time from a channel of tusd's. A worker takes the job, reads the row, reads the original,
writes the thumbnail and flips the row to `ready` or `failed`. Delete requests remove files and rows
at any time. `main` stops the HTTP server, then the pool, each with a deadline of 30 s, closes the
database connections, without one, and returns. Requests of editors and administrators read who is
asking and what they may do, and write later; nothing but the database's constraints holds in
between. There is no lock and no transaction around any of these sequences (but for `Reorder`): the
database's statements are the only atomic steps.

**What is hard.** Steps of uploads, workers and deletes interleave on the same row and files; each
step may fail; the queue is in memory; the pool's channel is closed while goroutines that send on
it may still run; one goroutine serves all tus uploads and parks on the full channel; rights and
rows are read in one statement and acted on in another; unlock sessions belong to a gallery but
their cookies to a slug, which moves; limiters are evicted while requests hold them. The list
`hazards` of `PROJECT.json` names each at its line.

**What makes each component correct.**

- *Worker pool*: accepted jobs are neither lost nor duplicated and start in order; a drain that
  is reported is complete; accepted jobs are processed; Shutdown ends.
- *Photo intake, processing, removal*: a `processing` row has a job; a settled row stays settled
  and a deleted one deleted; a `ready` row has its files; failed uploads roll back; a delete
  leaves no file; every photo settles.
- *Server process*: the order HTTP, pool, return keeps sends away from the closed channel; a clean
  exit loses nothing reported as uploaded; a signalled process ends if the database answers.
- *Gallery order*: uploads keep their order; concurrent reorders take effect whole; arrow keys
  follow the grid; a sort is chronological.
- *Gallery administration*: an update does not undo another; a gallery that is not protected keeps
  no password; the cover is a photo of the gallery; a deleted gallery leaves no file.
- *Gallery access*: whoever is let into a protected gallery has given its password within a day; a
  session lasts as long as it was promised.
- *Users*: never again without an administrator; deleting a user takes no photo from others.
- *Rate limiter*: eviction never gives a client more than its bucket would, nor less.
- *Slugs*: what `Slugify` makes, the settings page accepts.
- *Media detection*: both upload paths agree on types; scans find what is there and nothing else.

## 2. What is modelled

### WorkerPool, and JobLedger, which it implements

`WorkerPool` is the channel and everybody around it. A job is its photo ID; the upload handlers
draw a fresh ID for each photo and enqueue it once, so the goroutine that enqueues is indexed by
the job (`caller`). `queue`/`closed` are the Go channel: `Send` needs room, `SendOnClosed` panics
also when the sender was parked before the close, `Receive` still gets what a closed channel
buffers, `ExitLoop` is the end of the `range`. `CloseJobs`, `Drained` and `GiveUp` are
`Shutdown`'s `close`, and the two branches of its `select`. `accepted` is history.

`JobLedger` is what callers rely on, without a channel: jobs are accepted while intake is open,
started in that order with at most `Width` in progress, finished once, and "drained" is said only
when all are. The refinement maps `started` to the accepted jobs no longer in the buffer.

### PhotoLifecycle, and PhotoStatus, which its rows implement

`PhotoLifecycle` is one gallery: `gallery`, `status` and `thumbPath` are the database; `files` the
disk, as pairs of a photo and a kind; `intake`, `worker` and `deleter` the program counters of the
goroutines, with what they hold; `jobs` the channel as a set (its order and capacity are
`WorkerPool`'s subject). An action is the code between two points at which another goroutine can
be seen: a statement, a file operation, a channel operation. The two upload paths differ until the
original is in place and share `Insert`, `InsertFails`, `InsertUnlearnt` and `Enqueue`, because
`processPart` and `finishUpload` do the same from there. One form request with several parts is
several photos here, in any order, which includes the one the request has. The answer to such a
request is not modelled: it reports success if one part went well, also when another failed
(`upload.go:97`).

`Faults` turns faults on: `db` (a statement fails, or an insert commits and its answer is lost),
`disk` (a write, a move or a decode fails), `dropGallery`, `crash` (the process ends at any point
and starts again with what database and disk hold). The photos a failed or cut-off step may leave
behind are recorded in `stranded`, which is how `ProcessingHasJob` can be exact about them.

`PhotoStatus` is a photo's life as the page relies on it: it appears as `processing`, settles once
and may be removed at any time for good.

### Server

`Server` puts the pool (`Pool == INSTANCE WorkerPool`) into the process: requests that upload, by
form or tus (one part each); `consumeHooks`; and `main` from the signal on. Its actions take the
pool's actions as they are and add who may take them. A panic of a form request is recovered; one of
`consumeHooks` ends the process. `HttpCut` and `DrainCut` are the two deadlines, which may pass at
any time. When `Shutdown` has returned, `main`'s deferred `pool.Close()` begins (`CloseConnections`):
no statement gets a connection any more, and `MainReturns` waits until those that have one are
answered, without a deadline. Until then the other goroutines run on (`Up`). `statement` is how far
the insert of a photo, by its request or `consumeHooks`, and the statements of its worker are:
issued on a connection (`Issue`) and answered (`Answers`) in steps of their own. The several
statements of a worker are one here, and so are those of an upload; that goroutines may have to wait
for a free connection is not modelled.

### GalleryOrder, and Arrangement, which it implements

`GalleryOrder` is the column `sort_order` of one gallery: `place` is what is committed. An upload
draws its number (`Draw`, or `DrawFails`: both upload paths drop the statement's error and go on
with 0) and inserts its row in two statements. `ReorderPhotos` and `SortByDate` open with a list
and end in the same transaction of `Reorder`: one `UpdateRow` per listed photo, which locks the
row, then `Commit` or `Rollback`. A list names each row there is when it is sent; rows may go and
come while the request is open. PostgreSQL is external and modelled as the code uses it, at its
default READ COMMITTED: a statement alone is a step, an UPDATE or DELETE waits for a locked row,
and one transaction of a circle of waiting ones is failed (`DeadlockVictim`). `viewer` is the
progress of a photo page through the three reads of `Neighbors`. `seen` and `overtaken` are
history: what an upload follows, and which sorts and pages something was committed behind.

`Arrangement` is what editors rely on: a request to reorder takes effect as a whole or not at all.

### GalleryAccess

What a visitor without an account meets: the columns `slug`, `visibility` and `password_hash` of
`galleries` (`row`), the table `gallery_sessions` (`session`, with the ticks until `expires_at`) and
each browser's cookies (`jar`, one per slug). `UpdateGallery` reads a row (`UpdateReads`) and writes
all columns later (`UpdateWrites`, with `NewHash` for the three cases of the password field);
`CreateGallery` and `DeleteGallery` are a statement each, with the unique slug and the cascade to
sessions. `UnlockPost` is the request whose password matched the hash it had read, and `OpenSession`
the session and the cookie it sets, under the slug of the URL: in between the gallery may have been
renamed, protected anew or deleted. `Tick` moves the clock; `DeleteExpired` is the cleanup that
`main` runs every six hours (`main.go:66`), here at any time. `HasSession` and `Allowed` are
`GetByGallery` and `CheckGalleryAccess` for somebody who is not logged in; the gallery that the page
had read may be stale by then, which is why `Allowed` takes the gallery, slug and visibility it was
called with. `proof` is history: the ticks for which a visitor may claim to have unlocked a gallery.

### Accounts

Users and everything that hangs on them by a foreign key. A request is how far it has come and
what it knows: `InjectUser` has found its user, `Checks` has found the user to be owner or editor
of a gallery, `CoverChecks` has found the photo to be one of the gallery's; each later step uses
what was found, whatever has been deleted or taken away since. `SetupCounts`/`SetupCreates` are the
two statements of the first-run setup, `RegisterPasses`/`RegisterCreates` registration behind
`CheckSetup`, whose cached flag is `setupDone`. `Keeps` and `Blocks` are the foreign keys: what
goes with a deleted row, and which photos stop a user from being deleted. One `Checks` for editors
stands for `requireGalleryEditor` and for tusd's `preCreate`, since both ask the same; the upload
behind a tus check comes at any later time. `trusted`, `late` and `blind` are history: who was ever
an editor of what, and whether one of the two exceptions of `AdminRemains` has happened.

### RateLimiter, and TokenBucket, which it implements

`limiters` is the map under the mutex, `bucket` the `rate.Limiter` objects, `held` the object that a
request has fetched with `getLimiter` and will ask with `Allow` or `Refuse` once the mutex is
released. `evict` removes every limiter past the cutoff, `Stop` ends the goroutine that calls it.
A tick is the time a token takes. `TokenBucket` is what a client is promised: one bucket for ever.

### Slug, MediaTypes, JpegMeta and VideoMeta

The parts that stand alone. Each is a module with a state of its own and runs by itself; `MCUnits`
puts them side by side with the rate limiter and holds their inputs.

`Slug`: `CreateGallery` gives a gallery one of the slugs it tries (`Candidates`), because another
may have the first and the second. `Slugify` is written replacement by replacement: a replacement
keeps the characters at some places (`At`); characters stand for their class. `isValidSlug` is what
the settings page asks for.

`MediaTypes`: one file is uploaded on both paths. `processPart` takes the type from the bytes,
`preCreate` from the browser's word, which it passes on in `filetype`, and `finishUpload` asks
again and picks the extension. `Sniffs` and `Declares`, external, say what `net/http` and browsers
may make of a file; a file either has an extension of its type or is known by its bytes and to the
browser. OGG and AVI files, of which the two paths differ, are left out (section 4).

`JpegMeta`: the loop of `extractJPEGMeta`, one action per branch, over a sequence of bytes with the
code's own index arithmetic; only headers, texts and TIFF data, which the code compares or passes
on as a whole, are one symbol. `extractExifDate` walks the directories of TIFF data (`Walk`). The
file carries the starts of its segments, which the scan does not look at and `Says`, the meaning it
is compared with, is built from. `VideoMeta` is the same for ffprobe's answer (`Probed`) and the
scan over boxes behind it.

### What is abstracted, and assumed

- Contents of files and of rows other than the columns named; formats, sizes, titles.
- `os.Remove` succeeds on a file that is there (the code ignores or logs its errors).
- The read of the gallery that checks the editor's role and the first step of a request are one
  step in `PhotoLifecycle`; `Accounts` has them apart.
- A worker's reads of the original are one read; what fails later in decoding is `RenderFails`.
- tusd and the browser are external: tusd is what `consumeHooks` sees of it, an upload that is
  complete exactly once. A `DELETE` of a tus upload changes nothing in the server's own state.
- A gallery has at most `MaxPhotoListLimit` photos: beyond them the grid ends and the arrows go on.
- `main`'s exit when the listener cannot be opened is not modelled: nothing has happened then.
- The program's clock and the database's are the same, and go at one speed. A browser may keep a
  cookie longer than its lifetime; the check does not rely on the browser to drop it.
- bcrypt hashes are never equal and tokens never drawn twice; a hash lets in whoever has its
  password. `net/http`'s sniffing, `rate.Limiter`, ffprobe and PostgreSQL are external.
- Viewer members are not in `Accounts`: they have no right there, and their role changes to and
  from editor as `AddMember` does.
- `main`'s limiters have a burst of 5, a token every 12 s and a cutoff of 10 minutes, 50 ticks:
  far more than the burst and the slowest request, which is what `RateAssumption` asks for.
- JPEGs are well-formed (`IsJpeg`): the start of the image, segments whose length counts itself,
  then a scan, and no two bytes like the marker of APP1 behind the last segment. A second JPEG
  appended to the first is left out by that; the scan would read its segments too.
- Videos are well-formed (`IsVideo`): boxes of a size of 8 at least, 24 for XMP, then nothing or a
  box of size 0 to the end of the file; the last box may be cut off behind the first 4 MB. 64-bit
  box sizes and XMP behind the first 4 MB are left out.
- The lists that `ReorderPhotos` is sent are permutations of the rows of that moment, as from a page
  that was just loaded. Lists from older pages, and with foreign or repeated ids, are not modelled.
- TIFF data (`IsTiff`) has each tag once, in the directory where it belongs.

## 3. Runs

| Run | Module, cfg | Instance | Shows |
| --- | --- | --- | --- |
| pool | WorkerPool, `WorkerPool.cfg` | 4 jobs, 2 workers, buffer 2 | nothing lost or duplicated, complete drain, implements `JobLedger`; accepted jobs are processed, Shutdown ends |
| life_faults | PhotoLifecycle, `LifeFaults.cfg` | a form and a tus photo, 2 workers, 2 deletes, all faults | rows, files and jobs agree; implements `PhotoStatus` |
| life_live | PhotoLifecycle, `LifeLive.cfg` | a form and 2 tus photos, 1 worker, 1 delete, failing statements | failed uploads leave nothing, photos settle, uploads end |
| server | Server, `Server.cfg` | 1 form and 3 tus uploads, 1 worker, buffer 1 | shutdown order, nothing reported is lost by a clean exit, no circular wait, the process ends if the database answers |
| order_write | GalleryOrder, `OrderWrite.cfg` | 3 photos, a reorder and an ascending sort | both are whole and end, uploads keep their order; a sort is chronological, undated photos included; implements `Arrangement` |
| order_read | GalleryOrder, `OrderRead.cfg` | 3 photos, a reorder, a page, 2 instants | the arrows follow the grid, also among equal keys |
| access | MCGalleryAccess, `Access.cfg` | 2 galleries, slugs, hashes and tokens, 1 visitor, 2 updates, sessions of 1 tick | only a gallery's own password lets in; without protection no password is kept; valid sessions stay |
| accounts | MCAccounts, `Accounts.cfg` | 2 users, 2 galleries, 1 photo, 2 requests | an administrator remains, covers are the gallery's own, uploads are by those who had the right, a deleted user takes no photo from others |
| units | MCUnits, `Units.cfg` | 2 clients, 2 requests, 4 limiters, burst 3; titles up to 6 characters, every kind of file, JPEGs of up to 3 segments, MP4s of up to 2 boxes | eviction keeps the bucket's promise; created slugs can be saved, both upload paths agree, the scans learn what the files say |
| life_delete_race | PhotoLifecycle, `LifeDeleteRace.cfg` | 1 photo | *violated*: a delete leaves the thumbnail |
| server_tus_panic | Server, `ServerTusPanic.cfg` | 1 form and 1 tus upload | *violated*: the consumer's panic cuts the drain |
| access_update_race | GalleryAccess, `AccessUpdateRace.cfg` | 1 gallery, 2 updates | *violated*: a replaced password comes back |

**Bounds.** Photos, jobs, requests, galleries, tokens and users are used once, so the instances are
the bounds. `MaxTime` and `ShotTimes` of `GalleryOrder` are the instants there are: `created_at` is
any of 0 to `MaxTime`, because `NOW()` is when a statement began and a later insert may bear an
earlier time; two instants tell equal, earlier and later apart. Four jobs fill a buffer of two with
two workers busy; with a buffer of one and one worker they leave one that parks its caller and one
that waits for that caller, which `server` needs to have at the consumer and therefore takes three
tus uploads. Two photos let both upload paths meet two workers and two deletes, which may both be at
one photo; the actors interact only through a photo, the gallery, the channel and the consumer, so a
third photo adds nothing but the queue at the consumer, which `life_live` has. Three photos are the
fewest with one between two others, with a number drawn twice and one above it, and with two lists
that overlap in different orders; two requests make a deadlock, and longer circles differ from it in
length only. In `order_write` all photos bear one upload time, and some are found to have been taken
at a later one: enough for a dated photo behind an undated one, and for a sort of undated photos in
any order. It sorts in ascending order only; `SortTheorem` has both directions. `order_read` has two
instants of upload and one editor, since pages that something was committed behind promise nothing.

In `access`, two galleries can swap two slugs or pass one on, two updates are the fewest of which
one overtakes the other, the second hash is one that replaces the first, and a session of one
tick has all three ages, valid, due and past. In `accounts`, two users are an administrator and
another, or two who delete each other, and two requests are the fewest of which one acts on what
the other has deleted. In `units`, `Burst`, `Keep` and `MaxStall` satisfy `RateAssumption` with
equality, so that an eviction comes as early as it may after a request fetched a limiter; two
requests share a client's limiter or hold two, two clients have two more to mix up, and ages stop
at `Keep + 1`, fillings at `Burst`, as more is the same to the code. `MaxCut` 4 puts the cut of a slug
at every place of a title, word or dash; three segments have every kind before and after every
other, and two boxes every kind behind every other, or inside. Symmetry is used where identities
are only compared for equality, and in no run with a liveness property.

**Deadlock** is off in all cfgs: each of these systems stops when all is uploaded, settled and
deleted, all identities are used, or the process has ended. What must not get stuck is stated as
liveness.

**Fairness.** `WF` for each goroutine's steps: the Go scheduler runs what can run, and every step of
`process` has a timeout of its own. None for requests that arrive, deletes, faults, the signal or a
crash. Of the deadlines, `pool` assumes that none passes. `server` assumes weak fairness of `main`
alone, and `ShutdownTerminates` has as its premise what the code does not see to: that the database
answers the statements it was sent (`DatabaseAnswers`), since the last of `main`'s three waits,
`pool.Close()`, has no deadline. No premise is made on workers, requests and `consumeHooks`, which
may hang anywhere outside a statement. `RequestsEnd` has as its premise that whenever a goroutine or
the database can go on, something of them does (`OthersGoOn`), and `order_write` assumes the same of
the transactions, the database's search for deadlocks included: that is all it takes, as each
request takes finitely many steps. Weak fairness suffices for the senders: a parked sender is served
in the order of parking by the Go runtime, and with each job enqueued once no other sender can
overtake for ever. `GalleryAccess`, `Accounts` and `RateLimiter` promise nothing that must happen in
the end, and assume no fairness: an expired session is refused whether or not it is ever removed.

## 4. Findings

Three runs find what the code's own words deny; `PROJECT.json` quotes them.

1. A photo deleted while it is processing can leave its thumbnail on disk (`upload.go:202`).
2. `consumeHooks` may send on the closed channel during the drain; the panic ends the process
   with accepted jobs unfinished (`tus.go:264`).
3. Of two overlapping `UpdateGallery` requests the second writes back every column the first has
   changed, the password included (`admin.go:127`).

Known limits of the code that the models show or that were met while reading, without a run of
their own:

- A row that is `processing` when the process ends stays so: jobs are kept in memory only and
  nothing enqueues them again (`main.go:56`). `ProcessingHasJob` is exact about it (`stranded`).
- The exit waits without a deadline for statements that are in flight (`main.go:40`): a database
  that does not answer keeps the process from ending. `ShutdownTerminates` has that as its premise.
- A tus upload that the consumer still has when the process ends is lost although its PATCH was
  answered (`tus.go:178`); `CleanExitLosesNothing` excepts exactly these.
- A deleted gallery leaves the files of its photos (`admin.go:220`): no step removes them.
- `Neighbors` compares a key it has read with rows it reads later (`photo.go:131`): a reorder in
  between can make a photo its own neighbour. `ArrowsFollowGrid` excepts such lookups (`overtaken`).
- `CheckSetup` takes a failed count of users for "set up" and remembers it (`auth.go:135`), so that
  the first account may be one without an administrator's rights: the exception `blind` of
  `AdminRemains`.
- A deletion of a user that was under way goes through although its own user has been deleted
  meanwhile (`users.go:68`), so that two administrators can delete each other: the exception `late`
  of `AdminRemains`.
- The scans of media files index with lengths that they do not check from below: an APP1 segment of
  length 0 or 1 (`metadata.go:246`) or an XMP box of size 8 to 23 (`metadata.go:212`) panics the
  worker, which has no `recover`, and with it the process. The models take well-formed files only.
- Boxes with a 64-bit size have the size field 1, which the scan takes for none; it steps through
  the box byte by byte (`metadata.go:200`), and whether XMP behind it is found depends on what is
  in it. `IsVideo` leaves such files out.
- An upload of several parts is answered as a success when one part went well (`upload.go:97`).
- A title of which the 60th character of the slug is a dash gets a slug that the settings page
  refuses until it is changed (`gallery.go:31`, `helper.go:45`; `CutAtDash`).
- The form path refuses OGG and AVI videos: `net/http` sniffs `application/ogg` and `video/avi`,
  which are not among the allowed types (`metadata.go:34`); the tus path accepts them.
- The README's fallback on the aspect ratio is never consulted, since `ExtractMetadata` sets no
  width (`metadata.go:70`, `processor.go:151`); and HEIC files are accepted, but no decoder is
  registered for them, so that they end as `failed`.
- README and configuration name different minima and defaults (`SESSION_SECRET`,
  `MAX_UPLOAD_MB`; `config.go:26`, `config.go:34`).

## 5. Proofs

All are checked by TLAPS for every value of the constants that satisfies the named assumptions
`PoolAssumption`, `LifecycleAssumption`, `ServerAssumption`, `OrderAssumption`, `RateAssumption`,
`AccessAssumption`, `AccountsAssumption`, `SlugAssumption`, `JpegAssumption` and `VideoAssumption`.
TLC evaluates each of them in a run.

**WorkerPoolProofs.** `OnePlace` is inductive given the types; the lemmas `AppendElements` and
`HeadTailElements` say what a send and a receive do to the set of buffered jobs. `DrainIsComplete`
is not inductive: `LoopEnds` adds that a worker leaves only a closed, empty channel and that
"drained" needs all workers gone. For the refinement, `LogEndsInBuffer` says that the buffer is the
end of the log `accepted`; then a receive starts the ledger's oldest job, and an idle worker is a
free slot by counting (`IdleWorkerIsFreeSlot`). Theorems: `TypeCorrect`, `NoLossNoDuplicate`,
`DrainTheorem`, `PoolImplementsLedger`.

**PhotoLifecycleProofs.** The invariant is a chain of five parts, each inductive given the ones
before it: where a job may be (`JobInv`), since when a photo has a row (`BirthInv`), what the row
says while the job is under way (`StatusInv`), what a worker's progress means for the files
(`FileInv`), and what a delete that read a processed row may count on (`DeleteInv`). The key is
`StatusInv`: `thumb_path` names a thumbnail only when no job of the photo is left, so such a delete
has no worker to race with. Theorems: `TypeCorrect`, `ProcessingJobTheorem`, `OneWorkerTheorem`,
`ReadyTheorem`, `CleanDeleteTheorem`, `RowsImplementStatus`; they hold for any set of `Faults`.
`RollbackTheorem` (`NoStrayUpload`) is the one that needs a premise, that only database statements
fail, as a broken copy, a deleted gallery and a crash do leave files; its
invariant `RollbackInv` adds that a delete which has removed a file does not find it back. It is
about files: an insert that committed and whose answer was lost leaves its row (`stranded`).

**ServerProofs.** Every step of the process is a step of the pool or leaves it alone
(`StepIsPoolStep`), so the pool's own steps are the ones to look at: `LoopEnds` and `NothingLost`
carry the pool's drain over, `HttpFirst` orders the shutdown, `RowFirst` says that nobody enqueues
before the row is in the database, and `CallersHeld` that the pool's callers are exactly the
requests and the consumer that wait for it. Theorems: `TypeCorrect`,
`ProcessRunsPool`, `FormTheorem`, `CleanExitTheorem`.

**GalleryOrderProofs.** `ListInv` says what a transaction has updated: the listed photos up to
where it is that still have a row, because rows it has updated are locked and rows that are gone
do not come back. At the commit that is the whole list, which is `Arrangement`'s step. `SeenInv`
follows an upload's place from the number drawn to the row. `SortInv` says that a sort that
nothing was committed behind still lists all rows, in order of their dates. For the arrows,
`ViewInv` says that each read of a page that nothing was committed behind found the row next to the
photo in the order of the keys; a row's `Rank`, the number of rows with smaller keys and one, then
makes a grid: ranks are an injection into 1..n and so take every place (`RanksAreTaken`), and the
rows the two queries find have the ranks before and after (`NeighborsRank`). Theorems:
`TypeCorrect`, `UploadOrderTheorem`, `ReordersAreWhole`, `SortTheorem`, `ArrowsTheorem`.

**RateLimiterProofs.** `HeldCurrent` says that the limiter a request holds is still the one in the
map, as its client was seen when the request fetched it; `Refilled` that a bucket which is not full
was used at the latest a stall after its client was seen. So what is evicted is full and held by
nobody (`EvictsFullOnly`), which is what `RateAssumption` is for; `Owned` keeps clients apart.
Theorems: `TypeCorrect`, `LimiterKeepsPromise`.

**GalleryAccessProofs.** `JarPaid`: a session's ticks are never more than those of the `proof` of
whoever has its cookie, for the session's own gallery; whichever gallery has the slug now, the check
asks for a session of that very gallery. Theorems: `TypeCorrect`, `EntryProved`, `ForgettingProved`,
`SessionsLastProved`.

**AccountsProofs.** `Admission` makes `AdminRemains` inductive: whoever registers or acts as a user
has passed `CheckSetup`, whose flag means that there are users; who deletes another is an
administrator and stays, but for the exceptions. `References` is what the foreign keys keep; it is
no result but a part of the invariant, which the others lean on. `Uploaders` and `Covers` say what a
request still knows for sure when it acts on an old check: that an id is never given out again, so a
gallery or photo that is still there is the one that was checked. Three kinds of steps, `Deletes`,
`Inserts` and `Passes`, cover most actions. Theorems: `TypeCorrect`, `AdminRemainsProved`,
`UploadersProved`, `CoversProved`, `OthersPhotosStayProved`.

**UnitsProofs.** None of the four needs induction over data, because each sequence is described by
its places. *Slugs*: the places that a replacement keeps have ranks 1 to n (`RanksAscend`,
`RanksAreTaken`), so no kept place lies between two that follow each other (`PlacesFollow`), and of
two dashes side by side one was dropped (`CollapsedDashes`); what is trimmed begins and ends with a
letter, a cut loses only the end, and a suffix makes words of words (`AnotherIsWordy`).
`SlugAssumption` is that two suffixes still fit, as with 60, 100 and 8. *Types*: what `preCreate`
passes on is an allowed type with the extension of the file's (`TypesInv`), for a file on which
extension, bytes and browser agree. *Scans*: the scan
stands at the start of the image or of a segment, having learnt exactly what the segments before it
say, or behind the last one, where it can learn nothing (`JpegInv`, `VideoInv`); so a turn is one
segment more (`SaysOneMore`, `LearnsOneMore`), and it cannot stop while a segment is ahead. The
date is that of the entries, in whatever order (`ExifDate`). Theorems: `SlugTheorem`,
`TypesTheorem`, `JpegTheorem`, `VideoTheorem`.

**Only model-checked**: the liveness properties (`AcceptedIsProcessed`, `ShutdownEnds`,
`SettlesOrStranded`, `UploadEnds`, `RequestsEnd`, `ShutdownTerminates`, `EditsEnd`), as TLAPS does
not prove temporal properties under fairness. Every other property of a run is a theorem. Of the
type invariants, those of `Server` and `RateLimiter` are proved only.

## 6. Not modelled

- *Configuration, database and migrations*: read and run once before anything is served; the
  constraints that the migrations declare are in `GalleryAccess`, `Accounts` and `GalleryOrder`.
- *Front end*: templates and the browser's upload pump. What it sends is what the modules'
  requests may be; two browsers may send anything at any time.
- *Within media detection*: the offsets and byte orders of TIFF data, the words looked for in XMP
  texts, malformed files. Within it, and in thumbnails, pixels.
- *Rendering and file serving*: they change nothing. The decision who may load a file is the same
  `CheckGalleryAccess` as for pages.
- *Access of logged-in users*: decided by owner, `is_admin` and membership alone, at the moment of
  the request; the tables it reads are in `Accounts`.

## 7. Plan

In this order, the most important behaviour first:

1. *Done*: `WorkerPool`, `PhotoLifecycle`, `Server`, `GalleryOrder` and the specifications they
   implement, with runs and proofs.
2. *Done*: `RateLimiter`, `GalleryAccess` and `Accounts`, with runs and proofs; the proofs of
   `NoStrayUpload`, `SortedByDate` and `ArrowsFollowGrid`.
3. *Done*: `Slug`, `MediaTypes`, `JpegMeta` and `VideoMeta` as state machines, with their proofs, so
   that every property of a run that is not liveness is a theorem.
4. Left: TIFF offsets and malformed media files; `GalleryAccess` and `Accounts` in one module with
   logged-in viewers.
