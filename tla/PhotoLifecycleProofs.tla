------------------------ MODULE PhotoLifecycleProofs -------------------------
(***************************************************************************)
(* Proofs about PhotoLifecycle, for any number of photos, workers and      *)
(* delete requests, and for any choice of Faults.                          *)
(*                                                                         *)
(* The invariant is a chain: where a job may be (JobInv), since when a     *)
(* photo has a row (BirthInv), what the row says while the job is on its   *)
(* way (StatusInv), and what that means for the files (FileInv) and for a  *)
(* delete request (DeleteInv).  Each is preserved by every step given the  *)
(* ones before it, and the properties are its consequences.                *)
(***************************************************************************)
EXTENDS PhotoLifecycle, TLAPS

\* A job exists only for an accepted upload, and in one place.
JobInv ==
    /\ \A p \in jobs : intake[p] = "accepted"
    /\ \A w \in Workers :
          worker[w].pc # "idle" => intake[worker[w].photo] = "accepted"
    /\ OneWorkerPerPhoto

\* A row is inserted once, between the save of the file and the enqueue, and
\* only an upload without a row has a staged file.
BirthInv ==
    \A p \in Photos :
        /\ HasRow(p) => p \in born
        /\ intake[p] \in {"idle", "staged", "taken", "saved"} => p \notin born
        /\ intake[p] \in {"inserted", "accepted"} => p \in born
        /\ Exists(p, "staged") => intake[p] \in {"staged", "taken", "cut"} /\ p \notin born

\* While the job is on its way the row, if there is one, says 'processing' and
\* names the original; when it is not, the row is settled or the job was lost.
StatusInv ==
    \A p \in Photos :
        /\ Underway(p) => status[p] \in {"processing", "none"}
        /\ thumbPath[p] = "thumb" => p \in born /\ ~Underway(p)
        /\ status[p] = "processing" => Underway(p) \/ p \in stranded

\* A worker past the read had an original and one past the write has written
\* a thumbnail, and both still are there unless a delete removed them.
FileInv ==
    /\ \A w \in Workers :
          /\ worker[w].pc \in {"read", "rendered"} =>
                Exists(worker[w].photo, "original") \/ worker[w].photo \in unlinked
          /\ worker[w].pc = "rendered" =>
                Exists(worker[w].photo, "thumb") \/ worker[w].photo \in unlinked
    /\ ReadyIsBacked

\* A delete that read a processed row has no worker to race with.
DeleteInv ==
    /\ \A d \in Deleters : deleter[d].pc # "idle" =>
          /\ deleter[d].photo \in born
          /\ deleter[d].thumb = "thumb" => ~Underway(deleter[d].photo)
    /\ CleanDelete

-----------------------------------------------------------------------------
(* The steps, one lemma for each part of the invariant.                    *)

\* Loading the row makes no job, and ends one only for a row that is gone.
LEMMA LoadRowEffect ==
    ASSUME TypeOK, NEW w \in Workers, LoadRow(w)
    PROVE  /\ worker[w].pc = "picked" /\ worker[w].photo \in Photos
           /\ \A v \in Workers : worker'[v].pc # "idle" =>
                 /\ worker[v].pc # "idle" /\ worker'[v].photo = worker[v].photo
                 /\ v = w => worker'[v].pc = "loaded"
                 /\ v # w => worker'[v] = worker[v]
           /\ \A q \in Photos : Underway(q)' => Underway(q)
           /\ \A q \in Photos : HasRow(q) /\ Underway(q) => Underway(q)'
           /\ UNCHANGED <<dbVars, files, intake, jobs, deleter, histVars>>
<1> DEFINE p == worker[w].photo
<1>1. worker[w].pc = "picked" /\ UNCHANGED <<dbVars, files, intake, jobs, deleter, histVars>>
  BY DEF LoadRow
<1>2. p \in Photos
  BY <1>1 DEF TypeOK
<1>3. \A v \in Workers : v # w => worker'[v] = worker[v]
  BY DEF LoadRow, WorkerGoes, WorkerReturns, TypeOK
<1>4. HasRow(p) => worker'[w].pc = "loaded" /\ worker'[w].photo = p
  BY DEF LoadRow, WorkerGoes, TypeOK
<1>5. ~HasRow(p) => worker'[w].pc = "idle"
  BY DEF LoadRow, WorkerReturns, IdleWorker, TypeOK
<1>6. \A v \in Workers : worker'[v].pc # "idle" =>
          /\ worker[v].pc # "idle" /\ worker'[v].photo = worker[v].photo
          /\ v = w => worker'[v].pc = "loaded"
          /\ v # w => worker'[v] = worker[v]
  BY <1>1, <1>3, <1>4, <1>5
<1>7. \A q \in Photos : Underway(q)' => Underway(q)
  BY <1>1, <1>6 DEF Underway
<1>8. ASSUME NEW q \in Photos, HasRow(q), Underway(q) PROVE Underway(q)'
  <2>1. CASE q = p
    BY <1>4, <1>8, <2>1 DEF Underway
  <2>2. CASE q # p
    BY <1>1, <1>3, <1>8, <2>2 DEF Underway
  <2> QED
    BY <2>1, <2>2
<1> QED
  BY <1>1, <1>2, <1>6, <1>7, <1>8

\* Every step keeps the variables in their types.
LEMMA StepTypeOK == TypeOK /\ [Next]_vars => TypeOK'
<1> SUFFICES ASSUME TypeOK, [Next]_vars PROVE TypeOK'
  OBVIOUS
<1> USE LifecycleAssumption DEF TypeOK, Statuses, FileKinds, IntakeStates, IdleWorker, IdleDeleter, dbVars, histVars
<1>1. ASSUME NEW p \in Photos, SaveOriginal(p) PROVE TypeOK'
  BY <1>1 DEF SaveOriginal, Advance, Of
<1>2. ASSUME NEW p \in Photos, SaveOriginalFails(p) PROVE TypeOK'
  BY <1>2 DEF SaveOriginalFails, Advance
<1>3. ASSUME NEW p \in Photos, StageUpload(p) PROVE TypeOK'
  BY <1>3 DEF StageUpload, Advance, Of
<1>4. ASSUME NEW p \in Photos, TakeUpload(p) PROVE TypeOK'
  BY <1>4 DEF TakeUpload, Advance
<1>5. ASSUME NEW p \in Photos, MoveOriginal(p) PROVE TypeOK'
  BY <1>5 DEF MoveOriginal, Advance, Of
<1>6. ASSUME NEW p \in Photos, MoveOriginalFails(p) PROVE TypeOK'
  BY <1>6 DEF MoveOriginalFails, Advance, Of
<1>7. ASSUME NEW p \in Photos, Insert(p) PROVE TypeOK'
  BY <1>7 DEF Insert, Advance
<1>8. ASSUME NEW p \in Photos, InsertFails(p) PROVE TypeOK'
  BY <1>8 DEF InsertFails, Advance, Of, Rejected
<1>9. ASSUME NEW p \in Photos, InsertUnlearnt(p) PROVE TypeOK'
  BY <1>9 DEF InsertUnlearnt, Advance, Of, Rejected
<1>10. ASSUME NEW p \in Photos, Enqueue(p) PROVE TypeOK'
  BY <1>10 DEF Enqueue, Advance
<1>11. ASSUME NEW w \in Workers, Pick(w) PROVE TypeOK'
  BY <1>11 DEF Pick
<1>12. ASSUME NEW w \in Workers, LoadRow(w) PROVE TypeOK'
  BY <1>12 DEF LoadRow, WorkerGoes, WorkerReturns, HasRow
<1>13. ASSUME NEW w \in Workers, ReadOriginal(w) PROVE TypeOK'
  BY <1>13 DEF ReadOriginal, WorkerGoes, Exists
<1>14. ASSUME NEW w \in Workers, WriteThumb(w) PROVE TypeOK'
  BY <1>14 DEF WriteThumb, Of, WorkerGoes
<1>15. ASSUME NEW w \in Workers, RenderFails(w) PROVE TypeOK'
  BY <1>15 DEF RenderFails, Of, WorkerGoes
<1>16. ASSUME NEW w \in Workers, UpdateProcessed(w) PROVE TypeOK'
  BY <1>16 DEF UpdateProcessed, WorkerReturns, HasRow
<1>17. ASSUME NEW w \in Workers, MarkFailed(w) PROVE TypeOK'
  BY <1>17 DEF MarkFailed, WorkerReturns, HasRow
<1>18. ASSUME NEW w \in Workers, StatusWriteFails(w) PROVE TypeOK'
  BY <1>18 DEF StatusWriteFails, WorkerReturns
<1>19. ASSUME NEW d \in Deleters, NEW p \in Photos, ReadRow(d, p) PROVE TypeOK'
  BY <1>19 DEF ReadRow, HasRow
<1>20. ASSUME NEW d \in Deleters, RemoveFiles(d) PROVE TypeOK'
  BY <1>20 DEF RemoveFiles, Of
<1>21. ASSUME NEW d \in Deleters, DeleteRow(d) PROVE TypeOK'
  BY <1>21 DEF DeleteRow
<1>22. ASSUME NEW d \in Deleters, DeleteRowFails(d) PROVE TypeOK'
  BY <1>22 DEF DeleteRowFails
<1>23. CASE DeleteGallery
  BY <1>23 DEF DeleteGallery
<1>24. CASE Crash
  BY <1>24 DEF Crash, Underway, InFlight
<1>25. CASE UNCHANGED vars
  BY <1>25 DEF vars
<1> QED
  BY <1>1, <1>2, <1>3, <1>4, <1>5, <1>6, <1>7, <1>8, <1>9, <1>10, <1>11, <1>12, <1>13, <1>14, <1>15, <1>16, <1>17, <1>18, <1>19, <1>20, <1>21, <1>22, <1>23, <1>24, <1>25
  DEF Next, Arrive, IntakeStep, WorkerStep, DeleterStep

\* Enqueue, Pick and the ends of process move a job; nothing copies it.
LEMMA StepJobInv == TypeOK /\ JobInv /\ [Next]_vars => JobInv'
<1> SUFFICES ASSUME TypeOK, JobInv, [Next]_vars PROVE JobInv'
  OBVIOUS
<1> USE LifecycleAssumption DEF TypeOK, JobInv, OneWorkerPerPhoto, IdleWorker, dbVars, histVars
<1>1. ASSUME NEW p \in Photos, SaveOriginal(p) PROVE JobInv'
  BY <1>1 DEF SaveOriginal, Advance, Of
<1>2. ASSUME NEW p \in Photos, SaveOriginalFails(p) PROVE JobInv'
  BY <1>2 DEF SaveOriginalFails, Advance
<1>3. ASSUME NEW p \in Photos, StageUpload(p) PROVE JobInv'
  BY <1>3 DEF StageUpload, Advance, Of
<1>4. ASSUME NEW p \in Photos, TakeUpload(p) PROVE JobInv'
  BY <1>4 DEF TakeUpload, Advance
<1>5. ASSUME NEW p \in Photos, MoveOriginal(p) PROVE JobInv'
  BY <1>5 DEF MoveOriginal, Advance, Of
<1>6. ASSUME NEW p \in Photos, MoveOriginalFails(p) PROVE JobInv'
  BY <1>6 DEF MoveOriginalFails, Advance, Of
<1>7. ASSUME NEW p \in Photos, Insert(p) PROVE JobInv'
  BY <1>7 DEF Insert, Advance
<1>8. ASSUME NEW p \in Photos, InsertFails(p) PROVE JobInv'
  BY <1>8 DEF InsertFails, Advance, Of, Rejected
<1>9. ASSUME NEW p \in Photos, InsertUnlearnt(p) PROVE JobInv'
  BY <1>9 DEF InsertUnlearnt, Advance, Of, Rejected
<1>10. ASSUME NEW p \in Photos, Enqueue(p) PROVE JobInv'
  BY <1>10 DEF Enqueue, Advance
<1>11. ASSUME NEW w \in Workers, Pick(w) PROVE JobInv'
  BY <1>11 DEF Pick
<1>12. ASSUME NEW w \in Workers, LoadRow(w) PROVE JobInv'
  BY <1>12 DEF LoadRow, WorkerGoes, WorkerReturns, HasRow
<1>13. ASSUME NEW w \in Workers, ReadOriginal(w) PROVE JobInv'
  BY <1>13 DEF ReadOriginal, WorkerGoes, Exists
<1>14. ASSUME NEW w \in Workers, WriteThumb(w) PROVE JobInv'
  BY <1>14 DEF WriteThumb, Of, WorkerGoes
<1>15. ASSUME NEW w \in Workers, RenderFails(w) PROVE JobInv'
  BY <1>15 DEF RenderFails, Of, WorkerGoes
<1>16. ASSUME NEW w \in Workers, UpdateProcessed(w) PROVE JobInv'
  BY <1>16 DEF UpdateProcessed, WorkerReturns, HasRow
<1>17. ASSUME NEW w \in Workers, MarkFailed(w) PROVE JobInv'
  BY <1>17 DEF MarkFailed, WorkerReturns, HasRow
<1>18. ASSUME NEW w \in Workers, StatusWriteFails(w) PROVE JobInv'
  BY <1>18 DEF StatusWriteFails, WorkerReturns
<1>19. ASSUME NEW d \in Deleters, NEW p \in Photos, ReadRow(d, p) PROVE JobInv'
  BY <1>19 DEF ReadRow, HasRow
<1>20. ASSUME NEW d \in Deleters, RemoveFiles(d) PROVE JobInv'
  BY <1>20 DEF RemoveFiles, Of
<1>21. ASSUME NEW d \in Deleters, DeleteRow(d) PROVE JobInv'
  BY <1>21 DEF DeleteRow
<1>22. ASSUME NEW d \in Deleters, DeleteRowFails(d) PROVE JobInv'
  BY <1>22 DEF DeleteRowFails
<1>23. CASE DeleteGallery
  BY <1>23 DEF DeleteGallery
<1>24. CASE Crash
  BY <1>24 DEF Crash, Underway, InFlight
<1>25. CASE UNCHANGED vars
  BY <1>25 DEF vars
<1> QED
  BY <1>1, <1>2, <1>3, <1>4, <1>5, <1>6, <1>7, <1>8, <1>9, <1>10, <1>11, <1>12, <1>13, <1>14, <1>15, <1>16, <1>17, <1>18, <1>19, <1>20, <1>21, <1>22, <1>23, <1>24, <1>25
  DEF Next, Arrive, IntakeStep, WorkerStep, DeleterStep

\* The two inserts are the births; no step makes a row without one.
LEMMA StepBirthInv == TypeOK /\ JobInv /\ BirthInv /\ [Next]_vars => BirthInv'
<1> SUFFICES ASSUME TypeOK, JobInv, BirthInv, [Next]_vars PROVE BirthInv'
  OBVIOUS
<1> USE LifecycleAssumption DEF TypeOK, BirthInv, HasRow, Exists, Statuses, dbVars, histVars
<1>1. ASSUME NEW p \in Photos, SaveOriginal(p) PROVE BirthInv'
  BY <1>1 DEF SaveOriginal, Advance, Of
<1>2. ASSUME NEW p \in Photos, SaveOriginalFails(p) PROVE BirthInv'
  BY <1>2 DEF SaveOriginalFails, Advance
<1>3. ASSUME NEW p \in Photos, StageUpload(p) PROVE BirthInv'
  BY <1>3 DEF StageUpload, Advance, Of
<1>4. ASSUME NEW p \in Photos, TakeUpload(p) PROVE BirthInv'
  BY <1>4 DEF TakeUpload, Advance
<1>5. ASSUME NEW p \in Photos, MoveOriginal(p) PROVE BirthInv'
  BY <1>5 DEF MoveOriginal, Advance, Of
<1>6. ASSUME NEW p \in Photos, MoveOriginalFails(p) PROVE BirthInv'
  BY <1>6 DEF MoveOriginalFails, Advance, Of
<1>7. ASSUME NEW p \in Photos, Insert(p) PROVE BirthInv'
  BY <1>7 DEF Insert, Advance
<1>8. ASSUME NEW p \in Photos, InsertFails(p) PROVE BirthInv'
  BY <1>8 DEF InsertFails, Advance, Of, Rejected
<1>9. ASSUME NEW p \in Photos, InsertUnlearnt(p) PROVE BirthInv'
  BY <1>9 DEF InsertUnlearnt, Advance, Of, Rejected
<1>10. ASSUME NEW p \in Photos, Enqueue(p) PROVE BirthInv'
  BY <1>10 DEF Enqueue, Advance
<1>11. ASSUME NEW w \in Workers, Pick(w) PROVE BirthInv'
  BY <1>11 DEF Pick
<1>12. ASSUME NEW w \in Workers, LoadRow(w) PROVE BirthInv'
  BY <1>12 DEF LoadRow, WorkerGoes, WorkerReturns
<1>13. ASSUME NEW w \in Workers, ReadOriginal(w) PROVE BirthInv'
  BY <1>13 DEF ReadOriginal, WorkerGoes
<1>14. ASSUME NEW w \in Workers, WriteThumb(w) PROVE BirthInv'
  BY <1>14 DEF WriteThumb, Of, WorkerGoes
<1>15. ASSUME NEW w \in Workers, RenderFails(w) PROVE BirthInv'
  BY <1>15 DEF RenderFails, Of, WorkerGoes
<1>16. ASSUME NEW w \in Workers, UpdateProcessed(w) PROVE BirthInv'
  BY <1>16 DEF UpdateProcessed, WorkerReturns
<1>17. ASSUME NEW w \in Workers, MarkFailed(w) PROVE BirthInv'
  BY <1>17 DEF MarkFailed, WorkerReturns
<1>18. ASSUME NEW w \in Workers, StatusWriteFails(w) PROVE BirthInv'
  BY <1>18 DEF StatusWriteFails, WorkerReturns
<1>19. ASSUME NEW d \in Deleters, NEW p \in Photos, ReadRow(d, p) PROVE BirthInv'
  BY <1>19 DEF ReadRow
<1>20. ASSUME NEW d \in Deleters, RemoveFiles(d) PROVE BirthInv'
  BY <1>20 DEF RemoveFiles, Of
<1>21. ASSUME NEW d \in Deleters, DeleteRow(d) PROVE BirthInv'
  BY <1>21 DEF DeleteRow
<1>22. ASSUME NEW d \in Deleters, DeleteRowFails(d) PROVE BirthInv'
  BY <1>22 DEF DeleteRowFails
<1>23. CASE DeleteGallery
  BY <1>23 DEF DeleteGallery
<1>24. CASE Crash
  BY <1>24 DEF Crash, Underway, InFlight
<1>25. CASE UNCHANGED vars
  BY <1>25 DEF vars
<1> QED
  BY <1>1, <1>2, <1>3, <1>4, <1>5, <1>6, <1>7, <1>8, <1>9, <1>10, <1>11, <1>12, <1>13, <1>14, <1>15, <1>16, <1>17, <1>18, <1>19, <1>20, <1>21, <1>22, <1>23, <1>24, <1>25
  DEF Next, Arrive, IntakeStep, WorkerStep, DeleterStep

\* Only a worker's last step settles a row, and it ends the job as it does.
LEMMA StepStatusInv == TypeOK /\ JobInv /\ BirthInv /\ StatusInv /\ [Next]_vars => StatusInv'
<1> SUFFICES ASSUME TypeOK, JobInv, BirthInv, StatusInv, [Next]_vars PROVE StatusInv'
  OBVIOUS
<1> USE LifecycleAssumption DEF TypeOK, JobInv, OneWorkerPerPhoto, BirthInv, StatusInv, HasRow, Underway, Statuses, IdleWorker, dbVars, histVars
<1>1. ASSUME NEW p \in Photos, SaveOriginal(p) PROVE StatusInv'
  BY <1>1 DEF SaveOriginal, Advance, Of
<1>2. ASSUME NEW p \in Photos, SaveOriginalFails(p) PROVE StatusInv'
  BY <1>2 DEF SaveOriginalFails, Advance
<1>3. ASSUME NEW p \in Photos, StageUpload(p) PROVE StatusInv'
  BY <1>3 DEF StageUpload, Advance, Of
<1>4. ASSUME NEW p \in Photos, TakeUpload(p) PROVE StatusInv'
  BY <1>4 DEF TakeUpload, Advance
<1>5. ASSUME NEW p \in Photos, MoveOriginal(p) PROVE StatusInv'
  BY <1>5 DEF MoveOriginal, Advance, Of
<1>6. ASSUME NEW p \in Photos, MoveOriginalFails(p) PROVE StatusInv'
  BY <1>6 DEF MoveOriginalFails, Advance, Of
<1>7. ASSUME NEW p \in Photos, Insert(p) PROVE StatusInv'
  BY <1>7 DEF Insert, Advance
<1>8. ASSUME NEW p \in Photos, InsertFails(p) PROVE StatusInv'
  BY <1>8 DEF InsertFails, Advance, Of, Rejected
<1>9. ASSUME NEW p \in Photos, InsertUnlearnt(p) PROVE StatusInv'
  BY <1>9 DEF InsertUnlearnt, Advance, Of, Rejected
<1>10. ASSUME NEW p \in Photos, Enqueue(p) PROVE StatusInv'
  BY <1>10 DEF Enqueue, Advance
<1>11. ASSUME NEW w \in Workers, Pick(w) PROVE StatusInv'
  BY <1>11 DEF Pick
<1>12. ASSUME NEW w \in Workers, LoadRow(w) PROVE StatusInv'
  <2> HIDE DEF Underway
  <2>1. UNCHANGED <<status, thumbPath, born, stranded>>
    BY <1>12 DEF LoadRow
  <2>2. ASSUME NEW q \in Photos
        PROVE  /\ Underway(q)' => Underway(q)
               /\ HasRow(q) /\ Underway(q) => Underway(q)'
    <3> HIDE DEF TypeOK, JobInv, BirthInv, StatusInv, HasRow
    <3> QED
      BY <1>12, LoadRowEffect
  <2> QED
    BY <2>1, <2>2
<1>13. ASSUME NEW w \in Workers, ReadOriginal(w) PROVE StatusInv'
  BY <1>13 DEF ReadOriginal, WorkerGoes, Exists
<1>14. ASSUME NEW w \in Workers, WriteThumb(w) PROVE StatusInv'
  BY <1>14 DEF WriteThumb, Of, WorkerGoes
<1>15. ASSUME NEW w \in Workers, RenderFails(w) PROVE StatusInv'
  BY <1>15 DEF RenderFails, Of, WorkerGoes
<1>16. ASSUME NEW w \in Workers, UpdateProcessed(w) PROVE StatusInv'
  BY <1>16 DEF UpdateProcessed, WorkerReturns
<1>17. ASSUME NEW w \in Workers, MarkFailed(w) PROVE StatusInv'
  BY <1>17 DEF MarkFailed, WorkerReturns
<1>18. ASSUME NEW w \in Workers, StatusWriteFails(w) PROVE StatusInv'
  BY <1>18 DEF StatusWriteFails, WorkerReturns
<1>19. ASSUME NEW d \in Deleters, NEW p \in Photos, ReadRow(d, p) PROVE StatusInv'
  BY <1>19 DEF ReadRow
<1>20. ASSUME NEW d \in Deleters, RemoveFiles(d) PROVE StatusInv'
  BY <1>20 DEF RemoveFiles, Of
<1>21. ASSUME NEW d \in Deleters, DeleteRow(d) PROVE StatusInv'
  BY <1>21 DEF DeleteRow
<1>22. ASSUME NEW d \in Deleters, DeleteRowFails(d) PROVE StatusInv'
  BY <1>22 DEF DeleteRowFails
<1>23. CASE DeleteGallery
  BY <1>23 DEF DeleteGallery
<1>24. CASE Crash
  BY <1>24 DEF Crash, InFlight
<1>25. CASE UNCHANGED vars
  BY <1>25 DEF vars
<1> QED
  BY <1>1, <1>2, <1>3, <1>4, <1>5, <1>6, <1>7, <1>8, <1>9, <1>10, <1>11, <1>12, <1>13, <1>14, <1>15, <1>16, <1>17, <1>18, <1>19, <1>20, <1>21, <1>22, <1>23, <1>24, <1>25
  DEF Next, Arrive, IntakeStep, WorkerStep, DeleterStep

\* Only a delete removes a file of an accepted photo.
LEMMA StepFileInv == TypeOK /\ JobInv /\ BirthInv /\ FileInv /\ [Next]_vars => FileInv'
<1> SUFFICES ASSUME TypeOK, JobInv, BirthInv, FileInv, [Next]_vars PROVE FileInv'
  OBVIOUS
<1> USE LifecycleAssumption DEF TypeOK, JobInv, OneWorkerPerPhoto, BirthInv, FileInv, ReadyIsBacked, HasRow, Exists, Statuses, IdleWorker, dbVars, histVars
<1>1. ASSUME NEW p \in Photos, SaveOriginal(p) PROVE FileInv'
  BY <1>1 DEF SaveOriginal, Advance, Of
<1>2. ASSUME NEW p \in Photos, SaveOriginalFails(p) PROVE FileInv'
  BY <1>2 DEF SaveOriginalFails, Advance
<1>3. ASSUME NEW p \in Photos, StageUpload(p) PROVE FileInv'
  BY <1>3 DEF StageUpload, Advance, Of
<1>4. ASSUME NEW p \in Photos, TakeUpload(p) PROVE FileInv'
  BY <1>4 DEF TakeUpload, Advance
<1>5. ASSUME NEW p \in Photos, MoveOriginal(p) PROVE FileInv'
  BY <1>5 DEF MoveOriginal, Advance, Of
<1>6. ASSUME NEW p \in Photos, MoveOriginalFails(p) PROVE FileInv'
  BY <1>6 DEF MoveOriginalFails, Advance, Of
<1>7. ASSUME NEW p \in Photos, Insert(p) PROVE FileInv'
  BY <1>7 DEF Insert, Advance
<1>8. ASSUME NEW p \in Photos, InsertFails(p) PROVE FileInv'
  BY <1>8 DEF InsertFails, Advance, Of, Rejected
<1>9. ASSUME NEW p \in Photos, InsertUnlearnt(p) PROVE FileInv'
  BY <1>9 DEF InsertUnlearnt, Advance, Of, Rejected
<1>10. ASSUME NEW p \in Photos, Enqueue(p) PROVE FileInv'
  BY <1>10 DEF Enqueue, Advance
<1>11. ASSUME NEW w \in Workers, Pick(w) PROVE FileInv'
  BY <1>11 DEF Pick
<1>12. ASSUME NEW w \in Workers, LoadRow(w) PROVE FileInv'
  <2>1. \A v \in Workers : worker'[v].pc \in {"read", "rendered"} => worker'[v] = worker[v]
    BY <1>12, LoadRowEffect
  <2>2. UNCHANGED <<status, thumbPath, files, unlinked>>
    BY <1>12 DEF LoadRow
  <2> QED
    BY <2>1, <2>2
<1>13. ASSUME NEW w \in Workers, ReadOriginal(w) PROVE FileInv'
  <2>1. CASE Exists(worker[w].photo, "original")
    BY <1>13, <2>1 DEF ReadOriginal, WorkerGoes
  <2>2. CASE ~Exists(worker[w].photo, "original")
    BY <1>13, <2>2 DEF ReadOriginal, WorkerGoes
  <2> QED
    BY <2>1, <2>2
<1>14. ASSUME NEW w \in Workers, WriteThumb(w) PROVE FileInv'
  BY <1>14 DEF WriteThumb, Of, WorkerGoes
<1>15. ASSUME NEW w \in Workers, RenderFails(w) PROVE FileInv'
  BY <1>15 DEF RenderFails, Of, WorkerGoes
<1>16. ASSUME NEW w \in Workers, UpdateProcessed(w) PROVE FileInv'
  BY <1>16 DEF UpdateProcessed, WorkerReturns
<1>17. ASSUME NEW w \in Workers, MarkFailed(w) PROVE FileInv'
  BY <1>17 DEF MarkFailed, WorkerReturns
<1>18. ASSUME NEW w \in Workers, StatusWriteFails(w) PROVE FileInv'
  BY <1>18 DEF StatusWriteFails, WorkerReturns
<1>19. ASSUME NEW d \in Deleters, NEW p \in Photos, ReadRow(d, p) PROVE FileInv'
  BY <1>19 DEF ReadRow
<1>20. ASSUME NEW d \in Deleters, RemoveFiles(d) PROVE FileInv'
  BY <1>20 DEF RemoveFiles, Of
<1>21. ASSUME NEW d \in Deleters, DeleteRow(d) PROVE FileInv'
  BY <1>21 DEF DeleteRow
<1>22. ASSUME NEW d \in Deleters, DeleteRowFails(d) PROVE FileInv'
  BY <1>22 DEF DeleteRowFails
<1>23. CASE DeleteGallery
  BY <1>23 DEF DeleteGallery
<1>24. CASE Crash
  BY <1>24 DEF Crash, Underway, InFlight
<1>25. CASE UNCHANGED vars
  BY <1>25 DEF vars
<1> QED
  BY <1>1, <1>2, <1>3, <1>4, <1>5, <1>6, <1>7, <1>8, <1>9, <1>10, <1>11, <1>12, <1>13, <1>14, <1>15, <1>16, <1>17, <1>18, <1>19, <1>20, <1>21, <1>22, <1>23, <1>24, <1>25
  DEF Next, Arrive, IntakeStep, WorkerStep, DeleterStep

\* A worker writes a thumbnail only for a photo whose job is on its way, and
\* a photo whose thumb_path names one has no such job.
LEMMA StepDeleteInv == TypeOK /\ JobInv /\ BirthInv /\ StatusInv /\ DeleteInv /\ [Next]_vars => DeleteInv'
<1> SUFFICES ASSUME TypeOK, JobInv, BirthInv, StatusInv, DeleteInv, [Next]_vars PROVE DeleteInv'
  OBVIOUS
<1> USE LifecycleAssumption DEF TypeOK, JobInv, BirthInv, StatusInv, DeleteInv, CleanDelete, FileKinds, HasRow, Underway, Exists, IdleWorker, IdleDeleter, dbVars, histVars
<1>1. ASSUME NEW p \in Photos, SaveOriginal(p) PROVE DeleteInv'
  BY <1>1 DEF SaveOriginal, Advance, Of
<1>2. ASSUME NEW p \in Photos, SaveOriginalFails(p) PROVE DeleteInv'
  BY <1>2 DEF SaveOriginalFails, Advance
<1>3. ASSUME NEW p \in Photos, StageUpload(p) PROVE DeleteInv'
  BY <1>3 DEF StageUpload, Advance, Of
<1>4. ASSUME NEW p \in Photos, TakeUpload(p) PROVE DeleteInv'
  BY <1>4 DEF TakeUpload, Advance
<1>5. ASSUME NEW p \in Photos, MoveOriginal(p) PROVE DeleteInv'
  BY <1>5 DEF MoveOriginal, Advance, Of
<1>6. ASSUME NEW p \in Photos, MoveOriginalFails(p) PROVE DeleteInv'
  BY <1>6 DEF MoveOriginalFails, Advance, Of
<1>7. ASSUME NEW p \in Photos, Insert(p) PROVE DeleteInv'
  <2>0. p \notin born
    BY <1>7 DEF Insert
  <2>1. \A e \in Deleters : deleter[e].pc # "idle" => deleter[e].photo # p
    BY <2>0
  <2>2. \A q \in Photos : q # p => (Underway(q)' <=> Underway(q))
    BY <1>7 DEF Insert, Advance
  <2>3. deleter' = deleter /\ files' = files /\ born \subseteq born'
    BY <1>7 DEF Insert
  <2> HIDE DEF Underway
  <2> QED
    BY <2>1, <2>2, <2>3
<1>8. ASSUME NEW p \in Photos, InsertFails(p) PROVE DeleteInv'
  BY <1>8 DEF InsertFails, Advance, Of, Rejected
<1>9. ASSUME NEW p \in Photos, InsertUnlearnt(p) PROVE DeleteInv'
  BY <1>9 DEF InsertUnlearnt, Advance, Of, Rejected
<1>10. ASSUME NEW p \in Photos, Enqueue(p) PROVE DeleteInv'
  BY <1>10 DEF Enqueue, Advance
<1>11. ASSUME NEW w \in Workers, Pick(w) PROVE DeleteInv'
  BY <1>11 DEF Pick
<1>12. ASSUME NEW w \in Workers, LoadRow(w) PROVE DeleteInv'
  <2> HIDE DEF Underway
  <2>1. UNCHANGED <<deleter, files, born>>
    BY <1>12 DEF LoadRow
  <2>2. \A q \in Photos : Underway(q)' => Underway(q)
    BY <1>12, LoadRowEffect
  <2> QED
    BY <2>1, <2>2
<1>13. ASSUME NEW w \in Workers, ReadOriginal(w) PROVE DeleteInv'
  BY <1>13 DEF ReadOriginal, WorkerGoes
<1>14. ASSUME NEW w \in Workers, WriteThumb(w) PROVE DeleteInv'
  BY <1>14 DEF WriteThumb, Of, WorkerGoes
<1>15. ASSUME NEW w \in Workers, RenderFails(w) PROVE DeleteInv'
  BY <1>15 DEF RenderFails, Of, WorkerGoes
<1>16. ASSUME NEW w \in Workers, UpdateProcessed(w) PROVE DeleteInv'
  BY <1>16 DEF UpdateProcessed, WorkerReturns
<1>17. ASSUME NEW w \in Workers, MarkFailed(w) PROVE DeleteInv'
  BY <1>17 DEF MarkFailed, WorkerReturns
<1>18. ASSUME NEW w \in Workers, StatusWriteFails(w) PROVE DeleteInv'
  BY <1>18 DEF StatusWriteFails, WorkerReturns
<1>19. ASSUME NEW d \in Deleters, NEW p \in Photos, ReadRow(d, p) PROVE DeleteInv'
  <2>1. p \in born /\ (thumbPath[p] = "thumb" => ~Underway(p))
    BY <1>19 DEF ReadRow
  <2>2. \A q \in Photos : Underway(q)' <=> Underway(q)
    BY <1>19 DEF ReadRow
  <2>3. /\ deleter' = [deleter EXCEPT ![d] = [pc |-> "read", photo |-> p, thumb |-> thumbPath[p]]]
        /\ files' = files /\ born' = born
    BY <1>19 DEF ReadRow
  <2> HIDE DEF Underway
  <2> QED
    BY <2>1, <2>2, <2>3
<1>20. ASSUME NEW d \in Deleters, RemoveFiles(d) PROVE DeleteInv'
  BY <1>20 DEF RemoveFiles, Of
<1>21. ASSUME NEW d \in Deleters, DeleteRow(d) PROVE DeleteInv'
  BY <1>21 DEF DeleteRow
<1>22. ASSUME NEW d \in Deleters, DeleteRowFails(d) PROVE DeleteInv'
  BY <1>22 DEF DeleteRowFails
<1>23. CASE DeleteGallery
  BY <1>23 DEF DeleteGallery
<1>24. CASE Crash
  BY <1>24 DEF Crash, InFlight
<1>25. CASE UNCHANGED vars
  BY <1>25 DEF vars
<1> QED
  BY <1>1, <1>2, <1>3, <1>4, <1>5, <1>6, <1>7, <1>8, <1>9, <1>10, <1>11, <1>12, <1>13, <1>14, <1>15, <1>16, <1>17, <1>18, <1>19, <1>20, <1>21, <1>22, <1>23, <1>24, <1>25
  DEF Next, Arrive, IntakeStep, WorkerStep, DeleterStep

-----------------------------------------------------------------------------
(* The invariant.                                                          *)

\* What every reachable state satisfies, whatever the faults: each part is
\* inductive given the ones before it.
IInv == TypeOK /\ JobInv /\ BirthInv /\ StatusInv /\ FileInv /\ DeleteInv

\* No photo has been seen, every worker and every request is idle.
LEMMA InitIInv == Init => IInv
<1> SUFFICES ASSUME Init PROVE IInv
  OBVIOUS
<1> USE DEF Init, IdleWorker, IdleDeleter
<1>1. TypeOK
  BY LifecycleAssumption DEF TypeOK, Statuses, IntakeStates
<1>2. JobInv
  BY DEF JobInv, OneWorkerPerPhoto
<1>3. BirthInv
  BY DEF BirthInv, HasRow, Exists
<1>4. StatusInv
  BY DEF StatusInv, Underway
<1>5. FileInv
  BY DEF FileInv, ReadyIsBacked
<1>6. DeleteInv
  BY DEF DeleteInv, CleanDelete
<1> QED
  BY <1>1, <1>2, <1>3, <1>4, <1>5, <1>6 DEF IInv

\* No step of a handler, a worker or a fault leaves the invariant.
LEMMA StepIInv == IInv /\ [Next]_vars => IInv'
BY StepTypeOK, StepJobInv, StepBirthInv, StepStatusInv, StepFileInv, StepDeleteInv DEF IInv

\* Every state the server can reach satisfies all parts of the invariant.
THEOREM Invariance == Spec => []IInv
BY InitIInv, StepIInv, PTL DEF Spec

\* The rows, the files and the goroutines stay within their types.
THEOREM TypeCorrect == Spec => []TypeOK
BY Invariance, PTL DEF IInv

\* For any number of photos, workers and delete requests and any faults: a
\* row says 'processing' only while its job is on its way to a worker or was
\* lost in one of the three ways that stranded records.
THEOREM ProcessingJobTheorem == Spec => []ProcessingHasJob
<1>1. IInv => ProcessingHasJob
  BY DEF IInv, StatusInv, ProcessingHasJob
<1> QED
  BY <1>1, Invariance, PTL

\* No photo is ever on two workers, or on one and in the channel as well.
THEOREM OneWorkerTheorem == Spec => []OneWorkerPerPhoto
<1>1. IInv => OneWorkerPerPhoto
  BY DEF IInv, JobInv
<1> QED
  BY <1>1, Invariance, PTL

\* A 'ready' photo no delete has touched has both its files, and its row
\* names the thumbnail.
THEOREM ReadyTheorem == Spec => []ReadyIsBacked
<1>1. IInv => ReadyIsBacked
  BY DEF IInv, FileInv
<1> QED
  BY <1>1, Invariance, PTL

\* A delete that read a processed row leaves no file of the photo.
THEOREM CleanDeleteTheorem == Spec => []CleanDelete
<1>1. IInv => CleanDelete
  BY DEF IInv, DeleteInv
<1> QED
  BY <1>1, Invariance, PTL

-----------------------------------------------------------------------------
(* Roll-back of uploads, when nothing worse happens than failing statements. *)

\* A delete that has removed the files knows that they do not come back.
RollbackInv ==
    /\ NoStrayUpload
    /\ \A d \in Deleters : deleter[d].pc = "unlinked" => ~Exists(deleter[d].photo, "original")

\* An original comes with an upload that has no row yet, and goes with one
\* that gets none, or before its row does.
LEMMA StepRollbackInv ==
    ASSUME Faults \subseteq {"db"}
    PROVE  IInv /\ RollbackInv /\ [Next]_vars => RollbackInv'
<1> SUFFICES ASSUME IInv, RollbackInv, [Next]_vars PROVE RollbackInv'
  OBVIOUS
<1>0. /\ TypeOK
      /\ \A p \in Photos : intake[p] \in {"idle", "staged", "taken", "saved"} => p \notin born
      /\ \A d \in Deleters : deleter[d].pc # "idle" => deleter[d].photo \in born
  BY DEF IInv, BirthInv, DeleteInv
<1> USE <1>0 DEF TypeOK, RollbackInv, NoStrayUpload, HasRow, Exists, Of, Advance, IdleDeleter, dbVars, histVars
<1>1. ASSUME NEW p \in Photos, SaveOriginal(p) PROVE RollbackInv'
  BY <1>1 DEF SaveOriginal
<1>2. ASSUME NEW p \in Photos, SaveOriginalFails(p) PROVE RollbackInv'
  BY <1>2 DEF SaveOriginalFails
<1>3. ASSUME NEW p \in Photos, StageUpload(p) PROVE RollbackInv'
  BY <1>3 DEF StageUpload
<1>4. ASSUME NEW p \in Photos, TakeUpload(p) PROVE RollbackInv'
  BY <1>4 DEF TakeUpload
<1>5. ASSUME NEW p \in Photos, MoveOriginal(p) PROVE RollbackInv'
  BY <1>5 DEF MoveOriginal
<1>6. ASSUME NEW p \in Photos, MoveOriginalFails(p) PROVE RollbackInv'
  BY <1>6 DEF MoveOriginalFails
<1>7. ASSUME NEW p \in Photos, Insert(p) PROVE RollbackInv'
  BY <1>7 DEF Insert
<1>8. ASSUME NEW p \in Photos, InsertFails(p) PROVE RollbackInv'
  BY <1>8 DEF InsertFails, Rejected
<1>9. ASSUME NEW p \in Photos, InsertUnlearnt(p) PROVE RollbackInv'
  BY <1>9 DEF InsertUnlearnt, Rejected
<1>10. ASSUME NEW p \in Photos, Enqueue(p) PROVE RollbackInv'
  BY <1>10 DEF Enqueue
<1>11. ASSUME NEW w \in Workers, Pick(w) \/ LoadRow(w) \/ ReadOriginal(w) PROVE RollbackInv'
  BY <1>11 DEF Pick, LoadRow, ReadOriginal
<1>12. ASSUME NEW w \in Workers, WriteThumb(w) \/ RenderFails(w) PROVE RollbackInv'
  BY <1>12 DEF WriteThumb, RenderFails
<1>13. ASSUME NEW w \in Workers, UpdateProcessed(w) PROVE RollbackInv'
  BY <1>13 DEF UpdateProcessed
<1>14. ASSUME NEW w \in Workers, MarkFailed(w) PROVE RollbackInv'
  BY <1>14 DEF MarkFailed
<1>15. ASSUME NEW w \in Workers, StatusWriteFails(w) PROVE RollbackInv'
  BY <1>15 DEF StatusWriteFails
<1>16. ASSUME NEW d \in Deleters, NEW p \in Photos, ReadRow(d, p) PROVE RollbackInv'
  BY <1>16 DEF ReadRow
<1>17. ASSUME NEW d \in Deleters, RemoveFiles(d) PROVE RollbackInv'
  BY <1>17 DEF RemoveFiles
<1>18. ASSUME NEW d \in Deleters, DeleteRow(d) \/ DeleteRowFails(d) PROVE RollbackInv'
  BY <1>18 DEF DeleteRow, DeleteRowFails
<1>19. CASE DeleteGallery \/ Crash
  BY <1>19 DEF DeleteGallery, Crash
<1>20. CASE UNCHANGED vars
  BY <1>20 DEF vars
<1> QED
  BY <1>1, <1>2, <1>3, <1>4, <1>5, <1>6, <1>7, <1>8, <1>9, <1>10, <1>11, <1>12, <1>13, <1>14, <1>15, <1>16, <1>17, <1>18, <1>19, <1>20
  DEF Next, Arrive, IntakeStep, WorkerStep, DeleterStep

\* When only statements fail, every original has a row or is about to get one,
\* and every staged file belongs to an upload that is being finished, for any
\* number of uploads and deletes.  Rows are another matter: an insert whose
\* outcome is not learnt leaves one, without a file and without a job.
THEOREM RollbackTheorem == Faults \subseteq {"db"} => (Spec => []NoStrayUpload)
<1> SUFFICES ASSUME Faults \subseteq {"db"} PROVE Spec => []NoStrayUpload
  OBVIOUS
<1>1. Init => RollbackInv
  BY DEF Init, IdleDeleter, RollbackInv, NoStrayUpload, Exists
<1>2. IInv /\ RollbackInv /\ [Next]_vars => RollbackInv'
  BY StepRollbackInv
<1>3. RollbackInv => NoStrayUpload
  BY DEF RollbackInv
<1> QED
  BY <1>1, <1>2, <1>3, Invariance, PTL DEF Spec

-----------------------------------------------------------------------------
(* The rows implement PhotoStatus.                                         *)

Phases == [p \in Photos |-> PhaseOf(p)]

\* The three cases of a photo's phase.
LEMMA PhaseCases ==
    ASSUME NEW p \in Photos
    PROVE  /\ HasRow(p) => PhaseOf(p) = status[p]
           /\ ~HasRow(p) /\ p \in born => PhaseOf(p) = "removed"
           /\ ~HasRow(p) /\ p \notin born => PhaseOf(p) = "unborn"
BY DEF PhaseOf

\* A step that leaves the rows alone is a stutter.
LEMMA StutterStep == UNCHANGED <<status, born>> => UNCHANGED Phases
BY DEF Phases, PhaseOf, HasRow

\* The insert of a row that never was.
LEMMA AppearStep ==
    ASSUME TypeOK, BirthInv, NEW p \in Photos, p \notin born,
           status' = [status EXCEPT ![p] = "processing"], born' = born \cup {p}
    PROVE  Life!Appear(p)
<1>1. PhaseOf(p) = "unborn"
  BY PhaseCases DEF BirthInv
<1>2. \A q \in Photos : PhaseOf(q)' = IF q = p THEN "processing" ELSE PhaseOf(q)
  BY DEF TypeOK, PhaseOf, HasRow
<1> QED
  BY <1>1, <1>2 DEF Life!Appear

\* The status write of a worker.
LEMMA SettleStep ==
    ASSUME TypeOK, NEW p \in Photos, status[p] = "processing", NEW s \in {"ready", "failed"},
           status' = [status EXCEPT ![p] = s], born' = born
    PROVE  Life!Settle(p)
<1>1. PhaseOf(p) = "processing"
  BY DEF PhaseOf, HasRow
<1>2. \A q \in Photos : PhaseOf(q)' = IF q = p THEN s ELSE PhaseOf(q)
  BY DEF TypeOK, PhaseOf, HasRow
<1> QED
  BY <1>1, <1>2 DEF Life!Settle, Life!Settled

\* The delete of some rows, of which one or all may be gone already.
LEMMA RemoveStep ==
    ASSUME TypeOK, BirthInv, NEW S \in SUBSET Photos, born' = born,
           status' = [q \in Photos |-> IF q \in S THEN "none" ELSE status[q]]
    PROVE  Life!Remove({q \in S : HasRow(q)})
<1> DEFINE R == {q \in S : HasRow(q)}
<1>1. \A q \in R : PhaseOf(q) \in Life!Present
  BY PhaseCases DEF TypeOK, HasRow, Statuses, Life!Present, Life!Settled
<1>2. \A q \in Photos : PhaseOf(q)' = IF q \in R THEN "removed" ELSE PhaseOf(q)
  BY DEF BirthInv, PhaseOf, HasRow
<1> QED
  BY <1>1, <1>2 DEF Life!Remove

\* Every step is a step of PhotoStatus or a stutter.
LEMMA LifeStep == TypeOK /\ BirthInv /\ StatusInv /\ [Next]_vars => [Life!Next]_Phases
<1> SUFFICES ASSUME TypeOK, BirthInv, StatusInv, [Next]_vars
             PROVE  Life!Next \/ UNCHANGED Phases
  BY DEF Phases
<1>1. ASSUME NEW p \in Photos, Arrive(p) PROVE UNCHANGED Phases
  BY <1>1, StutterStep DEF Arrive, SaveOriginal, SaveOriginalFails, StageUpload, dbVars, histVars
<1>2. ASSUME NEW p \in Photos, IntakeStep(p) PROVE Life!Next \/ UNCHANGED Phases
  <2>1. CASE Insert(p) \/ InsertUnlearnt(p)
    <3>1. p \notin born
      BY <2>1 DEF BirthInv, Insert, InsertUnlearnt
    <3>2. Life!Appear(p)
      BY <2>1, <3>1, AppearStep DEF Insert, InsertUnlearnt
    <3> QED
      BY <3>2 DEF Life!Next
  <2>2. CASE TakeUpload(p) \/ MoveOriginal(p) \/ MoveOriginalFails(p) \/ InsertFails(p) \/ Enqueue(p)
    BY <2>2, StutterStep
    DEF TakeUpload, MoveOriginal, MoveOriginalFails, InsertFails, Enqueue, dbVars, histVars
  <2> QED
    BY <1>2, <2>1, <2>2 DEF IntakeStep
<1>3. ASSUME NEW w \in Workers, WorkerStep(w) PROVE Life!Next \/ UNCHANGED Phases
  <2>1. CASE UNCHANGED <<status, born>>
    BY <2>1, StutterStep
  <2>2. ASSUME UpdateProcessed(w) \/ MarkFailed(w), HasRow(worker[w].photo)
        PROVE  Life!Next
    <3> DEFINE p == worker[w].photo
    <3>1. p \in Photos /\ Underway(p)
      BY <2>2 DEF UpdateProcessed, MarkFailed, TypeOK, Underway
    <3>2. status[p] = "processing"
      BY <2>2, <3>1 DEF StatusInv, HasRow
    <3>3. PICK s \in {"ready", "failed"} : status' = [status EXCEPT ![p] = s]
      BY <2>2 DEF UpdateProcessed, MarkFailed
    <3>4. born' = born
      BY <2>2 DEF UpdateProcessed, MarkFailed, histVars
    <3>5. Life!Settle(p)
      <4> HIDE DEF p
      <4> QED
        BY <3>1, <3>2, <3>3, <3>4, SettleStep
    <3> QED
      BY <3>1, <3>5 DEF Life!Next
  <2>3. ~UNCHANGED <<status, born>> =>
           (UpdateProcessed(w) \/ MarkFailed(w)) /\ HasRow(worker[w].photo)
    BY <1>3 DEF WorkerStep, Pick, LoadRow, ReadOriginal, WriteThumb, RenderFails,
       UpdateProcessed, MarkFailed, StatusWriteFails, dbVars, histVars
  <2> QED
    BY <2>1, <2>2, <2>3
<1>4. ASSUME NEW d \in Deleters, DeleterStep(d) PROVE Life!Next \/ UNCHANGED Phases
  <2>1. CASE RemoveFiles(d) \/ DeleteRowFails(d)
    BY <2>1, StutterStep DEF RemoveFiles, DeleteRowFails, dbVars, histVars
  <2>2. CASE DeleteRow(d)
    <3> DEFINE S == {deleter[d].photo}
    <3>1. S \in SUBSET Photos
      BY <2>2 DEF DeleteRow, TypeOK
    <3>2. status' = [q \in Photos |-> IF q \in S THEN "none" ELSE status[q]] /\ born' = born
      BY <2>2 DEF DeleteRow, TypeOK, histVars
    <3> HIDE DEF S
    <3>3. Life!Remove({q \in S : HasRow(q)})
      BY <3>1, <3>2, RemoveStep
    <3> QED
      BY <3>1, <3>3 DEF Life!Next
  <2> QED
    BY <1>4, <2>1, <2>2 DEF DeleterStep
<1>5. ASSUME NEW d \in Deleters, NEW p \in Photos, ReadRow(d, p) PROVE UNCHANGED Phases
  BY <1>5, StutterStep DEF ReadRow, dbVars, histVars
<1>6. CASE DeleteGallery
  <2>1. status' = [q \in Photos |-> IF q \in Photos THEN "none" ELSE status[q]] /\ born' = born
    BY <1>6 DEF DeleteGallery, histVars
  <2>2. Life!Remove({q \in Photos : HasRow(q)})
    BY <2>1, RemoveStep
  <2> QED
    BY <2>2 DEF Life!Next
<1>7. CASE Crash
  BY <1>7, StutterStep DEF Crash, dbVars
<1>8. CASE UNCHANGED vars
  BY <1>8, StutterStep DEF vars, dbVars, histVars
<1> QED
  BY <1>1, <1>2, <1>3, <1>4, <1>5, <1>6, <1>7, <1>8 DEF Next

\* The rows of the photos table lead no life that PhotoStatus does not allow:
\* settled once, never back to 'processing', never back after the delete,
\* however handlers, workers, deletes and faults interleave.
THEOREM RowsImplementStatus == Spec => PhotoStatusSpec
<1>1. Init => Life!Init
  BY DEF Init, Life!Init, PhaseOf, HasRow
<1>2. IInv /\ [Next]_vars => [Life!Next]_Phases
  BY LifeStep DEF IInv
<1> QED
  BY <1>1, <1>2, Invariance, PTL DEF Spec, PhotoStatusSpec, Life!Spec, Phases
=============================================================================
