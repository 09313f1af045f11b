------------------------------- MODULE Server --------------------------------
(***************************************************************************)
(* The process of cmd/openscape/main.go around the worker pool: requests   *)
(* that upload photos, the goroutine that finishes tus uploads, and the    *)
(* shutdown, which stops the HTTP server, then the pool of workers, then   *)
(* closes the database connections and returns.                            *)
(*                                                                         *)
(* The pool is module WorkerPool; the steps of its callers are taken here  *)
(* by a form request (Upload, processPart), which calls Enqueue on its own *)
(* goroutine, or by consumeHooks (finishUpload), which srv.Shutdown does   *)
(* not know and nobody stops.  A panic in a request is caught by Echo's    *)
(* Recover middleware and net/http; in consumeHooks nothing catches it.    *)
(*                                                                         *)
(* Of the statements that a photo takes two are told apart: those with     *)
(* which the row is inserted, by the request or consumeHooks, and those of *)
(* the worker.  Each holds a connection, which pgxpool wants back before   *)
(* its Close returns.  Waiting for a free connection is not modelled.      *)
(***************************************************************************)
EXTENDS Naturals, Sequences, FiniteSets

CONSTANTS
    FormJobs,    \* photos uploaded by the form, each by a request of its own
    TusJobs,     \* photos uploaded through tus
    Workers, QueueDepth, NoJob, Gone  \* as in WorkerPool

Jobs == FormJobs \cup TusJobs

ASSUME ServerAssumption ==
    /\ FormJobs \cap TusJobs = {}
    /\ IsFiniteSet(Workers) /\ Workers # {}
    /\ QueueDepth \in Nat \ {0}
    /\ NoJob \notin Jobs /\ Gone \notin Jobs /\ NoJob # Gone

VARIABLES
    queue, closed, caller, worker, done, owner, accepted,  \* the pool's
    request,   \* [Jobs -> ...]: the request that brings the photo
    consumer,  \* the job consumeHooks is finishing, NoJob at its select
    server,    \* "listening"; in srv.Shutdown, "grace"; out of it, "drained"
               \* or, after the deadline, "cut"
    statement, \* [Statements -> ...]: how far a statement is
    process    \* "up"; "closing" in pool.Close; "exited" when main has
               \* returned, "crashed" by a panic

poolVars == <<queue, closed, caller, worker, done, owner, accepted>>
vars == <<poolVars, request, consumer, server, statement, process>>

Pool == INSTANCE WorkerPool

RequestStates == {"none", "open", "succeeded", "errored"}
Statements == {"insert", "process"} \X Jobs
StatementStates == {"none", "running", "done", "failed"}

TypeOK ==
    /\ Pool!TypeOK
    /\ request \in [Jobs -> RequestStates]
    /\ consumer \in TusJobs \cup {NoJob}
    /\ server \in {"listening", "grace", "drained", "cut"}
    /\ statement \in [Statements -> StatementStates]
    /\ process \in {"up", "closing", "exited", "crashed"}

Init ==
    /\ Pool!Init
    /\ request = [j \in Jobs |-> "none"]
    /\ consumer = NoJob
    /\ server = "listening"
    /\ statement = [s \in Statements |-> "none"]
    /\ process = "up"

\* The goroutines run, also while main closes the connections.
Up == process \in {"up", "closing"}
Answer(j, how) == request' = [request EXCEPT ![j] = how]

-----------------------------------------------------------------------------
(* The database.                                                           *)

\* Whoever wants the statement is about to issue it: a request and its
\* consumeHooks the insert, the worker with the job all of its own.
Wanted(s) ==
    \/ s[1] = "insert" /\ s[2] \in FormJobs /\ request[s[2]] = "open"
    \/ s[1] = "insert" /\ s[2] = consumer
    \/ s[1] = "process" /\ \E w \in Workers : worker[w] = s[2]

\* A connection is acquired; a pool that is closed has none to give.
Issue(s) ==
    /\ Up
    /\ Wanted(s)
    /\ statement[s] = "none"
    /\ statement' = [statement EXCEPT ![s] = IF process = "up" THEN "running" ELSE "failed"]
    /\ UNCHANGED <<poolVars, request, consumer, server, process>>

\* The database answers, and the connection is given back.  An insert may
\* have failed; how a worker's statements ended makes no difference here.
Answers(s) ==
    /\ Up
    /\ statement[s] = "running"
    /\ \E how \in IF s[1] = "insert" THEN {"done", "failed"} ELSE {"done"} :
          statement' = [statement EXCEPT ![s] = how]
    /\ UNCHANGED <<poolVars, request, consumer, server, process>>

-----------------------------------------------------------------------------
(* Requests.                                                               *)

\* Also in the grace period a connection accepted before the signal may still
\* deliver its request; ReadHeaderTimeout ends it long before the deadline.
Arrive(j) ==
    /\ Up
    /\ server \in {"listening", "grace"}
    /\ request[j] = "none"
    /\ Answer(j, "open")
    /\ UNCHANGED <<poolVars, consumer, server, statement, process>>

\* processPart has the file on disk and the row in the database.
FormEnqueues(j) ==
    /\ Up
    /\ j \in FormJobs
    /\ request[j] = "open"
    /\ statement[<<"insert", j>>] = "done"
    /\ Pool!CallEnqueue(j)
    /\ UNCHANGED <<request, consumer, server, statement, process>>

\* The part could not be saved or inserted.
FormErrs(j) ==
    /\ Up
    /\ j \in FormJobs
    /\ request[j] = "open"
    /\ statement[<<"insert", j>>] \in {"none", "failed"}
    /\ Answer(j, "errored")
    /\ UNCHANGED <<poolVars, consumer, server, statement, process>>

\* Mutation: Enqueue is called on a goroutine of its own, so as not to wait.
FormAnswersEarly(j) ==
    /\ Up
    /\ j \in FormJobs
    /\ request[j] = "open"
    /\ caller[j] \in {"sending", "returned"}
    /\ Answer(j, "succeeded")
    /\ UNCHANGED <<poolVars, consumer, server, statement, process>>

\* Upload answers when Enqueue has returned.
FormAnswers(j) ==
    /\ Up
    /\ j \in FormJobs
    /\ request[j] = "open"
    /\ caller[j] = "returned"
    /\ Answer(j, "succeeded")
    /\ UNCHANGED <<poolVars, consumer, server, statement, process>>

\* Enqueue panicked, and Recover answers in Upload's place.
FormPanics(j) ==
    /\ Up
    /\ j \in FormJobs
    /\ request[j] = "open"
    /\ caller[j] = "panicked"
    /\ Answer(j, "errored")
    /\ UNCHANGED <<poolVars, consumer, server, statement, process>>

\* The PATCH with the last chunk hands the upload to consumeHooks, waiting
\* until it is at its select, and is answered.
HandOver(j) ==
    /\ Up
    /\ j \in TusJobs
    /\ request[j] = "open"
    /\ consumer = NoJob
    /\ consumer' = j
    /\ Answer(j, "succeeded")
    /\ UNCHANGED <<poolVars, server, statement, process>>

-----------------------------------------------------------------------------
(* consumeHooks.                                                           *)

ConsumerEnqueues ==
    /\ Up
    /\ consumer # NoJob
    /\ statement[<<"insert", consumer>>] = "done"
    /\ Pool!CallEnqueue(consumer)
    /\ UNCHANGED <<request, consumer, server, statement, process>>

\* finishUpload returned: with Enqueue, or before it, with an error.
ConsumerReturns ==
    /\ Up
    /\ consumer # NoJob
    /\ statement[<<"insert", consumer>>] \in {"none", "failed"} \/ caller[consumer] = "returned"
    /\ consumer' = NoJob
    /\ UNCHANGED <<poolVars, request, server, statement, process>>

\* The send panicked and nothing recovers: the Go runtime ends the process.
ConsumerPanics ==
    /\ Up
    /\ consumer # NoJob
    /\ caller[consumer] = "panicked"
    /\ process' = "crashed"
    /\ UNCHANGED <<poolVars, request, consumer, server, statement>>

-----------------------------------------------------------------------------
(* The pool's own steps, while the process lives.                          *)

PoolTakes(j) ==
    /\ Up
    /\ Pool!CallerStep(j)
    /\ UNCHANGED <<request, consumer, server, statement, process>>

\* process(j) returns when its statements have been answered.
PoolWorks(w) ==
    /\ Up
    /\ worker[w] \in Jobs => statement[<<"process", worker[w]>>] \in {"done", "failed"}
    /\ Pool!WorkerStep(w)
    /\ UNCHANGED <<request, consumer, server, statement, process>>

-----------------------------------------------------------------------------
(* main.                                                                   *)

\* The signal arrives; srv.Shutdown closes the listener.
Signal ==
    /\ Up
    /\ server = "listening"
    /\ server' = "grace"
    /\ UNCHANGED <<poolVars, request, consumer, statement, process>>

\* srv.Shutdown saw every connection idle and closed it.
HttpDrained ==
    /\ Up
    /\ server = "grace"
    /\ \A j \in Jobs : request[j] # "open"
    /\ server' = "drained"
    /\ UNCHANGED <<poolVars, request, consumer, statement, process>>

\* Mutation: srv.Shutdown is given a context without a deadline.
HttpCutNever ==
    /\ FALSE
    /\ UNCHANGED vars

\* Its context expired: the requests that are still open go on running.
HttpCut ==
    /\ Up
    /\ server = "grace"
    /\ server' = "cut"
    /\ UNCHANGED <<poolVars, request, consumer, statement, process>>

\* Mutation: the pool is shut down while srv.Shutdown is still waiting.
ClosePoolEarly ==
    /\ Up
    /\ server # "listening"
    /\ Pool!CloseJobs
    /\ UNCHANGED <<request, consumer, server, statement, process>>

ClosePool ==
    /\ Up
    /\ server \in {"drained", "cut"}
    /\ Pool!CloseJobs
    /\ UNCHANGED <<request, consumer, server, statement, process>>

DrainDone ==
    /\ Up
    /\ Pool!Drained
    /\ UNCHANGED <<request, consumer, server, statement, process>>

DrainCut ==
    /\ Up
    /\ Pool!GiveUp
    /\ UNCHANGED <<request, consumer, server, statement, process>>

\* Its deferred pool.Close(): no connection is given out any more.
CloseConnections ==
    /\ process = "up"
    /\ owner \in {"drained", "gaveup"}
    /\ process' = "closing"
    /\ UNCHANGED <<poolVars, request, consumer, server, statement>>

\* It waits for those that are in use, without a deadline; then main returns,
\* and every goroutine ends with it.
MainReturns ==
    /\ process = "closing"
    /\ \A s \in Statements : statement[s] # "running"
    /\ process' = "exited"
    /\ UNCHANGED <<poolVars, request, consumer, server, statement>>

-----------------------------------------------------------------------------
RequestStep(j) ==
    FormEnqueues(j) \/ FormErrs(j) \/ FormAnswers(j) \/ FormPanics(j) \/ HandOver(j)

ConsumerStep == ConsumerEnqueues \/ ConsumerReturns \/ ConsumerPanics

MainStep ==
    \/ HttpDrained \/ HttpCut \/ ClosePool \/ DrainDone \/ DrainCut
    \/ CloseConnections \/ MainReturns

DatabaseStep == \E s \in Statements : Answers(s)

GoroutineStep ==
    \/ \E j \in Jobs : RequestStep(j) \/ PoolTakes(j)
    \/ \E s \in Statements : Issue(s)
    \/ \E w \in Workers : PoolWorks(w)
    \/ ConsumerStep

Next ==
    \/ \E j \in Jobs : Arrive(j)
    \/ GoroutineStep
    \/ DatabaseStep
    \/ Signal
    \/ MainStep

Spec == Init /\ [][Next]_vars

\* Only main has to go on, and it is driven by two deadlines of its own: a
\* worker may hang in ffmpeg, a request in a slow client, and any of them in
\* a statement.
MainFairSpec == Spec /\ WF_vars(MainStep)

\* What the code does not see to: statements that are issued are answered.
DatabaseAnswers == WF_vars(DatabaseStep)

\* The other goroutines and the database go on, and nobody has to send the
\* signal or a request.  Each takes finitely many steps, so that it is enough
\* that one of those that can go on does.
OthersGoOn == WF_vars(GoroutineStep \/ DatabaseStep)

-----------------------------------------------------------------------------
(* Properties.                                                             *)

\* "Stop accepting new HTTP requests but let in-flight ones finish": a form
\* upload meets the closed channel only when the HTTP deadline passed with
\* its request open.
FormNeverMeetsClose ==
    \A j \in FormJobs : caller[j] = "panicked" => server = "cut"

\* After a shutdown whose drain was not cut short, every photo the server
\* reported as uploaded has been worked on before the process ended; of the
\* tus uploads, those that finishUpload gave up on and the one it was still
\* busy with have not.
CleanExitLosesNothing ==
    process = "exited" /\ owner = "drained" =>
        \A j \in Jobs : request[j] = "succeeded" =>
            \/ j \in done
            \/ j \in TusJobs /\ (caller[j] = "idle" \/ consumer = j)

\* Requests, the consumer, the buffer and the workers wait on one another and
\* never in a circle: as long as goroutines are scheduled, every request is
\* answered or ends with the process.  (None is ever open again, so it is enough
\* that there is always a later time when none is open.)
RequestsEnd == OthersGoOn =>
    []<>(~Up \/ \A j \in Jobs : request[j] # "open")

\* A signalled process ends, whatever its requests and workers do, if only
\* the database answers: of the three waits of main the last has no deadline.
ShutdownTerminates == DatabaseAnswers => (server = "grace" ~> ~Up)

\* "Drain in-flight processing jobs (or give up after a deadline)": the
\* process does not end with accepted jobs unfinished unless the deadline of
\* the drain has passed.
EndsOnlyAfterDrain ==
    ~Up /\ owner # "gaveup" => \A j \in Jobs : caller[j] = "returned" => j \in done
=============================================================================
