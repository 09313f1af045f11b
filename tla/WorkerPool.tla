------------------------------ MODULE WorkerPool -----------------------------
(***************************************************************************)
(* The worker pool of internal/worker/processor.go: a buffered channel of  *)
(* jobs, the goroutines that call Enqueue on it, the worker goroutines that *)
(* range over it, and Shutdown, which closes it and waits for the workers  *)
(* until a deadline.                                                       *)
(*                                                                         *)
(* The channel is Go's: a send parks its goroutine while the buffer is     *)
(* full and panics once the channel is closed, even when it was already    *)
(* parked; a receive from a closed channel still yields what is buffered,  *)
(* and the range loop ends when nothing is.  A job here is the photo ID    *)
(* the Job struct holds; every photo ID is drawn afresh by the upload      *)
(* handler and enqueued by one goroutine, once, so that goroutine's state  *)
(* is indexed by the job.  What process() does with the rows and the files *)
(* is the business of module PhotoLifecycle.                               *)
(***************************************************************************)
EXTENDS Naturals, Sequences, FiniteSets, Functions

CONSTANTS
    Jobs,        \* the jobs that callers may enqueue
    Workers,     \* the worker goroutines New starts
    QueueDepth,  \* capacity of the channel's buffer
    NoJob,       \* what a worker holds while it waits for a job
    Gone         \* what a worker holds once its goroutine has returned

\* New starts at least one worker and never makes an unbuffered channel.
ASSUME PoolAssumption ==
    /\ IsFiniteSet(Workers) /\ Workers # {}
    /\ QueueDepth \in Nat \ {0}
    /\ NoJob \notin Jobs /\ Gone \notin Jobs /\ NoJob # Gone

VARIABLES
    queue,    \* the channel's buffer, oldest job first
    closed,   \* whether close(p.jobs) has run
    caller,   \* [Jobs -> ...]: the goroutine that enqueues the job
    worker,   \* [Workers -> Jobs \cup {NoJob, Gone}]: the job a worker is on
    done,     \* the jobs for which process() has returned
    owner,    \* the goroutine that calls Shutdown: "running", "waiting" in
              \* the select, or out of it, "drained" or "gaveup"
    accepted  \* history: the jobs the channel took, in order

vars == <<queue, closed, caller, worker, done, owner, accepted>>

CallerStates == {"idle", "sending", "returned", "panicked"}
OwnerStates == {"running", "waiting", "drained", "gaveup"}

TypeOK ==
    /\ queue \in Seq(Jobs) /\ Len(queue) <= QueueDepth
    /\ closed \in BOOLEAN
    /\ caller \in [Jobs -> CallerStates]
    /\ worker \in [Workers -> Jobs \cup {NoJob, Gone}]
    /\ done \in SUBSET Jobs
    /\ owner \in OwnerStates
    /\ accepted \in Seq(Jobs)

Init ==
    /\ queue = <<>>
    /\ closed = FALSE
    /\ caller = [j \in Jobs |-> "idle"]
    /\ worker = [w \in Workers |-> NoJob]
    /\ done = {}
    /\ owner = "running"
    /\ accepted = <<>>

-----------------------------------------------------------------------------
(* Enqueue.                                                                *)

\* The caller reaches the send statement.  Nothing orders this before the
\* close: whoever calls Enqueue does not ask whether Shutdown has run.
CallEnqueue(j) ==
    /\ caller[j] = "idle"
    /\ caller' = [caller EXCEPT ![j] = "sending"]
    /\ UNCHANGED <<queue, closed, worker, done, owner, accepted>>

\* Mutation: a slice in place of the channel, that grows.
SendUnbounded(j) ==
    /\ caller[j] = "sending"
    /\ ~closed
    /\ queue' = Append(queue, j)
    /\ accepted' = Append(accepted, j)
    /\ caller' = [caller EXCEPT ![j] = "returned"]
    /\ UNCHANGED <<closed, worker, done, owner>>

\* The channel takes the job and Enqueue returns; while the buffer is full
\* the caller stays parked.
Send(j) ==
    /\ caller[j] = "sending"
    /\ ~closed
    /\ Len(queue) < QueueDepth
    /\ queue' = Append(queue, j)
    /\ accepted' = Append(accepted, j)
    /\ caller' = [caller EXCEPT ![j] = "returned"]
    /\ UNCHANGED <<closed, worker, done, owner>>

\* A send on a closed channel panics, also when it was parked before.
SendOnClosed(j) ==
    /\ caller[j] = "sending"
    /\ closed
    /\ caller' = [caller EXCEPT ![j] = "panicked"]
    /\ UNCHANGED <<queue, closed, worker, done, owner, accepted>>

-----------------------------------------------------------------------------
(* The worker goroutines: run's range loop and process.                    *)

\* Mutation: the job is read and left in the channel, as if two workers could
\* be handed the same element.
ReceiveKeepsHead(w) ==
    /\ worker[w] = NoJob
    /\ queue # <<>>
    /\ worker' = [worker EXCEPT ![w] = Head(queue)]
    /\ UNCHANGED <<queue, closed, caller, done, owner, accepted>>

\* Mutation: a stack in place of the channel.
ReceiveNewest(w) ==
    /\ worker[w] = NoJob
    /\ queue # <<>>
    /\ worker' = [worker EXCEPT ![w] = queue[Len(queue)]]
    /\ queue' = SubSeq(queue, 1, Len(queue) - 1)
    /\ UNCHANGED <<closed, caller, done, owner, accepted>>

Receive(w) ==
    /\ worker[w] = NoJob
    /\ queue # <<>>
    /\ worker' = [worker EXCEPT ![w] = Head(queue)]
    /\ queue' = Tail(queue)
    /\ UNCHANGED <<closed, caller, done, owner, accepted>>

\* process() has no result: it returns whether or not the photo could be
\* processed, and the worker goes back to the channel.
Process(w) ==
    /\ worker[w] \in Jobs
    /\ done' = done \cup {worker[w]}
    /\ worker' = [worker EXCEPT ![w] = NoJob]
    /\ UNCHANGED <<queue, closed, caller, owner, accepted>>

\* Mutation: a quit flag in place of the closed channel, looked at between
\* jobs, so that what is still buffered is dropped.
ExitLoopAtOnce(w) ==
    /\ worker[w] = NoJob
    /\ closed
    /\ worker' = [worker EXCEPT ![w] = Gone]
    /\ UNCHANGED <<queue, closed, caller, done, owner, accepted>>

\* Mutation: a select with a default branch, that returns when it finds no job.
ExitLoopWhenIdle(w) ==
    /\ worker[w] = NoJob
    /\ queue = <<>>
    /\ worker' = [worker EXCEPT ![w] = Gone]
    /\ UNCHANGED <<queue, closed, caller, done, owner, accepted>>

\* The range loop ends, and wg.Done runs, once the channel is closed and
\* nothing is buffered.
ExitLoop(w) ==
    /\ worker[w] = NoJob
    /\ closed
    /\ queue = <<>>
    /\ worker' = [worker EXCEPT ![w] = Gone]
    /\ UNCHANGED <<queue, closed, caller, done, owner, accepted>>

-----------------------------------------------------------------------------
(* Shutdown.                                                               *)

\* Mutation: Shutdown waits for the workers without closing the channel.
CloseJobsForgotten ==
    /\ owner = "running"
    /\ owner' = "waiting"
    /\ UNCHANGED <<queue, closed, caller, worker, done, accepted>>

CloseJobs ==
    /\ owner = "running"
    /\ closed' = TRUE
    /\ owner' = "waiting"
    /\ UNCHANGED <<queue, caller, worker, done, accepted>>

\* wg.Wait returned in the helper goroutine, and the select saw it.
Drained ==
    /\ owner = "waiting"
    /\ \A w \in Workers : worker[w] = Gone
    /\ owner' = "drained"
    /\ UNCHANGED <<queue, closed, caller, worker, done, accepted>>

\* The context expired first, which it may do at any time.
GiveUp ==
    /\ owner = "waiting"
    /\ owner' = "gaveup"
    /\ UNCHANGED <<queue, closed, caller, worker, done, accepted>>

-----------------------------------------------------------------------------
CallerStep(j) == Send(j) \/ SendOnClosed(j)
WorkerStep(w) == Receive(w) \/ Process(w) \/ ExitLoop(w)

Next ==
    \/ \E j \in Jobs : CallEnqueue(j) \/ CallerStep(j)
    \/ \E w \in Workers : WorkerStep(w)
    \/ CloseJobs
    \/ Drained
    \/ GiveUp

Spec == Init /\ [][Next]_vars

\* The Go scheduler runs every goroutine that can run, and every step of
\* process() has a timeout.  Callers need not call, the owner need not shut
\* down, and the deadline need not pass.
Fairness ==
    /\ \A j \in Jobs : WF_vars(CallerStep(j))
    /\ \A w \in Workers : WF_vars(WorkerStep(w))
    /\ WF_vars(Drained)

FairSpec == Spec /\ Fairness

-----------------------------------------------------------------------------
(* Properties.                                                             *)

Buffered == Range(queue)
Running == {worker[w] : w \in Workers} \cap Jobs

\* A job whose Enqueue returned is in exactly one place: once in the buffer,
\* in the hands of one worker, or worked off.  None is lost between the
\* channel and a worker and none is worked on twice.
OnePlace ==
    /\ {j \in Jobs : caller[j] = "returned"} = Buffered \cup Running \cup done
    /\ Buffered \cap Running = {}
    /\ Buffered \cap done = {}
    /\ Running \cap done = {}
    /\ IsInjective(queue)
    /\ \A v, w \in Workers : worker[v] = worker[w] /\ worker[v] \in Jobs => v = w

\* When Shutdown comes back without its deadline having passed, every job
\* that was accepted has been worked off, and no worker is left.
DrainIsComplete ==
    owner = "drained" => \A j \in Jobs : caller[j] = "returned" => j \in done

\* The pool is a ledger of jobs: accepted only while open, started in order
\* of acceptance, at most one per worker in progress, finished once.
Started == Len(accepted) - Len(queue)
Phase ==
    CASE owner = "running" -> "open"
      [] owner = "waiting" -> "closed"
      [] OTHER -> owner
Ledger == INSTANCE JobLedger WITH
    Width <- Cardinality(Workers),
    started <- Started,
    finished <- done,
    phase <- Phase
LedgerSpec == Ledger!Spec

\* Every job that was accepted is worked off, whatever Shutdown does: closing
\* the channel does not drop what is buffered in it.
AcceptedIsProcessed == \A j \in Jobs : caller[j] = "returned" ~> j \in done

\* A Shutdown that is not given up on ends: every worker leaves its loop.
ShutdownEnds == owner = "waiting" ~> owner \in {"drained", "gaveup"}
=============================================================================
