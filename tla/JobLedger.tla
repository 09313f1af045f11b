------------------------------ MODULE JobLedger ------------------------------
(***************************************************************************)
(* What worker.Pool (internal/worker/processor.go) promises to the code    *)
(* that hands it jobs, with no channel and no goroutine in sight: a ledger *)
(* of accepted jobs.                                                       *)
(*                                                                         *)
(*   - while intake is open a job may be accepted, once;                   *)
(*   - accepted jobs are started in the order they were accepted, at most  *)
(*     Width of them being in progress at a time, and each finishes once;  *)
(*   - closing intake is final; a job is accepted never after it;          *)
(*   - Shutdown reports "drained" only when every accepted job finished.   *)
(***************************************************************************)
EXTENDS Naturals, Sequences, FiniteSets

CONSTANTS
    Jobs,   \* the jobs callers may hand over
    Width   \* how many jobs may be in progress at once

VARIABLES
    accepted,  \* the accepted jobs, oldest first
    started,   \* how many of them were started
    finished,  \* the jobs that were worked off
    phase      \* what the pool's owner was told: "open", "closed",
               \* "drained" (all done) or "gaveup" (the deadline passed)

vars == <<accepted, started, finished, phase>>

Prefix(n) == {accepted[i] : i \in 1..n}

Init ==
    /\ accepted = <<>>
    /\ started = 0
    /\ finished = {}
    /\ phase = "open"

Accept(j) ==
    /\ phase = "open"
    /\ j \notin Prefix(Len(accepted))
    /\ accepted' = Append(accepted, j)
    /\ UNCHANGED <<started, finished, phase>>

\* The oldest job nobody has started is started, if a slot is free.
Start ==
    /\ phase # "drained"
    /\ started < Len(accepted)
    /\ Cardinality(Prefix(started) \ finished) < Width
    /\ started' = started + 1
    /\ UNCHANGED <<accepted, finished, phase>>

Finish(j) ==
    /\ phase # "drained"
    /\ j \in Prefix(started) \ finished
    /\ finished' = finished \cup {j}
    /\ UNCHANGED <<accepted, started, phase>>

CloseIntake ==
    /\ phase = "open"
    /\ phase' = "closed"
    /\ UNCHANGED <<accepted, started, finished>>

Drain ==
    /\ phase = "closed"
    /\ finished = Prefix(Len(accepted))
    /\ phase' = "drained"
    /\ UNCHANGED <<accepted, started, finished>>

GiveUp ==
    /\ phase = "closed"
    /\ phase' = "gaveup"
    /\ UNCHANGED <<accepted, started, finished>>

Next ==
    \/ \E j \in Jobs : Accept(j) \/ Finish(j)
    \/ Start
    \/ CloseIntake
    \/ Drain
    \/ GiveUp

Spec == Init /\ [][Next]_vars
=============================================================================
