---------------------------- MODULE ServerProofs -----------------------------
(***************************************************************************)
(* Proofs about Server, for any uploads, any finite set of workers and any *)
(* capacity of the channel: the process runs the pool as WorkerPool says,  *)
(* and main's order of shutting down does what its comments promise.       *)
(***************************************************************************)
EXTENDS Server, SequenceTheorems, TLAPS

\* Workers leave only a closed, empty channel, and "drained" is said only
\* when all of them have.
LoopEnds ==
    /\ closed <=> owner # "running"
    /\ \A w \in Workers : worker[w] = Gone => closed /\ queue = <<>>
    /\ owner = "drained" => \A w \in Workers : worker[w] = Gone

\* An accepted job is in the buffer, in the hands of a worker, or done.
NothingLost ==
    \A j \in Jobs : caller[j] = "returned" =>
        \/ j \in Range(queue)
        \/ \E w \in Workers : worker[w] = j
        \/ j \in done

\* The channel is closed only once srv.Shutdown has returned, and when that
\* saw every request answered none comes after it.
HttpFirst ==
    /\ closed => server \in {"drained", "cut"}
    /\ server = "drained" => \A j \in Jobs : request[j] # "open"

\* A form request is open while it is in Enqueue and is answered with success
\* after it; a tus upload is in Enqueue only in the hands of the consumer.
CallersHeld ==
    /\ \A j \in FormJobs :
          /\ caller[j] = "sending" => request[j] = "open"
          /\ request[j] = "succeeded" => caller[j] = "returned"
    /\ \A j \in TusJobs : caller[j] \in {"sending", "panicked"} => consumer = j
    /\ FormNeverMeetsClose

\* A photo is enqueued once its row has been inserted.
RowFirst == \A j \in Jobs : caller[j] # "idle" => statement[<<"insert", j>>] = "done"

\* The inductive invariant.
IInv == TypeOK /\ LoopEnds /\ NothingLost /\ HttpFirst /\ RowFirst /\ CallersHeld

-----------------------------------------------------------------------------
(* The process runs the pool.                                              *)

\* Every step of the process is a step of the pool or leaves the pool alone.
LEMMA StepIsPoolStep == TypeOK /\ [Next]_vars => [Pool!Next]_(Pool!vars)
<1> SUFFICES ASSUME TypeOK, Next PROVE Pool!Next \/ UNCHANGED poolVars
  BY DEF vars, poolVars, Pool!vars
<1>1. ASSUME NEW j \in Jobs, Arrive(j) PROVE UNCHANGED poolVars
  BY <1>1 DEF Arrive
<1>2. ASSUME NEW j \in Jobs, RequestStep(j) PROVE Pool!Next \/ UNCHANGED poolVars
  BY <1>2 DEF RequestStep, FormEnqueues, FormErrs, FormAnswers, FormPanics, HandOver, Pool!Next
<1>8. ASSUME NEW s \in Statements, Issue(s) \/ Answers(s) PROVE UNCHANGED poolVars
  BY <1>8 DEF Issue, Answers
<1>3. ASSUME NEW j \in Jobs, PoolTakes(j) PROVE Pool!Next
  BY <1>3 DEF PoolTakes, Pool!Next
<1>4. ASSUME NEW w \in Workers, PoolWorks(w) PROVE Pool!Next
  BY <1>4 DEF PoolWorks, Pool!Next
<1>5. CASE ConsumerStep
  <2>1. CASE ConsumerEnqueues
    <3>1. consumer \in Jobs
      BY <2>1 DEF ConsumerEnqueues, TypeOK, Jobs
    <3> QED
      BY <2>1, <3>1 DEF ConsumerEnqueues, Pool!Next
  <2> QED
    BY <1>5, <2>1 DEF ConsumerStep, ConsumerReturns, ConsumerPanics
<1>6. CASE Signal
  BY <1>6 DEF Signal
<1>7. CASE MainStep
  BY <1>7 DEF MainStep, HttpDrained, HttpCut, ClosePool, DrainDone, DrainCut, CloseConnections, MainReturns,
     Pool!Next
<1> QED
  BY <1>1, <1>2, <1>3, <1>4, <1>5, <1>6, <1>7, <1>8 DEF Next, GoroutineStep, DatabaseStep

-----------------------------------------------------------------------------
(* The types.                                                              *)

\* The pool's part of the types survives each of the pool's steps.
LEMMA PoolTypeOK == Pool!TypeOK /\ [Pool!Next]_(Pool!vars) => Pool!TypeOK'
<1> SUFFICES ASSUME Pool!TypeOK, [Pool!Next]_(Pool!vars) PROVE Pool!TypeOK'
  OBVIOUS
<1> USE ServerAssumption DEF Pool!TypeOK, Pool!CallerStates, Pool!OwnerStates
<1>1. ASSUME NEW j \in Jobs, Pool!CallEnqueue(j) PROVE Pool!TypeOK'
  BY <1>1 DEF Pool!CallEnqueue
<1>2. ASSUME NEW j \in Jobs, Pool!Send(j) PROVE Pool!TypeOK'
  BY <1>2, AppendProperties DEF Pool!Send
<1>3. ASSUME NEW j \in Jobs, Pool!SendOnClosed(j) PROVE Pool!TypeOK'
  BY <1>3 DEF Pool!SendOnClosed
<1>4. ASSUME NEW w \in Workers, Pool!Receive(w) PROVE Pool!TypeOK'
  <2>1. Head(queue) \in Jobs /\ Tail(queue) \in Seq(Jobs) /\ Len(Tail(queue)) <= QueueDepth
    BY <1>4, HeadTailProperties DEF Pool!Receive
  <2> QED
    BY <1>4, <2>1 DEF Pool!Receive
<1>5. ASSUME NEW w \in Workers, Pool!Process(w) PROVE Pool!TypeOK'
  BY <1>5 DEF Pool!Process
<1>6. ASSUME NEW w \in Workers, Pool!ExitLoop(w) PROVE Pool!TypeOK'
  BY <1>6 DEF Pool!ExitLoop
<1>7. CASE Pool!CloseJobs
  BY <1>7 DEF Pool!CloseJobs
<1>8. CASE Pool!Drained
  BY <1>8 DEF Pool!Drained
<1>9. CASE Pool!GiveUp
  BY <1>9 DEF Pool!GiveUp
<1>10. CASE UNCHANGED Pool!vars
  BY <1>10 DEF Pool!vars
<1> QED
  BY <1>1, <1>2, <1>3, <1>4, <1>5, <1>6, <1>7, <1>8, <1>9, <1>10
  DEF Pool!Next, Pool!CallerStep, Pool!WorkerStep

\* The process keeps its types, the pool's included.
LEMMA StepTypeOK == TypeOK /\ [Next]_vars => TypeOK'
<1> SUFFICES ASSUME TypeOK, [Next]_vars PROVE TypeOK'
  OBVIOUS
<1>1. Pool!TypeOK'
  BY StepIsPoolStep, PoolTypeOK DEF TypeOK
<1> DEFINE OwnTypes ==
        /\ request \in [Jobs -> RequestStates]
        /\ consumer \in TusJobs \cup {NoJob}
        /\ server \in {"listening", "grace", "drained", "cut"}
        /\ statement \in [Statements -> StatementStates]
        /\ process \in {"up", "closing", "exited", "crashed"}
<1>2. OwnTypes'
  <2> USE DEF TypeOK, RequestStates, StatementStates, Answer
  <2>1. ASSUME NEW j \in Jobs, Arrive(j) \/ RequestStep(j) \/ PoolTakes(j) PROVE OwnTypes'
    BY <2>1 DEF Arrive, RequestStep, FormEnqueues, FormErrs, FormAnswers, FormPanics, HandOver, PoolTakes
  <2>6. ASSUME NEW s \in Statements, Issue(s) \/ Answers(s) PROVE OwnTypes'
    BY <2>6 DEF Issue, Answers
  <2>2. ASSUME NEW w \in Workers, PoolWorks(w) PROVE OwnTypes'
    BY <2>2 DEF PoolWorks
  <2>3. CASE ConsumerStep
    BY <2>3 DEF ConsumerStep, ConsumerEnqueues, ConsumerReturns, ConsumerPanics
  <2>4. CASE Signal \/ MainStep
    BY <2>4 DEF Signal, MainStep, HttpDrained, HttpCut, ClosePool, DrainDone, DrainCut,
       CloseConnections, MainReturns
  <2>5. CASE UNCHANGED vars
    BY <2>5 DEF vars
  <2> QED
    BY <2>1, <2>2, <2>3, <2>4, <2>5, <2>6 DEF Next, GoroutineStep, DatabaseStep
<1> QED
  BY <1>1, <1>2 DEF TypeOK

-----------------------------------------------------------------------------
(* The invariant.                                                          *)

\* A send adds its job to those that are buffered.
LEMMA SendAddsJob ==
    ASSUME NEW q \in Seq(Jobs), NEW j \in Jobs
    PROVE  Range(Append(q, j)) = Range(q) \cup {j}
<1>1. <<j>> \in Seq(Jobs) /\ Range(<<j>>) = {j}
  BY DEF Range
<1>2. Append(q, j) = q \o <<j>>
  BY AppendIsConcat
<1>3. Range(q \o <<j>>) = Range(q) \cup Range(<<j>>)
  BY <1>1, RangeConcatenation
<1> QED
  BY <1>1, <1>2, <1>3

\* A receive takes one of them.
LEMMA ReceiveTakesJob ==
    ASSUME NEW q \in Seq(Jobs), q # <<>>
    PROVE  Head(q) \in Jobs /\ Range(q) = {Head(q)} \cup Range(Tail(q))
<1>1. /\ Head(q) \in Jobs /\ Tail(q) \in Seq(Jobs)
      /\ <<Head(q)>> \in Seq(Jobs) /\ Range(<<Head(q)>>) = {Head(q)}
  BY HeadTailProperties DEF Range
<1>2. q = <<Head(q)>> \o Tail(q)
  <2>1. Len(q) \in Nat /\ Len(q) > 0 /\ Head(q) = q[1]
    BY EmptySeq, LenProperties
  <2>2. SubSeq(q, 1, Len(q)) = <<q[1]>> \o SubSeq(q, 2, Len(q))
    <3>1. 1 \in 1..Len(q) /\ Len(q) \in 1..Len(q) /\ 1 + 1 = 2
      BY <2>1
    <3>2. SubSeq(q, 1, Len(q)) = <<q[1]>> \o SubSeq(q, 1 + 1, Len(q))
      BY <3>1, SubSeqRecursiveFirst
    <3> QED
      BY <3>1, <3>2
  <2> QED
    BY <2>1, <2>2, SubSeqFull, TailIsSubSeq
<1>3. Range(<<Head(q)>> \o Tail(q)) = Range(<<Head(q)>>) \cup Range(Tail(q))
  <2> DEFINE first == <<Head(q)>>
             rest == Tail(q)
  <2>1. first \in Seq(Jobs) /\ rest \in Seq(Jobs)
    BY <1>1
  <2> HIDE DEF first, rest
  <2>2. Range(first \o rest) = Range(first) \cup Range(rest)
    BY <2>1, RangeConcatenation
  <2> QED
    BY <2>2 DEF first, rest
<1> QED
  BY <1>1, <1>2, <1>3

\* The pool's part of the invariant survives each of the pool's steps.
LEMMA PoolInv ==
    TypeOK /\ LoopEnds /\ NothingLost /\ [Pool!Next]_(Pool!vars) => LoopEnds' /\ NothingLost'
<1> SUFFICES ASSUME TypeOK, LoopEnds, NothingLost, [Pool!Next]_(Pool!vars)
             PROVE  LoopEnds' /\ NothingLost'
  OBVIOUS
<1> USE ServerAssumption DEF TypeOK, Pool!TypeOK, LoopEnds, NothingLost
<1>1. ASSUME NEW j \in Jobs, Pool!CallEnqueue(j) PROVE LoopEnds' /\ NothingLost'
  BY <1>1 DEF Pool!CallEnqueue
<1>2. ASSUME NEW j \in Jobs, Pool!Send(j) PROVE LoopEnds' /\ NothingLost'
  <2>1. Range(queue') = Range(queue) \cup {j}
    BY <1>2, SendAddsJob DEF Pool!Send
  <2> QED
    BY <1>2, <2>1 DEF Pool!Send
<1>3. ASSUME NEW j \in Jobs, Pool!SendOnClosed(j) PROVE LoopEnds' /\ NothingLost'
  BY <1>3 DEF Pool!SendOnClosed
<1>4. ASSUME NEW w \in Workers, Pool!Receive(w) PROVE LoopEnds' /\ NothingLost'
  <2>1. Head(queue) \in Jobs /\ Range(queue) = {Head(queue)} \cup Range(queue')
    BY <1>4, ReceiveTakesJob DEF Pool!Receive
  <2>2. LoopEnds'
    BY <1>4, <2>1 DEF Pool!Receive
  <2>3. ASSUME NEW j \in Jobs, caller'[j] = "returned"
        PROVE  j \in Range(queue') \/ (\E v \in Workers : worker'[v] = j) \/ j \in done'
    <3>1. CASE j = Head(queue)
      BY <1>4, <3>1 DEF Pool!Receive
    <3>2. CASE j # Head(queue)
      BY <1>4, <2>1, <2>3, <3>2 DEF Pool!Receive
    <3> QED
      BY <3>1, <3>2
  <2> QED
    BY <2>2, <2>3
<1>5. ASSUME NEW w \in Workers, Pool!Process(w) PROVE LoopEnds' /\ NothingLost'
  BY <1>5 DEF Pool!Process
<1>6. ASSUME NEW w \in Workers, Pool!ExitLoop(w) PROVE LoopEnds' /\ NothingLost'
  BY <1>6 DEF Pool!ExitLoop
<1>7. CASE Pool!CloseJobs
  BY <1>7 DEF Pool!CloseJobs
<1>8. CASE Pool!Drained
  BY <1>8 DEF Pool!Drained
<1>9. CASE Pool!GiveUp
  BY <1>9 DEF Pool!GiveUp
<1>10. CASE UNCHANGED Pool!vars
  BY <1>10 DEF Pool!vars
<1> QED
  BY <1>1, <1>2, <1>3, <1>4, <1>5, <1>6, <1>7, <1>8, <1>9, <1>10
  DEF Pool!Next, Pool!CallerStep, Pool!WorkerStep

\* main closes the channel only after srv.Shutdown; requests arrive only before.
LEMMA StepHttpFirst == TypeOK /\ HttpFirst /\ [Next]_vars => HttpFirst'
<1> SUFFICES ASSUME TypeOK, HttpFirst, [Next]_vars PROVE HttpFirst'
  OBVIOUS
<1> USE DEF TypeOK, HttpFirst, Answer, poolVars
<1>1. ASSUME NEW j \in Jobs, Arrive(j) PROVE HttpFirst'
  BY <1>1 DEF Arrive
<1>2. ASSUME NEW j \in Jobs, RequestStep(j) PROVE HttpFirst'
  BY <1>2
  DEF RequestStep, FormEnqueues, FormErrs, FormAnswers, FormPanics, HandOver, Pool!CallEnqueue
<1>9. ASSUME NEW s \in Statements, Issue(s) \/ Answers(s) PROVE HttpFirst'
  BY <1>9 DEF Issue, Answers
<1>3. ASSUME NEW j \in Jobs, PoolTakes(j) PROVE HttpFirst'
  BY <1>3 DEF PoolTakes, Pool!CallerStep, Pool!Send, Pool!SendOnClosed
<1>4. ASSUME NEW w \in Workers, PoolWorks(w) PROVE HttpFirst'
  BY <1>4 DEF PoolWorks, Pool!WorkerStep, Pool!Receive, Pool!Process, Pool!ExitLoop
<1>5. CASE ConsumerStep
  BY <1>5 DEF ConsumerStep, ConsumerEnqueues, ConsumerReturns, ConsumerPanics, Pool!CallEnqueue
<1>6. CASE Signal
  BY <1>6 DEF Signal
<1>7. CASE MainStep
  BY <1>7 DEF MainStep, HttpDrained, HttpCut, ClosePool, DrainDone, DrainCut,
     CloseConnections, MainReturns, Pool!CloseJobs, Pool!Drained, Pool!GiveUp
<1>8. CASE UNCHANGED vars
  BY <1>8 DEF vars
<1> QED
  BY <1>1, <1>2, <1>3, <1>4, <1>5, <1>6, <1>7, <1>8, <1>9 DEF Next, GoroutineStep, DatabaseStep

\* Callers enter Enqueue behind the insert, and no answer is taken back.
LEMMA StepRowFirst == TypeOK /\ RowFirst /\ [Next]_vars => RowFirst'
<1> SUFFICES ASSUME TypeOK, RowFirst, [Next]_vars, NEW k \in Jobs, caller'[k] # "idle"
             PROVE  statement'[<<"insert", k>>] = "done"
  BY DEF RowFirst
<1> DEFINE row == <<"insert", k>>
<1>1. row \in Statements /\ statement \in [Statements -> StatementStates]
  BY DEF Statements, TypeOK
<1>2. caller \in [Jobs -> Pool!CallerStates]
  BY DEF TypeOK, Pool!TypeOK
<1>3. caller[k] # "idle" => statement[row] = "done"
  BY DEF RowFirst
<1> HIDE DEF row
<1> SUFFICES statement'[row] = "done"
  BY DEF row
<1>4. ASSUME NEW s \in Statements, Issue(s) \/ Answers(s) PROVE statement'[row] = "done"
  BY <1>1, <1>2, <1>3, <1>4 DEF Issue, Answers, poolVars
<1>5. ASSUME NEW j \in Jobs, statement[<<"insert", j>>] = "done", Pool!CallEnqueue(j),
             UNCHANGED statement
      PROVE  statement'[row] = "done"
  BY <1>2, <1>3, <1>5 DEF Pool!CallEnqueue, row
<1>6. ASSUME NEW j \in Jobs, Arrive(j) \/ RequestStep(j) \/ PoolTakes(j)
      PROVE  statement'[row] = "done"
  <2>1. CASE FormEnqueues(j)
    BY <1>5, <2>1 DEF FormEnqueues
  <2>2. CASE PoolTakes(j)
    BY <1>2, <1>3, <2>2 DEF PoolTakes, Pool!CallerStep, Pool!Send, Pool!SendOnClosed
  <2> QED
    BY <1>3, <1>6, <2>1, <2>2
    DEF Arrive, RequestStep, FormErrs, FormAnswers, FormPanics, HandOver, poolVars
<1>7. ASSUME NEW w \in Workers, PoolWorks(w) PROVE statement'[row] = "done"
  BY <1>3, <1>7 DEF PoolWorks, Pool!WorkerStep, Pool!Receive, Pool!Process, Pool!ExitLoop
<1>8. CASE ConsumerStep
  <2>1. consumer # NoJob => consumer \in Jobs
    BY DEF TypeOK, Jobs
  <2> QED
    BY <1>3, <1>5, <1>8, <2>1
    DEF ConsumerStep, ConsumerEnqueues, ConsumerReturns, ConsumerPanics, poolVars
<1>9. CASE Signal \/ MainStep
  BY <1>3, <1>9 DEF Signal, MainStep, HttpDrained, HttpCut, ClosePool, DrainDone, DrainCut,
     CloseConnections, MainReturns, Pool!CloseJobs, Pool!Drained, Pool!GiveUp, poolVars
<1>10. CASE UNCHANGED vars
  BY <1>3, <1>10 DEF vars, poolVars
<1> QED
  BY <1>4, <1>6, <1>7, <1>8, <1>9, <1>10 DEF Next, GoroutineStep, DatabaseStep

\* Callers enter Enqueue from an open request or from the consumer, and leave
\* it before these go on.
LEMMA StepCallersHeld ==
    TypeOK /\ HttpFirst /\ RowFirst /\ CallersHeld /\ [Next]_vars => CallersHeld'
<1> SUFFICES ASSUME TypeOK, HttpFirst, RowFirst, CallersHeld, [Next]_vars PROVE CallersHeld'
  OBVIOUS
<1> USE ServerAssumption DEF TypeOK, Pool!TypeOK, HttpFirst, CallersHeld, FormNeverMeetsClose,
        Jobs, Answer, poolVars
<1>1. ASSUME NEW j \in Jobs, Arrive(j) PROVE CallersHeld'
  BY <1>1 DEF Arrive
<1>2. ASSUME NEW j \in Jobs, RequestStep(j) PROVE CallersHeld'
  <2>1. CASE FormEnqueues(j)
    BY <2>1 DEF FormEnqueues, Pool!CallEnqueue
  <2>2. CASE FormErrs(j) \/ FormAnswers(j) \/ FormPanics(j)
    BY <2>2 DEF FormErrs, FormAnswers, FormPanics, RowFirst
  <2>3. CASE HandOver(j)
    BY <2>3 DEF HandOver
  <2> QED
    BY <1>2, <2>1, <2>2, <2>3 DEF RequestStep
<1>9. ASSUME NEW s \in Statements, Issue(s) \/ Answers(s) PROVE CallersHeld'
  BY <1>9 DEF Issue, Answers
<1>3. ASSUME NEW j \in Jobs, PoolTakes(j) PROVE CallersHeld'
  BY <1>3 DEF PoolTakes, Pool!CallerStep, Pool!Send, Pool!SendOnClosed
<1>4. ASSUME NEW w \in Workers, PoolWorks(w) PROVE CallersHeld'
  BY <1>4 DEF PoolWorks, Pool!WorkerStep, Pool!Receive, Pool!Process, Pool!ExitLoop
<1>5. CASE ConsumerStep
  BY <1>5
  DEF ConsumerStep, ConsumerEnqueues, ConsumerReturns, ConsumerPanics, Pool!CallEnqueue, RowFirst
<1>6. CASE Signal
  BY <1>6 DEF Signal
<1>7. CASE MainStep
  BY <1>7 DEF MainStep, HttpDrained, HttpCut, ClosePool, DrainDone, DrainCut,
     CloseConnections, MainReturns, Pool!CloseJobs, Pool!Drained, Pool!GiveUp
<1>8. CASE UNCHANGED vars
  BY <1>8 DEF vars
<1> QED
  BY <1>1, <1>2, <1>3, <1>4, <1>5, <1>6, <1>7, <1>8, <1>9 DEF Next, GoroutineStep, DatabaseStep

\* The process starts with an empty pool and no request.
LEMMA InitIInv == Init => IInv
<1> SUFFICES ASSUME Init PROVE IInv
  OBVIOUS
<1> USE ServerAssumption DEF Init, Pool!Init
<1>1. queue \in Seq(Jobs) /\ accepted \in Seq(Jobs)
  BY EmptySeq
<1>2. Len(queue) <= QueueDepth
  <2>1. Len(queue) = 0
    BY EmptySeq
  <2> QED
    BY <2>1
<1>3. TypeOK
  BY <1>1, <1>2 DEF TypeOK, RequestStates, StatementStates, Pool!TypeOK, Pool!CallerStates, Pool!OwnerStates
<1>4. LoopEnds /\ NothingLost
  BY DEF LoopEnds, NothingLost
<1>5. HttpFirst /\ RowFirst /\ CallersHeld
  BY DEF HttpFirst, RowFirst, CallersHeld, FormNeverMeetsClose, Jobs
<1> QED
  BY <1>3, <1>4, <1>5 DEF IInv

\* No step of the process leaves the invariant.
LEMMA StepIInv == IInv /\ [Next]_vars => IInv'
BY StepTypeOK, StepIsPoolStep, PoolInv, StepHttpFirst, StepRowFirst, StepCallersHeld DEF IInv

\* Every state the process can reach satisfies the invariant.
THEOREM Invariance == Spec => []IInv
BY InitIInv, StepIInv, PTL DEF Spec

-----------------------------------------------------------------------------
(* The theorems.                                                           *)

\* The variables of the process, and the pool's, keep their types.
THEOREM TypeCorrect == Spec => []TypeOK
BY Invariance, PTL DEF IInv

\* What requests, consumer and main do to the pool is what WorkerPool allows
\* its callers and its owner: all that is proved of WorkerPool holds of the
\* pool in the process.
THEOREM ProcessRunsPool == Spec => Pool!Spec
<1>1. Init => Pool!Init
  BY DEF Init
<1>2. IInv /\ [Next]_vars => [Pool!Next]_(Pool!vars)
  BY StepIsPoolStep DEF IInv
<1> QED
  BY <1>1, <1>2, Invariance, PTL DEF Spec, Pool!Spec

\* A form upload meets the closed channel only if the HTTP deadline passed
\* with its request open.
THEOREM FormTheorem == Spec => []FormNeverMeetsClose
<1>1. IInv => FormNeverMeetsClose
  BY DEF IInv, CallersHeld
<1> QED
  BY <1>1, Invariance, PTL

\* An exit after a complete drain has worked off whatever was reported as
\* uploaded and accepted.
THEOREM CleanExitTheorem == Spec => []CleanExitLosesNothing
<1>1. ASSUME IInv, owner = "drained", NEW j \in Jobs, caller[j] = "returned"
      PROVE  j \in done
  <2>1. queue = <<>> /\ \A w \in Workers : worker[w] = Gone
    BY <1>1, ServerAssumption DEF IInv, LoopEnds
  <2>2. j \notin Range(queue)
    BY <2>1 DEF Range
  <2> QED
    BY <1>1, <2>1, <2>2, ServerAssumption DEF IInv, NothingLost
<1>2. ASSUME IInv, NEW j \in Jobs, request[j] = "succeeded", caller[j] # "returned"
      PROVE  j \in TusJobs /\ (caller[j] = "idle" \/ consumer = j)
  BY <1>2 DEF IInv, TypeOK, Pool!TypeOK, Pool!CallerStates, CallersHeld, Jobs
<1>3. IInv => CleanExitLosesNothing
  BY <1>1, <1>2 DEF CleanExitLosesNothing
<1> QED
  BY <1>3, Invariance, PTL

=============================================================================
