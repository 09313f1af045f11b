-------------------------- MODULE WorkerPoolProofs ---------------------------
(***************************************************************************)
(* Proofs about WorkerPool, for any set of jobs, any finite set of workers *)
(* and any capacity of the channel.                                        *)
(*                                                                         *)
(* OnePlace is inductive given the types.  DrainIsComplete is not: it      *)
(* needs to know what a worker that has left its loop tells about the      *)
(* channel, and when Shutdown may report "drained".  Both are in IInv.     *)
(***************************************************************************)
EXTENDS WorkerPool, SequenceTheorems, FiniteSetTheorems, TLAPS

\* The channel is closed by Shutdown and by nobody else; workers leave only a
\* closed, empty channel; Shutdown reports "drained" only after all of them.
LoopEnds ==
    /\ closed <=> owner # "running"
    /\ \A w \in Workers : worker[w] = Gone => closed /\ queue = <<>>
    /\ owner = "drained" => \A w \in Workers : worker[w] = Gone

\* The inductive invariant.
IInv == TypeOK /\ OnePlace /\ LoopEnds

-----------------------------------------------------------------------------
(* What a send and a receive do to the elements of the buffer.             *)

\* An element appended to the buffer is in it, besides those that were, and at one
\* place if it was not among them.
LEMMA AppendElements ==
    ASSUME NEW S, NEW q \in Seq(S), NEW j \in S
    PROVE  /\ Range(Append(q, j)) = Range(q) \cup {j}
           /\ IsInjective(q) /\ j \notin Range(q) => IsInjective(Append(q, j))
<1> DEFINE r == Append(q, j)
<1>1. /\ r \in Seq(S) /\ Len(q) \in Nat /\ Len(r) = Len(q) + 1
      /\ \A i \in 1..Len(q) : r[i] = q[i]
      /\ r[Len(q) + 1] = j
  BY AppendProperties, LenProperties
<1>2. DOMAIN q = 1..Len(q) /\ DOMAIN r = 1..(Len(q) + 1)
  BY <1>1, LenProperties
<1> HIDE DEF r
<1>3. Range(r) = Range(q) \cup {j}
  <2>1. ASSUME NEW x \in Range(r) PROVE x \in Range(q) \cup {j}
    <3>1. PICK i \in 1..(Len(q) + 1) : x = r[i]
      BY <1>2 DEF Range
    <3>2. i \in 1..Len(q) \/ i = Len(q) + 1
      BY <1>1
    <3> QED
      BY <1>1, <1>2, <3>1, <3>2 DEF Range
  <2>2. ASSUME NEW x \in Range(q) PROVE x \in Range(r)
    <3>1. PICK i \in 1..Len(q) : x = q[i]
      BY <1>2 DEF Range
    <3>2. i \in 1..(Len(q) + 1) /\ r[i] = x
      BY <1>1, <3>1
    <3> QED
      BY <1>2, <3>2 DEF Range
  <2>3. j \in Range(r)
    <3>1. Len(q) + 1 \in 1..(Len(q) + 1)
      BY <1>1
    <3> QED
      BY <1>1, <1>2, <3>1 DEF Range
  <2> QED
    BY <2>1, <2>2, <2>3
<1>4. ASSUME IsInjective(q), j \notin Range(q) PROVE IsInjective(r)
  <2> SUFFICES ASSUME NEW a \in 1..(Len(q) + 1), NEW b \in 1..(Len(q) + 1), r[a] = r[b]
               PROVE  a = b
    BY <1>2 DEF IsInjective
  <2>1. \A i \in 1..Len(q) : q[i] # j
    BY <1>2, <1>4 DEF Range
  <2>2. \A i \in 1..(Len(q) + 1) : i \in 1..Len(q) \/ i = Len(q) + 1
    BY <1>1
  <2>3. CASE a \in 1..Len(q) /\ b \in 1..Len(q)
    BY <1>1, <1>2, <1>4, <2>3 DEF IsInjective
  <2> QED
    BY <1>1, <2>1, <2>2, <2>3
<1> QED
  BY <1>3, <1>4 DEF r

\* Taking the head splits the elements of a buffer without repetitions.
LEMMA HeadTailElements ==
    ASSUME NEW S, NEW q \in Seq(S), q # <<>>
    PROVE  /\ Head(q) \in S /\ Tail(q) \in Seq(S)
           /\ Range(q) = {Head(q)} \cup Range(Tail(q))
           /\ IsInjective(q) => IsInjective(Tail(q)) /\ Head(q) \notin Range(Tail(q))
<1> DEFINE t == Tail(q)
<1>1. /\ Head(q) \in S /\ t \in Seq(S)
      /\ Len(q) \in Nat /\ Len(q) > 0 /\ Len(t) = Len(q) - 1
      /\ \A i \in 1..(Len(q) - 1) : t[i] = q[i + 1]
      /\ Head(q) = q[1]
  BY HeadTailProperties, LenProperties, EmptySeq
<1>2. DOMAIN q = 1..Len(q) /\ DOMAIN t = 1..(Len(q) - 1)
  BY <1>1, LenProperties
<1> HIDE DEF t
<1>3. \A i \in 1..(Len(q) - 1) : i + 1 \in 1..Len(q) /\ i + 1 # 1
  BY <1>1
<1>4. \A i \in 1..Len(q) : i = 1 \/ (i - 1 \in 1..(Len(q) - 1) /\ (i - 1) + 1 = i)
  BY <1>1
<1>5. Range(q) = {Head(q)} \cup Range(t)
  <2>1. ASSUME NEW x \in Range(q) PROVE x \in {Head(q)} \cup Range(t)
    <3>1. PICK i \in 1..Len(q) : x = q[i]
      BY <1>2 DEF Range
    <3>2. CASE i = 1
      BY <1>1, <3>1, <3>2
    <3>3. CASE i - 1 \in 1..(Len(q) - 1) /\ (i - 1) + 1 = i
      <4>1. t[i - 1] = x
        BY <1>1, <3>1, <3>3
      <4> QED
        BY <1>2, <3>3, <4>1 DEF Range
    <3> QED
      BY <1>4, <3>2, <3>3
  <2>2. ASSUME NEW x \in Range(t) PROVE x \in Range(q)
    <3>1. PICK i \in 1..(Len(q) - 1) : x = t[i]
      BY <1>2 DEF Range
    <3> QED
      BY <1>1, <1>2, <1>3, <3>1 DEF Range
  <2>3. Head(q) \in Range(q)
    <3>1. 1 \in 1..Len(q)
      BY <1>1
    <3> QED
      BY <1>1, <1>2, <3>1 DEF Range
  <2> QED
    BY <2>1, <2>2, <2>3
<1>6. ASSUME IsInjective(q) PROVE IsInjective(t) /\ Head(q) \notin Range(t)
  <2>1. \A a, b \in 1..Len(q) : q[a] = q[b] => a = b
    BY <1>2, <1>6 DEF IsInjective
  <2>2. \A a, b \in 1..(Len(q) - 1) : t[a] = t[b] => a = b
    <3> SUFFICES ASSUME NEW a \in 1..(Len(q) - 1), NEW b \in 1..(Len(q) - 1), t[a] = t[b]
                 PROVE  a = b
      OBVIOUS
    <3>1. q[a + 1] = q[b + 1]
      BY <1>1
    <3>2. a + 1 = b + 1
      BY <1>3, <2>1, <3>1
    <3> QED
      BY <1>1, <3>2
  <2>3. ASSUME NEW i \in 1..(Len(q) - 1) PROVE t[i] # Head(q)
    <3>1. t[i] = q[i + 1] /\ 1 \in 1..Len(q)
      BY <1>1
    <3> QED
      BY <1>1, <1>3, <2>1, <3>1
  <2> QED
    BY <1>2, <2>2, <2>3 DEF IsInjective, Range
<1> QED
  BY <1>1, <1>5, <1>6 DEF t

-----------------------------------------------------------------------------
(* The types.                                                              *)

\* New makes an empty channel and idle workers.
LEMMA InitTypeOK == Init => TypeOK
<1> SUFFICES ASSUME Init PROVE TypeOK
  OBVIOUS
<1>1. queue \in Seq(Jobs) /\ accepted \in Seq(Jobs)
  BY EmptySeq DEF Init
<1>2. Len(queue) <= QueueDepth
  <2>1. Len(queue) = 0
    BY EmptySeq DEF Init
  <2> QED
    BY <2>1, PoolAssumption
<1>3. /\ closed \in BOOLEAN
      /\ caller \in [Jobs -> CallerStates]
      /\ worker \in [Workers -> Jobs \cup {NoJob, Gone}]
      /\ done \in SUBSET Jobs
      /\ owner \in OwnerStates
  BY DEF Init, CallerStates, OwnerStates
<1> QED
  BY <1>1, <1>2, <1>3 DEF TypeOK

\* Every step of callers, workers and owner keeps the types.
LEMMA StepTypeOK == TypeOK /\ [Next]_vars => TypeOK'
<1> SUFFICES ASSUME TypeOK, [Next]_vars PROVE TypeOK'
  OBVIOUS
<1> USE PoolAssumption DEF TypeOK, CallerStates, OwnerStates
<1>1. ASSUME NEW j \in Jobs, CallEnqueue(j) PROVE TypeOK'
  BY <1>1 DEF CallEnqueue
<1>2. ASSUME NEW j \in Jobs, Send(j) PROVE TypeOK'
  BY <1>2, AppendProperties DEF Send
<1>3. ASSUME NEW j \in Jobs, SendOnClosed(j) PROVE TypeOK'
  BY <1>3 DEF SendOnClosed
<1>4. ASSUME NEW w \in Workers, Receive(w) PROVE TypeOK'
  <2>1. Head(queue) \in Jobs /\ Tail(queue) \in Seq(Jobs) /\ Len(Tail(queue)) <= QueueDepth
    BY <1>4, HeadTailProperties DEF Receive
  <2> QED
    BY <1>4, <2>1 DEF Receive
<1>5. ASSUME NEW w \in Workers, Process(w) PROVE TypeOK'
  BY <1>5 DEF Process
<1>6. ASSUME NEW w \in Workers, ExitLoop(w) PROVE TypeOK'
  BY <1>6 DEF ExitLoop
<1>7. CASE CloseJobs
  BY <1>7 DEF CloseJobs
<1>8. CASE Drained
  BY <1>8 DEF Drained
<1>9. CASE GiveUp
  BY <1>9 DEF GiveUp
<1>10. CASE UNCHANGED vars
  BY <1>10 DEF vars
<1> QED
  BY <1>1, <1>2, <1>3, <1>4, <1>5, <1>6, <1>7, <1>8, <1>9, <1>10
  DEF Next, CallerStep, WorkerStep

\* Every variable of the pool keeps its type, whatever the numbers of jobs,
\* workers and buffer slots.
THEOREM TypeCorrect == Spec => []TypeOK
BY InitTypeOK, StepTypeOK, PTL DEF Spec

-----------------------------------------------------------------------------
(* The invariant.                                                          *)

\* Nothing is accepted, nothing closed and no worker gone at the start.
LEMMA InitIInv == Init => IInv
<1> SUFFICES ASSUME Init PROVE OnePlace /\ LoopEnds
  BY InitTypeOK DEF IInv
<1> USE PoolAssumption DEF Init
<1>1. Range(queue) = {} /\ IsInjective(queue)
  BY DEF Range, IsInjective
<1> QED
  BY <1>1 DEF OnePlace, LoopEnds, Buffered, Running

\* A job that is sent goes from its caller's hands to the buffer.
LEMMA SendKeepsOnePlace ==
    ASSUME IInv, NEW j \in Jobs, Send(j)
    PROVE  OnePlace' /\ LoopEnds'
<1> USE DEF IInv, TypeOK
<1>1. /\ Range(queue') = Range(queue) \cup {j}
      /\ IsInjective(queue) /\ j \notin Range(queue) => IsInjective(queue')
  BY AppendElements DEF Send
<1>2. j \notin Buffered /\ j \notin Running /\ j \notin done
  BY DEF Send, OnePlace
<1>3. {k \in Jobs : caller'[k] = "returned"} = {k \in Jobs : caller[k] = "returned"} \cup {j}
  BY DEF Send, CallerStates
<1>4. Running' = Running /\ Buffered' = Buffered \cup {j} /\ done' = done
  BY <1>1 DEF Send, Running, Buffered
<1>5. IsInjective(queue')
  BY <1>1, <1>2 DEF OnePlace, Buffered
<1>6. OnePlace'
  BY <1>2, <1>3, <1>4, <1>5 DEF OnePlace, Send
<1>7. LoopEnds'
  BY DEF Send, LoopEnds
<1> QED
  BY <1>6, <1>7

\* A job that is received goes from the buffer to one worker's hands.
LEMMA ReceiveKeepsOnePlace ==
    ASSUME IInv, NEW w \in Workers, Receive(w)
    PROVE  OnePlace' /\ LoopEnds'
<1> USE PoolAssumption DEF IInv, TypeOK
<1> DEFINE j == Head(queue)
<1>1. /\ j \in Jobs
      /\ Range(queue) = {j} \cup Range(queue')
      /\ IsInjective(queue') /\ j \notin Range(queue')
  BY HeadTailElements DEF Receive, OnePlace
<1>2. worker' = [worker EXCEPT ![w] = j] /\ worker[w] = NoJob
  BY DEF Receive
<1> HIDE DEF j
<1>3. Buffered = {j} \cup Buffered' /\ j \notin Buffered'
  BY <1>1 DEF Buffered
<1>4. Running' = Running \cup {j}
  BY <1>1, <1>2 DEF Running
<1>5. j \notin Running
  BY <1>3 DEF OnePlace
<1>6. \A v \in Workers : worker[v] # j
  BY <1>1, <1>5 DEF Running
<1>7. \A u, v \in Workers : worker'[u] = worker'[v] /\ worker'[u] \in Jobs => u = v
  BY <1>2, <1>6 DEF OnePlace
<1>8. OnePlace'
  BY <1>1, <1>3, <1>4, <1>5, <1>7 DEF OnePlace, Receive
<1>9. LoopEnds'
  BY <1>1, <1>2 DEF Receive, LoopEnds
<1> QED
  BY <1>8, <1>9

\* A job that was processed goes from the worker's hands to done.
LEMMA ProcessKeepsOnePlace ==
    ASSUME IInv, NEW w \in Workers, Process(w)
    PROVE  OnePlace' /\ LoopEnds'
<1> USE PoolAssumption DEF IInv, TypeOK
<1> DEFINE j == worker[w]
<1>1. /\ j \in Jobs /\ done' = done \cup {j}
      /\ worker' = [worker EXCEPT ![w] = NoJob]
  BY DEF Process
<1>2. \A v \in Workers : worker[v] = j => v = w
  BY <1>1 DEF OnePlace
<1>3. j \in Running
  BY <1>1 DEF Running
<1>4. Running' = Running \ {j}
  BY <1>1, <1>2 DEF Running
<1>5. \A u, v \in Workers : worker'[u] = worker'[v] /\ worker'[u] \in Jobs => u = v
  BY <1>1 DEF OnePlace
<1>6. Buffered' = Buffered
  BY DEF Process, Buffered
<1> HIDE DEF j
<1>7. OnePlace'
  BY <1>1, <1>3, <1>4, <1>5, <1>6 DEF OnePlace, Process
<1>8. LoopEnds'
  BY <1>1 DEF Process, LoopEnds
<1> QED
  BY <1>7, <1>8

\* A worker leaves its loop with nothing in its hands.
LEMMA ExitKeepsOnePlace ==
    ASSUME IInv, NEW w \in Workers, ExitLoop(w)
    PROVE  OnePlace' /\ LoopEnds'
<1> USE PoolAssumption DEF IInv, TypeOK
<1>1. worker' = [worker EXCEPT ![w] = Gone] /\ worker[w] = NoJob
  BY DEF ExitLoop
<1>2. Running' = Running
  BY <1>1 DEF Running
<1>3. \A u, v \in Workers : worker'[u] = worker'[v] /\ worker'[u] \in Jobs => u = v
  BY <1>1 DEF OnePlace
<1>4. OnePlace'
  BY <1>2, <1>3 DEF OnePlace, ExitLoop, Buffered
<1>5. LoopEnds'
  BY <1>1 DEF ExitLoop, LoopEnds
<1> QED
  BY <1>4, <1>5

\* No step of callers, workers and owner leaves the invariant.
LEMMA StepIInv == IInv /\ [Next]_vars => IInv'
<1> SUFFICES ASSUME IInv, [Next]_vars PROVE OnePlace' /\ LoopEnds'
  BY StepTypeOK DEF IInv
<1>1. ASSUME NEW j \in Jobs, CallEnqueue(j) PROVE OnePlace' /\ LoopEnds'
  <2>1. {k \in Jobs : caller'[k] = "returned"} = {k \in Jobs : caller[k] = "returned"}
    BY <1>1 DEF CallEnqueue, IInv, TypeOK
  <2> QED
    BY <1>1, <2>1 DEF CallEnqueue, IInv, OnePlace, LoopEnds, Buffered, Running
<1>2. ASSUME NEW j \in Jobs, Send(j) PROVE OnePlace' /\ LoopEnds'
  BY <1>2, SendKeepsOnePlace
<1>3. ASSUME NEW j \in Jobs, SendOnClosed(j) PROVE OnePlace' /\ LoopEnds'
  <2>1. {k \in Jobs : caller'[k] = "returned"} = {k \in Jobs : caller[k] = "returned"}
    BY <1>3 DEF SendOnClosed, IInv, TypeOK
  <2> QED
    BY <1>3, <2>1 DEF SendOnClosed, IInv, OnePlace, LoopEnds, Buffered, Running
<1>4. ASSUME NEW w \in Workers, Receive(w) PROVE OnePlace' /\ LoopEnds'
  BY <1>4, ReceiveKeepsOnePlace
<1>5. ASSUME NEW w \in Workers, Process(w) PROVE OnePlace' /\ LoopEnds'
  BY <1>5, ProcessKeepsOnePlace
<1>6. ASSUME NEW w \in Workers, ExitLoop(w) PROVE OnePlace' /\ LoopEnds'
  BY <1>6, ExitKeepsOnePlace
<1>7. CASE CloseJobs
  BY <1>7 DEF CloseJobs, IInv, OnePlace, LoopEnds, Buffered, Running
<1>8. CASE Drained
  BY <1>8 DEF Drained, IInv, OnePlace, LoopEnds, Buffered, Running
<1>9. CASE GiveUp
  BY <1>9 DEF GiveUp, IInv, OnePlace, LoopEnds, Buffered, Running
<1>10. CASE UNCHANGED vars
  BY <1>10 DEF vars, IInv, OnePlace, LoopEnds, Buffered, Running
<1> QED
  BY <1>1, <1>2, <1>3, <1>4, <1>5, <1>6, <1>7, <1>8, <1>9, <1>10
  DEF Next, CallerStep, WorkerStep

\* Every state the pool can reach satisfies the invariant.
THEOREM Invariance == Spec => []IInv
BY InitIInv, StepIInv, PTL DEF Spec

\* No job is lost between the channel and the workers, and none is worked on
\* twice.
THEOREM NoLossNoDuplicate == Spec => []OnePlace
<1>1. IInv => OnePlace
  BY DEF IInv
<1> QED
  BY <1>1, Invariance, PTL

\* A Shutdown that reports "drained" leaves no accepted job behind: there is a
\* worker, it has left its loop, so the buffer is empty and no one holds a job.
THEOREM DrainTheorem == Spec => []DrainIsComplete
<1>1. IInv => DrainIsComplete
  <2> SUFFICES ASSUME IInv, owner = "drained", NEW j \in Jobs, caller[j] = "returned"
               PROVE  j \in done
    BY DEF DrainIsComplete
  <2>1. \A w \in Workers : worker[w] = Gone
    BY DEF IInv, LoopEnds
  <2>2. queue = <<>>
    BY <2>1, PoolAssumption DEF IInv, LoopEnds
  <2>3. Buffered = {}
    BY <2>2 DEF Buffered, Range
  <2>4. Running = {}
    BY <2>1, PoolAssumption DEF Running
  <2> QED
    BY <2>3, <2>4 DEF IInv, OnePlace
<1> QED
  BY <1>1, Invariance, PTL

-----------------------------------------------------------------------------
(* The pool implements the ledger.  What the history says of the buffer:   *)
(* it is the end of the log of accepted jobs, which holds each once.       *)

LogEndsInBuffer ==
    /\ Len(queue) <= Len(accepted)
    /\ \A i \in 1..Len(queue) : queue[i] = accepted[Started + i]
    /\ IsInjective(accepted)
    /\ Range(accepted) = {j \in Jobs : caller[j] = "returned"}

\* A send appends to both, a receive shortens the buffer from the front.
LEMMA StepLog == IInv /\ LogEndsInBuffer /\ [Next]_vars => LogEndsInBuffer'
<1> SUFFICES ASSUME IInv, LogEndsInBuffer, [Next]_vars PROVE LogEndsInBuffer'
  OBVIOUS
<1> USE DEF IInv, TypeOK
<1>0. Len(queue) \in Nat /\ Len(accepted) \in Nat
  BY LenProperties
<1>1. ASSUME NEW j \in Jobs, CallEnqueue(j) PROVE LogEndsInBuffer'
  <2>1. {k \in Jobs : caller'[k] = "returned"} = {k \in Jobs : caller[k] = "returned"}
    BY <1>1 DEF CallEnqueue
  <2> QED
    BY <1>1, <2>1 DEF CallEnqueue, LogEndsInBuffer, Started
<1>2. ASSUME NEW j \in Jobs, Send(j) PROVE LogEndsInBuffer'
  <2>1. /\ queue' = Append(queue, j) /\ accepted' = Append(accepted, j)
        /\ caller' = [caller EXCEPT ![j] = "returned"] /\ caller[j] = "sending"
    BY <1>2 DEF Send
  <2>2. /\ Len(queue') = Len(queue) + 1 /\ Len(accepted') = Len(accepted) + 1
        /\ \A i \in 1..Len(queue) : queue'[i] = queue[i]
        /\ \A i \in 1..Len(accepted) : accepted'[i] = accepted[i]
        /\ queue'[Len(queue) + 1] = j /\ accepted'[Len(accepted) + 1] = j
    BY <2>1, AppendProperties
  <2>3. Started' = Started /\ Started \in Nat
    BY <1>0, <2>2 DEF LogEndsInBuffer, Started
  <2>4. ASSUME NEW i \in 1..Len(queue') PROVE queue'[i] = accepted'[Started' + i]
    <3>1. CASE i = Len(queue) + 1
      BY <1>0, <2>2, <2>3, <3>1 DEF Started
    <3>2. CASE i \in 1..Len(queue)
      <4>1. Started + i \in 1..Len(accepted)
        BY <1>0, <2>3, <3>2 DEF Started
      <4> QED
        BY <2>2, <2>3, <3>2, <4>1 DEF LogEndsInBuffer
    <3> QED
      BY <1>0, <2>2, <3>1, <3>2
  <2>5. {k \in Jobs : caller'[k] = "returned"} = {k \in Jobs : caller[k] = "returned"} \cup {j}
    BY <2>1
  <2>6. j \notin Range(accepted)
    BY <2>1 DEF LogEndsInBuffer
  <2>7. IsInjective(accepted') /\ Range(accepted') = Range(accepted) \cup {j}
    BY <2>1, <2>6, AppendElements DEF LogEndsInBuffer
  <2>8. Len(queue') <= Len(accepted')
    BY <1>0, <2>2 DEF LogEndsInBuffer
  <2> QED
    BY <2>4, <2>5, <2>7, <2>8 DEF LogEndsInBuffer
<1>3. ASSUME NEW j \in Jobs, SendOnClosed(j) PROVE LogEndsInBuffer'
  <2>1. {k \in Jobs : caller'[k] = "returned"} = {k \in Jobs : caller[k] = "returned"}
    BY <1>3 DEF SendOnClosed
  <2> QED
    BY <1>3, <2>1 DEF SendOnClosed, LogEndsInBuffer, Started
<1>4. ASSUME NEW w \in Workers, Receive(w) PROVE LogEndsInBuffer'
  <2>1. /\ Len(queue') = Len(queue) - 1 /\ Len(queue) > 0
        /\ \A i \in 1..Len(queue') : queue'[i] = queue[i + 1]
        /\ UNCHANGED <<accepted, caller>>
    BY <1>0, <1>4, HeadTailProperties, EmptySeq DEF Receive
  <2>2. Started' = Started + 1
    BY <1>0, <2>1 DEF Started
  <2>3. ASSUME NEW i \in 1..Len(queue') PROVE queue'[i] = accepted'[Started' + i]
    <3>1. i + 1 \in 1..Len(queue) /\ Started' + i = Started + (i + 1)
      BY <1>0, <2>1, <2>2 DEF Started
    <3>2. queue'[i] = accepted[Started + (i + 1)]
      BY <2>1, <3>1 DEF LogEndsInBuffer
    <3> QED
      BY <2>1, <3>1, <3>2
  <2> QED
    BY <1>0, <2>1, <2>3 DEF LogEndsInBuffer
<1>5. ASSUME NEW w \in Workers, Process(w) PROVE LogEndsInBuffer'
  BY <1>5 DEF Process, LogEndsInBuffer, Started
<1>6. ASSUME NEW w \in Workers, ExitLoop(w) PROVE LogEndsInBuffer'
  BY <1>6 DEF ExitLoop, LogEndsInBuffer, Started
<1>7. CASE CloseJobs
  BY <1>7 DEF CloseJobs, LogEndsInBuffer, Started
<1>8. CASE Drained
  BY <1>8 DEF Drained, LogEndsInBuffer, Started
<1>9. CASE GiveUp
  BY <1>9 DEF GiveUp, LogEndsInBuffer, Started
<1>10. CASE UNCHANGED vars
  BY <1>10 DEF vars, LogEndsInBuffer, Started
<1> QED
  BY <1>1, <1>2, <1>3, <1>4, <1>5, <1>6, <1>7, <1>8, <1>9, <1>10
  DEF Next, CallerStep, WorkerStep

\* What the ledger counts as started is what the workers hold or have done.
LEMMA StartedIsRunningOrDone ==
    ASSUME IInv, LogEndsInBuffer
    PROVE  /\ Started \in Nat
           /\ Ledger!Prefix(Started) = Running \cup done
           /\ Ledger!Prefix(Len(accepted)) = {j \in Jobs : caller[j] = "returned"}
<1>1. Len(queue) \in Nat /\ Len(accepted) \in Nat /\ DOMAIN accepted = 1..Len(accepted)
      /\ DOMAIN queue = 1..Len(queue)
  BY LenProperties DEF IInv, TypeOK
<1>2. Started \in Nat /\ Started + Len(queue) = Len(accepted)
  BY <1>1 DEF LogEndsInBuffer, Started
<1>3. Ledger!Prefix(Len(accepted)) = Range(accepted)
  BY <1>1 DEF Ledger!Prefix, Range
<1> DEFINE P == Ledger!Prefix(Started)
<1>4. ASSUME NEW x \in P PROVE x \in Running \cup done
  <2>1. PICK i \in 1..Started : x = accepted[i]
    BY DEF Ledger!Prefix
  <2>2. i \in 1..Len(accepted)
    BY <1>1, <1>2
  <2>3. x \in Range(accepted)
    BY <1>1, <2>1, <2>2 DEF Range
  <2>4. x \notin Range(queue)
    <3> SUFFICES ASSUME x \in Range(queue) PROVE FALSE
      OBVIOUS
    <3>1. PICK k \in 1..Len(queue) : x = queue[k]
      BY <1>1 DEF Range
    <3>2. Started + k \in 1..Len(accepted) /\ Started + k # i
      BY <1>1, <1>2
    <3>3. accepted[Started + k] = x
      BY <3>1 DEF LogEndsInBuffer
    <3> QED
      BY <1>1, <2>1, <2>2, <3>2, <3>3 DEF LogEndsInBuffer, IsInjective
  <2> QED
    BY <2>3, <2>4 DEF IInv, OnePlace, Buffered, LogEndsInBuffer
<1>5. ASSUME NEW x \in Running \cup done PROVE x \in P
  <2>1. x \in Range(accepted) /\ x \notin Range(queue)
    BY DEF IInv, OnePlace, Buffered, LogEndsInBuffer
  <2>2. PICK i \in 1..Len(accepted) : x = accepted[i]
    BY <1>1, <2>1 DEF Range
  <2>3. i \in 1..Started
    <3> SUFFICES ASSUME i > Started PROVE FALSE
      BY <1>1, <1>2
    <3>1. i - Started \in 1..Len(queue) /\ Started + (i - Started) = i
      BY <1>1, <1>2
    <3>2. queue[i - Started] = x
      BY <2>2, <3>1 DEF LogEndsInBuffer
    <3> QED
      BY <1>1, <2>1, <3>1, <3>2 DEF Range
  <2> QED
    BY <2>2, <2>3 DEF Ledger!Prefix
<1> QED
  BY <1>2, <1>3, <1>4, <1>5 DEF LogEndsInBuffer

\* While a worker waits for a job, fewer jobs than workers are in progress.
LEMMA IdleWorkerIsFreeSlot ==
    ASSUME IInv, NEW w \in Workers, worker[w] \notin Jobs
    PROVE  Cardinality(Running) < Cardinality(Workers)
<1> DEFINE Busy == {v \in Workers : worker[v] \in Jobs}
<1> DEFINE Holds == [v \in Busy |-> worker[v]]
<1>1. Busy \in SUBSET (Workers \ {w})
  OBVIOUS
<1>2. /\ IsFiniteSet(Workers \ {w})
      /\ Cardinality(Workers \ {w}) = Cardinality(Workers) - 1
      /\ Cardinality(Workers) \in Nat
  BY FS_RemoveElement, FS_CardinalityType, PoolAssumption
<1>3. /\ IsFiniteSet(Busy)
      /\ Cardinality(Busy) <= Cardinality(Workers) - 1
  BY <1>1, <1>2, FS_Subset
<1>4. Holds \in Surjection(Busy, Running)
  BY DEF Surjection, Running
<1>5. IsFiniteSet(Running) /\ Cardinality(Running) <= Cardinality(Busy)
  BY <1>3, <1>4, FS_Surjection
<1>6. Cardinality(Running) \in Nat /\ Cardinality(Busy) \in Nat
  BY <1>3, <1>5, FS_CardinalityType
<1> QED
  BY <1>2, <1>3, <1>5, <1>6

\* Cardinality means the same inside the instance.
LEMMA LedgerCardinality == \A S : Ledger!Cardinality(S) = Cardinality(S)
BY DEF Ledger!Cardinality, Cardinality

\* Each step of the pool is a step of the ledger or changes nothing in it.
LEMMA StepRefines ==
    IInv /\ LogEndsInBuffer /\ LogEndsInBuffer' /\ [Next]_vars => [Ledger!Next]_(Ledger!vars)
<1> SUFFICES ASSUME IInv, LogEndsInBuffer, LogEndsInBuffer', [Next]_vars
             PROVE  [Ledger!Next]_(Ledger!vars)
  OBVIOUS
<1>0. Len(queue) \in Nat /\ Len(accepted) \in Nat
  BY LenProperties DEF IInv, TypeOK
<1>1. ASSUME NEW j \in Jobs, CallEnqueue(j) PROVE UNCHANGED Ledger!vars
  BY <1>1 DEF CallEnqueue, Ledger!vars, Started, Phase
<1>2. ASSUME NEW j \in Jobs, Send(j) PROVE Ledger!Accept(j)
  <2>1. Phase = "open"
    BY <1>2 DEF Send, Phase, IInv, LoopEnds
  <2>2. j \notin Ledger!Prefix(Len(accepted))
    BY <1>2, StartedIsRunningOrDone DEF Send
  <2>3. Len(accepted') = Len(accepted) + 1 /\ Len(queue') = Len(queue) + 1
    BY <1>2, AppendProperties DEF Send, IInv, TypeOK
  <2>4. Started' = Started
    BY <1>0, <2>3 DEF Started
  <2> QED
    BY <1>2, <2>1, <2>2, <2>4 DEF Send, Ledger!Accept, Phase
<1>3. ASSUME NEW j \in Jobs, SendOnClosed(j) PROVE UNCHANGED Ledger!vars
  BY <1>3 DEF SendOnClosed, Ledger!vars, Started, Phase
<1>4. ASSUME NEW w \in Workers, Receive(w) PROVE Ledger!Start
  <2>1. Len(queue') = Len(queue) - 1 /\ Len(queue) > 0
    BY <1>0, <1>4, HeadTailProperties, EmptySeq DEF Receive, IInv, TypeOK
  <2>2. Started' = Started + 1 /\ Started < Len(accepted)
    BY <1>0, <1>4, <2>1 DEF Receive, Started
  <2>3. worker[w] = NoJob /\ worker[w] \notin Jobs
    BY <1>4, PoolAssumption DEF Receive
  <2>4. Phase # "drained"
    BY <2>3, PoolAssumption DEF Phase, IInv, LoopEnds
  <2>5. Ledger!Prefix(Started) \ done = Running
    BY StartedIsRunningOrDone DEF IInv, OnePlace
  <2>6. Cardinality(Ledger!Prefix(Started) \ done) < Cardinality(Workers)
    BY <2>3, <2>5, IdleWorkerIsFreeSlot
  <2> QED
    BY <1>4, <2>2, <2>4, <2>6, LedgerCardinality DEF Receive, Ledger!Start, Phase
<1>5. ASSUME NEW w \in Workers, Process(w)
      PROVE  \E j \in Jobs : Ledger!Finish(j)
  <2>1. worker[w] \in Running
    BY <1>5 DEF Process, Running
  <2>2. worker[w] \in Ledger!Prefix(Started) \ done
    BY <2>1, StartedIsRunningOrDone DEF IInv, OnePlace
  <2>3. Phase # "drained"
    BY <1>5, PoolAssumption DEF Process, Phase, IInv, LoopEnds
  <2>4. Started' = Started /\ Phase' = Phase
    BY <1>5 DEF Process, Started, Phase
  <2>5. worker[w] \in Jobs /\ done' = done \cup {worker[w]} /\ accepted' = accepted
    BY <1>5 DEF Process
  <2>6. Ledger!Finish(worker[w])
    BY <2>2, <2>3, <2>4, <2>5 DEF Ledger!Finish
  <2> QED
    BY <2>5, <2>6
<1>6. ASSUME NEW w \in Workers, ExitLoop(w) PROVE UNCHANGED Ledger!vars
  BY <1>6 DEF ExitLoop, Ledger!vars, Started, Phase
<1>7. CASE CloseJobs
  BY <1>7 DEF CloseJobs, Ledger!Next, Ledger!CloseIntake, Started, Phase
<1>8. CASE Drained
  <2>1. \A w \in Workers : worker[w] = Gone
    BY <1>8 DEF Drained
  <2>2. queue = <<>> /\ Running = {}
    BY <2>1, PoolAssumption DEF IInv, LoopEnds, Running
  <2>3. Buffered = {}
    BY <2>2 DEF Buffered, Range
  <2>4. done = Ledger!Prefix(Len(accepted))
    BY <2>2, <2>3, StartedIsRunningOrDone DEF IInv, OnePlace
  <2> QED
    BY <1>8, <2>4 DEF Drained, Ledger!Next, Ledger!Drain, Started, Phase
<1>9. CASE GiveUp
  BY <1>9 DEF GiveUp, Ledger!Next, Ledger!GiveUp, Started, Phase
<1>10. CASE UNCHANGED vars
  BY <1>10 DEF vars, Ledger!vars, Started, Phase
<1> QED
  BY <1>1, <1>2, <1>3, <1>4, <1>5, <1>6, <1>7, <1>8, <1>9, <1>10
  DEF Next, CallerStep, WorkerStep, Ledger!Next

\* A new pool is an open ledger with nothing in it.
LEMMA InitRefines == Init => LogEndsInBuffer /\ Ledger!Init
<1> SUFFICES ASSUME Init PROVE LogEndsInBuffer /\ Ledger!Init
  OBVIOUS
<1>1. Len(queue) = 0 /\ Len(accepted) = 0 /\ Range(accepted) = {} /\ IsInjective(accepted)
  BY EmptySeq DEF Init, Range, IsInjective
<1> QED
  BY <1>1 DEF Init, LogEndsInBuffer, Ledger!Init, Started, Phase

\* The pool keeps the promise of JobLedger: acceptance only while open, start
\* in order of acceptance, no more jobs in progress than workers, each
\* finished once, and "drained" only when all are.
THEOREM PoolImplementsLedger == Spec => LedgerSpec
<1>1. Init => LogEndsInBuffer /\ Ledger!Init
  BY InitRefines
<1>2. Spec => []LogEndsInBuffer
  BY InitRefines, StepLog, Invariance, PTL DEF Spec
<1> QED
  BY <1>1, <1>2, StepRefines, Invariance, PTL DEF Spec, LedgerSpec, Ledger!Spec
=============================================================================
