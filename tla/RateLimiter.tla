----------------------------- MODULE RateLimiter -----------------------------
(***************************************************************************)
(* middleware.RateLimiter: a rate.Limiter per client address, made on the  *)
(* first request, and evicted when it has not been asked for a while.      *)
(*                                                                         *)
(* A request fetches its limiter under the mutex and asks it after the     *)
(* mutex is released, so an eviction may come between the two, and the     *)
(* next request of the client then gets a full bucket of its own.  One     *)
(* tick is the time a token takes; main.go's limiters have Burst 5 and     *)
(* Keep 50 (5 a minute, evicted after 10 minutes).                         *)
(***************************************************************************)
EXTENDS Naturals, Functions

CONSTANTS
    Clients,   \* client addresses
    Requests,  \* handler goroutines
    Objects,   \* rate.Limiter objects
    Idle,      \* not an object
    Burst,     \* the size of a bucket
    Keep,      \* ticks without a request before a limiter may be evicted
    MaxStall   \* ticks a request may take from getLimiter to Allow

\* A limiter is kept longer than its bucket takes to fill, with room for the
\* slowest request.
ASSUME RateAssumption ==
    /\ Burst \in Nat \ {0} /\ Keep \in Nat /\ MaxStall \in Nat
    /\ Keep >= Burst + MaxStall
    /\ Idle \notin Objects

VARIABLES
    limiters,  \* the map: the limiter of each client that has one
    bucket,    \* [Objects -> ...]: tokens when last allowed, ticks since then
    age,       \* [Clients -> ...]: ticks since lastSeen
    held,      \* [Requests -> ...]: the limiter a request is about to ask
    stopped,   \* the eviction goroutine has been told to end
    answer     \* the last answer given

vars == <<limiters, bucket, age, held, stopped, answer>>

Full == [tokens |-> Burst, since |-> Burst]
Free == [obj |-> Idle]
Hold == [obj : Objects, client : Clients, stall : 0..MaxStall]

TypeOK ==
    /\ DOMAIN limiters \subseteq Clients
    /\ \A c \in DOMAIN limiters : limiters[c] \in Objects
    /\ bucket \in [Objects -> [tokens : 0..Burst, since : 0..Burst]]
    /\ age \in [Clients -> 0..(Keep + 1)]
    /\ held \in [Requests -> Hold \cup {Free}]
    /\ stopped \in BOOLEAN
    /\ answer \in {<<>>} \cup (Clients \X BOOLEAN)

Init ==
    /\ limiters = [c \in {} |-> Idle]
    /\ bucket = [o \in Objects |-> Full]
    /\ age = [c \in Clients |-> 0]
    /\ held = [r \in Requests |-> Free]
    /\ stopped = FALSE
    /\ answer = <<>>

\* What Limiter.Allow counts: the tokens it kept and one per tick since.
Level(b) == IF b.tokens + b.since < Burst THEN b.tokens + b.since ELSE Burst

\* A limiter nobody refers to: the garbage collector's.
Garbage(o) ==
    /\ \A c \in DOMAIN limiters : limiters[c] # o
    /\ \A r \in Requests : held[r].obj # o

Takes(r, c, o) ==
    held' = [held EXCEPT ![r] = [obj |-> o, client |-> c, stall |-> 0]]

\* Mutation: lastSeen is set only when the limiter is made.
GetLimiterOnce(r, c) ==
    /\ held[r] = Free
    /\ IF c \in DOMAIN limiters
       THEN Takes(r, c, limiters[c]) /\ UNCHANGED <<limiters, bucket, age>>
       ELSE \E o \in Objects :
              /\ Garbage(o)
              /\ limiters' = [d \in DOMAIN limiters \cup {c} |-> IF d = c THEN o ELSE limiters[d]]
              /\ bucket' = [bucket EXCEPT ![o] = Full]
              /\ Takes(r, c, o)
              /\ age' = [age EXCEPT ![c] = 0]
    /\ UNCHANGED <<stopped, answer>>

getLimiter(r, c) ==
    /\ held[r] = Free
    /\ \/ /\ c \in DOMAIN limiters
          /\ Takes(r, c, limiters[c])
          /\ UNCHANGED <<limiters, bucket>>
       \/ /\ c \notin DOMAIN limiters
          /\ \E o \in Objects :
                /\ Garbage(o)
                /\ limiters' = [d \in DOMAIN limiters \cup {c} |-> IF d = c THEN o ELSE limiters[d]]
                /\ bucket' = [bucket EXCEPT ![o] = Full]
                /\ Takes(r, c, o)
    /\ age' = [age EXCEPT ![c] = 0]
    /\ UNCHANGED <<stopped, answer>>

\* Allow takes a token if there is one, and then settles the refill.
Allow(r) ==
    LET h == held[r] IN
    /\ h # Free
    /\ Level(bucket[h.obj]) > 0
    /\ bucket' = [bucket EXCEPT ![h.obj] = [tokens |-> Level(@) - 1, since |-> 0]]
    /\ answer' = <<h.client, TRUE>>
    /\ held' = [held EXCEPT ![r] = Free]
    /\ UNCHANGED <<limiters, age, stopped>>

Refuse(r) ==
    LET h == held[r] IN
    /\ h # Free
    /\ Level(bucket[h.obj]) = 0
    /\ answer' = <<h.client, FALSE>>
    /\ held' = [held EXCEPT ![r] = Free]
    /\ UNCHANGED <<limiters, bucket, age, stopped>>

Waits(h) == [obj |-> h.obj, client |-> h.client, stall |-> h.stall + 1]

Tick ==
    /\ \A r \in Requests : held[r] # Free => held[r].stall < MaxStall
    /\ bucket' = [o \in Objects |->
          [tokens |-> bucket[o].tokens,
           since |-> IF bucket[o].since < Burst THEN bucket[o].since + 1 ELSE Burst]]
    /\ age' = [c \in Clients |-> IF age[c] <= Keep THEN age[c] + 1 ELSE age[c]]
    /\ held' = [r \in Requests |->
          IF held[r] = Free THEN Free ELSE Waits(held[r])]
    /\ UNCHANGED <<limiters, stopped, answer>>

\* Mutation: the cutoff is as long as the bucket takes to fill, less a tick.
LapsedEarly(c) == age[c] >= Burst

Lapsed(c) == age[c] > Keep

\* The mutex is held: every limiter past the cutoff goes.
evict ==
    /\ ~stopped
    /\ \E c \in DOMAIN limiters : Lapsed(c)
    /\ limiters' = Restrict(limiters, {c \in DOMAIN limiters : ~Lapsed(c)})
    /\ UNCHANGED <<bucket, age, held, stopped, answer>>

\* done is closed once; a second call finds it closed.
Stop ==
    /\ ~stopped
    /\ stopped' = TRUE
    /\ UNCHANGED <<limiters, bucket, age, held, answer>>

Next ==
    \/ \E r \in Requests : (\E c \in Clients : getLimiter(r, c)) \/ Allow(r) \/ Refuse(r)
    \/ Tick \/ evict \/ Stop

Spec == Init /\ [][Next]_vars

-----------------------------------------------------------------------------
\* A client without a limiter would get a full one.
Promised == INSTANCE TokenBucket WITH
    tokens <- [c \in Clients |->
        IF c \in DOMAIN limiters THEN Level(bucket[limiters[c]]) ELSE Burst]

\* No interleaving of requests and evictions gives a client more than its
\* bucket holds, turns one away that has a token left, or lets the bucket of
\* one client pay for another.
BucketSpec == Promised!Spec
=============================================================================
