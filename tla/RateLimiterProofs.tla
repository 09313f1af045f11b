-------------------------- MODULE RateLimiterProofs --------------------------
(***************************************************************************)
(* Proofs about RateLimiter, for any clients, requests and limits with     *)
(* Keep >= Burst + MaxStall: every client has the bucket it was promised.  *)
(***************************************************************************)
EXTENDS RateLimiter, TLAPS

\* No two clients share a limiter.
Owned == \A c, d \in DOMAIN limiters : limiters[c] = limiters[d] => c = d

\* A request holds the limiter the map has for its client, which was seen
\* when the request fetched it or later.
HeldCurrent == \A r \in Requests : held[r] # Free =>
    LET h == held[r] IN
    /\ h.client \in DOMAIN limiters
    /\ limiters[h.client] = h.obj
    /\ age[h.client] <= h.stall

\* A bucket that is not full again was used MaxStall ticks after its client
\* was last seen, at the latest.
Refilled == \A c \in DOMAIN limiters :
    LET b == bucket[limiters[c]] IN b.since = Burst \/ age[c] <= b.since + MaxStall

\* The inductive invariant.
IInv == TypeOK /\ Owned /\ HeldCurrent /\ Refilled

-----------------------------------------------------------------------------
\* There are no limiters at first.
LEMMA InitIInv == Init => IInv
<1> SUFFICES ASSUME Init PROVE IInv
  OBVIOUS
<1>1. TypeOK
  <2>1. Full \in [tokens : 0..Burst, since : 0..Burst]
    BY RateAssumption DEF Full
  <2>2. answer \in {<<>>} \cup (Clients \X BOOLEAN)
    BY DEF Init
  <2>3. DOMAIN limiters = {}
    BY DEF Init
  <2>4. held \in [Requests -> Hold \cup {Free}] /\ age \in [Clients -> 0..(Keep + 1)]
    BY RateAssumption DEF Init
  <2>5. bucket \in [Objects -> [tokens : 0..Burst, since : 0..Burst]] /\ stopped \in BOOLEAN
    BY <2>1 DEF Init
  <2> QED BY <2>2, <2>3, <2>4, <2>5 DEF TypeOK
<1>2. Owned /\ HeldCurrent /\ Refilled
  BY DEF Init, Owned, HeldCurrent, Refilled
<1> QED BY <1>1, <1>2 DEF IInv

\* A request that holds a limiter is not a free one.
LEMMA FreeIsNotHeld == \A h \in Hold : h # Free /\ h.obj # Idle
BY RateAssumption DEF Hold, Free

\* A bucket never counts for more than it holds.
LEMMA LevelBounds ==
    ASSUME NEW b \in [tokens : 0..Burst, since : 0..Burst]
    PROVE  Level(b) \in 0..Burst
BY RateAssumption DEF Level

\* No step leaves the invariant: an eviction spares the limiters that are held,
\* as their clients were seen no longer ago than a request may be slow.
LEMMA NextIInv == IInv /\ [Next]_vars => IInv'
<1> SUFFICES ASSUME IInv, [Next]_vars PROVE IInv'
  OBVIOUS
<1> USE RateAssumption, FreeIsNotHeld DEF IInv
<1>1. ASSUME NEW r \in Requests, NEW c \in Clients, getLimiter(r, c) PROVE IInv'
  <2>1. CASE c \in DOMAIN limiters
    <3>1. /\ held' = [held EXCEPT ![r] = [obj |-> limiters[c], client |-> c, stall |-> 0]]
          /\ age' = [age EXCEPT ![c] = 0]
          /\ UNCHANGED <<limiters, bucket, stopped, answer>>
      BY <1>1, <2>1 DEF getLimiter, Takes
    <3>2. [obj |-> limiters[c], client |-> c, stall |-> 0] \in Hold
      BY <2>1 DEF TypeOK, Hold
    <3>3. TypeOK' BY <3>1, <3>2 DEF TypeOK
    <3>4. Owned' BY <3>1 DEF Owned
    <3>5. HeldCurrent' BY <2>1, <3>1 DEF HeldCurrent, TypeOK, Hold
    <3>6. Refilled' BY <3>1 DEF Refilled, TypeOK
    <3> QED BY <3>3, <3>4, <3>5, <3>6
  <2>2. CASE c \notin DOMAIN limiters
    <3>1. PICK o \in Objects :
            /\ Garbage(o)
            /\ limiters' = [d \in DOMAIN limiters \cup {c} |-> IF d = c THEN o ELSE limiters[d]]
            /\ bucket' = [bucket EXCEPT ![o] = Full]
            /\ held' = [held EXCEPT ![r] = [obj |-> o, client |-> c, stall |-> 0]]
      BY <1>1, <2>2 DEF getLimiter, Takes
    <3>2. age' = [age EXCEPT ![c] = 0] /\ UNCHANGED <<stopped, answer>>
      BY <1>1 DEF getLimiter
    <3>3. [obj |-> o, client |-> c, stall |-> 0] \in Hold
      BY DEF Hold
    <3>4. Full \in [tokens : 0..Burst, since : 0..Burst]
      BY DEF Full
    <3>5. TypeOK' BY <3>1, <3>2, <3>3, <3>4 DEF TypeOK
    <3>6. Owned' BY <3>1 DEF Owned, Garbage
    <3>7. HeldCurrent'
      <4> SUFFICES ASSUME NEW q \in Requests, held'[q] # Free
                   PROVE  /\ held'[q].client \in DOMAIN limiters'
                          /\ limiters'[held'[q].client] = held'[q].obj
                          /\ age'[held'[q].client] <= held'[q].stall
        BY DEF HeldCurrent
      <4>1. CASE q = r BY <3>1, <3>2, <4>1 DEF TypeOK
      <4>2. CASE q # r
        <5>1. held'[q] = held[q] BY <3>1, <4>2 DEF TypeOK
        <5> QED BY <2>2, <3>1, <3>2, <5>1 DEF HeldCurrent, TypeOK
      <4> QED BY <4>1, <4>2
    <3>8. Refilled'
      <4> SUFFICES ASSUME NEW d \in DOMAIN limiters'
                   PROVE  \/ bucket'[limiters'[d]].since = Burst
                          \/ age'[d] <= bucket'[limiters'[d]].since + MaxStall
        BY DEF Refilled
      <4>1. CASE d = c BY <3>1, <4>1 DEF TypeOK, Full
      <4>2. CASE d # c BY <3>1, <3>2, <4>2 DEF TypeOK, Refilled, Garbage
      <4> QED BY <4>1, <4>2
    <3> QED BY <3>5, <3>6, <3>7, <3>8
  <2> QED BY <2>1, <2>2
<1>2. ASSUME NEW r \in Requests, Allow(r) PROVE IInv'
  <2> DEFINE h == held[r]
             b == [tokens |-> Level(bucket[h.obj]) - 1, since |-> 0]
  <2>1. /\ h \in Hold
        /\ h.obj = limiters[h.client] /\ h.client \in DOMAIN limiters
        /\ age[h.client] <= MaxStall
    BY <1>2 DEF Allow, TypeOK, HeldCurrent, Hold
  <2>2. /\ bucket' = [bucket EXCEPT ![h.obj] = b]
        /\ held' = [held EXCEPT ![r] = Free]
        /\ answer' = <<h.client, TRUE>>
        /\ UNCHANGED <<limiters, age, stopped>>
    BY <1>2 DEF Allow
  <2>3. b \in [tokens : 0..Burst, since : 0..Burst]
    BY <1>2, <2>1, LevelBounds DEF Allow, TypeOK, Hold
  <2>4. TypeOK' BY <2>1, <2>2, <2>3 DEF TypeOK, Hold
  <2>5. Owned' BY <2>2 DEF Owned
  <2>6. HeldCurrent' BY <2>2 DEF HeldCurrent, TypeOK
  <2>7. Refilled'
    <3> SUFFICES ASSUME NEW d \in DOMAIN limiters
                 PROVE  \/ bucket'[limiters[d]].since = Burst
                        \/ age[d] <= bucket'[limiters[d]].since + MaxStall
      BY <2>2 DEF Refilled
    <3>1. CASE d = h.client BY <2>1, <2>2, <3>1 DEF TypeOK, Hold
    <3>2. CASE d # h.client BY <2>1, <2>2, <3>2 DEF TypeOK, Refilled, Owned
    <3> QED BY <3>1, <3>2
  <2> QED BY <2>4, <2>5, <2>6, <2>7
<1>3. ASSUME NEW r \in Requests, Refuse(r) PROVE IInv'
  <2>1. held[r] \in Hold BY <1>3 DEF Refuse, TypeOK
  <2>2. /\ held' = [held EXCEPT ![r] = Free] /\ answer' = <<held[r].client, FALSE>>
        /\ UNCHANGED <<limiters, bucket, age, stopped>>
    BY <1>3 DEF Refuse
  <2>3. answer' \in Clients \X BOOLEAN BY <2>1, <2>2 DEF Hold
  <2>4. TypeOK' BY <2>2, <2>3 DEF TypeOK
  <2>5. Owned' /\ Refilled' BY <2>2 DEF Owned, Refilled
  <2>6. HeldCurrent' BY <2>2 DEF HeldCurrent, TypeOK
  <2> QED BY <2>4, <2>5, <2>6
<1>4. CASE Tick
  <2>1. ASSUME NEW q \in Requests, held[q] # Free
        PROVE  held'[q] = Waits(held[q]) /\ held'[q] \in Hold
    <3>1. held'[q] = Waits(held[q]) /\ held[q].stall < MaxStall
      BY <1>4, <2>1 DEF Tick
    <3>2. held[q] \in Hold
      BY <2>1 DEF TypeOK
    <3> QED BY <3>1, <3>2 DEF Waits, Hold
  <2>2. TypeOK' BY <1>4, <2>1 DEF Tick, TypeOK
  <2>3. Owned' BY <1>4 DEF Tick, Owned
  <2>4. HeldCurrent'
    <3> SUFFICES ASSUME NEW q \in Requests, held'[q] # Free
                 PROVE  /\ held'[q].client \in DOMAIN limiters'
                        /\ limiters'[held'[q].client] = held'[q].obj
                        /\ age'[held'[q].client] <= held'[q].stall
      BY DEF HeldCurrent
    <3>1. held[q] # Free BY <1>4 DEF Tick
    <3>2. held[q] \in Hold BY <3>1 DEF TypeOK
    <3>3. /\ held[q].client \in DOMAIN limiters /\ limiters[held[q].client] = held[q].obj
          /\ age[held[q].client] <= held[q].stall
      BY <3>1 DEF HeldCurrent
    <3>4. /\ held'[q].client = held[q].client /\ held'[q].obj = held[q].obj
          /\ held'[q].stall = held[q].stall + 1
      <4>1. held'[q] = Waits(held[q]) BY <2>1, <3>1
      <4>2. held'[q] = [obj |-> held[q].obj, client |-> held[q].client,
                        stall |-> held[q].stall + 1]
        BY <4>1 DEF Waits
      <4> QED BY <4>2
    <3>5. /\ age' = [c \in Clients |-> IF age[c] <= Keep THEN age[c] + 1 ELSE age[c]]
          /\ limiters' = limiters
      BY <1>4 DEF Tick
    <3> QED BY <3>2, <3>3, <3>4, <3>5 DEF Hold, TypeOK
  <2>5. Refilled'
    <3> SUFFICES ASSUME NEW c \in DOMAIN limiters
                 PROVE  \/ bucket'[limiters[c]].since = Burst
                        \/ age'[c] <= bucket'[limiters[c]].since + MaxStall
      BY <1>4 DEF Refilled, Tick
    <3> DEFINE b == bucket[limiters[c]]
    <3>1. /\ c \in Clients /\ limiters[c] \in Objects
          /\ b.since \in 0..Burst /\ age[c] \in 0..(Keep + 1)
      BY DEF TypeOK
    <3>2. b.since = Burst \/ age[c] <= b.since + MaxStall
      BY DEF Refilled
    <3>3. bucket'[limiters[c]].since = IF b.since < Burst THEN b.since + 1 ELSE Burst
      BY <1>4, <3>1 DEF Tick
    <3>4. age'[c] = IF age[c] <= Keep THEN age[c] + 1 ELSE age[c]
      BY <1>4, <3>1 DEF Tick
    <3> QED BY <3>1, <3>2, <3>3, <3>4
  <2> QED BY <2>2, <2>3, <2>4, <2>5
<1>5. CASE evict
  <2> DEFINE D == {c \in DOMAIN limiters : ~Lapsed(c)}
  <2>1. /\ limiters' = [c \in D |-> limiters[c]]
        /\ UNCHANGED <<bucket, age, held, stopped, answer>>
    BY <1>5 DEF evict, Restrict
  <2>2. TypeOK' BY <2>1 DEF TypeOK
  <2>3. Owned' BY <2>1 DEF Owned
  <2>4. HeldCurrent'
    <3> SUFFICES ASSUME NEW q \in Requests, held[q] # Free
                 PROVE  held[q].client \in D
      BY <2>1 DEF HeldCurrent
    <3>1. held[q] \in Hold BY DEF TypeOK
    <3> QED BY <3>1 DEF HeldCurrent, Lapsed, Hold, TypeOK
  <2>5. Refilled' BY <2>1 DEF Refilled
  <2> QED BY <2>2, <2>3, <2>4, <2>5
<1>6. CASE Stop
  BY <1>6 DEF Stop, TypeOK, Owned, HeldCurrent, Refilled
<1>7. CASE UNCHANGED vars
  BY <1>7 DEF vars, TypeOK, Owned, HeldCurrent, Refilled
<1> QED BY <1>1, <1>2, <1>3, <1>4, <1>5, <1>6, <1>7 DEF Next

\* The limiter's state stays as its fields say: the map has limiters only, and
\* no bucket holds more than Burst.
THEOREM TypeCorrect == Spec => []TypeOK
<1>1. IInv => TypeOK BY DEF IInv
<1> QED BY InitIInv, NextIInv, <1>1, PTL DEF Spec

-----------------------------------------------------------------------------
\* An evicted limiter was full: its client loses and gains nothing.
LEMMA EvictsFullOnly ==
    IInv => \A c \in DOMAIN limiters : Lapsed(c) => Level(bucket[limiters[c]]) = Burst
BY RateAssumption DEF IInv, TypeOK, Refilled, Lapsed, Level

Tokens == [c \in Clients |->
    IF c \in DOMAIN limiters THEN Level(bucket[limiters[c]]) ELSE Burst]

\* Every step is one of the promised buckets, or none: evicting a full bucket
\* and making a full one are the same to the client.
LEMMA StepIsBucketStep == IInv /\ [Next]_vars => [Promised!Next]_(Promised!vars)
<1> SUFFICES ASSUME IInv, [Next]_vars PROVE Promised!Next \/ UNCHANGED <<Tokens, answer>>
  BY DEF Promised!vars, Tokens
<1> USE RateAssumption, FreeIsNotHeld DEF IInv
<1>1. ASSUME NEW r \in Requests, NEW c \in Clients, getLimiter(r, c)
      PROVE  UNCHANGED <<Tokens, answer>>
  <2>1. CASE c \in DOMAIN limiters BY <1>1, <2>1 DEF getLimiter, Tokens
  <2>2. CASE c \notin DOMAIN limiters
    <3>1. PICK o \in Objects :
            /\ Garbage(o)
            /\ limiters' = [d \in DOMAIN limiters \cup {c} |-> IF d = c THEN o ELSE limiters[d]]
            /\ bucket' = [bucket EXCEPT ![o] = Full]
      BY <1>1, <2>2 DEF getLimiter
    <3>2. Level(Full) = Burst BY DEF Level, Full
    <3>3. ASSUME NEW d \in Clients PROVE Tokens'[d] = Tokens[d]
      <4>1. CASE d = c BY <2>2, <3>1, <3>2, <4>1 DEF Tokens, TypeOK
      <4>2. CASE d # c BY <3>1, <4>2 DEF Tokens, TypeOK, Garbage
      <4> QED BY <4>1, <4>2
    <3>4. Tokens' = Tokens BY <3>3 DEF Tokens
    <3> QED BY <1>1, <3>4 DEF getLimiter
  <2> QED BY <2>1, <2>2
<1>2. ASSUME NEW r \in Requests, held[r] # Free
      PROVE  /\ held[r] \in Hold /\ held[r].client \in Clients
             /\ Tokens[held[r].client] = Level(bucket[held[r].obj])
  BY <1>2 DEF TypeOK, HeldCurrent, Hold, Tokens
<1>3. ASSUME NEW r \in Requests, Allow(r) PROVE \E c \in Clients : Promised!Allow(c)
  <2> DEFINE h == held[r]
             b == [tokens |-> Level(bucket[h.obj]) - 1, since |-> 0]
  <2>1. h # Free /\ Level(bucket[h.obj]) > 0 /\ bucket' = [bucket EXCEPT ![h.obj] = b]
        /\ answer' = <<h.client, TRUE>> /\ limiters' = limiters
    BY <1>3 DEF Allow
  <2>2. h \in Hold /\ h.client \in Clients /\ Tokens[h.client] = Level(bucket[h.obj])
    BY <1>2, <2>1
  <2>3. h.client \in DOMAIN limiters /\ limiters[h.client] = h.obj
    BY <2>1 DEF HeldCurrent
  <2>4. Level(bucket[h.obj]) \in 0..Burst
    BY <2>2, LevelBounds DEF TypeOK, Hold
  <2>5. Level(b) = Level(bucket[h.obj]) - 1
    BY <2>1, <2>4 DEF Level
  <2>6. ASSUME NEW d \in Clients
        PROVE  Tokens'[d] = IF d = h.client THEN Tokens[d] - 1 ELSE Tokens[d]
    <3>1. CASE d = h.client
      BY <2>1, <2>2, <2>3, <2>5, <3>1 DEF Tokens, TypeOK, Hold
    <3>2. CASE d # h.client
      BY <2>1, <2>2, <2>3, <3>2 DEF Tokens, TypeOK, Owned
    <3> QED BY <3>1, <3>2
  <2>7. Tokens' = [Tokens EXCEPT ![h.client] = @ - 1]
    BY <2>2, <2>6 DEF Tokens
  <2>8. PICK c \in Clients : c = h.client
    BY <2>2
  <2>9. Promised!Allow(c)
    BY <2>1, <2>2, <2>7, <2>8 DEF Promised!Allow, Tokens
  <2> QED BY <2>9
<1>4. ASSUME NEW r \in Requests, Refuse(r) PROVE \E c \in Clients : Promised!Refuse(c)
  <2>1. Tokens' = Tokens BY <1>4 DEF Refuse, Tokens
  <2>2. PICK c \in Clients : c = held[r].client
    BY <1>2, <1>4 DEF Refuse
  <2>3. Promised!Refuse(c)
    BY <1>2, <1>4, <2>1, <2>2 DEF Refuse, Promised!Refuse, Tokens
  <2> QED BY <2>3
<1>5. CASE Tick
  <2>1. ASSUME NEW c \in Clients
        PROVE  Tokens'[c] = IF Tokens[c] < Burst THEN Tokens[c] + 1 ELSE Burst
    <3>1. CASE c \in DOMAIN limiters
      BY <1>5, <3>1 DEF Tick, Tokens, Level, TypeOK
    <3>2. CASE c \notin DOMAIN limiters BY <1>5, <3>2 DEF Tick, Tokens
    <3> QED BY <3>1, <3>2
  <2>2. Tokens' = [c \in Clients |-> IF Tokens[c] < Burst THEN Tokens[c] + 1 ELSE Burst]
    BY <2>1 DEF Tokens
  <2>3. Promised!Tick
    BY <1>5, <2>2 DEF Tick, Promised!Tick, Tokens
  <2> QED BY <2>3 DEF Promised!Next
<1>6. CASE evict
  <2>1. ASSUME NEW c \in Clients PROVE Tokens'[c] = Tokens[c]
    BY <1>6, EvictsFullOnly DEF evict, Restrict, Tokens
  <2>2. Tokens' = Tokens BY <2>1 DEF Tokens
  <2> QED BY <1>6, <2>2 DEF evict
<1>7. CASE Stop BY <1>7 DEF Stop, Tokens
<1>8. CASE UNCHANGED vars BY <1>8 DEF vars, Tokens
<1>9. ASSUME NEW r \in Requests, Allow(r) \/ Refuse(r) PROVE Promised!Next
  BY <1>3, <1>4, <1>9 DEF Promised!Next
<1> QED BY <1>1, <1>5, <1>6, <1>7, <1>8, <1>9 DEF Next, Promised!Next

\* Every client has the bucket it was promised, whatever evict and the
\* requests of its own and of others do.
THEOREM LimiterKeepsPromise == Spec => BucketSpec
<1>1. Init => Promised!Init
  BY DEF Init, Promised!Init
<1> QED BY InitIInv, NextIInv, StepIsBucketStep, <1>1, PTL DEF Spec, BucketSpec, Promised!Spec
=============================================================================
