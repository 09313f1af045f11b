----------------------------- MODULE TokenBucket -----------------------------
(***************************************************************************)
(* What the rate limiters of main.go promise a client: a bucket of Burst   *)
(* tokens that gains one per tick up to Burst and loses one per request    *)
(* let through; a request is turned away only when the bucket is empty.    *)
(***************************************************************************)
EXTENDS Naturals

CONSTANTS Clients, Burst

VARIABLES
    tokens,  \* [Clients -> 0..Burst]
    answer   \* the last answer: the client, and whether it was let through

vars == <<tokens, answer>>

Init ==
    /\ tokens = [c \in Clients |-> Burst]
    /\ answer = <<>>

Tick ==
    /\ tokens' = [c \in Clients |-> IF tokens[c] < Burst THEN tokens[c] + 1 ELSE Burst]
    /\ UNCHANGED answer

Allow(c) ==
    /\ tokens[c] > 0
    /\ tokens' = [tokens EXCEPT ![c] = @ - 1]
    /\ answer' = <<c, TRUE>>

Refuse(c) ==
    /\ tokens[c] = 0
    /\ answer' = <<c, FALSE>>
    /\ UNCHANGED tokens

Next == Tick \/ \E c \in Clients : Allow(c) \/ Refuse(c)

Spec == Init /\ [][Next]_vars
=============================================================================
