----------------------------- MODULE PhotoStatus -----------------------------
(***************************************************************************)
(* The life of a photo as the rest of the program may rely on it: the      *)
(* status column of internal/domain/types.go and migration 000009, without *)
(* the files, the handlers and the workers that drive it.                  *)
(*                                                                         *)
(* A photo appears as 'processing', settles once, on 'ready' or on         *)
(* 'failed', and keeps what it settled on until it is removed, which it    *)
(* may be at any time.  What is removed never comes back.                  *)
(***************************************************************************)
CONSTANT Photos

VARIABLE phase  \* [Photos -> ...]: "unborn" before the row, "removed" after it

Settled == {"ready", "failed"}
Present == {"processing"} \cup Settled

Init == phase = [p \in Photos |-> "unborn"]

Appear(p) ==
    /\ phase[p] = "unborn"
    /\ phase' = [phase EXCEPT ![p] = "processing"]

Settle(p) ==
    /\ phase[p] = "processing"
    /\ \E s \in Settled : phase' = [phase EXCEPT ![p] = s]

\* One photo, or all the photos of a gallery at once.
Remove(S) ==
    /\ \A p \in S : phase[p] \in Present
    /\ phase' = [p \in Photos |-> IF p \in S THEN "removed" ELSE phase[p]]

Next ==
    \/ \E p \in Photos : Appear(p) \/ Settle(p)
    \/ \E S \in SUBSET Photos : Remove(S)

Spec == Init /\ [][Next]_phase
=============================================================================
