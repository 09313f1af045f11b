----------------------------- MODULE Arrangement -----------------------------
(***************************************************************************)
(* What editors may rely on when they arrange a gallery: the requests that *)
(* reorder it or sort it by date take effect one after the other, each as  *)
(* a whole or not at all, whatever is uploaded and deleted meanwhile.      *)
(***************************************************************************)
EXTENDS Naturals, FiniteSets, Functions

CONSTANTS Photos, Editors

VARIABLES
    place,    \* the sort_order of each photo that has a row
    asked,    \* [Editors -> sequences of photos]: the order an open request asks for
    outcome   \* [Editors -> {"none", "open", "applied", "refused"}]

arrVars == <<place, asked, outcome>>

\* The sequences that name each photo of a set once.
Orders(S) == Bijection(1..Cardinality(S), S)

\* The sort_order that an order gives to one of its photos.
PlaceIn(order, p) == (CHOOSE i \in DOMAIN order : order[i] = p) - 1

Arranged(order) ==
    [p \in DOMAIN place |-> IF p \in Range(order) THEN PlaceIn(order, p) ELSE place[p]]

Init ==
    /\ place = [p \in {} |-> 0]
    /\ asked = [e \in Editors |-> <<>>]
    /\ outcome = [e \in Editors |-> "none"]

Ask(e) ==
    /\ outcome[e] = "none"
    /\ outcome' = [outcome EXCEPT ![e] = "open"]
    /\ \E S \in SUBSET Photos : \E order \in Orders(S) : asked' = [asked EXCEPT ![e] = order]
    /\ UNCHANGED place

Apply(e) ==
    /\ outcome[e] = "open"
    /\ outcome' = [outcome EXCEPT ![e] = "applied"]
    /\ place' = Arranged(asked[e])
    /\ asked' = [asked EXCEPT ![e] = <<>>]

Refuse(e) ==
    /\ outcome[e] = "open"
    /\ outcome' = [outcome EXCEPT ![e] = "refused"]
    /\ asked' = [asked EXCEPT ![e] = <<>>]
    /\ UNCHANGED place

Add(p) ==
    /\ p \notin DOMAIN place
    /\ place' \in [DOMAIN place \cup {p} -> Nat]
    /\ \A q \in DOMAIN place : place'[q] = place[q]
    /\ UNCHANGED <<asked, outcome>>

Remove(p) ==
    /\ p \in DOMAIN place
    /\ place' = Restrict(place, DOMAIN place \ {p})
    /\ UNCHANGED <<asked, outcome>>

Next ==
    \/ \E e \in Editors : Ask(e) \/ Apply(e) \/ Refuse(e)
    \/ \E p \in Photos : Add(p) \/ Remove(p)

Spec == Init /\ [][Next]_arrVars
=============================================================================
