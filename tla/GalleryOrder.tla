---------------------------- MODULE GalleryOrder -----------------------------
(***************************************************************************)
(* The order of the photos of one gallery: column sort_order of the photos *)
(* table, the statements of internal/repository/photo.go that draw, write  *)
(* and read it, and the requests of internal/handler that run them.        *)
(*                                                                         *)
(* PostgreSQL is modelled as the code uses it, at READ COMMITTED: each     *)
(* statement sees what is committed when it starts, an UPDATE locks its    *)
(* row until its transaction ends, a circle of transactions that wait for  *)
(* each other's rows is broken by failing one of them.  A statement on its *)
(* own is one step.  Only Reorder spans several statements that write.     *)
(***************************************************************************)
EXTENDS Integers, FiniteSets, Functions

CONSTANTS
    Photos,    \* a set of naturals: the IDs, which the database compares
    Editors,   \* requests that reorder or sort
    Sorters,   \* those that sort
    Viewers,   \* requests for the page of a photo
    Directions, \* what SortByDate is asked for: "asc", "desc"
    MaxTime,   \* created_at goes from 0 to MaxTime
    ShotTimes, \* what captured_at may be
    NoTime,    \* captured_at is NULL
    NoPhoto    \* no neighbour on that side

ASSUME OrderAssumption ==
    /\ Photos \subseteq Nat /\ IsFiniteSet(Photos)
    /\ Directions \subseteq {"asc", "desc"}
    /\ MaxTime \in Nat /\ ShotTimes \subseteq Nat
    /\ NoTime \notin Nat /\ NoPhoto \notin Photos
    /\ Sorters \subseteq Editors /\ Editors \cap Viewers = {}

VARIABLES
    place,      \* the committed sort_order of each photo that has a row
    created,    \* [Photos -> time]: created_at, 0 without a row
    captured,   \* [Photos -> time or NoTime]: captured_at, NoTime without a row
    upload,     \* [Photos -> ...]: the upload that brings the photo
    number,     \* [Photos -> Nat]: the sort_order it has drawn, 0 before and after
    edit,       \* [Editors -> ...]: the request
    list,       \* [Editors -> sequences]: orderedIDs, while the request is open
    at,         \* [Editors -> Nat]: the index in it of the next UPDATE
    written,    \* [Editors -> sets]: rows its transaction has updated, and locks
    direction,  \* [Editors -> ...]: what SortByDate was asked for, "none" in Reorder
    viewer,     \* [Viewers -> records]: the progress of Neighbors
    seen,       \* history, [Photos -> sets]: of the rows there are, those that were
                \* when its number was drawn, until a request rearranges the gallery
    overtaken   \* history: sorts and lookups that something was committed behind

vars == <<place, created, captured, upload, number, edit, list, at,
          written, direction, viewer, seen, overtaken>>
editVars == <<edit, list, at, written, direction>>
uploadVars == <<upload, number, seen>>

rows == DOMAIN place

\* The sequences that name each photo of a set once.
Orders(S) == Bijection(1..Cardinality(S), S)

Lists == UNION {Orders(S) : S \in SUBSET Photos}

PlaceIn(order, p) == (CHOOSE i \in DOMAIN order : order[i] = p) - 1

Times == 0..MaxTime

Idle == [step |-> "idle", photo |-> NoPhoto, key |-> <<0, 0, 0>>,
         prev |-> NoPhoto, next |-> NoPhoto]

Views == [step : {"idle", "page", "key", "prev", "shown", "failed"},
          photo : Photos \cup {NoPhoto}, key : Nat \X Nat \X Nat,
          prev : Photos \cup {NoPhoto}, next : Photos \cup {NoPhoto}]

TypeOK ==
    /\ rows \subseteq Photos /\ place \in [rows -> Nat]
    /\ created \in [Photos -> Times]
    /\ captured \in [Photos -> ShotTimes \cup {NoTime}]
    /\ upload \in [Photos -> {"none", "drawn", "in", "gone"}]
    /\ \A p \in Photos : p \in rows <=> upload[p] = "in"
    /\ number \in [Photos -> Nat]
    /\ edit \in [Editors -> {"none", "open", "applied", "refused"}]
    /\ list \in [Editors -> Lists]
    /\ at \in [Editors -> Nat \ {0}]
    /\ written \in [Editors -> SUBSET rows]
    /\ direction \in [Editors -> {"none", "asc", "desc"}]
    /\ viewer \in [Viewers -> Views]
    /\ seen \in [Photos -> SUBSET Photos]
    /\ overtaken \subseteq Editors \cup Viewers

Init ==
    /\ place = [p \in {} |-> 0]
    /\ created = [p \in Photos |-> 0]
    /\ captured = [p \in Photos |-> NoTime]
    /\ upload = [p \in Photos |-> "none"]
    /\ number = [p \in Photos |-> 0]
    /\ edit = [e \in Editors |-> "none"]
    /\ list = [e \in Editors |-> <<>>]
    /\ at = [e \in Editors |-> 1]
    /\ written = [e \in Editors |-> {}]
    /\ direction = [e \in Editors |-> "none"]
    /\ viewer = [v \in Viewers |-> Idle]
    /\ seen = [p \in Photos |-> {}]
    /\ overtaken = {}

\* What somebody commits overtakes the sorts and the pages that are under way.
Overtake(by) ==
    overtaken' = (overtaken
        \cup {e \in Editors : direction[e] # "none"}
        \cup {v \in Viewers : viewer[v].step \in {"page", "key", "prev", "shown"}}) \ by

Unlocked(p) == \A e \in Editors : p \notin written[e]

-----------------------------------------------------------------------------
(* Uploads, the worker and deletes, as far as they touch the order.        *)

\* Mutation: SELECT COUNT(*), which is the same as long as nothing is deleted.
NextPlacesByCount == {Cardinality(rows)}

\* Mutation: the first photo of a gallery gets what COALESCE puts for no maximum.
NextPlacesFromMinusOne ==
    IF rows = {} THEN {-1}
    ELSE {place[q] + 1 : q \in {q \in rows : \A r \in rows : place[r] <= place[q]}}

\* COALESCE(MAX(sort_order), -1) + 1
NextPlaces ==
    IF rows = {} THEN {0}
    ELSE {place[q] + 1 : q \in {q \in rows : \A r \in rows : place[r] <= place[q]}}

Draw(p) ==
    /\ upload[p] = "none"
    /\ upload' = [upload EXCEPT ![p] = "drawn"]
    /\ \E n \in NextPlaces : number' = [number EXCEPT ![p] = n]
    /\ seen' = [seen EXCEPT ![p] = rows]
    /\ UNCHANGED <<place, created, captured, editVars, viewer, overtaken>>

\* The statement's error is dropped by both upload paths, which go on with 0.
DrawFails(p) ==
    /\ upload[p] = "none"
    /\ upload' = [upload EXCEPT ![p] = "drawn"]
    /\ UNCHANGED <<place, created, captured, number, seen, editVars, viewer, overtaken>>

\* NOW() is the time the statement began, so a later insert may bear an earlier one.
Create(p) ==
    /\ upload[p] = "drawn"
    /\ upload' = [upload EXCEPT ![p] = "in"]
    /\ place' = [q \in rows \cup {p} |-> IF q = p THEN number[p] ELSE place[q]]
    /\ number' = [number EXCEPT ![p] = 0]
    /\ \E t \in Times : created' = [created EXCEPT ![p] = t]
    /\ Overtake({})
    /\ UNCHANGED <<captured, seen, editVars, viewer>>

\* The worker knows when the photo was taken.
UpdateProcessed(p) ==
    /\ p \in rows /\ Unlocked(p)
    /\ captured[p] = NoTime
    /\ \E t \in ShotTimes : captured' = [captured EXCEPT ![p] = t]
    /\ Overtake({})
    /\ UNCHANGED <<place, created, uploadVars, editVars, viewer>>

Delete(p) ==
    /\ p \in rows /\ Unlocked(p)
    /\ place' = Restrict(place, rows \ {p})
    /\ created' = [created EXCEPT ![p] = 0]
    /\ captured' = [captured EXCEPT ![p] = NoTime]
    /\ upload' = [upload EXCEPT ![p] = "gone"]
    /\ seen' = [q \in Photos |-> IF q = p THEN {} ELSE seen[q] \ {p}]
    /\ Overtake({})
    /\ UNCHANGED <<number, editVars, viewer>>

-----------------------------------------------------------------------------
(* ReorderPhotos and SortByDate, which end in the same transaction.        *)

Open(e, order, how) ==
    /\ edit[e] = "none"
    /\ edit' = [edit EXCEPT ![e] = "open"]
    /\ list' = [list EXCEPT ![e] = order]
    /\ direction' = [direction EXCEPT ![e] = how]
    /\ UNCHANGED <<place, created, captured, uploadVars, at, written, viewer, overtaken>>

\* A card was dragged on a page that shows these photos.
ReorderPhotos(e) ==
    /\ e \notin Sorters
    /\ rows # {}
    /\ \E order \in Orders(rows) : Open(e, order, "none")

When(p) == IF captured[p] = NoTime THEN created[p] ELSE captured[p]

\* Mutation: ORDER BY captured_at without created_at; NULL is above every time.
ChronologicalNullsLast(order, how) ==
    LET NotAfter(p, q) ==
            IF captured[p] = NoTime \/ captured[q] = NoTime
            THEN captured[q] = NoTime ELSE captured[p] <= captured[q]
    IN \A i, j \in DOMAIN order : i < j =>
        IF how = "asc" THEN NotAfter(order[i], order[j])
                       ELSE NotAfter(order[j], order[i])

Chronological(order, how) ==
    \A i, j \in DOMAIN order : i < j =>
        IF how = "asc" THEN When(order[i]) <= When(order[j])
                       ELSE When(order[i]) >= When(order[j])

\* The query of SortByDate, in one of the orders that its ties allow.
SortByDate(e) ==
    /\ e \in Sorters
    /\ rows # {}
    /\ \E how \in Directions : \E order \in Orders(rows) :
        /\ Chronological(order, how)
        /\ Open(e, order, how)

Remaining(e) == edit[e] = "open" /\ at[e] \in DOMAIN list[e]

\* Mutation: on the pool instead of the transaction, so each row commits alone.
UpdateRowAlone(e) ==
    /\ Remaining(e)
    /\ at' = [at EXCEPT ![e] = @ + 1]
    /\ place' = [p \in rows |-> IF p = list[e][at[e]] THEN at[e] - 1 ELSE place[p]]
    /\ Overtake({e})
    /\ UNCHANGED <<created, captured, uploadVars, edit, list, written, direction, viewer>>

\* Mutation: an UPDATE that matches no row is tried again.
UpdateRowInsists(e) ==
    /\ Remaining(e)
    /\ list[e][at[e]] \in rows
    /\ \A f \in Editors \ {e} : list[e][at[e]] \notin written[f]
    /\ at' = [at EXCEPT ![e] = @ + 1]
    /\ written' = [written EXCEPT ![e] = @ \cup {list[e][at[e]]}]
    /\ UNCHANGED <<place, created, captured, uploadVars, edit, list, direction, viewer, overtaken>>

\* Reorder's UPDATE of one row, which waits for the row and may match none.
UpdateRow(e) ==
    /\ Remaining(e)
    /\ \A f \in Editors \ {e} : list[e][at[e]] \notin written[f]
    /\ at' = [at EXCEPT ![e] = @ + 1]
    /\ written' = [written EXCEPT ![e] = @ \cup ({list[e][at[e]]} \cap rows)]
    /\ UNCHANGED <<place, created, captured, uploadVars, edit, list, direction, viewer, overtaken>>

\* The transaction ends and gives its locks up.
Close(e, how) ==
    /\ edit' = [edit EXCEPT ![e] = how]
    /\ list' = [list EXCEPT ![e] = <<>>]
    /\ at' = [at EXCEPT ![e] = 1]
    /\ written' = [written EXCEPT ![e] = {}]
    /\ direction' = [direction EXCEPT ![e] = "none"]

Commit(e) ==
    /\ edit[e] = "open" /\ at[e] \notin DOMAIN list[e]
    /\ Close(e, "applied")
    /\ place' = [p \in rows |-> IF p \in written[e] THEN PlaceIn(list[e], p) ELSE place[p]]
    /\ seen' = [p \in Photos |-> {}]
    /\ Overtake({e})
    /\ UNCHANGED <<created, captured, upload, number, viewer>>

\* A statement failed, or the browser is gone and its context with it.
Rollback(e) ==
    /\ edit[e] = "open"
    /\ Close(e, "refused")
    /\ overtaken' = overtaken \ {e}
    /\ UNCHANGED <<place, created, captured, uploadVars, viewer>>

WaitsFor(e, f) == e # f /\ Remaining(e) /\ list[e][at[e]] \in written[f]

\* PostgreSQL fails one of the transactions that wait in a circle.
DeadlockVictim(e) ==
    /\ \E S \in SUBSET Editors :
        /\ e \in S
        /\ \A f \in S : \E g \in S : WaitsFor(f, g)
        /\ \A g \in S : \E f \in S : WaitsFor(f, g)
    /\ Rollback(e)

-----------------------------------------------------------------------------
(* PhotoView: Neighbors, three statements, without a transaction.          *)

\* (a, b, c) < (x, y, z), as SQL compares rows.
Less(k, l) ==
    \/ k[1] < l[1]
    \/ k[1] = l[1] /\ k[2] < l[2]
    \/ k[1] = l[1] /\ k[2] = l[2] /\ k[3] < l[3]

Key(p) == <<place[p], created[p], p>>

\* Mutation: the query for the previous photo in ascending order.
IsFirstBelow(q, key) ==
    /\ q \in rows /\ Less(Key(q), key)
    /\ \A r \in rows : Less(Key(r), key) => r = q \/ Less(Key(q), Key(r))

IsLastBelow(q, key) ==
    /\ q \in rows /\ Less(Key(q), key)
    /\ \A r \in rows : Less(Key(r), key) => r = q \/ Less(Key(r), Key(q))

IsFirstAbove(q, key) ==
    /\ q \in rows /\ Less(key, Key(q))
    /\ \A r \in rows : Less(key, Key(r)) => r = q \/ Less(Key(q), Key(r))

ReaderStays ==
    UNCHANGED <<place, created, captured, uploadVars, editVars, overtaken>>

\* PhotoView found the photo in the gallery.
OpenPhoto(v) ==
    /\ viewer[v].step = "idle"
    /\ \E p \in rows : viewer' = [viewer EXCEPT ![v] = [@ EXCEPT !.step = "page", !.photo = p]]
    /\ ReaderStays

\* A photo deleted in between has no neighbours.
ReadKey(v) ==
    /\ viewer[v].step = "page"
    /\ LET p == viewer[v].photo IN
        viewer' = IF p \in rows
                  THEN [viewer EXCEPT ![v] = [@ EXCEPT !.step = "key", !.key = Key(p)]]
                  ELSE [viewer EXCEPT ![v] = [@ EXCEPT !.step = "shown"]]
    /\ ReaderStays

ReadPrev(v) ==
    /\ viewer[v].step = "key"
    /\ \E q \in rows \cup {NoPhoto} :
        /\ IF q = NoPhoto THEN \A r \in rows : ~Less(Key(r), viewer[v].key)
                          ELSE IsLastBelow(q, viewer[v].key)
        /\ viewer' = [viewer EXCEPT ![v] = [@ EXCEPT !.step = "prev", !.prev = q]]
    /\ ReaderStays

ReadNext(v) ==
    /\ viewer[v].step = "prev"
    /\ \E q \in rows \cup {NoPhoto} :
        /\ IF q = NoPhoto THEN \A r \in rows : ~Less(viewer[v].key, Key(r))
                          ELSE IsFirstAbove(q, viewer[v].key)
        /\ viewer' = [viewer EXCEPT ![v] = [@ EXCEPT !.step = "shown", !.next = q, !.key = Idle.key]]
    /\ ReaderStays

\* A statement failed: the page is shown without arrows.
LookupFails(v) ==
    /\ viewer[v].step \in {"page", "key", "prev"}
    /\ viewer' = [viewer EXCEPT ![v] = [Idle EXCEPT !.step = "failed"]]
    /\ overtaken' = overtaken \ {v}
    /\ UNCHANGED <<place, created, captured, uploadVars, editVars>>

-----------------------------------------------------------------------------
PhotoStep(p) ==
    Draw(p) \/ DrawFails(p) \/ Create(p) \/ UpdateProcessed(p) \/ Delete(p)

ReorderStep(e) == UpdateRow(e) \/ Commit(e)

EditorStep(e) ==
    ReorderPhotos(e) \/ SortByDate(e) \/ ReorderStep(e) \/ Rollback(e) \/ DeadlockVictim(e)

ViewerStep(v) ==
    OpenPhoto(v) \/ ReadKey(v) \/ ReadPrev(v) \/ ReadNext(v) \/ LookupFails(v)

Next ==
    \/ \E p \in Photos : PhotoStep(p)
    \/ \E e \in Editors : EditorStep(e)
    \/ \E v \in Viewers : ViewerStep(v)

Spec == Init /\ [][Next]_vars

\* Goroutines are scheduled, and the database finds its deadlocks.  Each request
\* takes finitely many steps, so that it is enough that one that can go on does.
FairSpec ==
    Spec /\ WF_vars(\E e \in Editors : ReorderStep(e) \/ DeadlockVictim(e))

-----------------------------------------------------------------------------
(* Properties.                                                             *)

\* Photos uploaded one after the other are shown one after the other, until an
\* editor rearranges the gallery, whatever is deleted meanwhile.  (A number that
\* was drawn before a rearrangement, or not drawn at all, promises nothing.)
UploadsKeepOrder ==
    \A q \in rows : \A p \in seen[q] \cap rows : place[p] < place[q]

\* A request to sort that nothing was committed behind leaves the gallery in
\* chronological order, undated photos in the place of their upload time.
SortedByDate ==
    [][\A e \in Editors \ overtaken :
        (Commit(e) /\ direction[e] # "none") =>
            \A p, q \in rows : place'[p] < place'[q] =>
                IF direction[e] = "asc" THEN When(p) <= When(q)
                                        ELSE When(p) >= When(q)]_vars

\* The orders in which ListByGallery may return the rows: by sort_order, then by
\* created_at, ties in any order.
GridOrders ==
    {g \in Orders(rows) : \A i, j \in DOMAIN g : i < j =>
        \/ place[g[i]] < place[g[j]]
        \/ place[g[i]] = place[g[j]] /\ created[g[i]] <= created[g[j]]}

\* The arrows of a photo whose lookup nothing was committed behind lead to the
\* cards on either side of it in the grid.
ArrowsFollowGrid ==
    \A v \in Viewers \ overtaken : viewer[v].step = "shown" =>
        \E g \in GridOrders : \E i \in DOMAIN g :
            /\ g[i] = viewer[v].photo
            /\ viewer[v].prev = IF i = 1 THEN NoPhoto ELSE g[i - 1]
            /\ viewer[v].next = IF i = Cardinality(rows) THEN NoPhoto ELSE g[i + 1]

\* Requests to reorder or sort take effect one after the other and as a whole.
Whole == INSTANCE Arrangement WITH asked <- list, outcome <- edit
WholeSpec == Whole!Spec

\* Every request to reorder or sort ends, also when requests wait for each other
\* and when photos of their lists are deleted under them.  (None is ever open again,
\* so it is enough that there is always a later time when none is open.)
EditsEnd == []<>(\A e \in Editors : edit[e] # "open")
=============================================================================
