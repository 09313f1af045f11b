------------------------- MODULE GalleryOrderProofs --------------------------
(***************************************************************************)
(* What holds of GalleryOrder for any photos, requests and times: the      *)
(* types, the order of uploads, that requests to reorder take effect as a  *)
(* whole (module Arrangement), that sorts are by date and that the arrows  *)
(* of a page follow the grid.                                              *)
(***************************************************************************)
EXTENDS GalleryOrder, FiniteSetTheorems, TLAPS

\* A request lists photos that have or had a row; it has updated the listed rows
\* up to where it is, but for those that are gone.
ListInv ==
    \A e \in Editors :
        /\ edit[e] # "open" => written[e] = {} /\ at[e] = 1
        /\ \A i \in DOMAIN list[e] : upload[list[e][i]] \in {"in", "gone"}
        /\ written[e] = {list[e][i] : i \in {i \in DOMAIN list[e] : i < at[e]}} \cap rows

\* The order of uploads, from the number that is drawn to the row that has it.
SeenInv ==
    \A q \in Photos :
        /\ \A p \in seen[q] : upload[p] \in {"in", "gone"}
        /\ upload[q] = "none" => seen[q] = {}
        /\ upload[q] = "drawn" => \A p \in seen[q] \cap rows : place[p] < number[q]
        /\ upload[q] = "in" => \A p \in seen[q] \cap rows : place[p] < place[q]

\* The inductive invariant.
IInv == TypeOK /\ ListInv /\ SeenInv

-----------------------------------------------------------------------------
(* Orders.                                                                 *)

\* An order of a set is a sequence of its members that leaves none out.
LEMMA OrderShape ==
    ASSUME NEW S, NEW order \in Orders(S)
    PROVE  /\ DOMAIN order = 1..Cardinality(S)
           /\ \A i \in DOMAIN order : order[i] \in S
           /\ Range(order) = S
BY DEF Orders, Bijection, Injection, Surjection, IsInjective, Range

\* The sort_order that an order gives to a photo it names is a natural number.
LEMMA PlaceIsNat ==
    ASSUME NEW S, IsFiniteSet(S), NEW order \in Orders(S), NEW p \in S
    PROVE  PlaceIn(order, p) \in Nat
<1>1. \E i \in DOMAIN order : order[i] = p
  BY OrderShape DEF Range
<1>2. PICK i \in DOMAIN order : i = (CHOOSE j \in DOMAIN order : order[j] = p)
  BY <1>1
<1>3. i \in 1..Cardinality(S)
  BY OrderShape
<1> QED
  BY <1>2, <1>3 DEF PlaceIn

\* What a request lists: photos, counted from 1, each with a place.
LEMMA ListShape ==
    ASSUME NEW order \in Lists
    PROVE  /\ \E n \in Nat : DOMAIN order = 1..n
           /\ \A i \in DOMAIN order : order[i] \in Photos
           /\ \A p \in Range(order) : PlaceIn(order, p) \in Nat
<1>1. PICK S \in SUBSET Photos : order \in Orders(S)
  BY DEF Lists
<1>2. IsFiniteSet(S) /\ Cardinality(S) \in Nat
  BY FS_Subset, FS_CardinalityType, OrderAssumption
<1>3. DOMAIN order = 1..Cardinality(S) /\ \A i \in DOMAIN order : order[i] \in S
  BY <1>1, OrderShape
<1>4. ASSUME NEW p \in Range(order) PROVE PlaceIn(order, p) \in Nat
  BY <1>1, <1>2, <1>4, OrderShape, PlaceIsNat
<1> QED
  BY <1>2, <1>3, <1>4

\* A request lists all the rows there are, of which it may list none.
LEMMA RowsAreListed ==
    ASSUME TypeOK, NEW order \in Orders(rows)
    PROVE  order \in Lists
BY DEF TypeOK, Lists

\* The empty list is one.
LEMMA NoList == <<>> \in Lists
<1>1. Cardinality({}) = 0
  BY FS_EmptySet
<1>2. <<>> \in [1..0 -> {}] /\ \A x, y \in 1..0 : FALSE
  OBVIOUS
<1>3. <<>> \in Orders({})
  BY <1>1, <1>2 DEF Orders, Bijection, Injection, Surjection, IsInjective
<1> QED
  BY <1>3 DEF Lists

-----------------------------------------------------------------------------
(* The types.                                                              *)

\* What the requests have overtaken are requests.
LEMMA OvertakeType ==
    ASSUME overtaken \subseteq Editors \cup Viewers, NEW by, Overtake(by)
    PROVE  overtaken' \subseteq Editors \cup Viewers
BY DEF Overtake

\* Initially there are no rows and no requests.
LEMMA InitIInv == Init => IInv
<1> SUFFICES ASSUME Init PROVE IInv
  OBVIOUS
<1>1. TypeOK
  BY NoList, OrderAssumption DEF Init, TypeOK, Idle, Views, Times, rows
<1>2. ListInv
  BY DEF Init, ListInv, rows
<1>3. SeenInv
  BY DEF Init, SeenInv
<1> QED
  BY <1>1, <1>2, <1>3 DEF IInv

\* Uploads, the worker and deletes keep the types.
LEMMA PhotoTypeOK ==
    ASSUME TypeOK, NEW p \in Photos, PhotoStep(p)
    PROVE  TypeOK'
<1>1. CASE Draw(p)
  <2>1. NextPlaces \subseteq Nat
    BY DEF TypeOK, NextPlaces
  <2> QED
    BY <1>1, <2>1 DEF TypeOK, Draw, rows, editVars
<1>2. CASE DrawFails(p)
  BY <1>2 DEF TypeOK, DrawFails, rows, editVars
<1>3. CASE Create(p)
  <2>1. rows' = rows \cup {p} /\ place' \in [rows' -> Nat]
    BY <1>3 DEF TypeOK, Create, rows
  <2>2. overtaken' \subseteq Editors \cup Viewers
    BY <1>3, OvertakeType DEF TypeOK, Create
  <2>3. written' \in [Editors -> SUBSET rows']
    BY <1>3, <2>1 DEF TypeOK, Create, editVars
  <2> QED
    BY <1>3, <2>1, <2>2, <2>3 DEF TypeOK, Create, editVars
<1>4. CASE UpdateProcessed(p)
  <2>1. overtaken' \subseteq Editors \cup Viewers
    BY <1>4, OvertakeType DEF TypeOK, UpdateProcessed
  <2> QED
    BY <1>4, <2>1 DEF TypeOK, UpdateProcessed, rows, editVars, uploadVars
<1>5. CASE Delete(p)
  <2>1. rows' = rows \ {p} /\ place' \in [rows' -> Nat]
    BY <1>5 DEF TypeOK, Delete, rows, Restrict
  <2>2. overtaken' \subseteq Editors \cup Viewers
    BY <1>5, OvertakeType DEF TypeOK, Delete
  <2>3. written' \in [Editors -> SUBSET rows']
    BY <1>5, <2>1 DEF TypeOK, Delete, Unlocked, editVars
  <2>4. created' \in [Photos -> Times] /\ captured' \in [Photos -> ShotTimes \cup {NoTime}]
    BY <1>5, OrderAssumption DEF TypeOK, Delete, Times
  <2>5. seen' \in [Photos -> SUBSET Photos]
    BY <1>5 DEF TypeOK, Delete
  <2> QED
    BY <1>5, <2>1, <2>2, <2>3, <2>4, <2>5 DEF TypeOK, Delete, editVars
<1> QED
  BY <1>1, <1>2, <1>3, <1>4, <1>5 DEF PhotoStep

\* The variables that a request to reorder changes until it ends keep their types.
LEMMA OpenTypeOK ==
    ASSUME TypeOK, NEW e \in Editors, NEW order \in Lists,
           NEW how \in {"none", "asc", "desc"}, Open(e, order, how)
    PROVE  TypeOK'
BY DEF TypeOK, Open, rows, uploadVars

\* A transaction that ends leaves the request's variables with their types.
LEMMA CloseTypeOK ==
    ASSUME TypeOK, NEW e \in Editors, NEW how \in {"applied", "refused"}, Close(e, how)
    PROVE  /\ edit' \in [Editors -> {"none", "open", "applied", "refused"}]
           /\ list' \in [Editors -> Lists]
           /\ at' \in [Editors -> Nat \ {0}]
           /\ written' \in [Editors -> SUBSET rows]
           /\ direction' \in [Editors -> {"none", "asc", "desc"}]
BY NoList DEF TypeOK, Close

\* Requests to reorder and sort keep the types.
LEMMA EditorTypeOK ==
    ASSUME IInv, NEW e \in Editors, EditorStep(e)
    PROVE  TypeOK'
<1> USE DEF IInv
<1>1. CASE ReorderPhotos(e)
  BY <1>1, OpenTypeOK, RowsAreListed DEF ReorderPhotos
<1>2. CASE SortByDate(e)
  BY <1>2, OpenTypeOK, RowsAreListed, OrderAssumption DEF SortByDate
<1>3. CASE UpdateRow(e)
  BY <1>3 DEF TypeOK, UpdateRow, rows, uploadVars
<1>4. CASE Commit(e)
  <2>1. rows' = rows /\ place' \in [rows' -> Nat]
    <3>1. ASSUME NEW p \in written[e] PROVE PlaceIn(list[e], p) \in Nat
      BY <1>4, <3>1, ListShape DEF TypeOK, ListInv, Range
    <3> QED
      BY <1>4, <3>1 DEF TypeOK, Commit, rows
  <2>2. overtaken' \subseteq Editors \cup Viewers
    BY <1>4, OvertakeType DEF TypeOK, Commit
  <2>3. Close(e, "applied")
    BY <1>4 DEF Commit
  <2> QED
    BY <1>4, <2>1, <2>2, <2>3, CloseTypeOK DEF TypeOK, Commit
<1>5. CASE Rollback(e) \/ DeadlockVictim(e)
  <2>1. Rollback(e)
    BY <1>5 DEF DeadlockVictim
  <2> QED
    BY <2>1, CloseTypeOK DEF TypeOK, Rollback, rows, uploadVars
<1> QED
  BY <1>1, <1>2, <1>3, <1>4, <1>5 DEF EditorStep, ReorderStep

\* The sort key of a row is a triple of numbers.
LEMMA KeyType ==
    ASSUME TypeOK, NEW p \in rows
    PROVE  Key(p) \in Nat \X Nat \X Nat
<1>1. place[p] \in Nat
  BY DEF TypeOK
<1>2. p \in Photos /\ p \in Nat
  BY OrderAssumption DEF TypeOK
<1>3. created[p] \in Times /\ Times \subseteq Nat
  BY <1>2, OrderAssumption DEF TypeOK, Times
<1> QED
  BY <1>1, <1>2, <1>3 DEF Key

\* Photo pages keep the types.
LEMMA ViewerTypeOK ==
    ASSUME TypeOK, NEW v \in Viewers, ViewerStep(v)
    PROVE  TypeOK'
<1>1. /\ UNCHANGED <<place, created, captured, uploadVars, editVars>>
      /\ overtaken' \subseteq Editors \cup Viewers
  BY DEF TypeOK, ViewerStep, OpenPhoto, ReadKey, ReadPrev, ReadNext, LookupFails, ReaderStays
<1>2. viewer[v] \in Views
  BY DEF TypeOK
<1>3. \E view \in Views : viewer' = [viewer EXCEPT ![v] = view]
  <2>1. CASE OpenPhoto(v)
    <3>1. PICK p \in rows : viewer' = [viewer EXCEPT ![v] = [@ EXCEPT !.step = "page", !.photo = p]]
      BY <2>1 DEF OpenPhoto
    <3>2. [viewer[v] EXCEPT !.step = "page", !.photo = p] \in Views
      BY <1>2 DEF TypeOK, Views
    <3> QED
      BY <3>1, <3>2
  <2>2. CASE ReadKey(v)
    <3> DEFINE p == viewer[v].photo
    <3>1. CASE p \in rows
      <4>1. Key(p) \in Nat \X Nat \X Nat
        BY <3>1, KeyType
      <4>2. [viewer[v] EXCEPT !.step = "key", !.key = Key(p)] \in Views
        BY <1>2, <4>1 DEF Views
      <4> QED
        BY <2>2, <3>1, <4>2 DEF ReadKey
    <3>2. CASE p \notin rows
      <4>1. [viewer[v] EXCEPT !.step = "shown"] \in Views
        BY <1>2 DEF Views
      <4> QED
        BY <2>2, <3>2, <4>1 DEF ReadKey
    <3> QED
      BY <3>1, <3>2
  <2>3. CASE ReadPrev(v)
    <3>1. PICK q \in rows \cup {NoPhoto} :
              viewer' = [viewer EXCEPT ![v] = [@ EXCEPT !.step = "prev", !.prev = q]]
      BY <2>3 DEF ReadPrev
    <3>2. [viewer[v] EXCEPT !.step = "prev", !.prev = q] \in Views
      BY <1>2 DEF TypeOK, Views
    <3> QED
      BY <3>1, <3>2
  <2>4. CASE ReadNext(v)
    <3>1. PICK q \in rows \cup {NoPhoto} :
              viewer' = [viewer EXCEPT ![v] =
                            [@ EXCEPT !.step = "shown", !.next = q, !.key = Idle.key]]
      BY <2>4 DEF ReadNext
    <3>2. [viewer[v] EXCEPT !.step = "shown", !.next = q, !.key = Idle.key] \in Views
      BY <1>2 DEF TypeOK, Views, Idle
    <3> QED
      BY <3>1, <3>2
  <2>5. CASE LookupFails(v)
    <3>1. [Idle EXCEPT !.step = "failed"] \in Views
      BY DEF Views, Idle
    <3> QED
      BY <2>5, <3>1 DEF LookupFails
  <2> QED
    BY <2>1, <2>2, <2>3, <2>4, <2>5 DEF ViewerStep
<1> QED
  BY <1>1, <1>3 DEF TypeOK, rows, uploadVars, editVars

\* No step leaves the types.
LEMMA StepTypeOK == IInv /\ [Next]_vars => TypeOK'
<1> SUFFICES ASSUME IInv, [Next]_vars PROVE TypeOK'
  OBVIOUS
<1>1. CASE \E p \in Photos : PhotoStep(p)
  BY <1>1, PhotoTypeOK DEF IInv
<1>2. CASE \E e \in Editors : EditorStep(e)
  BY <1>2, EditorTypeOK
<1>3. CASE \E v \in Viewers : ViewerStep(v)
  BY <1>3, ViewerTypeOK DEF IInv
<1>4. CASE UNCHANGED vars
  BY <1>4 DEF IInv, TypeOK, vars, rows, uploadVars, editVars
<1> QED
  BY <1>1, <1>2, <1>3, <1>4 DEF Next

-----------------------------------------------------------------------------
(* What a request has updated.                                             *)

\* A step that leaves the requests, the rows and the uploads alone leaves ListInv.
LEMMA ListInvStays ==
    ListInv /\ UNCHANGED <<edit, list, at, written, rows, upload>> => ListInv'
BY DEF ListInv

\* Nor do uploads and deletes disturb it: what is listed had its row before, and
\* what is updated is locked.
LEMMA PhotoListInv ==
    ASSUME IInv, NEW p \in Photos, PhotoStep(p)
    PROVE  ListInv'
<1> USE DEF IInv
<1>1. CASE Draw(p) \/ DrawFails(p)
  <2>1. UNCHANGED <<edit, list, at, written, rows>> /\ upload[p] = "none"
        /\ upload' = [upload EXCEPT ![p] = "drawn"]
    BY <1>1 DEF Draw, DrawFails, rows, editVars
  <2> QED
    BY <2>1 DEF ListInv, TypeOK
<1>2. CASE Create(p)
  <2>1. /\ UNCHANGED <<edit, list, at, written>> /\ upload[p] = "drawn"
        /\ upload' = [upload EXCEPT ![p] = "in"] /\ rows' = rows \cup {p}
    BY <1>2 DEF Create, rows, editVars
  <2>2. ASSUME NEW e \in Editors PROVE \A i \in DOMAIN list[e] : list[e][i] # p
    BY <2>1 DEF ListInv
  <2>3. \A e \in Editors : \A i \in DOMAIN list[e] : upload'[list[e][i]] \in {"in", "gone"}
    BY <2>1, <2>2, ListShape DEF ListInv, TypeOK
  <2> QED
    BY <2>1, <2>2, <2>3 DEF ListInv
<1>3. CASE UpdateProcessed(p)
  BY <1>3, ListInvStays DEF UpdateProcessed, rows, editVars, uploadVars
<1>4. CASE Delete(p)
  <2>1. /\ UNCHANGED <<edit, list, at, written>> /\ Unlocked(p)
        /\ upload' = [upload EXCEPT ![p] = "gone"] /\ rows' = rows \ {p}
    BY <1>4 DEF Delete, rows, editVars, Restrict
  <2>2. \A e \in Editors : \A i \in DOMAIN list[e] : upload'[list[e][i]] \in {"in", "gone"}
    BY <2>1, ListShape DEF ListInv, TypeOK
  <2> QED
    BY <2>1, <2>2 DEF ListInv, Unlocked
<1> QED
  BY <1>1, <1>2, <1>3, <1>4 DEF PhotoStep

\* A request starts with no update and ends with no lock.
LEMMA EditorListInv ==
    ASSUME IInv, NEW e \in Editors, EditorStep(e)
    PROVE  ListInv'
<1> USE DEF IInv
<1>1. CASE ReorderPhotos(e) \/ SortByDate(e)
  <2>1. PICK order \in Orders(rows), how \in {"none", "asc", "desc"} : Open(e, order, how)
    BY <1>1, OrderAssumption DEF ReorderPhotos, SortByDate
  <2>2. \A i \in DOMAIN order : order[i] \in rows
    BY OrderShape
  <2>3. \A i \in DOMAIN order : upload[order[i]] = "in" /\ ~(i < 1)
    <3>1. PICK n \in Nat : DOMAIN order = 1..n
      BY ListShape, RowsAreListed
    <3> QED
      BY <2>2, <3>1 DEF TypeOK
  <2> QED
    BY <2>1, <2>3 DEF ListInv, TypeOK, Open, rows, uploadVars
<1>2. CASE UpdateRow(e)
  <2>1. /\ UNCHANGED <<edit, list, rows, upload>> /\ edit[e] = "open"
        /\ at[e] \in DOMAIN list[e] /\ at' = [at EXCEPT ![e] = @ + 1]
        /\ written' = [written EXCEPT ![e] = @ \cup ({list[e][at[e]]} \cap rows)]
    BY <1>2 DEF UpdateRow, Remaining, rows, uploadVars
  <2>2. written'[e] = {list[e][i] : i \in {i \in DOMAIN list[e] : i < at'[e]}} \cap rows
    <3>1. {i \in DOMAIN list[e] : i < at'[e]}
            = {i \in DOMAIN list[e] : i < at[e]} \cup {at[e]}
      <4>1. PICK n \in Nat : DOMAIN list[e] = 1..n
        BY ListShape DEF TypeOK
      <4> QED
        BY <2>1, <4>1 DEF TypeOK
    <3> QED
      BY <2>1, <3>1 DEF ListInv, TypeOK
  <2> QED
    BY <2>1, <2>2 DEF ListInv, TypeOK
<1>3. CASE Commit(e) \/ Rollback(e) \/ DeadlockVictim(e)
  <2>1. /\ \E how \in {"applied", "refused"} : Close(e, how)
        /\ UNCHANGED <<rows, upload>>
    BY <1>3 DEF Commit, Rollback, DeadlockVictim, rows, uploadVars
  <2> QED
    BY <2>1 DEF ListInv, TypeOK, Close
<1> QED
  BY <1>1, <1>2, <1>3 DEF EditorStep, ReorderStep

\* No step leaves ListInv.
LEMMA StepListInv == IInv /\ [Next]_vars => ListInv'
<1> SUFFICES ASSUME IInv, [Next]_vars PROVE ListInv'
  OBVIOUS
<1>1. CASE \E p \in Photos : PhotoStep(p)
  BY <1>1, PhotoListInv
<1>2. CASE \E e \in Editors : EditorStep(e)
  BY <1>2, EditorListInv
<1>3. CASE (\E v \in Viewers : ViewerStep(v)) \/ UNCHANGED vars
  <2>1. UNCHANGED <<edit, list, at, written, rows, upload>>
    BY <1>3 DEF ViewerStep, OpenPhoto, ReadKey, ReadPrev, ReadNext, LookupFails,
                ReaderStays, vars, rows, uploadVars, editVars
  <2> QED
    BY <2>1, ListInvStays DEF IInv
<1> QED
  BY <1>1, <1>2, <1>3 DEF Next

-----------------------------------------------------------------------------
(* The order of uploads.                                                   *)

\* What is neither drawn, created, deleted nor rearranged stays in order.
LEMMA SeenInvStays ==
    SeenInv /\ UNCHANGED <<place, upload, number, seen>> => SeenInv'
BY DEF SeenInv, rows

\* An upload draws a number above those of the rows it sees, and takes it along.
LEMMA PhotoSeenInv ==
    ASSUME IInv, NEW p \in Photos, PhotoStep(p)
    PROVE  SeenInv'
<1> USE DEF IInv
<1>1. CASE Draw(p)
  <2>1. /\ UNCHANGED <<place, rows>> /\ upload[p] = "none"
        /\ upload' = [upload EXCEPT ![p] = "drawn"]
        /\ seen' = [seen EXCEPT ![p] = rows]
    BY <1>1 DEF Draw, rows
  <2>2. PICK n \in NextPlaces : number' = [number EXCEPT ![p] = n]
    BY <1>1 DEF Draw
  <2>3. \A q \in rows : place[q] < n
    BY <2>2 DEF NextPlaces, TypeOK
  <2>4. \A q \in rows : upload'[q] \in {"in", "gone"}
    BY <2>1 DEF TypeOK
  <2> QED
    BY <2>1, <2>2, <2>3, <2>4 DEF SeenInv, TypeOK
<1>2. CASE DrawFails(p)
  <2>1. /\ UNCHANGED <<place, rows, number, seen>> /\ upload[p] = "none"
        /\ upload' = [upload EXCEPT ![p] = "drawn"]
    BY <1>2 DEF DrawFails, rows
  <2> QED
    BY <2>1 DEF SeenInv, TypeOK
<1>3. CASE Create(p)
  <2>1. /\ UNCHANGED seen /\ upload[p] = "drawn" /\ rows' = rows \cup {p} /\ p \notin rows
        /\ upload' = [upload EXCEPT ![p] = "in"]
        /\ number' = [number EXCEPT ![p] = 0]
        /\ place'[p] = number[p] /\ \A q \in rows : place'[q] = place[q]
    BY <1>3 DEF Create, rows, TypeOK
  <2>2. \A q \in Photos : p \notin seen[q]
    BY <2>1 DEF SeenInv
  <2> QED
    BY <2>1, <2>2 DEF SeenInv, TypeOK
<1>4. CASE UpdateProcessed(p)
  BY <1>4, SeenInvStays DEF UpdateProcessed, uploadVars
<1>5. CASE Delete(p)
  <2>1. /\ UNCHANGED number /\ rows' = rows \ {p} /\ p \in rows
        /\ \A q \in Photos : seen'[q] \subseteq seen[q]
        /\ upload' = [upload EXCEPT ![p] = "gone"]
        /\ \A q \in rows' : place'[q] = place[q]
    BY <1>5 DEF Delete, rows, Restrict
  <2> QED
    BY <2>1 DEF SeenInv, TypeOK
<1> QED
  BY <1>1, <1>2, <1>3, <1>4, <1>5 DEF PhotoStep

\* No step leaves SeenInv.
LEMMA StepSeenInv == IInv /\ [Next]_vars => SeenInv'
<1> SUFFICES ASSUME IInv, [Next]_vars PROVE SeenInv'
  OBVIOUS
<1>1. CASE \E p \in Photos : PhotoStep(p)
  BY <1>1, PhotoSeenInv
<1>2. CASE \E e \in Editors : Commit(e)
  BY <1>2 DEF Commit, SeenInv
<1>3. CASE (\E v \in Viewers : ViewerStep(v)) \/ UNCHANGED vars
           \/ \E e \in Editors : EditorStep(e) /\ ~Commit(e)
  <2>1. UNCHANGED <<place, upload, number, seen>>
    BY <1>3 DEF ViewerStep, OpenPhoto, ReadKey, ReadPrev, ReadNext, LookupFails,
                ReaderStays, EditorStep, ReorderStep, ReorderPhotos, SortByDate, Open,
                UpdateRow, Rollback, DeadlockVictim, vars, uploadVars
  <2> QED
    BY <2>1, SeenInvStays DEF IInv
<1> QED
  BY <1>1, <1>2, <1>3 DEF Next

-----------------------------------------------------------------------------
(* Requests take effect as a whole.                                        *)

\* The gallery starts as an empty arrangement.
LEMMA InitIsWhole == Init => Whole!Init
BY DEF Init, Whole!Init

\* A transaction that commits has updated all its rows that are still there.
LEMMA CommitWritesAll ==
    ASSUME IInv, NEW e \in Editors, Commit(e)
    PROVE  written[e] = Range(list[e]) \cap rows
<1> USE DEF IInv
<1>1. PICK n \in Nat : DOMAIN list[e] = 1..n
  BY ListShape DEF TypeOK
<1>2. \A i \in DOMAIN list[e] : i < at[e]
  BY <1>1 DEF TypeOK, Commit
<1> QED
  BY <1>2 DEF ListInv, Range

\* What a transaction commits is the arrangement its request asks for.
LEMMA CommitApplies ==
    ASSUME IInv, NEW e \in Editors, Commit(e)
    PROVE  Whole!Apply(e)
<1> USE DEF IInv
<1>1. written[e] = Range(list[e]) \cap rows
  BY CommitWritesAll
<1>2. \A p : PlaceIn(list[e], p) = Whole!PlaceIn(list[e], p)
  BY DEF PlaceIn, Whole!PlaceIn
<1>3. place' = Whole!Arranged(list[e])
  BY <1>1, <1>2 DEF Commit, Whole!Arranged, Range, Whole!Range, rows
<1> QED
  BY <1>3 DEF Commit, Close, Whole!Apply

\* Every step arranges as Arrangement allows, or changes nothing there.
LEMMA StepIsWhole ==
    ASSUME IInv, [Next]_vars
    PROVE  [Whole!Next]_(Whole!arrVars)
<1> USE DEF IInv
<1>1. ASSUME NEW e \in Editors, EditorStep(e)
      PROVE  [Whole!Next]_(Whole!arrVars)
  <2>1. CASE ReorderPhotos(e) \/ SortByDate(e)
    <3>1. PICK order \in Orders(rows), how \in {"none", "asc", "desc"} : Open(e, order, how)
      BY <2>1, OrderAssumption DEF ReorderPhotos, SortByDate
    <3>2. rows \in SUBSET Photos /\ order \in Whole!Orders(rows)
      BY DEF TypeOK, Orders, Bijection, Injection, Surjection, IsInjective, Cardinality,
             Whole!Orders, Whole!Bijection, Whole!Injection, Whole!Surjection,
             Whole!IsInjective, Whole!Cardinality, IsFiniteSet, Whole!IsFiniteSet
    <3>3. Whole!Ask(e)
      BY <3>1, <3>2 DEF Open, Whole!Ask
    <3> QED
      BY <3>3 DEF Whole!Next
  <2>2. CASE UpdateRow(e)
    BY <2>2 DEF UpdateRow, Whole!arrVars
  <2>3. CASE Commit(e)
    BY <2>3, CommitApplies DEF Whole!Next
  <2>4. CASE Rollback(e) \/ DeadlockVictim(e)
    BY <2>4 DEF Rollback, DeadlockVictim, Close, Whole!Refuse, Whole!Next
  <2> QED
    BY <1>1, <2>1, <2>2, <2>3, <2>4 DEF EditorStep, ReorderStep
<1>2. ASSUME NEW p \in Photos, PhotoStep(p)
      PROVE  [Whole!Next]_(Whole!arrVars)
  <2>1. CASE Draw(p) \/ DrawFails(p) \/ UpdateProcessed(p)
    BY <2>1 DEF Draw, DrawFails, UpdateProcessed, editVars, Whole!arrVars
  <2>2. CASE Create(p)
    <3>1. p \notin rows /\ number[p] \in Nat /\ place \in [rows -> Nat]
      BY <2>2 DEF Create, TypeOK
    <3>2. Whole!Add(p)
      BY <2>2, <3>1 DEF Create, Whole!Add, editVars, rows
    <3> QED
      BY <3>2 DEF Whole!Next
  <2>3. CASE Delete(p)
    BY <2>3 DEF Delete, Restrict, Whole!Restrict, Whole!Remove, Whole!Next, editVars, rows
  <2> QED
    BY <1>2, <2>1, <2>2, <2>3 DEF PhotoStep
<1>3. CASE (\E v \in Viewers : ViewerStep(v)) \/ UNCHANGED vars
  BY <1>3 DEF ViewerStep, OpenPhoto, ReadKey, ReadPrev, ReadNext, LookupFails,
              ReaderStays, vars, editVars, Whole!arrVars
<1> QED
  BY <1>1, <1>2, <1>3 DEF Next

-----------------------------------------------------------------------------
(* Sorting by date.                                                        *)

\* A sort that nothing was committed behind still lists all the rows there are,
\* in the order it was asked for.
SortInv ==
    \A e \in Editors \ overtaken : direction[e] # "none" =>
        /\ list[e] \in Orders(rows)
        /\ Chronological(list[e], direction[e])

\* What is committed overtakes every other sort that is under way.
LEMMA OvertakenSorts ==
    ASSUME NEW by, Overtake(by), UNCHANGED direction
    PROVE  \A e \in (Editors \ overtaken') \ by : direction'[e] = "none"
BY DEF Overtake

\* A step that changes neither dates nor sorts leaves SortInv.
LEMMA SortInvStays ==
    ASSUME SortInv, UNCHANGED <<place, created, captured, list, direction>>,
           overtaken \cap Editors = overtaken' \cap Editors
    PROVE  SortInv'
BY DEF SortInv, Chronological, When, rows

\* No step leaves SortInv.
LEMMA StepSortInv == IInv /\ SortInv /\ [Next]_vars => SortInv'
<1> SUFFICES ASSUME IInv, SortInv, [Next]_vars PROVE SortInv'
  OBVIOUS
<1>1. ASSUME NEW p \in Photos, PhotoStep(p) PROVE SortInv'
  <2>1. CASE Draw(p) \/ DrawFails(p)
    BY <2>1, SortInvStays DEF Draw, DrawFails, editVars
  <2>2. CASE Create(p) \/ UpdateProcessed(p) \/ Delete(p)
    <3>1. Overtake({}) /\ UNCHANGED direction
      BY <2>2 DEF Create, UpdateProcessed, Delete, editVars
    <3> QED
      BY <3>1, OvertakenSorts DEF SortInv
  <2> QED
    BY <1>1, <2>1, <2>2 DEF PhotoStep
<1>2. ASSUME NEW e \in Editors, EditorStep(e) PROVE SortInv'
  <2>1. CASE ReorderPhotos(e)
    <3>1. PICK order \in Orders(rows) : Open(e, order, "none")
      BY <2>1 DEF ReorderPhotos
    <3>2. direction'[e] = "none"
      BY <3>1 DEF Open, IInv, TypeOK
    <3>3. ASSUME NEW f \in Editors \ {e}
          PROVE  list'[f] = list[f] /\ direction'[f] = direction[f]
      BY <3>1 DEF Open, IInv, TypeOK
    <3>4. UNCHANGED <<place, created, captured, overtaken>>
      BY <3>1 DEF Open
    <3> QED
      BY <3>2, <3>3, <3>4 DEF SortInv, Chronological, When, rows
  <2>2. CASE SortByDate(e)
    <3>1. PICK how \in Directions, order \in Orders(rows) :
              Chronological(order, how) /\ Open(e, order, how)
      BY <2>2 DEF SortByDate
    <3>2. list'[e] = order /\ direction'[e] = how
      BY <3>1 DEF Open, IInv, TypeOK
    <3>3. ASSUME NEW f \in Editors \ {e}
          PROVE  list'[f] = list[f] /\ direction'[f] = direction[f]
      BY <3>1 DEF Open, IInv, TypeOK
    <3>4. UNCHANGED <<place, created, captured, overtaken>>
      BY <3>1 DEF Open
    <3> QED
      BY <3>1, <3>2, <3>3, <3>4 DEF SortInv, Chronological, When, rows
  <2>3. CASE UpdateRow(e)
    BY <2>3, SortInvStays DEF UpdateRow
  <2>4. CASE Commit(e)
    <3>1. direction'[e] = "none" /\ \A f \in Editors \ {e} : direction'[f] = direction[f]
      BY <2>4 DEF Commit, Close, IInv, TypeOK
    <3>2. \A f \in Editors \ {e} : direction[f] # "none" => f \in overtaken'
      BY <2>4 DEF Commit, Overtake
    <3> QED
      BY <3>1, <3>2 DEF SortInv
  <2>5. CASE Rollback(e) \/ DeadlockVictim(e)
    <3>1. Rollback(e)
      BY <2>5 DEF DeadlockVictim
    <3>2. direction'[e] = "none"
      BY <3>1 DEF Rollback, Close, IInv, TypeOK
    <3>3. ASSUME NEW f \in Editors \ {e}
          PROVE  list'[f] = list[f] /\ direction'[f] = direction[f]
      BY <3>1 DEF Rollback, Close, IInv, TypeOK
    <3>4. UNCHANGED <<place, created, captured>> /\ overtaken' = overtaken \ {e}
      BY <3>1 DEF Rollback
    <3> QED
      BY <3>2, <3>3, <3>4 DEF SortInv, Chronological, When, rows
  <2> QED
    BY <1>2, <2>1, <2>2, <2>3, <2>4, <2>5 DEF EditorStep, ReorderStep
<1>3. ASSUME NEW v \in Viewers, ViewerStep(v) PROVE SortInv'
  <2>1. UNCHANGED <<place, created, captured, list, direction>>
        /\ (overtaken' = overtaken \/ overtaken' = overtaken \ {v})
    BY <1>3 DEF ViewerStep, OpenPhoto, ReadKey, ReadPrev, ReadNext, LookupFails,
                ReaderStays, editVars
  <2> QED
    BY <2>1, SortInvStays, OrderAssumption
<1>4. CASE UNCHANGED vars
  BY <1>4, SortInvStays DEF vars
<1> QED
  BY <1>1, <1>2, <1>3, <1>4 DEF Next

\* A commit puts the rows it has all listed in the order of its list.
LEMMA CommitSorts ==
    ASSUME IInv, SortInv, NEW e \in Editors \ overtaken, Commit(e), direction[e] # "none",
           NEW p \in rows, NEW q \in rows, place'[p] < place'[q]
    PROVE  IF direction[e] = "asc" THEN When(p) <= When(q) ELSE When(p) >= When(q)
<1>1. list[e] \in Orders(rows) /\ Chronological(list[e], direction[e])
  BY DEF SortInv
<1>2. DOMAIN list[e] = 1..Cardinality(rows) /\ Range(list[e]) = rows
  BY <1>1, OrderShape
<1>3. written[e] = rows
  BY <1>2, CommitWritesAll DEF IInv
<1>4. ASSUME NEW r \in rows
      PROVE  \E i \in DOMAIN list[e] : list[e][i] = r /\ place'[r] = i - 1
  <2>1. place'[r] = PlaceIn(list[e], r)
    BY <1>3 DEF Commit
  <2>2. \E i \in DOMAIN list[e] : list[e][i] = r
    BY <1>2 DEF Range
  <2> QED
    BY <2>1, <2>2 DEF PlaceIn
<1>5. PICK i \in DOMAIN list[e] : list[e][i] = p /\ place'[p] = i - 1
  BY <1>4
<1>6. PICK j \in DOMAIN list[e] : list[e][j] = q /\ place'[q] = j - 1
  BY <1>4
<1>7. i < j
  BY <1>2, <1>5, <1>6
<1> QED
  BY <1>1, <1>5, <1>6, <1>7 DEF Chronological

-----------------------------------------------------------------------------
(* The arrows of a page.                                                   *)

\* The rows before a row in the order of the keys, and its place among them.
Before(q) == {r \in rows : Less(Key(r), Key(q))}
Rank(q) == Cardinality(Before(q)) + 1

\* What the two queries of Neighbors answer, if p is in the gallery.
IsPrev(q, p) ==
    IF q = NoPhoto THEN \A r \in rows : ~Less(Key(r), Key(p)) ELSE IsLastBelow(q, Key(p))
IsNext(q, p) ==
    IF q = NoPhoto THEN \A r \in rows : ~Less(Key(p), Key(r)) ELSE IsFirstAbove(q, Key(p))

\* How far a page is that nothing was committed behind.
Progress(view) ==
    /\ view.step \in {"page", "key", "prev", "shown"} => view.photo \in rows
    /\ view.step \in {"key", "prev"} => view.key = Key(view.photo)
    /\ view.step \in {"prev", "shown"} => IsPrev(view.prev, view.photo)
    /\ view.step = "shown" => IsNext(view.next, view.photo)

ViewInv == \A v \in Viewers \ overtaken : Progress(viewer[v])

\* Keys of rows are ordered, and no two are alike: they end in the id.
LEMMA KeyOrder ==
    ASSUME TypeOK, NEW p \in rows, NEW q \in rows, NEW r \in rows
    PROVE  /\ ~Less(Key(p), Key(p))
           /\ Less(Key(p), Key(q)) /\ Less(Key(q), Key(r)) => Less(Key(p), Key(r))
           /\ p = q \/ Less(Key(p), Key(q)) \/ Less(Key(q), Key(p))
<1>1. \A s \in rows : place[s] \in Nat /\ created[s] \in Nat /\ s \in Nat
  BY OrderAssumption DEF TypeOK, Times
<1> QED
  BY <1>1 DEF Less, Key

\* A row with a row before it, and none between, has the next rank.
LEMMA NextRank ==
    ASSUME TypeOK, NEW p \in rows, NEW q \in rows, Before(q) = Before(p) \cup {p}
    PROVE  Rank(q) = Rank(p) + 1
<1>1. IsFiniteSet(rows) /\ Before(p) \subseteq rows
  BY FS_Subset, OrderAssumption DEF TypeOK, Before
<1>2. IsFiniteSet(Before(p)) /\ Cardinality(Before(p)) \in Nat
  BY <1>1, FS_Subset, FS_CardinalityType
<1>3. p \notin Before(p)
  BY KeyOrder DEF Before
<1>4. Cardinality(Before(q)) = Cardinality(Before(p)) + 1
  BY <1>2, <1>3, FS_AddElement
<1> QED
  BY <1>2, <1>4 DEF Rank

\* Ranks count from 1 to the number of rows, in the order of the keys.
LEMMA RanksCount ==
    ASSUME TypeOK
    PROVE  /\ IsFiniteSet(rows) /\ Cardinality(rows) \in Nat
           /\ \A q \in rows : Rank(q) \in 1..Cardinality(rows)
           /\ \A p, q \in rows : Less(Key(p), Key(q)) => Rank(p) < Rank(q)
<1>1. IsFiniteSet(rows) /\ Cardinality(rows) \in Nat
  BY FS_Subset, FS_CardinalityType, OrderAssumption DEF TypeOK
<1>2. ASSUME NEW q \in rows
      PROVE  /\ IsFiniteSet(Before(q)) /\ Cardinality(Before(q)) \in Nat
             /\ Cardinality(Before(q)) < Cardinality(rows)
  <2>1. Before(q) \in SUBSET rows
    BY DEF Before
  <2>2. Before(q) # rows
    BY KeyOrder DEF Before
  <2>3. /\ IsFiniteSet(Before(q)) /\ Cardinality(Before(q)) <= Cardinality(rows)
        /\ Cardinality(Before(q)) # Cardinality(rows)
    BY <1>1, <2>1, <2>2, FS_Subset
  <2>4. Cardinality(Before(q)) \in Nat
    BY <2>3, FS_CardinalityType
  <2> QED
    BY <1>1, <2>3, <2>4
<1>3. ASSUME NEW p \in rows, NEW q \in rows, Less(Key(p), Key(q))
      PROVE  Rank(p) < Rank(q)
  <2>1. Before(p) \in SUBSET Before(q)
    BY <1>3, KeyOrder DEF Before
  <2>2. p \in Before(q) /\ p \notin Before(p)
    BY <1>3, KeyOrder DEF Before
  <2>3. Cardinality(Before(p)) <= Cardinality(Before(q))
        /\ Cardinality(Before(p)) # Cardinality(Before(q))
    BY <1>2, <2>1, <2>2, FS_Subset
  <2> QED
    BY <1>2, <2>3 DEF Rank
<1>4. ASSUME NEW q \in rows PROVE Rank(q) \in 1..Cardinality(rows)
  BY <1>1, <1>2 DEF Rank
<1> QED
  BY <1>1, <1>3, <1>4

\* No two rows have a rank, and every rank is a row's.
LEMMA RanksAreTaken ==
    ASSUME TypeOK
    PROVE  /\ \A p, q \in rows : Rank(p) = Rank(q) => p = q
           /\ \A i \in 1..Cardinality(rows) : \E q \in rows : Rank(q) = i
<1> DEFINE N == Cardinality(rows)
           rank == [q \in rows |-> Rank(q)]
<1>1. IsFiniteSet(rows) /\ N \in Nat /\ \A q \in rows : Rank(q) \in 1..N
  BY RanksCount
<1>2. ASSUME NEW p \in rows, NEW q \in rows, Rank(p) = Rank(q) PROVE p = q
  BY <1>1, <1>2, KeyOrder, RanksCount
<1>3. rank \in Injection(rows, 1..N)
  BY <1>1, <1>2 DEF Injection, IsInjective
<1>4. IsFiniteSet(1..N) /\ Cardinality(1..N) = N
  BY <1>1, FS_Interval
<1>5. rank \in Surjection(rows, 1..N)
  <2> HIDE DEF rank
  <2> QED
    BY <1>3, <1>4, FS_Injection
<1>6. ASSUME NEW i \in 1..N PROVE \E q \in rows : Rank(q) = i
  BY <1>5 DEF Surjection
<1> QED
  BY <1>2, <1>6

\* The rows by rank are an order in which the grid may show them.
LEMMA RankedGrid ==
    ASSUME TypeOK
    PROVE  \E g \in GridOrders :
               /\ DOMAIN g = 1..Cardinality(rows)
               /\ \A q \in rows : g[Rank(q)] = q
<1> DEFINE N == Cardinality(rows)
           g == [i \in 1..N |-> CHOOSE q \in rows : Rank(q) = i]
<1>1. \A i \in 1..N : g[i] \in rows /\ Rank(g[i]) = i
  BY RanksAreTaken
<1>2. \A q \in rows : Rank(q) \in 1..N /\ g[Rank(q)] = q
  BY <1>1, RanksCount, RanksAreTaken
<1> HIDE DEF g
<1>3. g \in [1..N -> rows]
  BY <1>1 DEF g
<1>4. g \in Orders(rows)
  BY <1>1, <1>2, <1>3 DEF Orders, Bijection, Injection, Surjection, IsInjective
<1>5. ASSUME NEW i \in 1..N, NEW j \in 1..N, i < j
      PROVE  \/ place[g[i]] < place[g[j]]
             \/ place[g[i]] = place[g[j]] /\ created[g[i]] <= created[g[j]]
  <2>1. ~Less(Key(g[j]), Key(g[i])) /\ g[i] # g[j]
    BY <1>1, <1>5, RanksCount
  <2>2. Less(Key(g[i]), Key(g[j]))
    BY <1>1, <2>1, KeyOrder
  <2>3. \A s \in rows : place[s] \in Nat /\ created[s] \in Nat
    BY OrderAssumption DEF TypeOK, Times
  <2> QED
    BY <1>1, <2>2, <2>3 DEF Less, Key
<1>6. DOMAIN g = 1..N
  BY <1>3
<1>7. g \in GridOrders
  BY <1>4, <1>5, <1>6 DEF GridOrders
<1> QED
  BY <1>2, <1>6, <1>7

\* The row that the first query finds is the one before in the order of the
\* keys, and so the card before in the grid; likewise the second and after.
LEMMA NeighborsRank ==
    ASSUME TypeOK, NEW p \in rows, NEW q \in rows
    PROVE  /\ IsLastBelow(q, Key(p)) => Rank(p) = Rank(q) + 1
           /\ IsFirstAbove(q, Key(p)) => Rank(q) = Rank(p) + 1
<1>1. ASSUME IsLastBelow(q, Key(p)) PROVE Before(p) = Before(q) \cup {q}
  BY <1>1, KeyOrder DEF IsLastBelow, Before
<1>2. ASSUME IsFirstAbove(q, Key(p)) PROVE Before(q) = Before(p) \cup {p}
  <2>1. ASSUME NEW r \in Before(q) PROVE r \in Before(p) \cup {p}
    BY <1>2, <2>1, KeyOrder DEF IsFirstAbove, Before
  <2>2. ASSUME NEW r \in Before(p) \cup {p} PROVE r \in Before(q)
    BY <1>2, <2>2, KeyOrder DEF IsFirstAbove, Before
  <2> QED
    BY <2>1, <2>2
<1> QED
  BY <1>1, <1>2, NextRank

\* Where there is no card before or after, the photo is the first or the last.
LEMMA EndsRank ==
    ASSUME TypeOK, NEW p \in rows
    PROVE  /\ (\A r \in rows : ~Less(Key(r), Key(p))) => Rank(p) = 1
           /\ (\A r \in rows : ~Less(Key(p), Key(r))) => Rank(p) = Cardinality(rows)
<1>1. ASSUME \A r \in rows : ~Less(Key(r), Key(p)) PROVE Rank(p) = 1
  <2>1. Before(p) = {}
    BY <1>1 DEF Before
  <2> QED
    BY <2>1, FS_EmptySet DEF Rank
<1>2. ASSUME \A r \in rows : ~Less(Key(p), Key(r)) PROVE Rank(p) = Cardinality(rows)
  <2>1. rows = Before(p) \cup {p} /\ p \notin Before(p)
    BY <1>2, KeyOrder DEF Before
  <2>2. IsFiniteSet(Before(p))
    BY FS_Subset, RanksCount DEF Before
  <2> QED
    BY <2>1, <2>2, FS_AddElement DEF Rank
<1> QED
  BY <1>1, <1>2

\* A page that ViewInv describes has the arrows of the grid.
LEMMA ViewInvSuffices == TypeOK /\ ViewInv => ArrowsFollowGrid
<1> SUFFICES ASSUME TypeOK, ViewInv, NEW v \in Viewers \ overtaken, viewer[v].step = "shown"
             PROVE  \E g \in GridOrders : \E i \in DOMAIN g :
                        /\ g[i] = viewer[v].photo
                        /\ viewer[v].prev = IF i = 1 THEN NoPhoto ELSE g[i - 1]
                        /\ viewer[v].next = IF i = Cardinality(rows) THEN NoPhoto ELSE g[i + 1]
  BY DEF ArrowsFollowGrid
<1> DEFINE p == viewer[v].photo
           prev == viewer[v].prev
           next == viewer[v].next
<1>1. p \in rows /\ IsPrev(prev, p) /\ IsNext(next, p)
  BY DEF ViewInv, Progress
<1> HIDE DEF p, prev, next
<1>2. PICK g \in GridOrders : DOMAIN g = 1..Cardinality(rows) /\ \A q \in rows : g[Rank(q)] = q
  BY RankedGrid
<1>3. \A q \in rows : Rank(q) \in 1..Cardinality(rows)
  BY RanksCount
<1>4. prev = IF Rank(p) = 1 THEN NoPhoto ELSE g[Rank(p) - 1]
  <2>1. CASE prev = NoPhoto
    BY <1>1, <2>1, EndsRank DEF IsPrev
  <2>2. CASE prev # NoPhoto
    <3>1. prev \in rows /\ Rank(p) = Rank(prev) + 1
      BY <1>1, <2>2, NeighborsRank DEF IsPrev, IsLastBelow
    <3>2. Rank(p) # 1 /\ Rank(p) - 1 = Rank(prev)
      BY <1>3, <3>1
    <3> QED
      BY <1>2, <3>1, <3>2
  <2> QED
    BY <2>1, <2>2
<1>5. next = IF Rank(p) = Cardinality(rows) THEN NoPhoto ELSE g[Rank(p) + 1]
  <2>1. CASE next = NoPhoto
    BY <1>1, <2>1, EndsRank DEF IsNext
  <2>2. CASE next # NoPhoto
    <3>1. next \in rows /\ Rank(next) = Rank(p) + 1
      BY <1>1, <2>2, NeighborsRank DEF IsNext, IsFirstAbove
    <3>2. Rank(p) # Cardinality(rows)
      BY <1>1, <1>3, <3>1, RanksCount
    <3> QED
      BY <1>2, <3>1, <3>2
  <2> QED
    BY <2>1, <2>2
<1> QED
  BY <1>1, <1>2, <1>3, <1>4, <1>5 DEF p, prev, next

\* A step that changes neither the rows nor the pages leaves ViewInv.
LEMMA ViewInvStays ==
    ASSUME ViewInv, UNCHANGED <<place, created, viewer>>,
           overtaken \cap Viewers \subseteq overtaken'
    PROVE  ViewInv'
BY DEF ViewInv, Progress, IsPrev, IsNext, IsLastBelow, IsFirstAbove, Less, Key, rows

\* What is committed overtakes every page that is being read or shown.
LEMMA OvertakenPages ==
    ASSUME NEW by, Overtake(by), by \cap Viewers = {}, UNCHANGED viewer
    PROVE  ViewInv'
<1>1. \A v \in Viewers \ overtaken' : viewer'[v].step \notin {"page", "key", "prev", "shown"}
  BY DEF Overtake
<1> QED
  BY <1>1 DEF ViewInv, Progress

\* A step of a page that leaves it as Progress says leaves ViewInv.
LEMMA PageMoves ==
    ASSUME TypeOK, ViewInv, NEW v \in Viewers, NEW view, viewer' = [viewer EXCEPT ![v] = view],
           UNCHANGED <<place, created, overtaken>>, v \notin overtaken => Progress(view)
    PROVE  ViewInv'
<1> SUFFICES ASSUME NEW w \in Viewers \ overtaken' PROVE Progress(viewer[w])'
  BY DEF ViewInv
<1>1. viewer'[w] = IF w = v THEN view ELSE viewer[w]
  BY DEF TypeOK
<1>2. Progress(viewer'[w])
  BY <1>1 DEF ViewInv
<1> QED
  BY <1>2 DEF Progress, IsPrev, IsNext, IsLastBelow, IsFirstAbove, Less, Key, rows

\* A page takes its three reads as Progress says.
LEMMA ViewerViewInv ==
    ASSUME TypeOK, ViewInv, NEW v \in Viewers, ViewerStep(v)
    PROVE  ViewInv'
<1>1. viewer[v] \in Views /\ (v \notin overtaken => Progress(viewer[v]))
  BY DEF TypeOK, ViewInv
<1>2. CASE OpenPhoto(v)
  <2>1. PICK p \in rows : viewer' = [viewer EXCEPT ![v] = [@ EXCEPT !.step = "page", !.photo = p]]
    BY <1>2 DEF OpenPhoto
  <2> DEFINE view == [viewer[v] EXCEPT !.step = "page", !.photo = p]
  <2>2. Progress(view)
    BY <1>1 DEF Progress, Views
  <2>3. viewer' = [viewer EXCEPT ![v] = view] /\ UNCHANGED <<place, created, overtaken>>
    BY <1>2, <2>1 DEF OpenPhoto, ReaderStays
  <2> HIDE DEF view
  <2> QED
    BY <2>2, <2>3, PageMoves
<1>3. CASE ReadKey(v)
  <2> DEFINE p == viewer[v].photo
             view == [viewer[v] EXCEPT !.step = "key", !.key = Key(p)]
             none == [viewer[v] EXCEPT !.step = "shown"]
  <2>1. UNCHANGED <<place, created, overtaken>>
    BY <1>3 DEF ReadKey, ReaderStays
  <2>2. CASE p \in rows
    <3>1. viewer' = [viewer EXCEPT ![v] = view]
      BY <1>3, <2>2 DEF ReadKey
    <3>2. Progress(view)
      BY <1>1, <2>2 DEF Progress, Views
    <3> HIDE DEF view
    <3> QED
      BY <2>1, <3>1, <3>2, PageMoves
  <2>3. CASE p \notin rows
    <3>1. viewer' = [viewer EXCEPT ![v] = none]
      BY <1>3, <2>3 DEF ReadKey
    <3>2. v \in overtaken
      BY <1>1, <1>3, <2>3 DEF Progress, ReadKey
    <3> HIDE DEF none
    <3> QED
      BY <2>1, <3>1, <3>2, PageMoves
  <2> QED
    BY <2>2, <2>3
<1>4. CASE ReadPrev(v)
  <2>1. PICK q \in rows \cup {NoPhoto} :
            /\ IF q = NoPhoto THEN \A r \in rows : ~Less(Key(r), viewer[v].key)
                              ELSE IsLastBelow(q, viewer[v].key)
            /\ viewer' = [viewer EXCEPT ![v] = [@ EXCEPT !.step = "prev", !.prev = q]]
    BY <1>4 DEF ReadPrev
  <2> DEFINE view == [viewer[v] EXCEPT !.step = "prev", !.prev = q]
  <2>2. ASSUME v \notin overtaken PROVE Progress(view)
    <3>1. viewer[v].photo \in rows /\ viewer[v].key = Key(viewer[v].photo)
      BY <1>1, <1>4, <2>2 DEF ReadPrev, Progress
    <3>2. IsPrev(q, viewer[v].photo)
      BY <2>1, <3>1 DEF IsPrev
    <3>3. view.step = "prev" /\ view.photo = viewer[v].photo /\ view.key = viewer[v].key
          /\ view.prev = q
      BY <1>1 DEF Views
    <3> HIDE DEF view
    <3> QED
      BY <3>1, <3>2, <3>3 DEF Progress
  <2>3. viewer' = [viewer EXCEPT ![v] = view] /\ UNCHANGED <<place, created, overtaken>>
    BY <1>4, <2>1 DEF ReadPrev, ReaderStays
  <2> HIDE DEF view
  <2> QED
    BY <2>2, <2>3, PageMoves
<1>5. CASE ReadNext(v)
  <2>1. PICK q \in rows \cup {NoPhoto} :
            /\ IF q = NoPhoto THEN \A r \in rows : ~Less(viewer[v].key, Key(r))
                              ELSE IsFirstAbove(q, viewer[v].key)
            /\ viewer' = [viewer EXCEPT ![v] =
                              [@ EXCEPT !.step = "shown", !.next = q, !.key = Idle.key]]
    BY <1>5 DEF ReadNext
  <2> DEFINE view == [viewer[v] EXCEPT !.step = "shown", !.next = q, !.key = Idle.key]
  <2>2. ASSUME v \notin overtaken PROVE Progress(view)
    <3>1. /\ viewer[v].photo \in rows /\ viewer[v].key = Key(viewer[v].photo)
          /\ IsPrev(viewer[v].prev, viewer[v].photo)
      BY <1>1, <1>5, <2>2 DEF ReadNext, Progress
    <3>2. IsNext(q, viewer[v].photo)
      BY <2>1, <3>1 DEF IsNext
    <3>3. view.step = "shown" /\ view.photo = viewer[v].photo /\ view.prev = viewer[v].prev
          /\ view.next = q
      BY <1>1 DEF Views
    <3> HIDE DEF view
    <3> QED
      BY <3>1, <3>2, <3>3 DEF Progress
  <2>3. viewer' = [viewer EXCEPT ![v] = view] /\ UNCHANGED <<place, created, overtaken>>
    BY <1>5, <2>1 DEF ReadNext, ReaderStays
  <2> HIDE DEF view
  <2> QED
    BY <2>2, <2>3, PageMoves
<1>6. CASE LookupFails(v)
  <2>1. /\ viewer' = [viewer EXCEPT ![v] = [Idle EXCEPT !.step = "failed"]]
        /\ UNCHANGED <<place, created>> /\ overtaken' = overtaken \ {v}
    BY <1>6 DEF LookupFails
  <2> SUFFICES ASSUME NEW w \in Viewers \ overtaken' PROVE Progress(viewer[w])'
    BY DEF ViewInv
  <2>2. CASE w = v
    <3>1. viewer'[w].step = "failed"
      BY <2>1, <2>2 DEF TypeOK, Idle
    <3> QED
      BY <3>1 DEF Progress
  <2>3. CASE w # v
    <3>1. viewer'[w] = viewer[w] /\ Progress(viewer[w])
      BY <2>1, <2>3 DEF TypeOK, ViewInv
    <3> QED
      BY <2>1, <3>1 DEF Progress, IsPrev, IsNext, IsLastBelow, IsFirstAbove, Less, Key, rows
  <2> QED
    BY <2>2, <2>3
<1> QED
  BY <1>2, <1>3, <1>4, <1>5, <1>6 DEF ViewerStep

\* No step leaves ViewInv.
LEMMA StepViewInv == IInv /\ ViewInv /\ [Next]_vars => ViewInv'
<1> SUFFICES ASSUME IInv, ViewInv, [Next]_vars PROVE ViewInv'
  OBVIOUS
<1>1. ASSUME NEW p \in Photos, PhotoStep(p) PROVE ViewInv'
  <2>1. CASE Draw(p) \/ DrawFails(p)
    BY <2>1, ViewInvStays DEF Draw, DrawFails
  <2>2. CASE Create(p) \/ UpdateProcessed(p) \/ Delete(p)
    <3>1. Overtake({}) /\ UNCHANGED viewer
      BY <2>2 DEF Create, UpdateProcessed, Delete
    <3> QED
      BY <3>1, OvertakenPages
  <2> QED
    BY <1>1, <2>1, <2>2 DEF PhotoStep
<1>2. ASSUME NEW e \in Editors, EditorStep(e) PROVE ViewInv'
  <2>1. CASE Commit(e)
    <3>1. Overtake({e}) /\ UNCHANGED viewer /\ {e} \cap Viewers = {}
      BY <2>1, OrderAssumption DEF Commit
    <3> QED
      BY <3>1, OvertakenPages
  <2>2. CASE ~Commit(e)
    <3>1. UNCHANGED <<place, created, viewer>>
          /\ (overtaken' = overtaken \/ overtaken' = overtaken \ {e})
      BY <1>2, <2>2 DEF EditorStep, ReorderStep, ReorderPhotos, SortByDate, Open, UpdateRow,
                        Rollback, DeadlockVictim
    <3> QED
      BY <3>1, ViewInvStays, OrderAssumption
  <2> QED
    BY <2>1, <2>2
<1>3. ASSUME NEW v \in Viewers, ViewerStep(v) PROVE ViewInv'
  BY <1>3, ViewerViewInv DEF IInv
<1>4. CASE UNCHANGED vars
  BY <1>4, ViewInvStays DEF vars
<1> QED
  BY <1>1, <1>2, <1>3, <1>4 DEF Next

-----------------------------------------------------------------------------
\* The invariant holds in every reachable state.
THEOREM Invariance == Spec => []IInv
<1>1. IInv /\ [Next]_vars => IInv'
  BY StepTypeOK, StepListInv, StepSeenInv DEF IInv
<1> QED
  BY <1>1, InitIInv, PTL DEF Spec

\* Rows, requests and pages keep their types: in particular a number that is
\* drawn is never negative, and a transaction holds locks on rows only.
THEOREM TypeCorrect == Spec => []TypeOK
<1>1. IInv => TypeOK
  BY DEF IInv
<1> QED
  BY <1>1, Invariance, PTL

\* Photos uploaded one after the other are shown one after the other until an
\* editor rearranges the gallery, whatever is deleted meanwhile.
THEOREM UploadOrderTheorem == Spec => []UploadsKeepOrder
<1>1. IInv => UploadsKeepOrder
  BY DEF IInv, TypeOK, SeenInv, UploadsKeepOrder
<1> QED
  BY <1>1, Invariance, PTL

\* Requests to reorder or sort take effect one after the other, each as a whole or
\* not at all, for any number of requests whose lists overlap in any way.
THEOREM ReordersAreWhole == Spec => WholeSpec
<1>1. IInv /\ [Next]_vars => [Whole!Next]_(Whole!arrVars)
  BY StepIsWhole
<1> QED
  BY <1>1, InitIsWhole, Invariance, PTL DEF Spec, WholeSpec, Whole!Spec

\* A sort that nothing was committed behind leaves the gallery in chronological
\* order, either way, undated photos in the place of their upload time.
THEOREM SortTheorem == Spec => SortedByDate
<1>1. Init => SortInv
  BY DEF Init, SortInv
<1>2. IInv /\ SortInv /\ [Next]_vars =>
        [\A e \in Editors \ overtaken :
            (Commit(e) /\ direction[e] # "none") =>
                \A p, q \in rows : place'[p] < place'[q] =>
                    IF direction[e] = "asc" THEN When(p) <= When(q)
                                            ELSE When(p) >= When(q)]_vars
  BY CommitSorts
<1> QED
  BY <1>1, <1>2, StepSortInv, Invariance, PTL DEF Spec, SortedByDate

\* The arrows of a photo whose lookup nothing was committed behind lead to the
\* cards on either side of it, in one of the orders in which the grid may show
\* the gallery: for any photos, also among equal numbers and times.
THEOREM ArrowsTheorem == Spec => []ArrowsFollowGrid
<1>1. Init => ViewInv
  BY DEF Init, ViewInv, Progress, Idle
<1>2. IInv /\ ViewInv => ArrowsFollowGrid
  BY ViewInvSuffices DEF IInv
<1> QED
  BY <1>1, <1>2, StepViewInv, Invariance, PTL DEF Spec
=============================================================================
