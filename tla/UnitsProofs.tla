----------------------------- MODULE UnitsProofs -----------------------------
(***************************************************************************)
(* Proofs about the parts that stand alone: the slugs of new galleries,    *)
(* the types of uploads, and the scans of JPEGs and videos, for titles,    *)
(* files and TIFF data of any length, any lengths of slugs, and any bytes. *)
(***************************************************************************)
EXTENDS Slug, MediaTypes, JpegMeta, VideoMeta, SequenceTheorems, FiniteSetTheorems, TLAPS

-----------------------------------------------------------------------------
(* Finite sets of numbers.                                                 *)

\* How many members of P there are up to p.
Rank(P, p) == Cardinality({q \in P : q <= p})

\* Ranks count from 1 to the number of members, upwards.
LEMMA RanksAscend ==
    ASSUME NEW n \in Nat, NEW P \in SUBSET (1..n)
    PROVE  /\ IsFiniteSet(P) /\ Cardinality(P) \in Nat /\ Cardinality(P) <= n
           /\ \A p \in P : Rank(P, p) \in 1..Cardinality(P)
           /\ \A p, q \in P : p < q => Rank(P, p) < Rank(P, q)
<1> DEFINE Upto(p) == {q \in P : q <= p}
<1>1. IsFiniteSet(1..n) /\ Cardinality(1..n) = n
  BY FS_Interval
<1>2. IsFiniteSet(P) /\ Cardinality(P) \in Nat /\ Cardinality(P) <= n
  BY <1>1, FS_Subset, FS_CardinalityType
<1>3. ASSUME NEW p \in P
      PROVE  /\ IsFiniteSet(Upto(p)) /\ Cardinality(Upto(p)) \in Nat
             /\ Cardinality(Upto(p)) <= Cardinality(P) /\ Cardinality(Upto(p)) # 0
  <2>1. Upto(p) \in SUBSET P /\ p \in Upto(p)
    OBVIOUS
  <2>2. IsFiniteSet(Upto(p)) /\ Cardinality(Upto(p)) <= Cardinality(P)
    BY <1>2, <2>1, FS_Subset
  <2>3. Cardinality(Upto(p)) \in Nat /\ Cardinality(Upto(p)) # 0
    BY <2>1, <2>2, FS_CardinalityType, FS_EmptySet
  <2> QED
    BY <2>2, <2>3
<1>4. ASSUME NEW p \in P, NEW q \in P, p < q PROVE Cardinality(Upto(p)) < Cardinality(Upto(q))
  <2>1. Upto(p) \in SUBSET Upto(q)
    <3>1. \A x \in P : x \in Int
      OBVIOUS
    <3>2. \A x \in P : x <= p => x <= q
      BY <1>4, <3>1
    <3> QED
      BY <3>2
  <2>2. q \in Upto(q) /\ q \notin Upto(p)
    <3>1. p \in Int /\ q \in Int
      OBVIOUS
    <3> QED
      BY <1>4, <3>1
  <2>3. /\ Cardinality(Upto(p)) <= Cardinality(Upto(q))
        /\ Cardinality(Upto(p)) # Cardinality(Upto(q))
    BY <1>3, <2>1, <2>2, FS_Subset
  <2> QED
    BY <1>3, <2>3
<1> QED
  BY <1>2, <1>3, <1>4 DEF Rank

\* Every rank is that of one member.
LEMMA RanksAreTaken ==
    ASSUME NEW n \in Nat, NEW P \in SUBSET (1..n)
    PROVE  /\ \A p, q \in P : Rank(P, p) = Rank(P, q) => p = q
           /\ \A k \in 1..Cardinality(P) : \E p \in P : Rank(P, p) = k
<1> DEFINE N == Cardinality(P)
           rank == [p \in P |-> Rank(P, p)]
<1>1. IsFiniteSet(P) /\ N \in Nat /\ \A p \in P : Rank(P, p) \in 1..N
  BY RanksAscend
<1>2. ASSUME NEW p \in P, NEW q \in P, Rank(P, p) = Rank(P, q) PROVE p = q
  <2>1. p < q \/ q < p \/ p = q
    OBVIOUS
  <2>2. \A x, y \in P : x < y => Rank(P, x) < Rank(P, y)
    BY RanksAscend
  <2>3. Rank(P, p) \in 1..N /\ ~(Rank(P, p) < Rank(P, p))
    BY <1>1
  <2>4. ~(p < q) /\ ~(q < p)
    BY <1>2, <2>2, <2>3
  <2> QED
    BY <2>1, <2>4
<1>3. rank \in Injection(P, 1..N)
  BY <1>1, <1>2 DEF Injection, IsInjective
<1>4. IsFiniteSet(1..N) /\ Cardinality(1..N) = N
  BY <1>1, FS_Interval
<1>5. rank \in Surjection(P, 1..N)
  <2> HIDE DEF rank
  <2> QED
    BY <1>1, <1>3, <1>4, FS_Injection
<1>6. ASSUME NEW k \in 1..N PROVE \E p \in P : Rank(P, p) = k
  BY <1>5 DEF Surjection
<1> QED
  BY <1>2, <1>6

\* A set that is not empty has a least and a greatest member.
LEMMA LeastAndGreatest ==
    ASSUME NEW n \in Nat, NEW P \in SUBSET (1..n), P # {}
    PROVE  /\ Min(P) \in P /\ \A p \in P : Min(P) <= p
           /\ Max(P) \in P /\ \A p \in P : p <= Max(P)
<1> DEFINE N == Cardinality(P)
<1>1. N \in Nat /\ 1 \in 1..N /\ N \in 1..N
  <2>1. PICK p \in P : TRUE
    OBVIOUS
  <2>2. N \in Nat /\ Rank(P, p) \in 1..N
    BY <2>1, RanksAscend
  <2> QED
    BY <2>2
<1>2. PICK l \in P : Rank(P, l) = 1
  BY <1>1, RanksAreTaken
<1>3. PICK g \in P : Rank(P, g) = N
  BY <1>1, RanksAreTaken
<1>4. \A p \in P : l <= p /\ p <= g
  <2>1. \A p \in P : Rank(P, p) \in 1..N
    BY RanksAscend
  <2>2. \A p, q \in P : p < q => Rank(P, p) < Rank(P, q)
    BY RanksAscend
  <2>3. ASSUME NEW p \in P PROVE ~(p < l) /\ ~(g < p)
    <3>1. Rank(P, p) \in 1..N /\ N \in Nat
      BY <1>1, <2>1
    <3>2. ~(Rank(P, p) < Rank(P, l)) /\ ~(Rank(P, g) < Rank(P, p))
      BY <1>2, <1>3, <3>1
    <3> QED
      BY <2>2, <3>2
  <2> QED
    BY <2>3
<1> QED
  BY <1>2, <1>3, <1>4 DEF Min, Max

-----------------------------------------------------------------------------
(* The types of uploads.                                                   *)

\* Every type is stored under an extension that stands for it again.
LEMMA ExtensionsStandForTypes ==
    ASSUME NEW t \in Allowed
    PROVE  /\ t \notin {NoType, Octets, "application/zip"} /\ Extension(t) # NoExt
           /\ Extension(MIMEFromExtension(Extension(t))) = Extension(t)
BY DEF Allowed, Extension, MIMEFromExtension, NoExt, NoType, Octets

\* What is known of a file that may be uploaded.
LEMMA FileTells ==
    ASSUME NEW f \in Files
    PROVE  /\ f.type \in Allowed
           /\ f.sniffed \in {f.type, Octets}
           /\ \/ f.declared \in {NoType, Octets}
              \/ f.declared \in Allowed /\ Extension(f.declared) = Extension(f.type)
           /\ \/ MIMEFromExtension(f.ext) = f.type
              \/ f.ext = NoExt /\ f.sniffed = f.type /\ f.declared = f.type
BY DEF Files, Sniffs, Declares

\* processPart finds the file's type.
LEMMA BytesTell ==
    ASSUME NEW f \in Files
    PROVE  TypeOf(f.sniffed, {Octets, "application/zip"}, f.ext) = f.type
<1>1. /\ f.type \in Allowed /\ f.type \notin {NoType, Octets, "application/zip"}
      /\ MIMEFromExtension(NoExt) = NoType
  BY FileTells, ExtensionsStandForTypes DEF MIMEFromExtension, NoExt
<1>2. /\ f.sniffed \in {f.type, Octets}
      /\ MIMEFromExtension(f.ext) = f.type \/ f.sniffed = f.type
  BY FileTells
<1>3. CASE f.sniffed = Octets
  BY <1>1, <1>2, <1>3 DEF TypeOf
<1>4. CASE f.sniffed = f.type
  BY <1>1, <1>4 DEF TypeOf
<1> QED
  BY <1>2, <1>3, <1>4

\* preCreate finds a type with the extension of the file's.
LEMMA DeclarationTells ==
    ASSUME NEW f \in Files
    PROVE  LET t == TypeOf(f.declared, {NoType, Octets}, f.ext) IN
           t \in Allowed /\ Extension(t) = Extension(f.type)
<1>1. /\ f.type \in Allowed /\ f.type \notin {NoType, Octets}
      /\ MIMEFromExtension(NoExt) = NoType
  BY FileTells, ExtensionsStandForTypes DEF MIMEFromExtension, NoExt
<1>2. f.declared \in Allowed => f.declared \notin {NoType, Octets}
  BY ExtensionsStandForTypes
<1> QED
  BY <1>1, <1>2, FileTells DEF TypeOf

\* A path has not ended or has stored the file as one of its type.
Agrees(x) ==
    \/ x = Pending
    \/ /\ x.type \in Allowed
       /\ Extension(x.type) = Extension(file.type)
       /\ Extension(MIMEFromExtension(x.ext)) = Extension(file.type)

\* Nothing is known before there is a file; then preCreate finds what it must.
TypesInv ==
    /\ file = NoFile => filetype = NoType /\ byForm = Pending /\ byTus = Pending
    /\ file # NoFile => file \in Files
    /\ filetype # NoType => filetype \in Allowed /\ Extension(filetype) = Extension(file.type)
    /\ Agrees(byForm) /\ Agrees(byTus)

\* Each step of an upload keeps it.
LEMMA TypesStep == TypesInv /\ [TypesNext]_types => TypesInv'
<1> SUFFICES ASSUME TypesInv, [TypesNext]_types PROVE TypesInv'
  OBVIOUS
<1>1. CASE Choose
  BY <1>1 DEF TypesInv, Choose, Agrees, Pending
<1>2. CASE processPart
  <2>1. file \in Files /\ TypeOf(file.sniffed, {Octets, "application/zip"}, file.ext) = file.type
    BY <1>2, BytesTell DEF TypesInv, processPart
  <2>2. file.type \in Allowed
    BY <2>1, FileTells
  <2>3. byForm' = [type |-> file.type, ext |-> Extension(file.type)]
    BY <1>2, <2>1, <2>2 DEF processPart
  <2>4. Agrees(byForm)'
    BY <1>2, <2>2, <2>3, ExtensionsStandForTypes DEF Agrees, processPart
  <2> QED
    BY <1>2, <2>4 DEF TypesInv, processPart, Agrees
<1>3. CASE preCreate
  <2> DEFINE t == TypeOf(file.declared, {NoType, Octets}, file.ext)
  <2>1. file \in Files /\ t \in Allowed /\ Extension(t) = Extension(file.type)
    BY <1>3, DeclarationTells DEF TypesInv, preCreate
  <2>2. filetype' = t /\ UNCHANGED <<file, byForm, byTus>> /\ file # NoFile
    BY <1>3, <2>1 DEF preCreate
  <2> HIDE DEF t
  <2> QED
    BY <2>1, <2>2 DEF TypesInv, Agrees
<1>4. CASE finishUpload
  <2>1. /\ filetype \in Allowed /\ Extension(filetype) = Extension(file.type)
        /\ file \in Files /\ file # NoFile
    BY <1>4 DEF TypesInv, finishUpload
  <2> DEFINE e == IF file.ext = NoExt THEN Extension(filetype) ELSE file.ext
  <2>2. Extension(MIMEFromExtension(e)) = Extension(file.type)
    BY <2>1, FileTells, ExtensionsStandForTypes
  <2>3. byTus' = [type |-> filetype, ext |-> e] /\ UNCHANGED <<file, filetype, byForm>>
    BY <1>4, <2>1 DEF finishUpload
  <2> HIDE DEF e
  <2>4. Agrees(byTus)'
    BY <2>1, <2>2, <2>3 DEF Agrees
  <2> QED
    BY <2>1, <2>3, <2>4 DEF TypesInv, Agrees
<1>5. CASE UNCHANGED types
  BY <1>5 DEF TypesInv, types, Agrees
<1> QED
  BY <1>1, <1>2, <1>3, <1>4, <1>5 DEF TypesNext

\* A file whose extension, bytes and declared type agree is taken both ways and
\* stored under an extension of its type.  Nothing is said of files on which the
\* three disagree, nor of OGG and AVI: they are not among Files.
THEOREM TypesTheorem == TypesSpec => []PathsAgree
<1>1. TypesInit => TypesInv
  BY DEF TypesInit, TypesInv, Agrees
<1>2. TypesInv => PathsAgree
  BY DEF TypesInv, Agrees, PathsAgree
<1> QED
  BY <1>1, <1>2, TypesStep, PTL DEF TypesSpec

-----------------------------------------------------------------------------
(* Slugs.                                                                  *)

Marks == {"a", "-"}

\* Which place in s the character n of At(s, P) comes from.
PlaceIn(P, n) == CHOOSE p \in P : Rank(P, p) = n

\* The characters at the places in P are taken in their order, and none of
\* them lies between two that are taken one after the other.
LEMMA PlacesFollow ==
    ASSUME NEW l \in Nat, NEW P \in SUBSET (1..l)
    PROVE  /\ \A n \in 1..Cardinality(P) : PlaceIn(P, n) \in P
           /\ \A n \in 1..(Cardinality(P) - 1) :
                 /\ PlaceIn(P, n) < PlaceIn(P, n + 1)
                 /\ \A q \in P : ~(PlaceIn(P, n) < q /\ q < PlaceIn(P, n + 1))
<1> DEFINE N == Cardinality(P)
<1>1. /\ N \in Nat /\ \A p \in P : Rank(P, p) \in 1..N
      /\ \A p, q \in P : p < q => Rank(P, p) < Rank(P, q)
  BY RanksAscend
<1>2. \A n \in 1..N : PlaceIn(P, n) \in P /\ Rank(P, PlaceIn(P, n)) = n
  <2>1. \A n \in 1..N : \E p \in P : Rank(P, p) = n
    BY RanksAreTaken
  <2> QED
    BY <2>1 DEF PlaceIn
<1>3. ASSUME NEW n \in 1..(N - 1)
      PROVE  /\ PlaceIn(P, n) < PlaceIn(P, n + 1)
             /\ \A q \in P : ~(PlaceIn(P, n) < q /\ q < PlaceIn(P, n + 1))
  <2> DEFINE p == PlaceIn(P, n)
             r == PlaceIn(P, n + 1)
  <2>1. n \in 1..N /\ n + 1 \in 1..N
    BY <1>1
  <2>2. p \in P /\ r \in P /\ Rank(P, p) = n /\ Rank(P, r) = n + 1
    BY <1>2, <2>1
  <2> HIDE DEF p, r
  <2>3. ~(r < p) /\ r # p
    BY <1>1, <2>1, <2>2
  <2>4. p \in Int /\ r \in Int
    BY <2>2
  <2>5. ASSUME NEW q \in P, p < q, q < r PROVE FALSE
    <3>1. Rank(P, p) < Rank(P, q) /\ Rank(P, q) < Rank(P, r) /\ Rank(P, q) \in 1..N
      BY <1>1, <2>2, <2>5
    <3> QED
      BY <1>1, <2>1, <2>2, <3>1
  <2>6. p < r
    BY <2>3, <2>4
  <2> QED
    BY <2>5, <2>6 DEF p, r
<1> QED
  BY <1>2, <1>3

\* What At takes of s.
LEMMA AtTakes ==
    ASSUME NEW S, NEW s \in Seq(S), NEW P \in SUBSET (1..Len(s))
    PROVE  /\ At(s, P) \in Seq(S) /\ Len(At(s, P)) = Cardinality(P) /\ Cardinality(P) \in Nat
           /\ \A n \in 1..Cardinality(P) : PlaceIn(P, n) \in P /\ At(s, P)[n] = s[PlaceIn(P, n)]
<1> DEFINE N == Cardinality(P)
<1>1. Len(s) \in Nat /\ \A k \in 1..Len(s) : s[k] \in S
  BY LenProperties, ElementOfSeq
<1>2. N \in Nat /\ \A n \in 1..N : PlaceIn(P, n) \in P
  BY <1>1, RanksAscend, PlacesFollow
<1>3. At(s, P) = [n \in 1..N |-> s[PlaceIn(P, n)]]
  BY DEF At, PlaceIn, Rank
<1>4. \A n \in 1..N : s[PlaceIn(P, n)] \in S
  BY <1>1, <1>2
<1> HIDE DEF N
<1>5. At(s, P) \in Seq(S) /\ Len(At(s, P)) = N
  BY <1>2, <1>3, <1>4
<1> QED
  BY <1>2, <1>3, <1>5 DEF N

\* No dash follows a dash.
SingleDashes(s) == \A n \in 1..(Len(s) - 1) : s[n] = "a" \/ s[n + 1] = "a"

\* Words of letters with a dash between them: what isValidSlug asks for, but
\* for the length.
Wordy(s) ==
    /\ s \in Seq(Marks) /\ Len(s) > 0
    /\ s[1] = "a" /\ s[Len(s)] = "a" /\ SingleDashes(s)

\* What is dropped leaves letters and dashes.
LEMMA KeptMarks ==
    ASSUME NEW s \in Seq(Characters)
    PROVE  Kept(s) \in Seq(Marks)
<1> DEFINE P == {n \in DOMAIN s : s[n] \in {"a", "-"}}
           k == At(s, P)
<1>1. P \in SUBSET (1..Len(s)) /\ \A p \in P : s[p] \in Marks
  BY LenProperties DEF Marks
<1> HIDE DEF P
<1>2. /\ k \in Seq(Characters) /\ Len(k) \in Nat
      /\ \A n \in 1..Len(k) : k[n] \in Marks
  <2>1. /\ k \in Seq(Characters) /\ Len(k) = Cardinality(P) /\ Cardinality(P) \in Nat
        /\ \A n \in 1..Cardinality(P) : PlaceIn(P, n) \in P /\ k[n] = s[PlaceIn(P, n)]
    BY <1>1, AtTakes
  <2> HIDE DEF k
  <2> QED
    BY <1>1, <2>1
<1>3. k \in [1..Len(k) -> Characters]
  BY <1>2, LenProperties
<1> HIDE DEF k
<1>4. k \in [1..Len(k) -> Marks]
  BY <1>2, <1>3
<1>5. k \in Seq(Marks)
  BY <1>2, <1>4
<1> QED
  BY <1>5 DEF k, P, Kept

\* Of a run of dashes one is left.
LEMMA CollapsedDashes ==
    ASSUME NEW s \in Seq(Marks)
    PROVE  Collapsed(s) \in Seq(Marks) /\ SingleDashes(Collapsed(s))
<1> DEFINE P == {n \in DOMAIN s : s[n] = "-" /\ n > 1 => s[n - 1] # "-"}
           c == At(s, P)
           N == Cardinality(P)
<1>1. DOMAIN s = 1..Len(s) /\ Len(s) \in Nat /\ \A n \in 1..Len(s) : s[n] \in Marks
  BY LenProperties, ElementOfSeq
<1>2. /\ P \in SUBSET (1..Len(s))
      /\ \A p \in 1..Len(s) : p \in P <=> (s[p] = "-" /\ p > 1 => s[p - 1] # "-")
  BY <1>1
<1> HIDE DEF P
<1>3. /\ c \in Seq(Marks) /\ Len(c) = N /\ N \in Nat
      /\ \A n \in 1..N : PlaceIn(P, n) \in P /\ c[n] = s[PlaceIn(P, n)]
  BY <1>2, AtTakes
<1> HIDE DEF c
<1>4. ASSUME NEW n \in 1..(Len(c) - 1), c[n] # "a", c[n + 1] # "a" PROVE FALSE
  <2> DEFINE p == PlaceIn(P, n)
             r == PlaceIn(P, n + 1)
  <2>1. n \in 1..(N - 1) /\ n \in 1..N /\ n + 1 \in 1..N
    BY <1>3
  <2>2. /\ p \in P /\ r \in P /\ p < r /\ c[n] = s[p] /\ c[n + 1] = s[r]
        /\ \A q \in P : ~(p < q /\ q < r)
    BY <1>1, <1>2, <1>3, <2>1, PlacesFollow
  <2> HIDE DEF p, r
  <2>3. /\ p \in 1..Len(s) /\ r \in 1..Len(s) /\ r > 1 /\ r - 1 \in 1..Len(s)
        /\ p <= r - 1 /\ r - 1 < r
    BY <1>1, <1>2, <2>2
  <2>4. s[p] = "-" /\ s[r] = "-"
    BY <1>1, <1>4, <2>2, <2>3 DEF Marks
  <2>5. s[r - 1] # "-"
    BY <1>2, <2>2, <2>3, <2>4
  <2>6. r - 1 \in P /\ p # r - 1
    BY <1>2, <2>3, <2>4, <2>5
  <2>7. p < r - 1
    BY <1>1, <2>3, <2>6
  <2> QED
    BY <2>2, <2>3, <2>6, <2>7
<1>5. c \in Seq(Marks) /\ SingleDashes(c)
  BY <1>3, <1>4 DEF SingleDashes
<1> QED
  BY <1>5 DEF c, P, Collapsed

\* A part of letters and dashes is one.
LEMMA PartKeepsDashes ==
    ASSUME NEW s \in Seq(Marks), SingleDashes(s), NEW b \in 1..Len(s), NEW e \in b..Len(s)
    PROVE  /\ SubSeq(s, b, e) \in Seq(Marks) /\ Len(SubSeq(s, b, e)) = e - b + 1
           /\ SubSeq(s, b, e)[1] = s[b] /\ SubSeq(s, b, e)[e - b + 1] = s[e]
           /\ SingleDashes(SubSeq(s, b, e))
<1> DEFINE c == SubSeq(s, b, e)
<1>1. Len(s) \in Nat /\ \A n \in 1..Len(s) : s[n] \in Marks
  BY LenProperties, ElementOfSeq
<1>2. b \in Int /\ e \in Int /\ b <= e /\ \A n \in b..e : s[n] \in Marks
  BY <1>1
<1>3. c \in Seq(Marks) /\ Len(c) = e - b + 1 /\ \A n \in 1..(e - b + 1) : c[n] = s[b + n - 1]
  BY <1>2, SubSeqProperties
<1> HIDE DEF c
<1>4. c[1] = s[b] /\ c[e - b + 1] = s[e]
  <2>1. /\ 1 \in 1..(e - b + 1) /\ e - b + 1 \in 1..(e - b + 1)
        /\ b + 1 - 1 = b /\ b + (e - b + 1) - 1 = e
    BY <1>2
  <2>2. c[1] = s[b + 1 - 1] /\ c[e - b + 1] = s[b + (e - b + 1) - 1]
    BY <1>3, <2>1
  <2> QED
    BY <2>1, <2>2
<1>5. ASSUME NEW n \in 1..(Len(c) - 1) PROVE c[n] = "a" \/ c[n + 1] = "a"
  <2> DEFINE m == b + n - 1
  <2>1. /\ n \in 1..(e - b + 1) /\ n + 1 \in 1..(e - b + 1)
        /\ m \in 1..(Len(s) - 1) /\ m + 1 = b + (n + 1) - 1
    BY <1>1, <1>2, <1>3
  <2>2. c[n] = s[m] /\ c[n + 1] = s[m + 1]
    BY <1>3, <2>1
  <2> HIDE DEF m
  <2> QED
    BY <2>1, <2>2 DEF SingleDashes
<1> QED
  BY <1>3, <1>4, <1>5 DEF SingleDashes, c

\* What is trimmed is empty or begins and ends with a letter.
LEMMA TrimmedWords ==
    ASSUME NEW s \in Seq(Marks), SingleDashes(s)
    PROVE  Trimmed(s) = <<>> \/ Wordy(Trimmed(s))
<1> DEFINE inner == {n \in DOMAIN s : s[n] # "-"}
           b == Min(inner)
           e == Max(inner)
<1>1. DOMAIN s = 1..Len(s) /\ Len(s) \in Nat /\ \A n \in 1..Len(s) : s[n] \in Marks
  BY LenProperties, ElementOfSeq
<1>2. inner \in SUBSET (1..Len(s)) /\ \A n \in inner : s[n] = "a"
  BY <1>1 DEF Marks
<1>3. CASE inner = {}
  BY <1>3 DEF Trimmed
<1>4. CASE inner # {}
  <2>1. Trimmed(s) = SubSeq(s, b, e)
    BY <1>4 DEF Trimmed
  <2> HIDE DEF inner
  <2>2. b \in inner /\ e \in inner /\ \A p \in inner : b <= p
    BY <1>1, <1>2, <1>4, LeastAndGreatest
  <2> HIDE DEF b, e
  <2>3. b \in 1..Len(s) /\ e \in b..Len(s) /\ s[b] = "a" /\ s[e] = "a"
    BY <1>1, <1>2, <2>2
  <2> DEFINE c == SubSeq(s, b, e)
  <2>4. /\ c \in Seq(Marks) /\ Len(c) = e - b + 1 /\ SingleDashes(c)
        /\ c[1] = "a" /\ c[e - b + 1] = "a"
    BY <2>3, PartKeepsDashes
  <2> HIDE DEF c
  <2>5. Len(c) > 0
    BY <2>3, <2>4
  <2>6. Wordy(c)
    BY <2>4, <2>5 DEF Wordy
  <2> QED
    BY <2>1, <2>6 DEF c
<1> QED
  BY <1>3, <1>4

\* What a slug is, whatever the title: it may only end in a dash, and does if
\* the cut comes behind one.
SlugLike(s) ==
    /\ s \in Seq(Marks) /\ Len(s) > 0
    /\ Len(s) <= MaxCut \/ Len(s) = 7
    /\ s[1] = "a" /\ SingleDashes(s)

\* Letters alone are a word.
LEMMA LettersAreWordy ==
    ASSUME NEW n \in Nat \ {0}
    PROVE  Wordy(Letters(n)) /\ Len(Letters(n)) = n
<1> DEFINE l == Letters(n)
<1>1. l \in Seq(Marks) /\ Len(l) = n /\ \A k \in 1..n : l[k] = "a"
  BY DEF Letters, Marks
<1> HIDE DEF l
<1>2. SingleDashes(l)
  BY <1>1 DEF SingleDashes
<1>3. Wordy(l)
  BY <1>1, <1>2 DEF Wordy
<1> QED
  BY <1>1, <1>3 DEF l

\* Slugify, for any title.
LEMMA SlugifyMakesSlugs ==
    ASSUME NEW t \in Seq(Characters)
    PROVE  SlugLike(Slugify(t))
<1> DEFINE low == Lower(t)
           kept == Kept(low)
           coll == Collapsed(kept)
           trim == Trimmed(coll)
           cut == Cut(trim)
<1>1. low \in Seq(Characters)
  <2>1. DOMAIN t = 1..Len(t) /\ Len(t) \in Nat /\ \A n \in 1..Len(t) : t[n] \in Characters
    BY LenProperties, ElementOfSeq
  <2>2. low = [n \in 1..Len(t) |->
            CASE t[n] = "A" -> "a" [] t[n] = " " -> "-" [] OTHER -> t[n]]
    BY <2>1 DEF Lower
  <2> HIDE DEF low
  <2>3. \A n \in 1..Len(t) : low[n] \in Characters
    BY <2>1, <2>2 DEF Characters
  <2>4. low \in [1..Len(t) -> Characters]
    BY <2>2, <2>3
  <2> QED
    BY <2>1, <2>4
<1> HIDE DEF low
<1>2. kept \in Seq(Marks)
  BY <1>1, KeptMarks
<1> HIDE DEF kept
<1>3. coll \in Seq(Marks) /\ SingleDashes(coll)
  BY <1>2, CollapsedDashes
<1> HIDE DEF coll
<1>4. trim = <<>> \/ Wordy(trim)
  BY <1>3, TrimmedWords
<1> HIDE DEF trim
<1>5. MaxCut \in Nat /\ MaxCut > 0
  BY SlugAssumption
<1>6. cut = <<>> \/ SlugLike(cut)
  <2>1. CASE trim = <<>>
    <3>1. Len(<<>>) = 0
      OBVIOUS
    <3> QED
      BY <1>5, <2>1, <3>1 DEF Cut
  <2>2. CASE Wordy(trim)
    <3>1. /\ trim \in Seq(Marks) /\ Len(trim) \in Nat /\ Len(trim) > 0
          /\ trim[1] = "a" /\ SingleDashes(trim)
      BY <2>2, LenProperties DEF Wordy
    <3>2. CASE Len(trim) <= MaxCut
      <4>1. cut = trim
        BY <1>5, <3>1, <3>2 DEF Cut
      <4> QED
        BY <3>1, <3>2, <4>1 DEF SlugLike
    <3>3. CASE Len(trim) > MaxCut
      <4>1. 1 \in 1..Len(trim) /\ MaxCut \in 1..Len(trim) /\ MaxCut - 1 + 1 = MaxCut
        BY <1>5, <3>1, <3>3
      <4>2. cut = SubSeq(trim, 1, MaxCut)
        BY <3>3 DEF Cut
      <4>3. /\ cut \in Seq(Marks) /\ Len(cut) = MaxCut
            /\ cut[1] = "a" /\ SingleDashes(cut)
        BY <3>1, <4>1, <4>2, PartKeepsDashes
      <4> HIDE DEF cut
      <4> QED
        BY <1>5, <4>3 DEF SlugLike
    <3> QED
      BY <1>5, <3>1, <3>2, <3>3
  <2> QED
    BY <1>4, <2>1, <2>2
<1>7. SlugLike(Letters(7))
  <2>1. Wordy(Letters(7)) /\ Len(Letters(7)) = 7
    BY 7 \in Nat \ {0}, LettersAreWordy
  <2> QED
    BY <2>1 DEF SlugLike, Wordy
<1>8. Slugify(t) = IF cut = <<>> THEN Letters(7) ELSE cut
  BY DEF Slugify, cut, trim, coll, kept, low
<1> HIDE DEF cut
<1> QED
  BY <1>6, <1>7, <1>8

\* A dash and letters behind a word make words again.
LEMMA AnotherIsWordy ==
    ASSUME NEW s, Wordy(s)
    PROVE  Wordy(Another(s)) /\ Len(Another(s)) = Len(s) + HexLen + 1
<1> DEFINE dash == <<"-">>
           front == s \o dash
           hex == Letters(HexLen)
           a == front \o hex
           n == Len(s)
<1>1. HexLen \in Nat /\ HexLen > 0
  BY SlugAssumption
<1>2. /\ s \in Seq(Marks) /\ n \in Nat /\ n > 0 /\ s[1] = "a" /\ s[n] = "a"
      /\ SingleDashes(s)
  BY LenProperties DEF Wordy
<1>3. dash \in Seq(Marks) /\ Len(dash) = 1 /\ dash[1] = "-"
  BY DEF Marks
<1>4. /\ hex \in Seq(Marks) /\ Len(hex) = HexLen /\ \A k \in 1..HexLen : hex[k] = "a"
  <2>1. HexLen \in Nat \ {0}
    BY <1>1
  <2>2. hex \in Seq(Marks) /\ Len(hex) = HexLen
    BY <2>1, LettersAreWordy DEF Wordy
  <2> QED
    BY <2>2 DEF Letters
<1> HIDE DEF dash, hex
<1>5. /\ front \in Seq(Marks) /\ Len(front) = n + 1
      /\ \A k \in 1..n : front[k] = s[k]
      /\ front[n + 1] = "-"
  <2>1. /\ front \in Seq(Marks) /\ Len(front) = n + 1
        /\ \A k \in 1..(n + 1) : front[k] = IF k <= n THEN s[k] ELSE dash[k - n]
    BY <1>2, <1>3, ConcatProperties
  <2> HIDE DEF front
  <2>2. /\ \A k \in 1..n : k \in 1..(n + 1) /\ k <= n
        /\ n + 1 \in 1..(n + 1) /\ ~(n + 1 <= n) /\ (n + 1) - n = 1
    BY <1>2
  <2> QED
    BY <1>3, <2>1, <2>2
<1> HIDE DEF front
<1>6. /\ a \in Seq(Marks) /\ Len(a) = n + 1 + HexLen
      /\ \A k \in 1..n : a[k] = s[k]
      /\ \A k \in (n + 2)..(n + 1 + HexLen) : a[k] = "a"
  <2>1. /\ a \in Seq(Marks) /\ Len(a) = n + 1 + HexLen
        /\ \A k \in 1..(n + 1 + HexLen) : a[k] = IF k <= n + 1 THEN front[k] ELSE hex[k - (n + 1)]
    <3>1. /\ a \in Seq(Marks) /\ Len(a) = Len(front) + Len(hex)
          /\ \A k \in 1..(Len(front) + Len(hex)) :
                a[k] = IF k <= Len(front) THEN front[k] ELSE hex[k - Len(front)]
      BY <1>4, <1>5, ConcatProperties
    <3> HIDE DEF a
    <3> QED
      BY <1>4, <1>5, <3>1
  <2> HIDE DEF a
  <2>2. /\ \A k \in 1..n : k \in 1..(n + 1 + HexLen) /\ k <= n + 1
        /\ \A k \in (n + 2)..(n + 1 + HexLen) :
              k \in 1..(n + 1 + HexLen) /\ ~(k <= n + 1) /\ k - (n + 1) \in 1..HexLen
    BY <1>1, <1>2
  <2> QED
    BY <1>4, <1>5, <2>1, <2>2
<1> HIDE DEF a
<1>7. a[1] = "a" /\ a[Len(a)] = "a" /\ Len(a) > 0
  <2>1. 1 \in 1..n /\ Len(a) \in (n + 2)..(n + 1 + HexLen) /\ Len(a) > 0
    BY <1>1, <1>2, <1>6
  <2> QED
    BY <1>2, <1>6, <2>1
<1>8. ASSUME NEW k \in 1..(Len(a) - 1) PROVE a[k] = "a" \/ a[k + 1] = "a"
  <2>1. CASE k < n
    <3>1. k \in 1..n /\ k + 1 \in 1..n /\ k \in 1..(n - 1)
      BY <1>2, <2>1
    <3>2. s[k] = "a" \/ s[k + 1] = "a"
      BY <1>2, <3>1 DEF SingleDashes
    <3> QED
      BY <1>6, <3>1, <3>2
  <2>2. CASE k = n
    <3>1. n \in 1..n
      BY <1>2
    <3> QED
      BY <1>2, <1>6, <2>2, <3>1
  <2>3. CASE k > n
    <3>1. k + 1 \in (n + 2)..(n + 1 + HexLen)
      BY <1>1, <1>2, <1>6, <2>3
    <3> QED
      BY <1>6, <3>1
  <2> QED
    BY <1>2, <2>1, <2>2, <2>3
<1>9. Wordy(a) /\ Len(a) = n + HexLen + 1
  BY <1>1, <1>2, <1>6, <1>7, <1>8 DEF Wordy, SingleDashes
<1>10. Another(s) = a
  <2>1. s \o dash \o hex = a
    BY DEF a, front
  <2> QED
    BY <2>1 DEF Another, dash, hex
<1> QED
  BY <1>9, <1>10

\* Words that are not too long are what isValidSlug wants.
LEMMA WordyIsValid ==
    ASSUME NEW s, Wordy(s), Len(s) <= MaxSlug
    PROVE  isValidSlug(s)
<1>1. /\ s \in Seq(Marks) /\ Len(s) \in Nat /\ Len(s) > 0 /\ DOMAIN s = 1..Len(s)
      /\ s[1] = "a" /\ s[Len(s)] = "a" /\ SingleDashes(s)
      /\ \A n \in 1..Len(s) : s[n] \in Marks
  BY LenProperties, ElementOfSeq DEF Wordy
<1>2. Len(s) \in 1..MaxSlug
  BY <1>1, SlugAssumption
<1>3. ASSUME NEW n \in DOMAIN s, s[n] # "a"
      PROVE  s[n] = "-" /\ n \in 2..(Len(s) - 1) /\ s[n - 1] = "a" /\ s[n + 1] = "a"
  <2>1. n \in 1..Len(s) /\ s[n] = "-"
    BY <1>1, <1>3 DEF Marks
  <2>2. n # 1 /\ n # Len(s)
    BY <1>1, <1>3
  <2>3. /\ n \in 2..(Len(s) - 1) /\ n \in 1..(Len(s) - 1)
        /\ n - 1 \in 1..(Len(s) - 1) /\ (n - 1) + 1 = n
    BY <1>1, <2>1, <2>2
  <2>4. s[n - 1] = "a" \/ s[(n - 1) + 1] = "a"
    BY <1>1, <2>3 DEF SingleDashes
  <2>5. s[n] = "a" \/ s[n + 1] = "a"
    BY <1>1, <2>3 DEF SingleDashes
  <2> QED
    BY <1>3, <2>1, <2>3, <2>4, <2>5
<1> QED
  BY <1>2, <1>3 DEF isValidSlug

\* What CreateGallery tries for a title is a slug that can be saved, unless the
\* title was cut behind a dash.
LEMMA CandidatesAreValid ==
    ASSUME NEW t \in Seq(Characters), NEW c \in Candidates(t), ~CutAtDash(t)
    PROVE  isValidSlug(c)
<1> DEFINE s == Slugify(t)
<1>1. SlugLike(s) /\ s[Len(s)] # "-"
  BY SlugifyMakesSlugs DEF CutAtDash
<1>2. c \in {s, Another(s), Another(Another(s))}
  BY DEF Candidates
<1> HIDE DEF s
<1>3. /\ HexLen \in Nat /\ MaxCut \in Nat /\ MaxSlug \in Nat
      /\ MaxSlug >= MaxCut + 2 * (HexLen + 1) /\ MaxSlug >= 7 + 2 * (HexLen + 1)
  BY SlugAssumption
<1>4. Len(s) \in Nat /\ Len(s) + 2 * (HexLen + 1) <= MaxSlug
  <2>1. Len(s) \in Nat /\ (Len(s) <= MaxCut \/ Len(s) = 7)
    BY <1>1, LenProperties DEF SlugLike
  <2>2. 2 * (HexLen + 1) \in Nat
    BY <1>3
  <2>3. CASE Len(s) = 7
    BY <1>3, <2>2, <2>3
  <2>4. CASE Len(s) <= MaxCut
    BY <1>3, <2>1, <2>2, <2>4
  <2> QED
    BY <2>1, <2>3, <2>4
<1>5. Wordy(s)
  <2>1. s \in Seq(Marks) /\ Len(s) > 0 /\ s[1] = "a" /\ SingleDashes(s)
    BY <1>1 DEF SlugLike
  <2>2. Len(s) \in 1..Len(s)
    BY <1>4, <2>1
  <2>3. s[Len(s)] \in Marks
    BY <2>1, <2>2, ElementOfSeq
  <2> QED
    BY <1>1, <2>1, <2>3 DEF Wordy, Marks
<1>6. Wordy(Another(s)) /\ Len(Another(s)) = Len(s) + HexLen + 1
  BY <1>5, AnotherIsWordy
<1>7. /\ Wordy(Another(Another(s)))
      /\ Len(Another(Another(s))) = Len(Another(s)) + HexLen + 1
  BY <1>6, AnotherIsWordy
<1>8. Wordy(c) /\ Len(c) <= MaxSlug
  BY <1>2, <1>3, <1>4, <1>5, <1>6, <1>7
<1> QED
  BY <1>8, WordyIsValid

\* The slug of a gallery is one that CreateGallery tried for its title.
SlugInv ==
    gallery # NoGallery =>
        /\ gallery.title \in Seq(Characters)
        /\ gallery.slug \in Candidates(gallery.title)

\* Whatever the title of a new gallery, its settings can be saved with the slug
\* it was given, but for titles that are cut behind a dash.
THEOREM SlugTheorem == SlugSpec => []CreatedSlugSaves
<1>1. SlugInit => SlugInv
  BY DEF SlugInit, SlugInv
<1>2. SlugInv /\ [CreateGallery]_gallery => SlugInv'
  <2> SUFFICES ASSUME SlugInv, [CreateGallery]_gallery PROVE SlugInv'
    OBVIOUS
  <2>1. CASE CreateGallery
    <3>1. PICK t \in Titles : \E s \in Candidates(t) : gallery' = [title |-> t, slug |-> s]
      BY <2>1 DEF CreateGallery
    <3>2. t \in Seq(Characters)
      BY <3>1, SlugAssumption
    <3> QED
      BY <3>1, <3>2 DEF SlugInv
  <2>2. CASE UNCHANGED gallery
    BY <2>2 DEF SlugInv
  <2> QED
    BY <2>1, <2>2
<1>3. SlugInv => CreatedSlugSaves
  BY CandidatesAreValid DEF SlugInv, CreatedSlugSaves
<1> QED
  BY <1>1, <1>2, <1>3, PTL DEF SlugSpec

-----------------------------------------------------------------------------
(* The scan of a video.                                                    *)

ProbeSays(p) == p.spherical \/ \E s \in Range(p.streams) : s.type = "video" /\ s.spherical

\* A video is a panorama, by what is said of it in its file and of it.
IsPanorama(v) == v.probe.ok /\ (ProbeSays(v.probe) \/ \E k \in Boxes(v) : BoxSays(v, k))

\* The scan stands at the start of a box, or somewhere behind the last one, and
\* no box before it says that the video is a panorama.
Unsaid ==
    \/ \E k \in DOMAIN video.start :
          at = video.start[k] /\ \A b \in 1..(k - 1) : ~BoxSays(video, b)
    \/ /\ at >= video.start[Len(video.start)]
       /\ \A b \in Boxes(video) : ~BoxSays(video, b)

VideoInv ==
    /\ vmeta \in [width : Nat, is360 : BOOLEAN, year : Nat] /\ at \in Nat
    /\ video = NoVideo => at = 0
    /\ video # NoVideo =>
          /\ video \in Videos
          /\ vmeta.is360 => IsPanorama(video)
          /\ ~vmeta.is360 => ~(video.probe.ok /\ ProbeSays(video.probe)) /\ Unsaid

\* What is made of ffprobe's answer is what it says.
LEMMA ProbedSays ==
    ASSUME NEW p, IsProbe(p)
    PROVE  /\ Probed(p) \in [width : Nat, is360 : BOOLEAN, year : Nat]
           /\ Probed(p).is360 <=> p.ok /\ ProbeSays(p)
<1> DEFINE st == p.streams
           Stream == [type : {"video", "audio"}, width : Nat, spherical : BOOLEAN]
           sized == {k \in VideoStreams(p) : st[k].width > 0}
           width == IF sized = {} THEN 0 ELSE st[Min(sized)].width
           year == IF p.year >= 2000 THEN p.year ELSE 0
           some == \E k \in VideoStreams(p) : st[k].spherical
<1>1. p.ok \in BOOLEAN /\ p.spherical \in BOOLEAN /\ year \in Nat
  BY DEF IsProbe
<1>2. DOMAIN st = 1..Len(st) /\ Len(st) \in Nat /\ \A k \in 1..Len(st) : st[k] \in Stream
  <2>1. st \in Seq(Stream)
    BY DEF IsProbe
  <2> HIDE DEF st, Stream
  <2> QED
    BY <2>1, LenProperties, ElementOfSeq
<1>3. width \in Nat
  <2>1. CASE sized = {}
    BY <2>1
  <2>2. CASE sized # {}
    <3>1. sized \in SUBSET (1..Len(st))
      BY <1>2 DEF VideoStreams
    <3> HIDE DEF sized
    <3>2. Min(sized) \in sized
      BY <1>2, <2>2, <3>1, LeastAndGreatest
    <3>3. st[Min(sized)] \in Stream
      BY <1>2, <3>1, <3>2
    <3> QED
      BY <2>2, <3>3
  <2> QED
    BY <2>1, <2>2
<1>4. some <=> \E s \in Range(st) : s.type = "video" /\ s.spherical
  BY DEF VideoStreams, Range
<1> HIDE DEF width, year, some
<1>5. Probed(p) = IF ~p.ok THEN NoMeta
                  ELSE [width |-> width, is360 |-> p.spherical \/ some, year |-> year]
  BY DEF Probed, width, sized, year, some
<1>6. CASE ~p.ok
  BY <1>1, <1>5, <1>6 DEF NoMeta
<1>7. CASE p.ok
  <2> DEFINE is360 == p.spherical \/ some
             r == [width |-> width, is360 |-> is360, year |-> year]
  <2>1. is360 \in BOOLEAN
    OBVIOUS
  <2>2. Probed(p) = r
    BY <1>5, <1>7
  <2> HIDE DEF is360
  <2>3. r \in [width : Nat, is360 : BOOLEAN, year : Nat] /\ r.is360 = is360
    BY <1>1, <1>3, <2>1
  <2> HIDE DEF r
  <2>4. Probed(p).is360 <=> is360
    BY <2>2, <2>3
  <2>5. is360 <=> p.ok /\ ProbeSays(p)
    BY <1>4, <1>7 DEF ProbeSays, is360
  <2> QED
    BY <2>2, <2>3, <2>4, <2>5
<1> QED
  BY <1>1, <1>6, <1>7

\* The scan may read a size wherever it stands.
LEMMA SizesAreNumbers ==
    ASSUME NEW data \in Seq(Nat), NEW s \in Nat, s + 8 <= Len(data)
    PROVE  BoxSize(data, s) \in Nat
<1>1. Len(data) \in Nat
  BY LenProperties
<1>2. /\ s + 1 \in 1..Len(data) /\ s + 2 \in 1..Len(data)
      /\ s + 3 \in 1..Len(data) /\ s + 4 \in 1..Len(data)
  BY <1>1
<1>3. data[s + 1] \in Nat /\ data[s + 2] \in Nat /\ data[s + 3] \in Nat /\ data[s + 4] \in Nat
  BY <1>2, ElementOfSeq
<1>4. \A h, l \in Nat : 256 * h + l \in Nat
  OBVIOUS
<1>5. 256 * data[s + 1] + data[s + 2] \in Nat
  BY <1>3, <1>4
<1>6. 256 * (256 * data[s + 1] + data[s + 2]) + data[s + 3] \in Nat
  BY <1>3, <1>4, <1>5
<1>7. 256 * (256 * (256 * data[s + 1] + data[s + 2]) + data[s + 3]) + data[s + 4] \in Nat
  BY <1>3, <1>4, <1>6
<1> QED
  BY <1>7 DEF BoxSize

\* What the assumption says of a video.
LEMMA VideoFacts ==
    ASSUME NEW v \in Videos
    PROVE  /\ IsProbe(v.probe) /\ v.data \in Seq(Nat) /\ Len(v.data) \in Nat
           /\ v.start \in Seq(Nat) /\ Len(v.start) \in Nat /\ Len(v.start) > 0
           /\ DOMAIN v.start = 1..Len(v.start) /\ v.start[1] = 0
           /\ \A k \in 1..Len(v.start) : v.start[k] \in Nat
           /\ \A k \in Boxes(v) :
                 /\ v.start[k] + 8 <= Len(v.data) /\ BoxSize(v.data, v.start[k]) >= 8
                 /\ v.start[k + 1] = v.start[k] + BoxSize(v.data, v.start[k])
           /\ \A s \in v.start[Len(v.start)]..Len(v.data) : ~IsXmp(v.data, s)
<1>1. IsVideo(v)
  BY VideoAssumption
<1>2. v.data \in Seq(Nat) /\ v.start \in Seq(Nat) /\ v.start # <<>>
  BY <1>1 DEF IsVideo
<1>3. /\ Len(v.data) \in Nat /\ Len(v.start) \in Nat /\ Len(v.start) > 0
      /\ DOMAIN v.start = 1..Len(v.start)
      /\ \A k \in 1..Len(v.start) : v.start[k] \in Nat
  BY <1>2, LenProperties, EmptySeq, ElementOfSeq
<1>4. ASSUME NEW k \in Boxes(v) PROVE BoxSize(v.data, v.start[k]) >= 8
  <2>1. BoxSize(v.data, v.start[k]) >= IF IsXmp(v.data, v.start[k]) THEN 24 ELSE 8
    BY <1>1 DEF IsVideo
  <2>2. v.start[k] \in Nat /\ v.start[k] + 8 <= Len(v.data)
    BY <1>1, <1>3 DEF IsVideo, Boxes
  <2>3. BoxSize(v.data, v.start[k]) \in Nat
    BY <1>2, <2>2, SizesAreNumbers
  <2> QED
    BY <2>1, <2>3
<1> QED
  BY <1>1, <1>2, <1>3, <1>4 DEF IsVideo

\* While the loop goes on the scan stands at a box, of a size that is one, or
\* behind the last box, where there is no XMP.
LEMMA SearchStands ==
    ASSUME VideoInv, video # NoVideo, Searching
    PROVE  /\ BoxSize(video.data, at) \in Nat
           /\ \/ \E k \in Boxes(video) :
                    /\ at = video.start[k] /\ BoxSize(video.data, at) >= 8
                    /\ \A b \in 1..(k - 1) : ~BoxSays(video, b)
              \/ /\ at >= video.start[Len(video.start)] /\ ~IsXmp(video.data, at)
                 /\ \A b \in Boxes(video) : ~BoxSays(video, b)
<1> DEFINE last == Len(video.start)
<1>1. /\ video \in Videos /\ at \in Nat /\ at + 8 <= Len(video.data) /\ Unsaid
  BY DEF VideoInv, Searching
<1>2. /\ video.data \in Seq(Nat) /\ Len(video.data) \in Nat
      /\ last \in Nat /\ last > 0 /\ DOMAIN video.start = 1..last
      /\ \A k \in 1..last : video.start[k] \in Nat
      /\ \A k \in Boxes(video) : BoxSize(video.data, video.start[k]) >= 8
      /\ \A s \in video.start[last]..Len(video.data) : ~IsXmp(video.data, s)
  BY <1>1, VideoFacts
<1>3. BoxSize(video.data, at) \in Nat
  BY <1>1, <1>2, SizesAreNumbers
<1> HIDE DEF last
<1>4. Boxes(video) = 1..(last - 1)
  BY DEF Boxes, last
<1>5. video.start[last] \in Nat
  BY <1>2
<1>6. at >= video.start[last] => ~IsXmp(video.data, at)
  <2>1. at >= video.start[last] => at \in video.start[last]..Len(video.data)
    BY <1>1, <1>2, <1>5
  <2> QED
    BY <1>2, <2>1
<1>7. ASSUME NEW k \in 1..last, at = video.start[k], \A b \in 1..(k - 1) : ~BoxSays(video, b)
      PROVE  \/ k \in Boxes(video) /\ BoxSize(video.data, at) >= 8
             \/ /\ at >= video.start[last]
                /\ \A b \in Boxes(video) : ~BoxSays(video, b)
  <2>1. CASE k = last
    BY <1>1, <1>4, <1>7, <2>1
  <2>2. CASE k # last
    <3>1. k \in 1..(last - 1)
      BY <1>2, <2>2
    <3> QED
      BY <1>2, <1>4, <1>7, <3>1
  <2> QED
    BY <2>1, <2>2
<1>8. \/ \E k \in 1..last : at = video.start[k] /\ \A b \in 1..(k - 1) : ~BoxSays(video, b)
      \/ at >= video.start[last] /\ \A b \in Boxes(video) : ~BoxSays(video, b)
  BY <1>1, <1>2 DEF Unsaid, last
<1>9. CASE at >= video.start[last] /\ \A b \in Boxes(video) : ~BoxSays(video, b)
  BY <1>3, <1>6, <1>9 DEF last
<1>10. CASE \E k \in 1..last : at = video.start[k] /\ \A b \in 1..(k - 1) : ~BoxSays(video, b)
  <2>1. PICK k \in 1..last : at = video.start[k] /\ \A b \in 1..(k - 1) : ~BoxSays(video, b)
    BY <1>10
  <2> QED
    BY <1>3, <1>6, <1>7, <2>1 DEF last
<1> QED
  BY <1>8, <1>9, <1>10

\* Each turn of the scan keeps it, and so does its beginning.
LEMMA VideoStep == VideoInv /\ [VideoNext]_videoVars => VideoInv'
<1> SUFFICES ASSUME VideoInv, [VideoNext]_videoVars PROVE VideoInv'
  OBVIOUS
<1> DEFINE Meta == [width : Nat, is360 : BOOLEAN, year : Nat]
<1>1. CASE Probe
  <2>1. PICK v \in Videos : video' = v /\ vmeta' = Probed(v.probe) /\ at' = at
    BY <1>1 DEF Probe
  <2>2. /\ Probed(v.probe) \in Meta
        /\ Probed(v.probe).is360 <=> v.probe.ok /\ ProbeSays(v.probe)
    BY <2>1, VideoFacts, ProbedSays
  <2>3. at = 0
    BY <1>1 DEF VideoInv, Probe
  <2>4. /\ 1 \in DOMAIN v.start /\ v.start[1] = 0 /\ \A b \in 1..(1 - 1) : ~BoxSays(v, b)
    BY VideoFacts
  <2>5. Unsaid'
    BY <2>1, <2>3, <2>4 DEF Unsaid
  <2> QED
    BY <2>1, <2>2, <2>3, <2>5 DEF VideoInv, IsPanorama
<1>2. CASE detectIs360FromMP4Bytes
  <2>1. Searching
    BY <1>2 DEF detectIs360FromMP4Bytes, SkipNoBox, FindPanorama, SkipBox
  <2>2. video # NoVideo
    BY <2>1 DEF Searching, NoVideo, NoProbe
  <2>3. /\ video \in Videos /\ video.probe.ok /\ ~vmeta.is360 /\ at \in Nat
        /\ vmeta \in Meta /\ ~(video.probe.ok /\ ProbeSays(video.probe))
    BY <2>1, <2>2 DEF VideoInv, Searching
  <2> DEFINE n == Len(video.start)
             size == BoxSize(video.data, at)
  <2>4. /\ n \in Nat /\ n > 0 /\ DOMAIN video.start = 1..n
        /\ \A k \in 1..n : video.start[k] \in Nat
        /\ \A k \in Boxes(video) :
              video.start[k + 1] = video.start[k] + BoxSize(video.data, video.start[k])
    BY <2>3, VideoFacts
  <2>5. video.start[n] \in Nat
    BY <2>4
  <2>6. size \in Nat
    BY <2>1, <2>2, SearchStands
  <2>7. CASE \E k \in Boxes(video) :
                /\ at = video.start[k] /\ size >= 8
                /\ \A b \in 1..(k - 1) : ~BoxSays(video, b)
    <3>1. PICK k \in Boxes(video) :
              /\ at = video.start[k] /\ size >= 8
              /\ \A b \in 1..(k - 1) : ~BoxSays(video, b)
      BY <2>7
    <3>2. k \in 1..(n - 1) /\ k + 1 \in DOMAIN video.start
      BY <2>4 DEF Boxes
    <3>3. Finds <=> BoxSays(video, k)
      BY <3>1 DEF Finds, BoxSays
    <3>4. ~SkipNoBox
      BY <2>6, <3>1 DEF SkipNoBox
    <3>5. CASE FindPanorama
      <4>1. BoxSays(video, k) /\ video' = video /\ at' = at
            /\ vmeta' = [vmeta EXCEPT !.is360 = TRUE]
        BY <3>3, <3>5 DEF FindPanorama
      <4>2. vmeta' \in Meta /\ vmeta'.is360
        BY <2>3, <4>1
      <4>3. IsPanorama(video)
        BY <2>3, <3>1, <4>1 DEF IsPanorama
      <4> QED
        BY <2>2, <2>3, <4>1, <4>2, <4>3 DEF VideoInv
    <3>6. CASE SkipBox
      <4>1. /\ ~BoxSays(video, k) /\ at' = video.start[k + 1]
            /\ video' = video /\ vmeta' = vmeta
        BY <2>4, <3>1, <3>3, <3>6 DEF SkipBox
      <4>2. \A b \in 1..k : ~BoxSays(video, b)
        BY <3>1, <3>2, <4>1
      <4>3. (k + 1) - 1 = k /\ at' \in Nat
        BY <2>4, <3>2, <4>1
      <4>4. Unsaid'
        BY <3>2, <4>1, <4>2, <4>3 DEF Unsaid
      <4> QED
        BY <2>2, <2>3, <4>1, <4>3, <4>4 DEF VideoInv
    <3> QED
      BY <1>2, <3>4, <3>5, <3>6 DEF detectIs360FromMP4Bytes
  <2>8. CASE /\ at >= video.start[n] /\ ~IsXmp(video.data, at)
             /\ \A b \in Boxes(video) : ~BoxSays(video, b)
    <3>1. ~FindPanorama
      BY <2>8 DEF FindPanorama, Finds
    <3>2. at' \in Nat /\ at' >= at /\ video' = video /\ vmeta' = vmeta
      BY <1>2, <2>3, <2>6, <3>1 DEF detectIs360FromMP4Bytes, SkipNoBox, SkipBox
    <3>3. at' >= video.start[n]
      BY <2>3, <2>5, <2>8, <3>2
    <3>4. Unsaid'
      BY <2>8, <3>2, <3>3 DEF Unsaid
    <3> QED
      BY <2>2, <2>3, <3>2, <3>4 DEF VideoInv
  <2> QED
    BY <2>1, <2>2, <2>7, <2>8, SearchStands
<1>3. CASE UNCHANGED videoVars
  BY <1>3 DEF videoVars, VideoInv, Unsaid
<1> QED
  BY <1>1, <1>2, <1>3 DEF VideoNext

\* When the scan has ended, the video is known to be a panorama if and only if
\* it is one, whatever its boxes.
LEMMA VideoEnd == VideoInv => VideoIsUnderstood
<1> SUFFICES ASSUME VideoInv, video # NoVideo, ~Searching
             PROVE  vmeta.is360 <=> IsPanorama(video)
  BY DEF VideoIsUnderstood, IsPanorama, ProbeSays
<1>1. /\ video \in Videos /\ vmeta.is360 \in BOOLEAN /\ at \in Nat
      /\ vmeta.is360 => IsPanorama(video)
      /\ ~vmeta.is360 => ~(video.probe.ok /\ ProbeSays(video.probe)) /\ Unsaid
  BY DEF VideoInv
<1>2. ASSUME ~vmeta.is360, video.probe.ok, NEW k \in Boxes(video), BoxSays(video, k)
      PROVE  FALSE
  <2> DEFINE last == Len(video.start)
  <2>1. /\ Unsaid /\ ~(at + 8 <= Len(video.data))
    BY <1>1, <1>2 DEF Searching
  <2>2. /\ last \in Nat /\ DOMAIN video.start = 1..last
        /\ \A b \in Boxes(video) : video.start[b] + 8 <= Len(video.data)
    BY <1>1, VideoFacts
  <2> HIDE DEF last
  <2>3. Boxes(video) = 1..(last - 1)
    BY DEF Boxes, last
  <2>4. PICK b \in 1..last : at = video.start[b] /\ \A c \in 1..(b - 1) : ~BoxSays(video, c)
    BY <1>2, <2>1, <2>2 DEF Unsaid
  <2>5. CASE b = last
    BY <1>2, <2>3, <2>4, <2>5
  <2>6. CASE b # last
    BY <2>1, <2>2, <2>3, <2>4, <2>6
  <2> QED
    BY <2>5, <2>6
<1>3. ASSUME ~vmeta.is360 PROVE ~IsPanorama(video)
  BY <1>1, <1>2, <1>3 DEF IsPanorama
<1> QED
  BY <1>1, <1>3

\* ExtractVideoMeta takes a video for a panorama exactly when ffprobe or an XMP
\* box at its top level says so, for any file that is made of boxes.
THEOREM VideoTheorem == VideoSpec => []VideoIsUnderstood
<1>1. VideoInit => VideoInv
  BY DEF VideoInit, VideoInv, NoMeta
<1> QED
  BY <1>1, VideoStep, VideoEnd, PTL DEF VideoSpec

-----------------------------------------------------------------------------
(* The dates of TIFF data.                                                 *)

\* The texts of a tag in one directory.
TextsIn(ifd, tag) == {e.text : e \in {e \in Range(ifd) : e.tag = tag}} \ {NoDate}

\* walkIFD finds the text of a tag, if it has one.
LEMMA WalkFinds ==
    ASSUME NEW ifd \in Seq([tag : Tags, ascii : BOOLEAN, text : STRING]), NEW tag,
           \A j, k \in DOMAIN ifd : ifd[j].tag = tag /\ ifd[k].tag = tag => j = k,
           \A k \in DOMAIN ifd : ~ifd[k].ascii => ifd[k].text = NoDate
    PROVE  TextsIn(ifd, tag) = {Walk(ifd, tag)} \ {NoDate}
<1> DEFINE found == {k \in DOMAIN ifd : ifd[k].tag = tag /\ ifd[k].ascii}
           m == Max(found)
<1>1. DOMAIN ifd = 1..Len(ifd) /\ Len(ifd) \in Nat
  BY LenProperties
<1>2. TextsIn(ifd, tag) = {ifd[k].text : k \in {k \in DOMAIN ifd : ifd[k].tag = tag}} \ {NoDate}
  BY DEF TextsIn, Range
<1>3. CASE found = {}
  <2>1. Walk(ifd, tag) = NoDate
    BY <1>3 DEF Walk
  <2>2. \A k \in DOMAIN ifd : ifd[k].tag = tag => ifd[k].text = NoDate
    BY <1>3
  <2> QED
    BY <1>2, <2>1, <2>2
<1>4. CASE found # {}
  <2>1. Walk(ifd, tag) = ifd[m].text
    BY <1>4 DEF Walk
  <2>2. found \in SUBSET (1..Len(ifd))
    BY <1>1
  <2>3. \A k \in found : k \in DOMAIN ifd /\ ifd[k].tag = tag
    OBVIOUS
  <2> HIDE DEF found
  <2>4. m \in found
    BY <1>1, <1>4, <2>2, LeastAndGreatest
  <2>5. m \in DOMAIN ifd /\ ifd[m].tag = tag
    BY <2>3, <2>4
  <2> HIDE DEF m
  <2>6. {k \in DOMAIN ifd : ifd[k].tag = tag} = {m}
    BY <2>5
  <2> QED
    BY <1>2, <2>1, <2>6
<1> QED
  BY <1>3, <1>4

\* extractExifDate tells when a picture was taken as far as its TIFF data does,
\* wherever the entries are.
LEMMA ExifDate ==
    ASSUME NEW x
    PROVE  extractExifDate(x) = IF x \in DOMAIN Tiffs THEN Taken(Tiffs[x]) ELSE NoDate
<1>1. CASE x \notin DOMAIN Tiffs
  BY <1>1 DEF extractExifDate
<1>2. CASE x \in DOMAIN Tiffs
  <2> DEFINE tiff == Tiffs[x]
             Entries == [tag : Tags, ascii : BOOLEAN, text : STRING]
             original == Walk(tiff.exif, "Original")
             digitized == Walk(tiff.exif, "Digitized")
             dateTime == Walk(tiff.root, "DateTime")
  <2>1. IsTiff(tiff)
    BY <1>2, JpegAssumption
  <2> HIDE DEF tiff
  <2>2. /\ tiff.root \in Seq(Entries) /\ tiff.exif \in Seq(Entries)
        /\ \A k \in DOMAIN tiff.root : ~tiff.root[k].ascii => tiff.root[k].text = NoDate
        /\ \A k \in DOMAIN tiff.exif : ~tiff.exif[k].ascii => tiff.exif[k].text = NoDate
        /\ \A j, k \in DOMAIN tiff.root :
              tiff.root[j].tag = tiff.root[k].tag /\ tiff.root[j].tag # "Other" => j = k
        /\ \A j, k \in DOMAIN tiff.exif :
              tiff.exif[j].tag = tiff.exif[k].tag /\ tiff.exif[j].tag # "Other" => j = k
    BY <2>1 DEF IsTiff
  <2>3. /\ \A e \in Range(tiff.root) : e.tag \notin {"Original", "Digitized"}
        /\ \A e \in Range(tiff.exif) : e.tag \notin {"ExifIFD", "DateTime"}
    BY <2>1 DEF IsTiff, Range
  <2>4. \A tag : Texts(tiff, tag) = TextsIn(tiff.root, tag) \cup TextsIn(tiff.exif, tag)
    BY DEF Texts, TextsIn
  <2>5. Texts(tiff, "Original") = {original} \ {NoDate}
    <3>1. TextsIn(tiff.root, "Original") = {}
      BY <2>3 DEF TextsIn
    <3>2. \A j, k \in DOMAIN tiff.exif :
              tiff.exif[j].tag = "Original" /\ tiff.exif[k].tag = "Original" => j = k
      BY <2>2
    <3>3. TextsIn(tiff.exif, "Original") = {original} \ {NoDate}
      BY <2>2, <3>2, WalkFinds
    <3> QED
      BY <2>4, <3>1, <3>3
  <2>6. Texts(tiff, "Digitized") = {digitized} \ {NoDate}
    <3>1. TextsIn(tiff.root, "Digitized") = {}
      BY <2>3 DEF TextsIn
    <3>2. \A j, k \in DOMAIN tiff.exif :
              tiff.exif[j].tag = "Digitized" /\ tiff.exif[k].tag = "Digitized" => j = k
      BY <2>2
    <3>3. TextsIn(tiff.exif, "Digitized") = {digitized} \ {NoDate}
      BY <2>2, <3>2, WalkFinds
    <3> QED
      BY <2>4, <3>1, <3>3
  <2>7. Texts(tiff, "DateTime") = {dateTime} \ {NoDate}
    <3>1. TextsIn(tiff.exif, "DateTime") = {}
      BY <2>3 DEF TextsIn
    <3>2. \A j, k \in DOMAIN tiff.root :
              tiff.root[j].tag = "DateTime" /\ tiff.root[k].tag = "DateTime" => j = k
      BY <2>2
    <3>3. TextsIn(tiff.root, "DateTime") = {dateTime} \ {NoDate}
      BY <2>2, <3>2, WalkFinds
    <3> QED
      BY <2>4, <3>1, <3>3
  <2>8. (IF \E k \in DOMAIN tiff.root : tiff.root[k].tag = "ExifIFD" THEN tiff.exif ELSE <<>>)
            = tiff.exif
    BY <2>1 DEF IsTiff
  <2>9. extractExifDate(x) = IF original # NoDate THEN parseDate(original)
                             ELSE IF digitized # NoDate THEN parseDate(digitized)
                             ELSE parseDate(dateTime)
    BY <1>2, <2>8 DEF extractExifDate, tiff
  <2> HIDE DEF original, digitized, dateTime
  <2>10. \A d : (IF {d} \ {NoDate} \subseteq {Unreadable} THEN NoDate
                 ELSE CHOOSE c \in {d} \ {NoDate} : TRUE) = parseDate(d)
    BY DEF parseDate
  <2>11. Taken(tiff) = parseDate(IF original # NoDate THEN original
                                 ELSE IF digitized # NoDate THEN digitized ELSE dateTime)
    <3> DEFINE best == IF Texts(tiff, "Original") # {} THEN Texts(tiff, "Original")
                       ELSE IF Texts(tiff, "Digitized") # {} THEN Texts(tiff, "Digitized")
                       ELSE Texts(tiff, "DateTime")
               d == IF original # NoDate THEN original
                    ELSE IF digitized # NoDate THEN digitized ELSE dateTime
    <3>1. best = {d} \ {NoDate}
      BY <2>5, <2>6, <2>7
    <3>2. Taken(tiff) = IF best \subseteq {Unreadable} THEN NoDate ELSE CHOOSE c \in best : TRUE
      BY DEF Taken
    <3> HIDE DEF best, d
    <3>3. Taken(tiff) = parseDate(d)
      BY <2>10, <3>1, <3>2
    <3> QED
      BY <3>3 DEF d
  <2> QED
    BY <1>2, <2>9, <2>11 DEF tiff
<1> QED
  BY <1>1, <1>2

-----------------------------------------------------------------------------
(* The scan of a JPEG.                                                     *)

\* The scan stands at the start of a segment, or somewhere behind the last one,
\* and has learnt what the segments before it say.
Learnt ==
    \/ \E k \in DOMAIN jpeg.start : i = jpeg.start[k] /\ meta = Says(jpeg, 1..(k - 1))
    \/ i >= jpeg.start[Len(jpeg.start)] /\ meta = Says(jpeg, Segments(jpeg))

JpegInv ==
    /\ i \in Nat
    /\ jpeg = NoJpeg => i = 0
    /\ jpeg # NoJpeg => jpeg \in Jpegs
    /\ i = 0 => meta = Nothing
    /\ i # 0 => Learnt

\* What the assumption says of a JPEG.
LEMMA JpegFacts ==
    ASSUME NEW f \in Jpegs
    PROVE  /\ f.data \in Seq(Nat) /\ Len(f.data) \in Nat
           /\ Len(f.start) \in Nat /\ Len(f.start) > 0
           /\ DOMAIN f.start = 1..Len(f.start) /\ f.start[1] = 2
           /\ \A k \in 1..Len(f.start) : f.start[k] \in Nat /\ f.start[k] < Len(f.data)
           /\ f.data[1] = FF /\ f.data[2] = 216
           /\ \A k \in Segments(f) :
                 /\ f.start[k] + 4 < Len(f.data)
                 /\ f.data[f.start[k] + 1] = FF
                 /\ f.data[f.start[k] + 2] \notin Standalone
                 /\ f.start[k + 1] = f.start[k] + 2 + Length(f.data, f.start[k])
           /\ \A s \in f.start[Len(f.start)]..(Len(f.data) - 2) :
                 ~(f.data[s + 1] = FF /\ f.data[s + 2] = APP1)
<1>1. IsJpeg(f)
  BY JpegAssumption
<1>2. f.data \in Seq(Nat) /\ f.start \in Seq(Nat) /\ f.start # <<>>
  BY <1>1 DEF IsJpeg
<1>3. /\ Len(f.data) \in Nat /\ Len(f.start) \in Nat /\ Len(f.start) > 0
      /\ DOMAIN f.start = 1..Len(f.start)
      /\ \A k \in 1..Len(f.start) : f.start[k] \in Nat
  BY <1>2, LenProperties, EmptySeq, ElementOfSeq
<1> QED
  BY <1>1, <1>2, <1>3 DEF IsJpeg

\* The first date of some segments is that of the first one that has a date.
LEMMA FirstDate ==
    ASSUME NEW f, NEW n \in Nat
    PROVE  LET dated == {k \in 1..n : SaysTaken(f, k) # NoDate}
               at1 == Says(f, 1..n).at IN
           /\ dated = {} => at1 = NoDate
           /\ dated # {} => /\ Min(dated) \in dated /\ \A k \in dated : Min(dated) <= k
                            /\ at1 = SaysTaken(f, Min(dated)) /\ at1 # NoDate
<1> DEFINE dated == {k \in 1..n : SaysTaken(f, k) # NoDate}
           date == Says(f, 1..n).at
<1>1. date = IF dated = {} THEN NoDate ELSE SaysTaken(f, Min(dated))
  BY DEF Says
<1>2. dated \in SUBSET (1..n) /\ \A k \in dated : SaysTaken(f, k) # NoDate
  OBVIOUS
<1> HIDE DEF dated, date
<1>3. dated # {} => Min(dated) \in dated /\ \A k \in dated : Min(dated) <= k
  BY <1>2, LeastAndGreatest
<1>4. /\ dated = {} => date = NoDate
      /\ dated # {} => /\ Min(dated) \in dated /\ \A k \in dated : Min(dated) <= k
                       /\ date = SaysTaken(f, Min(dated)) /\ date # NoDate
  BY <1>1, <1>2, <1>3
<1> QED
  BY <1>4 DEF dated, date

\* A segment more may make it a panorama, and gives the date if there was none.
LEMMA SaysOneMore ==
    ASSUME NEW f, NEW n \in Nat
    PROVE  Says(f, 1..(n + 1)) =
               [is360 |-> Says(f, 1..n).is360 \/ SaysPanorama(f, n + 1),
                at |-> IF Says(f, 1..n).at = NoDate THEN SaysTaken(f, n + 1)
                       ELSE Says(f, 1..n).at]
<1> DEFINE old == {k \in 1..n : SaysTaken(f, k) # NoDate}
           new == {k \in 1..(n + 1) : SaysTaken(f, k) # NoDate}
           was == Says(f, 1..n)
           is == Says(f, 1..(n + 1))
           panorama == SaysPanorama(f, n + 1)
           date == SaysTaken(f, n + 1)
<1>1. 1..(n + 1) = (1..n) \cup {n + 1} /\ n + 1 \in Nat
  OBVIOUS
<1>2. /\ old = {} => was.at = NoDate
      /\ old # {} => /\ Min(old) \in old /\ \A k \in old : Min(old) <= k
                     /\ was.at = SaysTaken(f, Min(old)) /\ was.at # NoDate
  BY FirstDate
<1>3. /\ new = {} => is.at = NoDate
      /\ new # {} => /\ Min(new) \in new /\ \A k \in new : Min(new) <= k
                     /\ is.at = SaysTaken(f, Min(new)) /\ is.at # NoDate
  BY <1>1, FirstDate
<1>4. new = old \cup (IF date # NoDate THEN {n + 1} ELSE {})
  BY <1>1
<1>5. \A k \in old : k \in 1..n
  OBVIOUS
<1>6. is.at = IF was.at = NoDate THEN date ELSE was.at
  <2> HIDE DEF old, new, was, is, date
  <2>1. CASE old = {}
    <3>1. CASE date = NoDate
      BY <1>2, <1>3, <1>4, <2>1, <3>1
    <3>2. CASE date # NoDate
      <4>1. new = {n + 1}
        BY <1>4, <2>1, <3>2
      <4>2. Min(new) = n + 1
        BY <1>3, <4>1
      <4> QED
        BY <1>2, <1>3, <2>1, <4>1, <4>2 DEF date
    <3> QED
      BY <3>1, <3>2
  <2>2. CASE old # {}
    <3>1. Min(old) \in new /\ new # {}
      BY <1>2, <1>4, <2>2
    <3>2. Min(new) <= Min(old) /\ Min(new) \in 1..(n + 1) /\ Min(old) \in 1..n
      <4>1. Min(new) \in new /\ Min(old) \in old
        BY <1>2, <1>3, <2>2, <3>1
      <4>2. Min(new) \in 1..(n + 1)
        BY <1>1, <1>4, <1>5, <4>1
      <4> QED
        BY <1>3, <1>5, <3>1, <4>1, <4>2
    <3>3. Min(new) \in old
      <4>1. Min(new) # n + 1
        BY <3>2
      <4> QED
        BY <1>3, <1>4, <3>1, <4>1
    <3>4. Min(old) <= Min(new)
      BY <1>2, <2>2, <3>3
    <3>5. Min(new) = Min(old)
      BY <3>2, <3>4
    <3> QED
      BY <1>2, <1>3, <2>2, <3>1, <3>5
  <2> QED
    BY <2>1, <2>2
<1>7. is.is360 <=> was.is360 \/ panorama
  <2>1. is.is360 <=> \E k \in 1..(n + 1) : SaysPanorama(f, k)
    BY DEF Says
  <2>2. was.is360 <=> \E k \in 1..n : SaysPanorama(f, k)
    BY DEF Says
  <2> QED
    BY <1>1, <2>1, <2>2
<1>8. is.is360 = (was.is360 \/ panorama)
  <2>1. is.is360 \in BOOLEAN
    BY DEF Says
  <2>2. (was.is360 \/ panorama) \in BOOLEAN
    OBVIOUS
  <2> HIDE DEF is, was, panorama
  <2> QED
    BY <1>7, <2>1, <2>2
<1>9. is = [is360 |-> is.is360, at |-> is.at]
  BY DEF Says
<1> QED
  BY <1>6, <1>8, <1>9

\* An APP1 segment adds what it says; any other says nothing.
LEMMA LearnsOneMore ==
    ASSUME NEW f, NEW n \in Nat, meta = Says(f, 1..n)
    PROVE  Says(f, 1..(n + 1)) = IF IsApp1(f, n + 1) THEN Learn(Body(f, n + 1)) ELSE meta
<1> DEFINE seg == Body(f, n + 1)
           panorama == SaysPanorama(f, n + 1)
           date == SaysTaken(f, n + 1)
<1>1. Says(f, 1..(n + 1)) =
          [is360 |-> meta.is360 \/ panorama, at |-> IF meta.at = NoDate THEN date ELSE meta.at]
  BY SaysOneMore
<1>2. meta = [is360 |-> meta.is360, at |-> meta.at] /\ meta.is360 \in BOOLEAN
  BY DEF Says
<1>3. XmpHeader # ExifHeader
  BY DEF XmpHeader, ExifHeader
<1>4. CASE ~IsApp1(f, n + 1)
  <2>1. ~panorama /\ date = NoDate
    BY <1>4 DEF SaysPanorama, SaysTaken
  <2> HIDE DEF panorama, date
  <2>2. (meta.is360 \/ panorama) = meta.is360
    BY <1>2, <2>1
  <2> QED
    BY <1>1, <1>2, <1>4, <2>1, <2>2
<1>5. CASE IsApp1(f, n + 1)
  <2>1. panorama <=> Len(seg) > 1 /\ seg[1] = XmpHeader /\ seg[2] = Panorama
    BY <1>5 DEF SaysPanorama
  <2>2. date = IF Len(seg) > 1 /\ seg[1] = ExifHeader THEN extractExifDate(seg[2]) ELSE NoDate
    BY <1>5, ExifDate DEF SaysTaken
  <2> HIDE DEF seg, panorama, date
  <2>3. CASE Len(seg) > 1 /\ seg[1] = XmpHeader
    <3>1. date = NoDate /\ panorama = (seg[2] = Panorama)
      BY <1>3, <2>1, <2>2, <2>3 DEF panorama, SaysPanorama
    <3>2. Learn(seg) = [meta EXCEPT !.is360 = meta.is360 \/ seg[2] = Panorama]
      BY <2>3 DEF Learn
    <3>3. Learn(seg) = [is360 |-> meta.is360 \/ seg[2] = Panorama, at |-> meta.at]
      BY <1>2, <3>2
    <3>4. (meta.is360 \/ panorama) = (meta.is360 \/ seg[2] = Panorama)
      BY <3>1
    <3> QED
      BY <1>1, <1>5, <3>1, <3>3, <3>4 DEF seg
  <2>4. CASE ~(Len(seg) > 1 /\ seg[1] = XmpHeader)
    <3>1. (meta.is360 \/ panorama) = meta.is360
      BY <1>2, <2>1, <2>4
    <3>2. CASE Len(seg) > 1 /\ seg[1] = ExifHeader /\ meta.at = NoDate
      <4>1. Learn(seg) = [meta EXCEPT !.at = extractExifDate(seg[2])]
        BY <2>4, <3>2 DEF Learn
      <4>2. Learn(seg) = [is360 |-> meta.is360, at |-> date]
        BY <1>2, <2>2, <3>2, <4>1
      <4> QED
        BY <1>1, <1>5, <3>1, <3>2, <4>2 DEF seg
    <3>3. CASE ~(Len(seg) > 1 /\ seg[1] = ExifHeader /\ meta.at = NoDate)
      <4>1. Learn(seg) = meta
        BY <2>4, <3>3 DEF Learn
      <4>2. (IF meta.at = NoDate THEN date ELSE meta.at) = meta.at
        BY <2>2, <3>3
      <4> QED
        BY <1>1, <1>2, <1>5, <3>1, <4>1, <4>2 DEF seg
    <3> QED
      BY <3>2, <3>3
  <2> QED
    BY <2>3, <2>4
<1> QED
  BY <1>4, <1>5

\* A length can be read wherever the scan stands.
LEMMA LengthsAreNumbers ==
    ASSUME NEW data \in Seq(Nat), NEW s \in Nat, s + 4 < Len(data)
    PROVE  Length(data, s) \in Nat
<1>1. Len(data) \in Nat
  BY LenProperties
<1>2. s + 3 \in 1..Len(data) /\ s + 4 \in 1..Len(data)
  BY <1>1
<1>3. data[s + 3] \in Nat /\ data[s + 4] \in Nat
  BY <1>2, ElementOfSeq
<1> QED
  BY <1>3 DEF Length

\* The end of an APP1 segment, for a segment that the file has as a whole.
LEMMA EndsAreMinima ==
    ASSUME NEW a \in Nat, NEW b \in Nat
    PROVE  Min({a, b}) = IF a <= b THEN a ELSE b
<1>1. CASE a <= b
  <2>1. a \in {a, b} /\ \A y \in {a, b} : a <= y
    BY <1>1
  <2>2. \A x \in {a, b} : (\A y \in {a, b} : x <= y) => x = a
    BY <1>1
  <2> QED
    BY <1>1, <2>1, <2>2 DEF Min
<1>2. CASE ~(a <= b)
  <2>1. b \in {a, b} /\ \A y \in {a, b} : b <= y
    BY <1>2
  <2>2. \A x \in {a, b} : (\A y \in {a, b} : x <= y) => x = b
    BY <1>2
  <2> QED
    BY <1>2, <2>1, <2>2 DEF Min
<1> QED
  BY <1>1, <1>2

\* While the loop goes on the scan stands at the start of the image, at a
\* segment, or behind the last one, where nothing looks like APP1.
LEMMA ScanStands ==
    ASSUME JpegInv, Scanning
    PROVE  /\ jpeg \in Jpegs /\ jpeg # NoJpeg /\ Length(jpeg.data, i) \in Nat
           /\ \/ i = 0 /\ meta = Nothing /\ Byte(0) = FF /\ Byte(1) = 216
              \/ \E k \in Segments(jpeg) :
                    /\ i = jpeg.start[k] /\ meta = Says(jpeg, 1..(k - 1))
                    /\ Byte(0) = FF /\ Byte(1) \notin Standalone
              \/ /\ i # 0 /\ i >= jpeg.start[Len(jpeg.start)]
                 /\ meta = Says(jpeg, Segments(jpeg))
                 /\ ~(Byte(0) = FF /\ Byte(1) = APP1)
<1> DEFINE last == Len(jpeg.start)
<1>1. /\ jpeg \in Jpegs /\ jpeg # NoJpeg /\ i \in Nat /\ i + 4 < Len(jpeg.data)
      /\ i = 0 => meta = Nothing
      /\ i # 0 => Learnt
  BY DEF JpegInv, Scanning
<1>2. /\ jpeg.data \in Seq(Nat) /\ Len(jpeg.data) \in Nat
      /\ last \in Nat /\ last > 0 /\ DOMAIN jpeg.start = 1..last
      /\ \A k \in 1..last : jpeg.start[k] \in Nat
      /\ jpeg.data[1] = FF /\ jpeg.data[2] = 216
      /\ \A k \in Segments(jpeg) :
            /\ jpeg.data[jpeg.start[k] + 1] = FF
            /\ jpeg.data[jpeg.start[k] + 2] \notin Standalone
      /\ \A s \in jpeg.start[last]..(Len(jpeg.data) - 2) :
            ~(jpeg.data[s + 1] = FF /\ jpeg.data[s + 2] = APP1)
  BY <1>1, JpegFacts
<1>3. Length(jpeg.data, i) \in Nat
  BY <1>1, <1>2, LengthsAreNumbers
<1>4. Byte(0) = jpeg.data[i + 1] /\ Byte(1) = jpeg.data[i + 2]
  <2>1. i + 0 + 1 = i + 1 /\ i + 1 + 1 = i + 2
    BY <1>1
  <2> QED
    BY <2>1 DEF Byte
<1> HIDE DEF last
<1>5. Segments(jpeg) = 1..(last - 1)
  BY DEF Segments, last
<1>6. jpeg.start[last] \in Nat
  BY <1>2
<1>7. CASE i = 0
  <2>1. i + 1 = 1 /\ i + 2 = 2
    BY <1>7
  <2> QED
    BY <1>1, <1>2, <1>3, <1>4, <1>7, <2>1
<1>8. CASE i # 0 /\ i >= jpeg.start[last] /\ meta = Says(jpeg, Segments(jpeg))
  <2>1. i \in jpeg.start[last]..(Len(jpeg.data) - 2)
    BY <1>1, <1>2, <1>6, <1>8
  <2>2. ~(Byte(0) = FF /\ Byte(1) = APP1)
    <3>1. ~(jpeg.data[i + 1] = FF /\ jpeg.data[i + 2] = APP1)
      BY <1>2, <2>1
    <3> QED
      BY <1>4, <3>1
  <2> QED
    BY <1>1, <1>3, <1>8, <2>2 DEF last
<1>9. CASE i # 0 /\ \E k \in 1..last : i = jpeg.start[k] /\ meta = Says(jpeg, 1..(k - 1))
  <2>1. PICK k \in 1..last : i = jpeg.start[k] /\ meta = Says(jpeg, 1..(k - 1))
    BY <1>9
  <2>2. CASE k = last
    <3>1. i >= jpeg.start[last] /\ meta = Says(jpeg, Segments(jpeg))
      BY <1>5, <1>6, <2>1, <2>2
    <3> QED
      BY <1>8, <1>9, <3>1
  <2>3. CASE k # last
    <3>1. k \in 1..(last - 1)
      BY <1>2, <2>3
    <3>2. k \in Segments(jpeg)
      BY <1>5, <3>1
    <3>3. Byte(0) = FF /\ Byte(1) \notin Standalone
      BY <1>2, <1>4, <2>1, <3>2
    <3> QED
      BY <1>1, <1>3, <2>1, <3>2, <3>3
  <2> QED
    BY <2>2, <2>3
<1>10. i # 0 => \/ \E k \in 1..last : i = jpeg.start[k] /\ meta = Says(jpeg, 1..(k - 1))
                \/ i >= jpeg.start[last] /\ meta = Says(jpeg, Segments(jpeg))
  BY <1>1, <1>2 DEF Learnt, last
<1> QED
  BY <1>7, <1>8, <1>9, <1>10

\* Each turn of the scan keeps it, and so does opening a file.
LEMMA JpegStep == JpegInv /\ [JpegNext]_jpegVars => JpegInv'
<1> SUFFICES ASSUME JpegInv, [JpegNext]_jpegVars PROVE JpegInv'
  OBVIOUS
<1>1. CASE Open
  <2>1. i = 0 /\ i' = 0 /\ meta' = meta /\ jpeg' \in Jpegs
    BY <1>1 DEF Open, JpegInv
  <2> QED
    BY <2>1 DEF JpegInv
<1>2. CASE extractJPEGMeta
  <2>1. Scanning /\ jpeg' = jpeg
    BY <1>2 DEF extractJPEGMeta, SkipByte, ReadSegment, SkipMarker, SkipSegment
  <2> DEFINE last == Len(jpeg.start)
             length == Length(jpeg.data, i)
  <2>2. /\ jpeg \in Jpegs /\ jpeg # NoJpeg /\ length \in Nat /\ i \in Nat
        /\ i + 4 < Len(jpeg.data)
    BY <2>1, ScanStands DEF JpegInv, Scanning
  <2>3. /\ Len(jpeg.data) \in Nat /\ last \in Nat /\ last > 0
        /\ DOMAIN jpeg.start = 1..last /\ jpeg.start[1] = 2
        /\ \A k \in 1..last : jpeg.start[k] \in Nat /\ jpeg.start[k] < Len(jpeg.data)
        /\ \A k \in Segments(jpeg) :
              jpeg.start[k + 1] = jpeg.start[k] + 2 + Length(jpeg.data, jpeg.start[k])
    BY <2>2, JpegFacts
  <2>4. Segments(jpeg) = 1..(last - 1)
    BY DEF Segments
  <2>5. SegmentEnd \in Nat /\ SegmentEnd > i
    <3>1. i + 2 + length \in Nat
      BY <2>2
    <3>2. SegmentEnd = IF i + 2 + length <= Len(jpeg.data) THEN i + 2 + length ELSE Len(jpeg.data)
      BY <2>3, <3>1, EndsAreMinima DEF SegmentEnd
    <3> QED
      BY <2>2, <2>3, <3>1, <3>2
  <2> HIDE DEF last, length
  <2>6. i' \in Nat /\ i' > i
    BY <1>2, <2>2, <2>5
    DEF extractJPEGMeta, SkipByte, ReadSegment, SkipMarker, SkipSegment, length
  <2>7. CASE i = 0 /\ meta = Nothing /\ Byte(0) = FF /\ Byte(1) = 216
    <3>1. SkipMarker
      BY <1>2, <2>7 DEF extractJPEGMeta, SkipByte, ReadSegment, SkipSegment, Standalone, APP1
    <3>2. i' = 2 /\ meta' = meta
      BY <2>7, <3>1 DEF SkipMarker
    <3>3. Says(jpeg, 1..(1 - 1)) = Nothing
      BY DEF Says, Nothing
    <3>4. 1 \in DOMAIN jpeg.start
      BY <2>3
    <3>5. Learnt'
      BY <2>1, <2>3, <2>7, <3>2, <3>3, <3>4 DEF Learnt
    <3> QED
      BY <2>1, <2>2, <3>2, <3>5 DEF JpegInv
  <2>8. CASE \E k \in Segments(jpeg) :
                /\ i = jpeg.start[k] /\ meta = Says(jpeg, 1..(k - 1))
                /\ Byte(0) = FF /\ Byte(1) \notin Standalone
    <3>1. PICK k \in Segments(jpeg) :
              /\ i = jpeg.start[k] /\ meta = Says(jpeg, 1..(k - 1))
              /\ Byte(0) = FF /\ Byte(1) \notin Standalone
      BY <2>8
    <3>2. /\ k \in 1..(last - 1) /\ k + 1 \in 1..last /\ k - 1 \in Nat
          /\ (k - 1) + 1 = k /\ (k + 1) - 1 = k
      <4>1. k \in 1..(last - 1)
        BY <2>4
      <4> QED
        BY <2>3, <4>1
    <3>3. Says(jpeg, 1..k) = IF IsApp1(jpeg, k) THEN Learn(Body(jpeg, k)) ELSE meta
      BY <3>1, <3>2, LearnsOneMore
    <3>4. jpeg.start[k + 1] = i + 2 + length /\ jpeg.start[k + 1] < Len(jpeg.data)
      BY <2>3, <3>1, <3>2 DEF length
    <3>5. IsApp1(jpeg, k) <=> Byte(1) = APP1
      <4>1. i + 1 + 1 = i + 2
        BY <2>2
      <4> QED
        BY <3>1, <4>1 DEF IsApp1, Byte
    <3>6. ReadSegment \/ SkipSegment
      BY <1>2, <3>1 DEF extractJPEGMeta, SkipByte, SkipMarker
    <3>7. meta' = Says(jpeg, 1..k) /\ i' = jpeg.start[k + 1]
      <4>1. CASE ReadSegment
        <5>1. SegmentEnd = jpeg.start[k + 1]
          <6>1. i + 2 + length \in Nat /\ i + 2 + length <= Len(jpeg.data)
            BY <2>2, <2>3, <3>4
          <6>2. SegmentEnd = i + 2 + length
            BY <2>3, <6>1, EndsAreMinima DEF SegmentEnd, length
          <6> QED
            BY <3>4, <6>2
        <5>2. SubSeq(jpeg.data, i + 5, SegmentEnd) = Body(jpeg, k)
          BY <3>1, <5>1 DEF Body
        <5>3. meta' = Learn(Body(jpeg, k)) /\ i' = jpeg.start[k + 1] /\ IsApp1(jpeg, k)
          BY <3>5, <4>1, <5>1, <5>2 DEF ReadSegment
        <5> QED
          BY <3>3, <5>3
      <4>2. CASE SkipSegment
        <5>1. meta' = meta /\ i' = jpeg.start[k + 1] /\ ~IsApp1(jpeg, k)
          BY <3>4, <3>5, <4>2 DEF SkipSegment, length
        <5> QED
          BY <3>3, <5>1
      <4> QED
        BY <3>6, <4>1, <4>2
    <3>8. Learnt'
      BY <2>1, <2>3, <3>2, <3>7 DEF Learnt
    <3> QED
      BY <2>1, <2>2, <2>6, <3>8 DEF JpegInv
  <2>9. CASE /\ i # 0 /\ i >= jpeg.start[Len(jpeg.start)] /\ meta = Says(jpeg, Segments(jpeg))
             /\ ~(Byte(0) = FF /\ Byte(1) = APP1)
    <3>1. ~ReadSegment
      BY <2>9 DEF ReadSegment
    <3>2. meta' = meta
      BY <1>2, <3>1 DEF extractJPEGMeta, SkipByte, SkipMarker, SkipSegment
    <3>3. jpeg.start[last] \in Nat /\ last = Len(jpeg.start)
      BY <2>3 DEF last
    <3>4. i' >= jpeg.start[Len(jpeg.start)]
      BY <2>2, <2>6, <2>9, <3>3
    <3>5. Learnt'
      BY <2>1, <2>9, <3>2, <3>4 DEF Learnt
    <3> QED
      BY <2>1, <2>2, <2>6, <3>5 DEF JpegInv
  <2> QED
    BY <2>1, <2>7, <2>8, <2>9, ScanStands
<1>3. CASE UNCHANGED jpegVars
  BY <1>3 DEF jpegVars, JpegInv, Learnt
<1> QED
  BY <1>1, <1>2, <1>3 DEF JpegNext

\* When the scan ends it has passed every segment.
LEMMA JpegEnd == JpegInv => JpegIsUnderstood
<1> SUFFICES ASSUME JpegInv, jpeg # NoJpeg, ~Scanning
             PROVE  meta = Says(jpeg, Segments(jpeg))
  BY DEF JpegIsUnderstood
<1> DEFINE last == Len(jpeg.start)
<1>1. /\ jpeg \in Jpegs /\ i \in Nat /\ ~(i + 4 < Len(jpeg.data))
      /\ i = 0 => meta = Nothing
      /\ i # 0 => Learnt
  BY DEF JpegInv, Scanning
<1>2. /\ Len(jpeg.data) \in Nat /\ last \in Nat /\ last > 0 /\ DOMAIN jpeg.start = 1..last
      /\ jpeg.start[1] = 2
      /\ \A k \in Segments(jpeg) : jpeg.start[k] + 4 < Len(jpeg.data)
  BY <1>1, JpegFacts
<1>3. Segments(jpeg) = 1..(last - 1)
  BY DEF Segments
<1> HIDE DEF last
<1>4. CASE i = 0
  <2>1. 1 \notin Segments(jpeg)
    BY <1>1, <1>2, <1>4
  <2>2. Segments(jpeg) = {}
    BY <1>2, <1>3, <2>1
  <2> QED
    BY <1>1, <1>4, <2>2 DEF Says, Nothing
<1>5. CASE i # 0
  <2>1. CASE \E k \in 1..last : i = jpeg.start[k] /\ meta = Says(jpeg, 1..(k - 1))
    <3>1. PICK k \in 1..last : i = jpeg.start[k] /\ meta = Says(jpeg, 1..(k - 1))
      BY <2>1
    <3>2. k \notin Segments(jpeg)
      BY <1>1, <1>2, <3>1
    <3>3. k = last
      BY <1>2, <1>3, <3>2
    <3> QED
      BY <1>3, <3>1, <3>3
  <2> QED
    BY <1>1, <1>2, <1>5, <2>1 DEF Learnt
<1> QED
  BY <1>4, <1>5

\* extractJPEGMeta learns of a JPEG what its APP1 segments say, for any
\* segments in any order, and any bytes in them.
THEOREM JpegTheorem == JpegSpec => []JpegIsUnderstood
<1>1. JpegInit => JpegInv
  BY DEF JpegInit, JpegInv
<1> QED
  BY <1>1, JpegStep, JpegEnd, PTL DEF JpegSpec

=============================================================================
