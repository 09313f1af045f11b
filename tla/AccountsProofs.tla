--------------------------- MODULE AccountsProofs ----------------------------
(***************************************************************************)
(* Proofs about Accounts, for any users, galleries, photos and requests.   *)
(***************************************************************************)
EXTENDS Accounts, TLAPS

\* What the foreign keys are about: rows refer to rows.
References ==
    /\ \A g \in DOMAIN owner : owner[g] \in live
    /\ \A m \in editors : m[1] \in DOMAIN owner /\ m[2] \in live
    /\ \A p \in DOMAIN photo : photo[p].gallery \in DOMAIN owner /\ photo[p].by \in live

\* Requests that got past CheckSetup have set its flag, which means users
\* exist, unless one of the two things AdminRemains excepts has happened.
Admission ==
    /\ \A r \in Requests : req[r].at \in {"register", "user"} => setupDone
    /\ setupDone /\ ~late /\ ~blind => live # {}
    /\ AdminRemains

\* A request that may upload was right to be allowed to.
Uploaders ==
    /\ editors \subseteq trusted
    /\ \A r \in Requests : req[r].at = "editor" =>
          LET x == req[r] IN
          /\ x.gallery \in born
          /\ x.gallery \in DOMAIN owner =>
                owner[x.gallery] = x.by \/ <<x.gallery, x.by>> \in trusted
    /\ UploadersWereEditors

\* A request about to set a cover has a photo that is the gallery's, if it is
\* still there.
Covers ==
    /\ \A r \in Requests : req[r].at = "cover" =>
          LET x == req[r] IN
          /\ x.photo \in born
          /\ x.photo \in DOMAIN photo => photo[x.photo].gallery = x.gallery
    /\ CoverInGallery

\* The inductive invariant.
IInv == TypeOK /\ References /\ Admission /\ Uploaders /\ Covers

Member == [gallery : Galleries, by : Users]

-----------------------------------------------------------------------------
\* Nothing is there at first, so nothing is amiss.
LEMMA InitIInv == Init => IInv
<1> SUFFICES ASSUME Init PROVE IInv
  OBVIOUS
<1>1. DOMAIN owner = {} /\ DOMAIN photo = {}
  BY DEF Init
<1>2. req \in [Requests -> Request] /\ \A r \in Requests : req[r].at = "idle"
  BY DEF Init, Idle, Request
<1>3. TypeOK
  BY <1>1, <1>2 DEF Init, TypeOK
<1>4. References
  BY <1>1 DEF Init, References
<1>5. Admission /\ Uploaders /\ Covers
  BY <1>1, <1>2 DEF Init, Admission, AdminRemains, Uploaders, UploadersWereEditors, Covers,
     CoverInGallery
<1> QED BY <1>3, <1>4, <1>5 DEF IInv

\* What a request knows at each point is of the types it should be.
LEMMA RequestFields ==
    ASSUME NEW x \in Request
    PROVE  /\ x.at = "user" => x.by \in Users
           /\ x.at \in Rights => x.by \in Users /\ x.gallery \in Galleries
           /\ x.at = "cover" => x.gallery \in Galleries /\ x.photo \in Photos
BY DEF Request, Idle, Anonymous, Rights

\* The requests that the actions leave behind are requests.
LEMMA Requests_ ==
    /\ Idle \in Request
    /\ \A a \in Anonymous : [at |-> a] \in Request
    /\ \A u \in Users : [at |-> "user", by |-> u] \in Request
    /\ \A a \in Rights, u \in Users, g \in Galleries :
          [at |-> a, by |-> u, gallery |-> g] \in Request
    /\ \A g \in Galleries, p \in Photos :
          [at |-> "cover", gallery |-> g, photo |-> p] \in Request
BY DEF Request

\* A request that moves on leaves the others where they are.
LEMMA GoesOn ==
    ASSUME TypeOK, NEW r \in Requests, NEW x \in Request, Goes(r, x)
    PROVE  /\ req' \in [Requests -> Request]
           /\ req'[r] = x
           /\ \A q \in Requests : q # r => req'[q] = req[q]
BY DEF Goes, TypeOK

\* What the foreign keys leave of galleries, photos and covers is as it was.
LEMMA KeepsWhat ==
    ASSUME TypeOK, NEW G, G \subseteq DOMAIN owner, NEW P, P \subseteq DOMAIN photo, Keeps(G, P)
    PROVE  /\ DOMAIN owner' = G /\ \A g \in G : owner'[g] = owner[g]
           /\ DOMAIN photo' = P /\ \A p \in P : photo'[p] = photo[p]
           /\ owner' \in [DOMAIN owner' -> Users]
           /\ photo' \in [DOMAIN photo' -> Member]
           /\ cover' \in [Galleries -> Photos \cup {None}]
           /\ \A g \in Galleries :
                 cover'[g] # None => g \in G /\ cover[g] \in P /\ cover'[g] = cover[g]
<1>1. owner' = [g \in G |-> owner[g]] /\ photo' = [p \in P |-> photo[p]]
  BY DEF Keeps, Restrict
<1>2. cover' = [g \in Galleries |-> IF g \in G /\ cover[g] \in P THEN cover[g] ELSE None]
  BY DEF Keeps
<1>3. cover' \in [Galleries -> Photos \cup {None}]
  BY <1>2 DEF TypeOK
<1> QED BY <1>1, <1>2, <1>3 DEF TypeOK, Member

-----------------------------------------------------------------------------
(* Every step is a deletion of rows, or one of the others.                 *)

\* What is the same of a step that deletes galleries and photos.
Deletes(r, G, P) ==
    /\ G \subseteq DOMAIN owner /\ P \subseteq DOMAIN photo
    /\ Keeps(G, P)
    /\ live' \subseteq live /\ late' \in BOOLEAN
    /\ editors' \subseteq editors
    /\ \A p \in P : photo[p].gallery \in G
    /\ \A m \in editors' : m[1] \in G
    /\ Goes(r, Idle)
    /\ UNCHANGED <<admins, born, setupDone, trusted, blind>>

\* The three actions that delete rows leave the tables as Deletes says.
LEMMA Deletions ==
    ASSUME TypeOK, References, NEW r \in Requests
    PROVE  /\ \A u \in Users : UsersDelete(r, u) => \E G, P : Deletes(r, G, P)
           /\ \A g \in Galleries : DeleteGallery(r, g) => \E G, P : Deletes(r, G, P)
           /\ \A p \in Photos : DeletePhoto(r, p) => \E G, P : Deletes(r, G, P)
<1>1. ASSUME NEW u \in Users, UsersDelete(r, u) PROVE \E G, P : Deletes(r, G, P)
  <2> DEFINE G == {g \in DOMAIN owner : owner[g] # u}
             P == {p \in DOMAIN photo : photo[p].gallery \in G /\ photo[p].by # u}
  <2>1. Deletes(r, G, P) BY <1>1 DEF UsersDelete, Deletes, TypeOK
  <2> QED BY <2>1
<1>2. ASSUME NEW g \in Galleries, DeleteGallery(r, g) PROVE \E G, P : Deletes(r, G, P)
  <2> DEFINE G == DOMAIN owner \ {g}
             P == {p \in DOMAIN photo : photo[p].gallery # g}
  <2>1. Deletes(r, G, P)
    BY <1>2 DEF DeleteGallery, Deletes, References, history, TypeOK
  <2> QED BY <2>1
<1>3. ASSUME NEW p \in Photos, DeletePhoto(r, p) PROVE \E G, P : Deletes(r, G, P)
  <2>1. Deletes(r, DOMAIN owner, DOMAIN photo \ {p})
    BY <1>3 DEF DeletePhoto, Deletes, References, history, TypeOK
  <2> QED BY <2>1
<1> QED BY <1>1, <1>2, <1>3

\* What is the same of a step that adds a user.
Inserts(r, u) ==
    /\ \E asAdmin \in BOOLEAN : Insert(u, asAdmin)
    /\ Goes(r, Idle)
    /\ UNCHANGED <<setupDone, tables, history>>

\* The three actions that make users change nothing but the users.
LEMMA Insertions ==
    ASSUME NEW r \in Requests, NEW u \in Users
    PROVE  /\ SetupCreates(r, u) => Inserts(r, u)
           /\ RegisterCreates(r, u) => Inserts(r, u)
           /\ \A asAdmin \in BOOLEAN : UsersCreate(r, u, asAdmin) => Inserts(r, u)
BY DEF SetupCreates, RegisterCreates, UsersCreate, Inserts

\* What is the same of a step that only lets a request go on.
Passes(r, x) ==
    /\ x \in Request
    /\ Goes(r, x)
    /\ setupDone' \in BOOLEAN /\ blind' \in BOOLEAN
    /\ UNCHANGED <<live, admins, born, tables, trusted, late>>

\* The steps of a request that only read change nothing but the request and the
\* flag of CheckSetup.
LEMMA Passing ==
    ASSUME TypeOK, NEW r \in Requests
    PROVE  /\ SetupCounts(r) => Passes(r, [at |-> "setup"])
           /\ RegisterPasses(r) => Passes(r, [at |-> "register"])
           /\ Ends(r) => Passes(r, Idle)
           /\ \A u \in Users : InjectUser(r, u) => Passes(r, [at |-> "user", by |-> u])
           /\ \A g \in Galleries, right \in Rights : Checks(r, g, right) =>
                 Passes(r, [at |-> right, by |-> req[r].by, gallery |-> g])
           /\ \A p \in Photos : CoverChecks(r, p) =>
                 Passes(r, [at |-> "cover", gallery |-> req[r].gallery, photo |-> p])
<1>1. req[r] \in Request
  BY DEF TypeOK
<1>2. SetupCounts(r) => Passes(r, [at |-> "setup"])
  BY Requests_ DEF SetupCounts, Passes, TypeOK, history, Anonymous
<1>3. RegisterPasses(r) => Passes(r, [at |-> "register"])
  BY Requests_ DEF RegisterPasses, Passes, TypeOK, history, Anonymous
<1>4. Ends(r) => Passes(r, Idle)
  BY Requests_ DEF Ends, Passes, TypeOK, history
<1>5. \A u \in Users : InjectUser(r, u) => Passes(r, [at |-> "user", by |-> u])
  BY Requests_ DEF InjectUser, Passes, TypeOK, history
<1>6. \A g \in Galleries, right \in Rights : Checks(r, g, right) =>
                 Passes(r, [at |-> right, by |-> req[r].by, gallery |-> g])
  BY <1>1, Requests_, RequestFields DEF Checks, Passes, TypeOK, history
<1>7. \A p \in Photos : CoverChecks(r, p) =>
                 Passes(r, [at |-> "cover", gallery |-> req[r].gallery, photo |-> p])
  BY <1>1, Requests_, RequestFields DEF CoverChecks, Passes, TypeOK, history, Rights
<1> QED BY <1>2, <1>3, <1>4, <1>5, <1>6, <1>7

\* The other steps, on galleries and photos that are there.
Others(r) ==
    \/ \E g \in Galleries : CreateGallery(r, g)
    \/ \E u \in Users, asEditor \in BOOLEAN : AddMember(r, u, asEditor)
    \/ \E u \in Users : RemoveMember(r, u)
    \/ SetCover(r)
    \/ \E p \in Photos : Upload(r, p)

-----------------------------------------------------------------------------
(* Types.                                                                  *)

\* No step leaves the types.
LEMMA NextType == TypeOK /\ References /\ [Next]_vars => TypeOK'
<1> SUFFICES ASSUME TypeOK, References, [Next]_vars PROVE TypeOK'
  OBVIOUS
<1>1. ASSUME NEW r \in Requests, NEW G, NEW P, Deletes(r, G, P) PROVE TypeOK'
  <2>1. req' \in [Requests -> Request]
    BY <1>1, GoesOn, Requests_ DEF Deletes
  <2>2. /\ DOMAIN owner' \subseteq DOMAIN owner /\ owner' \in [DOMAIN owner' -> Users]
        /\ DOMAIN photo' \subseteq DOMAIN photo /\ photo' \in [DOMAIN photo' -> Member]
        /\ cover' \in [Galleries -> Photos \cup {None}]
    BY <1>1, KeepsWhat DEF Deletes
  <2> QED BY <1>1, <2>1, <2>2 DEF Deletes, TypeOK, Member
<1>2. ASSUME NEW r \in Requests, NEW u \in Users, Inserts(r, u) PROVE TypeOK'
  <2>1. req' \in [Requests -> Request]
    BY <1>2, GoesOn, Requests_ DEF Inserts
  <2> QED BY <1>2, <2>1 DEF Inserts, Insert, TypeOK, tables, history
<1>3. ASSUME NEW r \in Requests, NEW x, Passes(r, x) PROVE TypeOK'
  <2>1. req' \in [Requests -> Request]
    BY <1>3, GoesOn DEF Passes
  <2> QED BY <1>3, <2>1 DEF Passes, TypeOK, tables
<1>4. ASSUME NEW r \in Requests, Others(r) PROVE TypeOK'
  <2>0. req[r] \in Request
    BY DEF TypeOK
  <2>1. ASSUME NEW g \in Galleries, CreateGallery(r, g) PROVE TypeOK'
    <3>1. req[r].by \in Users /\ req' \in [Requests -> Request]
      BY <2>0, <2>1, RequestFields, GoesOn, Requests_ DEF CreateGallery
    <3>2. owner' = [k \in DOMAIN owner \cup {g} |-> IF k = g THEN req[r].by ELSE owner[k]]
      BY <2>1 DEF CreateGallery
    <3> QED BY <2>1, <3>1, <3>2 DEF CreateGallery, TypeOK, history
  <2>2. ASSUME NEW u \in Users, NEW asEditor \in BOOLEAN, AddMember(r, u, asEditor) PROVE TypeOK'
    <3>1. req[r].gallery \in Galleries /\ req' \in [Requests -> Request]
      BY <2>0, <2>2, RequestFields, GoesOn, Requests_ DEF AddMember, Rights
    <3> QED BY <2>2, <3>1 DEF AddMember, TypeOK
  <2>3. ASSUME NEW u \in Users, RemoveMember(r, u) PROVE TypeOK'
    <3>1. req' \in [Requests -> Request]
      BY <2>3, GoesOn, Requests_ DEF RemoveMember
    <3> QED BY <2>3, <3>1 DEF RemoveMember, TypeOK, history
  <2>4. CASE SetCover(r)
    <3>1. /\ req[r].gallery \in Galleries /\ req[r].photo \in Photos
          /\ req' \in [Requests -> Request]
      BY <2>0, <2>4, RequestFields, GoesOn, Requests_ DEF SetCover
    <3>2. cover' \in [Galleries -> Photos \cup {None}]
      BY <2>4, <3>1 DEF SetCover, TypeOK
    <3> QED BY <2>4, <3>1, <3>2 DEF SetCover, TypeOK, history
  <2>5. ASSUME NEW p \in Photos, Upload(r, p) PROVE TypeOK'
    <3>1. req[r].gallery \in Galleries /\ req[r].by \in Users
      BY <2>0, <2>5, RequestFields DEF Upload, Rights
    <3>2. photo' = [k \in DOMAIN photo \cup {p} |->
             IF k = p THEN [gallery |-> req[r].gallery, by |-> req[r].by] ELSE photo[k]]
      BY <2>5 DEF Upload
    <3>3. photo' \in [DOMAIN photo' -> Member] /\ DOMAIN photo' \subseteq Photos \cap (born \cup {p})
      BY <3>1, <3>2 DEF TypeOK, Member
    <3> QED BY <2>5, <3>3 DEF Upload, TypeOK, Member, history
  <2> QED BY <1>4, <2>1, <2>2, <2>3, <2>4, <2>5 DEF Others
<1>5. CASE UNCHANGED vars
  BY <1>5 DEF vars, TypeOK, tables, history
<1> QED
  BY <1>1, <1>2, <1>3, <1>4, <1>5, Deletions, Insertions, Passing
     DEF Next, AccountStep, GalleryStep, Others

-----------------------------------------------------------------------------
(* Foreign keys.                                                           *)

\* No step leaves a reference behind: what is written refers to rows that are
\* there, and what is deleted takes along what refers to it.
LEMMA NextReferences == TypeOK /\ References /\ [Next]_vars => References'
<1> SUFFICES ASSUME TypeOK, References, [Next]_vars PROVE References'
  OBVIOUS
<1>1. ASSUME NEW r \in Requests, NEW G, NEW P, Deletes(r, G, P), live' = live
      PROVE  References'
  <2>1. /\ DOMAIN owner' = G /\ \A g \in G : owner'[g] = owner[g]
        /\ DOMAIN photo' = P /\ \A p \in P : photo'[p] = photo[p]
    BY <1>1, KeepsWhat DEF Deletes
  <2> QED BY <1>1, <2>1 DEF Deletes, References
<1>2. ASSUME NEW r \in Requests, NEW u \in Users, UsersDelete(r, u) PROVE References'
  <2> DEFINE G == {g \in DOMAIN owner : owner[g] # u}
             P == {p \in DOMAIN photo : photo[p].gallery \in G /\ photo[p].by # u}
  <2>1. /\ live' = live \ {u}
        /\ editors' = {m \in editors : m[1] \in G /\ m[2] # u}
        /\ Keeps(G, P)
    BY <1>2 DEF UsersDelete
  <2>2. G \subseteq DOMAIN owner /\ P \subseteq DOMAIN photo
    OBVIOUS
  <2> HIDE DEF G, P
  <2>3. /\ DOMAIN owner' = G /\ \A g \in G : owner'[g] = owner[g]
        /\ DOMAIN photo' = P /\ \A p \in P : photo'[p] = photo[p]
    BY <2>1, <2>2, KeepsWhat
  <2> QED BY <2>1, <2>3 DEF G, P, References
<1>3. ASSUME NEW r \in Requests, NEW g \in Galleries, DeleteGallery(r, g) PROVE live' = live
  BY <1>3 DEF DeleteGallery
<1>4. ASSUME NEW r \in Requests, NEW p \in Photos, DeletePhoto(r, p) PROVE live' = live
  BY <1>4 DEF DeletePhoto
<1>5. ASSUME NEW r \in Requests, NEW u \in Users, Inserts(r, u) PROVE References'
  BY <1>5 DEF Inserts, Insert, References, tables
<1>6. ASSUME NEW r \in Requests, NEW x, Passes(r, x) PROVE References'
  BY <1>6 DEF Passes, References, tables
<1>7. ASSUME NEW r \in Requests, Others(r) PROVE References'
  <2>1. ASSUME NEW g \in Galleries, CreateGallery(r, g) PROVE References'
    <3>1. /\ req[r].by \in live
          /\ owner' = [k \in DOMAIN owner \cup {g} |-> IF k = g THEN req[r].by ELSE owner[k]]
          /\ UNCHANGED <<live, editors, photo>>
      BY <2>1 DEF CreateGallery
    <3>2. DOMAIN owner' = DOMAIN owner \cup {g} /\ \A k \in DOMAIN owner' : owner'[k] \in live
      BY <3>1 DEF References
    <3> QED BY <3>1, <3>2 DEF References
  <2>2. ASSUME NEW u \in Users, NEW asEditor \in BOOLEAN, AddMember(r, u, asEditor)
        PROVE  References'
    BY <2>2 DEF AddMember, References
  <2>3. ASSUME NEW u \in Users, RemoveMember(r, u) PROVE References'
    BY <2>3 DEF RemoveMember, References
  <2>4. CASE SetCover(r)
    BY <2>4 DEF SetCover, References
  <2>5. ASSUME NEW p \in Photos, Upload(r, p) PROVE References'
    BY <2>5 DEF Upload, References, TypeOK
  <2> QED BY <1>7, <2>1, <2>2, <2>3, <2>4, <2>5 DEF Others
<1>8. CASE UNCHANGED vars
  BY <1>8 DEF vars, References, tables
<1> QED
  BY <1>1, <1>2, <1>3, <1>4, <1>5, <1>6, <1>7, <1>8, Deletions, Insertions, Passing
     DEF Next, AccountStep, GalleryStep, Others

-----------------------------------------------------------------------------
(* Uploaders and covers.                                                   *)

\* No step lets anybody upload who was not allowed to.
LEMMA NextUploaders == TypeOK /\ References /\ Uploaders /\ [Next]_vars => Uploaders'
<1> SUFFICES ASSUME TypeOK, References, Uploaders, [Next]_vars PROVE Uploaders'
  OBVIOUS
<1> USE DEF Uploaders, UploadersWereEditors
<1>0. ASSUME NEW r \in Requests PROVE Idle.at # "editor" /\ req[r] \in Request
  BY DEF Idle, TypeOK
<1>1. ASSUME NEW r \in Requests, NEW G, NEW P, Deletes(r, G, P) PROVE Uploaders'
  <2>0. /\ DOMAIN owner' = G /\ \A g \in G : owner'[g] = owner[g]
        /\ DOMAIN photo' = P /\ \A p \in P : photo'[p] = photo[p]
    BY <1>1, KeepsWhat DEF Deletes
  <2>1. /\ DOMAIN owner' \subseteq DOMAIN owner /\ \A g \in DOMAIN owner' : owner'[g] = owner[g]
        /\ DOMAIN photo' \subseteq DOMAIN photo /\ \A p \in DOMAIN photo' : photo'[p] = photo[p]
        /\ \A p \in DOMAIN photo' : photo[p].gallery \in DOMAIN owner'
    BY <1>1, <2>0 DEF Deletes
  <2>2. \A q \in Requests : req'[q].at = "editor" => req'[q] = req[q]
    BY <1>0, <1>1, GoesOn, Requests_ DEF Deletes
  <2> QED BY <1>1, <2>1, <2>2 DEF Deletes
<1>2. ASSUME NEW r \in Requests, NEW u \in Users, Inserts(r, u) PROVE Uploaders'
  <2>1. \A q \in Requests : req'[q].at = "editor" => req'[q] = req[q]
    BY <1>0, <1>2, GoesOn, Requests_ DEF Inserts
  <2>2. born \subseteq born' /\ UNCHANGED <<owner, editors, photo, trusted>>
    BY <1>2 DEF Inserts, Insert, tables, history
  <2> QED BY <2>1, <2>2
<1>3. ASSUME NEW r \in Requests, NEW x, Passes(r, x), x.at # "editor" PROVE Uploaders'
  <2>1. \A q \in Requests : req'[q].at = "editor" => req'[q] = req[q]
    BY <1>3, GoesOn DEF Passes
  <2> QED BY <1>3, <2>1 DEF Passes, tables
<1>4. ASSUME NEW r \in Requests, NEW g \in Galleries, NEW right \in Rights, Checks(r, g, right)
      PROVE  Uploaders'
  <2> DEFINE x == [at |-> right, by |-> req[r].by, gallery |-> g]
  <2>1. /\ x \in Request /\ Goes(r, x) /\ UNCHANGED <<born, owner, editors, photo, trusted>>
    BY <1>4, Passing DEF Passes, tables
  <2>2. g \in born /\ g \in DOMAIN owner
    BY <1>4 DEF Checks, TypeOK
  <2>3. right = "editor" => owner[g] = x.by \/ <<g, x.by>> \in trusted
    BY <1>4 DEF Checks, MayEdit
  <2>4. req'[r] = x /\ \A q \in Requests : q # r => req'[q] = req[q]
    BY <2>1, GoesOn
  <2> QED BY <2>1, <2>2, <2>3, <2>4
<1>5. ASSUME NEW r \in Requests, Others(r) PROVE Uploaders'
  <2>1. ASSUME NEW g \in Galleries, CreateGallery(r, g) PROVE Uploaders'
    <3>1. \A q \in Requests : req'[q].at = "editor" => req'[q] = req[q]
      BY <1>0, <2>1, GoesOn, Requests_ DEF CreateGallery
    <3>2. /\ g \notin born /\ born' = born \cup {g}
          /\ owner' = [k \in DOMAIN owner \cup {g} |-> IF k = g THEN req[r].by ELSE owner[k]]
          /\ UNCHANGED <<editors, photo, trusted>>
      BY <2>1 DEF CreateGallery, history
    <3>3. \A k \in DOMAIN owner : owner'[k] = owner[k]
      BY <3>2 DEF TypeOK
    <3>4. \A k \in born : k \in DOMAIN owner' => k \in DOMAIN owner
      BY <3>2
    <3> QED BY <3>1, <3>2, <3>3, <3>4 DEF References
  <2>2. ASSUME NEW u \in Users, NEW asEditor \in BOOLEAN, AddMember(r, u, asEditor)
        PROVE  Uploaders'
    <3>1. \A q \in Requests : req'[q].at = "editor" => req'[q] = req[q]
      BY <1>0, <2>2, GoesOn, Requests_ DEF AddMember
    <3> QED BY <2>2, <3>1 DEF AddMember
  <2>3. ASSUME NEW u \in Users, RemoveMember(r, u) PROVE Uploaders'
    <3>1. \A q \in Requests : req'[q].at = "editor" => req'[q] = req[q]
      BY <1>0, <2>3, GoesOn, Requests_ DEF RemoveMember
    <3> QED BY <2>3, <3>1 DEF RemoveMember, history
  <2>4. CASE SetCover(r)
    <3>1. \A q \in Requests : req'[q].at = "editor" => req'[q] = req[q]
      BY <1>0, <2>4, GoesOn, Requests_ DEF SetCover
    <3> QED BY <2>4, <3>1 DEF SetCover, history
  <2>5. ASSUME NEW p \in Photos, Upload(r, p) PROVE Uploaders'
    BY <2>5 DEF Upload, history
  <2> QED BY <1>5, <2>1, <2>2, <2>3, <2>4, <2>5 DEF Others
<1>6. CASE UNCHANGED vars
  BY <1>6 DEF vars, tables, history
<1>7. ASSUME NEW r \in Requests, SetupCounts(r) \/ RegisterPasses(r) \/ Ends(r) PROVE Uploaders'
  BY <1>0, <1>3, <1>7, Passing
<1>8. ASSUME NEW r \in Requests, NEW u \in Users, InjectUser(r, u) PROVE Uploaders'
  BY <1>3, <1>8, Passing
<1>9. ASSUME NEW r \in Requests, NEW p \in Photos, CoverChecks(r, p) PROVE Uploaders'
  BY <1>3, <1>9, Passing
<1> QED
  BY <1>1, <1>2, <1>4, <1>5, <1>6, <1>7, <1>8, <1>9, Deletions, Insertions
     DEF Next, AccountStep, GalleryStep, Others

\* No step makes a cover of another gallery's photo.
LEMMA NextCovers == TypeOK /\ References /\ Covers /\ [Next]_vars => Covers'
<1> SUFFICES ASSUME TypeOK, References, Covers, [Next]_vars PROVE Covers'
  OBVIOUS
<1> USE DEF Covers, CoverInGallery, IsPhotoOf
<1>0. Idle.at # "cover" /\ \A r \in Requests : req[r] \in Request
  BY DEF Idle, TypeOK
<1>1. ASSUME NEW r \in Requests, NEW G, NEW P, Deletes(r, G, P) PROVE Covers'
  <2>1. /\ DOMAIN owner' = G /\ \A g \in G : owner'[g] = owner[g]
        /\ DOMAIN photo' = P /\ \A p \in P : photo'[p] = photo[p]
        /\ \A g \in Galleries :
              cover'[g] # None => g \in G /\ cover[g] \in P /\ cover'[g] = cover[g]
    BY <1>1, KeepsWhat DEF Deletes
  <2>2. \A q \in Requests : req'[q].at = "cover" => req'[q] = req[q]
    BY <1>0, <1>1, GoesOn, Requests_ DEF Deletes
  <2> QED BY <1>1, <2>1, <2>2 DEF Deletes
<1>2. ASSUME NEW r \in Requests, NEW u \in Users, Inserts(r, u) PROVE Covers'
  <2>1. \A q \in Requests : req'[q].at = "cover" => req'[q] = req[q]
    BY <1>0, <1>2, GoesOn, Requests_ DEF Inserts
  <2>2. born \subseteq born' /\ UNCHANGED <<owner, photo, cover>>
    BY <1>2 DEF Inserts, Insert, tables
  <2> QED BY <2>1, <2>2
<1>3. ASSUME NEW r \in Requests, NEW x, Passes(r, x), x.at # "cover" PROVE Covers'
  <2>1. \A q \in Requests : req'[q].at = "cover" => req'[q] = req[q]
    BY <1>3, GoesOn DEF Passes
  <2> QED BY <1>3, <2>1 DEF Passes, tables
<1>4. ASSUME NEW r \in Requests, NEW p \in Photos, CoverChecks(r, p) PROVE Covers'
  <2> DEFINE x == [at |-> "cover", gallery |-> req[r].gallery, photo |-> p]
  <2>1. /\ x \in Request /\ Goes(r, x) /\ UNCHANGED <<born, owner, photo, cover>>
    BY <1>4, Passing DEF Passes, tables
  <2>2. p \in DOMAIN photo /\ p \in born /\ photo[p].gallery = x.gallery
    BY <1>4 DEF CoverChecks, TypeOK
  <2>3. req'[r] = x /\ \A q \in Requests : q # r => req'[q] = req[q]
    BY <2>1, GoesOn
  <2> QED BY <2>1, <2>2, <2>3
<1>5. ASSUME NEW r \in Requests, Others(r) PROVE Covers'
  <2>1. ASSUME NEW g \in Galleries, CreateGallery(r, g) PROVE Covers'
    <3>1. \A q \in Requests : req'[q].at = "cover" => req'[q] = req[q]
      BY <1>0, <2>1, GoesOn, Requests_ DEF CreateGallery
    <3> QED BY <2>1, <3>1 DEF CreateGallery
  <2>2. ASSUME NEW u \in Users, NEW asEditor \in BOOLEAN, AddMember(r, u, asEditor)
        PROVE  Covers'
    <3>1. \A q \in Requests : req'[q].at = "cover" => req'[q] = req[q]
      BY <1>0, <2>2, GoesOn, Requests_ DEF AddMember
    <3> QED BY <2>2, <3>1 DEF AddMember
  <2>3. ASSUME NEW u \in Users, RemoveMember(r, u) PROVE Covers'
    <3>1. \A q \in Requests : req'[q].at = "cover" => req'[q] = req[q]
      BY <1>0, <2>3, GoesOn, Requests_ DEF RemoveMember
    <3> QED BY <2>3, <3>1 DEF RemoveMember
  <2>4. CASE SetCover(r)
    <3> DEFINE x == req[r]
    <3>1. \A q \in Requests : req'[q].at = "cover" => req'[q] = req[q]
      BY <1>0, <2>4, GoesOn, Requests_ DEF SetCover
    <3>2. /\ x.at = "cover" /\ x.photo \in DOMAIN photo
          /\ UNCHANGED <<born, owner, photo>>
          /\ cover' = IF x.gallery \in DOMAIN owner THEN [cover EXCEPT ![x.gallery] = x.photo]
                      ELSE cover
      BY <2>4 DEF SetCover
    <3>3. photo[x.photo].gallery = x.gallery
      BY <3>2
    <3>4. \A g \in Galleries : cover'[g] = cover[g]
                \/ (g = x.gallery /\ g \in DOMAIN owner /\ cover'[g] = x.photo)
      BY <3>2 DEF TypeOK
    <3> QED BY <3>1, <3>2, <3>3, <3>4
  <2>5. ASSUME NEW p \in Photos, Upload(r, p) PROVE Covers'
    <3>1. /\ p \notin born /\ born' = born \cup {p} /\ UNCHANGED <<req, owner, cover>>
          /\ DOMAIN photo' = DOMAIN photo \cup {p}
          /\ \A k \in DOMAIN photo : k # p => photo'[k] = photo[k]
      BY <2>5 DEF Upload
    <3>2. p \notin DOMAIN photo
      BY <3>1 DEF TypeOK
    <3> QED BY <3>1, <3>2
  <2> QED BY <1>5, <2>1, <2>2, <2>3, <2>4, <2>5 DEF Others
<1>6. CASE UNCHANGED vars
  BY <1>6 DEF vars, tables
<1>7. ASSUME NEW r \in Requests, SetupCounts(r) \/ RegisterPasses(r) \/ Ends(r) PROVE Covers'
  BY <1>0, <1>3, <1>7, Passing
<1>8. ASSUME NEW r \in Requests, NEW u \in Users, InjectUser(r, u) PROVE Covers'
  BY <1>3, <1>8, Passing
<1>9. ASSUME NEW r \in Requests, NEW g \in Galleries, NEW right \in Rights, Checks(r, g, right)
      PROVE  Covers'
  <2> DEFINE x == [at |-> right, by |-> req[r].by, gallery |-> g]
  <2>1. Passes(r, x) BY <1>9, Passing
  <2>2. x.at # "cover" BY DEF Rights
  <2> HIDE DEF x
  <2> QED BY <1>3, <2>1, <2>2
<1> QED
  BY <1>1, <1>2, <1>4, <1>5, <1>6, <1>7, <1>8, <1>9, Deletions, Insertions
     DEF Next, AccountStep, GalleryStep, Others

-----------------------------------------------------------------------------
(* Administrators.                                                         *)

\* No step leaves users without an administrator, the exceptions excepted.
LEMMA NextAdmission == TypeOK /\ Admission /\ [Next]_vars => Admission'
<1> SUFFICES ASSUME TypeOK, Admission, [Next]_vars PROVE Admission'
  OBVIOUS
<1> USE DEF Admission, AdminRemains
<1>0. Idle.at \notin {"register", "user"}
  BY DEF Idle
<1>1. ASSUME NEW r \in Requests, NEW x \in Request, Goes(r, x),
             x.at \in {"register", "user"} => setupDone', setupDone => setupDone'
      PROVE  \A q \in Requests : req'[q].at \in {"register", "user"} => setupDone'
  BY <1>1, GoesOn
<1>2. ASSUME UNCHANGED <<live, admins, setupDone, late, blind>>, NEW r \in Requests,
             NEW x \in Request, Goes(r, x), x.at \in {"register", "user"} => setupDone
      PROVE  Admission'
  BY <1>1, <1>2
<1>3. ASSUME NEW r \in Requests, NEW u \in Users, UsersDelete(r, u) PROVE Admission'
  <2>1. /\ req[r].at = "user" /\ req[r].by \in admins /\ req[r].by # u
        /\ live' = live \ {u} /\ late' = (late \/ req[r].by \notin live)
        /\ Goes(r, Idle) /\ UNCHANGED <<admins, setupDone, blind>>
    BY <1>3 DEF UsersDelete, MayDelete, IsAdmin
  <2>2. \A q \in Requests : req'[q].at \in {"register", "user"} => setupDone'
    BY <1>0, <1>1, <2>1, Requests_
  <2>3. ~late' => req[r].by \in live' \cap admins'
    BY <2>1
  <2> QED BY <2>2, <2>3
<1>4. ASSUME NEW r \in Requests, NEW u \in Users, SetupCreates(r, u) PROVE Admission'
  <2>1. /\ live' = live \cup {u} /\ admins' = admins \cup {u}
        /\ Goes(r, Idle) /\ UNCHANGED <<setupDone, late, blind>>
    BY <1>4 DEF SetupCreates, Insert, history
  <2>2. \A q \in Requests : req'[q].at \in {"register", "user"} => setupDone'
    BY <1>0, <1>1, <2>1, Requests_
  <2> QED BY <2>1, <2>2
<1>5. ASSUME NEW r \in Requests, NEW u \in Users, NEW asAdmin \in BOOLEAN,
             RegisterCreates(r, u) \/ UsersCreate(r, u, asAdmin)
      PROVE  Admission'
  <2>1. /\ req[r].at \in {"register", "user"}
        /\ live' = live \cup {u} /\ admins \subseteq admins'
        /\ Goes(r, Idle) /\ UNCHANGED <<setupDone, late, blind>>
    BY <1>5 DEF RegisterCreates, UsersCreate, IsAdmin, Insert, history
  <2>2. \A q \in Requests : req'[q].at \in {"register", "user"} => setupDone'
    BY <1>0, <1>1, <2>1, Requests_
  <2>3. ~late' /\ ~blind' => live \cap admins # {}
    BY <2>1
  <2> QED BY <2>1, <2>2, <2>3
<1>6. ASSUME NEW r \in Requests, RegisterPasses(r) PROVE Admission'
  <2>1. /\ setupDone' = TRUE /\ blind' = (blind \/ (~setupDone /\ live = {}))
        /\ UNCHANGED <<live, admins, late>>
    BY <1>6 DEF RegisterPasses
  <2> QED BY <2>1
<1>7. ASSUME NEW r \in Requests, NEW u \in Users, InjectUser(r, u) PROVE Admission'
  <2>1. setupDone' = TRUE /\ u \in live /\ UNCHANGED <<live, admins, late, blind>>
    BY <1>7 DEF InjectUser, history
  <2> QED BY <2>1
<1>8. ASSUME NEW r \in Requests,
             SetupCounts(r) \/ Ends(r)
             \/ (\E g \in Galleries, right \in Rights : Checks(r, g, right))
             \/ (\E p \in Photos : CoverChecks(r, p))
      PROVE  Admission'
  <2>1. PICK x \in Request : Goes(r, x) /\ x.at \notin {"register", "user"}
    BY <1>0, <1>8, Passing DEF Passes, Rights
  <2>2. UNCHANGED <<live, admins, setupDone, late, blind>>
    BY <1>8 DEF SetupCounts, Ends, Checks, CoverChecks, history
  <2> QED BY <1>2, <2>1, <2>2
<1>9. ASSUME NEW r \in Requests,
             (\E p \in Photos : DeletePhoto(r, p))
             \/ (\E g \in Galleries : DeleteGallery(r, g) \/ CreateGallery(r, g))
             \/ (\E u \in Users, asEditor \in BOOLEAN : AddMember(r, u, asEditor))
             \/ (\E u \in Users : RemoveMember(r, u)) \/ SetCover(r)
      PROVE  Admission'
  <2>1. Goes(r, Idle) /\ UNCHANGED <<live, admins, setupDone, late, blind>>
    BY <1>9 DEF DeletePhoto, DeleteGallery, CreateGallery, AddMember, RemoveMember, SetCover, history
  <2> QED BY <1>0, <1>2, <2>1, Requests_
<1>10. ASSUME NEW r \in Requests, NEW p \in Photos, Upload(r, p) PROVE Admission'
  BY <1>10 DEF Upload, history
<1>11. CASE UNCHANGED vars
  BY <1>11 DEF vars, history
<1> QED
  BY <1>3, <1>4, <1>5, <1>6, <1>7, <1>8, <1>9, <1>10, <1>11 DEF Next, AccountStep, GalleryStep

-----------------------------------------------------------------------------
\* No step leaves the invariant.
LEMMA NextIInv == IInv /\ [Next]_vars => IInv'
BY NextType, NextReferences, NextUploaders, NextCovers, NextAdmission DEF IInv

\* The tables and the requests stay what their types say.
THEOREM TypeCorrect == Spec => []TypeOK
<1>1. IInv => TypeOK BY DEF IInv
<1> QED BY InitIInv, NextIInv, <1>1, PTL DEF Spec

\* However many set up at once, and however administrators delete each other.
THEOREM AdminRemainsProved == Spec => []AdminRemains
<1>1. IInv => AdminRemains BY DEF IInv, Admission
<1> QED BY InitIInv, NextIInv, <1>1, PTL DEF Spec

\* Whoever uploads had the right to, for any number of requests under way and
\* memberships that come and go.
THEOREM UploadersProved == Spec => []UploadersWereEditors
<1>1. IInv => UploadersWereEditors BY DEF IInv, Uploaders
<1> QED BY InitIInv, NextIInv, <1>1, PTL DEF Spec

\* Covers are set late and cleared with their photos.
THEOREM CoversProved == Spec => []CoverInGallery
<1>1. IInv => CoverInGallery BY DEF IInv, Covers
<1> QED BY InitIInv, NextIInv, <1>1, PTL DEF Spec

\* uploaded_by keeps a user whose photos are in a gallery of somebody else.
THEOREM OthersPhotosStayProved == Spec => OthersPhotosStay
<1> DEFINE A == \A u \in live : u \notin live' =>
              \A p \in DOMAIN photo : owner[photo[p].gallery] # u => p \in DOMAIN photo'
<1>1. TypeOK /\ References /\ [Next]_vars => A
  <2> SUFFICES ASSUME TypeOK, References, [Next]_vars PROVE A
    OBVIOUS
  <2>1. CASE live \subseteq live' BY <2>1
  <2>2. ASSUME NEW r \in Requests, NEW u \in Users, UsersDelete(r, u) PROVE A
    <3> DEFINE G == {g \in DOMAIN owner : owner[g] # u}
               P == {p \in DOMAIN photo : photo[p].gallery \in G /\ photo[p].by # u}
    <3>1. live' = live \ {u} /\ Blocks(u) = {} /\ Keeps(G, P)
      BY <2>2 DEF UsersDelete
    <3>2. DOMAIN photo' = P
      BY <3>1, KeepsWhat
    <3>3. ASSUME NEW p \in DOMAIN photo, owner[photo[p].gallery] # u PROVE p \in P
      <4>1. photo[p].gallery \in DOMAIN owner BY DEF References
      <4>2. photo[p].by # u BY <3>1, <3>3 DEF Blocks
      <4> QED BY <3>3, <4>1, <4>2
    <3> QED BY <3>1, <3>2, <3>3
  <2>3. ASSUME NEW r \in Requests, NEW u \in Users, Inserts(r, u) PROVE A
    BY <2>1, <2>3 DEF Inserts, Insert
  <2>4. ASSUME NEW r \in Requests, NEW x, Passes(r, x) PROVE A
    BY <2>1, <2>4 DEF Passes
  <2>5. ASSUME NEW r \in Requests, GalleryStep(r) PROVE A
    BY <2>1, <2>5 DEF GalleryStep, CreateGallery, DeleteGallery, Checks, RemoveMember, AddMember,
       SetCover, CoverChecks, Upload, DeletePhoto
  <2> QED
    BY <2>1, <2>2, <2>3, <2>4, <2>5, Insertions, Passing DEF Next, AccountStep, vars
<1>2. IInv => TypeOK /\ References BY DEF IInv
<1> QED BY InitIInv, NextIInv, <1>1, <1>2, PTL DEF Spec, OthersPhotosStay
=============================================================================
