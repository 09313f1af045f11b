------------------------- MODULE GalleryAccessProofs -------------------------
(***************************************************************************)
(* Proofs about GalleryAccess, for any galleries, visitors, editors and    *)
(* lifetime: what a cookie is worth, and what becomes of a password.       *)
(***************************************************************************)
EXTENDS GalleryAccess, TLAPS

\* A session lives no longer than the proof of the visitor who has its cookie.
JarPaid == \A v \in Visitors, s \in Slugs :
    LET t == jar[v][s] IN
    t \in DOMAIN session => session[t].left <= proof[v][session[t].gallery]

\* The inductive invariant.
IInv == TypeOK /\ JarPaid /\ UnprotectedForgets

\* An update that has read a gallery, and a session that is open.
Edit == [gallery : Galleries, hash : MaybeHash]
Session == [gallery : Galleries, left : -1..Lifetime]

-----------------------------------------------------------------------------
\* There are no galleries and no cookies at first.
LEMMA InitIInv == Init => IInv
<1> SUFFICES ASSUME Init PROVE IInv
  OBVIOUS
<1> USE AccessAssumption
<1>1. TypeOK
  <2>1. DOMAIN row = {} /\ DOMAIN session = {} BY DEF Init
  <2>2. row \in [DOMAIN row -> Row] /\ session \in [DOMAIN session -> Session]
    BY <2>1 DEF Init
  <2>3. jar \in [Visitors -> [Slugs -> drawn \cup {None}]] BY DEF Init
  <2>4. /\ unlock \in [Visitors -> {Idle} \cup [gallery : Galleries, slug : Slugs]]
        /\ edit \in [Editors -> {Idle} \cup Edit]
    BY DEF Init
  <2>5. proof \in [Visitors -> [Galleries -> 0..Lifetime]] BY DEF Init
  <2> QED BY <2>1, <2>2, <2>3, <2>4, <2>5 DEF Init, TypeOK, Edit, Session
<1>2. JarPaid BY DEF Init, JarPaid
<1>3. UnprotectedForgets BY DEF Init, UnprotectedForgets
<1> QED BY <1>1, <1>2, <1>3 DEF IInv

\* A request under way is of a gallery, and so is not the idle one.
LEMMA RequestsAreNotIdle ==
    /\ \A x \in Edit : x # Idle /\ x.gallery # None
    /\ \A x \in [gallery : Galleries, slug : Slugs] : x # Idle /\ x.gallery # None
BY AccessAssumption DEF Edit, Idle

\* The hash of a form is new, and computed for a protected gallery only.
LEMMA FormHashMade ==
    ASSUME TypeOK, NEW vis \in Visibilities, NEW h \in MaybeHash, FormHash(vis, h)
    PROVE  /\ made \subseteq made' /\ made' \subseteq Hashes
           /\ h \in made' \cup {None}
           /\ h # None => h \notin made /\ vis = "protected"
BY AccessAssumption DEF FormHash, TypeOK, MaybeHash

-----------------------------------------------------------------------------
(* Types.                                                                  *)

\* No step leaves the types.
LEMMA NextType == TypeOK /\ [Next]_vars => TypeOK'
<1> SUFFICES ASSUME TypeOK, [Next]_vars PROVE TypeOK'
  OBVIOUS
<1> USE AccessAssumption DEF Edit, Session
<1>1. ASSUME NEW g \in Galleries, NEW s \in Slugs, NEW vis \in Visibilities, NEW h \in MaybeHash,
             CreateGallery(g, s, vis, h)
      PROVE  TypeOK'
  <2>1. [slug |-> s, vis |-> vis, hash |-> h] \in Row
    BY DEF Row
  <2>2. made \subseteq made' /\ made' \subseteq Hashes
    BY <1>1, FormHashMade DEF CreateGallery
  <2>3. /\ row' = [k \in DOMAIN row \cup {g} |->
                IF k = g THEN [slug |-> s, vis |-> vis, hash |-> h] ELSE row[k]]
        /\ born' = born \cup {g}
        /\ UNCHANGED <<drawn, session, jar, unlock, edit, proof>>
    BY <1>1 DEF CreateGallery, requests
  <2>4. row' \in [DOMAIN row' -> Row] /\ DOMAIN row' \subseteq born'
    BY <2>1, <2>3 DEF TypeOK
  <2> QED BY <2>2, <2>3, <2>4 DEF TypeOK
<1>2. ASSUME NEW e \in Editors, NEW g \in Galleries, UpdateReads(e, g) PROVE TypeOK'
  <2>1. [gallery |-> g, hash |-> row[g].hash] \in Edit
    BY <1>2 DEF UpdateReads, TypeOK, Row
  <2> QED BY <1>2, <2>1 DEF UpdateReads, TypeOK
<1>3. ASSUME NEW g \in Galleries, DeleteGallery(g) PROVE TypeOK'
  <2> DEFINE T == {t \in DOMAIN session : session[t].gallery # g}
  <2>1. /\ row' = [k \in DOMAIN row \ {g} |-> row[k]]
        /\ session' = [t \in T |-> session[t]]
        /\ UNCHANGED <<born, made, drawn, jar, unlock, edit, proof>>
    BY <1>3 DEF DeleteGallery, Restrict, requests
  <2> QED BY <2>1 DEF TypeOK
<1>4. ASSUME NEW e \in Editors, NEW s \in Slugs, NEW vis \in Visibilities, NEW h \in MaybeHash,
             UpdateWrites(e, s, vis, h)
      PROVE  TypeOK'
  <2> DEFINE g == edit[e].gallery
  <2>1. g # None /\ edit[e] \in Edit /\ g \in Galleries
    BY <1>4 DEF UpdateWrites, TypeOK, Idle
  <2>2. NewHash(e, vis, h) \in MaybeHash
    BY <2>1 DEF NewHash, MaybeHash
  <2>3. [slug |-> s, vis |-> vis, hash |-> NewHash(e, vis, h)] \in Row
    BY <2>2 DEF Row
  <2>4. made \subseteq made' /\ made' \subseteq Hashes
    BY <1>4, FormHashMade DEF UpdateWrites
  <2>5. UNCHANGED <<born, drawn, session, jar, unlock, proof>>
    BY <1>4 DEF UpdateWrites
  <2>6. edit' \in [Editors -> {Idle} \cup Edit]
    BY <1>4 DEF UpdateWrites, TypeOK
  <2>7. row' \in [DOMAIN row' -> Row] /\ DOMAIN row' \subseteq born'
    <3>1. CASE g \in DOMAIN row
      BY <1>4, <2>3, <2>5, <3>1 DEF UpdateWrites, Update, TypeOK
    <3>2. CASE g \notin DOMAIN row
      BY <1>4, <2>5, <3>2 DEF UpdateWrites, Update, TypeOK
    <3> QED BY <3>1, <3>2
  <2> QED BY <2>4, <2>5, <2>6, <2>7 DEF TypeOK
<1>5. ASSUME NEW e \in Editors, UpdateErrs(e) PROVE TypeOK'
  BY <1>5 DEF UpdateErrs, TypeOK
<1>6. ASSUME NEW v \in Visitors, NEW g \in Galleries, UnlockPost(v, g) PROVE TypeOK'
  <2>1. [gallery |-> g, slug |-> row[g].slug] \in [gallery : Galleries, slug : Slugs]
    BY <1>6 DEF UnlockPost, TypeOK, Row
  <2> QED BY <1>6, <2>1 DEF UnlockPost, TypeOK
<1>7. ASSUME NEW v \in Visitors, NEW t \in Tokens, OpenSession(v, t) PROVE TypeOK'
  <2> DEFINE u == unlock[v]
  <2>1. u \in [gallery : Galleries, slug : Slugs]
    BY <1>7 DEF OpenSession, TypeOK, Idle
  <2>2. /\ drawn' = drawn \cup {t}
        /\ session' = [k \in DOMAIN session \cup {t} |->
              IF k = t THEN [gallery |-> u.gallery, left |-> Lifetime] ELSE session[k]]
        /\ jar' = [jar EXCEPT ![v] = [@ EXCEPT ![u.slug] = t]]
        /\ proof' = [proof EXCEPT ![v] = [@ EXCEPT ![u.gallery] = Lifetime]]
        /\ unlock' = [unlock EXCEPT ![v] = Idle]
        /\ UNCHANGED <<row, born, made, edit>>
    BY <1>7 DEF OpenSession
  <2>3. [gallery |-> u.gallery, left |-> Lifetime] \in Session
    BY <2>1
  <2>4. session' \in [DOMAIN session' -> Session] /\ DOMAIN session' \subseteq drawn'
    BY <2>2, <2>3 DEF TypeOK
  <2>5. jar' \in [Visitors -> [Slugs -> drawn' \cup {None}]]
    <3>1. [jar[v] EXCEPT ![u.slug] = t] \in [Slugs -> drawn' \cup {None}]
      BY <2>1, <2>2 DEF TypeOK
    <3> QED BY <2>2, <3>1 DEF TypeOK
  <2>6. proof' \in [Visitors -> [Galleries -> 0..Lifetime]]
    <3>1. [proof[v] EXCEPT ![u.gallery] = Lifetime] \in [Galleries -> 0..Lifetime]
      BY <2>1 DEF TypeOK
    <3> QED BY <2>2, <3>1 DEF TypeOK
  <2> QED BY <2>2, <2>4, <2>5, <2>6 DEF TypeOK
<1>8. ASSUME NEW v \in Visitors, UnlockErrs(v) PROVE TypeOK'
  BY <1>8 DEF UnlockErrs, TypeOK
<1>9. CASE Tick
  <2>1. session' \in [DOMAIN session' -> Session] /\ DOMAIN session' = DOMAIN session
    BY <1>9 DEF Tick, TypeOK, Less
  <2>2. proof' \in [Visitors -> [Galleries -> 0..Lifetime]]
    BY <1>9 DEF Tick, TypeOK, Less
  <2> QED BY <1>9, <2>1, <2>2 DEF Tick, TypeOK, requests
<1>10. CASE DeleteExpired
  <2>1. session' = [t \in {k \in DOMAIN session : ~Expired(k)} |-> session[t]]
    BY <1>10 DEF DeleteExpired, Restrict
  <2> QED BY <1>10, <2>1 DEF DeleteExpired, TypeOK, requests
<1>11. CASE UNCHANGED vars
  BY <1>11 DEF vars, TypeOK, requests
<1> QED
  BY <1>1, <1>2, <1>3, <1>4, <1>5, <1>6, <1>7, <1>8, <1>9, <1>10, <1>11
     DEF Next, EditorStep, VisitorStep

-----------------------------------------------------------------------------
(* Cookies.                                                                *)

\* No step lets a session outlive the proof of who has its cookie.
LEMMA NextJarPaid == TypeOK /\ JarPaid /\ [Next]_vars => JarPaid'
<1> SUFFICES ASSUME TypeOK, JarPaid, [Next]_vars PROVE JarPaid'
  OBVIOUS
<1> USE AccessAssumption
<1>1. CASE UNCHANGED <<session, jar, proof>>
  BY <1>1 DEF JarPaid
<1>2. ASSUME NEW T, T \subseteq DOMAIN session, session' = Restrict(session, T),
             UNCHANGED <<jar, proof>>
      PROVE  JarPaid'
  BY <1>2 DEF JarPaid, Restrict
<1>3. ASSUME NEW v \in Visitors, NEW t \in Tokens, OpenSession(v, t) PROVE JarPaid'
  <2> DEFINE u == unlock[v]
  <2>1. u \in [gallery : Galleries, slug : Slugs]
    BY <1>3 DEF OpenSession, TypeOK, Idle
  <2>2. /\ t \notin drawn
        /\ session' = [k \in DOMAIN session \cup {t} |->
              IF k = t THEN [gallery |-> u.gallery, left |-> Lifetime] ELSE session[k]]
        /\ jar' = [jar EXCEPT ![v] = [@ EXCEPT ![u.slug] = t]]
        /\ proof' = [proof EXCEPT ![v] = [@ EXCEPT ![u.gallery] = Lifetime]]
    BY <1>3 DEF OpenSession
  <2> SUFFICES ASSUME NEW w \in Visitors, NEW s \in Slugs, jar'[w][s] \in DOMAIN session'
               PROVE  session'[jar'[w][s]].left <= proof'[w][session'[jar'[w][s]].gallery]
    BY DEF JarPaid
  <2>3. CASE w = v /\ s = u.slug
    <3>1. jar'[w][s] = t BY <2>1, <2>2, <2>3 DEF TypeOK
    <3>2. session'[t] = [gallery |-> u.gallery, left |-> Lifetime] BY <2>2
    <3>3. proof'[v][u.gallery] = Lifetime BY <2>1, <2>2 DEF TypeOK
    <3> QED BY <2>3, <3>1, <3>2, <3>3
  <2>4. CASE ~(w = v /\ s = u.slug)
    <3>1. jar'[w][s] = jar[w][s] BY <2>1, <2>2, <2>4 DEF TypeOK
    <3>2. jar[w][s] # t BY <2>2 DEF TypeOK
    <3>3. jar[w][s] \in DOMAIN session /\ session'[jar[w][s]] = session[jar[w][s]]
      BY <2>2, <3>1, <3>2
    <3>4. session[jar[w][s]].left <= proof[w][session[jar[w][s]].gallery]
      BY <3>3 DEF JarPaid
    <3>5. /\ session[jar[w][s]].gallery \in Galleries
          /\ session[jar[w][s]].left \in -1..Lifetime
      BY <3>3 DEF TypeOK
    <3>6. \A g \in Galleries : proof'[w][g] = proof[w][g] \/ proof'[w][g] = Lifetime
      BY <2>1, <2>2 DEF TypeOK
    <3> QED BY <3>1, <3>3, <3>4, <3>5, <3>6
  <2> QED BY <2>3, <2>4
<1>4. CASE Tick
  <2> SUFFICES ASSUME NEW w \in Visitors, NEW s \in Slugs, jar[w][s] \in DOMAIN session
               PROVE  session'[jar[w][s]].left <= proof'[w][session'[jar[w][s]].gallery]
    BY <1>4 DEF Tick, JarPaid
  <2> DEFINE x == session[jar[w][s]]
  <2>1. x.left <= proof[w][x.gallery] BY DEF JarPaid
  <2>2. x.gallery \in Galleries /\ x.left \in -1..Lifetime /\ proof[w][x.gallery] \in 0..Lifetime
    BY DEF TypeOK
  <2>3. session'[jar[w][s]] = [gallery |-> x.gallery, left |-> Less(x.left, -1)]
    BY <1>4 DEF Tick
  <2>4. proof'[w][x.gallery] = Less(proof[w][x.gallery], 0)
    BY <1>4, <2>2 DEF Tick
  <2> QED BY <2>1, <2>2, <2>3, <2>4 DEF Less
<1>5. ASSUME NEW g \in Galleries, DeleteGallery(g) PROVE JarPaid'
  BY <1>2, <1>5 DEF DeleteGallery
<1>6. CASE DeleteExpired
  BY <1>2, <1>6 DEF DeleteExpired
<1>7. CASE EditorStep
  BY <1>1, <1>5, <1>7
     DEF EditorStep, CreateGallery, UpdateReads, UpdateWrites, UpdateErrs
<1>8. CASE VisitorStep
  BY <1>1, <1>3, <1>8 DEF VisitorStep, UnlockPost, UnlockErrs
<1> QED BY <1>1, <1>4, <1>6, <1>7, <1>8 DEF Next, vars

\* Cookies and tokens of another visitor or gallery open nothing, and neither
\* does what was unlocked more than a day ago.
LEMMA PaidEntry == TypeOK /\ JarPaid => EntryNeedsPassword
BY AccessAssumption DEF TypeOK, JarPaid, EntryNeedsPassword, Allowed, HasSession

-----------------------------------------------------------------------------
(* Passwords.                                                              *)

\* No step gives a gallery a hash without protection: an update that has read
\* one, of a gallery that was protected then, writes it back only with that.
LEMMA NextForgets == TypeOK /\ UnprotectedForgets /\ [Next]_vars => UnprotectedForgets'
<1> SUFFICES ASSUME TypeOK, UnprotectedForgets, [Next]_vars PROVE UnprotectedForgets'
  OBVIOUS
<1>1. CASE UNCHANGED row
  BY <1>1 DEF UnprotectedForgets
<1>2. ASSUME NEW g \in Galleries, NEW s \in Slugs, NEW vis \in Visibilities, NEW h \in MaybeHash,
             CreateGallery(g, s, vis, h)
      PROVE  UnprotectedForgets'
  <2>1. h # None => vis = "protected"
    BY <1>2, FormHashMade DEF CreateGallery
  <2> QED BY <1>2, <2>1 DEF CreateGallery, UnprotectedForgets
<1>3. ASSUME NEW e \in Editors, NEW s \in Slugs, NEW vis \in Visibilities, NEW h \in MaybeHash,
             UpdateWrites(e, s, vis, h)
      PROVE  UnprotectedForgets'
  <2> DEFINE new == [slug |-> s, vis |-> vis, hash |-> NewHash(e, vis, h)]
  <2>1. vis # "protected" => new.hash = None
    BY DEF NewHash
  <2>2. \A k \in DOMAIN row' : k \in DOMAIN row /\ (row'[k] = row[k] \/ row'[k] = new)
    BY <1>3 DEF UpdateWrites, Update, TypeOK
  <2>3. new.vis = vis
    OBVIOUS
  <2> HIDE DEF new
  <2> QED BY <2>1, <2>2, <2>3 DEF UnprotectedForgets
<1>4. ASSUME NEW g \in Galleries, DeleteGallery(g) PROVE UnprotectedForgets'
  BY <1>4 DEF DeleteGallery, Restrict, UnprotectedForgets
<1>5. CASE EditorStep
  BY <1>1, <1>2, <1>3, <1>4, <1>5 DEF EditorStep, UpdateReads, UpdateErrs
<1>6. CASE VisitorStep
  BY <1>1, <1>6 DEF VisitorStep, UnlockPost, OpenSession, UnlockErrs
<1>7. CASE Tick \/ DeleteExpired \/ UNCHANGED vars
  BY <1>1, <1>7 DEF Tick, DeleteExpired, vars
<1> QED BY <1>5, <1>6, <1>7 DEF Next

-----------------------------------------------------------------------------
\* No step leaves the invariant.
LEMMA NextIInv == IInv /\ [Next]_vars => IInv'
BY NextType, NextJarPaid, NextForgets DEF IInv

\* The tables, the cookies and the requests stay what their types say.
THEOREM TypeCorrect == Spec => []TypeOK
<1>1. IInv => TypeOK BY DEF IInv
<1> QED BY InitIInv, NextIInv, <1>1, PTL DEF Spec

\* Only who unlocked a gallery in the last day gets in, for any number of
\* galleries that pass slugs around among them.
THEOREM EntryProved == Spec => []EntryNeedsPassword
<1>1. IInv => EntryNeedsPassword BY PaidEntry DEF IInv
<1> QED BY InitIInv, NextIInv, <1>1, PTL DEF Spec

\* No overlap of updates leaves a password on a gallery that is not protected.
THEOREM ForgettingProved == Spec => []UnprotectedForgets
<1>1. IInv => UnprotectedForgets BY DEF IInv
<1> QED BY InitIInv, NextIInv, <1>1, PTL DEF Spec

\* No step removes a session that is worth something from a gallery that stays.
THEOREM SessionsLastProved == Spec => SessionsLast
<1> DEFINE A == \A t \in DOMAIN session :
              session[t].left > 0 /\ session[t].gallery \in DOMAIN row' => t \in DOMAIN session'
<1>1. TypeOK /\ [Next]_vars => A
  <2> SUFFICES ASSUME TypeOK, [Next]_vars PROVE A
    OBVIOUS
  <2>1. CASE DOMAIN session \subseteq DOMAIN session' BY <2>1
  <2>2. ASSUME NEW g \in Galleries, DeleteGallery(g) PROVE A
    BY <2>2 DEF DeleteGallery, Restrict
  <2>3. CASE DeleteExpired
    BY <2>3 DEF DeleteExpired, Restrict, Expired, TypeOK
  <2>4. CASE EditorStep
    BY <2>1, <2>2, <2>4 DEF EditorStep, CreateGallery, UpdateReads, UpdateWrites, UpdateErrs
  <2>5. CASE VisitorStep \/ Tick
    BY <2>1, <2>5 DEF VisitorStep, UnlockPost, UnlockErrs, OpenSession, Tick
  <2> QED BY <2>1, <2>3, <2>4, <2>5 DEF Next, vars
<1>2. IInv => TypeOK BY DEF IInv
<1> QED BY InitIInv, NextIInv, <1>1, <1>2, PTL DEF Spec, SessionsLast
=============================================================================
