---------------------------- MODULE GalleryAccess ----------------------------
(***************************************************************************)
(* Who gets to see a gallery without an account: the galleries table as    *)
(* CreateGallery, UpdateGallery and DeleteGallery write it, the sessions   *)
(* that UnlockPost opens for visitors who know a gallery's password, and   *)
(* the check of CheckGalleryAccess that reads both, one after the other.   *)
(*                                                                         *)
(* A visitor's browser keeps one cookie per slug, a session belongs to a   *)
(* gallery, and slugs move from gallery to gallery.  bcrypt salts every    *)
(* hash, so that each password given is a hash of its own; a visitor       *)
(* either types the password of the hash that is stored or does not.       *)
(* The clock of the program and the database's are the same.               *)
(***************************************************************************)
EXTENDS Naturals, Integers, Functions

CONSTANTS
    Galleries, Slugs, Hashes, Tokens,  \* ids, names, bcrypt hashes, session tokens
    Visitors,  \* browsers without a login
    Editors,   \* requests of UpdateGallery
    None,      \* NULL: no password, no cookie, no request
    Lifetime   \* ticks a session lasts: 24 hours

ASSUME AccessAssumption ==
    /\ Lifetime \in Nat \ {0}
    /\ None \notin Galleries \cup Hashes \cup Tokens

VARIABLES
    row,      \* the galleries table: slug, visibility and hash by id
    born,     \* ids given out so far, and
    made,     \* hashes computed, and
    drawn,    \* tokens drawn: random, never the same twice
    session,  \* the gallery_sessions table by token: gallery and ticks left
    jar,      \* [Visitors -> [Slugs -> ...]]: the token of the cookie
    unlock,   \* [Visitors -> ...]: the UnlockPost whose password was right
    edit,     \* [Editors -> ...]: the row an UpdateGallery has read
    proof     \* history: ticks left since the visitor unlocked the gallery

requests == <<unlock, edit>>
vars == <<row, born, made, drawn, session, jar, requests, proof>>

\* Public and unlisted galleries differ in the home page's list only.
Visibilities == {"open", "protected", "private"}
MaybeHash == Hashes \cup {None}
Row == [slug : Slugs, vis : Visibilities, hash : MaybeHash]
Idle == [gallery |-> None]

TypeOK ==
    /\ row \in [DOMAIN row -> Row] /\ DOMAIN row \subseteq born
    /\ born \subseteq Galleries /\ made \subseteq Hashes /\ drawn \subseteq Tokens
    /\ session \in [DOMAIN session -> [gallery : Galleries, left : -1..Lifetime]]
    /\ DOMAIN session \subseteq drawn
    /\ jar \in [Visitors -> [Slugs -> drawn \cup {None}]]
    /\ unlock \in [Visitors -> {Idle} \cup [gallery : Galleries, slug : Slugs]]
    /\ edit \in [Editors -> {Idle} \cup [gallery : Galleries, hash : MaybeHash]]
    /\ proof \in [Visitors -> [Galleries -> 0..Lifetime]]

Init ==
    /\ row = [g \in {} |-> None] /\ session = [t \in {} |-> None]
    /\ born = {} /\ made = {} /\ drawn = {}
    /\ jar = [v \in Visitors |-> [s \in Slugs |-> None]]
    /\ unlock = [v \in Visitors |-> Idle]
    /\ edit = [e \in Editors |-> Idle]
    /\ proof = [v \in Visitors |-> [g \in Galleries |-> 0]]

\* What the UNIQUE constraint on galleries.slug leaves to gallery g.
SlugFree(s, g) == \A k \in DOMAIN row : row[k].slug = s => k = g

\* A hash for the password of a form, None if it has none: a new one, and only
\* for a gallery that is going to be protected.
FormHash(vis, h) ==
    /\ h \in Hashes => vis = "protected" /\ h \notin made
    /\ made' = made \cup ({h} \cap Hashes)

-----------------------------------------------------------------------------
(* Galleries.                                                              *)

\* Both SlugExists queries only choose the slug; the INSERT fails if it was
\* taken meanwhile, and nothing changes.
CreateGallery(g, s, vis, h) ==
    /\ g \notin born
    /\ SlugFree(s, g)
    /\ FormHash(vis, h)
    /\ row' = [k \in DOMAIN row \cup {g} |->
          IF k = g THEN [slug |-> s, vis |-> vis, hash |-> h] ELSE row[k]]
    /\ born' = born \cup {g}
    /\ UNCHANGED <<drawn, session, jar, requests, proof>>

UpdateReads(e, g) ==
    /\ edit[e] = Idle
    /\ g \in DOMAIN row
    /\ edit' = [edit EXCEPT ![e] = [gallery |-> g, hash |-> row[g].hash]]
    /\ UNCHANGED <<row, born, made, drawn, session, jar, unlock, proof>>

\* Mutation: a gallery that is no longer protected keeps its password.
KeptHash(e, vis, h) == IF h = None THEN edit[e].hash ELSE h

\* "keep existing hash if no new password provided", when protected.
NewHash(e, vis, h) ==
    IF vis # "protected" THEN None ELSE IF h = None THEN edit[e].hash ELSE h

\* Every column is written; a row that is gone stays gone.
Update(g, columns) ==
    row' = IF g \in DOMAIN row THEN [row EXCEPT ![g] = columns] ELSE row

UpdateWrites(e, s, vis, h) ==
    LET g == edit[e].gallery IN
    /\ g # None
    /\ SlugFree(s, g)
    /\ FormHash(vis, h)
    /\ Update(g, [slug |-> s, vis |-> vis, hash |-> NewHash(e, vis, h)])
    /\ edit' = [edit EXCEPT ![e] = Idle]
    /\ UNCHANGED <<born, drawn, session, jar, unlock, proof>>

\* The form is incomplete, the slug is taken, or the database fails.
UpdateErrs(e) ==
    /\ edit[e] # Idle
    /\ edit' = [edit EXCEPT ![e] = Idle]
    /\ UNCHANGED <<row, born, made, drawn, session, jar, unlock, proof>>

\* ON DELETE CASCADE takes the sessions along.
DeleteGallery(g) ==
    /\ g \in DOMAIN row
    /\ row' = Restrict(row, DOMAIN row \ {g})
    /\ session' = Restrict(session, {t \in DOMAIN session : session[t].gallery # g})
    /\ UNCHANGED <<born, made, drawn, jar, requests, proof>>

-----------------------------------------------------------------------------
(* Unlocking.                                                              *)

\* Only the right password leads any further.
UnlockPost(v, g) ==
    /\ unlock[v] = Idle
    /\ g \in DOMAIN row /\ row[g].vis = "protected" /\ row[g].hash # None
    /\ unlock' = [unlock EXCEPT ![v] = [gallery |-> g, slug |-> row[g].slug]]
    /\ UNCHANGED <<row, born, made, drawn, session, jar, edit, proof>>

\* The session is stored and the cookie is set, under the slug of the request.
OpenSession(v, t) ==
    LET u == unlock[v] IN
    /\ u.gallery \in DOMAIN row
    /\ t \notin drawn
    /\ drawn' = drawn \cup {t}
    /\ session' = [k \in DOMAIN session \cup {t} |->
          IF k = t THEN [gallery |-> u.gallery, left |-> Lifetime] ELSE session[k]]
    /\ jar' = [jar EXCEPT ![v] = [@ EXCEPT ![u.slug] = t]]
    /\ proof' = [proof EXCEPT ![v] = [@ EXCEPT ![u.gallery] = Lifetime]]
    /\ unlock' = [unlock EXCEPT ![v] = Idle]
    /\ UNCHANGED <<row, born, made, edit>>

\* The gallery is gone (a foreign key), or the database fails.
UnlockErrs(v) ==
    /\ unlock[v] # Idle
    /\ unlock' = [unlock EXCEPT ![v] = Idle]
    /\ UNCHANGED <<row, born, made, drawn, session, jar, edit, proof>>

-----------------------------------------------------------------------------
(* Visiting changes nothing; of a request only the decision is modelled.   *)

\* Mutation: the session is looked up by its token alone.
HasAnySession(v, g, s) == LET t == jar[v][s] IN t \in DOMAIN session /\ session[t].left > 0

\* GetByGallery, with the token of the cookie for slug s.
HasSession(v, g, s) ==
    LET t == jar[v][s] IN
    t \in DOMAIN session /\ session[t].gallery = g /\ session[t].left > 0

\* CheckGalleryAccess without a user, for a row of gallery g that was read by
\* its slug (a page) or by its id (a file) and may have changed since.
Allowed(v, g, s, vis) == vis = "open" \/ (vis = "protected" /\ HasSession(v, g, s))

-----------------------------------------------------------------------------
(* Time.                                                                   *)

\* Mutation: a tick past the end is still counted.
LessPast(n, least) == IF n >= least THEN n - 1 ELSE n

Less(n, least) == IF n > least THEN n - 1 ELSE n

Tick ==
    /\ session' = [t \in DOMAIN session |->
          [gallery |-> session[t].gallery, left |-> Less(session[t].left, -1)]]
    /\ proof' = [v \in Visitors |-> [g \in Galleries |-> Less(proof[v][g], 0)]]
    /\ UNCHANGED <<row, born, made, drawn, jar, requests>>

\* Mutation: main's ticker removes what expires before it fires again.
ExpiresSoon(t) == session[t].left <= 1
Expired(t) == session[t].left < 0

\* The ticker of main.go.
DeleteExpired ==
    /\ \E t \in DOMAIN session : Expired(t)
    /\ session' = Restrict(session, {t \in DOMAIN session : ~Expired(t)})
    /\ UNCHANGED <<row, born, made, drawn, jar, requests, proof>>

-----------------------------------------------------------------------------
EditorStep ==
    \/ \E g \in Galleries :
          \/ \E s \in Slugs, vis \in Visibilities, h \in MaybeHash : CreateGallery(g, s, vis, h)
          \/ \E e \in Editors : UpdateReads(e, g)
          \/ DeleteGallery(g)
    \/ \E e \in Editors :
          \/ \E s \in Slugs, vis \in Visibilities, h \in MaybeHash : UpdateWrites(e, s, vis, h)
          \/ UpdateErrs(e)

VisitorStep == \E v \in Visitors :
    \/ \E g \in Galleries : UnlockPost(v, g)
    \/ \E t \in Tokens : OpenSession(v, t)
    \/ UnlockErrs(v)

Next == EditorStep \/ VisitorStep \/ Tick \/ DeleteExpired

Spec == Init /\ [][Next]_vars

-----------------------------------------------------------------------------
(* Properties.                                                             *)

\* A visitor is let into a protected gallery only within a day of unlocking
\* that very gallery, whichever galleries had its slug before or since.
EntryNeedsPassword == \A v \in Visitors, g \in Galleries, s \in Slugs :
    Allowed(v, g, s, "protected") => proof[v][g] > 0

\* A session is worth something until its day is over, or its gallery is
\* deleted: the cleanup takes nobody's access away.
SessionsLast == [][\A t \in DOMAIN session :
    session[t].left > 0 /\ session[t].gallery \in DOMAIN row' => t \in DOMAIN session']_vars

\* A gallery that is not protected has no password left, whatever updates
\* overlap: what is protected again later asks for a new one.
UnprotectedForgets == \A g \in DOMAIN row : row[g].vis # "protected" => row[g].hash = None

\* The comment in UpdateGallery, "keep existing hash if no new password
\* provided": of a gallery that is protected after an update, the hash is the
\* one it had or a new one.  The code keeps what the update has read, and
\* overwrites the password that another update has set meanwhile.
KeepsExistingHash == [][\A g \in DOMAIN row \cap DOMAIN row' :
    row'[g].vis = "protected" => row'[g].hash \in {row[g].hash} \cup (made' \ made)]_vars
=============================================================================
