------------------------------ MODULE Accounts -------------------------------
(***************************************************************************)
(* Users and what is theirs: first-run setup, registration, the pages on   *)
(* which administrators create and delete users, and the tables that hang  *)
(* on them: galleries, memberships, photos and covers, with the foreign    *)
(* keys of the migrations.                                                 *)
(*                                                                         *)
(* A request reads who is logged in (InjectUser) and what they may do, and *)
(* acts on it later, whatever was deleted or taken away in between.  The   *)
(* login is a signed cookie: a deleted user only stops being found.        *)
(* Viewer members have no rights here and are left out.                    *)
(***************************************************************************)
EXTENDS Naturals, Functions

CONSTANTS
    Users, Galleries, Photos, Requests,
    None  \* no user, no cover

ASSUME AccountsAssumption == None \notin Users \cup Photos

VARIABLES
    live,       \* the users table, and
    admins,     \* the ids with is_admin, which no request changes, and
    born,       \* the ids given out so far, of users, galleries and photos
    setupDone,  \* CheckSetup's cached answer
    owner,      \* the galleries table: the owner by id
    editors,    \* gallery_members: who is an editor of what
    photo,      \* the photos table: gallery and uploader by id
    cover,      \* [Galleries -> ...]: cover_photo_id
    req,        \* [Requests -> ...]: how far a request is, and for whom
    trusted,    \* history: pairs that were in editors at some time
    late,       \* history: a user was deleted by one who was deleted already
    blind       \* history: CheckSetup took a failed count for users

tables == <<owner, editors, photo, cover>>
history == <<trusted, late, blind>>
vars == <<live, admins, born, setupDone, tables, req, history>>

\* Requests without a user, with one, and with a right on a gallery.
Idle == [at |-> "idle"]
Anonymous == {"setup", "register"}
Rights == {"owner", "editor"}
Request ==
    {Idle} \cup [at : Anonymous] \cup [at : {"user"}, by : Users]
    \cup [at : Rights, by : Users, gallery : Galleries]
    \cup [at : {"cover"}, gallery : Galleries, photo : Photos]

TypeOK ==
    /\ live \subseteq Users \cap born /\ admins \subseteq Users \cap born
    /\ born \subseteq Users \cup Galleries \cup Photos
    /\ setupDone \in BOOLEAN /\ late \in BOOLEAN /\ blind \in BOOLEAN
    /\ owner \in [DOMAIN owner -> Users] /\ DOMAIN owner \subseteq Galleries \cap born
    /\ photo \in [DOMAIN photo -> [gallery : Galleries, by : Users]]
    /\ DOMAIN photo \subseteq Photos \cap born
    /\ editors \subseteq Galleries \X Users /\ trusted \subseteq Galleries \X Users
    /\ cover \in [Galleries -> Photos \cup {None}]
    /\ req \in [Requests -> Request]

Init ==
    /\ live = {} /\ admins = {} /\ born = {}
    /\ setupDone = FALSE
    /\ owner = [g \in {} |-> None] /\ photo = [p \in {} |-> None]
    /\ editors = {} /\ trusted = {}
    /\ cover = [g \in Galleries |-> None]
    /\ req = [r \in Requests |-> Idle]
    /\ late = FALSE /\ blind = FALSE

Goes(r, x) == req' = [req EXCEPT ![r] = x]

-----------------------------------------------------------------------------
(* Accounts.                                                               *)

\* Mutation: an id is given out that nothing remembers.
InsertForgets(u, asAdmin) ==
    /\ u \notin born
    /\ live' = live \cup {u} /\ born' = born
    /\ admins' = IF asAdmin THEN admins \cup {u} ELSE admins

Insert(u, asAdmin) ==
    /\ u \notin born
    /\ live' = live \cup {u} /\ born' = born \cup {u}
    /\ admins' = IF asAdmin THEN admins \cup {u} ELSE admins

\* Post of /setup has counted no users; CheckSetup lets it through.
SetupCounts(r) ==
    /\ req[r] = Idle
    /\ live = {}
    /\ Goes(r, [at |-> "setup"])
    /\ UNCHANGED <<live, admins, born, setupDone, tables, history>>

SetupCreates(r, u) ==
    /\ req[r].at = "setup"
    /\ Insert(u, TRUE)
    /\ Goes(r, Idle)
    /\ UNCHANGED <<setupDone, tables, history>>

\* CheckSetup: on a count of users, and on a failure to count, the request
\* passes and none is counted again.
RegisterPasses(r) ==
    /\ req[r] = Idle
    /\ setupDone' = TRUE
    /\ blind' = (blind \/ (~setupDone /\ live = {}))
    /\ Goes(r, [at |-> "register"])
    /\ UNCHANGED <<live, admins, born, tables, trusted, late>>

RegisterCreates(r, u) ==
    /\ req[r].at = "register"
    /\ Insert(u, FALSE)
    /\ Goes(r, Idle)
    /\ UNCHANGED <<setupDone, tables, history>>

\* CheckSetup, InjectUser and RequireAuth.
InjectUser(r, u) ==
    /\ req[r] = Idle
    /\ u \in live
    /\ setupDone' = TRUE
    /\ Goes(r, [at |-> "user", by |-> u])
    /\ UNCHANGED <<live, admins, born, tables, history>>

\* RequireAdmin looks at the user InjectUser found.
IsAdmin(r) == req[r].at = "user" /\ req[r].by \in admins

UsersCreate(r, u, asAdmin) ==
    /\ IsAdmin(r)
    /\ Insert(u, asAdmin)
    /\ Goes(r, Idle)
    /\ UNCHANGED <<setupDone, tables, history>>

\* Mutation: nobody is kept from deleting themselves.
AnyoneDeletes(r, u) == IsAdmin(r)

\* "Prevent self-deletion".
MayDelete(r, u) == IsAdmin(r) /\ req[r].by # u

-----------------------------------------------------------------------------
(* What goes with a row: the foreign keys.                                 *)

\* The galleries G and the photos P stay; covers of other photos become NULL.
Keeps(G, P) ==
    /\ owner' = Restrict(owner, G)
    /\ photo' = Restrict(photo, P)
    /\ cover' = [g \in Galleries |-> IF g \in G /\ cover[g] \in P THEN cover[g] ELSE None]

\* Mutation: uploaded_by is ON DELETE CASCADE like the other keys.
BlocksNothing(u) == {}

\* uploaded_by has no ON DELETE: photos in the galleries of others block.
Blocks(u) == {p \in DOMAIN photo : photo[p].by = u /\ owner[photo[p].gallery] # u}

UsersDelete(r, u) ==
    LET G == {g \in DOMAIN owner : owner[g] # u} IN
    /\ u \in live
    /\ MayDelete(r, u)
    /\ Blocks(u) = {}
    /\ live' = live \ {u}
    /\ editors' = {m \in editors : m[1] \in G /\ m[2] # u}
    /\ Keeps(G, {p \in DOMAIN photo : photo[p].gallery \in G /\ photo[p].by # u})
    /\ late' = (late \/ req[r].by \notin live)
    /\ Goes(r, Idle)
    /\ UNCHANGED <<admins, born, setupDone, trusted, blind>>

-----------------------------------------------------------------------------
(* Galleries.                                                              *)

\* owner_id refers to a user.
CreateGallery(r, g) ==
    /\ req[r].at = "user" /\ req[r].by \in live
    /\ g \notin born
    /\ born' = born \cup {g}
    /\ owner' = [k \in DOMAIN owner \cup {g} |-> IF k = g THEN req[r].by ELSE owner[k]]
    /\ Goes(r, Idle)
    /\ UNCHANGED <<live, admins, setupDone, editors, photo, cover, history>>

\* The owner, or an administrator.
DeleteGallery(r, g) ==
    /\ req[r].at = "user"
    /\ g \in DOMAIN owner
    /\ owner[g] = req[r].by \/ IsAdmin(r)
    /\ LET G == DOMAIN owner \ {g} IN
       /\ editors' = {m \in editors : m[1] # g}
       /\ Keeps(G, {p \in DOMAIN photo : photo[p].gallery # g})
    /\ Goes(r, Idle)
    /\ UNCHANGED <<live, admins, born, setupDone, history>>

\* Mutation: any user passes for an editor.
MayEditAny(u, g) == TRUE

\* requireGalleryEditor, and preCreate for tus.
MayEdit(u, g) == owner[g] = u \/ <<g, u>> \in editors

Checks(r, g, right) ==
    /\ req[r].at = "user"
    /\ g \in DOMAIN owner
    /\ IF right = "owner" THEN owner[g] = req[r].by ELSE MayEdit(req[r].by, g)
    /\ Goes(r, [at |-> right, by |-> req[r].by, gallery |-> g])
    /\ UNCHANGED <<live, admins, born, setupDone, tables, history>>

\* An upsert: the role of a member may also become viewer.
AddMember(r, u, asEditor) ==
    LET g == req[r].gallery IN
    /\ req[r].at = "owner"
    /\ g \in DOMAIN owner /\ u \in live
    /\ editors' = IF asEditor THEN editors \cup {<<g, u>>} ELSE editors \ {<<g, u>>}
    /\ trusted' = trusted \cup editors'
    /\ Goes(r, Idle)
    /\ UNCHANGED <<live, admins, born, setupDone, owner, photo, cover, late, blind>>

RemoveMember(r, u) ==
    /\ req[r].at = "owner"
    /\ editors' = editors \ {<<req[r].gallery, u>>}
    /\ Goes(r, Idle)
    /\ UNCHANGED <<live, admins, born, setupDone, owner, photo, cover, history>>

\* Mutation: the photo is looked up by its id only.
IsPhotoAnywhere(p, g) == p \in DOMAIN photo

IsPhotoOf(p, g) == p \in DOMAIN photo /\ photo[p].gallery = g

CoverChecks(r, p) ==
    /\ req[r].at = "owner"
    /\ IsPhotoOf(p, req[r].gallery)
    /\ Goes(r, [at |-> "cover", gallery |-> req[r].gallery, photo |-> p])
    /\ UNCHANGED <<live, admins, born, setupDone, tables, history>>

\* cover_photo_id refers to a photo; a gallery that is gone is not written.
SetCover(r) ==
    LET x == req[r] IN
    /\ x.at = "cover"
    /\ x.photo \in DOMAIN photo
    /\ cover' = IF x.gallery \in DOMAIN owner THEN [cover EXCEPT ![x.gallery] = x.photo] ELSE cover
    /\ Goes(r, Idle)
    /\ UNCHANGED <<live, admins, born, setupDone, owner, editors, photo, history>>

\* A part of a form, or a tus upload complete after any time: gallery_id and
\* uploaded_by refer to rows.  The request may have more parts.
Upload(r, p) ==
    LET x == req[r] IN
    /\ x.at = "editor"
    /\ p \notin born
    /\ x.gallery \in DOMAIN owner /\ x.by \in live
    /\ born' = born \cup {p}
    /\ photo' = [k \in DOMAIN photo \cup {p} |->
          IF k = p THEN [gallery |-> x.gallery, by |-> x.by] ELSE photo[k]]
    /\ UNCHANGED <<live, admins, setupDone, owner, editors, cover, req, history>>

DeletePhoto(r, p) ==
    /\ req[r].at = "editor"
    /\ IsPhotoOf(p, req[r].gallery)
    /\ Keeps(DOMAIN owner, DOMAIN photo \ {p})
    /\ Goes(r, Idle)
    /\ UNCHANGED <<live, admins, born, setupDone, editors, history>>

\* Answered, refused or failed.
Ends(r) ==
    /\ req[r] # Idle
    /\ Goes(r, Idle)
    /\ UNCHANGED <<live, admins, born, setupDone, tables, history>>

-----------------------------------------------------------------------------
AccountStep(r) ==
    \/ SetupCounts(r) \/ RegisterPasses(r) \/ Ends(r)
    \/ \E u \in Users :
          \/ SetupCreates(r, u) \/ RegisterCreates(r, u)
          \/ InjectUser(r, u) \/ UsersDelete(r, u)
          \/ \E asAdmin \in BOOLEAN : UsersCreate(r, u, asAdmin)

GalleryStep(r) ==
    \/ \E g \in Galleries :
          \/ CreateGallery(r, g) \/ DeleteGallery(r, g)
          \/ \E right \in Rights : Checks(r, g, right)
    \/ \E u \in Users :
          \/ RemoveMember(r, u)
          \/ \E asEditor \in BOOLEAN : AddMember(r, u, asEditor)
    \/ SetCover(r)
    \/ \E p \in Photos : CoverChecks(r, p) \/ Upload(r, p) \/ DeletePhoto(r, p)

Next == \E r \in Requests : AccountStep(r) \/ GalleryStep(r)

Spec == Init /\ [][Next]_vars

-----------------------------------------------------------------------------
(* Properties.                                                             *)

\* As long as there are users, one of them is an administrator: whoever set
\* up first, whichever administrators delete each other.  Two things defeat
\* it: a deletion that was under way when its own user was deleted, and a
\* registration that CheckSetup let pass because it could not count users.
AdminRemains == live # {} /\ ~late /\ ~blind => live \cap admins # {}

\* A photo is by the owner of its gallery or by somebody who was its editor,
\* also one uploaded after the membership was taken back.
UploadersWereEditors == \A p \in DOMAIN photo :
    photo[p].by = owner[photo[p].gallery] \/ <<photo[p].gallery, photo[p].by>> \in trusted

\* The cover of a gallery is one of its photos.
CoverInGallery == \A g \in Galleries :
    cover[g] # None =>
        g \in DOMAIN owner /\ cover[g] \in DOMAIN photo /\ photo[cover[g]].gallery = g

\* Deleting a user takes no photo from a gallery of somebody else.
OthersPhotosStay == [][\A u \in live : u \notin live' =>
    \A p \in DOMAIN photo : owner[photo[p].gallery] # u => p \in DOMAIN photo']_vars
=============================================================================
