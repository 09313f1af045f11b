-------------------------------- MODULE Slug ---------------------------------
(***************************************************************************)
(* The name of a gallery in URLs: what Slugify makes of a title, what      *)
(* CreateGallery makes of it when the name is taken, and what UpdateGallery *)
(* accepts when the settings of the gallery are saved.                     *)
(*                                                                         *)
(* Characters stand for their class: "a" a small letter or a digit, "A" a  *)
(* capital letter, " ", "-", and "*" for any other.                        *)
(***************************************************************************)
EXTENDS Naturals, Sequences, FiniteSets, FiniteSetsExt

CONSTANTS
    Titles,   \* what forms say
    MaxCut,   \* 60: where Slugify cuts
    MaxSlug,  \* 100: what isValidSlug allows
    HexLen    \* 8: the characters of randomHex(4)

Characters == {"a", "A", " ", "-", "*"}

ASSUME SlugAssumption ==
    /\ Titles \subseteq Seq(Characters)
    /\ MaxCut \in Nat \ {0} /\ HexLen \in Nat \ {0} /\ MaxSlug \in Nat
    /\ MaxSlug >= MaxCut + 2 * (HexLen + 1) /\ MaxSlug >= 7 + 2 * (HexLen + 1)

VARIABLE gallery  \* the title and the slug of the gallery that was created

NoGallery == [title |-> <<>>, slug |-> <<>>]

Letters(n) == [i \in 1..n |-> "a"]

\* The characters of s at the places in P, in their order.
At(s, P) ==
    [n \in 1..Cardinality(P) |-> s[CHOOSE p \in P : Cardinality({q \in P : q <= p}) = n]]

\* ToLower and ReplaceAll(" ", "-").
Lower(title) == [i \in DOMAIN title |->
    CASE title[i] = "A" -> "a" [] title[i] = " " -> "-" [] OTHER -> title[i]]

\* nonSlugRe
Kept(s) == At(s, {i \in DOMAIN s : s[i] \in {"a", "-"}})

\* -+ becomes -: the first of a run of dashes stays.
Collapsed(s) == At(s, {i \in DOMAIN s : s[i] = "-" /\ i > 1 => s[i - 1] # "-"})

Trimmed(s) ==
    LET inner == {i \in DOMAIN s : s[i] # "-"} IN
    IF inner = {} THEN <<>> ELSE SubSeq(s, Min(inner), Max(inner))

Cut(s) == IF Len(s) > MaxCut THEN SubSeq(s, 1, MaxCut) ELSE s

\* Mutation: characters are dropped only after runs of dashes have collapsed.
SlugifyDropsLast(title) ==
    LET s == Cut(Trimmed(Kept(Collapsed(Lower(title))))) IN IF s = <<>> THEN Letters(7) ELSE s

\* A title without a letter becomes "gallery".
Slugify(title) ==
    LET s == Cut(Trimmed(Collapsed(Kept(Lower(title))))) IN IF s = <<>> THEN Letters(7) ELSE s

\* A slug made different from one that is taken, with randomHex(4).
Another(slug) == slug \o <<"-">> \o Letters(HexLen)

\* The slug is taken up to twice; what is tried then is not looked up again.
Candidates(title) ==
    LET s == Slugify(title) IN {s, Another(s), Another(Another(s))}

\* slugRe: words of letters, single dashes between them.
isValidSlug(s) ==
    /\ Len(s) \in 1..MaxSlug
    /\ \A i \in DOMAIN s : s[i] = "a" \/
          (s[i] = "-" /\ i \in 2..(Len(s) - 1) /\ s[i - 1] = "a" /\ s[i + 1] = "a")

\* The cut came right behind a dash.
CutAtDash(title) == LET s == Slugify(title) IN s[Len(s)] = "-"

SlugInit == gallery = NoGallery

CreateGallery ==
    /\ gallery = NoGallery
    /\ \E t \in Titles \ {<<>>} : \E s \in Candidates(t) : gallery' = [title |-> t, slug |-> s]

SlugSpec == SlugInit /\ [][CreateGallery]_gallery

-----------------------------------------------------------------------------
\* The settings page accepts the slug that CreateGallery gave to a gallery,
\* also when the name was taken once or twice.  Titles whose dash falls on the
\* cut are the exception: theirs has to be changed before anything is saved.
CreatedSlugSaves ==
    gallery # NoGallery => isValidSlug(gallery.slug) \/ CutAtDash(gallery.title)
=============================================================================
