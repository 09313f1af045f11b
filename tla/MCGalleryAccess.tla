-------------------------- MODULE MCGalleryAccess --------------------------
(* Constants of GalleryAccess for TLC: identities are interchangeable.     *)
EXTENDS GalleryAccess, TLC

Symmetry ==
    Permutations(Galleries) \cup Permutations(Slugs) \cup Permutations(Hashes)
        \cup Permutations(Tokens) \cup Permutations(Editors)
=============================================================================
