----------------------------- MODULE MCAccounts ------------------------------
(* Constants of Accounts for TLC: identities are interchangeable.          *)
EXTENDS Accounts, TLC

Symmetry ==
    Permutations(Users) \cup Permutations(Galleries) \cup Permutations(Photos)
        \cup Permutations(Requests)
=============================================================================
