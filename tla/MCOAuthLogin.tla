---------------------------- MODULE MCOAuthLogin ----------------------------
(* Instances of OAuthLogin for TLC. *)
EXTENDS OAuthLogin, TLC

\* Browsers, accounts, flows and requests are interchangeable.
Symmetry ==
    Permutations(Browsers) \cup Permutations(Users) \cup Permutations(Flows)
        \cup Permutations(Requests)
=============================================================================
