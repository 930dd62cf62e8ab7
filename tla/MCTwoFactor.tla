----------------------------- MODULE MCTwoFactor -----------------------------
(* Instances of TwoFactor for TLC. *)
EXTENDS TwoFactor, TLC

\* Every secret shows the same digits, and the same ones at two steps in a row.
MCHotp == [s \in Secrets |-> [i \in Step |-> IF i = 2 THEN 101 ELSE 100 + i]]

\* Browsers are interchangeable, and so are secrets that show the same digits.
Symmetry == Permutations(Browsers) \cup Permutations(Secrets)
=============================================================================
