---------------------------- MODULE MCJWKSKeySet ----------------------------
(* An instance of JWKSKeySet for TLC: two requests, each of which calls    *)
(* again once it is answered, so one may hold the lock, one wait for it,   *)
(* and the waiter of one refresh lead the next.                            *)
EXTENDS JWKSKeySet

CONSTANTS r1, r2, k1, k2

Callers == {r1, r2}

\* Two key ids: a rotation can bring one and drop the other.
Published == {k1, k2}
=============================================================================
