------------------------------- MODULE MCReplay -------------------------------
(* Small instances of Replay: a DPoP source, one without a replay check,   *)
(* and a webhook source.                                                   *)
EXTENDS Replay, TLC

CONSTANTS dpop, loose, hook, jti, digest, proofs, webhooks

MCAge   == (dpop :> 2 @@ loose :> 2 @@ hook :> 1)
MCAhead == (dpop :> 1 @@ loose :> 1 @@ hook :> 1)
MCCheck == (dpop :> proofs @@ loose :> NoCheck @@ hook :> webhooks)

Dated(key, iat, signature) == [key |-> key, iat |-> iat, signature |-> signature, genuine |-> TRUE]
Forged(proof) == [proof EXCEPT !.genuine = FALSE]

Bearing(route, ofDpop, ofHook, steppedUp) ==
    [route |-> route,
     proof |-> (dpop :> ofDpop @@ loose :> ofDpop @@ hook :> ofHook),
     steppedUp |-> steppedUp]

SomeProof == Dated(jti, 1, jti)
OldSecret == Dated(digest, 1, digest)
NewSecret == Dated(digest, 1, jti)

\* A route that checks one proof twice, then without a replay check; a forged
\* copy of the proof; and a message signed with either of two secrets, alone
\* or behind a DPoP proof whose `jti` is the digest of the message
MCSubmissions ==
    { Bearing(<<dpop, dpop, loose>>, SomeProof, OldSecret, FALSE),
      Bearing(<<dpop>>, Forged(SomeProof), OldSecret, FALSE),
      Bearing(<<hook>>, SomeProof, OldSecret, FALSE),
      Bearing(<<hook>>, SomeProof, NewSecret, TRUE),
      Bearing(<<dpop, hook>>, Dated(digest, 1, digest), OldSecret, FALSE) }

\* Copies of one proof, on a route that may ask for a recent login
MCOneProof == {Bearing(<<dpop>>, SomeProof, OldSecret, steppedUp) : steppedUp \in BOOLEAN}

\* The theorems on one-time use ask this of the submissions.
ASSUME KeysAssumption == OneProofPerKey /\ OneExpiryPerKey

Symmetry == Permutations(Requests)
=============================================================================
