-------------------------------- MODULE Replay --------------------------------
(***************************************************************************)
(* One-time proofs: a DPoP proof (sources/dpop.py) and a signed request    *)
(* (sources/signature.py) are good for a window of time, and within it a   *)
(* `replay_check` shared by the workers lets each of them be used by one   *)
(* request only (`first_use`, utils.py).                                   *)
(*                                                                         *)
(* A request is suspended while its token is validated or its body is      *)
(* read, while the replay check runs, and while its freshness is read.     *)
(***************************************************************************)
EXTENDS Integers, Sequences

CONSTANTS
    Requests,      \* the requests that carry a proof
    Sources,       \* the sources that check proofs
    Age,           \* how old a proof of each source may be when it is checked
    Ahead,         \* how far ahead of the clock it may be dated
    Check,         \* the replay_check of each source, or NoCheck
    NoCheck,       \* NO_REPLAY_CHECK
    Keys,          \* what a replay check records: a `jti`, a digest
    Submissions,   \* what a request may carry: a route and a proof per source
    NoSubmission,  \* a request not sent yet
    NotRecorded,   \* a key that a replay check does not hold
    NoVerdict,     \* the replay check has not answered yet
    MaxClock       \* bound on the clock

ASSUME WindowAssumption == Age \in [Sources -> Nat] /\ Ahead \in [Sources -> Nat] /\ MaxClock \in Nat
ASSUME SubmissionsAssumption ==
    \A sub \in Submissions :
        /\ sub.route # <<>> /\ sub.route \in Seq(Sources)
        /\ \A s \in Sources : sub.proof[s].key \in Keys /\ sub.proof[s].iat \in Nat
ASSUME NamesAssumption ==
    /\ NoSubmission \notin Submissions
    /\ NotRecorded \notin Nat
    /\ NoVerdict \notin {"first", "seen", "failed"}

VARIABLES
    pc,            \* where each request is suspended
    sent,          \* what it carries
    step,          \* the dependency of its route that runs
    memo,          \* request.scope[_RECORDED]: the checks and keys it recorded
    verdict,       \* what the replay check told it
    outcome,       \* how it was answered
    held,          \* until when each replay check holds each key
    now,           \* the clock
    uses           \* history: who recorded which key, and when

requestVars == <<pc, sent, step, memo, verdict, outcome>>
vars == <<requestVars, held, now, uses>>

Checks   == {Check[s] : s \in Sources} \ {NoCheck}
Verdicts == {"first", "seen", "failed"}
Refusals == {"expired", "refused", "replay", "stale"}
Outcomes == Refusals \cup {"none", "accepted", "error", "cancelled"}

Source(r) == sent[r].route[step[r]]
Proof(r)  == sent[r].proof[Source(r)]

\* The window a proof is accepted in, and the instant its key is recorded until
InWindow(s, proof, time) == time - Age[s] <= proof.iat /\ proof.iat <= time + Ahead[s]

\* Mutant of Expiry: the leeway that the window has is not added.
ExpiryWithoutLeeway(s, proof) == proof.iat + Age[s] - Ahead[s]

Expiry(s, proof) == proof.iat + Age[s]

\* Mutant of ReplayKey: one key per signature.
SignatureKey(proof) == proof.signature

\* One key per signed message, whichever secret signed it, or the proof's `jti`
ReplayKey(proof) == proof.key
-----------------------------------------------------------------------------
Init ==
    /\ pc = [r \in Requests |-> "idle"]
    /\ sent = [r \in Requests |-> NoSubmission]
    /\ step = [r \in Requests |-> 1]
    /\ memo = [r \in Requests |-> {}]
    /\ verdict = [r \in Requests |-> NoVerdict]
    /\ outcome = [r \in Requests |-> "none"]
    /\ held = [c \in Checks |-> [k \in Keys |-> NotRecorded]]
    /\ now = 0
    /\ uses = {}

\* The request is answered.
Answer(r, result) ==
    /\ pc' = [pc EXCEPT ![r] = "done"]
    /\ outcome' = [outcome EXCEPT ![r] = result]
    /\ verdict' = [verdict EXCEPT ![r] = NoVerdict]
    /\ UNCHANGED <<sent, step, memo>>

MoveTo(r, place) ==
    /\ pc' = [pc EXCEPT ![r] = place]
    /\ verdict' = [verdict EXCEPT ![r] = NoVerdict]
    /\ UNCHANGED <<sent, step, outcome>>

\* Mutant of Entry: the memo does not tell the checks apart.
EntryByKey(r) == [check |-> NoCheck, key |-> ReplayKey(Proof(r))]

Entry(r) == [check |-> Check[Source(r)], key |-> ReplayKey(Proof(r))]

\* Mutant of FirstUse: no memo, every dependency asks the replay check.
FirstUseAsksAlways(r) == MoveTo(r, "checking") /\ UNCHANGED memo

\* first_use up to its await: a key that this request recorded passes.
FirstUse(r) ==
    /\ IF Check[Source(r)] = NoCheck \/ Entry(r) \in memo[r]
       THEN MoveTo(r, "steppingUp")
       ELSE MoveTo(r, "checking")
    /\ UNCHANGED memo
-----------------------------------------------------------------------------
Send(r) ==
    /\ pc[r] = "idle"
    /\ pc' = [pc EXCEPT ![r] = "arrived"]
    /\ \E sub \in Submissions : sent' = [sent EXCEPT ![r] = sub]
    /\ UNCHANGED <<step, memo, verdict, outcome, held, now, uses>>

\* _verify_proof, or the header and timestamp of a signed request, up to the
\* await of the validator or of the body; what is malformed is refused.
Verify(r) ==
    /\ pc[r] = "arrived"
    /\ \/ Answer(r, "refused")
       \/ /\ ~InWindow(Source(r), Proof(r), now)
          /\ Answer(r, "expired")
       \/ /\ InWindow(Source(r), Proof(r), now)
          /\ MoveTo(r, "validating")
          /\ UNCHANGED memo
    /\ UNCHANGED <<held, now, uses>>

\* Mutant of Validated: the key is recorded before the proof is known genuine.
ValidatedLast(r) ==
    /\ pc[r] = "validating"
    /\ Answer(r, "refused") \/ FirstUse(r)
    /\ UNCHANGED <<held, now, uses>>

\* The validator or the body is back: a token that is not valid, that is bound
\* to another key, or a signature that does not match is refused; only then
\* is the key recorded.
Validated(r) ==
    /\ pc[r] = "validating"
    /\ \/ Answer(r, "refused")
       \/ Proof(r).genuine /\ FirstUse(r)
    /\ UNCHANGED <<held, now, uses>>

\* The replay check handles r's call: atomically, as its documentation asks
\* (`SET NX` with an expiry), and it may fail before or after it recorded.
CheckAnswers(r) ==
    LET c == Check[Source(r)]
        k == ReplayKey(Proof(r))
        live == held[c][k] # NotRecorded /\ held[c][k] >= now
    IN  /\ pc[r] = "checking"
        /\ verdict[r] = NoVerdict
        /\ \/ /\ live
              /\ verdict' = [verdict EXCEPT ![r] = "seen"]
              /\ UNCHANGED <<held, uses>>
           \/ /\ ~live
              /\ \E v \in {"first", "failed"} : verdict' = [verdict EXCEPT ![r] = v]
              /\ held' = [held EXCEPT ![c][k] = Expiry(Source(r), Proof(r))]
              /\ uses' = uses \cup {[source |-> Source(r), proof |-> Proof(r), by |-> r, at |-> now]}
           \/ /\ verdict' = [verdict EXCEPT ![r] = "failed"]
              /\ UNCHANGED <<held, uses>>
        /\ UNCHANGED <<pc, sent, step, memo, outcome, now>>

\* Mutant of CheckReturns: the binding of the token is compared last.
CheckReturnsUnbound(r) ==
    /\ pc[r] = "checking"
    /\ \/ /\ verdict[r] = "first"
          /\ MoveTo(r, "steppingUp")
          /\ memo' = [memo EXCEPT ![r] = @ \cup {Entry(r)}]
       \/ verdict[r] = "first" /\ Answer(r, "refused")
       \/ verdict[r] = "seen" /\ Answer(r, "replay")
       \/ verdict[r] = "failed" /\ Answer(r, "error")
    /\ UNCHANGED <<held, now, uses>>

\* first_use after its await
CheckReturns(r) ==
    /\ pc[r] = "checking"
    /\ \/ /\ verdict[r] = "first"
          /\ MoveTo(r, "steppingUp")
          /\ memo' = [memo EXCEPT ![r] = @ \cup {Entry(r)}]
       \/ verdict[r] = "seen" /\ Answer(r, "replay")
       \/ verdict[r] = "failed" /\ Answer(r, "error")
    /\ UNCHANGED <<held, now, uses>>

\* _enforce_step_up on a `fresh()` or `stepped_up()` copy, then the next
\* dependency of the route, if any
StepUp(r) ==
    /\ pc[r] = "steppingUp"
    /\ \/ sent[r].steppedUp /\ Answer(r, "stale")
       \/ step[r] = Len(sent[r].route) /\ Answer(r, "accepted")
       \/ /\ step[r] < Len(sent[r].route)
          /\ pc' = [pc EXCEPT ![r] = "arrived"]
          /\ step' = [step EXCEPT ![r] = @ + 1]
          /\ UNCHANGED <<sent, memo, verdict, outcome>>
    /\ UNCHANGED <<held, now, uses>>

\* The client goes away while r is suspended.
Cancel(r) ==
    /\ pc[r] \in {"validating", "checking", "steppingUp"}
    /\ Answer(r, "cancelled")
    /\ UNCHANGED <<held, now, uses>>

Tick ==
    /\ now < MaxClock
    /\ now' = now + 1
    /\ UNCHANGED <<requestVars, held, uses>>

\* Every request was answered and the bound of the clock is reached.
Terminated ==
    /\ now = MaxClock
    /\ \A r \in Requests : pc[r] = "done"
    /\ UNCHANGED vars

Next ==
    \/ \E r \in Requests :
          \/ Send(r)
          \/ Verify(r)
          \/ Validated(r)
          \/ CheckAnswers(r)
          \/ CheckReturns(r)
          \/ StepUp(r)
          \/ Cancel(r)
    \/ Tick
    \/ Terminated

Spec == Init /\ [][Next]_vars
-----------------------------------------------------------------------------
(* Properties                                                              *)

TypeOK ==
    /\ pc \in [Requests -> {"idle", "arrived", "validating", "checking", "steppingUp", "done"}]
    /\ sent \in [Requests -> Submissions \cup {NoSubmission}]
    /\ \A r \in Requests : pc[r] # "idle" => sent[r] # NoSubmission /\ step[r] \in DOMAIN sent[r].route
    /\ memo \in [Requests -> SUBSET [check : Checks, key : Keys]]
    /\ verdict \in [Requests -> Verdicts \cup {NoVerdict}]
    /\ outcome \in [Requests -> Outcomes]
    /\ held \in [Checks -> [Keys -> Nat \cup {NotRecorded}]]
    /\ now \in 0..MaxClock
    /\ \A u \in uses : u.source \in Sources /\ u.by \in Requests /\ u.at \in 0..now

\* What a key names, as long as the sources that share a replay check record
\* proofs of one kind with it: one proof of a request, and one instant until
\* which it is held, since a `jti` is of one proof and a digest is of a message
\* that holds its timestamp.
OneProofPerKey ==
    \A sub \in Submissions : \A s \in Sources : \A t \in Sources :
        Check[s] = Check[t] /\ Check[s] # NoCheck /\ sub.proof[s].key = sub.proof[t].key =>
            sub.proof[s] = sub.proof[t]
OneExpiryPerKey ==
    \A sub \in Submissions : \A other \in Submissions : \A s \in Sources : \A t \in Sources :
        Check[s] = Check[t] /\ Check[s] # NoCheck /\ sub.proof[s].key = other.proof[t].key =>
            Expiry(s, sub.proof[s]) = Expiry(t, other.proof[t])

SameUse(u, v) == Check[u.source] = Check[v.source] /\ u.proof.key = v.proof.key

\* While a proof or a signed message is within its window it serves one
\* request: when it serves a second one, its window closed while that request
\* was suspended.  Signatures of one message under two secrets count as one.
OncePerWindow ==
    \A u \in uses : \A v \in uses :
        SameUse(u, v) /\ u.by # v.by /\ u.at <= v.at => ~InWindow(v.source, v.proof, v.at)

\* The dependency that used a proof up is not the one that refused its request.
RefusedLater(u) ==
    outcome[u.by] \in {"expired", "refused", "replay"} =>
        \E i \in 1..(step[u.by] - 1) : sent[u.by].route[i] = u.source

\* A request is refused as a replay only when another request, whose proof was
\* genuine, used the key: it is never a replay of itself, and whoever cannot
\* make the proof cannot use it up.  That other request passed the checks of the
\* source: it was accepted, or lost afterwards (to a failing replay check, a
\* step-up, another dependency, a disconnection), but a proof that its source
\* refused is still good.
ReplayOnlyOfAnother ==
    \A r \in Requests : outcome[r] = "replay" =>
        \E u \in uses :
            /\ u.by # r /\ u.proof.genuine /\ RefusedLater(u)
            /\ Check[u.source] = Check[Source(r)] /\ u.proof.key = Proof(r).key

\* An accepted request recorded each of its proofs with the replay check of
\* the source that asked for it: what one check recorded never stands for
\* what another would have.
EachCheckRecorded ==
    \A r \in Requests : outcome[r] = "accepted" =>
        \A i \in DOMAIN sent[r].route :
            LET s == sent[r].route[i]
            IN  Check[s] # NoCheck =>
                    \E u \in uses : u.by = r /\ Check[u.source] = Check[s] /\ u.proof = sent[r].proof[s]

\* What docs/guide/jwt-and-oauth2.md says of replay_check: a proof cannot be
\* sent twice.
NeverUsedTwice ==
    \A u \in uses : \A v \in uses : SameUse(u, v) => u.by = v.by
=============================================================================
