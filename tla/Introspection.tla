---------------------------- MODULE Introspection ----------------------------
(***************************************************************************)
(* `IntrospectionValidator` (introspection.py): asks the provider whether  *)
(* an opaque token is active, once for all the requests that carry it at   *)
(* the same time, and keeps active answers for a while.                    *)
(*                                                                         *)
(* A request is suspended while it waits for the provider, or for the      *)
(* request that asks on its behalf, and while claims_to_identity maps the  *)
(* claims to an identity that no longer carries them; the code between is  *)
(* one step.                                                               *)
(***************************************************************************)
EXTENDS Integers, OrderedKeys

CONSTANTS
    Requests,      \* slots for concurrent calls of the validator
    NoOne,         \* no request leads a lookup
    NoCall,        \* an idle slot
    Tokens,        \* the tokens presented
    Claims,        \* what the provider says of each token while it is active
    NoTime,        \* a time claim the token does not carry
    NotATime,      \* a time claim that is not a finite number
    Routes,        \* the guarded routes: the challenge of their source, what it
                   \* does about DPoP-bound tokens, and the scopes it asks for
    Keys,          \* the thumbprints of the keys that clients prove with
    NoKey,         \* no key: of a token that is not bound, of a bearer request
    NoChallenge,   \* a source without a `WWW-Authenticate` challenge
    NoAnswer,      \* the provider has not answered yet
    Absent,        \* a token that is not cached
    CacheTtl,      \* cache_ttl
    CacheSize,     \* cache_size
    Leeway,        \* leeway
    MaxClock,      \* bound on the clock
    MaxCancels     \* bound on the requests cancelled

ASSUME NumbersAssumption ==
    /\ CacheTtl \in Nat /\ Leeway \in Nat /\ MaxClock \in Nat /\ MaxCancels \in Nat
    /\ CacheSize \in Nat \ {0}
ASSUME NamesAssumption ==
    /\ NoOne \notin Requests
    /\ NoKey \notin Keys
    /\ NoAnswer \notin {"active", "inactive", "unavailable"}
    /\ Absent \notin 0..(MaxClock + CacheTtl)
ASSUME ClaimsAssumption ==
    \A t \in Tokens : Claims[t].jkt \in Keys \cup {NoKey} /\ \A time \in {Claims[t].exp, Claims[t].nbf} :
        time # NoTime /\ time # NotATime => time \in Nat

VARIABLES
    cache,         \* _cache: when each token's cached answer lapses, or Absent
    recency,       \* the order of _cache, the least recently used first
    leader,        \* _lookups: the request introspecting each token
    pc,            \* where each request is suspended
    call,          \* its token and route, and the key it proved to hold
    verifiedJkt,   \* verified_jkt, in the context of each request
    response,      \* what the provider told it
    handed,        \* what the lookup it waited for left it
    reply,         \* how its last call ended
    now,           \* the clock
    active,        \* the tokens the provider holds active
    cancels,       \* how many requests were cancelled
    revoked        \* history: when a token was revoked, and whether mid-lookup

cacheVars   == <<cache, recency>>
requestVars == <<pc, call, verifiedJkt, response, handed, reply>>
worldVars   == <<now, active, cancels, revoked>>
vars == <<cacheVars, leader, requestVars, worldVars>>

Running   == {"called", "introspecting", "waiting", "woken", "mapping"}
Calls     == [token : Tokens, route : Routes, proof : Keys \cup {NoKey}]
Responses == {"active", "inactive", "unavailable"}
Statuses  == {"none", "answer", "accepted", "forbidden", "unauthorized", "unavailable",
              "crashed", "cancelled"}

\* A result, and the challenge its exception carries
Result(status) == [status |-> status, challenge |-> NoChallenge]
-----------------------------------------------------------------------------
Init ==
    /\ cache = [t \in Tokens |-> Absent]
    /\ recency = <<>>
    /\ leader = [t \in Tokens |-> NoOne]
    /\ pc = [r \in Requests |-> "idle"]
    /\ call = [r \in Requests |-> NoCall]
    /\ verifiedJkt = [r \in Requests |-> NoKey]
    /\ response = [r \in Requests |-> NoAnswer]
    /\ handed = [r \in Requests |-> Result("none")]
    /\ reply = [r \in Requests |-> Result("none")]
    /\ now = 0
    /\ active = Tokens
    /\ cancels = 0
    /\ revoked = [t \in Tokens |-> [at |-> 0, midLookup |-> FALSE]]

\* _check_claims: what does not depend on the time (the kind of token, `aud`
\* and `iss`) is one flag; a time claim that is no number is refused.
ClaimsHold(c) ==
    /\ c.ours
    /\ c.exp # NotATime /\ c.nbf # NotATime
    /\ c.exp # NoTime => c.exp > now - Leeway
    /\ c.nbf # NoTime => c.nbf <= now + Leeway

\* Mutant of Lifetime: `exp` is not looked at.
LifetimeTtlOnly(c) == CacheTtl

\* The lifetime of an answer stored now
Lifetime(c) ==
    IF c.exp # NoTime /\ c.exp - now < CacheTtl THEN c.exp - now ELSE CacheTtl

\* Mutant of Cached: an answer serves through the instant it lapses.
CachedAtLapse(t) == cache[t] # Absent /\ now <= cache[t]

\* _cached: an answer still within its lifetime
Cached(t) == cache[t] # Absent /\ now < cache[t]

\* add_challenge: a 401 that has no challenge yet gets the source's.
AddChallenge(result, route) ==
    IF result.status = "unauthorized" /\ result.challenge = NoChallenge
    THEN [result EXCEPT !.challenge = route.challenge]
    ELSE result

\* `copy.copy(lookup.error)` rebuilds the exception from its positional
\* arguments: UnauthorizedError has none to miss, while the 503 of
\* service_unavailable was given its status by keyword and cannot be rebuilt.
Copied(error) ==
    IF error.status = "unavailable" THEN Result("crashed") ELSE error

\* require_scopes
RequireScopes(t, scopes) == scopes \subseteq Claims[t].scopes

\* What a bearer source makes of the identity: it no longer carries the claims,
\* so the binding is the one recorded in the context of the request.
BearerDecision(r) ==
    Result(IF call[r].route.bound = "refused" /\ verifiedJkt[r] # NoKey
           THEN "unauthorized" ELSE "accepted")

\* What a DPoP source makes of it: its `jkt` reader finds the token's key, which
\* must be the one of the proof.  That was verified before the validator ran.
DPoPDecision(r) ==
    LET bound == Claims[call[r].token].jkt
    IN  Result(IF bound # NoKey /\ bound = call[r].proof THEN "accepted" ELSE "unauthorized")

Decision(r) == IF call[r].route.bound = "proved" THEN DPoPDecision(r) ELSE BearerDecision(r)
-----------------------------------------------------------------------------
(* Steps shared by the handlers.                                           *)

\* r goes on to a place; the requests in wake find what the lookup they waited
\* for left them.
Resume(r, place, wake, left) ==
    /\ pc' = [q \in Requests |-> IF q = r THEN place ELSE IF q \in wake THEN "woken" ELSE pc[q]]
    /\ handed' = [q \in Requests |->
                     IF q = r THEN Result("none") ELSE IF q \in wake THEN left ELSE handed[q]]
    /\ response' = [response EXCEPT ![r] = NoAnswer]

\* r's call ends with a result, which its source turns into the reply.
Finish(r, result, wake, left) ==
    /\ Resume(r, "idle", wake, left)
    /\ reply' = [reply EXCEPT ![r] = AddChallenge(result, call[r].route)]
    /\ call' = [call EXCEPT ![r] = NoCall]
    /\ verifiedJkt' = [verifiedJkt EXCEPT ![r] = NoKey]

\* Mutant of Record: only the request that asked the provider records.
RecordByLeader(r) ==
    verifiedJkt' = IF pc[r] # "introspecting" THEN verifiedJkt
                   ELSE [verifiedJkt EXCEPT ![r] = Claims[call[r].token].jkt]

\* Mutant of Record: a variable of the module instead of one of the context.
RecordShared(r) == verifiedJkt' = [q \in Requests |-> Claims[call[r].token].jkt]

\* record_verified_jkt, in the context of r
Record(r) == verifiedJkt' = [verifiedJkt EXCEPT ![r] = Claims[call[r].token].jkt]

\* r has the claims, fresh, shared or cached: its scopes are required, then it
\* records the binding and waits for its identity.
Take(r, wake, left) ==
    \/ /\ ~RequireScopes(call[r].token, call[r].route.scopes)
       /\ Finish(r, Result("forbidden"), wake, left)
    \/ /\ RequireScopes(call[r].token, call[r].route.scopes)
       /\ Resume(r, "mapping", wake, left)
       /\ Record(r)
       /\ UNCHANGED <<call, reply>>

Waiters(t) == {q \in Requests : pc[q] = "waiting" /\ call[q].token = t}

\* Mutant of JoinOrLead: every request asks the provider itself.
LeadAlways(r) ==
    /\ pc' = [pc EXCEPT ![r] = "introspecting"]
    /\ leader' = [leader EXCEPT ![call[r].token] = r]
    /\ handed' = [handed EXCEPT ![r] = Result("none")]
    /\ UNCHANGED <<call, verifiedJkt, response, reply>>

\* The `while` of _lookup: wait for the introspection in flight, or start one.
JoinOrLead(r) ==
    LET t == call[r].token
    IN  /\ \/ /\ leader[t] # NoOne
              /\ pc' = [pc EXCEPT ![r] = "waiting"]
              /\ UNCHANGED leader
           \/ /\ leader[t] = NoOne
              /\ pc' = [pc EXCEPT ![r] = "introspecting"]
              /\ leader' = [leader EXCEPT ![t] = r]
        /\ handed' = [handed EXCEPT ![r] = Result("none")]
        /\ UNCHANGED <<call, verifiedJkt, response, reply>>

\* The `finally` of _lookup: the lookup is over, whatever its end, and its
\* waiters find the answer, the error, or neither when the leader was cancelled.
EndLookup(r, result, left) ==
    /\ leader' = [leader EXCEPT ![call[r].token] = NoOne]
    /\ Finish(r, result, Waiters(call[r].token), left)
-----------------------------------------------------------------------------
\* A request has a context of its own, with no key recorded in it.
Arrive(r) ==
    /\ pc[r] = "idle"
    /\ pc' = [pc EXCEPT ![r] = "called"]
    /\ \E t \in Tokens, route \in Routes, key \in Keys \cup {NoKey} :
          /\ key = NoKey <=> route.bound # "proved"
          /\ call' = [call EXCEPT ![r] = [token |-> t, route |-> route, proof |-> key]]
    /\ reply' = [reply EXCEPT ![r] = Result("none")]
    /\ UNCHANGED <<cacheVars, leader, verifiedJkt, response, handed, worldVars>>

\* __call__ up to its answer, or to the lookup it waits for; a lapsed answer
\* is dropped.
Call(r) ==
    LET t == call[r].token
    IN  /\ pc[r] = "called"
        /\ \/ /\ Cached(t)
              /\ recency' = MoveToEnd(recency, t)
              /\ Take(r, {}, Result("none"))
              /\ UNCHANGED <<cache, leader>>
           \/ /\ ~Cached(t)
              /\ cache' = [cache EXCEPT ![t] = Absent]
              /\ recency' = Without(recency, t)
              /\ JoinOrLead(r)
        /\ UNCHANGED worldVars

\* Mutant of Store: no answer makes room for another.
StoreUnbounded(t) ==
    /\ recency' = MoveToEnd(recency, t)
    /\ cache' = [cache EXCEPT ![t] = now + Lifetime(Claims[t])]

\* Mutant of Store: the leeway prolongs the answer.
StoreWithLeeway(t) ==
    /\ recency' = KeepNewest(MoveToEnd(recency, t), CacheSize)
    /\ cache' = [u \in Tokens |->
                    IF u \notin ToSet(recency') THEN Absent
                    ELSE IF u = t THEN now + Lifetime(Claims[t]) + Leeway ELSE cache[u]]

\* _store: an answer that would lapse at once is not cached; the least
\* recently used ones make room.
Store(t) ==
    LET lifetime == Lifetime(Claims[t])
        kept == KeepNewest(MoveToEnd(recency, t), CacheSize)
    IN  \/ /\ lifetime <= 0
           /\ UNCHANGED cacheVars
        \/ /\ lifetime > 0
           /\ recency' = kept
           /\ cache' = [u \in Tokens |->
                           IF u \notin ToSet(kept) THEN Absent
                           ELSE IF u = t THEN now + lifetime ELSE cache[u]]

\* The provider's answer reaches r, the leader of its lookup.
Returns(r) ==
    LET t == call[r].token
        refused == AddChallenge(Result("unauthorized"), call[r].route)
    IN  /\ pc[r] = "introspecting"
        /\ response[r] # NoAnswer
        /\ \/ /\ response[r] = "unavailable"
              /\ EndLookup(r, Result("unavailable"), Result("unavailable"))
              /\ UNCHANGED cacheVars
           \/ /\ response[r] = "inactive" \/ ~ClaimsHold(Claims[t])
              /\ response[r] # "unavailable"
              /\ EndLookup(r, refused, refused)
              /\ UNCHANGED cacheVars
           \/ /\ response[r] = "active" /\ ClaimsHold(Claims[t])
              /\ Store(t)
              /\ leader' = [leader EXCEPT ![t] = NoOne]
              /\ Take(r, Waiters(t), Result("answer"))
        /\ UNCHANGED worldVars

\* r resumes after the lookup it waited for.
Woken(r) ==
    /\ pc[r] = "woken"
    /\ \/ /\ handed[r].status \in {"unavailable", "unauthorized"}
          /\ Finish(r, Copied(handed[r]), {}, Result("none"))
          /\ UNCHANGED leader
       \/ /\ handed[r].status = "answer"
          /\ Take(r, {}, Result("none"))
          /\ UNCHANGED leader
       \/ /\ handed[r].status = "none"
          /\ JoinOrLead(r)
    /\ UNCHANGED <<cacheVars, worldVars>>

\* claims_to_identity returns, and r's source decides.
Mapped(r) ==
    /\ pc[r] = "mapping"
    /\ Finish(r, Decision(r), {}, Result("none"))
    /\ UNCHANGED <<cacheVars, leader, worldVars>>

\* Mutant of Cancel: without the `finally`, a cancelled leader's entry stays.
CancelWithoutFinally(r) ==
    /\ cancels < MaxCancels
    /\ cancels' = cancels + 1
    /\ pc[r] \in {"introspecting", "waiting", "woken", "mapping"}
    /\ Finish(r, Result("cancelled"), {}, Result("none"))
    /\ UNCHANGED <<cacheVars, leader, now, active, revoked>>

\* r's task is cancelled: a leader leaves its waiters neither answer nor error.
Cancel(r) ==
    /\ cancels < MaxCancels
    /\ cancels' = cancels + 1
    /\ \/ /\ pc[r] = "introspecting"
          /\ EndLookup(r, Result("cancelled"), Result("none"))
       \/ /\ pc[r] \in {"waiting", "woken", "mapping"}
          /\ Finish(r, Result("cancelled"), {}, Result("none"))
          /\ UNCHANGED leader
    /\ UNCHANGED <<cacheVars, now, active, revoked>>
-----------------------------------------------------------------------------
(* The world outside: the provider, and time.                              *)

ProviderAnswers(r) ==
    /\ pc[r] = "introspecting"
    /\ response[r] = NoAnswer
    /\ \E a \in {IF call[r].token \in active THEN "active" ELSE "inactive", "unavailable"} :
          response' = [response EXCEPT ![r] = a]
    /\ UNCHANGED <<cacheVars, leader, pc, call, verifiedJkt, handed, reply, worldVars>>

MidLookup(t) ==
    \E r \in Requests : pc[r] \in {"introspecting", "waiting", "woken"} /\ call[r].token = t

Revoke(t) ==
    /\ t \in active
    /\ active' = active \ {t}
    /\ revoked' = [revoked EXCEPT ![t] = [at |-> now, midLookup |-> MidLookup(t)]]
    /\ UNCHANGED <<cacheVars, leader, requestVars, now, cancels>>

Tick ==
    /\ now < MaxClock
    /\ now' = now + 1
    /\ UNCHANGED <<cacheVars, leader, requestVars, active, cancels, revoked>>

Next ==
    \/ \E r \in Requests :
          \/ Arrive(r)
          \/ Call(r)
          \/ Returns(r)
          \/ Woken(r)
          \/ Mapped(r)
          \/ Cancel(r)
          \/ ProviderAnswers(r)
    \/ \E t \in Tokens : Revoke(t)
    \/ Tick

Spec == Init /\ [][Next]_vars

\* The event loop resumes whatever can run, a request to the provider ends, if
\* only by its timeout, and so does claims_to_identity.  Nobody must call,
\* cancel or revoke.
Progress(r) == Call(r) \/ Returns(r) \/ Woken(r) \/ Mapped(r) \/ ProviderAnswers(r)

FairSpec == Spec /\ \A r \in Requests : WF_vars(Progress(r))
-----------------------------------------------------------------------------
(* Properties                                                              *)

\* Types; and the cache holds at most cache_size answers, its order lists
\* each cached token once.
TypeOK ==
    /\ cache \in [Tokens -> 0..(MaxClock + CacheTtl) \cup {Absent}]
    /\ recency \in Seq(Tokens) /\ IsInjective(recency) /\ Len(recency) <= CacheSize
    /\ ToSet(recency) = {t \in Tokens : cache[t] # Absent}
    /\ leader \in [Tokens -> Requests \cup {NoOne}]
    /\ pc \in [Requests -> Running \cup {"idle"}]
    /\ call \in [Requests -> Calls \cup {NoCall}]
    /\ verifiedJkt \in [Requests -> Keys \cup {NoKey}]
    /\ response \in [Requests -> Responses \cup {NoAnswer}]
    /\ \A f \in {handed, reply} : DOMAIN f = Requests /\ \A r \in Requests : f[r].status \in Statuses
    /\ now \in 0..MaxClock
    /\ active \in SUBSET Tokens
    /\ cancels \in 0..MaxCancels
    /\ revoked \in [Tokens -> [at : 0..now, midLookup : BOOLEAN]]

\* The provider is never asked twice at the same time about one token, and a
\* request waits only while the one it waits for is asking: an entry of
\* `_lookups` is never left behind, whether its leader got an answer, failed
\* or was cancelled.
SingleFlight ==
    /\ \A r \in Requests : pc[r] = "introspecting" => leader[call[r].token] = r
    /\ \A r \in Requests : pc[r] = "waiting" => leader[call[r].token] # NoOne
    /\ \A t \in Tokens : leader[t] # NoOne =>
          pc[leader[t]] = "introspecting" /\ call[leader[t]].token = t

Replies(r, status) == pc[r] # "idle" /\ pc'[r] = "idle" /\ reply'[r].status = status

\* r gets claims its route may use, and maps them to an identity.
Takes(r) == pc[r] # "mapping" /\ pc'[r] = "mapping"

\* The claims of a token are taken from the cache only before its `exp`, without
\* the leeway, and from the provider's own answer before `exp` plus the leeway.
NeverAcceptedExpired ==
    [][\A r \in Requests : Takes(r) /\ Claims[call[r].token].exp # NoTime =>
          /\ pc[r] = "called" => now < Claims[call[r].token].exp
          /\ pc[r] = "introspecting" => now < Claims[call[r].token].exp + Leeway]_vars

\* Whoever looked it up, and whatever other requests record while its identity
\* is mapped, a request is judged by the key of its own token: a bearer source
\* that refuses bound tokens accepts exactly those that are not bound, and a
\* DPoP source exactly those bound to the key of the request's own proof.
BoundNeedsProof ==
    [][\A r \in Requests :
          LET key == Claims[call[r].token].jkt
          IN  pc[r] = "mapping" /\ pc'[r] = "idle" /\ reply'[r].status # "cancelled" =>
                 /\ call[r].route.bound = "refused" =>
                       (reply'[r].status = "accepted" <=> key = NoKey)
                 /\ call[r].route.bound = "proved" =>
                       (reply'[r].status = "accepted" <=> key # NoKey /\ key = call[r].proof)]_vars

\* The claims of a revoked token are taken no more from cache_ttl after its
\* revocation on, unless some request was in the middle of looking it up when
\* it was revoked.
RevocationTakesEffect ==
    [][\A r \in Requests :
          LET t == call[r].token
          IN  Takes(r) /\ t \notin active /\ ~revoked[t].midLookup =>
                  now < revoked[t].at + CacheTtl]_vars

\* Every call of the validator ends: the waiters of a lookup that failed or
\* was cancelled are woken, and one of them asks again.
EveryCallEnds ==
    \A r \in Requests : pc[r] \in Running ~> pc[r] = "idle"

\* What introspection.py promises: if the endpoint is down, the request is
\* answered with a 503, the requests that share one introspection included.
OutageAnswered503 ==
    \A r \in Requests : reply[r].status # "crashed"

\* What abc.py promises: every 401 of a source carries that source's challenge.
ChallengeIsTheSources ==
    [][\A r \in Requests : Replies(r, "unauthorized") =>
          reply'[r].challenge = call[r].route.challenge]_vars
=============================================================================
