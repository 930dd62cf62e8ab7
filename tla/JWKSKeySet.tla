----------------------------- MODULE JWKSKeySet -----------------------------
(***************************************************************************)
(* `_JWKSKeySet` (jwt.py): the signing keys of one provider, fetched from  *)
(* its JWKS document, cached, and refreshed when they age or when a token  *)
(* names a key the cache does not hold.  One key set serves every          *)
(* concurrent request of a `JWTValidator` (and every OIDC callback for the *)
(* provider, id_token.py).                                                 *)
(*                                                                         *)
(* The code runs on one event loop: a request gives control away only at   *)
(* an `await` that suspends, here the refresh lock and the HTTP request.   *)
(* An action is the code between two such points.                          *)
(***************************************************************************)
EXTENDS Integers, FiniteSets, Sequences

CONSTANTS
    Requests,          \* slots for concurrent calls of key_for_token
    Nobody,            \* the owner of a free refresh lock
    Kids,              \* the key ids a provider may publish
    NoKid,             \* a token whose header has no `kid`
    Malformed,         \* a token whose header does not parse
    NoAnswer,          \* the provider has not answered yet
    Failure,           \* the request failed, or its document was unusable
    CacheTtl,          \* jwks_cache_ttl
    RefreshCooldown,   \* jwks_refresh_cooldown
    MaxClock           \* bound on the clock

ASSUME TtlAssumption      == CacheTtl \in Nat
ASSUME CooldownAssumption == RefreshCooldown \in Nat
ASSUME ClockAssumption    == MaxClock \in Nat
ASSUME NamesAssumption    == Nobody \notin Requests
ASSUME TokenAssumption    == NoKid \notin Kids /\ Malformed \notin Kids /\ NoKid # Malformed
ASSUME AnswerAssumption   == NoAnswer # Failure
                             /\ \A ks \in SUBSET Kids : ks # NoAnswer /\ ks # Failure

VARIABLES
    keys,          \* _keys: the usable keys of the last good document
    fetchedAt,     \* _fetched_at
    attemptedAt,   \* _attempted_at
    lock,          \* _refresh_lock
    pc,            \* where each request is suspended, or how its call ended
    token,         \* the `kid` of its token, NoKid or Malformed
    forced,        \* whether its current _refresh is the forced one
    answer,        \* what the provider answered to its fetch
    now,           \* time.monotonic()
    published      \* the keys the provider publishes now

VARIABLES          \* history, read by the properties only
    attempt        \* the last fetch the provider received: when, how it went,
                   \* and which keys were published since it began

cacheVars   == <<keys, fetchedAt, attemptedAt, lock>>
requestVars == <<pc, token, forced, answer>>
worldVars   == <<now, published>>
vars == <<cacheVars, requestVars, worldVars, attempt>>

RefreshLock == INSTANCE AnyioLock WITH Tasks <- Requests

Running  == {"called", "lock", "fetch"}
Outcomes == {"idle", "verified", "malformed", "unknown_key", "unavailable", "cancelled"}
Results  == {"none", "pending", "loaded", "failed", "cancelled"}

\* `float("-inf")`: any time is a whole cooldown after it
NeverAttempted == -RefreshCooldown
-----------------------------------------------------------------------------
Init ==
    /\ keys = {}
    /\ fetchedAt = 0
    /\ attemptedAt = NeverAttempted
    /\ lock = RefreshLock!Free
    /\ pc = [r \in Requests |-> "idle"]
    /\ token = [r \in Requests |-> Malformed]
    /\ forced = [r \in Requests |-> FALSE]
    /\ answer = [r \in Requests |-> NoAnswer]
    /\ now = 0
    /\ published \in SUBSET Kids
    /\ attempt = [at |-> NeverAttempted, result |-> "none", appeared |-> {}]

\* Mutant of CacheStale: the lifetime is never looked at.
CacheStaleWhenEmpty == keys = {}

CacheStale == keys = {} \/ now - fetchedAt > CacheTtl

\* Mutant of InCooldown: the cooldown runs from the last success.
InCooldownSinceLoad == keys # {} /\ now - fetchedAt < RefreshCooldown

InCooldown == now - attemptedAt < RefreshCooldown

\* _lookup_key: a token without a `kid` takes the only key there is.
Holds(ks, t) == IF t = NoKid THEN Cardinality(ks) = 1 ELSE t \in ks
-----------------------------------------------------------------------------
(* Steps shared by the handlers: each says what becomes of r's request.    *)

\* The call returns or raises, and its locals are gone.
Finish(r, o) ==
    /\ pc' = [pc EXCEPT ![r] = o]
    /\ token' = [token EXCEPT ![r] = Malformed]
    /\ forced' = [forced EXCEPT ![r] = FALSE]
    /\ answer' = [answer EXCEPT ![r] = NoAnswer]

EnterRefresh(r, force, l) ==
    /\ pc' = [pc EXCEPT ![r] = "lock"]
    /\ forced' = [forced EXCEPT ![r] = force]
    /\ lock' = RefreshLock!Acquire(l, r)
    /\ answer' = [answer EXCEPT ![r] = NoAnswer]
    /\ UNCHANGED token

\* Mutant of LeaveRefresh: no forced refresh for a key the first one did not bring.
LeaveRefreshAtOnce(r, ks) ==
    /\ Finish(r, IF Holds(ks, token[r]) THEN "verified" ELSE "unknown_key")
    /\ lock' = RefreshLock!Release(lock)

\* `_refresh` returns and r looks its key up in ks: the forced refresh was the last resort.
LeaveRefresh(r, ks) ==
    LET released == RefreshLock!Release(lock)
    IN  \/ /\ Holds(ks, token[r])
           /\ Finish(r, "verified")
           /\ lock' = released
        \/ /\ ~Holds(ks, token[r])
           /\ forced[r]
           /\ Finish(r, "unknown_key")
           /\ lock' = released
        \/ /\ ~Holds(ks, token[r])
           /\ ~forced[r]
           /\ EnterRefresh(r, TRUE, released)

RefreshFails(r) ==
    /\ Finish(r, "unavailable")
    /\ lock' = RefreshLock!Release(lock)
-----------------------------------------------------------------------------
\* A request calls key_for_token with some token.
Arrive(r) ==
    /\ pc[r] \in Outcomes
    /\ \E t \in Kids \cup {NoKid, Malformed} : token' = [token EXCEPT ![r] = t]
    /\ pc' = [pc EXCEPT ![r] = "called"]
    /\ UNCHANGED <<cacheVars, forced, answer, worldVars, attempt>>

\* key_for_token up to its answer or to the first refresh it waits for
KeyForToken(r) ==
    /\ pc[r] = "called"
    /\ \/ /\ token[r] = Malformed
          /\ Finish(r, "malformed")
          /\ UNCHANGED lock
       \/ /\ token[r] # Malformed
          /\ CacheStale
          /\ EnterRefresh(r, FALSE, lock)
       \/ /\ token[r] # Malformed
          /\ ~CacheStale
          /\ Holds(keys, token[r])
          /\ Finish(r, "verified")
          /\ UNCHANGED lock
       \/ /\ token[r] # Malformed
          /\ ~CacheStale
          /\ ~Holds(keys, token[r])
          /\ EnterRefresh(r, TRUE, lock)
    /\ UNCHANGED <<keys, fetchedAt, attemptedAt, worldVars, attempt>>

\* r got the lock and finds the refresh done, or tried too recently.
SkipRefresh(r) ==
    /\ pc[r] = "lock"
    /\ lock.owner = r
    /\ \/ InCooldown /\ keys = {} /\ RefreshFails(r)
       \/ InCooldown /\ keys # {} /\ LeaveRefresh(r, keys)
       \/ ~InCooldown /\ ~forced[r] /\ ~CacheStale /\ LeaveRefresh(r, keys)
    /\ UNCHANGED <<keys, fetchedAt, attemptedAt, worldVars, attempt>>

\* Mutant of StartFetch: the lock is not waited for.
StartFetchUnlocked(r) ==
    /\ pc[r] = "lock"
    /\ ~InCooldown
    /\ forced[r] \/ CacheStale
    /\ attemptedAt' = now
    /\ pc' = [pc EXCEPT ![r] = "fetch"]
    /\ attempt' = [at |-> now, result |-> "pending", appeared |-> {}]
    /\ UNCHANGED <<keys, fetchedAt, lock, token, forced, answer, worldVars>>

\* Mutant of StartFetch: `_attempted_at` holds the end of the cooldown.
StartFetchUntil(r) ==
    /\ pc[r] = "lock"
    /\ lock.owner = r
    /\ ~InCooldown
    /\ forced[r] \/ CacheStale
    /\ attemptedAt' = now + RefreshCooldown
    /\ pc' = [pc EXCEPT ![r] = "fetch"]
    /\ attempt' = [at |-> now, result |-> "pending", appeared |-> {}]
    /\ UNCHANGED <<keys, fetchedAt, lock, token, forced, answer, worldVars>>

\* r got the lock and sends the request for the document.
StartFetch(r) ==
    /\ pc[r] = "lock"
    /\ lock.owner = r
    /\ ~InCooldown
    /\ forced[r] \/ CacheStale
    /\ attemptedAt' = now
    /\ pc' = [pc EXCEPT ![r] = "fetch"]
    /\ attempt' = [at |-> now, result |-> "pending", appeared |-> {}]
    /\ UNCHANGED <<keys, fetchedAt, lock, token, forced, answer, worldVars>>

\* Mutant of Unusable: a document without a usable key replaces the cache.
UnusableOnlyIfFailed(a) == a = Failure

Unusable(a) == a \in {Failure, {}}

\* _fetch replaces the keys wholesale; a failure leaves the cached ones in use.
FetchReturns(r) ==
    /\ pc[r] = "fetch"
    /\ answer[r] # NoAnswer
    /\ \/ /\ ~Unusable(answer[r])
          /\ keys' = answer[r]
          /\ fetchedAt' = now
          /\ attempt' = [attempt EXCEPT !.result = "loaded"]
          /\ LeaveRefresh(r, answer[r])
       \/ /\ Unusable(answer[r])
          /\ attempt' = [attempt EXCEPT !.result = "failed"]
          /\ IF keys = {} THEN RefreshFails(r) ELSE LeaveRefresh(r, keys)
          /\ UNCHANGED <<keys, fetchedAt>>
    /\ UNCHANGED <<attemptedAt, worldVars>>

\* Mutant of Cancel: the lock is not given up.
CancelKeepingLock(r) ==
    /\ pc[r] \in {"lock", "fetch"}
    /\ Finish(r, "cancelled")
    /\ attempt' = IF pc[r] = "fetch" THEN [attempt EXCEPT !.result = "cancelled"] ELSE attempt
    /\ UNCHANGED <<cacheVars, worldVars>>

\* r's task is cancelled (a timeout, a client gone) where it is suspended:
\* `async with` gives the lock up, and `_attempted_at` stays.
Cancel(r) ==
    /\ pc[r] \in {"lock", "fetch"}
    /\ Finish(r, "cancelled")
    /\ lock' = RefreshLock!Abandon(lock, r)
    /\ attempt' = IF pc[r] = "fetch" THEN [attempt EXCEPT !.result = "cancelled"] ELSE attempt
    /\ UNCHANGED <<keys, fetchedAt, attemptedAt, worldVars>>
-----------------------------------------------------------------------------
(* The world outside: the provider, and time.                              *)

\* The provider answers with the keys it publishes then, or the request fails.
ProviderAnswers(r) ==
    /\ pc[r] = "fetch"
    /\ answer[r] = NoAnswer
    /\ \E a \in {published, Failure} : answer' = [answer EXCEPT ![r] = a]
    /\ UNCHANGED <<cacheVars, pc, token, forced, worldVars, attempt>>

Rotate ==
    /\ \E ks \in SUBSET Kids \ {published} :
          /\ published' = ks
          /\ attempt' = [attempt EXCEPT !.appeared = @ \cup (ks \ published)]
    /\ UNCHANGED <<cacheVars, requestVars, now>>

Tick ==
    /\ now < MaxClock
    /\ now' = now + 1
    /\ UNCHANGED <<cacheVars, requestVars, published, attempt>>

Next ==
    \/ \E r \in Requests :
          \/ Arrive(r)
          \/ KeyForToken(r)
          \/ SkipRefresh(r)
          \/ StartFetch(r)
          \/ FetchReturns(r)
          \/ Cancel(r)
          \/ ProviderAnswers(r)
    \/ Rotate
    \/ Tick

Spec == Init /\ [][Next]_vars

\* The event loop resumes whatever can run, and a request to the provider
\* ends, if only by its timeout.  Nobody must call, cancel or rotate.
Progress(r) ==
    KeyForToken(r) \/ SkipRefresh(r) \/ StartFetch(r) \/ ProviderAnswers(r) \/ FetchReturns(r)

FairSpec == Spec /\ \A r \in Requests : WF_vars(Progress(r))
-----------------------------------------------------------------------------
(* Properties                                                              *)

TypeOK ==
    /\ keys \in SUBSET Kids
    /\ fetchedAt \in 0..now
    /\ attemptedAt \in {NeverAttempted} \cup 0..now
    /\ lock \in RefreshLock!Locks
    /\ pc \in [Requests -> Running \cup Outcomes]
    /\ token \in [Requests -> Kids \cup {NoKid, Malformed}]
    /\ forced \in [Requests -> BOOLEAN]
    /\ answer \in [Requests -> (SUBSET Kids) \cup {NoAnswer, Failure}]
    /\ now \in 0..MaxClock
    /\ published \in SUBSET Kids
    /\ attempt \in [at : {NeverAttempted} \cup 0..now, result : Results, appeared : SUBSET Kids]

Decides(r, o) == pc[r] \in Running /\ pc'[r] = o

\* However requests interleave, the provider never receives a fetch sooner
\* than a cooldown after the one before: `_attempted_at` is re-checked under
\* the lock, and it survives failures and cancellations.
FetchesAreSpaced ==
    [][\A r \in Requests : pc[r] # "fetch" /\ pc'[r] = "fetch" =>
          now - attempt.at >= RefreshCooldown]_vars

\* At most one fetch is in flight, however long it takes: the lock is held
\* from before `_attempted_at` is set until the answer is stored.
OneFetchAtATime ==
    \A r, s \in Requests : pc[r] = "fetch" /\ pc[s] = "fetch" => r = s

\* Why the properties below hold: whoever fetches owns the lock and runs the
\* last attempt, and the document a fetch brings holds every key that has been
\* published without a break since that fetch began.
FetchInv ==
    /\ attempt.at = attemptedAt
    /\ attempt.result = "none" => attemptedAt = NeverAttempted
    /\ attempt.result = "pending" => \E r \in Requests : pc[r] = "fetch"
    /\ attempt.result = "loaded" => keys # {} /\ published \ attempt.appeared \subseteq keys
    /\ \A r \in Requests :
          /\ pc[r] = "fetch" => lock.owner = r
          /\ pc[r] # "fetch" => answer[r] = NoAnswer
          /\ answer[r] \notin {NoAnswer, Failure} => published \ attempt.appeared \subseteq answer[r]

\* Once a document was loaded, no outage, bad document or rotation empties
\* the cache or turns a request away with a 503: the stale keys serve.
OnceLoadedNeverUnavailable ==
    [][keys # {} => keys' # {} /\ \A r \in Requests : ~Decides(r, "unavailable")]_vars

\* A request is turned away with a 503 only if nothing is cached and the last
\* attempt did not bring keys: its own, or one within the cooldown, which may
\* have been cancelled rather than failed.
UnavailableOnlyAfterAttempt ==
    [][\A r \in Requests : Decides(r, "unavailable") =>
          /\ keys = {}
          /\ pc[r] = "fetch" \/ InCooldown
          /\ attempt'.result \in {"failed", "cancelled"}]_vars

\* A token is refused as signed by an unknown key only on a recent look at
\* the provider: a fetch of its own, or one begun within the cooldown; and a
\* key the provider publishes is missed only if it appeared after that fetch
\* began, or that fetch did not succeed.
UnknownKeyWasSought ==
    [][\A r \in Requests : Decides(r, "unknown_key") =>
          /\ pc[r] = "fetch" \/ InCooldown
          /\ token[r] \in published =>
                \/ token[r] \in attempt'.appeared
                \/ attempt'.result \in {"failed", "cancelled"}]_vars

\* Keys past their lifetime verify a token only as the fallback: the request's
\* own refresh failed, or the cooldown forbids another one.
StaleKeysOnlyAsFallback ==
    [][\A r \in Requests : Decides(r, "verified") /\ now - fetchedAt' > CacheTtl =>
          \/ InCooldown
          \/ pc[r] = "fetch" /\ attempt'.result = "failed"]_vars

\* Every call of key_for_token ends: no request is left waiting for the lock
\* behind a fetch that failed or was cancelled.
EveryCallEnds ==
    \A r \in Requests : pc[r] \in Running ~> pc[r] \in Outcomes
=============================================================================
