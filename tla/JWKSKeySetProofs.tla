-------------------------- MODULE JWKSKeySetProofs --------------------------
(***************************************************************************)
(* Proofs about JWKSKeySet, for every set of requests and of key ids and   *)
(* every lifetime, cooldown and clock bound.                               *)
(***************************************************************************)
EXTENDS JWKSKeySet, TLAPS

\* The lock's operations yield locks, and neither a newcomer nor somebody
\* else's withdrawal changes the owner.
LEMMA LockOperations ==
    ASSUME NEW l \in RefreshLock!Locks, NEW r \in Requests
    PROVE  /\ RefreshLock!Acquire(l, r) \in RefreshLock!Locks
           /\ RefreshLock!Release(l) \in RefreshLock!Locks
           /\ RefreshLock!Abandon(l, r) \in RefreshLock!Locks
           /\ l.owner # Nobody => RefreshLock!Acquire(l, r).owner = l.owner
           /\ l.owner # r => RefreshLock!Abandon(l, r).owner = l.owner
<1> USE DEF RefreshLock!Locks
<1>1. RefreshLock!Acquire(l, r) \in RefreshLock!Locks
  BY DEF RefreshLock!Acquire
<1>2. RefreshLock!Release(l) \in RefreshLock!Locks
  BY DEF RefreshLock!Release, RefreshLock!Free
<1>3. RefreshLock!Without(l.waiters, r) \in Seq(Requests)
  <2> DEFINE place == CHOOSE i \in DOMAIN l.waiters : l.waiters[i] = r
  <2>1. ASSUME r \in RefreshLock!ToSet(l.waiters)
        PROVE  place \in 1..Len(l.waiters)
    BY <2>1 DEF RefreshLock!ToSet
  <2> HIDE DEF place
  <2>2. ASSUME r \in RefreshLock!ToSet(l.waiters)
        PROVE  RefreshLock!RemoveAt(l.waiters, place) \in Seq(Requests)
    BY <2>1, <2>2 DEF RefreshLock!RemoveAt
  <2> QED BY <2>2 DEF RefreshLock!Without, place
<1>4. RefreshLock!Abandon(l, r) \in RefreshLock!Locks
  BY <1>2, <1>3 DEF RefreshLock!Abandon
<1>5. l.owner # Nobody => RefreshLock!Acquire(l, r).owner = l.owner
  BY DEF RefreshLock!Acquire
<1>6. l.owner # r => RefreshLock!Abandon(l, r).owner = l.owner
  BY DEF RefreshLock!Abandon
<1> QED BY <1>1, <1>2, <1>4, <1>5, <1>6

RequestsTypeOK ==
    /\ pc \in [Requests -> Running \cup Outcomes]
    /\ token \in [Requests -> Kids \cup {NoKid, Malformed}]
    /\ forced \in [Requests -> BOOLEAN]
    /\ answer \in [Requests -> (SUBSET Kids) \cup {NoAnswer, Failure}]
    /\ lock \in RefreshLock!Locks

\* The shared steps keep the requests' variables and the lock well typed.
LEMMA FinishTypes ==
    ASSUME RequestsTypeOK, NEW r \in Requests, NEW o \in Outcomes, Finish(r, o),
           lock' \in RefreshLock!Locks
    PROVE  RequestsTypeOK'
BY DEF RequestsTypeOK, Finish

LEMMA EnterRefreshTypes ==
    ASSUME RequestsTypeOK, NEW r \in Requests, NEW f \in BOOLEAN,
           NEW l \in RefreshLock!Locks, EnterRefresh(r, f, l)
    PROVE  RequestsTypeOK'
BY LockOperations DEF RequestsTypeOK, EnterRefresh, Running

LEMMA LeaveRefreshTypes ==
    ASSUME RequestsTypeOK, NEW r \in Requests, NEW ks, LeaveRefresh(r, ks)
    PROVE  RequestsTypeOK'
<1>1. RefreshLock!Release(lock) \in RefreshLock!Locks
  BY LockOperations DEF RequestsTypeOK
<1>2. CASE Finish(r, "verified") /\ lock' = RefreshLock!Release(lock)
  BY <1>1, <1>2, FinishTypes DEF Outcomes
<1>3. CASE Finish(r, "unknown_key") /\ lock' = RefreshLock!Release(lock)
  BY <1>1, <1>3, FinishTypes DEF Outcomes
<1>4. CASE EnterRefresh(r, TRUE, RefreshLock!Release(lock))
  BY <1>1, <1>4, EnterRefreshTypes
<1> QED BY <1>2, <1>3, <1>4 DEF LeaveRefresh

LEMMA RefreshFailsTypes ==
    ASSUME RequestsTypeOK, NEW r \in Requests, RefreshFails(r)
    PROVE  RequestsTypeOK'
BY LockOperations, FinishTypes DEF RefreshFails, RequestsTypeOK, Outcomes

CacheTypeOK ==
    /\ keys \in SUBSET Kids
    /\ fetchedAt \in 0..now
    /\ attemptedAt \in {NeverAttempted} \cup 0..now
    /\ now \in 0..MaxClock
    /\ published \in SUBSET Kids
    /\ attempt \in [at : {NeverAttempted} \cup 0..now, result : Results, appeared : SUBSET Kids]

LEMMA TypeInit == Init => TypeOK
BY TtlAssumption, CooldownAssumption, ClockAssumption
   DEF Init, TypeOK, RefreshLock!Free, RefreshLock!Locks, Running, Outcomes,
       Results, NeverAttempted

LEMMA TypeStep == TypeOK /\ [Next]_vars => TypeOK'
<1> SUFFICES ASSUME RequestsTypeOK, CacheTypeOK, [Next]_vars
             PROVE  RequestsTypeOK' /\ CacheTypeOK'
  BY DEF TypeOK, RequestsTypeOK, CacheTypeOK
<1> USE TtlAssumption, CooldownAssumption, ClockAssumption
<1>1. ASSUME NEW r \in Requests, Arrive(r)
      PROVE  RequestsTypeOK' /\ CacheTypeOK'
  BY <1>1 DEF Arrive, RequestsTypeOK, CacheTypeOK, cacheVars, worldVars, Running
<1>2. ASSUME NEW r \in Requests, KeyForToken(r)
      PROVE  RequestsTypeOK' /\ CacheTypeOK'
  <2>1. CacheTypeOK'
    BY <1>2 DEF KeyForToken, CacheTypeOK, worldVars
  <2>2. lock \in RefreshLock!Locks
    BY DEF RequestsTypeOK
  <2>3. CASE Finish(r, "malformed") /\ UNCHANGED lock
    BY <2>1, <2>2, <2>3, FinishTypes DEF Outcomes
  <2>4. CASE Finish(r, "verified") /\ UNCHANGED lock
    BY <2>1, <2>2, <2>4, FinishTypes DEF Outcomes
  <2>5. CASE EnterRefresh(r, FALSE, lock) \/ EnterRefresh(r, TRUE, lock)
    BY <2>1, <2>2, <2>5, EnterRefreshTypes
  <2> QED BY <1>2, <2>1, <2>3, <2>4, <2>5 DEF KeyForToken
<1>3. ASSUME NEW r \in Requests, SkipRefresh(r)
      PROVE  RequestsTypeOK' /\ CacheTypeOK'
  <2>1. CacheTypeOK'
    BY <1>3 DEF SkipRefresh, CacheTypeOK, worldVars
  <2>2. RequestsTypeOK'
    BY <1>3, LeaveRefreshTypes, RefreshFailsTypes DEF SkipRefresh
  <2> QED BY <2>1, <2>2
<1>4. ASSUME NEW r \in Requests, StartFetch(r)
      PROVE  RequestsTypeOK' /\ CacheTypeOK'
  BY <1>4 DEF StartFetch, RequestsTypeOK, CacheTypeOK, worldVars, Running, Results
<1>5. ASSUME NEW r \in Requests, FetchReturns(r)
      PROVE  RequestsTypeOK' /\ CacheTypeOK'
  <2>1. RequestsTypeOK'
    BY <1>5, LeaveRefreshTypes, RefreshFailsTypes DEF FetchReturns
  <2>2. CASE ~Unusable(answer[r])
    <3>1. answer[r] \in SUBSET Kids
      BY <1>5, <2>2 DEF FetchReturns, RequestsTypeOK, Unusable
    <3> QED BY <1>5, <2>1, <2>2, <3>1 DEF FetchReturns, CacheTypeOK, worldVars, Results
  <2>3. CASE Unusable(answer[r])
    BY <1>5, <2>1, <2>3 DEF FetchReturns, CacheTypeOK, worldVars, Results
  <2> QED BY <2>2, <2>3
<1>6. ASSUME NEW r \in Requests, Cancel(r)
      PROVE  RequestsTypeOK' /\ CacheTypeOK'
  <2>1. RequestsTypeOK'
    BY <1>6, LockOperations, FinishTypes DEF Cancel, RequestsTypeOK, Outcomes
  <2>2. CacheTypeOK'
    BY <1>6 DEF Cancel, CacheTypeOK, worldVars, Results
  <2> QED BY <2>1, <2>2
<1>7. ASSUME NEW r \in Requests, ProviderAnswers(r)
      PROVE  RequestsTypeOK' /\ CacheTypeOK'
  BY <1>7 DEF ProviderAnswers, RequestsTypeOK, CacheTypeOK, cacheVars, worldVars
<1>8. CASE Rotate
  BY <1>8 DEF Rotate, RequestsTypeOK, CacheTypeOK, cacheVars, requestVars
<1>9. CASE Tick
  BY <1>9 DEF Tick, RequestsTypeOK, CacheTypeOK, cacheVars, requestVars
<1>10. CASE UNCHANGED vars
  BY <1>10 DEF vars, RequestsTypeOK, CacheTypeOK, cacheVars, requestVars, worldVars
<1> QED BY <1>1, <1>2, <1>3, <1>4, <1>5, <1>6, <1>7, <1>8, <1>9, <1>10 DEF Next

\* Every variable keeps its type: in particular no time stamp is ever ahead
\* of the clock, so no comparison with the cooldown or the lifetime runs on
\* a negative age.
THEOREM TypeCorrect == Spec => []TypeOK
<1> QED BY TypeInit, TypeStep, PTL DEF Spec
-----------------------------------------------------------------------------
LEMMA FetchInit == Init => FetchInv
BY DEF Init, FetchInv

\* What a step that ends or suspends r's call does to the conjuncts about
\* each request: r no longer fetches, nobody else is touched.
LEMMA OthersUntouched ==
    ASSUME RequestsTypeOK, NEW r \in Requests,
           \/ \E o \in Outcomes : Finish(r, o)
           \/ \E f \in BOOLEAN : \E l : EnterRefresh(r, f, l)
    PROVE  /\ pc'[r] # "fetch" /\ answer'[r] = NoAnswer
           /\ \A s \in Requests \ {r} : pc'[s] = pc[s] /\ answer'[s] = answer[s]
BY DEF RequestsTypeOK, Finish, EnterRefresh, Outcomes

LEMMA RefreshEnds ==
    ASSUME RequestsTypeOK, NEW r \in Requests, NEW ks,
           LeaveRefresh(r, ks) \/ RefreshFails(r)
    PROVE  /\ pc'[r] # "fetch" /\ answer'[r] = NoAnswer
           /\ \A s \in Requests \ {r} : pc'[s] = pc[s] /\ answer'[s] = answer[s]
BY OthersUntouched DEF LeaveRefresh, RefreshFails, Outcomes

LEMMA FetchStep == TypeOK /\ FetchInv /\ [Next]_vars => FetchInv'
<1> SUFFICES ASSUME RequestsTypeOK, CacheTypeOK, FetchInv, [Next]_vars
             PROVE  FetchInv'
  BY DEF TypeOK, RequestsTypeOK, CacheTypeOK
<1> USE NamesAssumption, AnswerAssumption
<1>1. ASSUME NEW r \in Requests, Arrive(r)
      PROVE  FetchInv'
  BY <1>1 DEF Arrive, FetchInv, RequestsTypeOK, cacheVars, worldVars, Outcomes
<1>2. ASSUME NEW r \in Requests, KeyForToken(r)
      PROVE  FetchInv'
  <2>1. /\ pc[r] # "fetch"
        /\ pc'[r] # "fetch" /\ answer'[r] = NoAnswer
        /\ \A s \in Requests \ {r} : pc'[s] = pc[s] /\ answer'[s] = answer[s]
    BY <1>2, OthersUntouched DEF KeyForToken, Outcomes
  <2>2. lock' = lock \/ lock' = RefreshLock!Acquire(lock, r)
    BY <1>2 DEF KeyForToken, EnterRefresh
  <2>3. lock.owner # Nobody => lock'.owner = lock.owner
    BY <2>2, LockOperations DEF RequestsTypeOK
  <2>4. UNCHANGED <<keys, attemptedAt, published, attempt>>
    BY <1>2 DEF KeyForToken, worldVars
  <2> QED BY <2>1, <2>3, <2>4 DEF FetchInv
<1>3. ASSUME NEW r \in Requests, SkipRefresh(r)
      PROVE  FetchInv'
  <2>1. /\ pc[r] = "lock" /\ lock.owner = r
        /\ UNCHANGED <<keys, attemptedAt, published, attempt>>
    BY <1>3 DEF SkipRefresh, worldVars
  <2>2. /\ pc'[r] # "fetch" /\ answer'[r] = NoAnswer
        /\ \A s \in Requests \ {r} : pc'[s] = pc[s] /\ answer'[s] = answer[s]
    BY <1>3, RefreshEnds DEF SkipRefresh
  <2> QED BY <2>1, <2>2 DEF FetchInv
<1>4. ASSUME NEW r \in Requests, StartFetch(r)
      PROVE  FetchInv'
  BY <1>4 DEF StartFetch, FetchInv, RequestsTypeOK, worldVars
<1>5. ASSUME NEW r \in Requests, FetchReturns(r)
      PROVE  FetchInv'
  <2>1. /\ pc[r] = "fetch" /\ lock.owner = r
        /\ UNCHANGED <<attemptedAt, published>>
        /\ \A s \in Requests \ {r} : pc[s] # "fetch"
    BY <1>5 DEF FetchReturns, worldVars, FetchInv
  <2>2. /\ pc'[r] # "fetch" /\ answer'[r] = NoAnswer
        /\ \A s \in Requests \ {r} : pc'[s] = pc[s] /\ answer'[s] = answer[s]
    BY <1>5, RefreshEnds DEF FetchReturns
  <2>3. /\ attempt'.at = attempt.at /\ attempt'.appeared = attempt.appeared
        /\ \/ /\ attempt'.result = "loaded" /\ keys' = answer[r]
              /\ answer[r] \notin {NoAnswer, Failure, {}}
           \/ attempt'.result = "failed"
    BY <1>5 DEF FetchReturns, CacheTypeOK, Unusable
  <2> QED BY <2>1, <2>2, <2>3 DEF FetchInv
<1>6. ASSUME NEW r \in Requests, Cancel(r)
      PROVE  FetchInv'
  <2>1. /\ pc[r] \in {"lock", "fetch"}
        /\ UNCHANGED <<keys, attemptedAt, published>>
        /\ lock' = RefreshLock!Abandon(lock, r)
    BY <1>6 DEF Cancel, worldVars
  <2>2. /\ pc'[r] # "fetch" /\ answer'[r] = NoAnswer
        /\ \A s \in Requests \ {r} : pc'[s] = pc[s] /\ answer'[s] = answer[s]
    BY <1>6, OthersUntouched DEF Cancel, Outcomes
  <2>3. lock.owner # r => lock'.owner = lock.owner
    BY <2>1, LockOperations DEF RequestsTypeOK
  <2>4. CASE pc[r] = "fetch"
    <3>1. attempt'.at = attempt.at /\ attempt'.result = "cancelled"
      BY <1>6, <2>4 DEF Cancel, CacheTypeOK
    <3>2. \A s \in Requests \ {r} : pc[s] # "fetch"
      BY <2>4 DEF FetchInv
    <3> QED BY <2>1, <2>2, <3>1, <3>2 DEF FetchInv
  <2>5. CASE pc[r] = "lock"
    <3>1. attempt' = attempt
      BY <1>6, <2>5 DEF Cancel
    <3> QED BY <2>1, <2>2, <2>3, <2>5, <3>1 DEF FetchInv
  <2> QED BY <2>1, <2>4, <2>5
<1>7. ASSUME NEW r \in Requests, ProviderAnswers(r)
      PROVE  FetchInv'
  BY <1>7 DEF ProviderAnswers, FetchInv, RequestsTypeOK, CacheTypeOK, cacheVars, worldVars
<1>8. CASE Rotate
  <2>1. /\ UNCHANGED <<keys, attemptedAt, lock, pc, answer>>
        /\ attempt'.at = attempt.at /\ attempt'.result = attempt.result
        /\ published' \ attempt'.appeared \subseteq published \ attempt.appeared
    BY <1>8 DEF Rotate, CacheTypeOK, cacheVars, requestVars
  <2> QED BY <2>1 DEF FetchInv
<1>9. CASE Tick
  BY <1>9 DEF Tick, FetchInv, cacheVars, requestVars
<1>10. CASE UNCHANGED vars
  BY <1>10 DEF vars, FetchInv, cacheVars, requestVars, worldVars
<1> QED BY <1>1, <1>2, <1>3, <1>4, <1>5, <1>6, <1>7, <1>8, <1>9, <1>10 DEF Next

\* The invariant the results below rest on.
THEOREM FetchInvariant == Spec => []FetchInv
<1> QED BY TypeInit, TypeStep, FetchInit, FetchStep, PTL DEF Spec

\* Whatever the cooldown and however long a fetch takes, at most one request
\* of the key set is at the provider.
THEOREM SingleFetch == Spec => []OneFetchAtATime
<1>1. FetchInv => OneFetchAtATime
  BY DEF FetchInv, OneFetchAtATime
<1> QED BY <1>1, FetchInvariant, PTL
-----------------------------------------------------------------------------
\* Which step takes r from where to where: a call ends only in a step of its own.
LEMMA WhoDecides ==
    ASSUME RequestsTypeOK, [Next]_vars, NEW r \in Requests, pc'[r] # pc[r]
    PROVE  \/ Arrive(r) \/ KeyForToken(r) \/ SkipRefresh(r) \/ StartFetch(r)
           \/ FetchReturns(r) \/ Cancel(r)
<1>1. ASSUME NEW s \in Requests, s # r, Arrive(s) \/ StartFetch(s)
      PROVE  FALSE
  BY <1>1 DEF Arrive, StartFetch, RequestsTypeOK
<1>2. ASSUME NEW s \in Requests, s # r, KeyForToken(s)
      PROVE  FALSE
  BY <1>2, OthersUntouched DEF KeyForToken, Outcomes
<1>3. ASSUME NEW s \in Requests, s # r, SkipRefresh(s) \/ FetchReturns(s)
      PROVE  FALSE
  BY <1>3, RefreshEnds DEF SkipRefresh, FetchReturns
<1>4. ASSUME NEW s \in Requests, s # r, Cancel(s)
      PROVE  FALSE
  BY <1>4, OthersUntouched DEF Cancel, Outcomes
<1>5. ASSUME NEW s \in Requests, ProviderAnswers(s)
      PROVE  FALSE
  BY <1>5 DEF ProviderAnswers
<1>6. ASSUME Rotate \/ Tick \/ UNCHANGED vars
      PROVE  FALSE
  BY <1>6 DEF Rotate, Tick, vars, requestVars
<1> QED BY <1>1, <1>2, <1>3, <1>4, <1>5, <1>6 DEF Next

\* The pc a step gives r's call, for telling the steps apart.
LEMMA Endings ==
    ASSUME RequestsTypeOK, NEW r \in Requests
    PROVE  /\ Arrive(r) => pc'[r] = "called" /\ pc[r] \in Outcomes
           /\ StartFetch(r) => pc'[r] = "fetch"
           /\ Cancel(r) => pc'[r] = "cancelled"
           /\ KeyForToken(r) => pc[r] = "called" /\ pc'[r] \in {"malformed", "lock", "verified"}
           /\ \A ks : LeaveRefresh(r, ks) =>
                 \/ pc'[r] = "verified"
                 \/ pc'[r] = "unknown_key" /\ forced[r] /\ ~Holds(ks, token[r])
                 \/ pc'[r] = "lock"
           /\ RefreshFails(r) => pc'[r] = "unavailable"
BY DEF RequestsTypeOK, Arrive, StartFetch, Cancel, KeyForToken, LeaveRefresh, RefreshFails,
       Finish, EnterRefresh

\* The provider is never asked again before a cooldown has passed, whatever
\* the requests, failures and cancellations in between.
THEOREM FetchRate == Spec => FetchesAreSpaced
<1>1. TypeOK /\ FetchInv /\ [Next]_vars =>
         \A r \in Requests : pc[r] # "fetch" /\ pc'[r] = "fetch" => now - attempt.at >= RefreshCooldown
  <2> SUFFICES ASSUME RequestsTypeOK, CacheTypeOK, FetchInv, [Next]_vars,
                      NEW r \in Requests, pc[r] # "fetch", pc'[r] = "fetch"
               PROVE  now - attempt.at >= RefreshCooldown
    BY DEF TypeOK, RequestsTypeOK, CacheTypeOK
  <2>1. StartFetch(r)
    BY WhoDecides, Endings, RefreshEnds DEF SkipRefresh, FetchReturns
  <2> QED BY <2>1, CooldownAssumption
          DEF StartFetch, InCooldown, FetchInv, CacheTypeOK, NeverAttempted
<1> QED BY <1>1, TypeCorrect, FetchInvariant, PTL DEF FetchesAreSpaced, Spec

\* Once a document was loaded the cache is never empty again, and no request
\* is answered 503.
THEOREM NeverUnavailable == Spec => OnceLoadedNeverUnavailable
<1>1. TypeOK /\ [Next]_vars =>
         (keys # {} => keys' # {} /\ \A r \in Requests : ~Decides(r, "unavailable"))
  <2> SUFFICES ASSUME RequestsTypeOK, CacheTypeOK, [Next]_vars, keys # {}
               PROVE  keys' # {} /\ \A r \in Requests : ~Decides(r, "unavailable")
    BY DEF TypeOK, RequestsTypeOK, CacheTypeOK
  <2>1. keys' # {}
    BY DEF Next, vars, cacheVars, Arrive, KeyForToken, SkipRefresh, StartFetch, FetchReturns,
           Unusable, Cancel, ProviderAnswers, Rotate, Tick
  <2>2. ASSUME NEW r \in Requests, Decides(r, "unavailable")
        PROVE  FALSE
    <3>1. SkipRefresh(r) \/ FetchReturns(r)
      BY <2>2, WhoDecides, Endings DEF Decides, Running, Outcomes
    <3>2. \E ks : LeaveRefresh(r, ks)
      BY <3>1 DEF SkipRefresh, FetchReturns
    <3> QED BY <2>2, <3>2, Endings DEF Decides
  <2> QED BY <2>1, <2>2
<1> QED BY <1>1, TypeCorrect, PTL DEF OnceLoadedNeverUnavailable, Spec

\* A request is answered 503 only over an empty cache, after an attempt, its
\* own or one within the cooldown, that did not bring keys.
THEOREM UnavailableAfterAttempt == Spec => UnavailableOnlyAfterAttempt
<1> DEFINE Tried(r) ==
       /\ keys = {}
       /\ pc[r] = "fetch" \/ InCooldown
       /\ attempt'.result \in {"failed", "cancelled"}
<1>1. TypeOK /\ FetchInv /\ [Next]_vars =>
         \A r \in Requests : Decides(r, "unavailable") => Tried(r)
  <2> SUFFICES ASSUME RequestsTypeOK, CacheTypeOK, FetchInv, [Next]_vars,
                      NEW r \in Requests, Decides(r, "unavailable")
               PROVE  Tried(r)
    BY DEF TypeOK, RequestsTypeOK, CacheTypeOK
  <2>1. SkipRefresh(r) \/ FetchReturns(r)
    BY WhoDecides, Endings DEF Decides, Running, Outcomes
  <2>2. CASE SkipRefresh(r)
    <3>1. InCooldown /\ keys = {} /\ pc[r] = "lock" /\ lock.owner = r /\ attempt' = attempt
      BY <2>2, Endings DEF SkipRefresh, Decides
    <3>2. attempt.result # "none"
      BY <3>1, CooldownAssumption DEF FetchInv, InCooldown, CacheTypeOK, NeverAttempted
    <3>3. attempt.result \notin {"pending", "loaded"}
      BY <3>1 DEF FetchInv
    <3> QED BY <3>1, <3>2, <3>3 DEF CacheTypeOK, Results
  <2>3. CASE FetchReturns(r)
    BY <2>3, Endings DEF FetchReturns, Decides, CacheTypeOK
  <2> QED BY <2>1, <2>2, <2>3
<1> QED BY <1>1, TypeCorrect, FetchInvariant, PTL DEF UnavailableOnlyAfterAttempt, Spec

\* A token is refused for an unknown key only after a recent look at the
\* provider, and wrongly so only if the key is younger than that look or the
\* look failed.
THEOREM UnknownKeySought == Spec => UnknownKeyWasSought
<1> DEFINE Sought(r) ==
       /\ pc[r] = "fetch" \/ InCooldown
       /\ token[r] \in published =>
             \/ token[r] \in attempt'.appeared
             \/ attempt'.result \in {"failed", "cancelled"}
<1>1. TypeOK /\ FetchInv /\ [Next]_vars =>
         \A r \in Requests : Decides(r, "unknown_key") => Sought(r)
  <2> SUFFICES ASSUME RequestsTypeOK, CacheTypeOK, FetchInv, [Next]_vars,
                      NEW r \in Requests, Decides(r, "unknown_key")
               PROVE  Sought(r)
    BY DEF TypeOK, RequestsTypeOK, CacheTypeOK
  <2>1. SkipRefresh(r) \/ FetchReturns(r)
    BY WhoDecides, Endings DEF Decides, Running, Outcomes
  <2>2. token[r] \in published => token[r] # NoKid
    BY TokenAssumption DEF CacheTypeOK
  <2>3. CASE SkipRefresh(r)
    <3>1. InCooldown /\ pc[r] = "lock" /\ lock.owner = r /\ attempt' = attempt
      BY <2>3, Endings DEF SkipRefresh, Decides
    <3>2. ~Holds(keys, token[r])
      BY <2>3, Endings DEF SkipRefresh, Decides
    <3>3. attempt.result # "none"
      BY <3>1, CooldownAssumption DEF FetchInv, InCooldown, CacheTypeOK, NeverAttempted
    <3>4. attempt.result # "pending"
      BY <3>1 DEF FetchInv
    <3>5. attempt.result \in {"loaded", "failed", "cancelled"}
      BY <3>3, <3>4 DEF CacheTypeOK, Results
    <3> QED BY <2>2, <3>1, <3>2, <3>5 DEF Holds, FetchInv
  <2>4. CASE FetchReturns(r)
    <3>1. pc[r] = "fetch" /\ attempt'.appeared = attempt.appeared
      BY <2>4 DEF FetchReturns, CacheTypeOK
    <3>2. CASE Unusable(answer[r])
      BY <2>4, <3>1, <3>2 DEF FetchReturns, CacheTypeOK
    <3>3. CASE ~Unusable(answer[r])
      <4>1. ~Holds(answer[r], token[r]) /\ answer[r] \notin {NoAnswer, Failure}
        BY <2>4, <3>3, Endings DEF FetchReturns, Decides, Unusable
      <4> QED BY <2>2, <3>1, <4>1 DEF Holds, FetchInv
    <3> QED BY <3>2, <3>3
  <2> QED BY <2>1, <2>3, <2>4
<1> QED BY <1>1, TypeCorrect, FetchInvariant, PTL DEF UnknownKeyWasSought, Spec

\* Keys past their lifetime serve only as the fallback.
THEOREM StaleKeysFallback == Spec => StaleKeysOnlyAsFallback
<1> DEFINE Fallback(r) ==
       \/ InCooldown
       \/ pc[r] = "fetch" /\ attempt'.result = "failed"
<1>1. TypeOK /\ [Next]_vars =>
         \A r \in Requests : Decides(r, "verified") /\ now - fetchedAt' > CacheTtl => Fallback(r)
  <2> SUFFICES ASSUME RequestsTypeOK, CacheTypeOK, [Next]_vars,
                      NEW r \in Requests, Decides(r, "verified"), now - fetchedAt' > CacheTtl
               PROVE  Fallback(r)
    BY DEF TypeOK, RequestsTypeOK, CacheTypeOK
  <2> USE TtlAssumption
  <2>1. KeyForToken(r) \/ SkipRefresh(r) \/ FetchReturns(r)
    BY WhoDecides, Endings DEF Decides, Running, Outcomes
  <2>2. CASE KeyForToken(r)
    <3>1. fetchedAt' = fetchedAt
      BY <2>2 DEF KeyForToken
    <3>2. ~Finish(r, "malformed") /\ \A f, l : ~EnterRefresh(r, f, l)
      BY DEF Finish, EnterRefresh, Decides, RequestsTypeOK
    <3>3. ~CacheStale
      BY <2>2, <3>2 DEF KeyForToken
    <3> QED BY <3>1, <3>3 DEF CacheStale
  <2>3. CASE SkipRefresh(r)
    BY <2>3 DEF SkipRefresh, CacheStale
  <2>4. CASE FetchReturns(r)
    BY <2>4 DEF FetchReturns, CacheTypeOK
  <2> QED BY <2>1, <2>2, <2>3, <2>4
<1> QED BY <1>1, TypeCorrect, PTL DEF StaleKeysOnlyAsFallback, Spec
=============================================================================
