------------------------- MODULE IntrospectionProofs -------------------------
(***************************************************************************)
(* Proofs about Introspection, for every set of requests, tokens, claims   *)
(* and routes, every lifetime and size of the cache, leeway and bound.     *)
(***************************************************************************)
EXTENDS Introspection, OrderedKeysProofs

Challenges == {NoChallenge} \cup {route.challenge : route \in Routes}
Results == [status : Statuses, challenge : Challenges]

CacheTypeOK ==
    /\ cache \in [Tokens -> 0..(MaxClock + CacheTtl) \cup {Absent}]
    /\ recency \in Seq(Tokens) /\ IsInjective(recency) /\ Len(recency) <= CacheSize
    /\ ToSet(recency) = {t \in Tokens : cache[t] # Absent}

\* A request that is not idle has a call, and only a leader has a response.
RequestsTypeOK ==
    /\ pc \in [Requests -> Running \cup {"idle"}]
    /\ call \in [Requests -> Calls \cup {NoCall}]
    /\ verifiedJkt \in [Requests -> Keys \cup {NoKey}]
    /\ response \in [Requests -> Responses \cup {NoAnswer}]
    /\ handed \in [Requests -> Results]
    /\ reply \in [Requests -> Results]
    /\ \A r \in Requests : pc[r] # "idle" => call[r] \in Calls
    /\ \A r \in Requests : pc[r] # "introspecting" => response[r] = NoAnswer

WorldTypeOK ==
    /\ now \in 0..MaxClock
    /\ active \in SUBSET Tokens
    /\ cancels \in 0..MaxCancels
    /\ revoked \in [Tokens -> [at : 0..now, midLookup : BOOLEAN]]

Good ==
    /\ CacheTypeOK
    /\ leader \in [Tokens -> Requests \cup {NoOne}]
    /\ RequestsTypeOK
    /\ WorldTypeOK

LEMMA GoodInit == Init => Good
<1> SUFFICES ASSUME Init PROVE Good
  OBVIOUS
<1> USE NumbersAssumption, NamesAssumption DEF Init
<1>1. CacheTypeOK
  BY DEF CacheTypeOK, IsInjective, ToSet
<1>2. RequestsTypeOK
  <2>1. Result("none") \in Results
    BY DEF Result, Results, Statuses, Challenges
  <2> QED BY <2>1 DEF RequestsTypeOK
<1>3. WorldTypeOK
  BY DEF WorldTypeOK
<1> QED BY <1>1, <1>2, <1>3 DEF Good

LEMMA ResultTypes == \A status \in Statuses : Result(status) \in Results
BY DEF Result, Results, Challenges

LEMMA DecisionTypes == \A r \in Requests : Decision(r) \in Results
<1> SUFFICES ASSUME NEW r \in Requests PROVE Decision(r) \in Results
  OBVIOUS
<1>1. Decision(r) \in {Result("unauthorized"), Result("accepted")}
  BY DEF Decision, BearerDecision, DPoPDecision
<1> QED BY <1>1, ResultTypes DEF Statuses

LEMMA AddChallengeTypes ==
    ASSUME NEW result \in Results, NEW route \in Routes
    PROVE  AddChallenge(result, route) \in Results /\ AddChallenge(result, route).status = result.status
<1>1. route.challenge \in Challenges
  BY DEF Challenges
<1> QED BY <1>1 DEF AddChallenge, Results

\* What r's going on to a place leaves the other requests.
OthersSee(r, wake, left) ==
    \A q \in Requests \ {r} :
        /\ pc'[q] = IF q \in wake THEN "woken" ELSE pc[q]
        /\ handed'[q] = IF q \in wake THEN left ELSE handed[q]
        /\ call'[q] = call[q] /\ response'[q] = response[q] /\ reply'[q] = reply[q]
        /\ verifiedJkt'[q] = verifiedJkt[q]

\* Going on to a place, with the call, the reply and the record of r alone.
LEMMA ResumeEffect ==
    ASSUME RequestsTypeOK, NEW r \in Requests, pc[r] # "idle", NEW place \in {"idle", "mapping"},
           NEW wake \in SUBSET {q \in Requests : pc[q] = "waiting"},
           NEW left \in Results, Resume(r, place, wake, left),
           call' \in [Requests -> Calls \cup {NoCall}], reply' \in [Requests -> Results],
           verifiedJkt' \in [Requests -> Keys \cup {NoKey}],
           \A q \in Requests \ {r} :
              call'[q] = call[q] /\ reply'[q] = reply[q] /\ verifiedJkt'[q] = verifiedJkt[q],
           place = "mapping" => call'[r] = call[r]
    PROVE  RequestsTypeOK' /\ OthersSee(r, wake, left) /\ pc'[r] = place
<1> USE DEF RequestsTypeOK
<1>1. Result("none") \in Results
  BY ResultTypes DEF Statuses
<1>2. /\ pc' = [q \in Requests |-> IF q = r THEN place ELSE IF q \in wake THEN "woken" ELSE pc[q]]
      /\ handed' = [q \in Requests |->
                       IF q = r THEN Result("none") ELSE IF q \in wake THEN left ELSE handed[q]]
      /\ response' = [response EXCEPT ![r] = NoAnswer]
  BY DEF Resume
<1>3. OthersSee(r, wake, left)
  BY <1>2 DEF OthersSee
<1>4. pc'[r] = place /\ response'[r] = NoAnswer
  BY <1>2
<1>5. /\ pc' \in [Requests -> Running \cup {"idle"}]
      /\ response' \in [Requests -> Responses \cup {NoAnswer}]
  BY <1>2 DEF Running
<1>6. handed' \in [Requests -> Results]
  BY <1>1, <1>2
<1>7. \A q \in Requests : pc'[q] # "idle" => call'[q] \in Calls
  BY <1>3, <1>4 DEF OthersSee
<1>8. \A q \in Requests : pc'[q] # "introspecting" => response'[q] = NoAnswer
  BY <1>3, <1>4 DEF OthersSee
<1> QED BY <1>3, <1>4, <1>5, <1>6, <1>7, <1>8

\* What the end of a call leaves.
LEMMA FinishEffect ==
    ASSUME RequestsTypeOK, NEW r \in Requests, pc[r] # "idle", NEW result \in Results,
           NEW wake \in SUBSET {q \in Requests : pc[q] = "waiting"},
           NEW left \in Results, Finish(r, result, wake, left)
    PROVE  /\ RequestsTypeOK' /\ OthersSee(r, wake, left)
           /\ pc'[r] = "idle" /\ reply'[r].status = result.status
<1> DEFINE told == AddChallenge(result, call[r].route)
           place == "idle"
<1>1. told \in Results /\ told.status = result.status
  <2>1. call[r].route \in Routes
    BY DEF RequestsTypeOK, Calls
  <2> QED BY <2>1, AddChallengeTypes
<1>2. /\ Resume(r, place, wake, left)
      /\ reply' = [reply EXCEPT ![r] = told]
      /\ call' = [call EXCEPT ![r] = NoCall]
      /\ verifiedJkt' = [verifiedJkt EXCEPT ![r] = NoKey]
  BY DEF Finish
<1>3. place \in {"idle", "mapping"} /\ place # "mapping"
  OBVIOUS
<1> HIDE DEF told, place
<1>4. /\ call' \in [Requests -> Calls \cup {NoCall}] /\ reply' \in [Requests -> Results]
      /\ verifiedJkt' \in [Requests -> Keys \cup {NoKey}] /\ reply'[r] = told
      /\ \A q \in Requests \ {r} :
            call'[q] = call[q] /\ reply'[q] = reply[q] /\ verifiedJkt'[q] = verifiedJkt[q]
  BY <1>1, <1>2 DEF RequestsTypeOK
<1>5. RequestsTypeOK' /\ OthersSee(r, wake, left) /\ pc'[r] = place
  BY <1>2, <1>3, <1>4, ResumeEffect
<1> QED BY <1>1, <1>4, <1>5 DEF place

\* What a request that has the claims leaves: it is refused for its scopes, or
\* records the key and maps the claims.
LEMMA TakeEffect ==
    ASSUME RequestsTypeOK, NEW r \in Requests, pc[r] # "idle",
           NEW wake \in SUBSET {q \in Requests : pc[q] = "waiting"},
           NEW left \in Results, Take(r, wake, left)
    PROVE  /\ RequestsTypeOK' /\ OthersSee(r, wake, left)
           /\ \/ pc'[r] = "idle" /\ reply'[r].status = "forbidden"
              \/ /\ pc'[r] = "mapping" /\ RequireScopes(call[r].token, call[r].route.scopes)
                 /\ call'[r] = call[r] /\ verifiedJkt'[r] = Claims[call[r].token].jkt
<1>1. CASE Finish(r, Result("forbidden"), wake, left)
  <2>1. Result("forbidden") \in Results /\ Result("forbidden").status = "forbidden"
    BY ResultTypes DEF Statuses, Result
  <2> QED BY <1>1, <2>1, FinishEffect
<1>2. CASE /\ RequireScopes(call[r].token, call[r].route.scopes)
           /\ Resume(r, "mapping", wake, left)
           /\ Record(r)
           /\ UNCHANGED <<call, reply>>
  <2> DEFINE key == Claims[call[r].token].jkt
             place == "mapping"
  <2>1. key \in Keys \cup {NoKey}
    BY ClaimsAssumption DEF RequestsTypeOK, Calls
  <2>2. place \in {"idle", "mapping"} /\ Resume(r, place, wake, left)
    BY <1>2
  <2>3. verifiedJkt' = [verifiedJkt EXCEPT ![r] = key] /\ UNCHANGED <<call, reply>>
    BY <1>2 DEF Record
  <2> HIDE DEF key, place
  <2>4. /\ call' \in [Requests -> Calls \cup {NoCall}] /\ reply' \in [Requests -> Results]
        /\ verifiedJkt' \in [Requests -> Keys \cup {NoKey}] /\ verifiedJkt'[r] = key
        /\ \A q \in Requests : call'[q] = call[q] /\ reply'[q] = reply[q]
        /\ \A q \in Requests \ {r} : verifiedJkt'[q] = verifiedJkt[q]
    BY <2>1, <2>3 DEF RequestsTypeOK
  <2>5. RequestsTypeOK' /\ OthersSee(r, wake, left) /\ pc'[r] = place
    BY <2>2, <2>4, ResumeEffect
  <2> QED BY <1>2, <2>4, <2>5 DEF key, place
<1> QED BY <1>1, <1>2 DEF Take

\* What a request that joins a lookup, or leads one, leaves.
LEMMA JoinEffect ==
    ASSUME RequestsTypeOK, leader \in [Tokens -> Requests \cup {NoOne}],
           NEW r \in Requests, pc[r] \in {"called", "woken"}, JoinOrLead(r)
    PROVE  /\ RequestsTypeOK' /\ leader' \in [Tokens -> Requests \cup {NoOne}]
           /\ pc'[r] \in {"waiting", "introspecting"}
           /\ UNCHANGED <<call, verifiedJkt, response, reply>>
           /\ \A q \in Requests \ {r} : pc'[q] = pc[q] /\ handed'[q] = handed[q]
<1> USE DEF RequestsTypeOK
<1>1. call[r].token \in Tokens
  BY DEF Calls
<1>2. /\ pc' = [pc EXCEPT ![r] = "waiting"] \/ pc' = [pc EXCEPT ![r] = "introspecting"]
      /\ UNCHANGED <<call, verifiedJkt, response, reply>>
      /\ handed' = [handed EXCEPT ![r] = Result("none")]
  BY DEF JoinOrLead
<1>3. leader' \in [Tokens -> Requests \cup {NoOne}]
  BY <1>1 DEF JoinOrLead
<1>4. Result("none") \in Results
  BY ResultTypes DEF Statuses
<1>5. handed' \in [Requests -> Results] /\ pc' \in [Requests -> Running \cup {"idle"}]
  BY <1>2, <1>4 DEF Running
<1>6. /\ pc'[r] \in {"waiting", "introspecting"}
      /\ \A q \in Requests \ {r} : pc'[q] = pc[q] /\ handed'[q] = handed[q]
  BY <1>2
<1>7. \A q \in Requests : pc'[q] # "idle" => call'[q] \in Calls
  BY <1>2, <1>6
<1>8. \A q \in Requests : pc'[q] # "introspecting" => response'[q] = NoAnswer
  BY <1>2, <1>6
<1> QED BY <1>2, <1>3, <1>5, <1>6, <1>7, <1>8

\* An answer that holds now is stored for cache_ttl at most, and not past `exp`.
LEMMA LifetimeBounds ==
    ASSUME WorldTypeOK, NEW t \in Tokens, ClaimsHold(Claims[t])
    PROVE  /\ Lifetime(Claims[t]) \in Int /\ Lifetime(Claims[t]) <= CacheTtl
           /\ Claims[t].exp # NoTime =>
                 /\ Claims[t].exp # NotATime /\ Claims[t].exp \in Nat
                 /\ now + Lifetime(Claims[t]) <= Claims[t].exp
<1>1. Claims[t].exp # NoTime => Claims[t].exp # NotATime /\ Claims[t].exp \in Nat
  BY ClaimsAssumption DEF ClaimsHold
<1>2. now \in Nat /\ CacheTtl \in Nat
  BY NumbersAssumption DEF WorldTypeOK
<1> QED BY <1>1, <1>2 DEF Lifetime

\* What a stored answer leaves in the cache.
LEMMA StoreEffect ==
    ASSUME CacheTypeOK, WorldTypeOK, NEW t \in Tokens, ClaimsHold(Claims[t]), Store(t)
    PROVE  /\ CacheTypeOK'
           /\ \A u \in Tokens : cache'[u] # Absent =>
                 \/ cache'[u] = cache[u]
                 \/ u = t /\ cache'[u] = now + Lifetime(Claims[t])
<1> DEFINE lifetime == Lifetime(Claims[t])
           kept == KeepNewest(MoveToEnd(recency, t), CacheSize)
<1>1. lifetime \in Int /\ lifetime <= CacheTtl
  BY LifetimeBounds
<1>2. /\ kept \in Seq(Tokens) /\ IsInjective(kept) /\ Len(kept) <= CacheSize
      /\ ToSet(kept) \subseteq ToSet(recency) \cup {t} /\ t \in ToSet(kept)
  <2> DEFINE moved == MoveToEnd(recency, t)
  <2>1. /\ moved \in Seq(Tokens) /\ IsInjective(moved)
        /\ ToSet(moved) = ToSet(recency) \cup {t} /\ Len(moved) > 0 /\ moved[Len(moved)] = t
    BY MoveToEndKey DEF CacheTypeOK
  <2>2. CacheSize \in Nat /\ CacheSize > 0
    BY NumbersAssumption
  <2> HIDE DEF moved
  <2>3. /\ KeepNewest(moved, CacheSize) \in Seq(Tokens) /\ IsInjective(KeepNewest(moved, CacheSize))
        /\ ToSet(KeepNewest(moved, CacheSize)) \subseteq ToSet(moved)
        /\ Len(KeepNewest(moved, CacheSize)) <= CacheSize
        /\ moved[Len(moved)] \in ToSet(KeepNewest(moved, CacheSize))
    BY <2>1, <2>2, KeepNewestKeys
  <2> QED BY <2>1, <2>3 DEF moved
<1>3. \/ UNCHANGED cacheVars
      \/ /\ lifetime > 0
         /\ recency' = kept
         /\ cache' = [u \in Tokens |-> IF u \notin ToSet(kept) THEN Absent
                                       ELSE IF u = t THEN now + lifetime ELSE cache[u]]
  BY DEF Store
<1> HIDE DEF lifetime, kept
<1>4. CASE UNCHANGED cacheVars
  BY <1>4 DEF cacheVars, CacheTypeOK
<1>5. CASE /\ lifetime > 0
           /\ recency' = kept
           /\ cache' = [u \in Tokens |-> IF u \notin ToSet(kept) THEN Absent
                                         ELSE IF u = t THEN now + lifetime ELSE cache[u]]
  <2>1. now + lifetime \in 0..(MaxClock + CacheTtl)
    BY <1>1, <1>5, NumbersAssumption DEF WorldTypeOK
  <2>2. now + lifetime # Absent
    BY <2>1, NamesAssumption
  <2>3. cache' \in [Tokens -> 0..(MaxClock + CacheTtl) \cup {Absent}]
    BY <1>5, <2>1 DEF CacheTypeOK
  <2>4. \A u \in Tokens : cache'[u] # Absent <=> u \in ToSet(kept)
    BY <1>2, <1>5, <2>2 DEF CacheTypeOK
  <2>5. ToSet(kept) \subseteq Tokens
    BY <1>2 DEF ToSet
  <2>6. ToSet(recency') = {u \in Tokens : cache'[u] # Absent}
    BY <1>5, <2>4, <2>5
  <2>7. CacheTypeOK'
    BY <1>2, <1>5, <2>3, <2>6 DEF CacheTypeOK
  <2>8. ASSUME NEW u \in Tokens, cache'[u] # Absent
        PROVE  cache'[u] = cache[u] \/ (u = t /\ cache'[u] = now + lifetime)
    <3>1. cache'[u] = IF u \notin ToSet(kept) THEN Absent
                      ELSE IF u = t THEN now + lifetime ELSE cache[u]
      BY <1>5
    <3> QED BY <2>8, <3>1
  <2> QED BY <2>7, <2>8 DEF lifetime
<1> QED BY <1>3, <1>4, <1>5

-----------------------------------------------------------------------------
(* Every step is of one of a few kinds, as far as the proofs below look.   *)

\* What a request that takes its token's claims has been told.
Entitled(r) ==
    \/ pc[r] = "called" /\ Cached(call[r].token)
    \/ pc[r] = "introspecting" /\ response[r] = "active" /\ ClaimsHold(Claims[call[r].token])
    \/ pc[r] = "woken" /\ handed[r].status = "answer"

\* r's part in the lookup is over: it is answered, or maps the claims it has.
Ends(r) ==
    /\ pc'[r] \in {"idle", "mapping"}
    /\ pc'[r] = "mapping" =>
          /\ pc[r] # "mapping" /\ Entitled(r)
          /\ call'[r] = call[r] /\ verifiedJkt'[r] = Claims[call[r].token].jkt
    /\ pc[r] = "mapping" =>
          reply'[r].status = "cancelled" \/ reply'[r].status = Decision(r).status
    /\ \A q \in Requests \ {r} :
          call'[q] = call[q] /\ response'[q] = response[q] /\ verifiedJkt'[q] = verifiedJkt[q]

OthersStay(r) == \A q \in Requests \ {r} : pc'[q] = pc[q] /\ handed'[q] = handed[q]

\* r goes on with no lookup over.
AloneStep(r) ==
    /\ pc[r] \in {"called", "waiting", "woken", "mapping"}
    /\ Ends(r) /\ OthersStay(r)
    /\ UNCHANGED <<cache, leader, now, active, revoked>>

\* r joins a lookup, or leads one.
JoinStep(r) ==
    /\ pc[r] \in {"called", "woken"}
    /\ JoinOrLead(r)
    /\ pc'[r] \in {"waiting", "introspecting"} /\ OthersStay(r)
    /\ UNCHANGED <<call, verifiedJkt, response, now, active, revoked>>
    /\ \A t \in Tokens : cache'[t] # Absent => cache'[t] = cache[t]

\* r's lookup is over: the others wait no more, and only an active answer is
\* handed on or kept.
LookupStep(r) ==
    /\ pc[r] = "introspecting"
    /\ Ends(r)
    /\ leader' = [leader EXCEPT ![call[r].token] = NoOne]
    /\ \A q \in Requests \ {r} :
          IF pc[q] = "waiting" /\ call[q].token = call[r].token
          THEN pc'[q] = "woken" /\ (handed'[q].status = "answer" => response[r] = "active")
          ELSE pc'[q] = pc[q] /\ handed'[q] = handed[q]
    /\ \A t \in Tokens : cache'[t] # Absent =>
          \/ cache'[t] = cache[t]
          \/ /\ t = call[r].token /\ response[r] = "active" /\ ClaimsHold(Claims[t])
             /\ cache'[t] = now + Lifetime(Claims[t])
    /\ UNCHANGED <<now, active, revoked>>

\* A call that ends by itself.
LEMMA EndsAlone ==
    ASSUME RequestsTypeOK, NEW r \in Requests, pc[r] # "idle", NEW result \in Results,
           pc[r] = "mapping" => result.status = "cancelled" \/ result = Decision(r),
           Finish(r, result, {}, Result("none"))
    PROVE  RequestsTypeOK' /\ Ends(r) /\ OthersStay(r)
<1>1. Result("none") \in Results
  BY ResultTypes DEF Statuses
<1> DEFINE none == {}
<1>2. none \in SUBSET {q \in Requests : pc[q] = "waiting"} /\ \A q : q \notin none
  OBVIOUS
<1>3. Finish(r, result, none, Result("none"))
  OBVIOUS
<1> HIDE DEF none
<1>4. /\ RequestsTypeOK' /\ OthersSee(r, none, Result("none"))
      /\ pc'[r] = "idle" /\ reply'[r].status = result.status
  BY <1>1, <1>2, <1>3, FinishEffect
<1> QED BY <1>2, <1>4 DEF Ends, OthersStay, OthersSee

\* A request that takes the claims by itself.
LEMMA TakesAlone ==
    ASSUME RequestsTypeOK, NEW r \in Requests, pc[r] \in {"called", "woken"}, Entitled(r),
           Take(r, {}, Result("none"))
    PROVE  RequestsTypeOK' /\ Ends(r) /\ OthersStay(r)
<1>1. Result("none") \in Results
  BY ResultTypes DEF Statuses
<1> DEFINE none == {}
<1>2. none \in SUBSET {q \in Requests : pc[q] = "waiting"} /\ \A q : q \notin none
  OBVIOUS
<1>3. Take(r, none, Result("none"))
  OBVIOUS
<1> HIDE DEF none
<1>4. /\ RequestsTypeOK' /\ OthersSee(r, none, Result("none"))
      /\ \/ pc'[r] = "idle"
         \/ /\ pc'[r] = "mapping" /\ call'[r] = call[r]
            /\ verifiedJkt'[r] = Claims[call[r].token].jkt
  BY <1>1, <1>2, <1>3, TakeEffect
<1> QED BY <1>2, <1>4 DEF Ends, OthersStay, OthersSee

LEMMA CallEffect ==
    ASSUME Good, NEW r \in Requests, Call(r)
    PROVE  Good' /\ (AloneStep(r) \/ JoinStep(r))
<1> USE DEF Good
<1> DEFINE t == call[r].token
<1>1. pc[r] = "called" /\ t \in Tokens /\ UNCHANGED worldVars
  BY DEF Call, RequestsTypeOK, Calls
<1>2. WorldTypeOK' /\ UNCHANGED <<now, active, revoked>>
  BY <1>1 DEF WorldTypeOK, worldVars
<1>3. CASE /\ Cached(t)
           /\ recency' = MoveToEnd(recency, t)
           /\ Take(r, {}, Result("none"))
           /\ UNCHANGED <<cache, leader>>
  <2>1. RequestsTypeOK' /\ Ends(r) /\ OthersStay(r)
    <3>1. Entitled(r)
      BY <1>1, <1>3 DEF Entitled
    <3> QED BY <1>1, <1>3, <3>1, TakesAlone
  <2>2. CacheTypeOK'
    <3>1. t \in ToSet(recency)
      BY <1>1, <1>3 DEF Cached, CacheTypeOK
    <3>2. /\ recency' \in Seq(Tokens) /\ IsInjective(recency')
          /\ ToSet(recency') = ToSet(recency) \cup {t} /\ Len(recency') = Len(recency)
      BY <1>1, <1>3, <3>1, MoveToEndKey DEF CacheTypeOK
    <3> QED BY <1>3, <3>1, <3>2 DEF CacheTypeOK
  <2> QED BY <1>1, <1>2, <1>3, <2>1, <2>2 DEF AloneStep
<1>4. CASE /\ ~Cached(t)
           /\ cache' = [cache EXCEPT ![t] = Absent]
           /\ recency' = Without(recency, t)
           /\ JoinOrLead(r)
  <2>1. /\ RequestsTypeOK' /\ leader' \in [Tokens -> Requests \cup {NoOne}]
        /\ pc'[r] \in {"waiting", "introspecting"}
        /\ UNCHANGED <<call, verifiedJkt, response, reply>>
        /\ \A q \in Requests \ {r} : pc'[q] = pc[q] /\ handed'[q] = handed[q]
    BY <1>1, <1>4, JoinEffect
  <2>2. /\ recency' \in Seq(Tokens) /\ IsInjective(recency')
        /\ ToSet(recency') = ToSet(recency) \ {t} /\ Len(recency') <= Len(recency)
    <3>1. /\ recency' \in Seq(Tokens) /\ IsInjective(recency')
          /\ ToSet(recency') = ToSet(recency) \ {t}
          /\ Len(recency') = IF t \in ToSet(recency) THEN Len(recency) - 1 ELSE Len(recency)
      BY <1>4, WithoutKey DEF CacheTypeOK
    <3>2. Len(recency) \in Nat
      BY DEF CacheTypeOK
    <3> QED BY <3>1, <3>2
  <2>3. CacheTypeOK'
    <3>1. cache' \in [Tokens -> 0..(MaxClock + CacheTtl) \cup {Absent}]
      BY <1>4 DEF CacheTypeOK
    <3>2. ToSet(recency') = {u \in Tokens : cache'[u] # Absent}
      BY <1>1, <1>4, <2>2 DEF CacheTypeOK
    <3>3. Len(recency') <= CacheSize
      <4>1. Len(recency) \in Nat /\ Len(recency') \in Nat
        BY <2>2 DEF CacheTypeOK
      <4> QED BY <4>1, <2>2, NumbersAssumption DEF CacheTypeOK
    <3> QED BY <2>2, <3>1, <3>2, <3>3 DEF CacheTypeOK
  <2>4. \A u \in Tokens : cache'[u] # Absent => cache'[u] = cache[u]
    BY <1>4 DEF CacheTypeOK
  <2> QED BY <1>1, <1>2, <1>4, <2>1, <2>3, <2>4 DEF JoinStep, OthersStay
<1> QED BY <1>3, <1>4 DEF Call

LEMMA WokenEffect ==
    ASSUME Good, NEW r \in Requests, Woken(r)
    PROVE  Good' /\ (AloneStep(r) \/ JoinStep(r))
<1> USE DEF Good
<1> DEFINE t == call[r].token
<1>1. pc[r] = "woken" /\ t \in Tokens /\ handed[r] \in Results /\ UNCHANGED <<cacheVars, worldVars>>
  BY DEF Woken, RequestsTypeOK, Calls
<1>2. WorldTypeOK' /\ CacheTypeOK' /\ UNCHANGED <<cache, now, active, revoked>>
  BY <1>1 DEF WorldTypeOK, worldVars, CacheTypeOK, cacheVars
<1>3. CASE /\ handed[r].status \in {"unavailable", "unauthorized"}
           /\ Finish(r, Copied(handed[r]), {}, Result("none"))
           /\ UNCHANGED leader
  <2>1. Copied(handed[r]) \in Results
    <3>1. Result("crashed") \in Results
      BY ResultTypes DEF Statuses
    <3> QED BY <1>1, <3>1 DEF Copied
  <2>2. RequestsTypeOK' /\ Ends(r) /\ OthersStay(r)
    BY <1>1, <1>3, <2>1, EndsAlone
  <2> QED BY <1>1, <1>2, <1>3, <2>2 DEF AloneStep
<1>4. CASE /\ handed[r].status = "answer"
           /\ Take(r, {}, Result("none"))
           /\ UNCHANGED leader
  <2>1. Entitled(r)
    BY <1>1, <1>4 DEF Entitled
  <2>2. RequestsTypeOK' /\ Ends(r) /\ OthersStay(r)
    BY <1>1, <1>4, <2>1, TakesAlone
  <2> QED BY <1>1, <1>2, <1>4, <2>2 DEF AloneStep
<1>5. CASE handed[r].status = "none" /\ JoinOrLead(r)
  <2>1. /\ RequestsTypeOK' /\ leader' \in [Tokens -> Requests \cup {NoOne}]
        /\ pc'[r] \in {"waiting", "introspecting"}
        /\ UNCHANGED <<call, verifiedJkt, response, reply>>
        /\ \A q \in Requests \ {r} : pc'[q] = pc[q] /\ handed'[q] = handed[q]
    BY <1>1, <1>5, JoinEffect
  <2> QED BY <1>1, <1>2, <1>5, <2>1 DEF JoinStep, OthersStay
<1> QED BY <1>3, <1>4, <1>5 DEF Woken

\* claims_to_identity returns.
LEMMA MappedEffect ==
    ASSUME Good, NEW r \in Requests, Mapped(r)
    PROVE  Good' /\ AloneStep(r)
<1> USE DEF Good
<1>1. pc[r] = "mapping" /\ UNCHANGED <<cacheVars, leader, worldVars>>
  BY DEF Mapped
<1>2. WorldTypeOK' /\ CacheTypeOK' /\ UNCHANGED <<cache, now, active, revoked>>
  BY <1>1 DEF WorldTypeOK, worldVars, CacheTypeOK, cacheVars
<1>3. RequestsTypeOK' /\ Ends(r) /\ OthersStay(r)
  <2>1. Decision(r) \in Results /\ Finish(r, Decision(r), {}, Result("none"))
    BY DecisionTypes DEF Mapped
  <2> QED BY <1>1, <2>1, EndsAlone
<1> QED BY <1>1, <1>2, <1>3 DEF AloneStep

\* A lookup is over, whatever its end.
LEMMA LookupEnds ==
    ASSUME Good, NEW r \in Requests, pc[r] = "introspecting", NEW left \in Results,
           leader' = [leader EXCEPT ![call[r].token] = NoOne],
           \/ \E result \in Results : Finish(r, result, Waiters(call[r].token), left)
           \/ Entitled(r) /\ Take(r, Waiters(call[r].token), left),
           left.status = "answer" => response[r] = "active",
           WorldTypeOK', CacheTypeOK', UNCHANGED <<now, active, revoked>>,
           \A t \in Tokens : cache'[t] # Absent =>
              \/ cache'[t] = cache[t]
              \/ /\ t = call[r].token /\ response[r] = "active" /\ ClaimsHold(Claims[t])
                 /\ cache'[t] = now + Lifetime(Claims[t])
    PROVE  Good' /\ LookupStep(r)
<1> DEFINE wake == Waiters(call[r].token)
<1>1. /\ wake \in SUBSET {q \in Requests : pc[q] = "waiting"}
      /\ \A q \in Requests : q \in wake <=> pc[q] = "waiting" /\ call[q].token = call[r].token
  BY DEF Waiters
<1> HIDE DEF wake
<1>2. /\ RequestsTypeOK' /\ OthersSee(r, wake, left)
      /\ pc'[r] \in {"idle", "mapping"}
      /\ pc'[r] = "mapping" =>
            /\ Entitled(r) /\ call'[r] = call[r] /\ verifiedJkt'[r] = Claims[call[r].token].jkt
  <2>1. ASSUME NEW result \in Results, Finish(r, result, wake, left)
        PROVE  RequestsTypeOK' /\ OthersSee(r, wake, left) /\ pc'[r] = "idle"
    BY <1>1, <2>1, FinishEffect DEF Good
  <2>2. CASE Entitled(r) /\ Take(r, wake, left)
    BY <1>1, <2>2, TakeEffect DEF Good
  <2> QED BY <2>1, <2>2 DEF wake
<1>3. Ends(r)
  BY <1>2 DEF Ends, OthersSee
<1>4. leader' \in [Tokens -> Requests \cup {NoOne}]
  BY DEF Good, RequestsTypeOK, Calls
<1> QED BY <1>1, <1>2, <1>3, <1>4 DEF Good, LookupStep, OthersSee

LEMMA ReturnsEffect ==
    ASSUME Good, NEW r \in Requests, Returns(r)
    PROVE  Good' /\ LookupStep(r)
<1> USE DEF Good
<1> DEFINE t == call[r].token
           refused == AddChallenge(Result("unauthorized"), call[r].route)
<1>1. pc[r] = "introspecting" /\ t \in Tokens /\ call[r].route \in Routes /\ UNCHANGED worldVars
  BY DEF Returns, RequestsTypeOK, Calls
<1>2. WorldTypeOK' /\ UNCHANGED <<now, active, revoked>>
  BY <1>1 DEF WorldTypeOK, worldVars
<1>3. UNCHANGED cacheVars => CacheTypeOK' /\ UNCHANGED cache
  BY DEF CacheTypeOK, cacheVars
<1>4. CASE /\ EndLookup(r, Result("unavailable"), Result("unavailable"))
           /\ UNCHANGED cacheVars
  <2>1. Result("unavailable") \in Results /\ Result("unavailable").status = "unavailable"
    BY ResultTypes DEF Statuses, Result
  <2> QED BY <1>1, <1>2, <1>3, <1>4, <2>1, LookupEnds DEF EndLookup
<1>5. CASE EndLookup(r, refused, refused) /\ UNCHANGED cacheVars
  <2>1. Result("unauthorized") \in Results /\ Result("unauthorized").status = "unauthorized"
    BY ResultTypes DEF Statuses, Result
  <2>2. refused \in Results /\ refused.status = "unauthorized"
    BY <1>1, <2>1, AddChallengeTypes
  <2> HIDE DEF refused
  <2> QED BY <1>1, <1>2, <1>3, <1>5, <2>2, LookupEnds DEF EndLookup
<1>6. CASE /\ response[r] = "active" /\ ClaimsHold(Claims[t])
           /\ Store(t)
           /\ leader' = [leader EXCEPT ![t] = NoOne]
           /\ Take(r, Waiters(t), Result("answer"))
  <2>1. Result("answer") \in Results
    BY ResultTypes DEF Statuses
  <2>2. /\ CacheTypeOK'
        /\ \A u \in Tokens : cache'[u] # Absent =>
              \/ cache'[u] = cache[u]
              \/ u = t /\ cache'[u] = now + Lifetime(Claims[t])
    BY <1>1, <1>6, StoreEffect
  <2>3. Entitled(r)
    BY <1>1, <1>6 DEF Entitled
  <2> QED BY <1>1, <1>2, <1>6, <2>1, <2>2, <2>3, LookupEnds
<1> QED BY <1>4, <1>5, <1>6 DEF Returns

LEMMA CancelEffect ==
    ASSUME Good, NEW r \in Requests, Cancel(r)
    PROVE  Good' /\ (AloneStep(r) \/ LookupStep(r))
<1> USE DEF Good
<1>1. UNCHANGED <<cacheVars, now, active, revoked>>
  BY DEF Cancel
<1>2. WorldTypeOK' /\ CacheTypeOK' /\ UNCHANGED <<cache, now, active, revoked>>
  <2>1. cancels' \in 0..MaxCancels
    BY NumbersAssumption DEF Cancel, WorldTypeOK
  <2> QED BY <1>1, <2>1 DEF WorldTypeOK, CacheTypeOK, cacheVars
<1>3. Result("cancelled") \in Results /\ Result("cancelled").status = "cancelled"
  BY ResultTypes DEF Statuses, Result
<1>4. Result("none") \in Results /\ Result("none").status = "none"
  BY ResultTypes DEF Statuses, Result
<1>5. CASE pc[r] = "introspecting" /\ EndLookup(r, Result("cancelled"), Result("none"))
  BY <1>2, <1>3, <1>4, <1>5, LookupEnds DEF EndLookup
<1>6. CASE /\ pc[r] \in {"waiting", "woken", "mapping"}
           /\ Finish(r, Result("cancelled"), {}, Result("none"))
           /\ UNCHANGED leader
  <2>1. RequestsTypeOK' /\ Ends(r) /\ OthersStay(r)
    BY <1>3, <1>6, EndsAlone
  <2> QED BY <1>2, <1>6, <2>1 DEF AloneStep
<1> QED BY <1>5, <1>6 DEF Cancel

LEMMA StepEffect ==
    ASSUME Good, Next
    PROVE  /\ Good'
           /\ \/ \E r \in Requests : \/ Arrive(r) \/ ProviderAnswers(r)
                                     \/ AloneStep(r) \/ JoinStep(r) \/ LookupStep(r)
              \/ \E t \in Tokens : Revoke(t)
              \/ Tick
<1>1. ASSUME NEW r \in Requests, Arrive(r)
      PROVE  Good'
  <2>1. RequestsTypeOK'
    <3>1. PICK c \in Calls : call' = [call EXCEPT ![r] = c]
      BY <1>1 DEF Arrive, Calls
    <3>2. Result("none") \in Results
      BY ResultTypes DEF Statuses
    <3> QED BY <1>1, <3>1, <3>2 DEF Good, RequestsTypeOK, Arrive, Running
  <2> QED BY <1>1, <2>1 DEF Good, CacheTypeOK, WorldTypeOK, Arrive, cacheVars, worldVars
<1>2. ASSUME NEW r \in Requests, ProviderAnswers(r)
      PROVE  Good'
  <2>1. RequestsTypeOK'
    <3>1. PICK a \in {"active", "inactive", "unavailable"} : response' = [response EXCEPT ![r] = a]
      BY <1>2 DEF ProviderAnswers
    <3> QED BY <1>2, <3>1 DEF Good, RequestsTypeOK, ProviderAnswers, Responses
  <2> QED BY <1>2, <2>1 DEF Good, CacheTypeOK, WorldTypeOK, ProviderAnswers, cacheVars, worldVars
<1>3. ASSUME NEW t \in Tokens, Revoke(t)
      PROVE  Good'
  <2>1. MidLookup(t) \in BOOLEAN
    BY DEF MidLookup
  <2>2. WorldTypeOK'
    <3> DEFINE entry == [at |-> now, midLookup |-> MidLookup(t)]
    <3>1. entry \in [at : 0..now, midLookup : BOOLEAN]
      BY <2>1 DEF Good, WorldTypeOK
    <3>2. revoked' = [revoked EXCEPT ![t] = entry] /\ active' = active \ {t} /\ UNCHANGED <<now, cancels>>
      BY <1>3 DEF Revoke
    <3> HIDE DEF entry
    <3> QED BY <3>1, <3>2 DEF Good, WorldTypeOK
  <2> QED BY <1>3, <2>2 DEF Good, CacheTypeOK, RequestsTypeOK, Revoke, cacheVars, requestVars
<1>4. ASSUME Tick
      PROVE  Good'
  <2>1. now' \in 0..MaxClock /\ 0..now \subseteq 0..now'
    BY <1>4, NumbersAssumption DEF Good, WorldTypeOK, Tick
  <2>2. WorldTypeOK'
    BY <1>4, <2>1 DEF Good, WorldTypeOK, Tick
  <2> QED BY <1>4, <2>2 DEF Good, CacheTypeOK, RequestsTypeOK, Tick, cacheVars, requestVars
<1>5. ASSUME NEW r \in Requests,
             Call(r) \/ Returns(r) \/ Woken(r) \/ Mapped(r) \/ Cancel(r)
      PROVE  Good' /\ (AloneStep(r) \/ JoinStep(r) \/ LookupStep(r))
  BY <1>5, CallEffect, ReturnsEffect, WokenEffect, MappedEffect, CancelEffect
<1> QED BY <1>1, <1>2, <1>3, <1>4, <1>5 DEF Next
-----------------------------------------------------------------------------
(* The inductive invariant                                                 *)

\* No answer is kept past `exp` or past cache_ttl.
LapsesInv ==
    \A t \in Tokens : cache[t] # Absent =>
        /\ Claims[t].exp # NoTime => Claims[t].exp # NotATime /\ cache[t] <= Claims[t].exp
        /\ cache[t] <= now + CacheTtl

\* Once a token nobody was looking up is revoked, its answer ages, and no one
\* is told again that it is active.
RevokedInv ==
    \A t \in Tokens \ active : ~revoked[t].midLookup =>
        /\ cache[t] # Absent => cache[t] <= revoked[t].at + CacheTtl
        /\ \A r \in Requests : pc[r] = "introspecting" /\ call[r].token = t => response[r] # "active"
        /\ \A r \in Requests : pc[r] = "woken" /\ call[r].token = t => handed[r].status # "answer"

\* While a request maps the claims, its context holds the key of its own token.
RecordInv ==
    \A r \in Requests : pc[r] = "mapping" => verifiedJkt[r] = Claims[call[r].token].jkt

IInv == Good /\ SingleFlight /\ LapsesInv /\ RevokedInv /\ RecordInv

LEMMA SingleFlightStep ==
    ASSUME Good, SingleFlight, Next
    PROVE  SingleFlight'
<1>1. ASSUME NEW r \in Requests, Arrive(r)
      PROVE  SingleFlight'
  BY <1>1, NamesAssumption DEF Good, RequestsTypeOK, SingleFlight, Arrive
<1>2. ASSUME NEW r \in Requests, ProviderAnswers(r)
      PROVE  SingleFlight'
  BY <1>2 DEF SingleFlight, ProviderAnswers
<1>3. ASSUME NEW r \in Requests, AloneStep(r)
      PROVE  SingleFlight'
  BY <1>3, NamesAssumption DEF Good, RequestsTypeOK, SingleFlight, AloneStep, Ends, OthersStay
<1>4. ASSUME NEW r \in Requests, JoinStep(r)
      PROVE  SingleFlight'
  BY <1>4, NamesAssumption DEF Good, RequestsTypeOK, SingleFlight, JoinStep, JoinOrLead, OthersStay, Calls
<1>5. ASSUME NEW r \in Requests, LookupStep(r)
      PROVE  SingleFlight'
  BY <1>5, NamesAssumption DEF Good, RequestsTypeOK, SingleFlight, LookupStep, Ends
<1>6. ASSUME Tick \/ \E t \in Tokens : Revoke(t)
      PROVE  SingleFlight'
  BY <1>6 DEF SingleFlight, Tick, Revoke, requestVars
<1> QED BY <1>1, <1>2, <1>3, <1>4, <1>5, <1>6, StepEffect

\* The cache keeps an entry, drops it, or takes an answer that holds now.
LEMMA LapsesStep ==
    ASSUME Good, LapsesInv, Next
    PROVE  LapsesInv'
<1> USE DEF Good
<1>1. now \in Nat /\ now' \in Nat /\ now <= now'
  <2>1. now' = now \/ now' = now + 1
    BY StepEffect DEF Arrive, ProviderAnswers, AloneStep, JoinStep, LookupStep, Revoke, Tick, worldVars
  <2> QED BY <2>1, NumbersAssumption DEF WorldTypeOK
<1>2. ASSUME NEW t \in Tokens, cache'[t] # Absent
      PROVE  \/ cache'[t] = cache[t]
             \/ ClaimsHold(Claims[t]) /\ cache'[t] = now + Lifetime(Claims[t])
  BY <1>2, StepEffect DEF Arrive, ProviderAnswers, AloneStep, JoinStep, LookupStep, Revoke, Tick, cacheVars
<1> SUFFICES ASSUME NEW t \in Tokens, cache'[t] # Absent
             PROVE  /\ Claims[t].exp # NoTime =>
                          Claims[t].exp # NotATime /\ cache'[t] <= Claims[t].exp
                    /\ cache'[t] <= now' + CacheTtl
  BY DEF LapsesInv
<1>3. CASE cache'[t] = cache[t]
  <2>1. cache[t] # Absent
    BY <1>3
  <2>2. cache[t] \in Int /\ CacheTtl \in Nat
    BY <2>1, NumbersAssumption DEF CacheTypeOK
  <2> QED BY <1>1, <1>3, <2>1, <2>2 DEF LapsesInv
<1>4. CASE ClaimsHold(Claims[t]) /\ cache'[t] = now + Lifetime(Claims[t])
  <2>1. /\ Lifetime(Claims[t]) \in Int /\ Lifetime(Claims[t]) <= CacheTtl
        /\ Claims[t].exp # NoTime =>
              /\ Claims[t].exp # NotATime /\ Claims[t].exp \in Nat
              /\ now + Lifetime(Claims[t]) <= Claims[t].exp
    BY <1>4, LifetimeBounds
  <2> QED BY <1>1, <1>4, <2>1, NumbersAssumption
<1> QED BY <1>2, <1>3, <1>4

\* What a revoked token, which nobody was looking up, has left.
Forgotten(t) ==
    /\ cache[t] # Absent => cache[t] <= revoked[t].at + CacheTtl
    /\ \A r \in Requests : pc[r] = "introspecting" /\ call[r].token = t => response[r] # "active"
    /\ \A r \in Requests : pc[r] = "woken" /\ call[r].token = t => handed[r].status # "answer"

LEMMA RevokedStep ==
    ASSUME Good, LapsesInv, RevokedInv, Next
    PROVE  RevokedInv'
<1> USE DEF Good
<1>1. \A t \in Tokens \ active : ~revoked[t].midLookup => Forgotten(t)
  BY DEF RevokedInv, Forgotten
<1>2. ASSUME NEW u \in Tokens, Revoke(u)
      PROVE  RevokedInv'
  <2>1. ~MidLookup(u) => Forgotten(u)'
    <3> SUFFICES ASSUME ~MidLookup(u) PROVE Forgotten(u)'
      OBVIOUS
    <3>1. UNCHANGED <<cache, pc, call, handed, response>> /\ revoked'[u].at = now
      BY <1>2 DEF Revoke, cacheVars, requestVars, WorldTypeOK
    <3>2. cache[u] # Absent => cache[u] <= now + CacheTtl
      BY DEF LapsesInv
    <3> QED BY <3>1, <3>2 DEF Forgotten, MidLookup
  <2>2. /\ revoked'[u].midLookup = MidLookup(u)
        /\ \A t \in Tokens \ {u} : revoked'[t] = revoked[t]
        /\ active' = active \ {u}
    BY <1>2 DEF Revoke, WorldTypeOK
  <2>3. ASSUME NEW t \in Tokens \ active', ~revoked'[t].midLookup
        PROVE  Forgotten(t)'
    <3>1. CASE t = u
      BY <2>1, <2>2, <2>3, <3>1
    <3>2. CASE t # u
      <4>1. Forgotten(t)
        BY <1>1, <2>2, <2>3, <3>2
      <4> QED BY <1>2, <2>2, <3>2, <4>1 DEF Forgotten, Revoke, cacheVars, requestVars
    <3> QED BY <3>1, <3>2
  <2> QED BY <2>3 DEF RevokedInv, Forgotten
<1>3. ASSUME UNCHANGED <<active, revoked>>,
             \A t \in Tokens \ active : Forgotten(t) => Forgotten(t)'
      PROVE  RevokedInv'
  BY <1>1, <1>3 DEF RevokedInv, Forgotten
<1>4. ASSUME NEW r \in Requests, Arrive(r)
      PROVE  RevokedInv'
  <2>1. UNCHANGED <<active, revoked, cache, response, handed>>
    BY <1>4 DEF Arrive, cacheVars, worldVars
  <2>2. pc'[r] = "called" /\ \A q \in Requests \ {r} : pc'[q] = pc[q] /\ call'[q] = call[q]
    BY <1>4 DEF Arrive, RequestsTypeOK
  <2> QED BY <1>3, <2>1, <2>2 DEF Forgotten
<1>5. ASSUME NEW r \in Requests, ProviderAnswers(r)
      PROVE  RevokedInv'
  <2>1. UNCHANGED <<active, revoked, cache, pc, call, handed>>
    BY <1>5 DEF ProviderAnswers, cacheVars, worldVars
  <2>2. /\ call[r].token \notin active => response'[r] # "active"
        /\ \A q \in Requests \ {r} : response'[q] = response[q]
    BY <1>5 DEF ProviderAnswers, RequestsTypeOK
  <2> QED BY <1>3, <2>1, <2>2 DEF Forgotten
<1>6. ASSUME NEW r \in Requests, AloneStep(r)
      PROVE  RevokedInv'
  <2>1. UNCHANGED <<active, revoked, cache>>
    BY <1>6 DEF AloneStep
  <2>2. /\ pc'[r] \in {"idle", "mapping"}
        /\ \A q \in Requests \ {r} : /\ pc'[q] = pc[q] /\ call'[q] = call[q]
                                     /\ response'[q] = response[q] /\ handed'[q] = handed[q]
    BY <1>6 DEF AloneStep, Ends, OthersStay
  <2> QED BY <1>3, <2>1, <2>2 DEF Forgotten
<1>7. ASSUME NEW r \in Requests, JoinStep(r)
      PROVE  RevokedInv'
  <2>1. /\ UNCHANGED <<active, revoked, call, response>>
        /\ \A t \in Tokens : cache'[t] # Absent => cache'[t] = cache[t]
    BY <1>7 DEF JoinStep
  <2>2. /\ pc'[r] # "woken" /\ response[r] # "active"
        /\ \A q \in Requests \ {r} : pc'[q] = pc[q] /\ handed'[q] = handed[q]
    BY <1>7, NamesAssumption DEF JoinStep, OthersStay, RequestsTypeOK
  <2> QED BY <1>3, <2>1, <2>2 DEF Forgotten
<1>8. ASSUME NEW r \in Requests, LookupStep(r)
      PROVE  RevokedInv'
  <2>1. UNCHANGED <<active, revoked>>
    BY <1>8 DEF LookupStep
  <2>2. ASSUME NEW t \in Tokens \ active, Forgotten(t)
        PROVE  Forgotten(t)'
    <3>1. /\ pc'[r] \in {"idle", "mapping"} /\ pc[r] = "introspecting"
          /\ \A q \in Requests \ {r} :
                /\ call'[q] = call[q] /\ response'[q] = response[q]
                /\ IF pc[q] = "waiting" /\ call[q].token = call[r].token
                   THEN pc'[q] = "woken" /\ (handed'[q].status = "answer" => response[r] = "active")
                   ELSE pc'[q] = pc[q] /\ handed'[q] = handed[q]
      BY <1>8 DEF LookupStep, Ends
    <3>2. call[r].token = t => response[r] # "active"
      BY <2>2, <3>1 DEF Forgotten
    <3>3. cache'[t] # Absent => cache'[t] = cache[t]
      BY <1>8, <3>2 DEF LookupStep
    <3>4. cache'[t] # Absent => cache'[t] <= revoked'[t].at + CacheTtl
      BY <2>1, <2>2, <3>3 DEF Forgotten
    <3>5. \A q \in Requests : pc'[q] = "introspecting" /\ call'[q].token = t => response'[q] # "active"
      BY <2>2, <3>1 DEF Forgotten
    <3>6. \A q \in Requests : pc'[q] = "woken" /\ call'[q].token = t => handed'[q].status # "answer"
      BY <2>2, <3>1, <3>2 DEF Forgotten
    <3> QED BY <3>4, <3>5, <3>6 DEF Forgotten
  <2> QED BY <1>3, <2>1, <2>2
<1>9. ASSUME Tick
      PROVE  RevokedInv'
  BY <1>3, <1>9 DEF Forgotten, Tick, cacheVars, requestVars
<1> QED BY <1>2, <1>4, <1>5, <1>6, <1>7, <1>8, <1>9, StepEffect

\* Each request records for itself, and no one else writes in its context.
LEMMA RecordStep ==
    ASSUME Good, RecordInv, Next
    PROVE  RecordInv'
<1>1. ASSUME NEW r \in Requests, Arrive(r) \/ ProviderAnswers(r)
      PROVE  RecordInv'
  BY <1>1 DEF Good, RequestsTypeOK, RecordInv, Arrive, ProviderAnswers
<1>2. ASSUME NEW r \in Requests, JoinStep(r)
      PROVE  RecordInv'
  BY <1>2 DEF RecordInv, JoinStep, OthersStay
<1>3. ASSUME NEW r \in Requests, AloneStep(r) \/ LookupStep(r)
      PROVE  RecordInv'
  <2>1. /\ Ends(r)
        /\ \A q \in Requests \ {r} : pc'[q] = "mapping" => pc[q] = "mapping"
    BY <1>3 DEF AloneStep, LookupStep, OthersStay
  <2> QED BY <2>1 DEF RecordInv, Ends
<1>4. ASSUME Tick \/ \E t \in Tokens : Revoke(t)
      PROVE  RecordInv'
  BY <1>4 DEF RecordInv, Tick, Revoke, requestVars
<1> QED BY <1>1, <1>2, <1>3, <1>4, StepEffect

LEMMA Invariant == Spec => []IInv
<1>1. Init => IInv
  <2> SUFFICES ASSUME Init PROVE IInv
    OBVIOUS
  <2>1. Good
    BY GoodInit
  <2>2. SingleFlight /\ LapsesInv /\ RevokedInv /\ RecordInv
    BY DEF Init, SingleFlight, LapsesInv, RevokedInv, RecordInv
  <2> QED BY <2>1, <2>2 DEF IInv
<1>2. IInv /\ [Next]_vars => IInv'
  <2> SUFFICES ASSUME IInv, [Next]_vars PROVE IInv'
    OBVIOUS
  <2>1. CASE Next
    BY <2>1, StepEffect, SingleFlightStep, LapsesStep, RevokedStep, RecordStep DEF IInv
  <2>2. CASE UNCHANGED vars
    BY <2>2 DEF IInv, Good, CacheTypeOK, RequestsTypeOK, WorldTypeOK, SingleFlight, LapsesInv,
                RevokedInv, RecordInv, vars, cacheVars, requestVars, worldVars
  <2> QED BY <2>1, <2>2
<1> QED BY <1>1, <1>2, PTL DEF Spec
-----------------------------------------------------------------------------
(* What follows                                                            *)

\* The cache, its order and the state of every request keep their types, and
\* at most cache_size answers are cached.
THEOREM TypeCorrect == Spec => []TypeOK
<1>1. IInv => TypeOK
  BY DEF IInv, Good, CacheTypeOK, RequestsTypeOK, WorldTypeOK, TypeOK, Results
<1> QED BY <1>1, Invariant, PTL

\* At most one request at a time asks the provider about a token, and whoever
\* waits, waits for one that asks.
THEOREM OneLookup == Spec => []SingleFlight
<1>1. IInv => SingleFlight
  BY DEF IInv
<1> QED BY <1>1, Invariant, PTL

\* Whoever takes the claims is entitled to them.
LEMMA WhoTakes ==
    ASSUME Good, [Next]_vars, NEW r \in Requests, Takes(r)
    PROVE  Entitled(r)
<1>1. pc[r] # "mapping" /\ pc'[r] = "mapping"
  BY DEF Takes
<1>2. Next
  BY <1>1 DEF vars, requestVars
<1>3. ASSUME NEW q \in Requests, Arrive(q) \/ ProviderAnswers(q) \/ JoinStep(q)
      PROVE  FALSE
  BY <1>1, <1>3 DEF Good, RequestsTypeOK, Arrive, ProviderAnswers, JoinStep, OthersStay
<1>4. ASSUME NEW q \in Requests, AloneStep(q) \/ LookupStep(q)
      PROVE  q = r /\ Ends(q)
  BY <1>1, <1>4 DEF AloneStep, LookupStep, OthersStay
<1>5. ~Tick /\ ~ \E t \in Tokens : Revoke(t)
  BY <1>1 DEF Tick, Revoke, requestVars
<1> QED BY <1>1, <1>2, <1>3, <1>4, <1>5, StepEffect DEF Ends

\* Whoever is done mapping is judged by its source, or was cancelled.
LEMMA WhoIsJudged ==
    ASSUME Good, [Next]_vars, NEW r \in Requests, pc[r] = "mapping", pc'[r] = "idle"
    PROVE  reply'[r].status = "cancelled" \/ reply'[r].status = Decision(r).status
<1>1. Next
  BY DEF vars, requestVars
<1>2. ASSUME NEW q \in Requests, Arrive(q) \/ ProviderAnswers(q) \/ JoinStep(q)
      PROVE  FALSE
  BY <1>2 DEF Good, RequestsTypeOK, Arrive, ProviderAnswers, JoinStep, OthersStay
<1>3. ASSUME NEW q \in Requests, AloneStep(q) \/ LookupStep(q)
      PROVE  q = r /\ Ends(q)
  BY <1>3 DEF AloneStep, LookupStep, OthersStay
<1>4. ~Tick /\ ~ \E t \in Tokens : Revoke(t)
  BY DEF Tick, Revoke, requestVars
<1> QED BY <1>1, <1>2, <1>3, <1>4, StepEffect DEF Ends

\* No token's claims are taken from the cache at or after its `exp`, nor from the
\* provider's answer at or after `exp` plus the leeway.
THEOREM ExpiredRefused == Spec => NeverAcceptedExpired
<1>1. IInv /\ [Next]_vars =>
        \A r \in Requests : Takes(r) /\ Claims[call[r].token].exp # NoTime =>
          /\ pc[r] = "called" => now < Claims[call[r].token].exp
          /\ pc[r] = "introspecting" => now < Claims[call[r].token].exp + Leeway
  <2> SUFFICES ASSUME IInv, [Next]_vars, NEW r \in Requests, Takes(r),
                      Claims[call[r].token].exp # NoTime
               PROVE  /\ pc[r] = "called" => now < Claims[call[r].token].exp
                      /\ pc[r] = "introspecting" => now < Claims[call[r].token].exp + Leeway
    OBVIOUS
  <2> DEFINE t == call[r].token
  <2>1. Entitled(r)
    BY WhoTakes DEF IInv
  <2>2. t \in Tokens /\ now \in Nat /\ Leeway \in Nat
    <3>1. pc[r] # "idle"
      BY <2>1 DEF Entitled
    <3> QED BY <3>1, NumbersAssumption DEF IInv, Good, RequestsTypeOK, WorldTypeOK, Calls
  <2>3. CASE pc[r] = "called"
    <3>1. cache[t] # Absent /\ now < cache[t]
      BY <2>1, <2>3 DEF Entitled, Cached
    <3>2. Claims[t].exp # NotATime /\ cache[t] <= Claims[t].exp
      BY <2>2, <3>1 DEF IInv, LapsesInv
    <3>3. Claims[t].exp \in Nat /\ cache[t] \in Nat
      BY <2>2, <3>1, <3>2, ClaimsAssumption DEF IInv, Good, CacheTypeOK
    <3> QED BY <2>2, <2>3, <3>1, <3>2, <3>3
  <2>4. CASE pc[r] = "introspecting"
    <3>1. Claims[t].exp # NotATime /\ Claims[t].exp > now - Leeway
      BY <2>1, <2>4 DEF Entitled, ClaimsHold
    <3>2. Claims[t].exp \in Nat
      BY <2>2, <3>1, ClaimsAssumption
    <3> QED BY <2>2, <2>4, <3>1, <3>2
  <2> QED BY <2>3, <2>4
<1> QED BY <1>1, Invariant, PTL DEF NeverAcceptedExpired, Spec

\* Whoever looked its token up, and whatever others record meanwhile, a request
\* is judged by the key its own token is bound to, and by that of its own proof.
THEOREM BindingSeen == Spec => BoundNeedsProof
<1>1. IInv /\ [Next]_vars =>
        \A r \in Requests :
          LET key == Claims[call[r].token].jkt
          IN  pc[r] = "mapping" /\ pc'[r] = "idle" /\ reply'[r].status # "cancelled" =>
                 /\ call[r].route.bound = "refused" =>
                       (reply'[r].status = "accepted" <=> key = NoKey)
                 /\ call[r].route.bound = "proved" =>
                       (reply'[r].status = "accepted" <=> key # NoKey /\ key = call[r].proof)
  <2> SUFFICES ASSUME IInv, [Next]_vars, NEW r \in Requests, pc[r] = "mapping", pc'[r] = "idle",
                      reply'[r].status # "cancelled"
               PROVE  LET key == Claims[call[r].token].jkt
                      IN  /\ call[r].route.bound = "refused" =>
                                (reply'[r].status = "accepted" <=> key = NoKey)
                          /\ call[r].route.bound = "proved" =>
                                (reply'[r].status = "accepted" <=> key # NoKey /\ key = call[r].proof)
    OBVIOUS
  <2>1. reply'[r].status = Decision(r).status
    BY WhoIsJudged DEF IInv
  <2>2. verifiedJkt[r] = Claims[call[r].token].jkt
    BY DEF IInv, RecordInv
  <2>3. CASE call[r].route.bound = "refused"
    BY <2>1, <2>2, <2>3 DEF Decision, BearerDecision, Result
  <2>4. CASE call[r].route.bound = "proved"
    BY <2>1, <2>4 DEF Decision, DPoPDecision, Result
  <2> QED BY <2>3, <2>4
<1> QED BY <1>1, Invariant, PTL DEF BoundNeedsProof, Spec

\* cache_ttl after the revocation of a token that nobody was looking up, nobody
\* takes its claims any more.
THEOREM RevokedRefused == Spec => RevocationTakesEffect
<1>1. IInv /\ [Next]_vars =>
        \A r \in Requests :
          Takes(r) /\ call[r].token \notin active /\ ~revoked[call[r].token].midLookup
            => now < revoked[call[r].token].at + CacheTtl
  <2> SUFFICES ASSUME IInv, [Next]_vars, NEW r \in Requests, Takes(r),
                      call[r].token \notin active, ~revoked[call[r].token].midLookup
               PROVE  now < revoked[call[r].token].at + CacheTtl
    OBVIOUS
  <2> DEFINE t == call[r].token
  <2>1. Entitled(r)
    BY WhoTakes DEF IInv
  <2>2. t \in Tokens \ active
    <3>1. pc[r] # "idle"
      BY <2>1 DEF Entitled
    <3> QED BY <3>1 DEF IInv, Good, RequestsTypeOK, Calls
  <2>3. pc[r] = "called" /\ Cached(t)
    BY <2>1, <2>2 DEF IInv, RevokedInv, Entitled
  <2>4. cache[t] # Absent /\ now < cache[t] /\ cache[t] <= revoked[t].at + CacheTtl
    BY <2>2, <2>3 DEF IInv, RevokedInv, Cached
  <2>5. now \in Int /\ cache[t] \in Int /\ revoked[t].at + CacheTtl \in Int
    BY <2>2, <2>4, NumbersAssumption DEF IInv, Good, WorldTypeOK, CacheTypeOK
  <2> QED BY <2>4, <2>5
<1> QED BY <1>1, Invariant, PTL DEF RevocationTakesEffect, Spec
=============================================================================
