# Specifications of fastapi-multiauth

TLA+ models of the parts of fastapi-multiauth whose correctness depends on the
order in which things happen: the shared key set and introspection cache that
concurrent requests use, the one-time proofs, the guards that a program
derives from sources, the signed cookies that outlive every process, and the two
protocols that the documentation builds on them, a login at a provider and a
second factor. Paths below are relative to `src/src/fastapi_multiauth/` unless
they start with another directory.

    tlc -workers 2 -config JWKSKeySet.cfg MCJWKSKeySet.tla
    tlapm JWKSKeySetProofs.tla

Every module `M` with theorems about it has them in `MProofs`; `OrderedKeysProofs`
holds the lemmas on ordered dictionaries that several of them use.

## Inventory

The library runs inside an ASGI application on one event loop. Each request is
a task; a task gives control away only at an `await` that suspends. What lives
longer than a request is shared by all of them without a lock, except where a
lock is named below.

| Component | Source | State it keeps | Operations | What is hard | What makes it correct |
|---|---|---|---|---|---|
| JWKS key set | `jwt.py` `_JWKSKeySet` | keys, time of the last load, time of the last attempt, refresh lock | `key_for_token`, `_refresh`, `_fetch` | requests queueing on the lock, failed and cancelled fetches, key rotation during a fetch | bounded rate of fetches, keys never lost, unknown keys sought |
| JWT claims | `jwt.py` `JWTValidator`, `amr.py` | none | `__call__`, `scopes_from_claims` | | pure |
| Introspection | `introspection.py` | LRU cache of answers, lookups in flight | `__call__`, `_lookup`, `_store` | sharing one lookup, a leader that fails or is cancelled, expiry and revocation of a cached answer | one lookup per token, bounds of the cache, lapse in time, everyone answered |
| One-time proofs | `sources/dpop.py`, `sources/signature.py`, `utils.py` `first_use` | memo in the request scope; the caller's replay check | `authenticate_scoped`, `first_use` | two copies at once, a window that closes across an await, one request checking twice | each proof serves one request |
| Source core | `abc.py` | records in the request scope; copies | `optional`, `fresh`, `stepped_up`, `require`, `dispatch`, `ensure_fresh`, `fresh_guard` | any sequence of builders; checks after awaits; records read later under a copy's lineage | no requirement dropped, nothing anonymous by accident |
| MultiAuth | `sources/multi.py` | its sources, fixed | same | mixed guards, scopes of some sources only | what is enforced does not depend on the credential presented |
| Cookie source | `sources/cookie.py` | opened cookie in the request scope; the browsers keep the cookies | `set_cookie`, `extract`, `authenticate_scoped`, `session_id_of`, ... | rotation of keys, names and layouts under one key, a cookie that expires while its validator runs, origins | a cookie is read as it was written, for its whole ttl, and never for a page of another origin |
| Sign out everywhere | `docs_src/recipes/sign_out_everywhere.py`, `docs_src/step_up/second_factor.py` | a row per session | login, logout, revocation, reissue at a higher level | a session revoked while one of its requests sets the cookie again | signed out stays out |
| Bearer, OAuth2, API key, basic | `sources/*.py` | verified key thumbprint in a context variable (bearer) | `extract`, `authenticate_scoped` | | a bound token is not accepted unbound |
| OAuth client | `oauth/client.py` | cache of discovery documents (an hour), shared fetches | `oauth_resolve_provider_urls`, `oauth_exchange_code`, `oauth_fetch_userinfo` | an outage while a callback waits, an exchange whose answer is lost | every request that waits is answered or fails; a failed fetch costs a callback nothing |
| OAuth login helpers | `oauth/utils.py` | none; the caller keeps state, nonce and verifier | `oauth_encode_state`, `oauth_decode_state`, ... | a callback twice, late, in another browser, after a newer login, with a forged state or another login's code; destinations that parsers read differently | a login signs in the browser it was begun for, once, and leads inside |
| ID tokens | `oauth/id_token.py` | 32 key sets | `oauth_validate_id_token` | the nonce of another flow | as the login helpers |
| OIDC sign-in recipe | `docs_src/recipes/oidc_sign_in.py` | flow cookie, users | login, callback | two callbacks at once | one id per account |
| TOTP | `totp.py` | none; the caller keeps `last_step` | `totp_verify` | two requests with one code, two steps with the same digits | a code works once |
| Two-factor recipe | `docs_src/recipes/two_factor.py` | account: secrets, last step, recovery codes, failures, lock | login, verify, enroll, confirm, disable | several browsers on one account, in any order; sessions begun before the factor was on | guesses are spaced; only the factor turns the factor off |
| Surface audit | `surface.py` | none | `auth_surface` | | the report agrees with `dispatch` |
| Helpers, errors, logging | `utils.py`, `exceptions.py` | none | | | pure |
| Other recipes | `docs_src/recipes/` | sessions, tickets | | as the component they use | |

A request flows: a dependency (`AuthSource` or `MultiAuth`) extracts a
credential; its source authenticates it, usually by awaiting a validator
(`JWTValidator`, which awaits the key set, or `IntrospectionValidator`); DPoP
and signed requests then await the replay check; the step-up checks follow; the
outcome is recorded in the request scope, where a later dependency or the
handler finds it (`ensure_fresh`). The login recipes set the cookies that later
requests present: `OAuthLogin` and `TwoFactor` end where `CookieSession` begins.

## Modules

`JWKSKeySet` (with `AnyioLock`, the anyio lock it queues on, and `OrderedKeys`,
the ordered dictionaries and queues). One action is the code from one point of
suspension to the next. `KeyForToken` is `key_for_token` up to its answer or to
the lock; `SkipRefresh` and `StartFetch` are what a request does once the lock
is its own (the second reads of the cooldown and of the staleness);
`FetchReturns` is everything after the HTTP response, including the lookup that
follows and, if the key is still missing, the way back to the lock for the
forced refresh; `Cancel` is a cancelled task, with what `async with` undoes. The
lock hands over in the order of arrival. Names follow the code: `keys` is `_keys`,
`fetchedAt`, `attemptedAt` and `lock` are `_fetched_at`, `_attempted_at` and
`_refresh_lock`. The provider (`ProviderAnswers`, `Rotate`) answers with the
document it publishes then, or fails. `attempt` is a history variable: when the
last fetch began, how it ended, and which keys appeared since.

`Introspection`. `Call` is `__call__` up to a cached answer or to the lookup;
`JoinOrLead` is the `while` of `_lookup`; `Returns` is the leader after the
provider's answer, with `_check_claims`, `_store` and the `finally`; `Woken` a
waiter after `done.wait()`. Between the end of a lookup and the wake of its
waiters any other step may run, as in the code. `cache` and `recency` are the
`OrderedDict`. `Finish` applies `add_challenge` as the source that called
the validator does; `Copied` is what `copy.copy(lookup.error)` makes of an
exception. Whoever has the claims of a token (`Take`: the leader, a waiter, or the
reader of a cached answer) requires the route's scopes, puts the token's binding into
the context variable of its own request (`Record`, which is `record_verified_jkt`;
`verifiedJkt` has one entry per request), and waits for `claims_to_identity`, which
drops the claims. `Mapped` is what its source then decides: a bearer source reads the
context (`BearerDecision`), a DPoP source compares the token's key with the one of
the request's own proof (`DPoPDecision`); `Routes` has a route of each kind, and
`Arrive` picks the key. Between `Take` and `Mapped` other requests record theirs.

`Replay`. One request runs the dependencies of its route one after the other;
each goes through `Verify` (the window), `Validated` (the validator or the body
is back, the proof is genuine), the replay check in two steps (its handling,
`CheckAnswers`, and its return) and `StepUp`. A DPoP source and a signed request
have the same skeleton and differ by constants: `Age` and `Ahead` are
`proof_max_age + leeway` and `leeway` for the first, `tolerance` twice for the
second. The replay check is the one of `docs_src/jwt/dpop.py`, atomic as the
documentation requires; it may fail before or after it recorded the key.

`Dispatch`. First the program calls builders: `BuildSource` on a source's copy,
`UseSource` or `Combine` to make the route's guard, `BuildMulti` on a
combination. Each has the refusals of the code as its guard. Then requests pass:
`Dispatch` picks the first source that finds a credential, `Validated`, `Dated`
and `Levelled` are the three awaits, and in `handling` the handler may call
`ensure_fresh()` of any source (`EnsureFresh`) or of the combination
(`EnsureFreshMulti`). `records` is the request scope, by lineage. A guard is a
value since every builder copies. The program may make a combination of no source.
Instants and windows count ticks, `Second` of them to a second, so a window need not
be whole seconds; `MaxAge` is the challenge's `max(1, int(max_age))`. `challenge` is a
history: the last step-up challenge the client was sent, kept when it comes back
with its next request (`NextRequest`).

`Surface` extends `Dispatch` with the report `auth_surface` gives of the route:
operators on the guard, since the report never sees a request. `ReportAgrees`
compares them with what requests meet. The route has one dependency, so the
report has one unit.

`CookieSession`. A request carries, under each name, any cookie ever set
(`Arrive`). Each dependency takes two steps: `Open` is `extract` and `_open`
(signature, age, origin), `Validate` what follows the validator's answer, with
the copy's guards. Then one action per handler: `StepUp` sets the cookie again at
a higher level and moves the row to the new session id, `RevokeOthers` deletes the
user's other rows, `EnsureFresh` asks a source again, `Act` does something else.
`Login` and `Logout` take no credential and do not wait, so each is one action. A
cookie is its salt, key, date and payload. Salt and payload are the strings of the
code, as the sequences of their parts between dots: the salt is the name, `sid` with
session ids, and `v2`, so that a name with a dot may run into the layout, and a value
with a dot in it, or another layout, is read as the code would read it. `NamesApart`
says that no name is the session's with `.sid` at its end. `by` is a history field:
what `set_cookie` was given. `keys` is `secret_key`, `layout` is `session_id` of each
source; a deployment (`AddKey`, `RemoveKey`, `TurnSessionIds`) waits until the process
has drained, and removes a key once a ttl has passed since its successor came, the
very instant included, as `docs/guide/cookie-sessions.md` says. `FetchSite`, `Origin`
and `Host` are what browsers of both kinds send for a page, which is a scheme and a
host; `OriginIsHost` drops the scheme, as `_origin_host` does. No recipe of the
repository keeps rows and steps up: that `StepUp` moves the row, if it is still there
(`Moved`), is what `docs/guide/step-up.md` and `docs/guide/cookie-sessions.md` leave to
the program, and is mapped as external.

`OAuthLogin`. `Login` and `Callback` are the two handlers of the recipe up to the
discovery document (`Arrive`): a cached one lets the handler go on at once, a
fetch in flight is shared, and its end (`DiscoveryReturns`) serves or fails all who
wait, as `async_lru` does. `Proceed` is the code after the `await`: a new flow
(`BeginFlow`) or the check of the state (`CheckState`, `oauth_decode_state`).
A callback carries a state and a code that have nothing to do with each other:
the state of any login or none (`NoState`: missing, malformed or forged), and any
code the provider issued, whosever it is, or one it did not (`MadeUp`). A request
without a `code` parameter is a 422 before the handler and is left out.
`ExchangeReturns` is the end of `oauth_exchange_code`: the provider redeems a code
once, may check the verifier or not, may spend or keep a code it refuses, or be out
of reach, and its answer may be lost after the code was spent. `ValidationReturns` is the end of
`oauth_validate_id_token` and of the handler. State, nonce and verifier are made
together and random, so one name stands for the three, and a code carries the name
of its flow and the account that logged in. `reply` is what one step answers. `SessionMiddleware` keeps the flow in
the browser's cookie: the handler reads the cookie its request carried, and the
answer empties or replaces the one the browser then has (`ForgetFlow`), which are
not the same when two requests of a browser overlap. Any link the provider issued
may be opened in any browser, again and at any time. `Documents` and
`Destinations` enumerate what a provider may publish and what a state may name;
`Landings` and `Usable` are the pure checks of the code over them, and
`BrowserHost` is how browsers read what `urlsplit` let through.

`SignIn` is the abstract specification of it: logins begin, users log in, and each
login is redeemed at most once, into the session of the browser it was begun for,
as the account that logged in. It knows no cookie, code, state or outage.
`OAuthLogin` implements it (`SignsInAsPromised`).

`TwoFactor`. One account, since nothing in the recipe joins two. No handler
suspends between its first and its last access to the account, so each is one
action: `Login`, `VerifyDigits`, `VerifyRecovery`, `Enroll`, `Confirm`, `Disable`.
`account` is the dataclass; `session` and `pending` are what the two cookies of each
browser say and when they were set, which is all their guards read (`SignedIn`,
`Fresh`, `StrongFresh`, `Pending`). Time counts TOTP steps. `Hotp` is an arbitrary
table of digits, so that two steps may show the same ones, and `TotpVerify` is the
loop over the window, which keeps the last match. `accepted` and `misses` are
histories: the codes that let someone in, and the wrong codes in a row.

`MC*` modules hold the values of constants that a cfg cannot write, and symmetry
sets: requests, and key ids, are interchangeable since no action prefers one.
Runs of liveness use no symmetry.

## What the runs check

| Run | Bounds | What it shows |
|---|---|---|
| `JWKSKeySet` | 2 requests, 2 keys, lifetime 1, cooldown 1, clock 2 | types; one fetch at a time; fetches a cooldown apart; keys, once loaded, never lost and no 503 after, nor before without an attempt; an unknown key was sought; stale keys only as a fallback; the invariant of the proofs; every call ends, whatever fails or is cancelled |
| `Introspection_safety` | 2 requests, 2 tokens, room for 1 answer, lifetime 2, leeway 1, clock 3 | types and the cache's bounds; single flight; no claims taken past a token's expiry; a request is judged by the key of its own token, whoever looked it up and whatever others record; revocation takes effect |
| `Introspection_liveness` | 3 requests, 1 token, no caching, 2 cancellations | a leader with two waiters, either of which leads next: every call ends |
| `Introspection_outage`, `Introspection_challenge` | 2 requests | disagreements, below |
| `Replay_safety` | 2 requests, 3 sources, 5 kinds of submission, clock 5 | a proof serves one request within its window; a replay is always of another's genuine proof, or of one whose recording was lost; each check was asked |
| `Replay_suspended` | 2 requests | a disagreement, below |
| `Dispatch_safety` | 2 sources, alone, combined in both orders, or a combination of one or none, 3 builder calls, 5 credentials, 2 ticks to a second, windows of 3 ticks and 1, clock 4 | every guard those calls make holds; nothing is anonymous by accident; on a combined route neither scopes nor wiring depend on the credential presented; a client that obeys its last challenge is not challenged again by the same requirement; `ensure_fresh()` answers about the right credential; the surface audit reports what requests meet |
| `CookieSession_safety` | 2 names, a value with a dot, 2 keys, 2 cookies beyond an earlier release's, ttl 1, clock 2, 1 request of any kind and 1 that revokes | types and the ids of rows; a cookie is read as it was written; it lives its ttl through a rotation and a change of layout; signed out stays out; origins are judged |
| `CookieSession_names` | names `session` with ids and `session.sid`, 1 request | a disagreement, below |
| `OAuthLogin_safety` | 2 flows, 2 browsers, 2 accounts, 2 requests at once, 2 logins at the provider, states and codes chosen independently, cookie age 0, cache 1, clock 1 | types and one id per account; a code is used up only by a browser that names a login of its own; redirects stay inside; a callback is refused for its state, code or nonce only for cause; `SignIn` is implemented |
| `TwoFactor_safety` | 2 browsers, 2 secrets, digits shared by neighbouring steps, 2 failures to a lock, lockout 2, window 1, clock 3, 3 codes accepted | types and the agreement of the account's parts; a code is accepted once; guesses are spaced; only a proof turns the factor off |

Why the bounds are enough. A key set needs two requests for every race on the
stamps: each calls again once it is answered, so one may fetch while the other
waits, or be cancelled with the lock on its way to it; two keys for a rotation
that brings one and drops the other; a clock that passes a cooldown, and a
lifetime, after a first fetch. What a longer queue could change is in the theorems,
which hold for any number of requests. Introspection needs
a second token only for eviction, with room for one; three requests are a
leader, a waiter that leads next, and one that waits again. The clock of
`Replay` ends two ticks after the last window. With two ticks to a second, a
window of three is one whose challenge rounds down, and one of one tick is challenged
as a whole second. Three builder calls are one on each of two sources and one on
the combination, or all three on one. The combination of the bearer source alone is
the combined route that may ask for scopes: with the cookie source beside it, which
cannot check any, such a route answers as misconfigured.
Two cookies are a login and its reissue, or a session and a pending login that
one request carries together; the cookie of an earlier release comes on top. The
clock passes a ttl of one tick and the instant before it. A revocation racing a
step-up would need a third cookie, so `Logout`, which deletes the same row, stands
for it there.
Two flows are two browsers, or two tabs of one; two accounts can log in on one flow
or on two, and two requests are a callback and its copy, or a callback and a newer
login; a link can put the state of either flow, or none, beside either code, or none.
A cookie age of 0 and a cache of 1 make one tick enough for a flow to grow too old
and for the document to lapse and be fetched again. Two failures to a lock make the
third a guess after it, and the clock passes the window, a lockout and a fresh
session; two secrets are an enrolment after the factor was turned off.
Every bound is a constant: `MaxClock` in the guard of `Tick`, `MaxCancels` in
`Cancel`, `MaxBuilds` in `Build`, `MaxCookies` in `Issue`, `MaxLogins` in
`ProviderLogin`, `MaxSignIns` in `SignInWithMfa`. Deadlock is checked in every run; `Replay`,
whose requests are sent once, ends in `Terminated`.

Fairness. `FairSpec` asks weak fairness of each request's own steps together with
the provider's answer to it: the event loop resumes every task that can run, the
lock and the events wake their waiters, and a call to the provider ends by the
HTTP timeout (`_http.py`) if by nothing else. Nothing is asked of arrivals,
cancellations, rotations, revocations or of time.

## Disagreements between the code and its words

Each of the first four is a run that TLC must find violated.

* `Introspection_outage`: the 503 of an outage is an `HTTPException` made with
  keywords (`utils.py:370`), which `copy.copy` cannot rebuild; the requests that
  share the lookup answer 500 (`introspection.py:189` against `introspection.py:83`).
* `Introspection_challenge`: two sources on one validator share lookups, and a
  waiter answers with the challenge of the source that led
  (`introspection.py:189` against `abc.py:716`).
* `Replay_suspended`: the window is checked before the validator or the body is
  awaited, the record lapses with the window, so a copy suspended past it is
  accepted again (`sources/dpop.py:219` against `docs/guide/jwt-and-oauth2.md:36`).
  `OncePerWindow` says what does hold.
* `CookieSession_names`: the salt is one string, so `session` with session ids and
  `session.sid` without have the same one, and under one key each source opens the
  other's cookies in the other's layout (`sources/cookie.py:216` against
  `docs/security-model.md:12` and the comment at `sources/cookie.py:214`). The
  theorems about cookies assume `NamesApart`.

Met while modelling, without a run of their own:

* The salt carries a version whatever the layout, so a cookie of a release before
  levels does not verify and its user is logged out (`sources/cookie.py:216` against
  `docs/guide/cookie-sessions.md:60`; the test at `tests/test_multiauth.py:5583` agrees
  with the code).
* A browser that does not tell the site only tells its page's origin, of which
  `_check_origin` compares the host alone: a page served over http by the same host
  passes for the program's own (`sources/cookie.py:66` against "your own origin",
  `docs/guide/cookie-sessions.md:43`). `OriginJudged` excepts that page.
* `MultiAuth().optional()` serves anyone, while `auth_surface` reports a route without
  alternatives that is not unguarded. `ReportAgrees` excepts it.
* A challenge gives whole seconds, and at least one (`utils.py:432`): a client that
  obeys the challenge of a window under a second may still be stale.
  `ObeyingTheChallengeSuffices` asks for a window of a second or more.
* A `fresh()` or `stepped_up()` copy refuses a request as stale after its proof was
  recorded (`abc.py:356`), while `sources/dpop.py:205` says a refused request never
  uses its proof up. `ReplayOnlyOfAnother` allows for it.
* The recipe awaits the discovery document outside its `try`
  (`docs_src/recipes/oidc_sign_in.py:76`): an outage answers 500 instead of the
  login page's error. The flow cookie is kept, so the link works again
  (`RefusedForCause`).
* `oauth/utils.py:168` asks to pop the token so that a callback cannot be replayed.
  The recipe pops it from a cookie the browser keeps until the answer, so two
  callbacks of one link opened at once both pass the check of the state; it is the
  provider's single use of the code that lets one of them in.
* An answered callback empties the flow cookie although a newer tab has put its own
  flow there; that tab's callback is then refused for its state.
* Turning the second factor off clears the account's lock, and leaves the sessions
  of other browsers at their level.

## What is proved

Every safety property that a passing run checks is also a theorem, checked by
TLAPS for any set of requests, keys, tokens, cookies, flows or browsers, any
lifetime and any bound of the clock. Each `*Proofs` module states an inductive
invariant, proves that `Init` implies it and that every action preserves it, and
derives the properties; TLC found the invariants to hold on the instances of the
runs before they were proved. The assumptions are the named `ASSUME`s of each
module, which TLC evaluates in its runs: numbers are natural, special values
differ from ordinary ones, and what is said below.

`JWKSKeySetProofs`

* `TypeCorrect`: `TypeOK` is an invariant, by itself inductive. The lemmas on the
  lock say that its operations yield locks and that neither a newcomer nor
  somebody else's withdrawal changes the owner.
* `FetchInvariant`: `FetchInv` is an invariant. It is the strengthening the others
  need: `OneFetchAtATime` is not inductive, since nothing in it says that a
  request at the head of the lock is alone; `FetchInv` adds that whoever fetches
  owns the lock, that the last attempt is the one `attemptedAt` dates, and that a
  document being brought holds every key published without a break since the
  fetch began, which a rotation in the middle keeps because it enters `appeared`;
  and that a fetch that loaded left some key.
* `SingleFetch` follows from the lock's single owner.
* `FetchRate`, `NeverUnavailable`, `UnavailableAfterAttempt`, `UnknownKeySought`,
  `StaleKeysFallback`: the action properties of the safety run, each from the
  invariant and a case per action. `UnavailableAfterAttempt` says that a 503 is
  answered only over an empty cache after a recent attempt; the attempt may have
  been cancelled rather than failed, since `_refresh` dates it before it waits.

`IntrospectionProofs`. The lemmas of `OrderedKeysProofs` give what `Without`,
`MoveToEnd` and `KeepNewest` do to the keys and to the length of an ordered
dictionary; with them `TypeCorrect` has the cache and its order agree and keep to
`cache_size`. Each handler is first shown to be a step of one of three kinds
(alone, joining, ending a lookup), so that the invariants split on three cases and
not on nine actions.

* `OneLookup`: `SingleFlight` is inductive with the types.
* `ExpiredRefused` needs `LapsesInv`: a cached answer lapses no later than `exp`,
  nor than `cache_ttl` from now. It and `RevokedRefused` speak of the step in which a
  request takes the claims, since mapping them may last.
* `BindingSeen` needs `RecordInv`: while a request waits for its identity, its context
  holds its own token's key. Every way there records it, and no other request writes
  it. A request is judged in `Mapped` only (`WhoIsJudged`).
* `RevokedRefused` needs `RevokedInv`: once a token that nobody was looking up is
  revoked, its cached answer ages, and no leader and no waiter is told again that
  it is active. A lookup under way at that instant may have been told already,
  which is why the property leaves it out.

`ReplayProofs`. The invariant ties three records of one fact: what a check holds
(`HeldInv`), what a request remembers (`RecordedInv`), and who used what (`UsesInv`).

* `KeysApart`: two requests use one key only if one of them did so after the
  other's record had expired. It asks nothing of the keys.
* `OneUse` and `AllRecorded` have a hypothesis each. `OneUse` asks that a key is held
  until one instant whoever records it (`OneExpiryPerKey`), `AllRecorded` that a
  key names one proof of a request (`OneProofPerKey`). A `jti` is chosen by the
  client, and a digest covers the timestamp; both hypotheses fail only when sources
  of different kinds or windows record with one replay check, which
  `docs/guide/webhooks.md` tells the program not to do. `MCReplay` asserts that the
  submissions of the run satisfy both.
* `ReplaysExplained` needs `SeenInv`: a check that saw a key before saw it from
  another request, since a request never asks twice (its memo).

`DispatchProofs`. No induction on the number of builder calls is needed: a copy
carries exactly what was asked of it since its first (`AsAsked`), which each
builder keeps or refuses to break, and the guard's members carry it on.

* `TypeCorrect` and `AnonymousUnasked` are consequences of the invariant; `GuardKept`
  and `CombinationAnswers` of the invariant and the step.
* `ScopesAlike`: when a credential of a combined route has reached its validator,
  `Dispatch` had looked at the whole wiring, so no later step finds it at fault.
* `ChallengeSuffices` needs `ChallengeInv`: the last challenge the client was sent says
  what the copy that sent it still requires, a request later too. `SecondsFit` is
  the arithmetic: for a window of a second or more, the whole seconds of the
  challenge are no longer than the window.
* `ReportIsTrue` covers every guard that the builders can make, not the ones three
  calls make; the optional combination of no source is excepted by name.
* `NamesAssumption` says that a window is no level, and that neither is its absence.

`CookieSessionProofs`. Every theorem has the hypothesis `NamesApart`, without which a
cookie is read by another source, as `CookieSession_names` shows; `SaltsApart`
derives from it that two salts are equal only for one name and one layout.
`ReadAsWritten` needs to know of every cookie, not only of those requests carry,
that its parts are the ones its salt's layout demands (`Written`): the layout may
have changed since, and a value may contain dots.

* `LivesFully` needs `Verifiable`: a key that does not sign has not signed since the
  last rotation, and one that was removed has only signed what has expired. This
  is where the rule of the guide, a ttl between the two deployments, is used. A
  cookie exactly a ttl old is refused if its key goes at that instant.
* `SignedOut` needs `RowsInv`: a row belongs to one login, a login has one row, and
  that login is not signed out. The reissue at a higher level keeps it because the
  program moves the row, if there is one, and makes none; one that wrote a row
  that is gone would bring the session back (the mutant `MovedAnyway`).
* `OriginsJudged` is over every sender that `CallsAssumption` admits: browsers that
  tell a page's site, browsers that tell only its origin, and scripts. The page of
  the same host under another scheme, in a browser of the second kind, is excepted.
* Assumed of the program: a handler that reads the session depends on its source
  (`CallsAssumption`). Assumed of browsers: what is typed is a GET, and the name
  that stands for a proxied host is no page's origin. Assumed of the release
  before: its salts have no version (`EarlierAssumption`).

`OAuthLoginProofs`. Each action is first reduced to what it does to codes, cookies
and sessions (`StepEffects`).

* `SpentByOwner` needs `CodesInv` and `CallsInv`: a flow in a cookie, or carried by a
  request, was begun by that browser, even while the cookie is replaced, and whoever waits for an
  exchange had its state matched (`Matched`). The code may be another login's: it is
  the nonce, and the verifier where the provider looks at it, that stop it.
* `StaysInside` is about the pure checks: for every destination, what
  `urlsplit` lets through leads a browser to the program or to an allowed host.
* `RefusalsExplained` needs `FlowsInv` and `ExplainedInv`: a callback carries the flow of
  its state, or no login made that state, or the flow is another browser's, was
  dropped, or is too old. Time passing between the request's arrival and its refusal
  only adds reasons.
* `KeepsPromise`: every step of `OAuthLogin` is, under the refinement mapping, a step of
  `SignIn` or none. That the browser signed in is the one the code's login was begun
  for rests on `NonceMatches` alone, since the browser may have matched the state of
  a login of its own and brought another's code. `PromiseStep` needs that two
  requests never await the checks of one code (in `CodesInv`) and that two accounts have different ids (`IdsInv`), since the
  mapping reads the account behind a session from its id. `Users` is finite, as the
  ids are counted.

`TwoFactorProofs`. Neither property is inductive by itself.

* `CodesOnce` needs `CodesInv`: a code accepted with the current secret was of a step
  no later than the one claimed. The proof rests on `VerifiedStep`, what the loop
  of `totp_verify` returns, for any table of digits.
* `GuessesSpaced` needs `MissesInv`: the failures counted are the last of the wrong
  codes in a row, and the one before them set the lock.
* `DisabledByProof` needs `SessionsInv`: a strong session began with a code.

One definition was corrected by its proof. `FetchSite` was a `CASE` whose guards
overlapped, so that it named an arbitrary one of two values where TLC took the
first; so were `Decision` and `BrowserHost`. They are `IF`s now, in the order of the
code.

## What is only model-checked

`EveryCallEnds`, of the key set and of introspection: the prover reaches neither
fairness nor ENABLED. The properties of the four runs that TLC must find violated
do not hold, so they are no theorems.

## What is not modelled

* The text of tokens, headers and documents: a token is its key id, claims that do
  not depend on time are one flag, signatures are genuine or not.
* Isolation of the cached answers from the caller's changes (`answer.copy()`).
* Jumps of the wall clock: one clock stands for `time.time` and `time.monotonic`,
  so a cached answer's lapse and the token's expiry are compared on one scale.
* Cookies without a `secret_key`, which are API keys; `amr`, which travels with
  `acr`; deployments that restart processes one by one, of which the guide says
  nothing.
* `claims_to_identity` and other callables of the program, beyond returning or
  raising.
* In a login: `at_hash` and `required_scopes`, which the recipe does not use; the
  userinfo endpoint, one exchange without state; the 32 discovery documents and
  key sets that are kept for other providers.
* Of the second factor: HOTP, base32 and the provisioning URI, pure functions of
  bytes; wrong passwords, which change nothing.
* The components the inventory lists and no module names, with the reason in
  `PROJECT.json`.

## Plan

Modelled, checked and proved: `JWKSKeySet`, `Introspection`, `Replay`, `Dispatch`
with `Surface`, `CookieSession`, `OAuthLogin` against `SignIn`, `TwoFactor`. To come:

1. Routes with several dependencies in `Dispatch`, whose units fold in the report of
   `Surface`, and with them the invariant of the records under several deciders.
2. An abstract specification of the shared lookup of `Introspection` (a request is
   answered with what the provider said of its token while it waited, or less than
   `cache_ttl` before it came), and its refinement.
