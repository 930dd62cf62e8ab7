----------------------------- MODULE OAuthLogin -----------------------------
(***************************************************************************)
(* "Log in with..." (docs_src/recipes/oidc_sign_in.py over oauth/): a      *)
(* browser asks for a login and is redirected to the provider with a fresh *)
(* state, nonce and PKCE challenge, which it keeps in a signed cookie; the *)
(* provider sends it back with a code, which the application exchanges for *)
(* an ID token to sign the browser in.                                     *)
(*                                                                         *)
(* A handler is suspended while it waits for the provider: its discovery   *)
(* document, its tokens, its keys.  The code between is one step.  A flow  *)
(* is named once for its state, nonce and verifier, which are random and   *)
(* made together.  A callback carries a state and a code, which any link   *)
(* can put together: the state of any login or one that no login made, and *)
(* any code the provider issued or one it never did.  The answer to a      *)
(* request reaches the browser in the step that ends its handler.          *)
(***************************************************************************)
EXTENDS Integers, FiniteSets, Sequences

CONSTANTS
    Browsers,
    Users,         \* accounts at the provider: (iss, sub)
    Requests,      \* slots for concurrent requests
    Flows,         \* what a login generates: state, nonce, verifier
    NoBrowser,     \* a flow that has not begun
    NoFlow,        \* a browser without a flow cookie
    NoCall,        \* an idle slot
    NoState,       \* a state no login made: missing, malformed or forged
    NoCode,        \* a login carries no code
    MadeUp,        \* a code the provider never issued
    Absent,        \* no discovery document is cached
    Pending,       \* a discovery document is being fetched
    Hosts,         \* the hosts a destination can name
    Home,          \* the host of the application
    Elsewhere,     \* a destination a browser does not read as a web page
    AllowedHosts,  \* allowed_hosts
    FlowMaxAge,    \* max_age of the flow cookie
    DiscoveryTtl,  \* _DISCOVERY_CACHE_TTL
    MaxClock,      \* bound on the clock
    MaxLogins      \* bound on the logins at the provider

ASSUME NumbersAssumption ==
    FlowMaxAge \in Nat /\ DiscoveryTtl \in Nat \ {0} /\ MaxClock \in Nat /\ MaxLogins \in Nat
ASSUME NamesAssumption ==
    /\ NoFlow \notin Flows /\ NoState \notin Flows \cup {NoFlow} /\ NoBrowser \notin Browsers
    /\ MadeUp \notin Flows \X Users /\ NoCode \notin (Flows \X Users) \cup {MadeUp}
ASSUME HostsAssumption ==
    AllowedHosts \subseteq Hosts /\ Home \notin Hosts /\ Elsewhere \notin Hosts \cup {Home}
ASSUME UsersAssumption == IsFiniteSet(Users)

VARIABLES
    jar,           \* the flow cookie of each browser: a flow and its time
    session,       \* the user id in the session cookie of each browser, or 0
    users,         \* USERS: the id of each account, 0 before its first login
    discovery,     \* the cache of oauth_resolve_provider_urls
    pc,            \* where each request is suspended
    call,          \* what it carries
    reply,         \* what a step answers: how its request ended, and the host
                   \* the browser is sent to
    codes,         \* the provider's codes: one per flow and user who logged in
    begun,         \* history: the browser and the time of each flow
    dropped,       \* history: flows whose browser was told to forget them
    now            \* the clock

browserVars == <<jar, session>>
appVars     == <<users, discovery>>
requestVars == <<pc, call>>
historyVars == <<begun, dropped>>
vars == <<browserVars, appVars, requestVars, reply, codes, historyVars, now>>

Codes == Flows \X Users
Running == {"resolving", "resolved", "unresolved", "exchanging", "validating"}
Ends    == {"none", "redirected", "signed in", "crashed",
            "refused: state", "refused: code", "refused: nonce", "refused: provider"}

-----------------------------------------------------------------------------
(* Pure parts: the discovery document, and the destination in the state.   *)

\* What a provider may publish: its issuer, its authorization and token
\* endpoints, and the optional jwks_uri.
Documents == [issuer : {"ours", "another", "none"},
              endpoints : {"https", "http", "missing"},
              keys : {"https", "http", "none"}]

\* _validate_issuer: the issuer the discovery URL was derived from
ValidIssuer(doc) == doc.issuer = "ours"

\* The checks of each endpoint; the discovery URL is a remote one, so none may
\* be plain HTTP.
Usable(doc) ==
    /\ ValidIssuer(doc)
    /\ doc.endpoints = "https"
    /\ doc.keys # "http"

\* A destination: its scheme, the slashes before the host it names, and
\* whether it holds a control character or user information.
Destinations == [scheme : {"none", "web", "other"},
                 slashes : UNION {[1..n -> {"/", "\\"}] : n \in 0..3},
                 control : BOOLEAN, userinfo : BOOLEAN, host : Hosts]

HasBackslash(d) == \E i \in DOMAIN d.slashes : d.slashes[i] = "\\"
HasNetloc(d)    == Len(d.slashes) >= 2 /\ d.slashes[1] = "/" /\ d.slashes[2] = "/"
Hostname(d)     == IF HasNetloc(d) /\ Len(d.slashes) = 2 THEN d.host ELSE Home

\* Mutant of DestinationAllowed: backslashes pass.
BackslashAllowed(d) ==
    /\ ~d.control
    /\ IF d.scheme = "none" /\ ~HasNetloc(d)
       THEN Len(d.slashes) >= 1 /\ d.slashes[1] = "/"
       ELSE d.scheme = "web" /\ ~d.userinfo /\ Hostname(d) \in AllowedHosts

\* _destination_allowed, as urlsplit reads the destination
DestinationAllowed(d) ==
    /\ ~d.control
    /\ ~HasBackslash(d)
    /\ IF d.scheme = "none" /\ ~HasNetloc(d)
       THEN Len(d.slashes) >= 1
       ELSE d.scheme = "web" /\ ~d.userinfo /\ Hostname(d) \in AllowedHosts

\* Where a browser goes: it reads a backslash as a slash, and any host that
\* follows a web scheme or two slashes.
BrowserHost(d) ==
    IF d.scheme = "other" THEN Elsewhere
    ELSE IF d.scheme = "web" \/ Len(d.slashes) >= 2 THEN d.host ELSE Home

\* The redirects a login can end in: its destination, or the fallback "/"
Landings == {IF DestinationAllowed(d) THEN BrowserHost(d) ELSE Home : d \in Destinations}
-----------------------------------------------------------------------------
Silent == [end |-> "none", host |-> Home]

Init ==
    /\ jar = [b \in Browsers |-> [flow |-> NoFlow, at |-> 0]]
    /\ session = [b \in Browsers |-> 0]
    /\ users = [u \in Users |-> 0]
    /\ discovery = Absent
    /\ pc = [r \in Requests |-> "idle"]
    /\ call = [r \in Requests |-> NoCall]
    /\ reply = Silent
    /\ codes = [c \in Codes |-> "unissued"]
    /\ begun = [f \in Flows |-> [browser |-> NoBrowser, at |-> 0]]
    /\ dropped = {}
    /\ now = 0

\* Mutant of FlowOf: the flows are kept by state, whichever browser comes.
FlowByState(b, state) ==
    IF state \in Flows THEN state ELSE NoFlow

\* The flow SessionMiddleware finds in the cookie of a request, unless it
\* is past its age.
FlowOf(b, state) ==
    IF now - jar[b].at > FlowMaxAge THEN NoFlow ELSE jar[b].flow

\* The cached document, while it lasts
Known == discovery # Absent /\ discovery # Pending /\ now - discovery.at < DiscoveryTtl

\* The keys of USERS
KnownUsers == {u \in Users : users[u] # 0}

\* Mutant of IdOf: the next id is given whether or not the account has one.
IdAlwaysNew(u) ==
    Cardinality(KnownUsers) + 1

\* USERS.setdefault: an account keeps its id, a new one gets the next.
IdOf(u) ==
    IF users[u] # 0 THEN users[u] ELSE Cardinality(KnownUsers) + 1
-----------------------------------------------------------------------------
(* Steps shared by the handlers.                                           *)

End(r, end, host) ==
    /\ reply' = [end |-> end, host |-> host]
    /\ pc' = [pc EXCEPT ![r] = "idle"]
    /\ call' = [call EXCEPT ![r] = NoCall]

\* The answer to a callback: its flow was popped, which empties the cookie of
\* the browser, whatever login this one began meanwhile.
ForgetFlow(c) ==
    \/ /\ c.flow = NoFlow
       /\ UNCHANGED <<jar, dropped>>
    \/ /\ c.flow # NoFlow
       /\ jar' = [jar EXCEPT ![c.browser] = [flow |-> NoFlow, at |-> 0]]
       /\ dropped' = dropped \cup ({c.flow, jar[c.browser].flow} \ {NoFlow})

\* `except OAuthError`: back to the login page.
Refuse(r, c, why) ==
    /\ End(r, why, Home)
    /\ ForgetFlow(c)
    /\ UNCHANGED <<session, users, begun>>

\* oauth_login, once it has the endpoints: a fresh flow, kept in the cookie
\* and sent with the redirect
BeginFlow(r, c) ==
    \E f \in Flows :
        /\ begun[f].browser = NoBrowser
        /\ begun' = [begun EXCEPT ![f] = [browser |-> c.browser, at |-> now]]
        /\ jar' = [jar EXCEPT ![c.browser] = [flow |-> f, at |-> now]]
        /\ dropped' = dropped \cup ({jar[c.browser].flow} \ {NoFlow})
        /\ End(r, "redirected", Home)
        /\ UNCHANGED <<session, users>>

\* Mutant of StateMatches: any state passes.
StateIgnored(c) == TRUE

\* oauth_decode_state: a token was stored, and the state carries it.
StateMatches(c) == c.flow # NoFlow /\ c.flow = c.state

\* oauth_callback up to the exchange
CheckState(r, c) ==
    \/ /\ StateMatches(c)
       /\ pc' = [pc EXCEPT ![r] = "exchanging"]
       /\ call' = [call EXCEPT ![r] = c]
       /\ reply' = Silent
       /\ UNCHANGED <<jar, dropped, session, users, begun>>
    \/ /\ ~StateMatches(c)
       /\ Refuse(r, c, "refused: state")

\* A handler goes on once it has the endpoints.
Proceed(r, c) ==
    \/ c.code = NoCode /\ BeginFlow(r, c)
    \/ c.code # NoCode /\ CheckState(r, c)
-----------------------------------------------------------------------------
(* The handlers.                                                           *)

\* A request reaches oauth_resolve_provider_urls: a cached document is used
\* at once, a fetch in flight is shared, and otherwise one starts.
Arrive(r, b, state, code) ==
    LET c == [browser |-> b, flow |-> FlowOf(b, state), state |-> state, code |-> code,
              keys |-> Known /\ discovery.keys]
    IN  /\ pc[r] = "idle"
        /\ \/ /\ Known
              /\ Proceed(r, c)
              /\ UNCHANGED discovery
           \/ /\ ~Known
              /\ discovery' = Pending
              /\ pc' = [pc EXCEPT ![r] = "resolving"]
              /\ call' = [call EXCEPT ![r] = c]
              /\ reply' = Silent
              /\ UNCHANGED <<browserVars, users, begun, dropped>>
        /\ UNCHANGED <<codes, now>>

\* The supply of flows bounds the logins, those under way included.
Login(r) ==
    /\ Cardinality({f \in Flows : begun[f].browser = NoBrowser}) >
          Cardinality({q \in Requests : pc[q] # "idle" /\ call[q].code = NoCode})
    /\ \E b \in Browsers : Arrive(r, b, NoState, NoCode)

\* The states and the codes that are about
States == {f \in Flows : begun[f].browser # NoBrowser} \cup {NoState}
Issued == {c \in Codes : codes[c] # "unissued"}

\* A callback link with any state and any code, opened in any browser, at any
\* time, as often as anyone likes
Callback(r) ==
    \E b \in Browsers, state \in States, code \in Issued \cup {MadeUp} : Arrive(r, b, state, code)

Waiting == {q \in Requests : pc[q] = "resolving"}

\* The fetch ends: its document serves everyone who waits and is cached; its
\* failure reaches them all and is not cached.
DiscoveryReturns ==
    /\ discovery = Pending
    /\ \/ /\ discovery' = Absent
          /\ pc' = [q \in Requests |-> IF q \in Waiting THEN "unresolved" ELSE pc[q]]
          /\ UNCHANGED call
       \/ \E doc \in Documents :
             /\ Usable(doc)
             /\ discovery' = [at |-> now, keys |-> doc.keys # "none"]
             /\ pc' = [q \in Requests |-> IF q \in Waiting THEN "resolved" ELSE pc[q]]
             /\ call' = [q \in Requests |->
                            IF q \in Waiting THEN [call[q] EXCEPT !.keys = doc.keys # "none"]
                            ELSE call[q]]
    /\ reply' = Silent
    /\ UNCHANGED <<browserVars, users, codes, historyVars, now>>

Resume(r) ==
    /\ pc[r] = "resolved"
    /\ Proceed(r, call[r])
    /\ UNCHANGED <<discovery, codes, now>>

\* Mutant of Fail: the flow is popped before the endpoints are resolved.
FailPopped(r) ==
    /\ pc[r] = "unresolved"
    /\ End(r, "crashed", Home)
    /\ IF call[r].flow = NoFlow THEN UNCHANGED jar
       ELSE jar' = [jar EXCEPT ![call[r].browser] = [flow |-> NoFlow, at |-> 0]]
    /\ UNCHANGED <<session, appVars, codes, historyVars, now>>

\* OAuthDiscoveryError leaves the handler: a 500, which sets no cookie.
Fail(r) ==
    /\ pc[r] = "unresolved"
    /\ End(r, "crashed", Home)
    /\ UNCHANGED <<browserVars, appVars, codes, historyVars, now>>

\* The provider takes a code out of circulation.
Spend(code) ==
    codes' = [d \in Codes |-> IF d = code /\ codes[d] = "live" THEN "spent" ELSE codes[d]]

\* oauth_exchange_code: the request is lost; the provider refuses a code that
\* is not live or, if it checks the verifier, one of another login, which it
\* may spend or keep; or it redeems the code, once, and the answer is lost,
\* unusable, or one without a jwks_uri to check the token with, or good.
ExchangeReturns(r) ==
    LET c == call[r]
        live == c.code \in Codes /\ codes[c.code] = "live"
    IN  /\ pc[r] = "exchanging"
        /\ \/ /\ Refuse(r, c, "refused: provider")
              /\ UNCHANGED codes
           \/ /\ ~(live /\ c.flow = c.code[1])
              /\ Refuse(r, c, "refused: code")
              /\ UNCHANGED codes \/ Spend(c.code)
           \/ /\ live
              /\ Spend(c.code)
              /\ Refuse(r, c, "refused: provider")
           \/ /\ live /\ c.keys
              /\ Spend(c.code)
              /\ pc' = [pc EXCEPT ![r] = "validating"]
              /\ reply' = Silent
              /\ UNCHANGED <<call, browserVars, users, begun, dropped>>
        /\ UNCHANGED <<discovery, now>>

\* The end of oauth_callback: the browser is signed in as the account of the
\* ID token, and sent where the state says.
SignedIn(r, c) ==
    LET u == c.code[2]
    IN  /\ users' = [users EXCEPT ![u] = IdOf(u)]
        /\ session' = [session EXCEPT ![c.browser] = IdOf(u)]
        /\ codes' = [codes EXCEPT ![c.code] = "redeemed"]
        /\ \E host \in Landings : End(r, "signed in", host)
        /\ ForgetFlow(c)
        /\ UNCHANGED begun

\* Mutant of NonceMatches: the nonce of the ID token is not compared.
NonceIgnored(c) == TRUE

\* The ID token carries the nonce of the login its code came from.
NonceMatches(c) == c.flow = c.code[1]

\* oauth_validate_id_token: the key cannot be had or a claim does not hold,
\* the nonce is another flow's, or the token is good.
ValidationReturns(r) ==
    LET c == call[r]
    IN  /\ pc[r] = "validating"
        /\ \/ Refuse(r, c, "refused: provider") /\ UNCHANGED codes
           \/ ~NonceMatches(c) /\ Refuse(r, c, "refused: nonce") /\ UNCHANGED codes
           \/ NonceMatches(c) /\ SignedIn(r, c)
        /\ UNCHANGED <<discovery, now>>
-----------------------------------------------------------------------------
(* The world outside: the provider, and time.                              *)

\* A user follows the redirect of a flow and logs in: the provider issues a
\* code and sends it back with the state.
ProviderLogin(f, u) ==
    /\ begun[f].browser # NoBrowser
    /\ codes[<<f, u>>] = "unissued"
    /\ Cardinality(Issued) < MaxLogins
    /\ codes' = [codes EXCEPT ![<<f, u>>] = "live"]
    /\ reply' = Silent
    /\ UNCHANGED <<browserVars, appVars, requestVars, historyVars, now>>

Tick ==
    /\ now < MaxClock
    /\ now' = now + 1
    /\ reply' = Silent
    /\ UNCHANGED <<browserVars, appVars, requestVars, codes, historyVars>>

Next ==
    \/ \E r \in Requests :
          Login(r) \/ Callback(r) \/ Resume(r) \/ Fail(r) \/ ExchangeReturns(r) \/ ValidationReturns(r)
    \/ DiscoveryReturns
    \/ \E f \in Flows, u \in Users : ProviderLogin(f, u)
    \/ Tick

Spec == Init /\ [][Next]_vars
-----------------------------------------------------------------------------
(* Properties                                                              *)

Times == 0..MaxClock

\* Types; and the ids given out are those of one account each, in order.
TypeOK ==
    /\ jar \in [Browsers -> [flow : Flows \cup {NoFlow}, at : Times]]
    /\ session \in [Browsers -> 0..Cardinality(Users)]
    /\ users \in [Users -> 0..Cardinality(Users)]
    /\ {users[u] : u \in KnownUsers} = 1..Cardinality(KnownUsers)
    /\ discovery \in [at : Times, keys : BOOLEAN] \cup {Absent, Pending}
    /\ pc \in [Requests -> Running \cup {"idle"}]
    /\ call \in [Requests -> [browser : Browsers, flow : Flows \cup {NoFlow},
                              state : Flows \cup {NoState}, code : Codes \cup {MadeUp, NoCode},
                              keys : BOOLEAN] \cup {NoCall}]
    /\ reply \in [end : Ends, host : Hosts \cup {Home, Elsewhere}]
    /\ codes \in [Codes -> {"unissued", "live", "spent", "redeemed"}]
    /\ begun \in [Flows -> [browser : Browsers \cup {NoBrowser}, at : Times]]
    /\ dropped \in SUBSET Flows
    /\ now \in Times

\* A code is used up only in answer to a login begun in the very browser that
\* brings it: a callback link opened in a browser that did not begin the login
\* it names, or with a forged state, reaches nobody's code.
SpentForOwnLogin ==
    [][\A c \in Codes : codes[c] = "live" /\ codes'[c] # "live" =>
          \E r \in Requests :
             /\ pc[r] = "exchanging" /\ call[r].code = c
             /\ call[r].state \in Flows
             /\ begun[call[r].state].browser = call[r].browser]_vars

\* A browser is sent to the application itself or to an allowed host, as the
\* browser reads the destination, whatever the state carries.
LandsInside ==
    reply.host \in AllowedHosts \cup {Home}

\* A callback is refused for its state only if no login made that state, or
\* the login is another browser's, too old, or one the browser was told to
\* forget (an answered callback, or a newer login); for its code only if the
\* code is made up, used up, or another login's; and for its nonce only if the
\* code is another login's.  An outage of the discovery document in particular
\* leaves a genuine callback good for another try.
RefusedForCause ==
    [][\A r \in Requests :
          LET c == call[r]
              own == c.code \in Codes /\ c.code[1] = c.state
          IN  pc[r] # "idle" /\ pc'[r] = "idle" /\ c.code # NoCode =>
                  /\ reply'.end = "refused: state" =>
                        \/ c.state = NoState
                        \/ begun[c.state].browser # c.browser
                        \/ c.state \in dropped
                        \/ now - begun[c.state].at > FlowMaxAge
                  /\ reply'.end = "refused: code" => ~(own /\ codes[c.code] = "live")
                  /\ reply'.end = "refused: nonce" => ~own]_vars

\* The account behind a session
AccountOf(id) == CHOOSE u \in Users : users[u] = id

\* What the application promises of its logins: each signs in, once, the
\* browser it was begun for, as the account that logged in.
Promise == INSTANCE SignIn WITH
    Nobody <- 0,
    origin <- [f \in Flows |-> begun[f].browser],
    logins <- Issued,
    redeemed <- {c \in Codes : codes[c] = "redeemed"},
    session <- [b \in Browsers |-> IF session[b] = 0 THEN 0 ELSE AccountOf(session[b])]

SignsInAsPromised == Promise!Spec
=============================================================================
