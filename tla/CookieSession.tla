---------------------------- MODULE CookieSession -----------------------------
(***************************************************************************)
(* Signed cookie sessions (sources/cookie.py): the server keeps no session *)
(* but the rows of the "sign out everywhere" recipe, and tells from the    *)
(* cookie alone who set it, when, and how strongly the user had logged in. *)
(* Cookies outlive the processes that set them: the secret keys rotate,    *)
(* session ids are turned on and off, and a browser keeps every cookie it  *)
(* was ever sent.                                                          *)
(*                                                                         *)
(* A request is suspended while a dependency's validator runs, and between *)
(* its dependencies and its handler.                                       *)
(***************************************************************************)
EXTENDS Integers, Sequences, FiniteSets, SequencesExt

CONSTANTS
    Requests,      \* the requests in flight
    Names,         \* the cookie names, as their dot-separated parts, each read by a source of its own
    Session,       \* the one whose ids have rows; the others have no ids
    Values,        \* what is stored in a cookie, as its dot-separated parts
    Levels,        \* the levels a login is made at
    Logins,        \* the names and levels of the cookies a login sets
    Strong,        \* the level of a second factor
    NoLevel,       \* a cookie set without acr
    SessionIds,    \* what secrets.token_urlsafe() draws
    Nothing,       \* an empty part, an absent cookie, call or instant
    KeyOrder,      \* the secret keys in the order they come into use
    Earlier,       \* the cookies an earlier release has set
    Calls,         \* what each request may be: its guards, handler and sender
    Own,           \* the program's origin, a scheme and a host
    Typed,         \* no page: the address was typed
    Trusted,       \* trusted_origins
    Ttl,           \* ttl
    MaxAge,        \* the window of fresh() and ensure_fresh()
    MaxCookies,    \* bound on the cookies set
    MaxClock       \* bound on the clock

ASSUME TtlAssumption == Ttl \in Nat \ {0} /\ MaxAge \in Nat \ {0} /\ MaxClock \in Nat
ASSUME NamesAssumption ==
    /\ Session \in Names /\ \A n \in Names : n \in Seq(Range(n))
    /\ KeyOrder \in Seq(Range(KeyOrder)) /\ KeyOrder # <<>>
    /\ Nothing \notin Names \cup SessionIds
ASSUME LevelsAssumption == {Strong, NoLevel} \subseteq Levels /\ Logins \subseteq Names \X Levels
ASSUME ValuesAssumption == \A value \in Values : value \in Seq(Range(value))

\* An earlier release put no version at the end of its salts, and gave no ids.
ASSUME EarlierAssumption ==
    \A c \in Earlier :
        /\ Last(c.salt) # "v2" /\ c.at \in Int /\ c.at <= 0 /\ c.key \in Range(KeyOrder)
        /\ c.by.name \in Names /\ c.by.sid = Nothing

Guards == [name : Names, fresh : BOOLEAN, levels : SUBSET Levels]

\* A handler that reads the session depends on it; only browsers show pages,
\* what is typed in one is a GET, and a proxy's name for the program is of no page.
ASSUME CallsAssumption ==
    \A r \in Requests : \A c \in Calls[r] :
        /\ c.guards \in Seq(Guards) /\ c.guards # <<>>
        /\ c.handler \in {"step_up", "revoke_others"} =>
              \E i \in DOMAIN c.guards : c.guards[i].name = Session
        /\ c.sender.browser \in {"recent", "older", "script"} /\ c.sender.hostKept \in BOOLEAN
        /\ c.sender.browser = "script" => c.sender.page \notin {Own, Typed} \cup Trusted
        /\ c.sender.page = Typed => c.sender.method = "GET"
        /\ c.sender.page.host # "proxied"
ASSUME OriginsAssumption ==
    /\ Nothing \notin Trusted \cup {Own}
    /\ Nothing \notin {"same-origin", "same-site", "cross-site", "none"}
    /\ Own # Typed /\ Own.host # "proxied"

VARIABLES
    keys,          \* secret_key: the first signs, all verify
    rotatedAt,     \* when its first key was put in front
    layout,        \* session_id of each source
    issued,        \* every cookie ever set
    sessions,      \* SESSIONS, with the login each session comes from
    signedOut,     \* history: the logins that were logged out or revoked
    pc,            \* where each request is suspended
    call,          \* its route and sender
    jar,           \* the cookie it carries under each name
    step,          \* the dependency that runs
    opened,        \* request.scope[_OPENED], by the name of its source
    records,       \* request.scope[_AUTHENTICATED], by the names of the sources
    now            \* the clock

deployVars  == <<keys, rotatedAt, layout>>
storeVars   == <<issued, sessions, signedOut>>
requestVars == <<pc, call, jar, step, opened, records>>
vars == <<deployVars, storeVars, requestVars, now>>
-----------------------------------------------------------------------------
(* Signing and verifying                                                   *)

\* Mutant of Ring: the keys as they were configured.
RingAsConfigured == keys

\* itsdangerous signs with the last key and verifies with all of them.
Ring == Reverse(keys)

\* Mutant of Salt: one salt for both layouts.
SaltOfName(n) == n \o <<"v2">>

\* Mutant of Salt: the salt of the earlier releases.
SaltUnversioned(n) == n \o (IF layout[n] THEN <<"sid">> ELSE <<>>)

\* The salt is one string: the name, the layout and the release, between dots.
SaltOf(n, ids) == n \o (IF ids THEN <<"sid">> ELSE <<>>) \o <<"v2">>
Salt(n)        == SaltOf(n, layout[n])

\* It separates names and layouts only if no name is the session's with `.sid`.
NamesApart == Session \o <<"sid">> \notin Names

\* A payload is the level, the session id and the value, joined by dots;
\* partition(".") splits it again.
First(parts) == IF parts = <<>> THEN Nothing ELSE Head(parts)
Rest(parts)  == IF parts = <<>> THEN <<>> ELSE Tail(parts)

\* What set_cookie makes of a value: `by` is kept for the properties only.
Cookie(n, value, acr, sid, login) ==
    [salt  |-> Salt(n), key |-> Last(Ring), at |-> now,
     parts |-> <<acr>> \o (IF layout[n] THEN <<sid>> ELSE <<>>) \o value,
     by    |-> [name |-> n, acr |-> acr, sid |-> sid, value |-> value, login |-> login]]

\* Mutant of Expired: a cookie dies at ttl, not after it.
ExpiredAtTtl(c) == now - c.at >= Ttl

Expired(c) == now - c.at > Ttl

Signed(c, n)   == c.salt = Salt(n) /\ \E i \in DOMAIN Ring : Ring[i] = c.key
Verifies(c, n) == Signed(c, n) /\ ~Expired(c)

\* What the layout of source n reads in a cookie
LevelIn(c)        == First(c.parts)
PlainIn(c)        == Rest(c.parts)
SessionIdIn(c, n) == IF layout[n] THEN First(PlainIn(c)) ELSE Nothing
ValueIn(c, n)     == IF layout[n] THEN Rest(PlainIn(c)) ELSE PlainIn(c)
-----------------------------------------------------------------------------
(* The origin of a request                                                 *)

\* Mutant of Safe: a handshake is a GET.
SafeOrHandshake(sender) == sender.method \in {"GET", "websocket"}

Safe(sender) == sender.method = "GET"

\* What browsers say of the page that sends a request: since 2020 they tell
\* its site, before they only told its origin; a script tells nothing.
FetchSite(sender) ==
    IF sender.browser # "recent" THEN Nothing
    ELSE IF sender.page = Own THEN "same-origin"
    ELSE IF sender.page = Typed THEN "none"
    ELSE IF sender.page.host = "sibling" THEN "same-site" ELSE "cross-site"
Origin(sender) == IF sender.browser = "script" \/ sender.page = Typed THEN Nothing ELSE sender.page
Host(sender)   == IF sender.hostKept THEN Own.host ELSE "proxied"

\* The scheme of an origin is dropped before it is compared with the host.
OriginIsHost(sender) == Origin(sender) # Nothing /\ Origin(sender).host = Host(sender)

\* Mutant of SameOrigin: a request that does not tell its site is let through.
SameOriginOrUntold(sender) ==
    \/ FetchSite(sender) \in {"same-origin", "none", Nothing}
    \/ Origin(sender) \in Trusted

SameOrigin(sender) ==
    \/ FetchSite(sender) \in {"same-origin", "none"}
    \/ Origin(sender) \in Trusted
    \/ FetchSite(sender) = Nothing /\ OriginIsHost(sender)

CheckOrigin(sender) == Safe(sender) \/ SameOrigin(sender)
-----------------------------------------------------------------------------
(* Setting cookies                                                         *)

Drawn == {c.by.sid : c \in issued}

\* Mutant of NewIds: no id is drawn.
NoNewIds(n) == {Nothing}

NewIds(n) == IF layout[n] THEN SessionIds \ Drawn ELSE {Nothing}

Issue(n, value, acr, sid, login) ==
    /\ Cardinality(issued \ Earlier) < MaxCookies
    /\ issued' = issued \cup {Cookie(n, value, acr, sid, login)}

\* start_session: the row kept under a new session's id, its login the id itself
NewRow(n, value, sid) ==
    IF n = Session /\ layout[n] THEN {[sid |-> sid, user |-> value, login |-> sid]} ELSE {}

Init ==
    /\ keys = <<Head(KeyOrder)>>
    /\ rotatedAt = 0
    /\ layout \in {[n \in Names |-> n = Session /\ on] : on \in BOOLEAN}
    /\ issued = Earlier
    /\ sessions = {}
    /\ signedOut = {}
    /\ pc = [r \in Requests |-> "idle"]
    /\ call = [r \in Requests |-> Nothing]
    /\ jar = [r \in Requests |-> [n \in Names |-> Nothing]]
    /\ step = [r \in Requests |-> 1]
    /\ opened = [r \in Requests |-> Nothing]
    /\ records = [r \in Requests |-> {}]
    /\ now = 0

\* POST /login: it takes no credential, and does not await once it set the cookie.
Login ==
    /\ \E login \in Logins, value \in Values : \E sid \in NewIds(login[1]) :
           /\ Issue(login[1], value, login[2], sid, sid)
           /\ sessions' = sessions \cup NewRow(login[1], value, sid)
    /\ UNCHANGED <<deployVars, signedOut, requestVars, now>>
-----------------------------------------------------------------------------
(* The dependencies of a request                                           *)

Guard(r) == call[r].guards[step[r]]

\* The request is answered, or refused.
Answer(r) ==
    /\ pc' = [pc EXCEPT ![r] = "idle"]
    /\ call' = [call EXCEPT ![r] = Nothing]
    /\ jar' = [jar EXCEPT ![r] = [n \in Names |-> Nothing]]
    /\ step' = [step EXCEPT ![r] = 1]
    /\ opened' = [opened EXCEPT ![r] = Nothing]
    /\ records' = [records EXCEPT ![r] = {}]
Refuse(r) == Answer(r)

\* A client sends any of the cookies it was ever given, under any name.
Arrive(r) ==
    /\ pc[r] = "idle"
    /\ \E c \in Calls[r] : \E cookies \in [Names -> issued \cup {Nothing}] :
           /\ \A n \in Names : cookies[n] # Nothing => \E i \in DOMAIN c.guards : c.guards[i].name = n
           /\ call' = [call EXCEPT ![r] = c]
           /\ jar' = [jar EXCEPT ![r] = cookies]
           /\ pc' = [pc EXCEPT ![r] = "opening"]
    /\ UNCHANGED <<deployVars, storeVars, step, opened, records, now>>

\* A source extracts its cookie and opens it: signature, age, then origin.
Open(r) ==
    /\ pc[r] = "opening"
    /\ LET n == Guard(r).name
           c == jar[r][n]
           admitted == c # Nothing /\ Signed(c, n) /\ ~Expired(c) /\ CheckOrigin(call[r].sender)
       IN  \/ ~admitted /\ Refuse(r)
           \/ /\ admitted
              /\ opened' = [opened EXCEPT ![r] = n]
              /\ pc' = [pc EXCEPT ![r] = "validating"]
              /\ UNCHANGED <<call, jar, step, records>>
    /\ UNCHANGED <<deployVars, storeVars, now>>

\* Mutant of OpenedFor: whichever cookie the request opened last.
OpenedForAny(r, n) == opened[r]

\* Mutant of OpenedFor: nothing is kept.
OpenedForNone(r, n) == Nothing

\* The source whose opened cookie n may read, if any
OpenedFor(r, n) == IF opened[r] = n THEN n ELSE Nothing

\* When the cookie of n was set, and its level: read again if it was not kept
CredentialAuthenticatedAt(r, n) ==
    IF OpenedFor(r, n) # Nothing THEN jar[r][OpenedFor(r, n)].at
    ELSE IF Verifies(jar[r][n], n) THEN jar[r][n].at ELSE Nothing
CredentialAcr(r, n) ==
    IF OpenedFor(r, n) # Nothing THEN LevelIn(jar[r][OpenedFor(r, n)])
    ELSE IF Verifies(jar[r][n], n) THEN LevelIn(jar[r][n]) ELSE NoLevel

Fresh(r, n) ==
    /\ CredentialAuthenticatedAt(r, n) # Nothing
    /\ now - CredentialAuthenticatedAt(r, n) <= MaxAge

\* Mutant of Valid: the validator does not look for the row.
ValidUnlooked(sid, n) == TRUE

\* The validator of the recipe
Valid(sid, n) == n = Session /\ layout[n] => \E row \in sessions : row.sid = sid

\* The validator answers; the guards of the copy follow without a pause.
Validate(r) ==
    /\ pc[r] = "validating"
    /\ LET g == Guard(r)
           valid == Valid(SessionIdIn(jar[r][g.name], g.name), g.name)
           fresh == g.fresh => Fresh(r, g.name)
           enough == g.levels # {} => CredentialAcr(r, g.name) \in g.levels
           admitted == valid /\ fresh /\ enough
       IN  \/ ~admitted /\ Refuse(r)
           \/ /\ admitted
              /\ records' = [records EXCEPT ![r] = @ \cup {g.name}]
              /\ IF step[r] < Len(call[r].guards)
                 THEN /\ step' = [step EXCEPT ![r] = @ + 1]
                      /\ pc' = [pc EXCEPT ![r] = "opening"]
                 ELSE /\ pc' = [pc EXCEPT ![r] = "handling"]
                      /\ UNCHANGED step
              /\ UNCHANGED <<call, jar, opened>>
    /\ UNCHANGED <<deployVars, storeVars, now>>
-----------------------------------------------------------------------------
(* The handlers                                                            *)

\* session_id_of: read again from the cookie, which may have expired meanwhile
VerifiedId(c)  == IF Verifies(c, Session) THEN SessionIdIn(c, Session) ELSE Nothing
SessionIdOf(r) == VerifiedId(jar[r][Session])

User(r) == ValueIn(jar[r][Session], Session)

Handling(r, handler) == pc[r] = "handling" /\ call[r].handler = handler

\* A handler that acts for the user
Act(r) ==
    /\ Handling(r, "act")
    /\ Answer(r)
    /\ UNCHANGED <<deployVars, storeVars, now>>

\* ensure_fresh() on one of the sources the request came through
EnsureFresh(r) ==
    /\ Handling(r, "ensure_fresh")
    /\ \E n \in records[r] :
           \/ Fresh(r, n) /\ Answer(r)
           \/ ~Fresh(r, n) /\ Refuse(r)
    /\ UNCHANGED <<deployVars, storeVars, now>>

OwnRows(sid) == {row \in sessions : row.sid = sid}

\* Mutant of Moved: a row that is gone is written again.
MovedAnyway(r, new) ==
    (sessions \ OwnRows(SessionIdOf(r))) \cup
        (IF SessionIdOf(r) # Nothing THEN {[sid |-> new, user |-> User(r), login |-> jar[r][Session].by.login]} ELSE {})

\* The program moves its stored session to the new id, if it is still there.
Moved(r, new) ==
    (sessions \ OwnRows(SessionIdOf(r))) \cup
        {[row EXCEPT !.sid = new] : row \in OwnRows(SessionIdOf(r))}

\* The second factor was given: the cookie is set again, at a higher level.
StepUp(r) ==
    /\ Handling(r, "step_up")
    /\ \E new \in NewIds(Session) :
           /\ Issue(Session, User(r), Strong, new, jar[r][Session].by.login)
           /\ sessions' = Moved(r, new)
    /\ Answer(r)
    /\ UNCHANGED <<deployVars, signedOut, now>>

\* The sessions POST /sessions/revoke-others deletes
Others(r) == {row \in sessions : row.user = User(r) /\ row.sid # SessionIdOf(r)}

RevokeOthers(r) ==
    /\ Handling(r, "revoke_others")
    /\ sessions' = sessions \ Others(r)
    /\ signedOut' = signedOut \cup {row.login : row \in Others(r)}
    /\ Answer(r)
    /\ UNCHANGED <<deployVars, issued, now>>

\* POST /logout: it takes no credential either, and reads the id of whichever
\* cookie the request carries.
Logout ==
    /\ \E c \in issued :
           /\ sessions' = sessions \ OwnRows(VerifiedId(c))
           /\ signedOut' = signedOut \cup {row.login : row \in OwnRows(VerifiedId(c))}
    /\ UNCHANGED <<deployVars, issued, requestVars, now>>
-----------------------------------------------------------------------------
(* Deployments: the requests in flight are answered first                  *)

Drained == \A r \in Requests : pc[r] = "idle"

\* A new key is put in front.
AddKey ==
    /\ Drained /\ Len(keys) = 1
    /\ \E i \in 1..(Len(KeyOrder) - 1) :
           KeyOrder[i] = Head(keys) /\ keys' = <<KeyOrder[i + 1]>> \o keys
    /\ rotatedAt' = now
    /\ UNCHANGED <<layout, storeVars, requestVars, now>>

\* The old one is removed once a ttl has passed.
RemoveKey ==
    /\ Drained /\ Len(keys) > 1
    /\ now - rotatedAt >= Ttl
    /\ keys' = <<Head(keys)>>
    /\ UNCHANGED <<rotatedAt, layout, storeVars, requestVars, now>>

\* session_id is turned on or off.
TurnSessionIds ==
    /\ Drained
    /\ layout' = [layout EXCEPT ![Session] = ~@]
    /\ UNCHANGED <<keys, rotatedAt, storeVars, requestVars, now>>

Tick ==
    /\ now < MaxClock
    /\ now' = now + 1
    /\ UNCHANGED <<deployVars, storeVars, requestVars>>

Next ==
    \/ Login \/ Logout \/ AddKey \/ RemoveKey \/ TurnSessionIds \/ Tick
    \/ \E r \in Requests :
           \/ Arrive(r) \/ Open(r) \/ Validate(r)
           \/ Act(r) \/ EnsureFresh(r) \/ StepUp(r) \/ RevokeOthers(r)

Spec == Init /\ [][Next]_vars
-----------------------------------------------------------------------------
(* Types: a row has the id of a cookie that was set, and a login has one row. *)
TypeOK ==
    /\ keys \in Seq(Range(KeyOrder)) /\ keys # <<>>
    /\ rotatedAt \in 0..now /\ now \in 0..MaxClock
    /\ layout \in [Names -> BOOLEAN]
    /\ \A c \in issued : c.at <= now /\ c.key \in Range(KeyOrder) /\ c.by.name \in Names
    /\ \A row \in sessions : row.sid \in SessionIds /\ row.sid \in Drawn /\ row.user \in Values
    /\ \A row, other \in sessions : row.login = other.login => row = other
    /\ signedOut \subseteq SessionIds
    /\ pc \in [Requests -> {"idle", "opening", "validating", "handling"}]
    /\ \A r \in Requests : call[r] \in Calls[r] \cup {Nothing}
    /\ jar \in [Requests -> [Names -> issued \cup {Nothing}]]
    /\ step \in [Requests -> Nat \ {0}]
    /\ opened \in [Requests -> Names \cup {Nothing}]
    /\ records \in [Requests -> SUBSET Names]

\* Every cookie a request was let through with, or waits for its validator with
Accepted(r) == records[r] \cup (IF pc[r] = "validating" THEN {Guard(r).name} ELSE {})

(* What the validator, the guards and the handler read in a cookie is what *)
(* one set_cookie() of the same source wrote in it, although cookies of    *)
(* other names, layouts and releases are signed with the same key, and the *)
(* cookie may expire while its validator runs: only a cookie that the      *)
(* request has not at hand is then undated (APIKeyCookieAuth._opened_for). *)
(* The names must be apart: see BoundToItsName.                            *)
ReadAsWritten ==
    \A r \in Requests : \A n \in Accepted(r) :
        LET c == jar[r][n]
            lost == opened[r] # n /\ Expired(c)
        IN  /\ c.by.name = n
            /\ SessionIdIn(c, n) = c.by.sid /\ ValueIn(c, n) = c.by.value
            /\ CredentialAcr(r, n) = IF lost THEN NoLevel ELSE c.by.acr
            /\ CredentialAuthenticatedAt(r, n) = IF lost THEN Nothing ELSE c.at

(* A cookie lives for the whole of its ttl: the source that set it refuses *)
(* it only once it is older, or, if its key was removed at that very       *)
(* instant, as old; through every rotation that follows the guide, and     *)
(* even if session ids were off in between (__init__, _open).              *)
LivesItsTtl ==
    [][\A r \in Requests :
           pc[r] = "opening" /\ pc'[r] = "idle" =>
               LET n == Guard(r).name
                   c == jar[r][n]
               IN  c # Nothing /\ CheckOrigin(call[r].sender) /\ c.salt = Salt(n) =>
                       /\ now - c.at >= Ttl
                       /\ c.key \in Range(keys) => now - c.at > Ttl]_vars

(* Once a session is logged out or revoked, no cookie of the same login is *)
(* let through again, not even one that a request of the session, already  *)
(* under way, was about to set at a higher level.                          *)
SignedOutStaysOut ==
    [][\A r \in Requests :
           pc[r] = "validating" /\ pc'[r] \in {"opening", "handling"} =>
               jar[r][Guard(r).name].by.login \notin signedOut]_vars

Foreign(sender)  == sender.page \notin {Own, Typed} \cup Trusted
SameHost(sender) == sender.browser = "older" /\ sender.page.host = Own.host

(* A page of another origin never acts with the user's cookie, unless its  *)
(* browser does not tell the site and it is of the same host, under        *)
(* another scheme; and a page of the program's own is heard, unless its    *)
(* browser is such a one and a proxy hides the host it asked for           *)
(* (APIKeyCookieAuth._check_origin, _origin_host).                         *)
OriginJudged ==
    [][\A r \in Requests :
           LET sender == call[r].sender
               c == jar[r][Guard(r).name]
           IN  pc[r] = "opening" =>
                   /\ pc'[r] = "validating" =>
                          sender.method = "GET" \/ ~Foreign(sender) \/ SameHost(sender)
                   /\ pc'[r] = "idle" /\ c # Nothing /\ Verifies(c, Guard(r).name) =>
                          \/ Foreign(sender)
                          \/ sender.browser = "older" /\ ~sender.hostKept]_vars

(* What docs/security-model.md promises: a cookie signed for one cookie    *)
(* name is never accepted under another.                                   *)
BoundToItsName ==
    \A r \in Requests : \A n \in Accepted(r) : jar[r][n].by.name = n
=============================================================================
