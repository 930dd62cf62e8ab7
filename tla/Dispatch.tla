------------------------------- MODULE Dispatch -------------------------------
(***************************************************************************)
(* A guarded route: the program derives its guard from sources with        *)
(* `optional()`, `fresh()`, `stepped_up()` and `MultiAuth` (abc.py,        *)
(* sources/multi.py), then a request passes through the guard, and its     *)
(* handler may ask `ensure_fresh()` of what the guard recorded.            *)
(*                                                                         *)
(* Every builder returns a copy, so a guard is a value.  A request is      *)
(* suspended while its credential is validated and while the instant and   *)
(* the level it was proven at are read.                                    *)
(***************************************************************************)
EXTENDS Integers, Sequences

CONSTANTS
    Lineages,      \* the sources, each with its copies
    Dates,         \* those that date their own credentials
    Levels,        \* those that read the level of their own credentials
    Scoped,        \* those whose validator checks scopes
    Catalogue,     \* the scopes each source publishes, or NoCatalogue
    NoCatalogue,
    Credentials,   \* what a request may carry for a source
    NoCredential,
    Windows,       \* the arguments of fresh(): maxAge, leeway, reader
    NoWindow,
    Assurances,    \* the arguments of stepped_up(): values, reader
    NoAssurance,
    Orders,        \* the orders of sources a MultiAuth may be given
    ScopeSets,     \* the scopes a route may declare
    NoGuard,       \* the guard is not built yet
    NoInstant,     \* a credential whose instant cannot be told
    NoChallenge,   \* no step-up challenge was sent yet
    Second,        \* the instants of a second
    MaxBuilds,     \* bound on the builders called
    MaxClock       \* bound on the clock

ASSUME KindsAssumption ==
    /\ Dates \subseteq Lineages /\ Levels \subseteq Lineages /\ Scoped \subseteq Lineages
    /\ MaxBuilds \in Nat /\ MaxClock \in Nat
    /\ Orders \subseteq Seq(Lineages)
ASSUME WindowsAssumption ==
    /\ Second \in Nat \ {0}
    /\ \A w \in Windows : w.maxAge \in Nat \ {0} /\ w.leeway \in Nat /\ w.reader \in BOOLEAN
ASSUME CredentialsAssumption ==
    \A c \in Credentials : c.signed \in Int \cup {NoInstant} /\ c.claimed \in Int \cup {NoInstant}
ASSUME NamesAssumption ==
    /\ NoWindow \notin Windows /\ NoAssurance \notin Assurances
    /\ Windows \cap Assurances = {}

VARIABLES
    copies,        \* the copy of each source the program holds
    guard,         \* the guard of the route, or NoGuard
    builds,        \* how many builders were called
    asked,         \* history: what was asked of each source's copy
    pc,            \* where the request is suspended
    sent,          \* the credential it carries for each source
    scopes,        \* the scopes its route declares
    decider,       \* the copy that authenticates it
    records,       \* request.scope[_AUTHENTICATED], by lineage
    reply,         \* how the guard or the handler answered
    challenge,     \* history: the last step-up challenge its client was sent
    now            \* the clock

buildVars   == <<copies, guard, builds, asked>>
requestVars == <<pc, sent, scopes, decider, records, reply, challenge>>
vars == <<buildVars, requestVars, now>>

Copy(l) == [lineage |-> l, optional |-> FALSE, window |-> NoWindow, assurance |-> NoAssurance]

Copies == [lineage : Lineages, optional : BOOLEAN,
           window : Windows \cup {NoWindow}, assurance : Assurances \cup {NoAssurance}]
Guards == [multi : BOOLEAN, members : Seq(Copies), optional : BOOLEAN]
ASSUME GuardsAssumption == NoGuard \notin Guards

StepUpStatuses == {"stale", "insufficient"}
Statuses == StepUpStatuses \cup
    {"none", "accepted", "anonymous", "missing", "refused", "misconfigured", "confirmed", "wiring"}

\* Of a window a challenge tells its max_age, of an assurance its values.
Challenges == [from : {"guard", "handler"}, source : Lineages,
               window : Windows \cup {NoWindow}, assurance : Assurances \cup {NoAssurance}]
ASSUME ChallengesAssumption == NoChallenge \notin Challenges
-----------------------------------------------------------------------------
Init ==
    /\ copies = [l \in Lineages |-> Copy(l)]
    /\ guard = NoGuard
    /\ builds = 0
    /\ asked = [l \in Lineages |-> {}]
    /\ pc = "idle"
    /\ sent = [l \in Lineages |-> NoCredential]
    /\ scopes = {}
    /\ decider = NoGuard
    /\ records = [l \in Lineages |-> NoCredential]
    /\ reply = "none"
    /\ challenge = NoChallenge
    /\ now = 0

\* _step_up_optional_guard
Guarded(c) == c.window # NoWindow \/ c.assurance # NoAssurance

\* Mutant of Fresh: a copy is made whatever is in it.
FreshAnyway(c, w) == w.reader \/ c.lineage \in Dates

\* AuthSource.fresh: whether c accepts the window
Fresh(c, w) ==
    /\ ~c.optional
    /\ c.window = NoWindow
    /\ w.reader \/ c.lineage \in Dates

\* AuthSource.stepped_up: whether c accepts the levels
SteppedUp(c, a) ==
    /\ ~c.optional
    /\ c.assurance = NoAssurance
    /\ a.reader \/ c.lineage \in Levels

\* Mutant of EachGuarded: only some sources of a MultiAuth may be guarded.
EachGuardedOrNot(members) == TRUE

\* MultiAuth.__init__: all of its sources have a guard of one kind, or none.
EachGuarded(members) ==
    \A i, k \in DOMAIN members :
        /\ members[i].window = NoWindow <=> members[k].window = NoWindow
        /\ members[i].assurance = NoAssurance <=> members[k].assurance = NoAssurance

Members == [i \in DOMAIN guard.members |-> guard.members[i].lineage]
MemberSet == {Members[i] : i \in DOMAIN guard.members}
-----------------------------------------------------------------------------
(* Building the guard of the route                                         *)

Build ==
    /\ pc = "idle" /\ builds < MaxBuilds
    /\ builds' = builds + 1
    /\ UNCHANGED <<requestVars, now>>

Ask(ls, requirement) ==
    asked' = [l \in Lineages |-> IF l \in ls THEN asked[l] \cup {requirement} ELSE asked[l]]

\* A builder on a source; `optional()` refuses a guarded copy.
BuildSource(l) ==
    /\ Build
    /\ guard = NoGuard
    /\ \/ \E w \in Windows :
             /\ Fresh(copies[l], w)
             /\ copies' = [copies EXCEPT ![l].window = w]
             /\ Ask({l}, w)
       \/ \E a \in Assurances :
             /\ SteppedUp(copies[l], a)
             /\ copies' = [copies EXCEPT ![l].assurance = a]
             /\ Ask({l}, a)
       \/ /\ ~Guarded(copies[l])
          /\ copies' = [copies EXCEPT ![l].optional = TRUE]
          /\ UNCHANGED asked
    /\ UNCHANGED guard

\* The route takes a source itself.
UseSource(l) ==
    /\ guard = NoGuard
    /\ guard' = [multi |-> FALSE, members |-> <<copies[l]>>, optional |-> copies[l].optional]
    /\ UNCHANGED <<copies, builds, asked, requestVars, now>>

\* MultiAuth(*sources)
Combine(order) ==
    LET members == [i \in DOMAIN order |-> copies[order[i]]]
    IN  /\ guard = NoGuard
        /\ EachGuarded(members)
        /\ guard' = [multi |-> TRUE, members |-> members, optional |-> FALSE]
        /\ UNCHANGED <<copies, builds, asked, requestVars, now>>

\* A builder on the MultiAuth, which applies it to every source
BuildMulti ==
    /\ Build
    /\ guard # NoGuard /\ guard.multi
    /\ \/ \E w \in Windows :
             /\ ~guard.optional
             /\ \A i \in DOMAIN guard.members : Fresh(guard.members[i], w)
             /\ guard' = [guard EXCEPT !.members =
                             [i \in DOMAIN @ |-> [@[i] EXCEPT !.window = w]]]
             /\ Ask(MemberSet, w)
       \/ \E a \in Assurances :
             /\ ~guard.optional
             /\ \A i \in DOMAIN guard.members : SteppedUp(guard.members[i], a)
             /\ guard' = [guard EXCEPT !.members =
                             [i \in DOMAIN @ |-> [@[i] EXCEPT !.assurance = a]]]
             /\ Ask(MemberSet, a)
       \/ /\ \A i \in DOMAIN guard.members : ~Guarded(guard.members[i])
          /\ guard' = [guard EXCEPT !.optional = TRUE]
          /\ UNCHANGED asked
    /\ UNCHANGED copies
-----------------------------------------------------------------------------
(* A request passes the guard.                                             *)

\* _is_fresh: by the window's reader, or by the source's own dating
Instant(w, c) == IF w.reader THEN c.claimed ELSE c.signed

IsFresh(w, c, time) ==
    LET age == time - Instant(w, c)
    IN  /\ Instant(w, c) # NoInstant
        /\ -w.leeway <= age /\ age <= w.maxAge + w.leeway

Achieved(a, c) == IF a.reader THEN c.claimedLevel ELSE c.level

Arrive ==
    /\ pc = "idle"
    /\ guard # NoGuard
    /\ pc' = "arrived"
    /\ \E carried \in [Lineages -> Credentials \cup {NoCredential}], ss \in ScopeSets :
          sent' = carried /\ scopes' = ss
    /\ UNCHANGED <<buildVars, decider, records, reply, challenge, now>>

Reply(status) ==
    /\ pc' = "done"
    /\ reply' = status
    /\ UNCHANGED <<buildVars, sent, scopes, decider, records, now>>

Answer(status) == Reply(status) /\ UNCHANGED challenge

Published(c) == Catalogue[c.lineage] = NoCatalogue \/ scopes \subseteq Catalogue[c.lineage]

\* Mutant of Misconfigured: the combination leaves scopes to its sources.
MisconfiguredUnlessPublished ==
    /\ scopes # {}
    /\ guard.optional \/ \E i \in DOMAIN guard.members : ~Published(guard.members[i])

\* dispatch refuses the route itself: scopes that an anonymous caller, that
\* no catalogue or that not every source of a MultiAuth could satisfy
Misconfigured ==
    /\ scopes # {}
    /\ \/ guard.optional
       \/ \E i \in DOMAIN guard.members : ~Published(guard.members[i])
       \/ guard.multi /\ \E i \in DOMAIN guard.members : guard.members[i].lineage \notin Scoped

\* dispatch of a request without a credential for the guard
WithoutCredential ==
    \/ /\ guard.optional
       /\ pc' = "handling"
       /\ reply' = "anonymous"
       /\ UNCHANGED <<buildVars, sent, scopes, decider, records, challenge, now>>
    \/ ~guard.optional /\ Answer("missing")

\* dispatch: the first source that finds a credential decides.
Dispatch ==
    LET carries == {i \in DOMAIN guard.members : sent[guard.members[i].lineage] # NoCredential}
    IN  /\ pc = "arrived"
        /\ \/ Misconfigured /\ Answer("misconfigured")
           \/ ~Misconfigured /\ carries = {} /\ WithoutCredential
           \/ /\ ~Misconfigured
              /\ \E i \in carries :
                    /\ \A k \in carries : i <= k
                    /\ decider' = guard.members[i]
              /\ pc' = "validating"
              /\ UNCHANGED <<buildVars, sent, scopes, records, reply, challenge, now>>

Presented == sent[decider.lineage]

\* A source that does not override authenticate_scoped cannot check scopes.
CannotCheckScopes == scopes # {} /\ decider.lineage \notin Scoped

\* The validator returns, or the source refuses to call it.
Validated ==
    /\ pc = "validating"
    /\ \/ CannotCheckScopes /\ Answer("misconfigured")
       \/ /\ ~CannotCheckScopes
          /\ ~Presented.valid \/ ~(scopes \subseteq Presented.scopes)
          /\ Answer("refused")
       \/ /\ ~CannotCheckScopes
          /\ Presented.valid /\ scopes \subseteq Presented.scopes
          /\ pc' = "dating"
          /\ UNCHANGED <<buildVars, sent, scopes, decider, records, reply, challenge, now>>

\* _challenge_error
Challenge(from, w, a) ==
    [from |-> from, source |-> decider.lineage, window |-> w, assurance |-> a]

\* Mutant of StepUpError: the challenge names what failed only.
StepUpErrorOnly(status) ==
    /\ Reply(status)
    /\ challenge' = IF status = "stale"
                    THEN Challenge("guard", decider.window, NoAssurance)
                    ELSE Challenge("guard", NoWindow, decider.assurance)

\* _step_up_error: its challenge lists every requirement of the copy.
StepUpError(status) ==
    /\ Reply(status)
    /\ challenge' = Challenge("guard", decider.window, decider.assurance)

\* _enforce_step_up, the freshness
Dated ==
    /\ pc = "dating"
    /\ \/ /\ decider.window # NoWindow /\ ~IsFresh(decider.window, Presented, now)
          /\ StepUpError("stale")
       \/ /\ decider.window # NoWindow => IsFresh(decider.window, Presented, now)
          /\ pc' = "levelling"
          /\ UNCHANGED <<buildVars, sent, scopes, decider, records, reply, challenge, now>>

\* _enforce_step_up, the level, then the record of the authentication
Levelled ==
    /\ pc = "levelling"
    /\ \/ /\ decider.assurance # NoAssurance
          /\ Achieved(decider.assurance, Presented) \notin decider.assurance.values
          /\ StepUpError("insufficient")
       \/ /\ decider.assurance # NoAssurance =>
                Achieved(decider.assurance, Presented) \in decider.assurance.values
          /\ pc' = "handling"
          /\ records' = [records EXCEPT ![decider.lineage] = Presented]
          /\ reply' = "accepted"
          /\ UNCHANGED <<buildVars, sent, scopes, decider, challenge, now>>
-----------------------------------------------------------------------------
(* The handler asks for a recent login.                                    *)

\* Mutant of CheckRecord: its challenge forgets the levels of the guard.
CheckRecordAlone(l, w) ==
    \/ IsFresh(w, records[l], now) /\ Answer("confirmed")
    \/ /\ ~IsFresh(w, records[l], now)
       /\ Reply("stale")
       /\ challenge' = Challenge("handler", w, NoAssurance)

\* _check_record: the window is the handler's, the levels the guard's.
CheckRecord(l, w) ==
    \/ IsFresh(w, records[l], now) /\ Answer("confirmed")
    \/ /\ ~IsFresh(w, records[l], now)
       /\ Reply("stale")
       /\ challenge' = Challenge("handler", w, decider.assurance)

\* AuthSource.ensure_fresh, of a source or of any copy of it
EnsureFresh(l, w) ==
    /\ pc = "handling"
    /\ w.reader \/ l \in Dates
    /\ \/ records[l] # NoCredential /\ CheckRecord(l, w)
       \/ records[l] = NoCredential /\ sent[l] # NoCredential /\ Answer("wiring")
       \/ records[l] = NoCredential /\ sent[l] = NoCredential /\ Answer("missing")

\* Mutant of EnsureFreshMulti: it asks the first source, not the one recorded.
EnsureFreshFirst(w) ==
    /\ pc = "handling" /\ guard.multi
    /\ w.reader \/ MemberSet \subseteq Dates
    /\ \E i \in DOMAIN Members : i = 1 /\ EnsureFresh(Members[i], w)

\* MultiAuth.ensure_fresh, of the source that authenticated the request
EnsureFreshMulti(w) ==
    LET recorded == {l \in MemberSet : records[l] # NoCredential}
    IN  /\ pc = "handling" /\ guard.multi
        /\ w.reader \/ MemberSet \subseteq Dates
        /\ \/ \E l \in recorded : CheckRecord(l, w)
           \/ /\ recorded = {} /\ \E l \in MemberSet : sent[l] # NoCredential
              /\ Answer("wiring")
           \/ /\ recorded = {} /\ \A l \in MemberSet : sent[l] = NoCredential
              /\ Answer("missing")

\* The handler returns.
Return ==
    /\ pc = "handling"
    /\ Answer(reply)

\* The next request, on the same route, of a client that may have been sent
\* a challenge
NextRequest ==
    /\ pc = "done"
    /\ pc' = "idle"
    /\ sent' = [l \in Lineages |-> NoCredential]
    /\ scopes' = {}
    /\ decider' = NoGuard
    /\ records' = [l \in Lineages |-> NoCredential]
    /\ reply' = "none"
    /\ builds' = MaxBuilds
    /\ UNCHANGED <<copies, guard, asked, challenge, now>>

Tick ==
    /\ now < MaxClock
    /\ guard # NoGuard
    /\ now' = now + 1
    /\ UNCHANGED <<buildVars, requestVars>>

Next ==
    \/ \E l \in Lineages : BuildSource(l) \/ UseSource(l)
    \/ \E order \in Orders : Combine(order)
    \/ BuildMulti
    \/ Arrive
    \/ Dispatch
    \/ Validated
    \/ Dated
    \/ Levelled
    \/ \E w \in Windows :
          \/ \E l \in Lineages : EnsureFresh(l, w)
          \/ EnsureFreshMulti(w)
    \/ Return
    \/ NextRequest
    \/ Tick

Spec == Init /\ [][Next]_vars
-----------------------------------------------------------------------------
(* Properties                                                              *)

\* No copy, and no combination, is both optional and guarded.
TypeOK ==
    /\ copies \in [Lineages -> Copies]
    /\ guard # NoGuard =>
          /\ guard.members \in Seq(Copies)
          /\ guard.optional => \A i \in DOMAIN guard.members : ~Guarded(guard.members[i])
    /\ builds \in 0..MaxBuilds
    /\ asked \in [Lineages -> SUBSET (Windows \cup Assurances)]
    /\ pc \in {"idle", "arrived", "validating", "dating", "levelling", "handling", "done"}
    /\ sent \in [Lineages -> Credentials \cup {NoCredential}]
    /\ scopes \in ScopeSets \cup {{}}
    /\ decider \in Copies \cup {NoGuard}
    /\ records \in [Lineages -> Credentials \cup {NoCredential}]
    /\ reply \in Statuses
    /\ challenge \in Challenges \cup {NoChallenge}
    /\ now \in 0..MaxClock

\* What was asked of the deciding source's copy, and of some source of the guard
AskedOf(kind)    == asked[decider.lineage] \cap kind
AskedOfAny(kind) == UNION {asked[l] \cap kind : l \in MemberSet}

\* A credential passes the guard only when it meets every window and every
\* level the program asked for, in whatever order its builders were called;
\* when one source of a combination is guarded, no other lets a credential
\* through unguarded.
GuardHolds ==
    [][/\ pc = "dating" /\ pc' = "levelling" =>
             /\ \A w \in AskedOf(Windows) : IsFresh(w, Presented, now)
             /\ AskedOfAny(Windows) # {} => AskedOf(Windows) # {}
       /\ pc = "levelling" /\ pc' = "handling" =>
             /\ \A a \in AskedOf(Assurances) : Achieved(a, Presented) \in a.values
             /\ AskedOfAny(Assurances) # {} => AskedOf(Assurances) # {}]_vars

\* An anonymous caller is served only without scopes, without a guard, and
\* without a credential for any of the sources.
AnonymousOnlyIfAsked ==
    reply = "anonymous" =>
        /\ scopes = {}
        /\ \A l \in MemberSet : asked[l] = {} /\ sent[l] = NoCredential

\* On a combined route whether the scopes are checked, or the wiring is at
\* fault, never depends on which credential the client presents: once a source
\* was chosen by its credential, that source is able to check them.
WiringNotByCredential ==
    [][pc = "validating" /\ guard.multi => reply' # "misconfigured"]_vars

\* Mutant of MaxAge: rounded to the next second.
MaxAgeRoundedUp(w) == (w.maxAge + Second - 1) \div Second

\* step_up_challenge: the max_age a client reads, in whole seconds
MaxAge(w) == IF w.maxAge < Second THEN 1 ELSE w.maxAge \div Second

\* A credential obeys the challenge: proven in the seconds it gives, for a
\* window of a second or more, and at a level it lists.
ProvenInTime(c) ==
    challenge.window # NoWindow =>
        /\ challenge.window.maxAge >= Second
        /\ Instant(challenge.window, c) # NoInstant
        /\ 0 <= now - Instant(challenge.window, c)
        /\ now - Instant(challenge.window, c) <= MaxAge(challenge.window) * Second
ProvenAtLevel(c) ==
    challenge.assurance # NoAssurance =>
        Achieved(challenge.assurance, c) \in challenge.assurance.values

\* A client that comes back with a credential as its last challenge asked is
\* not asked for another: what the guard challenged for passes the guard, and
\* what the handler challenged for passes the guard's levels and the handler.
ObeyingTheChallengeSuffices ==
    [][challenge # NoChallenge /\ pc \in {"dating", "levelling", "handling"}
            /\ reply # "anonymous" /\ decider.lineage = challenge.source =>
          /\ pc = "dating" /\ challenge.from = "guard" /\ ProvenInTime(Presented) => reply' # "stale"
          /\ pc = "levelling" /\ ProvenAtLevel(Presented) => reply' # "insufficient"
          /\ pc = "handling" /\ ProvenInTime(Presented) =>
                \A w \in Windows \cap {challenge.window} :
                    EnsureFresh(decider.lineage, w) => reply' # "stale"]_vars

\* The handler of a request that a combination authenticated gets, from the
\* combination's ensure_fresh(), an answer about the credential that decided,
\* whichever source found it.
CombinationKnowsItsRequest ==
    [][\A w \in Windows : EnsureFreshMulti(w) /\ reply = "accepted" =>
          reply' = IF IsFresh(w, Presented, now) THEN "confirmed" ELSE "stale"]_vars
=============================================================================
