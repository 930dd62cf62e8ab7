------------------------------ MODULE TwoFactor ------------------------------
(***************************************************************************)
(* A password, then a one-time code (docs_src/recipes/two_factor.py over   *)
(* totp.py): one account, enrolled, entered and left by several browsers.  *)
(*                                                                         *)
(* No handler is suspended between its first and its last access to the    *)
(* account, so each is one step.  Time is counted in TOTP steps, of 30     *)
(* seconds; a browser's signed cookies are what they were set to, until    *)
(* they expire.                                                            *)
(***************************************************************************)
EXTENDS Integers, FiniteSets, SequencesExt

CONSTANTS
    Browsers,
    Secrets,       \* TOTP secrets, each generated once
    NoSecret,
    Hotp,          \* the digits of each secret at each step
    Recovery,      \* names of the recovery codes handed out at a confirmation
    Wrong,         \* digits no secret shows
    Never,         \* a cookie that was not set, a step not yet claimed
    Window,        \* steps accepted on each side of the current one
    MaxFailures,   \* MAX_FAILURES
    Lockout,       \* LOCKOUT_SECONDS
    PendingTtl,    \* ttl of the pending cookie
    FreshAge,      \* max_age of the fresh() guards
    MaxClock,      \* bound on the clock
    MaxSignIns     \* bound on the codes accepted

ASSUME NumbersAssumption ==
    /\ Window \in Nat /\ Lockout \in Nat /\ PendingTtl \in Nat /\ FreshAge \in Nat
    /\ MaxFailures \in Nat \ {0}
    /\ MaxClock \in Nat /\ Window <= MaxClock /\ MaxSignIns \in Nat
ASSUME HotpAssumption ==
    \A s \in Secrets : DOMAIN Hotp[s] = 0..(MaxClock + Window) /\ Wrong \notin Range(Hotp[s])
ASSUME NamesAssumption ==
    NoSecret \notin Secrets /\ Never \notin 0..(MaxClock + Window)

VARIABLES
    account,       \* the Account
    session,       \* the session of each browser: its level and when it began
    pending,       \* when each browser got its pending cookie, or Never
    now,           \* the clock
    accepted,      \* history: the codes accepted, from which browser and when
    misses         \* history: when the last wrong codes were entered, in a row

vars == <<account, session, pending, now, accepted, misses>>

Digits == UNION {Range(Hotp[s]) : s \in Secrets} \cup {Wrong}
Step   == 0..(MaxClock + Window)
\* six digits, or twenty hexadecimal ones
ASSUME CodesAssumption == Recovery \cap Digits = {}

NoSession == [level |-> "none", at |-> Never]

\* Account(password=...): the second factor off
NewAccount == [secret |-> NoSecret, enrolling |-> NoSecret, lastStep |-> Never,
               recovery |-> {}, failures |-> 0, lockedUntil |-> 0]

Init ==
    /\ account = NewAccount
    /\ session = [b \in Browsers |-> NoSession]
    /\ pending = [b \in Browsers |-> Never]
    /\ now = Window
    /\ accepted = {}
    /\ misses = <<>>
-----------------------------------------------------------------------------
(* The guards of the routes, and totp_verify.                              *)

\* Within the bounded clock a session does not outlive its own ttl.
SignedIn(b) == session[b] # NoSession
Fresh(b)    == SignedIn(b) /\ now - session[b].at <= FreshAge

\* Mutant of StrongFresh: any fresh session will do.
FreshAlone(b) == Fresh(b)

StrongFresh(b) == Fresh(b) /\ session[b].level = "mfa"
Pending(b)     == pending[b] # Never /\ now - pending[b] <= PendingTtl

\* The steps at which the digits are accepted
Matching(s, digits, lastStep) ==
    {i \in Step : /\ now - Window <= i /\ i <= now + Window
                  /\ lastStep # Never => lastStep < i
                  /\ Hotp[s][i] = digits}

\* Mutant of TotpVerify: the first match is returned.
FirstMatch(s, digits, lastStep) ==
    LET steps == Matching(s, digits, lastStep)
    IN  IF steps = {} THEN Never ELSE Min(steps)

\* totp_verify: the last step at which the digits match
TotpVerify(s, digits, lastStep) ==
    LET steps == Matching(s, digits, lastStep)
    IN  IF steps = {} THEN Never ELSE Max(steps)
-----------------------------------------------------------------------------
(* Steps shared by the handlers.                                           *)

\* sign_in_with_mfa, and what is remembered of the code that let b in
SignInWithMfa(b, s, digits) ==
    /\ Cardinality(accepted) < MaxSignIns
    /\ session' = [session EXCEPT ![b] = [level |-> "mfa", at |-> now]]
    /\ pending' = [pending EXCEPT ![b] = Never]
    /\ accepted' = accepted \cup {[secret |-> s, digits |-> digits, by |-> b, at |-> now]}
    /\ misses' = <<>>

\* Mutant of RecordFailure: the lock comes one failure late.
RecordFailureLate ==
    account' = IF account.failures >= MaxFailures
               THEN [account EXCEPT !.failures = 0, !.lockedUntil = now + Lockout]
               ELSE [account EXCEPT !.failures = @ + 1]

\* record_failure
RecordFailure ==
    account' = IF account.failures + 1 >= MaxFailures
               THEN [account EXCEPT !.failures = 0, !.lockedUntil = now + Lockout]
               ELSE [account EXCEPT !.failures = @ + 1]

\* As many of the last wrong codes as the properties look at
Remember(times) ==
    IF Len(times) <= MaxFailures + 1 THEN times ELSE Tail(times)
-----------------------------------------------------------------------------
(* The handlers.                                                           *)

\* POST /login with the right password; with a wrong one nothing changes.
Login(b) ==
    /\ \/ /\ account.secret = NoSecret
          /\ session' = [session EXCEPT ![b] = [level |-> "password", at |-> now]]
          /\ UNCHANGED pending
       \/ /\ account.secret # NoSecret
          /\ pending' = [pending EXCEPT ![b] = now]
          /\ UNCHANGED session
    /\ UNCHANGED <<account, now, accepted, misses>>

\* POST /login/verify with the digits of an authenticator
VerifyDigits(b, digits) ==
    LET s == account.secret
        step == IF s = NoSecret THEN Never ELSE TotpVerify(s, digits, account.lastStep)
    IN  /\ Pending(b)
        /\ account.lockedUntil <= now
        /\ \/ /\ step # Never
              /\ account' = [account EXCEPT !.lastStep = step, !.failures = 0]
              /\ SignInWithMfa(b, s, digits)
           \/ /\ step = Never
              /\ RecordFailure
              /\ misses' = Remember(Append(misses, now))
              /\ UNCHANGED <<session, pending, accepted>>
        /\ UNCHANGED now

\* Mutant of VerifyRecovery: the code is not used up.
RecoveryKept(b, s, c) ==
    /\ Pending(b)
    /\ account.lockedUntil <= now
    /\ <<s, c>> \in account.recovery
    /\ account' = [account EXCEPT !.failures = 0]
    /\ SignInWithMfa(b, s, c)
    /\ UNCHANGED now

\* POST /login/verify with a recovery code handed out with secret s; one that
\* is not the account's counts as wrong digits do.
VerifyRecovery(b, s, c) ==
    /\ Pending(b)
    /\ account.lockedUntil <= now
    /\ <<s, c>> \in account.recovery
    /\ account' = [account EXCEPT !.recovery = @ \ {<<s, c>>}, !.failures = 0]
    /\ SignInWithMfa(b, s, c)
    /\ UNCHANGED now

\* POST /2fa/enroll: a secret no one has seen
Enroll(b, s) ==
    /\ Fresh(b)
    /\ account.secret = NoSecret
    /\ account' = [account EXCEPT !.enrolling = s]
    /\ UNCHANGED <<session, pending, now, accepted, misses>>

\* Mutant of Confirm: the step of the code is not stored.
ConfirmForgetsStep(b, digits) ==
    LET s == account.enrolling
    IN  /\ SignedIn(b)
        /\ s # NoSecret
        /\ TotpVerify(s, digits, Never) # Never
        /\ account' = [account EXCEPT !.secret = s, !.enrolling = NoSecret,
                                      !.recovery = {s} \X Recovery]
        /\ SignInWithMfa(b, s, digits)
        /\ UNCHANGED now

\* POST /2fa/confirm with a code of the secret being enrolled; another code
\* changes nothing, and does not count as a failure.
Confirm(b, digits) ==
    LET s == account.enrolling
        step == IF s = NoSecret THEN Never ELSE TotpVerify(s, digits, Never)
    IN  /\ SignedIn(b)
        /\ step # Never
        /\ account' = [account EXCEPT !.secret = s, !.enrolling = NoSecret,
                                      !.lastStep = step, !.recovery = {s} \X Recovery]
        /\ SignInWithMfa(b, s, digits)
        /\ UNCHANGED now

\* POST /2fa/disable: the account starts over, its lock and failures included.
Disable(b) ==
    /\ StrongFresh(b)
    /\ account' = NewAccount
    /\ misses' = <<>>
    /\ UNCHANGED <<session, pending, now, accepted>>

Tick ==
    /\ now < MaxClock
    /\ now' = now + 1
    /\ UNCHANGED <<account, session, pending, accepted, misses>>

\* A secret is generated once: those the account never held are still unused.
Unused(s) == s # account.secret /\ s # account.enrolling /\ \A c \in accepted : c.secret # s

Next ==
    \/ \E b \in Browsers :
          \/ Login(b)
          \/ \E digits \in Digits : VerifyDigits(b, digits) \/ Confirm(b, digits)
          \/ \E s \in Secrets, c \in Recovery : VerifyRecovery(b, s, c)
          \/ \E s \in Secrets : Unused(s) /\ Enroll(b, s)
          \/ Disable(b)
    \/ Tick

Spec == Init /\ [][Next]_vars
-----------------------------------------------------------------------------
(* Properties                                                              *)

Times == Window..MaxClock

\* Types; and the parts of the account agree: a step is claimed and recovery
\* codes are out only with the factor on, and no enrolment is then under way.
TypeOK ==
    /\ account \in [secret : Secrets \cup {NoSecret}, enrolling : Secrets \cup {NoSecret},
                    lastStep : Step \cup {Never}, recovery : SUBSET (Secrets \X Recovery),
                    failures : 0..(MaxFailures - 1), lockedUntil : 0..(MaxClock + Lockout)]
    /\ account.secret = NoSecret <=> account.lastStep = Never
    /\ account.secret # NoSecret => account.enrolling = NoSecret
    /\ account.recovery \subseteq {account.secret} \X Recovery
    /\ session \in [Browsers -> [level : {"password", "mfa"}, at : Times] \cup {NoSession}]
    /\ pending \in [Browsers -> Times \cup {Never}]
    /\ now \in Times
    /\ accepted \subseteq [secret : Secrets, digits : Digits \cup Recovery, by : Browsers, at : Times]
    /\ misses \in Seq(Times)

\* A code lets one request in, once: the same digits are accepted again only
\* as the code of a step that was not yet within the window the first time,
\* and a recovery code never.  The code that confirmed the enrolment counts,
\* two neighbouring steps may show the same digits, and the factor may have
\* been turned off and on again in between.
CodesAcceptedOnce ==
    [][\A c \in accepted' \ accepted : \A old \in accepted :
          c.secret = old.secret /\ c.digits = old.digits =>
              /\ c.digits \notin Recovery
              /\ account'.lastStep > old.at + Window]_vars

\* Guessing is slow: among any MAX_FAILURES + 1 wrong codes in a row, whoever
\* enters them, as long as none was right and the factor stayed on, the last
\* comes at least a lockout after the first.
GuessesAreSpaced ==
    Len(misses) > MaxFailures => Last(misses) - misses[Len(misses) - MaxFailures] >= Lockout

\* The second factor is turned off only by a browser that entered a code
\* itself, no longer ago than the step-up allows: a session begun with the
\* password alone, while the factor was off, never does.
DisabledOnlyByProof ==
    [][\A b \in Browsers : Disable(b) =>
          \E c \in accepted : c.by = b /\ now - c.at <= FreshAge]_vars
=============================================================================
