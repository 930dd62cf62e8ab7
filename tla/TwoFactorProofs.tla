--------------------------- MODULE TwoFactorProofs ---------------------------
(***************************************************************************)
(* Proofs about TwoFactor, for every set of browsers and secrets, every    *)
(* table of digits, window, lockout and bound.                             *)
(***************************************************************************)
EXTENDS TwoFactor, TLAPS, WellFoundedInduction

\* A set of naturals with an upper bound has a greatest element, and Max is it.
LEMMA MaxExists ==
    ASSUME NEW n \in Nat, NEW S \in SUBSET (0..n), S # {}
    PROVE  /\ Max(S) \in S
           /\ \A i \in S : i <= Max(S)
<1> DEFINE T == {k \in 0..n : n - k \in S}
<1>1. T \subseteq Nat /\ T # {}
  <2>1. PICK i \in S : TRUE
    OBVIOUS
  <2>2. n - i \in T
    OBVIOUS
  <2> QED BY <2>2, T \subseteq Nat
<1>2. PICK k \in T : \A j \in T : ~(<<j, k>> \in OpToRel(<, Nat))
  <2> HIDE DEF T
  <2> QED BY <1>1, NatLessThanWellFounded, WFMin
<1>3. \A j \in T : k <= j
  <2> SUFFICES ASSUME NEW j \in T, j < k PROVE FALSE
    BY <1>1
  <2>1. <<j, k>> \in Nat \X Nat
    BY <1>1
  <2> DEFINE p == <<j, k>>
  <2>2. p[1] < p[2]
    OBVIOUS
  <2>3. p \in {ss \in Nat \X Nat : ss[1] < ss[2]}
    BY <2>1, <2>2
  <2>4. OpToRel(<, Nat) = {ss \in Nat \X Nat : ss[1] < ss[2]}
    BY Zenon DEF OpToRel
  <2> QED BY <1>2, <2>3, <2>4
<1>4. n - k \in S /\ \A i \in S : i <= n - k
  <2> SUFFICES ASSUME NEW i \in S PROVE i <= n - k
    OBVIOUS
  <2>1. n - i \in T
    OBVIOUS
  <2> QED BY <2>1, <1>3
<1> QED BY <1>4 DEF Max

\* What totp_verify returns: the last of the steps within the window, not yet
\* claimed, at which the digits match, and None only if there is none.
LEMMA VerifiedStep ==
    ASSUME NEW s \in Secrets, NEW digits, NEW last \in Step \cup {Never}, now \in Times
    PROVE  LET step == TotpVerify(s, digits, last)
               steps == Matching(s, digits, last)
           IN  /\ step \in Step \cup {Never}
               /\ step = Never <=> steps = {}
               /\ step # Never => step \in steps /\ \A i \in steps : i <= step
<1> DEFINE steps == Matching(s, digits, last)
<1>1. steps \in SUBSET Step
  BY DEF Matching
<1>2. MaxClock + Window \in Nat
  BY NumbersAssumption
<1>3. CASE steps = {}
  BY <1>3 DEF TotpVerify
<1>4. CASE steps # {}
  <2>1. TotpVerify(s, digits, last) = Max(steps)
    BY <1>4 DEF TotpVerify
  <2>2. Max(steps) \in steps /\ \A i \in steps : i <= Max(steps)
    <3> HIDE DEF steps
    <3> QED BY <1>1, <1>2, <1>4, MaxExists DEF Step
  <2> QED BY <2>1, <2>2, <1>1, <1>4, NamesAssumption DEF Step
<1> QED BY <1>3, <1>4
-----------------------------------------------------------------------------
AccountTypeOK ==
    /\ account \in [secret : Secrets \cup {NoSecret}, enrolling : Secrets \cup {NoSecret},
                    lastStep : Step \cup {Never}, recovery : SUBSET (Secrets \X Recovery),
                    failures : 0..(MaxFailures - 1), lockedUntil : 0..(MaxClock + Lockout)]
    /\ account.secret = NoSecret <=> account.lastStep = Never
    /\ account.secret # NoSecret => account.enrolling = NoSecret
    /\ account.recovery \subseteq {account.secret} \X Recovery

BrowsersTypeOK ==
    /\ session \in [Browsers -> [level : {"password", "mfa"}, at : Times] \cup {NoSession}]
    /\ pending \in [Browsers -> Times \cup {Never}]
    /\ now \in Times

Codes == [secret : Secrets, digits : Digits \cup Recovery, by : Browsers, at : Times]

HistoryTypeOK == accepted \subseteq Codes /\ misses \in Seq(Times)

LEMMA TypeInit == Init => TypeOK
<1> SUFFICES ASSUME Init PROVE AccountTypeOK /\ BrowsersTypeOK /\ HistoryTypeOK
  BY DEF TypeOK, AccountTypeOK, BrowsersTypeOK, HistoryTypeOK, Codes
<1> USE NumbersAssumption, NamesAssumption DEF Init
<1>1. AccountTypeOK
  BY DEF AccountTypeOK, NewAccount, Step
<1>2. BrowsersTypeOK
  BY DEF BrowsersTypeOK, NoSession, Times
<1>3. HistoryTypeOK
  BY DEF HistoryTypeOK
<1> QED BY <1>1, <1>2, <1>3

\* A browser that enters a right code, and whoever enters a wrong one, leave
\* sessions, cookies and histories well typed.
LEMMA SignInTypes ==
    ASSUME BrowsersTypeOK, HistoryTypeOK, NEW b \in Browsers, NEW s \in Secrets,
           NEW c \in Digits \cup Recovery, SignInWithMfa(b, s, c), UNCHANGED now
    PROVE  BrowsersTypeOK' /\ HistoryTypeOK'
<1>1. [secret |-> s, digits |-> c, by |-> b, at |-> now] \in Codes
  BY DEF Codes, BrowsersTypeOK
<1>2. HistoryTypeOK'
  BY <1>1 DEF HistoryTypeOK, SignInWithMfa
<1>3. BrowsersTypeOK'
  BY DEF BrowsersTypeOK, SignInWithMfa
<1> QED BY <1>2, <1>3

LEMMA RememberTypes ==
    ASSUME misses \in Seq(Times), now \in Times
    PROVE  Remember(Append(misses, now)) \in Seq(Times)
<1>1. Append(misses, now) \in Seq(Times) /\ Len(Append(misses, now)) > 0
  OBVIOUS
<1>2. \A q \in Seq(Times) : Len(q) > 0 => Remember(q) \in Seq(Times)
  BY DEF Remember
<1> QED BY <1>1, <1>2

\* The account stays well typed while the factor stays what it is.
LEMMA SameFactorTypes ==
    ASSUME AccountTypeOK,
           NEW step \in Step \cup {Never}, step = Never <=> account.lastStep = Never,
           NEW codes \in SUBSET account.recovery,
           NEW n \in 0..(MaxFailures - 1), NEW until \in 0..(MaxClock + Lockout),
           account' = [account EXCEPT !.lastStep = step, !.recovery = codes,
                                      !.failures = n, !.lockedUntil = until]
    PROVE  AccountTypeOK'
BY DEF AccountTypeOK

LEMMA FailureTypes ==
    ASSUME AccountTypeOK, now \in Times, RecordFailure
    PROVE  AccountTypeOK'
<1> USE NumbersAssumption
<1>1. now + Lockout \in 0..(MaxClock + Lockout)
  BY DEF Times
<1>2. CASE account.failures + 1 >= MaxFailures
  <2>1. account' = [account EXCEPT !.failures = 0, !.lockedUntil = now + Lockout]
    BY <1>2 DEF RecordFailure
  <2>2. 0 \in 0..(MaxFailures - 1)
    OBVIOUS
  <2> QED BY <1>1, <2>1, <2>2, SameFactorTypes DEF AccountTypeOK
<1>3. CASE ~(account.failures + 1 >= MaxFailures)
  <2>1. account' = [account EXCEPT !.failures = account.failures + 1]
    BY <1>3 DEF RecordFailure
  <2>2. account.failures + 1 \in 0..(MaxFailures - 1)
    BY <1>3 DEF AccountTypeOK
  <2> QED BY <2>1, <2>2, SameFactorTypes DEF AccountTypeOK
<1> QED BY <1>2, <1>3

LEMMA TypeStep == TypeOK /\ [Next]_vars => TypeOK'
<1> SUFFICES ASSUME AccountTypeOK, BrowsersTypeOK, HistoryTypeOK, [Next]_vars
             PROVE  AccountTypeOK' /\ BrowsersTypeOK' /\ HistoryTypeOK'
  BY DEF TypeOK, AccountTypeOK, BrowsersTypeOK, HistoryTypeOK, Codes
<1> USE NumbersAssumption, NamesAssumption
<1>1. ASSUME NEW b \in Browsers, Login(b)
      PROVE  AccountTypeOK' /\ BrowsersTypeOK' /\ HistoryTypeOK'
  BY <1>1 DEF Login, AccountTypeOK, BrowsersTypeOK, HistoryTypeOK
<1>2. ASSUME NEW b \in Browsers, NEW digits \in Digits, VerifyDigits(b, digits)
      PROVE  AccountTypeOK' /\ BrowsersTypeOK' /\ HistoryTypeOK'
  <2> DEFINE s == account.secret
             step == IF s = NoSecret THEN Never ELSE TotpVerify(s, digits, account.lastStep)
  <2>1. CASE step # Never
    <3>1. s \in Secrets /\ step \in Step
      BY <2>1, VerifiedStep DEF AccountTypeOK, BrowsersTypeOK
    <3>2. /\ account' = [account EXCEPT !.lastStep = step, !.failures = 0]
          /\ SignInWithMfa(b, s, digits) /\ UNCHANGED now
      BY <1>2, <2>1 DEF VerifyDigits
    <3>3. AccountTypeOK'
      <4> HIDE DEF step
      <4>1. 0 \in 0..(MaxFailures - 1) /\ account.lastStep # Never
        BY <3>1 DEF AccountTypeOK
      <4> QED BY <2>1, <3>1, <3>2, <4>1, SameFactorTypes DEF AccountTypeOK
    <3> QED BY <3>1, <3>2, <3>3, SignInTypes
  <2>2. CASE step = Never
    <3>1. RecordFailure /\ misses' = Remember(Append(misses, now))
          /\ UNCHANGED <<session, pending, accepted, now>>
      BY <1>2, <2>2 DEF VerifyDigits
    <3> QED BY <3>1, FailureTypes, RememberTypes DEF BrowsersTypeOK, HistoryTypeOK
  <2> QED BY <2>1, <2>2
<1>3. ASSUME NEW b \in Browsers, NEW digits \in Digits, Confirm(b, digits)
      PROVE  AccountTypeOK' /\ BrowsersTypeOK' /\ HistoryTypeOK'
  <2> DEFINE s == account.enrolling
             step == IF s = NoSecret THEN Never ELSE TotpVerify(s, digits, Never)
  <2>1. /\ step # Never /\ SignInWithMfa(b, s, digits) /\ UNCHANGED now
        /\ account' = [account EXCEPT !.secret = s, !.enrolling = NoSecret,
                                      !.lastStep = step, !.recovery = {s} \X Recovery]
    BY <1>3 DEF Confirm
  <2>2. s \in Secrets /\ step \in Step
    BY <2>1, VerifiedStep DEF AccountTypeOK, BrowsersTypeOK
  <2> HIDE DEF step
  <2>3. AccountTypeOK'
    BY <2>1, <2>2 DEF AccountTypeOK
  <2> QED BY <2>1, <2>2, <2>3, SignInTypes
<1>4. ASSUME NEW b \in Browsers, NEW s \in Secrets, NEW c \in Recovery, VerifyRecovery(b, s, c)
      PROVE  AccountTypeOK' /\ BrowsersTypeOK' /\ HistoryTypeOK'
  <2>1. AccountTypeOK'
    <3>1. account.recovery \ {<<s, c>>} \subseteq account.recovery /\ 0 \in 0..(MaxFailures - 1)
      OBVIOUS
    <3> QED BY <1>4, <3>1, SameFactorTypes DEF VerifyRecovery, AccountTypeOK
  <2> QED BY <1>4, <2>1, SignInTypes DEF VerifyRecovery
<1>5. ASSUME NEW b \in Browsers, NEW s \in Secrets, Enroll(b, s)
      PROVE  AccountTypeOK' /\ BrowsersTypeOK' /\ HistoryTypeOK'
  BY <1>5 DEF Enroll, AccountTypeOK, BrowsersTypeOK, HistoryTypeOK
<1>6. ASSUME NEW b \in Browsers, Disable(b)
      PROVE  AccountTypeOK' /\ BrowsersTypeOK' /\ HistoryTypeOK'
  BY <1>6 DEF Disable, NewAccount, AccountTypeOK, BrowsersTypeOK, HistoryTypeOK
<1>7. CASE Tick
  BY <1>7 DEF Tick, AccountTypeOK, BrowsersTypeOK, HistoryTypeOK, Times
<1>8. CASE UNCHANGED vars
  BY <1>8 DEF vars, AccountTypeOK, BrowsersTypeOK, HistoryTypeOK
<1> QED BY <1>1, <1>2, <1>3, <1>4, <1>5, <1>6, <1>7, <1>8 DEF Next

\* Every variable keeps its type, and the parts of the account agree: a step
\* is claimed and recovery codes are out only while the factor is on.
THEOREM TypeCorrect == Spec => []TypeOK
<1> QED BY TypeInit, TypeStep, PTL DEF Spec
-----------------------------------------------------------------------------
(* Codes                                                                   *)

\* No code accepted so far is good any more: its secret is not the one being
\* enrolled, and if it is still the account's, the code is no recovery code
\* that is left and shows at no step within its window that is not claimed.
Spent(c, a) ==
    /\ c.secret # a.enrolling
    /\ c.secret = a.secret =>
          /\ <<c.secret, c.digits>> \notin a.recovery
          /\ \A i \in Step :
                Hotp[c.secret][i] = c.digits /\ i <= c.at + Window => i <= a.lastStep

CodesInv == \A c \in accepted : Spent(c, account)

LEMMA DigitsShown ==
    ASSUME NEW s \in Secrets, NEW i \in Step
    PROVE  Hotp[s][i] \in Digits
<1>1. Hotp[s][i] \in Range(Hotp[s])
  BY HotpAssumption DEF Step, Range
<1> QED BY <1>1 DEF Digits

\* What digits accepted just now leave behind.
LEMMA ClaimedStep ==
    ASSUME NEW s \in Secrets, NEW digits, NEW last \in Step \cup {Never}, now \in Times,
           TotpVerify(s, digits, last) # Never
    PROVE  LET step == TotpVerify(s, digits, last)
           IN  /\ step \in Step /\ Hotp[s][step] = digits
               /\ last # Never => last < step
               /\ \A i \in Step : Hotp[s][i] = digits /\ i <= now + Window => i <= step
<1> DEFINE step == TotpVerify(s, digits, last)
           steps == Matching(s, digits, last)
<1>1. step \in steps /\ \A i \in steps : i <= step
  BY VerifiedStep
<1>2. step \in Step /\ Hotp[s][step] = digits /\ now - Window <= step
      /\ (last # Never => last < step)
  <2> HIDE DEF step
  <2> QED BY <1>1 DEF Matching
<1>3. ASSUME NEW i \in Step, Hotp[s][i] = digits, i <= now + Window
      PROVE  i <= step
  <2> HIDE DEF step
  <2>1. CASE i \in steps
    BY <2>1, <1>1
  <2>2. CASE i \notin steps /\ ~(now - Window <= i)
    BY <2>2, <1>2, NumbersAssumption DEF Step, Times
  <2>3. CASE i \notin steps /\ now - Window <= i
    <3>1. last # Never /\ ~(last < i)
      BY <2>3, <1>3 DEF Matching
    <3> QED BY <3>1, <1>2, NumbersAssumption DEF Step
  <2> QED BY <2>1, <2>2, <2>3
<1> QED BY <1>2, <1>3

LEMMA CodesInit == Init => CodesInv
BY DEF Init, CodesInv

LEMMA CodesStep == TypeOK /\ CodesInv /\ [Next]_vars => CodesInv'
<1> SUFFICES ASSUME AccountTypeOK, BrowsersTypeOK, HistoryTypeOK, CodesInv, [Next]_vars
             PROVE  CodesInv'
  BY DEF TypeOK, AccountTypeOK, BrowsersTypeOK, HistoryTypeOK, Codes
<1> USE NamesAssumption
<1>0. \A c \in accepted : c.secret \in Secrets /\ c.digits \in Digits \cup Recovery
  BY DEF HistoryTypeOK, Codes
<1>1. ASSUME NEW b \in Browsers, NEW digits \in Digits, VerifyDigits(b, digits)
      PROVE  CodesInv'
  <2> DEFINE s == account.secret
             step == IF s = NoSecret THEN Never ELSE TotpVerify(s, digits, account.lastStep)
             new == [secret |-> s, digits |-> digits, by |-> b, at |-> now]
  <2>1. CASE step # Never
    <3>1. /\ s \in Secrets /\ account.lastStep \in Step
          /\ step = TotpVerify(s, digits, account.lastStep)
      BY <2>1 DEF AccountTypeOK
    <3>2. /\ account'.secret = s /\ account'.enrolling = account.enrolling
          /\ account'.recovery = account.recovery /\ account'.lastStep = step
          /\ accepted' = accepted \cup {new}
      BY <1>1, <2>1 DEF VerifyDigits, SignInWithMfa, AccountTypeOK
    <3>3. account.lastStep # Never /\ now \in Times
      BY <3>1 DEF Step, BrowsersTypeOK
    <3>4. /\ step \in Step /\ account.lastStep < step
          /\ \A i \in Step : Hotp[s][i] = digits /\ i <= now + Window => i <= step
      <4> HIDE DEF s
      <4> QED BY <2>1, <3>1, <3>3, ClaimedStep
    <3>5. s # account.enrolling /\ <<s, digits>> \notin account.recovery
      BY <3>1, CodesAssumption DEF AccountTypeOK
    <3> HIDE DEF step
    <3>6. ASSUME NEW c \in accepted
          PROVE  Spent(c, account')
      <4>1. \A i \in Step : i <= account.lastStep => i <= step
        BY <3>1, <3>4 DEF Step
      <4> QED BY <3>2, <4>1 DEF CodesInv, Spent
    <3>7. Spent(new, account')
      BY <3>2, <3>4, <3>5 DEF Spent
    <3> QED BY <3>2, <3>6, <3>7 DEF CodesInv
  <2>2. CASE step = Never
    BY <1>1, <2>2 DEF VerifyDigits, RecordFailure, CodesInv, Spent, AccountTypeOK
  <2> QED BY <2>1, <2>2
<1>2. ASSUME NEW b \in Browsers, NEW digits \in Digits, Confirm(b, digits)
      PROVE  CodesInv'
  <2> DEFINE s == account.enrolling
             step == IF s = NoSecret THEN Never ELSE TotpVerify(s, digits, Never)
             new == [secret |-> s, digits |-> digits, by |-> b, at |-> now]
  <2>1. s \in Secrets /\ step # Never /\ step = TotpVerify(s, digits, Never)
    BY <1>2 DEF Confirm, AccountTypeOK
  <2>2. /\ account'.secret = s /\ account'.enrolling = NoSecret
        /\ account'.recovery = {s} \X Recovery /\ account'.lastStep = step
        /\ accepted' = accepted \cup {new}
    BY <1>2 DEF Confirm, SignInWithMfa, AccountTypeOK
  <2>3. \A i \in Step : Hotp[s][i] = digits /\ i <= now + Window => i <= step
    BY <2>1, ClaimedStep DEF BrowsersTypeOK
  <2>4. <<s, digits>> \notin {s} \X Recovery
    BY CodesAssumption
  <2>5. \A c \in accepted : c.secret # s /\ c.secret # NoSecret
    BY <1>0 DEF CodesInv, Spent
  <2> HIDE DEF s, step
  <2>6. Spent(new, account')
    BY <2>1, <2>2, <2>3, <2>4 DEF Spent
  <2>7. \A c \in accepted : Spent(c, account')
    BY <2>2, <2>5 DEF Spent
  <2> QED BY <2>2, <2>6, <2>7 DEF CodesInv
<1>3. ASSUME NEW b \in Browsers, NEW s \in Secrets, NEW c \in Recovery, VerifyRecovery(b, s, c)
      PROVE  CodesInv'
  <2> DEFINE new == [secret |-> s, digits |-> c, by |-> b, at |-> now]
  <2>1. /\ account'.secret = account.secret /\ account'.enrolling = account.enrolling
        /\ account'.recovery = account.recovery \ {<<s, c>>}
        /\ account'.lastStep = account.lastStep
        /\ accepted' = accepted \cup {new}
    BY <1>3 DEF VerifyRecovery, SignInWithMfa, AccountTypeOK
  <2>2. s = account.secret /\ s # account.enrolling
    BY <1>3 DEF VerifyRecovery, AccountTypeOK
  <2>3. \A i \in Step : Hotp[s][i] # c
    BY DigitsShown, CodesAssumption
  <2>4. Spent(new, account')
    BY <2>1, <2>2, <2>3 DEF Spent
  <2>5. \A old \in accepted : Spent(old, account')
    BY <2>1 DEF CodesInv, Spent
  <2> QED BY <2>1, <2>4, <2>5 DEF CodesInv
<1>4. ASSUME NEW b \in Browsers, NEW s \in Secrets, Unused(s), Enroll(b, s)
      PROVE  CodesInv'
  BY <1>4, <1>0 DEF Unused, Enroll, CodesInv, Spent, AccountTypeOK
<1>5. ASSUME NEW b \in Browsers, Disable(b)
      PROVE  CodesInv'
  BY <1>5, <1>0 DEF Disable, NewAccount, CodesInv, Spent
<1>6. CASE Tick \/ UNCHANGED vars \/ \E b \in Browsers : Login(b)
  BY <1>6 DEF Tick, vars, Login, CodesInv
<1> QED BY <1>1, <1>2, <1>3, <1>4, <1>5, <1>6 DEF Next

LEMMA CodesInvariant == Spec => []CodesInv
<1> QED BY TypeInit, TypeStep, CodesInit, CodesStep, PTL DEF Spec

\* A code signs one browser in, once, however long it stays within the window,
\* and across turning the factor off and on again.
THEOREM CodesOnce == Spec => CodesAcceptedOnce
<1>1. TypeOK /\ CodesInv /\ [Next]_vars =>
         \A c \in accepted' \ accepted : \A old \in accepted :
            c.secret = old.secret /\ c.digits = old.digits =>
               /\ c.digits \notin Recovery
               /\ account'.lastStep > old.at + Window
  <2> SUFFICES ASSUME AccountTypeOK, BrowsersTypeOK, HistoryTypeOK, CodesInv, [Next]_vars,
                      NEW c \in accepted' \ accepted, NEW old \in accepted,
                      c.secret = old.secret, c.digits = old.digits
               PROVE  c.digits \notin Recovery /\ account'.lastStep > old.at + Window
    BY DEF TypeOK, AccountTypeOK, BrowsersTypeOK, HistoryTypeOK, Codes
  <2>1. ASSUME NEW b \in Browsers, NEW digits \in Digits, VerifyDigits(b, digits)
        PROVE  c.digits \notin Recovery /\ account'.lastStep > old.at + Window
    <3> DEFINE s == account.secret
               step == TotpVerify(s, digits, account.lastStep)
    <3>1. s # NoSecret /\ step # Never
      BY <2>1 DEF VerifyDigits
    <3>2. /\ account' = [account EXCEPT !.lastStep = step, !.failures = 0]
          /\ accepted' = accepted \cup {[secret |-> s, digits |-> digits, by |-> b, at |-> now]}
      BY <2>1, <3>1 DEF VerifyDigits, SignInWithMfa
    <3>3. /\ s \in Secrets /\ account.lastStep \in Step
          /\ c.secret = s /\ c.digits = digits
      BY <3>1, <3>2 DEF AccountTypeOK
    <3>4. account'.lastStep = step
      <4> HIDE DEF step
      <4> QED BY <3>2 DEF AccountTypeOK
    <3>5. step \in Step /\ Hotp[s][step] = digits /\ account.lastStep < step
      <4> HIDE DEF s
      <4> QED BY <3>1, <3>3, ClaimedStep, NamesAssumption DEF BrowsersTypeOK, Step
    <3> HIDE DEF step
    <3>6. ~(step <= account.lastStep)
      BY <3>3, <3>5 DEF Step
    <3>7. ~(step <= old.at + Window)
      BY <3>3, <3>5, <3>6 DEF CodesInv, Spent
    <3>8. old.at \in Int
      BY NumbersAssumption DEF HistoryTypeOK, Codes, Times
    <3> QED BY <3>3, <3>4, <3>5, <3>7, <3>8, CodesAssumption, NumbersAssumption DEF Step
  <2>2. ASSUME NEW b \in Browsers, NEW digits \in Digits, Confirm(b, digits)
        PROVE  FALSE
    <3>1. accepted' = accepted \cup {[secret |-> account.enrolling, digits |-> digits,
                                       by |-> b, at |-> now]}
      BY <2>2 DEF Confirm, SignInWithMfa
    <3>2. c.secret = account.enrolling
      BY <3>1
    <3> QED BY <3>2 DEF CodesInv, Spent
  <2>3. ASSUME NEW b \in Browsers, NEW s \in Secrets, NEW r \in Recovery, VerifyRecovery(b, s, r)
        PROVE  FALSE
    <3>1. c.secret = s /\ c.digits = r /\ <<s, r>> \in account.recovery
      BY <2>3 DEF VerifyRecovery, SignInWithMfa
    <3>2. s = account.secret
      BY <3>1 DEF AccountTypeOK
    <3> QED BY <3>1, <3>2 DEF CodesInv, Spent
  <2>4. ASSUME \/ \E b \in Browsers : Login(b) \/ Disable(b) \/ \E s \in Secrets : Enroll(b, s)
               \/ Tick \/ UNCHANGED vars
        PROVE  FALSE
    BY <2>4 DEF Login, Enroll, Disable, Tick, vars
  <2> QED BY <2>1, <2>2, <2>3, <2>4 DEF Next
<1> QED BY <1>1, TypeCorrect, CodesInvariant, PTL DEF CodesAcceptedOnce, Spec
-----------------------------------------------------------------------------
(* Guesses                                                                 *)

\* The wrong codes remembered are in order, and the failures counted since the
\* last lock are the last of them: the one before those set the lock.
MissesInv ==
    /\ Len(misses) <= MaxFailures + 1
    /\ \A i, j \in 1..Len(misses) : i <= j => misses[i] <= misses[j]
    /\ \A i \in 1..Len(misses) : misses[i] <= now
    /\ Len(misses) > account.failures =>
          account.lockedUntil = misses[Len(misses) - account.failures] + Lockout
    /\ GuessesAreSpaced

\* One more wrong code: counted from the end, those before it move by one.
LEMMA RememberShifts ==
    ASSUME misses \in Seq(Times), now \in Times, Len(misses) <= MaxFailures + 1
    PROVE  LET q == Remember(Append(misses, now))
           IN  /\ q \in Seq(Times) /\ Len(q) > 0
               /\ Len(q) <= MaxFailures + 1 /\ Len(q) <= Len(misses) + 1
               /\ \A i \in 1..Len(q) :
                     q[i] = IF i = Len(q) THEN now ELSE misses[i + Len(misses) + 1 - Len(q)]
<1> DEFINE a == Append(misses, now)
           n == Len(misses)
<1> USE NumbersAssumption
<1>1. /\ a \in Seq(Times) /\ n \in Nat /\ Len(a) = n + 1
      /\ \A i \in 1..Len(a) : a[i] = IF i = n + 1 THEN now ELSE misses[i]
  OBVIOUS
<1> HIDE DEF a, n
<1>2. CASE Len(a) <= MaxFailures + 1
  BY <1>1, <1>2 DEF Remember, a, n
<1>3. CASE ~(Len(a) <= MaxFailures + 1)
  <2>1. Remember(a) = Tail(a)
    BY <1>3 DEF Remember
  <2>2. /\ Tail(a) \in Seq(Times) /\ Len(Tail(a)) = n
        /\ \A i \in 1..n : Tail(a)[i] = a[i + 1]
    BY <1>1, <1>3
  <2>3. n = MaxFailures + 1
    BY <1>1, <1>3 DEF n
  <2> DEFINE q == Tail(a)
  <2>4. \A i \in 1..Len(q) : q[i] = IF i = Len(q) THEN now ELSE misses[i + n + 1 - Len(q)]
    BY <1>1, <2>2, <2>3
  <2>5. q \in Seq(Times) /\ Len(q) > 0 /\ Len(q) <= MaxFailures + 1 /\ Len(q) <= n + 1
    BY <1>1, <2>2, <2>3
  <2> HIDE DEF q
  <2> QED BY <2>1, <2>4, <2>5 DEF a, n, q
<1> QED BY <1>2, <1>3

LEMMA MissesInit == Init => MissesInv
BY NumbersAssumption DEF Init, MissesInv, GuessesAreSpaced, NewAccount

\* Entering a wrong code, with no lock in force.
LEMMA MissesFailure ==
    ASSUME AccountTypeOK, BrowsersTypeOK, HistoryTypeOK, MissesInv, RecordFailure,
           account.lockedUntil <= now,
           misses' = Remember(Append(misses, now)), now' = now
    PROVE  MissesInv'
<1> DEFINE q == Remember(Append(misses, now))
           n == Len(misses)
           f == account.failures
<1> USE NumbersAssumption
<1>1. /\ q \in Seq(Times) /\ Len(q) > 0
      /\ Len(q) <= MaxFailures + 1 /\ Len(q) <= n + 1
      /\ \A i \in 1..Len(q) :
            q[i] = IF i = Len(q) THEN now ELSE misses[i + n + 1 - Len(q)]
  BY RememberShifts DEF MissesInv, HistoryTypeOK, BrowsersTypeOK
<1>2. n \in Nat /\ Len(q) \in Nat /\ now \in Int /\ f \in Nat
  BY <1>1 DEF HistoryTypeOK, BrowsersTypeOK, AccountTypeOK, Times
<1>3. \A i \in 1..n : misses[i] \in Int /\ misses[i] <= now
  BY DEF HistoryTypeOK, MissesInv, Times
<1>4. \A i, j \in 1..n : i <= j => misses[i] <= misses[j]
  BY DEF MissesInv
<1>5. n > f => account.lockedUntil = misses[n - f] + Lockout
  BY DEF MissesInv
<1> HIDE DEF q, n
<1>6. \A i \in 1..Len(q) : i # Len(q) => i + n + 1 - Len(q) \in 1..n
  BY <1>1, <1>2
<1>7. \A i \in 1..Len(q) : q[i] <= now
  <2>1. ASSUME NEW i \in 1..Len(q), i # Len(q)
        PROVE  q[i] <= now
    BY <2>1, <1>1, <1>3, <1>6
  <2> QED BY <2>1, <1>1, <1>2
<1>8. ASSUME NEW i \in 1..Len(q), NEW j \in 1..Len(q), i <= j
      PROVE  q[i] <= q[j]
  <2>1. CASE j = Len(q)
    BY <2>1, <1>1, <1>7
  <2>2. CASE j # Len(q)
    <3>1. i # Len(q) /\ i + n + 1 - Len(q) <= j + n + 1 - Len(q)
      BY <2>2, <1>8, <1>2
    <3> QED BY <3>1, <2>2, <1>1, <1>4, <1>6
  <2> QED BY <2>1, <2>2
<1>9. Len(q) > account'.failures =>
         account'.lockedUntil = q[Len(q) - account'.failures] + Lockout
  <2>1. CASE f + 1 >= MaxFailures
    <3>1. account'.failures = 0 /\ account'.lockedUntil = now + Lockout
      BY <2>1 DEF RecordFailure, AccountTypeOK
    <3> QED BY <3>1, <1>1, <1>2
  <2>2. CASE ~(f + 1 >= MaxFailures)
    <3>1. account'.failures = f + 1 /\ account'.lockedUntil = account.lockedUntil
      BY <2>2 DEF RecordFailure, AccountTypeOK
    <3> HIDE DEF f
    <3>2. SUFFICES ASSUME Len(q) > f + 1
                   PROVE  account.lockedUntil = q[Len(q) - (f + 1)] + Lockout
      BY <3>1
    <3>3. /\ Len(q) - (f + 1) \in 1..Len(q) /\ Len(q) - (f + 1) # Len(q)
          /\ Len(q) - (f + 1) + n + 1 - Len(q) = n - f
      BY <3>2, <1>2
    <3>4. q[Len(q) - (f + 1)] = misses[n - f] /\ n > f
      BY <3>2, <3>3, <1>1, <1>2
    <3> QED BY <3>4, <1>5
  <2> QED BY <2>1, <2>2
<1>10. ASSUME Len(q) > MaxFailures
       PROVE  Last(q) - q[Len(q) - MaxFailures] >= Lockout
  <2>1. f <= MaxFailures - 1
    BY DEF AccountTypeOK
  <2> HIDE DEF f
  <2>2. n - f \in 1..n /\ n > f
    BY <1>10, <1>1, <1>2, <2>1
  <2>3. /\ Len(q) - MaxFailures \in 1..Len(q) /\ Len(q) - MaxFailures # Len(q)
        /\ Len(q) - MaxFailures + n + 1 - Len(q) = n + 1 - MaxFailures
        /\ n + 1 - MaxFailures \in 1..n /\ n + 1 - MaxFailures <= n - f
    BY <1>10, <1>1, <1>2, <2>1
  <2>4. q[Len(q) - MaxFailures] = misses[n + 1 - MaxFailures]
    BY <2>3, <1>1
  <2>5. misses[n + 1 - MaxFailures] <= misses[n - f]
    BY <2>2, <2>3, <1>4
  <2>6. misses[n - f] + Lockout <= now
    BY <2>2, <1>5
  <2>7. Last(q) = now
    BY <1>1, <1>2 DEF Last
  <2>8. misses[n - f] \in Int /\ misses[n + 1 - MaxFailures] \in Int
    BY <2>2, <2>3, <1>3
  <2> QED BY <2>4, <2>5, <2>6, <2>7, <2>8, <1>2
<1> QED BY <1>1, <1>7, <1>8, <1>9, <1>10 DEF MissesInv, GuessesAreSpaced, q

LEMMA MissesStep == TypeOK /\ MissesInv /\ [Next]_vars => MissesInv'
<1> SUFFICES ASSUME AccountTypeOK, BrowsersTypeOK, HistoryTypeOK, MissesInv, [Next]_vars
             PROVE  MissesInv'
  BY DEF TypeOK, AccountTypeOK, BrowsersTypeOK, HistoryTypeOK, Codes
<1> USE NumbersAssumption
<1>1. ASSUME misses' = <<>>, account'.failures \in Nat
      PROVE  MissesInv'
  BY <1>1 DEF MissesInv, GuessesAreSpaced
<1>2. ASSUME account'.failures = account.failures, account'.lockedUntil = account.lockedUntil,
             misses' = misses, now' \in {now, now + 1}
      PROVE  MissesInv'
  <2>1. \A i \in 1..Len(misses) : misses[i] <= now'
    BY <1>2 DEF MissesInv, HistoryTypeOK, BrowsersTypeOK, Times
  <2> QED BY <1>2, <2>1 DEF MissesInv, GuessesAreSpaced
<1>3. ASSUME NEW b \in Browsers, NEW digits \in Digits, VerifyDigits(b, digits)
      PROVE  MissesInv'
  <2> DEFINE step == IF account.secret = NoSecret THEN Never
                     ELSE TotpVerify(account.secret, digits, account.lastStep)
  <2>1. CASE step # Never
    <3>1. account' = [account EXCEPT !.lastStep = step, !.failures = 0] /\ misses' = <<>>
      BY <1>3, <2>1 DEF VerifyDigits, SignInWithMfa
    <3>2. account'.failures = 0
      <4> HIDE DEF step
      <4> QED BY <3>1 DEF AccountTypeOK
    <3> QED BY <3>1, <3>2, <1>1
  <2>2. CASE step = Never
    BY <1>3, <2>2, MissesFailure DEF VerifyDigits
  <2> QED BY <2>1, <2>2
<1>4. ASSUME NEW b \in Browsers, NEW digits \in Digits, Confirm(b, digits)
      PROVE  MissesInv'
  <2> DEFINE step == TotpVerify(account.enrolling, digits, Never)
  <2>1. /\ misses' = <<>>
        /\ account' = [account EXCEPT !.secret = account.enrolling, !.enrolling = NoSecret,
                         !.lastStep = step, !.recovery = {account.enrolling} \X Recovery]
    BY <1>4 DEF Confirm, SignInWithMfa
  <2>2. account'.failures = account.failures
    <3> HIDE DEF step
    <3> QED BY <2>1 DEF AccountTypeOK
  <2> QED BY <2>1, <2>2, <1>1 DEF AccountTypeOK
<1>5. ASSUME NEW b \in Browsers, NEW s \in Secrets, NEW c \in Recovery, VerifyRecovery(b, s, c)
      PROVE  MissesInv'
  <2>1. misses' = <<>> /\ account'.failures = 0
    BY <1>5 DEF VerifyRecovery, SignInWithMfa, AccountTypeOK
  <2> QED BY <2>1, <1>1
<1>6. ASSUME NEW b \in Browsers, NEW s \in Secrets, Enroll(b, s)
      PROVE  MissesInv'
  <2>1. /\ account'.failures = account.failures /\ account'.lockedUntil = account.lockedUntil
        /\ misses' = misses /\ now' = now
    BY <1>6 DEF Enroll, AccountTypeOK
  <2> QED BY <2>1, <1>2
<1>7. ASSUME NEW b \in Browsers, Disable(b)
      PROVE  MissesInv'
  BY <1>7, <1>1 DEF Disable, NewAccount
<1>8. CASE Tick \/ UNCHANGED vars \/ \E b \in Browsers : Login(b)
  BY <1>8, <1>2 DEF Tick, vars, Login
<1> QED BY <1>3, <1>4, <1>5, <1>6, <1>7, <1>8 DEF Next

\* Between a wrong code and the one MAX_FAILURES later a lockout has passed,
\* whichever browsers entered them and whatever else they did.
THEOREM GuessesSpaced == Spec => []GuessesAreSpaced
<1>1. MissesInv => GuessesAreSpaced
  BY DEF MissesInv
<1> QED BY <1>1, TypeInit, TypeStep, MissesInit, MissesStep, PTL DEF Spec
-----------------------------------------------------------------------------
(* Turning the factor off                                                  *)

\* A session of level mfa began with a code that its own browser entered.
SessionsInv ==
    \A b \in Browsers : session[b].level = "mfa" =>
       \E c \in accepted : c.by = b /\ c.at = session[b].at

LEMMA SessionsInit == Init => SessionsInv
BY DEF Init, SessionsInv, NoSession

LEMMA SessionsStep == TypeOK /\ SessionsInv /\ [Next]_vars => SessionsInv'
<1> SUFFICES ASSUME BrowsersTypeOK, SessionsInv, [Next]_vars
             PROVE  SessionsInv'
  BY DEF TypeOK, BrowsersTypeOK
<1>1. ASSUME NEW b \in Browsers, NEW s, NEW digits, SignInWithMfa(b, s, digits)
      PROVE  SessionsInv'
  <2> DEFINE new == [secret |-> s, digits |-> digits, by |-> b, at |-> now]
  <2>1. /\ accepted' = accepted \cup {new} /\ new.by = b /\ new.at = now
        /\ session'[b].at = now
        /\ \A a \in Browsers \ {b} : session'[a] = session[a]
    BY <1>1 DEF SignInWithMfa, BrowsersTypeOK
  <2> HIDE DEF new
  <2> QED BY <2>1 DEF SessionsInv
<1>2. ASSUME NEW b \in Browsers, Login(b)
      PROVE  SessionsInv'
  BY <1>2 DEF Login, SessionsInv, BrowsersTypeOK
<1>3. ASSUME UNCHANGED <<session, accepted>>
      PROVE  SessionsInv'
  BY <1>3 DEF SessionsInv
<1>4. ASSUME NEW b \in Browsers, NEW digits \in Digits, VerifyDigits(b, digits)
      PROVE  SessionsInv'
  BY <1>4, <1>1, <1>3 DEF VerifyDigits
<1>5. ASSUME NEW b \in Browsers, NEW digits \in Digits, Confirm(b, digits)
      PROVE  SessionsInv'
  BY <1>5, <1>1 DEF Confirm
<1>6. ASSUME NEW b \in Browsers, NEW s \in Secrets, NEW c \in Recovery, VerifyRecovery(b, s, c)
      PROVE  SessionsInv'
  BY <1>6, <1>1 DEF VerifyRecovery
<1>7. ASSUME NEW b \in Browsers, \/ Disable(b)
                                 \/ \E s \in Secrets : Enroll(b, s)
      PROVE  SessionsInv'
  BY <1>7, <1>3 DEF Disable, Enroll
<1>8. CASE Tick \/ UNCHANGED vars
  BY <1>8, <1>3 DEF Tick, vars
<1> QED BY <1>2, <1>4, <1>5, <1>6, <1>7, <1>8 DEF Next

\* The step-up of the disable route asks for a code of the browser's own, not
\* for a password, and for a recent one.
THEOREM DisabledByProof == Spec => DisabledOnlyByProof
<1>1. SessionsInv =>
         \A b \in Browsers : Disable(b) => \E c \in accepted : c.by = b /\ now - c.at <= FreshAge
  BY DEF SessionsInv, Disable, StrongFresh, Fresh
<1> QED BY <1>1, TypeInit, TypeStep, SessionsInit, SessionsStep, PTL DEF DisabledOnlyByProof, Spec
=============================================================================
