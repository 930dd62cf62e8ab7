--------------------------- MODULE DispatchProofs ---------------------------
(***************************************************************************)
(* Proofs about Dispatch and Surface, for every set of sources, whatever   *)
(* they date, level, scope and publish, every window, level and scope a    *)
(* program may ask for, and every credential a request may carry.          *)
(***************************************************************************)
EXTENDS Surface, TLAPS

BuildTypeOK ==
    /\ copies \in [Lineages -> Copies]
    /\ guard \in Guards \cup {NoGuard}
    /\ builds \in 0..MaxBuilds
    /\ asked \in [Lineages -> SUBSET (Windows \cup Assurances)]

Places == {"idle", "arrived", "validating", "dating", "levelling", "handling", "done"}

RequestTypeOK ==
    /\ pc \in Places
    /\ sent \in [Lineages -> Credentials \cup {NoCredential}]
    /\ scopes \in ScopeSets \cup {{}}
    /\ decider \in Copies \cup {NoGuard}
    /\ records \in [Lineages -> Credentials \cup {NoCredential}]
    /\ reply \in Statuses
    /\ now \in 0..MaxClock

\* A copy carries exactly what was asked of it.
Carries(c, requirements) ==
    /\ requirements \cap Windows = IF c.window = NoWindow THEN {} ELSE {c.window}
    /\ requirements \cap Assurances = IF c.assurance = NoAssurance THEN {} ELSE {c.assurance}
AsAsked(c) == Carries(c, asked[c.lineage])

\* Until the guard is built each copy carries what was asked of it, then each
\* of the guard's; the guard is of one kind, and never optional and guarded.
CopiesInv ==
    \A l \in Lineages :
        /\ copies[l].lineage = l
        /\ copies[l].optional => ~Guarded(copies[l])
        /\ guard = NoGuard => AsAsked(copies[l])

GuardInv ==
    guard # NoGuard =>
        /\ EachGuarded(guard.members)
        /\ guard.optional => \A i \in DOMAIN guard.members : ~Guarded(guard.members[i])
        /\ ~guard.multi => Len(guard.members) = 1
        /\ \A i \in DOMAIN guard.members : AsAsked(guard.members[i])

\* The copy that authenticates the request is one of the guard's, found by its
\* credential, on a route whose scopes the guard can check.
Decided ==
    /\ \E i \in DOMAIN guard.members : decider = guard.members[i]
    /\ Presented # NoCredential
    /\ ~Misconfigured

Passed == (scopes = {} \/ decider.lineage \in Scoped) /\ scopes \subseteq Presented.scopes

\* Nothing was asked of the guard, and nothing presented to it.
Anonymous ==
    /\ scopes = {}
    /\ \A l \in MemberSet : asked[l] = {} /\ sent[l] = NoCredential
    /\ \A l \in Lineages : records[l] = NoCredential

\* What a request may have been told
Told(answer) ==
    /\ answer = "accepted" => Decided /\ Passed /\ records[decider.lineage] = Presented
    /\ answer = "anonymous" => Anonymous

\* What a challenge asks for is what was asked of the source that sent it: the
\* levels always, the window too when the guard sent it.  By then the guard is
\* built.
AsksWhatWasAsked(sentChallenge) ==
    LET asks == asked[sentChallenge.source]
    IN  /\ asks \cap Assurances =
              IF sentChallenge.assurance = NoAssurance THEN {} ELSE {sentChallenge.assurance}
        /\ sentChallenge.from = "guard" =>
              asks \cap Windows =
                  IF sentChallenge.window = NoWindow THEN {} ELSE {sentChallenge.window}

ChallengeInv ==
    /\ challenge \in Challenges \cup {NoChallenge}
    /\ challenge # NoChallenge =>
          /\ guard # NoGuard
          /\ pc = "done" \/ builds = MaxBuilds
          /\ AsksWhatWasAsked(challenge)

RequestInv ==
    /\ pc # "idle" => guard # NoGuard
    /\ pc \notin {"handling", "done"} =>
          reply = "none" /\ \A l \in Lineages : records[l] = NoCredential
    /\ pc = "handling" => reply \in {"accepted", "anonymous"}
    /\ pc \in {"validating", "dating", "levelling"} => Decided
    /\ pc \in {"dating", "levelling"} => Passed
    /\ Told(reply)
    /\ \A l \in Lineages : records[l] # NoCredential =>
          l = decider.lineage /\ decider \in Copies

IInv == BuildTypeOK /\ CopiesInv /\ GuardInv /\ RequestTypeOK /\ RequestInv /\ ChallengeInv

LEMMA TypeInit == Init => BuildTypeOK /\ RequestTypeOK
<1> SUFFICES ASSUME Init PROVE BuildTypeOK /\ RequestTypeOK
  OBVIOUS
<1> USE KindsAssumption DEF Init
<1>1. BuildTypeOK
  BY DEF BuildTypeOK, Copy, Copies
<1>2. RequestTypeOK
  BY DEF RequestTypeOK, Places, Statuses
<1> QED BY <1>1, <1>2

\* The function that a tuple of copies is built as
LEMMA TupleOfCopies ==
    ASSUME NEW n \in Nat, NEW f \in [1..n -> Copies]
    PROVE  f \in Seq(Copies) /\ Len(f) = n /\ DOMAIN f = 1..n
OBVIOUS

\* A window or a level is set in every copy of a combination.
LEMMA MapMembers ==
    ASSUME NEW members \in Seq(Copies),
           NEW c \in [DOMAIN members -> Copies]
    PROVE  /\ c \in Seq(Copies) /\ DOMAIN c = DOMAIN members /\ Len(c) = Len(members)
<1>1. Len(members) \in Nat /\ DOMAIN members = 1..Len(members)
  OBVIOUS
<1>2. c \in Seq(Copies) /\ Len(c) = Len(members) /\ DOMAIN c = 1..Len(members)
  BY <1>1, TupleOfCopies
<1> QED BY <1>1, <1>2

\* What a builder on a source leaves.
LEMMA BuildSourceEffect ==
    ASSUME BuildTypeOK, CopiesInv, GuardInv, NEW l \in Lineages, BuildSource(l)
    PROVE  BuildTypeOK' /\ CopiesInv' /\ GuardInv' /\ pc = "idle" /\ UNCHANGED <<requestVars, now>>
<1> USE DEF BuildTypeOK
<1>1. /\ pc = "idle" /\ UNCHANGED <<requestVars, now, guard>> /\ guard = NoGuard
      /\ builds' \in 0..MaxBuilds
  BY KindsAssumption DEF BuildSource, Build
<1>2. copies[l] \in Copies /\ copies[l].lineage = l /\ AsAsked(copies[l])
  BY <1>1 DEF CopiesInv
<1>3. ASSUME NEW c \in Copies, c.lineage = l, copies' = [copies EXCEPT ![l] = c],
             c.optional => ~Guarded(c),
             NEW added \in SUBSET (Windows \cup Assurances),
             asked' = [asked EXCEPT ![l] = asked[l] \cup added],
             (asked[l] \cup added) \cap Windows = IF c.window = NoWindow THEN {} ELSE {c.window},
             (asked[l] \cup added) \cap Assurances = IF c.assurance = NoAssurance THEN {} ELSE {c.assurance}
      PROVE  BuildTypeOK' /\ CopiesInv' /\ GuardInv'
  <2>1. copies' \in [Lineages -> Copies] /\ asked' \in [Lineages -> SUBSET (Windows \cup Assurances)]
    BY <1>3
  <2>2. \A m \in Lineages : copies'[m] = IF m = l THEN c ELSE copies[m]
    BY <1>3
  <2>3. \A m \in Lineages : asked'[m] = IF m = l THEN asked[l] \cup added ELSE asked[m]
    BY <1>3
  <2>4. BuildTypeOK' /\ GuardInv'
    BY <1>1, <2>1 DEF GuardInv
  <2>5. CopiesInv'
    <3> SUFFICES ASSUME NEW m \in Lineages
                 PROVE  /\ copies'[m].lineage = m
                        /\ copies'[m].optional => ~Guarded(copies'[m])
                        /\ AsAsked(copies[m])'
      BY DEF CopiesInv, Guarded
    <3>1. CASE m = l
      BY <1>3, <2>2, <2>3, <3>1 DEF AsAsked, Carries
    <3>2. CASE m # l
      BY <1>1, <2>2, <2>3, <3>2 DEF AsAsked, Carries, CopiesInv
    <3> QED BY <3>1, <3>2
  <2> QED BY <2>4, <2>5
<1>4. ASSUME NEW requirement
      PROVE  Ask({l}, requirement) => asked' = [asked EXCEPT ![l] = asked[l] \cup {requirement}]
  BY DEF Ask
<1>5. CASE \E w \in Windows :
              /\ Fresh(copies[l], w)
              /\ copies' = [copies EXCEPT ![l].window = w]
              /\ Ask({l}, w)
  <2>1. PICK w \in Windows : /\ Fresh(copies[l], w)
                             /\ copies' = [copies EXCEPT ![l].window = w]
                             /\ Ask({l}, w)
    BY <1>5
  <2> DEFINE c == [copies[l] EXCEPT !.window = w]
  <2>2. /\ copies' = [copies EXCEPT ![l] = c]
        /\ asked' = [asked EXCEPT ![l] = asked[l] \cup {w}]
    BY <1>4, <2>1
  <2>3. c \in Copies /\ c.lineage = l /\ ~c.optional /\ c.window = w /\ c.assurance = copies[l].assurance
    BY <1>2, <2>1 DEF Copies, Fresh
  <2>4. /\ (asked[l] \cup {w}) \cap Windows = {w} /\ w # NoWindow
        /\ (asked[l] \cup {w}) \cap Assurances = asked[l] \cap Assurances
    BY <1>2, <2>1, NamesAssumption DEF AsAsked, Carries, Fresh
  <2>5. c.optional => ~Guarded(c)
    BY <2>3
  <2> DEFINE added == {w}
  <2>6. /\ added \in SUBSET (Windows \cup Assurances)
        /\ asked' = [asked EXCEPT ![l] = asked[l] \cup added]
        /\ (asked[l] \cup added) \cap Windows = IF c.window = NoWindow THEN {} ELSE {c.window}
        /\ (asked[l] \cup added) \cap Assurances = IF c.assurance = NoAssurance THEN {} ELSE {c.assurance}
    <3> HIDE DEF c
    <3> QED BY <1>2, <2>1, <2>2, <2>3, <2>4 DEF AsAsked, Carries
  <2> HIDE DEF c, added
  <2> QED BY <1>1, <1>3, <2>2, <2>3, <2>5, <2>6
<1>6. CASE \E a \in Assurances :
              /\ SteppedUp(copies[l], a)
              /\ copies' = [copies EXCEPT ![l].assurance = a]
              /\ Ask({l}, a)
  <2>1. PICK a \in Assurances : /\ SteppedUp(copies[l], a)
                                /\ copies' = [copies EXCEPT ![l].assurance = a]
                                /\ Ask({l}, a)
    BY <1>6
  <2> DEFINE c == [copies[l] EXCEPT !.assurance = a]
  <2>2. /\ copies' = [copies EXCEPT ![l] = c]
        /\ asked' = [asked EXCEPT ![l] = asked[l] \cup {a}]
    BY <1>4, <2>1
  <2>3. c \in Copies /\ c.lineage = l /\ ~c.optional /\ c.assurance = a /\ c.window = copies[l].window
    BY <1>2, <2>1 DEF Copies, SteppedUp
  <2>4. /\ (asked[l] \cup {a}) \cap Assurances = {a} /\ a # NoAssurance
        /\ (asked[l] \cup {a}) \cap Windows = asked[l] \cap Windows
    BY <1>2, <2>1, NamesAssumption DEF AsAsked, Carries, SteppedUp
  <2>5. c.optional => ~Guarded(c)
    BY <2>3
  <2> DEFINE added == {a}
  <2>6. /\ added \in SUBSET (Windows \cup Assurances)
        /\ asked' = [asked EXCEPT ![l] = asked[l] \cup added]
        /\ (asked[l] \cup added) \cap Windows = IF c.window = NoWindow THEN {} ELSE {c.window}
        /\ (asked[l] \cup added) \cap Assurances = IF c.assurance = NoAssurance THEN {} ELSE {c.assurance}
    <3> HIDE DEF c
    <3> QED BY <1>2, <2>1, <2>2, <2>3, <2>4 DEF AsAsked, Carries
  <2> HIDE DEF c, added
  <2> QED BY <1>1, <1>3, <2>2, <2>3, <2>5, <2>6
<1>7. CASE /\ ~Guarded(copies[l])
           /\ copies' = [copies EXCEPT ![l].optional = TRUE]
           /\ UNCHANGED asked
  <2> DEFINE c == [copies[l] EXCEPT !.optional = TRUE]
             none == {}
  <2>1. /\ copies' = [copies EXCEPT ![l] = c]
        /\ asked' = [asked EXCEPT ![l] = asked[l] \cup none]
    BY <1>7
  <2>2. c \in Copies /\ c.lineage = l /\ c.assurance = copies[l].assurance /\ c.window = copies[l].window
    BY <1>2 DEF Copies
  <2>3. asked[l] \cup none = asked[l] /\ none \in SUBSET (Windows \cup Assurances)
    OBVIOUS
  <2>4. ~Guarded(c)
    BY <1>7, <2>2 DEF Guarded
  <2>5. /\ (asked[l] \cup none) \cap Windows = IF c.window = NoWindow THEN {} ELSE {c.window}
        /\ (asked[l] \cup none) \cap Assurances = IF c.assurance = NoAssurance THEN {} ELSE {c.assurance}
    <3> HIDE DEF c, none
    <3> QED BY <1>2, <2>2, <2>3 DEF AsAsked, Carries
  <2> HIDE DEF c, none
  <2> QED BY <1>1, <1>3, <2>1, <2>2, <2>3, <2>4, <2>5
<1> QED BY <1>1, <1>5, <1>6, <1>7 DEF BuildSource

\* A guard made of copies, of one kind, carries what was asked of them.
LEMMA NewGuard ==
    ASSUME BuildTypeOK, CopiesInv, guard = NoGuard,
           NEW g \in Guards, guard' = g, UNCHANGED <<copies, builds, asked>>,
           EachGuarded(g.members),
           g.optional => \A i \in DOMAIN g.members : ~Guarded(g.members[i]),
           ~g.multi => Len(g.members) = 1,
           \A i \in DOMAIN g.members : \E l \in Lineages : g.members[i] = copies[l]
    PROVE  BuildTypeOK' /\ CopiesInv' /\ GuardInv'
<1>1. guard' # NoGuard
  BY GuardsAssumption
<1>2. BuildTypeOK'
  BY DEF BuildTypeOK
<1>3. CopiesInv'
  BY <1>1 DEF CopiesInv, Guarded
<1>4. \A i \in DOMAIN g.members : AsAsked(g.members[i])
  BY DEF CopiesInv
<1>5. GuardInv'
  BY <1>1, <1>4 DEF GuardInv, EachGuarded, Guarded, AsAsked, Carries
<1> QED BY <1>2, <1>3, <1>5

LEMMA UseSourceEffect ==
    ASSUME BuildTypeOK, CopiesInv, GuardInv, NEW l \in Lineages, UseSource(l)
    PROVE  BuildTypeOK' /\ CopiesInv' /\ GuardInv' /\ guard = NoGuard /\ UNCHANGED <<requestVars, now>>
<1> DEFINE g == [multi |-> FALSE, members |-> <<copies[l]>>, optional |-> copies[l].optional]
<1>1. /\ guard = NoGuard /\ guard' = g
      /\ UNCHANGED <<copies, builds, asked, requestVars, now>>
  BY DEF UseSource
<1>2. copies[l] \in Copies
  BY DEF BuildTypeOK
<1>3. g \in Guards /\ g.members = <<copies[l]>> /\ g.optional = copies[l].optional /\ ~g.multi
  BY <1>2 DEF Guards, Copies
<1> HIDE DEF g
<1>4. \A i \in DOMAIN g.members : g.members[i] = copies[l]
  BY <1>3
<1>5. EachGuarded(g.members) /\ Len(g.members) = 1
  BY <1>3, <1>4 DEF EachGuarded
<1>6. g.optional => \A i \in DOMAIN g.members : ~Guarded(g.members[i])
  BY <1>3, <1>4 DEF CopiesInv
<1> QED BY <1>1, <1>3, <1>4, <1>5, <1>6, NewGuard

LEMMA CombineEffect ==
    ASSUME BuildTypeOK, CopiesInv, GuardInv, NEW order \in Orders, Combine(order)
    PROVE  BuildTypeOK' /\ CopiesInv' /\ GuardInv' /\ guard = NoGuard /\ UNCHANGED <<requestVars, now>>
<1> DEFINE members == [i \in DOMAIN order |-> copies[order[i]]]
           g == [multi |-> TRUE, members |-> members, optional |-> FALSE]
<1>1. /\ guard = NoGuard /\ guard' = g /\ EachGuarded(members)
      /\ UNCHANGED <<copies, builds, asked, requestVars, now>>
  BY DEF Combine
<1>2. order \in Seq(Lineages)
  BY KindsAssumption
<1>3. Len(order) \in Nat /\ DOMAIN order = 1..Len(order)
  BY <1>2
<1>4. \A i \in DOMAIN order : order[i] \in Lineages
  BY <1>2
<1>5. members \in [1..Len(order) -> Copies]
  BY <1>3, <1>4 DEF BuildTypeOK
<1>6. \A i \in DOMAIN order : members[i] = copies[order[i]]
  OBVIOUS
<1> HIDE DEF members
<1>7. members \in Seq(Copies) /\ DOMAIN members = DOMAIN order
  BY <1>3, <1>5, TupleOfCopies
<1>8. g \in Guards /\ g.members = members /\ ~g.optional /\ g.multi
  BY <1>7 DEF Guards
<1> HIDE DEF g
<1>9. \A i \in DOMAIN g.members : \E l \in Lineages : g.members[i] = copies[l]
  BY <1>4, <1>6, <1>7, <1>8
<1> QED BY <1>1, <1>7, <1>8, <1>9, NewGuard

\* A builder on a combination leaves each of its copies with what was asked.
LEMMA NewMembers ==
    ASSUME BuildTypeOK, CopiesInv, GuardInv, guard # NoGuard, guard.multi, ~guard.optional,
           NEW c \in [DOMAIN guard.members -> Copies],
           guard' = [guard EXCEPT !.members = c], EachGuarded(c),
           \A i \in DOMAIN guard.members : Carries(c[i], asked'[c[i].lineage]),
           UNCHANGED copies, builds' \in 0..MaxBuilds,
           asked' \in [Lineages -> SUBSET (Windows \cup Assurances)]
    PROVE  BuildTypeOK' /\ CopiesInv' /\ GuardInv'
<1>1. guard \in Guards /\ guard.members \in Seq(Copies)
  BY DEF BuildTypeOK, Guards
<1>2. c \in Seq(Copies) /\ DOMAIN c = DOMAIN guard.members
  BY <1>1, MapMembers
<1>3. guard' \in Guards /\ guard'.members = c /\ guard'.multi /\ ~guard'.optional
  BY <1>1, <1>2 DEF Guards
<1>4. guard' # NoGuard
  BY <1>3, GuardsAssumption
<1>5. BuildTypeOK'
  BY <1>2, <1>3 DEF BuildTypeOK
<1>6. CopiesInv'
  BY <1>4 DEF CopiesInv, Guarded
<1>7. EachGuarded(guard.members)'
  BY <1>3 DEF EachGuarded
<1>8. \A i \in DOMAIN guard'.members : Carries(guard'.members[i], asked'[guard'.members[i].lineage])
  BY <1>2, <1>3
<1>9. GuardInv'
  BY <1>3, <1>4, <1>7, <1>8 DEF GuardInv, AsAsked
<1> QED BY <1>5, <1>6, <1>9

LEMMA AskMembers ==
    ASSUME BuildTypeOK, guard # NoGuard, NEW requirement \in Windows \cup Assurances,
           Ask(MemberSet, requirement)
    PROVE  /\ asked' \in [Lineages -> SUBSET (Windows \cup Assurances)]
           /\ \A i \in DOMAIN guard.members :
                 asked'[guard.members[i].lineage] = asked[guard.members[i].lineage] \cup {requirement}
<1>1. \A i \in DOMAIN guard.members :
         guard.members[i] \in Copies /\ guard.members[i].lineage \in MemberSet
  <2>1. guard.members \in Seq(Copies)
    BY DEF BuildTypeOK, Guards
  <2>2. \A i \in DOMAIN guard.members : Members[i] = guard.members[i].lineage
    BY DEF Members
  <2> QED BY <2>1, <2>2 DEF MemberSet
<1>2. asked' = [l \in Lineages |-> IF l \in MemberSet THEN asked[l] \cup {requirement} ELSE asked[l]]
  BY DEF Ask
<1>3. \A i \in DOMAIN guard.members : guard.members[i].lineage \in Lineages
  BY <1>1 DEF Copies
<1> QED BY <1>1, <1>2, <1>3 DEF BuildTypeOK

LEMMA BuildMultiEffect ==
    ASSUME BuildTypeOK, CopiesInv, GuardInv, BuildMulti
    PROVE  BuildTypeOK' /\ CopiesInv' /\ GuardInv' /\ pc = "idle" /\ UNCHANGED <<requestVars, now>>
<1>1. /\ pc = "idle" /\ guard # NoGuard /\ guard.multi
      /\ UNCHANGED <<requestVars, now, copies>> /\ builds' \in 0..MaxBuilds
  BY KindsAssumption DEF BuildMulti, Build, BuildTypeOK
<1>2. \A i \in DOMAIN guard.members : guard.members[i] \in Copies
  BY <1>1 DEF BuildTypeOK, Guards
<1>3. ASSUME NEW w \in Windows, ~guard.optional,
             \A i \in DOMAIN guard.members : Fresh(guard.members[i], w),
             guard' = [guard EXCEPT !.members = [i \in DOMAIN @ |-> [@[i] EXCEPT !.window = w]]],
             Ask(MemberSet, w)
      PROVE  BuildTypeOK' /\ CopiesInv' /\ GuardInv'
  <2> DEFINE c == [i \in DOMAIN guard.members |-> [guard.members[i] EXCEPT !.window = w]]
  <2>1. guard' = [guard EXCEPT !.members = c]
    BY <1>3
  <2>2. ASSUME NEW i \in DOMAIN guard.members
        PROVE  /\ c[i] \in Copies /\ c[i].window = w /\ w # NoWindow
               /\ c[i].lineage = guard.members[i].lineage
               /\ c[i].assurance = guard.members[i].assurance
    BY <1>2, NamesAssumption DEF Copies
  <2>3. c \in [DOMAIN guard.members -> Copies]
    BY <2>2
  <2> HIDE DEF c
  <2>4. EachGuarded(c)
    BY <1>1, <2>2, <2>3 DEF EachGuarded, GuardInv
  <2>5. /\ asked' \in [Lineages -> SUBSET (Windows \cup Assurances)]
        /\ \A i \in DOMAIN guard.members :
              asked'[guard.members[i].lineage] = asked[guard.members[i].lineage] \cup {w}
    BY <1>1, <1>3, AskMembers
  <2>6. ASSUME NEW i \in DOMAIN guard.members
        PROVE  Carries(c[i], asked'[c[i].lineage])
    <3>1. AsAsked(guard.members[i]) /\ guard.members[i].window = NoWindow
      BY <1>1, <1>3 DEF GuardInv, Fresh
    <3> DEFINE before == asked[guard.members[i].lineage]
    <3>2. before \cap Windows = {} /\
          before \cap Assurances =
              IF guard.members[i].assurance = NoAssurance THEN {} ELSE {guard.members[i].assurance}
      BY <3>1 DEF AsAsked, Carries
    <3>3. asked'[c[i].lineage] = before \cup {w}
      BY <2>2, <2>5
    <3> HIDE DEF before
    <3>4. (before \cup {w}) \cap Windows = {w} /\ (before \cup {w}) \cap Assurances = before \cap Assurances
      BY <3>2, NamesAssumption
    <3> QED BY <2>2, <3>2, <3>3, <3>4 DEF Carries
  <2> QED BY <1>1, <1>3, <2>1, <2>3, <2>4, <2>5, <2>6, NewMembers
<1>4. ASSUME NEW a \in Assurances, ~guard.optional,
             \A i \in DOMAIN guard.members : SteppedUp(guard.members[i], a),
             guard' = [guard EXCEPT !.members = [i \in DOMAIN @ |-> [@[i] EXCEPT !.assurance = a]]],
             Ask(MemberSet, a)
      PROVE  BuildTypeOK' /\ CopiesInv' /\ GuardInv'
  <2> DEFINE c == [i \in DOMAIN guard.members |-> [guard.members[i] EXCEPT !.assurance = a]]
  <2>1. guard' = [guard EXCEPT !.members = c]
    BY <1>4
  <2>2. ASSUME NEW i \in DOMAIN guard.members
        PROVE  /\ c[i] \in Copies /\ c[i].assurance = a /\ a # NoAssurance
               /\ c[i].lineage = guard.members[i].lineage
               /\ c[i].window = guard.members[i].window
    BY <1>2, NamesAssumption DEF Copies
  <2>3. c \in [DOMAIN guard.members -> Copies]
    BY <2>2
  <2> HIDE DEF c
  <2>4. EachGuarded(c)
    BY <1>1, <2>2, <2>3 DEF EachGuarded, GuardInv
  <2>5. /\ asked' \in [Lineages -> SUBSET (Windows \cup Assurances)]
        /\ \A i \in DOMAIN guard.members :
              asked'[guard.members[i].lineage] = asked[guard.members[i].lineage] \cup {a}
    BY <1>1, <1>4, AskMembers
  <2>6. ASSUME NEW i \in DOMAIN guard.members
        PROVE  Carries(c[i], asked'[c[i].lineage])
    <3>1. AsAsked(guard.members[i]) /\ guard.members[i].assurance = NoAssurance
      BY <1>1, <1>4 DEF GuardInv, SteppedUp
    <3> DEFINE before == asked[guard.members[i].lineage]
    <3>2. before \cap Assurances = {} /\
          before \cap Windows =
              IF guard.members[i].window = NoWindow THEN {} ELSE {guard.members[i].window}
      BY <3>1 DEF AsAsked, Carries
    <3>3. asked'[c[i].lineage] = before \cup {a}
      BY <2>2, <2>5
    <3> HIDE DEF before
    <3>4. (before \cup {a}) \cap Assurances = {a} /\ (before \cup {a}) \cap Windows = before \cap Windows
      BY <3>2, NamesAssumption
    <3> QED BY <2>2, <3>2, <3>3, <3>4 DEF Carries
  <2> QED BY <1>1, <1>4, <2>1, <2>3, <2>4, <2>5, <2>6, NewMembers
<1>5. CASE /\ \A i \in DOMAIN guard.members : ~Guarded(guard.members[i])
           /\ guard' = [guard EXCEPT !.optional = TRUE]
           /\ UNCHANGED asked
  <2>1. /\ guard' \in Guards /\ guard'.members = guard.members /\ guard'.multi
    <3>1. guard \in Guards
      BY <1>1 DEF BuildTypeOK
    <3> QED BY <1>1, <1>5, <3>1 DEF Guards
  <2>2. guard' # NoGuard
    BY <2>1, GuardsAssumption
  <2>3. BuildTypeOK'
    BY <1>1, <1>5, <2>1 DEF BuildTypeOK
  <2>4. CopiesInv'
    BY <1>1, <2>2 DEF CopiesInv, Guarded
  <2>5. GuardInv'
    BY <1>1, <1>5, <2>1, <2>2 DEF GuardInv, EachGuarded, Guarded, AsAsked, Carries
  <2> QED BY <1>1, <2>3, <2>4, <2>5
<1>6. CASE \E w \in Windows :
              /\ ~guard.optional
              /\ \A i \in DOMAIN guard.members : Fresh(guard.members[i], w)
              /\ guard' = [guard EXCEPT !.members = [i \in DOMAIN @ |-> [@[i] EXCEPT !.window = w]]]
              /\ Ask(MemberSet, w)
  BY <1>1, <1>3, <1>6
<1>7. CASE \E a \in Assurances :
              /\ ~guard.optional
              /\ \A i \in DOMAIN guard.members : SteppedUp(guard.members[i], a)
              /\ guard' = [guard EXCEPT !.members = [i \in DOMAIN @ |-> [@[i] EXCEPT !.assurance = a]]]
              /\ Ask(MemberSet, a)
  BY <1>1, <1>4, <1>7
<1> QED BY <1>1, <1>5, <1>6, <1>7 DEF BuildMulti

\* The guard of a request under way is built, so that builders find it idle.
LEMMA BuildKeepsRequest ==
    ASSUME RequestTypeOK, RequestInv, pc = "idle", UNCHANGED <<requestVars, now>>
    PROVE  RequestTypeOK' /\ RequestInv'
<1>1. UNCHANGED <<pc, sent, scopes, decider, records, reply, now>>
  BY DEF requestVars
<1>2. RequestTypeOK'
  BY <1>1 DEF RequestTypeOK
<1>3. reply = "none" /\ \A l \in Lineages : records[l] = NoCredential
  BY DEF RequestInv
<1>4. RequestInv'
  BY <1>1, <1>3 DEF RequestInv, Told
<1> QED BY <1>2, <1>4

LEMMA RequestKeepsBuild ==
    ASSUME BuildTypeOK, CopiesInv, GuardInv, UNCHANGED <<copies, guard, asked>>, builds' \in 0..MaxBuilds
    PROVE  BuildTypeOK' /\ CopiesInv' /\ GuardInv'
<1>1. BuildTypeOK' /\ CopiesInv'
  BY DEF BuildTypeOK, CopiesInv, Guarded, AsAsked, Carries
<1>2. GuardInv'
  BY DEF GuardInv, EachGuarded, Guarded, AsAsked, Carries
<1> QED BY <1>1, <1>2

LEMMA SameRequest ==
    ASSUME UNCHANGED <<guard, asked, sent, scopes, decider>>
    PROVE  /\ Decided => Decided'
           /\ Passed => Passed'
           /\ Presented' = Presented
           /\ MemberSet' = MemberSet
           /\ UNCHANGED records /\ Anonymous => Anonymous'
<1>1. Presented' = Presented
  BY DEF Presented
<1>2. Misconfigured' = Misconfigured
  BY DEF Misconfigured, Published
<1>3. MemberSet' = MemberSet
  BY DEF MemberSet, Members
<1>4. Decided => Decided'
  BY <1>1, <1>2 DEF Decided
<1>5. Passed => Passed'
  BY <1>1 DEF Passed
<1>6. UNCHANGED records /\ Anonymous => Anonymous'
  BY <1>3 DEF Anonymous
<1> QED BY <1>1, <1>3, <1>4, <1>5, <1>6

\* An answer that the request may be given keeps the invariant.
LEMMA AnswerEffect ==
    ASSUME RequestTypeOK, RequestInv, pc # "idle", NEW status \in Statuses, Reply(status), Told(status)
    PROVE  RequestTypeOK' /\ RequestInv'
<1>1. /\ pc' = "done" /\ reply' = status
      /\ UNCHANGED <<guard, asked, sent, scopes, decider, records, now>>
  BY DEF Reply, buildVars
<1>2. RequestTypeOK'
  BY <1>1 DEF RequestTypeOK, Places
<1>3. Told(reply)'
  BY <1>1, SameRequest DEF Told
<1>4. RequestInv'
  BY <1>1, <1>3 DEF RequestInv
<1> QED BY <1>2, <1>4

\* Of the answers only two say something of the request.
LEMMA PlainAnswers ==
    \A status \in Statuses \ {"accepted", "anonymous"} : Told(status)
BY DEF Told, Statuses

LEMMA ArriveEffect ==
    ASSUME IInv, Arrive
    PROVE  RequestTypeOK' /\ RequestInv'
<1>1. /\ pc = "idle" /\ guard # NoGuard /\ pc' = "arrived"
      /\ UNCHANGED <<guard, asked, decider, records, reply, now>>
  BY DEF Arrive, buildVars
<1>2. sent' \in [Lineages -> Credentials \cup {NoCredential}] /\ scopes' \in ScopeSets
  BY DEF Arrive
<1>3. RequestTypeOK'
  BY <1>1, <1>2 DEF IInv, RequestTypeOK, Places
<1>4. reply = "none" /\ \A l \in Lineages : records[l] = NoCredential
  BY <1>1 DEF IInv, RequestInv
<1>5. RequestInv'
  BY <1>1, <1>4 DEF RequestInv, Told
<1> QED BY <1>3, <1>5

\* The guard of an anonymous caller: optional, so not asked of anything.
LEMMA OptionalUnasked ==
    ASSUME BuildTypeOK, GuardInv, guard # NoGuard, guard.optional
    PROVE  \A l \in MemberSet : asked[l] = {}
<1> SUFFICES ASSUME NEW i \in DOMAIN guard.members
             PROVE  asked[guard.members[i].lineage] = {}
  BY DEF MemberSet, Members
<1>1. AsAsked(guard.members[i]) /\ ~Guarded(guard.members[i])
  BY DEF GuardInv
<1>2. guard.members[i] \in Copies
  BY DEF BuildTypeOK, Guards
<1>3. asked[guard.members[i].lineage] \subseteq Windows \cup Assurances
  BY <1>2 DEF BuildTypeOK, Copies
<1> QED BY <1>1, <1>3 DEF AsAsked, Carries, Guarded

LEMMA DispatchEffect ==
    ASSUME IInv, Dispatch
    PROVE  RequestTypeOK' /\ RequestInv'
<1> DEFINE carries == {i \in DOMAIN guard.members : sent[guard.members[i].lineage] # NoCredential}
<1>1. pc = "arrived" /\ guard # NoGuard
  BY DEF Dispatch, IInv, RequestInv
<1>2. CASE Misconfigured /\ Answer("misconfigured")
  BY <1>1, <1>2, PlainAnswers, AnswerEffect DEF IInv, Answer, Statuses
<1>3. CASE ~Misconfigured /\ carries = {} /\ ~guard.optional /\ Answer("missing")
  BY <1>1, <1>3, PlainAnswers, AnswerEffect DEF IInv, Answer, Statuses
<1>4. CASE /\ ~Misconfigured /\ carries = {} /\ guard.optional
           /\ pc' = "handling"
           /\ reply' = "anonymous"
           /\ UNCHANGED <<buildVars, sent, scopes, decider, records, now>>
  <2>1. UNCHANGED <<guard, asked, sent, scopes, decider, records, now>>
    BY <1>4 DEF buildVars
  <2>2. reply' \in Statuses /\ reply' = "anonymous"
    BY <1>4 DEF Statuses
  <2>3. RequestTypeOK'
    BY <1>4, <2>1, <2>2 DEF IInv, RequestTypeOK, Places
  <2>4. \A l \in Lineages : records[l] = NoCredential
    BY <1>1 DEF IInv, RequestInv
  <2>5. scopes = {}
    BY <1>4 DEF Misconfigured
  <2>6. \A l \in MemberSet : sent[l] = NoCredential
    BY <1>4 DEF MemberSet, Members
  <2>7. Anonymous
    BY <1>1, <1>4, <2>4, <2>5, <2>6, OptionalUnasked DEF Anonymous, IInv
  <2>8. Anonymous'
    BY <2>1, <2>7, SameRequest
  <2>9. RequestInv'
    BY <1>1, <1>4, <2>1, <2>2, <2>4, <2>8 DEF RequestInv, Told
  <2> QED BY <2>3, <2>9
<1>5. CASE /\ ~Misconfigured
           /\ \E i \in carries :
                 /\ \A k \in carries : i <= k
                 /\ decider' = guard.members[i]
           /\ pc' = "validating"
           /\ UNCHANGED <<buildVars, sent, scopes, records, reply, now>>
  <2>1. UNCHANGED <<guard, asked, sent, scopes, records, reply, now>>
    BY <1>5 DEF buildVars
  <2>2. PICK i \in DOMAIN guard.members :
            sent[guard.members[i].lineage] # NoCredential /\ decider' = guard.members[i]
    BY <1>5
  <2>3. guard.members[i] \in Copies
    BY <1>1 DEF IInv, BuildTypeOK, Guards
  <2>4. RequestTypeOK'
    BY <1>5, <2>1, <2>2, <2>3 DEF IInv, RequestTypeOK, Places
  <2>5. ~Misconfigured'
    BY <1>5, <2>1 DEF Misconfigured, Published
  <2>6. Presented' # NoCredential
    BY <2>1, <2>2 DEF Presented
  <2>7. Decided'
    BY <2>1, <2>2, <2>5, <2>6 DEF Decided
  <2>8. reply = "none" /\ \A l \in Lineages : records[l] = NoCredential
    BY <1>1 DEF IInv, RequestInv
  <2>9. RequestInv'
    BY <1>1, <1>5, <2>1, <2>7, <2>8 DEF RequestInv, Told
  <2> QED BY <2>4, <2>9
<1> QED BY <1>2, <1>3, <1>4, <1>5 DEF Dispatch, WithoutCredential

LEMMA ValidatedEffect ==
    ASSUME IInv, Validated
    PROVE  RequestTypeOK' /\ RequestInv'
<1>1. pc = "validating" /\ guard # NoGuard /\ Decided
  BY DEF Validated, IInv, RequestInv
<1>2. CASE Answer("misconfigured")
  BY <1>1, <1>2, PlainAnswers, AnswerEffect DEF IInv, Answer, Statuses
<1>3. CASE Answer("refused")
  BY <1>1, <1>3, PlainAnswers, AnswerEffect DEF IInv, Answer, Statuses
<1>4. CASE /\ ~CannotCheckScopes
           /\ Presented.valid /\ scopes \subseteq Presented.scopes
           /\ pc' = "dating"
           /\ UNCHANGED <<buildVars, sent, scopes, decider, records, reply, now>>
  <2>1. UNCHANGED <<guard, asked, sent, scopes, decider, records, reply, now>>
    BY <1>4 DEF buildVars
  <2>2. Passed
    BY <1>4 DEF Passed, CannotCheckScopes
  <2>3. RequestTypeOK'
    BY <1>4, <2>1 DEF IInv, RequestTypeOK, Places
  <2>4. reply = "none" /\ \A l \in Lineages : records[l] = NoCredential
    BY <1>1 DEF IInv, RequestInv
  <2>5. RequestInv'
    BY <1>1, <1>4, <2>1, <2>2, <2>4, SameRequest DEF RequestInv, Told
  <2> QED BY <2>3, <2>5
<1> QED BY <1>2, <1>3, <1>4 DEF Validated

LEMMA DeciderIsCopy ==
    ASSUME IInv, guard # NoGuard, Decided
    PROVE  decider \in Copies /\ decider.lineage \in Lineages
<1>1. decider \in Copies
  BY DEF Decided, IInv, BuildTypeOK, Guards
<1> QED BY <1>1 DEF Copies

LEMMA DatedEffect ==
    ASSUME IInv, Dated
    PROVE  RequestTypeOK' /\ RequestInv'
<1>1. pc = "dating" /\ guard # NoGuard /\ Decided /\ Passed
  BY DEF Dated, IInv, RequestInv
<1>2. CASE StepUpError("stale")
  BY <1>1, <1>2, PlainAnswers, AnswerEffect DEF IInv, StepUpError, Statuses, StepUpStatuses
<1>3. CASE /\ pc' = "levelling"
           /\ UNCHANGED <<buildVars, sent, scopes, decider, records, reply, now>>
  <2>1. UNCHANGED <<guard, asked, sent, scopes, decider, records, reply, now>>
    BY <1>3 DEF buildVars
  <2>2. RequestTypeOK'
    BY <1>3, <2>1 DEF IInv, RequestTypeOK, Places
  <2>3. reply = "none" /\ \A l \in Lineages : records[l] = NoCredential
    BY <1>1 DEF IInv, RequestInv
  <2>4. RequestInv'
    BY <1>1, <1>3, <2>1, <2>3, SameRequest DEF RequestInv, Told
  <2> QED BY <2>2, <2>4
<1> QED BY <1>2, <1>3 DEF Dated

LEMMA LevelledEffect ==
    ASSUME IInv, Levelled
    PROVE  RequestTypeOK' /\ RequestInv'
<1>1. pc = "levelling" /\ guard # NoGuard /\ Decided /\ Passed
  BY DEF Levelled, IInv, RequestInv
<1>2. CASE StepUpError("insufficient")
  BY <1>1, <1>2, PlainAnswers, AnswerEffect DEF IInv, StepUpError, Statuses, StepUpStatuses
<1>3. CASE /\ pc' = "handling"
           /\ records' = [records EXCEPT ![decider.lineage] = Presented]
           /\ reply' = "accepted"
           /\ UNCHANGED <<buildVars, sent, scopes, decider, now>>
  <2>1. UNCHANGED <<guard, asked, sent, scopes, decider, now>>
    BY <1>3 DEF buildVars
  <2>2. decider \in Copies /\ decider.lineage \in Lineages
    BY <1>1, DeciderIsCopy
  <2>3. Presented \in Credentials \cup {NoCredential}
    BY <2>2 DEF Presented, IInv, RequestTypeOK
  <2>4. reply' \in Statuses /\ reply' = "accepted"
    BY <1>3 DEF Statuses
  <2>5. RequestTypeOK'
    BY <1>3, <2>1, <2>3, <2>4 DEF IInv, RequestTypeOK, Places
  <2>6. \A l \in Lineages : records[l] = NoCredential
    BY <1>1 DEF IInv, RequestInv
  <2>7. \A l \in Lineages : records'[l] = IF l = decider.lineage THEN Presented ELSE NoCredential
    BY <1>3, <2>6 DEF IInv, RequestTypeOK
  <2>8. Decided' /\ Passed' /\ Presented' = Presented
    BY <1>1, <2>1, SameRequest
  <2>9. Told(reply)'
    BY <2>1, <2>2, <2>4, <2>7, <2>8 DEF Told
  <2>10. RequestInv'
    BY <1>1, <1>3, <2>1, <2>2, <2>4, <2>7, <2>9 DEF RequestInv
  <2> QED BY <2>5, <2>10
<1> QED BY <1>2, <1>3 DEF Levelled

\* A handler is answered about the credential that authenticated its request.
LEMMA CheckRecordEffect ==
    ASSUME IInv, pc = "handling", NEW l \in Lineages, NEW w \in Windows,
           records[l] # NoCredential, CheckRecord(l, w)
    PROVE  RequestTypeOK' /\ RequestInv'
<1>1. Reply("confirmed") \/ Reply("stale")
  BY DEF CheckRecord, Answer
<1> QED BY <1>1, PlainAnswers, AnswerEffect DEF IInv, Statuses, StepUpStatuses

LEMMA MembersAreLineages ==
    ASSUME BuildTypeOK, guard # NoGuard
    PROVE  MemberSet \subseteq Lineages
<1>1. \A i \in DOMAIN guard.members : guard.members[i] \in Copies
  BY DEF BuildTypeOK, Guards
<1> QED BY <1>1 DEF MemberSet, Members, Copies

LEMMA EnsureFreshEffect ==
    ASSUME IInv, NEW w \in Windows,
           (\E l \in Lineages : EnsureFresh(l, w)) \/ EnsureFreshMulti(w)
    PROVE  RequestTypeOK' /\ RequestInv'
<1>1. pc = "handling" /\ guard # NoGuard
  BY DEF EnsureFresh, EnsureFreshMulti, IInv, RequestInv
<1>2. CASE Answer("wiring") \/ Answer("missing")
  BY <1>1, <1>2, PlainAnswers, AnswerEffect DEF IInv, Answer, Statuses
<1>3. CASE \E l \in Lineages : records[l] # NoCredential /\ CheckRecord(l, w)
  BY <1>1, <1>3, CheckRecordEffect
<1>4. MemberSet \subseteq Lineages
  BY <1>1, MembersAreLineages DEF IInv
<1> QED BY <1>2, <1>3, <1>4 DEF EnsureFresh, EnsureFreshMulti

LEMMA ReturnEffect ==
    ASSUME IInv, Return
    PROVE  RequestTypeOK' /\ RequestInv'
<1>1. pc = "handling" /\ Reply(reply) /\ Told(reply) /\ reply \in Statuses
  BY DEF Return, Answer, IInv, RequestInv, RequestTypeOK
<1> QED BY <1>1, AnswerEffect DEF IInv

LEMMA NextRequestEffect ==
    ASSUME IInv, NextRequest
    PROVE  BuildTypeOK' /\ CopiesInv' /\ GuardInv' /\ RequestTypeOK' /\ RequestInv'
<1>1. /\ pc' = "idle" /\ reply' = "none" /\ decider' = NoGuard /\ scopes' = {}
      /\ sent' = [l \in Lineages |-> NoCredential] /\ records' = [l \in Lineages |-> NoCredential]
      /\ UNCHANGED <<copies, guard, asked, now>> /\ builds' = MaxBuilds
  BY DEF NextRequest
<1>2. reply' \in Statuses /\ reply' = "none"
  BY <1>1 DEF Statuses
<1>3. RequestTypeOK'
  BY <1>1, <1>2 DEF IInv, RequestTypeOK, Places
<1>4. RequestInv'
  BY <1>1, <1>2 DEF RequestInv, Told
<1>5. builds' \in 0..MaxBuilds
  BY <1>1, KindsAssumption
<1> QED BY <1>1, <1>3, <1>4, <1>5, RequestKeepsBuild DEF IInv

LEMMA InvInit == Init => IInv
<1> SUFFICES ASSUME Init PROVE IInv
  OBVIOUS
<1>1. BuildTypeOK /\ RequestTypeOK
  BY TypeInit
<1>2. CopiesInv
  BY DEF Init, CopiesInv, Copy, Guarded, AsAsked, Carries
<1>3. GuardInv
  BY DEF Init, GuardInv
<1>4. reply = "none"
  BY DEF Init, Statuses
<1>5. RequestInv
  BY <1>4 DEF Init, RequestInv, Told
<1>6. ChallengeInv
  BY DEF Init, ChallengeInv
<1> QED BY <1>1, <1>2, <1>3, <1>5, <1>6 DEF IInv

\* The handlers of a request
RequestStep ==
    \/ Arrive \/ Dispatch \/ Validated \/ Dated \/ Levelled
    \/ \E w \in Windows : (\E l \in Lineages : EnsureFresh(l, w)) \/ EnsureFreshMulti(w)
    \/ Return

LEMMA RequestStepBuilds == RequestStep => UNCHANGED <<copies, guard, asked, builds>>
BY DEF RequestStep, Arrive, Dispatch, WithoutCredential, Validated, Dated, Levelled, EnsureFresh,
       EnsureFreshMulti, CheckRecord, Return, StepUpError, Answer, Reply, buildVars

\* A challenge that was sent stays what its source was asked for: nothing more
\* is asked of the sources once the guard has answered.
LEMMA ChallengeKept ==
    ASSUME ChallengeInv, UNCHANGED challenge,
           challenge # NoChallenge => UNCHANGED <<guard, asked>> /\ (pc' = "done" \/ builds' = MaxBuilds)
    PROVE  ChallengeInv'
BY DEF ChallengeInv, AsksWhatWasAsked

LEMMA ChallengeSent ==
    ASSUME IInv, guard # NoGuard, Decided, UNCHANGED <<guard, asked>>, pc' = "done",
           NEW from \in {"guard", "handler"}, NEW w \in Windows \cup {NoWindow},
           from = "guard" => w = decider.window,
           challenge' = Challenge(from, w, decider.assurance)
    PROVE  ChallengeInv'
<1>1. decider \in Copies /\ AsAsked(decider)
  BY DeciderIsCopy DEF Decided, IInv, GuardInv
<1>2. /\ challenge' \in Challenges /\ challenge'.from = from /\ challenge'.source = decider.lineage
      /\ challenge'.window = w /\ challenge'.assurance = decider.assurance
  BY <1>1 DEF Challenge, Challenges, Copies
<1>3. AsksWhatWasAsked(challenge)'
  BY <1>1, <1>2 DEF AsksWhatWasAsked, AsAsked, Carries
<1> QED BY <1>2, <1>3 DEF ChallengeInv

LEMMA ChallengeStep == IInv /\ [Next]_vars => ChallengeInv'
<1> SUFFICES ASSUME IInv, [Next]_vars PROVE ChallengeInv'
  OBVIOUS
<1>1. /\ ChallengeInv
      /\ challenge # NoChallenge => guard # NoGuard /\ (pc = "done" \/ builds = MaxBuilds)
      /\ builds \in 0..MaxBuilds /\ MaxBuilds \in Nat
  BY KindsAssumption DEF IInv, ChallengeInv, BuildTypeOK
<1>2. ASSUME NEW l \in Lineages, BuildSource(l) \/ UseSource(l) PROVE ChallengeInv'
  BY <1>1, <1>2, ChallengeKept DEF BuildSource, UseSource, Build, requestVars
<1>3. ASSUME NEW order \in Orders, Combine(order) PROVE ChallengeInv'
  BY <1>1, <1>3, ChallengeKept DEF Combine, requestVars
<1>4. CASE BuildMulti
  <2>1. UNCHANGED challenge /\ pc = "idle" /\ builds < MaxBuilds
    BY <1>4 DEF BuildMulti, Build, requestVars
  <2> QED BY <1>1, <2>1, ChallengeKept
<1>5. CASE RequestStep
  <2>1. UNCHANGED <<guard, asked, builds>>
    BY <1>5, RequestStepBuilds
  <2>2. pc # "done"
    BY <1>5 DEF RequestStep, Arrive, Dispatch, Validated, Dated, Levelled, EnsureFresh,
                EnsureFreshMulti, Return
  <2>3. CASE UNCHANGED challenge
    BY <1>1, <2>1, <2>2, <2>3, ChallengeKept
  <2>4. ASSUME NEW status, StepUpError(status), pc \in {"dating", "levelling"} PROVE ChallengeInv'
    <3>1. guard # NoGuard /\ Decided
      BY <2>4 DEF IInv, RequestInv
    <3>2. /\ challenge' = Challenge("guard", decider.window, decider.assurance)
          /\ pc' = "done" /\ decider.window \in Windows \cup {NoWindow}
      BY <2>4, <3>1, DeciderIsCopy DEF StepUpError, Reply, Copies
    <3> QED BY <2>1, <3>1, <3>2, ChallengeSent
  <2>5. ASSUME NEW l \in Lineages, NEW w \in Windows, pc = "handling",
               records[l] # NoCredential, CheckRecord(l, w)
        PROVE  ChallengeInv'
    <3>1. guard # NoGuard /\ Decided
      BY <2>5 DEF IInv, RequestInv, Told, Anonymous
    <3>2. CASE UNCHANGED challenge
      BY <1>1, <2>1, <2>2, <3>2, ChallengeKept
    <3>3. CASE /\ challenge' = Challenge("handler", w, decider.assurance)
               /\ pc' = "done"
      BY <2>1, <3>1, <3>3, ChallengeSent
    <3> QED BY <2>5, <3>2, <3>3 DEF CheckRecord, Answer, Reply
  <2>6. CASE Dated \/ Levelled
    BY <2>3, <2>4, <2>6 DEF Dated, Levelled
  <2>7. ASSUME NEW w \in Windows, (\E l \in Lineages : EnsureFresh(l, w)) \/ EnsureFreshMulti(w)
        PROVE  ChallengeInv'
    <3>1. MemberSet \subseteq Lineages
      BY <2>7, MembersAreLineages DEF IInv, RequestInv, EnsureFresh, EnsureFreshMulti
    <3> QED BY <2>3, <2>5, <2>7, <3>1 DEF EnsureFresh, EnsureFreshMulti, Answer
  <2>8. Arrive \/ Dispatch \/ Validated \/ Return => UNCHANGED challenge
    BY DEF Arrive, Dispatch, WithoutCredential, Validated, Return, Answer
  <2> QED BY <1>5, <2>3, <2>6, <2>7, <2>8 DEF RequestStep
<1>6. CASE NextRequest
  BY <1>1, <1>6, ChallengeKept DEF NextRequest
<1>7. CASE Tick \/ UNCHANGED vars
  BY <1>1, <1>7, ChallengeKept DEF Tick, vars, buildVars, requestVars
<1> QED BY <1>2, <1>3, <1>4, <1>5, <1>6, <1>7 DEF Next, RequestStep

LEMMA InvStep == IInv /\ [Next]_vars => IInv'
<1> SUFFICES ASSUME IInv, [Next]_vars PROVE IInv'
  OBVIOUS
<1> USE DEF IInv
<1>0. ChallengeInv'
  BY ChallengeStep
<1>1. ASSUME pc = "idle", UNCHANGED <<requestVars, now>>, BuildTypeOK', CopiesInv', GuardInv'
      PROVE  IInv'
  BY <1>0, <1>1, BuildKeepsRequest
<1>2. guard = NoGuard => pc = "idle"
  BY DEF RequestInv
<1>3. ASSUME NEW l \in Lineages, BuildSource(l) PROVE IInv'
  BY <1>1, <1>3, BuildSourceEffect
<1>4. ASSUME NEW l \in Lineages, UseSource(l) PROVE IInv'
  BY <1>1, <1>2, <1>4, UseSourceEffect
<1>5. ASSUME NEW order \in Orders, Combine(order) PROVE IInv'
  BY <1>1, <1>2, <1>5, CombineEffect
<1>6. CASE BuildMulti
  BY <1>1, <1>6, BuildMultiEffect
<1>7. CASE RequestStep
  <2>1. RequestTypeOK' /\ RequestInv'
    BY <1>7, ArriveEffect, DispatchEffect, ValidatedEffect, DatedEffect, LevelledEffect,
       EnsureFreshEffect, ReturnEffect DEF RequestStep
  <2>2. UNCHANGED <<copies, guard, asked, builds>>
    BY <1>7, RequestStepBuilds
  <2>3. builds' \in 0..MaxBuilds
    BY <2>2 DEF BuildTypeOK
  <2> QED BY <1>0, <2>1, <2>2, <2>3, RequestKeepsBuild
<1>8. CASE NextRequest
  BY <1>0, <1>8, NextRequestEffect
<1>9. ASSUME UNCHANGED <<buildVars, requestVars>>, now' \in 0..MaxClock
      PROVE  IInv'
  <2>1. UNCHANGED <<copies, guard, asked, builds, pc, sent, scopes, decider, records, reply, challenge>>
    BY <1>9 DEF buildVars, requestVars
  <2>2. RequestTypeOK'
    BY <1>9, <2>1 DEF RequestTypeOK
  <2>3. Told(reply)'
    BY <2>1, SameRequest DEF Told, RequestInv
  <2>4. RequestInv'
    BY <2>1, <2>3, SameRequest DEF RequestInv
  <2>5. builds' \in 0..MaxBuilds
    BY <2>1 DEF BuildTypeOK
  <2> QED BY <1>0, <2>1, <2>2, <2>4, <2>5, RequestKeepsBuild
<1>10. CASE Tick
  <2>1. now' \in 0..MaxClock
    BY <1>10, KindsAssumption DEF Tick, RequestTypeOK
  <2> QED BY <1>9, <1>10, <2>1 DEF Tick
<1>11. CASE UNCHANGED vars
  <2>1. now' \in 0..MaxClock /\ UNCHANGED <<buildVars, requestVars>>
    BY <1>11 DEF vars, RequestTypeOK
  <2> QED BY <1>9, <2>1
<1> QED BY <1>3, <1>4, <1>5, <1>6, <1>7, <1>8, <1>10, <1>11 DEF Next, RequestStep

\* The inductive invariant: the types, what the guard carries of what was
\* asked, and what a request has passed so far.
THEOREM Invariant == Spec => []IInv
<1> QED BY InvInit, InvStep, PTL DEF Spec

\* Types: no copy, and no combination, is both optional and guarded.
THEOREM TypeCorrect == Spec => []TypeOK
<1>1. IInv => TypeOK
  BY DEF IInv, BuildTypeOK, RequestTypeOK, GuardInv, ChallengeInv, TypeOK, Guards, Places
<1> QED BY <1>1, Invariant, PTL

\* An anonymous caller is served only without scopes, without a guard, and
\* without a credential for any of the sources (MultiAuth.dispatch).
THEOREM AnonymousUnasked == Spec => []AnonymousOnlyIfAsked
<1>1. IInv => AnonymousOnlyIfAsked
  BY DEF IInv, RequestInv, Told, Anonymous, AnonymousOnlyIfAsked
<1> QED BY <1>1, Invariant, PTL

\* The decider of an authenticated request, and what its copy carries
LEMMA DeciderCarries ==
    ASSUME IInv, guard # NoGuard, Decided
    PROVE  /\ decider.lineage \in MemberSet /\ decider.lineage \in Lineages
           /\ decider \in Copies
           /\ Carries(decider, asked[decider.lineage])
           /\ \A i \in DOMAIN guard.members :
                 /\ Carries(guard.members[i], asked[guard.members[i].lineage])
                 /\ guard.members[i].window = NoWindow <=> decider.window = NoWindow
                 /\ guard.members[i].assurance = NoAssurance <=> decider.assurance = NoAssurance
<1>1. PICK i \in DOMAIN guard.members : decider = guard.members[i]
  BY DEF Decided
<1>2. decider \in Copies /\ decider.lineage \in Lineages
  <2>1. decider \in Copies
    BY <1>1 DEF IInv, BuildTypeOK, Guards
  <2> QED BY <2>1 DEF Copies
<1>3. decider.lineage \in MemberSet
  BY <1>1 DEF MemberSet, Members
<1> QED BY <1>1, <1>2, <1>3 DEF IInv, GuardInv, EachGuarded, AsAsked

\* Which steps move a request on.
LEMMA Moves ==
    ASSUME Next
    PROVE  /\ pc = "arrived" /\ (pc' # "arrived" \/ reply' # reply) => Dispatch
           /\ pc = "validating" /\ reply' # reply => Validated
           /\ pc = "dating" /\ (pc' = "levelling" \/ reply' # reply) => Dated
           /\ pc = "levelling" /\ (pc' = "handling" \/ reply' # reply) => Levelled
<1>1. \A l \in Lineages : BuildSource(l) => pc = "idle"
  BY DEF BuildSource, Build
<1>2. BuildMulti => pc = "idle"
  BY DEF BuildMulti, Build
<1>3. \A l \in Lineages : UseSource(l) => UNCHANGED <<pc, reply>>
  BY DEF UseSource, requestVars
<1>4. \A order \in Orders : Combine(order) => UNCHANGED <<pc, reply>>
  BY DEF Combine, requestVars
<1>5. Tick => UNCHANGED <<pc, reply>>
  BY DEF Tick, requestVars
<1>6. \A w \in Windows : (\E l \in Lineages : EnsureFresh(l, w)) \/ EnsureFreshMulti(w) => pc = "handling"
  BY DEF EnsureFresh, EnsureFreshMulti
<1>7. /\ Arrive => pc = "idle"
      /\ Dispatch => pc = "arrived"
      /\ Validated => pc = "validating"
      /\ Dated => pc = "dating"
      /\ Levelled => pc = "levelling"
      /\ Return => pc = "handling"
      /\ NextRequest => pc = "done"
  BY DEF Arrive, Dispatch, Validated, Dated, Levelled, Return, NextRequest
<1> QED BY <1>1, <1>2, <1>3, <1>4, <1>5, <1>6, <1>7 DEF Next

\* On a combined route the wiring is never at fault once a source was chosen by
\* its credential (MultiAuth.dispatch, AuthSource.authenticate_scoped).
THEOREM ScopesAlike == Spec => WiringNotByCredential
<1>1. ASSUME IInv, [Next]_vars, pc = "validating", guard.multi
      PROVE  reply' # "misconfigured"
  <2>1. reply = "none" /\ Decided
    BY <1>1 DEF IInv, RequestInv
  <2>2. CASE UNCHANGED reply
    BY <2>1, <2>2
  <2>3. CASE Validated
    <3>1. scopes = {} \/ decider.lineage \in Scoped
      BY <1>1, <2>1 DEF Decided, Misconfigured
    <3>2. ~CannotCheckScopes
      BY <3>1 DEF CannotCheckScopes
    <3> QED BY <2>1, <2>3, <3>2 DEF Validated, Answer, Reply
  <2> QED BY <1>1, <2>2, <2>3, Moves DEF vars, requestVars
<1>2. IInv /\ [Next]_vars => [pc = "validating" /\ guard.multi => reply' # "misconfigured"]_vars
  BY <1>1
<1> QED BY <1>2, Invariant, PTL DEF Spec, WiringNotByCredential

\* A whole number of seconds of a window lies within it.
LEMMA SecondsFit ==
    ASSUME NEW w \in Windows, w.maxAge >= Second
    PROVE  MaxAge(w) * Second <= w.maxAge /\ MaxAge(w) * Second \in Int
<1> DEFINE n == w.maxAge
<1>1. n \in Nat /\ Second \in Nat /\ Second > 0
  BY WindowsAssumption
<1>2. MaxAge(w) = n \div Second
  BY <1>1 DEF MaxAge
<1>3. (n \div Second) * Second <= n /\ (n \div Second) * Second \in Int
  <2> HIDE DEF n
  <2> QED BY <1>1
<1> QED BY <1>2, <1>3

\* A credential proven in the time a challenge gives is in its window.
LEMMA InTimeIsFresh ==
    ASSUME IInv, NEW c \in Credentials, ProvenInTime(c), challenge # NoChallenge,
           challenge.window # NoWindow
    PROVE  IsFresh(challenge.window, c, now)
<1> DEFINE w == challenge.window
           at == Instant(w, c)
           given == MaxAge(w) * Second
<1>1. w \in Windows
  BY DEF IInv, ChallengeInv, Challenges
<1>2. /\ w.maxAge >= Second /\ at # NoInstant
      /\ 0 <= now - at /\ now - at <= given
  BY DEF ProvenInTime
<1>3. at \in Int /\ now \in Int /\ w.leeway \in Nat /\ w.maxAge \in Nat
  BY <1>1, <1>2, CredentialsAssumption, WindowsAssumption, KindsAssumption
     DEF Instant, IInv, RequestTypeOK
<1>4. given <= w.maxAge /\ given \in Int
  BY <1>1, <1>2, SecondsFit
<1> HIDE DEF w, at, given
<1>5. /\ -w.leeway <= now - at /\ now - at <= w.maxAge + w.leeway
  BY <1>2, <1>3, <1>4
<1>6. IsFresh(w, c, now)
  BY <1>2, <1>5 DEF IsFresh, at
<1> QED BY <1>6 DEF w

\* A challenge still asks for what its source demands.
LEMMA ChallengeOfDecider ==
    ASSUME IInv, guard # NoGuard, Decided, challenge # NoChallenge, challenge.source = decider.lineage
    PROVE  /\ challenge.assurance = decider.assurance
           /\ challenge.from = "guard" => challenge.window = decider.window
<1>1. AsAsked(decider)
  BY DEF Decided, IInv, GuardInv
<1>2. AsksWhatWasAsked(challenge)
  BY DEF IInv, ChallengeInv
<1> QED BY <1>1, <1>2 DEF AsAsked, Carries, AsksWhatWasAsked

\* A client that comes back with a credential as its last challenge asked is
\* not asked for another (_step_up_error, _check_record, step_up_challenge).
THEOREM ChallengeSuffices == Spec => ObeyingTheChallengeSuffices
<1> DEFINE Comes == /\ challenge # NoChallenge /\ pc \in {"dating", "levelling", "handling"}
                    /\ reply # "anonymous" /\ decider.lineage = challenge.source
<1>1. ASSUME IInv, [Next]_vars, Comes
      PROVE  /\ pc = "dating" /\ challenge.from = "guard" /\ ProvenInTime(Presented) => reply' # "stale"
             /\ pc = "levelling" /\ ProvenAtLevel(Presented) => reply' # "insufficient"
             /\ pc = "handling" /\ ProvenInTime(Presented) =>
                   \A w \in Windows \cap {challenge.window} :
                       EnsureFresh(decider.lineage, w) => reply' # "stale"
  <2>1. guard # NoGuard /\ Decided /\ challenge.source = decider.lineage
    BY <1>1 DEF IInv, RequestInv, Told
  <2>2. /\ challenge.assurance = decider.assurance
        /\ challenge.from = "guard" => challenge.window = decider.window
    BY <1>1, <2>1, ChallengeOfDecider
  <2>3. Presented \in Credentials
    BY <1>1, <2>1, DeciderIsCopy DEF Decided, Presented, IInv, RequestTypeOK
  <2>4. pc \in {"dating", "levelling"} => reply = "none"
    BY <1>1 DEF IInv, RequestInv
  <2>5. ASSUME pc = "dating", challenge.from = "guard", ProvenInTime(Presented), reply' = "stale"
        PROVE  FALSE
    <3>1. Dated
      BY <1>1, <2>4, <2>5, Moves DEF vars, requestVars
    <3>2. decider.window # NoWindow /\ ~IsFresh(decider.window, Presented, now)
      BY <2>4, <2>5, <3>1 DEF Dated
    <3> QED BY <1>1, <2>2, <2>3, <2>5, <3>2, InTimeIsFresh
  <2>6. ASSUME pc = "levelling", ProvenAtLevel(Presented), reply' = "insufficient"
        PROVE  FALSE
    <3>1. Levelled
      BY <1>1, <2>4, <2>6, Moves DEF vars, requestVars
    <3>2. decider.assurance # NoAssurance /\ Achieved(decider.assurance, Presented) \notin decider.assurance.values
      BY <2>4, <2>6, <3>1 DEF Levelled
    <3> QED BY <2>2, <2>6, <3>2 DEF ProvenAtLevel
  <2>7. ASSUME pc = "handling", ProvenInTime(Presented), NEW w \in Windows, w = challenge.window,
               EnsureFresh(decider.lineage, w), reply' = "stale"
        PROVE  FALSE
    <3>1. records[decider.lineage] = Presented
      BY <1>1, <2>7 DEF IInv, RequestInv, Told
    <3>2. ~IsFresh(w, Presented, now)
      BY <2>7, <3>1 DEF EnsureFresh, CheckRecord, Answer, Reply
    <3>3. w # NoWindow
      BY NamesAssumption
    <3> QED BY <1>1, <2>3, <2>7, <3>2, <3>3, InTimeIsFresh
  <2> QED BY <2>5, <2>6, <2>7
<1>2. IInv /\ [Next]_vars =>
        [Comes =>
           /\ pc = "dating" /\ challenge.from = "guard" /\ ProvenInTime(Presented) => reply' # "stale"
           /\ pc = "levelling" /\ ProvenAtLevel(Presented) => reply' # "insufficient"
           /\ pc = "handling" /\ ProvenInTime(Presented) =>
                 \A w \in Windows \cap {challenge.window} :
                     EnsureFresh(decider.lineage, w) => reply' # "stale"]_vars
  BY <1>1
<1> QED BY <1>2, Invariant, PTL DEF Spec, ObeyingTheChallengeSuffices

\* A credential passes the guard only when it meets every window and level the
\* program asked for, in whatever order its builders were called; when one
\* source of a combination is guarded, no other lets a credential through
\* unguarded (AuthSource.fresh, stepped_up, MultiAuth.__init__).
THEOREM GuardKept == Spec => GuardHolds
<1>1. ASSUME IInv, [Next]_vars, pc = "dating", pc' = "levelling"
      PROVE  /\ \A w \in AskedOf(Windows) : IsFresh(w, Presented, now)
             /\ AskedOfAny(Windows) # {} => AskedOf(Windows) # {}
  <2>1. Dated
    BY <1>1, Moves DEF vars, requestVars
  <2>2. Decided /\ guard # NoGuard
    BY <1>1 DEF IInv, RequestInv
  <2>3. decider.window # NoWindow => IsFresh(decider.window, Presented, now)
    BY <1>1, <2>1 DEF Dated, StepUpError, Reply
  <2>4. AskedOf(Windows) = IF decider.window = NoWindow THEN {} ELSE {decider.window}
    BY <1>1, <2>2, DeciderCarries DEF AskedOf, Carries
  <2>5. ASSUME AskedOfAny(Windows) # {}
        PROVE  decider.window # NoWindow
    <3>1. PICK i \in DOMAIN guard.members : asked[guard.members[i].lineage] \cap Windows # {}
      BY <2>5 DEF AskedOfAny, MemberSet, Members
    <3>2. guard.members[i].window # NoWindow
      BY <1>1, <2>2, <3>1, DeciderCarries DEF Carries
    <3> QED BY <1>1, <2>2, <3>2, DeciderCarries
  <2> QED BY <2>3, <2>4, <2>5
<1>2. ASSUME IInv, [Next]_vars, pc = "levelling", pc' = "handling"
      PROVE  /\ \A a \in AskedOf(Assurances) : Achieved(a, Presented) \in a.values
             /\ AskedOfAny(Assurances) # {} => AskedOf(Assurances) # {}
  <2>1. Levelled
    BY <1>2, Moves DEF vars, requestVars
  <2>2. Decided /\ guard # NoGuard
    BY <1>2 DEF IInv, RequestInv
  <2>3. decider.assurance # NoAssurance =>
            Achieved(decider.assurance, Presented) \in decider.assurance.values
    BY <1>2, <2>1 DEF Levelled, StepUpError, Reply
  <2>4. AskedOf(Assurances) = IF decider.assurance = NoAssurance THEN {} ELSE {decider.assurance}
    BY <1>2, <2>2, DeciderCarries DEF AskedOf, Carries
  <2>5. ASSUME AskedOfAny(Assurances) # {}
        PROVE  decider.assurance # NoAssurance
    <3>1. PICK i \in DOMAIN guard.members : asked[guard.members[i].lineage] \cap Assurances # {}
      BY <2>5 DEF AskedOfAny, MemberSet, Members
    <3>2. guard.members[i].assurance # NoAssurance
      BY <1>2, <2>2, <3>1, DeciderCarries DEF Carries
    <3> QED BY <1>2, <2>2, <3>2, DeciderCarries
  <2> QED BY <2>3, <2>4, <2>5
<1>3. IInv /\ [Next]_vars =>
        [/\ pc = "dating" /\ pc' = "levelling" =>
             /\ \A w \in AskedOf(Windows) : IsFresh(w, Presented, now)
             /\ AskedOfAny(Windows) # {} => AskedOf(Windows) # {}
         /\ pc = "levelling" /\ pc' = "handling" =>
             /\ \A a \in AskedOf(Assurances) : Achieved(a, Presented) \in a.values
             /\ AskedOfAny(Assurances) # {} => AskedOf(Assurances) # {}]_vars
  BY <1>1, <1>2
<1> QED BY <1>3, Invariant, PTL DEF Spec, GuardHolds

\* The handler of a request that a combination authenticated gets, from the
\* combination's ensure_fresh(), an answer about the credential that decided
\* (MultiAuth.ensure_fresh).
THEOREM CombinationAnswers == Spec => CombinationKnowsItsRequest
<1>1. ASSUME IInv, NEW w \in Windows, EnsureFreshMulti(w), reply = "accepted"
      PROVE  reply' = IF IsFresh(w, Presented, now) THEN "confirmed" ELSE "stale"
  <2>1. /\ pc = "handling" /\ guard # NoGuard /\ Decided
        /\ records[decider.lineage] = Presented /\ Presented # NoCredential
    BY <1>1 DEF EnsureFreshMulti, IInv, RequestInv, Told, Decided
  <2>2. decider.lineage \in MemberSet
    BY <1>1, <2>1, DeciderCarries
  <2>3. MemberSet \subseteq Lineages
    BY <1>1, <2>1, MembersAreLineages DEF IInv
  <2>4. PICK l \in MemberSet : records[l] # NoCredential /\ CheckRecord(l, w)
    BY <1>1, <2>1, <2>2 DEF EnsureFreshMulti
  <2>5. records[l] = Presented
    BY <1>1, <2>1, <2>3, <2>4 DEF IInv, RequestInv
  <2> QED BY <2>4, <2>5 DEF CheckRecord, Answer, Reply
<1>2. IInv =>
        [\A w \in Windows : EnsureFreshMulti(w) /\ reply = "accepted" =>
             reply' = IF IsFresh(w, Presented, now) THEN "confirmed" ELSE "stale"]_vars
  BY <1>1
<1> QED BY <1>2, Invariant, PTL DEF Spec, CombinationKnowsItsRequest

\* After any sequence of builders the report agrees with the requests: it calls
\* a route unguarded exactly when a request without a credential is served, but
\* for a combination of no source, and it lists the way each credential passes
\* (auth_surface).
THEOREM ReportIsTrue == Spec => ReportAgrees
<1>1. ASSUME IInv, guard # NoGuard
      PROVE  Unguarded <=> guard.optional /\ guard.members # <<>>
  <2>1. \A requirement \in Requirements : requirement.optional = IsOptional
    BY DEF Requirements
  <2>2. guard.members \in Seq(Copies)
    BY <1>1 DEF IInv, BuildTypeOK, Guards
  <2>3. guard.members # <<>> <=> DOMAIN guard.members # {}
    <3> DEFINE s == guard.members
    <3>1. s \in Seq(Copies)
      BY <2>2
    <3> HIDE DEF s
    <3>2. Len(s) \in Nat /\ DOMAIN s = 1..Len(s) /\ (s = <<>> <=> Len(s) = 0)
      BY <3>1
    <3>3. s = <<>> <=> DOMAIN s = {}
      BY <3>2
    <3> QED BY <3>3 DEF s
  <2>4. DOMAIN guard.members # {} <=> Requirements # {}
    BY DEF Requirements, Positions, MemberSet
  <2> QED BY <2>1, <2>3, <2>4 DEF Unguarded, IsOptional
<1>2. ASSUME IInv, [Next]_vars, pc = "arrived", \A l \in MemberSet : sent[l] = NoCredential
      PROVE  /\ pc' = "handling" => Unguarded \/ guard.members = <<>>
             /\ reply' = "missing" => ~Unguarded
  <2>1. guard # NoGuard /\ reply = "none"
    BY <1>2 DEF IInv, RequestInv
  <2>2. \A i \in DOMAIN guard.members : sent[guard.members[i].lineage] = NoCredential
    BY <1>2 DEF MemberSet, Members
  <2>3. CASE ~Dispatch
    <3>1. UNCHANGED <<pc, reply>>
      BY <1>2, <2>3, Moves DEF vars, requestVars
    <3> QED BY <1>2, <2>1, <3>1
  <2>4. CASE Dispatch
    <3>1. \/ Answer("misconfigured")
          \/ guard.optional /\ pc' = "handling" /\ reply' = "anonymous"
          \/ ~guard.optional /\ Answer("missing")
      BY <2>2, <2>4 DEF Dispatch, WithoutCredential
    <3>2. \/ pc' = "done" /\ reply' = "misconfigured"
          \/ guard.optional /\ pc' = "handling" /\ reply' = "anonymous"
          \/ ~guard.optional /\ pc' = "done" /\ reply' = "missing"
      BY <3>1 DEF Answer, Reply, Statuses
    <3> QED BY <1>1, <1>2, <2>1, <3>2
  <2> QED BY <2>3, <2>4
<1>3. ASSUME IInv, [Next]_vars, pc = "levelling", pc' = "handling"
      PROVE  \E alternative \in Alternatives : Satisfies(alternative)
  <2>1. guard # NoGuard /\ Decided /\ Passed
    BY <1>3 DEF IInv, RequestInv
  <2> DEFINE requirement == [source |-> decider.lineage, scopes |-> scopes, optional |-> IsOptional]
  <2>2. requirement \in Requirements
    BY <1>3, <2>1, DeciderCarries DEF Requirements, Positions
  <2>3. {requirement} \in Alternatives
    BY <2>2 DEF Alternatives
  <2>4. Satisfies({requirement})
    BY <2>1 DEF Satisfies, Passed
  <2> QED BY <2>3, <2>4
<1>4. IInv /\ [Next]_vars =>
        [/\ pc = "arrived" /\ (\A l \in MemberSet : sent[l] = NoCredential) =>
              /\ pc' = "handling" => Unguarded \/ guard.members = <<>>
              /\ reply' = "missing" => ~Unguarded
         /\ pc = "levelling" /\ pc' = "handling" =>
              \E alternative \in Alternatives : Satisfies(alternative)]_vars
  BY <1>2, <1>3
<1> QED BY <1>4, Invariant, PTL DEF Spec, ReportAgrees
=============================================================================
