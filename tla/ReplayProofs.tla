---------------------------- MODULE ReplayProofs ----------------------------
(***************************************************************************)
(* Proofs about Replay, for every set of requests, sources, checks, keys   *)
(* and submissions, every window of each source and bound of the clock.    *)
(***************************************************************************)
EXTENDS Replay, TLAPS

Proofs == UNION {{sub.proof[s] : s \in Sources} : sub \in Submissions}
Places == {"idle", "arrived", "validating", "checking", "steppingUp", "done"}

\* A request that was sent is at one of the dependencies of its route; only one
\* whose proof is genuine asks a replay check, and never twice for one key.
RequestOK(r) ==
    /\ IF pc[r] = "idle" THEN step[r] = 1 /\ memo[r] = {} /\ sent[r] = NoSubmission
                         ELSE sent[r] \in Submissions /\ step[r] \in 1..Len(sent[r].route)
    /\ pc[r] = "checking" =>
          Check[Source(r)] # NoCheck /\ Proof(r).genuine /\ Entry(r) \notin memo[r]
    /\ verdict[r] # NoVerdict => pc[r] = "checking"
    /\ outcome[r] # "none" => pc[r] = "done"

RequestsTypeOK ==
    /\ pc \in [Requests -> Places]
    /\ sent \in [Requests -> Submissions \cup {NoSubmission}]
    /\ step \in [Requests -> Nat]
    /\ memo \in [Requests -> SUBSET [check : Checks, key : Keys]]
    /\ verdict \in [Requests -> Verdicts \cup {NoVerdict}]
    /\ outcome \in [Requests -> Outcomes]

Uses == [source : Sources, proof : Proofs, by : Requests, at : Nat]

ChecksTypeOK ==
    /\ held \in [Checks -> [Keys -> Nat \cup {NotRecorded}]]
    /\ now \in 0..MaxClock
    /\ uses \subseteq Uses
    /\ \A u \in uses : u.at <= now /\ Check[u.source] # NoCheck

Good == RequestsTypeOK /\ ChecksTypeOK /\ \A r \in Requests : RequestOK(r)

LEMMA GoodInit == Init => Good
<1> SUFFICES ASSUME Init PROVE Good
  OBVIOUS
<1>1. RequestsTypeOK
  BY DEF Init, RequestsTypeOK, Places, Outcomes
<1>2. ChecksTypeOK
  BY WindowAssumption DEF Init, ChecksTypeOK
<1>3. \A r \in Requests : RequestOK(r)
  BY DEF Init, RequestOK
<1> QED BY <1>1, <1>2, <1>3 DEF Good

\* The source, the proof and the entry of a request that is at work
LEMMA AtWork ==
    ASSUME Good, NEW r \in Requests, pc[r] # "idle"
    PROVE  /\ sent[r] \in Submissions /\ step[r] \in 1..Len(sent[r].route)
           /\ Source(r) \in Sources /\ Proof(r) \in Proofs
           /\ Proof(r).key \in Keys /\ Proof(r).iat \in Nat
           /\ Check[Source(r)] # NoCheck => Check[Source(r)] \in Checks
           /\ Entry(r).check = Check[Source(r)] /\ Entry(r).key = Proof(r).key
           /\ Check[Source(r)] # NoCheck => Entry(r) \in [check : Checks, key : Keys]
<1>1. sent[r] \in Submissions /\ step[r] \in 1..Len(sent[r].route)
  BY DEF Good, RequestOK
<1>2. sent[r].route \in Seq(Sources)
  BY <1>1, SubmissionsAssumption
<1>3. Source(r) \in Sources
  BY <1>1, <1>2 DEF Source
<1>4. Proof(r) \in Proofs /\ Proof(r).key \in Keys /\ Proof(r).iat \in Nat
  BY <1>1, <1>3, SubmissionsAssumption DEF Proof, Proofs
<1>5. Check[Source(r)] # NoCheck => Check[Source(r)] \in Checks
  BY <1>3 DEF Checks
<1> QED BY <1>1, <1>3, <1>4, <1>5 DEF Entry, ReplayKey

LEMMA ProofsTypes == \A p \in Proofs : p.key \in Keys /\ p.iat \in Nat
BY SubmissionsAssumption DEF Proofs
-----------------------------------------------------------------------------
(* Every step of a request is of one of a few kinds.                       *)

OthersStay(r) ==
    \A q \in Requests \ {r} :
        /\ pc'[q] = pc[q] /\ sent'[q] = sent[q] /\ step'[q] = step[q]
        /\ memo'[q] = memo[q] /\ verdict'[q] = verdict[q] /\ outcome'[q] = outcome[q]

\* r is answered: its last dependency passed, or one refused it, or it was lost.
Ends(r) ==
    /\ pc[r] # "idle" /\ pc'[r] = "done" /\ verdict'[r] = NoVerdict
    /\ sent'[r] = sent[r] /\ step'[r] = step[r] /\ memo'[r] = memo[r]
    /\ outcome'[r] \in Outcomes
    /\ outcome'[r] = "accepted" => pc[r] = "steppingUp" /\ step[r] = Len(sent[r].route)
    /\ outcome'[r] = "replay" => verdict[r] = "seen"
    /\ outcome'[r] \in {"expired", "refused"} => pc[r] \in {"arrived", "validating"}

\* r goes on, to the replay check or past it.
Passes(r) ==
    /\ pc[r] # "idle" /\ verdict'[r] = NoVerdict
    /\ sent'[r] = sent[r] /\ step'[r] = step[r] /\ outcome'[r] = outcome[r]
    /\ \/ pc[r] = "arrived" /\ pc'[r] = "validating" /\ memo'[r] = memo[r]
       \/ /\ pc[r] = "validating" /\ pc'[r] = "checking" /\ memo'[r] = memo[r]
          /\ Check[Source(r)] # NoCheck /\ Proof(r).genuine /\ Entry(r) \notin memo[r]
       \/ /\ pc[r] = "validating" /\ pc'[r] = "steppingUp" /\ memo'[r] = memo[r]
          /\ Check[Source(r)] = NoCheck \/ Entry(r) \in memo[r]
       \/ /\ pc[r] = "checking" /\ verdict[r] = "first" /\ pc'[r] = "steppingUp"
          /\ memo'[r] = memo[r] \cup {Entry(r)}

\* r's next dependency starts.
Advances(r) ==
    /\ pc[r] = "steppingUp" /\ pc'[r] = "arrived"
    /\ step[r] < Len(sent[r].route) /\ step'[r] = step[r] + 1
    /\ sent'[r] = sent[r] /\ memo'[r] = memo[r] /\ verdict'[r] = verdict[r]
    /\ outcome'[r] = outcome[r]

\* A step of r that leaves the replay checks alone
Local(r) ==
    /\ Ends(r) \/ Passes(r) \/ Advances(r)
    /\ OthersStay(r) /\ RequestsTypeOK' /\ UNCHANGED <<held, now, uses>>

LEMMA AnswerEffect ==
    ASSUME Good, NEW r \in Requests, pc[r] # "idle", NEW result \in Outcomes, Answer(r, result),
           result = "accepted" => pc[r] = "steppingUp" /\ step[r] = Len(sent[r].route),
           result = "replay" => verdict[r] = "seen",
           result \in {"expired", "refused"} => pc[r] \in {"arrived", "validating"}
    PROVE  Ends(r) /\ OthersStay(r) /\ RequestsTypeOK'
<1> USE DEF Good, RequestsTypeOK
<1>1. Ends(r) /\ OthersStay(r)
  BY DEF Answer, Ends, OthersStay
<1> QED BY <1>1 DEF Answer, Places

LEMMA MoveEffect ==
    ASSUME Good, NEW r \in Requests, NEW place \in Places, MoveTo(r, place),
           NEW m \in SUBSET [check : Checks, key : Keys], memo' = [memo EXCEPT ![r] = m]
    PROVE  /\ OthersStay(r) /\ RequestsTypeOK'
           /\ pc'[r] = place /\ verdict'[r] = NoVerdict /\ memo'[r] = m
           /\ sent'[r] = sent[r] /\ step'[r] = step[r] /\ outcome'[r] = outcome[r]
<1> USE DEF Good, RequestsTypeOK
<1>1. OthersStay(r)
  BY DEF MoveTo, OthersStay
<1>2. /\ pc'[r] = place /\ verdict'[r] = NoVerdict /\ memo'[r] = m
      /\ sent'[r] = sent[r] /\ step'[r] = step[r] /\ outcome'[r] = outcome[r]
  BY DEF MoveTo
<1> QED BY <1>1, <1>2 DEF MoveTo

LEMMA StayEffect ==
    ASSUME Good, NEW r \in Requests, NEW place \in Places, MoveTo(r, place), UNCHANGED memo
    PROVE  /\ OthersStay(r) /\ RequestsTypeOK'
           /\ pc'[r] = place /\ verdict'[r] = NoVerdict /\ memo'[r] = memo[r]
           /\ sent'[r] = sent[r] /\ step'[r] = step[r] /\ outcome'[r] = outcome[r]
<1>1. /\ memo[r] \in SUBSET [check : Checks, key : Keys]
      /\ memo' = [memo EXCEPT ![r] = memo[r]]
  BY DEF Good, RequestsTypeOK
<1> QED BY <1>1, MoveEffect

LEMMA FirstUseEffect ==
    ASSUME Good, NEW r \in Requests, pc[r] = "validating", Proof(r).genuine, FirstUse(r)
    PROVE  Passes(r) /\ OthersStay(r) /\ RequestsTypeOK'
<1>1. UNCHANGED memo /\ memo'[r] = memo[r]
  BY DEF FirstUse
<1>2. CASE /\ Check[Source(r)] = NoCheck \/ Entry(r) \in memo[r]
           /\ MoveTo(r, "steppingUp")
  <2>1. "steppingUp" \in Places
    BY DEF Places
  <2> QED BY <1>1, <1>2, <2>1, StayEffect DEF Passes
<1>3. CASE /\ ~(Check[Source(r)] = NoCheck \/ Entry(r) \in memo[r])
           /\ MoveTo(r, "checking")
  <2>1. "checking" \in Places
    BY DEF Places
  <2> QED BY <1>1, <1>3, <2>1, StayEffect DEF Passes
<1> QED BY <1>2, <1>3 DEF FirstUse

LEMMA LocalSteps ==
    ASSUME Good, NEW r \in Requests,
           Verify(r) \/ Validated(r) \/ CheckReturns(r) \/ StepUp(r) \/ Cancel(r)
    PROVE  Local(r)
<1>1. UNCHANGED <<held, now, uses>>
  BY DEF Verify, Validated, CheckReturns, StepUp, Cancel
<1>2. ASSUME NEW result \in Outcomes, pc[r] # "idle", Answer(r, result),
             result = "accepted" => pc[r] = "steppingUp" /\ step[r] = Len(sent[r].route),
             result = "replay" => verdict[r] = "seen",
             result \in {"expired", "refused"} => pc[r] \in {"arrived", "validating"}
      PROVE  Local(r)
  BY <1>1, <1>2, AnswerEffect DEF Local
<1>3. CASE Verify(r)
  <2>1. CASE Answer(r, "refused") \/ Answer(r, "expired")
    BY <1>2, <1>3, <2>1 DEF Verify, Outcomes, Refusals
  <2>2. CASE MoveTo(r, "validating") /\ UNCHANGED memo
    <3>1. "validating" \in Places
      BY DEF Places
    <3>2. /\ OthersStay(r) /\ RequestsTypeOK'
          /\ pc'[r] = "validating" /\ verdict'[r] = NoVerdict /\ memo'[r] = memo[r]
          /\ sent'[r] = sent[r] /\ step'[r] = step[r] /\ outcome'[r] = outcome[r]
      BY <2>2, <3>1, StayEffect
    <3> QED BY <1>1, <1>3, <3>2 DEF Verify, Passes, Local
  <2> QED BY <1>3, <2>1, <2>2 DEF Verify
<1>4. CASE Validated(r)
  <2>1. CASE Answer(r, "refused")
    BY <1>2, <1>4, <2>1 DEF Validated, Outcomes, Refusals
  <2>2. CASE Proof(r).genuine /\ FirstUse(r)
    BY <1>1, <1>4, <2>2, FirstUseEffect DEF Validated, Local
  <2> QED BY <1>4, <2>1, <2>2 DEF Validated
<1>5. CASE CheckReturns(r)
  <2>1. CASE \/ verdict[r] = "seen" /\ Answer(r, "replay")
             \/ verdict[r] = "failed" /\ Answer(r, "error")
    BY <1>2, <1>5, <2>1 DEF CheckReturns, Outcomes, Refusals
  <2>2. CASE /\ verdict[r] = "first"
             /\ MoveTo(r, "steppingUp")
             /\ memo' = [memo EXCEPT ![r] = @ \cup {Entry(r)}]
    <3>1. "steppingUp" \in Places
      BY DEF Places
    <3>2. Entry(r) \in [check : Checks, key : Keys]
      BY <1>5, AtWork DEF Good, RequestOK, CheckReturns
    <3>3. /\ memo[r] \cup {Entry(r)} \in SUBSET [check : Checks, key : Keys]
          /\ memo' = [memo EXCEPT ![r] = memo[r] \cup {Entry(r)}]
      BY <2>2, <3>2 DEF Good, RequestsTypeOK
    <3>4. /\ OthersStay(r) /\ RequestsTypeOK'
          /\ pc'[r] = "steppingUp" /\ verdict'[r] = NoVerdict
          /\ memo'[r] = memo[r] \cup {Entry(r)}
          /\ sent'[r] = sent[r] /\ step'[r] = step[r] /\ outcome'[r] = outcome[r]
      BY <2>2, <3>1, <3>3, MoveEffect
    <3> QED BY <1>1, <1>5, <2>2, <3>4 DEF CheckReturns, Passes, Local
  <2> QED BY <1>5, <2>1, <2>2 DEF CheckReturns
<1>6. CASE StepUp(r)
  <2>1. CASE Answer(r, "stale")
    BY <1>2, <1>6, <2>1 DEF StepUp, Outcomes, Refusals
  <2>2. CASE step[r] = Len(sent[r].route) /\ Answer(r, "accepted")
    BY <1>2, <1>6, <2>2 DEF StepUp, Outcomes
  <2>3. CASE /\ step[r] < Len(sent[r].route)
             /\ pc' = [pc EXCEPT ![r] = "arrived"]
             /\ step' = [step EXCEPT ![r] = @ + 1]
             /\ UNCHANGED <<sent, memo, verdict, outcome>>
    <3>1. Advances(r) /\ OthersStay(r)
      BY <1>6, <2>3 DEF StepUp, Advances, OthersStay, Good, RequestsTypeOK
    <3>2. RequestsTypeOK'
      BY <2>3 DEF Good, RequestsTypeOK, Places
    <3> QED BY <1>1, <3>1, <3>2 DEF Local
  <2> QED BY <1>6, <2>1, <2>2, <2>3 DEF StepUp
<1>7. CASE Cancel(r)
  BY <1>2, <1>7 DEF Cancel, Outcomes
<1> QED BY <1>3, <1>4, <1>5, <1>6, <1>7

\* What does not change of a request that stays where it is.
LEMMA StaySame ==
    ASSUME NEW q, sent'[q] = sent[q], step'[q] = step[q]
    PROVE  Source(q)' = Source(q) /\ Proof(q)' = Proof(q) /\ Entry(q)' = Entry(q)
BY DEF Source, Proof, Entry, ReplayKey

LEMMA OthersOK ==
    ASSUME Good, NEW r \in Requests, OthersStay(r), NEW q \in Requests \ {r}
    PROVE  /\ RequestOK(q)'
           /\ Source(q)' = Source(q) /\ Proof(q)' = Proof(q) /\ Entry(q)' = Entry(q)
<1>1. /\ pc'[q] = pc[q] /\ sent'[q] = sent[q] /\ step'[q] = step[q]
      /\ memo'[q] = memo[q] /\ verdict'[q] = verdict[q] /\ outcome'[q] = outcome[q]
  BY DEF OthersStay
<1>2. Source(q)' = Source(q) /\ Proof(q)' = Proof(q) /\ Entry(q)' = Entry(q)
  BY <1>1, StaySame
<1>3. RequestOK(q)
  BY DEF Good
<1> QED BY <1>1, <1>2, <1>3 DEF RequestOK

LEMMA SendEffect ==
    ASSUME Good, NEW r \in Requests, Send(r)
    PROVE  /\ Good' /\ OthersStay(r) /\ UNCHANGED <<held, now, uses>>
           /\ pc[r] = "idle" /\ pc'[r] = "arrived"
           /\ UNCHANGED <<step, memo, verdict, outcome>>
<1>1. PICK sub \in Submissions : sent' = [sent EXCEPT ![r] = sub]
  BY DEF Send
<1>2. sub.route \in Seq(Sources) /\ 1 \in 1..Len(sub.route)
  BY SubmissionsAssumption
<1>3. /\ OthersStay(r) /\ RequestsTypeOK' /\ UNCHANGED <<step, memo, verdict, outcome, held, now, uses>>
      /\ pc[r] = "idle" /\ pc'[r] = "arrived" /\ sent'[r] = sub
  BY <1>1 DEF Good, RequestsTypeOK, Places, Send, OthersStay
<1>4. RequestOK(r)'
  BY <1>2, <1>3 DEF Good, RequestOK
<1>5. ChecksTypeOK'
  BY <1>3 DEF Good, ChecksTypeOK
<1> QED BY <1>3, <1>4, <1>5, OthersOK DEF Good

LEMMA LocalEffect ==
    ASSUME Good, NEW r \in Requests, Local(r)
    PROVE  Good'
<1>1. ChecksTypeOK' /\ RequestsTypeOK'
  BY DEF Local, Good, ChecksTypeOK
<1>2. RequestOK(r)'
  <2>1. RequestOK(r)
    BY DEF Good
  <2>2. CASE Ends(r)
    BY <2>1, <2>2, NamesAssumption DEF Ends, RequestOK
  <2>3. CASE Passes(r)
    <3>1. Source(r)' = Source(r) /\ Proof(r)' = Proof(r) /\ Entry(r)' = Entry(r)
      BY <2>3, StaySame DEF Passes
    <3> QED BY <2>1, <2>3, <3>1 DEF Passes, RequestOK
  <2>4. CASE Advances(r)
    <3>1. sent[r].route \in Seq(Sources)
      BY <2>1, <2>4, SubmissionsAssumption DEF Advances, RequestOK
    <3>2. step'[r] \in 1..Len(sent[r].route)
      BY <2>1, <2>4, <3>1 DEF Advances, RequestOK
    <3> QED BY <2>1, <2>4, <3>2 DEF Advances, RequestOK
  <2> QED BY <2>2, <2>3, <2>4 DEF Local
<1>3. \A q \in Requests \ {r} : RequestOK(q)'
  BY OthersOK DEF Local
<1> QED BY <1>1, <1>2, <1>3 DEF Good

\* The use that r makes of its key
Use(r) == [source |-> Source(r), proof |-> Proof(r), by |-> r, at |-> now]

\* The replay check records r's key, or does not.
Records(r) ==
    /\ ~(held[Check[Source(r)]][Proof(r).key] # NotRecorded /\ held[Check[Source(r)]][Proof(r).key] >= now)
    /\ verdict'[r] \in {"first", "failed"}
    /\ held' = [held EXCEPT ![Check[Source(r)]][Proof(r).key] = Expiry(Source(r), Proof(r))]
    /\ uses' = uses \cup {Use(r)}

Declines(r) ==
    /\ \/ /\ held[Check[Source(r)]][Proof(r).key] # NotRecorded
          /\ verdict'[r] = "seen"
       \/ verdict'[r] = "failed"
    /\ UNCHANGED <<held, uses>>

LEMMA CheckEffect ==
    ASSUME Good, NEW r \in Requests, CheckAnswers(r)
    PROVE  /\ Good' /\ OthersStay(r) /\ UNCHANGED <<pc, sent, step, memo, outcome, now>>
           /\ pc[r] = "checking" /\ verdict[r] = NoVerdict
           /\ Records(r) \/ Declines(r)
<1>1. /\ UNCHANGED <<pc, sent, step, memo, outcome, now>>
      /\ pc[r] = "checking" /\ verdict[r] = NoVerdict
  BY DEF CheckAnswers
<1>2. PICK v \in Verdicts : verdict' = [verdict EXCEPT ![r] = v]
  BY DEF CheckAnswers, Verdicts
<1>3. OthersStay(r) /\ RequestsTypeOK' /\ verdict'[r] = v
  BY <1>1, <1>2 DEF Good, RequestsTypeOK, OthersStay
<1>4. Source(r)' = Source(r) /\ Proof(r)' = Proof(r) /\ Entry(r)' = Entry(r)
  BY <1>1, StaySame
<1>5. RequestOK(r)'
  BY <1>1, <1>4 DEF Good, RequestOK
<1>6. Records(r) \/ Declines(r)
  BY <1>3 DEF CheckAnswers, ReplayKey, Records, Declines, Use, Good, RequestsTypeOK
<1>7. ChecksTypeOK'
  <2>1. CASE Declines(r)
    BY <1>1, <2>1 DEF Good, ChecksTypeOK, Declines
  <2>2. CASE Records(r)
    <3>1. /\ Source(r) \in Sources /\ Proof(r) \in Proofs /\ Proof(r).key \in Keys
          /\ Proof(r).iat \in Nat /\ Check[Source(r)] \in Checks /\ Check[Source(r)] # NoCheck
      BY <1>1, AtWork DEF Good, RequestOK
    <3>2. Expiry(Source(r), Proof(r)) \in Nat
      BY <3>1, WindowAssumption DEF Expiry
    <3>3. held' \in [Checks -> [Keys -> Nat \cup {NotRecorded}]]
      BY <2>2, <3>1, <3>2 DEF Records, Good, ChecksTypeOK
    <3>4. Use(r) \in Uses /\ Use(r).at <= now' /\ Check[Use(r).source] # NoCheck
      BY <1>1, <3>1, WindowAssumption DEF Use, Uses, Good, ChecksTypeOK
    <3> QED BY <1>1, <2>2, <3>3, <3>4 DEF Records, Good, ChecksTypeOK
  <2> QED BY <1>6, <2>1, <2>2
<1> QED BY <1>1, <1>3, <1>5, <1>6, <1>7, OthersOK DEF Good

LEMMA TickEffect ==
    ASSUME Good, Tick
    PROVE  Good' /\ now \in Nat /\ now' = now + 1 /\ UNCHANGED <<requestVars, held, uses>>
<1>1. now \in Nat /\ now' = now + 1 /\ now' \in 0..MaxClock /\ UNCHANGED <<requestVars, held, uses>>
  BY WindowAssumption DEF Good, ChecksTypeOK, Tick
<1>2. UNCHANGED <<pc, sent, step, memo, verdict, outcome, held, uses>>
  BY <1>1 DEF requestVars
<1>3. \A u \in uses : u.at <= now'
  <2>1. \A u \in uses : u.at \in Nat /\ u.at <= now
    BY DEF Good, ChecksTypeOK, Uses
  <2> QED BY <1>1, <2>1
<1>4. ChecksTypeOK'
  BY <1>1, <1>2, <1>3 DEF Good, ChecksTypeOK
<1>5. RequestsTypeOK'
  BY <1>2 DEF Good, RequestsTypeOK
<1>6. \A r \in Requests : RequestOK(r)'
  BY <1>2, StaySame DEF Good, RequestOK
<1> QED BY <1>1, <1>4, <1>5, <1>6 DEF Good

LEMMA StepEffect ==
    ASSUME Good, [Next]_vars
    PROVE  /\ Good'
           /\ \/ \E r \in Requests : Send(r) \/ Local(r) \/ CheckAnswers(r)
              \/ Tick
              \/ UNCHANGED vars
<1>1. CASE \E r \in Requests : Send(r) \/ CheckAnswers(r)
  BY <1>1, SendEffect, CheckEffect
<1>2. CASE \E r \in Requests : Verify(r) \/ Validated(r) \/ CheckReturns(r) \/ StepUp(r) \/ Cancel(r)
  BY <1>2, LocalSteps, LocalEffect
<1>3. CASE Tick
  BY <1>3, TickEffect
<1>4. CASE UNCHANGED vars
  <2>1. UNCHANGED <<pc, sent, step, memo, verdict, outcome, held, now, uses>>
    BY <1>4 DEF vars, requestVars
  <2>2. RequestsTypeOK' /\ ChecksTypeOK'
    BY <2>1 DEF Good, RequestsTypeOK, ChecksTypeOK
  <2>3. \A r \in Requests : RequestOK(r)'
    BY <2>1, StaySame DEF Good, RequestOK
  <2> QED BY <1>4, <2>2, <2>3 DEF Good
<1> QED BY <1>1, <1>2, <1>3, <1>4 DEF Next, Terminated
-----------------------------------------------------------------------------
(* The inductive invariant                                                 *)

UseEntry(u) == [check |-> Check[u.source], key |-> u.proof.key]

\* The request that recorded u has not heard of it yet.
InFlight(u) ==
    /\ pc[u.by] = "checking" /\ verdict[u.by] \in {"first", "failed"}
    /\ Source(u.by) = u.source

\* A recorded proof is its request's own and genuine; that request remembers it
\* or asks no more; and the dependency that recorded it refused nothing.
UseOK(u) ==
    /\ pc[u.by] # "idle" /\ u.proof.genuine /\ u.proof = sent[u.by].proof[u.source]
    /\ pc[u.by] = "done" \/ UseEntry(u) \in memo[u.by] \/ InFlight(u)
    /\ \/ \E i \in 1..(step[u.by] - 1) : sent[u.by].route[i] = u.source
       \/ InFlight(u)
       \/ pc[u.by] = "steppingUp" /\ Source(u.by) = u.source
       \/ pc[u.by] = "done" /\ outcome[u.by] \notin {"expired", "refused", "replay"}

UsesInv == \A u \in uses : UseOK(u)

\* A replay check holds what it recorded last until it expires, and nothing else.
HeldInv ==
    /\ \A u \in uses : \/ Expiry(u.source, u.proof) < now
                       \/ held[Check[u.source]][u.proof.key] = Expiry(u.source, u.proof)
    /\ \A c \in Checks, k \in Keys : held[c][k] # NotRecorded =>
          \E u \in uses : Check[u.source] = c /\ u.proof.key = k

\* Of two uses of one key, one was recorded after the other's record expired.
ApartInv ==
    \A u, v \in uses : SameUse(u, v) /\ u.by # v.by =>
        Expiry(u.source, u.proof) < v.at \/ Expiry(v.source, v.proof) < u.at

UsedByAnother(r) ==
    \E u \in uses : u.by # r /\ Check[u.source] = Check[Source(r)] /\ u.proof.key = Proof(r).key

SeenInv == \A r \in Requests : verdict[r] = "seen" \/ outcome[r] = "replay" => UsedByAnother(r)

\* What a request remembers is recorded, and it has passed a dependency with a
\* replay check only by what it remembers.
PassedWith(r, i) ==
    LET s == sent[r].route[i]
    IN  Check[s] # NoCheck => [check |-> Check[s], key |-> sent[r].proof[s].key] \in memo[r]

RecordedOK(r) ==
    /\ \A e \in memo[r] : \E u \in uses : u.by = r /\ UseEntry(u) = e
    /\ verdict[r] = "first" => \E u \in uses : u.by = r /\ UseEntry(u) = Entry(r)
    /\ pc[r] # "idle" => \A i \in 1..(step[r] - 1) : PassedWith(r, i)
    /\ pc[r] = "steppingUp" \/ outcome[r] = "accepted" => PassedWith(r, step[r])
    /\ outcome[r] = "accepted" => step[r] = Len(sent[r].route)

RecordedInv == \A r \in Requests : RecordedOK(r)

IInv == Good /\ UsesInv /\ HeldInv /\ ApartInv /\ SeenInv /\ RecordedInv

\* A use stays as it is while its request does.
LEMMA UseStays ==
    ASSUME NEW u, UseOK(u),
           pc'[u.by] = pc[u.by], sent'[u.by] = sent[u.by], step'[u.by] = step[u.by],
           memo'[u.by] = memo[u.by], verdict'[u.by] = verdict[u.by], outcome'[u.by] = outcome[u.by]
    PROVE  UseOK(u)'
<1>1. Source(u.by)' = Source(u.by)
  BY StaySame
<1> QED BY <1>1 DEF UseOK, InFlight, UseEntry

\* A use of a request that takes a step of its own
LEMMA UseMoves ==
    ASSUME Good, NEW u \in uses, UseOK(u), Local(u.by)
    PROVE  UseOK(u)'
<1> DEFINE q == u.by
<1>1. q \in Requests /\ RequestOK(q) /\ pc[q] # "idle"
  BY DEF Good, ChecksTypeOK, Uses, UseOK
<1>2. sent'[q] = sent[q]
  BY DEF Local, Ends, Passes, Advances
<1>3. u.proof.genuine /\ u.proof = sent'[q].proof[u.source]
  BY <1>2 DEF UseOK
<1>4. step[q] \in Nat /\ sent[q] \in Submissions
  BY <1>1 DEF Good, RequestsTypeOK, RequestOK
<1>5. CASE Ends(q)
  <2>1. pc'[q] = "done" /\ step'[q] = step[q]
    BY <1>5 DEF Ends
  <2>2. \/ \E i \in 1..(step[q] - 1) : sent[q].route[i] = u.source
        \/ outcome'[q] \notin {"expired", "refused", "replay"}
    <3> SUFFICES ASSUME ~ \E i \in 1..(step[q] - 1) : sent[q].route[i] = u.source
                 PROVE  outcome'[q] \notin {"expired", "refused", "replay"}
      OBVIOUS
    <3>1. pc[q] \notin {"arrived", "validating"} /\ verdict[q] # "seen"
      BY <1>1, NamesAssumption DEF UseOK, InFlight, RequestOK
    <3> QED BY <1>5, <3>1 DEF Ends
  <2> QED BY <1>2, <1>3, <2>1, <2>2 DEF UseOK
<1>6. CASE Passes(q)
  <2>1. step'[q] = step[q] /\ Source(q)' = Source(q)
    BY <1>6, StaySame DEF Passes
  <2>2. CASE pc[q] = "checking"
    <3>1. /\ pc'[q] = "steppingUp" /\ memo'[q] = memo[q] \cup {Entry(q)}
      BY <1>6, <2>2 DEF Passes
    <3>2. InFlight(u) => UseEntry(u) = Entry(q)
      BY DEF InFlight, UseEntry, Entry, ReplayKey, UseOK, Proof
    <3>3. UseEntry(u)' = UseEntry(u)
      BY DEF UseEntry
    <3>4. UseEntry(u) \in memo'[q]
      BY <2>2, <3>1, <3>2 DEF UseOK
    <3>5. \/ \E i \in 1..(step[q] - 1) : sent[q].route[i] = u.source
          \/ Source(q) = u.source
      BY <2>2 DEF UseOK, InFlight
    <3> QED BY <1>2, <1>3, <2>1, <3>1, <3>3, <3>4, <3>5 DEF UseOK
  <2>3. CASE pc[q] # "checking"
    <3>1. pc'[q] # "idle" /\ memo'[q] = memo[q] /\ pc[q] \in {"arrived", "validating"}
      BY <1>6, <2>3 DEF Passes
    <3>2. /\ UseEntry(u) \in memo[q]
          /\ \E i \in 1..(step[q] - 1) : sent[q].route[i] = u.source
      BY <3>1 DEF UseOK, InFlight
    <3> QED BY <1>2, <1>3, <2>1, <3>1, <3>2 DEF UseOK, UseEntry
  <2> QED BY <2>2, <2>3
<1>7. CASE Advances(q)
  <2>1. /\ pc[q] = "steppingUp" /\ pc'[q] = "arrived" /\ step'[q] = step[q] + 1
        /\ memo'[q] = memo[q]
    BY <1>7 DEF Advances
  <2>2. UseEntry(u) \in memo[q]
    BY <2>1 DEF UseOK, InFlight
  <2>3. PICK i \in 1..step[q] : sent[q].route[i] = u.source
    <3>1. step[q] \in 1..step[q] /\ 1..(step[q] - 1) \subseteq 1..step[q]
      BY <1>1, <1>4 DEF RequestOK
    <3> QED BY <2>1, <3>1 DEF UseOK, InFlight, Source
  <2>4. \E j \in 1..(step'[q] - 1) : sent'[q].route[j] = u.source
    BY <1>2, <1>4, <2>1, <2>3
  <2> QED BY <1>3, <2>1, <2>2, <2>4 DEF UseOK, UseEntry
<1> QED BY <1>5, <1>6, <1>7 DEF Local

LEMMA UsesStep ==
    ASSUME Good, UsesInv, [Next]_vars
    PROVE  UsesInv'
<1>1. \A u \in uses : UseOK(u) /\ u.by \in Requests /\ pc[u.by] # "idle"
  BY DEF UsesInv, UseOK, Good, ChecksTypeOK, Uses
<1>2. ASSUME NEW r \in Requests, OthersStay(r), NEW u \in uses, u.by # r
      PROVE  UseOK(u)'
  BY <1>1, <1>2, UseStays DEF OthersStay
<1>3. ASSUME NEW r \in Requests, Send(r)
      PROVE  UsesInv'
  BY <1>1, <1>2, <1>3, SendEffect DEF UsesInv
<1>4. ASSUME NEW r \in Requests, Local(r)
      PROVE  UsesInv'
  BY <1>1, <1>2, <1>4, UseMoves DEF UsesInv, Local
<1>5. ASSUME NEW r \in Requests, CheckAnswers(r)
      PROVE  UsesInv'
  <2>1. /\ OthersStay(r) /\ UNCHANGED <<pc, sent, step, memo, outcome, now>>
        /\ pc[r] = "checking" /\ verdict[r] = NoVerdict /\ RequestOK(r)
        /\ Records(r) \/ Declines(r)
    BY <1>5, CheckEffect DEF Good
  <2>2. ASSUME NEW u \in uses, u.by = r
        PROVE  UseOK(u)'
    <3>1. UseOK(u) /\ ~InFlight(u)
      BY <1>1, <2>1, <2>2, NamesAssumption DEF InFlight
    <3>2. UseEntry(u) \in memo[r] /\ \E i \in 1..(step[r] - 1) : sent[r].route[i] = u.source
      BY <2>1, <2>2, <3>1 DEF UseOK
    <3> QED BY <2>1, <2>2, <3>1, <3>2 DEF UseOK, UseEntry
  <2>3. ASSUME Records(r)
        PROVE  UseOK(Use(r))'
    <3>1. Source(r)' = Source(r) /\ Proof(r)' = Proof(r) /\ verdict'[r] \in {"first", "failed"}
      BY <2>1, <2>3, StaySame DEF Records
    <3>2. Use(r)' = Use(r) /\ Use(r).by = r /\ Use(r).source = Source(r) /\ Use(r).proof = Proof(r)
      BY <2>1, <3>1 DEF Use
    <3>3. Proof(r).genuine
      BY <2>1 DEF RequestOK
    <3> QED BY <2>1, <3>1, <3>2, <3>3 DEF UseOK, InFlight, Proof
  <2>4. uses' = uses \/ (Records(r) /\ uses' = uses \cup {Use(r)})
    BY <2>1 DEF Records, Declines
  <2>5. Use(r)' = Use(r)
    BY <2>1, StaySame DEF Use
  <2> QED BY <1>2, <2>1, <2>2, <2>3, <2>4, <2>5 DEF UsesInv
<1>6. CASE Tick
  BY <1>1, <1>6, TickEffect, UseStays DEF UsesInv, requestVars
<1>7. CASE UNCHANGED vars
  BY <1>1, <1>7, UseStays DEF UsesInv, vars, requestVars
<1> QED BY <1>3, <1>4, <1>5, <1>6, <1>7, StepEffect

\* Every use's record is of a key its check holds, with a number for its expiry.
LEMMA UseTypes ==
    ASSUME Good, NEW u \in uses
    PROVE  /\ u.source \in Sources /\ u.by \in Requests /\ u.at \in Nat /\ u.at <= now /\ now \in Nat
           /\ Check[u.source] \in Checks /\ Check[u.source] # NoCheck
           /\ u.proof \in Proofs /\ u.proof.key \in Keys
           /\ Expiry(u.source, u.proof) \in Nat
<1>1. u \in Uses /\ u.at <= now /\ Check[u.source] # NoCheck /\ now \in Nat
  BY WindowAssumption DEF Good, ChecksTypeOK
<1>2. u.proof \in Proofs /\ u.source \in Sources /\ u.by \in Requests /\ u.at \in Nat
  BY <1>1 DEF Uses
<1>3. u.proof.key \in Keys /\ u.proof.iat \in Nat
  BY <1>2, ProofsTypes
<1> QED BY <1>1, <1>2, <1>3, WindowAssumption DEF Checks, Expiry

\* When a key is recorded, every earlier record of it has expired.
LEMMA RecordsExpired ==
    ASSUME Good, HeldInv, NEW r \in Requests, pc[r] # "idle", Records(r),
           NEW u \in uses, Check[u.source] = Check[Source(r)], u.proof.key = Proof(r).key
    PROVE  Expiry(u.source, u.proof) < now
<1>1. Expiry(u.source, u.proof) \in Nat /\ now \in Nat
  BY UseTypes
<1>2. ~(held[Check[u.source]][u.proof.key] # NotRecorded /\ held[Check[u.source]][u.proof.key] >= now)
  BY DEF Records
<1> QED BY <1>1, <1>2, NamesAssumption DEF HeldInv

LEMMA HeldStep ==
    ASSUME Good, HeldInv, ApartInv, [Next]_vars
    PROVE  HeldInv' /\ ApartInv'
<1>1. CASE UNCHANGED <<held, now, uses>>
  BY <1>1 DEF HeldInv, ApartInv
<1>2. CASE Tick
  <2>1. now \in Nat /\ now' = now + 1 /\ UNCHANGED <<held, uses>>
    BY <1>2, TickEffect
  <2>2. \A u \in uses : Expiry(u.source, u.proof) \in Nat
    BY UseTypes
  <2>3. \A u \in uses : \/ Expiry(u.source, u.proof) < now'
                        \/ held[Check[u.source]][u.proof.key] = Expiry(u.source, u.proof)
    BY <2>1, <2>2 DEF HeldInv
  <2> QED BY <2>1, <2>3 DEF HeldInv, ApartInv
<1>3. ASSUME NEW r \in Requests, CheckAnswers(r), Records(r)
      PROVE  HeldInv' /\ ApartInv'
  <2> DEFINE c == Check[Source(r)]
             k == Proof(r).key
             e == Expiry(Source(r), Proof(r))
             w == Use(r)
  <2>1. /\ pc[r] = "checking" /\ UNCHANGED now /\ Source(r)' = Source(r) /\ Proof(r)' = Proof(r)
        /\ held' = [held EXCEPT ![c][k] = e] /\ uses' = uses \cup {w}
    BY <1>3, CheckEffect, StaySame DEF Records
  <2>2. c \in Checks /\ k \in Keys /\ e \in Nat
    <3>1. Check[Source(r)] # NoCheck
      BY <2>1 DEF Good, RequestOK
    <3> QED BY <2>1, <3>1, AtWork, WindowAssumption DEF Expiry
  <2>3. w.source = Source(r) /\ w.proof = Proof(r) /\ w.by = r /\ w.at = now
    BY DEF Use
  <2>4. /\ held'[c][k] = e
        /\ \A d \in Checks, l \in Keys : d # c \/ l # k => held'[d][l] = held[d][l]
    BY <2>1, <2>2 DEF Good, ChecksTypeOK
  <2>5. \A u \in uses : Check[u.source] = c /\ u.proof.key = k => Expiry(u.source, u.proof) < now
    BY <1>3, <2>1, RecordsExpired
  <2>6. Check[w.source] = c /\ w.proof.key = k /\ Expiry(w.source, w.proof) = e
    BY <2>3
  <2> HIDE DEF c, k, e, w
  <2>7. \A u \in uses' : \/ Expiry(u.source, u.proof) < now'
                         \/ held'[Check[u.source]][u.proof.key] = Expiry(u.source, u.proof)
    <3>1. ASSUME NEW u \in uses
          PROVE  \/ Expiry(u.source, u.proof) < now
                 \/ held'[Check[u.source]][u.proof.key] = Expiry(u.source, u.proof)
      <4>1. Check[u.source] \in Checks /\ u.proof.key \in Keys
        BY UseTypes
      <4> QED BY <2>4, <2>5, <4>1 DEF HeldInv
    <3>2. held'[Check[w.source]][w.proof.key] = Expiry(w.source, w.proof)
      BY <2>4, <2>6
    <3> QED BY <2>1, <3>1, <3>2
  <2>8. ASSUME NEW d \in Checks, NEW l \in Keys, held'[d][l] # NotRecorded
        PROVE  \E u \in uses' : Check[u.source] = d /\ u.proof.key = l
    <3>1. CASE d = c /\ l = k
      BY <2>1, <2>6, <3>1
    <3>2. CASE d # c \/ l # k
      <4>1. held[d][l] # NotRecorded
        BY <2>4, <2>8, <3>2
      <4>2. PICK u \in uses : Check[u.source] = d /\ u.proof.key = l
        BY <4>1 DEF HeldInv
      <4> QED BY <2>1, <4>2
    <3> QED BY <3>1, <3>2
  <2>9. ASSUME NEW u \in uses', NEW v \in uses', SameUse(u, v), u.by # v.by
        PROVE  Expiry(u.source, u.proof) < v.at \/ Expiry(v.source, v.proof) < u.at
    <3>1. Check[u.source] = Check[v.source] /\ u.proof.key = v.proof.key
      BY <2>9 DEF SameUse
    <3>2. CASE u \in uses /\ v \in uses
      BY <2>9, <3>2 DEF ApartInv
    <3>3. CASE u \in uses /\ v = w
      BY <2>3, <2>5, <2>6, <3>1, <3>3 DEF w
    <3>4. CASE u = w /\ v \in uses
      BY <2>3, <2>5, <2>6, <3>1, <3>4 DEF w
    <3> QED BY <2>1, <2>9, <3>2, <3>3, <3>4
  <2> QED BY <2>7, <2>8, <2>9 DEF HeldInv, ApartInv, SameUse
<1>4. ASSUME NEW r \in Requests, CheckAnswers(r), Declines(r)
      PROVE  UNCHANGED <<held, now, uses>>
  BY <1>4, CheckEffect DEF Declines
<1>5. \A r \in Requests : Send(r) \/ Local(r) => UNCHANGED <<held, now, uses>>
  BY SendEffect DEF Local
<1>6. UNCHANGED vars => UNCHANGED <<held, now, uses>>
  BY DEF vars
<1> QED BY <1>1, <1>2, <1>3, <1>4, <1>5, <1>6, StepEffect, CheckEffect

LEMMA UsesGrow ==
    ASSUME Good, [Next]_vars
    PROVE  uses \subseteq uses'
<1>1. \A r \in Requests : Send(r) \/ Local(r) => uses' = uses
  BY SendEffect DEF Local
<1>2. \A r \in Requests : CheckAnswers(r) => uses \subseteq uses'
  BY CheckEffect DEF Records, Declines
<1> QED BY <1>1, <1>2, StepEffect DEF vars, Tick

LEMMA SeenStep ==
    ASSUME Good, UsesInv, HeldInv, SeenInv, [Next]_vars
    PROVE  SeenInv'
<1>1. uses \subseteq uses'
  BY UsesGrow
<1>2. ASSUME NEW q \in Requests, sent'[q] = sent[q], step'[q] = step[q], UsedByAnother(q)
      PROVE  UsedByAnother(q)'
  BY <1>1, <1>2, StaySame DEF UsedByAnother
<1>3. ASSUME NEW q \in Requests, sent'[q] = sent[q], step'[q] = step[q],
             verdict'[q] = verdict[q], outcome'[q] = outcome[q],
             verdict'[q] = "seen" \/ outcome'[q] = "replay"
      PROVE  UsedByAnother(q)'
  BY <1>2, <1>3 DEF SeenInv
<1>4. ASSUME NEW r \in Requests, Send(r)
      PROVE  SeenInv'
  <2>1. /\ OthersStay(r) /\ UNCHANGED <<verdict, outcome>> /\ pc[r] = "idle" /\ RequestOK(r)
    BY <1>4, SendEffect DEF Good
  <2>2. verdict'[r] # "seen" /\ outcome'[r] # "replay"
    BY <2>1, NamesAssumption DEF RequestOK
  <2> QED BY <1>3, <2>1, <2>2 DEF OthersStay, SeenInv
<1>5. ASSUME NEW r \in Requests, Local(r)
      PROVE  SeenInv'
  <2>1. OthersStay(r) /\ RequestOK(r)
    BY <1>5 DEF Good, Local
  <2>2. ASSUME verdict'[r] = "seen" \/ outcome'[r] = "replay"
        PROVE  sent'[r] = sent[r] /\ step'[r] = step[r] /\ UsedByAnother(r)
    <3>1. Ends(r) /\ verdict[r] = "seen"
      BY <1>5, <2>1, <2>2, NamesAssumption DEF Local, Ends, Passes, Advances, RequestOK
    <3> QED BY <3>1 DEF Ends, SeenInv
  <2> QED BY <1>2, <1>3, <2>1, <2>2 DEF OthersStay, SeenInv
<1>6. ASSUME NEW r \in Requests, CheckAnswers(r)
      PROVE  SeenInv'
  <2>1. /\ OthersStay(r) /\ UNCHANGED <<pc, sent, step, memo, outcome, now>>
        /\ pc[r] = "checking" /\ verdict[r] = NoVerdict /\ RequestOK(r)
        /\ Records(r) \/ Declines(r)
    BY <1>6, CheckEffect DEF Good
  <2>2. ASSUME verdict'[r] = "seen" \/ outcome'[r] = "replay"
        PROVE  UsedByAnother(r)
    <3>1. held[Check[Source(r)]][Proof(r).key] # NotRecorded
      BY <2>1, <2>2 DEF Records, Declines, RequestOK
    <3>2. Check[Source(r)] \in Checks /\ Proof(r).key \in Keys
      BY <2>1, AtWork DEF RequestOK
    <3>3. PICK u \in uses : Check[u.source] = Check[Source(r)] /\ u.proof.key = Proof(r).key
      BY <3>1, <3>2 DEF HeldInv
    <3>4. UseEntry(u) = Entry(r)
      BY <3>3 DEF UseEntry, Entry, ReplayKey
    <3>5. u.by # r
      BY <2>1, <3>4, NamesAssumption DEF UsesInv, UseOK, InFlight, RequestOK
    <3> QED BY <3>3, <3>5 DEF UsedByAnother
  <2> QED BY <1>2, <1>3, <2>1, <2>2 DEF OthersStay, SeenInv
<1>7. CASE Tick \/ UNCHANGED vars
  <2>1. UNCHANGED <<sent, step, verdict, outcome>>
    BY <1>7 DEF Tick, vars, requestVars
  <2> QED BY <1>3, <2>1 DEF SeenInv
<1> QED BY <1>4, <1>5, <1>6, <1>7, StepEffect

\* The dependency a request is at has been passed when its entry is remembered.
LEMMA PassedHere ==
    ASSUME NEW r
    PROVE  PassedWith(r, step[r]) <=> (Check[Source(r)] # NoCheck => Entry(r) \in memo[r])
BY DEF PassedWith, Source, Entry, ReplayKey, Proof

LEMMA RecordedStays ==
    ASSUME Good, NEW r \in Requests, RecordedOK(r), uses \subseteq uses',
           pc'[r] = pc[r], sent'[r] = sent[r], step'[r] = step[r],
           memo'[r] = memo[r], verdict'[r] = verdict[r], outcome'[r] = outcome[r]
    PROVE  RecordedOK(r)'
<1>1. Entry(r)' = Entry(r)
  BY StaySame
<1>2. \A i : PassedWith(r, i)' <=> PassedWith(r, i)
  BY DEF PassedWith
<1> QED BY <1>1, <1>2 DEF RecordedOK, UseEntry

LEMMA RecordedMoves ==
    ASSUME Good, NEW r \in Requests, RecordedOK(r), Local(r)
    PROVE  RecordedOK(r)'
<1>1. RequestOK(r) /\ uses' = uses /\ sent'[r] = sent[r]
  BY DEF Good, Local, Ends, Passes, Advances
<1>2. memo[r] \subseteq memo'[r]
  BY DEF Local, Ends, Passes, Advances
<1>3. \A i : PassedWith(r, i) => PassedWith(r, i)'
  BY <1>1, <1>2 DEF PassedWith
<1>4. \A u : UseEntry(u)' = UseEntry(u)
  BY DEF UseEntry
<1>5. CASE Ends(r)
  <2>1. /\ memo'[r] = memo[r] /\ step'[r] = step[r] /\ verdict'[r] # "first"
        /\ pc[r] # "idle" /\ pc'[r] = "done"
        /\ outcome'[r] = "accepted" => pc[r] = "steppingUp" /\ step[r] = Len(sent[r].route)
    BY <1>5, NamesAssumption DEF Ends
  <2>2. outcome'[r] = "accepted" => PassedWith(r, step[r])'
    BY <1>3, <2>1 DEF RecordedOK
  <2>3. \A i \in 1..(step[r] - 1) : PassedWith(r, i)'
    BY <1>3, <2>1 DEF RecordedOK
  <2>4. \A e \in memo'[r] : \E u \in uses' : u.by = r /\ UseEntry(u)' = e
    BY <1>1, <1>4, <2>1 DEF RecordedOK
  <2> QED BY <1>1, <2>1, <2>2, <2>3, <2>4 DEF RecordedOK, PassedWith
<1>6. CASE Passes(r)
  <2>1. /\ step'[r] = step[r] /\ verdict'[r] # "first" /\ pc[r] # "idle"
        /\ outcome'[r] # "accepted" /\ Entry(r)' = Entry(r) /\ Source(r)' = Source(r)
    BY <1>1, <1>6, NamesAssumption, StaySame DEF Passes, RequestOK
  <2>2. \A i \in 1..(step[r] - 1) : PassedWith(r, i)'
    BY <1>3, <2>1 DEF RecordedOK
  <2>3. \A e \in memo'[r] : \E u \in uses' : u.by = r /\ UseEntry(u)' = e
    BY <1>1, <1>4, <1>6 DEF RecordedOK, Passes
  <2>4. ASSUME pc'[r] = "steppingUp"
        PROVE  PassedWith(r, step[r])'
    <3>1. Check[Source(r)] # NoCheck => Entry(r) \in memo'[r]
      BY <1>6, <2>4 DEF Passes
    <3> QED BY <1>1, <2>1, <3>1 DEF PassedWith, Source, Entry, ReplayKey, Proof
  <2> QED BY <1>1, <2>1, <2>2, <2>3, <2>4 DEF RecordedOK, PassedWith
<1>7. CASE Advances(r)
  <2>1. /\ pc[r] = "steppingUp" /\ pc'[r] = "arrived" /\ step'[r] = step[r] + 1 /\ memo'[r] = memo[r]
        /\ verdict'[r] # "first" /\ outcome'[r] # "accepted" /\ step[r] \in Nat
    BY <1>1, <1>7, NamesAssumption DEF Advances, RequestOK, Good, RequestsTypeOK
  <2>2. \A i \in 1..(step[r] - 1) : PassedWith(r, i)
    BY <2>1 DEF RecordedOK
  <2>3. PassedWith(r, step[r])
    BY <2>1 DEF RecordedOK
  <2>4. \A i \in 1..(step'[r] - 1) : i \in 1..(step[r] - 1) \/ i = step[r]
    BY <2>1
  <2>5. \A i \in 1..(step'[r] - 1) : PassedWith(r, i)'
    BY <1>3, <2>2, <2>3, <2>4
  <2>6. \A e \in memo'[r] : \E u \in uses' : u.by = r /\ UseEntry(u)' = e
    BY <1>1, <1>4, <2>1 DEF RecordedOK
  <2> QED BY <2>1, <2>5, <2>6 DEF RecordedOK
<1> QED BY <1>5, <1>6, <1>7 DEF Local

LEMMA RecordedStep ==
    ASSUME Good, RecordedInv, [Next]_vars
    PROVE  RecordedInv'
<1>1. uses \subseteq uses'
  BY UsesGrow
<1>2. ASSUME NEW r \in Requests, OthersStay(r), NEW q \in Requests \ {r}
      PROVE  RecordedOK(q)'
  BY <1>1, <1>2, RecordedStays DEF OthersStay, RecordedInv
<1>3. ASSUME NEW r \in Requests, Send(r)
      PROVE  RecordedInv'
  <2>1. /\ OthersStay(r) /\ UNCHANGED <<step, memo, verdict, outcome>>
        /\ pc[r] = "idle" /\ pc'[r] = "arrived" /\ RequestOK(r)
    BY <1>3, SendEffect DEF Good
  <2>2. /\ memo'[r] = {} /\ step'[r] = 1 /\ verdict'[r] # "first" /\ outcome'[r] # "accepted"
    BY <2>1, NamesAssumption DEF RequestOK
  <2>3. RecordedOK(r)'
    BY <2>1, <2>2 DEF RecordedOK
  <2> QED BY <1>2, <2>1, <2>3 DEF RecordedInv
<1>4. ASSUME NEW r \in Requests, Local(r)
      PROVE  RecordedInv'
  BY <1>2, <1>4, RecordedMoves DEF RecordedInv, Local
<1>5. ASSUME NEW r \in Requests, CheckAnswers(r)
      PROVE  RecordedInv'
  <2>1. /\ OthersStay(r) /\ UNCHANGED <<pc, sent, step, memo, outcome, now>>
        /\ Records(r) \/ Declines(r)
    BY <1>5, CheckEffect
  <2>2. Source(r)' = Source(r) /\ Proof(r)' = Proof(r) /\ Entry(r)' = Entry(r)
    BY <2>1, StaySame
  <2>3. ASSUME verdict'[r] = "first"
        PROVE  \E u \in uses' : u.by = r /\ UseEntry(u)' = Entry(r)'
    <3>1. uses' = uses \cup {Use(r)}
      BY <2>1, <2>3 DEF Records, Declines
    <3>2. Use(r).by = r /\ UseEntry(Use(r)) = Entry(r)
      BY DEF Use, UseEntry, Entry, ReplayKey
    <3>3. Use(r) \in uses'
      BY <3>1
    <3> QED BY <2>2, <3>2, <3>3 DEF UseEntry
  <2>4. \A i : PassedWith(r, i)' <=> PassedWith(r, i)
    BY <2>1 DEF PassedWith
  <2>5. RecordedOK(r)
    BY DEF RecordedInv
  <2>6. \A e \in memo'[r] : \E u \in uses' : u.by = r /\ UseEntry(u)' = e
    BY <1>1, <2>1, <2>5 DEF RecordedOK, UseEntry
  <2>7. RecordedOK(r)'
    BY <2>1, <2>3, <2>4, <2>5, <2>6 DEF RecordedOK
  <2> QED BY <1>2, <2>1, <2>7 DEF RecordedInv
<1>6. CASE Tick \/ UNCHANGED vars
  <2>1. UNCHANGED <<pc, sent, step, memo, verdict, outcome>>
    BY <1>6 DEF Tick, vars, requestVars
  <2> QED BY <1>1, <2>1, RecordedStays DEF RecordedInv
<1> QED BY <1>3, <1>4, <1>5, <1>6, StepEffect

LEMMA Invariant == Spec => []IInv
<1>1. Init => IInv
  <2> SUFFICES ASSUME Init PROVE IInv
    OBVIOUS
  <2>1. Good
    BY GoodInit
  <2>2. UsesInv /\ HeldInv /\ ApartInv
    BY DEF Init, UsesInv, HeldInv, ApartInv
  <2>3. SeenInv
    BY NamesAssumption DEF Init, SeenInv
  <2>4. RecordedInv
    BY NamesAssumption DEF Init, RecordedInv, RecordedOK
  <2> QED BY <2>1, <2>2, <2>3, <2>4 DEF IInv
<1>2. IInv /\ [Next]_vars => IInv'
  BY StepEffect, UsesStep, HeldStep, SeenStep, RecordedStep DEF IInv
<1> QED BY <1>1, <1>2, PTL DEF Spec
-----------------------------------------------------------------------------
(* What follows                                                            *)

\* Every request, memo and record keeps its type, and the history is of
\* requests that were sent, up to now.
THEOREM TypeCorrect == Spec => []TypeOK
<1>1. IInv => TypeOK
  <2> SUFFICES ASSUME IInv PROVE TypeOK
    OBVIOUS
  <2>1. \A r \in Requests : pc[r] # "idle" => sent[r] # NoSubmission /\ step[r] \in DOMAIN sent[r].route
    <3> SUFFICES ASSUME NEW r \in Requests, pc[r] # "idle"
                 PROVE  sent[r] # NoSubmission /\ step[r] \in DOMAIN sent[r].route
      OBVIOUS
    <3>1. sent[r] \in Submissions /\ step[r] \in 1..Len(sent[r].route)
      BY AtWork DEF IInv
    <3>2. sent[r].route \in Seq(Sources)
      BY <3>1, SubmissionsAssumption
    <3> QED BY <3>1, <3>2, NamesAssumption
  <2>2. \A u \in uses : u.source \in Sources /\ u.by \in Requests /\ u.at \in 0..now
    BY UseTypes DEF IInv
  <2> QED BY <2>1, <2>2 DEF IInv, Good, RequestsTypeOK, ChecksTypeOK, TypeOK, Places
<1> QED BY <1>1, Invariant, PTL

\* Of two requests that used one key of a replay check, one used it only after
\* the other's record had expired: for all keys, windows and sources.
UsesApart ==
    \A u \in uses : \A v \in uses :
        SameUse(u, v) /\ u.by # v.by =>
            v.at > u.proof.iat + Age[u.source] \/ u.at > v.proof.iat + Age[v.source]

THEOREM KeysApart == Spec => []UsesApart
<1>1. IInv => UsesApart
  <2> SUFFICES ASSUME IInv, NEW u \in uses, NEW v \in uses, SameUse(u, v), u.by # v.by
               PROVE  v.at > u.proof.iat + Age[u.source] \/ u.at > v.proof.iat + Age[v.source]
    BY DEF UsesApart
  <2>1. Expiry(u.source, u.proof) < v.at \/ Expiry(v.source, v.proof) < u.at
    BY DEF IInv, ApartInv
  <2>2. /\ Expiry(u.source, u.proof) \in Nat /\ Expiry(v.source, v.proof) \in Nat
        /\ u.at \in Nat /\ v.at \in Nat
    BY UseTypes DEF IInv
  <2> QED BY <2>1, <2>2 DEF Expiry
<1> QED BY <1>1, Invariant, PTL

\* As long as a key is held until one instant whoever records it, a proof is
\* used by a second request only once its window is over.
THEOREM OneUse == ASSUME OneExpiryPerKey PROVE Spec => []OncePerWindow
<1>1. IInv => OncePerWindow
  <2> SUFFICES ASSUME IInv, NEW u \in uses, NEW v \in uses, SameUse(u, v), u.by # v.by, u.at <= v.at
               PROVE  ~InWindow(v.source, v.proof, v.at)
    BY DEF OncePerWindow
  <2>1. Expiry(u.source, u.proof) < v.at \/ Expiry(v.source, v.proof) < u.at
    BY DEF IInv, ApartInv
  <2>2. /\ Expiry(u.source, u.proof) \in Nat /\ Expiry(v.source, v.proof) \in Nat
        /\ u.at \in Nat /\ v.at \in Nat /\ v.source \in Sources
        /\ v.proof \in Proofs /\ u.proof \in Proofs
        /\ Check[u.source] # NoCheck
    BY UseTypes DEF IInv
  <2>3. Expiry(u.source, u.proof) = Expiry(v.source, v.proof)
    <3>1. /\ u.proof = sent[u.by].proof[u.source] /\ pc[u.by] # "idle"
          /\ v.proof = sent[v.by].proof[v.source] /\ pc[v.by] # "idle"
      BY DEF IInv, UsesInv, UseOK
    <3>2. /\ sent[u.by] \in Submissions /\ sent[v.by] \in Submissions
          /\ u.source \in Sources
      BY <3>1, UseTypes, AtWork DEF IInv
    <3> QED BY <2>2, <3>1, <3>2, OneExpiryPerKey DEF OneExpiryPerKey, SameUse
  <2>4. v.at > v.proof.iat + Age[v.source]
    BY <2>1, <2>2, <2>3 DEF Expiry
  <2>5. v.proof.iat \in Nat /\ Age[v.source] \in Nat
    BY <2>2, ProofsTypes, WindowAssumption
  <2> QED BY <2>2, <2>4, <2>5 DEF InWindow
<1> QED BY <1>1, Invariant, PTL

\* A replay is always of a genuine proof that another request recorded, and that
\* request was not refused by the dependency that recorded it.
THEOREM ReplaysExplained == Spec => []ReplayOnlyOfAnother
<1>1. IInv => ReplayOnlyOfAnother
  <2> SUFFICES ASSUME IInv, NEW r \in Requests, outcome[r] = "replay"
               PROVE  \E u \in uses :
                         /\ u.by # r /\ u.proof.genuine /\ RefusedLater(u)
                         /\ Check[u.source] = Check[Source(r)] /\ u.proof.key = Proof(r).key
    BY DEF ReplayOnlyOfAnother
  <2>1. PICK u \in uses : /\ u.by # r
                          /\ Check[u.source] = Check[Source(r)] /\ u.proof.key = Proof(r).key
    BY DEF IInv, SeenInv, UsedByAnother
  <2>2. UseOK(u) /\ u.by \in Requests /\ RequestOK(u.by)
    BY UseTypes DEF IInv, UsesInv, Good
  <2>3. u.proof.genuine /\ RefusedLater(u)
    BY <2>2 DEF UseOK, RefusedLater, InFlight, RequestOK
  <2> QED BY <2>1, <2>3
<1> QED BY <1>1, Invariant, PTL

\* As long as a key names one proof of a request, an accepted request recorded
\* every proof with the replay check of each source that asked for it.
THEOREM AllRecorded == ASSUME OneProofPerKey PROVE Spec => []EachCheckRecorded
<1>1. IInv => EachCheckRecorded
  <2> SUFFICES ASSUME IInv, NEW r \in Requests, outcome[r] = "accepted",
                      NEW i \in DOMAIN sent[r].route, Check[sent[r].route[i]] # NoCheck
               PROVE  LET s == sent[r].route[i]
                      IN  \E u \in uses : u.by = r /\ Check[u.source] = Check[s]
                                          /\ u.proof = sent[r].proof[s]
    BY DEF EachCheckRecorded
  <2> DEFINE s == sent[r].route[i]
  <2>1. RecordedOK(r) /\ RequestOK(r) /\ pc[r] # "idle" /\ sent[r] \in Submissions
    BY DEF IInv, RecordedInv, Good, RequestOK
  <2>2. sent[r].route \in Seq(Sources)
    BY <2>1, SubmissionsAssumption
  <2>3. i \in 1..step[r] /\ step[r] \in Nat /\ s \in Sources
    BY <2>1, <2>2 DEF RecordedOK, IInv, Good, RequestsTypeOK
  <2>4. PassedWith(r, i)
    <3>1. i \in 1..(step[r] - 1) \/ i = step[r]
      BY <2>3
    <3> QED BY <2>1, <3>1 DEF RecordedOK
  <2>5. PICK u \in uses : u.by = r /\ UseEntry(u) = [check |-> Check[s], key |-> sent[r].proof[s].key]
    BY <2>1, <2>4 DEF PassedWith, RecordedOK
  <2>6. Check[u.source] = Check[s] /\ u.proof.key = sent[r].proof[s].key
    BY <2>5 DEF UseEntry
  <2>7. u.proof = sent[r].proof[u.source] /\ u.source \in Sources
    BY <2>5, UseTypes DEF IInv, UsesInv, UseOK
  <2>8. u.proof = sent[r].proof[s]
    BY <2>1, <2>3, <2>6, <2>7, OneProofPerKey DEF OneProofPerKey
  <2> QED BY <2>5, <2>6, <2>8
<1> QED BY <1>1, Invariant, PTL
=============================================================================
