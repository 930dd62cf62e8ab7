-------------------------- MODULE OAuthLoginProofs --------------------------
(***************************************************************************)
(* Proofs about OAuthLogin, for every finite set of accounts and all sets  *)
(* of browsers, requests, flows and hosts, ages and bounds.                *)
(***************************************************************************)
EXTENDS OAuthLogin, TLAPS, FiniteSetTheorems

(* Types                                                                   *)

\* What a suspended request carries
Calls == [browser : Browsers, flow : Flows \cup {NoFlow}, state : Flows \cup {NoState},
          code : Codes \cup {MadeUp, NoCode}, keys : BOOLEAN]

\* From the exchange on, a call is a callback with the state of its own flow.
Matched(c) == c.flow \in Flows /\ c.state = c.flow

BrowsersTypeOK ==
    /\ jar \in [Browsers -> [flow : Flows \cup {NoFlow}, at : Times]]
    /\ session \in [Browsers -> 0..Cardinality(Users)]

IdsTypeOK ==
    /\ users \in [Users -> 0..Cardinality(Users)]
    /\ {users[u] : u \in KnownUsers} = 1..Cardinality(KnownUsers)

DiscoveryTypeOK == discovery \in [at : Times, keys : BOOLEAN] \cup {Absent, Pending}

RequestsTypeOK ==
    /\ pc \in [Requests -> Running \cup {"idle"}]
    /\ call \in [Requests -> Calls \cup {NoCall}]
    /\ reply \in [end : Ends, host : Hosts \cup {Home, Elsewhere}]

CodesTypeOK == codes \in [Codes -> {"unissued", "live", "spent", "redeemed"}]

FlowsTypeOK ==
    /\ begun \in [Flows -> [browser : Browsers \cup {NoBrowser}, at : Times]]
    /\ dropped \in SUBSET Flows
    /\ now \in Times

\* A request that is suspended carries a call.
CallsOK ==
    \A r \in Requests :
       /\ pc[r] # "idle" => call[r] \in Calls
       /\ pc[r] \in {"exchanging", "validating"} => Matched(call[r])
       /\ pc[r] = "validating" => call[r].code \in Codes

\* All of these
Good ==
    /\ BrowsersTypeOK /\ IdsTypeOK /\ DiscoveryTypeOK /\ RequestsTypeOK
    /\ CodesTypeOK /\ FlowsTypeOK /\ CallsOK

\* The ids of an account that is known, and of one that is not: the next.
LEMMA NextId ==
    ASSUME IdsTypeOK, NEW u \in Users
    PROVE  /\ IsFiniteSet(KnownUsers) /\ Cardinality(KnownUsers) \in Nat
           /\ IdOf(u) \in 1..Cardinality(Users)
           /\ users[u] = 0 => \A v \in Users : users[v] # IdOf(u)
           /\ users' = [users EXCEPT ![u] = IdOf(u)] => IdsTypeOK'
<1>1. IsFiniteSet(KnownUsers) /\ Cardinality(KnownUsers) \in Nat /\ Cardinality(Users) \in Nat
  <2>1. KnownUsers \in SUBSET Users
    BY DEF KnownUsers
  <2> QED BY <2>1, FS_Subset, FS_CardinalityType, UsersAssumption
<1>2. CASE users[u] # 0
  <2>1. IdOf(u) = users[u]
    BY <1>2 DEF IdOf
  <2>2. ASSUME users' = [users EXCEPT ![u] = IdOf(u)]
        PROVE  IdsTypeOK'
    <3>1. users' = users
      BY <2>1, <2>2 DEF IdsTypeOK
    <3> QED BY <3>1 DEF IdsTypeOK, KnownUsers
  <2> QED BY <1>1, <1>2, <2>1, <2>2 DEF IdsTypeOK
<1>3. CASE users[u] = 0
  <2> DEFINE n == Cardinality(KnownUsers)
             more == KnownUsers \cup {u}
  <2>1. IdOf(u) = n + 1 /\ u \notin KnownUsers
    BY <1>3 DEF IdOf, KnownUsers
  <2>2. Cardinality(more) = n + 1
    BY <1>1, <2>1, FS_AddElement
  <2>3. n + 1 <= Cardinality(Users)
    <3>1. more \in SUBSET Users
      BY DEF KnownUsers
    <3> HIDE DEF more
    <3> QED BY <2>2, <3>1, FS_Subset, UsersAssumption
  <2>4. \A v \in Users : users[v] # n + 1
    <3>1. \A v \in KnownUsers : users[v] \in 1..n
      BY DEF IdsTypeOK
    <3> QED BY <1>1, <3>1 DEF KnownUsers
  <2>5. ASSUME users' = [users EXCEPT ![u] = IdOf(u)]
        PROVE  IdsTypeOK'
    <3>1. users'[u] = n + 1 /\ (\A v \in Users \ {u} : users'[v] = users[v])
          /\ users' \in [Users -> 0..Cardinality(Users)]
      BY <1>1, <2>1, <2>3, <2>5 DEF IdsTypeOK
    <3>2. KnownUsers' = more
      BY <1>1, <2>1, <3>1 DEF KnownUsers
    <3>3. Cardinality(KnownUsers)' = n + 1
      BY <2>2, <3>2
    <3>4. {users'[v] : v \in more} = 1..(n + 1)
      <4>1. {users'[v] : v \in more} = {users[v] : v \in KnownUsers} \cup {n + 1}
        BY <2>1, <3>1 DEF KnownUsers
      <4>2. 1..n \cup {n + 1} = 1..(n + 1)
        BY <1>1
      <4> QED BY <4>1, <4>2 DEF IdsTypeOK
    <3> QED BY <3>1, <3>2, <3>3, <3>4 DEF IdsTypeOK
  <2> QED BY <1>1, <2>1, <2>3, <2>4, <2>5
<1> QED BY <1>2, <1>3, <1>1
-----------------------------------------------------------------------------
(* Where a login lands.                                                    *)

\* Whatever destination the state carries, an accepted one takes a browser, as
\* it reads it, to an allowed host or to the application.
LEMMA LandingsAllowed == Landings \subseteq AllowedHosts \cup {Home}
<1> SUFFICES ASSUME NEW d \in Destinations, DestinationAllowed(d)
             PROVE  BrowserHost(d) \in AllowedHosts \cup {Home}
  BY DEF Landings
<1>1. d.scheme \in {"none", "web", "other"} /\ d.host \in Hosts
  BY DEF Destinations
<1>2. PICK n \in 0..3 : d.slashes \in [1..n -> {"/", "\\"}]
  BY DEF Destinations
<1>3. Len(d.slashes) = n /\ DOMAIN d.slashes = 1..n
  BY <1>2
<1>4. \A i \in 1..n : d.slashes[i] = "/"
  BY <1>2, <1>3 DEF DestinationAllowed, HasBackslash
<1>5. HasNetloc(d) <=> n >= 2
  BY <1>3, <1>4 DEF HasNetloc
<1>6. CASE d.scheme = "none" /\ ~HasNetloc(d)
  BY <1>3, <1>5, <1>6 DEF BrowserHost
<1>7. CASE ~(d.scheme = "none" /\ ~HasNetloc(d))
  <2>1. d.scheme = "web" /\ Hostname(d) \in AllowedHosts
    BY <1>7 DEF DestinationAllowed
  <2>2. Hostname(d) = d.host
    BY <2>1, HostsAssumption DEF Hostname
  <2> QED BY <2>1, <2>2 DEF BrowserHost
<1> QED BY <1>6, <1>7
-----------------------------------------------------------------------------
(* Type correctness, action by action.                                     *)

\* Requests that end, or go on with a call, leave the requests well typed.
LEMMA EndTypes ==
    ASSUME RequestsTypeOK, CallsOK, NEW r \in Requests, NEW e \in Ends,
           NEW h \in Hosts \cup {Home, Elsewhere}, End(r, e, h)
    PROVE  RequestsTypeOK' /\ CallsOK'
<1>1. RequestsTypeOK'
  BY DEF End, RequestsTypeOK
<1>2. \A q \in Requests \ {r} : pc'[q] = pc[q] /\ call'[q] = call[q]
  BY DEF End, RequestsTypeOK
<1>3. pc'[r] = "idle"
  BY DEF End, RequestsTypeOK
<1> QED BY <1>1, <1>2, <1>3 DEF CallsOK

LEMMA SilentType == Silent \in [end : Ends, host : Hosts \cup {Home, Elsewhere}]
BY DEF Silent, Ends

LEMMA SuspendTypes ==
    ASSUME RequestsTypeOK, CallsOK, NEW r \in Requests, NEW c \in Calls, NEW p \in Running,
           p \in {"exchanging", "validating"} => Matched(c),
           p = "validating" => c.code \in Codes,
           pc' = [pc EXCEPT ![r] = p], call' = [call EXCEPT ![r] = c], reply' = Silent
    PROVE  RequestsTypeOK' /\ CallsOK'
<1>1. RequestsTypeOK'
  BY SilentType DEF RequestsTypeOK
<1>2. \A q \in Requests \ {r} : pc'[q] = pc[q] /\ call'[q] = call[q]
  BY DEF RequestsTypeOK
<1>3. pc'[r] = p /\ call'[r] = c
  BY DEF RequestsTypeOK
<1> QED BY <1>1, <1>2, <1>3 DEF CallsOK

LEMMA ForgetFlowTypes ==
    ASSUME BrowsersTypeOK, FlowsTypeOK, NEW c \in Calls, ForgetFlow(c)
    PROVE  /\ jar' \in [Browsers -> [flow : Flows \cup {NoFlow}, at : Times]]
           /\ dropped' \in SUBSET Flows
<1>1. c.browser \in Browsers /\ c.flow \in Flows \cup {NoFlow} /\ jar[c.browser].flow \in Flows \cup {NoFlow}
  BY DEF Calls, BrowsersTypeOK
<1>2. [flow |-> NoFlow, at |-> 0] \in [flow : Flows \cup {NoFlow}, at : Times]
  BY NumbersAssumption DEF Times
<1> QED BY <1>1, <1>2 DEF ForgetFlow, BrowsersTypeOK, FlowsTypeOK

LEMMA RefuseTypes ==
    ASSUME BrowsersTypeOK, RequestsTypeOK, CallsOK, FlowsTypeOK,
           NEW r \in Requests, NEW c \in Calls, NEW e \in Ends, Refuse(r, c, e), now' = now
    PROVE  BrowsersTypeOK' /\ RequestsTypeOK' /\ CallsOK' /\ FlowsTypeOK' /\ users' = users
<1>1. End(r, e, Home) /\ UNCHANGED <<session, users, begun>>
  BY DEF Refuse
<1>2. RequestsTypeOK' /\ CallsOK'
  BY <1>1, EndTypes
<1>3. /\ jar' \in [Browsers -> [flow : Flows \cup {NoFlow}, at : Times]]
      /\ dropped' \in SUBSET Flows
  BY ForgetFlowTypes DEF Refuse
<1> QED BY <1>1, <1>2, <1>3 DEF BrowsersTypeOK, FlowsTypeOK

LEMMA BeginFlowTypes ==
    ASSUME BrowsersTypeOK, RequestsTypeOK, CallsOK, FlowsTypeOK,
           NEW r \in Requests, NEW c \in Calls, BeginFlow(r, c), now' = now
    PROVE  BrowsersTypeOK' /\ RequestsTypeOK' /\ CallsOK' /\ FlowsTypeOK' /\ users' = users
<1>1. End(r, "redirected", Home) /\ UNCHANGED <<session, users>>
  BY DEF BeginFlow
<1>2. RequestsTypeOK' /\ CallsOK'
  BY <1>1, EndTypes DEF Ends
<1>3. PICK f \in Flows :
        /\ begun' = [begun EXCEPT ![f] = [browser |-> c.browser, at |-> now]]
        /\ jar' = [jar EXCEPT ![c.browser] = [flow |-> f, at |-> now]]
        /\ dropped' = dropped \cup ({jar[c.browser].flow} \ {NoFlow})
  BY DEF BeginFlow
<1>4. c.browser \in Browsers /\ now \in Times
  BY DEF Calls, FlowsTypeOK
<1>5. jar' \in [Browsers -> [flow : Flows \cup {NoFlow}, at : Times]]
  BY <1>3, <1>4 DEF BrowsersTypeOK
<1>6. begun' \in [Flows -> [browser : Browsers \cup {NoBrowser}, at : Times]]
  BY <1>3, <1>4 DEF FlowsTypeOK
<1>7. dropped' \in SUBSET Flows
  BY <1>3, <1>4 DEF FlowsTypeOK, BrowsersTypeOK
<1> QED BY <1>1, <1>2, <1>5, <1>6, <1>7 DEF BrowsersTypeOK, FlowsTypeOK

LEMMA ProceedTypes ==
    ASSUME BrowsersTypeOK, RequestsTypeOK, CallsOK, FlowsTypeOK,
           NEW r \in Requests, NEW c \in Calls, Proceed(r, c), now' = now
    PROVE  BrowsersTypeOK' /\ RequestsTypeOK' /\ CallsOK' /\ FlowsTypeOK' /\ users' = users
<1>1. CASE c.code = NoCode /\ BeginFlow(r, c)
  BY <1>1, BeginFlowTypes
<1>2. CASE c.code # NoCode /\ StateMatches(c) /\ CheckState(r, c)
  <2>1. /\ pc' = [pc EXCEPT ![r] = "exchanging"] /\ call' = [call EXCEPT ![r] = c]
        /\ reply' = Silent /\ UNCHANGED <<jar, dropped, session, users, begun>>
    BY <1>2 DEF CheckState
  <2>2. Matched(c)
    BY <1>2 DEF StateMatches, Matched, Calls
  <2>3. RequestsTypeOK' /\ CallsOK'
    BY <2>1, <2>2, SuspendTypes DEF Running
  <2> QED BY <2>1, <2>3 DEF BrowsersTypeOK, FlowsTypeOK
<1>3. CASE ~StateMatches(c) /\ CheckState(r, c)
  BY <1>3, RefuseTypes DEF CheckState, Ends
<1> QED BY <1>1, <1>2, <1>3 DEF Proceed

\* What a request carries when it arrives
Arrival(b, state, code) ==
    [browser |-> b, flow |-> FlowOf(b, state), state |-> state, code |-> code,
     keys |-> Known /\ discovery.keys]

LEMMA ArrivalTypes ==
    ASSUME BrowsersTypeOK, DiscoveryTypeOK, NEW b \in Browsers,
           NEW state \in Flows \cup {NoState}, NEW code \in Codes \cup {MadeUp, NoCode}
    PROVE  Arrival(b, state, code) \in Calls
<1>1. FlowOf(b, state) \in Flows \cup {NoFlow}
  BY DEF FlowOf, BrowsersTypeOK
<1>2. (Known /\ discovery.keys) \in BOOLEAN
  BY DEF Known, DiscoveryTypeOK
<1> QED BY <1>1, <1>2 DEF Arrival, Calls

LEMMA TypeInit == Init => Good
<1> SUFFICES ASSUME Init PROVE Good
  OBVIOUS
<1>1. Cardinality(Users) \in Nat /\ 0 \in Times
  BY FS_CardinalityType, UsersAssumption, NumbersAssumption DEF Times
<1>2. IdsTypeOK
  <2>1. KnownUsers = {}
    BY DEF Init, KnownUsers
  <2>2. Cardinality(KnownUsers) = 0
    BY <2>1, FS_EmptySet
  <2> QED BY <1>1, <2>1, <2>2 DEF Init, IdsTypeOK
<1>3. BrowsersTypeOK /\ FlowsTypeOK
  BY <1>1 DEF Init, BrowsersTypeOK, FlowsTypeOK
<1>4. DiscoveryTypeOK /\ CodesTypeOK
  BY DEF Init, DiscoveryTypeOK, CodesTypeOK
<1>5. RequestsTypeOK /\ CallsOK
  BY SilentType DEF Init, RequestsTypeOK, CallsOK
<1> QED BY <1>2, <1>3, <1>4, <1>5 DEF Good

LEMMA TypeStep == Good /\ [Next]_vars => Good'
<1> SUFFICES ASSUME Good, [Next]_vars
             PROVE  Good'
  OBVIOUS
<1> USE DEF Good
<1>0. ASSUME users' = users
      PROVE  IdsTypeOK' /\ (codes' = codes => CodesTypeOK')
  BY <1>0 DEF IdsTypeOK, CodesTypeOK, KnownUsers
<1>1. ASSUME NEW r \in Requests, NEW b \in Browsers, NEW state \in Flows \cup {NoState},
             NEW code \in Codes \cup {MadeUp, NoCode}, Arrive(r, b, state, code)
      PROVE  Good'
  <2>1. Arrival(b, state, code) \in Calls
    BY ArrivalTypes
  <2>2. UNCHANGED <<codes, now>>
    BY <1>1 DEF Arrive
  <2>3. CASE Known /\ Proceed(r, Arrival(b, state, code)) /\ UNCHANGED discovery
    <3>1. BrowsersTypeOK' /\ RequestsTypeOK' /\ CallsOK' /\ FlowsTypeOK' /\ users' = users
      BY <2>1, <2>2, <2>3, ProceedTypes
    <3> QED BY <2>2, <2>3, <3>1, <1>0 DEF DiscoveryTypeOK
  <2>4. CASE ~Known
    <3>1. /\ discovery' = Pending
          /\ pc' = [pc EXCEPT ![r] = "resolving"]
          /\ call' = [call EXCEPT ![r] = Arrival(b, state, code)]
          /\ reply' = Silent
          /\ UNCHANGED <<browserVars, users, begun, dropped>>
      BY <1>1, <2>4 DEF Arrive, Arrival
    <3>2. RequestsTypeOK' /\ CallsOK'
      BY <2>1, <3>1, SuspendTypes DEF Running
    <3>3. BrowsersTypeOK' /\ FlowsTypeOK' /\ DiscoveryTypeOK'
      BY <2>2, <3>1 DEF BrowsersTypeOK, FlowsTypeOK, DiscoveryTypeOK, browserVars
    <3> QED BY <2>2, <3>1, <3>2, <3>3, <1>0
  <2> QED BY <1>1, <2>3, <2>4 DEF Arrive, Arrival
<1>2. ASSUME NEW r \in Requests, Login(r) \/ Callback(r)
      PROVE  Good'
  <2>1. PICK b \in Browsers, state \in Flows \cup {NoState}, code \in Codes \cup {MadeUp, NoCode} :
           Arrive(r, b, state, code)
    BY <1>2 DEF Login, Callback, States, Issued
  <2> QED BY <2>1, <1>1
<1>3. ASSUME NEW r \in Requests, Resume(r)
      PROVE  Good'
  <2>1. call[r] \in Calls /\ Proceed(r, call[r]) /\ UNCHANGED <<discovery, codes, now>>
    BY <1>3 DEF Resume, CallsOK
  <2>2. BrowsersTypeOK' /\ RequestsTypeOK' /\ CallsOK' /\ FlowsTypeOK' /\ users' = users
    BY <2>1, ProceedTypes
  <2> QED BY <2>1, <2>2, <1>0 DEF DiscoveryTypeOK
<1>4. ASSUME NEW r \in Requests, Fail(r)
      PROVE  Good'
  <2>1. RequestsTypeOK' /\ CallsOK'
    BY <1>4, EndTypes DEF Fail, Ends
  <2> QED BY <1>4, <2>1, <1>0
          DEF Fail, BrowsersTypeOK, DiscoveryTypeOK, FlowsTypeOK, browserVars, appVars, historyVars
<1>5. ASSUME NEW r \in Requests, ExchangeReturns(r)
      PROVE  Good'
  <2> DEFINE c == call[r]
  <2>1. c \in Calls /\ Matched(c) /\ UNCHANGED <<discovery, now>>
    BY <1>5 DEF ExchangeReturns, CallsOK
  <2>2. CodesTypeOK'
    <3>1. codes' = codes \/ Spend(c.code)
      BY <1>5 DEF ExchangeReturns
    <3> HIDE DEF c
    <3> QED BY <3>1 DEF CodesTypeOK, Spend
  <2>3. CASE Refuse(r, c, "refused: provider") \/ Refuse(r, c, "refused: code")
    <3>1. BrowsersTypeOK' /\ RequestsTypeOK' /\ CallsOK' /\ FlowsTypeOK' /\ users' = users
      BY <2>1, <2>3, RefuseTypes DEF Ends
    <3> QED BY <2>1, <2>2, <3>1, <1>0 DEF DiscoveryTypeOK
  <2>4. CASE /\ c.code \in Codes /\ pc' = [pc EXCEPT ![r] = "validating"]
             /\ reply' = Silent /\ UNCHANGED <<call, browserVars, users, begun, dropped>>
    <3>1. call' = [call EXCEPT ![r] = c]
      BY <2>4 DEF RequestsTypeOK
    <3>2. RequestsTypeOK' /\ CallsOK'
      BY <2>1, <2>4, <3>1, SuspendTypes DEF Running
    <3> QED BY <2>1, <2>2, <2>4, <3>2, <1>0
            DEF DiscoveryTypeOK, BrowsersTypeOK, FlowsTypeOK, browserVars
  <2> QED BY <1>5, <2>3, <2>4 DEF ExchangeReturns
<1>6. ASSUME NEW r \in Requests, ValidationReturns(r)
      PROVE  Good'
  <2> DEFINE c == call[r]
  <2>1. c \in Calls /\ Matched(c) /\ UNCHANGED <<discovery, now>>
    BY <1>6 DEF ValidationReturns, CallsOK
  <2>2. CASE (Refuse(r, c, "refused: provider") \/ Refuse(r, c, "refused: nonce")) /\ UNCHANGED codes
    <3>1. BrowsersTypeOK' /\ RequestsTypeOK' /\ CallsOK' /\ FlowsTypeOK' /\ users' = users
      BY <2>1, <2>2, RefuseTypes DEF Ends
    <3> QED BY <2>1, <2>2, <3>1, <1>0 DEF DiscoveryTypeOK
  <2>3. CASE SignedIn(r, c)
    <3>1. c.code[2] \in Users /\ c.browser \in Browsers /\ c.code \in Codes
      BY <1>6, <2>1 DEF ValidationReturns, CallsOK, Codes, Calls
    <3>2. IdOf(c.code[2]) \in 1..Cardinality(Users) /\ IdsTypeOK'
      BY <2>3, <3>1, NextId DEF SignedIn
    <3>3. session' \in [Browsers -> 0..Cardinality(Users)]
      <4> DEFINE id == IdOf(c.code[2])
      <4>1. session' = [session EXCEPT ![c.browser] = id]
        BY <2>3 DEF SignedIn
      <4>2. id \in 0..Cardinality(Users)
        BY <3>2, FS_CardinalityType, UsersAssumption
      <4> HIDE DEF id
      <4> QED BY <4>1, <4>2, <3>1 DEF BrowsersTypeOK
    <3>4. CodesTypeOK'
      BY <2>1, <2>3, <3>1 DEF SignedIn, CodesTypeOK
    <3>5. /\ jar' \in [Browsers -> [flow : Flows \cup {NoFlow}, at : Times]]
          /\ dropped' \in SUBSET Flows
      <4>1. ForgetFlow(c)
        BY <2>3 DEF SignedIn
      <4> HIDE DEF c
      <4> QED BY <4>1, <2>1, ForgetFlowTypes
    <3>6. RequestsTypeOK' /\ CallsOK'
      <4>1. PICK host \in Landings : End(r, "signed in", host)
        BY <2>3 DEF SignedIn
      <4>2. host \in Hosts \cup {Home, Elsewhere}
        BY LandingsAllowed, HostsAssumption
      <4> QED BY <4>1, <4>2, EndTypes DEF Ends
    <3> QED BY <2>1, <2>3, <3>2, <3>3, <3>4, <3>5, <3>6
            DEF SignedIn, DiscoveryTypeOK, BrowsersTypeOK, FlowsTypeOK
  <2> QED BY <1>6, <2>2, <2>3 DEF ValidationReturns
<1>7. CASE DiscoveryReturns
  <2>1. reply' = Silent /\ UNCHANGED <<browserVars, users, codes, historyVars, now>>
    BY <1>7 DEF DiscoveryReturns
  <2>2. BrowsersTypeOK' /\ CodesTypeOK' /\ FlowsTypeOK' /\ IdsTypeOK'
    BY <2>1, <1>0 DEF BrowsersTypeOK, CodesTypeOK, FlowsTypeOK, browserVars, historyVars
  <2>3. CASE /\ discovery' = Absent
             /\ pc' = [q \in Requests |-> IF q \in Waiting THEN "unresolved" ELSE pc[q]]
             /\ UNCHANGED call
    <3>1. RequestsTypeOK' /\ CallsOK'
      BY <2>1, <2>3, SilentType DEF RequestsTypeOK, CallsOK, Waiting, Running
    <3> QED BY <2>2, <2>3, <3>1 DEF DiscoveryTypeOK
  <2>4. ASSUME NEW doc \in Documents,
               discovery' = [at |-> now, keys |-> doc.keys # "none"],
               pc' = [q \in Requests |-> IF q \in Waiting THEN "resolved" ELSE pc[q]],
               call' = [q \in Requests |->
                           IF q \in Waiting THEN [call[q] EXCEPT !.keys = doc.keys # "none"]
                           ELSE call[q]]
        PROVE  Good'
    <3>1. DiscoveryTypeOK'
      BY <2>4 DEF DiscoveryTypeOK, FlowsTypeOK
    <3>2. ASSUME NEW q \in Requests, q \in Waiting
          PROVE  pc'[q] = "resolved" /\ call'[q] \in Calls
      <4>1. call[q] \in Calls
        BY <3>2 DEF Waiting, CallsOK
      <4>2. call'[q] = [call[q] EXCEPT !.keys = doc.keys # "none"]
        BY <2>4, <3>2
      <4>3. (doc.keys # "none") \in BOOLEAN
        OBVIOUS
      <4>4. \A c \in Calls : \A k \in BOOLEAN : [c EXCEPT !.keys = k] \in Calls
        BY DEF Calls
      <4> QED BY <2>4, <3>2, <4>1, <4>2, <4>3, <4>4
    <3>3. ASSUME NEW q \in Requests, q \notin Waiting
          PROVE  pc'[q] = pc[q] /\ call'[q] = call[q]
      BY <2>4, <3>3
    <3>4. DOMAIN pc' = Requests /\ DOMAIN call' = Requests
      BY <2>4
    <3>5. pc' \in [Requests -> Running \cup {"idle"}]
      BY <2>4 DEF RequestsTypeOK, Running
    <3>6. call' \in [Requests -> Calls \cup {NoCall}]
      <4>1. \A q \in Requests : call'[q] \in Calls \cup {NoCall}
        BY <3>2, <3>3 DEF RequestsTypeOK
      <4>2. call' = [q \in Requests |-> call'[q]]
        BY <2>4
      <4> QED BY <4>1, <4>2
    <3>7. CallsOK'
      BY <3>2, <3>3 DEF CallsOK
    <3> QED BY <2>1, <2>2, <3>1, <3>5, <3>6, <3>7, SilentType DEF RequestsTypeOK
  <2> QED BY <1>7, <2>3, <2>4 DEF DiscoveryReturns
<1>8. ASSUME NEW f \in Flows, NEW u \in Users, ProviderLogin(f, u)
      PROVE  Good'
  <2>1. UNCHANGED <<browserVars, appVars, requestVars, historyVars, now>> /\ reply' = Silent
    BY <1>8 DEF ProviderLogin
  <2>2. CodesTypeOK'
    BY <1>8 DEF ProviderLogin, CodesTypeOK, historyVars, Codes
  <2> QED BY <2>1, <2>2, <1>0, SilentType
          DEF BrowsersTypeOK, DiscoveryTypeOK, RequestsTypeOK, FlowsTypeOK,
             CallsOK, browserVars, appVars, requestVars, historyVars
<1>9. CASE Tick
  <2>1. /\ UNCHANGED <<browserVars, appVars, requestVars, codes, historyVars>>
        /\ reply' = Silent /\ now' \in Times
    BY <1>9, NumbersAssumption DEF Tick, FlowsTypeOK, Times
  <2> QED BY <2>1, <1>0, SilentType
          DEF BrowsersTypeOK, DiscoveryTypeOK, RequestsTypeOK, FlowsTypeOK,
             CallsOK, CodesTypeOK, browserVars, appVars, requestVars, historyVars
<1>10. CASE UNCHANGED vars
  BY <1>10, <1>0 DEF vars, BrowsersTypeOK, DiscoveryTypeOK, RequestsTypeOK, FlowsTypeOK,
     CallsOK, CodesTypeOK, browserVars, appVars, requestVars, historyVars
<1> QED BY <1>2, <1>3, <1>4, <1>5, <1>6, <1>7, <1>8, <1>9, <1>10 DEF Next

\* Every variable keeps its type, and the ids in USERS are those of one account
\* each, in the order of their first logins.
THEOREM TypeCorrect == Spec => []TypeOK
<1>1. Good => TypeOK
  BY DEF Good, TypeOK, BrowsersTypeOK, IdsTypeOK, DiscoveryTypeOK, RequestsTypeOK, CodesTypeOK,
         FlowsTypeOK, Calls
<1> QED BY <1>1, TypeInit, TypeStep, PTL DEF Spec
-----------------------------------------------------------------------------
(* What the steps do to flows, codes and sessions: begin a flow, exchange a *)
(* code, sign in, log in at the provider, or none of these.                *)

\* The cookies are kept, or one is emptied and its flow dropped.
ForgetsOrKeeps ==
    \/ UNCHANGED <<jar, dropped>>
    \/ \E b \in Browsers :
          /\ jar' = [jar EXCEPT ![b] = [flow |-> NoFlow, at |-> 0]]
          /\ dropped \subseteq dropped' /\ {jar[b].flow} \ {NoFlow} \subseteq dropped'

StillValidating(rs) ==
    \A r \in rs : pc'[r] = "validating" => pc[r] = "validating" /\ call'[r] = call[r]

Begins(b, f) ==
    /\ begun[f].browser = NoBrowser
    /\ begun' = [begun EXCEPT ![f] = [browser |-> b, at |-> now]]
    /\ jar' = [jar EXCEPT ![b] = [flow |-> f, at |-> now]]
    /\ dropped \subseteq dropped' /\ {jar[b].flow} \ {NoFlow} \subseteq dropped'
    /\ StillValidating(Requests)
    /\ UNCHANGED <<users, session, codes>>

Exchanges(r) ==
    /\ pc[r] = "exchanging" /\ Matched(call[r])
    /\ Spend(call[r].code)
    /\ pc'[r] = "validating" =>
          call'[r] = call[r] /\ call[r].code \in Codes /\ codes[call[r].code] = "live"
    /\ StillValidating(Requests \ {r}) /\ ForgetsOrKeeps
    /\ UNCHANGED <<begun, users, session>>

SignsIn(r) ==
    /\ pc[r] = "validating" /\ Matched(call[r]) /\ call[r].code \in Codes /\ NonceMatches(call[r])
    /\ users' = [users EXCEPT ![call[r].code[2]] = IdOf(call[r].code[2])]
    /\ session' = [session EXCEPT ![call[r].browser] = IdOf(call[r].code[2])]
    /\ codes' = [codes EXCEPT ![call[r].code] = "redeemed"]
    /\ pc'[r] = "idle" /\ StillValidating(Requests \ {r}) /\ ForgetsOrKeeps
    /\ UNCHANGED begun

LogsIn(f, u) ==
    /\ begun[f].browser # NoBrowser
    /\ codes[<<f, u>>] = "unissued"
    /\ codes' = [codes EXCEPT ![<<f, u>>] = "live"]
    /\ UNCHANGED <<jar, dropped, begun, users, session, pc, call>>

NoneOfThese ==
    /\ StillValidating(Requests) /\ ForgetsOrKeeps
    /\ UNCHANGED <<begun, users, session, codes>>

Effects ==
    \/ \E b \in Browsers, f \in Flows : Begins(b, f)
    \/ \E r \in Requests : Exchanges(r) \/ SignsIn(r)
    \/ \E f \in Flows, u \in Users : LogsIn(f, u)
    \/ NoneOfThese

\* A handler that ends takes nobody into validation.
LEMMA EndEffects ==
    ASSUME RequestsTypeOK, NEW r \in Requests, NEW e, NEW h, End(r, e, h)
    PROVE  pc'[r] = "idle" /\ StillValidating(Requests)
BY DEF End, RequestsTypeOK, StillValidating

LEMMA ForgetFlowEffects ==
    ASSUME NEW c \in Calls, ForgetFlow(c)
    PROVE  ForgetsOrKeeps
BY DEF ForgetFlow, ForgetsOrKeeps, Calls

LEMMA RefuseEffects ==
    ASSUME RequestsTypeOK, NEW r \in Requests, NEW c \in Calls, NEW e, Refuse(r, c, e)
    PROVE  /\ pc'[r] = "idle" /\ StillValidating(Requests) /\ ForgetsOrKeeps
           /\ UNCHANGED <<session, users, begun>>
BY EndEffects, ForgetFlowEffects DEF Refuse

LEMMA ProceedEffects ==
    ASSUME RequestsTypeOK, NEW r \in Requests, NEW c \in Calls, Proceed(r, c),
           UNCHANGED codes
    PROVE  Effects
<1>1. CASE BeginFlow(r, c)
  <2>1. StillValidating(Requests) /\ c.browser \in Browsers
    BY <1>1, EndEffects DEF BeginFlow, Calls
  <2> QED BY <1>1, <2>1 DEF BeginFlow, Begins, Effects
<1>2. CASE /\ pc' = [pc EXCEPT ![r] = "exchanging"]
           /\ UNCHANGED <<jar, dropped, session, users, begun>>
           /\ call' = [call EXCEPT ![r] = c]
  <2>1. StillValidating(Requests)
    BY <1>2 DEF StillValidating, RequestsTypeOK
  <2> QED BY <1>2, <2>1 DEF Effects, NoneOfThese, ForgetsOrKeeps
<1>3. CASE Refuse(r, c, "refused: state")
  BY <1>3, RefuseEffects DEF Effects, NoneOfThese
<1> QED BY <1>1, <1>2, <1>3 DEF Proceed, CheckState

LEMMA StepEffects == Good /\ [Next]_vars => Effects
<1> SUFFICES ASSUME Good, [Next]_vars
             PROVE  Effects
  OBVIOUS
<1> USE DEF Good
<1>1. ASSUME NEW r \in Requests, NEW b \in Browsers, NEW state \in Flows \cup {NoState},
             NEW code \in Codes \cup {MadeUp, NoCode}, Arrive(r, b, state, code)
      PROVE  Effects
  <2>1. CASE Known /\ Proceed(r, Arrival(b, state, code))
    BY <1>1, <2>1, ArrivalTypes, ProceedEffects DEF Arrive
  <2>2. CASE ~Known
    <3>1. pc' = [pc EXCEPT ![r] = "resolving"] /\ call' = [call EXCEPT ![r] = Arrival(b, state, code)]
      BY <1>1, <2>2 DEF Arrive, Arrival
    <3>2. StillValidating(Requests)
      BY <3>1 DEF StillValidating, RequestsTypeOK
    <3> QED BY <1>1, <2>2, <3>2 DEF Arrive, Effects, NoneOfThese, ForgetsOrKeeps, browserVars
  <2> QED BY <1>1, <2>1, <2>2 DEF Arrive, Arrival
<1>2. ASSUME NEW r \in Requests, Login(r) \/ Callback(r)
      PROVE  Effects
  <2>1. PICK b \in Browsers, state \in Flows \cup {NoState}, code \in Codes \cup {MadeUp, NoCode} :
           Arrive(r, b, state, code)
    BY <1>2 DEF Login, Callback, States, Issued
  <2> QED BY <1>1, <2>1
<1>3. ASSUME NEW r \in Requests, Resume(r)
      PROVE  Effects
  BY <1>3, ProceedEffects DEF Resume, CallsOK
<1>4. ASSUME NEW r \in Requests, Fail(r)
      PROVE  Effects
  <2>1. StillValidating(Requests)
    BY <1>4, EndEffects DEF Fail
  <2> QED BY <1>4, <2>1 DEF Fail, Effects, NoneOfThese, ForgetsOrKeeps, browserVars, appVars, historyVars
<1>5. ASSUME NEW r \in Requests, ExchangeReturns(r)
      PROVE  Effects
  <2> DEFINE c == call[r]
  <2>1. pc[r] = "exchanging" /\ c \in Calls /\ Matched(c)
    BY <1>5 DEF ExchangeReturns, CallsOK
  <2>2. CASE (\E e : Refuse(r, c, e)) /\ UNCHANGED codes
    BY <2>1, <2>2, RefuseEffects DEF Effects, NoneOfThese
  <2>3. CASE Spend(c.code) /\ \E e : Refuse(r, c, e)
    <3>1. /\ pc'[r] = "idle" /\ StillValidating(Requests) /\ ForgetsOrKeeps
          /\ UNCHANGED <<session, users, begun>>
      <4> HIDE DEF c
      <4> QED BY <2>1, <2>3, RefuseEffects
    <3>2. Exchanges(r)
      BY <2>1, <2>3, <3>1 DEF Exchanges, StillValidating
    <3> QED BY <3>2 DEF Effects
  <2>4. CASE /\ Spend(c.code)
             /\ c.code \in Codes /\ codes[c.code] = "live"
             /\ pc' = [pc EXCEPT ![r] = "validating"]
             /\ UNCHANGED <<call, browserVars, users, begun, dropped>>
    <3>1. StillValidating(Requests \ {r})
      BY <2>4 DEF StillValidating, RequestsTypeOK
    <3>2. Exchanges(r)
      BY <2>1, <2>4, <3>1 DEF Exchanges, ForgetsOrKeeps, browserVars
    <3> QED BY <3>2 DEF Effects
  <2> QED BY <1>5, <2>2, <2>3, <2>4 DEF ExchangeReturns
<1>6. ASSUME NEW r \in Requests, ValidationReturns(r)
      PROVE  Effects
  <2> DEFINE c == call[r]
  <2>1. pc[r] = "validating" /\ c \in Calls /\ Matched(c) /\ c.code \in Codes
    BY <1>6 DEF ValidationReturns, CallsOK
  <2>2. CASE (\E e : Refuse(r, c, e)) /\ UNCHANGED codes
    BY <2>1, <2>2, RefuseEffects DEF Effects, NoneOfThese
  <2>3. CASE NonceMatches(c) /\ SignedIn(r, c)
    <3>1. pc'[r] = "idle" /\ StillValidating(Requests) /\ ForgetsOrKeeps
      BY <2>1, <2>3, EndEffects, ForgetFlowEffects DEF SignedIn
    <3>2. SignsIn(r)
      BY <2>1, <2>3, <3>1 DEF SignsIn, SignedIn, StillValidating
    <3> QED BY <3>2 DEF Effects
  <2> QED BY <1>6, <2>2, <2>3 DEF ValidationReturns
<1>7. CASE DiscoveryReturns
  <2>1. StillValidating(Requests)
    BY <1>7 DEF DiscoveryReturns, StillValidating, RequestsTypeOK
  <2> QED BY <1>7, <2>1
          DEF DiscoveryReturns, Effects, NoneOfThese, ForgetsOrKeeps, browserVars, historyVars
<1>8. ASSUME NEW f \in Flows, NEW u \in Users, ProviderLogin(f, u)
      PROVE  Effects
  BY <1>8 DEF ProviderLogin, Effects, LogsIn, browserVars, appVars, requestVars, historyVars
<1>9. CASE Tick \/ UNCHANGED vars
  <2>1. UNCHANGED <<browserVars, appVars, requestVars, codes, historyVars>>
    BY <1>9 DEF Tick, vars
  <2> QED BY <2>1 DEF Effects, NoneOfThese, ForgetsOrKeeps, StillValidating,
             browserVars, appVars, requestVars, historyVars
<1> QED BY <1>2, <1>3, <1>4, <1>5, <1>6, <1>7, <1>8, <1>9 DEF Next
-----------------------------------------------------------------------------
(* Codes and sessions                                                      *)

\* A code is issued for a flow that has begun; a cookie holds a flow of its
\* own browser; and a call that awaits the checks of the ID token holds a code
\* that is spent, and not another's.
CodesInv ==
    /\ \A c \in Codes : codes[c] # "unissued" => begun[c[1]].browser # NoBrowser
    /\ \A b \in Browsers : jar[b].flow # NoFlow => begun[jar[b].flow].browser = b
    /\ \A r \in Requests : pc[r] = "validating" => codes[call[r].code] = "spent"
    /\ \A r, q \in Requests :
          pc[r] = "validating" /\ pc[q] = "validating" /\ call[r].code = call[q].code => r = q

\* A call carries its own browser's flow.
OwnFlow(c) == c.flow # NoFlow => begun[c.flow].browser = c.browser

CallsInv == \A r \in Requests : pc[r] # "idle" => OwnFlow(call[r])

\* No two accounts have the same id, and a session holds an id of an account.
IdsInv ==
    /\ \A u, v \in Users : users[u] = users[v] /\ users[u] # 0 => u = v
    /\ \A b \in Browsers : session[b] # 0 => \E u \in Users : users[u] = session[b]

LEMMA IdsStep == Good /\ IdsInv /\ [Next]_vars => IdsInv'
<1> SUFFICES ASSUME Good, IdsInv, [Next]_vars
             PROVE  IdsInv'
  OBVIOUS
<1>1. CASE UNCHANGED <<users, session>>
  BY <1>1 DEF IdsInv
<1>2. ASSUME NEW r \in Requests, SignsIn(r)
      PROVE  IdsInv'
  <2> DEFINE u == call[r].code[2]
             b == call[r].browser
             id == IdOf(u)
  <2>1. u \in Users /\ b \in Browsers
    BY <1>2 DEF SignsIn, Matched, Codes, Good, CallsOK, Calls
  <2>2. users' = [users EXCEPT ![u] = id] /\ session' = [session EXCEPT ![b] = id]
    BY <1>2 DEF SignsIn
  <2> HIDE DEF u, b
  <2>3. (users[u] = 0 => \A v \in Users : users[v] # id) /\ (users[u] # 0 => id = users[u])
    BY <2>1, NextId DEF Good, IdOf
  <2>4. id # 0
    BY <2>1, NextId DEF Good
  <2> HIDE DEF id
  <2>5. /\ users'[u] = id /\ session'[b] = id
        /\ \A v \in Users \ {u} : users'[v] = users[v]
        /\ \A a \in Browsers \ {b} : session'[a] = session[a]
    BY <2>1, <2>2 DEF Good, IdsTypeOK, BrowsersTypeOK
  <2>6. \A v, w \in Users : users'[v] = users'[w] /\ users'[v] # 0 => v = w
    BY <2>3, <2>5 DEF IdsInv
  <2>7. \A a \in Browsers : session'[a] # 0 => \E v \in Users : users'[v] = session'[a]
    <3> SUFFICES ASSUME NEW a \in Browsers, session'[a] # 0
                 PROVE  \E v \in Users : users'[v] = session'[a]
      OBVIOUS
    <3>1. CASE a = b
      BY <3>1, <2>1, <2>5
    <3>2. CASE a # b
      <4>1. PICK v \in Users : users[v] = session[a]
        BY <3>2, <2>5 DEF IdsInv
      <4> QED BY <3>2, <4>1, <2>3, <2>5
    <3> QED BY <3>1, <3>2
  <2> QED BY <2>6, <2>7 DEF IdsInv
<1> QED BY <1>1, <1>2, StepEffects DEF Effects, Begins, Exchanges, LogsIn, NoneOfThese

LEMMA CodesStep == Good /\ CodesInv /\ CallsInv /\ [Next]_vars => CodesInv'
<1> SUFFICES ASSUME Good, CodesInv, CallsInv, [Next]_vars
             PROVE  CodesInv'
  OBVIOUS
<1> USE NamesAssumption
<1> USE DEF Good
<1>1. ASSUME NEW b \in Browsers, NEW f \in Flows, Begins(b, f)
      PROVE  CodesInv'
  <2>1. /\ begun'[f].browser = b /\ begun[f].browser = NoBrowser
        /\ \A g \in Flows \ {f} : begun'[g] = begun[g]
        /\ jar'[b].flow = f
        /\ \A a \in Browsers \ {b} : jar'[a] = jar[a]
        /\ UNCHANGED codes
        /\ StillValidating(Requests)
    BY <1>1 DEF Begins, FlowsTypeOK, BrowsersTypeOK
  <2>2. ASSUME NEW c \in Codes
        PROVE  codes'[c] # "unissued" => begun'[c[1]].browser # NoBrowser
    <3>1. CASE c[1] = f
      BY <3>1, <2>1 DEF CodesInv
    <3>2. CASE c[1] # f
      BY <3>2, <2>1 DEF CodesInv, Codes
    <3> QED BY <3>1, <3>2
  <2>3. ASSUME NEW a \in Browsers, jar'[a].flow # NoFlow
        PROVE  begun'[jar'[a].flow].browser = a
    <3>1. CASE a = b
      BY <3>1, <2>1
    <3>2. CASE a # b
      <4>1. jar'[a].flow \in Flows /\ begun[jar'[a].flow].browser = a
        BY <3>2, <2>1, <2>3 DEF CodesInv, BrowsersTypeOK
      <4> QED BY <4>1, <2>1
    <3> QED BY <3>1, <3>2
  <2> QED BY <2>1, <2>2, <2>3 DEF CodesInv, StillValidating
<1>2. ASSUME UNCHANGED begun, ForgetsOrKeeps
      PROVE  \A b \in Browsers : jar'[b].flow # NoFlow => begun'[jar'[b].flow].browser = b
  BY <1>2 DEF ForgetsOrKeeps, CodesInv, BrowsersTypeOK
<1>3. ASSUME NEW r \in Requests, Exchanges(r)
      PROVE  CodesInv'
  <2> DEFINE c == call[r].code
  <2>2. /\ \A d \in Codes : codes'[d] = IF d = c /\ codes[d] = "live" THEN "spent" ELSE codes[d]
        /\ UNCHANGED begun /\ ForgetsOrKeeps /\ StillValidating(Requests \ {r})
        /\ pc'[r] = "validating" => call'[r].code = c /\ c \in Codes /\ codes[c] = "live"
    BY <1>3 DEF Exchanges, Spend
  <2> HIDE DEF c
  <2>3. ASSUME NEW d \in Codes
        PROVE  codes'[d] # "unissued" => begun'[d[1]].browser # NoBrowser
    BY <2>2 DEF CodesInv
  <2>4. \A q \in Requests : pc'[q] = "validating" => codes'[call'[q].code] = "spent"
    BY <2>2 DEF CodesInv, StillValidating, CallsOK
  <2>5. ASSUME NEW p \in Requests, NEW q \in Requests, pc'[p] = "validating",
               pc'[q] = "validating", call'[p].code = call'[q].code
        PROVE  p = q
    BY <2>2, <2>5 DEF CodesInv, StillValidating
  <2> QED BY <1>2, <2>2, <2>3, <2>4, <2>5 DEF CodesInv
<1>4. ASSUME NEW r \in Requests, SignsIn(r)
      PROVE  CodesInv'
  <2> DEFINE c == call[r].code
  <2>1. c \in Codes /\ codes[c] = "spent"
    BY <1>4 DEF SignsIn, Matched, CodesInv
  <2>2. /\ codes'[c] = "redeemed" /\ \A d \in Codes \ {c} : codes'[d] = codes[d]
        /\ UNCHANGED begun /\ ForgetsOrKeeps /\ StillValidating(Requests \ {r})
        /\ pc'[r] = "idle" /\ pc[r] = "validating"
    BY <1>4, <2>1 DEF SignsIn, CodesTypeOK
  <2>3. ASSUME NEW q \in Requests, pc'[q] = "validating"
        PROVE  call'[q].code # c /\ codes'[call'[q].code] = "spent"
    <3>1. q # r /\ pc[q] = "validating" /\ call'[q] = call[q]
      BY <2>2, <2>3 DEF StillValidating
    <3>2. call[q].code \in Codes /\ call[q].code # c
      BY <3>1, <2>2 DEF CallsOK, CodesInv
    <3> QED BY <3>1, <3>2, <2>2 DEF CodesInv
  <2> HIDE DEF c
  <2> QED BY <1>2, <2>1, <2>2, <2>3 DEF CodesInv, StillValidating
<1>5. ASSUME NEW f \in Flows, NEW u \in Users, LogsIn(f, u)
      PROVE  CodesInv'
  <2>1. /\ codes'[<<f, u>>] = "live" /\ codes[<<f, u>>] = "unissued"
        /\ \A d \in Codes \ {<<f, u>>} : codes'[d] = codes[d]
        /\ UNCHANGED <<jar, begun, pc, call>> /\ begun[f].browser # NoBrowser
    BY <1>5 DEF LogsIn, CodesTypeOK, Codes
  <2> QED BY <2>1 DEF CodesInv, CallsOK
<1>6. CASE NoneOfThese
  BY <1>2, <1>6 DEF NoneOfThese, CodesInv, StillValidating
<1> QED BY <1>1, <1>3, <1>4, <1>5, <1>6, StepEffects DEF Effects
-----------------------------------------------------------------------------
(* Flows and calls                                                         *)

\* A flow that has begun and was not dropped is in its browser's cookie, with
\* the time it began.
FlowsInv ==
    /\ \A b \in Browsers : jar[b].flow # NoFlow => begun[jar[b].flow].at = jar[b].at
    /\ \A f \in Flows \ dropped :
          begun[f].browser # NoBrowser => jar[begun[f].browser].flow = f

\* A callback with the state of a login carries the flow of that login, or
\* there is a reason why not.
Explained(c) ==
    c.state \in Flows =>
       /\ begun[c.state].browser # NoBrowser
       /\ \/ c.flow = c.state
          \/ begun[c.state].browser # c.browser
          \/ c.state \in dropped
          \/ now - begun[c.state].at > FlowMaxAge

ExplainedInv == \A r \in Requests : pc[r] # "idle" => Explained(call[r])

LEMMA FlowsStep == Good /\ CodesInv /\ FlowsInv /\ [Next]_vars => FlowsInv'
<1> SUFFICES ASSUME Good, CodesInv, FlowsInv, [Next]_vars
             PROVE  FlowsInv'
  OBVIOUS
<1> USE NamesAssumption
<1> USE DEF Good
<1>1. ASSUME NEW b \in Browsers, NEW f \in Flows, Begins(b, f)
      PROVE  FlowsInv'
  <2>1. /\ begun[f].browser = NoBrowser
        /\ begun'[f].browser = b /\ begun'[f].at = now
        /\ \A g \in Flows \ {f} : begun'[g] = begun[g]
        /\ jar'[b].flow = f /\ jar'[b].at = now
        /\ \A a \in Browsers \ {b} : jar'[a] = jar[a]
        /\ dropped \subseteq dropped' /\ {jar[b].flow} \ {NoFlow} \subseteq dropped'
    BY <1>1 DEF Begins, FlowsTypeOK, BrowsersTypeOK
  <2>2. ASSUME NEW a \in Browsers, jar'[a].flow # NoFlow
        PROVE  begun'[jar'[a].flow].at = jar'[a].at
    <3>1. CASE a = b
      BY <3>1, <2>1
    <3>2. CASE a # b
      <4>1. jar[a].flow \in Flows \ {f} /\ begun[jar[a].flow].at = jar[a].at
        BY <3>2, <2>1, <2>2 DEF CodesInv, FlowsInv, BrowsersTypeOK
      <4> QED BY <3>2, <4>1, <2>1
    <3> QED BY <3>1, <3>2
  <2>3. ASSUME NEW g \in Flows \ dropped', begun'[g].browser # NoBrowser
        PROVE  jar'[begun'[g].browser].flow = g
    <3>1. CASE g = f
      BY <3>1, <2>1
    <3>2. CASE g # f
      <4>1. begun'[g] = begun[g] /\ begun[g].browser \in Browsers /\ g \notin dropped
        BY <3>2, <2>1, <2>3 DEF FlowsTypeOK
      <4>2. jar[begun[g].browser].flow = g
        BY <4>1, <2>3 DEF FlowsInv
      <4>3. begun[g].browser # b
        BY <4>2, <2>1, <2>3
      <4> QED BY <4>1, <4>2, <4>3, <2>1
    <3> QED BY <3>1, <3>2
  <2> QED BY <2>2, <2>3 DEF FlowsInv
<1>2. ASSUME UNCHANGED begun, ForgetsOrKeeps
      PROVE  FlowsInv'
  <2>1. CASE UNCHANGED <<jar, dropped>>
    BY <1>2, <2>1 DEF FlowsInv
  <2>2. ASSUME NEW b \in Browsers,
               jar' = [jar EXCEPT ![b] = [flow |-> NoFlow, at |-> 0]],
               dropped \subseteq dropped', {jar[b].flow} \ {NoFlow} \subseteq dropped'
        PROVE  FlowsInv'
    <3>1. /\ jar'[b].flow = NoFlow
          /\ \A a \in Browsers \ {b} : jar'[a] = jar[a]
      BY <2>2 DEF BrowsersTypeOK
    <3>2. \A a \in Browsers : jar'[a].flow # NoFlow => begun'[jar'[a].flow].at = jar'[a].at
      BY <1>2, <3>1 DEF FlowsInv
    <3>3. ASSUME NEW g \in Flows \ dropped', begun[g].browser # NoBrowser
          PROVE  jar'[begun[g].browser].flow = g
      <4>1. jar[begun[g].browser].flow = g /\ begun[g].browser \in Browsers
        BY <2>2, <3>3 DEF FlowsInv, FlowsTypeOK
      <4>2. begun[g].browser # b
        BY <4>1, <2>2, <3>3
      <4> QED BY <4>1, <4>2, <3>1
    <3> QED BY <1>2, <3>2, <3>3 DEF FlowsInv
  <2> QED BY <1>2, <2>1, <2>2 DEF ForgetsOrKeeps
<1>3. ASSUME NEW f \in Flows, NEW u \in Users, LogsIn(f, u)
      PROVE  FlowsInv'
  BY <1>3 DEF LogsIn, FlowsInv
<1> QED BY <1>1, <1>2, <1>3, StepEffects DEF Effects, Exchanges, SignsIn, NoneOfThese

\* Histories only grow: a flow begun stays what it is, a code issued stays
\* issued, a flow dropped stays dropped.
LEMMA Growth ==
    Good /\ [Next]_vars =>
       /\ \A f \in Flows : begun[f].browser # NoBrowser => begun'[f] = begun[f]
       /\ \A c \in Codes : codes[c] # "unissued" => codes'[c] # "unissued"
       /\ dropped \subseteq dropped'
       /\ now <= now'
<1> SUFFICES ASSUME Good, [Next]_vars
             PROVE  /\ \A f \in Flows : begun[f].browser # NoBrowser => begun'[f] = begun[f]
                    /\ \A c \in Codes : codes[c] # "unissued" => codes'[c] # "unissued"
                    /\ dropped \subseteq dropped'
                    /\ now <= now'
  OBVIOUS
<1> USE DEF Good
<1>1. \A f \in Flows : begun[f].browser # NoBrowser => begun'[f] = begun[f]
  BY StepEffects DEF Effects, Begins, Exchanges, SignsIn, LogsIn, NoneOfThese, FlowsTypeOK
<1>2. \A c \in Codes : codes[c] # "unissued" => codes'[c] # "unissued"
  BY StepEffects DEF Effects, Begins, Exchanges, Spend, SignsIn, LogsIn, NoneOfThese, CodesTypeOK
<1>3. dropped \subseteq dropped'
  BY StepEffects DEF Effects, Begins, Exchanges, SignsIn, LogsIn, NoneOfThese, ForgetsOrKeeps
<1>4. now <= now'
  <2>1. now' = now \/ now' = now + 1
    BY DEF Next, vars, Login, Callback, Arrive, Resume, Fail, ExchangeReturns, ValidationReturns,
           DiscoveryReturns, ProviderLogin, Tick
  <2> QED BY <2>1, NumbersAssumption DEF FlowsTypeOK, Times
<1> QED BY <1>1, <1>2, <1>3, <1>4

\* The same browser, flow and state
SameLogin(c, d) == c.browser = d.browser /\ c.flow = d.flow /\ c.state = d.state

\* Where a call comes from: it was there, or it arrived.
Carries(r) ==
    \/ pc[r] # "idle" /\ SameLogin(call'[r], call[r])
    \/ \E b \in Browsers, state \in States : \E code : call'[r] = Arrival(b, state, code)

LEMMA EndCarries ==
    ASSUME RequestsTypeOK, NEW r \in Requests, NEW e, NEW h, End(r, e, h),
           NEW q \in Requests, pc'[q] # "idle"
    PROVE  pc[q] # "idle" /\ call'[q] = call[q]
BY DEF End, RequestsTypeOK

LEMMA ProceedCarries ==
    ASSUME RequestsTypeOK, NEW r \in Requests, NEW c, Proceed(r, c),
           NEW q \in Requests, pc'[q] # "idle"
    PROVE  \/ pc[q] # "idle" /\ call'[q] = call[q]
           \/ q = r /\ call'[q] = c
<1>1. CASE \E e, h : End(r, e, h)
  BY <1>1, EndCarries
<1>2. CASE pc' = [pc EXCEPT ![r] = "exchanging"] /\ call' = [call EXCEPT ![r] = c]
  BY <1>2 DEF RequestsTypeOK
<1> QED BY <1>1, <1>2 DEF Proceed, BeginFlow, CheckState, Refuse

LEMMA WhoCarries ==
    ASSUME Good, [Next]_vars, NEW q \in Requests, pc'[q] # "idle"
    PROVE  Carries(q)
<1> USE DEF Good
<1>1. ASSUME pc[q] # "idle", call'[q] = call[q]
      PROVE  Carries(q)
  BY <1>1 DEF Carries, SameLogin
<1>2. ASSUME NEW r \in Requests, NEW b \in Browsers, NEW state \in States, NEW code,
             Arrive(r, b, state, code)
      PROVE  Carries(q)
  <2>1. CASE Known /\ Proceed(r, Arrival(b, state, code))
    BY <1>1, <2>1, ProceedCarries DEF Carries
  <2>2. CASE ~Known
    <3>1. pc' = [pc EXCEPT ![r] = "resolving"] /\ call' = [call EXCEPT ![r] = Arrival(b, state, code)]
      BY <1>2, <2>2 DEF Arrive, Arrival
    <3>2. CASE q = r
      BY <3>1, <3>2 DEF Carries, RequestsTypeOK
    <3>3. CASE q # r
      BY <1>1, <3>1, <3>3 DEF RequestsTypeOK
    <3> QED BY <3>2, <3>3
  <2> QED BY <1>2, <2>1, <2>2 DEF Arrive, Arrival
<1>3. ASSUME NEW r \in Requests, Login(r) \/ Callback(r)
      PROVE  Carries(q)
  BY <1>2, <1>3 DEF Login, Callback, States
<1>4. ASSUME NEW r \in Requests, Resume(r)
      PROVE  Carries(q)
  BY <1>4, <1>1, ProceedCarries DEF Resume
<1>5. ASSUME NEW r \in Requests, Fail(r) \/ ExchangeReturns(r) \/ ValidationReturns(r)
      PROVE  Carries(q)
  <2>1. CASE \E e, h : End(r, e, h)
    BY <2>1, <1>1, EndCarries
  <2>2. CASE pc[r] = "exchanging" /\ pc' = [pc EXCEPT ![r] = "validating"] /\ UNCHANGED call
    BY <2>2, <1>1 DEF RequestsTypeOK
  <2> QED BY <1>5, <2>1, <2>2 DEF Fail, ExchangeReturns, ValidationReturns, Refuse, SignedIn
<1>6. CASE DiscoveryReturns
  <2>1. CASE q \notin Waiting
    BY <1>1, <1>6, <2>1 DEF DiscoveryReturns
  <2>2. CASE q \in Waiting
    <3>1. call[q] \in Calls
      BY <2>2 DEF Waiting, CallsOK
    <3>2. call'[q] = call[q] \/ \E k : call'[q] = [call[q] EXCEPT !.keys = k]
      BY <1>6, <2>2 DEF DiscoveryReturns
    <3> QED BY <2>2, <3>1, <3>2 DEF Waiting, Carries, SameLogin, Calls
  <2> QED BY <2>1, <2>2
<1>7. CASE Tick \/ UNCHANGED vars \/ \E f \in Flows, u \in Users : ProviderLogin(f, u)
  BY <1>1, <1>7 DEF Tick, vars, ProviderLogin, requestVars
<1> QED BY <1>3, <1>4, <1>5, <1>6, <1>7 DEF Next

\* What a browser sends is its own and explained, when it arrives and later.
LEMMA CallsStep ==
    Good /\ CodesInv /\ FlowsInv /\ CallsInv /\ ExplainedInv /\ [Next]_vars
       => CallsInv' /\ ExplainedInv'
<1> SUFFICES ASSUME Good, CodesInv, FlowsInv, CallsInv, ExplainedInv, [Next]_vars,
                    NEW r \in Requests, pc'[r] # "idle"
             PROVE  OwnFlow(call[r])' /\ Explained(call[r])'
  BY DEF CallsInv, ExplainedInv
<1> USE NamesAssumption
<1> USE DEF Good
<1> DEFINE c == call'[r]
<1>1. c \in Calls
  BY TypeStep DEF CallsOK
<1>2. OwnFlow(c) /\ Explained(c)
  <2>1. CASE pc[r] # "idle" /\ SameLogin(c, call[r])
    BY <2>1 DEF SameLogin, CallsInv, ExplainedInv, OwnFlow, Explained
  <2>2. ASSUME NEW b \in Browsers, NEW state \in States, NEW code, c = Arrival(b, state, code)
        PROVE  OwnFlow(c) /\ Explained(c)
    <3>1. c.browser = b /\ c.state = state /\ c.flow = FlowOf(b, state)
      BY <2>2 DEF Arrival
    <3>2. OwnFlow(c)
      BY <3>1 DEF OwnFlow, FlowOf, CodesInv
    <3>3. state \in Flows => begun[state].browser # NoBrowser
      BY DEF States
    <3>4. ASSUME state \in Flows, begun[state].browser = b, state \notin dropped
          PROVE  c.flow = state \/ now - begun[state].at > FlowMaxAge
      <4>1. jar[b].flow = state
        BY <3>4 DEF FlowsInv
      <4>2. jar[b].at = begun[state].at
        BY <3>4, <4>1 DEF FlowsInv
      <4> QED BY <3>1, <4>1, <4>2 DEF FlowOf
    <3> QED BY <3>1, <3>2, <3>3, <3>4 DEF Explained
  <2> QED BY <2>1, <2>2, WhoCarries DEF Carries
<1>3. c.flow # NoFlow => begun'[c.flow].browser = c.browser
  <2> HIDE DEF c
  <2> QED BY <1>1, <1>2, Growth DEF OwnFlow, Calls
<1>4. c.state \in Flows =>
         /\ begun'[c.state].browser # NoBrowser
         /\ \/ c.flow = c.state
            \/ begun'[c.state].browser # c.browser
            \/ c.state \in dropped'
            \/ now' - begun'[c.state].at > FlowMaxAge
  <2> HIDE DEF c
  <2> SUFFICES ASSUME c.state \in Flows
               PROVE  /\ begun'[c.state].browser # NoBrowser
                      /\ \/ c.flow = c.state
                         \/ begun'[c.state].browser # c.browser
                         \/ c.state \in dropped'
                         \/ now' - begun'[c.state].at > FlowMaxAge
    OBVIOUS
  <2>1. begun'[c.state] = begun[c.state] /\ begun[c.state].browser # NoBrowser
    BY <1>2, Growth DEF Explained
  <2>2. /\ begun[c.state].at \in Int /\ now \in Int /\ now' \in Int /\ now <= now'
        /\ dropped \subseteq dropped'
    BY Growth, TypeStep, NumbersAssumption DEF FlowsTypeOK, Times
  <2> QED BY <1>2, <2>1, <2>2, NumbersAssumption DEF Explained
<1> QED BY <1>3, <1>4 DEF OwnFlow, Explained

LoginInv == Good /\ CodesInv /\ IdsInv /\ FlowsInv /\ CallsInv /\ ExplainedInv

LEMMA LoginInvariant == Spec => []LoginInv
<1>1. Init => LoginInv
  <2> SUFFICES ASSUME Init PROVE LoginInv
    OBVIOUS
  <2>1. CodesInv /\ FlowsInv
    BY NamesAssumption DEF Init, CodesInv, FlowsInv, Codes
  <2>2. IdsInv /\ CallsInv /\ ExplainedInv
    BY DEF Init, IdsInv, CallsInv, ExplainedInv
  <2> QED BY <2>1, <2>2, TypeInit DEF LoginInv
<1>2. LoginInv /\ [Next]_vars => LoginInv'
  BY TypeStep, CodesStep, IdsStep, FlowsStep, CallsStep DEF LoginInv
<1> QED BY <1>1, <1>2, PTL DEF Spec

\* Whatever state and code a link puts together, a code is used up only by a
\* browser that answers a login it began itself.
THEOREM SpentByOwner == Spec => SpentForOwnLogin
<1>1. LoginInv /\ [Next]_vars =>
         \A c \in Codes : codes[c] = "live" /\ codes'[c] # "live" =>
            \E r \in Requests :
               /\ pc[r] = "exchanging" /\ call[r].code = c
               /\ call[r].state \in Flows
               /\ begun[call[r].state].browser = call[r].browser
  <2> SUFFICES ASSUME LoginInv, [Next]_vars, NEW c \in Codes, codes[c] = "live", codes'[c] # "live"
               PROVE  \E r \in Requests :
                         /\ pc[r] = "exchanging" /\ call[r].code = c
                         /\ call[r].state \in Flows
                         /\ begun[call[r].state].browser = call[r].browser
    OBVIOUS
  <2> USE DEF LoginInv, Good
  <2>1. ASSUME NEW r \in Requests, SignsIn(r)
        PROVE  FALSE
    BY <2>1 DEF SignsIn, CodesInv, CodesTypeOK
  <2>2. ASSUME NEW f \in Flows, NEW u \in Users, LogsIn(f, u)
        PROVE  FALSE
    BY <2>2 DEF LogsIn, CodesTypeOK, Codes
  <2>3. PICK r \in Requests : Exchanges(r)
    BY <2>1, <2>2, StepEffects DEF Effects, Begins, NoneOfThese
  <2>4. call[r].code = c /\ pc[r] = "exchanging" /\ Matched(call[r])
    BY <2>3 DEF Exchanges, Spend
  <2> QED BY <2>4, NamesAssumption DEF Matched, CallsInv, OwnFlow
<1> QED BY <1>1, LoginInvariant, PTL DEF SpentForOwnLogin, Spec

\* No state takes a browser away from the application and the allowed hosts.
THEOREM StaysInside == Spec => []LandsInside
<1>1. Init => LandsInside
  BY DEF Init, LandsInside, Silent
<1>2. LandsInside /\ Good /\ [Next]_vars => LandsInside'
  <2> SUFFICES ASSUME LandsInside, Good, [Next]_vars
               PROVE  LandsInside'
    OBVIOUS
  <2>1. ASSUME NEW e, NEW h \in AllowedHosts \cup {Home}, reply' = [end |-> e, host |-> h]
        PROVE  LandsInside'
    BY <2>1 DEF LandsInside
  <2>2. ASSUME reply' = reply \/ reply' = Silent
        PROVE  LandsInside'
    BY <2>2 DEF LandsInside, Silent
  <2>3. ASSUME NEW r \in Requests, NEW e, NEW h \in AllowedHosts \cup {Home}, End(r, e, h)
        PROVE  LandsInside'
    BY <2>1, <2>3 DEF End
  <2>4. ASSUME NEW r \in Requests, NEW c, Proceed(r, c)
        PROVE  LandsInside'
    BY <2>2, <2>3, <2>4 DEF Proceed, BeginFlow, CheckState, Refuse
  <2>5. ASSUME NEW r \in Requests, NEW b, NEW state, NEW code, Arrive(r, b, state, code)
        PROVE  LandsInside'
    BY <2>2, <2>4, <2>5 DEF Arrive
  <2>8. ASSUME NEW r \in Requests, Login(r) \/ Callback(r) \/ Resume(r)
        PROVE  LandsInside'
    BY <2>4, <2>5, <2>8 DEF Login, Callback, Resume
  <2>6. ASSUME NEW r \in Requests, Fail(r) \/ ExchangeReturns(r) \/ ValidationReturns(r)
        PROVE  LandsInside'
    BY <2>2, <2>3, <2>6, LandingsAllowed
       DEF Fail, ExchangeReturns, ValidationReturns, Refuse, SignedIn
  <2>7. CASE \/ DiscoveryReturns \/ Tick \/ UNCHANGED vars
             \/ \E f \in Flows, u \in Users : ProviderLogin(f, u)
    BY <2>2, <2>7 DEF DiscoveryReturns, Tick, vars, ProviderLogin, requestVars
  <2> QED BY <2>6, <2>7, <2>8 DEF Next
<1> QED BY <1>1, <1>2, TypeInit, TypeStep, PTL DEF Spec

\* Which step ends a request, and how.
LEMMA WhoEnds ==
    ASSUME Good, [Next]_vars, NEW r \in Requests, pc[r] # "idle", pc'[r] = "idle"
    PROVE  \/ Resume(r) \/ Fail(r) \/ ExchangeReturns(r) \/ ValidationReturns(r)
<1> USE DEF Good
<1>1. ASSUME NEW q \in Requests, q # r, (\E e, h : End(q, e, h))
             \/ \E p \in Running : pc' = [pc EXCEPT ![q] = p]
      PROVE  FALSE
  BY <1>1 DEF End, RequestsTypeOK
<1>2. ASSUME NEW q \in Requests, q # r, NEW c, Proceed(q, c)
      PROVE  FALSE
  BY <1>1, <1>2 DEF Proceed, BeginFlow, CheckState, Refuse, Running
<1>3. ASSUME NEW q \in Requests, NEW b \in Browsers, NEW state, NEW code, Arrive(q, b, state, code)
      PROVE  FALSE
  <2>1. q # r
    BY <1>3 DEF Arrive
  <2> QED BY <1>1, <1>2, <1>3, <2>1 DEF Arrive, Running
<1>4. ASSUME NEW q \in Requests, q # r,
             Resume(q) \/ Fail(q) \/ ExchangeReturns(q) \/ ValidationReturns(q)
      PROVE  FALSE
  BY <1>1, <1>2, <1>4
     DEF Resume, Fail, ExchangeReturns, ValidationReturns, Refuse, SignedIn, Running
<1>5. CASE DiscoveryReturns
  BY <1>5 DEF DiscoveryReturns
<1>6. CASE Tick \/ UNCHANGED vars \/ \E f \in Flows, u \in Users : ProviderLogin(f, u)
  BY <1>6 DEF Tick, vars, ProviderLogin, requestVars
<1> QED BY <1>3, <1>4, <1>5, <1>6 DEF Next, Login, Callback

\* A callback with a login's own state and code fails for its state, its code
\* or its nonce only where the browser, the age, a newer login or an earlier
\* try is to blame; whatever else a link puts together has a reason in it.
THEOREM RefusalsExplained == Spec => RefusedForCause
<1>1. LoginInv /\ [Next]_vars =>
         \A r \in Requests :
            LET c == call[r]
                own == c.code \in Codes /\ c.code[1] = c.state
            IN  pc[r] # "idle" /\ pc'[r] = "idle" /\ c.code # NoCode =>
                    /\ reply'.end = "refused: state" =>
                          \/ c.state = NoState
                          \/ begun[c.state].browser # c.browser
                          \/ c.state \in dropped
                          \/ now - begun[c.state].at > FlowMaxAge
                    /\ reply'.end = "refused: code" => ~(own /\ codes[c.code] = "live")
                    /\ reply'.end = "refused: nonce" => ~own
  <2> SUFFICES ASSUME LoginInv, [Next]_vars, NEW r \in Requests,
                      pc[r] # "idle", pc'[r] = "idle", call[r].code # NoCode
               PROVE  LET c == call[r]
                          own == c.code \in Codes /\ c.code[1] = c.state
                      IN  /\ reply'.end = "refused: state" =>
                                \/ c.state = NoState
                                \/ begun[c.state].browser # c.browser
                                \/ c.state \in dropped
                                \/ now - begun[c.state].at > FlowMaxAge
                          /\ reply'.end = "refused: code" => ~(own /\ codes[c.code] = "live")
                          /\ reply'.end = "refused: nonce" => ~own
    OBVIOUS
  <2> USE DEF LoginInv, Good
  <2> DEFINE c == call[r]
  <2>1. c \in Calls /\ Explained(c)
    BY DEF CallsOK, ExplainedInv
  <2>2. \A e, h : End(r, e, h) => reply'.end = e
    BY DEF End
  <2>3. CASE Resume(r)
    <3>1. ~StateMatches(c) /\ Refuse(r, c, "refused: state")
      BY <2>3 DEF Resume, Proceed, CheckState, RequestsTypeOK
    <3>2. c.state \in Flows => c.flow # c.state
      BY <3>1, NamesAssumption DEF StateMatches
    <3>3. c.state \in Flows \cup {NoState}
      BY <2>1 DEF Calls
    <3> QED BY <2>1, <2>2, <3>1, <3>2, <3>3 DEF Refuse, Explained
  <2>4. CASE Fail(r)
    BY <2>2, <2>4 DEF Fail
  <2>5. CASE ExchangeReturns(r)
    <3>1. Matched(c)
      BY <2>5 DEF ExchangeReturns, CallsOK
    <3>2. \/ Refuse(r, c, "refused: provider")
          \/ /\ Refuse(r, c, "refused: code")
             /\ ~(c.code \in Codes /\ codes[c.code] = "live" /\ c.flow = c.code[1])
      BY <2>5 DEF ExchangeReturns, RequestsTypeOK
    <3> QED BY <2>2, <3>1, <3>2 DEF Refuse, Matched
  <2>6. CASE ValidationReturns(r)
    <3>1. Matched(c)
      BY <2>6 DEF ValidationReturns, CallsOK
    <3>2. \/ Refuse(r, c, "refused: provider") \/ SignedIn(r, c)
          \/ Refuse(r, c, "refused: nonce") /\ ~NonceMatches(c)
      BY <2>6 DEF ValidationReturns
    <3> QED BY <2>2, <3>1, <3>2 DEF Refuse, SignedIn, NonceMatches, Matched
  <2> QED BY <2>3, <2>4, <2>5, <2>6, WhoEnds
<1> QED BY <1>1, LoginInvariant, PTL DEF RefusedForCause, Spec
-----------------------------------------------------------------------------
(* Refinement                                                              *)

\* The account behind an id that is some account's
LEMMA AccountBehind ==
    ASSUME IdsInv, NEW u \in Users, users[u] # 0
    PROVE  AccountOf(users[u]) = u
BY DEF IdsInv, AccountOf

Origin   == [f \in Flows |-> begun[f].browser]
Logins   == {c \in Codes : codes[c] # "unissued"}
Redeemed == {c \in Codes : codes[c] = "redeemed"}
Sessions == [b \in Browsers |-> IF session[b] = 0 THEN 0 ELSE AccountOf(session[b])]

\* Every step of the application and its provider is one of the promise's, on
\* what the promise speaks of, or changes none of it.
LEMMA PromiseStep ==
    LoginInv /\ LoginInv' /\ [Next]_vars =>
       \/ \E f \in Flows : \/ \E b \in Browsers : Promise!Begin(f, b)
                           \/ \E u \in Users : Promise!LogIn(f, u) \/ Promise!Redeem(f, u)
       \/ UNCHANGED <<Origin, Logins, Redeemed, Sessions>>
<1> SUFFICES ASSUME LoginInv, LoginInv', [Next]_vars
             PROVE  \/ \E f \in Flows : \/ \E b \in Browsers : Promise!Begin(f, b)
                                        \/ \E u \in Users : Promise!LogIn(f, u) \/ Promise!Redeem(f, u)
                    \/ UNCHANGED <<Origin, Logins, Redeemed, Sessions>>
  OBVIOUS
<1> USE DEF LoginInv, Good
<1>1. ASSUME UNCHANGED <<users, session>>
      PROVE  Sessions' = Sessions
  BY <1>1 DEF Sessions, AccountOf
<1>2. ASSUME NEW b \in Browsers, NEW f \in Flows, Begins(b, f)
      PROVE  Promise!Begin(f, b)
  <2>1. Origin[f] = NoBrowser /\ Origin' = [Origin EXCEPT ![f] = b]
    BY <1>2 DEF Begins, Origin, FlowsTypeOK
  <2>2. UNCHANGED <<Logins, Redeemed, Sessions>>
    BY <1>1, <1>2 DEF Begins, Logins, Redeemed
  <2> QED BY <2>1, <2>2 DEF Promise!Begin, Origin, Logins, Redeemed, Sessions, Issued
<1>3. ASSUME NEW f \in Flows, NEW u \in Users, LogsIn(f, u)
      PROVE  Promise!LogIn(f, u)
  <2>1. Origin[f] # NoBrowser /\ Origin' = Origin
    BY <1>3 DEF LogsIn, Origin
  <2>2. <<f, u>> \in Codes
    BY DEF Codes
  <2>3. Logins' = Logins \cup {<<f, u>>} /\ Redeemed' = Redeemed
    BY <1>3, <2>2 DEF LogsIn, Logins, Redeemed, CodesTypeOK
  <2>4. Sessions' = Sessions
    BY <1>1, <1>3 DEF LogsIn
  <2> QED BY <2>1, <2>3, <2>4 DEF Promise!LogIn, Origin, Logins, Redeemed, Sessions, Issued
<1>4. ASSUME NEW r \in Requests, Exchanges(r)
      PROVE  UNCHANGED <<Origin, Logins, Redeemed, Sessions>>
  <2>1. Origin' = Origin
    BY <1>4 DEF Exchanges, Origin
  <2>2. Logins' = Logins /\ Redeemed' = Redeemed
    BY <1>4 DEF Exchanges, Spend, Logins, Redeemed
  <2>3. Sessions' = Sessions
    BY <1>1, <1>4 DEF Exchanges
  <2> QED BY <2>1, <2>2, <2>3
<1>5. ASSUME NEW r \in Requests, NEW f \in Flows, NEW u \in Users,
             call[r].code = <<f, u>>, SignsIn(r)
      PROVE  Promise!Redeem(f, u)
  <2> DEFINE c == call[r].code
             b == call[r].browser
             id == IdOf(u)
  <2>1. c \in Codes /\ c = <<f, u>> /\ b \in Browsers
    BY <1>5 DEF SignsIn, CallsOK, Calls
  <2>2. Origin[f] = b /\ Origin' = Origin
    BY <1>5, <2>1, NamesAssumption DEF SignsIn, Matched, NonceMatches, CallsInv, OwnFlow, Origin
  <2>3. codes[c] = "spent" /\ codes' = [codes EXCEPT ![c] = "redeemed"]
    BY <1>5 DEF SignsIn, CodesInv
  <2>4. <<f, u>> \in Logins \ Redeemed /\ Redeemed' = Redeemed \cup {<<f, u>>} /\ Logins' = Logins
    <3> HIDE DEF c
    <3> QED BY <2>1, <2>3 DEF Logins, Redeemed, CodesTypeOK
  <2>5. Sessions' = [Sessions EXCEPT ![b] = u]
    <3>1. users' = [users EXCEPT ![u] = id] /\ session' = [session EXCEPT ![b] = id]
      BY <1>5 DEF SignsIn
    <3>2. id # 0 /\ (users[u] # 0 => id = users[u])
      BY <2>1, NextId DEF IdOf
    <3> HIDE DEF c, b, id
    <3>3. /\ users'[u] = id /\ session'[b] = id
          /\ \A v \in Users : users[v] # 0 => users'[v] = users[v]
          /\ \A a \in Browsers \ {b} : session'[a] = session[a]
      BY <2>1, <3>1, <3>2 DEF IdsTypeOK, BrowsersTypeOK
    <3>4. \A v \in Users : users'[v] # 0 => (CHOOSE w \in Users : users'[w] = users'[v]) = v
      BY DEF IdsInv
    <3>5. Sessions'[b] = u
      BY <2>1, <3>2, <3>3, <3>4 DEF Sessions, AccountOf
    <3>6. ASSUME NEW a \in Browsers \ {b}
          PROVE  Sessions'[a] = Sessions[a]
      <4>1. CASE session[a] = 0
        BY <4>1, <3>3 DEF Sessions
      <4>2. CASE session[a] # 0
        <5>1. PICK v \in Users : users[v] = session[a]
          BY <4>2 DEF IdsInv
        <5>2. AccountOf(session[a]) = v
          BY <4>2, <5>1, AccountBehind
        <5>3. (CHOOSE w \in Users : users'[w] = session'[a]) = v
          BY <4>2, <5>1, <3>3, <3>4
        <5> QED BY <4>2, <5>2, <5>3, <3>3 DEF Sessions, AccountOf
      <4> QED BY <4>1, <4>2
    <3> QED BY <2>1, <3>5, <3>6 DEF Sessions
  <2> HIDE DEF c, b
  <2> QED BY <2>2, <2>4, <2>5 DEF Promise!Redeem, Origin, Logins, Redeemed, Sessions, Issued, c
<1>6. CASE NoneOfThese
  BY <1>1, <1>6 DEF NoneOfThese, Origin, Logins, Redeemed
<1>7. ASSUME NEW r \in Requests, SignsIn(r)
      PROVE  \E f \in Flows, u \in Users : Promise!Redeem(f, u)
  <2>1. PICK f \in Flows, u \in Users : call[r].code = <<f, u>>
    BY <1>7 DEF SignsIn, Codes
  <2>2. Promise!Redeem(f, u)
    BY <1>5, <1>7, <2>1
  <2> QED BY <2>2
<1>8. Effects
  BY StepEffects
<1> HIDE DEF LoginInv, Good
<1> QED BY <1>2, <1>3, <1>4, <1>6, <1>7, <1>8 DEF Effects

\* What the recipe and the helpers do, with everything that is lost, repeated,
\* opened elsewhere or late on the way, implements what signing in promises.
THEOREM KeepsPromise == Spec => SignsInAsPromised
<1>1. Init => Promise!Init
  <2> SUFFICES ASSUME Init PROVE Promise!Init
    OBVIOUS
  <2>1. /\ Origin = [f \in Flows |-> NoBrowser] /\ Logins = {} /\ Redeemed = {}
        /\ Sessions = [b \in Browsers |-> 0]
    BY DEF Init, Origin, Logins, Redeemed, Sessions
  <2> QED BY <2>1 DEF Promise!Init, Origin, Logins, Redeemed, Sessions, Issued
<1>2. LoginInv /\ LoginInv' /\ [Next]_vars => [Promise!Next]_(Promise!vars)
  <2> SUFFICES ASSUME LoginInv, LoginInv', [Next]_vars
               PROVE  [Promise!Next]_(Promise!vars)
    OBVIOUS
  <2>1. CASE UNCHANGED <<Origin, Logins, Redeemed, Sessions>>
    BY <2>1 DEF Promise!vars, Origin, Logins, Redeemed, Sessions, Issued
  <2> QED BY <2>1, PromiseStep DEF Promise!Next
<1> QED BY <1>1, <1>2, LoginInvariant, PTL DEF Spec, SignsInAsPromised, Promise!Spec
=============================================================================
