------------------------ MODULE CookieSessionProofs -------------------------
(***************************************************************************)
(* Proofs about CookieSession, for every set of names of which none is the *)
(* session's followed by `.sid`, every set of session ids, values and      *)
(* requests, every order of secret keys, every ttl and window, and any     *)
(* number of cookies.                                                      *)
(***************************************************************************)
EXTENDS CookieSession, SequenceTheorems, TLAPS

Places == {"idle", "opening", "validating", "handling"}

\* The keys, the layouts and the clock
DeployOK ==
    /\ NamesApart
    /\ keys \in Seq(Range(KeyOrder)) /\ keys # <<>>
    /\ now \in 0..MaxClock /\ rotatedAt \in 0..now
    /\ layout \in [Names -> BOOLEAN]
    /\ \A n \in Names : layout[n] => n = Session

\* A cookie of this release holds what it was given, under the layout that its
\* salt names; only the session's has an id, with the login it comes from.
WithId(c) == c.by.sid # Nothing
Written(c) ==
    /\ c.salt = SaltOf(c.by.name, WithId(c)) /\ (WithId(c) => c.by.name = Session)
    /\ c.parts = <<c.by.acr>> \o (IF WithId(c) THEN <<c.by.sid>> ELSE <<>>) \o c.by.value
    /\ c.by.name \in Names /\ c.by.value \in Values
    /\ {c.by.sid, c.by.login} \subseteq IF WithId(c) THEN SessionIds ELSE {Nothing}
    /\ c.at \in 0..now /\ c.key \in Range(KeyOrder)

\* A key that no longer signs has not signed since the last rotation, and one
\* that no longer verifies has only signed what has lived its ttl.
Verifiable(c) ==
    /\ c.key = Head(keys) \/ c.at <= rotatedAt
    /\ c.key \in Range(keys) \/ now - c.at >= Ttl

CookiesInv ==
    \A c \in issued : c \in Earlier \/ (Written(c) /\ Verifiable(c))

\* A row is of a cookie that was set, of its login, which has no other row and
\* is not signed out.
Rows == [sid : SessionIds, user : Values, login : SessionIds]
RowsInv ==
    /\ sessions \subseteq Rows
    /\ \A row \in sessions : {row.sid, row.login} \subseteq Drawn /\ row.login \notin signedOut
    /\ \A row, other \in sessions : row.login = other.login => row = other
    /\ \A row \in sessions : \A c \in issued : c.by.sid = row.sid => c.by.login = row.login
    /\ signedOut \subseteq SessionIds \cap Drawn

\* A request under way has passed the guards before its step, each with a
\* cookie that its source's keys and salt verify.
Passed(r) ==
    \A i \in DOMAIN call[r].guards :
        i < step[r] \/ pc[r] = "handling" => call[r].guards[i].name \in records[r]

RequestInv(r) ==
    /\ pc[r] \in Places
    /\ jar[r] \in [Names -> issued \cup {Nothing}]
    /\ opened[r] \in Names \cup {Nothing}
    /\ records[r] \subseteq Names
    /\ pc[r] = "idle" => call[r] = Nothing /\ records[r] = {} /\ step[r] = 1
    /\ pc[r] # "idle" =>
          call[r] \in Calls[r] /\ step[r] \in 1..Len(call[r].guards) /\ Passed(r)
    /\ pc[r] = "validating" => opened[r] = Guard(r).name
    /\ \A n \in Accepted(r) : jar[r][n] # Nothing /\ Signed(jar[r][n], n)

AnyCall == (UNION {Calls[r] : r \in Requests}) \cup {Nothing}

RequestsInv ==
    /\ pc \in [Requests -> Places]
    /\ call \in [Requests -> AnyCall]
    /\ jar \in [Requests -> [Names -> issued \cup {Nothing}]]
    /\ step \in [Requests -> Nat \ {0}]
    /\ opened \in [Requests -> Names \cup {Nothing}]
    /\ records \in [Requests -> SUBSET Names]
    /\ \A r \in Requests : RequestInv(r)

IInv == DeployOK /\ CookiesInv /\ RowsInv /\ RequestsInv
-----------------------------------------------------------------------------
(* What the operators on keys and cookies return                           *)

LEMMA RingFacts ==
    ASSUME DeployOK
    PROVE  /\ Last(Ring) = Head(keys) /\ Head(keys) \in Range(KeyOrder) /\ Head(keys) \in Range(keys)
           /\ \A c, n : Signed(c, n) <=> c.salt = Salt(n) /\ c.key \in Range(keys)
<1> DEFINE n == Len(keys)
<1>1. n \in Nat /\ n > 0 /\ DOMAIN keys = 1..n /\ \A i \in 1..n : keys[i] \in Range(KeyOrder)
  BY DEF DeployOK
<1>2. Ring = [i \in 1..n |-> keys[(n - i) + 1]]
  BY DEF Ring, Reverse
<1>3. Len(Ring) = n /\ DOMAIN Ring = 1..n
  BY <1>1, <1>2
<1>4. Head(keys) = keys[1]
  BY <1>1 DEF DeployOK
<1> HIDE DEF n
<1>5. Ring[n] = keys[1]
  BY <1>1, <1>2
<1>6. Last(Ring) = Head(keys) /\ Head(keys) \in Range(KeyOrder)
  BY <1>1, <1>3, <1>4, <1>5 DEF Last
<1>7. Head(keys) \in Range(keys)
  BY <1>1, <1>4 DEF Range
<1>8. ASSUME NEW k
      PROVE  (\E i \in DOMAIN Ring : Ring[i] = k) <=> k \in Range(keys)
  <2>1. ASSUME NEW i \in DOMAIN Ring PROVE Ring[i] \in Range(keys)
    <3>1. (n - i) + 1 \in 1..n /\ Ring[i] = keys[(n - i) + 1]
      BY <1>1, <1>2, <1>3
    <3> QED BY <1>1, <3>1 DEF Range
  <2>2. ASSUME NEW i \in DOMAIN keys PROVE \E j \in DOMAIN Ring : Ring[j] = keys[i]
    <3>1. (n - i) + 1 \in 1..n /\ (n - ((n - i) + 1)) + 1 = i
      BY <1>1
    <3> QED BY <1>2, <1>3, <3>1
  <2> QED BY <2>1, <2>2 DEF Range
<1> QED BY <1>6, <1>7, <1>8 DEF Signed

\* The first part of a payload, the second and the rest
LEMMA Parts ==
    ASSUME NEW value, value \in Seq(Range(value)), NEW acr, NEW sid
    PROVE  /\ First(<<acr>> \o <<>> \o value) = acr
           /\ Rest(<<acr>> \o <<>> \o value) = value
           /\ First(<<acr>> \o <<sid>> \o value) = acr
           /\ First(Rest(<<acr>> \o <<sid>> \o value)) = sid
           /\ Rest(Rest(<<acr>> \o <<sid>> \o value)) = value
<1> DEFINE S == Range(value) \cup {acr, sid}
<1>1. value \in Seq(S)
  BY SeqMonotonic
<1>2. acr \in S /\ sid \in S
  OBVIOUS
<1> HIDE DEF S
<1>3. <<acr>> \o <<>> \o value = <<acr>> \o value /\ <<acr>> \in Seq(S) /\ <<sid>> \in Seq(S)
  BY <1>1, <1>2
<1>4. <<sid>> \o value \in Seq(S) /\ <<sid>> \o value # <<>> /\ Head(<<sid>> \o value) = sid /\ Tail(<<sid>> \o value) = value
  BY <1>1, <1>2
<1>5. <<acr>> \o value # <<>> /\ Head(<<acr>> \o value) = acr /\ Tail(<<acr>> \o value) = value
  BY <1>1, <1>2
<1>6. (<<acr>> \o <<sid>>) \o value = <<acr>> \o (<<sid>> \o value)
  BY <1>1, <1>3, ConcatAssociative
<1> DEFINE rest == <<sid>> \o value
<1>7. rest \in Seq(S) /\ rest # <<>> /\ Head(rest) = sid /\ Tail(rest) = value
  BY <1>4
<1>8. (<<acr>> \o <<sid>>) \o value = <<acr>> \o rest
  BY <1>6
<1> HIDE DEF rest
<1>9. <<acr>> \o rest # <<>> /\ Head(<<acr>> \o rest) = acr /\ Tail(<<acr>> \o rest) = rest
  BY <1>2, <1>7
<1> QED BY <1>3, <1>5, <1>7, <1>8, <1>9 DEF First, Rest

\* Two strings that end alike begin alike.
LEMMA SameBeginning ==
    ASSUME NEW S, NEW s \in Seq(S), NEW t \in Seq(S), NEW x \in S, NEW y \in S,
           s \o <<x>> = t \o <<y>>
    PROVE  s = t /\ x = y
<1>1. /\ s \o <<x>> \in Seq(S) /\ t \o <<y>> \in Seq(S)
      /\ Len(s \o <<x>>) = Len(s) + 1 /\ Len(t \o <<y>>) = Len(t) + 1
  OBVIOUS
<1>2. Len(s) = Len(t) /\ Len(s) \in Nat
  BY <1>1
<1>3. \A i \in 1..Len(s) : (s \o <<x>>)[i] = s[i] /\ (t \o <<y>>)[i] = t[i]
  BY <1>2
<1>4. (s \o <<x>>)[Len(s) + 1] = x /\ (t \o <<y>>)[Len(t) + 1] = y
  OBVIOUS
<1>5. \A i \in 1..Len(s) : s[i] = t[i]
  BY <1>3
<1> QED BY <1>2, <1>4, <1>5

\* One salt is of one name and of one layout, when the names are apart.
LEMMA SaltsApart ==
    ASSUME NamesApart, NEW m \in Names, NEW n \in Names, NEW a \in BOOLEAN, NEW b \in BOOLEAN,
           a => m = Session, b => n = Session, SaltOf(m, a) = SaltOf(n, b)
    PROVE  m = n /\ a = b
<1> DEFINE S == Range(m) \cup Range(n) \cup {"sid", "v2"}
           Ids(on) == IF on THEN <<"sid">> ELSE <<>>
<1>1. m \in Seq(S) /\ n \in Seq(S) /\ "sid" \in S /\ "v2" \in S
  BY NamesAssumption, SeqMonotonic
<1> HIDE DEF S
<1>2. m \o Ids(a) \in Seq(S) /\ n \o Ids(b) \in Seq(S)
  BY <1>1
<1>3. (m \o Ids(a)) \o <<"v2">> = (n \o Ids(b)) \o <<"v2">>
  BY DEF SaltOf
<1> DEFINE s == m \o Ids(a)
           t == n \o Ids(b)
<1>4. s \in Seq(S) /\ t \in Seq(S) /\ s \o <<"v2">> = t \o <<"v2">>
  BY <1>2, <1>3
<1> HIDE DEF s, t
<1>5. s = t
  <2> DEFINE x == "v2"
  <2>1. x \in S /\ s \in Seq(S) /\ t \in Seq(S) /\ s \o <<x>> = t \o <<x>>
    BY <1>1, <1>4
  <2> HIDE DEF x
  <2> QED BY <2>1, SameBeginning
<1>6. m \o Ids(a) = n \o Ids(b)
  BY <1>5 DEF s, t
<1>7. m \o <<>> = m /\ n \o <<>> = n
  BY <1>1
<1>8. CASE a /\ b
  BY <1>8
<1>9. CASE ~a /\ ~b
  BY <1>6, <1>7, <1>9
<1>10. CASE a /\ ~b
  BY <1>6, <1>7, <1>10 DEF NamesApart
<1>11. CASE ~a /\ b
  BY <1>6, <1>7, <1>11 DEF NamesApart
<1> QED BY <1>8, <1>9, <1>10, <1>11

\* No salt of this release is of an earlier one.
LEMMA Versioned ==
    ASSUME NEW c \in Earlier, NEW n \in Names, NEW on \in BOOLEAN
    PROVE  c.salt # SaltOf(n, on)
<1> DEFINE S == Range(n) \cup {"sid", "v2"}
           s == n \o (IF on THEN <<"sid">> ELSE <<>>)
<1>1. n \in Seq(S) /\ "sid" \in S /\ "v2" \in S
  BY NamesAssumption, SeqMonotonic
<1> HIDE DEF S
<1>2. s \in Seq(S)
  BY <1>1
<1>3. SaltOf(n, on) = s \o <<"v2">>
  BY DEF SaltOf
<1> HIDE DEF s
<1>4. Last(s \o <<"v2">>) = "v2"
  BY <1>1, <1>2 DEF Last
<1> QED BY <1>3, <1>4, EarlierAssumption

\* A cookie that a source verifies is its own, and is read as it was written.
LEMMA SignedReads ==
    ASSUME DeployOK, CookiesInv, NEW c \in issued, NEW n \in Names, Signed(c, n)
    PROVE  /\ c \notin Earlier /\ Written(c) /\ c.by.name = n
           /\ WithId(c) <=> layout[n]
           /\ LevelIn(c) = c.by.acr /\ SessionIdIn(c, n) = c.by.sid /\ ValueIn(c, n) = c.by.value
<1>1. c.salt = SaltOf(n, layout[n])
  BY RingFacts DEF Salt
<1>2. layout[n] \in BOOLEAN /\ (layout[n] => n = Session) /\ NamesApart
  BY DEF DeployOK
<1>3. c \notin Earlier
  BY <1>1, <1>2, Versioned
<1>4. Written(c)
  BY <1>3 DEF CookiesInv
<1>5. c.by.name = n /\ WithId(c) = layout[n]
  <2>1. /\ c.by.name \in Names /\ WithId(c) \in BOOLEAN /\ (WithId(c) => c.by.name = Session)
        /\ c.salt = SaltOf(c.by.name, WithId(c))
    BY <1>4 DEF Written, WithId
  <2> DEFINE m == c.by.name
             ids == WithId(c)
             on == layout[n]
  <2>2. m \in Names /\ ids \in BOOLEAN /\ on \in BOOLEAN /\ SaltOf(m, ids) = SaltOf(n, on)
        /\ (ids => m = Session) /\ (on => n = Session)
    BY <1>1, <1>2, <2>1
  <2> HIDE DEF m, ids, on
  <2>3. m = n /\ ids = on
    BY <1>2, <2>2, SaltsApart
  <2> QED BY <2>3 DEF m, ids, on
<1>6. c.by.value \in Seq(Range(c.by.value))
  BY <1>4, ValuesAssumption DEF Written
<1>8. c.parts = <<c.by.acr>> \o (IF layout[n] THEN <<c.by.sid>> ELSE <<>>) \o c.by.value
  BY <1>4, <1>5 DEF Written
<1>9. CASE layout[n]
  <2>1. c.parts = <<c.by.acr>> \o <<c.by.sid>> \o c.by.value
    BY <1>8, <1>9
  <2>2. First(c.parts) = c.by.acr /\ First(Rest(c.parts)) = c.by.sid /\ Rest(Rest(c.parts)) = c.by.value
    BY <1>6, <2>1, Parts
  <2> QED BY <1>3, <1>4, <1>5, <1>9, <2>2 DEF LevelIn, SessionIdIn, ValueIn, PlainIn
<1>10. CASE ~layout[n]
  <2>1. c.by.sid = Nothing
    BY <1>5, <1>10 DEF WithId
  <2>2. c.parts = <<c.by.acr>> \o <<>> \o c.by.value
    BY <1>8, <1>10
  <2>3. First(c.parts) = c.by.acr /\ Rest(c.parts) = c.by.value
    BY <1>6, <2>2, Parts
  <2> QED BY <1>3, <1>4, <1>5, <1>10, <2>1, <2>3 DEF LevelIn, SessionIdIn, ValueIn, PlainIn
<1> QED BY <1>9, <1>10
-----------------------------------------------------------------------------
(* The cookies and the rows                                                *)

\* A new cookie, of a new id or of none, and its row if it has one: of a login
\* of its own, or of one whose row it replaces.
LEMMA IssueEffect ==
    ASSUME DeployOK, CookiesInv, RowsInv, UNCHANGED <<deployVars, signedOut, now>>,
           NEW n \in Names, NEW value \in Values, NEW acr, NEW sid \in NewIds(n), NEW login,
           Issue(n, value, acr, sid, login),
           NEW others \in SUBSET sessions, NEW rows \in SUBSET Rows, sessions' = others \cup rows,
           IF layout[n] THEN login \in SessionIds ELSE login = Nothing,
           \A row \in rows : row.sid = sid /\ row.login = login,
           \A row, other \in rows : row = other,
           rows # {} => /\ layout[n] /\ login \notin signedOut /\ login \in Drawn \cup {sid}
                        /\ \A row \in others : row.login # login
    PROVE  CookiesInv' /\ RowsInv' /\ issued \subseteq issued'
<1> DEFINE c == Cookie(n, value, acr, sid, login)
<1>1. UNCHANGED <<keys, rotatedAt, layout, signedOut, now>>
  BY DEF deployVars
<1>2. issued' = issued \cup {c}
  BY DEF Issue
<1>3. /\ c.salt = SaltOf(n, layout[n]) /\ c.key = Head(keys) /\ c.at = now
      /\ c.parts = <<acr>> \o (IF layout[n] THEN <<sid>> ELSE <<>>) \o value
      /\ c.by.name = n /\ c.by.acr = acr /\ c.by.sid = sid /\ c.by.value = value /\ c.by.login = login
  BY RingFacts DEF Cookie, Salt
<1>4. layout[n] \in BOOLEAN /\ (layout[n] => n = Session) /\ now \in 0..MaxClock /\ now \in Nat
  BY TtlAssumption DEF DeployOK
<1>5. IF layout[n] THEN sid \in SessionIds /\ sid \notin Drawn ELSE sid = Nothing
  BY DEF NewIds
<1>6. Nothing \notin SessionIds
  BY NamesAssumption
<1> HIDE DEF c
<1>7. WithId(c) = layout[n]
  BY <1>3, <1>4, <1>5, <1>6 DEF WithId
<1>8. Written(c)
  <2>1. {c.by.sid, c.by.login} \subseteq IF WithId(c) THEN SessionIds ELSE {Nothing}
    BY <1>3, <1>5, <1>7
  <2>2. c.key \in Range(KeyOrder)
    BY <1>3, RingFacts
  <2> QED BY <1>3, <1>4, <1>7, <2>1, <2>2 DEF Written
<1>9. Verifiable(c)
  BY <1>3, RingFacts DEF Verifiable
<1>10. CookiesInv'
  <2>1. \A d \in issued \cup {c} : d \in Earlier \/ (Written(d) /\ Verifiable(d))
    BY <1>8, <1>9 DEF CookiesInv
  <2>2. ASSUME NEW d, Written(d), Verifiable(d) PROVE Written(d)' /\ Verifiable(d)'
    BY <1>1, <2>2 DEF Written, Verifiable
  <2> QED BY <1>2, <2>1, <2>2 DEF CookiesInv
<1>11. Drawn' = Drawn \cup {sid}
  BY <1>2, <1>3 DEF Drawn
<1>12. \A row \in others : row \in sessions /\ row.sid \in Drawn /\ row.sid \in SessionIds
  BY DEF RowsInv, Rows
<1>13. \A d \in issued : d.by.sid \in Drawn
  BY DEF Drawn
<1>14. \A row \in sessions' : {row.sid, row.login} \subseteq Drawn' /\ row.login \notin signedOut'
  BY <1>1, <1>11 DEF RowsInv
<1>15. \A row, other \in sessions' : row.login = other.login => row = other
  BY DEF RowsInv
<1>16. \A row \in sessions' : \A d \in issued' : d.by.sid = row.sid => d.by.login = row.login
  <2>1. \A row \in others : c.by.sid # row.sid
    BY <1>3, <1>5, <1>6, <1>12
  <2>2. ASSUME NEW row \in rows, NEW d \in issued PROVE d.by.sid # row.sid
    BY <1>5, <1>13
  <2> QED BY <1>2, <1>3, <2>1, <2>2 DEF RowsInv
<1>17. sessions' \subseteq Rows /\ signedOut' \subseteq SessionIds \cap Drawn'
  BY <1>1, <1>11 DEF RowsInv
<1>18. RowsInv'
  BY <1>14, <1>15, <1>16, <1>17 DEF RowsInv
<1> QED BY <1>2, <1>10, <1>18

\* The rows of a login that is signed out are gone.
LEMMA SignOutEffect ==
    ASSUME RowsInv, UNCHANGED issued, NEW gone \in SUBSET sessions, sessions' = sessions \ gone,
           signedOut' = signedOut \cup {row.login : row \in gone}
    PROVE  RowsInv'
<1>1. Drawn' = Drawn
  BY DEF Drawn
<1>2. \A row \in sessions' : row.login \notin signedOut'
  BY DEF RowsInv
<1>3. signedOut' \subseteq SessionIds \cap Drawn
  BY DEF RowsInv, Rows
<1> QED BY <1>1, <1>2, <1>3 DEF RowsInv

LEMMA CookiesKept ==
    ASSUME CookiesInv, UNCHANGED <<issued, keys, rotatedAt, now>>
    PROVE  CookiesInv'
BY DEF CookiesInv, Written, Verifiable

LEMMA RowsKept ==
    ASSUME RowsInv, UNCHANGED storeVars
    PROVE  RowsInv'
BY DEF RowsInv, Drawn, storeVars
-----------------------------------------------------------------------------
(* The requests                                                            *)

\* What a step of another actor leaves of a request
Same(r) ==
    /\ pc'[r] = pc[r] /\ call'[r] = call[r] /\ jar'[r] = jar[r]
    /\ step'[r] = step[r] /\ opened'[r] = opened[r] /\ records'[r] = records[r]

LEMMA SameRing == UNCHANGED keys => UNCHANGED Ring
BY DEF Ring

LEMMA SameKeeps ==
    ASSUME NEW r \in Requests, RequestInv(r), Same(r), issued \subseteq issued', UNCHANGED <<keys, layout>>
    PROVE  RequestInv(r)'
<1>1. Guard(r)' = Guard(r)
  BY DEF Same, Guard
<1>2. Accepted(r)' = Accepted(r)
  BY <1>1 DEF Accepted, Same
<1>3. Passed(r)' <=> Passed(r)
  BY DEF Passed, Same
<1>4. ASSUME NEW n \in Accepted(r) PROVE (jar[r][n] # Nothing /\ Signed(jar[r][n], n))'
  <2>1. jar[r][n] # Nothing /\ Signed(jar[r][n], n)
    BY DEF RequestInv
  <2> QED BY <2>1, SameRing DEF Signed, Salt, Same
<1>5. (\A n \in Accepted(r) : jar[r][n] # Nothing /\ Signed(jar[r][n], n))'
  BY <1>2, <1>4
<1>6. jar'[r] \in [Names -> issued' \cup {Nothing}]
  BY DEF RequestInv, Same
<1> QED BY <1>1, <1>3, <1>5, <1>6 DEF RequestInv, Same

LEMMA SameRequests ==
    ASSUME RequestsInv, UNCHANGED requestVars, issued \subseteq issued', UNCHANGED <<keys, layout>>
    PROVE  RequestsInv'
<1>1. UNCHANGED <<pc, call, jar, step, opened, records>>
  BY DEF requestVars
<1>2. \A r \in Requests : Same(r)
  BY <1>1 DEF Same
<1>3. \A r \in Requests : RequestInv(r)'
  BY <1>2, SameKeeps DEF RequestsInv
<1> QED BY <1>1, <1>3 DEF RequestsInv

\* A step of one request
LEMMA OneMoves ==
    ASSUME RequestsInv, NEW r \in Requests, issued \subseteq issued', UNCHANGED <<keys, layout>>,
           NEW place \in Places, NEW c, c \in Calls[r] \cup {Nothing},
           NEW cookies \in [Names -> issued \cup {Nothing}],
           NEW i \in Nat \ {0}, NEW open \in Names \cup {Nothing}, NEW passed \in SUBSET Names,
           pc' = [pc EXCEPT ![r] = place], call' = [call EXCEPT ![r] = c],
           jar' = [jar EXCEPT ![r] = cookies], step' = [step EXCEPT ![r] = i],
           opened' = [opened EXCEPT ![r] = open], records' = [records EXCEPT ![r] = passed],
           place = "idle" => c = Nothing /\ passed = {} /\ i = 1,
           place # "idle" =>
               /\ c \in Calls[r] /\ i \in 1..Len(c.guards)
               /\ \A k \in DOMAIN c.guards :
                     k < i \/ place = "handling" => c.guards[k].name \in passed,
           place = "validating" => open = c.guards[i].name,
           \A n \in passed \cup (IF place = "validating" THEN {c.guards[i].name} ELSE {}) :
               cookies[n] # Nothing /\ Signed(cookies[n], n)
    PROVE  RequestsInv'
<1>0. call' \in [Requests -> AnyCall]
  <2>1. Calls[r] \in {Calls[q] : q \in Requests}
    OBVIOUS
  <2>2. Calls[r] \subseteq AnyCall /\ Nothing \in AnyCall
    BY <2>1 DEF AnyCall
  <2> QED BY <2>2 DEF RequestsInv
<1>1. /\ pc' \in [Requests -> Places]
      /\ step' \in [Requests -> Nat \ {0}]
      /\ opened' \in [Requests -> Names \cup {Nothing}]
      /\ records' \in [Requests -> SUBSET Names]
  BY DEF RequestsInv
<1>2. jar' \in [Requests -> [Names -> issued' \cup {Nothing}]]
  BY DEF RequestsInv
<1>3. ASSUME NEW q \in Requests, q # r PROVE RequestInv(q)'
  <2>1. Same(q)
    BY <1>3 DEF Same, RequestsInv
  <2> QED BY <2>1, SameKeeps DEF RequestsInv
<1>4. /\ pc'[r] = place /\ call'[r] = c /\ jar'[r] = cookies
      /\ step'[r] = i /\ opened'[r] = open /\ records'[r] = passed
  BY DEF RequestsInv
<1>5. Accepted(r)' = passed \cup (IF place = "validating" THEN {c.guards[i].name} ELSE {})
  BY <1>4 DEF Accepted, Guard
<1>6. (\A n \in Accepted(r) : jar[r][n] # Nothing /\ Signed(jar[r][n], n))'
  BY <1>4, <1>5, SameRing DEF Signed, Salt
<1>7. RequestInv(r)'
  <2>1. jar'[r] \in [Names -> issued' \cup {Nothing}]
    BY <1>4
  <2>2. place # "idle" => Passed(r)'
    BY <1>4 DEF Passed
  <2> QED BY <1>4, <1>6, <2>1, <2>2 DEF RequestInv, Guard
<1>8. \A q \in Requests : RequestInv(q)'
  BY <1>3, <1>7
<1> QED BY <1>0, <1>1, <1>2, <1>8 DEF RequestsInv

\* A request is answered, or refused.
LEMMA AnswerEffect ==
    ASSUME RequestsInv, NEW r \in Requests, Answer(r), issued \subseteq issued', UNCHANGED <<keys, layout>>
    PROVE  RequestsInv'
<1> DEFINE cookies == [n \in Names |-> Nothing]
           passed == {}
<1>1. cookies \in [Names -> issued \cup {Nothing}] /\ passed \in SUBSET Names /\ \A n \in passed : FALSE
  OBVIOUS
<1>2. /\ pc' = [pc EXCEPT ![r] = "idle"] /\ call' = [call EXCEPT ![r] = Nothing]
      /\ jar' = [jar EXCEPT ![r] = cookies] /\ step' = [step EXCEPT ![r] = 1]
      /\ opened' = [opened EXCEPT ![r] = Nothing] /\ records' = [records EXCEPT ![r] = passed]
  BY DEF Answer
<1>3. passed = {} /\ "idle" \in Places /\ 1 \in Nat \ {0} /\ Nothing \in Names \cup {Nothing}
  BY DEF Places
<1> HIDE DEF cookies, passed
<1> QED BY <1>1, <1>2, <1>3, OneMoves

LEMMA ArriveEffect ==
    ASSUME RequestsInv, NEW r \in Requests, Arrive(r)
    PROVE  RequestsInv'
<1>1. PICK c \in Calls[r], cookies \in [Names -> issued \cup {Nothing}] :
          /\ call' = [call EXCEPT ![r] = c]
          /\ jar' = [jar EXCEPT ![r] = cookies]
          /\ pc' = [pc EXCEPT ![r] = "opening"]
  BY DEF Arrive
<1>2. pc[r] = "idle" /\ UNCHANGED <<deployVars, storeVars, step, opened, records, now>>
  BY DEF Arrive
<1>3. step[r] = 1 /\ records[r] = {} /\ opened[r] \in Names \cup {Nothing}
  BY <1>2 DEF RequestsInv, RequestInv
<1>4. /\ step' = [step EXCEPT ![r] = 1] /\ opened' = [opened EXCEPT ![r] = opened[r]]
      /\ records' = [records EXCEPT ![r] = records[r]]
  BY <1>2, <1>3 DEF RequestsInv
<1>5. c.guards \in Seq(Guards) /\ c.guards # <<>>
  BY CallsAssumption
<1>6. 1 \in 1..Len(c.guards) /\ DOMAIN c.guards = 1..Len(c.guards)
  BY <1>5
<1>7. issued \subseteq issued' /\ UNCHANGED <<keys, layout>>
  BY <1>2 DEF storeVars, deployVars
<1>8. "opening" \in Places /\ 1 \in Nat \ {0} /\ records[r] \in SUBSET Names
  BY <1>3 DEF Places
<1>9. \A k \in DOMAIN c.guards : k < 1 \/ "opening" = "handling" => c.guards[k].name \in records[r]
  BY <1>6
<1>10. \A n \in records[r] \cup (IF "opening" = "validating" THEN {c.guards[1].name} ELSE {}) :
           cookies[n] # Nothing /\ Signed(cookies[n], n)
  BY <1>3
<1> QED BY <1>1, <1>3, <1>4, <1>6, <1>7, <1>8, <1>9, <1>10, OneMoves

\* A request under way: its route, its dependency and what it passed.
LEMMA UnderWay ==
    ASSUME RequestsInv, NEW r \in Requests, pc[r] # "idle"
    PROVE  /\ call[r] \in Calls[r] /\ step[r] \in 1..Len(call[r].guards)
           /\ call[r].guards \in Seq(Guards) /\ Len(call[r].guards) \in Nat
           /\ DOMAIN call[r].guards = 1..Len(call[r].guards)
           /\ Guard(r) \in Guards /\ Guard(r).name \in Names
           /\ Passed(r) /\ jar[r] \in [Names -> issued \cup {Nothing}]
           /\ \A n \in Accepted(r) : n \in Names /\ jar[r][n] \in issued /\ Signed(jar[r][n], n)
<1>1. call[r] \in Calls[r] /\ step[r] \in 1..Len(call[r].guards) /\ Passed(r)
  BY DEF RequestsInv, RequestInv
<1>2. call[r].guards \in Seq(Guards)
  BY <1>1, CallsAssumption
<1>3. Len(call[r].guards) \in Nat /\ DOMAIN call[r].guards = 1..Len(call[r].guards)
  BY <1>2
<1>4. Guard(r) \in Guards
  BY <1>1, <1>2 DEF Guard
<1>5. Guard(r).name \in Names
  BY <1>4 DEF Guards
<1>6. jar[r] \in [Names -> issued \cup {Nothing}] /\ records[r] \subseteq Names
  BY DEF RequestsInv, RequestInv
<1>7. ASSUME NEW n \in Accepted(r) PROVE n \in Names /\ jar[r][n] \in issued /\ Signed(jar[r][n], n)
  <2>1. n \in Names
    BY <1>5, <1>6 DEF Accepted
  <2>2. jar[r][n] # Nothing /\ Signed(jar[r][n], n)
    BY DEF RequestsInv, RequestInv
  <2> QED BY <1>6, <2>1, <2>2
<1> QED BY <1>1, <1>2, <1>3, <1>4, <1>5, <1>6, <1>7

LEMMA OpenEffect ==
    ASSUME RequestsInv, NEW r \in Requests, Open(r)
    PROVE  RequestsInv'
<1>1. /\ pc[r] = "opening" /\ UNCHANGED <<deployVars, storeVars, now>>
      /\ issued \subseteq issued' /\ UNCHANGED <<keys, layout>>
  BY DEF Open, deployVars, storeVars
<1>2. CASE Refuse(r)
  BY <1>1, <1>2, AnswerEffect DEF Refuse
<1> DEFINE n == Guard(r).name
<1>3. CASE /\ jar[r][n] # Nothing /\ Signed(jar[r][n], n)
           /\ opened' = [opened EXCEPT ![r] = n]
           /\ pc' = [pc EXCEPT ![r] = "validating"]
           /\ UNCHANGED <<call, jar, step, records>>
  <2>1. /\ call' = [call EXCEPT ![r] = call[r]] /\ jar' = [jar EXCEPT ![r] = jar[r]]
        /\ step' = [step EXCEPT ![r] = step[r]] /\ records' = [records EXCEPT ![r] = records[r]]
    BY <1>3 DEF RequestsInv
  <2>2. /\ call[r] \in Calls[r] /\ step[r] \in 1..Len(call[r].guards) /\ n \in Names
        /\ jar[r] \in [Names -> issued \cup {Nothing}] /\ Passed(r)
        /\ n = call[r].guards[step[r]].name
    BY <1>1, UnderWay DEF Guard
  <2>3. records[r] \in SUBSET Names /\ step[r] \in Nat \ {0} /\ "validating" \in Places
    BY DEF RequestsInv, Places
  <2>4. \A k \in DOMAIN call[r].guards : k < step[r] \/ "validating" = "handling" => call[r].guards[k].name \in records[r]
    BY <2>2 DEF Passed
  <2>5. \A m \in records[r] : jar[r][m] # Nothing /\ Signed(jar[r][m], m)
    BY DEF RequestsInv, RequestInv, Accepted
  <2> HIDE DEF n
  <2>6. \A m \in records[r] \cup (IF "validating" = "validating" THEN {call[r].guards[step[r]].name} ELSE {}) :
            jar[r][m] # Nothing /\ Signed(jar[r][m], m)
    BY <1>3, <2>2, <2>5
  <2> DEFINE place == "validating"
  <2>7. /\ place \in Places /\ pc' = [pc EXCEPT ![r] = place] /\ opened' = [opened EXCEPT ![r] = n]
        /\ n \in Names \cup {Nothing} /\ place # "idle"
        /\ place = "validating" => n = call[r].guards[step[r]].name
        /\ \A k \in DOMAIN call[r].guards : k < step[r] \/ place = "handling" => call[r].guards[k].name \in records[r]
        /\ \A m \in records[r] \cup (IF place = "validating" THEN {call[r].guards[step[r]].name} ELSE {}) :
              jar[r][m] # Nothing /\ Signed(jar[r][m], m)
    BY <1>3, <2>2, <2>3, <2>4, <2>6
  <2> HIDE DEF place
  <2> QED BY <1>1, <2>1, <2>2, <2>3, <2>7, OneMoves
<1> QED BY <1>2, <1>3 DEF Open

LEMMA ValidateEffect ==
    ASSUME RequestsInv, NEW r \in Requests, Validate(r)
    PROVE  RequestsInv'
<1>1. /\ pc[r] = "validating" /\ UNCHANGED <<deployVars, storeVars, now>>
      /\ issued \subseteq issued' /\ UNCHANGED <<keys, layout>>
  BY DEF Validate, deployVars, storeVars
<1>2. CASE Refuse(r)
  BY <1>1, <1>2, AnswerEffect DEF Refuse
<1> DEFINE n == Guard(r).name
           passed == records[r] \cup {n}
<1>3. CASE /\ records' = [records EXCEPT ![r] = @ \cup {n}]
           /\ IF step[r] < Len(call[r].guards)
              THEN /\ step' = [step EXCEPT ![r] = @ + 1]
                   /\ pc' = [pc EXCEPT ![r] = "opening"]
              ELSE /\ pc' = [pc EXCEPT ![r] = "handling"]
                   /\ UNCHANGED step
           /\ UNCHANGED <<call, jar, opened>>
  <2>1. /\ call' = [call EXCEPT ![r] = call[r]] /\ jar' = [jar EXCEPT ![r] = jar[r]]
        /\ opened' = [opened EXCEPT ![r] = opened[r]]
        /\ records' = [records EXCEPT ![r] = passed]
    BY <1>3 DEF RequestsInv
  <2>2. /\ call[r] \in Calls[r] /\ step[r] \in 1..Len(call[r].guards) /\ Len(call[r].guards) \in Nat
        /\ DOMAIN call[r].guards = 1..Len(call[r].guards)
        /\ n \in Names /\ jar[r] \in [Names -> issued \cup {Nothing}] /\ Passed(r)
        /\ n = call[r].guards[step[r]].name
    BY <1>1, UnderWay DEF Guard
  <2>3. opened[r] \in Names \cup {Nothing} /\ passed \in SUBSET Names /\ step[r] \in Nat \ {0}
    BY <2>2 DEF RequestsInv
  <2>4. \A m \in passed : jar[r][m] # Nothing /\ Signed(jar[r][m], m)
    BY <1>1 DEF RequestsInv, RequestInv, Accepted
  <2>5. \A k \in DOMAIN call[r].guards : k < step[r] + 1 => call[r].guards[k].name \in passed
    BY <2>2 DEF Passed
  <2> HIDE DEF passed, n
  <2>6. CASE step[r] < Len(call[r].guards)
    <3>1. step' = [step EXCEPT ![r] = step[r] + 1] /\ pc' = [pc EXCEPT ![r] = "opening"]
      BY <1>3, <2>6
    <3>2. step[r] + 1 \in 1..Len(call[r].guards) /\ step[r] + 1 \in Nat \ {0} /\ "opening" \in Places
      BY <2>2, <2>3, <2>6 DEF Places
    <3>3. \A k \in DOMAIN call[r].guards : k < step[r] + 1 \/ "opening" = "handling" => call[r].guards[k].name \in passed
      BY <2>5
    <3>4. \A m \in passed \cup (IF "opening" = "validating" THEN {call[r].guards[step[r] + 1].name} ELSE {}) :
              jar[r][m] # Nothing /\ Signed(jar[r][m], m)
      BY <2>4
    <3> DEFINE i == step[r] + 1
    <3>5. /\ step' = [step EXCEPT ![r] = i] /\ i \in 1..Len(call[r].guards) /\ i \in Nat \ {0}
          /\ \A k \in DOMAIN call[r].guards : k < i \/ "opening" = "handling" => call[r].guards[k].name \in passed
          /\ \A m \in passed \cup (IF "opening" = "validating" THEN {call[r].guards[i].name} ELSE {}) :
                jar[r][m] # Nothing /\ Signed(jar[r][m], m)
      BY <3>1, <3>2, <3>3, <3>4
    <3> HIDE DEF i
    <3> QED BY <1>1, <2>1, <2>2, <2>3, <3>1, <3>2, <3>5, OneMoves
  <2>7. CASE ~(step[r] < Len(call[r].guards))
    <3>1. step' = [step EXCEPT ![r] = step[r]] /\ pc' = [pc EXCEPT ![r] = "handling"] /\ "handling" \in Places
      BY <1>3, <2>7 DEF RequestsInv, Places
    <3>2. \A k \in DOMAIN call[r].guards : k < step[r] \/ "handling" = "handling" => call[r].guards[k].name \in passed
      BY <2>2, <2>5, <2>7
    <3>3. \A m \in passed \cup (IF "handling" = "validating" THEN {call[r].guards[step[r]].name} ELSE {}) :
              jar[r][m] # Nothing /\ Signed(jar[r][m], m)
      BY <2>4
    <3> QED BY <1>1, <2>1, <2>2, <2>3, <3>1, <3>2, <3>3, OneMoves
  <2> QED BY <2>6, <2>7
<1> QED BY <1>2, <1>3 DEF Validate
-----------------------------------------------------------------------------
(* The invariant                                                           *)

\* A handler that reads the session has its cookie, verified and as written.
LEMMA SessionCarried ==
    ASSUME DeployOK, CookiesInv, RequestsInv, NEW r \in Requests,
           Handling(r, "step_up") \/ Handling(r, "revoke_others")
    PROVE  /\ jar[r][Session] \in issued /\ Signed(jar[r][Session], Session)
           /\ User(r) \in Values
           /\ WithId(jar[r][Session]) <=> layout[Session]
           /\ SessionIdOf(r) \in {jar[r][Session].by.sid, Nothing}
           /\ Written(jar[r][Session])
<1>1. pc[r] = "handling" /\ call[r].handler \in {"step_up", "revoke_others"}
  BY DEF Handling
<1>2. call[r] \in Calls[r] /\ Passed(r)
  BY <1>1, UnderWay
<1>3. PICK i \in DOMAIN call[r].guards : call[r].guards[i].name = Session
  BY <1>1, <1>2, CallsAssumption
<1>4. Session \in Accepted(r)
  BY <1>1, <1>2, <1>3 DEF Passed, Accepted
<1>5. jar[r][Session] \in issued /\ Signed(jar[r][Session], Session)
  BY <1>1, <1>4, UnderWay
<1>6. /\ Written(jar[r][Session]) /\ ValueIn(jar[r][Session], Session) = jar[r][Session].by.value
      /\ WithId(jar[r][Session]) <=> layout[Session]
      /\ SessionIdIn(jar[r][Session], Session) = jar[r][Session].by.sid
  BY <1>5, NamesAssumption, SignedReads
<1>7. SessionIdOf(r) \in {jar[r][Session].by.sid, Nothing}
  BY <1>6 DEF SessionIdOf, VerifiedId
<1>8. User(r) \in Values
  BY <1>6 DEF User, Written
<1> QED BY <1>5, <1>6, <1>7, <1>8

LEMMA LoginEffect ==
    ASSUME DeployOK, CookiesInv, RowsInv, Login
    PROVE  CookiesInv' /\ RowsInv' /\ issued \subseteq issued'
<1>1. PICK login \in Logins, value \in Values : \E sid \in NewIds(login[1]) :
          /\ Issue(login[1], value, login[2], sid, sid)
          /\ sessions' = sessions \cup NewRow(login[1], value, sid)
  BY DEF Login
<1>2. PICK sid \in NewIds(login[1]) :
          /\ Issue(login[1], value, login[2], sid, sid)
          /\ sessions' = sessions \cup NewRow(login[1], value, sid)
  BY <1>1
<1> DEFINE n == login[1]
           acr == login[2]
           others == sessions
           rows == NewRow(n, value, sid)
<1>3. n \in Names
  BY LevelsAssumption
<1>4. others \in SUBSET sessions /\ UNCHANGED <<deployVars, signedOut, now>>
  BY DEF Login
<1>5. Issue(n, value, acr, sid, sid) /\ sid \in NewIds(n) /\ sessions' = others \cup rows
  BY <1>2
<1>6. \A row \in others : row.login \in Drawn
  BY DEF RowsInv
<1>7. rows = IF n = Session /\ layout[n] THEN {[sid |-> sid, user |-> value, login |-> sid]} ELSE {}
  BY DEF NewRow
<1>8. layout[n] \in BOOLEAN
  BY <1>3 DEF DeployOK
<1> HIDE DEF n, acr, others, rows
<1>9. IF layout[n] THEN sid \in SessionIds /\ sid \notin Drawn ELSE sid = Nothing
  BY <1>5 DEF NewIds
<1>10. rows \in SUBSET Rows
  BY <1>7, <1>9 DEF Rows
<1>11. /\ \A row \in rows : row.sid = sid /\ row.login = sid
       /\ \A row, other \in rows : row = other
  BY <1>7
<1>12. rows # {} => /\ layout[n] /\ sid \notin signedOut /\ sid \in Drawn \cup {sid}
                    /\ \A row \in others : row.login # sid
  BY <1>6, <1>7, <1>9 DEF RowsInv
<1>13. IF layout[n] THEN sid \in SessionIds ELSE sid = Nothing
  BY <1>9
<1> QED BY <1>3, <1>4, <1>5, <1>10, <1>11, <1>12, <1>13, IssueEffect

LEMMA StepUpEffect ==
    ASSUME IInv, NEW r \in Requests, StepUp(r)
    PROVE  IInv'
<1> DEFINE c == jar[r][Session]
<1>1. /\ User(r) \in Values /\ Session \in Names
      /\ c \in issued /\ (WithId(c) <=> layout[Session]) /\ Written(c)
      /\ SessionIdOf(r) \in {c.by.sid, Nothing}
      /\ DeployOK /\ CookiesInv /\ RowsInv /\ RequestsInv
  BY SessionCarried, NamesAssumption DEF IInv, StepUp
<1>2. UNCHANGED <<deployVars, signedOut, now>> /\ UNCHANGED <<keys, rotatedAt, layout>> /\ Answer(r)
  BY DEF StepUp, deployVars
<1>3. PICK new \in NewIds(Session) :
          /\ Issue(Session, User(r), Strong, new, c.by.login)
          /\ sessions' = Moved(r, new)
  BY DEF StepUp
<1> DEFINE value == User(r)
           n == Session
           login == c.by.login
           own == OwnRows(SessionIdOf(r))
           others == sessions \ own
           rows == {[row EXCEPT !.sid = new] : row \in own}
<1>4. IF layout[n] THEN login \in SessionIds ELSE login = Nothing
  BY <1>1 DEF Written
<1>5. \A row \in own : row \in sessions /\ row \in Rows /\ row.sid = SessionIdOf(r)
  BY <1>1 DEF OwnRows, RowsInv
<1>6. \A row \in own : row.sid = c.by.sid /\ row.login = login
  <2>1. \A row \in own : row.sid # Nothing
    BY <1>5, NamesAssumption DEF Rows
  <2> QED BY <1>1, <1>5, <2>1 DEF RowsInv
<1>7. \A row, other \in own : row = other
  BY <1>1, <1>5, <1>6 DEF RowsInv
<1>8. own # {} => layout[n] /\ new \in SessionIds
  <2>1. \A row \in own : c.by.sid # Nothing
    BY <1>5, <1>6, NamesAssumption DEF Rows
  <2>2. own # {} => layout[n]
    BY <1>1, <2>1 DEF WithId
  <2> QED BY <2>2 DEF NewIds
<1>9. /\ others \in SUBSET sessions /\ sessions' = others \cup rows
      /\ Issue(n, value, Strong, new, login) /\ new \in NewIds(n) /\ value \in Values /\ n \in Names
  BY <1>1, <1>3 DEF Moved
<1>10. \A row \in own :
          /\ [row EXCEPT !.sid = new] \in Rows
          /\ [row EXCEPT !.sid = new].sid = new /\ [row EXCEPT !.sid = new].login = row.login
  BY <1>5, <1>8 DEF Rows
<1>11. others = sessions \ own
  OBVIOUS
<1>12. rows = {[row EXCEPT !.sid = new] : row \in own}
  OBVIOUS
<1> HIDE DEF c, value, n, login, own, others, rows
<1>13. rows \in SUBSET Rows /\ \A row \in rows : row.sid = new /\ row.login = login
  BY <1>6, <1>10, <1>12
<1>14. \A row, other \in rows : row = other
  BY <1>7, <1>12
<1>15. rows # {} => /\ layout[n] /\ login \notin signedOut /\ login \in Drawn \cup {new}
                    /\ \A row \in others : row.login # login
  <2>1. rows # {} => \E row \in own : TRUE
    BY <1>12
  <2>2. ASSUME NEW row \in own
        PROVE  login \notin signedOut /\ login \in Drawn /\ \A other \in others : other.login # login
    BY <1>1, <1>5, <1>6, <1>11 DEF RowsInv
  <2> QED BY <1>8, <2>1, <2>2
<1>16. CookiesInv' /\ RowsInv' /\ issued \subseteq issued'
  <2>1. DeployOK /\ CookiesInv /\ RowsInv /\ UNCHANGED <<deployVars, signedOut, now>>
    BY <1>1, <1>2
  <2> QED BY <1>4, <1>9, <1>13, <1>14, <1>15, <2>1, IssueEffect
<1>17. RequestsInv'
  BY <1>1, <1>2, <1>16, AnswerEffect
<1>18. DeployOK'
  BY <1>1, <1>2 DEF DeployOK, NamesApart
<1> QED BY <1>16, <1>17, <1>18 DEF IInv

LEMMA RevokeOthersEffect ==
    ASSUME IInv, NEW r \in Requests, RevokeOthers(r)
    PROVE  IInv'
<1>1. UNCHANGED <<keys, rotatedAt, layout, issued, now>>
  BY DEF RevokeOthers, deployVars
<1> DEFINE gone == Others(r)
<1>2. gone \in SUBSET sessions
  BY DEF Others
<1>3. sessions' = sessions \ gone /\ signedOut' = signedOut \cup {row.login : row \in gone}
  BY DEF RevokeOthers
<1> HIDE DEF gone
<1>4. RowsInv'
  BY <1>1, <1>2, <1>3, SignOutEffect DEF IInv
<1>5. RequestsInv'
  BY <1>1, AnswerEffect DEF IInv, RevokeOthers
<1>6. DeployOK'
  BY <1>1 DEF IInv, DeployOK, NamesApart
<1>7. CookiesInv'
  BY <1>1, CookiesKept DEF IInv
<1> QED BY <1>4, <1>5, <1>6, <1>7 DEF IInv

LEMMA LogoutEffect ==
    ASSUME IInv, Logout
    PROVE  IInv'
<1>1. UNCHANGED <<keys, rotatedAt, layout, issued, now, requestVars>>
  BY DEF Logout, deployVars
<1>2. PICK c \in issued :
          /\ sessions' = sessions \ OwnRows(VerifiedId(c))
          /\ signedOut' = signedOut \cup {row.login : row \in OwnRows(VerifiedId(c))}
  BY DEF Logout
<1> DEFINE gone == OwnRows(VerifiedId(c))
<1>3. gone \in SUBSET sessions
  BY DEF OwnRows
<1>4. sessions' = sessions \ gone /\ signedOut' = signedOut \cup {row.login : row \in gone}
  BY <1>2
<1> HIDE DEF gone
<1>5. RowsInv'
  BY <1>1, <1>3, <1>4, SignOutEffect DEF IInv
<1>6. RequestsInv'
  BY <1>1, SameRequests DEF IInv
<1>7. DeployOK'
  BY <1>1 DEF IInv, DeployOK, NamesApart
<1>8. CookiesInv'
  BY <1>1, CookiesKept DEF IInv
<1> QED BY <1>5, <1>6, <1>7, <1>8 DEF IInv

\* A second key comes in front of the only one.
LEMMA InFront ==
    ASSUME NEW S, NEW k \in S, NEW ring \in Seq(S), Len(ring) = 1
    PROVE  <<k>> \o ring \in Seq(S) /\ Len(<<k>> \o ring) = 2 /\ (<<k>> \o ring)[2] = ring[1]
<1>1. Len(<<k>>) = 1 /\ <<k>> \in Seq(S)
  OBVIOUS
<1>2. Len(<<k>> \o ring) = 2 /\ <<k>> \o ring \in Seq(S)
  BY <1>1
<1>3. (<<k>> \o ring)[2] = ring[1]
  BY <1>1, ConcatProperties
<1> QED BY <1>2, <1>3

\* A deployment finds no request under way.
LEMMA DrainedRequests ==
    ASSUME RequestsInv, Drained, UNCHANGED requestVars, UNCHANGED issued
    PROVE  RequestsInv'
<1>1. UNCHANGED <<pc, call, jar, step, opened, records>>
  BY DEF requestVars
<1>2. ASSUME NEW r \in Requests PROVE RequestInv(r)'
  <2>1. pc[r] = "idle" /\ records[r] = {} /\ RequestInv(r)
    BY DEF Drained, RequestsInv, RequestInv
  <2>2. Accepted(r)' = {}
    BY <1>1, <2>1 DEF Accepted
  <2> QED BY <1>1, <2>1, <2>2 DEF RequestInv
<1> QED BY <1>1, <1>2 DEF RequestsInv

LEMMA DeploymentEffect ==
    ASSUME IInv, AddKey \/ RemoveKey \/ TurnSessionIds
    PROVE  IInv'
<1>1. Drained /\ UNCHANGED <<storeVars, requestVars, issued, now>>
  BY DEF AddKey, RemoveKey, TurnSessionIds, storeVars
<1>2. RequestsInv' /\ RowsInv'
  BY <1>1, DrainedRequests, RowsKept DEF IInv
<1>3. ASSUME DeployOK', \A c \in issued : Verifiable(c) => Verifiable(c)'
      PROVE  IInv'
  <2>1. CookiesInv'
    BY <1>1, <1>3 DEF IInv, CookiesInv, Written
  <2> QED BY <1>2, <1>3, <2>1 DEF IInv
<1>4. /\ keys \in Seq(Range(KeyOrder)) /\ keys # <<>> /\ Len(keys) \in Nat /\ DOMAIN keys = 1..Len(keys)
      /\ Head(keys) = keys[1] /\ Head(keys) \in Range(KeyOrder)
      /\ now \in 0..MaxClock /\ rotatedAt \in 0..now
  BY DEF IInv, DeployOK, NamesApart
<1>5. CASE AddKey
  <2>1. PICK i \in 1..(Len(KeyOrder) - 1) : KeyOrder[i] = Head(keys) /\ keys' = <<KeyOrder[i + 1]>> \o keys
    BY <1>5 DEF AddKey
  <2>2. Len(keys) = 1 /\ rotatedAt' = now /\ layout' = layout
    BY <1>5 DEF AddKey
  <2>3. i + 1 \in DOMAIN KeyOrder
    BY NamesAssumption
  <2> DEFINE next == KeyOrder[i + 1]
  <2>4. next \in Range(KeyOrder)
    BY <2>3 DEF Range
  <2>5. keys' = <<next>> \o keys
    BY <2>1
  <2> HIDE DEF next
  <2>6. keys' \in Seq(Range(KeyOrder)) /\ keys' # <<>> /\ Len(keys') = 2 /\ keys'[2] = keys[1]
    <3>2. /\ <<next>> \o keys \in Seq(Range(KeyOrder)) /\ Len(<<next>> \o keys) = 2
          /\ (<<next>> \o keys)[2] = keys[1]
      BY <1>4, <2>2, <2>4, InFront
    <3> QED BY <2>5, <3>2
  <2>7. DeployOK'
    BY <1>1, <1>4, <2>2, <2>6 DEF IInv, DeployOK, NamesApart
  <2>8. Range(keys) \subseteq Range(keys')
    <3>1. DOMAIN keys = {1} /\ 2 \in DOMAIN keys'
      BY <1>4, <2>2, <2>6
    <3> QED BY <2>6, <3>1 DEF Range
  <2>9. ASSUME NEW c \in issued, Verifiable(c) PROVE Verifiable(c)'
    <3>1. c.at <= now
      <4>1. c \in Earlier => c.at \in Int /\ c.at <= 0
        BY EarlierAssumption
      <4>2. c \notin Earlier => c.at \in 0..now
        BY DEF IInv, CookiesInv, Written
      <4> QED BY <1>4, <4>1, <4>2
    <3> QED BY <1>1, <2>2, <2>8, <2>9, <3>1 DEF Verifiable
  <2> QED BY <1>3, <2>7, <2>9
<1>6. CASE RemoveKey
  <2>1. now - rotatedAt >= Ttl /\ keys' = <<Head(keys)>> /\ UNCHANGED <<rotatedAt, layout>>
    BY <1>6 DEF RemoveKey
  <2>2. keys' \in Seq(Range(KeyOrder)) /\ keys' # <<>> /\ Head(keys') = Head(keys) /\ Head(keys) \in Range(keys')
    <3> DEFINE k == Head(keys)
    <3>1. k \in Range(KeyOrder) /\ keys' = <<k>>
      BY <1>4, <2>1
    <3> HIDE DEF k
    <3>2. keys' \in Seq(Range(KeyOrder)) /\ keys' # <<>> /\ Head(keys') = k /\ k \in Range(keys')
      BY <3>1 DEF Range
    <3> QED BY <3>2 DEF k
  <2>3. DeployOK'
    BY <1>1, <2>1, <2>2 DEF IInv, DeployOK, NamesApart
  <2>4. ASSUME NEW c \in issued, Verifiable(c) PROVE Verifiable(c)'
    <3>1. c.at \in Int
      <4>1. c \in Earlier => c.at \in Int
        BY EarlierAssumption
      <4>2. c \notin Earlier => c.at \in 0..now
        BY DEF IInv, CookiesInv, Written
      <4> QED BY <1>4, <4>1, <4>2
    <3>2. Ttl \in Nat
      BY TtlAssumption
    <3> QED BY <1>1, <1>4, <2>1, <2>2, <2>4, <3>1, <3>2 DEF Verifiable
  <2> QED BY <1>3, <2>3, <2>4
<1>7. CASE TurnSessionIds
  <2>1. layout' = [layout EXCEPT ![Session] = ~@] /\ UNCHANGED <<keys, rotatedAt>>
    BY <1>7 DEF TurnSessionIds
  <2>2. DeployOK'
    BY <1>1, <2>1, NamesAssumption DEF IInv, DeployOK, NamesApart
  <2>3. \A c \in issued : Verifiable(c) => Verifiable(c)'
    BY <1>1, <2>1 DEF Verifiable
  <2> QED BY <1>3, <2>2, <2>3
<1> QED BY <1>5, <1>6, <1>7

LEMMA TickEffect ==
    ASSUME IInv, Tick
    PROVE  IInv'
<1>1. now' = now + 1 /\ now < MaxClock /\ UNCHANGED <<deployVars, storeVars, requestVars, keys, rotatedAt, layout, issued>>
  BY DEF Tick, deployVars, storeVars
<1>2. now \in 0..MaxClock /\ rotatedAt \in 0..now /\ MaxClock \in Nat /\ Ttl \in Nat
  BY TtlAssumption DEF IInv, DeployOK, NamesApart
<1>3. now' \in 0..MaxClock /\ rotatedAt' \in 0..now'
  BY <1>1, <1>2
<1>4. DeployOK'
  BY <1>1, <1>3 DEF IInv, DeployOK, NamesApart
<1>5. RowsInv' /\ RequestsInv'
  BY <1>1, RowsKept, SameRequests DEF IInv
<1>6. ASSUME NEW c \in issued, c \notin Earlier PROVE Written(c)' /\ Verifiable(c)'
  <2>1. Written(c) /\ Verifiable(c) /\ c.at \in 0..now
    BY <1>6 DEF IInv, CookiesInv, Written
  <2>2. c.at \in 0..now'
    BY <1>1, <1>2, <2>1
  <2>3. Written(c)'
    BY <2>1, <2>2 DEF Written
  <2>4. Verifiable(c)'
    BY <1>1, <1>2, <2>1 DEF Verifiable
  <2> QED BY <2>3, <2>4
<1>7. CookiesInv'
  BY <1>1, <1>6 DEF CookiesInv
<1> QED BY <1>4, <1>5, <1>7 DEF IInv

LEMMA InvInit == NamesApart /\ Init => IInv
<1> SUFFICES ASSUME NamesApart, Init PROVE IInv
  OBVIOUS
<1>1. KeyOrder[1] \in Range(KeyOrder) /\ Head(KeyOrder) = KeyOrder[1]
  BY NamesAssumption DEF Range
<1>2. DeployOK
  <2>1. keys = <<Head(KeyOrder)>>
    BY DEF Init
  <2>2. keys \in Seq(Range(KeyOrder)) /\ keys # <<>>
    BY <1>1, <2>1
  <2>3. now = 0 /\ rotatedAt = 0 /\ 0 \in 0..MaxClock /\ 0 \in 0..0
    BY TtlAssumption DEF Init
  <2>4. PICK on \in BOOLEAN : layout = [n \in Names |-> n = Session /\ on]
    BY DEF Init
  <2> QED BY <2>2, <2>3, <2>4 DEF DeployOK
<1>3. CookiesInv /\ RowsInv
  BY DEF Init, CookiesInv, RowsInv
<1>4. RequestsInv
  <2>1. /\ pc = [r \in Requests |-> "idle"] /\ call = [r \in Requests |-> Nothing]
        /\ jar = [r \in Requests |-> [n \in Names |-> Nothing]]
        /\ step = [r \in Requests |-> 1] /\ opened = [r \in Requests |-> Nothing]
        /\ records = [r \in Requests |-> {}]
    BY DEF Init
  <2>2. Nothing \in AnyCall
    BY DEF AnyCall
  <2>3. \A r \in Requests : Accepted(r) = {}
    BY <2>1 DEF Accepted
  <2>4. \A r \in Requests : RequestInv(r)
    BY <2>1, <2>3 DEF RequestInv, Places
  <2> QED BY <2>1, <2>2, <2>4 DEF RequestsInv, Places
<1> QED BY <1>2, <1>3, <1>4 DEF IInv

LEMMA InvStep == IInv /\ [Next]_vars => IInv'
<1> SUFFICES ASSUME IInv, [Next]_vars PROVE IInv'
  OBVIOUS
<1>1. ASSUME UNCHANGED <<deployVars, storeVars, now>>, RequestsInv' PROVE IInv'
  <2>1. UNCHANGED <<keys, rotatedAt, layout, issued, now>>
    BY <1>1 DEF deployVars, storeVars
  <2>2. DeployOK'
    BY <2>1 DEF IInv, DeployOK, NamesApart
  <2>3. CookiesInv' /\ RowsInv'
    BY <1>1, <2>1, CookiesKept, RowsKept DEF IInv
  <2> QED BY <1>1, <2>2, <2>3 DEF IInv
<1>2. CASE Login
  <2>1. UNCHANGED <<keys, rotatedAt, layout, requestVars, now>>
    BY <1>2 DEF Login, deployVars
  <2>2. CookiesInv' /\ RowsInv' /\ issued \subseteq issued'
    BY <1>2, LoginEffect DEF IInv
  <2>3. RequestsInv'
    BY <2>1, <2>2, SameRequests DEF IInv
  <2>4. DeployOK'
    BY <2>1 DEF IInv, DeployOK, NamesApart
  <2> QED BY <2>2, <2>3, <2>4 DEF IInv
<1>3. ASSUME NEW r \in Requests, Arrive(r) PROVE IInv'
  BY <1>1, <1>3, ArriveEffect DEF IInv, Arrive
<1>4. ASSUME NEW r \in Requests, Open(r) PROVE IInv'
  BY <1>1, <1>4, OpenEffect DEF IInv, Open
<1>5. ASSUME NEW r \in Requests, Validate(r) PROVE IInv'
  BY <1>1, <1>5, ValidateEffect DEF IInv, Validate
<1>6. ASSUME NEW r \in Requests, Act(r) \/ EnsureFresh(r) PROVE IInv'
  <2>1. Answer(r) /\ UNCHANGED <<deployVars, storeVars, now>>
    BY <1>6 DEF Act, EnsureFresh, Refuse
  <2>2. issued \subseteq issued' /\ UNCHANGED <<keys, layout>>
    BY <2>1 DEF storeVars, deployVars
  <2> QED BY <1>1, <2>1, <2>2, AnswerEffect DEF IInv
<1>7. CASE UNCHANGED vars
  <2>1. UNCHANGED <<deployVars, storeVars, now, requestVars, issued, keys, layout>>
    BY <1>7 DEF vars, deployVars, storeVars
  <2> QED BY <1>1, <2>1, SameRequests DEF IInv
<1> QED BY <1>2, <1>3, <1>4, <1>5, <1>6, <1>7, StepUpEffect, RevokeOthersEffect, LogoutEffect,
           DeploymentEffect, TickEffect DEF Next

\* The inductive invariant: what every cookie holds and which keys verify it,
\* whose rows there are, and what every request was let through with.
THEOREM Invariant == NamesApart => (Spec => []IInv)
<1> QED BY InvInit, InvStep, PTL DEF Spec
-----------------------------------------------------------------------------
(* What follows                                                            *)

\* Types; every row has the id of a cookie that was set, and a login has one
\* row.
THEOREM TypeCorrect == NamesApart => (Spec => []TypeOK)
<1>1. ASSUME IInv PROVE TypeOK
  <2>1. \A c \in issued : c.at <= now /\ c.key \in Range(KeyOrder) /\ c.by.name \in Names
    <3> SUFFICES ASSUME NEW c \in issued
                 PROVE  c.at <= now /\ c.key \in Range(KeyOrder) /\ c.by.name \in Names
      OBVIOUS
    <3>1. now \in Nat
      BY <1>1, TtlAssumption DEF IInv, DeployOK, NamesApart
    <3>2. CASE c \in Earlier
      <4>1. c.at \in Int /\ c.at <= 0
        BY <3>2, EarlierAssumption
      <4> QED BY <3>1, <3>2, <4>1, EarlierAssumption
    <3>3. CASE c \notin Earlier
      <4>1. Written(c)
        BY <1>1, <3>3 DEF IInv, CookiesInv
      <4> QED BY <3>1, <4>1 DEF Written
    <3> QED BY <3>2, <3>3
  <2>2. \A r \in Requests : call[r] \in Calls[r] \cup {Nothing}
    BY <1>1 DEF IInv, RequestsInv, RequestInv
  <2>3. \A row \in sessions : row.sid \in SessionIds /\ row.sid \in Drawn /\ row.user \in Values
    BY <1>1 DEF IInv, RowsInv, Rows
  <2> QED BY <1>1, <2>1, <2>2, <2>3 DEF IInv, DeployOK, RowsInv, RequestsInv, TypeOK, Places
<1> QED BY <1>1, Invariant, PTL

\* What the validator, the guards and the handler read in a cookie is what one
\* set_cookie() of the same source wrote in it, although cookies of other names,
\* layouts and releases are signed with the same key (_sign, _open).
THEOREM ReadsAsWritten == NamesApart => (Spec => []ReadAsWritten)
<1>1. ASSUME IInv, NEW r \in Requests, NEW n \in Accepted(r)
      PROVE  LET c == jar[r][n]
                 lost == opened[r] # n /\ Expired(c)
             IN  /\ c.by.name = n
                 /\ SessionIdIn(c, n) = c.by.sid /\ ValueIn(c, n) = c.by.value
                 /\ CredentialAcr(r, n) = IF lost THEN NoLevel ELSE c.by.acr
                 /\ CredentialAuthenticatedAt(r, n) = IF lost THEN Nothing ELSE c.at
  <2>1. pc[r] # "idle"
    BY <1>1 DEF IInv, RequestsInv, RequestInv, Accepted
  <2>2. n \in Names /\ jar[r][n] \in issued /\ Signed(jar[r][n], n)
    BY <1>1, <2>1, UnderWay DEF IInv
  <2>3. n # Nothing
    BY <2>2, NamesAssumption
  <2>4. /\ jar[r][n].by.name = n /\ LevelIn(jar[r][n]) = jar[r][n].by.acr
        /\ SessionIdIn(jar[r][n], n) = jar[r][n].by.sid /\ ValueIn(jar[r][n], n) = jar[r][n].by.value
    BY <1>1, <2>2, SignedReads DEF IInv
  <2>5. OpenedFor(r, n) = IF opened[r] = n THEN n ELSE Nothing
    BY DEF OpenedFor
  <2>6. Verifies(jar[r][n], n) <=> ~Expired(jar[r][n])
    BY <2>2 DEF Verifies
  <2>7. /\ CredentialAcr(r, n) = IF opened[r] # n /\ Expired(jar[r][n]) THEN NoLevel ELSE jar[r][n].by.acr
        /\ CredentialAuthenticatedAt(r, n) = IF opened[r] # n /\ Expired(jar[r][n]) THEN Nothing ELSE jar[r][n].at
    BY <2>3, <2>4, <2>5, <2>6 DEF CredentialAcr, CredentialAuthenticatedAt
  <2> QED BY <2>4, <2>7
<1>2. IInv => ReadAsWritten
  BY <1>1 DEF ReadAsWritten
<1> QED BY <1>2, Invariant, PTL

\* Only its own steps move a request on.
LEMMA Moves ==
    ASSUME RequestsInv, [Next]_vars, NEW r \in Requests, pc'[r] # pc[r]
    PROVE  /\ pc[r] = "opening" => Open(r)
           /\ pc[r] = "validating" => Validate(r)
<1>1. pc' # pc
  OBVIOUS
<1>2. Next
  BY <1>1 DEF vars, requestVars
<1>3. ~(Login \/ Logout \/ AddKey \/ RemoveKey \/ TurnSessionIds \/ Tick)
  BY <1>1 DEF Login, Logout, AddKey, RemoveKey, TurnSessionIds, Tick, requestVars
<1>4. PICK q \in Requests : \/ Arrive(q) \/ Open(q) \/ Validate(q)
                            \/ Act(q) \/ EnsureFresh(q) \/ StepUp(q) \/ RevokeOthers(q)
  BY <1>2, <1>3 DEF Next
<1>5. Answer(q) \/ (\E place \in Places : pc' = [pc EXCEPT ![q] = place])
  BY <1>4 DEF Arrive, Open, Validate, Act, EnsureFresh, StepUp, RevokeOthers, Refuse, Places
<1>6. q = r
  BY <1>5 DEF Answer, RequestsInv
<1>7. Arrive(r) => pc[r] = "idle"
  BY DEF Arrive
<1>8. Open(r) => pc[r] = "opening"
  BY DEF Open
<1>9. Validate(r) => pc[r] = "validating"
  BY DEF Validate
<1>10. Act(r) \/ EnsureFresh(r) \/ StepUp(r) \/ RevokeOthers(r) => pc[r] = "handling"
  BY DEF Act, EnsureFresh, StepUp, RevokeOthers, Handling
<1> QED BY <1>4, <1>6, <1>7, <1>8, <1>9, <1>10

\* Which cookie an opening refuses, and which it admits
LEMMA Opened ==
    ASSUME IInv, [Next]_vars, NEW r \in Requests, pc[r] = "opening"
    PROVE  LET n == Guard(r).name
               c == jar[r][n]
               admitted == c # Nothing /\ Signed(c, n) /\ ~Expired(c) /\ CheckOrigin(call[r].sender)
           IN  /\ n \in Names /\ c \in issued \cup {Nothing}
               /\ pc'[r] = "idle" => ~admitted
               /\ pc'[r] = "validating" => admitted
<1> DEFINE n == Guard(r).name
           c == jar[r][n]
           admitted == c # Nothing /\ Signed(c, n) /\ ~Expired(c) /\ CheckOrigin(call[r].sender)
<1>1. n \in Names /\ c \in issued \cup {Nothing}
  BY UnderWay DEF IInv
<1>2. pc'[r] # pc[r] => Open(r)
  BY Moves DEF IInv
<1>3. ASSUME Open(r)
      PROVE  \/ ~admitted /\ pc'[r] = "idle"
             \/ admitted /\ pc'[r] = "validating"
  <2>1. \/ ~admitted /\ Answer(r)
        \/ admitted /\ pc' = [pc EXCEPT ![r] = "validating"]
    BY <1>3 DEF Open, Refuse
  <2> HIDE DEF admitted
  <2> QED BY <2>1 DEF Answer, IInv, RequestsInv
<1> HIDE DEF n, c, admitted
<1>4. (pc'[r] = "idle" => ~admitted) /\ (pc'[r] = "validating" => admitted)
  BY <1>2, <1>3
<1> QED BY <1>1, <1>4 DEF n, c, admitted

\* A cookie lives for the whole of its ttl: the source that set it refuses it
\* only once it is older, through every rotation that follows the guide
\* (APIKeyCookieAuth.__init__, _open).
THEOREM LivesFully == NamesApart => (Spec => LivesItsTtl)
<1>1. ASSUME IInv, [Next]_vars, NEW r \in Requests, pc[r] = "opening", pc'[r] = "idle"
      PROVE  LET n == Guard(r).name
                 c == jar[r][n]
             IN  c # Nothing /\ CheckOrigin(call[r].sender) /\ c.salt = Salt(n) =>
                     /\ now - c.at >= Ttl
                     /\ c.key \in Range(keys) => now - c.at > Ttl
  <2> DEFINE n == Guard(r).name
             c == jar[r][n]
  <2>1. /\ n \in Names /\ c \in issued \cup {Nothing}
        /\ ~(c # Nothing /\ Signed(c, n) /\ ~Expired(c) /\ CheckOrigin(call[r].sender))
    BY <1>1, Opened
  <2> HIDE DEF n, c
  <2>2. ASSUME c # Nothing, CheckOrigin(call[r].sender), c.salt = Salt(n)
        PROVE  now - c.at >= Ttl /\ (c.key \in Range(keys) => now - c.at > Ttl)
    <3>0. c.at \in Int /\ now \in Int /\ Ttl \in Int
      <4>1. c \in Earlier => c.at \in Int
        BY EarlierAssumption
      <4>2. c \notin Earlier => c.at \in 0..now
        BY <1>1, <2>1, <2>2 DEF IInv, CookiesInv, Written
      <4> QED BY <1>1, <4>1, <4>2, TtlAssumption DEF IInv, DeployOK
    <3>1. c \notin Earlier
      <4>1. c.salt = SaltOf(n, layout[n]) /\ layout[n] \in BOOLEAN
        BY <1>1, <2>1, <2>2 DEF Salt, IInv, DeployOK
      <4> QED BY <2>1, <4>1, Versioned
    <3>2. Verifiable(c)
      BY <1>1, <2>1, <2>2, <3>1 DEF IInv, CookiesInv
    <3>3. CASE c.key \in Range(keys)
      <4>1. Signed(c, n)
        BY <1>1, <2>2, <3>3, RingFacts DEF IInv
      <4> QED BY <2>1, <2>2, <3>0, <4>1 DEF Expired
    <3>4. CASE c.key \notin Range(keys)
      BY <3>2, <3>4 DEF Verifiable
    <3> QED BY <3>3, <3>4
  <2> QED BY <2>2 DEF n, c
<1>2. IInv /\ [Next]_vars =>
        [\A r \in Requests :
            pc[r] = "opening" /\ pc'[r] = "idle" =>
                LET n == Guard(r).name
                    c == jar[r][n]
                IN  c # Nothing /\ CheckOrigin(call[r].sender) /\ c.salt = Salt(n) =>
                        /\ now - c.at >= Ttl
                        /\ c.key \in Range(keys) => now - c.at > Ttl]_vars
  BY <1>1
<1> QED BY <1>2, Invariant, PTL DEF Spec, LivesItsTtl

\* Once a session is logged out or revoked, no cookie of the same login is let
\* through again, not even one that a request already under way was about to
\* set at a higher level (sign_out_everywhere.py, second_factor.py).
THEOREM SignedOut == NamesApart => (Spec => SignedOutStaysOut)
<1>1. ASSUME IInv, [Next]_vars, NEW r \in Requests, pc[r] = "validating",
             pc'[r] \in {"opening", "handling"}
      PROVE  jar[r][Guard(r).name].by.login \notin signedOut
  <2> DEFINE n == Guard(r).name
             c == jar[r][n]
  <2>1. Validate(r)
    BY <1>1, Moves DEF IInv
  <2>2. Valid(SessionIdIn(c, n), n)
    <3>1. ~Answer(r)
      BY <1>1 DEF Answer, IInv, RequestsInv
    <3> QED BY <2>1, <3>1 DEF Validate, Refuse
  <2>3. n \in Accepted(r)
    BY <1>1 DEF Accepted
  <2>4. n \in Names /\ c \in issued /\ Signed(c, n)
    BY <1>1, <2>3, UnderWay DEF IInv
  <2> HIDE DEF n, c
  <2>5. Written(c) /\ c.by.name = n /\ (WithId(c) <=> layout[n]) /\ SessionIdIn(c, n) = c.by.sid
    BY <1>1, <2>4, SignedReads DEF IInv
  <2>6. CASE ~layout[n]
    <3>1. c.by.login = Nothing
      BY <2>5, <2>6 DEF Written
    <3> QED BY <1>1, <3>1, NamesAssumption DEF IInv, RowsInv, c, n
  <2>7. CASE layout[n]
    <3>1. n = Session
      BY <1>1, <2>4, <2>7 DEF IInv, DeployOK, NamesApart
    <3>2. PICK row \in sessions : row.sid = c.by.sid
      BY <2>2, <2>5, <2>7, <3>1 DEF Valid
    <3>3. c.by.login = row.login /\ row.login \notin signedOut
      BY <1>1, <2>4, <3>2 DEF IInv, RowsInv
    <3> QED BY <3>3 DEF c, n
  <2> QED BY <2>6, <2>7
<1>2. IInv /\ [Next]_vars =>
        [\A r \in Requests :
            pc[r] = "validating" /\ pc'[r] \in {"opening", "handling"} =>
                jar[r][Guard(r).name].by.login \notin signedOut]_vars
  BY <1>1
<1> QED BY <1>2, Invariant, PTL DEF Spec, SignedOutStaysOut

\* The origin check, of any sender a browser can be.
LEMMA Origins ==
    ASSUME NEW sender, sender.browser \in {"recent", "older", "script"}, sender.hostKept \in BOOLEAN,
           sender.browser = "script" => sender.page \notin {Own, Typed} \cup Trusted,
           sender.page = Typed => sender.method = "GET", sender.page.host # "proxied"
    PROVE  /\ CheckOrigin(sender) => sender.method = "GET" \/ ~Foreign(sender) \/ SameHost(sender)
           /\ ~CheckOrigin(sender) => Foreign(sender) \/ (sender.browser = "older" /\ ~sender.hostKept)
<1>1. Safe(sender) <=> sender.method = "GET"
  BY DEF Safe
<1>2. Foreign(sender) <=> sender.page \notin {Own, Typed} \cup Trusted
  BY DEF Foreign
<1>3. Host(sender) = IF sender.hostKept THEN Own.host ELSE "proxied"
  BY DEF Host
<1>4. CASE sender.browser = "recent"
  <2>1. /\ sender.page = Own => FetchSite(sender) = "same-origin"
        /\ sender.page = Typed => FetchSite(sender) = "none"
        /\ sender.page \notin {Own, Typed} => FetchSite(sender) \in {"same-site", "cross-site"}
    BY <1>4, OriginsAssumption DEF FetchSite
  <2>2. Origin(sender) = IF sender.page = Typed THEN Nothing ELSE sender.page
    BY <1>4 DEF Origin
  <2>3. FetchSite(sender) # Nothing
    BY <2>1, OriginsAssumption
  <2>4. SameOrigin(sender) <=> (FetchSite(sender) \in {"same-origin", "none"} \/ Origin(sender) \in Trusted)
    BY <2>3 DEF SameOrigin
  <2>5. CASE sender.page \in {Own, Typed}
    <3>1. SameOrigin(sender) /\ ~Foreign(sender)
      BY <1>2, <2>1, <2>4, <2>5
    <3> QED BY <3>1 DEF CheckOrigin
  <2>6. CASE ~(sender.page \in {Own, Typed})
    <3>1. SameOrigin(sender) <=> sender.page \in Trusted
      BY <2>1, <2>2, <2>4, <2>6
    <3>2. Foreign(sender) <=> sender.page \notin Trusted
      BY <1>2, <2>6
    <3> QED BY <1>1, <3>1, <3>2 DEF CheckOrigin
  <2> QED BY <2>5, <2>6
<1>5. CASE sender.browser # "recent"
  <2>1. FetchSite(sender) = Nothing
    BY <1>5 DEF FetchSite
  <2>2. Origin(sender) = IF sender.browser = "script" \/ sender.page = Typed THEN Nothing ELSE sender.page
    BY DEF Origin
  <2>3. SameOrigin(sender) <=> (Origin(sender) \in Trusted \/ OriginIsHost(sender))
    BY <2>1, OriginsAssumption DEF SameOrigin
  <2>4. CASE sender.browser = "script" \/ sender.page = Typed
    <3>1. ~SameOrigin(sender)
      BY <2>2, <2>3, <2>4, OriginsAssumption DEF OriginIsHost
    <3> QED BY <1>1, <1>2, <2>4, <3>1 DEF CheckOrigin
  <2>5. CASE sender.browser = "older" /\ sender.page # Typed
    <3>1. Origin(sender) = sender.page
      BY <2>2, <2>5
    <3>2. CASE sender.page = Nothing
      <4>1. ~SameOrigin(sender) /\ Foreign(sender)
        BY <1>2, <2>3, <2>5, <3>1, <3>2, OriginsAssumption DEF OriginIsHost
      <4> QED BY <1>1, <4>1 DEF CheckOrigin
    <3>3. CASE sender.page # Nothing
      <4>1. OriginIsHost(sender) <=> sender.page.host = Host(sender)
        BY <3>1, <3>3 DEF OriginIsHost
      <4>2. OriginIsHost(sender) => SameHost(sender)
        BY <1>3, <2>5, <4>1 DEF SameHost
      <4>3. sender.page = Own /\ sender.hostKept => OriginIsHost(sender)
        BY <1>3, <4>1
      <4> QED BY <1>1, <1>2, <2>3, <2>5, <3>1, <4>2, <4>3 DEF CheckOrigin
    <3> QED BY <3>2, <3>3
  <2> QED BY <1>5, <2>4, <2>5
<1> QED BY <1>4, <1>5

\* A page of another origin never acts with the user's cookie, unless its
\* browser does not tell the site and it is of the same host; and a page of the
\* program's own is heard, unless its browser is such a one and a proxy hides the
\* host it asked for (APIKeyCookieAuth._check_origin).
THEOREM OriginsJudged == NamesApart => (Spec => OriginJudged)
<1>1. ASSUME IInv, [Next]_vars, NEW r \in Requests, pc[r] = "opening"
      PROVE  LET sender == call[r].sender
                 c == jar[r][Guard(r).name]
             IN  /\ pc'[r] = "validating" =>
                        sender.method = "GET" \/ ~Foreign(sender) \/ SameHost(sender)
                 /\ pc'[r] = "idle" /\ c # Nothing /\ Verifies(c, Guard(r).name) =>
                        \/ Foreign(sender)
                        \/ sender.browser = "older" /\ ~sender.hostKept
  <2> DEFINE sender == call[r].sender
             n == Guard(r).name
             c == jar[r][n]
  <2>1. /\ pc'[r] = "idle" => ~(c # Nothing /\ Signed(c, n) /\ ~Expired(c) /\ CheckOrigin(sender))
        /\ pc'[r] = "validating" => CheckOrigin(sender)
    BY <1>1, Opened
  <2>2. call[r] \in Calls[r]
    BY <1>1, UnderWay DEF IInv
  <2>3. /\ CheckOrigin(sender) => sender.method = "GET" \/ ~Foreign(sender) \/ SameHost(sender)
        /\ ~CheckOrigin(sender) => Foreign(sender) \/ (sender.browser = "older" /\ ~sender.hostKept)
    BY <2>2, CallsAssumption, Origins
  <2> QED BY <2>1, <2>3 DEF Verifies
<1>2. IInv /\ [Next]_vars =>
        [\A r \in Requests :
            LET sender == call[r].sender
                c == jar[r][Guard(r).name]
            IN  pc[r] = "opening" =>
                    /\ pc'[r] = "validating" =>
                           sender.method = "GET" \/ ~Foreign(sender) \/ SameHost(sender)
                    /\ pc'[r] = "idle" /\ c # Nothing /\ Verifies(c, Guard(r).name) =>
                           \/ Foreign(sender)
                           \/ sender.browser = "older" /\ ~sender.hostKept]_vars
  BY <1>1
<1> QED BY <1>2, Invariant, PTL DEF Spec, OriginJudged
=============================================================================
