-------------------------- MODULE OrderedKeysProofs --------------------------
(***************************************************************************)
(* What the operators of OrderedKeys do to keys that are in order, each    *)
(* once: they keep them so.                                                *)
(***************************************************************************)
EXTENDS OrderedKeys, TLAPS

\* Removing a key leaves the others, each still once.
LEMMA WithoutKey ==
    ASSUME NEW K, NEW q \in Seq(K), IsInjective(q), NEW k
    PROVE  /\ Without(q, k) \in Seq(K) /\ IsInjective(Without(q, k))
           /\ ToSet(Without(q, k)) = ToSet(q) \ {k}
           /\ Len(Without(q, k)) = IF k \in ToSet(q) THEN Len(q) - 1 ELSE Len(q)
<1>1. CASE k \notin ToSet(q)
  BY <1>1 DEF Without
<1>2. CASE k \in ToSet(q)
  <2> DEFINE place == CHOOSE i \in DOMAIN q : q[i] = k
             n == Len(q)
             p == Without(q, k)
  <2>1. place \in 1..n /\ q[place] = k
    BY <1>2 DEF ToSet
  <2>2. p = SubSeq(q, 1, place - 1) \o SubSeq(q, place + 1, n)
    BY <1>2 DEF Without, RemoveAt
  <2> HIDE DEF place, p
  <2>3. /\ p \in Seq(K) /\ Len(p) = n - 1
        /\ \A i \in 1..(n - 1) : p[i] = IF i < place THEN q[i] ELSE q[i + 1]
    <3> DEFINE before == SubSeq(q, 1, place - 1)
               after == SubSeq(q, place + 1, n)
    <3>1. /\ before \in Seq(K) /\ Len(before) = place - 1
          /\ \A i \in 1..(place - 1) : before[i] = q[i]
      BY <2>1
    <3>2. /\ after \in Seq(K) /\ Len(after) = n - place
          /\ \A i \in 1..(n - place) : after[i] = q[i + place]
      BY <2>1
    <3>3. n \in Nat
      OBVIOUS
    <3> HIDE DEF before, after, n
    <3>4. /\ p \in Seq(K) /\ Len(p) = n - 1
          /\ \A i \in 1..(n - 1) :
                p[i] = IF i <= Len(before) THEN before[i] ELSE after[i - Len(before)]
      BY <2>1, <2>2, <3>1, <3>2, <3>3 DEF before, after
    <3>5. ASSUME NEW i \in 1..(n - 1)
          PROVE  p[i] = IF i < place THEN q[i] ELSE q[i + 1]
      <4>1. CASE i < place
        BY <4>1, <2>1, <3>1, <3>3, <3>4
      <4>2. CASE ~(i < place)
        <5>1. i - (place - 1) \in 1..(n - place) /\ i - (place - 1) + place = i + 1
          BY <4>2, <2>1, <3>3
        <5> QED BY <4>2, <5>1, <2>1, <3>1, <3>2, <3>3, <3>4
      <4> QED BY <4>1, <4>2
    <3> QED BY <3>4, <3>5
  <2>4. \A i, j \in 1..n : q[i] = q[j] => i = j
    BY DEF IsInjective
  <2> HIDE DEF n
  <2>5. IsInjective(p)
    <3> SUFFICES ASSUME NEW i \in 1..(n - 1), NEW j \in 1..(n - 1), p[i] = p[j]
                 PROVE  i = j
      BY <2>3 DEF IsInjective
    <3> DEFINE Old(l) == IF l < place THEN l ELSE l + 1
    <3>1. /\ Old(i) \in 1..n /\ Old(j) \in 1..n
          /\ p[i] = q[Old(i)] /\ p[j] = q[Old(j)]
      BY <2>1, <2>3 DEF n
    <3>2. Old(i) = Old(j)
      <4> HIDE DEF Old
      <4> QED BY <3>1, <2>4
    <3> QED BY <3>2, <2>1
  <2>6. ASSUME NEW x \in ToSet(p)
        PROVE  x \in ToSet(q) \ {k}
    <3>1. PICK i \in 1..(n - 1) : p[i] = x
      BY <2>3 DEF ToSet
    <3> DEFINE old == IF i < place THEN i ELSE i + 1
    <3>2. old \in 1..n /\ q[old] = x /\ old # place
      BY <2>1, <2>3, <3>1 DEF n
    <3> HIDE DEF old
    <3> QED BY <3>2, <2>1, <2>4 DEF ToSet, n
  <2>7. ASSUME NEW x \in ToSet(q) \ {k}
        PROVE  x \in ToSet(p)
    <3>1. PICK j \in 1..n : q[j] = x /\ j # place
      BY <2>1 DEF ToSet, n
    <3>2. PICK i \in 1..(n - 1) : p[i] = x
      <4>1. CASE j < place
        BY <4>1, <2>1, <2>3, <3>1 DEF n
      <4>2. CASE j > place
        <5>1. j - 1 \in 1..(n - 1) /\ ~(j - 1 < place) /\ (j - 1) + 1 = j
          BY <4>2, <2>1, <3>1 DEF n
        <5>2. p[j - 1] = x
          BY <5>1, <2>3, <3>1
        <5> QED BY <5>1, <5>2
      <4> QED BY <4>1, <4>2, <3>1, <2>1 DEF n
    <3> QED BY <3>2, <2>3 DEF ToSet
  <2> QED BY <1>2, <2>3, <2>5, <2>6, <2>7 DEF p, n
<1> QED BY <1>1, <1>2

\* A key that is moved to the end, or inserted, is the last, once.
LEMMA MoveToEndKey ==
    ASSUME NEW K, NEW q \in Seq(K), IsInjective(q), NEW k \in K
    PROVE  /\ MoveToEnd(q, k) \in Seq(K) /\ IsInjective(MoveToEnd(q, k))
           /\ ToSet(MoveToEnd(q, k)) = ToSet(q) \cup {k}
           /\ Len(MoveToEnd(q, k)) = IF k \in ToSet(q) THEN Len(q) ELSE Len(q) + 1
           /\ Len(MoveToEnd(q, k)) > 0 /\ MoveToEnd(q, k)[Len(MoveToEnd(q, k))] = k
<1> DEFINE p == Without(q, k)
           m == MoveToEnd(q, k)
<1>1. /\ p \in Seq(K) /\ IsInjective(p) /\ ToSet(p) = ToSet(q) \ {k}
      /\ Len(p) = IF k \in ToSet(q) THEN Len(q) - 1 ELSE Len(q)
  BY WithoutKey
<1>2. m = Append(p, k)
  BY DEF MoveToEnd
<1> HIDE DEF p, m
<1>3. /\ m \in Seq(K) /\ Len(m) = Len(p) + 1 /\ m[Len(p) + 1] = k
      /\ \A i \in 1..Len(p) : m[i] = p[i]
  BY <1>1, <1>2
<1>4. ToSet(m) = ToSet(p) \cup {k}
  <2>1. Len(p) \in Nat /\ DOMAIN p = 1..Len(p) /\ DOMAIN m = 1..(Len(p) + 1)
    BY <1>1, <1>3
  <2>2. ASSUME NEW x \in ToSet(m)
        PROVE  x \in ToSet(p) \cup {k}
    BY <2>1, <1>3 DEF ToSet
  <2>3. ASSUME NEW x \in ToSet(p)
        PROVE  x \in ToSet(m)
    BY <2>1, <1>3 DEF ToSet
  <2>4. k \in ToSet(m)
    BY <2>1, <1>3 DEF ToSet
  <2> QED BY <2>2, <2>3, <2>4
<1>5. IsInjective(m)
  <2> SUFFICES ASSUME NEW i \in 1..Len(m), NEW j \in 1..Len(m), m[i] = m[j]
               PROVE  i = j
    BY <1>3 DEF IsInjective
  <2>1. \A l \in 1..Len(p) : p[l] # k
    <3>1. DOMAIN p = 1..Len(p)
      BY <1>1
    <3>2. \A l \in 1..Len(p) : p[l] \in ToSet(p)
      BY <3>1 DEF ToSet
    <3> QED BY <3>2, <1>1
  <2>2. \A l, h \in 1..Len(p) : p[l] = p[h] => l = h
    BY <1>1 DEF IsInjective
  <2>3. Len(p) \in Nat
    BY <1>1
  <2>4. CASE i = Len(p) + 1 \/ j = Len(p) + 1
    BY <1>3, <2>1, <2>3, <2>4
  <2>5. CASE i \in 1..Len(p) /\ j \in 1..Len(p)
    BY <1>3, <2>2, <2>5
  <2> QED BY <1>3, <2>3, <2>4, <2>5
<1> QED BY <1>1, <1>3, <1>4, <1>5 DEF m

\* Evicting keeps the newest keys, each once, the last one among them.
LEMMA KeepNewestKeys ==
    ASSUME NEW K, NEW q \in Seq(K), IsInjective(q), NEW n \in Nat
    PROVE  /\ KeepNewest(q, n) \in Seq(K) /\ IsInjective(KeepNewest(q, n))
           /\ ToSet(KeepNewest(q, n)) \subseteq ToSet(q)
           /\ Len(KeepNewest(q, n)) <= n
           /\ Len(q) > 0 /\ n > 0 => q[Len(q)] \in ToSet(KeepNewest(q, n))
<1>1. CASE Len(q) <= n
  BY <1>1 DEF KeepNewest, ToSet
<1>2. CASE Len(q) > n
  <2> DEFINE p == KeepNewest(q, n)
             d == Len(q) - n
  <2>1. p = SubSeq(q, d + 1, Len(q))
    BY <1>2 DEF KeepNewest
  <2> HIDE DEF p
  <2>2. p \in Seq(K) /\ Len(p) = n /\ \A i \in 1..n : p[i] = q[i + d]
    BY <1>2, <2>1
  <2>3. d \in Nat /\ \A i \in 1..n : i + d \in 1..Len(q)
    BY <1>2
  <2> HIDE DEF d
  <2>4. IsInjective(p)
    <3> SUFFICES ASSUME NEW i \in 1..n, NEW j \in 1..n, p[i] = p[j]
                 PROVE  i = j
      BY <2>2 DEF IsInjective
    <3>1. q[i + d] = q[j + d] /\ i + d \in 1..Len(q) /\ j + d \in 1..Len(q)
      BY <2>2, <2>3
    <3>2. i + d = j + d
      BY <3>1 DEF IsInjective
    <3> QED BY <3>2, <2>3
  <2>5. ToSet(p) \subseteq ToSet(q)
    BY <2>2, <2>3 DEF ToSet
  <2>6. n > 0 => q[Len(q)] \in ToSet(p)
    <3> SUFFICES ASSUME n > 0 PROVE q[Len(q)] \in ToSet(p)
      OBVIOUS
    <3>1. n \in 1..n /\ p[n] = q[Len(q)]
      BY <2>2, <2>3 DEF d
    <3> QED BY <3>1, <2>2 DEF ToSet
  <2> QED BY <2>2, <2>4, <2>5, <2>6 DEF p
<1> QED BY <1>1, <1>2
=============================================================================
