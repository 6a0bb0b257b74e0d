--------------------------- MODULE NodeSessionProofs ---------------------------
(***************************************************************************)
(* For any set of versions, any start epochs of theirs and any slots: the  *)
(* API provider is consistent, a client that New returned panics on the    *)
(* answers that ReadyClientNeverPanics names only, and queries in pages    *)
(* are complete or say that they are not.                                  *)
(***************************************************************************)
EXTENDS NodeSession, WellFoundedInduction, SequenceTheorems, TLAPS

-----------------------------------------------------------------------------
(* Greatest elements: a nonempty set of bounded natural numbers has one,   *)
(* and Max denotes it.                                                     *)
LEMMA Least ==
    ASSUME NEW T \in SUBSET Nat, T # {}
    PROVE  \E x \in T : \A y \in T : x <= y
<1>1. PICK x \in T : \A y \in T : ~(<<y, x>> \in OpToRel(<, Nat))
  BY WFMin, NatLessThanWellFounded
<1>2. \A y \in T : (<<y, x>> \in OpToRel(<, Nat)) <=> y < x
  BY DEF OpToRel
<1>3. \A y \in T : ~(y < x)
  BY <1>1, <1>2, Zenon
<1>4. \A y \in T : x <= y
  BY <1>3, SMT
<1> QED
  BY <1>4, Zenon

LEMMA Greatest ==
    ASSUME NEW T \in SUBSET Nat, T # {}, NEW n \in Nat, \A x \in T : x <= n
    PROVE  \E x \in T : \A y \in T : x >= y
<1> DEFINE U == {u \in Nat : n - u \in T}
<1>1. \A y \in T : n - y \in U /\ n - y \in Nat
  <2> TAKE y \in T
  <2>1. n - y \in Nat /\ n - (n - y) = y
    OBVIOUS
  <2> QED
    BY <2>1
<1>2. U \in SUBSET Nat /\ U # {}
  BY <1>1
<1>3. PICK u \in U : \A w \in U : u <= w
  BY <1>2, Least
<1>4. u \in Nat /\ n - u \in T
  OBVIOUS
<1>5. \A y \in T : u <= n - y
  BY <1>1, <1>3
<1>6. \A y \in T : n - u >= y
  BY <1>4, <1>5
<1> QED
  BY <1>4, <1>6

LEMMA MaxIsGreatest ==
    ASSUME NEW T \in SUBSET Nat, T # {}, NEW n \in Nat, \A x \in T : x <= n
    PROVE  Max(T) \in T /\ \A y \in T : Max(T) >= y
  BY Greatest DEF Max

LEMMA GreatestIsMax ==
    ASSUME NEW T \in SUBSET Nat, NEW m \in T, \A y \in T : m >= y
    PROVE  Max(T) = m
<1>1. Max(T) \in T /\ \A y \in T : Max(T) >= y
  BY DEF Max
<1>2. Max(T) \in Nat /\ m \in Nat /\ Max(T) >= m /\ m >= Max(T)
  BY <1>1
<1> QED
  BY <1>2

-----------------------------------------------------------------------------
(* The slice of versions: sorted, with the start epochs agreed on, and     *)
(* beginning with the genesis version.                                     *)
Entry == [version : Version, epoch : Nat]
VersionsOf(vs) == {vs[i].version : i \in DOMAIN vs}

SortedSlice(vs) ==
    /\ vs \in Seq(Entry)
    /\ \A i, j \in DOMAIN vs : i < j => vs[i].version < vs[j].version
    /\ \A i \in DOMAIN vs : vs[i].epoch = StartEpoch[vs[i].version]

(* The newest of the versions K that started by epoch e is w. *)
Newest(K, e, w) ==
    /\ w \in K
    /\ StartEpoch[w] <= e
    /\ \A v \in K : StartEpoch[v] <= e => v <= w

LEMMA VersionFacts ==
    /\ Version \subseteq Nat /\ NoVersion \notin Version /\ NoVersion = 0
    /\ GenesisVersion \in Version /\ StartEpoch[GenesisVersion] = 0 /\ GenesisVersion >= 3
    /\ \A v \in Version : v >= GenesisVersion /\ StartEpoch[v] \in Nat
<1>1. Version \subseteq Nat /\ NoVersion \notin Version /\ NoVersion = 0
  BY ProviderAssumption DEF NoVersion
<1>2. GenesisVersion \in Version /\ StartEpoch[GenesisVersion] = 0 /\ GenesisVersion >= 3
  BY ProviderAssumption
<1>3. ASSUME NEW v \in Version PROVE v >= GenesisVersion /\ StartEpoch[v] \in Nat
  BY <1>1, <1>2, ProviderAssumption
<1> QED
  BY <1>1, <1>2, <1>3

LEMMA SliceFacts ==
    ASSUME NEW vs, SortedSlice(vs)
    PROVE  /\ DOMAIN vs = 1..Len(vs) /\ Len(vs) \in Nat
           /\ \A i \in DOMAIN vs : /\ vs[i].version \in Version /\ vs[i].version \in Nat
                                  /\ vs[i].epoch = StartEpoch[vs[i].version]
           /\ VersionsOf(vs) \in SUBSET Version
<1>1. vs \in Seq(Entry)
  BY DEF SortedSlice
<1>2. DOMAIN vs = 1..Len(vs) /\ Len(vs) \in Nat
  BY <1>1, LenProperties
<1>3. ASSUME NEW i \in DOMAIN vs
      PROVE  vs[i].version \in Version /\ vs[i].version \in Nat
  <2>1. vs[i] \in Entry
    BY <1>1, <1>2, ElementOfSeq
  <2> QED
    BY <2>1, VersionFacts DEF Entry
<1>4. VersionsOf(vs) \in SUBSET Version
  BY <1>3 DEF VersionsOf
<1> QED
  BY <1>2, <1>3, <1>4 DEF SortedSlice

(* The scan of the sorted slice from its end finds the newest version, and *)
(* panics in no epoch once the genesis version is known.                   *)
LEMMA ScanFindsNewest ==
    ASSUME NEW vs, SortedSlice(vs), GenesisVersion \in VersionsOf(vs), NEW e \in Nat
    PROVE  Newest(VersionsOf(vs), e, VersionForEpoch(vs, e))
<1> DEFINE started == {i \in DOMAIN vs : vs[i].epoch <= e}
<1>1. /\ DOMAIN vs = 1..Len(vs) /\ Len(vs) \in Nat
      /\ \A i \in DOMAIN vs : vs[i].version \in Version /\ vs[i].epoch = StartEpoch[vs[i].version]
  BY SliceFacts
<1>2. started # {}
  <2>1. PICK i \in DOMAIN vs : vs[i].version = GenesisVersion
    BY DEF VersionsOf
  <2>2. vs[i].epoch <= e
    BY <1>1, <2>1, VersionFacts
  <2> QED
    BY <2>2
<1>3. started \in SUBSET Nat /\ \A i \in started : i <= Len(vs)
  BY <1>1
<1> DEFINE m == Max(started)
<1>4. m \in started /\ \A i \in started : m >= i
  BY <1>1, <1>2, <1>3, MaxIsGreatest
<1>5. VersionForEpoch(vs, e) = vs[m].version
  BY <1>2 DEF VersionForEpoch
<1> HIDE DEF m
<1>6. ASSUME NEW v \in VersionsOf(vs), StartEpoch[v] <= e
      PROVE  v <= vs[m].version
  <2>1. PICK i \in DOMAIN vs : vs[i].version = v
    BY DEF VersionsOf
  <2>2. i \in started
    BY <1>1, <1>6, <2>1
  <2>3. i <= m /\ i \in Nat /\ m \in Nat /\ m \in DOMAIN vs
    BY <1>1, <1>3, <1>4, <2>2
  <2>4. i = m \/ vs[i].version < vs[m].version
    BY <2>3 DEF SortedSlice
  <2>5. vs[i].version \in Nat /\ vs[m].version \in Nat
    BY <2>3, SliceFacts
  <2> QED
    BY <2>1, <2>4, <2>5
<1>7. vs[m].version \in VersionsOf(vs) /\ StartEpoch[vs[m].version] <= e
  BY <1>1, <1>4 DEF VersionsOf
<1> QED
  BY <1>5, <1>6, <1>7 DEF Newest

(* The newest version is unique, and no older in a later epoch or among    *)
(* more versions.                                                          *)
LEMMA NewestIsMax ==
    ASSUME NEW K \in SUBSET Version, NEW e \in Nat, NEW w, Newest(K, e, w)
    PROVE  Max({v \in K : StartEpoch[v] <= e}) = w
<1> DEFINE T == {v \in K : StartEpoch[v] <= e}
<1>1. T \in SUBSET Nat /\ w \in T
  BY VersionFacts DEF Newest
<1>2. \A v \in T : w >= v
  BY <1>1, VersionFacts DEF Newest
<1> QED
  BY <1>1, <1>2, GreatestIsMax

LEMMA NewestMonotone ==
    ASSUME NEW K \in SUBSET Version, NEW L \in SUBSET Version, K \subseteq L,
           NEW e \in Nat, NEW f \in Nat, e <= f, NEW w, NEW x, Newest(K, e, w), Newest(L, f, x)
    PROVE  w <= x
<1>1. w \in L /\ StartEpoch[w] \in Nat /\ StartEpoch[w] <= f
  BY VersionFacts DEF Newest
<1> QED
  BY <1>1 DEF Newest

(* InsertAt, element by element. *)
Inserted(t, s, k, x) ==
    /\ t \in Seq(Entry) /\ Len(t) = Len(s) + 1
    /\ \A i \in 1..(Len(s) + 1) : t[i] = IF i <= k THEN s[i] ELSE IF i = k + 1 THEN x ELSE s[i - 1]

LEMMA InsertAtFacts ==
    ASSUME NEW s \in Seq(Entry), NEW x \in Entry, NEW k \in 0..Len(s), NEW t, t = InsertAt(s, k + 1, x)
    PROVE  Inserted(t, s, k, x)
<1> DEFINE a == SubSeq(s, 1, k)
           b == SubSeq(s, k + 1, Len(s))
           c == a \o <<x>>
           n == Len(s)
<1>1. n \in Nat /\ k \in Nat /\ k <= n /\ (k + 1) - 1 = k
  OBVIOUS
<1>2. t = c \o b
  BY <1>1 DEF InsertAt
<1>3. a \in Seq(Entry) /\ Len(a) = k /\ \A i \in 1..k : a[i] = s[i]
  OBVIOUS
<1>4. b \in Seq(Entry) /\ Len(b) = n - k /\ \A i \in 1..(n - k) : b[i] = s[k + i]
  OBVIOUS
<1> HIDE DEF a, b, n
<1>5. /\ c \in Seq(Entry) /\ Len(c) = k + 1 /\ c[k + 1] = x
      /\ \A i \in 1..k : c[i] = a[i]
  BY <1>1, <1>3
<1> HIDE DEF c
<1>6. /\ t \in Seq(Entry) /\ Len(t) = (k + 1) + (n - k)
      /\ \A i \in 1..((k + 1) + (n - k)) : t[i] = IF i <= k + 1 THEN c[i] ELSE b[i - (k + 1)]
  <2>1. /\ c \o b \in Seq(Entry) /\ Len(c \o b) = Len(c) + Len(b)
        /\ \A i \in 1..(Len(c) + Len(b)) : (c \o b)[i] = IF i <= Len(c) THEN c[i] ELSE b[i - Len(c)]
    BY <1>4, <1>5, ConcatProperties
  <2>2. Len(c) = k + 1 /\ Len(b) = n - k
    BY <1>4, <1>5
  <2> QED
    BY <1>2, <2>1, <2>2, Zenon
<1>7. (k + 1) + (n - k) = n + 1
  BY <1>1
<1>8. ASSUME NEW i \in 1..(n + 1)
      PROVE  t[i] = IF i <= k THEN s[i] ELSE IF i = k + 1 THEN x ELSE s[i - 1]
  <2>1. CASE i <= k
    <3>1. i \in 1..k /\ i <= k + 1
      BY <1>1, <2>1
    <3> QED
      BY <1>3, <1>5, <1>6, <1>7, <2>1, <3>1
  <2>2. CASE i = k + 1
    <3>1. ~(i <= k) /\ i <= k + 1
      BY <1>1, <2>2
    <3> QED
      BY <1>5, <1>6, <1>7, <2>2, <3>1
  <2>3. CASE i > k + 1
    <3>1. /\ ~(i <= k) /\ ~(i <= k + 1) /\ i # k + 1
          /\ i - (k + 1) \in 1..(n - k) /\ k + (i - (k + 1)) = i - 1
      BY <1>1, <2>3
    <3>2. t[i] = b[i - (k + 1)]
      BY <1>6, <1>7, <3>1
    <3> QED
      BY <1>4, <3>1, <3>2
  <2> QED
    BY <1>1, <2>1, <2>2, <2>3
<1> QED
  BY <1>6, <1>7, <1>8 DEF n, Inserted

(* ProtocolEpochVersions.Add keeps the slice sorted. *)
LEMMA AddKeepsSorted ==
    ASSUME SortedSlice(versions), NEW v \in Version
    PROVE  /\ SortedSlice(Added(versions, v, StartEpoch[v]))
           /\ VersionsOf(Added(versions, v, StartEpoch[v])) = VersionsOf(versions) \cup {v}
<1> DEFINE smaller == {i \in DOMAIN versions : versions[i].version < v}
           n == Len(versions)
           k == Max({0} \cup smaller)
           x == [version |-> v, epoch |-> StartEpoch[v]]
           vs == Added(versions, v, StartEpoch[v])
<1>1. Known = VersionsOf(versions)
  BY DEF Known, VersionsOf
<1>2. CASE v \in Known
  BY <1>1, <1>2 DEF Added
<1>3. CASE v \notin Known
  <2>1. /\ versions \in Seq(Entry) /\ n \in Nat /\ DOMAIN versions = 1..n
        /\ \A i \in 1..n : /\ versions[i].version \in Nat
                            /\ versions[i].epoch = StartEpoch[versions[i].version]
        /\ \A i, j \in 1..n : i < j => versions[i].version < versions[j].version
    <3>1. DOMAIN versions = 1..n /\ n \in Nat
      BY SliceFacts
    <3> QED
      BY <3>1, SliceFacts DEF SortedSlice
  <2>2. x \in Entry /\ v \in Nat /\ x.version = v /\ x.epoch = StartEpoch[v]
    BY VersionFacts DEF Entry
  <2> HIDE DEF n, x
  <2>3. {0} \cup smaller \in SUBSET Nat /\ \A i \in {0} \cup smaller : i <= n
    BY <2>1
  <2>4. k \in {0} \cup smaller /\ \A i \in {0} \cup smaller : k >= i
    BY <2>1, <2>3, MaxIsGreatest
  <2>5. k \in 0..n
    BY <2>1, <2>3, <2>4
  <2>6. vs = InsertAt(versions, k + 1, x)
    BY <1>3 DEF Added, x
  <2>7. \A i \in 1..n : (i <= k => versions[i].version < v) /\ (i > k => v < versions[i].version)
    <3> HIDE DEF k
    <3> TAKE i \in 1..n
    <3>1. versions[i].version # v
      BY <1>1, <1>3, <2>1 DEF VersionsOf
    <3>2. CASE i <= k
      <4>1. k \in smaller /\ k \in 1..n
        BY <2>1, <2>4, <2>5, <3>2
      <4>2. i = k \/ versions[i].version < versions[k].version
        BY <2>1, <3>2, <4>1
      <4> QED
        BY <2>1, <2>2, <3>2, <4>1, <4>2
    <3>3. CASE i > k
      <4>1. i \notin smaller
        BY <2>1, <2>4, <2>5, <3>3
      <4> QED
        BY <2>1, <2>2, <2>5, <3>1, <3>3, <4>1
    <3> QED
      BY <2>1, <2>5, <3>2, <3>3
  <2> HIDE DEF k, vs
  <2>8. /\ vs \in Seq(Entry) /\ Len(vs) = n + 1
        /\ \A i \in 1..(n + 1) : vs[i] = IF i <= k THEN versions[i] ELSE IF i = k + 1 THEN x ELSE versions[i - 1]
    <3>1. k \in 0..Len(versions)
      BY <2>5 DEF n
    <3>2. versions \in Seq(Entry) /\ x \in Entry
      BY <2>1, <2>2
    <3>3. Inserted(vs, versions, k, x)
      BY <2>6, <3>1, <3>2, InsertAtFacts, Zenon
    <3> QED
      BY <3>3 DEF n, Inserted
  <2>9. DOMAIN vs = 1..(n + 1)
    BY <2>8, LenProperties
  (* Where an element of the new slice comes from. *)
  <2>10. ASSUME NEW i \in 1..(n + 1)
         PROVE  \/ i \in 1..k /\ i \in 1..n /\ vs[i] = versions[i]
                \/ i = k + 1 /\ vs[i] = x
                \/ i > k + 1 /\ i - 1 \in 1..n /\ vs[i] = versions[i - 1]
    <3>1. i \in Nat /\ k \in Nat /\ (i - 1) + 1 = i
      BY <2>5
    <3>2. i \in 1..k \/ i = k + 1 \/ i > k + 1
      BY <2>1, <2>5
    <3>3. i \in 1..k => i \in 1..n
      BY <2>1, <2>5
    <3>4. i > k + 1 => i - 1 \in 1..n /\ i - 1 > k
      BY <2>1, <2>5
    <3> QED
      BY <2>8, <3>1, <3>2, <3>3, <3>4
  <2>11. ASSUME NEW i \in 1..(n + 1), NEW j \in 1..(n + 1), i < j
         PROVE  vs[i].version < vs[j].version
    <3>1. CASE i \in 1..k
      <4>1. i \in 1..n /\ vs[i] = versions[i] /\ versions[i].version < v /\ i <= k
        BY <2>5, <2>7, <2>10, <3>1
      <4>2. CASE j \in 1..k
        <5>1. j \in 1..n /\ vs[j] = versions[j]
          BY <2>5, <2>10, <4>2
        <5> QED
          BY <2>1, <2>11, <4>1, <5>1
      <4>3. CASE j = k + 1
        BY <2>2, <2>5, <2>10, <4>1, <4>3
      <4>4. CASE j > k + 1
        <5>1. j - 1 \in 1..n /\ vs[j] = versions[j - 1] /\ j - 1 > k
          BY <2>5, <2>10, <4>4
        <5>2. i < j - 1
          BY <2>5, <4>1, <5>1
        <5> QED
          BY <2>1, <4>1, <5>1, <5>2
      <4> QED
        BY <2>5, <4>2, <4>3, <4>4
    <3>2. CASE i = k + 1
      <4>1. j - 1 \in 1..n /\ vs[j] = versions[j - 1] /\ j - 1 > k
        BY <2>5, <2>10, <2>11, <3>2
      <4> QED
        BY <2>2, <2>5, <2>7, <2>10, <3>2, <4>1
    <3>3. CASE i > k + 1
      <4>1. i - 1 \in 1..n /\ vs[i] = versions[i - 1]
        BY <2>5, <2>10, <3>3
      <4>2. j - 1 \in 1..n /\ vs[j] = versions[j - 1]
        BY <2>5, <2>10, <2>11, <3>3
      <4>3. i - 1 < j - 1
        BY <2>11
      <4> QED
        BY <2>1, <4>1, <4>2, <4>3
    <3> QED
      BY <2>5, <3>1, <3>2, <3>3
  <2>12. \A i \in 1..(n + 1) : vs[i].epoch = StartEpoch[vs[i].version]
    BY <2>1, <2>2, <2>10
  <2>13. VersionsOf(vs) = VersionsOf(versions) \cup {v}
    <3>1. VersionsOf(vs) \subseteq VersionsOf(versions) \cup {v}
      <4>1. \A i \in 1..(n + 1) : vs[i].version \in VersionsOf(versions) \cup {v}
        BY <2>1, <2>2, <2>10 DEF VersionsOf
      <4> QED
        BY <2>9, <4>1 DEF VersionsOf
    <3>2. ASSUME NEW j \in 1..n
          PROVE  \E i \in 1..(n + 1) : vs[i] = versions[j]
      <4>1. CASE j <= k
        <5>1. j <= k /\ j \in 1..(n + 1)
          BY <2>1, <2>5, <4>1
        <5> QED
          BY <2>8, <5>1
      <4>2. CASE j > k
        <5>1. j + 1 \in 1..(n + 1) /\ ~(j + 1 <= k) /\ j + 1 # k + 1 /\ (j + 1) - 1 = j
          BY <2>1, <2>5, <4>2
        <5>2. vs[j + 1] = versions[j]
          BY <2>8, <5>1
        <5> QED
          BY <5>1, <5>2
      <4> QED
        BY <2>5, <4>1, <4>2
    <3>3. VersionsOf(versions) \subseteq VersionsOf(vs)
      BY <2>1, <2>9, <3>2 DEF VersionsOf
    <3>4. v \in VersionsOf(vs)
      <4>1. k + 1 \in 1..(n + 1)
        BY <2>1, <2>5
      <4> QED
        BY <2>2, <2>5, <2>9, <2>10, <4>1 DEF VersionsOf
    <3> QED
      BY <3>1, <3>3, <3>4
  <2> QED
    BY <2>8, <2>9, <2>11, <2>12, <2>13 DEF SortedSlice, vs
<1> QED
  BY <1>2, <1>3

(* A version that is added with another epoch than agreed on stays so. *)
LEMMA AddKeepsEntries ==
    ASSUME versions \in Seq(Entry), NEW v \in Version, NEW e \in Nat, versions' = Added(versions, v, e)
    PROVE  /\ versions' \in Seq(Entry)
           /\ Agreed' => Agreed /\ versions' = Added(versions, v, StartEpoch[v])
<1> DEFINE smaller == {i \in DOMAIN versions : versions[i].version < v}
           n == Len(versions)
           k == Max({0} \cup smaller)
           x == [version |-> v, epoch |-> e]
<1>1. CASE v \in Known
  BY <1>1 DEF Added, Agreed
<1>2. CASE v \notin Known
  <2>1. n \in Nat /\ DOMAIN versions = 1..n /\ x \in Entry /\ x.epoch = e /\ x.version = v
    BY LenProperties DEF Entry
  <2>2. {0} \cup smaller \in SUBSET Nat /\ \A i \in {0} \cup smaller : i <= n
    BY <2>1
  <2>3. k \in {0} \cup smaller
    BY <2>1, <2>2, MaxIsGreatest
  <2>4. k \in 0..n
    BY <2>1, <2>2, <2>3
  <2>5. versions' = InsertAt(versions, k + 1, x)
    BY <1>2 DEF Added
  <2> HIDE DEF k, x, n, smaller
  <2>6. Inserted(versions', versions, k, x)
    <3>1. k \in 0..Len(versions)
      BY <2>4 DEF n
    <3> QED
      BY <2>1, <2>5, <3>1, InsertAtFacts
  <2>7. /\ versions' \in Seq(Entry) /\ Len(versions') = n + 1
        /\ \A i \in 1..(n + 1) : versions'[i] = IF i <= k THEN versions[i] ELSE IF i = k + 1 THEN x ELSE versions[i - 1]
    BY <2>6 DEF n, Inserted
  <2>8. DOMAIN versions' = 1..(n + 1)
    BY <2>7, LenProperties
  <2>9. ASSUME Agreed' PROVE Agreed /\ e = StartEpoch[v]
    <3>1. \A i \in 1..(n + 1) : versions'[i].epoch = StartEpoch[versions'[i].version]
      BY <2>8, <2>9 DEF Agreed
    <3>2. k + 1 \in 1..(n + 1) /\ versions'[k + 1] = x
      BY <2>1, <2>4, <2>7
    <3>3. ASSUME NEW j \in 1..n PROVE \E i \in 1..(n + 1) : versions'[i] = versions[j]
      <4>1. CASE j <= k
        BY <2>1, <2>4, <2>7, <4>1
      <4>2. CASE j > k
        <5>1. j + 1 \in 1..(n + 1) /\ ~(j + 1 <= k) /\ j + 1 # k + 1 /\ (j + 1) - 1 = j
          BY <2>1, <2>4, <4>2
        <5>2. versions'[j + 1] = versions[j]
          BY <2>7, <5>1
        <5> QED
          BY <5>1, <5>2
      <4> QED
        BY <2>4, <4>1, <4>2
    <3>4. Agreed
      BY <2>1, <3>1, <3>3 DEF Agreed
    <3> QED
      BY <2>1, <3>1, <3>2, <3>4
  <2> QED
    BY <2>7, <2>9
<1> QED
  BY <1>1, <1>2

-----------------------------------------------------------------------------
(* The version in force in the epoch of a slot. *)
InForceAt(vs, s) == VersionForEpoch(vs, EpochFromSlot(s))

LEMMA EpochsOfSlots ==
    ASSUME NEW s \in Nat, NEW t \in Nat, s <= t
    PROVE  /\ EpochFromSlot(s) \in Nat /\ EpochFromSlot(t) \in Nat
           /\ EpochFromSlot(s) <= EpochFromSlot(t)
<1>1. SlotsPerEpoch \in Nat /\ SlotsPerEpoch > 0
  BY ProviderAssumption
<1>2. ASSUME NEW d \in Nat, d > 0
      PROVE  s \div d \in Nat /\ t \div d \in Nat /\ s \div d <= t \div d
  BY <1>2, SMTT(30)
<1> QED
  BY <1>1, <1>2 DEF EpochFromSlot

(* Later slots and more versions never put an older version in force. *)
LEMMA InForceGrows ==
    ASSUME NEW vs, SortedSlice(vs), GenesisVersion \in VersionsOf(vs),
           NEW ws, SortedSlice(ws), VersionsOf(vs) \subseteq VersionsOf(ws),
           NEW s \in Nat, NEW t \in Nat, s <= t
    PROVE  /\ InForceAt(vs, s) \in VersionsOf(vs) /\ InForceAt(ws, t) \in VersionsOf(ws)
           /\ InForceAt(vs, s) \in Version /\ InForceAt(ws, t) \in Version
           /\ InForceAt(vs, s) <= InForceAt(ws, t)
<1>1. /\ EpochFromSlot(s) \in Nat /\ EpochFromSlot(t) \in Nat
      /\ EpochFromSlot(s) <= EpochFromSlot(t)
  BY EpochsOfSlots
<1>2. VersionsOf(vs) \in SUBSET Version /\ VersionsOf(ws) \in SUBSET Version
  BY SliceFacts
<1>3. Newest(VersionsOf(vs), EpochFromSlot(s), InForceAt(vs, s))
  BY <1>1, ScanFindsNewest DEF InForceAt
<1>4. Newest(VersionsOf(ws), EpochFromSlot(t), InForceAt(ws, t))
  BY <1>1, ScanFindsNewest DEF InForceAt
<1>5. InForceAt(vs, s) \in VersionsOf(vs) /\ InForceAt(ws, t) \in VersionsOf(ws)
  BY <1>3, <1>4 DEF Newest
<1>6. InForceAt(vs, s) <= InForceAt(ws, t)
  BY <1>1, <1>2, <1>3, <1>4, NewestMonotone
<1> QED
  BY <1>2, <1>5, <1>6

(* A version that is added is in force, or what was in force still is. *)
LEMMA InForceAfterAdd ==
    ASSUME NEW vs, SortedSlice(vs), GenesisVersion \in VersionsOf(vs),
           NEW ws, SortedSlice(ws), NEW v \in Version, VersionsOf(ws) = VersionsOf(vs) \cup {v},
           NEW s \in Nat
    PROVE  /\ InForceAt(ws, s) \in {InForceAt(vs, s), v}
           /\ StartEpoch[v] > EpochFromSlot(s) => InForceAt(ws, s) = InForceAt(vs, s)
<1>1. EpochFromSlot(s) \in Nat
  BY EpochsOfSlots
<1>2. VersionsOf(vs) \in SUBSET Version /\ VersionsOf(ws) \in SUBSET Version
  BY SliceFacts
<1>3. Newest(VersionsOf(vs), EpochFromSlot(s), InForceAt(vs, s))
  BY <1>1, ScanFindsNewest DEF InForceAt
<1>4. Newest(VersionsOf(ws), EpochFromSlot(s), InForceAt(ws, s))
  BY <1>1, ScanFindsNewest DEF InForceAt
<1> DEFINE a == InForceAt(vs, s)
           b == InForceAt(ws, s)
<1> HIDE DEF a, b
<1>5. a \in Nat /\ b \in Nat /\ StartEpoch[v] \in Nat /\ StartEpoch[b] \in Nat
  BY <1>2, <1>3, <1>4, VersionFacts DEF Newest, a, b
<1>6. b # v => a = b
  <2>1. a <= b
    BY <1>3, <1>4 DEF Newest, a, b
  <2>2. b # v => b <= a
    BY <1>3, <1>4 DEF Newest, a, b
  <2> QED
    BY <1>5, <2>1, <2>2
<1>7. StartEpoch[v] > EpochFromSlot(s) => b # v
  BY <1>1, <1>4, <1>5 DEF Newest, b
<1> QED
  BY <1>6, <1>7 DEF a, b

-----------------------------------------------------------------------------
(* The inductive invariant of the provider.  Unless something panicked or  *)
(* was not agreed on: while the provider is set up it knows at most the    *)
(* parameters of the genesis version; then the genesis version is in the   *)
(* slice, every version in the slice has parameters or a hash of them, and *)
(* the version in force at the highest slot has parameters.                *)
Slots == committedSlot \in Nat /\ highestSlot \in Nat /\ committedSlot <= highestSlot

Parameters ==
    /\ params \in SUBSET Version /\ future \in SUBSET Version /\ pending \in SUBSET params
    /\ latest \in params \cup {NoVersion} /\ committed \in params \cup {NoVersion}
    /\ \A v \in params : v <= latest /\ HasAPI(v)
    /\ SortedSlice(versions)
    /\ VersionsOf(versions) \subseteq params \cup future

WhileSettingUp ==
    SettingUp => /\ params \in SUBSET {GenesisVersion} /\ params = pending
                 /\ future = {} /\ committed = NoVersion

WhenSetUp ==
    ~SettingUp => /\ GenesisVersion \in VersionsOf(versions) /\ GenesisVersion \in params
                  /\ InForceAt(versions, committedSlot) <= committed
                  /\ committed <= InForceAt(versions, highestSlot)
                  /\ InForceAt(versions, highestSlot) \in params

ProviderInv ==
    /\ callback \in BOOLEAN /\ panicked \in BOOLEAN
    /\ versions \in Seq(Entry) /\ pending \in SUBSET Version
    /\ ~panicked /\ Agreed => Slots /\ Parameters /\ WhileSettingUp /\ WhenSetUp

LEMMA InitProvider == Init => ProviderInv
<1> SUFFICES ASSUME Init PROVE ProviderInv
  OBVIOUS
<1>1. SortedSlice(versions) /\ VersionsOf(versions) = {}
  BY DEF Init, SortedSlice, VersionsOf
<1>2. /\ callback \in BOOLEAN /\ panicked \in BOOLEAN
      /\ versions \in Seq(Entry) /\ pending \in SUBSET Version
  BY <1>1 DEF Init, SortedSlice
<1>3. Slots
  BY DEF Init, Slots
<1>4. Parameters
  BY <1>1 DEF Init, Parameters
<1>5. WhileSettingUp /\ WhenSetUp
  BY DEF Init, WhileSettingUp, WhenSetUp, SettingUp
<1> QED
  BY <1>2, <1>3, <1>4, <1>5 DEF ProviderInv

(* What of the state is a natural number. *)
LEMMA ProviderNumbers ==
    ASSUME Parameters
    PROVE  /\ latest \in Nat /\ committed \in Nat /\ params \in SUBSET Nat
           /\ \A v \in params : v # NoVersion /\ latest # NoVersion
  BY VersionFacts DEF Parameters, NoVersion

LEMMA SetCommittedSlotKeeps ==
    ASSUME ProviderInv, NEW s \in Nat, SettingUp => pending = {}, SetCommittedSlot(s)
    PROVE  /\ ProviderInv'
           /\ Agreed /\ ~SettingUp /\ VersionsOf(versions) \subseteq params => ~panicked'
<1> DEFINE v == InForceAt(versions, s)
<1>0. CASE ~Agreed
  <2>1. /\ UNCHANGED <<versions, pending, callback>> /\ panicked' \in BOOLEAN
    BY DEF SetCommittedSlot, UpdateCommittedAPI, ProviderInv
  <2> QED
    BY <1>0, <2>1 DEF ProviderInv, Agreed
<1> SUFFICES ASSUME Agreed
             PROVE  ProviderInv' /\ (~SettingUp /\ VersionsOf(versions) \subseteq params => ~panicked')
  BY <1>0
<1>1. ~panicked /\ Slots /\ Parameters /\ WhileSettingUp /\ WhenSetUp
  BY DEF ProviderInv, SetCommittedSlot, Running
<1>2. /\ committedSlot' = s /\ highestSlot' = (IF s > highestSlot THEN s ELSE highestSlot)
      /\ UNCHANGED <<versions, params, future, latest, pending, callback>>
      /\ (SettingUp => pending = {})
      /\ IF latest = NoVersion \/ (v # NoVersion /\ v <= committed)
         THEN committed' = committed /\ panicked' = panicked
         ELSE IF ApiAvailable(v)
              THEN committed' = v /\ panicked' = panicked
              ELSE panicked' = TRUE /\ committed' = committed
  BY DEF SetCommittedSlot, UpdateCommittedAPI, InForceAt
<1> HIDE DEF v
<1>3. Slots' /\ s <= highestSlot' /\ highestSlot <= highestSlot' /\ highestSlot' \in {s, highestSlot}
  BY <1>1, <1>2 DEF Slots
<1>4. /\ callback' \in BOOLEAN /\ panicked' \in BOOLEAN
      /\ versions' \in Seq(Entry) /\ pending' \in SUBSET Version
  BY <1>2 DEF ProviderInv
<1>5. CASE SettingUp
  <2>1. latest = NoVersion
    BY <1>1, <1>2, <1>5 DEF Parameters, WhileSettingUp
  <2>2. UNCHANGED <<versions, params, future, latest, pending, callback, committed, panicked>>
    BY <1>2, <2>1
  <2>3. Parameters' /\ WhileSettingUp' /\ WhenSetUp'
    BY <1>1, <1>5, <2>2 DEF Parameters, WhileSettingUp, WhenSetUp, SettingUp, HasAPI
  <2> QED
    BY <1>1, <1>3, <1>4, <1>5, <2>2, <2>3 DEF ProviderInv
<1>6. CASE ~SettingUp
  <2>1. /\ v \in VersionsOf(versions) /\ v \in Version /\ v \in Nat /\ v # NoVersion
        /\ InForceAt(versions, highestSlot) \in Nat /\ InForceAt(versions, highestSlot') \in Nat
        /\ v <= InForceAt(versions, highestSlot')
        /\ InForceAt(versions, highestSlot) <= InForceAt(versions, highestSlot')
    <3>1. SortedSlice(versions) /\ GenesisVersion \in VersionsOf(versions)
      BY <1>1, <1>6 DEF Parameters, WhenSetUp
    <3>2. highestSlot \in Nat /\ highestSlot' \in Nat
      BY <1>1, <1>3 DEF Slots
    <3>3. v \in VersionsOf(versions) /\ v \in Version /\ v <= InForceAt(versions, highestSlot')
      BY <1>3, <3>1, <3>2, InForceGrows DEF v
    <3>4. /\ InForceAt(versions, highestSlot) \in Version /\ InForceAt(versions, highestSlot') \in Version
          /\ InForceAt(versions, highestSlot) <= InForceAt(versions, highestSlot')
      BY <1>3, <3>1, <3>2, InForceGrows
    <3> QED
      BY <3>3, <3>4, VersionFacts
  <2>2. latest # NoVersion
    BY <1>1, <1>6, ProviderNumbers DEF WhenSetUp
  <2>3. committed \in Nat /\ params \in SUBSET Nat /\ latest \in Nat
    BY <1>1, ProviderNumbers
  <2>4. ASSUME ~panicked' PROVE Parameters' /\ WhileSettingUp' /\ WhenSetUp'
    <3>1. CASE v <= committed
      <4>1. committed' = committed
        BY <1>2, <2>1, <3>1
      <4>2. InForceAt(versions, highestSlot') \in params
        <5>1. CASE highestSlot' = highestSlot
          BY <1>1, <1>6, <5>1 DEF WhenSetUp
        <5>2. CASE highestSlot' = s
          <6>1. InForceAt(versions, highestSlot') = v
            BY <5>2 DEF v
          <6>2. committed <= InForceAt(versions, highestSlot) /\ InForceAt(versions, highestSlot) \in params
            BY <1>1, <1>6 DEF WhenSetUp
          <6>3. InForceAt(versions, highestSlot) = v
            BY <2>1, <2>3, <3>1, <6>1, <6>2
          <6> QED
            BY <6>1, <6>2, <6>3
        <5> QED
          BY <1>3, <5>1, <5>2
      <4>3. committed <= InForceAt(versions, highestSlot')
        BY <1>1, <1>6, <2>1, <2>3 DEF WhenSetUp
      <4>4. InForceAt(versions, committedSlot') <= committed
        BY <1>2, <3>1 DEF v
      <4>5. Parameters'
        BY <1>1, <1>2, <4>1 DEF Parameters, HasAPI
      <4> QED
        BY <1>1, <1>2, <1>6, <4>1, <4>2, <4>3, <4>4, <4>5 DEF WhileSettingUp, WhenSetUp, SettingUp
    <3>2. CASE ~(v <= committed)
      <4>1. committed' = v /\ ApiAvailable(v)
        BY <1>2, <2>2, <2>4, <3>2
      <4>2. v \in params
        BY <1>1, <2>1, <2>2, <4>1 DEF ApiAvailable, apiForVersion, Parameters
      <4>3. InForceAt(versions, highestSlot') \in params
        BY <1>1, <1>2, <1>3, <1>6, <4>2 DEF WhenSetUp, v
      <4>4. InForceAt(versions, committedSlot') = v
        BY <1>2 DEF v
      <4>5. Parameters'
        BY <1>1, <1>2, <4>1, <4>2 DEF Parameters, HasAPI
      <4> QED
        BY <1>1, <1>2, <1>6, <2>1, <4>1, <4>3, <4>4, <4>5 DEF WhileSettingUp, WhenSetUp, SettingUp
    <3> QED
      BY <3>1, <3>2
  <2>5. VersionsOf(versions) \subseteq params => ~panicked'
    BY <1>1, <1>2, <2>1 DEF Parameters, ApiAvailable, apiForVersion
  <2> QED
    BY <1>3, <1>4, <1>6, <2>4, <2>5 DEF ProviderInv
<1> QED
  BY <1>5, <1>6

LEMMA AddParametersHalfKeeps ==
    ASSUME ProviderInv, NEW v \in Version, AddParametersHalf(v),
           SettingUp /\ Agreed /\ ~panicked' => v = GenesisVersion
    PROVE  ProviderInv'
<1>0. CASE ~Agreed \/ panicked'
  <2>1. /\ UNCHANGED <<versions, callback>> /\ panicked' \in BOOLEAN /\ pending' = pending \cup {v}
    BY DEF AddParametersHalf, AddProtocolParameters, ProviderInv
  <2> QED
    BY <1>0, <2>1 DEF ProviderInv, Agreed
<1> SUFFICES ASSUME Agreed, ~panicked' PROVE ProviderInv'
  BY <1>0
<1>1. ~panicked /\ Slots /\ Parameters /\ WhileSettingUp /\ WhenSetUp
  BY DEF ProviderInv, AddParametersHalf, Running
<1>2. /\ UNCHANGED <<versions, committed, committedSlot, highestSlot, callback>>
      /\ params' = params \cup {v} /\ future' = future \ {v} /\ pending' = pending \cup {v}
      /\ SettingUp => v = GenesisVersion
      /\ IF v <= latest
         THEN latest' = latest /\ panicked' = panicked
         ELSE IF apiForVersion(params \cup {v}, v)
              THEN latest' = v /\ panicked' = panicked
              ELSE panicked' = TRUE /\ latest' = latest
  BY DEF AddParametersHalf, AddProtocolParameters
<1>3. /\ callback' \in BOOLEAN /\ panicked' \in BOOLEAN
      /\ versions' \in Seq(Entry) /\ pending' \in SUBSET Version
  BY <1>2 DEF ProviderInv
<1>4. /\ v \in Nat /\ v # NoVersion /\ v >= GenesisVersion /\ GenesisVersion \in Nat
      /\ latest \in Nat /\ committed \in Nat /\ params \in SUBSET Nat /\ NoVersion = 0
  BY <1>1, VersionFacts, ProviderNumbers
<1>5. committed <= latest
  BY <1>1, <1>4 DEF Parameters
<1>6. ASSUME ~panicked' PROVE v <= latest' /\ latest <= latest' /\ latest' \in params' /\ HasAPI(v)
  <2>1. CASE v <= latest
    <3>1. latest' = latest /\ latest # NoVersion /\ latest \in params /\ HasAPI(latest)
      BY <1>1, <1>2, <1>4, <2>1 DEF Parameters
    <3>2. GenesisVersion \in params
      BY <1>1, <1>2, <3>1 DEF WhileSettingUp, WhenSetUp
    <3>3. HasAPI(GenesisVersion)
      BY <1>1, <3>2 DEF Parameters
    <3>4. HasAPI(v)
      BY <1>4, <2>1, <3>1, <3>3 DEF HasAPI
    <3> QED
      BY <1>2, <1>4, <2>1, <3>1, <3>4
  <2>2. CASE ~(v <= latest)
    <3>1. latest' = v /\ apiForVersion(params \cup {v}, v)
      BY <1>2, <1>6, <2>2
    <3>2. HasAPI(v)
      BY <1>4, <1>5, <2>2, <3>1 DEF apiForVersion
    <3> QED
      BY <1>2, <1>4, <2>2, <3>1, <3>2
  <2> QED
    BY <2>1, <2>2
<1>7. ASSUME ~panicked' PROVE Parameters'
  <2>1. /\ params' \in SUBSET Version /\ future' \in SUBSET Version /\ pending' \in SUBSET params'
        /\ committed' \in params' \cup {NoVersion} /\ VersionsOf(versions) \subseteq params' \cup future'
    BY <1>1, <1>2 DEF Parameters
  <2>2. \A w \in params' : w <= latest' /\ HasAPI(w)
    <3>1. \A w \in params : w <= latest /\ HasAPI(w)
      BY <1>1 DEF Parameters
    <3>2. latest' \in Nat
      BY <1>2, <1>4
    <3> QED
      BY <1>2, <1>4, <1>6, <1>7, <3>1, <3>2
  <2> QED
    BY <1>1, <1>2, <1>6, <1>7, <2>1, <2>2 DEF Parameters, HasAPI
<1>8. WhileSettingUp' /\ WhenSetUp' /\ Slots'
  BY <1>1, <1>2 DEF WhileSettingUp, WhenSetUp, SettingUp, Slots
<1> QED
  BY <1>3, <1>7, <1>8 DEF ProviderInv

(* Without a callback, parameters of another version than the genesis      *)
(* version, or of any but version 3, are refused with a panic.             *)
LEMMA ClientAddsGenesis ==
    ASSUME ProviderInv, Agreed, ~callback, NEW v \in Version, AddParametersHalf(v), ~panicked'
    PROVE  v = GenesisVersion
<1>1. ~panicked /\ Parameters
  BY DEF ProviderInv, AddParametersHalf, Running
<1>2. v <= latest \/ apiForVersion(params \cup {v}, v)
  BY DEF AddParametersHalf, AddProtocolParameters
<1>3. /\ v \in Nat /\ latest \in Nat /\ committed \in Nat /\ NoVersion = 0 /\ GenesisVersion \in Nat
      /\ GenesisVersion >= 3 /\ v >= GenesisVersion
  BY <1>1, VersionFacts, ProviderNumbers
<1>4. (latest # NoVersion => latest = 3) /\ (committed # NoVersion => committed = 3)
  BY <1>1 DEF Parameters, HasAPI
<1>5. v = 3
  BY <1>2, <1>3, <1>4 DEF apiForVersion, HasAPI
<1> QED
  BY <1>3, <1>5

LEMMA AgreedVersionKeeps ==
    ASSUME ProviderInv, Agreed, NEW v, NEW e, AddVersionHalf(v, e),
           Added(versions, v, e) = Added(versions, v, StartEpoch[v])
    PROVE  ProviderInv' /\ ~panicked' /\ ~SettingUp'
<1> DEFINE ws == Added(versions, v, StartEpoch[v])
           w == InForceAt(ws, committedSlot)
<1>1. ~panicked /\ Slots /\ Parameters /\ WhileSettingUp /\ WhenSetUp
  BY DEF ProviderInv, AddVersionHalf, Running
<1>2. /\ v \in pending /\ pending' = pending \ {v} /\ versions' = ws
      /\ UNCHANGED <<params, future, latest, committedSlot, highestSlot, callback>>
      /\ IF latest = NoVersion \/ (w # NoVersion /\ w <= committed)
         THEN committed' = committed /\ panicked' = panicked
         ELSE IF ApiAvailable(w)
              THEN committed' = w /\ panicked' = panicked
              ELSE panicked' = TRUE /\ committed' = committed
  BY DEF AddVersionHalf, UpdateCommittedAPI, InForceAt
<1>3. v \in params /\ v \in Version /\ latest # NoVersion /\ latest \in Nat /\ committed \in Nat
  BY <1>1, <1>2, ProviderNumbers DEF Parameters
<1>4. SortedSlice(versions) /\ SortedSlice(ws) /\ VersionsOf(ws) = VersionsOf(versions) \cup {v}
  BY <1>1, <1>3, AddKeepsSorted DEF Parameters
<1>5. ~SettingUp'
  <2>1. VersionsOf(<<>>) = {}
    BY DEF VersionsOf
  <2> QED
    BY <1>2, <1>4, <2>1 DEF SettingUp
<1>6. GenesisVersion \in VersionsOf(ws) /\ GenesisVersion \in params
  BY <1>1, <1>3, <1>4 DEF WhileSettingUp, WhenSetUp
<1> HIDE DEF ws, w
<1>7. Slots' /\ committedSlot \in Nat /\ highestSlot \in Nat /\ committedSlot <= highestSlot
  BY <1>1, <1>2 DEF Slots
<1>8. /\ w \in Version /\ w \in Nat /\ w # NoVersion /\ w \in VersionsOf(ws)
      /\ InForceAt(ws, highestSlot) \in VersionsOf(ws)
      /\ InForceAt(ws, highestSlot) \in Nat /\ w <= InForceAt(ws, highestSlot)
  <2>1. /\ w \in VersionsOf(ws) /\ w \in Version /\ InForceAt(ws, highestSlot) \in Version
        /\ InForceAt(ws, highestSlot) \in VersionsOf(ws)
        /\ w <= InForceAt(ws, highestSlot)
    BY <1>4, <1>6, <1>7, InForceGrows DEF w
  <2> QED
    BY <2>1, VersionFacts
(* What is in force at the highest slot has its parameters, and what is in *)
(* force at the committed slot is either covered or has them too.          *)
<1>9. /\ committed <= InForceAt(ws, highestSlot) /\ InForceAt(ws, highestSlot) \in params
      /\ w <= committed \/ w \in params
  <2>1. CASE SettingUp
    <3>1. VersionsOf(versions) = {} /\ committed = NoVersion
      BY <1>1, <2>1 DEF WhileSettingUp, SettingUp, VersionsOf
    <3> QED
      BY <1>3, <1>4, <1>8, <3>1 DEF NoVersion
  <2>2. CASE ~SettingUp
    <3>1. /\ GenesisVersion \in VersionsOf(versions)
          /\ InForceAt(versions, committedSlot) <= committed
          /\ committed <= InForceAt(versions, highestSlot)
          /\ InForceAt(versions, highestSlot) \in params
      BY <1>1, <2>2 DEF WhenSetUp
    <3>2. /\ InForceAt(ws, highestSlot) \in {InForceAt(versions, highestSlot), v}
          /\ w \in {InForceAt(versions, committedSlot), v}
      BY <1>3, <1>4, <1>7, <3>1, InForceAfterAdd DEF w
    <3>3. /\ InForceAt(versions, highestSlot) <= InForceAt(ws, highestSlot)
          /\ InForceAt(versions, highestSlot) \in Version
      BY <1>4, <1>7, <3>1, InForceGrows
    <3>4. committed <= InForceAt(ws, highestSlot)
      <4>1. InForceAt(versions, highestSlot) \in Nat
        BY <3>3, VersionFacts
      <4> QED
        BY <1>3, <1>8, <3>1, <3>3, <4>1
    <3> QED
      BY <1>3, <3>1, <3>2, <3>4
  <2> QED
    BY <2>1, <2>2
<1>10. ~panicked' /\ committed' \in {committed, w} /\ w <= committed' /\ committed' <= InForceAt(ws, highestSlot)
       /\ committed' \in params \cup {NoVersion}
  <2>1. CASE w <= committed
    BY <1>1, <1>2, <1>8, <1>9, <2>1 DEF Parameters
  <2>2. CASE ~(w <= committed)
    <3>1. w \in params /\ HasAPI(w)
      BY <1>1, <1>9, <2>2 DEF Parameters
    <3>2. ApiAvailable(w)
      BY <1>8, <3>1 DEF ApiAvailable, apiForVersion
    <3> QED
      BY <1>1, <1>2, <1>3, <1>8, <2>2, <3>1, <3>2
  <2> QED
    BY <2>1, <2>2
<1>11. Parameters'
  <2>1. VersionsOf(versions)' = VersionsOf(ws)
    BY <1>2 DEF VersionsOf
  <2>2. SortedSlice(versions)'
    BY <1>2, <1>4 DEF SortedSlice
  <2> QED
    BY <1>1, <1>2, <1>3, <1>4, <1>10, <2>1, <2>2 DEF Parameters, HasAPI
<1>12. WhileSettingUp' /\ WhenSetUp'
  <2>1. InForceAt(versions, committedSlot)' = w /\ InForceAt(versions, highestSlot)' = InForceAt(ws, highestSlot)
    BY <1>2 DEF w, InForceAt, VersionForEpoch
  <2>2. VersionsOf(versions)' = VersionsOf(ws)
    BY <1>2 DEF VersionsOf
  <2> QED
    BY <1>2, <1>5, <1>6, <1>9, <1>10, <2>1, <2>2 DEF WhileSettingUp, WhenSetUp
<1> QED
  <2>1. /\ callback' \in BOOLEAN /\ panicked' \in BOOLEAN
        /\ versions' \in Seq(Entry) /\ pending' \in SUBSET Version
    BY <1>1, <1>2, <1>4, <1>10 DEF ProviderInv, SortedSlice
  <2> QED
    BY <1>5, <1>7, <1>10, <1>11, <1>12, <2>1 DEF ProviderInv

LEMMA AddVersionHalfKeeps ==
    ASSUME ProviderInv, NEW v, NEW e \in Nat, AddVersionHalf(v, e)
    PROVE  ProviderInv' /\ (Agreed' => ~panicked' /\ ~SettingUp')
<1>1. /\ v \in pending /\ pending' = pending \ {v} /\ versions' = Added(versions, v, e)
      /\ callback' = callback /\ panicked' \in BOOLEAN /\ v \in Version /\ versions \in Seq(Entry)
  BY DEF AddVersionHalf, UpdateCommittedAPI, ProviderInv
<1>2. versions' \in Seq(Entry) /\ (Agreed' => Agreed /\ versions' = Added(versions, v, StartEpoch[v]))
  BY <1>1, AddKeepsEntries
<1>3. CASE Agreed'
  BY <1>1, <1>2, <1>3, AgreedVersionKeeps
<1>4. CASE ~Agreed'
  BY <1>1, <1>2, <1>4 DEF ProviderInv
<1> QED
  BY <1>3, <1>4

LEMMA AddFutureVersionKeeps ==
    ASSUME ProviderInv, NEW v \in Version, AddFutureVersion(v)
    PROVE  ProviderInv'
<1> DEFINE ws == Added(versions, v, StartEpoch[v])
<1>0. /\ versions' = ws /\ UNCHANGED <<pending, panicked, callback>> /\ StartEpoch[v] \in Nat
      /\ versions \in Seq(Entry)
  BY VersionFacts DEF AddFutureVersion, ProviderInv
<1>a. versions' \in Seq(Entry) /\ (Agreed' => Agreed)
  BY <1>0, AddKeepsEntries
<1>b. CASE ~Agreed'
  BY <1>0, <1>a, <1>b DEF ProviderInv
<1> SUFFICES ASSUME Agreed PROVE ProviderInv'
  BY <1>a, <1>b
<1>1. ~panicked /\ Slots /\ Parameters /\ WhileSettingUp /\ WhenSetUp
  BY DEF ProviderInv, AddFutureVersion, Running
<1>2. /\ ~SettingUp /\ StartEpoch[v] > EpochFromSlot(highestSlot)
      /\ versions' = ws /\ future' = future \cup {v}
      /\ UNCHANGED <<params, latest, committed, committedSlot, highestSlot, pending, panicked, callback>>
  BY DEF AddFutureVersion
<1>3. SortedSlice(versions) /\ SortedSlice(ws) /\ VersionsOf(ws) = VersionsOf(versions) \cup {v}
  BY <1>1, AddKeepsSorted DEF Parameters
<1> HIDE DEF ws
<1>4. ~SettingUp'
  <2>1. VersionsOf(<<>>) = {}
    BY DEF VersionsOf
  <2> QED
    BY <1>2, <1>3, <2>1 DEF SettingUp
<1>5. Slots' /\ committedSlot \in Nat /\ highestSlot \in Nat /\ committedSlot <= highestSlot
  BY <1>1, <1>2 DEF Slots
<1>6. GenesisVersion \in VersionsOf(versions)
  BY <1>1, <1>2 DEF WhenSetUp
(* The version is in force neither at the highest slot nor before it. *)
<1>7. /\ InForceAt(ws, highestSlot) = InForceAt(versions, highestSlot)
      /\ InForceAt(ws, committedSlot) = InForceAt(versions, committedSlot)
  <2>1. StartEpoch[v] > EpochFromSlot(committedSlot)
    BY <1>2, <1>5, EpochsOfSlots, VersionFacts
  <2> QED
    BY <1>2, <1>3, <1>5, <1>6, <2>1, InForceAfterAdd
<1>8. VersionsOf(versions)' = VersionsOf(ws) /\ SortedSlice(versions)'
  BY <1>2, <1>3 DEF VersionsOf, SortedSlice
<1>9. Parameters'
  BY <1>1, <1>2, <1>3, <1>8 DEF Parameters, HasAPI
<1>10. WhileSettingUp' /\ WhenSetUp'
  <2>1. /\ InForceAt(versions, committedSlot)' = InForceAt(versions, committedSlot)
        /\ InForceAt(versions, highestSlot)' = InForceAt(versions, highestSlot)
    BY <1>2, <1>7 DEF InForceAt, VersionForEpoch
  <2> QED
    BY <1>1, <1>2, <1>3, <1>4, <1>8, <2>1 DEF WhileSettingUp, WhenSetUp
<1> QED
  BY <1>2, <1>5, <1>9, <1>10, <1>a DEF ProviderInv

LEMMA ProviderStutters ==
    ASSUME ProviderInv, UNCHANGED vars
    PROVE  ProviderInv'
<1>1. UNCHANGED <<versions, params, future, latest, committed, committedSlot, highestSlot, pending, panicked, callback>>
  BY DEF vars
<1> QED
  BY <1>1 DEF ProviderInv, Slots, Parameters, WhileSettingUp, WhenSetUp, SettingUp, HasAPI, Agreed

LEMMA NextKeepsProvider == ProviderInv /\ Next => ProviderInv'
<1> SUFFICES ASSUME ProviderInv, Next PROVE ProviderInv'
  OBVIOUS
<1>1. CASE \E s \in 0..MaxSlot : (SettingUp => pending = {}) /\ SetCommittedSlot(s)
  BY <1>1, SetCommittedSlotKeeps, ProviderAssumption
<1>2. CASE \E v \in Version : (SettingUp => v = GenesisVersion) /\ AddParametersHalf(v)
  BY <1>2, AddParametersHalfKeeps
<1>3. CASE \E v \in Version : AddVersionHalf(v, StartEpoch[v])
  BY <1>3, AddVersionHalfKeeps, VersionFacts
<1>4. CASE \E v \in Version : AddFutureVersion(v)
  BY <1>4, AddFutureVersionKeeps
<1> QED
  BY <1>1, <1>2, <1>3, <1>4 DEF Next

(* The invariant says that readers get what they should. *)
LEMMA InvIsConsistent == ProviderInv => ProviderIsConsistent
<1> SUFFICES ASSUME ProviderInv, ~panicked, Agreed, versions # <<>>
             PROVE  /\ InForce(EpochFromSlot(committedSlot)) <= committed
                    /\ committed <= InForce(EpochFromSlot(highestSlot))
                    /\ APIForSlot(highestSlot)
                    /\ \A i \in DOMAIN versions : ParametersHashExists(versions[i].version)
  BY DEF ProviderIsConsistent, CommittedIsInForce, ReadersSucceed
<1>1. Slots /\ Parameters /\ WhenSetUp /\ ~SettingUp
  BY DEF ProviderInv, SettingUp
<1>2. SortedSlice(versions) /\ GenesisVersion \in VersionsOf(versions) /\ VersionsOf(versions) \in SUBSET Version
  BY <1>1, SliceFacts DEF Parameters, WhenSetUp
<1>3. Known = VersionsOf(versions)
  BY DEF Known, VersionsOf
<1>4. ASSUME NEW s \in Nat PROVE InForce(EpochFromSlot(s)) = InForceAt(versions, s)
  <2>1. EpochFromSlot(s) \in Nat
    BY EpochsOfSlots
  <2>2. Newest(Known, EpochFromSlot(s), InForceAt(versions, s))
    BY <1>2, <1>3, <2>1, ScanFindsNewest DEF InForceAt
  <2> QED
    BY <1>2, <1>3, <2>1, <2>2, NewestIsMax DEF InForce
<1>5. /\ InForce(EpochFromSlot(committedSlot)) <= committed
      /\ committed <= InForce(EpochFromSlot(highestSlot))
  BY <1>1, <1>4 DEF Slots, WhenSetUp
<1>6. APIForSlot(highestSlot)
  <2>1. InForceAt(versions, highestSlot) \in params
    BY <1>1 DEF WhenSetUp
  <2>2. HasAPI(InForceAt(versions, highestSlot)) /\ latest # NoVersion /\ InForceAt(versions, highestSlot) # NoVersion
    BY <1>1, <2>1, ProviderNumbers DEF Parameters
  <2> QED
    BY <2>1, <2>2 DEF APIForSlot, APIForEpoch, ApiAvailable, apiForVersion, InForceAt
<1>7. \A i \in DOMAIN versions : ParametersHashExists(versions[i].version)
  BY <1>1 DEF Parameters, VersionsOf, ParametersHashExists
<1> QED
  BY <1>5, <1>6, <1>7

-----------------------------------------------------------------------------
(* The inductive invariant of the client: it has no callback and is told   *)
(* of no upgrade, New adds the versions listed one after the other, both   *)
(* halves of each, and no call panics but for the reasons named.           *)
ClientInv ==
    /\ (activity = "node") <=> (phase = "none")
    /\ phase # "none" => /\ callback = FALSE /\ future = {} /\ listed \in Seq(Entry)
                         /\ \A v \in pending : listed # <<>> /\ v = Head(listed).version
    /\ phase = "new" => SettingUp /\ listed = <<>>
    /\ phase = "ready" => /\ listed = <<>>
                          /\ Agreed /\ ~SettingUp /\ ~misled => ~panicked

LEMMA InitClient == SessionInit => ProviderInv /\ ClientInv
<1> SUFFICES ASSUME SessionInit PROVE ProviderInv /\ ClientInv
  OBVIOUS
<1>1. ProviderInv
  BY InitProvider DEF SessionInit
<1>2. listed \in Seq(Entry) /\ listed = <<>> /\ pending = {} /\ future = {} /\ SettingUp
  BY DEF SessionInit, Init, ClientInit, SettingUp
<1> QED
  BY <1>1, <1>2 DEF SessionInit, Init, ClientInit, ClientInv, ProviderInv

(* A client that New returned has an API committed and one for each slot. *)
LEMMA ReadyClient ==
    ASSUME ProviderInv, ClientInv, phase = "ready", ~panicked, Agreed, ~SettingUp
    PROVE  /\ committed # NoVersion
           /\ VersionsOf(versions) \subseteq params
           /\ \A s \in Nat : APIForSlot(s)
<1>1. Slots /\ Parameters /\ WhenSetUp /\ ~SettingUp /\ future = {}
  BY DEF ProviderInv, ClientInv
<1>2. VersionsOf(versions) \subseteq params
  BY <1>1 DEF Parameters
<1>3. SortedSlice(versions) /\ GenesisVersion \in VersionsOf(versions)
  BY <1>1 DEF Parameters, WhenSetUp
<1>4. ASSUME NEW s \in Nat PROVE APIForSlot(s) /\ InForceAt(versions, s) \in Version
  <2>1. InForceAt(versions, s) \in VersionsOf(versions) /\ InForceAt(versions, s) \in Version
    BY <1>3, InForceGrows
  <2>2. InForceAt(versions, s) \in params /\ HasAPI(InForceAt(versions, s))
    BY <1>1, <1>2, <2>1 DEF Parameters
  <2>3. latest # NoVersion /\ InForceAt(versions, s) # NoVersion
    BY <1>1, <2>2, ProviderNumbers
  <2> QED
    BY <2>1, <2>2, <2>3 DEF APIForSlot, APIForEpoch, ApiAvailable, apiForVersion, InForceAt
<1>5. committed # NoVersion
  <2>1. InForceAt(versions, committedSlot) \in Nat /\ InForceAt(versions, committedSlot) # 0
    BY <1>1, <1>4, VersionFacts DEF Slots
  <2>2. InForceAt(versions, committedSlot) <= committed /\ committed \in Nat
    BY <1>1, ProviderNumbers DEF WhenSetUp
  <2> QED
    BY <2>1, <2>2 DEF NoVersion
<1> QED
  BY <1>2, <1>4, <1>5

(* The lists of a node are sequences of entries. *)
LEMMA ListingFacts == \A l \in Listings : l \in Seq(Entry)
<1>1. Listing \subseteq Entry
  BY DEF Listing, Entry
<1>2. ASSUME NEW n \in 0..2, NEW l \in [1..n -> Listing] PROVE l \in Seq(Entry)
  <2>1. n \in Nat /\ \A i \in 1..n : l[i] \in Entry
    BY <1>1
  <2>2. l = [i \in 1..n |-> l[i]]
    OBVIOUS
  <2> QED
    BY <2>1, <2>2, IsASeq
<1> QED
  BY <1>2 DEF Listings

LEMMA CreateKeeps ==
    ASSUME ProviderInv, ClientInv, NEW l \in Seq(Entry), NEW s \in Nat, Create(l, s), UNCHANGED activity
    PROVE  ProviderInv' /\ ClientInv'
<1>1. CASE New(l, s)
  <2>1. phase = "new" /\ phase' = "adding" /\ listed' = l /\ SetCommittedSlot(s)
    BY <1>1 DEF New
  <2>2. pending = {}
    BY <2>1 DEF ClientInv
  <2>3. ProviderInv'
    BY <2>1, <2>2, SetCommittedSlotKeeps
  <2>4. UNCHANGED <<versions, future, callback, pending>>
    BY <2>1 DEF SetCommittedSlot
  <2> QED
    BY <2>1, <2>2, <2>3, <2>4 DEF ClientInv
<1>2. CASE NewFails
  <2>1. UNCHANGED vars /\ phase = "new" /\ phase' = "failed" /\ listed' = listed
    BY <1>2 DEF NewFails
  <2>2. ProviderInv'
    BY <2>1, ProviderStutters
  <2> QED
    BY <2>1, <2>2 DEF ClientInv, vars
<1>3. CASE NewReturns
  <2>1. UNCHANGED vars /\ phase = "adding" /\ listed = <<>> /\ phase' = "ready" /\ listed' = listed /\ ~panicked
    BY <1>3 DEF NewReturns, Running
  <2>2. ProviderInv'
    BY <2>1, ProviderStutters
  <2> QED
    BY <2>1, <2>2 DEF ClientInv, vars
<1>4. CASE AddListed
  <2> DEFINE v == Head(listed).version
             e == Head(listed).epoch
  <2>1. /\ phase = "adding" /\ phase' = "adding" /\ listed # <<>>
        /\ IF v \in pending
           THEN AddVersionHalf(v, e) /\ listed' = Tail(listed)
           ELSE AddParametersHalf(v) /\ listed' = listed
    BY <1>4 DEF AddListed
  <2>2. /\ callback = FALSE /\ future = {} /\ listed \in Seq(Entry)
        /\ \A w \in pending : w = v
        /\ activity' # "node"
    BY <2>1 DEF ClientInv
  <2>3. v \in Version /\ e \in Nat /\ Tail(listed) \in Seq(Entry)
    <3>1. Head(listed) \in Entry /\ Tail(listed) \in Seq(Entry)
      BY <2>1, <2>2, HeadTailProperties
    <3> QED
      BY <3>1 DEF Entry
  <2> HIDE DEF v, e
  <2>4. CASE v \in pending
    <3>1. AddVersionHalf(v, e) /\ listed' = Tail(listed)
      BY <2>1, <2>4
    <3>2. ProviderInv'
      BY <2>3, <3>1, AddVersionHalfKeeps
    <3>3. UNCHANGED <<future, callback>> /\ pending' = pending \ {v}
      BY <3>1 DEF AddVersionHalf
    <3>4. pending' = {}
      BY <2>2, <3>3
    <3> QED
      BY <2>1, <2>2, <2>3, <3>1, <3>2, <3>3, <3>4 DEF ClientInv
  <2>5. CASE v \notin pending
    <3>1. AddParametersHalf(v) /\ listed' = listed
      BY <2>1, <2>5
    <3>2. callback' = callback /\ future' = {} /\ pending' = pending \cup {v}
      BY <2>2, <3>1 DEF AddParametersHalf, AddProtocolParameters
    <3>3. Agreed /\ ~panicked' => v = GenesisVersion
      BY <2>2, <2>3, <3>1, ClientAddsGenesis
    <3>4. ProviderInv'
      BY <2>3, <3>1, <3>3, AddParametersHalfKeeps
    <3>5. \A w \in pending' : listed' # <<>> /\ w = Head(listed').version
      BY <2>1, <2>2, <3>1, <3>2 DEF v
    <3> QED
      BY <2>1, <2>2, <3>1, <3>2, <3>4, <3>5 DEF ClientInv
  <2> QED
    BY <2>4, <2>5
<1> QED
  BY <1>1, <1>2, <1>3, <1>4 DEF Create

(* Steps of others leave the provider and the client as they are. *)
LEMMA OthersKeepClient ==
    ASSUME ProviderInv, ClientInv, UNCHANGED <<vars, phase, listed, misled, activity>>
    PROVE  ProviderInv' /\ ClientInv'
<1>1. ProviderInv'
  BY ProviderStutters
<1> QED
  BY <1>1 DEF ClientInv, vars, SettingUp, Agreed

(* What a client does not expect of its node makes it panic, not forget. *)
LEMMA PanicsKeeps ==
    ASSUME ProviderInv, ClientInv, Panics, UNCHANGED activity
    PROVE  ProviderInv' /\ ClientInv'
<1>1. /\ panicked' = TRUE /\ misled' = TRUE
      /\ UNCHANGED <<versions, future, pending, callback, phase, listed>>
  BY DEF Panics
<1>2. ProviderInv'
  BY <1>1 DEF ProviderInv
<1> QED
  BY <1>1, <1>2 DEF ClientInv, SettingUp

(* A client may panic unless it is set up with the epochs agreed on. *)
LEMMA UnagreedKeeps ==
    ASSUME ProviderInv, ClientInv, phase = "ready", panicked' \in BOOLEAN,
           Agreed /\ ~SettingUp => panicked' = panicked, ~panicked,
           UNCHANGED <<versions, params, future, latest, committed, committedSlot, highestSlot, pending, callback>>,
           UNCHANGED <<phase, listed, misled, activity>>
    PROVE  ProviderInv' /\ ClientInv'
<1>1. CASE panicked' = panicked
  BY <1>1, OthersKeepClient DEF vars
<1>2. CASE panicked' # panicked
  <2>1. panicked' = TRUE /\ ~(Agreed /\ ~SettingUp)
    BY <1>2 DEF ProviderInv
  <2>2. ProviderInv'
    BY <2>1 DEF ProviderInv
  <2> QED
    BY <2>1, <2>2 DEF ClientInv, SettingUp, Agreed
<1> QED
  BY <1>1, <1>2

(* Calls of a client that New returned. *)
LEMMA CallsKeep ==
    ASSUME ProviderInv, ClientInv, ClientStep, ~\E l \in Listings, s \in 0..MaxSlot : Create(l, s), UNCHANGED activity
    PROVE  ProviderInv' /\ ClientInv'
<1>1. MaxSlot \in Nat
  BY ProviderAssumption
<1>2. CASE \E s \in 0..MaxSlot : Info(s)
  <2>1. PICK s \in 0..MaxSlot : Info(s)
    BY <1>2
  <2>2. /\ phase = "ready" /\ ~panicked /\ SetCommittedSlot(s) /\ UNCHANGED <<phase, listed, misled>> /\ s \in Nat
    BY <1>1, <2>1 DEF Info, Ready, Running, clientVars
  <2>3. pending = {}
    BY <2>2 DEF ClientInv
  <2>4. Agreed /\ ~SettingUp => VersionsOf(versions) \subseteq params
    BY <2>2, ReadyClient
  <2>5. ProviderInv' /\ (Agreed /\ ~SettingUp => ~panicked')
    BY <2>2, <2>3, <2>4, SetCommittedSlotKeeps
  <2>6. UNCHANGED <<versions, future, callback, pending>>
    BY <2>2 DEF SetCommittedSlot
  <2> QED
    BY <2>2, <2>5, <2>6 DEF ClientInv, SettingUp, Agreed
<1>3. ASSUME NEW q, Do(q) PROVE ProviderInv' /\ ClientInv'
  <2>1. /\ phase = "ready" /\ ~panicked /\ UNCHANGED <<phase, listed, misled>>
        /\ UNCHANGED <<versions, params, future, latest, committed, committedSlot, highestSlot, pending, callback>>
        /\ IF committed = NoVersion THEN panicked' = TRUE ELSE panicked' = panicked
    BY <1>3 DEF Do, Ready, Running
  <2>2. Agreed /\ ~SettingUp => panicked' = panicked
    BY <2>1, ReadyClient
  <2>3. panicked' \in BOOLEAN
    BY <2>1 DEF ProviderInv
  <2> QED
    BY <2>1, <2>2, <2>3, UnagreedKeeps
<1>4. ASSUME NEW code, NEW v, NEW s \in {0, MaxSlot}, BlockAnswer(code, v, s) PROVE ProviderInv' /\ ClientInv'
  <2>1. /\ phase = "ready" /\ ~panicked /\ UNCHANGED <<phase, listed, misled>>
        /\ UNCHANGED <<versions, params, future, latest, committed, committedSlot, highestSlot, pending, callback>>
    BY <1>4 DEF BlockAnswer, Answered, Ready, Running, Returns
  <2>2. panicked' \in BOOLEAN /\ (APIForSlot(s) => panicked' = FALSE)
    BY <1>4 DEF BlockAnswer
  <2>3. s \in Nat
    BY <1>1
  <2>4. Agreed /\ ~SettingUp => panicked' = panicked
    <3>1. Agreed /\ ~SettingUp => panicked' = FALSE
      BY <2>1, <2>2, <2>3, ReadyClient
    <3> QED
      BY <2>1, <3>1 DEF ProviderInv
  <2> QED
    BY <2>1, <2>2, <2>4, UnagreedKeeps
<1>5. ASSUME UNCHANGED <<vars, phase, listed, misled>> \/ Panics PROVE ProviderInv' /\ ClientInv'
  BY <1>5, OthersKeepClient, PanicsKeeps
<1>6. ASSUME NEW code,
             \/ HealthAnswer(code) \/ JSONAnswer(code) \/ TransactionAnswer(code)
             \/ \E ok \in BOOLEAN : \/ PluginAnswer(code, ok) \/ SendPayload(code, ok)
                                   \/ IssuerAnswer(code, ok) \/ BlockIssuanceAnswer(code, ok)
             \/ \E v \in Version : SubmitBlock(v, code)
      PROVE  UNCHANGED <<vars, phase, listed, misled>> \/ Panics
  BY <1>6, Zenon DEF HealthAnswer, JSONAnswer, TransactionAnswer, PluginAnswer, SendPayload, IssuerAnswer,
                     BlockIssuanceAnswer, SubmitBlock, Returns, Asks
<1>7. ASSUME NEW code, NEW output, OutputAnswer(code, output) \/ singleOutputQuery(code, output) \/ Outputs(output)
      PROVE  UNCHANGED <<vars, phase, listed, misled>> \/ Panics
  BY <1>7, Zenon DEF OutputAnswer, singleOutputQuery, Outputs, Returns, Asks
<1>8. CASE InfoNoContent
  BY <1>5, <1>8 DEF InfoNoContent
<1> QED
  BY <1>2, <1>3, <1>4, <1>5, <1>6, <1>7, <1>8 DEF ClientStep

-----------------------------------------------------------------------------
(* The pages of a node, one behind the other. *)
LEMMA FirstResultsFacts ==
    ASSUME NEW n \in Nat
    PROVE  FirstResults(n) \in Seq(Nat) /\ Len(FirstResults(n)) = n
  BY DEF FirstResults

LEMMA PageFollows ==
    ASSUME NEW c \in Nat, NEW l \in Nat, c <= l
    PROVE  FirstResults(c) \o [i \in 1..(l - c) |-> c + i] = FirstResults(l)
<1> DEFINE a == FirstResults(c)
           b == [i \in 1..(l - c) |-> c + i]
           d == FirstResults(l)
<1>1. a \in Seq(Nat) /\ Len(a) = c /\ \A i \in 1..c : a[i] = i
  BY FirstResultsFacts DEF FirstResults
<1>2. b \in Seq(Nat) /\ Len(b) = l - c /\ \A i \in 1..(l - c) : b[i] = c + i
  OBVIOUS
<1>3. d \in Seq(Nat) /\ Len(d) = l /\ \A i \in 1..l : d[i] = i
  BY FirstResultsFacts DEF FirstResults
<1> HIDE DEF a, b, d
<1>4. /\ a \o b \in Seq(Nat) /\ Len(a \o b) = Len(a) + Len(b)
      /\ \A i \in 1..(Len(a) + Len(b)) : (a \o b)[i] = IF i <= Len(a) THEN a[i] ELSE b[i - Len(a)]
  BY <1>1, <1>2, ConcatProperties
<1>5. Len(a) + Len(b) = l
  BY <1>1, <1>2
<1>6. ASSUME NEW i \in 1..l PROVE (a \o b)[i] = d[i]
  <2>1. (a \o b)[i] = IF i <= c THEN a[i] ELSE b[i - c]
    BY <1>1, <1>4, <1>5
  <2>2. CASE i <= c
    <3>1. i \in 1..c
      BY <2>2
    <3> QED
      BY <1>1, <1>3, <2>1, <2>2, <3>1
  <2>3. CASE i > c
    <3>1. i - c \in 1..(l - c) /\ c + (i - c) = i /\ ~(i <= c)
      BY <2>3
    <3> QED
      BY <1>2, <1>3, <2>1, <3>1
  <2>4. i <= c \/ i > c
    OBVIOUS
  <2> QED
    BY <2>2, <2>3, <2>4, Zenon
<1>7. a \o b = d
  BY <1>3, <1>4, <1>5, <1>6, SeqEqual
<1> QED
  BY <1>7 DEF a, b, d

LEMMA LesserOfTwo ==
    ASSUME NEW m \in Nat, NEW n \in Nat
    PROVE  Min({m, n}) = IF m <= n THEN m ELSE n
<1>1. \A x \in {m, n} : (\A y \in {m, n} : x <= y) => x = IF m <= n THEN m ELSE n
  OBVIOUS
<1>2. \E x \in {m, n} : \A y \in {m, n} : x <= y
  OBVIOUS
<1> QED
  BY <1>1, <1>2 DEF Min

(* A page from a cursor on: the caller has the results before its next     *)
(* cursor, or all of them.                                                 *)
PageExtends(c, n) ==
    /\ n \in Nat /\ c <= n /\ n <= results
    /\ FirstResults(c) \o Page(c).items = FirstResults(n)
    /\ Page(c).items = <<>> => n = results
    /\ Page(c).cursor = IF n = results THEN End ELSE n
    /\ n # results => n # End

LEMMA PageIsNext ==
    ASSUME results \in Nat, NEW c \in Nat, c <= results
    PROVE  \E n \in Nat : PageExtends(c, n)
<1> DEFINE n == Min({c + PageSize, results})
           b == [i \in 1..(n - c) |-> c + i]
<1>1. PageSize \in Nat /\ PageSize > 0
  BY PagingAssumption
<1>2. n = IF c + PageSize <= results THEN c + PageSize ELSE results
  BY <1>1, LesserOfTwo
<1>3. Page(c).items = b /\ Page(c).cursor = IF n = results THEN End ELSE n
  BY DEF Page
<1> HIDE DEF n
<1>4. n \in Nat /\ c <= n /\ n <= results /\ (n = c => n = results) /\ (n # results => n # End)
  BY <1>1, <1>2 DEF End
<1>5. FirstResults(c) \o b = FirstResults(n)
  BY <1>4, PageFollows
<1>6. b = <<>> => n = c
  <2>1. Len(b) = n - c
    BY <1>4
  <2> QED
    BY <1>4, <2>1
<1> HIDE DEF b
<1> QED
  BY <1>3, <1>4, <1>5, <1>6 DEF PageExtends

(* The inductive invariant of the queries: a query that goes on has the    *)
(* results before its cursor, one at its end without an error has all.     *)
QueryInv ==
    /\ results \in Nat
    /\ resultSet \in [firstQueryDone : BOOLEAN, response : [items : Seq(Nat), cursor : Nat], offset : Nat,
                      error : BOOLEAN, more : BOOLEAN]
    /\ \E n \in Nat :
          /\ collected = FirstResults(n) /\ n <= results
          /\ ~resultSet.firstQueryDone => resultSet.offset = End /\ n = 0
          /\ resultSet.firstQueryDone /\ resultSet.response.cursor # End => resultSet.offset = n
          /\ resultSet.firstQueryDone /\ resultSet.response.cursor = End /\ ~resultSet.error => n = results
          /\ ~resultSet.more /\ ~resultSet.error => n = results

PagesInv ==
    /\ pages \in [max : Nat, count : Nat, cursor : Nat, validators : Seq(Nat),
                  returned : {"no", "all", "some", "error"}]
    /\ \E n \in Nat :
          /\ pages.validators = FirstResults(n) /\ n <= results
          /\ pages.count = 0 => pages.cursor = End /\ n = 0
          /\ pages.count > 0 => pages.cursor = (IF n = results THEN End ELSE n) /\ (n = End => n = results)
    /\ pages.count <= 1 \/ pages.count <= pages.max
    /\ pages.returned \in {"all", "some"} =>
          pages.count > 0 /\ (pages.returned = "all") = (pages.cursor = End)

LEMMA InitQueries == PagingInit => QueryInv /\ PagesInv
<1> SUFFICES ASSUME PagingInit PROVE QueryInv /\ PagesInv
  OBVIOUS
<1>1. results \in Nat
  BY PagingAssumption DEF PagingInit
<1>2. FirstResults(0) = <<>> /\ <<>> \in Seq(Nat)
  BY DEF FirstResults
<1>3. QueryInv
  BY <1>1, <1>2 DEF PagingInit, QueryInv, End, Empty
<1>4. PagesInv
  <2>1. PICK m \in MaxPages : pages = [max |-> m, count |-> 0, cursor |-> End, validators |-> <<>>, returned |-> "no"]
    BY DEF PagingInit
  <2>2. m \in Nat
    BY PagingAssumption
  <2> QED
    BY <1>1, <1>2, <2>1, <2>2 DEF PagesInv, End
<1> QED
  BY <1>3, <1>4

LEMMA PageType ==
    ASSUME results \in Nat, NEW c \in Nat, c <= results
    PROVE  Page(c) \in [items : Seq(Nat), cursor : Nat]
<1> DEFINE n == Min({c + PageSize, results})
           b == [i \in 1..(n - c) |-> c + i]
<1>1. PageSize \in Nat /\ PageSize > 0
  BY PagingAssumption
<1>2. n = IF c + PageSize <= results THEN c + PageSize ELSE results
  BY <1>1, LesserOfTwo
<1>3. Page(c) = [items |-> b, cursor |-> IF n = results THEN End ELSE n]
  BY DEF Page
<1> HIDE DEF n
<1>4. n \in Nat /\ n - c \in Nat
  BY <1>1, <1>2
<1>5. b \in Seq(Nat)
  BY <1>4
<1> QED
  BY <1>3, <1>4, <1>5 DEF End

LEMMA NextPageKeeps ==
    ASSUME QueryInv, NEW ok \in BOOLEAN, NextPage(ok)
    PROVE  QueryInv'
<1> DEFINE R == [firstQueryDone : BOOLEAN, response : [items : Seq(Nat), cursor : Nat], offset : Nat,
                 error : BOOLEAN, more : BOOLEAN]
           c == resultSet.offset
<1>1. results \in Nat /\ resultSet \in R /\ results' = results
  BY DEF QueryInv, NextPage
<1>2. PICK n \in Nat :
        /\ collected = FirstResults(n) /\ n <= results
        /\ ~resultSet.firstQueryDone => resultSet.offset = End /\ n = 0
        /\ resultSet.firstQueryDone /\ resultSet.response.cursor # End => resultSet.offset = n
        /\ resultSet.firstQueryDone /\ resultSet.response.cursor = End /\ ~resultSet.error => n = results
        /\ ~resultSet.more /\ ~resultSet.error => n = results
  BY DEF QueryInv
<1>3. CASE Exhausted
  <2>1. resultSet' = [resultSet EXCEPT !.more = FALSE] /\ collected' = collected
    BY <1>3 DEF NextPage
  <2>2. /\ resultSet' \in R /\ resultSet'.firstQueryDone /\ resultSet'.response.cursor = End
        /\ resultSet'.error = resultSet.error
    BY <1>1, <1>3, <2>1 DEF Exhausted
  <2>3. ~resultSet.error => n = results
    BY <1>2, <1>3 DEF Exhausted
  <2> QED
    BY <1>1, <1>2, <2>1, <2>2, <2>3 DEF QueryInv
<1>4. CASE ~Exhausted /\ ~ok
  <2>1. /\ resultSet' = [[resultSet EXCEPT !.response = Empty] EXCEPT !.error = TRUE, !.more = FALSE]
        /\ collected' = collected
    BY <1>4 DEF NextPage, nextFunc
  <2>2. Empty \in [items : Seq(Nat), cursor : Nat] /\ Empty.cursor = End
    BY DEF Empty, End
  <2>3. /\ resultSet' \in R /\ resultSet'.error /\ resultSet'.response.cursor = End
        /\ resultSet'.firstQueryDone = resultSet.firstQueryDone /\ resultSet'.offset = resultSet.offset
    BY <1>1, <2>1, <2>2
  <2> QED
    BY <1>1, <1>2, <2>1, <2>3 DEF QueryInv
<1>5. CASE ~Exhausted /\ ok
  <2>1. c = n /\ c \in Nat /\ c <= results
    BY <1>1, <1>2, <1>5 DEF Exhausted, End
  <2>2. PICK l \in Nat : PageExtends(c, l)
    BY <1>1, <2>1, PageIsNext
  <2>3. Page(c) \in [items : Seq(Nat), cursor : Nat]
    BY <1>1, <2>1, PageType
  <2> DEFINE p == Page(c)
  <2>4. /\ resultSet' = [[resultSet EXCEPT !.response = p] EXCEPT
                            !.offset = [resultSet EXCEPT !.response = p].response.cursor,
                            !.firstQueryDone = TRUE,
                            !.more = [resultSet EXCEPT !.response = p].response.items # <<>>]
        /\ collected' = collected \o [resultSet EXCEPT !.response = p].response.items
    BY <1>5 DEF NextPage, nextFunc
  <2> HIDE DEF p
  <2>5. p \in [items : Seq(Nat), cursor : Nat]
    BY <2>3 DEF p
  <2>6. [resultSet EXCEPT !.response = p].response = p
    BY <1>1
  <2>7. /\ resultSet' \in R /\ resultSet'.firstQueryDone /\ resultSet'.response = p
        /\ resultSet'.offset = p.cursor /\ resultSet'.more = (p.items # <<>>)
    BY <1>1, <2>4, <2>5, <2>6
  <2>8. collected' = FirstResults(l)
    BY <1>2, <2>1, <2>2, <2>4, <2>6 DEF PageExtends, p
  <2>9. /\ l <= results /\ p.cursor = (IF l = results THEN End ELSE l)
        /\ p.items = <<>> => l = results
        /\ l # results => l # End
    BY <2>2 DEF PageExtends, p
  <2> QED
    BY <1>1, <2>7, <2>8, <2>9 DEF QueryInv
<1> QED
  BY <1>3, <1>4, <1>5

LEMMA ValidatorsPageKeeps ==
    ASSUME results \in Nat, PagesInv, NEW ok \in BOOLEAN, ValidatorsPage(ok)
    PROVE  PagesInv'
<1> DEFINE P == [max : Nat, count : Nat, cursor : Nat, validators : Seq(Nat),
                 returned : {"no", "all", "some", "error"}]
           c == pages.cursor
<1>1. /\ pages \in P /\ results' = results /\ pages.returned = "no"
      /\ pages.count > 0 => c # End /\ ~(pages.count >= pages.max)
      /\ pages.count <= 1 \/ pages.count <= pages.max
  BY DEF PagesInv, ValidatorsPage, Paging, PageLimitReached
<1>2. PICK n \in Nat :
        /\ pages.validators = FirstResults(n) /\ n <= results
        /\ pages.count = 0 => c = End /\ n = 0
        /\ pages.count > 0 => c = (IF n = results THEN End ELSE n) /\ (n = End => n = results)
  BY DEF PagesInv
<1>3. CASE ~ok
  <2>1. pages' = [pages EXCEPT !.returned = "error"]
    BY <1>3 DEF ValidatorsPage
  <2>2. /\ pages' \in P /\ pages'.returned = "error" /\ pages'.validators = pages.validators
        /\ pages'.count = pages.count /\ pages'.cursor = c /\ pages'.max = pages.max
    BY <1>1, <2>1
  <2> QED
    BY <1>1, <1>2, <2>2 DEF PagesInv
<1>4. CASE ok
  <2>1. c = n /\ c \in Nat /\ c <= results
    BY <1>1, <1>2 DEF End
  <2>2. PICK l \in Nat : PageExtends(c, l)
    BY <2>1, PageIsNext
  <2>3. Page(c) \in [items : Seq(Nat), cursor : Nat]
    BY <2>1, PageType
  <2> DEFINE p == Page(c)
  <2>4. pages' = [pages EXCEPT !.validators = @ \o p.items, !.cursor = p.cursor, !.count = @ + 1]
    BY <1>4 DEF ValidatorsPage
  <2>5. p.items \in Seq(Nat) /\ p.cursor \in Nat
    BY <2>3
  <2> HIDE DEF p
  <2>6. pages.validators \o p.items = FirstResults(l) /\ FirstResults(l) \in Seq(Nat)
    BY <1>2, <2>1, <2>2, FirstResultsFacts DEF PageExtends, p
  <2>7. /\ pages' \in P /\ pages'.returned = "no" /\ pages'.validators = FirstResults(l)
        /\ pages'.count = pages.count + 1 /\ pages'.cursor = p.cursor /\ pages'.max = pages.max
    <3>1. pages' = [pages EXCEPT !.validators = FirstResults(l), !.cursor = p.cursor, !.count = pages.count + 1]
      BY <2>4, <2>6
    <3>2. pages.count + 1 \in Nat
      BY <1>1
    <3> QED
      BY <1>1, <2>5, <2>6, <3>1, <3>2
  <2>8. l <= results /\ p.cursor = (IF l = results THEN End ELSE l) /\ (l = End => l = results)
    BY <2>2 DEF PageExtends, p
  <2>9. pages'.count > 0 /\ pages'.count # 0 /\ (pages'.count <= 1 \/ pages'.count <= pages'.max)
    BY <1>1, <2>7
  <2> QED
    BY <1>1, <2>7, <2>8, <2>9 DEF PagesInv
<1> QED
  BY <1>3, <1>4

LEMMA ValidatorsReturnKeeps ==
    ASSUME results \in Nat, PagesInv, ValidatorsReturn
    PROVE  PagesInv'
<1> DEFINE P == [max : Nat, count : Nat, cursor : Nat, validators : Seq(Nat),
                 returned : {"no", "all", "some", "error"}]
           r == IF pages.cursor = End THEN "all" ELSE "some"
<1>1. pages \in P /\ pages.count > 0 /\ results' = results /\ pages' = [pages EXCEPT !.returned = r]
  BY DEF PagesInv, ValidatorsReturn
<1>2. /\ pages' \in P /\ pages'.returned = r /\ pages'.validators = pages.validators
      /\ pages'.count = pages.count /\ pages'.cursor = pages.cursor /\ pages'.max = pages.max
  BY <1>1
<1> QED
  BY <1>1, <1>2 DEF PagesInv

LEMMA PagingStepKeeps ==
    ASSUME QueryInv, PagesInv, PagingStep
    PROVE  QueryInv' /\ PagesInv'
<1>1. results \in Nat
  BY DEF QueryInv
<1>2. CASE \E ok \in BOOLEAN : NextPage(ok)
  <2>1. QueryInv'
    BY <1>2, NextPageKeeps
  <2>2. UNCHANGED <<results, pages>>
    BY <1>2 DEF NextPage
  <2> QED
    BY <2>1, <2>2 DEF PagesInv
<1>3. CASE \E ok \in BOOLEAN : ValidatorsPage(ok)
  <2>1. PagesInv'
    BY <1>1, <1>3, ValidatorsPageKeeps
  <2>2. UNCHANGED <<results, resultSet, collected>>
    BY <1>3 DEF ValidatorsPage
  <2> QED
    BY <2>1, <2>2 DEF QueryInv
<1>4. CASE ValidatorsReturn
  <2>1. PagesInv'
    BY <1>1, <1>4, ValidatorsReturnKeeps
  <2>2. UNCHANGED <<results, resultSet, collected>>
    BY <1>4 DEF ValidatorsReturn
  <2> QED
    BY <2>1, <2>2 DEF QueryInv
<1> QED
  BY <1>2, <1>3, <1>4 DEF PagingStep

LEMMA InvIsComplete == QueryInv /\ PagesInv => QueriesAreComplete
<1> SUFFICES ASSUME QueryInv, PagesInv PROVE QueriesAreComplete
  OBVIOUS
<1>1. PagesComeInOrder /\ NoSilentTruncation
  <2>1. PICK n \in Nat : collected = FirstResults(n) /\ (~resultSet.more /\ ~resultSet.error => n = results)
    BY DEF QueryInv
  <2>2. Len(collected) = n
    BY <2>1, FirstResultsFacts
  <2> QED
    BY <2>1, <2>2 DEF PagesComeInOrder, NoSilentTruncation
<1>2. /\ pages.returned = "all" => pages.validators = FirstResults(results)
      /\ pages.returned = "some" => pages.validators = FirstResults(Len(pages.validators)) /\ Len(pages.validators) < results
  <2>1. PICK n \in Nat : /\ pages.validators = FirstResults(n) /\ n <= results
                         /\ pages.count > 0 => pages.cursor = (IF n = results THEN End ELSE n) /\ (n = End => n = results)
                         /\ pages.count = 0 => pages.cursor = End /\ n = 0
    BY DEF PagesInv
  <2>2. Len(pages.validators) = n
    BY <2>1, FirstResultsFacts
  <2>3. /\ results \in Nat
        /\ pages.returned \in {"all", "some"} => pages.count > 0 /\ (pages.returned = "all") = (pages.cursor = End)
    BY DEF QueryInv, PagesInv
  <2>4. CASE pages.returned = "all"
    <3>1. pages.cursor = End /\ pages.count > 0
      BY <2>3, <2>4
    <3> QED
      BY <2>1, <2>3, <2>4, <3>1 DEF End
  <2>5. CASE pages.returned = "some"
    <3>1. pages.cursor # End /\ pages.count > 0
      BY <2>3, <2>5
    <3> QED
      BY <2>1, <2>2, <2>3, <2>5, <3>1
  <2> QED
    BY <2>4, <2>5
<1>3. pages.count <= Max({1, pages.max})
  <2>1. pages.count \in Nat /\ pages.max \in Nat /\ (pages.count <= 1 \/ pages.count <= pages.max)
    BY DEF PagesInv
  <2> DEFINE T == {1, pages.max}
  <2>2. T \in SUBSET Nat /\ T # {} /\ pages.max + 1 \in Nat /\ \A x \in T : x <= pages.max + 1
    BY <2>1
  <2>3. Max(T) \in T /\ \A y \in T : Max(T) >= y
    BY <2>2, MaxIsGreatest
  <2>4. Max(T) \in Nat /\ Max(T) >= 1 /\ Max(T) >= pages.max
    BY <2>2, <2>3
  <2> QED
    BY <2>1, <2>4
<1> QED
  BY <1>1, <1>2, <1>3 DEF QueriesAreComplete, AllRetrievedIsAll

-----------------------------------------------------------------------------
SessionInv == ProviderInv /\ ClientInv /\ QueryInv /\ PagesInv

LEMMA OthersKeepQueries ==
    ASSUME QueryInv, PagesInv, UNCHANGED pagingVars
    PROVE  QueryInv' /\ PagesInv'
  BY DEF QueryInv, PagesInv, pagingVars

LEMMA SessionStep == SessionInv /\ [SessionNext]_sessionVars => SessionInv'
<1> SUFFICES ASSUME SessionInv, [SessionNext]_sessionVars PROVE SessionInv'
  OBVIOUS
<1> USE DEF SessionInv
<1>1. CASE activity = "node" /\ Next /\ UNCHANGED <<clientVars, pagingVars, eventVars, activity>>
  <2>1. ProviderInv'
    BY <1>1, NextKeepsProvider
  <2>2. QueryInv' /\ PagesInv'
    BY <1>1, OthersKeepQueries
  <2>3. phase' = "none" /\ activity' = "node"
    BY <1>1 DEF ClientInv, clientVars
  <2> QED
    BY <2>1, <2>2, <2>3 DEF ClientInv
<1>2. CASE activity = "requests" /\ ClientStep /\ UNCHANGED <<pagingVars, eventVars, activity>>
  <2>1. QueryInv' /\ PagesInv'
    BY <1>2, OthersKeepQueries
  <2>2. CASE \E l \in Listings, s \in 0..MaxSlot : Create(l, s)
    BY <1>2, <2>1, <2>2, CreateKeeps, ListingFacts, ProviderAssumption
  <2>3. CASE ~\E l \in Listings, s \in 0..MaxSlot : Create(l, s)
    BY <1>2, <2>1, <2>3, CallsKeep
  <2> QED
    BY <2>2, <2>3
<1>3. CASE Create(<<[version |-> GenesisVersion, epoch |-> 0]>>, 0) /\ UNCHANGED <<pagingVars, eventVars, activity>>
  <2>1. QueryInv' /\ PagesInv'
    BY <1>3, OthersKeepQueries
  <2>2. <<[version |-> GenesisVersion, epoch |-> 0]>> \in Seq(Entry) /\ 0 \in Nat
    BY VersionFacts DEF Entry
  <2>3. ProviderInv' /\ ClientInv'
    BY <1>3, <2>2, CreateKeeps
  <2> QED
    BY <2>1, <2>3
<1>4. CASE PagingStep /\ UNCHANGED <<vars, clientVars, eventVars, activity>>
  <2>1. QueryInv' /\ PagesInv'
    BY <1>4, PagingStepKeeps
  <2>2. UNCHANGED <<vars, phase, listed, misled, activity>>
    BY <1>4 DEF clientVars
  <2> QED
    BY <2>1, <2>2, OthersKeepClient
<1>5. CASE UNCHANGED <<vars, clientVars, pagingVars, activity>>
  <2>1. QueryInv' /\ PagesInv'
    BY <1>5, OthersKeepQueries
  <2>2. UNCHANGED <<vars, phase, listed, misled, activity>>
    BY <1>5 DEF clientVars
  <2> QED
    BY <2>1, <2>2, OthersKeepClient
<1> QED
  BY <1>1, <1>2, <1>3, <1>4, <1>5 DEF SessionNext, sessionVars

(* The inductive invariant holds in every session: of a node that learns   *)
(* of upgrades and commits slots in any order, and of a client.            *)
THEOREM SessionInvariant == SessionSpec => []SessionInv
<1>1. SessionInit => SessionInv
  BY InitClient, InitQueries DEF SessionInit, SessionInv
<1> QED
  BY <1>1, SessionStep, PTL DEF SessionSpec

(* Between any two critical sections of EpochBasedProvider, unless a call  *)
(* panicked or another start epoch than agreed on was added, the committed *)
(* API is between that of the slot set last and that of the highest slot,  *)
(* and APIForSlot and VersionsAndProtocolParametersHash succeed.           *)
THEOREM ProviderStaysConsistent == SessionSpec => []ProviderIsConsistent
<1>1. SessionInv => ProviderIsConsistent
  BY InvIsConsistent DEF SessionInv
<1> QED
  BY <1>1, SessionInvariant, PTL

(* A client that New returned with the versions agreed on, in any order,   *)
(* panics on an answer without content to Info or to the block issuance,   *)
(* on a malformed output ID and on an output of another kind only: not on  *)
(* blocks of any version, slots of any epoch or late answers.              *)
THEOREM ClientsNeverPanic == SessionSpec => []ReadyClientNeverPanics
<1>1. SessionInv => ReadyClientNeverPanics
  BY DEF SessionInv, ClientInv, ReadyClientNeverPanics, SettingUp
<1> QED
  BY <1>1, SessionInvariant, PTL

(* Whatever requests fail, the pages of IndexerResultSet come in order and *)
(* its end without an error is the end of the results, and ValidatorsAll   *)
(* returns all validators or says that it did not.                         *)
THEOREM PagedQueriesAreComplete == SessionSpec => []QueriesAreComplete
<1>1. SessionInv => QueriesAreComplete
  BY InvIsComplete DEF SessionInv
<1> QED
  BY <1>1, SessionInvariant, PTL
=============================================================================
