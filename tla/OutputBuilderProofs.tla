------------------------- MODULE OutputBuilderProofs --------------------------
(***************************************************************************)
(* What the output builders build is valid, for any previous outputs of    *)
(* the ledger, any owners and keys and any order of calls. The inductive   *)
(* invariant speaks of the output before it is built: its slices hold      *)
(* every type once, only types its builder allows and all that it must     *)
(* have; what it sees of the array of its keys, which it may share with    *)
(* the previous output, is in order if the caller's slices were; and an    *)
(* anchor differs from its previous output only in what the controllers    *)
(* the builder has noted may change.                                       *)
(***************************************************************************)
EXTENDS OutputBuilder, OrderLemmas, FiniteSetTheorems, SequenceTheorems, TLAPS

(* A slice of unlock conditions or features, without two of a type. *)
TypeOf(x) == x.t
DistinctTypes(s) ==
    /\ \A i \in DOMAIN s : TypeOf(s[i]) \in Nat
    /\ \A i, j \in DOMAIN s : TypeOf(s[i]) = TypeOf(s[j]) => i = j
IsSlice(s) == s \in Seq(ToSet(s)) /\ DistinctTypes(s)

(* The places and the elements of a sequence. *)
Listing(s, n) ==
    /\ Len(s) = n /\ DOMAIN s = 1..n /\ s \in [1..n -> ToSet(s)]
    /\ \A x : x \in ToSet(s) <=> \E i \in 1..n : x = s[i]

(* The elements of a function on 1..n are those of the sequence. *)
LEMMA Elements ==
    ASSUME NEW n \in Nat, NEW S, NEW s \in [1..n -> S]
    PROVE  Listing(s, n) /\ s \in Seq(ToSet(s))
<1>1. DOMAIN s = 1..n
  OBVIOUS
<1>2. \A x : x \in ToSet(s) <=> \E i \in 1..n : x = s[i]
  BY <1>1 DEF ToSet
<1>3. s \in [1..n -> ToSet(s)]
  BY <1>1, <1>2
<1>4. s \in Seq(ToSet(s)) /\ Len(s) = n
  BY <1>3
<1> QED
  BY <1>1, <1>2, <1>3, <1>4 DEF Listing

(* What IsSlice says of places. *)
LEMMA SliceShape ==
    ASSUME NEW s, IsSlice(s)
    PROVE  \E n \in Nat : Listing(s, n) /\ DistinctTypes(s)
<1>1. s \in Seq(ToSet(s)) /\ DistinctTypes(s)
  BY DEF IsSlice
<1>2. Len(s) \in Nat /\ s \in [1..Len(s) -> ToSet(s)]
  BY <1>1
<1>3. Listing(s, Len(s))
  BY <1>2, Elements
<1> QED
  BY <1>1, <1>2, <1>3

(* And back. *)
LEMMA IsSliceByPlaces ==
    ASSUME NEW n \in Nat, NEW S, NEW s \in [1..n -> S], DistinctTypes(s)
    PROVE  IsSlice(s) /\ Listing(s, n)
BY Elements DEF IsSlice

(* What sorting by distinct numbers does. *)
DistinctNumbers(ks, n) == ks \in [1..n -> Nat] /\ \A i, j \in 1..n : ks[i] = ks[j] => i = j
SortsBy(f, ks, n) ==
    /\ f \in [1..n -> 1..n]
    /\ \A i, j \in 1..n : f[i] = f[j] => i = j
    /\ \A j \in 1..n : \E i \in 1..n : f[i] = j
    /\ \A i, j \in 1..n : i < j => ks[f[i]] < ks[f[j]]

(* Distinct numbers can be sorted, in one way only. *)
LEMMA DistinctAreSorted ==
    ASSUME NEW n \in Nat, NEW ks, DistinctNumbers(ks, n)
    PROVE  SortsBy(Sorting(ks), ks, n)
BY SortingSorts DEF DistinctNumbers, SortsBy

(* The types of a slice without two of a type are distinct numbers. *)
LEMMA TypesAreNumbers ==
    ASSUME NEW n \in Nat, NEW s, Listing(s, n), DistinctTypes(s), NEW ks, ks = [i \in 1..n |-> TypeOf(s[i])]
    PROVE  DistinctNumbers(ks, n)
BY DEF Listing, DistinctTypes, DistinctNumbers

-----------------------------------------------------------------------------
(* Upsert replaces the element of its type, or adds one. *)
LEMMA UpsertSlice ==
    ASSUME NEW s, IsSlice(s), NEW x, TypeOf(x) \in Nat
    PROVE  /\ IsSlice(Upsert(s, x))
           /\ \A y : y \in ToSet(Upsert(s, x)) <=> y = x \/ (y \in ToSet(s) /\ TypeOf(y) # TypeOf(x))
<1>0. PICK n \in Nat : Listing(s, n) /\ DistinctTypes(s)
  BY SliceShape
<1>1. /\ Len(s) = n /\ DOMAIN s = 1..n /\ s \in [1..n -> ToSet(s)]
      /\ \A i \in 1..n : TypeOf(s[i]) \in Nat /\ s[i] \in ToSet(s)
      /\ \A y \in ToSet(s) : \E i \in 1..n : y = s[i]
      /\ \A i, j \in 1..n : TypeOf(s[i]) = TypeOf(s[j]) => i = j
  BY <1>0 DEF Listing, DistinctTypes
<1>2. PICK S : S = ToSet(s) \cup {x}
  OBVIOUS
<1>3. Has(s, x.t) <=> \E y \in ToSet(s) : TypeOf(y) = TypeOf(x)
  BY DEF Has, All, TypeOf
<1>4. CASE Has(s, x.t)
  <2>1. PICK r : r = [i \in 1..n |-> IF TypeOf(s[i]) = TypeOf(x) THEN x ELSE s[i]]
    OBVIOUS
  <2>2. Upsert(s, x) = r
    BY <1>1, <1>4, <2>1 DEF Upsert, TypeOf
  <2>3. r \in [1..n -> S]
    BY <1>1, <1>2, <2>1
  <2>4. \A i \in 1..n : r[i] = IF TypeOf(s[i]) = TypeOf(x) THEN x ELSE s[i]
    BY <2>1
  <2>5. \A i \in 1..n : TypeOf(r[i]) = TypeOf(s[i])
    BY <2>4
  <2>6. PICK k \in 1..n : TypeOf(s[k]) = TypeOf(x)
    BY <1>1, <1>3, <1>4
  <2>7. DistinctTypes(r)
    BY <1>1, <2>3, <2>5 DEF DistinctTypes
  <2>8. IsSlice(r) /\ Listing(r, n)
    BY <2>3, <2>7, IsSliceByPlaces
  <2>9. \A y : (\E i \in 1..n : y = r[i]) <=> y = x \/ (y \in ToSet(s) /\ TypeOf(y) # TypeOf(x))
    BY <1>1, <2>4, <2>6
  <2> QED
    BY <2>2, <2>8, <2>9 DEF Listing
<1>5. CASE ~Has(s, x.t)
  <2>1. PICK r : r = [i \in 1..(n + 1) |-> IF i = n + 1 THEN x ELSE s[i]]
    OBVIOUS
  <2>2. Upsert(s, x) = Append(s, x)
    BY <1>5 DEF Upsert
  <2>3. s \in Seq(S) /\ x \in S
    BY <1>1, <1>2
  <2>4. Append(s, x) = r
    <3>1. PICK q : q = Append(s, x)
      OBVIOUS
    <3>2. q \in Seq(S) /\ Len(q) = n + 1 /\ q[n + 1] = x /\ \A i \in 1..n : q[i] = s[i]
      BY <1>1, <2>3, <3>1, AppendProperties
    <3>3. q \in [1..(n + 1) -> S]
      BY <3>2
    <3>4. \A i \in 1..(n + 1) : q[i] = IF i = n + 1 THEN x ELSE s[i]
      BY <3>2
    <3> QED
      BY <2>1, <3>1, <3>3, <3>4
  <2>5. \A y \in ToSet(s) : TypeOf(y) # TypeOf(x)
    BY <1>3, <1>5
  <2>6. n + 1 \in Nat /\ r \in [1..(n + 1) -> S]
    BY <1>1, <1>2, <2>1
  <2>7. \A i \in 1..(n + 1) : r[i] = IF i = n + 1 THEN x ELSE s[i]
    BY <2>1
  <2>8. \A i \in 1..(n + 1) : TypeOf(r[i]) \in Nat
    BY <1>1, <2>7
  <2>9. \A i, j \in 1..(n + 1) : TypeOf(r[i]) = TypeOf(r[j]) => i = j
    BY <1>1, <2>5, <2>7
  <2>12. DistinctTypes(r)
    BY <2>6, <2>8, <2>9 DEF DistinctTypes
  <2>10. IsSlice(r) /\ Listing(r, n + 1)
    BY <2>6, <2>12, IsSliceByPlaces
  <2>11. \A y : (\E i \in 1..(n + 1) : y = r[i]) <=> y = x \/ (y \in ToSet(s) /\ TypeOf(y) # TypeOf(x))
    BY <1>1, <2>5, <2>7
  <2> QED
    BY <2>2, <2>4, <2>10, <2>11 DEF Listing
<1> QED
  BY <1>4, <1>5

(* Removing the element at a place. *)
LEMMA RemoveAtPlace ==
    ASSUME NEW n \in Nat, NEW S, NEW s \in [1..n -> S], NEW k \in 1..n
    PROVE  RemoveAt(s, k) = [i \in 1..(n - 1) |-> IF i < k THEN s[i] ELSE s[i + 1]]
<1>1. s \in Seq(S) /\ Len(s) = n
  OBVIOUS
<1> QED
  BY <1>1 DEF RemoveAt

(* The least place of some, where Remove finds the element. *)
LEMMA LeastPlace ==
    ASSUME NEW T \in SUBSET Nat, T # {}
    PROVE  Min(T) \in T
BY Least DEF Min

(* RemoveType leaves a slice with some of the elements. *)
LEMMA RemoveSlice ==
    ASSUME NEW s, IsSlice(s), NEW t
    PROVE  IsSlice(RemoveType(s, t)) /\ ToSet(RemoveType(s, t)) \subseteq ToSet(s)
<1>0. PICK n \in Nat : Listing(s, n) /\ DistinctTypes(s)
  BY SliceShape
<1>1. /\ Len(s) = n /\ DOMAIN s = 1..n /\ s \in [1..n -> ToSet(s)]
      /\ \A i \in 1..n : TypeOf(s[i]) \in Nat /\ s[i] \in ToSet(s)
      /\ \A y \in ToSet(s) : \E i \in 1..n : y = s[i]
      /\ \A i, j \in 1..n : TypeOf(s[i]) = TypeOf(s[j]) => i = j
  BY <1>0 DEF Listing, DistinctTypes
<1>2. CASE Has(s, t)
  <2>1. PICK T : T = {i \in DOMAIN s : s[i].t = t}
    OBVIOUS
  <2>2. T \subseteq 1..n
    BY <1>1, <2>1
  <2>3. T # {}
    BY <1>1, <1>2, <2>1 DEF Has, All
  <2>15. T \in SUBSET Nat
    BY <2>2
  <2>16. Min(T) \in T
    BY <2>3, <2>15, LeastPlace, Zenon
  <2>4. PICK k \in 1..n : k = Min(T)
    BY <2>2, <2>16
  <2>5. RemoveType(s, t) = RemoveAt(s, k)
    BY <1>2, <2>1, <2>4 DEF RemoveType
  <2>6. PICK r : r = [i \in 1..(n - 1) |-> IF i < k THEN s[i] ELSE s[i + 1]]
    OBVIOUS
  <2>7. RemoveAt(s, k) = r
    BY <1>0, <2>6, RemoveAtPlace DEF Listing
  <2>8. n - 1 \in Nat
    BY <2>4
  <2>9. r \in [1..(n - 1) -> ToSet(s)]
    BY <1>1, <2>6, <2>8
  <2>10. \A i \in 1..(n - 1) : r[i] = IF i < k THEN s[i] ELSE s[i + 1]
    BY <2>6
  <2>11. \A i \in 1..(n - 1) : TypeOf(r[i]) \in Nat
    BY <1>1, <2>10
  <2>12. ASSUME NEW i \in 1..(n - 1), NEW j \in 1..(n - 1), TypeOf(r[i]) = TypeOf(r[j]) PROVE i = j
    <3>1. PICK a \in 1..n : a = (IF i < k THEN i ELSE i + 1) /\ r[i] = s[a]
      BY <2>10
    <3>2. PICK b \in 1..n : b = (IF j < k THEN j ELSE j + 1) /\ r[j] = s[b]
      BY <2>10
    <3>3. a = b
      BY <1>1, <2>12, <3>1, <3>2
    <3> QED
      BY <3>1, <3>2, <3>3
  <2>17. DistinctTypes(r)
    BY <2>9, <2>11, <2>12 DEF DistinctTypes
  <2>13. IsSlice(r) /\ Listing(r, n - 1)
    BY <2>8, <2>9, <2>17, IsSliceByPlaces
  <2>14. ToSet(r) \subseteq ToSet(s)
    BY <2>9, <2>13 DEF Listing
  <2> QED
    BY <2>5, <2>7, <2>13, <2>14
<1>3. CASE ~Has(s, t)
  BY <1>3 DEF RemoveType
<1> QED
  BY <1>2, <1>3

-----------------------------------------------------------------------------
(* SortByType permutes a slice into the order that the validators ask for. *)
LEMMA SortSlice ==
    ASSUME NEW s, IsSlice(s)
    PROVE  /\ IsSlice(SortByType(s)) /\ ToSet(SortByType(s)) = ToSet(s)
           /\ LexicalOrderAndUniqueness(SortByType(s))
<1>0. PICK n \in Nat : Listing(s, n) /\ DistinctTypes(s)
  BY SliceShape
<1>1. /\ Len(s) = n /\ DOMAIN s = 1..n /\ s \in [1..n -> ToSet(s)]
      /\ \A i \in 1..n : TypeOf(s[i]) \in Nat /\ s[i] \in ToSet(s)
      /\ \A y \in ToSet(s) : \E i \in 1..n : y = s[i]
      /\ \A i, j \in 1..n : TypeOf(s[i]) = TypeOf(s[j]) => i = j
  BY <1>0 DEF Listing, DistinctTypes
<1>2. PICK ks : ks = [i \in 1..n |-> TypeOf(s[i])]
  OBVIOUS
<1>3. ks \in [1..n -> Nat] /\ \A i \in 1..n : ks[i] = TypeOf(s[i])
  BY <1>1, <1>2
<1>4. PICK f : f = Sorting(ks)
  OBVIOUS
<1>5. PICK r : r = [i \in 1..n |-> s[f[i]]]
  OBVIOUS
<1>6. SortByType(s) = r
  BY <1>1, <1>2, <1>4, <1>5 DEF SortByType, TypeOf
<1>7. SortsBy(f, ks, n) /\ DistinctNumbers(ks, n)
  BY <1>0, <1>2, <1>4, TypesAreNumbers, DistinctAreSorted
<1>8. f \in [1..n -> 1..n] /\ \A i \in 1..n : f[i] \in 1..n
  BY <1>7 DEF SortsBy
<1>9. r \in [1..n -> ToSet(s)] /\ \A i \in 1..n : r[i] = s[f[i]]
  BY <1>1, <1>5, <1>8
<1>10. \A i \in 1..n : TypeOf(r[i]) = ks[f[i]]
  BY <1>3, <1>8, <1>9
<1>11. DistinctTypes(r)
  <2>1. \A i \in 1..n : TypeOf(r[i]) \in Nat
    BY <1>1, <1>8, <1>9
  <2>2. ASSUME NEW i \in 1..n, NEW j \in 1..n, TypeOf(r[i]) = TypeOf(r[j]) PROVE i = j
    <3>1. f[i] \in 1..n /\ f[j] \in 1..n /\ ks[f[i]] = ks[f[j]]
      BY <1>8, <1>10, <2>2
    <3>2. f[i] = f[j]
      BY <1>7, <3>1 DEF DistinctNumbers
    <3> QED
      BY <1>7, <3>2 DEF SortsBy
  <2> QED
    BY <1>9, <2>1, <2>2 DEF DistinctTypes
<1>14. IsSlice(r) /\ Listing(r, n)
  BY <1>9, <1>11, IsSliceByPlaces
<1>15. ToSet(r) = ToSet(s)
  <2>1. ASSUME NEW y \in ToSet(r) PROVE y \in ToSet(s)
    BY <1>9, <1>14 DEF Listing
  <2>2. ASSUME NEW y \in ToSet(s) PROVE y \in ToSet(r)
    <3>1. PICK j \in 1..n : y = s[j]
      BY <1>1
    <3>2. PICK i \in 1..n : f[i] = j
      BY <1>7 DEF SortsBy
    <3>3. y = r[i]
      BY <1>9, <3>1, <3>2
    <3> QED
      BY <1>14, <3>3 DEF Listing
  <2> QED
    BY <2>1, <2>2
<1>16. \A i \in 2..n : TypeOf(r[i - 1]) < TypeOf(r[i])
  BY <1>7, <1>10 DEF SortsBy
<1>17. LexicalOrderAndUniqueness(r)
  BY <1>14, <1>16 DEF Listing, LexicalOrderAndUniqueness, TypeOf
<1> QED
  BY <1>6, <1>14, <1>15, <1>17

(* What increases from each place to the next increases throughout: else   *)
(* take, for a place, the nearest one behind it that is not larger.        *)
LEMMA StepsAscend ==
    ASSUME NEW n \in Nat, NEW q \in [1..n -> Nat], \A i \in 2..n : q[i - 1] < q[i]
    PROVE  Ascending(q)
<1> SUFFICES ASSUME NEW i \in 1..n, NEW j \in 1..n, i < j, q[j] <= q[i] PROVE FALSE
  BY DEF Ascending
<1>0. PICK T : T = {k \in 1..n : i < k /\ q[k] <= q[i]}
  OBVIOUS
<1>1. T \in SUBSET Nat /\ j \in T
  BY <1>0
<1>2. PICK k \in T : \A l \in T : k <= l
  BY <1>1, Least
<1>3. k \in 1..n /\ i < k /\ q[k] <= q[i]
  BY <1>0
<1>4. k - 1 \in 1..n /\ k \in 2..n /\ k - 1 \notin T
  BY <1>1, <1>2, <1>3
<1>5. PICK a \in Nat, b \in Nat, c \in Nat : a = q[i] /\ b = q[k - 1] /\ c = q[k]
  BY <1>3, <1>4
<1>6. b < c /\ c <= a
  BY <1>3, <1>4, <1>5
<1>7. CASE i = k - 1
  BY <1>5, <1>6, <1>7
<1>8. CASE i # k - 1
  <2>1. ~(b <= a)
    BY <1>0, <1>3, <1>4, <1>5, <1>8
  <2> QED
    BY <1>6, <2>1
<1> QED
  BY <1>7, <1>8

(* Sorting what passed the validators changes nothing. *)
LEMMA SortKeepsValid ==
    ASSUME NEW s, s \in Seq(ToSet(s)), \A x \in ToSet(s) : TypeOf(x) \in Nat, LexicalOrderAndUniqueness(s)
    PROVE  IsSlice(s) /\ SortByType(s) = s
<1>1. PICK n \in Nat : n = Len(s) /\ DOMAIN s = 1..n /\ s \in [1..n -> ToSet(s)]
  OBVIOUS
<1>2. PICK ks : ks = [i \in 1..n |-> TypeOf(s[i])]
  OBVIOUS
<1>3. ks \in [1..n -> Nat] /\ (\A i \in 1..n : ks[i] = TypeOf(s[i])) /\ DOMAIN ks = 1..n
  BY <1>1, <1>2
<1>4. \A i \in 2..n : TypeOf(s[i - 1]) < TypeOf(s[i])
  BY <1>1 DEF LexicalOrderAndUniqueness, TypeOf
<1>5. PICK f : f = Sorting(ks)
  OBVIOUS
<1>6. SortByType(s) = [i \in 1..n |-> s[f[i]]]
  BY <1>1, <1>2, <1>5 DEF SortByType, TypeOf
<1>7. \A i \in 2..n : ks[i - 1] < ks[i]
  BY <1>3, <1>4
<1>8. Ascending(ks)
  BY <1>3, <1>7, StepsAscend, Zenon
<1>9. \A i, j \in 1..n : i < j => ks[i] < ks[j]
  BY <1>3, <1>8, Zenon DEF Ascending
<1>10. ASSUME NEW i \in 1..n, NEW j \in 1..n, ks[i] = ks[j] PROVE i = j
  <2>1. PICK a \in Nat : a = ks[i] /\ a = ks[j]
    BY <1>3, <1>10
  <2>2. (i < j => a < a) /\ (j < i => a < a)
    BY <1>9, <2>1, Zenon
  <2> QED
    BY <2>2
<1>11. DistinctTypes(s)
  BY <1>1, <1>3, <1>10 DEF DistinctTypes
<1>12. Sort(ks) = ks
  BY <1>3, <1>8, SortKeepsAscending DEF IsAscending
<1>13. f \in [1..n -> 1..n]
  BY <1>3, <1>10, <1>5, SortingSorts
<1>14. \A i \in 1..n : ks[f[i]] = ks[i]
  BY <1>3, <1>12, <1>5 DEF Sort
<1>15. \A i \in 1..n : f[i] = i
  BY <1>10, <1>13, <1>14
<1>16. [i \in 1..n |-> s[f[i]]] = s
  BY <1>1, <1>15
<1> QED
  BY <1>6, <1>11, <1>16 DEF IsSlice

(* Changing elements but not their types. *)
LEMMA MapSlice ==
    ASSUME NEW s, IsSlice(s), NEW S, NEW r \in [DOMAIN s -> S], \A i \in DOMAIN s : TypeOf(r[i]) = TypeOf(s[i])
    PROVE  /\ IsSlice(r) /\ Types(r) = Types(s)
           /\ LexicalOrderAndUniqueness(s) => LexicalOrderAndUniqueness(r)
<1>0. PICK n \in Nat : Listing(s, n) /\ DistinctTypes(s)
  BY SliceShape
<1>1. /\ Len(s) = n /\ DOMAIN s = 1..n /\ s \in [1..n -> ToSet(s)]
      /\ \A i \in 1..n : TypeOf(s[i]) \in Nat /\ s[i] \in ToSet(s)
      /\ \A y \in ToSet(s) : \E i \in 1..n : y = s[i]
      /\ \A i, j \in 1..n : TypeOf(s[i]) = TypeOf(s[j]) => i = j
  BY <1>0 DEF Listing, DistinctTypes
<1>2. r \in [1..n -> S] /\ \A i \in 1..n : TypeOf(r[i]) = TypeOf(s[i])
  BY <1>1, Zenon
<1>3. DistinctTypes(r)
  BY <1>1, <1>2 DEF DistinctTypes
<1>4. IsSlice(r) /\ Listing(r, n)
  BY <1>2, <1>3, IsSliceByPlaces
<1>5. Types(r) = Types(s)
  <2>1. \A x \in ToSet(r) : \E y \in ToSet(s) : TypeOf(y) = TypeOf(x)
    BY <1>1, <1>2, <1>4 DEF Listing
  <2>2. \A x \in ToSet(s) : \E y \in ToSet(r) : TypeOf(y) = TypeOf(x)
    BY <1>1, <1>2, <1>4 DEF Listing
  <2> QED
    BY <2>1, <2>2 DEF Types, TypeOf
<1>6. LexicalOrderAndUniqueness(s) => LexicalOrderAndUniqueness(r)
  <2>1. ASSUME \A i \in 2..n : TypeOf(s[i - 1]) < TypeOf(s[i]) PROVE \A i \in 2..n : TypeOf(r[i - 1]) < TypeOf(r[i])
    BY <1>2, <2>1
  <2> QED
    BY <1>1, <1>4, <2>1 DEF Listing, LexicalOrderAndUniqueness, TypeOf
<1> QED
  BY <1>4, <1>5, <1>6

(* A slice is no longer than the set of types it may have. *)
LEMMA SliceIsShort ==
    ASSUME NEW s, IsSlice(s), NEW T, IsFiniteSet(T), Types(s) \subseteq T
    PROVE  Len(s) <= Cardinality(T)
<1>0. PICK n \in Nat : Listing(s, n) /\ DistinctTypes(s)
  BY SliceShape
<1>1. /\ Len(s) = n /\ DOMAIN s = 1..n /\ s \in [1..n -> ToSet(s)]
      /\ \A i \in 1..n : TypeOf(s[i]) \in Nat /\ s[i] \in ToSet(s)
      /\ \A y \in ToSet(s) : \E i \in 1..n : y = s[i]
      /\ \A i, j \in 1..n : TypeOf(s[i]) = TypeOf(s[j]) => i = j
  BY <1>0 DEF Listing, DistinctTypes
<1>2. \A x \in ToSet(s) : TypeOf(x) \in T
  BY DEF Types, TypeOf
<1>3. PICK f : f = [i \in 1..n |-> TypeOf(s[i])]
  OBVIOUS
<1>4. f \in [1..n -> T] /\ \A i \in 1..n : f[i] = TypeOf(s[i])
  BY <1>1, <1>2, <1>3
<1>5. f \in Injection(1..n, T)
  BY <1>1, <1>4 DEF Injection, IsInjective
<1>6. Cardinality(1..n) <= Cardinality(T)
  BY <1>5, FS_Injection DEF ExistsInjection
<1>7. Cardinality(1..n) = n
  BY FS_Interval
<1> QED
  BY <1>1, <1>6, <1>7

-----------------------------------------------------------------------------
(* What the types of outputs have in common. *)
OutputFields == {"type", "id", "index", "amount", "mana", "aux", "conds", "feats", "imm"}
FeatureFields == {"t", "v", "n", "keys"}

(* The builders set what the API registers, and only the builder of        *)
(* accounts knows block issuers, foundry counters and removals.            *)
LEMMA RulesCover ==
    ASSUME NEW type \in DOMAIN Builders
    PROVE  /\ type \in {"Basic", "NFT", "Account", "Anchor", "Foundry", "Delegation"}
           /\ OutputRules[type].may \subseteq 0..7 /\ OutputRules[type].feats \subseteq 0..7
           /\ OutputRules[type].imm \subseteq 0..7
           /\ OutputRules[type].must \subseteq OutputRules[type].may
           /\ Builders[type].conds \subseteq OutputRules[type].may
           /\ Builders[type].feats \subseteq OutputRules[type].feats
           /\ Builders[type].imm \subseteq OutputRules[type].imm
           /\ type # "Account" => /\ FT.BlockIssuer \notin OutputRules[type].feats
                                  /\ "index" \notin Builders[type].has /\ "remove" \notin Builders[type].has
<1>1. type \in {"Basic", "NFT", "Account", "Anchor", "Foundry", "Delegation"}
  BY DEF Builders
<1>2. CASE type = "Basic"
  BY <1>2 DEF Builders, BasicOutputBuilder, Builder, OutputRules, BasicOutputRules, ArrayRules, UC, FT
<1>3. CASE type = "NFT"
  BY <1>3 DEF Builders, NFTOutputBuilder, Builder, OutputRules, NFTOutputRules, ArrayRules, UC, FT
<1>4. CASE type = "Account"
  BY <1>4 DEF Builders, AccountOutputBuilder, Builder, OutputRules, AccountOutputRules, ArrayRules, UC, FT
<1>5. CASE type = "Anchor"
  BY <1>5 DEF Builders, AnchorOutputBuilder, Builder, OutputRules, AnchorOutputRules, ArrayRules, UC, FT
<1>6. CASE type = "Foundry"
  BY <1>6 DEF Builders, FoundryOutputBuilder, Builder, OutputRules, FoundryOutputRules, ArrayRules, UC, FT
<1>7. CASE type = "Delegation"
  BY <1>7 DEF Builders, DelegationOutputBuilder, Builder, OutputRules, DelegationOutputRules, ArrayRules, UC, FT
<1> QED
  BY <1>1, <1>2, <1>3, <1>4, <1>5, <1>6, <1>7

(* So far as their types go the arrays of an output are always decodable;  *)
(* their order is not yet the one of the validators.                       *)
AddressesAllowed(s) ==
    \A c \in ToSet(s) :
        TypeOf(c) \in {UC.StorageDepositReturn, UC.Expiration, UC.StateController, UC.Governor} =>
            AddressType[c.addr] # "ImplicitAccountCreation"
CondsOk(type, s) ==
    /\ IsSlice(s) /\ OutputRules[type].must \subseteq Types(s) /\ Types(s) \subseteq OutputRules[type].may
    /\ AddressesAllowed(s)
HaveFields(s) == \A f \in ToSet(s) : DOMAIN f = FeatureFields
FeatsOk(type, s) == IsSlice(s) /\ Types(s) \subseteq OutputRules[type].feats /\ HaveFields(s)
ImmOk(type, s) == IsSlice(s) /\ Types(s) \subseteq OutputRules[type].imm

OutputOk(o) ==
    /\ DOMAIN o = OutputFields /\ o.type \in DOMAIN Builders
    /\ CondsOk(o.type, o.conds) /\ FeatsOk(o.type, o.feats) /\ ImmOk(o.type, o.imm)

(* The types of a slice are those of its elements, in any order. *)
LEMMA TypesByElements ==
    ASSUME NEW s, NEW T
    PROVE  /\ (\A x \in ToSet(s) : TypeOf(x) \in T) <=> Types(s) \subseteq T
           /\ T \subseteq Types(s) <=> \A t \in T : \E x \in ToSet(s) : TypeOf(x) = t
BY DEF Types, TypeOf

(* The check of the addresses depends on the conditions only. *)
LEMMA AllowedByType ==
    ASSUME NEW o
    PROVE  disallowImplicitAccountCreationAddress(o) <=> AddressesAllowed(o.conds)
BY DEF disallowImplicitAccountCreationAddress, AddressesAllowed, All, TypeOf

(* Upsert (unlock_cond.go) keeps the conditions valid. *)
LEMMA UpsertCondition ==
    ASSUME NEW type \in DOMAIN Builders, NEW s, CondsOk(type, s), NEW x,
           TypeOf(x) \in Builders[type].conds, AddressType[x.addr] # "ImplicitAccountCreation"
    PROVE  CondsOk(type, Upsert(s, x))
<1>1. PICK r : r = Upsert(s, x)
  OBVIOUS
<1>2. TypeOf(x) \in OutputRules[type].may /\ TypeOf(x) \in Nat
  BY RulesCover
<1>3. IsSlice(s)
  BY DEF CondsOk
<1>4. IsSlice(r) /\ \A y : y \in ToSet(r) <=> y = x \/ (y \in ToSet(s) /\ TypeOf(y) # TypeOf(x))
  BY <1>1, <1>2, <1>3, UpsertSlice
<1>5. AddressesAllowed(r)
  BY <1>4 DEF CondsOk, AddressesAllowed
<1>6. PICK may : may = OutputRules[type].may
  OBVIOUS
<1>7. PICK must : must = OutputRules[type].must
  OBVIOUS
<1>8. (\A y \in ToSet(s) : TypeOf(y) \in may) /\ \A t \in must : \E y \in ToSet(s) : TypeOf(y) = t
  BY <1>6, <1>7, TypesByElements DEF CondsOk
<1>9. \A y \in ToSet(r) : TypeOf(y) \in may
  BY <1>2, <1>4, <1>6, <1>8
<1>10. \A t \in must : \E y \in ToSet(r) : TypeOf(y) = t
  BY <1>4, <1>8
<1>11. must \subseteq Types(r) /\ Types(r) \subseteq may
  BY <1>9, <1>10, TypesByElements
<1> QED
  BY <1>1, <1>4, <1>5, <1>6, <1>7, <1>11 DEF CondsOk

(* Upsert (feat.go) keeps the features valid. *)
LEMMA UpsertFeature ==
    ASSUME NEW type \in DOMAIN Builders, NEW s, FeatsOk(type, s), NEW x,
           TypeOf(x) \in Builders[type].feats, DOMAIN x = FeatureFields
    PROVE  FeatsOk(type, Upsert(s, x))
<1>1. PICK r : r = Upsert(s, x)
  OBVIOUS
<1>2. TypeOf(x) \in OutputRules[type].feats /\ TypeOf(x) \in Nat
  BY RulesCover
<1>3. IsSlice(s)
  BY DEF FeatsOk
<1>4. IsSlice(r) /\ \A y : y \in ToSet(r) <=> y = x \/ (y \in ToSet(s) /\ TypeOf(y) # TypeOf(x))
  BY <1>1, <1>2, <1>3, UpsertSlice
<1>5. HaveFields(r)
  BY <1>4 DEF FeatsOk, HaveFields
<1>6. PICK may : may = OutputRules[type].feats
  OBVIOUS
<1>7. \A y \in ToSet(s) : TypeOf(y) \in may
  BY <1>6, TypesByElements DEF FeatsOk
<1>8. \A y \in ToSet(r) : TypeOf(y) \in may
  BY <1>2, <1>4, <1>6, <1>7
<1>9. Types(r) \subseteq may
  BY <1>8, TypesByElements
<1> QED
  BY <1>1, <1>4, <1>5, <1>6, <1>9 DEF FeatsOk

(* Upsert (feat.go) keeps the immutable features valid. *)
LEMMA UpsertImmutable ==
    ASSUME NEW type \in DOMAIN Builders, NEW s, ImmOk(type, s), NEW x, TypeOf(x) \in Builders[type].imm
    PROVE  ImmOk(type, Upsert(s, x))
<1>1. PICK r : r = Upsert(s, x)
  OBVIOUS
<1>2. TypeOf(x) \in OutputRules[type].imm /\ TypeOf(x) \in Nat
  BY RulesCover
<1>3. IsSlice(s)
  BY DEF ImmOk
<1>4. IsSlice(r) /\ \A y : y \in ToSet(r) <=> y = x \/ (y \in ToSet(s) /\ TypeOf(y) # TypeOf(x))
  BY <1>1, <1>2, <1>3, UpsertSlice
<1>6. PICK may : may = OutputRules[type].imm
  OBVIOUS
<1>7. \A y \in ToSet(s) : TypeOf(y) \in may
  BY <1>6, TypesByElements DEF ImmOk
<1>8. \A y \in ToSet(r) : TypeOf(y) \in may
  BY <1>2, <1>4, <1>6, <1>7
<1>9. Types(r) \subseteq may
  BY <1>8, TypesByElements
<1> QED
  BY <1>1, <1>4, <1>6, <1>9 DEF ImmOk

(* Remove (feat.go) keeps the features valid: none of them is required. *)
LEMMA RemoveKeepsFeatures ==
    ASSUME NEW type, NEW s, FeatsOk(type, s), NEW t
    PROVE  FeatsOk(type, RemoveType(s, t))
<1>1. PICK r : r = RemoveType(s, t)
  OBVIOUS
<1>2. IsSlice(r) /\ ToSet(r) \subseteq ToSet(s)
  BY <1>1, RemoveSlice DEF FeatsOk
<1>3. HaveFields(r)
  BY <1>2 DEF FeatsOk, HaveFields
<1>4. Types(r) \subseteq Types(s)
  BY <1>2 DEF Types
<1> QED
  BY <1>1, <1>2, <1>3, <1>4 DEF FeatsOk

(* Sorting keeps all of it. *)
LEMMA SortKeepsArrays ==
    ASSUME NEW type, NEW s
    PROVE  /\ CondsOk(type, s) => CondsOk(type, SortByType(s))
           /\ FeatsOk(type, s) => FeatsOk(type, SortByType(s))
           /\ ImmOk(type, s) => ImmOk(type, SortByType(s))
<1>1. PICK r : r = SortByType(s)
  OBVIOUS
<1>2. IsSlice(s) => IsSlice(r) /\ ToSet(r) = ToSet(s)
  BY <1>1, SortSlice
<1>3. IsSlice(s) => Types(r) = Types(s)
  BY <1>2 DEF Types
<1>4. IsSlice(s) => (AddressesAllowed(r) <=> AddressesAllowed(s)) /\ (HaveFields(r) <=> HaveFields(s))
  BY <1>2 DEF AddressesAllowed, HaveFields
<1> QED
  BY <1>1, <1>2, <1>3, <1>4 DEF CondsOk, FeatsOk, ImmOk

(* Changing a field of features but not their types. *)
LEMMA MapKeepsFeatures ==
    ASSUME NEW type, NEW s, FeatsOk(type, s), NEW S, NEW r \in [DOMAIN s -> S],
           \A i \in DOMAIN s : TypeOf(r[i]) = TypeOf(s[i]) /\ DOMAIN r[i] = FeatureFields
    PROVE  /\ FeatsOk(type, r) /\ (LexicalOrderAndUniqueness(s) => LexicalOrderAndUniqueness(r))
           /\ \A x : x \in ToSet(r) <=> \E i \in DOMAIN s : x = r[i]
<1>1. IsSlice(s)
  BY DEF FeatsOk
<1>2. IsSlice(r) /\ Types(r) = Types(s) /\ (LexicalOrderAndUniqueness(s) => LexicalOrderAndUniqueness(r))
  BY <1>1, MapSlice
<1>3. \A x : x \in ToSet(r) <=> \E i \in DOMAIN s : x = r[i]
  BY DEF ToSet
<1>4. HaveFields(r)
  BY <1>3 DEF HaveFields
<1> QED
  BY <1>2, <1>3, <1>4 DEF FeatsOk

-----------------------------------------------------------------------------
(* Outputs.  What is not an array does not matter here. *)
LEMMA OkByArrays ==
    ASSUME NEW o, OutputOk(o), NEW p, DOMAIN p = DOMAIN o, p.type = o.type,
           CondsOk(o.type, p.conds), FeatsOk(o.type, p.feats), ImmOk(o.type, p.imm)
    PROVE  OutputOk(p)
BY DEF OutputOk

(* An output that satisfies the invariant has what the decoder asks for. *)
LEMMA OkIsDecodable ==
    ASSUME NEW o, OutputOk(o)
    PROVE  ArraysDecodable(o)
<1>1. PICK r : r = OutputRules[o.type]
  OBVIOUS
<1>2. o.type \in DOMAIN Builders
  BY DEF OutputOk
<1>3. r.may \subseteq 0..7 /\ r.feats \subseteq 0..7 /\ r.imm \subseteq 0..7
  BY <1>1, <1>2, RulesCover
<1>4. IsFiniteSet(0..7)
  BY FS_Interval, 0 \in Int, 7 \in Int, Zenon
<1>5. IsFiniteSet(r.may) /\ IsFiniteSet(r.feats) /\ IsFiniteSet(r.imm)
  BY <1>3, <1>4, FS_Subset
<1>6. /\ IsSlice(o.conds) /\ r.must \subseteq Types(o.conds) /\ Types(o.conds) \subseteq r.may
      /\ AddressesAllowed(o.conds)
      /\ IsSlice(o.feats) /\ Types(o.feats) \subseteq r.feats
      /\ IsSlice(o.imm) /\ Types(o.imm) \subseteq r.imm
  BY <1>1 DEF OutputOk, CondsOk, FeatsOk, ImmOk
<1>7. /\ Len(o.conds) <= Cardinality(r.may) /\ Len(o.feats) <= Cardinality(r.feats)
      /\ Len(o.imm) <= Cardinality(r.imm)
  BY <1>5, <1>6, SliceIsShort
<1>8. disallowImplicitAccountCreationAddress(o)
  BY <1>6, AllowedByType
<1> QED
  BY <1>1, <1>6, <1>7, <1>8 DEF ArraysDecodable

(* Build sorts the arrays. *)
LEMMA BuiltIsOk ==
    ASSUME NEW o, OutputOk(o)
    PROVE  /\ OutputOk(Built(o))
           /\ Built(o).type = o.type /\ Built(o).index = o.index /\ Built(o).amount = o.amount
           /\ Built(o).conds = SortByType(o.conds) /\ Built(o).feats = SortByType(o.feats)
           /\ Built(o).imm = SortByType(o.imm)
           /\ LexicalOrderAndUniqueness(Built(o).conds) /\ LexicalOrderAndUniqueness(Built(o).feats)
           /\ LexicalOrderAndUniqueness(Built(o).imm)
<1>1. PICK p : p = Built(o)
  OBVIOUS
<1>2. DOMAIN o = OutputFields
  BY DEF OutputOk
<1>3. /\ DOMAIN p = DOMAIN o /\ p.type = o.type /\ p.index = o.index /\ p.amount = o.amount
      /\ p.conds = SortByType(o.conds) /\ p.feats = SortByType(o.feats) /\ p.imm = SortByType(o.imm)
  BY <1>1, <1>2 DEF Built, OutputFields
<1>4. CondsOk(o.type, p.conds) /\ FeatsOk(o.type, p.feats) /\ ImmOk(o.type, p.imm)
  BY <1>3, SortKeepsArrays DEF OutputOk
<1>5. OutputOk(p)
  BY <1>3, <1>4, OkByArrays
<1>6. IsSlice(o.conds) /\ IsSlice(o.feats) /\ IsSlice(o.imm)
  BY DEF OutputOk, CondsOk, FeatsOk, ImmOk
<1>7. /\ LexicalOrderAndUniqueness(p.conds) /\ LexicalOrderAndUniqueness(p.feats)
      /\ LexicalOrderAndUniqueness(p.imm)
  BY <1>3, <1>6, SortSlice
<1> QED
  BY <1>1, <1>3, <1>5, <1>7

(* The features of an output with the keys k. *)
LEMMA WithKeysIsOk ==
    ASSUME NEW o, OutputOk(o), NEW k
    PROVE  /\ OutputOk(WithKeys(o, k))
           /\ WithKeys(o, k).type = o.type /\ WithKeys(o, k).index = o.index /\ WithKeys(o, k).amount = o.amount
           /\ WithKeys(o, k).conds = o.conds /\ WithKeys(o, k).imm = o.imm
           /\ LexicalOrderAndUniqueness(o.feats) => LexicalOrderAndUniqueness(WithKeys(o, k).feats)
           /\ \A f \in ToSet(WithKeys(o, k).feats) : TypeOf(f) = FT.BlockIssuer => f.keys = k
           /\ o.type # "Account" => WithKeys(o, k).feats = o.feats
<1>1. PICK p : p = WithKeys(o, k)
  OBVIOUS
<1>2. PICK s : s = o.feats
  OBVIOUS
<1>3. DOMAIN o = OutputFields /\ FeatsOk(o.type, s) /\ o.type \in DOMAIN Builders
  BY <1>2 DEF OutputOk
<1>4. PICK r : r = [i \in DOMAIN s |-> IF s[i].t = FT.BlockIssuer THEN [s[i] EXCEPT !.keys = k] ELSE s[i]]
  OBVIOUS
<1>5. /\ DOMAIN p = DOMAIN o /\ p.type = o.type /\ p.index = o.index /\ p.amount = o.amount
      /\ p.conds = o.conds /\ p.imm = o.imm /\ p.feats = r
  BY <1>1, <1>2, <1>3, <1>4 DEF WithKeys, OutputFields
<1>6. \A i \in DOMAIN s : DOMAIN s[i] = FeatureFields
  BY <1>3 DEF FeatsOk, HaveFields, ToSet
<1>7. \A i \in DOMAIN s : r[i] = IF TypeOf(s[i]) = FT.BlockIssuer THEN [s[i] EXCEPT !.keys = k] ELSE s[i]
  BY <1>4 DEF TypeOf
<1>8. ASSUME NEW i \in DOMAIN s
      PROVE  /\ TypeOf(r[i]) = TypeOf(s[i]) /\ DOMAIN r[i] = FeatureFields
             /\ TypeOf(s[i]) = FT.BlockIssuer => r[i].keys = k
  <2>1. CASE TypeOf(s[i]) = FT.BlockIssuer
    <3>1. PICK f : f = s[i]
      OBVIOUS
    <3>2. r[i] = [f EXCEPT !.keys = k] /\ DOMAIN f = FeatureFields
      BY <1>6, <1>7, <2>1, <3>1
    <3>3. [f EXCEPT !.keys = k].t = f.t /\ [f EXCEPT !.keys = k].keys = k
      BY <3>2 DEF FeatureFields
    <3> QED
      BY <3>1, <3>2, <3>3 DEF TypeOf
  <2>2. CASE TypeOf(s[i]) # FT.BlockIssuer
    BY <1>6, <1>7, <2>2
  <2> QED
    BY <2>1, <2>2
<1>9. PICK S : r \in [DOMAIN s -> S]
  <2>1. r \in [DOMAIN s -> {r[i] : i \in DOMAIN s}]
    BY <1>4
  <2> QED
    BY <2>1
<1>10. /\ FeatsOk(o.type, r) /\ (LexicalOrderAndUniqueness(s) => LexicalOrderAndUniqueness(r))
       /\ \A x : x \in ToSet(r) <=> \E i \in DOMAIN s : x = r[i]
  BY <1>3, <1>8, <1>9, MapKeepsFeatures
<1>11. OutputOk(p)
  BY <1>5, <1>10, OkByArrays DEF OutputOk
<1>12. \A f \in ToSet(r) : TypeOf(f) = FT.BlockIssuer => f.keys = k
  BY <1>8, <1>10
<1>13. ASSUME o.type # "Account" PROVE r = s
  <2>1. \A f \in ToSet(s) : TypeOf(f) # FT.BlockIssuer
    BY <1>3, <1>13, RulesCover, TypesByElements DEF FeatsOk
  <2>2. \A i \in DOMAIN s : s[i] \in ToSet(s)
    BY DEF ToSet
  <2>3. \A i \in DOMAIN s : r[i] = s[i]
    BY <1>7, <2>1, <2>2
  <2>4. s \in Seq(ToSet(s))
    BY <1>3 DEF FeatsOk, IsSlice
  <2>5. s = [i \in DOMAIN s |-> s[i]] /\ r = [i \in DOMAIN s |-> r[i]]
    BY <1>9, <2>4
  <2> QED
    BY <2>3, <2>5
<1> QED
  BY <1>1, <1>2, <1>5, <1>10, <1>11, <1>12, <1>13

(* What Build returns passes the decoder and the validators, if its keys   *)
(* do.                                                                     *)
WellFormed(o, k) ==
    /\ ArraysDecodable(o)
    /\ UnlockConditionLexicalOrderAndUniqueness(o) /\ FeaturesLexicalOrderAndUniqueness(o)
    /\ \A f \in All(o.feats, FT.BlockIssuer) : f.keys = k

(* Sorting its slices is all that an output of the invariant lacks to be   *)
(* well formed.                                                            *)
LEMMA BuiltIsWellFormedIfOk ==
    ASSUME NEW o, OutputOk(o), NEW k
    PROVE  WellFormed(WithKeys(Built(o), k), k)
<1>1. PICK b : b = Built(o)
  OBVIOUS
<1>2. /\ OutputOk(b) /\ LexicalOrderAndUniqueness(b.conds) /\ LexicalOrderAndUniqueness(b.feats)
      /\ LexicalOrderAndUniqueness(b.imm)
  BY <1>1, BuiltIsOk
<1>3. PICK p : p = WithKeys(b, k)
  OBVIOUS
<1>4. /\ OutputOk(p) /\ p.conds = b.conds /\ p.imm = b.imm /\ LexicalOrderAndUniqueness(p.feats)
      /\ \A f \in ToSet(p.feats) : TypeOf(f) = FT.BlockIssuer => f.keys = k
  BY <1>2, <1>3, WithKeysIsOk
<1>5. ArraysDecodable(p)
  BY <1>4, OkIsDecodable
<1>6. UnlockConditionLexicalOrderAndUniqueness(p) /\ FeaturesLexicalOrderAndUniqueness(p)
  BY <1>2, <1>4 DEF UnlockConditionLexicalOrderAndUniqueness, FeaturesLexicalOrderAndUniqueness
<1>7. \A f \in All(p.feats, FT.BlockIssuer) : f.keys = k
  BY <1>4 DEF All, TypeOf
<1> QED
  BY <1>1, <1>3, <1>5, <1>6, <1>7 DEF WellFormed

(* Keys that ascend can be decoded when there are as many as the decoder   *)
(* allows.                                                                 *)
LEMMA AscendingIsDecodable ==
    ASSUME NEW o, NEW k \in Seq(Nat), Ascending(k), WellFormed(o, k),
           \A f \in All(o.feats, FT.BlockIssuer) : KeyCountAllowed(f.keys)
    PROVE  Decodable(o)
<1>1. KeysInOrder(k)
  BY DEF Ascending, KeysInOrder
<1>2. \A f \in All(o.feats, FT.BlockIssuer) : BlockIssuerKeysDecodable(f.keys)
  BY <1>1 DEF WellFormed, BlockIssuerKeysDecodable
<1> QED
  BY <1>2 DEF WellFormed, Decodable

(* The keys of an output of the ledger ascend. *)
LEMMA LedgerKeysAscend ==
    ASSUME NEW o, IsLedgerOutput(o)
    PROVE  KeysOf(o) \in Seq(Nat) /\ Ascending(KeysOf(o)) /\ Len(KeysOf(o)) <= 128
<1>1. PICK k \in Seq(Nat) : k = KeysOf(o)
  BY DEF IsLedgerOutput
<1>2. PICK F : F = All(o.feats, FT.BlockIssuer)
  OBVIOUS
<1>3. k = IF F = {} THEN <<>> ELSE (CHOOSE x \in F : TRUE).keys
  BY <1>1, <1>2 DEF KeysOf
<1>4. CASE F = {}
  BY <1>1, <1>3, <1>4 DEF Ascending
<1>5. CASE F # {}
  <2>1. BlockIssuerKeysDecodable(k)
    BY <1>2, <1>3, <1>5 DEF IsLedgerOutput, Decodable
  <2>2. Len(k) <= MaxBlockIssuerKeysCount /\ \A i \in 2..Len(k) : k[i - 1] < k[i]
    BY <2>1 DEF BlockIssuerKeysDecodable, KeyCountAllowed, KeysInOrder
  <2>3. PICK n \in Nat : n = Len(k) /\ k \in [1..n -> Nat]
    OBVIOUS
  <2>4. Ascending(k)
    BY <2>2, <2>3, StepsAscend
  <2>5. Len(k) <= 128
    BY <2>2, BuilderAssumption
  <2> QED
    BY <1>1, <2>4, <2>5
<1> QED
  BY <1>4, <1>5

-----------------------------------------------------------------------------
(* The keys of an account. *)
LEMMA PrefixOfConcat ==
    ASSUME NEW g \in Seq(Nat), NEW h \in Seq(Nat)
    PROVE  /\ g \o h \in Seq(Nat) /\ Len(g \o h) = Len(g) + Len(h)
           /\ SubSeq(g \o h, 1, Len(g)) = g
<1>1. g \o h \in Seq(Nat) /\ Len(g \o h) = Len(g) + Len(h)
  OBVIOUS
<1>2. PICK q : q = SubSeq(g \o h, 1, Len(g))
  OBVIOUS
<1>3. q \in Seq(Nat) /\ Len(q) = Len(g)
  BY <1>1, <1>2
<1>4. \A i \in 1..Len(g) : q[i] = g[i]
  BY <1>1, <1>2
<1>5. q = g
  BY <1>3, <1>4, SeqEqual
<1> QED
  BY <1>1, <1>2, <1>5

(* A longer array begins with the keys it is made from. *)
LEMMA FillKeepsPrefix ==
    ASSUME NEW k \in Seq(Nat), NEW m \in Nat, Len(k) <= m
    PROVE  /\ Fill(k, m) \in Seq(Nat) /\ Len(Fill(k, m)) = m
           /\ SubSeq(Fill(k, m), 1, Len(k)) = k
<1>1. PICK h : h = [i \in 1..(m - Len(k)) |-> 0]
  OBVIOUS
<1>2. m - Len(k) \in Nat
  OBVIOUS
<1>3. h \in Seq(Nat) /\ Len(h) = m - Len(k)
  BY <1>1, <1>2
<1>4. Fill(k, m) = k \o h
  BY <1>1 DEF Fill
<1> QED
  BY <1>3, <1>4, PrefixOfConcat

(* Sorting distinct keys. *)
LEMMA SortDistinctKeys ==
    ASSUME NEW n \in Nat, NEW q, DistinctNumbers(q, n)
    PROVE  Sort(q) \in Seq(Nat) /\ Len(Sort(q)) = n /\ Ascending(Sort(q))
<1>1. PICK f : f = Sorting(q)
  OBVIOUS
<1>2. SortsBy(f, q, n)
  BY <1>1, DistinctAreSorted
<1>3. q \in [1..n -> Nat] /\ DOMAIN q = 1..n
  BY DEF DistinctNumbers
<1>4. PICK r : r = [i \in 1..n |-> q[f[i]]]
  OBVIOUS
<1>5. Sort(q) = r
  BY <1>1, <1>3, <1>4 DEF Sort
<1>6. f \in [1..n -> 1..n]
  BY <1>2 DEF SortsBy
<1>7. r \in [1..n -> Nat] /\ DOMAIN r = 1..n /\ \A i \in 1..n : r[i] = q[f[i]]
  BY <1>3, <1>4, <1>6
<1>8. Ascending(r)
  <2>1. \A i, j \in 1..n : i < j => q[f[i]] < q[f[j]]
    BY <1>2 DEF SortsBy
  <2>2. ASSUME NEW i \in 1..n, NEW j \in 1..n, i < j PROVE r[i] < r[j]
    BY <1>7, <2>1, <2>2, Zenon
  <2> QED
    BY <1>7, <2>2 DEF Ascending
<1> QED
  BY <1>5, <1>7, <1>8

(* BlockIssuerKeys.Add: a new key and a sort leave the keys in order. *)
LEMMA SortGrown ==
    ASSUME NEW q \in Seq(Nat), Ascending(q), NEW k \in Nat, k \notin ToSet(q)
    PROVE  /\ Sort(Append(q, k)) \in Seq(Nat) /\ Len(Sort(Append(q, k))) = Len(q) + 1
           /\ Ascending(Sort(Append(q, k)))
<1>1. PICK n \in Nat : n = Len(q)
  OBVIOUS
<1>2. PICK r : r = Append(q, k)
  OBVIOUS
<1>9. r \in Seq(Nat) /\ Len(r) = n + 1 /\ r[n + 1] = k /\ \A i \in 1..n : r[i] = q[i]
  BY <1>1, <1>2, AppendProperties
<1>3. r \in [1..(n + 1) -> Nat] /\ r[n + 1] = k /\ \A i \in 1..n : r[i] = q[i]
  BY <1>9
<1>4. \A i \in 1..n : q[i] # k
  BY <1>1 DEF ToSet
<1>5. \A i, j \in 1..n : i < j => q[i] < q[j]
  BY <1>1 DEF Ascending
<1>6. ASSUME NEW i \in 1..(n + 1), NEW j \in 1..(n + 1), r[i] = r[j], i < j PROVE FALSE
  <2>1. i \in 1..n
    BY <1>6
  <2>2. CASE j = n + 1
    BY <1>3, <1>4, <1>6, <2>1, <2>2
  <2>3. CASE j # n + 1
    <3>1. j \in 1..n
      BY <2>3
    <3>2. PICK a \in Nat, b \in Nat : a = q[i] /\ b = q[j]
      BY <1>1, <2>1, <3>1
    <3>3. a < b
      BY <1>5, <1>6, <2>1, <3>1, <3>2
    <3>4. a = b
      BY <1>3, <1>6, <2>1, <3>1, <3>2
    <3> QED
      BY <3>3, <3>4
  <2> QED
    BY <2>2, <2>3
<1>7. \A i, j \in 1..(n + 1) : r[i] = r[j] => i = j
  BY <1>6
<1>8. n + 1 \in Nat /\ DistinctNumbers(r, n + 1)
  BY <1>3, <1>7 DEF DistinctNumbers
<1> QED
  BY <1>1, <1>2, <1>8, SortDistinctKeys

(* BlockIssuerKeys.Remove: without one of the keys they stay in order. *)
LEMMA SortShrunk ==
    ASSUME NEW q \in Seq(Nat), Ascending(q), NEW k \in ToSet(q), NEW r,
           r = Sort(RemoveAt(q, Min({i \in DOMAIN q : q[i] = k})))
    PROVE  r \in Seq(Nat) /\ Len(r) = Len(q) - 1 /\ Ascending(r) /\ Len(q) # 0
<1>1. PICK n \in Nat : n = Len(q) /\ q \in [1..n -> Nat] /\ DOMAIN q = 1..n
  OBVIOUS
<1>2. PICK T : T = {i \in DOMAIN q : q[i] = k}
  OBVIOUS
<1>3. T \in SUBSET Nat /\ T \subseteq 1..n /\ T # {}
  BY <1>1, <1>2 DEF ToSet
<1>4. Min(T) \in T
  BY <1>3, LeastPlace, Zenon
<1>5. PICK m \in 1..n : m = Min(T)
  BY <1>3, <1>4
<1>6. PICK p : p = RemoveAt(q, m)
  OBVIOUS
<1>7. p = [i \in 1..(n - 1) |-> IF i < m THEN q[i] ELSE q[i + 1]]
  BY <1>1, <1>6, RemoveAtPlace
<1>8. n - 1 \in Nat
  BY <1>5
<1>9. /\ p \in [1..(n - 1) -> Nat] /\ DOMAIN p = 1..(n - 1)
      /\ \A i \in 1..(n - 1) : p[i] = IF i < m THEN q[i] ELSE q[i + 1]
  BY <1>1, <1>7, <1>8
<1>10. \A i, j \in 1..n : i < j => q[i] < q[j]
  BY <1>1 DEF Ascending
<1>11. ASSUME NEW i \in 1..(n - 1), NEW j \in 1..(n - 1), i < j PROVE p[i] < p[j]
  <2>1. PICK a \in 1..n : a = (IF i < m THEN i ELSE i + 1) /\ p[i] = q[a]
    BY <1>9
  <2>2. PICK b \in 1..n : b = (IF j < m THEN j ELSE j + 1) /\ p[j] = q[b]
    BY <1>9
  <2>3. a < b
    BY <1>11, <2>1, <2>2
  <2> QED
    BY <1>10, <2>1, <2>2, <2>3
<1>12. Ascending(p)
  BY <1>9, <1>11 DEF Ascending
<1>13. Sort(p) = p
  BY <1>8, <1>9, <1>12, SortKeepsAscending DEF IsAscending
<1>14. r = p
  BY <1>2, <1>5, <1>6, <1>13
<1>15. p \in Seq(Nat) /\ Len(p) = n - 1
  BY <1>8, <1>9
<1>16. Len(q) - 1 = n - 1 /\ Len(q) # 0
  BY <1>1, <1>5
<1> QED
  BY <1>12, <1>14, <1>15, <1>16, Zenon

-----------------------------------------------------------------------------
(* The slice of keys lies in its array and is ascending, if the one that   *)
(* the caller handed over was.                                             *)
KeysOk ==
    /\ array[2] \in Seq(Nat) /\ outKeys.arr \in {1, 2} /\ outKeys.len \in Nat
    /\ outKeys.len <= Len(array[outKeys.arr])
    /\ OutNow \in Seq(Nat) /\ Ascending(OutNow)
KeysInv ==
    /\ DOMAIN array = {1, 2} /\ array[1] \in Seq(Nat) /\ DOMAIN outKeys = {"arr", "len"}
    /\ orderly \in BOOLEAN /\ (IF orderly THEN KeysOk ELSE outKeys.arr = 2)

(* What belongs to the controllers of an anchor, so long as the builder    *)
(* did not notice a call that needs one of them.                           *)
StateKept ==
    output.amount = prev.amount /\ All(output.feats, FT.StateMetadata) = All(prev.feats, FT.StateMetadata)
GovernanceKept ==
    output.conds = prev.conds /\ All(output.feats, FT.Metadata) = All(prev.feats, FT.Metadata)
IndexAsCounted ==
    /\ builds = 0 \/ ~stateCtrlReq => output.index = prev.index
    /\ builds = 1 /\ stateCtrlReq /\ ~govCtrlReq => output.index = NextIndex(prev)
AnchorInv ==
    prev # NoOutput /\ output.type = "Anchor" =>
        /\ IndexAsCounted
        /\ stateCtrlReq \/ StateKept
        /\ govCtrlReq \/ GovernanceKept

(* The inductive invariant of a builder. *)
OutputBuilderInv ==
    /\ builds \in Nat /\ (builds = 0 => built = NoOutput)
    /\ stateCtrlReq \in BOOLEAN /\ govCtrlReq \in BOOLEAN
    /\ OutputOk(output)
    /\ prev # NoOutput => prev \in Previous /\ prev.type = output.type
    /\ KeysInv /\ AnchorInv
    /\ BuiltIsValid

(* An output of the ledger, as the builders see it. *)
LEMMA LedgerOutputIsOk ==
    ASSUME NEW o, IsLedgerOutput(o)
    PROVE  /\ OutputOk(o)
           /\ SortByType(o.conds) = o.conds /\ SortByType(o.feats) = o.feats /\ SortByType(o.imm) = o.imm
<1>1. DOMAIN o = OutputFields /\ o.type \in DOMAIN Builders
  BY DEF IsLedgerOutput, OutputFields
<1>2. PICK r : r = OutputRules[o.type]
  OBVIOUS
<1>3. r.may \subseteq Nat /\ r.feats \subseteq Nat /\ r.imm \subseteq Nat
  BY <1>1, <1>2, RulesCover
<1>4. /\ o.conds \in Seq(ToSet(o.conds)) /\ o.feats \in Seq(ToSet(o.feats)) /\ o.imm \in Seq(ToSet(o.imm))
      /\ LexicalOrderAndUniqueness(o.conds) /\ LexicalOrderAndUniqueness(o.feats)
      /\ LexicalOrderAndUniqueness(o.imm)
  BY DEF IsLedgerOutput, UnlockConditionLexicalOrderAndUniqueness, FeaturesLexicalOrderAndUniqueness
<1>5. /\ r.must \subseteq Types(o.conds) /\ Types(o.conds) \subseteq r.may
      /\ Types(o.feats) \subseteq r.feats /\ Types(o.imm) \subseteq r.imm
      /\ disallowImplicitAccountCreationAddress(o)
  BY <1>2 DEF IsLedgerOutput, Decodable, ArraysDecodable
<1>6. /\ \A x \in ToSet(o.conds) : TypeOf(x) \in Nat
      /\ \A x \in ToSet(o.feats) : TypeOf(x) \in Nat
      /\ \A x \in ToSet(o.imm) : TypeOf(x) \in Nat
  BY <1>3, <1>5 DEF Types, TypeOf
<1>7. /\ IsSlice(o.conds) /\ SortByType(o.conds) = o.conds
      /\ IsSlice(o.feats) /\ SortByType(o.feats) = o.feats
      /\ IsSlice(o.imm) /\ SortByType(o.imm) = o.imm
  BY <1>4, <1>6, SortKeepsValid
<1>8. AddressesAllowed(o.conds)
  BY <1>5, AllowedByType
<1>9. HaveFields(o.feats)
  BY DEF IsLedgerOutput, HaveFields, FeatureFields
<1> QED
  BY <1>1, <1>2, <1>5, <1>7, <1>8, <1>9 DEF OutputOk, CondsOk, FeatsOk, ImmOk

(* New outputs. *)
LEMMA NewOutputIsOk ==
    ASSUME NEW type \in DOMAIN Builders, NEW a \in Owners
    PROVE  OutputOk(NewOutput(type, a))
<1>1. PICK o : o = NewOutput(type, a)
  OBVIOUS
<1>2. DOMAIN o = OutputFields /\ o.type = type /\ o.feats = <<>> /\ o.imm = <<>>
  BY <1>1 DEF NewOutput, OutputFields
<1>3. PICK s : s = o.conds
  OBVIOUS
<1>4. AddressType[a] # "ImplicitAccountCreation"
  BY BuilderAssumption
<1>5. ImmOk(type, <<>>) /\ FeatsOk(type, <<>>)
  <2>1. ToSet(<<>>) = {}
    BY DEF ToSet
  <2>2. <<>> \in Seq({}) /\ DistinctTypes(<<>>) /\ Types(<<>>) = {} /\ HaveFields(<<>>)
    BY <2>1 DEF DistinctTypes, Types, HaveFields
  <2> QED
    BY <2>1, <2>2 DEF ImmOk, FeatsOk, IsSlice
<1>6. CASE type = "Anchor"
  <2>1. PICK x : x = UnlockCondition(UC.StateController, a, 0)
    OBVIOUS
  <2>2. PICK y : y = UnlockCondition(UC.Governor, a, 0)
    OBVIOUS
  <2>3. x.t = 4 /\ x.addr = a /\ y.t = 5 /\ y.addr = a
    BY <2>1, <2>2 DEF UnlockCondition, UC
  <2>4. s = <<x, y>>
    BY <1>1, <1>3, <1>6, <2>1, <2>2 DEF NewOutput
  <2>5. OutputRules[type].must = {4, 5} /\ OutputRules[type].may = {4, 5}
    BY <1>6 DEF OutputRules, AnchorOutputRules, ArrayRules, UC
  <2>6. s \in Seq({x, y}) /\ ToSet(s) = {x, y}
    BY <2>4 DEF ToSet
  <2>7. DistinctTypes(s)
    BY <2>3, <2>4 DEF DistinctTypes, TypeOf
  <2>8. AddressesAllowed(s) /\ Types(s) = {4, 5}
    BY <1>4, <2>3, <2>6 DEF AddressesAllowed, Types
  <2>9. CondsOk(type, s)
    BY <2>5, <2>6, <2>7, <2>8 DEF CondsOk, IsSlice
  <2> QED
    BY <1>1, <1>2, <1>3, <1>5, <2>9 DEF OutputOk
<1>7. CASE type # "Anchor"
  <2>0. PICK t : t = IF type = "Foundry" THEN UC.ImmutableAccount ELSE UC.Address
    OBVIOUS
  <2>1. PICK x : x = UnlockCondition(t, a, 0)
    OBVIOUS
  <2>3. x.t = t /\ x.addr = a /\ t \in Nat /\ t \in {0, 6}
    BY <2>0, <2>1 DEF UnlockCondition, UC
  <2>4. s = <<x>>
    BY <1>1, <1>3, <1>7, <2>0, <2>1 DEF NewOutput
  <2>5. OutputRules[type].must = {t} /\ t \in OutputRules[type].may
    <3>1. type \in {"Basic", "NFT", "Account", "Foundry", "Delegation"}
      BY <1>7, RulesCover
    <3>2. CASE type = "Foundry"
      BY <2>0, <3>2 DEF OutputRules, FoundryOutputRules, ArrayRules, UC
    <3>3. CASE type = "Basic"
      BY <2>0, <3>3 DEF OutputRules, BasicOutputRules, ArrayRules, UC
    <3>4. CASE type = "NFT"
      BY <2>0, <3>4 DEF OutputRules, NFTOutputRules, ArrayRules, UC
    <3>5. CASE type = "Account"
      BY <2>0, <3>5 DEF OutputRules, AccountOutputRules, ArrayRules, UC
    <3>6. CASE type = "Delegation"
      BY <2>0, <3>6 DEF OutputRules, DelegationOutputRules, ArrayRules, UC
    <3> QED
      BY <3>1, <3>2, <3>3, <3>4, <3>5, <3>6
  <2>6. s \in Seq({x}) /\ ToSet(s) = {x}
    BY <2>4 DEF ToSet
  <2>7. DistinctTypes(s)
    BY <2>3, <2>4 DEF DistinctTypes, TypeOf
  <2>8. AddressesAllowed(s) /\ Types(s) = {t}
    BY <1>4, <2>3, <2>6 DEF AddressesAllowed, Types
  <2>9. CondsOk(type, s)
    BY <2>5, <2>6, <2>7, <2>8 DEF CondsOk, IsSlice
  <2> QED
    BY <1>1, <1>2, <1>3, <1>5, <2>9 DEF OutputOk
<1> QED
  BY <1>6, <1>7

(* The initial states. *)
LEMMA CapacityIsEnough ==
    ASSUME NEW n \in Nat, n <= 128
    PROVE  Capacity(n) \in Nat /\ n <= Capacity(n)
<1> DEFINE C == Capacities
           P(c) == c >= n /\ \A d \in C : d >= n => c <= d
<1>1. \E c \in C : P(c)
  <2>1. PICK T : T = {c \in C : c >= n}
    OBVIOUS
  <2>2. T \in SUBSET Nat /\ 128 \in T
    BY <2>1 DEF Capacities
  <2>3. PICK c \in T : \A d \in T : c <= d
    BY <2>2, Least
  <2> QED
    BY <2>1, <2>3
<1>2. Capacity(n) \in C /\ P(Capacity(n))
  BY <1>1, Zenon DEF Capacity
<1> QED
  BY <1>2 DEF Capacities

(* New builders and builders from an output of the ledger satisfy it. *)
LEMMA BuilderStarts == BuilderInit => OutputBuilderInv
<1> SUFFICES ASSUME BuilderInit PROVE OutputBuilderInv
  OBVIOUS
<1>1. /\ builds = 0 /\ built = NoOutput /\ stateCtrlReq = FALSE /\ govCtrlReq = FALSE
      /\ stateCtrlReq \in BOOLEAN /\ govCtrlReq \in BOOLEAN
  BY DEF BuilderInit
<1>5. orderly = TRUE /\ orderly \in BOOLEAN
  BY DEF BuilderInit
<1>2. BuiltIsValid
  BY <1>1 DEF BuiltIsValid, BuiltIsWellFormed, AnchorTransitionsAsBuilt
<1>3. CASE prev = NoOutput /\ array = <<<<>>, <<>>>> /\ outKeys = [arr |-> 2, len |-> 0]
           /\ \E type \in DOMAIN Builders, a \in Owners : output = NewOutput(type, a)
  <2>1. OutputOk(output)
    BY <1>3, NewOutputIsOk
  <2>2. KeysInv
    <3>1. OutNow = <<>>
      BY <1>3 DEF OutNow
    <3>2. Ascending(<<>>)
      BY DEF Ascending
    <3>3. array[1] = <<>> /\ array[2] = <<>> /\ DOMAIN array = {1, 2}
      BY <1>3
    <3>4. <<>> \in Seq(Nat) /\ Len(<<>>) = 0
      OBVIOUS
    <3>5. outKeys.arr = 2 /\ outKeys.len = 0 /\ DOMAIN outKeys = {"arr", "len"}
      BY <1>3
    <3> QED
      BY <1>5, <3>1, <3>2, <3>3, <3>4, <3>5 DEF KeysInv, KeysOk
  <2>3. AnchorInv
    BY <1>3 DEF AnchorInv
  <2> QED
    BY <1>1, <1>2, <1>3, <2>1, <2>2, <2>3 DEF OutputBuilderInv
<1>4. CASE /\ prev \in Previous /\ prevKeys = Len(KeysOf(prev))
           /\ array = <<Fill(KeysOf(prev), Capacity(prevKeys)), <<>>>>
           /\ outKeys = [arr |-> 1, len |-> prevKeys]
           /\ output = WithKeys(prev, <<>>)
  <2>1. IsLedgerOutput(prev)
    BY <1>4, BuilderAssumption
  <2>2. OutputOk(prev)
    BY <2>1, LedgerOutputIsOk
  <2>3. /\ OutputOk(output) /\ output.type = prev.type /\ output.index = prev.index
        /\ output.amount = prev.amount /\ output.conds = prev.conds
        /\ output.type # "Account" => output.feats = prev.feats
    BY <1>4, <2>2, WithKeysIsOk
  <2>4. AnchorInv
    BY <1>1, <2>3 DEF AnchorInv, IndexAsCounted, StateKept, GovernanceKept
  <2>5. KeysInv
    <3>1. PICK k \in Seq(Nat) : k = KeysOf(prev) /\ Ascending(k) /\ Len(k) <= 128
      BY <2>1, LedgerKeysAscend
    <3>2. PICK c \in Nat : c = Capacity(Len(k)) /\ Len(k) <= c
      BY <3>1, CapacityIsEnough
    <3>3. PICK f \in Seq(Nat) : f = Fill(k, c) /\ Len(f) = c /\ SubSeq(f, 1, Len(k)) = k
      BY <3>2, FillKeepsPrefix
    <3>4. array = <<f, <<>>>> /\ outKeys = [arr |-> 1, len |-> Len(k)]
      BY <1>4, <3>1, <3>2, <3>3
    <3>5. OutNow = k
      BY <3>3, <3>4 DEF OutNow
    <3>6. array[1] = f /\ array[2] = <<>> /\ DOMAIN array = {1, 2}
      BY <3>4
    <3> QED
      BY <1>5, <3>1, <3>2, <3>3, <3>4, <3>5, <3>6 DEF KeysInv, KeysOk
  <2> QED
    BY <1>1, <1>2, <1>4, <2>3, <2>4, <2>5 DEF OutputBuilderInv
<1> QED
  BY <1>3, <1>4 DEF BuilderInit

-----------------------------------------------------------------------------
(* The setters.  None touches what Build returned. *)
LEMMA SetterKeeps ==
    ASSUME OutputBuilderInv, Calls, OutputOk(output'), output'.type = output.type, KeysInv', AnchorInv',
           stateCtrlReq' \in BOOLEAN, govCtrlReq' \in BOOLEAN
    PROVE  OutputBuilderInv'
<1>1. builds = 0 /\ builds' = builds /\ built' = built /\ prev' = prev
  BY DEF Calls
<1>2. built = NoOutput /\ built' = NoOutput /\ builds' = 0
  BY <1>1 DEF OutputBuilderInv
<1>3. BuiltIsValid'
  BY <1>2 DEF BuiltIsValid, BuiltIsWellFormed, AnchorTransitionsAsBuilt
<1>4. prev' # NoOutput => prev' \in Previous /\ prev'.type = output'.type
  BY <1>1 DEF OutputBuilderInv
<1> QED
  BY <1>2, <1>3, <1>4, Zenon, 0 \in Nat DEF OutputBuilderInv

(* A call that is not about keys leaves the shared array alone. *)
LEMMA KeepKeysKeeps ==
    ASSUME KeysInv, KeepKeys
    PROVE  KeysInv'
BY DEF KeysInv, KeysOk, KeepKeys, OutNow

(* What a call changes of an anchor, its controller answers for. *)
StateSame ==
    output'.amount = output.amount /\ All(output'.feats, FT.StateMetadata) = All(output.feats, FT.StateMetadata)
GovernanceSame ==
    output'.conds = output.conds /\ All(output'.feats, FT.Metadata) = All(output.feats, FT.Metadata)

(* A setter of an anchor notes the controller whose part it changes. *)
LEMMA RequiresKeeps ==
    ASSUME OutputBuilderInv, Calls, NEW s, NEW g, Requires(s, g), output'.type = output.type,
           output.type = "Anchor" => output'.index = output.index /\ (s \/ StateSame) /\ (g \/ GovernanceSame)
    PROVE  AnchorInv' /\ stateCtrlReq' \in BOOLEAN /\ govCtrlReq' \in BOOLEAN
<1>1. stateCtrlReq' \in BOOLEAN /\ govCtrlReq' \in BOOLEAN
  BY Zenon DEF Requires
<1>2. SUFFICES ASSUME prev # NoOutput, output.type = "Anchor" PROVE
        output'.index = prev.index /\ (stateCtrlReq' \/ StateKept') /\ (govCtrlReq' \/ GovernanceKept')
  <2>1. builds' = 0 /\ prev' = prev
    BY DEF Calls
  <2>2. builds' # 1
    BY <2>1
  <2> QED
    BY <1>1, <2>1, <2>2, Zenon DEF AnchorInv, IndexAsCounted
<1>3. output.index = prev.index /\ (stateCtrlReq \/ StateKept) /\ (govCtrlReq \/ GovernanceKept)
  BY <1>2, Zenon DEF OutputBuilderInv, AnchorInv, IndexAsCounted, Calls
<1>4. (stateCtrlReq' <=> stateCtrlReq \/ s) /\ (govCtrlReq' <=> govCtrlReq \/ g)
  BY <1>2, Zenon DEF Requires
<1>5. (StateKept /\ StateSame => StateKept') /\ (GovernanceKept /\ GovernanceSame => GovernanceKept')
  BY DEF StateKept, StateSame, GovernanceKept, GovernanceSame, Calls
<1>6. output'.index = prev.index
  BY <1>2, <1>3, Zenon
<1> QED
  BY <1>2, <1>3, <1>4, <1>5, <1>6, Zenon

(* Setters of fields that are no arrays. *)
LEMMA PlainSetterKeeps ==
    ASSUME OutputBuilderInv, Calls, KeepKeys, NEW s, NEW g, Requires(s, g),
           DOMAIN output' = DOMAIN output, output'.type = output.type, output'.conds = output.conds,
           output'.feats = output.feats, output'.imm = output.imm,
           output.type = "Anchor" => output'.index = output.index /\ (s \/ output'.amount = output.amount)
    PROVE  OutputBuilderInv'
<1>1. OutputOk(output)
  BY DEF OutputBuilderInv
<1>2. OutputOk(output')
  BY <1>1 DEF OutputOk
<1>3. output.type = "Anchor" => output'.index = output.index /\ (s \/ StateSame) /\ (g \/ GovernanceSame)
  BY Zenon DEF StateSame, GovernanceSame
<1>4. AnchorInv' /\ stateCtrlReq' \in BOOLEAN /\ govCtrlReq' \in BOOLEAN
  BY <1>3, RequiresKeeps, Zenon
<1>5. KeysInv'
  BY KeepKeysKeeps DEF OutputBuilderInv
<1> QED
  BY <1>2, <1>4, <1>5, SetterKeeps, Zenon

(* Setters of the fields of an output. *)
LEMMA FieldSettersKeep ==
    ASSUME OutputBuilderInv, NEW n,
           SetAmount(n) \/ SetMana(n) \/ SetID(n) \/ SetAux(n) \/ FoundriesToGenerate(n)
    PROVE  OutputBuilderInv'
<1>1. DOMAIN output = OutputFields /\ output.type \in DOMAIN Builders
  BY DEF OutputBuilderInv, OutputOk
<1>2. CASE SetAmount(n)
  <2>1. Calls /\ KeepKeys /\ output' = [output EXCEPT !.amount = n] /\ Requires(TRUE, FALSE)
    BY <1>2 DEF SetAmount
  <2>2. /\ DOMAIN output' = DOMAIN output /\ output'.type = output.type /\ output'.conds = output.conds
        /\ output'.feats = output.feats /\ output'.imm = output.imm /\ output'.index = output.index
    BY <1>1, <2>1 DEF OutputFields
  <2> QED
    BY <2>1, <2>2, PlainSetterKeeps, Zenon
<1>3. CASE SetMana(n)
  <2>1. Calls /\ KeepKeys /\ output' = [output EXCEPT !.mana = n] /\ Requires(FALSE, FALSE)
    BY <1>3 DEF SetMana
  <2>2. /\ DOMAIN output' = DOMAIN output /\ output'.type = output.type /\ output'.conds = output.conds
        /\ output'.feats = output.feats /\ output'.imm = output.imm /\ output'.index = output.index
        /\ output'.amount = output.amount
    BY <1>1, <2>1 DEF OutputFields
  <2> QED
    BY <2>1, <2>2, PlainSetterKeeps, Zenon
<1>4. CASE SetID(n)
  <2>1. Calls /\ KeepKeys /\ output' = [output EXCEPT !.id = n] /\ Requires(FALSE, FALSE)
    BY <1>4 DEF SetID
  <2>2. /\ DOMAIN output' = DOMAIN output /\ output'.type = output.type /\ output'.conds = output.conds
        /\ output'.feats = output.feats /\ output'.imm = output.imm /\ output'.index = output.index
        /\ output'.amount = output.amount
    BY <1>1, <2>1 DEF OutputFields
  <2> QED
    BY <2>1, <2>2, PlainSetterKeeps, Zenon
<1>5. CASE SetAux(n)
  <2>1. Calls /\ KeepKeys /\ output' = [output EXCEPT !.aux = n] /\ Requires(FALSE, FALSE)
    BY <1>5 DEF SetAux
  <2>2. /\ DOMAIN output' = DOMAIN output /\ output'.type = output.type /\ output'.conds = output.conds
        /\ output'.feats = output.feats /\ output'.imm = output.imm /\ output'.index = output.index
        /\ output'.amount = output.amount
    BY <1>1, <2>1 DEF OutputFields
  <2> QED
    BY <2>1, <2>2, PlainSetterKeeps, Zenon
<1>6. CASE FoundriesToGenerate(n)
  <2>1. /\ Calls /\ KeepKeys /\ output' = [output EXCEPT !.index = (@ + n) % IndexLimit]
        /\ Requires(FALSE, FALSE) /\ May("index")
    BY <1>6 DEF FoundriesToGenerate
  <2>2. /\ DOMAIN output' = DOMAIN output /\ output'.type = output.type /\ output'.conds = output.conds
        /\ output'.feats = output.feats /\ output'.imm = output.imm
    BY <1>1, <2>1 DEF OutputFields
  <2>3. output.type # "Anchor"
    BY <1>1, <2>1, RulesCover DEF May
  <2> QED
    BY <2>1, <2>2, <2>3, PlainSetterKeeps, Zenon
<1> QED
  BY <1>2, <1>3, <1>4, <1>5, <1>6

(* Setters of arrays. *)
LEMMA ArraySetterKeeps ==
    ASSUME OutputBuilderInv, Calls, KeysInv', NEW s, NEW g, Requires(s, g),
           DOMAIN output' = DOMAIN output, output'.type = output.type,
           CondsOk(output.type, output'.conds), FeatsOk(output.type, output'.feats), ImmOk(output.type, output'.imm),
           output.type = "Anchor" => output'.index = output.index /\ (s \/ StateSame) /\ (g \/ GovernanceSame)
    PROVE  OutputBuilderInv'
<1>1. OutputOk(output)
  BY DEF OutputBuilderInv
<1>2. OutputOk(output')
  BY <1>1 DEF OutputOk
<1>3. AnchorInv' /\ stateCtrlReq' \in BOOLEAN /\ govCtrlReq' \in BOOLEAN
  BY RequiresKeeps, Zenon
<1> QED
  BY <1>2, <1>3, SetterKeeps, Zenon

(* Setters of unlock conditions. *)
LEMMA SetConditionKeeps ==
    ASSUME OutputBuilderInv, NEW t, NEW a \in Owners, NEW n, SetCondition(UnlockCondition(t, a, n))
    PROVE  OutputBuilderInv'
<1>1. PICK c : c = UnlockCondition(t, a, n)
  OBVIOUS
<1>2. TypeOf(c) = t /\ c.t = t /\ c.addr = a
  BY <1>1 DEF UnlockCondition, TypeOf
<1>3. /\ t \in Builders[output.type].conds /\ Calls /\ KeepKeys /\ Requires(FALSE, TRUE)
      /\ output' = [output EXCEPT !.conds = Upsert(@, c)]
  BY <1>1, <1>2 DEF SetCondition
<1>4. /\ DOMAIN output = OutputFields /\ output.type \in DOMAIN Builders /\ CondsOk(output.type, output.conds)
      /\ FeatsOk(output.type, output.feats) /\ ImmOk(output.type, output.imm)
  BY DEF OutputBuilderInv, OutputOk
<1>5. /\ DOMAIN output' = DOMAIN output /\ output'.type = output.type /\ output'.conds = Upsert(output.conds, c)
      /\ output'.feats = output.feats /\ output'.imm = output.imm /\ output'.index = output.index
      /\ output'.amount = output.amount
  BY <1>3, <1>4 DEF OutputFields
<1>6. CondsOk(output.type, output'.conds)
  BY <1>2, <1>3, <1>4, <1>5, BuilderAssumption, UpsertCondition
<1>7. FeatsOk(output.type, output'.feats) /\ ImmOk(output.type, output'.imm)
  BY <1>4, <1>5
<1>8. StateSame
  BY <1>5 DEF StateSame
<1>9. KeysInv'
  BY <1>3, KeepKeysKeeps DEF OutputBuilderInv
<1> QED
  BY <1>3, <1>5, <1>6, <1>7, <1>8, <1>9, ArraySetterKeeps, Zenon

(* The fields of a feature. *)
LEMMA FeatureShape ==
    ASSUME NEW t, NEW v, NEW n
    PROVE  TypeOf(Feature(t, v, n)) = t /\ Feature(t, v, n).t = t /\ DOMAIN Feature(t, v, n) = FeatureFields
BY DEF Feature, FeatureFields, TypeOf

(* Setters of features. *)
LEMMA SetFeatureKeeps ==
    ASSUME OutputBuilderInv, NEW t, NEW v, SetFeature(Feature(t, v, 1))
    PROVE  OutputBuilderInv'
<1>1. PICK f : f = Feature(t, v, 1)
  OBVIOUS
<1>2. TypeOf(f) = t /\ f.t = t /\ DOMAIN f = FeatureFields
  BY <1>1, FeatureShape
<1>3. /\ t \in Builders[output.type].feats /\ Calls /\ KeepKeys
      /\ Requires(t = FT.StateMetadata, t = FT.Metadata)
      /\ output' = [output EXCEPT !.feats = Upsert(@, f)]
  BY <1>1, <1>2, Zenon DEF SetFeature
<1>4. /\ DOMAIN output = OutputFields /\ output.type \in DOMAIN Builders /\ CondsOk(output.type, output.conds)
      /\ FeatsOk(output.type, output.feats) /\ ImmOk(output.type, output.imm)
  BY DEF OutputBuilderInv, OutputOk
<1>5. /\ DOMAIN output' = DOMAIN output /\ output'.type = output.type /\ output'.conds = output.conds
      /\ output'.feats = Upsert(output.feats, f) /\ output'.imm = output.imm
      /\ output'.index = output.index /\ output'.amount = output.amount
  BY <1>3, <1>4 DEF OutputFields
<1>6. FeatsOk(output.type, output'.feats)
  BY <1>2, <1>3, <1>4, <1>5, UpsertFeature
<1>7. CondsOk(output.type, output'.conds) /\ ImmOk(output.type, output'.imm)
  BY <1>4, <1>5
<1>8. ASSUME NEW u, u # t PROVE All(output'.feats, u) = All(output.feats, u)
  <2>1. IsSlice(output.feats) /\ TypeOf(f) \in Nat
    BY <1>2, <1>3, <1>4, RulesCover DEF FeatsOk
  <2>2. \A y : y \in ToSet(output'.feats) <=> y = f \/ (y \in ToSet(output.feats) /\ TypeOf(y) # TypeOf(f))
    BY <1>5, <2>1, UpsertSlice
  <2> QED
    BY <1>2, <1>8, <2>2 DEF All, TypeOf
<1>9. (t = FT.StateMetadata \/ StateSame) /\ (t = FT.Metadata \/ GovernanceSame)
  BY <1>5, <1>8 DEF StateSame, GovernanceSame
<1>10. KeysInv'
  BY <1>3, KeepKeysKeeps DEF OutputBuilderInv
<1> QED
  BY <1>3, <1>5, <1>6, <1>7, <1>9, <1>10, ArraySetterKeeps, Zenon

(* Setters of immutable features. *)
LEMMA SetImmutableFeatureKeeps ==
    ASSUME OutputBuilderInv, NEW t, NEW v, SetImmutableFeature(Feature(t, v, 0))
    PROVE  OutputBuilderInv'
<1>1. PICK f : f = Feature(t, v, 0)
  OBVIOUS
<1>2. TypeOf(f) = t /\ f.t = t
  BY <1>1, FeatureShape
<1>3. /\ t \in Builders[output.type].imm /\ Calls /\ KeepKeys /\ Requires(FALSE, FALSE)
      /\ output' = [output EXCEPT !.imm = Upsert(@, f)]
  BY <1>1, <1>2 DEF SetImmutableFeature
<1>4. /\ DOMAIN output = OutputFields /\ output.type \in DOMAIN Builders /\ CondsOk(output.type, output.conds)
      /\ FeatsOk(output.type, output.feats) /\ ImmOk(output.type, output.imm)
  BY DEF OutputBuilderInv, OutputOk
<1>5. /\ DOMAIN output' = DOMAIN output /\ output'.type = output.type /\ output'.conds = output.conds
      /\ output'.feats = output.feats /\ output'.imm = Upsert(output.imm, f)
      /\ output'.index = output.index /\ output'.amount = output.amount
  BY <1>3, <1>4 DEF OutputFields
<1>6. ImmOk(output.type, output'.imm)
  BY <1>2, <1>3, <1>4, <1>5, UpsertImmutable
<1>7. CondsOk(output.type, output'.conds) /\ FeatsOk(output.type, output'.feats)
  BY <1>4, <1>5
<1>8. StateSame /\ GovernanceSame
  BY <1>5 DEF StateSame, GovernanceSame
<1>9. KeysInv'
  BY <1>3, KeepKeysKeeps DEF OutputBuilderInv
<1> QED
  BY <1>3, <1>5, <1>6, <1>7, <1>8, <1>9, ArraySetterKeeps, Zenon

(* Setters of accounts, which are no anchors. *)
LEMMA AccountSetterKeeps ==
    ASSUME OutputBuilderInv, Calls, Requires(FALSE, FALSE), output.type = "Account", KeysInv',
           NEW fs, FeatsOk("Account", fs), output' = [output EXCEPT !.feats = fs]
    PROVE  OutputBuilderInv'
<1>1. /\ DOMAIN output = OutputFields /\ CondsOk(output.type, output.conds) /\ ImmOk(output.type, output.imm)
  BY DEF OutputBuilderInv, OutputOk
<1>2. /\ DOMAIN output' = DOMAIN output /\ output'.type = output.type /\ output'.conds = output.conds
      /\ output'.feats = fs /\ output'.imm = output.imm
  BY <1>1 DEF OutputFields
<1>3. /\ CondsOk(output.type, output'.conds) /\ FeatsOk(output.type, output'.feats)
      /\ ImmOk(output.type, output'.imm) /\ output.type # "Anchor"
  BY <1>1, <1>2
<1> QED
  BY <1>2, <1>3, ArraySetterKeeps, Zenon

(* RemoveFeature of the account output builder. *)
LEMMA RemoveFeatureKeeps ==
    ASSUME OutputBuilderInv, NEW t, RemoveFeature(t)
    PROVE  OutputBuilderInv'
<1>1. /\ May("remove") /\ Calls /\ KeepKeys /\ Requires(FALSE, FALSE)
      /\ output' = [output EXCEPT !.feats = RemoveType(@, t)]
  BY DEF RemoveFeature
<1>2. output.type \in DOMAIN Builders /\ FeatsOk(output.type, output.feats)
  BY DEF OutputBuilderInv, OutputOk
<1>3. output.type = "Account"
  BY <1>1, <1>2, RulesCover DEF May
<1>4. PICK fs : fs = RemoveType(output.feats, t)
  OBVIOUS
<1>5. FeatsOk("Account", fs) /\ output' = [output EXCEPT !.feats = fs]
  BY <1>1, <1>2, <1>3, <1>4, RemoveKeepsFeatures
<1>6. KeysInv'
  BY <1>1, KeepKeysKeeps DEF OutputBuilderInv
<1> QED
  BY <1>1, <1>3, <1>5, <1>6, AccountSetterKeeps, Zenon

(* The setters of the transitions of staking and block issuer features. *)
LEMMA SetInTransitionKeeps ==
    ASSUME OutputBuilderInv, NEW t, NEW n, SetInTransition(t, n)
    PROVE  OutputBuilderInv'
<1>1. PICK s : s = output.feats
  OBVIOUS
<1>2. PICK r : r = [i \in DOMAIN s |-> IF s[i].t = t THEN [s[i] EXCEPT !.n = n] ELSE s[i]]
  OBVIOUS
<1>3. output.type = "Account" /\ Calls /\ KeepKeys /\ Requires(FALSE, FALSE) /\ output' = [output EXCEPT !.feats = r]
  BY <1>1, <1>2 DEF SetInTransition, KeyStep
<1>4. FeatsOk("Account", s)
  BY <1>1, <1>3 DEF OutputBuilderInv, OutputOk
<1>5. \A i \in DOMAIN s : DOMAIN s[i] = FeatureFields
  BY <1>4 DEF FeatsOk, HaveFields, ToSet
<1>6. ASSUME NEW i \in DOMAIN s PROVE TypeOf(r[i]) = TypeOf(s[i]) /\ DOMAIN r[i] = FeatureFields
  <2>1. PICK f : f = s[i]
    OBVIOUS
  <2>2. r[i] = (IF f.t = t THEN [f EXCEPT !.n = n] ELSE f) /\ DOMAIN f = FeatureFields
    BY <1>2, <1>5, <2>1
  <2>3. [f EXCEPT !.n = n].t = f.t /\ DOMAIN [f EXCEPT !.n = n] = FeatureFields
    BY <2>2 DEF FeatureFields
  <2> QED
    BY <2>1, <2>2, <2>3 DEF TypeOf
<1>7. PICK S : r \in [DOMAIN s -> S]
  <2>1. r \in [DOMAIN s -> {r[i] : i \in DOMAIN s}]
    BY <1>2
  <2> QED
    BY <2>1
<1>8. FeatsOk("Account", r)
  BY <1>4, <1>6, <1>7, MapKeepsFeatures
<1>9. KeysInv'
  BY <1>3, KeepKeysKeeps DEF OutputBuilderInv
<1> QED
  BY <1>3, <1>8, <1>9, AccountSetterKeeps, Zenon

-----------------------------------------------------------------------------
(* The calls that change keys.  The slice may lie in either array. *)
LEMMA KeysBecome ==
    ASSUME KeysInv, NEW x \in {1, 2}, x = 2 \/ array[2] \in Seq(Nat), orderly' = TRUE,
           NEW full \in Seq(Nat), NEW q \in Seq(Nat), Ascending(q),
           Len(q) <= Len(full), SubSeq(full, 1, Len(q)) = q,
           array' = [array EXCEPT ![x] = full], outKeys' = [arr |-> x, len |-> Len(q)]
    PROVE  KeysInv'
<1>1. DOMAIN array = {1, 2} /\ array[1] \in Seq(Nat)
  BY DEF KeysInv
<1>2. DOMAIN array' = {1, 2} /\ array'[x] = full /\ array'[1] \in Seq(Nat) /\ array'[2] \in Seq(Nat)
  BY <1>1
<1>3. outKeys'.arr = x /\ outKeys'.len = Len(q) /\ DOMAIN outKeys' = {"arr", "len"}
  OBVIOUS
<1>4. OutNow' = q
  BY <1>2, <1>3 DEF OutNow
<1>5. Len(q) \in Nat
  OBVIOUS
<1> QED
  BY <1>2, <1>3, <1>4, <1>5 DEF KeysInv, KeysOk

(* Keys out of order are in the array of the caller, whatever is done to   *)
(* them.                                                                   *)
LEMMA DisorderStays ==
    ASSUME KeysInv, NEW full, array' = [array EXCEPT ![2] = full], orderly' = FALSE,
           DOMAIN outKeys' = {"arr", "len"}, outKeys'.arr = 2
    PROVE  KeysInv'
<1>1. DOMAIN array' = {1, 2} /\ array'[1] \in Seq(Nat)
  BY DEF KeysInv
<1> QED
  BY <1>1 DEF KeysInv

(* A slice that the caller handed over. *)
LEMMA SliceIsTaken ==
    ASSUME KeysInv, NEW ks \in KeySlices, TakeSlice(ks)
    PROVE  KeysInv'
<1>1. ks \in Seq(Nat)
  BY BuilderAssumption
<1>2. PICK p : p = SubSeq(ks, 1, Len(ks))
  OBVIOUS
<1>3. p \in Seq(Nat) /\ Len(p) = Len(ks) /\ \A i \in 1..Len(ks) : p[i] = ks[i]
  BY <1>1, <1>2
<1>4. p = ks
  BY <1>1, <1>3, SeqEqual
<1>5. array' = [array EXCEPT ![2] = ks] /\ outKeys' = [arr |-> 2, len |-> Len(ks)] /\ orderly' = Ascending(ks)
  BY DEF TakeSlice
<1>6. CASE Ascending(ks)
  <2>1. orderly' = TRUE
    BY <1>5, <1>6, Zenon DEF Ascending
  <2>2. SubSeq(ks, 1, Len(ks)) = ks /\ Len(ks) <= Len(ks) /\ 2 \in {1, 2}
    BY <1>1, <1>2, <1>4
  <2> QED
    BY <1>1, <1>5, <1>6, <2>1, <2>2, KeysBecome
<1>7. CASE ~Ascending(ks)
  <2>1. orderly' = FALSE
    BY <1>5, <1>7, Zenon DEF Ascending
  <2>2. DOMAIN outKeys' = {"arr", "len"} /\ outKeys'.arr = 2
    BY <1>5
  <2> QED
    BY <1>5, <2>1, <2>2, DisorderStays
<1> QED
  BY <1>6, <1>7

(* The slice of keys, and what lies behind it. *)
LEMMA SliceOfKeys ==
    ASSUME KeysInv, orderly
    PROVE  \E x \in {1, 2}, n \in Nat, full \in Seq(Nat), q \in Seq(Nat) :
              /\ x = outKeys.arr /\ n = outKeys.len /\ full = array[x] /\ q = OutNow
              /\ n <= Len(full) /\ Ascending(q) /\ Len(q) = n
<1>1. PICK x \in {1, 2} : x = outKeys.arr
  BY DEF KeysInv, KeysOk
<1>2. PICK n \in Nat : n = outKeys.len
  BY DEF KeysInv, KeysOk
<1>3. PICK full \in Seq(Nat) : full = array[x]
  BY <1>1 DEF KeysInv, KeysOk
<1>4. PICK q \in Seq(Nat) : q = OutNow /\ Ascending(q)
  BY DEF KeysInv, KeysOk
<1>5. n <= Len(full) /\ q = SubSeq(full, 1, n)
  BY <1>1, <1>2, <1>3, <1>4 DEF KeysInv, KeysOk, OutNow
<1>6. Len(q) = n
  BY <1>5
<1> QED
  BY <1>1, <1>2, <1>3, <1>4, <1>5, <1>6

(* What is left of an array from some place on is an array of keys. *)
LEMMA RestOfArray ==
    ASSUME NEW full \in Seq(Nat), NEW m \in Nat \ {0}
    PROVE  SubSeq(full, m, Len(full)) \in Seq(Nat)
<1>1. \A i \in m..Len(full) : full[i] \in Nat
  OBVIOUS
<1>2. Len(full) \in Int /\ m \in Int
  OBVIOUS
<1> QED
  BY <1>1, <1>2, SubSeqProperties, Zenon

(* Calls that leave the output as it is. *)
LEMMA KeyStepKeeps ==
    ASSUME OutputBuilderInv, KeyStep, UNCHANGED output, KeysInv'
    PROVE  OutputBuilderInv'
<1>1. output.type = "Account" /\ Calls /\ Requires(FALSE, FALSE) /\ output' = output
  BY DEF KeyStep
<1>2. /\ CondsOk(output.type, output.conds) /\ FeatsOk(output.type, output.feats) /\ ImmOk(output.type, output.imm)
  BY DEF OutputBuilderInv, OutputOk
<1>3. /\ DOMAIN output' = DOMAIN output /\ output'.type = output.type /\ output.type # "Anchor"
      /\ CondsOk(output.type, output'.conds) /\ FeatsOk(output.type, output'.feats) /\ ImmOk(output.type, output'.imm)
  BY <1>1, <1>2
<1> QED
  BY <1>1, <1>3, ArraySetterKeeps, Zenon

(* Setting the keys makes a new array, which no other output shares. *)
LEMMA SetKeysKeeps ==
    ASSUME OutputBuilderInv, NEW ks \in KeySlices, SetBlockIssuer(ks) \/ SetKeys(ks)
    PROVE  OutputBuilderInv'
<1>1. KeysInv
  BY DEF OutputBuilderInv
<1>3. ASSUME TakeSlice(ks) PROVE KeysInv'
  BY <1>1, <1>3, SliceIsTaken
<1>4. CASE SetBlockIssuer(ks)
  <2>1. PICK f : f = Feature(FT.BlockIssuer, "", 0)
    OBVIOUS
  <2>2. TypeOf(f) = FT.BlockIssuer /\ DOMAIN f = FeatureFields
    BY <2>1, FeatureShape
  <2>3. PICK fs : fs = Upsert(output.feats, f)
    OBVIOUS
  <2>4. /\ output.type = "Account" /\ Calls /\ Requires(FALSE, FALSE) /\ output' = [output EXCEPT !.feats = fs]
        /\ TakeSlice(ks)
    BY <1>4, <2>1, <2>3 DEF SetBlockIssuer, KeyStep
  <2>5. "Account" \in DOMAIN Builders /\ FeatsOk("Account", output.feats)
    BY <2>4 DEF OutputBuilderInv, OutputOk
  <2>6. FT.BlockIssuer \in Builders["Account"].feats
    BY DEF Builders, AccountOutputBuilder, Builder
  <2>7. FeatsOk("Account", fs)
    BY <2>2, <2>3, <2>5, <2>6, UpsertFeature
  <2>8. KeysInv'
    BY <1>3, <2>4
  <2> QED
    BY <2>4, <2>7, <2>8, AccountSetterKeeps, Zenon
<1>5. CASE SetKeys(ks)
  <2>1. KeyStep /\ UNCHANGED output
    BY <1>5 DEF SetKeys
  <2>2. KeysInv'
    BY <1>1, <1>3, <1>5, KeepKeysKeeps DEF SetKeys
  <2> QED
    BY <2>1, <2>2, KeyStepKeeps
<1> QED
  BY <1>4, <1>5

(* Adding a key sorts in the array that the output shares when there is    *)
(* room behind its keys, and in a new one otherwise.                       *)
LEMMA AddKeyKeeps ==
    ASSUME OutputBuilderInv, NEW k \in Keys, AddKey(k)
    PROVE  OutputBuilderInv'
<1>1. KeysInv /\ k \in Nat
  BY BuilderAssumption DEF OutputBuilderInv
<1>2. KeyStep /\ UNCHANGED output
  BY DEF AddKey
<1>4. CASE KeepKeys
  BY <1>1, <1>2, <1>4, KeepKeysKeeps, KeyStepKeeps
<1>5. CASE ~KeepKeys /\ orderly
  <2>0. PICK x \in {1, 2}, n \in Nat, full \in Seq(Nat), q \in Seq(Nat) :
          /\ x = outKeys.arr /\ n = outKeys.len /\ full = array[x] /\ q = OutNow
          /\ n <= Len(full) /\ Ascending(q) /\ Len(q) = n
    BY <1>1, <1>5, SliceOfKeys
  <2>1. k \notin ToSet(q) /\ orderly' = TRUE
    BY <1>1, <1>5, <2>0 DEF AddKey, KeysInv
  <2>2. PICK g \in Seq(Nat) : g = Sort(Append(q, k)) /\ Len(g) = n + 1 /\ Ascending(g)
    BY <1>1, <2>0, <2>1, SortGrown
  <2>5. array[2] \in Seq(Nat)
    BY <1>1, <1>5 DEF KeysInv, KeysOk
  <2>3. CASE n < Len(full)
    <3>1. PICK rest : rest = SubSeq(full, n + 2, Len(full))
      OBVIOUS
    <3>2. rest \in Seq(Nat)
      BY <3>1, n + 2 \in Nat \ {0}, RestOfArray
    <3>3. array' = [array EXCEPT ![x] = g \o rest] /\ outKeys' = [arr |-> x, len |-> Len(g)]
      BY <1>5, <2>0, <2>2, <2>3, <3>1 DEF AddKey
    <3>4. g \o rest \in Seq(Nat) /\ Len(g) <= Len(g \o rest) /\ SubSeq(g \o rest, 1, Len(g)) = g
      BY <3>2, PrefixOfConcat
    <3>5. KeysInv'
      BY <1>1, <2>1, <2>2, <2>5, <3>3, <3>4, KeysBecome
    <3> QED
      BY <1>2, <3>5, KeyStepKeeps
  <2>4. CASE ~(n < Len(full))
    <3>1. PICK m \in Nat : m = Doubled(n) /\ Len(g) <= m
      BY <2>2 DEF Doubled
    <3>2. PICK f \in Seq(Nat) : f = Fill(g, m) /\ Len(g) <= Len(f) /\ SubSeq(f, 1, Len(g)) = g
      BY <3>1, FillKeepsPrefix
    <3>3. array' = [array EXCEPT ![2] = f] /\ outKeys' = [arr |-> 2, len |-> Len(g)]
      BY <1>5, <2>0, <2>2, <2>4, <3>1, <3>2 DEF AddKey
    <3>4. KeysInv'
      BY <1>1, <2>1, <2>2, <3>2, <3>3, KeysBecome
    <3> QED
      BY <1>2, <3>4, KeyStepKeeps
  <2> QED
    BY <2>3, <2>4
<1>6. CASE ~KeepKeys /\ ~orderly
  <2>1. outKeys.arr = 2 /\ orderly' = FALSE
    BY <1>1, <1>6 DEF KeysInv, AddKey
  <2>2. PICK full : array' = [array EXCEPT ![2] = full]
    BY <1>6, <2>1 DEF AddKey
  <2>3. DOMAIN outKeys' = {"arr", "len"} /\ outKeys'.arr = 2
    BY <1>6, <2>1 DEF AddKey
  <2>4. KeysInv'
    BY <1>1, <2>1, <2>2, <2>3, DisorderStays
  <2> QED
    BY <1>2, <2>4, KeyStepKeeps
<1> QED
  BY <1>4, <1>5, <1>6

(* Removing a key moves the ones behind it, in the array that the output   *)
(* may share.                                                              *)
LEMMA RemoveKeyKeeps ==
    ASSUME OutputBuilderInv, NEW k \in Keys, RemoveKey(k)
    PROVE  OutputBuilderInv'
<1>1. KeysInv
  BY DEF OutputBuilderInv
<1>2. KeyStep /\ UNCHANGED output
  BY DEF RemoveKey
<1>4. CASE KeepKeys
  BY <1>1, <1>2, <1>4, KeepKeysKeeps, KeyStepKeeps
<1>5. CASE ~KeepKeys /\ orderly
  <2>0. PICK x \in {1, 2}, n \in Nat, full \in Seq(Nat), q \in Seq(Nat) :
          /\ x = outKeys.arr /\ n = outKeys.len /\ full = array[x] /\ q = OutNow
          /\ n <= Len(full) /\ Ascending(q) /\ Len(q) = n
    BY <1>1, <1>5, SliceOfKeys
  <2>1. k \in ToSet(q) /\ orderly' = TRUE
    BY <1>1, <1>5, <2>0 DEF RemoveKey, KeysInv
  <2>2. PICK g : g = Sort(RemoveAt(q, Min({i \in DOMAIN q : q[i] = k})))
    OBVIOUS
  <2>3. g \in Seq(Nat) /\ Len(g) = n - 1 /\ Ascending(g) /\ n # 0
    BY <2>0, <2>1, <2>2, SortShrunk
  <2>4. PICK rest : rest = SubSeq(full, n, Len(full))
    OBVIOUS
  <2>5. rest \in Seq(Nat)
    BY <2>3, <2>4, RestOfArray
  <2>6. array' = [array EXCEPT ![x] = g \o rest] /\ outKeys' = [outKeys EXCEPT !.len = n - 1]
    BY <1>5, <2>0, <2>2, <2>4 DEF RemoveKey
  <2>7. outKeys' = [arr |-> x, len |-> Len(g)]
    BY <1>1, <2>0, <2>3, <2>6 DEF KeysInv
  <2>8. g \o rest \in Seq(Nat) /\ Len(g) <= Len(g \o rest) /\ SubSeq(g \o rest, 1, Len(g)) = g
    BY <2>3, <2>5, PrefixOfConcat
  <2>10. array[2] \in Seq(Nat)
    BY <1>1, <1>5 DEF KeysInv, KeysOk
  <2>9. KeysInv'
    BY <1>1, <2>1, <2>3, <2>6, <2>7, <2>8, <2>10, KeysBecome
  <2> QED
    BY <1>2, <2>9, KeyStepKeeps
<1>6. CASE ~KeepKeys /\ ~orderly
  <2>1. outKeys.arr = 2 /\ orderly' = FALSE /\ DOMAIN outKeys = {"arr", "len"}
    BY <1>1, <1>6 DEF KeysInv, RemoveKey
  <2>2. PICK full : array' = [array EXCEPT ![2] = full]
    BY <1>6, <2>1 DEF RemoveKey
  <2>3. DOMAIN outKeys' = {"arr", "len"} /\ outKeys'.arr = 2
    BY <1>6, <2>1 DEF RemoveKey
  <2>4. KeysInv'
    BY <1>1, <2>1, <2>2, <2>3, DisorderStays
  <2> QED
    BY <1>2, <2>4, KeyStepKeeps
<1> QED
  BY <1>4, <1>5, <1>6

-----------------------------------------------------------------------------
(* Build.  An output that it does not refuse goes out sorted, with its     *)
(* keys; the index of an anchor counts what needs the state controller.    *)
LEMMA ToSetBySorting ==
    ASSUME NEW s, IsSlice(s), NEW t
    PROVE  All(SortByType(s), t) = All(s, t)
BY SortSlice DEF All

(* The state index of an anchor wraps around but is not the same again     *)
(* after one or two steps.                                                 *)
LEMMA NextIndexDiffers ==
    ASSUME NEW i \in 0..(IndexLimit - 1), NEW j, j = (i + 1) % IndexLimit
    PROVE  j # i /\ (j + 1) % IndexLimit \notin {i, j}
<1>1. IndexLimit \in Nat \ {0, 1, 2}
  BY BuilderAssumption
<1>2. CASE i + 1 = IndexLimit
  <2>1. j = 0
    BY <1>1, <1>2
  <2>2. (j + 1) % IndexLimit = 1
    BY <1>1, <2>1
  <2> QED
    BY <1>1, <1>2, <2>1, <2>2
<1>3. CASE i + 1 < IndexLimit
  <2>1. j = i + 1
    BY <1>1, <1>3
  <2>2. CASE j + 1 = IndexLimit
    <3>1. (j + 1) % IndexLimit = 0
      BY <1>1, <2>2
    <3> QED
      BY <1>1, <2>1, <2>2, <3>1
  <2>3. CASE j + 1 < IndexLimit
    <3>1. (j + 1) % IndexLimit = i + 2
      BY <1>1, <2>1, <2>3
    <3> QED
      BY <2>1, <3>1
  <2> QED
    BY <1>1, <1>3, <2>1, <2>2, <2>3
<1> QED
  BY <1>1, <1>2, <1>3

(* An anchor that is built once, or needs no state controller. *)
LEMMA AnchorIsBuilt ==
    ASSUME OutputBuilderInv, builds = 0 \/ ~stateCtrlReq, prev # NoOutput, output.type = "Anchor",
           ~(govCtrlReq /\ stateCtrlReq), prev.imm = output.imm,
           NEW next, next = [output EXCEPT !.index = IF stateCtrlReq THEN (@ + 1) % IndexLimit ELSE @],
           NEW b, b = WithKeys(Built(next), OutNow)
    PROVE  /\ anchorStateChangeValid(prev, b) /\ AnchorOwnerExists(prev, b)
           /\ AnchorOwner(prev, b) = IF stateCtrlReq THEN StateControllerOf(prev) ELSE GovernorOf(prev)
<1>1. OutputOk(output) /\ prev \in Previous /\ DOMAIN output = OutputFields
  BY DEF OutputBuilderInv, OutputOk
<1>2. IsLedgerOutput(prev)
  BY <1>1, BuilderAssumption
<1>3. /\ SortByType(prev.conds) = prev.conds /\ SortByType(prev.imm) = prev.imm
      /\ prev.index \in 0..(IndexLimit - 1)
  BY <1>2, LedgerOutputIsOk DEF IsLedgerOutput
<1>4. output.index = prev.index /\ (stateCtrlReq \/ StateKept) /\ (govCtrlReq \/ GovernanceKept)
  BY Zenon DEF OutputBuilderInv, AnchorInv, IndexAsCounted
<1>5. /\ DOMAIN next = DOMAIN output /\ next.type = output.type /\ next.conds = output.conds
      /\ next.feats = output.feats /\ next.imm = output.imm /\ next.amount = output.amount
      /\ next.index = IF stateCtrlReq THEN NextIndex(prev) ELSE prev.index
  BY <1>1, <1>4 DEF OutputFields, NextIndex
<1>6. OutputOk(next)
  BY <1>1, <1>5 DEF OutputOk
<1>14. PICK u : u = Built(next)
  OBVIOUS
<1>15. /\ OutputOk(u) /\ u.type = next.type /\ u.index = next.index /\ u.amount = next.amount
       /\ u.conds = SortByType(next.conds) /\ u.feats = SortByType(next.feats) /\ u.imm = SortByType(next.imm)
  BY <1>6, <1>14, BuiltIsOk, Zenon
<1>7. /\ OutputOk(u) /\ u.type = "Anchor" /\ u.index = next.index
      /\ u.amount = output.amount /\ u.conds = SortByType(output.conds)
      /\ u.feats = SortByType(output.feats) /\ u.imm = SortByType(output.imm)
  BY <1>5, <1>15, Zenon
<1>8. /\ b.index = next.index /\ b.amount = output.amount /\ b.conds = SortByType(output.conds)
      /\ b.feats = SortByType(output.feats) /\ b.imm = SortByType(output.imm)
  BY <1>7, <1>14, WithKeysIsOk
<1>9. b.imm = prev.imm
  BY <1>3, <1>8
<1>10. IsSlice(output.feats)
  BY <1>1 DEF OutputOk, FeatsOk
<1>11. \A t : All(b.feats, t) = All(output.feats, t)
  BY <1>8, <1>10, ToSetBySorting
<1>12. CASE stateCtrlReq
  <2>1. GovernanceKept
    BY <1>4, <1>12, Zenon
  <2>2. b.conds = prev.conds
    BY <1>3, <1>8, <2>1 DEF GovernanceKept
  <2>3. All(prev.feats, FT.Metadata) = All(b.feats, FT.Metadata)
    BY <1>11, <2>1 DEF GovernanceKept
  <2>4. b.index = NextIndex(prev) /\ b.index # prev.index
    BY <1>3, <1>5, <1>8, <1>12, NextIndexDiffers DEF NextIndex
  <2>5. anchorStateSTVF(prev, b)
    BY <2>2, <2>3, <2>4 DEF anchorStateSTVF, StateControllerOf, GovernorOf, FeatureUnchanged
  <2>6. anchorStateChangeValid(prev, b)
    BY <1>9, <2>4, <2>5 DEF anchorStateChangeValid
  <2> QED
    BY <1>12, <2>4, <2>6 DEF AnchorOwnerExists, AnchorOwner
<1>13. CASE ~stateCtrlReq
  <2>1. StateKept
    BY <1>4, <1>13, Zenon
  <2>2. b.amount = prev.amount /\ All(prev.feats, FT.StateMetadata) = All(b.feats, FT.StateMetadata)
    BY <1>8, <1>11, <2>1 DEF StateKept
  <2>3. b.index = prev.index
    BY <1>5, <1>8, <1>13
  <2>4. anchorGovernanceSTVF(prev, b)
    BY <2>2, <2>3 DEF anchorGovernanceSTVF, FeatureUnchanged
  <2>5. anchorStateChangeValid(prev, b)
    BY <1>9, <2>3, <2>4 DEF anchorStateChangeValid
  <2> QED
    BY <1>13, <2>3, <2>5 DEF AnchorOwnerExists, AnchorOwner
<1> QED
  BY <1>12, <1>13

(* An anchor that is built again with its state index counted twice. *)
LEMMA AnchorIsCountedTwice ==
    ASSUME OutputBuilderInv, builds = 1, stateCtrlReq, ~govCtrlReq, prev # NoOutput, output.type = "Anchor",
           NEW next, next = [output EXCEPT !.index = (@ + 1) % IndexLimit],
           NEW b, b = WithKeys(Built(next), OutNow)
    PROVE  ~anchorStateChangeValid(prev, b)
<1>1. OutputOk(output) /\ prev \in Previous /\ DOMAIN output = OutputFields
  BY DEF OutputBuilderInv, OutputOk
<1>2. prev.index \in 0..(IndexLimit - 1)
  BY <1>1, BuilderAssumption DEF IsLedgerOutput
<1>3. output.index = NextIndex(prev)
  BY Zenon DEF OutputBuilderInv, AnchorInv, IndexAsCounted
<1>4. /\ DOMAIN next = DOMAIN output /\ next.type = output.type /\ next.conds = output.conds
      /\ next.feats = output.feats /\ next.imm = output.imm /\ next.index = (NextIndex(prev) + 1) % IndexLimit
  BY <1>1, <1>3 DEF OutputFields
<1>5. OutputOk(next)
  BY <1>1, <1>4 DEF OutputOk
<1>8. PICK u : u = Built(next)
  OBVIOUS
<1>9. OutputOk(u) /\ u.index = next.index
  BY <1>5, <1>8, BuiltIsOk
<1>6. b.index = next.index
  BY <1>8, <1>9, WithKeysIsOk
<1>7. b.index # prev.index /\ b.index # NextIndex(prev)
  BY <1>2, <1>4, <1>6, NextIndexDiffers DEF NextIndex
<1> QED
  BY <1>7 DEF anchorStateChangeValid, anchorStateSTVF

(* What Build leaves of the output. *)
LEMMA BuildKeepsAnchor ==
    ASSUME OutputBuilderInv, Build
    PROVE  AnchorInv'
<1> SUFFICES ASSUME prev # NoOutput, output'.type = "Anchor"
             PROVE  IndexAsCounted' /\ (stateCtrlReq' \/ StateKept') /\ (govCtrlReq' \/ GovernanceKept')
  BY Zenon DEF AnchorInv, Build
<1>1. /\ builds' = builds + 1 /\ builds \in Nat /\ builds < 2 /\ prev' = prev
      /\ stateCtrlReq' = stateCtrlReq /\ govCtrlReq' = govCtrlReq
  BY DEF Build, OutputBuilderInv
<1>2. builds' # 0 /\ (builds' = 1 => builds = 0)
  BY <1>1
<1>3. PICK next : next = [output EXCEPT !.index = IF prev # NoOutput /\ stateCtrlReq THEN (@ + 1) % IndexLimit ELSE @]
  OBVIOUS
<1>4. OutputOk(output) /\ DOMAIN output = OutputFields /\ prev \in Previous
  BY DEF OutputBuilderInv, OutputOk
<1>5. /\ DOMAIN next = DOMAIN output /\ next.type = output.type /\ next.conds = output.conds
      /\ next.feats = output.feats /\ next.imm = output.imm /\ next.amount = output.amount
      /\ next.index = IF stateCtrlReq THEN (output.index + 1) % IndexLimit ELSE output.index
  BY <1>3, <1>4 DEF OutputFields
<1>6. OutputOk(next)
  BY <1>4, <1>5 DEF OutputOk
<1>7. PICK u : u = Built(next)
  OBVIOUS
<1>8. /\ u.type = next.type /\ u.index = next.index /\ u.amount = next.amount
      /\ u.conds = SortByType(next.conds) /\ u.feats = SortByType(next.feats)
  BY <1>6, <1>7, BuiltIsOk, Zenon
<1>9. \/ output' = output /\ govCtrlReq /\ stateCtrlReq
      \/ output' = next
      \/ output' = u
  BY <1>3, <1>7, Zenon DEF Build
<1>10. output.type = "Anchor"
  BY <1>5, <1>8, <1>9, Zenon
<1>11. IndexAsCounted /\ (stateCtrlReq \/ StateKept) /\ (govCtrlReq \/ GovernanceKept)
  BY <1>10, Zenon DEF OutputBuilderInv, AnchorInv
<1>12. SortByType(prev.conds) = prev.conds
  BY <1>4, BuilderAssumption, LedgerOutputIsOk
<1>13. IsSlice(output.feats)
  BY <1>4 DEF OutputOk, FeatsOk
<1>14. \A t : All(u.feats, t) = All(output.feats, t)
  BY <1>5, <1>8, <1>13, ToSetBySorting
<1>15. /\ output'.amount = output.amount /\ \A t : All(output'.feats, t) = All(output.feats, t)
  BY <1>5, <1>8, <1>9, <1>14, Zenon
<1>16. output'.conds = output.conds \/ output'.conds = SortByType(output.conds)
  BY <1>5, <1>8, <1>9, Zenon
<1>17. StateKept => StateKept'
  BY <1>1, <1>15 DEF StateKept
<1>18. GovernanceKept => GovernanceKept'
  BY <1>1, <1>12, <1>15, <1>16 DEF GovernanceKept
<1>19. ~stateCtrlReq => output'.index = output.index
  BY <1>5, <1>8, <1>9, Zenon
<1>20. stateCtrlReq /\ ~govCtrlReq => output'.index = (output.index + 1) % IndexLimit
  BY <1>5, <1>8, <1>9, Zenon
<1>21. ~stateCtrlReq' => output'.index = prev'.index
  BY <1>1, <1>11, <1>19, Zenon DEF IndexAsCounted
<1>22. builds' = 1 /\ stateCtrlReq' /\ ~govCtrlReq' => output'.index = NextIndex(prev')
  <2>1. builds = 0 => output.index = prev.index
    BY <1>11, Zenon DEF IndexAsCounted
  <2> QED
    BY <1>1, <1>2, <1>20, <2>1, Zenon DEF NextIndex
<1>23. IndexAsCounted'
  BY <1>2, <1>21, <1>22, Zenon DEF IndexAsCounted
<1> QED
  BY <1>1, <1>11, <1>17, <1>18, <1>23, Zenon

(* Build sorts, counts the state index of an anchor and refuses what both  *)
(* controllers would have to sign.                                         *)
LEMMA BuildKeeps ==
    ASSUME OutputBuilderInv, Build
    PROVE  OutputBuilderInv'
<1>1. /\ builds' = builds + 1 /\ prev' = prev /\ stateCtrlReq' = stateCtrlReq /\ govCtrlReq' = govCtrlReq
      /\ array' = array /\ outKeys' = outKeys /\ orderly' = orderly /\ builds < 2
  BY DEF Build
<1>2. builds \in Nat /\ builds' \in Nat /\ builds' # 0 /\ (builds' # 2 => builds = 0) /\ (builds' = 2 => builds = 1)
  BY <1>1 DEF OutputBuilderInv
<1>3. PICK next : next = [output EXCEPT !.index = IF prev # NoOutput /\ stateCtrlReq THEN (@ + 1) % IndexLimit ELSE @]
  OBVIOUS
<1>4. OutputOk(output) /\ DOMAIN output = OutputFields
  BY DEF OutputBuilderInv, OutputOk
<1>5. /\ DOMAIN next = DOMAIN output /\ next.type = output.type /\ next.conds = output.conds
      /\ next.feats = output.feats /\ next.imm = output.imm
  BY <1>3, <1>4 DEF OutputFields
<1>6. OutputOk(next)
  BY <1>4, <1>5 DEF OutputOk
<1>7. OutputOk(Built(next)) /\ Built(next).type = output.type
  BY <1>5, <1>6, BuiltIsOk
<1>8. output' = output \/ output' = next \/ output' = Built(next)
  BY <1>3 DEF Build
<1>9. OutputOk(output') /\ output'.type = output.type
  BY <1>4, <1>5, <1>6, <1>7, <1>8
<1>10. KeysInv'
  BY <1>1 DEF OutputBuilderInv, KeysInv, KeysOk, OutNow
<1>11. AnchorInv'
  BY BuildKeepsAnchor
<1>12. PICK b : b = WithKeys(Built(next), OutNow)
  OBVIOUS
<1>13. /\ built' = NoOutput \/ built' = b
       /\ built' # NoOutput /\ prev # NoOutput => ~(govCtrlReq /\ stateCtrlReq) /\ prev.imm = output.imm
  BY <1>3, <1>12, Zenon DEF Build
<1>14. WellFormed(b, OutNow) /\ b.type = output.type
  BY <1>6, <1>7, <1>12, WithKeysIsOk, BuiltIsWellFormedIfOk
<1>15. BuiltIsWellFormed'
  <2>1. ASSUME orderly, \A f \in All(b.feats, FT.BlockIssuer) : KeyCountAllowed(f.keys) PROVE Decodable(b)
    <3>1. OutNow \in Seq(Nat) /\ Ascending(OutNow)
      BY <2>1 DEF OutputBuilderInv, KeysInv, KeysOk
    <3> QED
      BY <1>14, <2>1, <3>1, AscendingIsDecodable
  <2> QED
    BY <1>1, <1>13, <1>14, <2>1, Zenon DEF BuiltIsWellFormed, WellFormed
<1>16. AnchorTransitionsAsBuilt'
  <2> SUFFICES ASSUME built' # NoOutput, prev # NoOutput, built'.type = "Anchor"
               PROVE  IF builds' = 2 /\ stateCtrlReq
                      THEN ~anchorStateChangeValid(prev, built')
                      ELSE /\ anchorStateChangeValid(prev, built') /\ AnchorOwnerExists(prev, built')
                           /\ AnchorOwner(prev, built') =
                                 IF stateCtrlReq THEN StateControllerOf(prev) ELSE GovernorOf(prev)
    BY <1>1, Zenon DEF AnchorTransitionsAsBuilt
  <2>1. built' = b /\ output.type = "Anchor" /\ ~(govCtrlReq /\ stateCtrlReq) /\ prev.imm = output.imm
    BY <1>13, <1>14, Zenon
  <2>2. CASE builds' = 2 /\ stateCtrlReq
    <3>1. next = [output EXCEPT !.index = (@ + 1) % IndexLimit] /\ builds = 1 /\ ~govCtrlReq
      BY <1>2, <1>3, <2>1, <2>2
    <3> QED
      BY <1>12, <2>1, <2>2, <3>1, AnchorIsCountedTwice, Zenon
  <2>3. CASE ~(builds' = 2 /\ stateCtrlReq)
    <3>1. next = [output EXCEPT !.index = IF stateCtrlReq THEN (@ + 1) % IndexLimit ELSE @]
      BY <1>3
    <3>2. builds = 0 \/ ~stateCtrlReq
      BY <1>2, <2>3, Zenon
    <3> QED
      BY <1>12, <2>1, <2>3, <3>1, <3>2, AnchorIsBuilt, Zenon
  <2> QED
    BY <2>2, <2>3, Zenon
<1>17. prev' # NoOutput => prev' \in Previous /\ prev'.type = output'.type
  BY <1>1, <1>9 DEF OutputBuilderInv
<1>18. stateCtrlReq' \in BOOLEAN /\ govCtrlReq' \in BOOLEAN
  BY <1>1, Zenon DEF OutputBuilderInv
<1> QED
  BY <1>2, <1>9, <1>10, <1>11, <1>15, <1>16, <1>17, <1>18, Zenon DEF OutputBuilderInv, BuiltIsValid

(* Every call of a builder keeps the invariant. *)
LEMMA BuilderSteps == OutputBuilderInv /\ [BuilderNext]_builderVars => OutputBuilderInv'
<1> SUFFICES ASSUME OutputBuilderInv, [BuilderNext]_builderVars PROVE OutputBuilderInv'
  OBVIOUS
<1>1. CASE \E n \in Amount : SetAmount(n) \/ SetMana(n) \/ FoundriesToGenerate(n)
  BY <1>1, FieldSettersKeep, Zenon
<1>2. CASE \E id \in Values : SetID(id) \/ SetAux(id)
  BY <1>2, FieldSettersKeep, Zenon
<1>3. CASE \E t \in {UC[x] : x \in DOMAIN UC}, a \in Owners, n \in Slot : SetCondition(UnlockCondition(t, a, n))
  BY <1>3, SetConditionKeeps, Zenon
<1>4. CASE \E t \in {FT[x] : x \in DOMAIN FT}, v \in Values :
              SetFeature(Feature(t, v, 1)) \/ SetImmutableFeature(Feature(t, v, 0))
  BY <1>4, SetFeatureKeeps, SetImmutableFeatureKeeps, Zenon
<1>5. CASE \E t \in {FT.Metadata, FT.BlockIssuer} : RemoveFeature(t)
  BY <1>5, RemoveFeatureKeeps, Zenon
<1>6. CASE \E ks \in KeySlices : SetBlockIssuer(ks) \/ SetKeys(ks)
  BY <1>6, SetKeysKeeps
<1>7. CASE \E k \in Keys : AddKey(k) \/ RemoveKey(k)
  BY <1>7, AddKeyKeeps, RemoveKeyKeeps, Zenon
<1>8. CASE \E t \in {FT.BlockIssuer, FT.Staking}, n \in Slot : SetInTransition(t, n)
  BY <1>8, SetInTransitionKeeps, Zenon
<1>9. CASE Build
  BY <1>9, BuildKeeps
<1>10. CASE UNCHANGED builderVars
  BY <1>10 DEF builderVars, OutputBuilderInv, KeysInv, KeysOk, OutNow, AnchorInv, IndexAsCounted, StateKept, GovernanceKept,
               BuiltIsValid, BuiltIsWellFormed, AnchorTransitionsAsBuilt
<1> QED
  BY <1>1, <1>2, <1>3, <1>4, <1>5, <1>6, <1>7, <1>8, <1>9, <1>10, Zenon DEF BuilderNext

(* Whatever the builder starts from and whichever setters are called in    *)
(* whichever order, and whichever keys are added and removed in the array  *)
(* that the previous output shares: what Build returns has the arrays that *)
(* the decoder and the validators of output.go ask for, with keys that can *)
(* be decoded unless the caller handed over a slice out of order or left   *)
(* none or too many of them, and an anchor is a transition that the        *)
(* virtual machine accepts from the controller that the calls required     *)
(* unless a second Build counted its state index again.                    *)
THEOREM BuiltOutputsAreValid == BuilderSpec => []BuiltIsValid
<1>1. OutputBuilderInv => BuiltIsValid
  BY DEF OutputBuilderInv
<1> QED
  BY <1>1, BuilderStarts, BuilderSteps, PTL DEF BuilderSpec
=============================================================================
