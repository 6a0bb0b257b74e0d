------------------------------ MODULE OrderLemmas ------------------------------
(***************************************************************************)
(* Facts about numbers in order that the proofs of several components      *)
(* need: least and greatest elements, enumerations, and what sorting does. *)
(* Where induction would be natural a least counterexample is taken, by    *)
(* the well-foundedness of the order of the natural numbers.               *)
(***************************************************************************)
EXTENDS Sorting, FiniteSetTheorems, WellFoundedInduction, TLAPS

(* Least and greatest elements of sets of natural numbers. *)
LEMMA Least ==
    ASSUME NEW T \in SUBSET Nat, T # {}
    PROVE  \E x \in T : \A y \in T : x <= y
<1>1. PICK x \in T : \A y \in T : ~(<<y, x>> \in OpToRel(<, Nat))
  BY WFMin, NatLessThanWellFounded
<1>2. \A y \in T : (<<y, x>> \in OpToRel(<, Nat)) <=> y < x
  BY DEF OpToRel
<1>3. \A y \in T : ~(y < x)
  BY <1>1, <1>2, Zenon
<1>4. \A y \in T : x <= y
  BY <1>3, SMT
<1> QED
  BY <1>4, Zenon

(* The same from above, for a bounded set. *)
LEMMA Greatest ==
    ASSUME NEW T \in SUBSET Nat, T # {}, NEW n \in Nat, \A x \in T : x <= n
    PROVE  \E x \in T : \A y \in T : x >= y
<1> DEFINE W == {w \in Nat : n - w \in T}
<1>1. \A y \in T : n - y \in W /\ n - y \in Nat
  <2> TAKE y \in T
  <2>1. n - y \in Nat /\ n - (n - y) = y
    OBVIOUS
  <2> QED
    BY <2>1
<1>2. W \in SUBSET Nat /\ W # {}
  BY <1>1
<1>3. PICK w \in W : \A x \in W : w <= x
  BY <1>2, Least
<1>4. w \in Nat /\ n - w \in T
  OBVIOUS
<1>5. \A y \in T : w <= n - y
  BY <1>1, <1>3
<1>6. \A y \in T : n - w >= y
  BY <1>4, <1>5
<1> QED
  BY <1>4, <1>6

(* A finite set of natural numbers is bounded, so that it has a greatest   *)
(* element: else, among the ones without, take one of least cardinality.   *)
LEMMA FiniteHasGreatest ==
    ASSUME NEW S \in SUBSET Nat, IsFiniteSet(S), S # {}
    PROVE  \E x \in S : \A y \in S : x >= y
<1> DEFINE Bad(T) == T # {} /\ ~\E x \in T : \A y \in T : x >= y
           N == {n \in Nat : \E T \in SUBSET Nat : IsFiniteSet(T) /\ Cardinality(T) = n /\ Bad(T)}
<1> SUFFICES ASSUME Bad(S) PROVE FALSE
  OBVIOUS
<1>1. Cardinality(S) \in N
  BY FS_CardinalityType
<1>2. PICK n \in N : \A m \in N : n <= m
  BY <1>1, Least
<1>3. PICK T \in SUBSET Nat : IsFiniteSet(T) /\ Cardinality(T) = n /\ Bad(T)
  OBVIOUS
<1>4. PICK t \in T : TRUE
  BY <1>3
<1> DEFINE R == T \ {t}
<1>5. IsFiniteSet(R) /\ Cardinality(R) = n - 1
  BY <1>3, <1>4, FS_RemoveElement
<1>6. Cardinality(R) \in Nat
  BY <1>5, FS_CardinalityType
<1>7. ~Bad(R)
  <2> SUFFICES ASSUME Bad(R) PROVE FALSE
    OBVIOUS
  <2> HIDE DEF Bad
  <2>1. n - 1 \in N
    BY <1>5, <1>6
  <2>2. n \in Nat /\ n <= n - 1
    BY <1>2, <2>1
  <2> QED
    BY <2>2
<1>8. CASE R = {}
  <2>1. \A y \in T : t >= y
    BY <1>8
  <2> QED
    BY <1>3, <2>1
<1>9. CASE R # {}
  <2>1. PICK x \in R : \A y \in R : x >= y
    BY <1>7, <1>9
  <2>2. x \in Nat /\ t \in Nat
    OBVIOUS
  <2>3. CASE x >= t
    BY <1>3, <2>1, <2>3
  <2>4. CASE t >= x
    <3>1. \A y \in T : t >= y
      BY <2>1, <2>2, <2>4
    <3> QED
      BY <1>3, <3>1
  <2> QED
    BY <2>2, <2>3, <2>4
<1> QED
  BY <1>8, <1>9
-----------------------------------------------------------------------------
(* Sorting.  Without duplicates there is one ascending order.              *)
IsAscending(q) == \E n \in Nat : q \in [1..n -> Nat] /\ Ascending(q)

(* A finite set of numbers has an ascending enumeration: else, among the   *)
(* ones without, take one of least cardinality and remove its greatest     *)
(* element.                                                                *)
Enumerations(S) == {q \in [1..Cardinality(S) -> S] : Ascending(q)}

(* The greatest element goes behind an enumeration of the others. *)
LEMMA AppendGreatest ==
    ASSUME NEW T \in SUBSET Nat, IsFiniteSet(T), NEW t \in T, \A y \in T : t >= y,
           Enumerations(T \ {t}) # {}
    PROVE  Enumerations(T) # {}
<1> DEFINE R == T \ {t}
<1>1. PICK q \in [1..Cardinality(R) -> R] : Ascending(q)
  BY DEF Enumerations
<1>2. Cardinality(T) \in Nat /\ Cardinality(R) = Cardinality(T) - 1 /\ Cardinality(R) \in Nat
  BY FS_RemoveElement, FS_CardinalityType
<1>3. PICK n \in Nat : n = Cardinality(R) /\ Cardinality(T) = n + 1
  BY <1>2
<1> DEFINE r == [i \in 1..n + 1 |-> IF i = n + 1 THEN t ELSE q[i]]
<1>4. \A i \in 1..n : q[i] \in R
  BY <1>1, <1>3
<1>5. r \in [1..n + 1 -> T]
  <2>1. \A i \in 1..n + 1 : i # n + 1 => i \in 1..n
    OBVIOUS
  <2>2. \A i \in 1..n + 1 : (IF i = n + 1 THEN t ELSE q[i]) \in T
    BY <1>4, <2>1, Zenon
  <2> QED
    BY <2>2
<1>6. ASSUME NEW i \in 1..n + 1, NEW j \in 1..n + 1, i < j PROVE r[i] < r[j]
  <2>1. i \in 1..n /\ r[i] = q[i]
    BY <1>6
  <2>2. CASE j = n + 1
    <3>1. q[i] \in Nat /\ t \in Nat /\ q[i] # t /\ t >= q[i]
      BY <1>4, <2>1
    <3> QED
      BY <2>1, <2>2, <3>1
  <2>3. CASE j # n + 1
    <3>1. j \in 1..n /\ r[j] = q[j]
      BY <2>3
    <3>2. DOMAIN q = 1..n
      BY <1>1, <1>3
    <3> QED
      BY <1>1, <1>6, <2>1, <3>1, <3>2 DEF Ascending
  <2> QED
    BY <2>2, <2>3
<1>7. DOMAIN r = 1..n + 1
  OBVIOUS
<1> HIDE DEF r
<1>8. Ascending(r)
  BY <1>6, <1>7 DEF Ascending
<1> QED
  BY <1>3, <1>5, <1>8 DEF Enumerations

(* So every finite set of numbers has an ascending enumeration. *)
LEMMA FiniteIsEnumerated ==
    ASSUME NEW S \in SUBSET Nat, IsFiniteSet(S)
    PROVE  Enumerations(S) # {}
<1> DEFINE N == {n \in Nat : \E T \in SUBSET Nat : IsFiniteSet(T) /\ Cardinality(T) = n /\ Enumerations(T) = {}}
<1> SUFFICES ASSUME Enumerations(S) = {} PROVE FALSE
  OBVIOUS
<1>1. Cardinality(S) \in N
  BY FS_CardinalityType
<1>2. PICK n \in N : \A m \in N : n <= m
  BY <1>1, Least
<1>3. PICK T \in SUBSET Nat : IsFiniteSet(T) /\ Cardinality(T) = n /\ Enumerations(T) = {}
  OBVIOUS
<1>4. T # {}
  <2> SUFFICES ASSUME T = {} PROVE FALSE
    OBVIOUS
  <2>1. Cardinality(T) = 0
    BY FS_EmptySet
  <2> DEFINE e == [i \in 1..0 |-> 0]
  <2>2. e \in [1..0 -> T] /\ Ascending(e)
    BY DEF Ascending
  <2> QED
    BY <1>3, <2>1, <2>2 DEF Enumerations
<1>5. PICK t \in T : \A y \in T : t >= y
  BY <1>3, <1>4, FiniteHasGreatest
<1> DEFINE R == T \ {t}
<1>6. IsFiniteSet(R) /\ Cardinality(R) = n - 1 /\ R \in SUBSET Nat
  BY <1>3, <1>5, FS_RemoveElement
<1>7. Cardinality(R) \in Nat
  BY <1>6, FS_CardinalityType
<1>8. Enumerations(R) # {}
  <2> SUFFICES ASSUME Enumerations(R) = {} PROVE FALSE
    OBVIOUS
  <2>1. n - 1 \in N
    BY <1>6, <1>7
  <2>2. n \in Nat /\ n <= n - 1
    BY <1>2, <2>1
  <2> QED
    BY <2>2
<1> QED
  BY <1>3, <1>5, <1>8, AppendGreatest

(* Sorting what is sorted changes nothing: the least place that moved      *)
(* would have nowhere to go.                                               *)
LEMMA SortKeepsAscending ==
    ASSUME NEW p, IsAscending(p)
    PROVE  Sort(p) = p
<1>1. PICK n \in Nat : p \in [1..n -> Nat] /\ Ascending(p)
  BY DEF IsAscending
<1> DEFINE B == Bijection(1..n, 1..n)
           Sorts(f) == \A i, j \in 1..n : i < j => p[f[i]] <= p[f[j]]
           id == [i \in 1..n |-> i]
<1>2. DOMAIN p = 1..n /\ \A i, j \in 1..n : i < j => p[i] < p[j]
  BY <1>1 DEF Ascending
<1>3. id \in B /\ Sorts(id)
  <2>1. id \in B
    BY DEF Bijection, Injection, Surjection, IsInjective
  <2>2. \A i \in 1..n : p[i] \in Nat
    BY <1>1
  <2> QED
    BY <1>2, <2>1, <2>2
<1>4. PICK f : f = CHOOSE g \in B : Sorts(g)
  OBVIOUS
<1>5. f \in B /\ Sorts(f)
  BY <1>3, <1>4
<1>6. Sort(p) = [i \in 1..n |-> p[f[i]]]
  BY <1>2, <1>4 DEF Sort, Sorting
<1>7. f \in [1..n -> 1..n] /\ \A j \in 1..n : \E i \in 1..n : f[i] = j
  BY <1>5 DEF Bijection, Injection, Surjection, IsInjective
<1>8. \A i, j \in 1..n : f[i] = f[j] => i = j
  BY <1>5 DEF Bijection, Injection, IsInjective
<1>9. ASSUME NEW i \in 1..n, NEW j \in 1..n, i < j PROVE f[i] < f[j]
  <2>1. f[i] \in 1..n /\ f[j] \in 1..n /\ f[i] # f[j]
    BY <1>7, <1>8, <1>9
  <2>2. p[f[i]] <= p[f[j]] /\ p[f[i]] \in Nat /\ p[f[j]] \in Nat
    BY <1>1, <1>5, <1>9, <2>1
  <2>3. ~(f[j] < f[i])
    BY <1>2, <2>1, <2>2
  <2> QED
    BY <2>1, <2>3
<1> DEFINE M == {i \in 1..n : f[i] # i}
<1>10. M = {}
  <2> SUFFICES ASSUME M # {} PROVE FALSE
    OBVIOUS
  <2>1. PICK i \in M : \A j \in M : i <= j
    <3>1. M \in SUBSET Nat
      OBVIOUS
    <3> HIDE DEF M
    <3> QED
      BY <3>1, Least
  <2>2. i \in 1..n /\ f[i] # i /\ f[i] \in 1..n
    BY <1>7
  <2>3. \A j \in 1..n : j < i => f[j] = j
    BY <2>1
  <2>4. f[i] > i
    BY <1>8, <2>2, <2>3
  <2>5. PICK l \in 1..n : f[l] = i
    BY <1>7, <2>2
  <2>6. l > i
    BY <2>2, <2>3, <2>5
  <2>7. f[i] < f[l]
    BY <1>9, <2>2, <2>6
  <2> QED
    BY <2>2, <2>4, <2>5, <2>7
<1>11. \A i \in 1..n : f[i] = i
  BY <1>10
<1> QED
  BY <1>1, <1>6, <1>11

(* Sorting by distinct numbers permutes, and the result is ascending.      *)
LEMMA SortingSorts ==
    ASSUME NEW n \in Nat, NEW ks \in [1..n -> Nat], \A i, j \in 1..n : ks[i] = ks[j] => i = j
    PROVE  /\ Sorting(ks) \in [1..n -> 1..n]
           /\ \A i, j \in 1..n : Sorting(ks)[i] = Sorting(ks)[j] => i = j
           /\ \A j \in 1..n : \E i \in 1..n : Sorting(ks)[i] = j
           /\ \A i, j \in 1..n : i < j => ks[Sorting(ks)[i]] < ks[Sorting(ks)[j]]
<1> DEFINE S == {ks[i] : i \in 1..n}
           B == Bijection(1..n, 1..n)
           Sorts(f) == \A i, j \in 1..n : i < j => ks[f[i]] <= ks[f[j]]
<1>1. ks \in Bijection(1..n, S)
  BY DEF Bijection, Injection, Surjection, IsInjective
<1>2. IsFiniteSet(1..n) /\ Cardinality(1..n) = n
  BY FS_Interval
<1>3. IsFiniteSet(S) /\ Cardinality(S) = n /\ S \in SUBSET Nat
  BY <1>1, <1>2, FS_Bijection DEF ExistsBijection
<1>4. PICK q \in [1..n -> S] : Ascending(q)
  BY <1>3, FiniteIsEnumerated DEF Enumerations
<1>5. \A i, j \in 1..n : i < j => q[i] < q[j]
  BY <1>4 DEF Ascending
<1>6. \A i \in 1..n : \E k \in 1..n : ks[k] = q[i]
  BY <1>4
<1> DEFINE g == [i \in 1..n |-> CHOOSE k \in 1..n : ks[k] = q[i]]
<1>7. g \in [1..n -> 1..n] /\ \A i \in 1..n : ks[g[i]] = q[i]
  BY <1>6
<1> HIDE DEF g, S
<1>8. \A i, j \in 1..n : g[i] = g[j] => i = j
  <2> SUFFICES ASSUME NEW i \in 1..n, NEW j \in 1..n, g[i] = g[j], i < j PROVE FALSE
    OBVIOUS
  <2>1. q[i] = q[j] /\ q[i] < q[j] /\ q[i] \in Nat
    BY <1>3, <1>4, <1>5, <1>7
  <2> QED
    BY <2>1
<1>9. g \in Injection(1..n, 1..n)
  BY <1>7, <1>8 DEF Injection, IsInjective
<1>10. g \in B
  BY <1>2, <1>9, FS_Injection DEF Bijection
<1>11. Sorts(g)
  <2> SUFFICES ASSUME NEW i \in 1..n, NEW j \in 1..n, i < j PROVE ks[g[i]] <= ks[g[j]]
    OBVIOUS
  <2>1. q[i] < q[j] /\ q[i] \in Nat /\ q[j] \in Nat
    BY <1>3, <1>4, <1>5
  <2> QED
    BY <1>7, <2>1
<1>12. PICK f : f = CHOOSE h \in B : Sorts(h)
  OBVIOUS
<1>13. f \in B /\ Sorts(f)
  BY <1>10, <1>11, <1>12
<1>14. f = Sorting(ks)
  BY <1>12 DEF Sorting
<1>15. f \in [1..n -> 1..n] /\ (\A i, j \in 1..n : f[i] = f[j] => i = j) /\ \A j \in 1..n : \E i \in 1..n : f[i] = j
  BY <1>13 DEF Bijection, Injection, Surjection, IsInjective
<1>16. \A i, j \in 1..n : i < j => ks[f[i]] < ks[f[j]]
  <2> SUFFICES ASSUME NEW i \in 1..n, NEW j \in 1..n, i < j PROVE ks[f[i]] < ks[f[j]]
    OBVIOUS
  <2>1. f[i] \in 1..n /\ f[j] \in 1..n /\ f[i] # f[j]
    BY <1>15
  <2>2. ks[f[i]] # ks[f[j]] /\ ks[f[i]] <= ks[f[j]] /\ ks[f[i]] \in Nat /\ ks[f[j]] \in Nat
    BY <1>13, <2>1
  <2> QED
    BY <2>2
<1> QED
  BY <1>14, <1>15, <1>16
=============================================================================
