-------------------------------- MODULE Sorting --------------------------------
(***************************************************************************)
(* What sort.Slice and slices.SortFunc of Go's library do to a slice.      *)
(* Elements are compared by numbers.                                       *)
(***************************************************************************)
EXTENDS Integers, Sequences, Functions

Ascending(q) == \A i, j \in DOMAIN q : i < j => q[i] < q[j]

(* The places that the elements with the numbers ks come from. *)
Sorting(ks) ==
    CHOOSE f \in Bijection(DOMAIN ks, DOMAIN ks) : \A i, j \in DOMAIN ks : i < j => ks[f[i]] <= ks[f[j]]

Sort(ks) == LET f == Sorting(ks) IN [i \in DOMAIN ks |-> ks[f[i]]]
=============================================================================
