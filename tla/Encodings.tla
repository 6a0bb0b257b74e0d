------------------------------ MODULE Encodings ------------------------------
(***************************************************************************)
(* The encodings others rely on: addresses as texts, lists as roots.  They *)
(* share no state: one is used while the other is at rest.                 *)
(***************************************************************************)
EXTENDS Addresses, MerkleHasher

vars == <<addressVars, values>>

Init == AddressInit /\ MerkleInit

UseAddresses == values = <<>> /\ AddressNext /\ UNCHANGED values

UseHasher == text = <<>> /\ AddValue /\ UNCHANGED addressVars

Next == UseAddresses \/ UseHasher

Spec == Init /\ [][Next]_vars
=============================================================================
