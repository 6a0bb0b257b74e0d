---------------------------- MODULE MerkleHasher ----------------------------
(***************************************************************************)
(* Package merklehasher: the root of a list of values, and proofs that a   *)
(* value is in the list.  Bytes are sequences of atoms; a hash is an atom  *)
(* that holds what was hashed, so two hashes are equal only for equal      *)
(* bytes (the hash function is external).                                  *)
(***************************************************************************)
EXTENDS Integers, Sequences, SequencesExt

CONSTANTS
    Values,                 \* the bytes of the values
    MaxValues               \* bound on the length of the list

VARIABLE values

-----------------------------------------------------------------------------
Sum(bytes) == <<"hash", bytes>>
LeafHashPrefix == <<"0">>
NodeHashPrefix == <<"1">>

emptyLeaf == Sum(<<>>)
hashLeaf(l) == Sum(<<LeafHashPrefix>> \o l)

hashNode(l, r) == Sum(<<NodeHashPrefix, l, r>>)

(* The largest power of two less than n, for n >= 2. *)
largestPowerOfTwo(n) == CHOOSE p \in {2 ^ k : k \in 0 .. n} : p < n /\ n <= 2 * p

RECURSIVE Hash(_)
Hash(data) ==
    IF Len(data) = 0 THEN emptyLeaf
    ELSE IF Len(data) = 1 THEN hashLeaf(data[1])
    ELSE LET k == largestPowerOfTwo(Len(data))
         IN  hashNode(Hash(SubSeq(data, 1, k)), Hash(SubSeq(data, k + 1, Len(data))))

-----------------------------------------------------------------------------
(* A proof is a tree of inner nodes, hashes of subtrees and the hash of    *)
(* the value.                                                              *)
ValueHash(h) == [kind |-> "value", hash |-> h]
LeafHash(h) == [kind |-> "leaf", hash |-> h]
Node(l, r) == [kind |-> "node", left |-> l, right |-> r]

(* Mutant: the proof splits the list in halves. *)
RECURSIVE computeProofHalves(_, _)
computeProofHalves(data, index) ==
    LET k == Len(data) \div 2
        left == SubSeq(data, 1, k)
        right == SubSeq(data, k + 1, Len(data))
    IN  IF Len(data) < 2 THEN ValueHash(hashLeaf(data[1]))
        ELSE IF index <= k THEN Node(computeProofHalves(left, index), LeafHash(Hash(right)))
        ELSE Node(LeafHash(Hash(left)), computeProofHalves(right, index - k))

(* The path to the value at the index (from 1), with the hashes beside it. *)
RECURSIVE computeProof(_, _)
computeProof(data, index) ==
    LET k == largestPowerOfTwo(Len(data))
        left == SubSeq(data, 1, k)
        right == SubSeq(data, k + 1, Len(data))
    IN  IF Len(data) < 2 THEN ValueHash(hashLeaf(data[1]))
        ELSE IF index <= k THEN Node(computeProof(left, index), LeafHash(Hash(right)))
        ELSE Node(LeafHash(Hash(left)), computeProof(right, index - k))

NotFound == [kind |-> "ErrProofValueNotFound"]

ComputeProofForIndex(data, index) ==
    IF index \in DOMAIN data THEN computeProof(data, index) ELSE NotFound

(* The first index at which the value stands. *)
ComputeProof(data, value) ==
    IF value \in ToSet(data)
    THEN ComputeProofForIndex(data, CHOOSE i \in DOMAIN data :
             data[i] = value /\ \A j \in 1 .. i - 1 : data[j] # value)
    ELSE NotFound

RECURSIVE ProofHash(_)
ProofHash(p) ==
    IF p.kind = "node" THEN hashNode(ProofHash(p.left), ProofHash(p.right)) ELSE p.hash

RECURSIVE containsValueHash(_, _)
containsValueHash(p, h) ==
    \/ p.kind = "value" /\ p.hash = h
    \/ p.kind = "node" /\ (containsValueHash(p.right, h) \/ containsValueHash(p.left, h))

ContainsValue(p, value) == containsValueHash(p, hashLeaf(value))

-----------------------------------------------------------------------------
MerkleInit == values = <<>>

AddValue ==
    /\ Len(values) < MaxValues
    /\ \E v \in Values : values' = Append(values, v)

-----------------------------------------------------------------------------
(* The proof of every index of a list, of whatever length, hashes to the   *)
(* root that Hash computes on its own.                                     *)
ProofsMatchTheRoot ==
    \A i \in DOMAIN values : ProofHash(ComputeProofForIndex(values, i)) = Hash(values)

(* A proof exists for the values of the list only, and proves its value    *)
(* and no other one, not even a value beside it.                           *)
ProofsProveOneValue ==
    \A v \in Values :
        LET p == ComputeProof(values, v)
        IN  /\ (p # NotFound) <=> (v \in ToSet(values))
            /\ p # NotFound => \A w \in Values : ContainsValue(p, w) <=> (w = v)

(* Two lists with the same root are the same list, also when the bytes of  *)
(* a value look like those of an inner node.                               *)
RootsAreUnique ==
    \A n \in 0 .. 3 : \A other \in [1 .. n -> Values] :
        Hash(other) = Hash(values) => other = values

(* A root binds its list, and its proofs prove just that. *)
RootsAreBinding == ProofsMatchTheRoot /\ ProofsProveOneValue /\ RootsAreUnique
=============================================================================
