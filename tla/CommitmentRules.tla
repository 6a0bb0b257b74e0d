---------------------------- MODULE CommitmentRules ----------------------------
(***************************************************************************)
(* Which commitments a block of a given slot may name (block.go), and what *)
(* the virtual machine concludes from one about the slot of the block      *)
(* (vm/vm.go).  Every check that depends on time goes through these.       *)
(***************************************************************************)
EXTENDS Integers

CONSTANTS
    MinCommittableAge,
    MaxCommittableAge,
    GenesisSlot

ASSUME CommittableAgeAssumption ==
    /\ MinCommittableAge \in Nat
    /\ MaxCommittableAge \in Nat
    /\ MinCommittableAge <= MaxCommittableAge
    /\ GenesisSlot \in Nat

VARIABLE slot           \* the slot of the block that is processed

NoCommitmentInput == -1

(* Block.syntacticallyValidate: the commitment h of the block header. *)
HeaderOk(s, h) ==
    /\ ~(h > GenesisSlot /\ s < h + MinCommittableAge)
    /\ ~(s > h + MaxCommittableAge)

(* Mutant: an old commitment input is let through. *)
CommitmentInputOkUnboundedPast(s, h, c) ==
    c # NoCommitmentInput => ~(c > 0 /\ s < c + MinCommittableAge) /\ c <= h

(* Mutant: the commitment input is not kept away from the slot of the block. *)
CommitmentInputOkUnboundedFuture(s, h, c) ==
    c # NoCommitmentInput => ~(s > c + MaxCommittableAge)

(* BasicBlockBody.syntacticallyValidate: the commitment input c of the     *)
(* transaction.  A commitment to slot 0 is never too recent.               *)
CommitmentInputOk(s, h, c) ==
    c # NoCommitmentInput =>
        /\ ~(c > 0 /\ s < c + MinCommittableAge)
        /\ ~(s > c + MaxCommittableAge)
        /\ c <= h

PastBoundedSlotIndex(c) == c + MaxCommittableAge
FutureBoundedSlotIndex(c) == c + MinCommittableAge

(* A block of slot s may carry a transaction with commitment input c. *)
MayCommit(s, c) == \E h \in GenesisSlot..s : HeaderOk(s, h) /\ CommitmentInputOk(s, h, c)
=============================================================================
