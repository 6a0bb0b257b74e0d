------------------------------ MODULE Delegations ------------------------------
(***************************************************************************)
(* One delegation output (vm/nova/vm.go): created, optionally moved to     *)
(* delayed claiming, where its end epoch is fixed, and destroyed when its  *)
(* rewards are claimed.  The node measures the voting power for epoch e    *)
(* from the outputs of the ledger at the end of slot                       *)
(* registrationSlot(e - 1); the virtual machine computes start and end     *)
(* from a commitment that may lie well before the block.                   *)
(***************************************************************************)
EXTENDS EpochRules

CONSTANT EpochNearingThreshold

ASSUME DelegationAssumption ==
    EpochNearingThreshold \in 0..(2 ^ SlotsPerEpochExponent - 1)

VARIABLES
    delegation,     \* "none", "delegating" (its ID is zeroed), "delayed" or "destroyed"
    StartEpoch,
    EndEpoch,
    created,        \* the slot of the block that created the output
    ended           \* the slot of the block that moved it to delayed claiming

delegationVars == <<slot, delegation, StartEpoch, EndEpoch, created, ended>>

registrationSlot(e) == TP!EpochEnd(e) - EpochNearingThreshold

Epochs == 0..(TP!EpochFromSlot(LastSlot + MaxCommittableAge) + 2)
DelegationCommitments == {c \in GenesisSlot..slot : MayCommit(slot, c)}

-----------------------------------------------------------------------------
(* Mutant: the start is computed from the other bound. *)
ExpectedStartFromFuture(c) ==
    LET s == FutureBoundedSlotIndex(c)
        e == TP!EpochFromSlot(s)
    IN  IF s <= registrationSlot(e) THEN e + 1 ELSE e + 2

(* delegationGenesisValid *)
ExpectedStartEpoch(c) ==
    LET s == PastBoundedSlotIndex(c)
        e == TP!EpochFromSlot(s)
    IN  IF s <= registrationSlot(e) THEN e + 1 ELSE e + 2

(* delegationStateChangeValid *)
ExpectedEndEpoch(c) ==
    LET s == FutureBoundedSlotIndex(c)
        e == TP!EpochFromSlot(s)
    IN  IF s <= registrationSlot(e) THEN e ELSE e + 1

DelegationInit ==
    /\ slot = GenesisSlot + 1
    /\ delegation = "none"
    /\ StartEpoch = 0
    /\ EndEpoch = 0
    /\ created = 0
    /\ ended = 0

DelegationTick ==
    /\ slot < LastSlot
    /\ slot' = slot + 1
    /\ UNCHANGED <<delegation, StartEpoch, EndEpoch, created, ended>>

(* A delegation output needs a commitment input, and its end is open. *)
Create(c, start) ==
    /\ delegation = "none"
    /\ start = ExpectedStartEpoch(c)
    /\ delegation' = "delegating"
    /\ StartEpoch' = start
    /\ EndEpoch' = 0
    /\ created' = slot
    /\ UNCHANGED <<slot, ended>>

(* The transition to delayed claiming, at most once, without claiming. *)
Transition(c, end, claiming) ==
    /\ delegation = "delegating"
    /\ ~claiming
    /\ end = ExpectedEndEpoch(c)
    /\ delegation' = "delayed"
    /\ EndEpoch' = end
    /\ ended' = slot
    /\ UNCHANGED <<slot, StartEpoch, created>>

(* The output is destroyed in the transaction that claims its rewards. *)
Destroy(claiming) ==
    /\ delegation \in {"delegating", "delayed"}
    /\ claiming
    /\ delegation' = "destroyed"
    /\ UNCHANGED <<slot, StartEpoch, EndEpoch, created, ended>>

DelegationNext ==
    \/ DelegationTick
    \/ \E c \in DelegationCommitments, e \in Epochs, claiming \in BOOLEAN :
            Create(c, e) \/ Transition(c, e, claiming)
    \/ \E claiming \in BOOLEAN : Destroy(claiming)

DelegationSpec == DelegationInit /\ [][DelegationNext]_delegationVars

-----------------------------------------------------------------------------

(* From its start epoch on the delegation is in the ledger when voting     *)
(* power is measured, although delegationGenesisValid only knows a         *)
(* commitment: it was created at or before the end of the registration.    *)
StartsBeforeRegistration ==
    delegation # "none" => created <= registrationSlot(StartEpoch - 1)

(* No epoch of the range that a delayed delegation is rewarded for is one  *)
(* whose voting power was measured after the delegation had ended; also    *)
(* not if the end was computed from the commitment to slot 0, which makes  *)
(* the virtual machine believe in a later slot (delegationStateChangeValid *)
(* against delegationGenesisValid).                                        *)
RewardedWhileMeasured ==
    ended > 0 =>
        \A e \in StartEpoch..EndEpoch : registrationSlot(e - 1) < ended

(* A delegation is rewarded only for epochs whose voting power it was part *)
(* of, from the first to the last.                                         *)
RewardedForMeasured == StartsBeforeRegistration /\ RewardedWhileMeasured
=============================================================================
