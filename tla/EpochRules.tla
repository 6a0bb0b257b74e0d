------------------------------ MODULE EpochRules ------------------------------
(***************************************************************************)
(* The epochs of the slots that CommitmentRules speaks of: the virtual     *)
(* machine (vm/nova/vm.go) takes them from the time provider of the API.   *)
(***************************************************************************)
EXTENDS CommitmentRules

CONSTANTS
    SlotsPerEpochExponent,
    LastSlot                \* bound on the slots of blocks

ASSUME EpochAssumption ==
    /\ SlotsPerEpochExponent \in Nat
    /\ 2 ^ SlotsPerEpochExponent \in Nat \ {0}
    /\ LastSlot \in Nat

TP == INSTANCE TimeProvider WITH
        genesisSlot <- GenesisSlot, now <- slot, GenesisSlots <- {GenesisSlot},
        UnitsPerSecond <- 1, SlotDurationSeconds <- 1, LeadTime <- 0, LastTime <- LastSlot
=============================================================================
