--------------------------- MODULE CommitmentWindow ---------------------------
(***************************************************************************)
(* Who may spend an output with an expiration or a timelock, and when.     *)
(*                                                                         *)
(* A transaction cannot see the slot of the block that carries it.  It     *)
(* names a commitment input instead, the block rules (block.go) bound how  *)
(* old and how recent that commitment may be for the slot of the block,    *)
(* and the virtual machine (vm/vm.go, unlock_cond.go) decides from the     *)
(* slot of the commitment alone.  One output is watched while the slots go *)
(* by; every block that spends it is recorded, including those that        *)
(* conflict with each other.                                               *)
(***************************************************************************)
EXTENDS CommitmentRules, FiniteSets

CONSTANTS
    MaxSlot,            \* bound on the slots that are explored
    MaxSpends           \* bound on the spends that are recorded

ASSUME WindowAssumption ==
    /\ MaxSlot \in Nat
    /\ GenesisSlot < MaxSlot
    /\ MaxSpends \in Nat

VARIABLES
    expiration,     \* slot of the expiration unlock condition, 0 if there is none
    timelock,       \* slot of the timelock unlock condition, 0 if there is none
    spends          \* the spends of the output that blocks carried

windowVars == <<expiration, timelock, slot, spends>>

Slot == GenesisSlot..MaxSlot
CommitmentInputs == (0..MaxSlot) \cup {NoCommitmentInput}

-----------------------------------------------------------------------------
ReturnAddressCanUnlock(c) == FutureBoundedSlotIndex(c) >= expiration
OwnerAddressCanUnlock(c) == PastBoundedSlotIndex(c) < expiration

(* checkExpiration: the addresses that may unlock the output, at most one. *)
Unlockers(c) ==
    IF expiration = 0 THEN {"owner"}
    ELSE IF c = NoCommitmentInput THEN {}
    ELSE IF ReturnAddressCanUnlock(c) THEN {"return"}
    ELSE IF OwnerAddressCanUnlock(c) THEN {"owner"} ELSE {}

(* Mutant: the timelock still holds in the slot it names. *)
TimelockOkOffByOne(c) ==
    timelock # 0 => c # NoCommitmentInput /\ ~(FutureBoundedSlotIndex(c) <= timelock)

(* ExecFuncTimelocks. *)
TimelockOk(c) ==
    timelock # 0 => c # NoCommitmentInput /\ ~(FutureBoundedSlotIndex(c) < timelock)

(* A block of slot s, committing to h, with commitment input c, is valid   *)
(* and its transaction is unlocked by x.                                   *)
MaySpend(s, h, c, x) ==
    /\ HeaderOk(s, h)
    /\ CommitmentInputOk(s, h, c)
    /\ x \in Unlockers(c)
    /\ TimelockOk(c)

-----------------------------------------------------------------------------
WindowInit ==
    /\ expiration \in {0} \cup Slot
    /\ timelock \in {0} \cup Slot
    /\ slot = GenesisSlot + 1
    /\ spends = {}

(* A block carries a valid transaction that spends the output. *)
Spend(h, c, x) ==
    /\ Cardinality(spends) < MaxSpends
    /\ MaySpend(slot, h, c, x)
    /\ spends' = spends \cup {[slot |-> slot, commitment |-> c, by |-> x]}
    /\ UNCHANGED <<expiration, timelock, slot>>

NextSlot ==
    /\ slot < MaxSlot
    /\ slot' = slot + 1
    /\ UNCHANGED <<expiration, timelock, spends>>

WindowNext ==
    \/ \E h \in Slot, c \in CommitmentInputs, x \in {"owner", "return"} : Spend(h, c, x)
    \/ NextSlot

WindowSpec == WindowInit /\ [][WindowNext]_windowVars

-----------------------------------------------------------------------------
(* Type correctness. *)
WindowTypeOK ==
    /\ expiration \in {0} \cup Slot
    /\ timelock \in {0} \cup Slot
    /\ slot \in Slot
    /\ spends \subseteq [slot : Slot, commitment : CommitmentInputs,
                         by : {"owner", "return"}]

(* The owner spends only in slots before the expiration, whichever         *)
(* commitment the transaction names.                                       *)
OwnerBeforeExpiration ==
    \A x \in spends : x.by = "owner" /\ expiration # 0 => x.slot < expiration

(* The return address spends only from the expiration on, and nobody       *)
(* before the timelock, unless the transaction commits to slot 0, which    *)
(* the block rules never find too recent.                                  *)
NothingTooEarly ==
    \A x \in spends : x.commitment # 0 =>
        /\ x.by = "return" => x.slot >= expiration
        /\ timelock # 0 => x.slot >= timelock

(* So two blocks that name different commitments cannot let the owner and  *)
(* the return address spend the output in the same slot or out of order.   *)
OwnerThenReturn ==
    \A x, y \in spends :
        x.by = "owner" /\ y.by = "return" /\ y.commitment # 0 => x.slot < y.slot

(* No commitment is recent enough for the timelock and still old enough    *)
(* for the owner: the expiration follows the timelock too closely.         *)
OwnerIsShutOut ==
    timelock # 0 /\ expiration # 0 /\ expiration + MinCommittableAge <= timelock + MaxCommittableAge

(* The slots in which nobody can spend the output, whatever commitment the *)
(* block and the transaction choose, once the chain is old enough: those   *)
(* before the timelock, and those before an expiration that follows the    *)
(* timelock so closely that the owner is shut out altogether.  The dead    *)
(* zone between the two windows of commitments (unlock_cond.go) costs no   *)
(* slot of its own.                                                        *)
DeadSlotsAreKnown ==
    slot > GenesisSlot + MaxCommittableAge =>
        ((\E h \in Slot, c \in CommitmentInputs, x \in {"owner", "return"} : MaySpend(slot, h, c, x))
            <=> slot >= timelock /\ (OwnerIsShutOut => slot >= expiration))
=============================================================================
