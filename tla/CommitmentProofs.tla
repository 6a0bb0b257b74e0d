--------------------------- MODULE CommitmentProofs ---------------------------
(***************************************************************************)
(* What depends on the slot of a block although the virtual machine only   *)
(* knows a commitment, proved for all committable ages, epoch lengths and  *)
(* genesis slots: when an output with an expiration or a timelock is       *)
(* spent, for which epochs a delegation is rewarded, and when an account   *)
(* gives up its stake and its block issuer feature.                        *)
(***************************************************************************)
EXTENDS CommitmentWindow, Delegations, AccountFeatures, TLAPS

-----------------------------------------------------------------------------
(* Expirations and timelocks. *)

(* A spend is justified by the commitment it names: the past bound keeps   *)
(* the owner before the expiration, the future bound the return address    *)
(* and the timelock after.                                                 *)
Justified(x) ==
    /\ x.by = "return" => expiration # 0
    /\ x.by = "owner" /\ expiration # 0 => x.slot < expiration
    /\ x.commitment # 0 =>
          /\ x.by = "return" => x.slot >= expiration
          /\ timelock # 0 => x.slot >= timelock

WindowInv == WindowTypeOK /\ \A x \in spends : Justified(x)

(* The block rules put the slot of the block between the two bounds. *)
LEMMA BlockSlotIsBounded ==
    ASSUME NEW s \in Nat, NEW h \in Nat, NEW c \in Nat, CommitmentInputOk(s, h, c)
    PROVE  /\ s <= PastBoundedSlotIndex(c)
           /\ c # 0 => FutureBoundedSlotIndex(c) <= s
  BY CommittableAgeAssumption, WindowAssumption
     DEF CommitmentInputOk, PastBoundedSlotIndex, FutureBoundedSlotIndex, NoCommitmentInput

(* What a valid block may do is justified. *)
LEMMA SpendIsJustified ==
    ASSUME WindowTypeOK, NEW h \in Slot, NEW c \in CommitmentInputs,
           NEW by \in {"owner", "return"}, MaySpend(slot, h, c, by)
    PROVE  Justified([slot |-> slot, commitment |-> c, by |-> by])
  <1> DEFINE x == [slot |-> slot, commitment |-> c, by |-> by]
  <1>1. slot \in Nat /\ h \in Nat /\ expiration \in Nat /\ timelock \in Nat
    BY CommittableAgeAssumption, WindowAssumption DEF WindowTypeOK, Slot
  <1>2. x.slot = slot /\ x.commitment = c /\ x.by = by
    OBVIOUS
  <1>3. CASE c = NoCommitmentInput
    <2>1. by = "owner" /\ expiration = 0 /\ timelock = 0
      BY <1>3 DEF MaySpend, Unlockers, TimelockOk
    <2>2. QED
      BY <1>2, <2>1 DEF Justified
  <1>4. CASE c # NoCommitmentInput
    <2>1. c \in Nat
      BY <1>4, CommittableAgeAssumption, WindowAssumption DEF CommitmentInputs
    <2>2. slot <= PastBoundedSlotIndex(c) /\ (c # 0 => FutureBoundedSlotIndex(c) <= slot)
      BY <1>1, <2>1, BlockSlotIsBounded DEF MaySpend
    <2>3. PastBoundedSlotIndex(c) \in Nat /\ FutureBoundedSlotIndex(c) \in Nat
      BY <2>1, CommittableAgeAssumption, WindowAssumption
      DEF PastBoundedSlotIndex, FutureBoundedSlotIndex
    <2>4. by = "owner" /\ expiration # 0 => PastBoundedSlotIndex(c) < expiration
      BY <1>4 DEF MaySpend, Unlockers, OwnerAddressCanUnlock
    <2>5. by = "return" => expiration # 0 /\ FutureBoundedSlotIndex(c) >= expiration
      BY <1>4 DEF MaySpend, Unlockers, ReturnAddressCanUnlock
    <2>6. timelock # 0 => FutureBoundedSlotIndex(c) >= timelock
      BY <1>1, <2>3 DEF MaySpend, TimelockOk
    <2>7. QED
      BY <1>1, <1>2, <2>2, <2>3, <2>4, <2>5, <2>6 DEF Justified
  <1>5. QED
    BY <1>3, <1>4

(* The inductive invariant: every recorded spend is justified. *)
THEOREM WindowsHold == WindowSpec => []WindowInv
  <1>1. WindowInit => WindowInv
    BY CommittableAgeAssumption, WindowAssumption DEF WindowInit, WindowInv, WindowTypeOK, Slot
  <1>2. WindowInv /\ [WindowNext]_windowVars => WindowInv'
    <2> SUFFICES ASSUME WindowInv, [WindowNext]_windowVars PROVE WindowInv'
      OBVIOUS
    <2> USE DEF WindowInv
    <2>1. ASSUME NEW h \in Slot, NEW c \in CommitmentInputs,
                 NEW by \in {"owner", "return"}, Spend(h, c, by)
          PROVE  WindowInv'
      <3> DEFINE x == [slot |-> slot, commitment |-> c, by |-> by]
      <3>1. Justified(x)
        BY <2>1, SpendIsJustified DEF Spend
      <3>2. spends' = spends \cup {x} /\ UNCHANGED <<expiration, timelock, slot>>
        BY <2>1 DEF Spend
      <3>3. WindowTypeOK'
        BY <3>2 DEF WindowTypeOK
      <3>4. \A y \in spends' : Justified(y)
        BY <3>1, <3>2
      <3>5. QED
        BY <3>2, <3>3, <3>4 DEF Justified
    <2>2. CASE NextSlot
      BY <2>2, CommittableAgeAssumption, WindowAssumption
      DEF NextSlot, WindowTypeOK, Slot, Justified
    <2>3. CASE UNCHANGED windowVars
      BY <2>3 DEF windowVars, WindowTypeOK, Justified
    <2>4. QED
      BY <2>1, <2>2, <2>3 DEF WindowNext
  <1>3. QED
    BY <1>1, <1>2, PTL DEF WindowSpec

(* The owner of an output with an expiration can spend it only in blocks   *)
(* of earlier slots (unlock_cond.go, CheckExpirationCondition).            *)
THEOREM OwnerOnlyBefore == WindowSpec => []OwnerBeforeExpiration
  <1>1. WindowInv => OwnerBeforeExpiration
    BY DEF WindowInv, Justified, OwnerBeforeExpiration
  <1>2. QED
    BY <1>1, WindowsHold, PTL

(* The return address can spend it only from the expiration on, and nobody *)
(* before the timelock, for commitments after slot 0 (vm.go,               *)
(* checkExpiration and ExecFuncTimelocks).                                 *)
THEOREM ReturnOnlyAfter == WindowSpec => []NothingTooEarly
  <1>1. WindowInv => NothingTooEarly
    BY DEF WindowInv, Justified, NothingTooEarly
  <1>2. QED
    BY <1>1, WindowsHold, PTL

(* Hence the spends of the owner precede those of the return address, even *)
(* across blocks that name different commitments.                          *)
THEOREM OwnerPrecedesReturn == WindowSpec => []OwnerThenReturn
  <1>1. WindowInv => OwnerThenReturn
    <2> SUFFICES ASSUME WindowInv, NEW x \in spends, NEW y \in spends,
                        x.by = "owner", y.by = "return", y.commitment # 0
                 PROVE  x.slot < y.slot
      BY DEF OwnerThenReturn
    <2>1. x.slot \in Int /\ y.slot \in Int /\ expiration \in Int
      BY CommittableAgeAssumption, WindowAssumption DEF WindowInv, WindowTypeOK, Slot
    <2>2. x.slot < expiration /\ expiration <= y.slot
      BY <2>1 DEF WindowInv, Justified
    <2>3. QED
      BY <2>1, <2>2
  <1>2. QED
    BY <1>1, WindowsHold, PTL

(* In a slot s of an old enough chain, a block that commits to a slot c of *)
(* the window and names it as commitment input too meets the block rules.  *)
LEMMA WindowIsUsable ==
    ASSUME NEW s \in Slot, NEW c \in Slot,
           s - MaxCommittableAge <= c, c <= s - MinCommittableAge
    PROVE  HeaderOk(s, c) /\ CommitmentInputOk(s, c, c)
  BY CommittableAgeAssumption, WindowAssumption DEF HeaderOk, CommitmentInputOk, Slot

(* The dead slots are known (unlock_cond.go, block.go): the newest         *)
(* commitment the block rules allow serves the return address and outputs  *)
(* without expiration, the oldest one that the timelock lets pass serves   *)
(* the owner, and whoever spends is justified.                             *)
THEOREM NoOtherSlotIsDead == WindowSpec => []DeadSlotsAreKnown
  <1>1. WindowTypeOK => DeadSlotsAreKnown
    <2> SUFFICES ASSUME WindowTypeOK, slot > GenesisSlot + MaxCommittableAge
                 PROVE  (\E h \in Slot, c \in CommitmentInputs, x \in {"owner", "return"} : MaySpend(slot, h, c, x))
                            <=> slot >= timelock /\ (OwnerIsShutOut => slot >= expiration)
      BY DEF DeadSlotsAreKnown
    <2>1. /\ slot \in Slot /\ slot \in Nat /\ expiration \in Nat /\ timelock \in Nat
          /\ Slot \subseteq CommitmentInputs /\ \A c \in Slot : c \in Nat /\ c # NoCommitmentInput
      BY CommittableAgeAssumption, WindowAssumption DEF WindowTypeOK, Slot, CommitmentInputs, NoCommitmentInput
    <2> DEFINE newest == slot - MinCommittableAge
               oldest == slot - MaxCommittableAge
               unlocking == timelock - MinCommittableAge
    <2>2. newest \in Slot /\ oldest \in Slot /\ oldest <= newest /\ newest <= newest
      BY <2>1, CommittableAgeAssumption, WindowAssumption DEF Slot
    <2>3. ASSUME slot >= timelock, OwnerIsShutOut => slot >= expiration
          PROVE  \E c \in Slot, x \in {"owner", "return"} : MaySpend(slot, c, c, x)
      <3>1. ASSUME NEW c \in Slot, NEW x \in {"owner", "return"}, oldest <= c, c <= newest,
                   x \in Unlockers(c), TimelockOk(c)
            PROVE  MaySpend(slot, c, c, x)
        <4>1. HeaderOk(slot, c) /\ CommitmentInputOk(slot, c, c)
          BY <2>1, <3>1, WindowIsUsable, CommittableAgeAssumption
        <4>2. QED
          BY <3>1, <4>1 DEF MaySpend
      <3>2. TimelockOk(newest) /\ FutureBoundedSlotIndex(newest) = slot
        BY <2>1, <2>2, <2>3, CommittableAgeAssumption DEF TimelockOk, FutureBoundedSlotIndex
      <3>3. CASE expiration = 0
        <4>1. "owner" \in Unlockers(newest)
          BY <3>3 DEF Unlockers
        <4>2. MaySpend(slot, newest, newest, "owner")
          BY <2>2, <3>1, <3>2, <4>1
        <4>3. QED
          BY <2>2, <4>2
      <3>4. CASE expiration # 0 /\ slot >= expiration
        <4>1. "return" \in Unlockers(newest)
          BY <2>1, <2>2, <3>2, <3>4 DEF Unlockers, ReturnAddressCanUnlock
        <4>2. MaySpend(slot, newest, newest, "return")
          BY <2>2, <3>1, <3>2, <4>1
        <4>3. QED
          BY <2>2, <4>2
      <3>5. CASE expiration # 0 /\ slot < expiration
        <4> DEFINE c == IF timelock # 0 /\ unlocking > oldest THEN unlocking ELSE oldest
        <4>1. c \in Slot /\ oldest <= c /\ c <= newest
          <5>1. oldest \in Slot /\ oldest <= newest /\ oldest <= oldest
            BY <2>1, <2>2, CommittableAgeAssumption
          <5>2. CASE timelock # 0 /\ unlocking > oldest
            <6>1. unlocking <= newest /\ oldest <= unlocking
              BY <2>1, <2>3, <5>2, CommittableAgeAssumption
            <6>2. unlocking \in Slot
              BY <2>1, <2>2, <5>2, <6>1, CommittableAgeAssumption, WindowAssumption DEF Slot
            <6>3. QED
              BY <5>2, <6>1, <6>2
          <5>3. CASE ~(timelock # 0 /\ unlocking > oldest)
            BY <5>1, <5>3
          <5>4. QED
            BY <5>2, <5>3
        <4>2. PastBoundedSlotIndex(c) < expiration /\ ~(FutureBoundedSlotIndex(c) >= expiration)
          BY <2>1, <2>3, <3>5, CommittableAgeAssumption
             DEF OwnerIsShutOut, PastBoundedSlotIndex, FutureBoundedSlotIndex
        <4>3. timelock # 0 => ~(FutureBoundedSlotIndex(c) < timelock)
          BY <2>1, CommittableAgeAssumption DEF FutureBoundedSlotIndex
        <4> HIDE DEF c
        <4>4. "owner" \in Unlockers(c) /\ TimelockOk(c)
          BY <2>1, <3>5, <4>1, <4>2, <4>3
             DEF Unlockers, ReturnAddressCanUnlock, OwnerAddressCanUnlock, TimelockOk
        <4>5. QED
          BY <3>1, <4>1, <4>4
      <3>6. QED
        BY <2>1, <3>3, <3>4, <3>5
    <2>4. ASSUME NEW h \in Slot, NEW c \in CommitmentInputs, NEW x \in {"owner", "return"}, MaySpend(slot, h, c, x)
          PROVE  slot >= timelock /\ (OwnerIsShutOut => slot >= expiration)
      <3>1. h \in Nat /\ (c = NoCommitmentInput \/ c \in Nat)
        BY <2>1 DEF CommitmentInputs
      <3>2. CASE c = NoCommitmentInput
        BY <2>1, <2>4, <3>2 DEF MaySpend, TimelockOk, OwnerIsShutOut
      <3>3. CASE c \in Nat
        <4>1. slot <= PastBoundedSlotIndex(c) /\ (c # 0 => FutureBoundedSlotIndex(c) <= slot) /\ c # NoCommitmentInput
          BY <2>1, <2>4, <3>1, <3>3, BlockSlotIsBounded DEF MaySpend, NoCommitmentInput
        <4>2. FutureBoundedSlotIndex(c) <= slot
          BY <2>1, <3>3, <4>1, CommittableAgeAssumption DEF PastBoundedSlotIndex
        <4>3. timelock # 0 => FutureBoundedSlotIndex(c) >= timelock
          BY <2>1, <2>4, <3>3, CommittableAgeAssumption DEF MaySpend, TimelockOk, FutureBoundedSlotIndex
        <4>4. slot >= timelock
          BY <2>1, <3>3, <4>2, <4>3, CommittableAgeAssumption DEF FutureBoundedSlotIndex
        <4>5. ASSUME OwnerIsShutOut PROVE slot >= expiration
          <5>1. expiration # 0 /\ ~(PastBoundedSlotIndex(c) < expiration)
            BY <2>1, <3>3, <4>3, <4>5, CommittableAgeAssumption
               DEF OwnerIsShutOut, PastBoundedSlotIndex, FutureBoundedSlotIndex
          <5>2. FutureBoundedSlotIndex(c) >= expiration
            BY <2>4, <4>1, <5>1 DEF MaySpend, Unlockers, ReturnAddressCanUnlock, OwnerAddressCanUnlock
          <5>3. QED
            BY <2>1, <3>3, <4>2, <5>2, CommittableAgeAssumption DEF FutureBoundedSlotIndex
        <4>6. QED
          BY <4>4, <4>5
      <3>4. QED
        BY <3>1, <3>2, <3>3
    <2>5. QED
      BY <2>1, <2>3, <2>4
  <1>2. QED
    BY <1>1, WindowsHold, PTL DEF WindowInv

-----------------------------------------------------------------------------
(* Delegations. *)

DelegationTypes ==
    /\ slot \in Nat /\ slot > GenesisSlot
    /\ delegation \in {"none", "delegating", "delayed", "destroyed"}
    /\ StartEpoch \in Nat /\ EndEpoch \in Nat
    /\ created \in Nat /\ ended \in Nat

(* The start epoch was computed from some commitment, and stays; only a    *)
(* delegation that exists has ended.                                       *)
StartWasExpected ==
    /\ delegation # "none" => \E c \in Nat : c >= GenesisSlot /\ StartEpoch = ExpectedStartEpoch(c)
    /\ delegation = "none" => ended = 0

DelegationInv == DelegationTypes /\ StartWasExpected /\ RewardedForMeasured

(* The slots of an epoch. *)
spe == 2 ^ SlotsPerEpochExponent

-----------------------------------------------------------------------------
LEMMA DelegationParameters ==
    /\ spe \in Nat \ {0} /\ GenesisSlot \in Nat
    /\ EpochNearingThreshold \in Nat /\ EpochNearingThreshold < spe
    /\ MinCommittableAge \in Nat /\ MaxCommittableAge \in Nat
    /\ MinCommittableAge <= MaxCommittableAge
  BY DelegationAssumption, EpochAssumption, CommittableAgeAssumption DEF spe

(* The registration of an epoch ends before the epoch does, and those of   *)
(* two epochs are an epoch apart.                                          *)
LEMMA Registrations ==
    ASSUME NEW e \in Int
    PROVE  /\ registrationSlot(e) \in Int
           /\ registrationSlot(e) = GenesisSlot + e * spe + spe - 1 - EpochNearingThreshold
           /\ registrationSlot(e + 1) = registrationSlot(e) + spe
<1>1. registrationSlot(e) = GenesisSlot + ((e + 1) * spe - 1) - EpochNearingThreshold
  BY DelegationParameters, DelegationAssumption, EpochAssumption
  DEF registrationSlot, TP!EpochEnd, TP!EpochDurationSlots, spe
<1>2. registrationSlot(e + 1) = GenesisSlot + ((e + 1 + 1) * spe - 1) - EpochNearingThreshold
  BY DelegationParameters, DelegationAssumption, EpochAssumption
  DEF registrationSlot, TP!EpochEnd, TP!EpochDurationSlots, spe
<1>3. e * spe \in Int /\ (e + 1) * spe = e * spe + spe /\ (e + 1 + 1) * spe = e * spe + spe + spe
  BY DelegationParameters
<1> QED
  BY <1>1, <1>2, <1>3, DelegationParameters

LEMMA RegistrationsMonotone ==
    ASSUME NEW e \in Int, NEW f \in Int, e <= f
    PROVE  registrationSlot(e) <= registrationSlot(f)
<1>1. e * spe \in Int /\ f * spe \in Int /\ e * spe <= f * spe
  BY DelegationParameters, SMTT(30)
<1>2. /\ registrationSlot(e) = GenesisSlot + e * spe + spe - 1 - EpochNearingThreshold
      /\ registrationSlot(f) = GenesisSlot + f * spe + spe - 1 - EpochNearingThreshold
  BY Registrations
<1>3. ASSUME NEW x \in Int, NEW y \in Int, x <= y
      PROVE  GenesisSlot + x + spe - 1 - EpochNearingThreshold
                <= GenesisSlot + y + spe - 1 - EpochNearingThreshold
  BY <1>3, DelegationParameters
<1> QED
  BY <1>1, <1>2, <1>3

(* A slot lies in its epoch. *)
LEMMA SlotInEpoch ==
    ASSUME NEW s \in Nat, s >= GenesisSlot
    PROVE  /\ TP!EpochFromSlot(s) \in Nat
           /\ GenesisSlot + TP!EpochFromSlot(s) * spe <= s
           /\ s < GenesisSlot + TP!EpochFromSlot(s) * spe + spe
<1> DEFINE x == s - GenesisSlot
<1>1. x \in Nat
  BY DelegationParameters
<1>2. ASSUME NEW y \in Nat
      PROVE  y \div spe \in Nat /\ (y \div spe) * spe <= y /\ y < (y \div spe) * spe + spe
  BY DelegationParameters, SMTT(30)
<1>3. TP!EpochFromSlot(s) = IF x = 0 THEN 0 ELSE x \div spe
  BY DelegationParameters DEF TP!EpochFromSlot, TP!EpochDurationSlots, spe
<1>4. CASE x = 0
  <2>1. TP!EpochFromSlot(s) = 0 /\ s = GenesisSlot
    BY <1>3, <1>4, DelegationParameters
  <2> QED
    BY <2>1, DelegationParameters
<1>5. CASE x # 0
  <2>1. TP!EpochFromSlot(s) = x \div spe /\ s = GenesisSlot + x
    BY <1>3, <1>5, DelegationParameters
  <2>2. x \div spe \in Nat /\ (x \div spe) * spe <= x /\ x < (x \div spe) * spe + spe
    BY <1>1, <1>2
  <2>3. (x \div spe) * spe \in Int
    BY <2>2, DelegationParameters
  <2> HIDE DEF x
  <2> QED
    BY <1>1, <2>1, <2>2, <2>3, DelegationParameters
<1> QED
  BY <1>4, <1>5

LEMMA EpochsMonotone ==
    ASSUME NEW s \in Nat, NEW t \in Nat, s >= GenesisSlot, s <= t
    PROVE  TP!EpochFromSlot(s) <= TP!EpochFromSlot(t)
<1> DEFINE e == TP!EpochFromSlot(s)
           f == TP!EpochFromSlot(t)
<1>1. /\ e \in Nat /\ f \in Nat
      /\ GenesisSlot + e * spe <= s /\ t < GenesisSlot + f * spe + spe
  BY SlotInEpoch, DelegationParameters
<1> HIDE DEF e, f
<1>2. e * spe \in Int /\ f * spe \in Int /\ (f + 1) * spe = f * spe + spe /\ (f + 1) * spe \in Int
  BY <1>1, DelegationParameters
<1>3. e * spe < (f + 1) * spe
  BY <1>1, <1>2, DelegationParameters
<1>4. ASSUME e >= f + 1 PROVE FALSE
  <2>1. e * spe >= (f + 1) * spe
    BY <1>1, <1>4, DelegationParameters, SMTT(30)
  <2>2. ASSUME NEW x \in Int, NEW y \in Int, x < y, x >= y PROVE FALSE
    BY <2>2
  <2> QED
    BY <1>2, <1>3, <2>1, <2>2
<1> QED
  BY <1>1, <1>4 DEF e, f

(* The last epoch that was not yet registered in slot s: the voting power  *)
(* for it and all epochs before it was measured before s.                  *)
RegisteredBefore(s) ==
    LET e == TP!EpochFromSlot(s) IN IF s <= registrationSlot(e) THEN e ELSE e + 1

LEMMA RegisteredBeforeBounds ==
    ASSUME NEW s \in Nat, s >= GenesisSlot
    PROVE  /\ RegisteredBefore(s) \in Nat
           /\ registrationSlot(RegisteredBefore(s) - 1) < s
           /\ s <= registrationSlot(RegisteredBefore(s))
<1> DEFINE e == TP!EpochFromSlot(s)
<1>1. e \in Nat /\ GenesisSlot + e * spe <= s /\ s < GenesisSlot + e * spe + spe
  BY SlotInEpoch
<1>2. RegisteredBefore(s) = IF s <= registrationSlot(e) THEN e ELSE e + 1
  BY DEF RegisteredBefore
<1> HIDE DEF e
<1>3. e * spe \in Int
  BY <1>1, DelegationParameters
<1>4. /\ registrationSlot(e) = GenesisSlot + e * spe + spe - 1 - EpochNearingThreshold
      /\ registrationSlot(e) = registrationSlot(e - 1) + spe
      /\ registrationSlot(e + 1) = registrationSlot(e) + spe
      /\ registrationSlot(e - 1) \in Int
  <2>1. e \in Int /\ e - 1 \in Int /\ (e - 1) + 1 = e
    BY <1>1
  <2> QED
    BY <2>1, Registrations
<1>5. CASE s <= registrationSlot(e)
  BY <1>1, <1>2, <1>3, <1>4, <1>5, DelegationParameters
<1>6. CASE ~(s <= registrationSlot(e))
  <2>1. RegisteredBefore(s) = e + 1 /\ RegisteredBefore(s) - 1 = e
    BY <1>1, <1>2, <1>6
  <2> QED
    BY <1>1, <1>3, <1>4, <1>6, <2>1, DelegationParameters
<1> QED
  BY <1>5, <1>6

LEMMA RegisteredBeforeMonotone ==
    ASSUME NEW s \in Nat, NEW t \in Nat, s >= GenesisSlot, s <= t
    PROVE  RegisteredBefore(s) <= RegisteredBefore(t)
<1> DEFINE e == TP!EpochFromSlot(s)
           f == TP!EpochFromSlot(t)
<1>1. e \in Nat /\ f \in Nat /\ e <= f
  BY SlotInEpoch, EpochsMonotone, DelegationParameters
<1>2. /\ RegisteredBefore(s) = IF s <= registrationSlot(e) THEN e ELSE e + 1
      /\ RegisteredBefore(t) = IF t <= registrationSlot(f) THEN f ELSE f + 1
  BY DEF RegisteredBefore
<1> HIDE DEF e, f
<1>3. registrationSlot(e) \in Int /\ registrationSlot(f) \in Int
  BY <1>1, Registrations
<1> QED
  BY <1>1, <1>2, <1>3

(* delegationGenesisValid and delegationStateChangeValid in terms of it. *)
LEMMA ExpectedEpochs ==
    ASSUME NEW c \in Nat, c >= GenesisSlot
    PROVE  /\ PastBoundedSlotIndex(c) \in Nat /\ PastBoundedSlotIndex(c) >= GenesisSlot
           /\ FutureBoundedSlotIndex(c) \in Nat /\ FutureBoundedSlotIndex(c) >= GenesisSlot
           /\ ExpectedStartEpoch(c) = RegisteredBefore(PastBoundedSlotIndex(c)) + 1
           /\ ExpectedEndEpoch(c) = RegisteredBefore(FutureBoundedSlotIndex(c))
<1>1. /\ PastBoundedSlotIndex(c) \in Nat /\ PastBoundedSlotIndex(c) >= GenesisSlot
      /\ FutureBoundedSlotIndex(c) \in Nat /\ FutureBoundedSlotIndex(c) >= GenesisSlot
  BY DelegationParameters DEF PastBoundedSlotIndex, FutureBoundedSlotIndex
<1>2. TP!EpochFromSlot(PastBoundedSlotIndex(c)) \in Nat
  BY <1>1, SlotInEpoch
<1>3. ExpectedStartEpoch(c) = RegisteredBefore(PastBoundedSlotIndex(c)) + 1
  BY <1>2 DEF ExpectedStartEpoch, RegisteredBefore
<1>4. ExpectedEndEpoch(c) = RegisteredBefore(FutureBoundedSlotIndex(c))
  BY DEF ExpectedEndEpoch, RegisteredBefore
<1> QED
  BY <1>1, <1>3, <1>4

(* What the block rules say of the commitment input. *)
LEMMA DelegationCommitmentBounds ==
    ASSUME DelegationTypes, NEW c \in DelegationCommitments
    PROVE  /\ c \in Nat /\ c >= GenesisSlot
           /\ slot <= PastBoundedSlotIndex(c)
           /\ c # 0 => FutureBoundedSlotIndex(c) <= slot
<1>1. c \in GenesisSlot..slot /\ MayCommit(slot, c)
  BY DEF DelegationCommitments
<1>2. PICK h \in GenesisSlot..slot : CommitmentInputOk(slot, h, c)
  BY <1>1 DEF MayCommit
<1>3. c \in Nat /\ c >= GenesisSlot /\ c # NoCommitmentInput
  BY <1>1, DelegationParameters DEF DelegationTypes, NoCommitmentInput
<1> QED
  BY <1>2, <1>3, DelegationParameters
  DEF DelegationTypes, CommitmentInputOk, PastBoundedSlotIndex, FutureBoundedSlotIndex

-----------------------------------------------------------------------------
(* A new delegation is in the ledger when its first epoch is measured. *)
LEMMA DelegationCreationKeepsInv ==
    ASSUME DelegationInv, NEW c \in DelegationCommitments, NEW start \in Epochs, Create(c, start)
    PROVE  DelegationInv'
<1>1. /\ DelegationTypes /\ delegation = "none" /\ ended = 0
      /\ delegation' = "delegating" /\ StartEpoch' = ExpectedStartEpoch(c)
      /\ EndEpoch' = 0 /\ created' = slot /\ slot' = slot /\ ended' = ended
  BY DEF Create, DelegationInv, StartWasExpected
<1> DEFINE p == PastBoundedSlotIndex(c)
<1>2. c \in Nat /\ c >= GenesisSlot /\ slot <= p
  BY <1>1, DelegationCommitmentBounds
<1>3. p \in Nat /\ p >= GenesisSlot /\ StartEpoch' = RegisteredBefore(p) + 1
  BY <1>1, <1>2, ExpectedEpochs
<1> HIDE DEF p
<1>4. /\ RegisteredBefore(p) \in Nat /\ p <= registrationSlot(RegisteredBefore(p))
      /\ registrationSlot(RegisteredBefore(p)) \in Int
  BY <1>3, RegisteredBeforeBounds, Registrations
<1>5. DelegationTypes'
  BY <1>1, <1>3, <1>4 DEF DelegationTypes
<1>6. StartWasExpected'
  <2>1. ExpectedStartEpoch(c)' = ExpectedStartEpoch(c)
    BY DEF ExpectedStartEpoch, PastBoundedSlotIndex, registrationSlot,
           TP!EpochFromSlot, TP!EpochEnd, TP!EpochDurationSlots
  <2> QED
    BY <1>1, <1>2 DEF StartWasExpected
<1>7. StartsBeforeRegistration'
  <2>1. StartEpoch' - 1 = RegisteredBefore(p)
    BY <1>3, <1>4
  <2>2. slot <= registrationSlot(RegisteredBefore(p))
    BY <1>1, <1>2, <1>3, <1>4 DEF DelegationTypes
  <2> QED
    BY <1>1, <2>1, <2>2 DEF StartsBeforeRegistration
<1>8. RewardedWhileMeasured'
  BY <1>1 DEF RewardedWhileMeasured
<1> QED
  BY <1>5, <1>6, <1>7, <1>8 DEF DelegationInv, RewardedForMeasured

(* The end of a delegation is computed from a slot no later than that of   *)
(* the block, or from the commitment to slot 0, and then no epoch is       *)
(* rewarded at all.                                                        *)
LEMMA DelegationTransitionKeepsInv ==
    ASSUME DelegationInv, NEW c \in DelegationCommitments, NEW end \in Epochs, NEW claiming,
           Transition(c, end, claiming)
    PROVE  DelegationInv'
<1>1. /\ DelegationTypes /\ delegation = "delegating"
      /\ delegation' = "delayed" /\ EndEpoch' = ExpectedEndEpoch(c)
      /\ ended' = slot /\ slot' = slot /\ StartEpoch' = StartEpoch /\ created' = created
  BY DEF Transition, DelegationInv
<1> DEFINE f == FutureBoundedSlotIndex(c)
<1>2. c \in Nat /\ c >= GenesisSlot /\ (c # 0 => f <= slot)
  BY <1>1, DelegationCommitmentBounds
<1>3. f \in Nat /\ f >= GenesisSlot /\ EndEpoch' = RegisteredBefore(f)
  BY <1>1, <1>2, ExpectedEpochs
<1>4. RegisteredBefore(f) \in Nat /\ registrationSlot(RegisteredBefore(f) - 1) < f
  BY <1>3, RegisteredBeforeBounds
<1>5. PICK b \in Nat : b >= GenesisSlot /\ StartEpoch = ExpectedStartEpoch(b)
  BY <1>1 DEF DelegationInv, StartWasExpected
<1>6. /\ PastBoundedSlotIndex(b) \in Nat /\ PastBoundedSlotIndex(b) >= GenesisSlot
      /\ StartEpoch = RegisteredBefore(PastBoundedSlotIndex(b)) + 1
      /\ RegisteredBefore(PastBoundedSlotIndex(b)) \in Nat
  BY <1>5, ExpectedEpochs, RegisteredBeforeBounds
<1>7. ASSUME NEW e \in StartEpoch..EndEpoch'
      PROVE  registrationSlot(e - 1) < slot
  <2>1. e \in Int /\ StartEpoch <= e /\ e <= RegisteredBefore(f)
    BY <1>1, <1>3, <1>4, <1>7 DEF DelegationTypes
  <2>2. CASE c = 0
    <3>1. f <= PastBoundedSlotIndex(b)
      BY <1>5, <2>2, DelegationParameters DEF FutureBoundedSlotIndex, PastBoundedSlotIndex
    <3>2. RegisteredBefore(f) <= RegisteredBefore(PastBoundedSlotIndex(b))
      BY <1>3, <1>6, <3>1, RegisteredBeforeMonotone
    <3> QED
      BY <1>4, <1>6, <2>1, <3>2
  <2>3. CASE c # 0
    <3>1. e - 1 \in Int /\ RegisteredBefore(f) - 1 \in Int /\ e - 1 <= RegisteredBefore(f) - 1
      BY <1>4, <2>1
    <3>2. registrationSlot(e - 1) <= registrationSlot(RegisteredBefore(f) - 1)
      BY <3>1, RegistrationsMonotone
    <3>3. registrationSlot(e - 1) \in Int /\ registrationSlot(RegisteredBefore(f) - 1) \in Int
      BY <3>1, Registrations
    <3> QED
      BY <1>1, <1>2, <1>3, <1>4, <2>3, <3>2, <3>3 DEF DelegationTypes
  <2> QED
    BY <2>2, <2>3
<1>8. DelegationTypes'
  BY <1>1, <1>3, <1>4 DEF DelegationTypes
<1>9. StartWasExpected' /\ StartsBeforeRegistration'
  BY <1>1, <1>5 DEF DelegationInv, StartWasExpected, RewardedForMeasured, StartsBeforeRegistration
<1>10. RewardedWhileMeasured'
  BY <1>1, <1>7 DEF RewardedWhileMeasured
<1> QED
  BY <1>8, <1>9, <1>10 DEF DelegationInv, RewardedForMeasured

LEMMA OtherStepsKeepDelegationInv ==
    ASSUME DelegationInv, DelegationTick \/ (\E claiming \in BOOLEAN : Destroy(claiming)) \/ UNCHANGED delegationVars
    PROVE  DelegationInv'
<1>1. /\ UNCHANGED <<StartEpoch, EndEpoch, created, ended>>
      /\ delegation' = "none" <=> delegation = "none"
      /\ DelegationTypes'
  BY DelegationParameters
  DEF DelegationTick, Destroy, delegationVars, DelegationInv, DelegationTypes
<1> QED
  BY <1>1 DEF DelegationInv, StartWasExpected, RewardedForMeasured, StartsBeforeRegistration,
              RewardedWhileMeasured

(* The inductive invariant: the start epoch is the one expected for some   *)
(* commitment, which rules out the rewards that slot 0 would open.         *)
THEOREM DelegationsInductive == DelegationSpec => []DelegationInv
<1>1. DelegationInit => DelegationInv
  BY DelegationParameters
  DEF DelegationInit, DelegationInv, DelegationTypes, StartWasExpected, RewardedForMeasured, StartsBeforeRegistration,
      RewardedWhileMeasured
<1>2. DelegationInv /\ [DelegationNext]_delegationVars => DelegationInv'
  BY DelegationCreationKeepsInv, DelegationTransitionKeepsInv, OtherStepsKeepDelegationInv
  DEF DelegationNext
<1> QED
  BY <1>1, <1>2, PTL DEF DelegationSpec

(* delegationGenesisValid and delegationStateChangeValid fit the time at   *)
(* which voting power is measured, for every choice of commitments.        *)
THEOREM RewardsAreMeasured == DelegationSpec => []RewardedForMeasured
  BY DelegationsInductive, PTL DEF DelegationInv

-----------------------------------------------------------------------------
(* Staking and block issuers. *)

(* What a staking feature in the ledger promises: it does not end before   *)
(* the unbonding period is over, nor at the start of the chain, where the  *)
(* commitment to slot 0 makes the virtual machine believe in a later slot; *)
(* and all rewards claimed so far are for epochs before it.                *)
StakePromises ==
    staking # NoStaking =>
        /\ EpochFromSlot(MaxCommittableAge) <= staking.EndEpoch
        /\ boundIn + StakingUnbondingPeriod <= staking.EndEpoch
        /\ \A e \in 0..LastEpoch : claims[e] > 0 => e < staking.StartEpoch

OnlyAccountsStake == staking # NoStaking => account = "account"

StakingInv ==
    AccountTypeOK /\ RewardedOnce /\ RewardedAfterwards /\ StakePromises /\ OnlyAccountsStake

-----------------------------------------------------------------------------
(* A later slot is in no earlier epoch. *)
LEMMA EpochMonotone ==
    ASSUME NEW s \in Nat, NEW t \in Nat, s <= t
    PROVE  /\ EpochFromSlot(s) \in Nat
           /\ EpochFromSlot(t) \in Nat
           /\ EpochFromSlot(s) <= EpochFromSlot(t)
<1> DEFINE d == 2 ^ SlotsPerEpochExponent
<1>1. d \in Nat \ {0} /\ GenesisSlot \in Nat
  BY StakingAssumption, EpochAssumption, CommittableAgeAssumption
<1> HIDE DEF d
<1>2. /\ EpochFromSlot(s) = IF s <= GenesisSlot THEN 0 ELSE (s - GenesisSlot) \div d
      /\ EpochFromSlot(t) = IF t <= GenesisSlot THEN 0 ELSE (t - GenesisSlot) \div d
  BY DEF EpochFromSlot, TP!EpochFromSlot, TP!EpochDurationSlots, d
<1>3. ASSUME NEW a \in Nat, NEW b \in Nat, a <= b
      PROVE  a \div d \in Nat /\ a \div d <= b \div d
  BY <1>1, <1>3, SMTT(30)
<1>4. CASE s <= GenesisSlot /\ t <= GenesisSlot
  BY <1>2, <1>4
<1>5. CASE s <= GenesisSlot /\ ~(t <= GenesisSlot)
  <2>1. t - GenesisSlot \in Nat
    BY <1>1, <1>5
  <2> QED
    BY <1>2, <1>3, <1>5, <2>1
<1>6. CASE ~(s <= GenesisSlot)
  <2>1. s - GenesisSlot \in Nat /\ t - GenesisSlot \in Nat /\ ~(t <= GenesisSlot)
        /\ s - GenesisSlot <= t - GenesisSlot
    BY <1>1, <1>6
  <2> QED
    BY <1>2, <1>3, <1>6, <2>1
<1> QED
  BY <1>1, <1>4, <1>5, <1>6

(* The bounds that a commitment a block may use puts on the epoch of the   *)
(* block: never too early from above, and from below unless it is slot 0.  *)
LEMMA EpochBounds ==
    ASSUME AccountTypeOK, NEW c \in AccountCommitments, c # NoCommitmentInput
    PROVE  /\ c \in Nat /\ slot \in Nat
           /\ EpochFromSlot(slot) \in Nat
           /\ PastBoundedEpoch(c) \in Nat
           /\ FutureBoundedEpoch(c) \in Nat
           /\ EpochFromSlot(MaxCommittableAge) \in Nat
           /\ FutureBoundedEpoch(c) <= PastBoundedEpoch(c)
           /\ EpochFromSlot(slot) <= PastBoundedEpoch(c)
           /\ EpochFromSlot(MaxCommittableAge) <= PastBoundedEpoch(c)
           /\ \/ FutureBoundedEpoch(c) <= EpochFromSlot(slot)
              \/ FutureBoundedEpoch(c) <= EpochFromSlot(MaxCommittableAge)
<1>1. /\ c \in GenesisSlot..slot
      /\ slot \in (GenesisSlot + 1)..LastSlot
      /\ ~(c > 0 /\ slot < c + MinCommittableAge)
      /\ ~(slot > c + MaxCommittableAge)
  BY DEF AccountCommitments, MayCommit, CommitmentInputOk, AccountTypeOK
<1>2. /\ c \in Nat /\ slot \in Nat
      /\ c + MaxCommittableAge \in Nat /\ c + MinCommittableAge \in Nat
      /\ MaxCommittableAge \in Nat
      /\ slot <= c + MaxCommittableAge
      /\ c + MinCommittableAge <= c + MaxCommittableAge
      /\ MaxCommittableAge <= c + MaxCommittableAge
      /\ c + MinCommittableAge <= slot \/ c + MinCommittableAge <= MaxCommittableAge
  BY <1>1, CommittableAgeAssumption, StakingAssumption, EpochAssumption
<1>3. /\ PastBoundedEpoch(c) = EpochFromSlot(c + MaxCommittableAge)
      /\ FutureBoundedEpoch(c) = EpochFromSlot(c + MinCommittableAge)
  BY DEF PastBoundedEpoch, FutureBoundedEpoch, PastBoundedSlotIndex, FutureBoundedSlotIndex
<1> QED
  BY <1>2, <1>3, EpochMonotone

LEMMA StakingFields ==
    ASSUME NEW s \in StakingFeature
    PROVE  s.StartEpoch \in 0..LastEpoch /\ s.EndEpoch \in 0..LastEpoch
  BY Zenon DEF StakingFeature

(* Whatever transactions try is a staking feature or none. *)
LEMMA NextStakingType ==
    ASSUME NEW c, NEW s \in NextStaking(c)
    PROVE  s \in StakingFeature \union {NoStaking}
  BY DEF NextStaking, StakingFeature

(* A feature that passes the validation of new features keeps the promises. *)
LEMMA GenesisPromises ==
    ASSUME StakingInv, NEW c \in AccountCommitments, c # NoCommitmentInput,
           NEW s \in StakingFeature, accountStakingGenesisValidation(c, s)
    PROVE  /\ EpochFromSlot(MaxCommittableAge) <= s.EndEpoch
           /\ EpochFromSlot(slot) + StakingUnbondingPeriod <= s.EndEpoch
           /\ EpochFromSlot(slot) <= s.StartEpoch
<1>1. s.EndEpoch \in Int /\ s.StartEpoch \in Int /\ StakingUnbondingPeriod \in Nat
  <2>1. s.StartEpoch \in 0..LastEpoch /\ s.EndEpoch \in 0..LastEpoch
    BY StakingFields
  <2>2. 0..LastEpoch \subseteq Int /\ StakingUnbondingPeriod \in Nat
    BY StakingAssumption, EpochAssumption
  <2> QED
    BY <2>1, <2>2
<1>2. s.StartEpoch = PastBoundedEpoch(c)
      /\ s.EndEpoch >= PastBoundedEpoch(c) + StakingUnbondingPeriod
  BY DEF accountStakingGenesisValidation
<1>3. /\ EpochFromSlot(slot) \in Nat /\ PastBoundedEpoch(c) \in Nat
      /\ EpochFromSlot(MaxCommittableAge) \in Nat
      /\ EpochFromSlot(slot) <= PastBoundedEpoch(c)
      /\ EpochFromSlot(MaxCommittableAge) <= PastBoundedEpoch(c)
  BY EpochBounds DEF StakingInv
<1> QED
  BY <1>1, <1>2, <1>3

(* The virtual machine takes a feature for expired only when the block is  *)
(* issued after its end epoch.                                             *)
LEMMA ExpiredIsOver ==
    ASSUME StakingInv, NEW c \in AccountCommitments, c # NoCommitmentInput,
           staking # NoStaking, StakingExpired(c, staking)
    PROVE  staking.EndEpoch < EpochFromSlot(slot)
<1>1. staking \in StakingFeature
  BY DEF StakingInv, AccountTypeOK
<1>2. staking.EndEpoch \in Int
  <2>1. staking.EndEpoch \in 0..LastEpoch
    BY <1>1, StakingFields
  <2> QED
    BY <2>1
<1> QED
  BY <1>2, EpochBounds DEF StakingInv, StakePromises, StakingExpired

(* Claims are for epochs that are over and that nobody claimed before. *)
LEMMA ClaimsAreSound ==
    ASSUME StakingInv, NEW c \in AccountCommitments, NEW next, Claimed(c, next),
           staking # NoStaking => c # NoCommitmentInput
    PROVE  /\ claims' \in [0..LastEpoch -> Nat]
           /\ \A e \in 0..LastEpoch : claims'[e] <= 1
           /\ \A e \in 0..LastEpoch : claims'[e] > 0 => e < EpochFromSlot(slot)
           /\ ~RemovesStaking(c, staking, next) => claims' = claims
<1>1. claims \in [0..LastEpoch -> Nat]
  BY DEF StakingInv, AccountTypeOK
<1>2. claims' = [e \in 0..LastEpoch |->
        IF RemovesStaking(c, staking, next) /\ e \in staking.StartEpoch..staking.EndEpoch
            THEN claims[e] + 1 ELSE claims[e]]
  BY DEF Claimed
<1>3. \A e \in 0..LastEpoch : claims[e] <= 1 /\ (claims[e] > 0 => e < EpochFromSlot(slot))
  BY DEF StakingInv, RewardedOnce, RewardedAfterwards
<1>4. CASE ~RemovesStaking(c, staking, next)
  BY <1>1, <1>2, <1>3, <1>4
<1>5. CASE RemovesStaking(c, staking, next)
  <2>1. staking # NoStaking /\ StakingExpired(c, staking)
    BY <1>5 DEF RemovesStaking
  <2>2. staking.EndEpoch < EpochFromSlot(slot)
    BY <2>1, ExpiredIsOver
  <2>3. staking.StartEpoch \in 0..LastEpoch /\ staking.EndEpoch \in 0..LastEpoch
    BY <2>1, StakingFields DEF StakingInv, AccountTypeOK
  <2>4. EpochFromSlot(slot) \in Nat
    BY <2>1, EpochBounds DEF StakingInv
  <2>5. \A e \in 0..LastEpoch : claims[e] > 0 => e < staking.StartEpoch
    BY <2>1 DEF StakingInv, StakePromises
  <2>6. ASSUME NEW e \in 0..LastEpoch
        PROVE  /\ claims'[e] \in Nat
               /\ claims'[e] <= 1
               /\ claims'[e] > 0 => e < EpochFromSlot(slot)
    <3>1. CASE e \in staking.StartEpoch..staking.EndEpoch
      <4>1. claims[e] = 0
        BY <1>1, <2>3, <2>5, <3>1
      <4>2. claims'[e] = 1
        BY <1>2, <1>5, <3>1, <4>1
      <4>3. e < EpochFromSlot(slot)
        BY <2>2, <2>3, <2>4, <3>1
      <4> QED
        BY <4>2, <4>3
    <3>2. CASE ~(e \in staking.StartEpoch..staking.EndEpoch)
      BY <1>1, <1>2, <1>3, <3>2
    <3> QED
      BY <3>1, <3>2
  <2> QED
    BY <1>2, <1>5, <2>6
<1> QED
  BY <1>4, <1>5

LEMMA SameStaking ==
    ASSUME NEW s \in StakingFeature, NEW u \in StakingFeature,
           s.StakedAmount = u.StakedAmount, s.StartEpoch = u.StartEpoch, s.EndEpoch = u.EndEpoch
    PROVE  s = u
  BY DEF StakingFeature

(* What a transaction owes for the feature next it leaves: none, the same  *)
(* one, one validated as new, or one of the same start whose end was set.  *)
LEMMA PromisesKept ==
    ASSUME StakingInv, NEW c \in AccountCommitments, NEW s \in StakingFeature \union {NoStaking},
           slot' = slot, staking' = s, Bound(s),
           s # NoStaking /\ s # staking => c # NoCommitmentInput,
           \A e \in 0..LastEpoch : claims'[e] > 0 => e < EpochFromSlot(slot),
           \/ s = NoStaking
           \/ s = staking /\ claims' = claims
           \/ accountStakingGenesisValidation(c, s) /\ s # staking
           \/ /\ staking # NoStaking /\ s # staking
              /\ s.StartEpoch = staking.StartEpoch /\ claims' = claims
              /\ s.EndEpoch >= PastBoundedEpoch(c) + StakingUnbondingPeriod
    PROVE  StakePromises'
<1> SUFFICES ASSUME s # NoStaking
             PROVE  /\ EpochFromSlot(MaxCommittableAge) <= s.EndEpoch
                    /\ boundIn' + StakingUnbondingPeriod <= s.EndEpoch
                    /\ \A e \in 0..LastEpoch : claims'[e] > 0 => e < s.StartEpoch
  BY DEF StakePromises
<1>1. s \in StakingFeature /\ s.StartEpoch \in 0..LastEpoch /\ s.EndEpoch \in 0..LastEpoch
  BY StakingFields
<1>2. CASE s = staking /\ claims' = claims
  <2>1. boundIn' = boundIn
    BY <1>2 DEF Bound
  <2> QED
    BY <1>2, <2>1 DEF StakingInv, StakePromises
<1>3. s # staking => boundIn' = EpochFromSlot(slot) /\ c # NoCommitmentInput
  BY DEF Bound
<1>4. CASE accountStakingGenesisValidation(c, s) /\ s # staking
  <2>1. /\ EpochFromSlot(MaxCommittableAge) <= s.EndEpoch
        /\ EpochFromSlot(slot) + StakingUnbondingPeriod <= s.EndEpoch
        /\ EpochFromSlot(slot) <= s.StartEpoch
    BY <1>1, <1>3, <1>4, GenesisPromises
  <2>2. EpochFromSlot(slot) \in Nat
    BY <1>3, <1>4, EpochBounds DEF StakingInv
  <2>3. s.StartEpoch \in Int
    BY <1>1
  <2>4. \A e \in 0..LastEpoch : claims'[e] > 0 => e < s.StartEpoch
    BY <2>1, <2>2, <2>3
  <2> QED
    BY <1>3, <1>4, <2>1, <2>4
<1>5. CASE /\ staking # NoStaking /\ s # staking
           /\ s.StartEpoch = staking.StartEpoch /\ claims' = claims
           /\ s.EndEpoch >= PastBoundedEpoch(c) + StakingUnbondingPeriod
  <2>1. /\ EpochFromSlot(slot) \in Nat /\ PastBoundedEpoch(c) \in Nat
        /\ EpochFromSlot(MaxCommittableAge) \in Nat
        /\ EpochFromSlot(slot) <= PastBoundedEpoch(c)
        /\ EpochFromSlot(MaxCommittableAge) <= PastBoundedEpoch(c)
    BY <1>3, <1>5, EpochBounds DEF StakingInv
  <2>2. s.EndEpoch \in Int /\ StakingUnbondingPeriod \in Nat
    BY <1>1, StakingAssumption, EpochAssumption
  <2>3. \A e \in 0..LastEpoch : claims'[e] > 0 => e < s.StartEpoch
    BY <1>5 DEF StakingInv, StakePromises
  <2> QED
    BY <1>3, <1>5, <2>1, <2>2, <2>3
<1> QED
  BY <1>2, <1>4, <1>5

(* Creation and conversion: the feature is new. *)
LEMMA AccountCreationKeepsInv ==
    ASSUME StakingInv, NEW c \in AccountCommitments, NEW i \in ExpirySlots \union {NoIssuer},
           NEW s \in NextStaking(c), NEW bic,
           CreateAccount(c, i, s) \/ ConvertImplicitAccount(c, i, s, bic)
    PROVE  StakingInv'
<1>1. s \in StakingFeature \union {NoStaking}
  BY NextStakingType
<1>2. /\ SyntacticallyValid(c, i, s) /\ accountGenesisValid(c, i, s) /\ Bound(s)
      /\ account' = "account" /\ issuer' = i /\ staking' = s
      /\ slot' = slot /\ claims' = claims /\ issuable' = issuable
  BY DEF CreateAccount, ConvertImplicitAccount
<1>3. s # NoStaking => c # NoCommitmentInput /\ accountStakingGenesisValidation(c, s)
  BY <1>2 DEF SyntacticallyValid, accountGenesisValid
<1>4. slot \in Nat /\ EpochFromSlot(slot) \in Nat
  <2>1. slot \in Nat
    BY StakingAssumption, EpochAssumption, CommittableAgeAssumption DEF StakingInv, AccountTypeOK
  <2> QED
    BY <2>1, EpochMonotone
<1>5. boundIn' \in Int
  BY <1>2, <1>4 DEF Bound, StakingInv, AccountTypeOK
<1>6. AccountTypeOK'
  BY <1>1, <1>2, <1>5 DEF StakingInv, AccountTypeOK
<1>7. RewardedOnce' /\ RewardedAfterwards'
  BY <1>2 DEF StakingInv, RewardedOnce, RewardedAfterwards
<1>8. \A e \in 0..LastEpoch : claims'[e] > 0 => e < EpochFromSlot(slot)
  BY <1>2 DEF StakingInv, RewardedAfterwards
<1>9. StakePromises'
  BY <1>1, <1>2, <1>3, <1>8, PromisesKept
<1>10. OnlyAccountsStake'
  BY <1>2 DEF OnlyAccountsStake
<1> QED
  BY <1>6, <1>7, <1>9, <1>10 DEF StakingInv

(* A transition of the account. *)
LEMMA AccountTransitionKeepsInv ==
    ASSUME StakingInv, NEW c \in AccountCommitments, NEW i \in ExpirySlots \union {NoIssuer},
           NEW s \in NextStaking(c), NEW bic, TransitionAccount(c, i, s, bic)
    PROVE  StakingInv'
<1>1. s \in StakingFeature \union {NoStaking}
  BY NextStakingType
<1>2. /\ SyntacticallyValid(c, i, s) /\ accountStakingSTVF(c, staking, s)
      /\ Claimed(c, s) /\ Bound(s)
      /\ account' = account /\ issuer' = i /\ staking' = s
      /\ slot' = slot /\ issuable' = issuable
  BY DEF TransitionAccount
<1>3. /\ s # NoStaking => c # NoCommitmentInput
      /\ staking # NoStaking => c # NoCommitmentInput
  BY <1>2 DEF SyntacticallyValid, accountStakingSTVF
<1>4. slot \in Nat /\ EpochFromSlot(slot) \in Nat
  <2>1. slot \in Nat
    BY StakingAssumption, EpochAssumption, CommittableAgeAssumption DEF StakingInv, AccountTypeOK
  <2> QED
    BY <2>1, EpochMonotone
<1>5. boundIn' \in Int
  BY <1>2, <1>4 DEF Bound, StakingInv, AccountTypeOK
<1>6. /\ claims' \in [0..LastEpoch -> Nat]
      /\ \A e \in 0..LastEpoch : claims'[e] <= 1
      /\ \A e \in 0..LastEpoch : claims'[e] > 0 => e < EpochFromSlot(slot)
      /\ ~RemovesStaking(c, staking, s) => claims' = claims
  BY <1>2, <1>3, ClaimsAreSound
<1>7. AccountTypeOK'
  BY <1>1, <1>2, <1>5, <1>6 DEF StakingInv, AccountTypeOK
<1>8. RewardedOnce' /\ RewardedAfterwards'
  BY <1>2, <1>6 DEF RewardedOnce, RewardedAfterwards
<1>9. \/ s = NoStaking
      \/ s = staking /\ claims' = claims
      \/ accountStakingGenesisValidation(c, s) /\ s # staking
      \/ /\ staking # NoStaking /\ s # staking
         /\ s.StartEpoch = staking.StartEpoch /\ claims' = claims
         /\ s.EndEpoch >= PastBoundedEpoch(c) + StakingUnbondingPeriod
  <2>1. CASE s = staking
    BY <1>6, <2>1 DEF RemovesStaking
  <2>2. CASE s # staking /\ staking = NoStaking
    BY <1>2, <2>2 DEF accountStakingSTVF
  <2>3. CASE s # staking /\ staking # NoStaking /\ StakingExpired(c, staking)
    BY <1>2, <2>3 DEF accountStakingSTVF, accountStakingExpiredValidation
  <2>4. CASE s # staking /\ staking # NoStaking /\ ~StakingExpired(c, staking)
    <3>1. accountStakingNonExpiredValidation(c, staking, s)
      BY <1>2, <2>4 DEF accountStakingSTVF
    <3>2. s \in StakingFeature /\ staking \in StakingFeature
      BY <1>1, <2>4, <3>1 DEF accountStakingNonExpiredValidation, StakingInv, AccountTypeOK
    <3>3. s.EndEpoch # staking.EndEpoch
      BY <2>4, <3>1, <3>2, SameStaking DEF accountStakingNonExpiredValidation
    <3>4. claims' = claims
      BY <1>6, <2>4 DEF RemovesStaking
    <3> QED
      BY <2>4, <3>1, <3>3, <3>4 DEF accountStakingNonExpiredValidation
  <2> QED
    BY <2>1, <2>2, <2>3, <2>4
<1>10. StakePromises'
  BY <1>1, <1>2, <1>3, <1>6, <1>9, PromisesKept
<1>11. OnlyAccountsStake'
  BY <1>2 DEF TransitionAccount, OnlyAccountsStake
<1> QED
  BY <1>7, <1>8, <1>10, <1>11 DEF StakingInv

LEMMA DestructionKeepsInv ==
    ASSUME StakingInv, NEW c \in AccountCommitments, NEW bic, DestroyAccount(c, bic)
    PROVE  StakingInv'
<1>1. /\ staking # NoStaking => c # NoCommitmentInput
      /\ Claimed(c, NoStaking) /\ boundIn' = -1
      /\ account' = "destroyed" /\ issuer' = NoIssuer /\ staking' = NoStaking
      /\ slot' = slot /\ issuable' = issuable
  BY DEF DestroyAccount, Bound
<1>2. /\ claims' \in [0..LastEpoch -> Nat]
      /\ \A e \in 0..LastEpoch : claims'[e] <= 1
      /\ \A e \in 0..LastEpoch : claims'[e] > 0 => e < EpochFromSlot(slot)
  BY <1>1, ClaimsAreSound
<1> QED
  BY <1>1, <1>2
  DEF StakingInv, AccountTypeOK, RewardedOnce, RewardedAfterwards, StakePromises, OnlyAccountsStake

LEMMA AccountTickKeepsInv ==
    ASSUME StakingInv, AccountTick
    PROVE  StakingInv'
<1>1. /\ slot' = slot + 1 /\ slot < LastSlot
      /\ account' = account /\ issuer' = issuer /\ staking' = staking
      /\ boundIn' = boundIn /\ claims' = claims
  BY DEF AccountTick
<1>2. slot \in Nat /\ slot' \in Nat /\ slot <= slot' /\ slot' \in (GenesisSlot + 1)..LastSlot
  BY <1>1, StakingAssumption, EpochAssumption, CommittableAgeAssumption
  DEF StakingInv, AccountTypeOK
<1>3. issuable' \in Int
  BY <1>2 DEF AccountTick, StakingInv, AccountTypeOK
<1>4. AccountTypeOK'
  BY <1>1, <1>2, <1>3 DEF StakingInv, AccountTypeOK
<1>5. /\ EpochFromSlot(slot) \in Nat /\ EpochFromSlot(slot') \in Nat
      /\ EpochFromSlot(slot) <= EpochFromSlot(slot')
  BY <1>2, EpochMonotone
<1>6. RewardedAfterwards'
  BY <1>1, <1>5 DEF StakingInv, RewardedAfterwards
<1> QED
  BY <1>1, <1>4, <1>6 DEF StakingInv, RewardedOnce, StakePromises, OnlyAccountsStake

-----------------------------------------------------------------------------
LEMMA InitStaking == AccountInit => StakingInv
<1> SUFFICES ASSUME AccountInit PROVE StakingInv
  OBVIOUS
<1>1. AccountTypeOK
  BY StakingAssumption, EpochAssumption, CommittableAgeAssumption
  DEF AccountInit, AccountTypeOK, NoIssuer
<1> QED
  BY <1>1
  DEF AccountInit, StakingInv, RewardedOnce, RewardedAfterwards, StakePromises, OnlyAccountsStake

LEMMA AccountNextKeepsInv ==
    ASSUME StakingInv, [AccountNext]_accountVars
    PROVE  StakingInv'
<1>1. CASE AccountTick
  BY <1>1, AccountTickKeepsInv
<1>2. CASE CreateImplicitAccount
  BY <1>2 DEF CreateImplicitAccount, history, StakingInv, AccountTypeOK, RewardedOnce,
              RewardedAfterwards, StakePromises, OnlyAccountsStake
<1>3. ASSUME NEW c \in AccountCommitments, NEW i \in ExpirySlots \union {NoIssuer}, NEW bic,
             NEW s \in NextStaking(c),
             \/ CreateAccount(c, i, s)
             \/ ConvertImplicitAccount(c, i, s, bic)
             \/ TransitionAccount(c, i, s, bic)
      PROVE  StakingInv'
  BY <1>3, AccountCreationKeepsInv, AccountTransitionKeepsInv
<1>4. ASSUME NEW c \in AccountCommitments, NEW bic, DestroyAccount(c, bic)
      PROVE  StakingInv'
  BY <1>4, DestructionKeepsInv
<1>5. CASE UNCHANGED accountVars
  BY <1>5
  DEF accountVars, StakingInv, AccountTypeOK, RewardedOnce, RewardedAfterwards, StakePromises, OnlyAccountsStake
<1> QED
  BY <1>1, <1>2, <1>3, <1>4, <1>5 DEF AccountNext

LEMMA StakingInductive == AccountSpec => []StakingInv
  BY InitStaking, AccountNextKeepsInv, PTL DEF AccountSpec

(* The features of an account keep their types. *)
THEOREM AccountTypeCorrect == AccountSpec => []AccountTypeOK
  BY StakingInductive, PTL DEF StakingInv

(* accountStakingExpiredValidation: for all parameters the epoch ranges of *)
(* successive staking features are disjoint, so no rewards are paid twice. *)
THEOREM NoDoubleRewards == AccountSpec => []RewardedOnce
  BY StakingInductive, PTL DEF StakingInv

(* Rewards are claimed in blocks issued after the rewarded epochs. *)
THEOREM NoEarlyRewards == AccountSpec => []RewardedAfterwards
  BY StakingInductive, PTL DEF StakingInv

(* accountStakingNonExpiredValidation and accountDestructionValid: a stake *)
(* leaves only after the unbonding period, counted from the block that     *)
(* last set its end, whichever commitments the transactions chose.         *)
THEOREM StakesUnbond == AccountSpec => StakeIsBound
<1> DEFINE Over == EpochFromSlot(slot) > boundIn + StakingUnbondingPeriod
<1>1. ASSUME StakingInv, [AccountNext]_accountVars, staking # NoStaking,
             staking' = NoStaking \/ staking'.StakedAmount # staking.StakedAmount
      PROVE  Over
  <2>1. ASSUME NEW c \in AccountCommitments, c # NoCommitmentInput, StakingExpired(c, staking)
        PROVE  Over
    <3>1. staking.EndEpoch < EpochFromSlot(slot)
      BY <1>1, <2>1, ExpiredIsOver
    <3>2. boundIn + StakingUnbondingPeriod <= staking.EndEpoch
      BY <1>1 DEF StakingInv, StakePromises
    <3>3. staking.EndEpoch \in 0..LastEpoch
      BY <1>1, StakingFields DEF StakingInv, AccountTypeOK
    <3>4. /\ boundIn \in Int /\ StakingUnbondingPeriod \in Nat
          /\ staking.EndEpoch \in Int /\ EpochFromSlot(slot) \in Nat
      BY <1>1, <2>1, <3>3, StakingAssumption, EpochAssumption, EpochBounds
      DEF StakingInv, AccountTypeOK
    <3> QED
      BY <3>1, <3>2, <3>4
  <2>2. ASSUME NEW c \in AccountCommitments, NEW bic, DestroyAccount(c, bic)
        PROVE  Over
    BY <1>1, <2>1, <2>2 DEF DestroyAccount
  <2>3. ASSUME NEW c \in AccountCommitments, NEW i, NEW s, NEW bic,
               TransitionAccount(c, i, s, bic)
        PROVE  Over
    <3>1. accountStakingSTVF(c, staking, s) /\ staking' = s
      BY <2>3 DEF TransitionAccount
    <3>2. c # NoCommitmentInput
      BY <1>1, <3>1 DEF accountStakingSTVF
    <3>3. StakingExpired(c, staking)
      BY <1>1, <3>1 DEF accountStakingSTVF, accountStakingNonExpiredValidation
    <3> QED
      BY <2>1, <3>2, <3>3
  <2>4. ASSUME NEW c \in AccountCommitments, NEW i, NEW s, NEW bic,
               CreateAccount(c, i, s) \/ ConvertImplicitAccount(c, i, s, bic)
        PROVE  FALSE
    BY <1>1, <2>4
    DEF CreateAccount, ConvertImplicitAccount, StakingInv, OnlyAccountsStake
  <2>5. staking' # staking
    BY <1>1
  <2>6. ~AccountTick /\ ~CreateImplicitAccount /\ ~UNCHANGED accountVars
    BY <2>5 DEF AccountTick, CreateImplicitAccount, accountVars
  <2> QED
    BY <1>1, <2>2, <2>3, <2>4, <2>6 DEF AccountNext
<1> QED
  BY <1>1, StakingInductive, PTL DEF AccountSpec, StakeIsBound

-----------------------------------------------------------------------------
(* Every slot in which the account could issue blocks is over, and none of *)
(* them lies behind the expiry slot, also when that was lowered; only      *)
(* accounts have the feature.                                              *)
IssuableIsCovered ==
    /\ issuable < slot
    /\ issuer # NoIssuer => issuable <= issuer /\ account = "account"

(* A valid commitment is no later than the block, and MinCommittableAge    *)
(* slots before it, except for slot 0.                                     *)
LEMMA SlotBounds ==
    ASSUME AccountTypeOK, NEW c \in AccountCommitments, c # NoCommitmentInput
    PROVE  /\ c \in Nat /\ slot \in Nat /\ c < MaxSlotIndex
           /\ slot <= PastBoundedSlotIndex(c)
           /\ c > 0 => c + MinCommittableAge <= slot
<1>1. slot \in Nat /\ slot <= LastSlot /\ LastSlot < MaxSlotIndex /\ MaxSlotIndex \in Nat /\ LastSlot \in Nat
  BY StakingAssumption, EpochAssumption, CommittableAgeAssumption DEF AccountTypeOK
<1>2. c \in GenesisSlot..slot /\ MayCommit(slot, c)
  BY DEF AccountCommitments
<1>3. PICK h \in GenesisSlot..slot : CommitmentInputOk(slot, h, c)
  BY <1>2 DEF MayCommit
<1> QED
  BY <1>1, <1>2, <1>3, CommittableAgeAssumption DEF CommitmentInputOk, PastBoundedSlotIndex

(* A block issuer feature that a transaction sets covers the slots so far. *)
LEMMA NewIssuerCovers ==
    ASSUME AccountTypeOK, IssuableIsCovered, NEW c \in AccountCommitments, c # NoCommitmentInput,
           NEW i \in ExpirySlots, i >= PastBoundedSlotIndex(c)
    PROVE  issuable <= i
<1>1. i \in Nat /\ issuable \in Int /\ PastBoundedSlotIndex(c) \in Nat
  BY SlotBounds, StakingAssumption, EpochAssumption, CommittableAgeAssumption
  DEF AccountTypeOK, PastBoundedSlotIndex
<1> QED
  BY <1>1, SlotBounds DEF IssuableIsCovered

LEMMA NextKeepsCover ==
    ASSUME StakingInv, IssuableIsCovered, [AccountNext]_accountVars
    PROVE  IssuableIsCovered'
<1>1. /\ AccountTypeOK /\ slot \in Nat /\ issuable \in Int /\ issuer \in Int
      /\ NoIssuer = -1 /\ NoIssuer \notin ExpirySlots
  BY StakingAssumption, EpochAssumption, CommittableAgeAssumption
  DEF StakingInv, AccountTypeOK, NoIssuer
<1>2. CASE AccountTick
  BY <1>1, <1>2 DEF AccountTick, IssuableIsCovered
<1>3. CASE CreateImplicitAccount
  BY <1>3 DEF CreateImplicitAccount, history, IssuableIsCovered
<1>4. ASSUME NEW c \in AccountCommitments, NEW i \in ExpirySlots \union {NoIssuer}, NEW s, NEW bic,
             \/ CreateAccount(c, i, s)
             \/ ConvertImplicitAccount(c, i, s, bic)
             \/ TransitionAccount(c, i, s, bic)
      PROVE  IssuableIsCovered'
  <2>1. /\ slot' = slot /\ issuable' = issuable /\ issuer' = i /\ account' = "account"
        /\ SyntacticallyValid(c, i, s)
    BY <1>4 DEF CreateAccount, ConvertImplicitAccount, TransitionAccount
  <2>2. CASE i = NoIssuer \/ i = issuer
    BY <2>1, <2>2 DEF IssuableIsCovered
  <2>3. CASE i # NoIssuer /\ i # issuer
    <3>1. c # NoCommitmentInput
      BY <2>1, <2>3 DEF SyntacticallyValid
    <3>2. i >= PastBoundedSlotIndex(c)
      BY <1>4, <2>3 DEF CreateAccount, ConvertImplicitAccount, TransitionAccount,
                        accountGenesisValid, accountBlockIssuerSTVF
    <3> QED
      BY <1>1, <2>1, <2>3, <3>1, <3>2, NewIssuerCovers DEF IssuableIsCovered
  <2> QED
    BY <2>2, <2>3
<1>5. ASSUME NEW c \in AccountCommitments, NEW bic, DestroyAccount(c, bic)
      PROVE  IssuableIsCovered'
  BY <1>5 DEF DestroyAccount, IssuableIsCovered
<1>6. CASE UNCHANGED accountVars
  BY <1>6 DEF accountVars, IssuableIsCovered
<1> QED
  BY <1>2, <1>3, <1>4, <1>5, <1>6 DEF AccountNext

(* accountBlockIssuerSTVF and accountDestructionValid: whatever expiry     *)
(* slots and commitments its transactions chose, an account stops being a  *)
(* block issuer only MinCommittableAge slots after the last slot in which  *)
(* it could issue blocks.                                                  *)
THEOREM IssuersAreAccountable == AccountSpec => IssuerIsAccountable
<1> DEFINE Charged == slot > issuable + MinCommittableAge
<1>1. AccountInit => IssuableIsCovered
  BY CommittableAgeAssumption DEF AccountInit, IssuableIsCovered
<1>2. AccountSpec => []IssuableIsCovered
  BY <1>1, NextKeepsCover, StakingInductive, PTL DEF AccountSpec
<1>3. ASSUME StakingInv, IssuableIsCovered, [AccountNext]_accountVars,
             issuer # NoIssuer \/ account = "implicit", issuer' = NoIssuer, account' # "implicit"
      PROVE  Charged
  <2>1. /\ AccountTypeOK /\ slot \in Nat /\ issuable \in Int /\ issuer \in Int
        /\ NoIssuer = -1 /\ NoIssuer \notin ExpirySlots
    BY <1>3, StakingAssumption, EpochAssumption, CommittableAgeAssumption
    DEF StakingInv, AccountTypeOK, NoIssuer
  <2>2. ASSUME NEW c \in AccountCommitments, c # NoCommitmentInput, issuer # NoIssuer, issuer < c
        PROVE  Charged
    <3>1. c \in Nat /\ (c > 0 => c + MinCommittableAge <= slot)
      BY <2>1, <2>2, SlotBounds
    <3>2. issuer >= 0 /\ issuable <= issuer
      BY <1>3, <2>1, <2>2, StakingAssumption, EpochAssumption DEF AccountTypeOK, IssuableIsCovered
    <3> QED
      BY <2>1, <2>2, <3>1, <3>2, CommittableAgeAssumption
  <2>3. ASSUME NEW c \in AccountCommitments, NEW bic, DestroyAccount(c, bic)
        PROVE  Charged
    BY <1>3, <2>2, <2>3 DEF DestroyAccount
  <2>4. ASSUME NEW c \in AccountCommitments, NEW i, NEW s, NEW bic, TransitionAccount(c, i, s, bic)
        PROVE  Charged
    <3>1. i = NoIssuer /\ issuer # NoIssuer /\ accountBlockIssuerSTVF(c, issuer, i)
      BY <1>3, <2>4 DEF TransitionAccount
    <3>2. c # NoCommitmentInput /\ ~(issuer >= c)
      BY <3>1 DEF accountBlockIssuerSTVF
    <3>3. c \in Nat
      BY <2>1, <3>2, SlotBounds
    <3> QED
      BY <2>1, <2>2, <3>1, <3>2, <3>3
  <2>5. ASSUME NEW c \in AccountCommitments, NEW i, NEW s, NEW bic, ConvertImplicitAccount(c, i, s, bic)
        PROVE  FALSE
    <3>1. i = NoIssuer /\ accountBlockIssuerSTVF(c, MaxSlotIndex, i)
      BY <1>3, <2>5 DEF ConvertImplicitAccount
    <3>2. MaxSlotIndex \in Nat /\ MaxSlotIndex # NoIssuer
      BY <2>1, StakingAssumption, EpochAssumption
    <3>3. c # NoCommitmentInput /\ ~(MaxSlotIndex >= c)
      BY <3>1, <3>2 DEF accountBlockIssuerSTVF
    <3>4. c \in Nat /\ c < MaxSlotIndex
      BY <2>1, <3>3, SlotBounds
    <3> QED
      BY <3>2, <3>3, <3>4
  <2>6. ASSUME NEW c \in AccountCommitments, NEW i, NEW s, CreateAccount(c, i, s)
        PROVE  FALSE
    BY <1>3, <2>6 DEF CreateAccount, IssuableIsCovered
  <2> QED
    BY <1>3, <2>3, <2>4, <2>5, <2>6 DEF AccountNext, AccountTick, CreateImplicitAccount, accountVars
<1> QED
  BY <1>2, <1>3, StakingInductive, PTL DEF AccountSpec, IssuerIsAccountable
=============================================================================
