----------------------------- MODULE TimeProvider -----------------------------
(***************************************************************************)
(* TimeProvider (timeprovider.go): time, slots and epochs, while the time  *)
(* goes by.  Times are counted from the genesis in the smallest unit, of   *)
(* which a second has UnitsPerSecond (the code has nanoseconds).           *)
(***************************************************************************)
EXTENDS Integers

CONSTANTS
    GenesisSlots,           \* genesis slots to explore
    UnitsPerSecond,
    SlotDurationSeconds,
    SlotsPerEpochExponent,
    LeadTime, LastTime      \* bounds on the time before and after the genesis

ASSUME TimeAssumption ==
    /\ GenesisSlots \subseteq Nat
    /\ UnitsPerSecond \in Nat \ {0}
    /\ SlotDurationSeconds \in Nat \ {0}
    /\ SlotsPerEpochExponent \in Nat /\ 2 ^ SlotsPerEpochExponent \in Nat \ {0}
    /\ LeadTime \in Nat /\ LastTime \in Nat

VARIABLES
    genesisSlot,
    now

clockVars == <<genesisSlot, now>>

EpochDurationSlots == 2 ^ SlotsPerEpochExponent

-----------------------------------------------------------------------------
(* Whole seconds since the genesis, by slot. *)
SlotFromTime(t) ==
    IF t < 0 THEN genesisSlot
    ELSE genesisSlot + (t \div UnitsPerSecond) \div SlotDurationSeconds + 1

SlotStartTime(s) ==
    IF s <= genesisSlot THEN -1
    ELSE (s - genesisSlot - 1) * SlotDurationSeconds * UnitsPerSecond

(* Mutant: the end of a slot is the start of the next one. *)
SlotEndTimeInclusive(s) ==
    IF s <= genesisSlot THEN -1
    ELSE (s - genesisSlot) * SlotDurationSeconds * UnitsPerSecond

SlotEndTime(s) ==
    IF s <= genesisSlot THEN -1
    ELSE (s - genesisSlot) * SlotDurationSeconds * UnitsPerSecond - 1

EpochFromSlot(s) ==
    IF s <= genesisSlot THEN 0 ELSE (s - genesisSlot) \div EpochDurationSlots

EpochStart(e) == genesisSlot + e * EpochDurationSlots

EpochEnd(e) == genesisSlot + ((e + 1) * EpochDurationSlots - 1)

SlotsBeforeNextEpoch(s) ==
    IF s < genesisSlot THEN 0 ELSE genesisSlot + EpochStart(EpochFromSlot(s) + 1) - s

SlotsSinceEpochStart(s) ==
    IF s < genesisSlot THEN 0 ELSE genesisSlot + s - EpochStart(EpochFromSlot(s))

-----------------------------------------------------------------------------
slot == SlotFromTime(now)           \* CurrentSlot
epoch == EpochFromSlot(slot)        \* CurrentEpoch

ClockInit == genesisSlot \in GenesisSlots /\ now = -LeadTime

Tick ==
    /\ now < LastTime
    /\ now' = now + 1
    /\ UNCHANGED genesisSlot

ClockSpec == ClockInit /\ [][Tick]_clockVars

-----------------------------------------------------------------------------
(* A time lies between the start and the end of its slot, and the next     *)
(* slot begins right after the end: slots partition the time from the      *)
(* genesis on.                                                             *)
TimeIsInItsSlot ==
    now >= 0 =>
        /\ SlotStartTime(slot) <= now /\ now <= SlotEndTime(slot)
        /\ SlotFromTime(SlotEndTime(slot) + 1) = slot + 1
        /\ SlotStartTime(slot + 1) = SlotEndTime(slot) + 1

(* A slot lies between the start and the end of its epoch, and epochs      *)
(* follow each other without gap, for every genesis slot.                  *)
SlotIsInItsEpoch ==
    /\ EpochStart(epoch) <= slot /\ slot <= EpochEnd(epoch)
    /\ EpochFromSlot(EpochStart(epoch)) = epoch
    /\ EpochFromSlot(EpochEnd(epoch)) = epoch
    /\ EpochEnd(epoch) + 1 = EpochStart(epoch + 1)

(* Slots partition the time and epochs partition the slots, at every       *)
(* boundary and for every genesis slot.                                    *)
SlotsPartitionTime == TimeIsInItsSlot /\ SlotIsInItsEpoch

(* The doc of SlotsBeforeNextEpoch: it "calculates the slots before the    *)
(* start of the next epoch".                                               *)
CountsSlotsBeforeNextEpoch ==
    slot >= genesisSlot => slot + SlotsBeforeNextEpoch(slot) = EpochStart(epoch + 1)
=============================================================================
