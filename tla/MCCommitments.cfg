SPECIFICATION Spec
CONSTANTS
    MinCommittableAge = 1
    MaxCommittableAge = 3
    GenesisSlot = 0
    MaxSlot = 13
    MaxSpends = 2
    SlotsPerEpochExponent = 1
    LastSlot = 13
    EpochNearingThreshold = 1
    StakingUnbondingPeriod = 1
    MaxSlotIndex = 16
    ExpirySlots = {6, 10, 14}
    StakedAmounts = {1, 2}
    LastEpoch = 7
INVARIANTS
    NothingTooEarly
    OwnerThenReturn
    DeadSlotsAreKnown
    RewardedForMeasured
    RewardedOnce
    RewardedAfterwards
PROPERTIES
    StakeIsBound
    IssuerIsAccountable
CHECK_DEADLOCK FALSE
