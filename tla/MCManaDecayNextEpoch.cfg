SPECIFICATION ManaSpec
CONSTANTS
    GenesisSlots = {0, 1, 4}
    UnitsPerSecond = 3
    SlotDurationSeconds = 2
    SlotsPerEpochExponent = 2
    LeadTime = 2
    LastTime = 102
    HalfBits = 6
    GenerationRate = 1
    GenerationRateExponent = 4
    DecayFactors <- MCDecayFactors
    DecayFactorsExponent = 6
    DecayFactorEpochsSum = 53
    DecayFactorEpochsSumExponent = 5
    DecayNumerator = 5
    DecayDenominator = 8
    Amounts = {5, 63, 1023, 4095}
INVARIANT
    CountsSlotsBeforeNextEpoch
CHECK_DEADLOCK FALSE
