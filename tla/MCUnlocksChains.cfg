SPECIFICATION Spec
CONSTANTS
    k1 = k1
    k2 = k2
    Key <- MCKey
    Address <- MCAddress
    AddressType <- MCAddressType
    KeyOf <- MCKeyOf
    Members <- MCMembers
    Weight <- MCWeight
    Threshold <- MCThreshold
    Underlying <- MCUnderlying
    Output <- MCOutput
    Unlock <- MCUnlock
    CommitmentSlot = {1, 2, 3}
    MinCommittableAge = 1
    MaxCommittableAge = 2
    MaxInputs = 3
INVARIANTS
    ChainUnlocksEndInSignature
CHECK_DEADLOCK FALSE
