SPECIFICATION CompositeSpec
CONSTANTS
    ManaLimit = 1000
    MaxCommittableAge = 2
    MinCommittableAge = 1
    AddressType <- MCAddressType
    KeyOf <- MCKeyOf
    Underlying <- MCUnderlying
    Members <- MCMembers
    Weight <- MCWeight
    Threshold <- MCThreshold
    Key = {"k1", "k2"}
    Work <- MCWork
    Wallet <- MCWallet
    MaxInputs = 3
    MaxOutputs = 2
    Parents <- MCParents
    BlockSlot = {1, 2, 3, 4, 5}
    MaxSetters = 4
INVARIANTS
    DistributedManaIsValid
    IssuerCanPay
    BuiltUnlocksAccepted
    BlockIsSigned
    ManaLockOutlivesBlock
CHECK_DEADLOCK FALSE
