SPECIFICATION Spec
CONSTANTS
    AddressType <- MCAddressType
    Receives <- MCReceives
    Underlying <- MCUnderlying
    TokenSupply = 12
    MaxManaValue = 3
    MaxMetadata = {"too long"}
    ScoreParams <- MCScore
    IndexLimit = 3
    Previous <- MCPrevious
    Owners = {"E2"}
    Values = {"b"}
    Amount = {2}
    Slot = {1}
    Keys = {2, 4}
    KeySlices <- MCKeySlices
    MaxBlockIssuerKeysCount = 3
    MaxCalls = 3
    Candidates <- MCCandidates
    Genesis <- MCGenesis
    ChainID <- MCChainID
    MaxTransactions <- MCMaxTransactions
    MaxConsumed = 2
    Accounts = {a1}
    Serials = {1, 2}
    MaximumSupplies = {1, 2}
    MaxTokens = 2
    CapabilitySets = {{}, {"BurnNativeTokens", "DestroyAccountOutputs", "DestroyFoundryOutputs"}}
INVARIANTS
    FoundriesTypeOK
    BornOnce
    SupplyIsConserved
    NoOrphanedTokens
    BuiltIsValid
    ImmutableSinceGenesis
PROPERTIES
    PowersAreSeparate
    DepositsAreSafe
CHECK_DEADLOCK FALSE
