SPECIFICATION SessionSpec
CONSTANTS
    Version = {3, 4, 5, 6}
    GenesisVersion = 3
    StartEpoch <- MCStartEpoch
    SlotsPerEpoch = 2
    MaxSlot = 7
    Results = {0, 1, 2, 5}
    PageSize = 2
    MaxPages = {0, 1, 2, 9}
    MaxNext = 5
    MessageVersion <- MCMessageVersion
    MaxChannels = 2
    MaxContexts = 2
INVARIANTS
    ProviderIsConsistent
    ReadyClientNeverPanics
    QueriesAreComplete
PROPERTIES
    HandlersEnd
    ReadMessagesArrive
CHECK_DEADLOCK FALSE
