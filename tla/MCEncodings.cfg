SPECIFICATION Spec
CONSTANTS
    MaxStringLength = 19
    HRPs <- MCHRPs
    IDs = {255}
    Capabilities <- MCCapabilities
    ForeignDigits <- MCForeignDigits
    Typed <- MCTyped
    MaxTypos = 2
    Values <- MCValues
    MaxValues = 6
INVARIANTS
    WrittenIsParsed
    TyposAreDetected
    TextsAreCanonical
    RootsAreBinding
CHECK_DEADLOCK FALSE
