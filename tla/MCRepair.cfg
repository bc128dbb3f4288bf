CONSTANTS
    RawSlots   <- MCRawSlots
    SlotValues <- MCSlotValues
    Canonical  <- MCCanonical
    Paddings   <- MCPaddings
    Bare = ""
    Texts      <- MCTexts
    ShortTexts <- MCShortTexts
    Privileges <- MCPrivileges
    Candidates <- MCCandidates
    Order      <- MCOrder
    Actions    <- MCActions
    Runs       <- MCRuns
    GuardAnswers <- MCGuardAnswers
    Inputs     <- MCInputs
    MaxUnitsPerRun = 2
SPECIFICATION MCSpec
INVARIANTS
    TypeOK
    AllowedClusterIsClean
    
    BatchIsAtomic
    ProvenanceHolds
    OnlyGuardedTextChanges
    
    
    IncompleteNeverRepaired
    ErrorTellsFailure
    SummaryIsLast
CHECK_DEADLOCK FALSE
