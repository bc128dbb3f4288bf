CONSTANTS
    RawSlots   <- MCRawSlots
    SlotValues <- MCSlotValues
    Canonical  <- MCCanonical
    Paddings   <- MCPaddings
    Bare = ""
    Texts      <- MCTexts
    ShortTexts <- MCShortTexts
    Privileges <- MCPrivileges
    Candidates <- MCCandidates
    Order      <- MCOrder
    Actions    <- MCActions
    Runs       <- MCRuns
    GuardAnswers <- MCGuardAnswers
    Inputs     <- Mixed
    MaxUnitsPerRun = 2
SPECIFICATION Spec
INVARIANT DocumentedProvenance
CHECK_DEADLOCK FALSE
