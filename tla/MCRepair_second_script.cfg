CONSTANTS
    RawSlots   <- MCRawSlots
    SlotValues <- MCSlotValues
    Canonical  <- MCCanonical
    Paddings   <- MCPaddings
    Bare = ""
    Texts      <- MCTexts
    ShortTexts <- MCShortTexts
    Privileges <- MCPrivileges
    Candidates <- MCCandidates
    Order      <- MCOrder
    Actions    <- MCActions
    Runs       <- MCRuns
    GuardAnswers <- MCGuardAnswers
    Inputs     <- TwoScripts
    MaxUnitsPerRun = 2
SPECIFICATION Spec
INVARIANT DocumentedMetric
CHECK_DEADLOCK FALSE
