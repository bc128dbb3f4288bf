CONSTANTS
    c1 = c1
    c2 = c2
    c3 = c3
    Candidates <- MCCandidates
    Relevant <- MCRelevant
    OpKnown <- MCOpKnown
    Agenda <- OneTask
    Executions <- AllExecutions
    Replays <- AllReplays
    Judgments <- MixedJudgments
SPECIFICATION Spec
INVARIANTS
    OverprivilegeIsEvidenced
    ClearedIsEvidenced
CHECK_DEADLOCK FALSE
