CONSTANTS
    c1 = c1
    c2 = c2
    c3 = c3
    Candidates <- MCCandidates
    Relevant <- MCRelevant
    OpKnown <- MCOpKnown
    Agenda <- MCAgenda
    Executions <- MCExecutions
    Replays <- MCReplays
    Judgments <- MCJudgments
SPECIFICATION Spec
INVARIANTS
    TypeOK
    OverprivilegeIsEvidenced
    ClearedIsEvidenced
    LedgersAligned
    AblationIsTriggered
    OnlyFailedAblationsLeak
PROPERTY
    EveryTaskExecuted
CHECK_DEADLOCK FALSE
