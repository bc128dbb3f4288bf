CONSTANT
    Traces <- MCTraces
SPECIFICATION Spec
INVARIANTS
    TypeOK
    DenialIsNotAuthorized
    CondemnedOnGroundedEvidence
    AggregateTellsInstances
PROPERTY
    JudgmentEnds
CHECK_DEADLOCK FALSE
