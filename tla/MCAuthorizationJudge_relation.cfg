CONSTANT
    Traces <- MCTraces
SPECIFICATION Spec
INVARIANT EffectFollowsOperation
CHECK_DEADLOCK FALSE
