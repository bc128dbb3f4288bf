CONSTANT
    Traces <- MCTraces
SPECIFICATION Spec
INVARIANT DenialIsAnswerable
CHECK_DEADLOCK FALSE
