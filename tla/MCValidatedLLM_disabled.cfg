CONSTANTS
    good = good
    bad = bad
    NoPayload = NoPayload
    Responses <- MCResponses
    Acceptable <- MCAcceptable
    Requested <- MCRequested
SPECIFICATION Spec
INVARIANT DisabledClientNotCalled
CHECK_DEADLOCK FALSE
