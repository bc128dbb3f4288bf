CONSTANTS
    good = good
    bad = bad
    NoPayload = NoPayload
    Responses <- MCResponses
    Acceptable <- MCAcceptable
    Requested <- MCRequested
SPECIFICATION Spec
INVARIANTS
    TypeOK
    RequestsBounded
    FeedbackIsFresh
    UnresolvedOnlyWhenExhausted
PROPERTIES
    Termination
    ImplementsValidatedCall
CHECK_DEADLOCK FALSE
