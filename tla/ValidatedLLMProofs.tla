-------------------------- MODULE ValidatedLLMProofs --------------------------
(* Theorems about one validated call, for every set of responses, every        *)
(* validator and every number of attempts a caller may ask for.                *)
EXTENDS ValidatedLLM, TLAPS

(* The attempts granted are between one and the maximum, for any request.      *)
LEMMA ClampRange ==
    ASSUME NEW n \in Int
    PROVE  /\ Clamp(n) \in 1..MAX_VALIDATED_LLM_ATTEMPTS
  BY DEF Clamp, MAX_VALIDATED_LLM_ATTEMPTS

LEMMA AttemptsRange ==
    ASSUME TypeOK
    PROVE  Attempts \in 1..MAX_VALIDATED_LLM_ATTEMPTS
  BY ClampRange, RequestedAssumption DEF TypeOK, Setups, Attempts

LEMMA InitIInv == Init => IInv
  <1> SUFFICES ASSUME Init PROVE IInv
    OBVIOUS
  <1> USE DEF Init, Pending, NoErrors, MAX_VALIDATED_LLM_ATTEMPTS, MAX_TRANSPORT_ATTEMPTS
  <1>1. TypeOK
    <2>1. result \in [payload: Responses \cup {NoPayload}, attempts: 0..5,
                      errors: [kind: {"none", "prompt", "contract", "exception"}, of: 0..5]]
      OBVIOUS
    <2> QED
      BY <2>1 DEF TypeOK
  <1>2. Attempts \in 1..5
    BY <1>1, AttemptsRange
  <1>3. CountersAgree /\ FeedbackIsFresh /\ UnresolvedOnlyWhenExhausted
    BY DEF CountersAgree, FeedbackIsFresh, UnresolvedOnlyWhenExhausted, Running
  <1>4. RequestsBounded
    BY <1>2 DEF RequestsBounded
  <1> QED
    BY <1>1, <1>3, <1>4 DEF IInv

(* Every step keeps the counters in agreement.                                 *)
LEMMA NextIInv == IInv /\ [Next]_vars => IInv'
  <1> SUFFICES ASSUME IInv, [Next]_vars PROVE IInv'
    OBVIOUS
  <1> USE NoPayloadAssumption, AcceptableAssumption
  <1> USE DEF MAX_VALIDATED_LLM_ATTEMPTS, MAX_TRANSPORT_ATTEMPTS
  <1>a. Attempts \in 1..5
    BY AttemptsRange DEF IInv
  <1>b. setup' = setup /\ Attempts' = Attempts /\ (SeenAsDisabled' <=> SeenAsDisabled)
    BY DEF Next, vars, PromptUnavailable, RefuseDisabled, BeginAttempts, CallDisabled,
           CallEndpoint, TransportError, UnusableReply, Reply, Sending, LogWriteFails,
           EndpointFailed, Returned, AcceptResponse, RejectResponse, Attempts, SeenAsDisabled
  <1> DEFINE Parts == /\ TypeOK' /\ CountersAgree' /\ RequestsBounded'
                      /\ FeedbackIsFresh' /\ UnresolvedOnlyWhenExhausted'
  <1> SUFFICES Parts
    BY DEF IInv
  <1> USE DEF IInv, TypeOK, CountersAgree, RequestsBounded, FeedbackIsFresh,
              UnresolvedOnlyWhenExhausted, Pending, NoErrors, Running
  <1>1. CASE PromptUnavailable
    BY <1>1, <1>a, <1>b DEF PromptUnavailable
  <1>2. CASE RefuseDisabled
    BY <1>2, <1>a, <1>b DEF RefuseDisabled
  <1>3. CASE BeginAttempts
    BY <1>3, <1>a, <1>b DEF BeginAttempts
  <1>4. CASE CallDisabled
    BY <1>4, <1>a, <1>b DEF CallDisabled, NextAttempt, Exhausted
  <1>5. CASE CallEndpoint
    BY <1>5, <1>a, <1>b DEF CallEndpoint
  <1>6. CASE TransportError
    BY <1>6, <1>a, <1>b DEF TransportError, Sending
  <1>7. CASE UnusableReply
    BY <1>7, <1>a, <1>b DEF UnusableReply, Sending
  <1>8. ASSUME NEW r \in Responses, Reply(r) PROVE Parts
    BY <1>8, <1>a, <1>b DEF Reply, Sending
  <1>9. CASE LogWriteFails
    BY <1>9, <1>a, <1>b DEF LogWriteFails
  <1>10. CASE EndpointFailed
    BY <1>10, <1>a, <1>b DEF EndpointFailed, NextAttempt, Exhausted
  <1>11. CASE Returned
    BY <1>11, <1>a, <1>b DEF Returned
  <1>12. CASE AcceptResponse
    BY <1>12, <1>a, <1>b DEF AcceptResponse
  <1>13. CASE RejectResponse
    BY <1>13, <1>a, <1>b DEF RejectResponse, NextAttempt, Exhausted
  <1>14. CASE UNCHANGED vars
    BY <1>14, <1>a, <1>b DEF vars
  <1> QED
    BY <1>1, <1>2, <1>3, <1>4, <1>5, <1>6, <1>7, <1>8, <1>9, <1>10, <1>11, <1>12,
       <1>13, <1>14 DEF Next

THEOREM SpecIInv == Spec => []IInv
  BY InitIInv, NextIInv, PTL DEF Spec

(* Every variable keeps its type.                                              *)
THEOREM TypeCorrect == Spec => []TypeOK
  <1>1. IInv => TypeOK
    BY DEF IInv
  <1> QED
    BY <1>1, SpecIInv, PTL

(* No mixture of failures makes a call exceed the attempts it was granted or    *)
(* an attempt exceed three requests.                                           *)
THEOREM RequestBound == Spec => []RequestsBounded
  <1>1. IInv => RequestsBounded
    BY DEF IInv
  <1> QED
    BY <1>1, SpecIInv, PTL

(* The feedback of a retry is about the attempt before it.                      *)
THEOREM FreshFeedback == Spec => []FeedbackIsFresh
  <1>1. IInv => FeedbackIsFresh
    BY DEF IInv
  <1> QED
    BY <1>1, SpecIInv, PTL

(* A call that had its prompt is unresolved only after every granted attempt.   *)
THEOREM ExhaustionOnly == Spec => []UnresolvedOnlyWhenExhausted
  <1>1. IInv => UnresolvedOnlyWhenExhausted
    BY DEF IInv
  <1> QED
    BY <1>1, SpecIInv, PTL

(* The call implements the safety part of ValidatedCall: it ends in one visible *)
(* step, and the only payloads it returns are acceptable ones.                  *)
THEOREM Refinement == Spec => Abstract!Init /\ [][Abstract!Next]_Abstract!vars
  <1>1. Init => Abstract!Init
    BY DEF Init, Abstract!Init, Phase, Pending
  <1>2. IInv /\ [Next]_vars => [Abstract!Next]_Abstract!vars
    <2> SUFFICES ASSUME IInv, [Next]_vars PROVE [Abstract!Next]_Abstract!vars
      OBVIOUS
    <2> USE NoPayloadAssumption, AcceptableAssumption
    <2> USE DEF IInv, CountersAgree, Running, Phase, Pending, NoErrors,
                Abstract!Next, Abstract!Accept, Abstract!Fail, Abstract!vars
    <2>1. CASE PromptUnavailable
      BY <2>1 DEF PromptUnavailable
    <2>2. CASE RefuseDisabled \/ LogWriteFails
      BY <2>2 DEF RefuseDisabled, LogWriteFails
    <2>3. CASE BeginAttempts \/ CallEndpoint \/ Returned
      BY <2>3 DEF BeginAttempts, CallEndpoint, Returned
    <2>4. CASE TransportError \/ UnusableReply \/ \E r \in Responses : Reply(r)
      BY <2>4 DEF TransportError, UnusableReply, Reply, Sending
    <2>5. CASE CallDisabled
      BY <2>5 DEF CallDisabled, NextAttempt, Exhausted
    <2>6. CASE EndpointFailed
      BY <2>6 DEF EndpointFailed, NextAttempt, Exhausted
    <2>7. CASE RejectResponse
      BY <2>7 DEF RejectResponse, NextAttempt, Exhausted
    <2>8. CASE AcceptResponse
      BY <2>8 DEF AcceptResponse
    <2>9. CASE UNCHANGED vars
      BY <2>9 DEF vars
    <2> QED
      BY <2>1, <2>2, <2>3, <2>4, <2>5, <2>6, <2>7, <2>8, <2>9 DEF Next
  <1> QED
    BY <1>1, <1>2, SpecIInv, PTL DEF Spec
===============================================================================
