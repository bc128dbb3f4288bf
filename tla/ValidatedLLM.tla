----------------------------- MODULE ValidatedLLM -----------------------------
(***************************************************************************)
(* One validated LLM call: ValidatedLLMCaller.complete (validated_llm.py)   *)
(* or a direct use of complete_validated_json (common/llm/validation.py),   *)
(* over the HTTP client of common/llm/client.py with its transport retries  *)
(* and its debug log.  The endpoint and the network are the environment.    *)
(***************************************************************************)
EXTENDS Integers

CONSTANTS
    Responses,   \* the JSON objects the endpoint may answer with
    Acceptable,  \* those for which the stage's validator reports no error
    Requested,   \* the values callers pass for max_attempts
    NoPayload    \* Python's None

ASSUME AcceptableAssumption == Acceptable \subseteq Responses
ASSUME RequestedAssumption  == Requested \subseteq Int
ASSUME NoPayloadAssumption  == NoPayload \notin Responses

MAX_VALIDATED_LLM_ATTEMPTS == 5
MAX_TRANSPORT_ATTEMPTS     == 3

(* Slips the properties below are tested against are named "...Slip" and    *)
(* stand just before the definition each of them would break.               *)

(* Slip: the upper bound is forgotten for callers that inject a larger value. *)
UnboundedSlip(n) == IF n < 1 THEN 1 ELSE n

(* attempts = min(MAX_VALIDATED_LLM_ATTEMPTS, max(1, max_attempts)) *)
Clamp(n) == IF n < 1 THEN 1
            ELSE IF n > MAX_VALIDATED_LLM_ATTEMPTS THEN MAX_VALIDATED_LLM_ATTEMPTS
            ELSE n

(* How this call was configured; never changes while it runs.  A wrapped    *)
(* call goes through ValidatedLLMCaller, which hides the client behind      *)
(* _CountingLLMClient and turns failures into a result without a payload.   *)
Setups == [client: {"configured", "disabled"}, wrapped: BOOLEAN, debug: BOOLEAN,
           prompt: {"no_loader", "unreadable", "loaded"}, requested: Requested]

VARIABLES
    setup,     \* the configuration, chosen by Init
    pc,        \* where the call is
    attempt,   \* the validator loop's counter
    calls,     \* complete_json calls made: _CountingLLMClient.call_count
    sent,      \* HTTP requests of the current complete_json call
    requests,  \* HTTP requests of the whole call
    answer,    \* what the current complete_json call obtained
    feedback,  \* validation_errors: which attempt they describe (0: empty)
    latest,    \* latest_errors: which attempt they describe (0: empty)
    result     \* ValidatedLLMResult, or the exception's absence of one

vars == <<setup, pc, attempt, calls, sent, requests, answer, feedback, latest, result>>

Attempts == Clamp(setup.requested)

NoErrors == [kind |-> "none", of |-> 0]

Pending == [payload |-> NoPayload, attempts |-> 0, errors |-> NoErrors]

TypeOK ==
    /\ setup \in Setups
    /\ pc \in {"enter", "call", "request", "finish", "validate", "done", "raised", "escaped"}
    /\ attempt \in 0..MAX_VALIDATED_LLM_ATTEMPTS
    /\ calls \in 0..MAX_VALIDATED_LLM_ATTEMPTS
    /\ sent \in 0..MAX_TRANSPORT_ATTEMPTS
    /\ requests \in 0..(MAX_VALIDATED_LLM_ATTEMPTS * MAX_TRANSPORT_ATTEMPTS)
    /\ answer \in Responses \cup {NoPayload}
    /\ feedback \in [kind: {"none", "endpoint", "contract"}, of: 0..MAX_VALIDATED_LLM_ATTEMPTS]
    /\ latest \in 0..MAX_VALIDATED_LLM_ATTEMPTS
    /\ result \in [payload: Responses \cup {NoPayload},
                   attempts: 0..MAX_VALIDATED_LLM_ATTEMPTS,
                   errors: [kind: {"none", "prompt", "contract", "exception"},
                            of: 0..MAX_VALIDATED_LLM_ATTEMPTS]]

Init ==
    /\ setup \in Setups
    /\ pc = "enter"
    /\ attempt = 0 /\ calls = 0 /\ sent = 0 /\ requests = 0
    /\ answer = NoPayload
    /\ feedback = NoErrors
    /\ latest = 0
    /\ result = Pending

-------------------------------------------------------------------------------
(* Entering the call *)

(* Without a readable prompt asset the caller returns before any attempt. *)
PromptUnavailable ==
    /\ pc = "enter"
    /\ setup.wrapped /\ setup.prompt # "loaded"
    /\ pc' = "done"
    /\ result' = [Pending EXCEPT !.errors = [kind |-> "prompt", of |-> 0]]
    /\ UNCHANGED <<setup, attempt, calls, sent, requests, answer, feedback, latest>>

(* isinstance(client, DisabledLLMClient) sees the client itself only when no *)
(* _CountingLLMClient stands in front of it.                                 *)
SeenAsDisabled == setup.client = "disabled" /\ ~setup.wrapped

RefuseDisabled ==
    /\ pc = "enter"
    /\ SeenAsDisabled
    /\ pc' = "raised"
    /\ UNCHANGED <<setup, attempt, calls, sent, requests, answer, feedback, latest, result>>

BeginAttempts ==
    /\ pc = "enter"
    /\ ~(setup.wrapped /\ setup.prompt # "loaded")
    /\ ~SeenAsDisabled
    /\ pc' = "call"
    /\ attempt' = 1
    /\ UNCHANGED <<setup, calls, sent, requests, answer, feedback, latest, result>>

-------------------------------------------------------------------------------
(* The end of an attempt that yielded no acceptable response: another        *)
(* attempt, or the end of the loop.  Without the wrapper the loop ends with  *)
(* a RuntimeError ("raised") for the stage to catch; the wrapper catches it  *)
(* and reports latest_errors when they are not empty, whatever ended the     *)
(* last attempt.                                                             *)

Exhausted(rejected, made) ==
    IF setup.wrapped
    THEN /\ pc' = "done"
         /\ result' = [payload |-> NoPayload, attempts |-> made,
                       errors |-> IF rejected # 0
                                  THEN [kind |-> "contract", of |-> rejected]
                                  ELSE [kind |-> "exception", of |-> 0]]
    ELSE /\ pc' = "raised"
         /\ UNCHANGED result

(* Slip: the loop ends one attempt early. *)
EarlySlip(rejected, made) ==
    IF attempt + 1 >= Attempts
    THEN Exhausted(rejected, made) /\ UNCHANGED attempt
    ELSE pc' = "call" /\ attempt' = attempt + 1 /\ UNCHANGED result

NextAttempt(rejected, made) ==
    IF attempt = Attempts
    THEN Exhausted(rejected, made) /\ UNCHANGED attempt
    ELSE pc' = "call" /\ attempt' = attempt + 1 /\ UNCHANGED result

-------------------------------------------------------------------------------
(* client.complete_json *)

CallDisabled ==
    /\ pc = "call"
    /\ setup.client = "disabled"
    /\ calls' = calls + 1
    /\ feedback' = [kind |-> "endpoint", of |-> attempt]
    /\ NextAttempt(latest, calls + 1)
    /\ UNCHANGED <<setup, sent, requests, answer, latest>>

CallEndpoint ==
    /\ pc = "call"
    /\ setup.client = "configured"
    /\ calls' = calls + 1
    /\ sent' = 0
    /\ answer' = NoPayload
    /\ pc' = "request"
    /\ UNCHANGED <<setup, attempt, requests, feedback, latest, result>>

Sending == /\ pc = "request"
           /\ sent' = sent + 1
           /\ requests' = requests + 1
           /\ UNCHANGED <<setup, attempt, calls, feedback, latest, result>>

(* Slip: the retry bound is tested after one request too many. *)
ResendSlip ==
    /\ Sending
    /\ pc' = IF sent < MAX_TRANSPORT_ATTEMPTS THEN "request" ELSE "finish"
    /\ UNCHANGED answer

(* A connection-level error is retried, up to MAX_TRANSPORT_ATTEMPTS. *)
TransportError ==
    /\ Sending
    /\ pc' = IF sent + 1 < MAX_TRANSPORT_ATTEMPTS THEN "request" ELSE "finish"
    /\ UNCHANGED answer

(* An HTTP status, a body that is not a JSON object, or content without one *)
(* is not retried inside the same complete_json call.                       *)
UnusableReply ==
    /\ Sending
    /\ pc' = "finish"
    /\ UNCHANGED answer

Reply(r) ==
    /\ Sending
    /\ answer' = r
    /\ pc' = "finish"

(* The debug log is written before the request and after it, outside the    *)
(* try block: an OSError there is no RuntimeError and leaves every loop.     *)
LogWriteFails ==
    /\ \/ pc = "request" /\ sent = 0
       \/ pc = "finish"
    /\ setup.debug
    /\ pc' = "escaped"
    /\ UNCHANGED <<setup, attempt, calls, sent, requests, answer, feedback, latest, result>>

(* Slip: an endpoint error is retried without replacing the feedback. *)
KeepFeedbackSlip ==
    /\ pc = "finish"
    /\ answer = NoPayload
    /\ NextAttempt(latest, calls)
    /\ UNCHANGED <<setup, calls, sent, requests, answer, feedback, latest>>

EndpointFailed ==
    /\ pc = "finish"
    /\ answer = NoPayload
    /\ feedback' = [kind |-> "endpoint", of |-> attempt]
    /\ NextAttempt(latest, calls)
    /\ UNCHANGED <<setup, calls, sent, requests, answer, latest>>

Returned ==
    /\ pc = "finish"
    /\ answer # NoPayload
    /\ pc' = "validate"
    /\ UNCHANGED <<setup, attempt, calls, sent, requests, answer, feedback, latest, result>>

-------------------------------------------------------------------------------
(* contract.validate, whose only check in a wrapped call is the stage's own *)
(* validator (consistency_check records its errors in latest_errors)        *)

AcceptResponse ==
    /\ pc = "validate"
    /\ answer \in Acceptable
    /\ pc' = "done"
    /\ latest' = 0
    /\ feedback' = NoErrors
    /\ result' = [payload |-> answer, attempts |-> calls, errors |-> NoErrors]
    /\ UNCHANGED <<setup, attempt, calls, sent, requests, answer>>

(* Slip: the last response is returned although it was rejected. *)
ReturnLastSlip ==
    /\ pc = "validate"
    /\ answer \notin Acceptable
    /\ IF attempt = Attempts
       THEN /\ pc' = "done"
            /\ result' = [payload |-> answer, attempts |-> calls, errors |-> NoErrors]
            /\ UNCHANGED <<attempt, feedback, latest>>
       ELSE /\ feedback' = [kind |-> "contract", of |-> attempt]
            /\ latest' = attempt
            /\ NextAttempt(attempt, calls)
    /\ UNCHANGED <<setup, calls, sent, requests, answer>>

(* Slip: the rejected response is validated again instead of asked for anew. *)
RevalidateSlip ==
    /\ pc = "validate"
    /\ answer \notin Acceptable
    /\ pc' = "finish"
    /\ UNCHANGED <<setup, attempt, calls, sent, requests, answer, feedback, latest, result>>

RejectResponse ==
    /\ pc = "validate"
    /\ answer \notin Acceptable
    /\ feedback' = [kind |-> "contract", of |-> attempt]
    /\ latest' = attempt
    /\ NextAttempt(attempt, calls)
    /\ UNCHANGED <<setup, calls, sent, requests, answer>>

Next ==
    \/ PromptUnavailable \/ RefuseDisabled \/ BeginAttempts
    \/ CallDisabled \/ CallEndpoint
    \/ TransportError \/ UnusableReply \/ (\E r \in Responses : Reply(r))
    \/ LogWriteFails \/ EndpointFailed \/ Returned
    \/ AcceptResponse \/ RejectResponse

(* The call runs in one thread to its end: every request has a timeout, so   *)
(* a step that can be taken is eventually taken.                             *)
Spec == Init /\ [][Next]_vars /\ WF_vars(Next)

-------------------------------------------------------------------------------
(* Properties *)

Running == pc \in {"call", "request", "finish", "validate"}

(* A call makes at most the clamped number of attempts and each attempt at    *)
(* most MAX_TRANSPORT_ATTEMPTS requests, whatever mixture of connection       *)
(* errors, refusals and rejected responses it meets (validation.py 76-78,     *)
(* client.py 119-150).                                                        *)
RequestsBounded ==
    /\ calls <= Attempts
    /\ requests <= MAX_TRANSPORT_ATTEMPTS * calls

(* The feedback appended to a retry describes the attempt just before it, and *)
(* only that one: a contract error if that attempt's response was rejected,   *)
(* an endpoint error otherwise (validation.py 90-114).                        *)
FeedbackIsFresh ==
    Running => /\ feedback.of = attempt - 1
               /\ attempt > 1 => (feedback.kind = "contract" <=> latest = attempt - 1)

(* A configured call that had its prompt gives up only after every attempt it *)
(* was granted; an early unresolved result would be counted as evidence of an *)
(* unreachable judge.                                                         *)
UnresolvedOnlyWhenExhausted ==
    \/ pc = "done" /\ result.payload = NoPayload /\ setup.prompt = "loaded"
    \/ pc = "raised" /\ ~SeenAsDisabled
    => calls = Attempts

(* Every call ends: with a payload, unresolved, or with an exception.         *)
Termination == <>(pc \in {"done", "raised", "escaped"})

(* The inductive strengthening behind the three invariants above: where the    *)
(* counters stand at each point of the call.                                  *)
CountersAgree ==
    /\ pc = "enter" => /\ attempt = 0 /\ calls = 0 /\ requests = 0 /\ latest = 0
                       /\ feedback = NoErrors
    /\ Running => /\ attempt \in 1..Attempts
                  /\ latest \in 0..attempt - 1
                  /\ result = Pending
    /\ pc = "call" => calls = attempt - 1
    /\ Running /\ pc # "call" => calls = attempt
    /\ pc = "request" => /\ sent < MAX_TRANSPORT_ATTEMPTS
                         /\ requests <= MAX_TRANSPORT_ATTEMPTS * (attempt - 1) + sent
    /\ pc \in {"enter", "raised", "escaped"} => result = Pending

IInv == /\ TypeOK /\ CountersAgree
        /\ RequestsBounded /\ FeedbackIsFresh /\ UnresolvedOnlyWhenExhausted

(* A call is one step of ValidatedCall: only acceptable payloads come back.   *)
Phase == CASE pc = "done" /\ result.payload # NoPayload -> "accepted"
           [] pc = "done" /\ result.payload = NoPayload -> "unresolved"
           [] pc = "raised"  -> "unresolved"
           [] pc = "escaped" -> "raised"
           [] OTHER -> "pending"

Abstract == INSTANCE ValidatedCall WITH phase <- Phase, payload <- result.payload

ImplementsValidatedCall == Abstract!Spec

(* validation.py 80-82: a disabled client is a deliberate configuration       *)
(* state, for which no disabled calls are issued.                             *)
DisabledClientNotCalled == setup.client = "disabled" => calls = 0
===============================================================================
