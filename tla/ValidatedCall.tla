---------------------------- MODULE ValidatedCall ----------------------------
(***************************************************************************)
(* What every LLM-assisted stage of SkillScope may assume of one validated  *)
(* call (common/llm/validation.py, validated_llm.py): it ends in one step,  *)
(* either with a response the stage's own validator accepts, or unresolved  *)
(* (no payload), or with an exception that leaves the stage.  Attempts,     *)
(* transport retries and prompt assets are invisible at this level.         *)
(***************************************************************************)
CONSTANTS
    Responses,   \* the JSON objects an endpoint may answer with
    Acceptable,  \* those for which the stage's validator reports no error
    NoPayload    \* Python's None

VARIABLES
    phase,       \* how far the call is
    payload      \* what it returned

vars == <<phase, payload>>

Phases == {"pending", "accepted", "unresolved", "raised"}

Init == phase = "pending" /\ payload = NoPayload

Accept == /\ phase = "pending"
          /\ payload' \in Acceptable
          /\ phase' = "accepted"

Fail == /\ phase = "pending"
        /\ phase' \in {"unresolved", "raised"}
        /\ UNCHANGED payload

Next == Accept \/ Fail

Spec == Init /\ [][Next]_vars /\ WF_vars(Next)
=============================================================================
