-------------------------- MODULE AuthorizationJudge --------------------------
(***************************************************************************)
(* AuthorizationJudge.judge (module2_action_overprivilege_validation): one  *)
(* judgment for every material event a candidate realized, under the        *)
(* response contract the judge builds for that event, then their aggregate. *)
(* A response is what its validator looks at: a value for each component    *)
(* and a label; its evidence references are left out.                       *)
(***************************************************************************)
EXTENDS Verdicts

(* Operations, told apart by what the judge derives from them: exec_command;  *)
(* its aliases, which need a parameter too but have no side effect of their   *)
(* own; writes, deletions and transmissions; operations with an effect that   *)
(* is not their own (collecting sensitive data, writing to a URL); and reads. *)
Kinds == {"command", "alias", "effect", "foreign", "read"}

(* The action tuple of a realized event: which of its fields are grounded by *)
(* the runtime or the source, and whether the prompt explicitly prohibits it *)
(* (_explicit_component_denials denies operation and side effect together).  *)
Actions ==
    {a \in [kind: Kinds, object: BOOLEAN, source: BOOLEAN, destination: BOOLEAN,
            denied: BOOLEAN] :
        /\ a.denied => a.kind \in {"command", "effect", "foreign"}
        /\ a.kind # "effect" => a.destination}

CONSTANTS
    Traces       \* the action tuples a candidate may realize, in trace order

ASSUME TracesAssumption == Traces \subseteq Seq(Actions)

VARIABLES
    setup,       \* whether a realized trace is judged, and with which judge
    trace,       \* the tuples to judge
    instances,   \* the judgments made so far
    resolved,    \* for each of them, whether it came from a judge's answer
    outcome      \* the authorization label returned

vars == <<setup, trace, instances, resolved, outcome>>

Dynamic    == setup.mode = "dynamic"
Configured == setup.llm = "configured"

(* Without an original record the static tuple is judged; the runtime traces   *)
(* commands under their canonical name only.                                   *)
Init ==
    /\ setup \in [mode: {"dynamic", "static"}, llm: {"configured", "disabled"}]
    /\ trace \in Traces
    /\ IF setup.mode = "static" THEN Len(trace) = 1
       ELSE \A i \in DOMAIN trace : trace[i].kind # "alias"
    /\ instances = <<>>
    /\ resolved = <<>>
    /\ outcome = "none"

-------------------------------------------------------------------------------
(* The contract of one request (_build_payload) *)

NeedsObject(a) == a.kind \in {"command", "alias"}
Intrinsic(a)   == a.kind \in {"command", "effect"}

(* _component_support: the operation is the event itself, its side effect     *)
(* follows from it; static mode supports every component as a prediction.     *)
Available(a, c) ==
    \/ ~Dynamic
    \/ CASE c = "source"      -> a.source
         [] c = "destination" -> a.destination
         [] OTHER             -> TRUE

Denied(a, c) == a.denied /\ c \in {"operation", "side_effect"}

(* _component_relations: the effect is the permission of the operation itself. *)
SamePermission(a) == Dynamic /\ Intrinsic(a) /\ a.object

(* Slip: explicit prohibitions of the prompt are left to the model. *)
LenientSlip(a, r) ==
    /\ \A c \in Components : ~Available(a, c) => r.components[c] = "null"
    /\ NeedsObject(a) /\ ~a.object => r.components["operation"] = "null"
    /\ SamePermission(a) => r.components["side_effect"] = r.components["operation"]
    /\ r.label = FromComponents(r.components)

(* _validate_llm_response reports no error *)
Accepts(a, r) ==
    /\ \A c \in Components :
          IF ~Available(a, c) THEN r.components[c] = "null"
          ELSE Denied(a, c) => r.components[c] = "false"
    /\ NeedsObject(a) /\ ~a.object => r.components["operation"] = "null"
    /\ SamePermission(a) => r.components["side_effect"] = r.components["operation"]
    /\ r.label = FromComponents(r.components)

Responses == [components: Judgment, label: AuthorizationLabels]

-------------------------------------------------------------------------------
(* The deterministic fallback.  What the prompt's words say of a component is  *)
(* any of the values its _authorize_ function can return.                      *)

(* Whether the prompt names the verb of the operation.  The own effect of an   *)
(* operation is looked up with the same verbs; a command that is not named is  *)
(* undecided rather than refused.                                             *)
Worded(a, j) ==
    /\ a.kind = "command" => /\ j["side_effect"] \in {"true", "null"}
                             /\ j["operation"] = "true" => j["side_effect"] = "true"
    /\ a.kind = "effect"  => /\ j["operation"] \in {"true", "false"}
                             /\ j["side_effect"] = j["operation"]
    /\ a.kind = "foreign" => j["side_effect"] \in {"true", "false"}
    /\ a.kind \in {"alias", "read"} => j["side_effect"] = "true"
    /\ NeedsObject(a) => j["operation"] \in IF a.object THEN {"true", "null"} ELSE {"null"}

(* Slip: the words of the prompt are not overridden by its prohibitions. *)
WordsOnlySlip(a) ==
    {j \in Judgment : /\ Worded(a, j)
                      /\ \A c \in Components : ~Available(a, c) => j[c] = "null"}

(* _judge_with_fallback *)
Fallback(a) ==
    {[c \in Components |-> IF Denied(a, c) THEN "false"
                           ELSE IF Available(a, c) THEN j[c] ELSE "null"] :
        j \in {k \in Judgment : Worded(a, k)}}

-------------------------------------------------------------------------------
(* judge *)

Current == trace[Len(instances) + 1]
Judging == outcome = "none" /\ Len(instances) < Len(trace)

Record(judgment, answered) ==
    /\ instances' = Append(instances, judgment)
    /\ resolved' = Append(resolved, answered)
    /\ UNCHANGED <<setup, trace, outcome>>

(* Slips: a candidate without a recovered event is never judged, or again and *)
(* again.                                                                      *)
SkipMissingSlip ==
    /\ outcome = "none" /\ trace = <<>> /\ instances = <<>>
    /\ UNCHANGED vars

RepeatMissingSlip ==
    /\ outcome = "none" /\ trace = <<>> /\ Len(instances) < 2
    /\ Record(Unjudged, FALSE)

(* _missing_realized_action_decision: no material event was recovered. *)
JudgeMissing ==
    /\ outcome = "none" /\ trace = <<>> /\ instances = <<>>
    /\ Record(Unjudged, FALSE)

(* The validated call returned a response: _decision_from_llm. *)
JudgeAccepted ==
    /\ Judging /\ Configured
    /\ \E r \in Responses : Accepts(Current, r) /\ Record(r.components, TRUE)

(* Slip: the deterministic estimates of an unresolved call become its judgment. *)
DiagnosticSlip ==
    /\ Judging /\ Configured
    /\ \E j \in Fallback(Current) : Record(j, FALSE)

(* It did not: _llm_failure_decision, whose estimates are diagnostic only. *)
JudgeUnresolved ==
    /\ Judging /\ Configured
    /\ Record(Unjudged, FALSE)

JudgeFallback ==
    /\ Judging /\ ~Configured
    /\ \E j \in Fallback(Current) : Record(j, TRUE)

(* A failed write of the LLM debug log leaves the judge. *)
JudgeRaises ==
    /\ Judging /\ Configured
    /\ outcome' = "raised"
    /\ UNCHANGED <<setup, trace, instances, resolved>>

(* Slip: the events after the first one are not judged. *)
FirstEventSlip ==
    /\ outcome = "none" /\ instances # <<>>
    /\ outcome' = IF Dynamic THEN FromComponents(Aggregate(instances)) ELSE "inconclusive"
    /\ UNCHANGED <<setup, trace, instances, resolved>>

(* _aggregate_instance_decisions, when every event is judged; a static         *)
(* prediction stays inconclusive.                                              *)
Conclude ==
    /\ outcome = "none" /\ instances # <<>> /\ Len(instances) >= Len(trace)
    /\ outcome' = IF Dynamic THEN FromComponents(Aggregate(instances)) ELSE "inconclusive"
    /\ UNCHANGED <<setup, trace, instances, resolved>>

Next ==
    \/ JudgeMissing \/ JudgeAccepted \/ JudgeUnresolved \/ JudgeFallback \/ JudgeRaises
    \/ Conclude

(* A sequential loop whose calls end (ValidatedLLM's Termination). *)
Spec == Init /\ [][Next]_vars /\ WF_vars(Next)

-------------------------------------------------------------------------------
(* Properties *)

TypeOK ==
    /\ setup \in [mode: {"dynamic", "static"}, llm: {"configured", "disabled"}]
    /\ trace \in Seq(Actions)
    /\ instances \in Seq(Judgment)
    /\ resolved \in Seq(BOOLEAN)
    /\ Len(resolved) = Len(instances)
    /\ Len(instances) <= IF trace = <<>> THEN 1 ELSE Len(trace)
    /\ outcome \in AuthorizationLabels \cup {"none", "raised"}

Returned == outcome \in AuthorizationLabels

(* An event the prompt explicitly prohibits keeps the candidate from being     *)
(* authorized, whichever other events it realized and however their calls      *)
(* ended; without an LLM it makes the candidate unauthorized                   *)
(* (authorization_judge.py 694-696, 952-956, 240-314).                         *)
DenialIsNotAuthorized ==
    (\E i \in DOMAIN trace : trace[i].denied) /\ Returned =>
        /\ outcome # "authorized"
        /\ Dynamic /\ ~Configured => outcome = "unauthorized"

(* A candidate is condemned only by a component of one of its realized events   *)
(* that the runtime or the source grounds, in a judgment that was answered: no  *)
(* unresolved call and no unobserved field does it (513-592, 682-693, 811-881). *)
CondemnedOnGroundedEvidence ==
    outcome = "unauthorized" =>
        /\ Dynamic
        /\ \E i \in DOMAIN instances, c \in Components :
              /\ i \in DOMAIN trace
              /\ instances[i][c] = "false" /\ resolved[i] /\ Available(trace[i], c)
              /\ c = "operation" /\ NeedsObject(trace[i]) =>
                    trace[i].object \/ (trace[i].denied /\ ~Configured)

(* The aggregate neither hides an event nor invents one: it is unauthorized    *)
(* exactly when some event is, authorized exactly when all are (248-254), and  *)
(* there is a judgment for every event.                                        *)
AggregateTellsInstances ==
    Returned /\ Dynamic =>
        /\ trace # <<>> => Len(instances) = Len(trace)
        /\ outcome = "unauthorized" <=>
              \E i \in DOMAIN instances : FromComponents(instances[i]) = "unauthorized"
        /\ outcome = "authorized" <=>
              \A i \in DOMAIN instances : FromComponents(instances[i]) = "authorized"

(* Every judgment ends with a label, or with the debug log's exception.        *)
JudgmentEnds == <>(outcome # "none")

(* "A supported component with an explicit denial must be false" (50-51): the  *)
(* contract of a denied event can be met by a response that says so.           *)
DenialIsAnswerable ==
    Judging /\ Configured /\ Current.denied /\ Available(Current, "operation") =>
        \E r \in Responses : Accepts(Current, r) /\ r.components["operation"] = "false"

(* "Missing or denied operation authority remains missing or denied for its    *)
(* intrinsic effect" (437-439), in every judgment of the event.                *)
EffectFollowsOperation ==
    \A i \in DOMAIN instances :
        i \in DOMAIN trace /\ SamePermission(trace[i]) =>
            instances[i]["side_effect"] = instances[i]["operation"]
-------------------------------------------------------------------------------
(* The inductive invariant behind the invariants above *)

(* What an answered judgment of an event satisfies. *)
Answered(a, j) ==
    /\ \A c \in Components : j[c] = "false" => Available(a, c)
    /\ j["operation"] = "false" /\ NeedsObject(a) => a.object \/ (a.denied /\ ~Configured)
    /\ a.denied => j["operation"] = "false"

(* The i-th judgment is of the i-th event, or of none, or was not answered. *)
Grounded(i) ==
    IF resolved[i] THEN i \in DOMAIN trace /\ Answered(trace[i], instances[i])
    ELSE instances[i] = Unjudged /\ (Configured \/ trace = <<>>)

InstancesGrounded == \A i \in DOMAIN instances : Grounded(i)

OutcomeAggregates ==
    Returned =>
        /\ instances # <<>> /\ Len(instances) >= Len(trace)
        /\ outcome = IF Dynamic THEN FromComponents(Aggregate(instances)) ELSE "inconclusive"

IInv == TypeOK /\ InstancesGrounded /\ OutcomeAggregates
===============================================================================
