-------------------------- MODULE DescriptorClusters --------------------------
(***************************************************************************)
(* How module 3 reads the verdicts of module 2: the action-task descriptors *)
(* of a candidate are clustered by their normalized slots, a cluster is     *)
(* allowed, blocked or inconclusive by the labels of its members, and the   *)
(* guard of a repair item lists its allowed clusters.                       *)
(***************************************************************************)
EXTENDS Verdicts, FiniteSets

CONSTANTS
    RawSlots,     \* the slot values descriptors carry, as the tasks spell them
    SlotValues,   \* canonical slot values
    Canonical,    \* what the alias tables make of a raw slot value
    Paddings,     \* the white space a model may put around slot values
    Bare          \* no white space

ASSUME CanonicalAssumption == Canonical \in [RawSlots -> SlotValues]
ASSUME BareAssumption == Bare \in Paddings

(* The cluster keys: slot values, hashed as they are spelled. *)
Keys == [slots: SlotValues, padding: Paddings]

Dispositions == {"allowed", "blocked", "inconclusive"}

FinalVerdict == [label: FinalLabels, authorization: AuthorizationLabels,
                 necessity: NecessityLabels]

(* Slip: whatever is not condemned is allowed. *)
NotBlockedIsAllowedSlip(v) ==
    IF v.authorization = "unauthorized" \/ v.necessity = "unnecessary"
    THEN "blocked" ELSE "allowed"

(* DescriptorClusterer.disposition: by the labels, whatever the final label. *)
Disposition(v) ==
    IF v.authorization = "unauthorized" \/ v.necessity = "unnecessary" THEN "blocked"
    ELSE IF /\ v.label = "not_overprivileged"
            /\ v.authorization = "authorized" /\ v.necessity = "necessary"
         THEN "allowed"
    ELSE "inconclusive"

(* The alias tables, and the key of the slots they leave. *)
Slot(raw)     == Canonical[raw]
ClusterKey(d) == [slots |-> Slot(d.slots), padding |-> Bare]

(* Slip: whatever the model answers, an empty slot too, is taken. *)
AnyAnswerSlip(d, proposal) == TRUE

(* Slip: the model may name any canonical slot values. *)
AnySlotsSlip(d, proposal) == proposal \in Keys

(* _validate_semantic_response: the model may explain the normalization of   *)
(* the slots but has to repeat it, up to white space: the answer is stripped *)
(* to be compared and kept as it came.  Some slots (a host, a concrete scope, *)
(* the side effect) may not be padded; operation, object and intent always   *)
(* may.                                                                      *)
AcceptsSlots(d, proposal) == proposal \in Keys /\ proposal.slots = Slot(d.slots)

(* _semantic_normalize: an answer that is refused, or none at all, leaves    *)
(* the deterministic slots.                                                  *)
Normalized(d, proposal) ==
    IF AcceptsSlots(d, proposal) THEN proposal ELSE ClusterKey(d)

(* Slip: one allowed member makes the cluster allowed. *)
AnyAllowedSlip(dispositions) ==
    IF "allowed" \in dispositions THEN "allowed"
    ELSE IF "blocked" \in dispositions THEN "blocked"
    ELSE "inconclusive"

(* The disposition of a cluster from those of its members. *)
Merge(dispositions) ==
    IF "blocked" \in dispositions THEN "blocked"
    ELSE IF dispositions = {"allowed"} THEN "allowed"
    ELSE "inconclusive"

(* DescriptorClusterer.cluster over the descriptors of one candidate; a      *)
(* descriptor without a verdict is skipped.  verdict is a partial function   *)
(* of the task, proposal what the model answers for each descriptor.         *)
Known(descriptors, verdict) == {d \in descriptors : d.task \in DOMAIN verdict}

Clusters(descriptors, verdict, proposal) ==
    LET known == Known(descriptors, verdict)
        key(d) == Normalized(d, proposal[d])
        members(k) == {d \in known : key(d) = k}
    IN {[key         |-> k,
         members     |-> members(k),
         disposition |-> Merge({Disposition(verdict[d.task]) : d \in members(k)})]
            : k \in {key(d) : d \in known}}

KeysOf(clusters, disposition) ==
    {c.key : c \in {x \in clusters : x.disposition = disposition}}

MembersOf(clusters, dispositions) ==
    UNION {c.members : c \in {x \in clusters : x.disposition \in dispositions}}

(* _validate_guard_response and the planner's _validate_llm_response: every  *)
(* list of the evidence has to be repeated, or the answer is refused.        *)
AcceptsGuard(allowed, blocked, answer) ==
    answer = [allowed |-> allowed, blocked |-> blocked, denyByDefault |-> TRUE]

(* Slip: the guard the model wrote is used when it denies by default. *)
ModelGuardSlip(allowed, blocked, answer) ==
    IF answer.denyByDefault THEN answer.allowed ELSE allowed

(* _synthesize_guard: the contexts the guard lets through.  An answer that   *)
(* passes changes the recorded strategy, never the guard.                    *)
Guard(allowed, blocked, answer) ==
    IF AcceptsGuard(allowed, blocked, answer) THEN answer.allowed ELSE allowed
===============================================================================
