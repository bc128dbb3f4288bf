------------------------------- MODULE Verdicts -------------------------------
(***************************************************************************)
(* The labels of common/models/validation.py and the pure rules that turn   *)
(* component judgments and replay evidence into them.  Python's bool | None *)
(* is a member of Tri.                                                      *)
(***************************************************************************)
EXTENDS Naturals, Sequences

Tri        == {"true", "false", "null"}
Components == {"operation", "source", "destination", "side_effect"}
Judgment   == [Components -> Tri]

AuthorizationLabels == {"authorized", "unauthorized", "inconclusive"}
NecessityLabels     == {"necessary", "unnecessary", "inconclusive"}
FinalLabels         == {"overprivileged", "not_overprivileged", "inconclusive"}

(* No component is judged: an unresolved or missing instance. *)
Unjudged == [c \in Components |-> "null"]

(* Slip: a component that was not judged counts as authorized. *)
NullAuthorizesSlip(j) ==
    IF \E c \in Components : j[c] = "false" THEN "unauthorized" ELSE "authorized"

(* AuthorizationDecision.from_components, _label_from_components *)
FromComponents(j) ==
    IF \E c \in Components : j[c] = "false" THEN "unauthorized"
    ELSE IF \A c \in Components : j[c] = "true" THEN "authorized"
    ELSE "inconclusive"

(* _aggregate_instance_decisions: component by component over the realized  *)
(* instances; a single instance is returned as it is, which is the same.    *)
Aggregate(js) ==
    [c \in Components |->
        IF \E i \in 1..Len(js) : js[i][c] = "false" THEN "false"
        ELSE IF \A i \in 1..Len(js) : js[i][c] = "true" THEN "true"
        ELSE "null"]

(* Slip: an incomplete or unverified replay still yields a necessity label. *)
EagerLabelSlip(evidence, core, goal) ==
    IF core /\ goal THEN "unnecessary" ELSE "necessary"

(* _label_for_contract: the necessity label some replay evidence allows. *)
LabelForContract(evidence, core, goal) ==
    IF \/ ~evidence.completed  \/ ~evidence.triggered
       \/ ~evidence.absent     \/ ~evidence.verified
       \/ ~evidence.sufficient \/ evidence.uncertain
    THEN "inconclusive"
    ELSE IF core /\ goal THEN "unnecessary" ELSE "necessary"

OverprivilegeReasons(authorization, necessity) ==
    {authorization, necessity} \cap {"unauthorized", "unnecessary"}

(* Slip: an unresolved label counts as harmless. *)
UnresolvedClearsSlip(authorization, necessity, relevant) ==
    IF relevant /\ OverprivilegeReasons(authorization, necessity) # {}
    THEN "overprivileged" ELSE "not_overprivileged"

(* Slip: the authorization label is reported as the final one. *)
RawLabelSlip(authorization, necessity, relevant) ==
    IF relevant THEN authorization ELSE "not_overprivileged"

(* FinalVerdict.combine *)
Combine(authorization, necessity, relevant) ==
    IF ~relevant THEN "not_overprivileged"
    ELSE IF OverprivilegeReasons(authorization, necessity) # {} THEN "overprivileged"
    ELSE IF authorization = "authorized" /\ necessity = "necessary"
         THEN "not_overprivileged"
    ELSE "inconclusive"
===============================================================================
