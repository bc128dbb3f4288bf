-------------------------------- MODULE Repair --------------------------------
(***************************************************************************)
(* A repair from the plan to summary.json: the projection, the validation   *)
(* of the patched bundle by RepairValidator.validate, and the artifacts     *)
(* that ControlFlowConstrainedRepairService and RepairPipeline write.  The  *)
(* patched skill runs once for each descriptor context; which execution     *)
(* units a run executes is up to the agent, so it is any.                   *)
(***************************************************************************)
EXTENDS RepairProjection

CONSTANTS MaxUnitsPerRun   \* bound: execution units one run executes

VARIABLES
    graph,      \* the items whose units and calls are in the patched graph
    matched,    \* the items with a patched candidate of the same summary
    contexts,   \* the descriptor contexts still to be replayed
    skipped,    \* the candidates with a context that could not be validated
    after,      \* the after-repair verdicts, with what really happened
    report,     \* the candidates reported as repaired
    files       \* the artifacts: of this run, of an earlier one, or none

rvars == <<graph, matched, contexts, skipped, after, report, files>>
vars  == <<pvars, rvars>>

(* Slip: the summary is written before the records it counts. *)
SummaryFirstSlip ==
    <<"repair_outcome", "repair_validation_report", "summary", "patched_records">>

(* The artifacts in the order in which they are written. *)
Results   == <<"repair_outcome", "repair_validation_report", "patched_records", "summary">>
Artifacts == {"original_validation", "repair_error", "repair_plan", "patched_bundle"}
                 \cup {Results[i] : i \in DOMAIN Results}

AfterSuccess  == [a \in Artifacts |-> IF a = "repair_error" THEN "absent" ELSE "earlier"]
AfterFailure  == [a \in Artifacts |->
                     IF a \in {Results[i] : i \in DOMAIN Results} THEN "absent" ELSE "earlier"]

Written(names) == [a \in Artifacts |-> IF a \in names THEN "current" ELSE files[a]]

Init ==
    /\ ProjectionInit
    /\ graph = {} /\ matched = {} /\ contexts = {} /\ skipped = {}
    /\ after = {} /\ report = {}
    /\ files \in {AfterSuccess, AfterFailure}

(* Slip: the report of an earlier failure is left where it is. *)
KeepErrorSlip ==
    /\ Plan
    /\ files' = Written({"original_validation", "repair_plan", "patched_bundle"})
    /\ UNCHANGED <<graph, matched, contexts, skipped, after, report>>

(* service.repair up to the copy of the bundle. *)
BeginRepair ==
    /\ Plan
    /\ files' = [Written({"original_validation", "repair_plan", "patched_bundle"})
                     EXCEPT !["repair_error"] = "absent"]
    /\ UNCHANGED <<graph, matched, contexts, skipped, after, report>>

(* The rest of the projection; its exception is reported and raised again. *)
Project ==
    /\ ProjectionNext
    /\ files' = IF pc' = "failed" THEN Written({"repair_error"}) ELSE files
    /\ UNCHANGED <<graph, matched, contexts, skipped, after, report>>

-------------------------------------------------------------------------------
(* _projection_integrity_status *)

(* _public_entrypoint_status: it starts one of the units, the safe one. *)
PublicIsSafe(s) == PublicUnit(units[s]) = units[s][{}]

UnitsDispatched(k) ==
    projected[k].strategy = "dispatch" /\ Has(doc, "dispatch", About(k).source) /\ k \in graph

(* Slip: the units of a lone item need not be proved. *)
UnprovenUnitSlip(k) == PublicIsSafe(About(k).source)

(* The safe unit of a lone item is compared with the original again. *)
LoneIntegrity(k) == SafeProved(k)

(* _composite_projection_integrity: there is one variant for each set of     *)
(* allowed items, with its hash, its guard and its dispatch...               *)
LatticeWritten(s) == DOMAIN units[s] = SUBSET CodeItems(s)

(* ... and every one is compared with the original again. *)
VariantsProved(s) == \A allowed \in DOMAIN units[s] : units[s][allowed].complete

CodeIntegrity(k) ==
    /\ PublicIsSafe(About(k).source)
    /\ UnitsDispatched(k)
    /\ IF Alone(k) THEN LoneIntegrity(k)
       ELSE LatticeWritten(About(k).source) /\ VariantsProved(About(k).source)

(* A guard is looked up by its text. *)
GuardPresent(c) ==
    \E d \in Planned : plan[d].text = plan[c].text /\ Has(doc, "guard", d)

(* Coverage is derived again, and rests on code whose integrity is complete. *)
(* Equivalent items also have to carry the same summary, word for word.      *)
EquivalenceHolds(c) ==
    \A k \in projected[c].covering : Equivalent(c, k) /\ About(c).summary = About(k).summary
CausalHolds(c)      == CausalCover(c) = projected[c].covering

Integrity(c) ==
    \/ IsCode(c) /\ CodeIntegrity(c)
    \/ /\ ~IsCode(c)
       /\ \/ projected[c].strategy = "guarded" /\ GuardPresent(c)
          \/ projected[c].strategy = "equivalent" /\ EquivalenceHolds(c)
          \/ projected[c].strategy = "causal" /\ CausalHolds(c)
       /\ \A k \in projected[c].covering : CodeIntegrity(k)

(* _validation_contexts: one for each candidate, task and cluster key of the *)
(* descriptors of the item, normalized again without a model.                *)
ItemDescriptors == {d \in input.descriptors : d.cand \in Planned /\ d \in plan[d.cand].descriptors}

ContextDisposition(d) ==
    IF ClusterKey(d) \in plan[d.cand].blocked THEN "blocked"
    ELSE IF ClusterKey(d) \in plan[d.cand].allowed THEN "allowed" ELSE "missing"

Contexts ==
    {[cand |-> d.cand, task |-> d.task, key |-> ClusterKey(d),
      disposition |-> ContextDisposition(d)] :
        d \in {x \in ItemDescriptors : ContextDisposition(x) # "missing"}}

Skipped ==
    {d.cand : d \in {x \in ItemDescriptors : ContextDisposition(x) = "missing"}}
        \cup {c \in Planned : plan[c].descriptors = {}}

(* The patched bundle is analysed again and its skill installed. *)
Revalidate ==
    /\ pc = "projected"
    /\ \E complete \in BOOLEAN :
           graph' = IF complete THEN {c \in Planned : IsCode(c)} ELSE {}
    /\ \E layers \in SUBSET {"code", "instruction"} :
           matched' = {c \in Planned : About(c).layer \in layers}
    /\ contexts' = Contexts
    /\ skipped' = Skipped
    /\ pc' = "replay"
    /\ UNCHANGED <<input, queue, plan, units, doc, projected, saved, after, report, files>>

RevalidateFails ==
    /\ pc = "projected"
    /\ Failing
    /\ files' = Written({"repair_error"})
    /\ UNCHANGED <<input, plan, units, doc, projected, saved,
                   graph, matched, contexts, skipped, after, report>>

-------------------------------------------------------------------------------
(* One run of the patched skill, and what is observed of it *)

AllUnits == UNION {{<<s, allowed>> : allowed \in DOMAIN units[s]} : s \in DOMAIN units}

(* What the run shows of the core chain and of the result: the nodes of the  *)
(* chain; the original command, a predicate or the item's own write in       *)
(* another form; nothing; the chain with another result; no result.          *)
Outcomes == {"good", "invocation", "predicate", "write", "core_lost",
             "output_differs", "failed"}

(* units: the execution units that ran; did: the action of a guarded or      *)
(* unresolved instruction was performed, or another action with the summary  *)
(* of a code item.                                                           *)
PossibleRuns(c) ==
    [outcome: Outcomes,
     units: {u \in SUBSET AllUnits : Cardinality(u) <= MaxUnitsPerRun},
     did: IF \/ projected[c].strategy \in {"guarded", "conflict"}
             \/ IsCode(c) /\ c \in matched
          THEN BOOLEAN ELSE {FALSE}]

Covered(c) == projected[c].strategy \in {"equivalent", "causal"}

(* _apply_code_coverage: the units of the first covering item are copied. *)
Carrier(c) == IF Covered(c) THEN InOrder(projected[c].covering)[1] ELSE c

(* _observed_projected_execution_units, by the sets of items they allow. *)
Observed(c, run) ==
    IF IsCode(Carrier(c))
    THEN {{x.id : x \in u[2]} :
              u \in {y \in run.units : y[1] = About(Carrier(c)).source}} ELSE {}

(* The items whose guard decides for c in a composite. *)
Effective(c) == IF Covered(c) THEN projected[c].covering ELSE {c}

(* _action_executed *)
ActionExecuted(c, run) ==
    LET seen == Observed(c, run)
        unit == CHOOSE allowed \in seen : TRUE
    IN IF Cardinality(seen) > 1 THEN "null"
       ELSE IF seen # {} /\ ~Alone(Carrier(c))
       THEN IF unit \cap Effective(c) # {} THEN "true" ELSE "false"
       ELSE IF seen # {}
       THEN IF unit # {} THEN "true"
            ELSE IF Integrity(c) \/ (IsCode(c) /\ SafeProved(c) /\ c \in graph)
                 THEN "false" ELSE "null"
       ELSE IF c \notin matched THEN "null"
       ELSE IF run.did THEN "true"
       ELSE IF run.outcome # "failed" THEN "false" ELSE "null"

(* What happened: the statements of an action were in a unit that ran. *)
Held(k) == Target(Source(About(k).source), CodeItem(k))
RanStatement(k, run) ==
    \E u \in run.units :
        /\ u[1] = About(k).source
        /\ \E i \in Held(k) \cap DOMAIN units[u[1]][u[2]].unit :
               units[u[1]][u[2]].unit[i] = Act(Source(u[1]), i)

(* An instruction's command was run when a unit that allows something ran. *)
RanCommand(a, run) == \E u \in run.units : u[1] = Runs[a] /\ u[2] # {}

(* The related code that was observed to do an action of an instruction. *)
Doers(c, a) == {k \in Related(c) : a \in MaterialActions(k, DOMAIN input.verdicts[k])}

(* What code does is performed by its statement, another action by the       *)
(* command the instruction gives.                                            *)
PerformedAction(c, a, run) ==
    IF Doers(c, a) # {} THEN \E k \in Doers(c, a) : RanStatement(k, run)
    ELSE Runs[a] \in About(c).mentions /\ RanCommand(a, run)

Performed(c, run) ==
    IF IsCode(c) THEN RanStatement(c, run)
    ELSE \/ run.did
         \/ \E k \in projected[c].covering : RanStatement(k, run)
         \/ \E a \in MaterialActions(c, Overprivileged(c)) : PerformedAction(c, a, run)

(* _projected_invocation_preserved: the command now runs one of the units. *)
InvocationProjected(c, run) == Integrity(c) /\ Observed(c, run) # {}

(* _projected_predicate_preserved: the same predicate, in the one unit that  *)
(* ran; only entries of lone code items record what it asks for.             *)
ProvedAlone(c) == IsCode(c) /\ Alone(c) /\ Integrity(c) /\ SafeProved(c)
PredicateProjected(c, run) == ProvedAlone(c) /\ Cardinality(Observed(c, run)) = 1

(* _core_instruction_coverage: the write the repair removed, which no unit   *)
(* that ran performs.                                                        *)
WriteCovered(c, run) == ProvedAlone(c) /\ ~RanStatement(c, run)

CorePreserved(c, run) ==
    \/ run.outcome \in {"good", "output_differs"}
    \/ run.outcome = "invocation" /\ InvocationProjected(c, run)
    \/ run.outcome = "predicate" /\ PredicateProjected(c, run)
    \/ run.outcome = "write" /\ WriteCovered(c, run)

(* The same grounded result as the original run. *)
GoalSatisfied(run) == run.outcome \notin {"output_differs", "failed"}

(* _after_repair_verdict, and the label an incomplete projection leaves. *)
AfterLabel(x, run) ==
    LET executed == ActionExecuted(x.cand, run)
        blocked  == x.disposition = "blocked"
    IN IF executed = "null" \/ run.outcome = "failed" THEN "inconclusive"
       ELSE IF blocked /\ executed = "true" THEN "overprivileged"
       ELSE IF ~CorePreserved(x.cand, run) \/ ~GoalSatisfied(run) THEN "inconclusive"
       ELSE IF ~blocked /\ executed = "false" THEN "inconclusive"
       ELSE IF ~Integrity(x.cand) THEN "inconclusive"
       ELSE "not_overprivileged"

ReplayContext ==
    /\ pc = "replay" /\ contexts # {}
    /\ LET x == CHOOSE y \in contexts : TRUE
       IN /\ \E run \in PossibleRuns(x.cand) :
                 after' = after \cup {[context   |-> x,
                                       label     |-> AfterLabel(x, run),
                                       useful    |-> /\ CorePreserved(x.cand, run)
                                                     /\ GoalSatisfied(run),
                                       performed |-> Performed(x.cand, run)]}
          /\ contexts' = contexts \ {x}
    /\ UNCHANGED <<pvars, graph, matched, skipped, report, files>>

-------------------------------------------------------------------------------
(* The report *)

VerdictsOf(c) == {v \in after : v.context.cand = c}

(* Slip: one good context repairs the candidate. *)
OneContextSlip ==
    {c \in Planned : /\ c \notin skipped /\ Integrity(c)
                     /\ \E v \in VerdictsOf(c) : v.label = "not_overprivileged" /\ v.useful}

RepairedCandidates ==
    {c \in Planned : /\ c \notin skipped /\ Integrity(c)
                     /\ VerdictsOf(c) # {}
                     /\ \A v \in VerdictsOf(c) : v.label = "not_overprivileged" /\ v.useful}

ReplayDone ==
    /\ pc = "replay" /\ contexts = {}
    /\ report' = RepairedCandidates
    /\ pc' = "write"
    /\ queue' = Results
    /\ UNCHANGED <<input, plan, units, doc, projected, saved,
                   graph, matched, contexts, skipped, after, files>>

(* RepairPipeline.run: one artifact after the other, the summary last. *)
WriteArtifact ==
    /\ pc = "write" /\ queue # <<>>
    /\ files' = Written({Head(queue)})
    /\ queue' = Tail(queue)
    /\ pc' = IF Tail(queue) = <<>> THEN "done" ELSE pc
    /\ UNCHANGED <<input, plan, units, doc, projected, saved,
                   graph, matched, contexts, skipped, after, report>>

(* repair_succeeded, and the repair_success of the summary. *)
RepairSucceeded ==
    /\ Planned # {}
    /\ after # {}
    /\ Planned \ report = {}
    /\ \A v \in after : v.label = "not_overprivileged" /\ v.useful

(* The process dies; what it has written stays. *)
Crash ==
    /\ pc \notin {"plan", "failed", "done", "crashed"}
    /\ pc' = "crashed"
    /\ UNCHANGED <<input, queue, plan, units, doc, projected, saved, rvars>>

Next ==
    \/ BeginRepair \/ Project
    \/ Revalidate \/ RevalidateFails
    \/ ReplayContext \/ ReplayDone
    \/ WriteArtifact
    \/ Crash

Spec == Init /\ [][Next]_vars
-------------------------------------------------------------------------------
Stages == {"plan", "code", "dispatch", "relate", "batch", "projected", "replay",
           "write", "done", "failed", "crashed"}

(* The keys of the slots a candidate's descriptors have, however spelled. *)
OwnKeys(c) == {k \in Keys : \E d \in DescriptorsOf(c) : k.slots = Slot(d.slots)}

(* The variables have their types: a model may spell a slot value in another *)
(* way but brings in none that the candidate's descriptors do not have, and  *)
(* only code covers an instruction (descriptor_clustering.py:247-312).       *)
TypeOK ==
    /\ input \in Inputs /\ pc \in Stages
    /\ Planned \subseteq Candidates /\ DOMAIN projected = Planned
    /\ \A c \in Planned :
           /\ plan[c].allowed \subseteq OwnKeys(c) /\ plan[c].blocked \subseteq OwnKeys(c)
           /\ plan[c].guard \subseteq OwnKeys(c)
           /\ projected[c].covering \subseteq {k \in Planned : IsCode(k)}
    /\ report \subseteq Planned /\ skipped \subseteq Planned
    /\ files \in [Artifacts -> {"absent", "earlier", "current"}]

Judged(c) == Known(DescriptorsOf(c), input.verdicts[c])

(* The model's answer changed how the slots of d are spelled in its key. *)
Padded(c, d) == plan[c].filed[d].padding # Bare

(* A guard lets a context through only if every task of it was found to be   *)
(* authorized and necessary: those the cluster was made of, and those whose  *)
(* slots have its key when they are normalized again without a model, unless *)
(* a model padded their own slots and so took them out of the cluster        *)
(* (descriptor_clustering.py:160-416, task_conditioned_guarder.py:231-429).  *)
AllowedClusterIsClean ==
    \A c \in Planned : \A d \in Judged(c) :
        (\/ plan[c].filed[d] \in plan[c].guard
         \/ ~Padded(c, d) /\ ClusterKey(d) \in plan[c].guard) =>
            LET v == input.verdicts[c][d.task]
            IN v.authorization = "authorized" /\ v.necessity = "necessary"

(* A model wrote the safe unit of the source. *)
WrittenByModel(s) == units[s] # Units(s)

(* No execution unit, degraded or not, holds a statement of an item it does  *)
(* not allow: what could not be removed provably is not run at all.  The one *)
(* exception is a unit a model wrote for a short raw text: it may hold the   *)
(* target if an equal action of the script is gone in its place              *)
(* (code_rewriter.py:300-321, 750-900, 1171-1259, 1748-1757).                *)
NeverBroadened ==
    \A s \in DOMAIN units : \A allowed \in DOMAIN units[s] :
        LET unit == units[s][allowed].unit
        IN \A x \in CodeItems(s) \ allowed :
               \A i \in Target(Source(s), x) \cap DOMAIN unit :
                   \/ unit[i] # Act(Source(s), i)
                   \/ WrittenByModel(s) /\ Doubles(Source(s), x) \ DOMAIN unit # {}

(* A repair that failed left the guards of all instructions behind or those  *)
(* of none, in the file and in the items (instruction_rewriter.py:110-178).  *)
BatchIsAtomic ==
    pc = "failed" =>
        \/ \A c \in Planned : projected[c].strategy # "guarded" /\ ~Has(doc, "guard", c)
        \/ /\ Standalone = {}
           /\ \A c \in Planned : projected[c].strategy = "guarded" => Has(doc, "guard", c)

FragmentsAt(d, c) ==
    {d[m[1]].frags[m[2]] : m \in MatchesIn(d, <<About(c).first, About(c).last>>, TextItem(c))}

DispatchedAbove(c) ==
    \E s \in DOMAIN input.sources :
        /\ Has(doc, "dispatch", s)
        /\ \E x \in Invocations(input.doc, s) : x[1] < About(c).last

Located(c) == About(c).first # 0 /\ About(c).last <= Len(input.doc)

(* Another instruction's lines are the same, above or below, or unknown.     *)
Apart(c, d) ==
    \/ About(d).first = 0
    \/ /\ Located(d)
       /\ \/ About(d).first = About(c).first /\ About(d).last = About(c).last
          \/ About(c).last < About(d).first
          \/ About(d).last < About(c).first

SharesNoLine(c) == \A d \in Planned \ {c} : ~IsCode(d) => Apart(c, d)

(* Bottom-up projection: the lines recorded for an instruction that is still *)
(* to be guarded hold the text they held in the original file                *)
(* (instruction_rewriter.py:97-99), as long as no dispatch was inserted      *)
(* above them and no other range reaches into them: the range of an          *)
(* instruction that cites several blocks goes from the first to the last     *)
(* (instruction_graph_builder.py:288-291).                                   *)
ProvenanceHolds ==
    pc = "batch" =>
        \A c \in Standalone : (Located(c) /\ ~DispatchedAbove(c) /\ SharesNoLine(c)) =>
            FragmentsAt(doc, c) = FragmentsAt(input.doc, c)

(* What the comment at instruction_rewriter.py:97-99 says, without exception. *)
DocumentedProvenance ==
    pc = "batch" =>
        \A c \in Standalone : Located(c) => FragmentsAt(doc, c) = FragmentsAt(input.doc, c)

(* Not what the rewriter added. *)
IsOriginal(f) == f.at # 0 /\ f.is = "text"

GuardedTexts == {About(c).raw : c \in {x \in Planned : projected[x].strategy = "guarded"}}

(* Guards and dispatches leave every other text of SKILL.md in place and in  *)
(* order, whatever lines they share (instruction_rewriter.py:1323-1497,      *)
(* 1919-1938).                                                               *)
OnlyGuardedTextChanges ==
    LET all    == ToSet(TextIn(doc)) \cup ToSet(TextIn(input.doc))
        others == {f \in all : IsOriginal(f) /\ f.of \notin GuardedTexts}
    IN Filter(TextIn(doc), others) = Filter(TextIn(input.doc), others)

OneScript(c) == Cardinality({About(k).source : k \in Related(c)}) <= 1

(* The target of an item is told from every other action of its script: its  *)
(* unit is not a model's, its raw text is long enough, or it has no double.  *)
ToldApart(k) ==
    \/ ~WrittenByModel(About(k).source)
    \/ Doubles(Source(About(k).source), CodeItem(k)) = {}

Behind(c) == IF IsCode(c) THEN {c} ELSE Related(c)

(* The code that performs an instruction is in one script, and shares its    *)
(* guard as a whole or not at all; what performs c is told from its doubles. *)
Attributable(c) ==
    /\ OneScript(c)
    /\ (\E k \in Related(c) : Equivalent(c, k)) => \A k \in Related(c) : Equivalent(c, k)
    /\ \A k \in Behind(c) : ToldApart(k)

(* A blocked context that is reported as not overprivileged did not perform  *)
(* the action, whatever units the agent chose to run, when the code that     *)
(* performs it is in one script that shares its guard as a whole or not at   *)
(* all, and is told from equal actions of the script                         *)
(* (repair_validator.py:1280-1410, 1494-1567).                               *)
NotOverprivilegedIsTrue ==
    \A v \in after :
        (/\ v.context.disposition = "blocked" /\ v.label = "not_overprivileged"
         /\ Attributable(v.context.cand)) => ~v.performed

(* The metric contract of the report, repair_validator.py:320-323: an action *)
(* that is blocked and still executed is overprivileged.                     *)
DocumentedMetric ==
    \A v \in after :
        (v.context.disposition = "blocked" /\ v.label = "not_overprivileged") => ~v.performed

(* A candidate is reported as repaired only after every task that is not     *)
(* authorized or not necessary was replayed, and replayed without the action *)
(* unless a model padded the slots of that task, which may then be replayed  *)
(* as a context of the allowed cluster it was split from                     *)
(* (repair_validator.py:215-238, 337-438).                                   *)
ReportedAreClean ==
    \A c \in report : \A d \in Judged(c) :
        Disposition(input.verdicts[c][d.task]) = "blocked" =>
            \E v \in VerdictsOf(c) :
                /\ v.context.task = d.task /\ v.context.key = ClusterKey(d)
                /\ v.label = "not_overprivileged"
                /\ (~Padded(c, d) /\ Attributable(c)) => ~v.performed

(* Nothing is repaired by units that were not proved: neither the item whose *)
(* safe unit is a mere refusal nor an instruction that relies on it; a       *)
(* conflict is never repaired (repair_validator.py:1604-2741).               *)
IncompleteNeverRepaired ==
    \A c \in report :
        /\ projected[c].strategy # "conflict"
        /\ \A k \in IF IsCode(c) THEN {c} ELSE projected[c].covering : SafeProved(k)

(* repair_error.json is there exactly when this run's projection or          *)
(* validation raised, and then no result of this run is                      *)
(* (service.py:89-114).                                                      *)
ErrorTellsFailure ==
    pc # "plan" =>
        /\ files["repair_error"] # "earlier"
        /\ files["repair_error"] = "current" <=> pc = "failed"
        /\ pc = "failed" => \A i \in DOMAIN Results : files[Results[i]] # "current"

(* A summary of this run comes after every artifact it speaks of, and never  *)
(* beside an error (repair_pipeline.py:30-85).                               *)
SummaryIsLast ==
    files["summary"] = "current" =>
        /\ files["repair_error"] = "absent"
        /\ \A a \in Artifacts \ {"repair_error"} : files[a] = "current"
===============================================================================
