--------------------------- MODULE RepairProjection ---------------------------
(***************************************************************************)
(* Planning and projecting a repair: RepairPlanner.plan turns clusters into *)
(* guarded repair items, BundleProjector.project rewrites a copy of the     *)
(* bundle.  Code items become execution units and a dispatch in SKILL.md;   *)
(* an instruction item is covered by a code item, left unresolved or        *)
(* guarded in the batch of InstructionRewriter.rewrite_many.                *)
(***************************************************************************)
EXTENDS DescriptorClusters, SourceVariants, InstructionDocument

CONSTANTS
    Candidates,  \* the candidate actions, which also name their repair items
    Order,       \* their identifiers in sorted order
    Actions,     \* the material actions descriptors record
    Runs,        \* the script an action executes as a command, or None
    GuardAnswers,   \* the guards a model may answer
    Inputs       \* the analysed bundles with their verdicts

ASSUME OrderAssumption ==
    /\ Order \in Seq(Candidates)
    /\ \A c \in Candidates : \E i \in DOMAIN Order : Order[i] = c
    /\ \A i, j \in DOMAIN Order : Order[i] = Order[j] => i = j
ASSUME RunsAssumption == DOMAIN Runs = Actions

(* The analysis of a bundle: slots the alias tables know, sources and a file *)
(* as they were read, code candidates that quote their source.               *)
ASSUME InputsAssumption ==
    \A x \in Inputs :
        /\ \A d \in x.descriptors : d.cand \in Candidates /\ d.slots \in RawSlots
        /\ \A s \in DOMAIN x.sources : x.sources[s].code \in Seq(Statement)
        /\ IsFile(x.doc)
        /\ \A f \in FragmentsOf(x.doc) : f.is \in {"text", "run"} /\ f.at \in Nat \ {0}
        /\ \A c \in Candidates :
               /\ x.about[c].first \in Nat /\ x.about[c].last \in Nat
               /\ x.about[c].layer = "code" =>
                      LET item == [id |-> c, raw |-> x.about[c].raw,
                                   line |-> x.about[c].line, alt |-> x.about[c].alt]
                      IN /\ x.about[c].source \in DOMAIN x.sources
                         /\ Grounded(x.sources[x.about[c].source], item)

VARIABLES
    input,      \* about each candidate, descriptors, verdicts, sources, SKILL.md,
                \* and what a model may answer about slots
    pc,         \* the stage of the repair
    queue,      \* what the stage still has to process, in order
    plan,       \* the repair items: a partial function of the candidates
    units,      \* the execution units written for each rewritten script
    doc,        \* SKILL.md of the patched bundle
    projected,  \* how each item was projected, with the items that cover it
    saved       \* what rewrite_many restores when its batch fails

pvars == <<input, pc, queue, plan, units, doc, projected, saved>>

About(c)   == input.about[c]
IsCode(c)  == About(c).layer = "code"
Source(s)  == input.sources[s]
Planned    == DOMAIN plan
InOrder(S) == Filter(Order, S)

Pending == [strategy |-> "none", covering |-> {}]

ProjectionInit ==
    /\ input \in Inputs
    /\ pc = "plan"
    /\ queue = <<>>
    /\ plan = <<>> /\ units = <<>>
    /\ doc = input.doc
    /\ projected = <<>>
    /\ saved = [doc |-> input.doc, projected |-> <<>>]

-------------------------------------------------------------------------------
(* RepairPlanner.plan *)

DescriptorsOf(c) == {d \in input.descriptors : d.cand = c}

(* The guard condition spells the allowed contexts with their actions.       *)
GuardText(clusters) ==
    {[key |-> x.key, actions |-> UNION {d.actions : d \in x.members}] :
        x \in {y \in clusters : y.disposition = "allowed"}}

(* TaskConditionedGuarder.build_item; filed are the descriptor contexts with *)
(* their keys, those of inconclusive clusters included.                      *)
BuildItem(clusters, answer) ==
    LET allowed == KeysOf(clusters, "allowed")
        blocked == KeysOf(clusters, "blocked")
    IN [allowed     |-> allowed,
        blocked     |-> blocked,
        guard       |-> Guard(allowed, blocked, answer),
        text        |-> GuardText(clusters),
        filed       |-> [d \in MembersOf(clusters, Dispositions) |->
                            (CHOOSE x \in clusters : d \in x.members).key],
        descriptors |-> MembersOf(clusters, {"allowed", "blocked"})]

ClustersOf(c, proposal) == Clusters(DescriptorsOf(c), input.verdicts[c], proposal)

(* A candidate is planned when it has verdicts, descriptors and a cluster    *)
(* that is blocked.                                                          *)
Confirmed(c, proposal) ==
    /\ DOMAIN input.verdicts[c] # {}
    /\ DescriptorsOf(c) # {}
    /\ KeysOf(ClustersOf(c, proposal), "blocked") # {}

(* The scripts of a set of items, each where its first item is. *)
ScriptsInOrder(items) ==
    LET codes == InOrder({c \in items : IsCode(c)})
        first == {i \in DOMAIN codes :
                     \A j \in 1..(i - 1) : About(codes[j]).source # About(codes[i]).source}
        at    == Filter([i \in DOMAIN codes |-> i], first)
    IN [k \in DOMAIN at |-> About(codes[at[k]]).source]

(* The model answers for each descriptor, and for each guard; an answer that *)
(* is refused stands for a model that is disabled, too.                      *)
Plan ==
    /\ pc = "plan"
    /\ \E proposal \in [input.descriptors -> input.answers], answer \in GuardAnswers :
           plan' = [c \in {x \in Candidates : Confirmed(x, proposal)} |->
                       BuildItem(ClustersOf(c, proposal), answer)]
    /\ projected' = [c \in DOMAIN plan' |-> Pending]
    /\ queue' = ScriptsInOrder(DOMAIN plan')
    /\ pc' = "code"
    /\ UNCHANGED <<input, units, doc, saved>>

-------------------------------------------------------------------------------
(* CodeRewriter.rewrite_many, one source at a time *)

ItemsIn(s) == {c \in Planned : IsCode(c) /\ About(c).source = s}

CodeItem(c)  == [id |-> c, raw |-> About(c).raw, line |-> About(c).line,
                 alt |-> About(c).alt]
CodeItems(s) == {CodeItem(c) : c \in ItemsIn(s)}

(* A read that is to be rebound to a resource the bundle does not have. *)
Unavailable(s) ==
    \E x \in CodeItems(s) : Rebindable(Source(s), x) /\ x.alt \notin input.resources

Units(s) == Lattice(Source(s), CodeItems(s))

(* _record_projection: the units of a source, beside those of the others. *)
WithUnits(s, lattice) ==
    [r \in DOMAIN units \cup {s} |-> IF r = s THEN lattice ELSE units[r]]

RewriteSource ==
    /\ pc = "code" /\ queue # <<>>
    /\ ~Unavailable(Head(queue))
    /\ units' = WithUnits(Head(queue), Units(Head(queue)))
    /\ queue' = Tail(queue)
    /\ UNCHANGED <<input, pc, plan, doc, projected, saved>>

(* Any safe unit a model wrote that passes the validation. *)
RewriteSourceWithModel ==
    /\ pc = "code" /\ queue # <<>>
    /\ Cardinality(ItemsIn(Head(queue))) = 1
    /\ \E kept \in SUBSET Positions(Source(Head(queue))) :
           LET s    == Head(queue)
               unit == [i \in kept |-> Act(Source(s), i)]
           IN /\ \A x \in CodeItems(s) : ModelUnitAccepted(Source(s), x, unit)
              /\ units' = WithUnits(s, WithModelUnit(Source(s), CodeItems(s), unit))
    /\ queue' = Tail(queue)
    /\ UNCHANGED <<input, pc, plan, doc, projected, saved>>

Failing ==
    /\ pc' = "failed"
    /\ queue' = <<>>

ResourceMissing ==
    /\ pc = "code" /\ queue # <<>>
    /\ Unavailable(Head(queue))
    /\ Failing
    /\ UNCHANGED <<input, plan, units, doc, projected, saved>>

(* Dispatch is written only after every code group has been materialized. *)
SourcesDone ==
    /\ pc = "code" /\ queue = <<>>
    /\ pc' = "dispatch"
    /\ queue' = ScriptsInOrder(Planned)
    /\ UNCHANGED <<input, plan, units, doc, projected, saved>>

-------------------------------------------------------------------------------
(* One dispatch for each source, recorded with every item of it *)

DispatchSource ==
    /\ pc = "dispatch" /\ queue # <<>>
    /\ Dispatchable(doc, Head(queue))
    /\ doc' = ProjectDispatch(doc, Head(queue))
    /\ projected' = [c \in Planned |->
           IF c \in ItemsIn(Head(queue))
           THEN [projected[c] EXCEPT !.strategy = "dispatch"] ELSE projected[c]]
    /\ queue' = Tail(queue)
    /\ UNCHANGED <<input, pc, plan, units, saved>>

NotInvoked ==
    /\ pc = "dispatch" /\ queue # <<>>
    /\ ~Dispatchable(doc, Head(queue))
    /\ Failing
    /\ UNCHANGED <<input, plan, units, doc, projected, saved>>

DispatchDone ==
    /\ pc = "dispatch" /\ queue = <<>>
    /\ pc' = "relate"
    /\ queue' = InOrder({c \in Planned : ~IsCode(c)})
    /\ UNCHANGED <<input, plan, units, doc, projected, saved>>

-------------------------------------------------------------------------------
(* Whether a code projection covers an instruction item *)

Related(c) == {k \in Planned : IsCode(k) /\ About(k).source \in About(c).mentions}

(* Slip: the same operation on the same object is enough. *)
SemanticsOnlySlip(c, k) ==
    About(c).semantics # None /\ About(c).semantics = About(k).semantics

(* _projection_semantics_are_equivalent *)
Equivalent(c, k) ==
    /\ About(c).semantics # None
    /\ About(c).semantics = About(k).semantics
    /\ plan[c].text = plan[k].text
    /\ plan[c].allowed = plan[k].allowed
    /\ plan[c].blocked = plan[k].blocked

Overprivileged(c) ==
    {t \in DOMAIN input.verdicts[c] : input.verdicts[c][t].label = "overprivileged"}

(* _material_actions *)
MaterialActions(c, tasks) ==
    UNION {d.actions : d \in {x \in DescriptorsOf(c) : x.task \in tasks}}

(* safe_semantic_proof_complete and neutralized_repair_ids *)
SafeProved(k) == units[About(k).source][{}].complete

Alone(k) == Cardinality(ItemsIn(About(k).source)) = 1

(* _invocation_envelope_is_rewritten: the command that runs the repaired     *)
(* script; a shared dispatch has another routing policy and does not count.  *)
EnvelopeRewritten(a, k) == Runs[a] = About(k).source /\ Alone(k)

Covers(a, k) ==
    \/ a \in MaterialActions(k, DOMAIN input.verdicts[k])
    \/ EnvelopeRewritten(a, k)

(* Slip: one covered action of the instruction is enough. *)
AnyActionCoveredSlip(c) ==
    {k \in Related(c) : SafeProved(k) /\ \E a \in MaterialActions(c, Overprivileged(c)) :
                                             Covers(a, k)}

(* _causal_code_coverage: the code items that cover each overprivileged      *)
(* action of an instruction that is unauthorized and not unnecessary.  An    *)
(* exact action goes before an envelope.                                     *)
CausalCover(c) ==
    LET acts     == MaterialActions(c, Overprivileged(c))
        eligible == {k \in Related(c) : SafeProved(k)}
        exact(a) == {k \in eligible : a \in MaterialActions(k, DOMAIN input.verdicts[k])}
        cover(a) == IF exact(a) # {} THEN exact(a)
                    ELSE {k \in eligible : EnvelopeRewritten(a, k)}
    IN IF /\ Overprivileged(c) # {}
          /\ \A t \in Overprivileged(c) :
                 /\ input.verdicts[c][t].authorization = "unauthorized"
                 /\ input.verdicts[c][t].necessity # "unnecessary"
          /\ acts # {}
          /\ \A a \in acts : cover(a) # {}
       THEN UNION {cover(a) : a \in acts} ELSE {}

Decided(c) ==
    LET equivalent == {k \in Related(c) : Equivalent(c, k)}
    IN IF equivalent # {} THEN [strategy |-> "equivalent", covering |-> equivalent]
       ELSE IF CausalCover(c) # {} THEN [strategy |-> "causal", covering |-> CausalCover(c)]
       ELSE IF Related(c) # {} THEN [strategy |-> "conflict", covering |-> {}]
       ELSE Pending

RelateInstruction ==
    /\ pc = "relate" /\ queue # <<>>
    /\ projected' = [projected EXCEPT ![Head(queue)] = Decided(Head(queue))]
    /\ queue' = Tail(queue)
    /\ UNCHANGED <<input, pc, plan, units, doc, saved>>

Standalone == {c \in Planned : ~IsCode(c) /\ projected[c].strategy = "none"}

-------------------------------------------------------------------------------
(* InstructionRewriter.rewrite_many: one batch of the standalone items *)

TextItem(c) == [id |-> c, raw |-> About(c).raw, first |-> About(c).first,
                last |-> About(c).last]

(* Items with the same lines are projected together. *)
GroupOf(c) ==
    IF About(c).first = 0 THEN {c}
    ELSE {d \in Standalone : About(d).first = About(c).first /\ About(d).last = About(c).last}

RankOf(c) == CHOOSE i \in DOMAIN Order : Order[i] = c

(* Slip: the groups are processed from the top of the file. *)
TopDownSlip(c, d) ==
    \/ About(c).first < About(d).first
    \/ About(c).first = About(d).first /\ RankOf(c) < RankOf(d)

(* From the bottom up; items without a line come last. *)
Before(c, d) ==
    \/ About(c).first > About(d).first
    \/ About(c).first = About(d).first /\ About(c).last > About(d).last
    \/ /\ About(c).first = About(d).first /\ About(c).last = About(d).last
       /\ RankOf(c) < RankOf(d)

Sorted(S) ==
    [i \in 1..Cardinality(S) |->
        CHOOSE c \in S : Cardinality({d \in S : Before(d, c)}) = i - 1]

RelateDone ==
    /\ pc = "relate" /\ queue = <<>>
    /\ pc' = "batch"
    /\ queue' = Sorted({c \in Standalone : \A d \in GroupOf(c) : RankOf(c) <= RankOf(d)})
    /\ saved' = [doc |-> doc, projected |-> projected]
    /\ UNCHANGED <<input, plan, units, doc, projected>>

(* The lines a group is looked up at. *)
RangeOf(group, leader) ==
    IF Cardinality(group) = 1 THEN TargetLines(doc, TextItem(leader))
    ELSE <<About(leader).first, About(leader).last>>

GroupItems(c) == {TextItem(d) : d \in GroupOf(c)}

ProjectGroup ==
    /\ pc = "batch" /\ queue # <<>>
    /\ LET c     == Head(queue)
           range == RangeOf(GroupOf(c), c)
       IN /\ Projectable(doc, range, GroupItems(c))
          /\ doc' = ProjectGuards(doc, range, GroupItems(c))
          /\ projected' = [d \in Planned |->
                 IF d \in GroupOf(c) THEN [strategy |-> "guarded", covering |-> {}]
                 ELSE projected[d]]
    /\ queue' = Tail(queue)
    /\ UNCHANGED <<input, pc, plan, units, saved>>

(* Slip: what the batch has written stays when a later group fails. *)
NoRestoreSlip ==
    /\ pc = "batch" /\ queue # <<>>
    /\ ~Projectable(doc, RangeOf(GroupOf(Head(queue)), Head(queue)),
                    GroupItems(Head(queue)))
    /\ Failing
    /\ UNCHANGED <<input, plan, units, doc, projected, saved>>

(* The whole batch is restored and the exception raised again. *)
GroupFails ==
    /\ pc = "batch" /\ queue # <<>>
    /\ ~Projectable(doc, RangeOf(GroupOf(Head(queue)), Head(queue)),
                    GroupItems(Head(queue)))
    /\ Failing
    /\ doc' = saved.doc
    /\ projected' = saved.projected
    /\ UNCHANGED <<input, plan, units, saved>>

BatchDone ==
    /\ pc = "batch" /\ queue = <<>>
    /\ pc' = "projected"
    /\ UNCHANGED <<input, queue, plan, units, doc, projected, saved>>

(* What follows the plan. *)
ProjectionNext ==
    \/ RewriteSource \/ RewriteSourceWithModel \/ ResourceMissing \/ SourcesDone
    \/ DispatchSource \/ NotInvoked \/ DispatchDone
    \/ RelateInstruction \/ RelateDone
    \/ ProjectGroup \/ GroupFails \/ BatchDone
===============================================================================
