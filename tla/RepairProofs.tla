----------------------------- MODULE RepairProofs -----------------------------
(***************************************************************************)
(* What holds of every repair, for any candidates, tasks, slots, scripts,   *)
(* documents and answers of a model: guards are clean, units never broaden, *)
(* a failed batch is restored, no other text of SKILL.md changes, verdicts  *)
(* and reports are true and the artifacts tell how the run ended.  Each     *)
(* part of the state has its inductive invariant: IInv the plan, the files  *)
(* and the report, TypeInv, UnitsAreBuilt, DecidedInv what covers an        *)
(* instruction, ReplayInv, DocInv and ProvenanceInv.                        *)
(***************************************************************************)
EXTENDS Repair, ProjectionFacts

-------------------------------------------------------------------------------
(* The clusters                                                            *)

(* The key a descriptor is filed under: an answer of a model may pad its     *)
(* slots but not change them (descriptor_clustering.py:231-300).             *)
KeyIn(proposal, d) == Normalized(d, proposal[d])

LEMMA NormalizedKey ==
    ASSUME NEW d, d.slots \in RawSlots, NEW proposal
    PROVE  /\ KeyIn(proposal, d) \in Keys
           /\ KeyIn(proposal, d).slots = Slot(d.slots)
           /\ KeyIn(proposal, d).padding = Bare => KeyIn(proposal, d) = ClusterKey(d)
<1>1. Slot(d.slots) \in SlotValues
  BY CanonicalAssumption DEF Slot
<1>2. ClusterKey(d) \in Keys /\ ClusterKey(d).slots = Slot(d.slots)
  BY <1>1, BareAssumption DEF ClusterKey, Keys
<1>3. CASE AcceptsSlots(d, proposal[d])
  <2>1. KeyIn(proposal, d) \in Keys /\ KeyIn(proposal, d).slots = Slot(d.slots)
    BY <1>3 DEF KeyIn, Normalized, AcceptsSlots
  <2>2. \A k \in Keys : k.padding = Bare => k = [slots |-> k.slots, padding |-> Bare]
    BY DEF Keys
  <2>  QED  BY <2>1, <2>2 DEF ClusterKey
<1>4. CASE ~AcceptsSlots(d, proposal[d])
  BY <1>2, <1>4 DEF KeyIn, Normalized
<1>  QED  BY <1>3, <1>4

(* The clusters are the descriptors with a verdict, by the keys they are     *)
(* filed under.                                                              *)
Cluster(ds, verdict, proposal, k) ==
    LET members == {d \in Known(ds, verdict) : KeyIn(proposal, d) = k}
    IN [key |-> k, members |-> members,
        disposition |-> Merge({Disposition(verdict[d.task]) : d \in members})]

LEMMA ClusterSet ==
    ASSUME NEW ds, NEW verdict, NEW proposal
    PROVE  Clusters(ds, verdict, proposal) =
               {Cluster(ds, verdict, proposal, KeyIn(proposal, d)) : d \in Known(ds, verdict)}
  BY DEF Clusters, Cluster, KeyIn

LEMMA ClusterMembers ==
    ASSUME NEW ds, NEW verdict, NEW proposal
    PROVE  /\ \A x \in Clusters(ds, verdict, proposal) :
                  /\ x.members = {d \in Known(ds, verdict) : KeyIn(proposal, d) = x.key}
                  /\ \E d \in Known(ds, verdict) : x.key = KeyIn(proposal, d)
           /\ \A d \in Known(ds, verdict) : \E x \in Clusters(ds, verdict, proposal) :
                  x.key = KeyIn(proposal, d) /\ d \in x.members
<1>1. \A k : /\ Cluster(ds, verdict, proposal, k).key = k
             /\ Cluster(ds, verdict, proposal, k).members =
                    {d \in Known(ds, verdict) : KeyIn(proposal, d) = k}
  BY DEF Cluster
<1>  QED  BY <1>1, ClusterSet

LEMMA ClusterDisposition ==
    ASSUME NEW ds, NEW verdict, NEW proposal, NEW x \in Clusters(ds, verdict, proposal)
    PROVE  x.disposition = Merge({Disposition(verdict[d.task]) : d \in x.members})
<1>1. PICK e \in Known(ds, verdict) : x = Cluster(ds, verdict, proposal, KeyIn(proposal, e))
  BY ClusterSet
<1>  QED  BY <1>1 DEF Cluster

(* A descriptor is in one cluster, and the item files it under its key.      *)
LEMMA FiledKey ==
    ASSUME NEW ds, NEW verdict, NEW proposal, NEW answer, NEW d \in Known(ds, verdict)
    PROVE  BuildItem(Clusters(ds, verdict, proposal), answer).filed[d] = KeyIn(proposal, d)
<1>  DEFINE all  == Clusters(ds, verdict, proposal)
            mine == CHOOSE x \in all : d \in x.members
            filed == [e \in MembersOf(all, Dispositions) |->
                         (CHOOSE x \in all : e \in x.members).key]
<1>1. PICK y \in all : d \in y.members
  BY ClusterMembers
<1>2. \A S : Merge(S) \in Dispositions
  BY DEF Merge, Dispositions
<1>3. y.disposition \in Dispositions
  <2>1. y.disposition = Merge({Disposition(verdict[e.task]) : e \in y.members})
    BY ClusterDisposition
  <2>  QED  BY <1>2, <2>1
<1>4. d \in MembersOf(all, Dispositions)
  <2>  HIDE DEF all
  <2>  QED  BY <1>1, <1>3 DEF MembersOf
<1>5. mine \in all /\ d \in mine.members
  <2>  HIDE DEF all
  <2>  QED  BY <1>1
<1>6. mine.key = KeyIn(proposal, d)
  <2>1. \A x \in all : x.members = {e \in Known(ds, verdict) : KeyIn(proposal, e) = x.key}
    BY ClusterMembers
  <2>  HIDE DEF mine, all
  <2>  QED  BY <1>5, <2>1
<1>7. filed[d] = mine.key
  BY <1>4
<1>8. BuildItem(all, answer).filed = filed
  BY DEF BuildItem
<1>  HIDE DEF filed, mine, all
<1>  QED  BY <1>6, <1>7, <1>8 DEF all

(* Whatever the model answers, the guard lists the allowed clusters          *)
(* (task_conditioned_guarder.py:231-429).                                    *)
LEMMA GuardIsAllowed ==
    ASSUME NEW allowed, NEW blocked, NEW answer
    PROVE  Guard(allowed, blocked, answer) = allowed
  BY DEF Guard, AcceptsGuard

(* Only an authorized and necessary task is allowed by itself.               *)
LEMMA AllowedIsClean ==
    ASSUME NEW v, Disposition(v) = "allowed"
    PROVE  v.authorization = "authorized" /\ v.necessity = "necessary"
  BY DEF Disposition

LEMMA MergeAllowed ==
    ASSUME NEW S, Merge(S) = "allowed"
    PROVE  \A x \in S : x = "allowed"
  BY DEF Merge

(* A descriptor filed under the key of an allowed cluster is allowed itself. *)
LEMMA AllowedMember ==
    ASSUME NEW ds, NEW verdict, NEW proposal, NEW d \in Known(ds, verdict),
           KeyIn(proposal, d) \in KeysOf(Clusters(ds, verdict, proposal), "allowed")
    PROVE  Disposition(verdict[d.task]) = "allowed"
<1>1. PICK x \in Clusters(ds, verdict, proposal) :
         x.key = KeyIn(proposal, d) /\ x.disposition = "allowed"
  BY DEF KeysOf
<1>2. d \in x.members /\ Merge({Disposition(verdict[e.task]) : e \in x.members}) = "allowed"
  BY <1>1, ClusterMembers, ClusterDisposition
<1>3. Disposition(verdict[d.task]) \in {Disposition(verdict[e.task]) : e \in x.members}
  BY <1>2
<1>  QED  BY <1>2, <1>3, MergeAllowed

(* A descriptor that is to be blocked is in a blocked cluster.               *)
LEMMA BlockedMember ==
    ASSUME NEW ds, NEW verdict, NEW proposal, NEW d \in Known(ds, verdict),
           Disposition(verdict[d.task]) = "blocked"
    PROVE  /\ KeyIn(proposal, d) \in KeysOf(Clusters(ds, verdict, proposal), "blocked")
           /\ d \in MembersOf(Clusters(ds, verdict, proposal), {"allowed", "blocked"})
<1>1. PICK x \in Clusters(ds, verdict, proposal) :
         x.key = KeyIn(proposal, d) /\ d \in x.members
  BY ClusterMembers
<1>2. x.disposition = Merge({Disposition(verdict[e.task]) : e \in x.members})
  BY ClusterDisposition
<1>3. "blocked" \in {Disposition(verdict[e.task]) : e \in x.members}
  BY <1>1
<1>4. x.disposition = "blocked"
  BY <1>2, <1>3 DEF Merge
<1>  QED  BY <1>1, <1>4 DEF KeysOf, MembersOf

-------------------------------------------------------------------------------
(* What a step may change                                                   *)

(* The order of the stages. *)
Moves ==
    {<<"plan", "code">>, <<"code", "dispatch">>, <<"dispatch", "relate">>,
     <<"relate", "batch">>, <<"batch", "projected">>, <<"projected", "replay">>,
     <<"replay", "write">>, <<"write", "done">>}
    \cup ({"code", "dispatch", "batch", "projected"} \X {"failed"})

(* Each variable, and the actions that assign it. *)
Frame ==
    /\ input' = input
    /\ BeginRepair \/ plan' = plan
    /\ BeginRepair \/ RewriteSource \/ RewriteSourceWithModel \/ units' = units
    /\ DispatchSource \/ ProjectGroup \/ GroupFails \/ doc' = doc
    /\ BeginRepair \/ DispatchSource \/ RelateInstruction \/ ProjectGroup \/ GroupFails
           \/ projected' = projected
    /\ RelateDone \/ saved' = saved
    /\ Revalidate \/ UNCHANGED <<graph, matched, skipped>>
    /\ Revalidate \/ ReplayContext \/ contexts' = contexts
    /\ ReplayContext \/ after' = after
    /\ ReplayDone \/ report' = report
    /\ pc' = pc \/ <<pc, pc'>> \in Moves \/ (pc' = "crashed" /\ pc # "plan")
    /\ pc' = "batch" => RelateDone \/ pc = "batch"

LEMMA Frames ==
    ASSUME [Next]_vars
    PROVE  Frame
<1>1. CASE BeginRepair
  BY <1>1 DEF BeginRepair, Plan, Frame, Moves
<1>2. CASE Project
  <2>  USE DEF Frame, Moves, Project, Failing
  <2>1. CASE RewriteSource
    BY <1>2, <2>1 DEF RewriteSource
  <2>2. CASE RewriteSourceWithModel
    BY <1>2, <2>2 DEF RewriteSourceWithModel
  <2>3. CASE ResourceMissing
    BY <1>2, <2>3 DEF ResourceMissing
  <2>4. CASE SourcesDone
    BY <1>2, <2>4 DEF SourcesDone
  <2>5. CASE DispatchSource
    BY <1>2, <2>5 DEF DispatchSource
  <2>6. CASE NotInvoked
    BY <1>2, <2>6 DEF NotInvoked
  <2>7. CASE DispatchDone
    BY <1>2, <2>7 DEF DispatchDone
  <2>8. CASE RelateInstruction
    BY <1>2, <2>8 DEF RelateInstruction
  <2>9. CASE RelateDone
    BY <1>2, <2>9 DEF RelateDone
  <2>10. CASE ProjectGroup
    BY <1>2, <2>10 DEF ProjectGroup
  <2>11. CASE GroupFails
    BY <1>2, <2>11 DEF GroupFails
  <2>12. CASE BatchDone
    BY <1>2, <2>12 DEF BatchDone
  <2>  QED
    BY <1>2, <2>1, <2>2, <2>3, <2>4, <2>5, <2>6, <2>7, <2>8, <2>9, <2>10, <2>11, <2>12
    DEF ProjectionNext
<1>3. CASE Revalidate
  BY <1>3 DEF Revalidate, Frame, Moves
<1>4. CASE RevalidateFails
  BY <1>4 DEF RevalidateFails, Failing, Frame, Moves
<1>5. CASE ReplayContext
  BY <1>5 DEF ReplayContext, pvars, Frame, Moves
<1>6. CASE ReplayDone
  BY <1>6 DEF ReplayDone, Frame, Moves
<1>7. CASE WriteArtifact
  BY <1>7 DEF WriteArtifact, Frame, Moves
<1>8. CASE Crash
  BY <1>8 DEF Crash, rvars, Frame
<1>9. CASE UNCHANGED vars
  BY <1>9 DEF vars, pvars, rvars, Frame
<1>  QED  BY <1>1, <1>2, <1>3, <1>4, <1>5, <1>6, <1>7, <1>8, <1>9 DEF Next

-------------------------------------------------------------------------------
(* The inductive invariant                                                  *)

Late     == {"write", "done", "crashed"}
Prepared == {"original_validation", "repair_plan", "patched_bundle"}

PlanIsBuilt ==
    \A c \in DOMAIN plan : \E proposal, answer :
        plan[c] = BuildItem(ClustersOf(c, proposal), answer)

Have(i) == files[Results[i]] = "current"

FilesInv ==
    /\ files \in [Artifacts -> {"absent", "earlier", "current"}]
    /\ pc # "plan" => \A a \in Prepared : files[a] = "current"
    /\ pc \notin {"plan", "failed"} => files["repair_error"] = "absent"
    /\ pc = "failed" => files["repair_error"] = "current"
    /\ pc \notin Late => \A i \in DOMAIN Results : ~Have(i)
    /\ Have(4) => \A i \in DOMAIN Results : Have(i)
    /\ pc = "write" =>
         \E k \in DOMAIN Results :
             /\ queue = SubSeq(Results, k, 4)
             /\ \A i \in DOMAIN Results : Have(i) <=> i < k

ReportInv ==
    /\ report \subseteq DOMAIN plan
    /\ pc \notin Late => report = {}
    /\ IncompleteNeverRepaired

IInv == PlanIsBuilt /\ FilesInv /\ ReportInv

(* How items may be projected: only code items cover an instruction. *)
IsProjection(f) ==
    /\ DOMAIN f = Planned
    /\ \A c \in Planned : f[c].covering \subseteq {k \in Planned : IsCode(k)}

TypeInv ==
    /\ input \in Inputs /\ pc \in Stages
    /\ Planned \subseteq Candidates /\ skipped \subseteq Planned
    /\ pc = "plan" => skipped = {}
    /\ IsProjection(projected)
    /\ pc = "batch" => IsProjection(saved.projected)

-------------------------------------------------------------------------------
(* What the invariant implies                                               *)

(* The descriptors of a planned candidate that have a verdict. *)
LEMMA JudgedFacts ==
    ASSUME TypeInv, NEW c, NEW d \in Judged(c)
    PROVE  /\ d \in DescriptorsOf(c) /\ d.task \in DOMAIN input.verdicts[c]
           /\ d \in Known(DescriptorsOf(c), input.verdicts[c])
           /\ d.slots \in RawSlots
<1>1. d \in DescriptorsOf(c) /\ d.task \in DOMAIN input.verdicts[c]
      /\ d \in Known(DescriptorsOf(c), input.verdicts[c])
  BY DEF Judged, Known
<1>2. d \in input.descriptors /\ input \in Inputs
  BY <1>1 DEF DescriptorsOf, TypeInv
<1>  QED  BY <1>1, <1>2, InputsAssumption

LEMMA CleanGuards ==
    ASSUME TypeInv, PlanIsBuilt
    PROVE  AllowedClusterIsClean
<1>  SUFFICES ASSUME NEW c \in Planned, NEW d \in Judged(c),
                     \/ plan[c].filed[d] \in plan[c].guard
                     \/ ~Padded(c, d) /\ ClusterKey(d) \in plan[c].guard
              PROVE  /\ input.verdicts[c][d.task].authorization = "authorized"
                     /\ input.verdicts[c][d.task].necessity = "necessary"
  BY DEF AllowedClusterIsClean
<1>1. PICK proposal, answer : plan[c] = BuildItem(ClustersOf(c, proposal), answer)
  BY DEF PlanIsBuilt, Planned
<1>2. plan[c].guard = KeysOf(ClustersOf(c, proposal), "allowed")
  BY <1>1, GuardIsAllowed DEF BuildItem
<1>3. d \in Known(DescriptorsOf(c), input.verdicts[c]) /\ d.slots \in RawSlots
  BY JudgedFacts
<1>4. plan[c].filed[d] = KeyIn(proposal, d)
  BY <1>1, <1>3, FiledKey DEF ClustersOf
<1>5. ~Padded(c, d) => ClusterKey(d) = KeyIn(proposal, d)
  BY <1>3, <1>4, NormalizedKey DEF Padded
<1>6. KeyIn(proposal, d) \in KeysOf(ClustersOf(c, proposal), "allowed")
  BY <1>2, <1>4, <1>5
<1>7. Disposition(input.verdicts[c][d.task]) = "allowed"
  BY <1>3, <1>6, AllowedMember DEF ClustersOf
<1>  QED  BY <1>7, AllowedIsClean

LEMMA ResultNames ==
    /\ DOMAIN Results = 1..4
    /\ Results \in Seq(Artifacts)
    /\ Results[4] = "summary"
    /\ Artifacts = Prepared \cup {"repair_error"}
                       \cup {Results[1], Results[2], Results[3], Results[4]}
    /\ \A i, j \in 1..4 : Results[i] = Results[j] => i = j
    /\ \A i \in 1..4 : Results[i] \notin Prepared \cup {"repair_error"}
    /\ "repair_error" \notin Prepared
  BY DEF Results, Artifacts, Prepared

LEMMA FilesTell ==
    ASSUME FilesInv
    PROVE  ErrorTellsFailure /\ SummaryIsLast
<1>1. ErrorTellsFailure
  BY ResultNames DEF FilesInv, ErrorTellsFailure, Have, Late
<1>2. SummaryIsLast
  BY ResultNames DEF FilesInv, SummaryIsLast, Have, Late
<1>  QED  BY <1>1, <1>2

(* An item whose integrity is complete was projected, and the units it       *)
(* relies on were proved.                                                    *)
LEMMA CodeIntegrityProved ==
    ASSUME NEW k, CodeIntegrity(k)
    PROVE  projected[k].strategy = "dispatch" /\ SafeProved(k)
<1>1. projected[k].strategy = "dispatch"
  BY DEF CodeIntegrity, UnitsDispatched
<1>2. CASE Alone(k)
  BY <1>2, <1>1 DEF CodeIntegrity, LoneIntegrity
<1>3. CASE ~Alone(k)
  <2>1. {} \in DOMAIN units[About(k).source]
    BY <1>3 DEF CodeIntegrity, LatticeWritten
  <2>  QED  BY <1>3, <1>1, <2>1 DEF CodeIntegrity, VariantsProved, SafeProved
<1>  QED  BY <1>2, <1>3

LEMMA IntegrityProved ==
    ASSUME NEW c, Integrity(c)
    PROVE  /\ projected[c].strategy # "conflict"
           /\ \A k \in IF IsCode(c) THEN {c} ELSE projected[c].covering :
                  SafeProved(k)
<1>1. CASE IsCode(c)
  BY <1>1, CodeIntegrityProved DEF Integrity
<1>2. CASE ~IsCode(c)
  <2>1. projected[c].strategy \in {"guarded", "equivalent", "causal"}
    BY <1>2 DEF Integrity
  <2>2. \A k \in projected[c].covering : CodeIntegrity(k)
    BY <1>2 DEF Integrity
  <2>  QED  BY <1>2, <2>1, <2>2, CodeIntegrityProved
<1>  QED  BY <1>1, <1>2

-------------------------------------------------------------------------------
(* Types                                                                    *)

(* The keys of a guard are those of the candidate's slots. *)
LEMMA KeysAreKeys ==
    ASSUME TypeInv, NEW c, NEW proposal, NEW disposition
    PROVE  KeysOf(ClustersOf(c, proposal), disposition) \subseteq OwnKeys(c)
<1>1. ASSUME NEW x \in ClustersOf(c, proposal) PROVE x.key \in OwnKeys(c)
  <2>0. \A y \in Clusters(DescriptorsOf(c), input.verdicts[c], proposal) :
           \E d \in Known(DescriptorsOf(c), input.verdicts[c]) : y.key = KeyIn(proposal, d)
    BY ClusterMembers
  <2>1. PICK d \in Known(DescriptorsOf(c), input.verdicts[c]) : x.key = KeyIn(proposal, d)
    BY <2>0 DEF ClustersOf
  <2>2. d \in DescriptorsOf(c) /\ d.slots \in RawSlots
    BY JudgedFacts DEF Judged
  <2>  QED  BY <2>1, <2>2, NormalizedKey DEF OwnKeys
<1>  QED  BY <1>1 DEF KeysOf

LEMMA TypesFollow ==
    ASSUME PlanIsBuilt, FilesInv, ReportInv, TypeInv
    PROVE  TypeOK
<1>1. ASSUME NEW c \in Planned
      PROVE  plan[c].allowed \subseteq OwnKeys(c) /\ plan[c].blocked \subseteq OwnKeys(c)
             /\ plan[c].guard \subseteq OwnKeys(c)
  <2>1. PICK proposal, answer : plan[c] = BuildItem(ClustersOf(c, proposal), answer)
    BY DEF PlanIsBuilt, Planned
  <2>2. /\ plan[c].allowed = KeysOf(ClustersOf(c, proposal), "allowed")
        /\ plan[c].blocked = KeysOf(ClustersOf(c, proposal), "blocked")
        /\ plan[c].guard = KeysOf(ClustersOf(c, proposal), "allowed")
    BY <2>1, GuardIsAllowed DEF BuildItem
  <2>  QED  BY <2>2, KeysAreKeys
<1>  QED  BY <1>1 DEF TypeOK, TypeInv, IsProjection, FilesInv, ReportInv, Planned

(* What an instruction is covered by. *)
LEMMA DecidedCover ==
    ASSUME NEW c
    PROVE  /\ CausalCover(c) \subseteq Related(c)
           /\ Decided(c).covering \subseteq Related(c)
           /\ Related(c) \subseteq {k \in Planned : IsCode(k)}
<1>1. CausalCover(c) \subseteq Related(c)
  BY DEF CausalCover
<1>2. Decided(c).covering \subseteq Related(c)
  BY <1>1 DEF Decided, Pending
<1>  QED  BY <1>1, <1>2 DEF Related

LEMMA InitTypeInv == Init => TypeInv
  BY DEF Init, ProjectionInit, TypeInv, Stages, IsProjection, Planned

LEMMA StepTypeInv == TypeInv /\ [Next]_vars => TypeInv'
<1>  SUFFICES ASSUME TypeInv, [Next]_vars PROVE TypeInv'
  OBVIOUS
<1>1. Frame
  BY Frames
<1>2. input' \in Inputs /\ pc' \in Stages
  BY <1>1 DEF Frame, TypeInv, Moves, Stages
<1>3. CASE BeginRepair
  <2>1. DOMAIN plan' \subseteq Candidates /\ projected' = [c \in DOMAIN plan' |-> Pending]
        /\ pc' = "code" /\ skipped' = {}
    <3>1. Plan /\ skipped' = skipped /\ pc = "plan"
      BY <1>3 DEF BeginRepair, Plan
    <3>2. skipped = {}
      BY <3>1 DEF TypeInv
    <3>  QED  BY <3>1, <3>2 DEF Plan
  <2>  QED  BY <1>2, <2>1 DEF TypeInv, IsProjection, Planned, Pending
<1>4. CASE ~BeginRepair
  <2>1. plan' = plan /\ input' = input
    BY <1>1, <1>4 DEF Frame
  <2>2. IsProjection(projected)'
    <3>1. CASE projected' = projected
      BY <2>1, <3>1 DEF TypeInv, IsProjection, Planned, IsCode, About
    <3>2. CASE DispatchSource
      BY <2>1, <3>2 DEF DispatchSource, TypeInv, IsProjection, Planned, IsCode, About
    <3>3. CASE RelateInstruction
      <4>1. projected' = [projected EXCEPT ![Head(queue)] = Decided(Head(queue))]
        BY <3>3 DEF RelateInstruction
      <4>2. Decided(Head(queue)).covering \subseteq {k \in Planned : IsCode(k)}
        BY DecidedCover
      <4>  QED
        BY <2>1, <4>1, <4>2 DEF TypeInv, IsProjection, Planned, IsCode, About
    <3>4. CASE ProjectGroup
      BY <2>1, <3>4 DEF ProjectGroup, TypeInv, IsProjection, Planned, IsCode, About
    <3>5. CASE GroupFails
      BY <2>1, <3>5 DEF GroupFails, TypeInv, IsProjection, Planned, IsCode, About
    <3>  QED  BY <1>1, <1>4, <3>1, <3>2, <3>3, <3>4, <3>5 DEF Frame
  <2>3. pc' = "batch" => IsProjection(saved.projected)'
    <3>1. CASE RelateDone
      BY <2>1, <3>1 DEF RelateDone, TypeInv, IsProjection, Planned, IsCode, About
    <3>2. CASE ~RelateDone
      BY <1>1, <2>1, <3>2 DEF Frame, TypeInv, IsProjection, Planned, IsCode, About
    <3>  QED  BY <3>1, <3>2
  <2>4. skipped' \subseteq Planned
    <3>1. CASE Revalidate
      <4>1. Skipped \subseteq Planned
        BY DEF Skipped, ItemDescriptors
      <4>  QED  BY <4>1, <3>1 DEF Revalidate
    <3>2. CASE ~Revalidate
      BY <1>1, <3>2 DEF Frame, TypeInv
    <3>  QED  BY <3>1, <3>2
  <2>5. pc' = "plan" => skipped' = {}
    BY <1>1 DEF Frame, Moves, TypeInv, Revalidate
  <2>  QED  BY <1>2, <2>1, <2>2, <2>3, <2>4, <2>5 DEF TypeInv, Planned
<1>  QED  BY <1>3, <1>4

-------------------------------------------------------------------------------
(* Execution units                                                          *)

(* A model wrote the safe unit, and it was accepted. *)
UnitOf(s, kept) == [i \in kept |-> Act(Source(s), i)]

ModelWrote(s, kept, lattice) ==
    /\ \A x \in CodeItems(s) : ModelUnitAccepted(Source(s), x, UnitOf(s, kept))
    /\ lattice = WithModelUnit(Source(s), CodeItems(s), UnitOf(s, kept))

(* The units of a script are the lattice of its items, or that with the safe *)
(* unit of a lone item as a model wrote it.                                  *)
UnitsAreBuilt ==
    /\ pc = "plan" => units = <<>>
    /\ \A s \in DOMAIN units :
           \/ units[s] = Lattice(Source(s), CodeItems(s))
           \/ \E kept \in SUBSET Positions(Source(s)) : ModelWrote(s, kept, units[s])

LEMMA ItemsFinite ==
    ASSUME TypeInv
    PROVE  /\ IsFiniteSet(Candidates)
           /\ \A S \in SUBSET Planned : IsFiniteSet(S)
           /\ \A s : IsFiniteSet(ItemsIn(s)) /\ IsFiniteSet(CodeItems(s))
<1>1. IsFiniteSet(Candidates)
  <2>1. IsFiniteSet(DOMAIN Order)
    <3>1. Len(Order) \in Nat /\ DOMAIN Order = 1..Len(Order)
      BY OrderAssumption
    <3>  QED  BY <3>1, FS_Interval
  <2>2. Candidates = {Order[i] : i \in DOMAIN Order}
    BY OrderAssumption
  <2>  QED  BY <2>1, <2>2, ImageFinite
<1>2. \A S \in SUBSET Planned : IsFiniteSet(S)
  BY <1>1, FS_Subset DEF TypeInv
<1>3. ASSUME NEW s PROVE IsFiniteSet(ItemsIn(s)) /\ IsFiniteSet(CodeItems(s))
  <2>1. IsFiniteSet(ItemsIn(s))
    BY <1>2 DEF ItemsIn
  <2>  DEFINE f == [c \in ItemsIn(s) |-> CodeItem(c)]
  <2>2. DOMAIN f = ItemsIn(s) /\ CodeItems(s) = {f[c] : c \in ItemsIn(s)}
    BY DEF CodeItems
  <2>  HIDE DEF f
  <2>  QED  BY <2>1, <2>2, ImageFinite
<1>  QED  BY <1>1, <1>2, <1>3

LEMMA ItemsAreGrounded ==
    ASSUME TypeInv, NEW s, NEW x \in CodeItems(s)
    PROVE  Source(s).code \in Seq(Statement) /\ Grounded(Source(s), x)
<1>1. PICK c \in Planned : IsCode(c) /\ About(c).source = s /\ x = CodeItem(c)
  BY DEF CodeItems, ItemsIn
<1>2. c \in Candidates /\ input \in Inputs
  BY DEF TypeInv
<1>3. input.about[c].source = s /\ input.about[c].layer = "code"
  BY <1>1 DEF IsCode, About
<1>4. s \in DOMAIN input.sources
      /\ Grounded(input.sources[s], [id |-> c, raw |-> input.about[c].raw,
                    line |-> input.about[c].line, alt |-> input.about[c].alt])
  BY <1>2, <1>3, InputsAssumption
<1>5. input.sources[s].code \in Seq(Statement)
  BY <1>2, <1>4, InputsAssumption
<1>  QED  BY <1>1, <1>4, <1>5 DEF Source, CodeItem, About

LEMMA LatticeDomain ==
    ASSUME NEW src, NEW items, NEW unit
    PROVE  /\ DOMAIN Lattice(src, items) = SUBSET items
           /\ DOMAIN WithModelUnit(src, items, unit) = SUBSET items
<1>1. DOMAIN Lattice(src, items) = SUBSET items
  BY DEF Lattice
<1>  QED  BY <1>1 DEF WithModelUnit

LEMMA UnitsAreNarrow ==
    ASSUME TypeInv, UnitsAreBuilt
    PROVE  /\ NeverBroadened
           /\ \A s \in DOMAIN units : DOMAIN units[s] = SUBSET CodeItems(s)
<1>1. ASSUME NEW s \in DOMAIN units PROVE DOMAIN units[s] = SUBSET CodeItems(s)
  <2>1. /\ DOMAIN Lattice(Source(s), CodeItems(s)) = SUBSET CodeItems(s)
        /\ \A unit : DOMAIN WithModelUnit(Source(s), CodeItems(s), unit) = SUBSET CodeItems(s)
    BY LatticeDomain
  <2>2. CASE units[s] = Lattice(Source(s), CodeItems(s))
    BY <2>1, <2>2, Zenon
  <2>3. ASSUME NEW kept \in SUBSET Positions(Source(s)), ModelWrote(s, kept, units[s])
        PROVE  DOMAIN units[s] = SUBSET CodeItems(s)
    <3>1. units[s] = WithModelUnit(Source(s), CodeItems(s), UnitOf(s, kept))
      BY <2>3, Zenon DEF ModelWrote
    <3>  QED  BY <2>1, <3>1, Zenon
  <2>4. \/ units[s] = Lattice(Source(s), CodeItems(s))
        \/ \E kept \in SUBSET Positions(Source(s)) : ModelWrote(s, kept, units[s])
    BY Zenon DEF UnitsAreBuilt
  <2>  QED  BY <2>2, <2>3, <2>4, Zenon
<1>2. ASSUME NEW s \in DOMAIN units, NEW allowed \in DOMAIN units[s],
             NEW x \in CodeItems(s) \ allowed,
             NEW i \in Target(Source(s), x) \cap DOMAIN units[s][allowed].unit
      PROVE  \/ units[s][allowed].unit[i] # Act(Source(s), i)
             \/ WrittenByModel(s)
                /\ Doubles(Source(s), x) \ DOMAIN units[s][allowed].unit # {}
  <2>1. /\ Source(s).code \in Seq(Statement) /\ IsFiniteSet(CodeItems(s))
        /\ \A y \in CodeItems(s) : Grounded(Source(s), y)
    BY ItemsAreGrounded, ItemsFinite
  <2>2. allowed \in SUBSET CodeItems(s)
    BY <1>1
  <2>3. CASE units[s][allowed] = Lattice(Source(s), CodeItems(s))[allowed]
    BY <2>1, <2>2, <2>3, LatticeIsNarrow
  <2>4. CASE units[s][allowed] # Lattice(Source(s), CodeItems(s))[allowed]
    <3>1. PICK kept \in SUBSET Positions(Source(s)) : ModelWrote(s, kept, units[s])
      BY <2>4 DEF UnitsAreBuilt
    <3>2. units[s][allowed].unit = UnitOf(s, kept)
      <4>  DEFINE src   == Source(s)
                  items == CodeItems(s)
                  unit  == UnitOf(s, kept)
                  built == WithModelUnit(src, items, unit)
      <4>1. units[s] = built /\ allowed \in SUBSET items
            /\ units[s][allowed] # Lattice(src, items)[allowed]
        BY <2>2, <2>4, <3>1 DEF ModelWrote
      <4>  HIDE DEF src, items, unit
      <4>2. DOMAIN Lattice(src, items) = SUBSET items
        BY LatticeDomain
      <4>3. built = [Lattice(src, items) EXCEPT ![{}] = [unit |-> unit, complete |-> TRUE]]
        BY DEF WithModelUnit
      <4>  HIDE DEF built
      <4>4. units[s][allowed].unit = unit
        BY <4>1, <4>2, <4>3
      <4>  QED  BY <4>4 DEF unit
    <3>3. i \in Target(Source(s), x) \cap kept /\ DOMAIN UnitOf(s, kept) = kept
      BY <3>2 DEF UnitOf
    <3>4. ModelUnitAccepted(Source(s), x, UnitOf(s, kept))
      BY <3>1 DEF ModelWrote
    <3>5. Doubles(Source(s), x) \ kept # {}
      BY <2>1, <3>3, <3>4, ModelUnitIsNarrow DEF UnitOf
    <3>6. WrittenByModel(s)
      BY <2>4 DEF WrittenByModel, Units
    <3>  QED  BY <3>2, <3>3, <3>5, <3>6
  <2>  QED  BY <2>3, <2>4
<1>3. NeverBroadened
  BY <1>2 DEF NeverBroadened
<1>  QED  BY <1>1, <1>3

LEMMA InitUnits == Init => UnitsAreBuilt
  BY DEF Init, ProjectionInit, UnitsAreBuilt

LEMMA StepUnits == UnitsAreBuilt /\ [Next]_vars => UnitsAreBuilt'
<1>  SUFFICES ASSUME UnitsAreBuilt, [Next]_vars PROVE UnitsAreBuilt'
  OBVIOUS
<1>1. Frame
  BY Frames
<1>2. CASE BeginRepair
  <2>1. units = <<>> /\ units' = units /\ pc' = "code"
    BY <1>2 DEF BeginRepair, Plan, UnitsAreBuilt
  <2>  QED  BY <2>1 DEF UnitsAreBuilt
<1>3. CASE ~BeginRepair
  <2>1. plan' = plan /\ input' = input
    BY <1>1, <1>3 DEF Frame
  <2>2. /\ \A s : Source(s)' = Source(s) /\ CodeItems(s)' = CodeItems(s)
        /\ \A s, kept, lattice : ModelWrote(s, kept, lattice)' = ModelWrote(s, kept, lattice)
    <3>1. \A s : Source(s)' = Source(s) /\ CodeItems(s)' = CodeItems(s)
      BY <2>1 DEF Source, CodeItems, ItemsIn, CodeItem, Planned, IsCode, About
    <3>2. \A s, kept : UnitOf(s, kept)' = UnitOf(s, kept)
      BY <3>1 DEF UnitOf
    <3>3. \A s, kept, lattice : ModelWrote(s, kept, lattice)' = ModelWrote(s, kept, lattice)
      BY <3>1, <3>2 DEF ModelWrote
    <3>  QED  BY <3>1, <3>3
  <2>3. CASE units' = units /\ (pc' = "plan" => pc = "plan")
    BY <2>2, <2>3 DEF UnitsAreBuilt
  <2>4. CASE RewriteSource
    <3>1. units' = WithUnits(Head(queue), Units(Head(queue))) /\ pc' # "plan"
      BY <2>4 DEF RewriteSource
    <3>2. /\ DOMAIN units' = DOMAIN units \cup {Head(queue)}
          /\ units'[Head(queue)] = Lattice(Source(Head(queue)), CodeItems(Head(queue)))
          /\ \A s \in DOMAIN units : s # Head(queue) => units'[s] = units[s]
      BY <3>1 DEF Units, WithUnits
    <3>  QED  BY <2>2, <3>1, <3>2 DEF UnitsAreBuilt
  <2>5. CASE RewriteSourceWithModel
    <3>  DEFINE s == Head(queue)
    <3>1. PICK kept \in SUBSET Positions(Source(s)) :
             /\ \A x \in CodeItems(s) :
                    ModelUnitAccepted(Source(s), x, [i \in kept |-> Act(Source(s), i)])
             /\ units' = WithUnits(s, WithModelUnit(Source(s), CodeItems(s),
                                                    [i \in kept |-> Act(Source(s), i)]))
             /\ pc' # "plan"
      BY <2>5 DEF RewriteSourceWithModel
    <3>2. /\ DOMAIN units' = DOMAIN units \cup {s}
          /\ ModelWrote(s, kept, units'[s])
          /\ \A r \in DOMAIN units : r # s => units'[r] = units[r]
      BY <3>1 DEF WithUnits, ModelWrote, UnitOf
    <3>  HIDE DEF s
    <3>  QED  BY <2>2, <3>1, <3>2 DEF UnitsAreBuilt
  <2>6. pc' = "plan" => pc = "plan"
    BY <1>1 DEF Frame, Moves
  <2>  QED  BY <1>1, <1>3, <2>3, <2>4, <2>5, <2>6 DEF Frame
<1>  QED  BY <1>2, <1>3

-------------------------------------------------------------------------------
(* Its preservation                                                         *)

LEMMA InitIInv == Init => IInv
<1>  SUFFICES ASSUME Init PROVE IInv
  OBVIOUS
<1>  USE DEF Init, ProjectionInit
<1>1. PlanIsBuilt
  BY DEF PlanIsBuilt
<1>2. FilesInv
  BY ResultNames DEF FilesInv, AfterSuccess, AfterFailure, Have, Late
<1>3. ReportInv
  BY DEF ReportInv, IncompleteNeverRepaired
<1>  QED  BY <1>1, <1>2, <1>3 DEF IInv

(* The plan is made once, from the input. *)
LEMMA PlanStep ==
    ASSUME Plan
    PROVE  PlanIsBuilt'
<1>1. PICK proposal \in [input.descriptors -> input.answers], answer \in GuardAnswers :
         plan' = [c \in {x \in Candidates : Confirmed(x, proposal)} |->
                     BuildItem(ClustersOf(c, proposal), answer)]
  BY DEF Plan
<1>2. ASSUME NEW c \in DOMAIN plan'
      PROVE  plan'[c] = BuildItem(ClustersOf(c, proposal), answer)'
  <2>1. plan'[c] = BuildItem(ClustersOf(c, proposal), answer) /\ input' = input
    BY <1>1, <1>2 DEF Plan
  <2>2. ClustersOf(c, proposal)' = ClustersOf(c, proposal)
    BY <2>1 DEF ClustersOf, DescriptorsOf
  <2>3. BuildItem(ClustersOf(c, proposal), answer)' = BuildItem(ClustersOf(c, proposal), answer)
    BY <2>2 DEF BuildItem
  <2>  QED  BY <2>1, <2>3
<1>  QED  BY <1>2 DEF PlanIsBuilt

LEMMA PlanKept ==
    ASSUME PlanIsBuilt, plan' = plan, input' = input
    PROVE  PlanIsBuilt'
  BY DEF PlanIsBuilt, ClustersOf, DescriptorsOf

(* The stages of the projection come after the plan and before the replay. *)
LEMMA ProjectionStages ==
    ASSUME ProjectionNext
    PROVE  /\ pc \in {"code", "dispatch", "relate", "batch"}
           /\ pc' \in {"code", "dispatch", "relate", "batch", "projected", "failed"}
           /\ plan' = plan /\ input' = input
<1>  USE DEF Failing
<1>1. CASE RewriteSource \/ RewriteSourceWithModel \/ ResourceMissing \/ SourcesDone
  BY <1>1 DEF RewriteSource, RewriteSourceWithModel, ResourceMissing, SourcesDone
<1>2. CASE DispatchSource \/ NotInvoked \/ DispatchDone
  BY <1>2 DEF DispatchSource, NotInvoked, DispatchDone
<1>3. CASE RelateInstruction \/ RelateDone
  BY <1>3 DEF RelateInstruction, RelateDone
<1>4. CASE ProjectGroup \/ GroupFails \/ BatchDone
  BY <1>4 DEF ProjectGroup, GroupFails, BatchDone
<1>  QED  BY <1>1, <1>2, <1>3, <1>4 DEF ProjectionNext

(* A report says nothing new about what is not touched. *)
LEMMA ReportKept ==
    ASSUME ReportInv, pc \in Late => pc' \in Late,
           UNCHANGED <<input, plan, units, doc, projected, report>>
    PROVE  ReportInv'
  BY DEF ReportInv, IncompleteNeverRepaired, IsCode, About, SafeProved

LEMMA NoReport ==
    ASSUME report' = {}
    PROVE  ReportInv'
  BY DEF ReportInv, IncompleteNeverRepaired

LEMMA StepIInv == IInv /\ [Next]_vars => IInv'
<1>  SUFFICES ASSUME IInv, [Next]_vars PROVE IInv'
  OBVIOUS
<1>  USE DEF IInv
<1>1. CASE BeginRepair
  <2>1. PlanIsBuilt'
    BY <1>1, PlanStep DEF BeginRepair
  <2>2. FilesInv'
    BY <1>1, ResultNames
    DEF FilesInv, BeginRepair, Plan, Written, Prepared, Have, Late
  <2>3. report' = {}
    BY <1>1 DEF BeginRepair, Plan, ReportInv, Late
  <2>  QED  BY <2>1, <2>2, <2>3, NoReport
<1>2. CASE Project
  <2>1. PlanIsBuilt'
    BY <1>2, PlanKept, ProjectionStages DEF Project
  <2>2. FilesInv'
    BY <1>2, ResultNames, ProjectionStages
    DEF FilesInv, Project, Written, Prepared, Have, Late
  <2>3. report' = {}
    BY <1>2, ProjectionStages DEF Project, ReportInv, Late
  <2>  QED  BY <2>1, <2>2, <2>3, NoReport
<1>3. CASE Revalidate
  <2>1. PlanIsBuilt'
    BY <1>3, PlanKept DEF Revalidate
  <2>2. FilesInv'
    BY <1>3 DEF FilesInv, Revalidate, Have, Late
  <2>3. report' = {}
    BY <1>3 DEF Revalidate, ReportInv, Late
  <2>  QED  BY <2>1, <2>2, <2>3, NoReport
<1>4. CASE RevalidateFails
  <2>1. PlanIsBuilt'
    BY <1>4, PlanKept DEF RevalidateFails
  <2>2. FilesInv'
    BY <1>4, ResultNames
    DEF FilesInv, RevalidateFails, Failing, Written, Prepared, Have, Late
  <2>3. report' = {}
    BY <1>4 DEF RevalidateFails, ReportInv, Late
  <2>  QED  BY <2>1, <2>2, <2>3, NoReport
<1>5. CASE ReplayContext
  <2>1. PlanIsBuilt'
    BY <1>5, PlanKept DEF ReplayContext, pvars
  <2>2. FilesInv'
    BY <1>5 DEF FilesInv, ReplayContext, pvars, Have, Late
  <2>3. ReportInv'
    BY <1>5, ReportKept DEF ReplayContext, pvars
  <2>  QED  BY <2>1, <2>2, <2>3
<1>6. CASE ReplayDone
  <2>1. PlanIsBuilt'
    BY <1>6, PlanKept DEF ReplayDone
  <2>2. FilesInv'
    <3>1. Results = SubSeq(Results, 1, 4)
      BY ResultNames DEF Results
    <3>2. \A i \in DOMAIN Results : Have(i)' <=> i < 1
      BY <1>6, ResultNames DEF ReplayDone, FilesInv, Late, Have
    <3>  QED
      BY <1>6, <3>1, <3>2, ResultNames DEF FilesInv, ReplayDone, Have, Late
  <2>3. ReportInv'
    <3>1. ASSUME NEW c \in RepairedCandidates
          PROVE  c \in DOMAIN plan /\ Integrity(c)
      BY DEF RepairedCandidates, Planned
    <3>2. pc' \in Late /\ report' = RepairedCandidates
          /\ UNCHANGED <<input, plan, units, projected>>
      BY <1>6 DEF ReplayDone, Late
    <3>3. IncompleteNeverRepaired'
      BY <3>1, <3>2, IntegrityProved
      DEF IncompleteNeverRepaired, IsCode, About, SafeProved
    <3>  QED  BY <3>1, <3>2, <3>3 DEF ReportInv
  <2>  QED  BY <2>1, <2>2, <2>3
<1>7. CASE WriteArtifact
  <2>1. PlanIsBuilt'
    BY <1>7, PlanKept DEF WriteArtifact
  <2>2. FilesInv'
    <3>1. PICK k \in 1..4 :
             /\ queue = SubSeq(Results, k, 4)
             /\ \A i \in DOMAIN Results : Have(i) <=> i < k
      BY <1>7, ResultNames DEF WriteArtifact, FilesInv
    <3>2. Head(queue) = Results[k] /\ Len(queue) = 5 - k
          /\ Tail(queue) = SubSeq(Results, k + 1, 4)
      BY <3>1, ResultNames DEF Results
    <3>3. files' = [a \in Artifacts |->
                      IF a = Results[k] THEN "current" ELSE files[a]]
      BY <1>7, <3>2 DEF WriteArtifact, Written
    <3>4. \A i \in 1..4 : Have(i)' <=> i < k + 1
      BY <3>1, <3>3, ResultNames DEF Have
    <3>5. pc' = "write" => k + 1 \in 1..4
      BY <1>7, <3>1, <3>2, ResultNames DEF WriteArtifact, Results
    <3>6. pc = "write" /\ pc' \in {"write", "done"}
          /\ queue' = SubSeq(Results, k + 1, 4)
      BY <1>7, <3>2 DEF WriteArtifact
    <3>  QED
      BY <3>1, <3>3, <3>4, <3>5, <3>6, ResultNames DEF FilesInv, Late, Have
  <2>3. ReportInv'
    BY <1>7, ReportKept DEF WriteArtifact, Late
  <2>  QED  BY <2>1, <2>2, <2>3
<1>8. CASE Crash
  <2>1. PlanIsBuilt'
    BY <1>8, PlanKept DEF Crash
  <2>2. FilesInv'
    BY <1>8 DEF FilesInv, Crash, rvars, Have, Late
  <2>3. ReportInv'
    BY <1>8, ReportKept DEF Crash, rvars, Late
  <2>  QED  BY <2>1, <2>2, <2>3
<1>9. CASE UNCHANGED vars
  BY <1>9, PlanKept, ReportKept DEF vars, pvars, rvars, FilesInv, Have, Late
<1>  QED  BY <1>1, <1>2, <1>3, <1>4, <1>5, <1>6, <1>7, <1>8, <1>9 DEF Next

-------------------------------------------------------------------------------
(* What becomes of the instructions                                         *)

Instructions == {c \in Planned : ~IsCode(c)}

(* An instruction is projected as it was decided, or guarded when nothing    *)
(* was found to cover it.                                                    *)
Settled(c) ==
    \/ projected[c] = Decided(c)
    \/ Decided(c) = Pending /\ projected[c] = [strategy |-> "guarded", covering |-> {}]

Lone == {c \in Instructions : Decided(c) = Pending}

DecidedInv ==
    /\ pc \in {"code", "dispatch"} => \A c \in Instructions : projected[c] = Pending
    /\ pc = "relate" =>
           /\ queue \in Seq(Instructions)
           /\ \A c \in Instructions :
                  \/ projected[c] = Decided(c)
                  \/ projected[c] = Pending /\ \E i \in DOMAIN queue : queue[i] = c
    /\ pc = "batch" => queue \in Seq(Lone)
    /\ pc \in {"batch", "projected", "replay"} => \A c \in Instructions : Settled(c)

LEMMA RankFacts ==
    \A c \in Candidates : RankOf(c) \in Nat /\ RankOf(c) \in DOMAIN Order /\ Order[RankOf(c)] = c
  BY OrderAssumption DEF RankOf

LEMMA SortedFacts ==
    ASSUME TypeInv, NEW S \in SUBSET Planned
    PROVE  /\ Sorted(S) \in Seq(S)
           /\ \A c \in S : \E i \in DOMAIN Sorted(S) : Sorted(S)[i] = c
           /\ \A i, j \in DOMAIN Sorted(S) : Sorted(S)[i] = Sorted(S)[j] => i = j
           /\ \A i, j \in DOMAIN Sorted(S) : i < j => Before(Sorted(S)[i], Sorted(S)[j])
<1>  DEFINE R == {e \in S \X S : Before(e[1], e[2])}
            n == Cardinality(S)
            below(c) == {d \in S : Before(d, c)}
<1>1. IsFiniteSet(S) /\ n \in Nat
  BY ItemsFinite, FS_CardinalityType
<1>2. ASSUME NEW c \in S
      PROVE  /\ c \in Candidates
             /\ About(c).first \in Nat /\ About(c).last \in Nat /\ RankOf(c) \in Nat
             /\ Order[RankOf(c)] = c
  BY RankFacts, InputsAssumption DEF TypeInv, About
<1>3. \A a \in S : <<a, a>> \notin R
  BY <1>2 DEF Before
<1>4. \A a, b, c \in S : <<a, b>> \in R /\ <<b, c>> \in R => <<a, c>> \in R
  <2>  SUFFICES ASSUME NEW a \in S, NEW b \in S, NEW c \in S, Before(a, b), Before(b, c)
                PROVE  Before(a, c)
    OBVIOUS
  <2>  QED  BY <1>2 DEF Before
<1>5. \A a, b \in S : a # b => <<a, b>> \in R \/ <<b, a>> \in R
  <2>  SUFFICES ASSUME NEW a \in S, NEW b \in S, a # b PROVE Before(a, b) \/ Before(b, a)
    OBVIOUS
  <2>1. RankOf(a) # RankOf(b)
    BY <1>2
  <2>  QED  BY <1>2, <2>1 DEF Before
<1>6. \A c \in S : {d \in S : <<d, c>> \in R} = below(c)
  OBVIOUS
<1>61. \A b, c \in S : Before(b, c) => below(b) \subseteq below(c)
  BY <1>4
<1>62. \A b, c \in S : b # c => Before(b, c) \/ Before(c, b)
  BY <1>5
<1>63. \A b, c \in S : Before(b, c) => Cardinality(below(b)) <= Cardinality(below(c))
  <2>1. \A c \in S : below(c) \subseteq S
    OBVIOUS
  <2>  HIDE DEF below
  <2>  QED  BY <1>1, <1>61, <2>1, FS_Subset
<1>  HIDE DEF R
<1>7. /\ \A i \in 1..Cardinality(S) :
             \E c \in S : Cardinality({d \in S : <<d, c>> \in R}) = i - 1
      /\ \A c \in S : \E i \in 1..Cardinality(S) :
             Cardinality({d \in S : <<d, c>> \in R}) = i - 1
      /\ \A b, c \in S :
             Cardinality({d \in S : <<d, b>> \in R}) =
             Cardinality({d \in S : <<d, c>> \in R}) => b = c
  BY <1>1, <1>3, <1>4, <1>5, Ranked
<1>8. /\ \A i \in 1..n : \E c \in S : Cardinality(below(c)) = i - 1
      /\ \A c \in S : \E i \in 1..n : Cardinality(below(c)) = i - 1
      /\ \A b, c \in S : Cardinality(below(b)) = Cardinality(below(c)) => b = c
  BY <1>6, <1>7
<1>9. Sorted(S) = [i \in 1..n |-> CHOOSE c \in S : Cardinality(below(c)) = i - 1]
  BY DEF Sorted
<1>  DEFINE s == Sorted(S)
<1>  HIDE DEF below, n
<1>10. DOMAIN s = 1..n
       /\ \A i \in 1..n : s[i] \in S /\ Cardinality(below(s[i])) = i - 1
  BY <1>8, <1>9
<1>11. s = [i \in 1..n |-> s[i]]
  BY <1>9
<1>  HIDE DEF s
<1>12. s \in Seq(S)
  BY <1>1, <1>10, <1>11
<1>13. \A c \in S : \E i \in DOMAIN s : s[i] = c
  BY <1>8, <1>10
<1>14. \A i, j \in DOMAIN s : s[i] = s[j] => i = j
  BY <1>1, <1>10
<1>15. ASSUME NEW i \in DOMAIN s, NEW j \in DOMAIN s, i < j PROVE Before(s[i], s[j])
  <2>1. s[i] \in S /\ s[j] \in S /\ i \in Nat /\ j \in Nat
    BY <1>1, <1>10
  <2>2. Cardinality(below(s[i])) = i - 1 /\ Cardinality(below(s[j])) = j - 1
    BY <1>10
  <2>3. s[i] # s[j]
    BY <1>14, <1>15, <2>1
  <2>4. ~Before(s[j], s[i])
    <3>1. Before(s[j], s[i]) => j - 1 <= i - 1
      BY <1>63, <2>1, <2>2
    <3>  QED  BY <1>15, <2>1, <3>1
  <2>  QED  BY <1>62, <2>1, <2>3, <2>4
<1>  QED  BY <1>12, <1>13, <1>14, <1>15 DEF s

(* Items in the order of their identifiers. *)
LEMMA InOrderFacts ==
    ASSUME NEW S \in SUBSET Candidates
    PROVE  InOrder(S) \in Seq(S) /\ \A c \in S : \E i \in DOMAIN InOrder(S) : InOrder(S)[i] = c
<1>  DEFINE s == InOrder(S)
<1>1. ToSet(s) = ToSet(Order) \cap S
  BY OrderAssumption, FilterElements DEF InOrder
<1>2. s \in Seq(Candidates)
  <2>1. \A u \in Seq(Candidates) : Filter(u, S) \in Seq(Candidates)
    BY FilterAppend
  <2>  QED  BY <2>1, OrderAssumption DEF InOrder
<1>3. ToSet(Order) = Candidates
  BY OrderAssumption DEF ToSet
<1>  HIDE DEF s
<1>4. \A i \in 1..Len(s) : s[i] \in S
  BY <1>1, <1>2 DEF ToSet
<1>5. s \in Seq(S)
  BY <1>2, <1>4
<1>6. \A c \in S : \E i \in DOMAIN s : s[i] = c
  BY <1>1, <1>3 DEF ToSet
<1>  QED  BY <1>5, <1>6 DEF s

(* What is decided when nothing covers an instruction. *)
LEMMA DecidedFacts ==
    ASSUME NEW c
    PROVE  /\ Decided(c).strategy \in {"equivalent", "causal", "conflict", "none"}
           /\ Decided(c).strategy = "none" => Decided(c) = Pending
           /\ Decided(c) = Pending => Related(c) = {}
           /\ Decided(c).strategy = "equivalent" =>
                  /\ Decided(c).covering = {k \in Related(c) : Equivalent(c, k)}
                  /\ Decided(c).covering # {}
           /\ Decided(c).strategy = "causal" =>
                  Decided(c).covering = CausalCover(c) /\ Decided(c).covering # {}
<1>  DEFINE E == {k \in Related(c) : Equivalent(c, k)}
            C == CausalCover(c)
<1>1. Decided(c) = IF E # {} THEN [strategy |-> "equivalent", covering |-> E]
                   ELSE IF C # {} THEN [strategy |-> "causal", covering |-> C]
                   ELSE IF Related(c) # {} THEN [strategy |-> "conflict", covering |-> {}]
                   ELSE Pending
  BY DEF Decided
<1>  HIDE DEF E, C
<1>2. CASE E # {}
  BY <1>1, <1>2 DEF Pending, E
<1>3. CASE E = {} /\ C # {}
  BY <1>1, <1>3 DEF Pending, C
<1>4. CASE E = {} /\ C = {}
  BY <1>1, <1>4 DEF Pending
<1>  QED  BY <1>2, <1>3, <1>4

LEMMA StandaloneAreLone ==
    ASSUME \A c \in Instructions : Settled(c)
    PROVE  Standalone \subseteq Lone
<1>  SUFFICES ASSUME NEW c \in Standalone PROVE c \in Lone
  OBVIOUS
<1>1. c \in Instructions /\ projected[c].strategy = "none"
  BY DEF Standalone, Instructions
<1>2. CASE projected[c] = Decided(c)
  BY <1>1, <1>2, DecidedFacts DEF Lone
<1>3. CASE projected[c] # Decided(c)
  BY <1>1, <1>3 DEF Settled, Lone
<1>  QED  BY <1>2, <1>3

LEMMA InitDecided == Init => DecidedInv
  BY DEF Init, ProjectionInit, DecidedInv

(* What was decided stays so once the units are written. *)
LEMMA DecisionsKept ==
    ASSUME UNCHANGED <<input, plan, units>>
    PROVE  /\ Instructions' = Instructions
           /\ \A c : Decided(c)' = Decided(c)
           /\ Lone' = Lone
<1>  USE DEF About, IsCode, Planned, Source
<1>1. Instructions' = Instructions
  BY DEF Instructions
<1>2. \A c : Decided(c)' = Decided(c)
  <2>  TAKE c
  <2>1. Related(c)' = Related(c)
    BY DEF Related
  <2>2. \A k : Equivalent(c, k)' = Equivalent(c, k)
    BY DEF Equivalent
  <2>3. CausalCover(c)' = CausalCover(c)
    BY <2>1 DEF CausalCover, MaterialActions, Overprivileged, SafeProved, EnvelopeRewritten,
                Alone, ItemsIn, DescriptorsOf
  <2>  QED  BY <2>1, <2>2, <2>3 DEF Decided, Pending
<1>  QED  BY <1>1, <1>2 DEF Lone, Pending

LEMMA StepDecided == TypeInv /\ DecidedInv /\ [Next]_vars => DecidedInv'
<1>  SUFFICES ASSUME TypeInv, DecidedInv, [Next]_vars PROVE DecidedInv'
  OBVIOUS
<1>1. Frame
  BY Frames
<1>2. CASE BeginRepair
  <2>1. pc' = "code" /\ projected' = [c \in DOMAIN plan' |-> Pending]
    BY <1>2 DEF BeginRepair, Plan
  <2>  QED  BY <2>1 DEF DecidedInv, Instructions, Planned, Pending
<1>3. CASE pc = "code" /\ ~BeginRepair
  <2>1. plan' = plan /\ input' = input /\ projected' = projected
        /\ pc' \notin {"relate", "batch", "projected", "replay"}
    <3>1. ~DispatchSource /\ ~RelateInstruction /\ ~ProjectGroup /\ ~GroupFails
      BY <1>3 DEF DispatchSource, RelateInstruction, ProjectGroup, GroupFails
    <3>  QED  BY <1>1, <1>3, <3>1 DEF Frame, Moves
  <2>2. Instructions' = Instructions
    BY <2>1 DEF Instructions, Planned, IsCode, About
  <2>  QED  BY <1>3, <2>1, <2>2 DEF DecidedInv, Pending
<1>4. CASE pc # "code" /\ ~BeginRepair
  <2>1. UNCHANGED <<input, plan, units>>
    BY <1>1, <1>4 DEF Frame, RewriteSource, RewriteSourceWithModel
  <2>2. /\ Instructions' = Instructions /\ Lone' = Lone
        /\ \A c : Decided(c)' = Decided(c)
    BY <2>1, DecisionsKept
  <2>3. Pending' = Pending
    BY DEF Pending
  <2>4. CASE UNCHANGED <<pc, queue, projected>>
    BY <2>2, <2>3, <2>4 DEF DecidedInv, Settled
  <2>5. CASE DispatchSource
    <3>1. /\ pc = "dispatch" /\ pc' = "dispatch"
          /\ \A c \in Instructions : projected'[c] = projected[c]
      BY <2>5 DEF DispatchSource, ItemsIn, Instructions
    <3>  QED  BY <2>2, <2>3, <3>1 DEF DecidedInv
  <2>6. CASE DispatchDone
    <3>1. pc = "dispatch" /\ pc' = "relate" /\ projected' = projected
          /\ queue' = InOrder(Instructions)
      BY <2>6 DEF DispatchDone, Instructions
    <3>2. Instructions \in SUBSET Candidates
      BY DEF Instructions, TypeInv
    <3>3. /\ queue' \in Seq(Instructions)
          /\ \A c \in Instructions : \E i \in DOMAIN queue' : queue'[i] = c
      BY <3>1, <3>2, InOrderFacts
    <3>  QED  BY <2>2, <2>3, <3>1, <3>3 DEF DecidedInv
  <2>7. CASE RelateInstruction
    <3>1. /\ pc = "relate" /\ pc' = "relate" /\ queue # <<>> /\ queue' = Tail(queue)
          /\ projected' = [projected EXCEPT ![Head(queue)] = Decided(Head(queue))]
          /\ queue \in Seq(Instructions)
      BY <2>7 DEF RelateInstruction, DecidedInv
    <3>2. queue' \in Seq(Instructions)
          /\ \A i \in DOMAIN queue :
               queue[i] = Head(queue) \/ \E j \in DOMAIN queue' : queue'[j] = queue[i]
      <4>1. queue' \in Seq(Instructions) /\ Len(queue') = Len(queue) - 1
            /\ \A j \in 1..Len(queue') : queue'[j] = queue[j + 1]
        BY <3>1
      <4>2. ASSUME NEW i \in DOMAIN queue, i # 1
            PROVE  \E j \in DOMAIN queue' : queue'[j] = queue[i]
        <5>1. i - 1 \in 1..Len(queue') /\ (i - 1) + 1 = i
          BY <3>1, <4>1, <4>2
        <5>  QED  BY <4>1, <5>1
      <4>  QED  BY <3>1, <4>1, <4>2
    <3>3. ASSUME NEW c \in Instructions
          PROVE  \/ projected'[c] = Decided(c)
                 \/ projected'[c] = Pending /\ \E i \in DOMAIN queue' : queue'[i] = c
      <4>1. c \in DOMAIN projected
        BY DEF TypeInv, IsProjection, Instructions
      <4>2. CASE c = Head(queue)
        BY <3>1, <4>1, <4>2
      <4>3. CASE c # Head(queue)
        <5>1. projected'[c] = projected[c]
          BY <3>1, <4>3
        <5>  QED  BY <3>1, <3>2, <4>3, <5>1 DEF DecidedInv
      <4>  QED  BY <4>2, <4>3
    <3>  QED  BY <2>2, <2>3, <3>1, <3>2, <3>3 DEF DecidedInv
  <2>8. CASE RelateDone
    <3>  DEFINE leaders == {c \in Standalone : \A d \in GroupOf(c) : RankOf(c) <= RankOf(d)}
    <3>1. pc = "relate" /\ pc' = "batch" /\ queue = <<>> /\ projected' = projected
          /\ queue' = Sorted(leaders)
      BY <2>8 DEF RelateDone
    <3>2. \A c \in Instructions : projected[c] = Decided(c)
      BY <3>1 DEF DecidedInv
    <3>3. \A c \in Instructions : Settled(c)
      BY <3>2 DEF Settled
    <3>4. Standalone \subseteq Lone
      BY <3>3, StandaloneAreLone
    <3>5. leaders \in SUBSET Lone /\ leaders \in SUBSET Planned
      BY <3>4 DEF Lone, Instructions
    <3>  HIDE DEF leaders
    <3>6. Sorted(leaders) \in Seq(leaders)
      BY <3>5, SortedFacts
    <3>7. queue' \in Seq(Lone)
      BY <3>1, <3>5, <3>6, WiderSeq
    <3>  QED  BY <2>2, <2>3, <3>1, <3>2, <3>7 DEF DecidedInv, Settled
  <2>9. CASE ProjectGroup
    <3>1. /\ pc = "batch" /\ pc' = "batch" /\ queue # <<>> /\ queue' = Tail(queue)
          /\ projected' = [d \in Planned |->
                 IF d \in GroupOf(Head(queue)) THEN [strategy |-> "guarded", covering |-> {}]
                 ELSE projected[d]]
      BY <2>9 DEF ProjectGroup
    <3>2. queue \in Seq(Lone) /\ \A c \in Instructions : Settled(c)
      BY <3>1 DEF DecidedInv
    <3>3. Head(queue) \in Lone /\ queue' \in Seq(Lone)
      BY <3>1, <3>2
    <3>4. GroupOf(Head(queue)) \subseteq Lone
      BY <3>2, <3>3, StandaloneAreLone DEF GroupOf
    <3>5. ASSUME NEW c \in Instructions PROVE Settled(c)'
      <4>1. c \in Planned
        BY DEF Instructions
      <4>2. CASE c \in GroupOf(Head(queue))
        BY <2>2, <2>3, <3>1, <3>4, <4>1, <4>2 DEF Settled, Lone
      <4>3. CASE c \notin GroupOf(Head(queue))
        BY <2>2, <2>3, <3>1, <3>2, <4>1, <4>3 DEF Settled
      <4>  QED  BY <4>2, <4>3
    <3>  QED  BY <2>2, <3>1, <3>3, <3>5 DEF DecidedInv
  <2>10. CASE \/ pc' \in {"failed", "crashed", "write", "done"}
              \/ /\ UNCHANGED projected
                 /\ <<pc, pc'>> \in {<<"batch", "projected">>, <<"projected", "replay">>,
                                     <<"replay", "replay">>}
    BY <2>2, <2>3, <2>10 DEF DecidedInv, Settled
  <2>11. \/ UNCHANGED <<pc, queue, projected>>
         \/ DispatchSource \/ DispatchDone \/ RelateInstruction \/ RelateDone \/ ProjectGroup
         \/ pc' \in {"failed", "crashed", "write", "done"}
         \/ /\ UNCHANGED projected
            /\ <<pc, pc'>> \in {<<"batch", "projected">>, <<"projected", "replay">>,
                                <<"replay", "replay">>}
    <3>1. CASE Project
      <4>1. ~RewriteSource /\ ~RewriteSourceWithModel /\ ~ResourceMissing /\ ~SourcesDone
        BY <1>4 DEF RewriteSource, RewriteSourceWithModel, ResourceMissing, SourcesDone
      <4>2. CASE NotInvoked \/ GroupFails
        BY <4>2 DEF NotInvoked, GroupFails, Failing
      <4>3. CASE BatchDone
        BY <4>3 DEF BatchDone
      <4>  QED  BY <3>1, <4>1, <4>2, <4>3 DEF Project, ProjectionNext
    <3>2. CASE Revalidate
      BY <3>2 DEF Revalidate
    <3>3. CASE RevalidateFails
      BY <3>3 DEF RevalidateFails, Failing
    <3>4. CASE ReplayContext
      BY <3>4 DEF ReplayContext, pvars
    <3>5. CASE ReplayDone
      BY <3>5 DEF ReplayDone
    <3>6. CASE WriteArtifact
      BY <3>6 DEF WriteArtifact
    <3>7. CASE Crash
      BY <3>7 DEF Crash
    <3>8. CASE UNCHANGED vars
      BY <3>8 DEF vars, pvars
    <3>  QED
      BY <1>4, <3>1, <3>2, <3>3, <3>4, <3>5, <3>6, <3>7, <3>8 DEF Next
  <2>  QED  BY <2>4, <2>5, <2>6, <2>7, <2>8, <2>9, <2>10, <2>11
<1>  QED  BY <1>2, <1>3, <1>4

-------------------------------------------------------------------------------
(* One run of the patched skill                                             *)

LatticeInv == \A s \in DOMAIN units : DOMAIN units[s] = SUBSET CodeItems(s)

(* A unit that ran belongs to a rewritten script and allows items of it.     *)
LEMMA UnitsThatRan ==
    ASSUME LatticeInv, NEW c, NEW run \in PossibleRuns(c), NEW u \in run.units
    PROVE  /\ u[1] \in DOMAIN units /\ u[2] \in DOMAIN units[u[1]]
           /\ u[2] \in SUBSET CodeItems(u[1])
<1>1. u \in AllUnits
  BY DEF PossibleRuns
<1>2. PICK s \in DOMAIN units : u \in {<<s, allowed>> : allowed \in DOMAIN units[s]}
  BY <1>1 DEF AllUnits
<1>3. PICK allowed \in DOMAIN units[s] : u = <<s, allowed>>
  BY <1>2
<1>4. u[1] = s /\ u[2] = allowed
  BY <1>3
<1>  QED  BY <1>4 DEF LatticeInv

(* The statements of a code item run only in a unit that allows the item.    *)
LEMMA StatementsAreAllowed ==
    ASSUME LatticeInv, NeverBroadened, NEW c, NEW run \in PossibleRuns(c),
           NEW k \in Planned, IsCode(k), ToldApart(k), RanStatement(k, run)
    PROVE  \E u \in run.units : u[1] = About(k).source /\ CodeItem(k) \in u[2]
<1>1. PICK u \in run.units :
         /\ u[1] = About(k).source
         /\ \E i \in Held(k) \cap DOMAIN units[u[1]][u[2]].unit :
                units[u[1]][u[2]].unit[i] = Act(Source(u[1]), i)
  BY DEF RanStatement
<1>2. u[1] \in DOMAIN units /\ u[2] \in DOMAIN units[u[1]]
  BY UnitsThatRan
<1>3. CodeItem(k) \in CodeItems(u[1])
  BY <1>1 DEF CodeItems, ItemsIn
<1>4. Held(k) = Target(Source(u[1]), CodeItem(k))
  BY <1>1 DEF Held
<1>5. CodeItem(k) \in u[2]
  <2>  SUFFICES ASSUME CodeItem(k) \notin u[2] PROVE FALSE
    OBVIOUS
  <2>1. PICK i \in Target(Source(u[1]), CodeItem(k)) \cap DOMAIN units[u[1]][u[2]].unit :
           units[u[1]][u[2]].unit[i] = Act(Source(u[1]), i)
    BY <1>1, <1>4
  <2>2. /\ WrittenByModel(u[1])
        /\ Doubles(Source(u[1]), CodeItem(k)) \ DOMAIN units[u[1]][u[2]].unit # {}
    BY <1>2, <1>3, <2>1 DEF NeverBroadened
  <2>  QED  BY <1>1, <2>2 DEF ToldApart
<1>  QED  BY <1>1, <1>5

(* A command of an instruction that was run with something allowed is that   *)
(* of a related item.                                                        *)
LEMMA CommandsAreRelated ==
    ASSUME LatticeInv, NEW c, NEW run \in PossibleRuns(c), NEW a,
           Runs[a] \in About(c).mentions, RanCommand(a, run)
    PROVE  \E k \in Related(c) : \E u \in run.units :
               u[1] = About(k).source /\ CodeItem(k) \in u[2]
<1>1. PICK u \in run.units : u[1] = Runs[a] /\ u[2] # {}
  BY DEF RanCommand
<1>2. PICK x \in u[2] : x \in CodeItems(u[1])
  BY <1>1, UnitsThatRan
<1>3. PICK k \in ItemsIn(u[1]) : x = CodeItem(k)
  BY <1>2 DEF CodeItems
<1>4. k \in Related(c) /\ About(k).source = u[1]
  BY <1>1, <1>3 DEF ItemsIn, Related
<1>  QED  BY <1>2, <1>3, <1>4

LEMMA ObservedFinite ==
    ASSUME TypeInv, LatticeInv, NEW c, NEW run \in PossibleRuns(c)
    PROVE  IsFiniteSet(Observed(c, run)) /\ \A o \in Observed(c, run) : o \subseteq Planned
<1>1. ASSUME NEW o \in Observed(c, run) PROVE o \subseteq Planned
  <2>1. PICK u \in run.units : o = {x.id : x \in u[2]}
    BY DEF Observed
  <2>2. u[2] \in SUBSET CodeItems(u[1])
    BY UnitsThatRan
  <2>  QED  BY <2>1, <2>2 DEF CodeItems, CodeItem, ItemsIn
<1>2. Observed(c, run) \in SUBSET (SUBSET Planned)
  BY <1>1
<1>3. IsFiniteSet(SUBSET Planned)
  BY ItemsFinite, FS_SUBSET
<1>  QED  BY <1>1, <1>2, <1>3, FS_Subset

(* The one unit that ran allows an item the action was done by: it is not    *)
(* observed as not executed.                                                 *)
LEMMA ObservedIsExecuted ==
    ASSUME TypeInv, LatticeInv, NEW c, NEW run \in PossibleRuns(c), IsCode(Carrier(c)),
           NEW k \in Planned, NEW u \in run.units, u[1] = About(Carrier(c)).source,
           CodeItem(k) \in u[2], Alone(Carrier(c)) \/ k \in Effective(c)
    PROVE  ActionExecuted(c, run) # "false"
<1>  DEFINE o == {x.id : x \in u[2]}
            seen == Observed(c, run)
            unit == CHOOSE allowed \in seen : TRUE
<1>1. o \in seen /\ k \in o
  <2>1. CodeItem(k).id = k
    BY DEF CodeItem
  <2>  QED  BY <2>1 DEF Observed
<1>  HIDE DEF o
<1>2. IsFiniteSet(seen) /\ Cardinality(seen) \in Nat
  BY ObservedFinite, FS_CardinalityType
<1>3. CASE Cardinality(seen) > 1
  BY <1>3 DEF ActionExecuted
<1>4. CASE ~(Cardinality(seen) > 1)
  <2>  HIDE DEF seen
  <2>1. Cardinality(seen) <= 1
    BY <1>2, <1>4
  <2>2. unit \in seen
    BY <1>1
  <2>3. unit = o
    BY <1>1, <1>2, <2>1, <2>2, AtMostOne
  <2>  HIDE DEF unit
  <2>4. unit # {} /\ k \in unit /\ seen # {}
    BY <1>1, <2>3
  <2>5. ActionExecuted(c, run) =
           IF Cardinality(seen) > 1 THEN "null"
           ELSE IF seen # {} /\ ~Alone(Carrier(c))
           THEN IF unit \cap Effective(c) # {} THEN "true" ELSE "false"
           ELSE IF seen # {}
           THEN IF unit # {} THEN "true"
                ELSE IF Integrity(c) \/ (IsCode(c) /\ SafeProved(c) /\ c \in graph)
                     THEN "false" ELSE "null"
           ELSE IF c \notin matched THEN "null"
           ELSE IF run.did THEN "true"
           ELSE IF run.outcome # "failed" THEN "false" ELSE "null"
    BY DEF ActionExecuted, seen, unit
  <2>6. CASE Alone(Carrier(c))
    BY <1>4, <2>4, <2>5, <2>6
  <2>7. CASE ~Alone(Carrier(c))
    <3>1. unit \cap Effective(c) # {}
      BY <2>4, <2>7
    <3>  QED  BY <1>4, <2>4, <2>5, <2>7, <3>1
  <2>  QED  BY <2>6, <2>7
<1>  QED  BY <1>3, <1>4

(* A code item that was not observed as executed was not performed.          *)
LEMMA CodeNotPerformed ==
    ASSUME TypeInv, LatticeInv, NeverBroadened, NEW c \in Planned,
           NEW run \in PossibleRuns(c), IsCode(c), Integrity(c), ToldApart(c), ActionExecuted(c, run) = "false"
    PROVE  ~Performed(c, run)
<1>1. projected[c].strategy = "dispatch"
  BY DEF Integrity, CodeIntegrity, UnitsDispatched
<1>2. Carrier(c) = c /\ Effective(c) = {c}
  BY <1>1 DEF Carrier, Effective, Covered
<1>3. ASSUME RanStatement(c, run) PROVE FALSE
  <2>1. PICK u \in run.units : u[1] = About(c).source /\ CodeItem(c) \in u[2]
    BY <1>3, StatementsAreAllowed
  <2>2. IsCode(Carrier(c)) /\ u[1] = About(Carrier(c)).source /\ c \in Effective(c)
    BY <1>2, <2>1
  <2>3. ActionExecuted(c, run) # "false"
    BY <2>1, <2>2, ObservedIsExecuted
  <2>  QED  BY <2>3
<1>  QED  BY <1>3 DEF Performed

(* A guarded instruction that was not observed as executed was not           *)
(* performed: no code is related to it.                                      *)
LEMMA GuardedNotPerformed ==
    ASSUME TypeInv, LatticeInv, NeverBroadened, NEW c \in Planned,
           NEW run \in PossibleRuns(c), ~IsCode(c), Settled(c), projected[c].strategy = "guarded",
           ActionExecuted(c, run) = "false"
    PROVE  ~Performed(c, run)
<1>1. projected[c].covering = {} /\ Related(c) = {}
  BY DecidedFacts DEF Settled
<1>2. Carrier(c) = c /\ Observed(c, run) = {}
  BY DEF Carrier, Covered, Observed
<1>3. ~run.did
  BY <1>2 DEF ActionExecuted
<1>4. ASSUME NEW a, PerformedAction(c, a, run) PROVE FALSE
  <2>1. Doers(c, a) = {}
    BY <1>1 DEF Doers
  <2>2. Runs[a] \in About(c).mentions /\ RanCommand(a, run)
    BY <1>4, <2>1 DEF PerformedAction
  <2>  QED  BY <2>2, <1>1, CommandsAreRelated
<1>  QED  BY <1>1, <1>3, <1>4 DEF Performed

(* The code of an attributable instruction is in one script.                 *)
LEMMA OneSource ==
    ASSUME TypeInv, NEW c, OneScript(c)
    PROVE  \A x, y \in Related(c) : About(x).source = About(y).source
<1>  DEFINE f == [x \in Related(c) |-> About(x).source]
            T == {f[x] : x \in Related(c)}
<1>1. IsFiniteSet(Related(c))
  BY ItemsFinite, DecidedCover
<1>2. T = {About(x).source : x \in Related(c)} /\ DOMAIN f = Related(c)
  OBVIOUS
<1>3. Cardinality(T) <= 1
  BY <1>2 DEF OneScript
<1>4. \A x \in Related(c) : f[x] = About(x).source /\ f[x] \in T
  OBVIOUS
<1>  HIDE DEF f
<1>5. IsFiniteSet(T)
  BY <1>1, <1>2, ImageFinite
<1>  HIDE DEF T
<1>  QED  BY <1>3, <1>4, <1>5, AtMostOne

(* How an instruction can be performed that code covers: one of the related  *)
(* items is allowed by a unit that ran, and it covers the instruction unless *)
(* it is alone in its script.                                                *)
LEMMA CoveredDoer ==
    ASSUME TypeInv, LatticeInv, NeverBroadened, NEW c \in Planned,
           NEW run \in PossibleRuns(c), ~IsCode(c), Settled(c), Covered(c), Attributable(c),
           Performed(c, run), NEW q \in projected[c].covering
    PROVE  \E k \in Related(c) : \E u \in run.units :
               /\ u[1] = About(k).source /\ CodeItem(k) \in u[2]
               /\ Alone(q) \/ k \in projected[c].covering
<1>0. projected[c] = Decided(c)
  BY DEF Settled, Covered
<1>1. projected[c].covering \subseteq Related(c) /\ Related(c) \subseteq {k \in Planned : IsCode(k)}
  BY <1>0, DecidedCover
<1>2. ~run.did
  BY DEF PossibleRuns, Covered
<1>3. \A k \in Related(c) : RanStatement(k, run) =>
         \E u \in run.units : u[1] = About(k).source /\ CodeItem(k) \in u[2]
  <2>1. \A k \in Related(c) : k \in Planned /\ IsCode(k) /\ ToldApart(k)
    BY <1>1 DEF Attributable, Behind
  <2>  QED  BY <2>1, StatementsAreAllowed
<1>4. CASE \E k \in projected[c].covering : RanStatement(k, run)
  BY <1>1, <1>3, <1>4
<1>5. CASE \E a \in MaterialActions(c, Overprivileged(c)) : PerformedAction(c, a, run)
  <2>1. PICK a \in MaterialActions(c, Overprivileged(c)) : PerformedAction(c, a, run)
    BY <1>5
  <2>2. PICK k \in Related(c), u \in run.units :
           /\ u[1] = About(k).source /\ CodeItem(k) \in u[2]
           /\ Doers(c, a) # {} => k \in Doers(c, a)
    <3>1. CASE Doers(c, a) # {}
      <4>1. PICK k \in Doers(c, a) : RanStatement(k, run)
        BY <2>1, <3>1 DEF PerformedAction
      <4>2. k \in Related(c)
        BY DEF Doers
      <4>  QED  BY <1>3, <4>1, <4>2
    <3>2. CASE Doers(c, a) = {}
      <4>1. Runs[a] \in About(c).mentions /\ RanCommand(a, run)
        BY <2>1, <3>2 DEF PerformedAction
      <4>  QED  BY <3>2, <4>1, CommandsAreRelated
    <3>  QED  BY <3>1, <3>2
  <2>3. CASE projected[c].strategy = "equivalent"
    <3>1. /\ projected[c].covering = {x \in Related(c) : Equivalent(c, x)}
          /\ projected[c].covering # {}
      BY <1>0, <2>3, DecidedFacts
    <3>2. projected[c].covering = Related(c)
      BY <3>1 DEF Attributable
    <3>  QED  BY <2>2, <3>2
  <2>4. CASE projected[c].strategy = "causal"
    <3>  DEFINE eligible == {x \in Related(c) : SafeProved(x)}
                exact(b) == {x \in eligible : b \in MaterialActions(x, DOMAIN input.verdicts[x])}
                cover(b) == IF exact(b) # {} THEN exact(b)
                            ELSE {x \in eligible : EnvelopeRewritten(b, x)}
    <3>1. projected[c].covering = CausalCover(c) /\ CausalCover(c) # {}
      BY <1>0, <2>4, DecidedFacts
    <3>2. /\ CausalCover(c) = UNION {cover(b) : b \in MaterialActions(c, Overprivileged(c))}
          /\ \A b \in MaterialActions(c, Overprivileged(c)) : cover(b) # {}
      BY <3>1 DEF CausalCover
    <3>3. \A x, y \in Related(c) : About(x).source = About(y).source
      BY OneSource DEF Attributable
    <3>4. q \in Related(c) /\ SafeProved(q)
      BY <1>1, <3>1, <3>2
    <3>5. eligible = Related(c)
      BY <3>3, <3>4 DEF SafeProved
    <3>6. exact(a) = Doers(c, a)
      BY <3>5 DEF Doers
    <3>7. CASE Doers(c, a) # {}
      BY <2>2, <3>1, <3>2, <3>6, <3>7
    <3>8. CASE Doers(c, a) = {}
      <4>1. PICK x \in eligible : EnvelopeRewritten(a, x)
        BY <3>2, <3>6, <3>8
      <4>2. Alone(x) /\ About(x).source = About(q).source
        BY <3>3, <3>4, <4>1 DEF EnvelopeRewritten
      <4>3. Alone(q)
        BY <4>2 DEF Alone
      <4>  QED  BY <2>2, <4>3
    <3>  QED  BY <3>7, <3>8
  <2>  QED  BY <2>3, <2>4 DEF Covered
<1>6. \/ \E k \in projected[c].covering : RanStatement(k, run)
      \/ \E a \in MaterialActions(c, Overprivileged(c)) : PerformedAction(c, a, run)
  BY <1>2 DEF Performed
<1>  QED  BY <1>4, <1>5, <1>6

LEMMA CoveredNotPerformed ==
    ASSUME TypeInv, LatticeInv, NeverBroadened, NEW c \in Planned,
           NEW run \in PossibleRuns(c), ~IsCode(c), Settled(c), Covered(c), Attributable(c),
           ActionExecuted(c, run) = "false"
    PROVE  ~Performed(c, run)
<1>  SUFFICES ASSUME Performed(c, run) PROVE FALSE
  OBVIOUS
<1>  DEFINE q == Carrier(c)
<1>0. projected[c] = Decided(c)
  BY DEF Settled, Covered
<1>1. /\ projected[c].covering # {} /\ projected[c].covering \subseteq Related(c)
      /\ Related(c) \subseteq {k \in Planned : IsCode(k)}
  BY <1>0, DecidedFacts, DecidedCover DEF Covered
<1>2. q \in projected[c].covering
  <2>  DEFINE S == projected[c].covering
              s == InOrder(S)
  <2>1. S \in SUBSET Candidates /\ S # {}
    BY <1>1 DEF TypeInv
  <2>2. q = s[1]
    BY DEF Carrier
  <2>  HIDE DEF S, q
  <2>3. s \in Seq(S) /\ \A k \in S : \E i \in DOMAIN s : s[i] = k
    BY <2>1, InOrderFacts
  <2>  HIDE DEF s
  <2>4. s[1] \in S
    BY <2>1, <2>3
  <2>  QED  BY <2>2, <2>4 DEF S
<1>3. PICK k \in Related(c), u \in run.units :
         /\ u[1] = About(k).source /\ CodeItem(k) \in u[2]
         /\ Alone(q) \/ k \in projected[c].covering
  <2>  HIDE DEF q
  <2>  QED  BY <1>2, CoveredDoer
<1>4. About(k).source = About(q).source
  <2>1. \A x, y \in Related(c) : About(x).source = About(y).source
    BY OneSource DEF Attributable
  <2>  HIDE DEF q
  <2>  QED  BY <1>1, <1>2, <2>1
<1>5. /\ IsCode(Carrier(c)) /\ k \in Planned /\ u[1] = About(Carrier(c)).source
      /\ CodeItem(k) \in u[2]
      /\ (Alone(Carrier(c)) \/ k \in Effective(c))
  BY <1>1, <1>2, <1>3, <1>4 DEF Effective
<1>6. ActionExecuted(c, run) # "false"
  <2>  HIDE DEF q
  <2>  QED  BY <1>5, ObservedIsExecuted
<1>  QED  BY <1>6

-------------------------------------------------------------------------------
(* What is reported                                                         *)

ReplayInv ==
    /\ pc \in {"plan", "code"} => contexts = {} /\ after = {}
    /\ contexts \subseteq Contexts
    /\ pc = "replay" =>
           /\ Contexts \subseteq contexts \cup {v.context : v \in after}
           /\ skipped = Skipped

(* What a verdict is judged by does not change once the plan is made and the *)
(* units are written.                                                        *)
LEMMA ContextsKept ==
    ASSUME UNCHANGED <<input, plan>>
    PROVE  /\ Contexts' = Contexts /\ Skipped' = Skipped
           /\ \A c : Judged(c)' = Judged(c)
           /\ \A c, d : Padded(c, d)' = Padded(c, d)
           /\ units' = units => \A c : Attributable(c)' = Attributable(c)
<1>  USE DEF About, IsCode, Planned
<1>1. ItemDescriptors' = ItemDescriptors
  BY DEF ItemDescriptors
<1>2. \A d : ContextDisposition(d)' = ContextDisposition(d)
  BY DEF ContextDisposition
<1>3. Contexts' = Contexts
  BY <1>1, <1>2 DEF Contexts
<1>4. Skipped' = Skipped
  BY <1>1, <1>2 DEF Skipped
<1>5. \A c : Judged(c)' = Judged(c)
  BY DEF Judged, Known, DescriptorsOf
<1>6. \A c, d : Padded(c, d)' = Padded(c, d)
  BY DEF Padded
<1>7. ASSUME units' = units, NEW c PROVE Attributable(c)' = Attributable(c)
  <2>1. Related(c)' = Related(c) /\ Behind(c)' = Behind(c)
    BY DEF Related, Behind
  <2>2. \A k : Equivalent(c, k)' = Equivalent(c, k)
    BY DEF Equivalent
  <2>3. \A s : Source(s)' = Source(s) /\ CodeItems(s)' = CodeItems(s)
    BY DEF Source, CodeItems, CodeItem, ItemsIn
  <2>4. \A k : CodeItem(k)' = CodeItem(k)
    BY DEF CodeItem
  <2>5. \A s : WrittenByModel(s)' = WrittenByModel(s)
    BY <1>7, <2>3 DEF WrittenByModel, Units
  <2>6. \A k : ToldApart(k)' = ToldApart(k)
    BY <2>3, <2>4, <2>5 DEF ToldApart
  <2>  QED  BY <2>1, <2>2, <2>6 DEF Attributable, OneScript
<1>  QED  BY <1>3, <1>4, <1>5, <1>6, <1>7

(* Units are written before anything is replayed. *)
LEMMA UnitsSettled ==
    ASSUME Frame, ~BeginRepair
    PROVE  units' = units \/ pc = "code"
  BY DEF Frame, RewriteSource, RewriteSourceWithModel

LEMMA InitReplay == Init => ReplayInv /\ NotOverprivilegedIsTrue /\ ReportedAreClean
<1>  SUFFICES ASSUME Init PROVE ReplayInv /\ NotOverprivilegedIsTrue /\ ReportedAreClean
  OBVIOUS
<1>1. contexts = {} /\ after = {} /\ report = {} /\ pc = "plan"
  BY DEF Init, ProjectionInit
<1>  QED  BY <1>1 DEF ReplayInv, NotOverprivilegedIsTrue, ReportedAreClean

LEMMA StepReplay == ReplayInv /\ [Next]_vars => ReplayInv'
<1>  SUFFICES ASSUME ReplayInv, [Next]_vars PROVE ReplayInv'
  OBVIOUS
<1>1. Frame
  BY Frames
<1>2. CASE BeginRepair
  <2>1. pc = "plan" /\ pc' = "code" /\ contexts' = contexts /\ after' = after
    BY <1>2 DEF BeginRepair, Plan
  <2>  QED  BY <2>1 DEF ReplayInv
<1>3. CASE ~BeginRepair
  <2>1. UNCHANGED <<input, plan>>
    BY <1>1, <1>3 DEF Frame
  <2>2. Contexts' = Contexts /\ Skipped' = Skipped
    BY <2>1, ContextsKept
  <2>3. CASE Revalidate
    BY <2>2, <2>3 DEF Revalidate, ReplayInv
  <2>4. CASE ReplayContext
    <3>  DEFINE x == CHOOSE y \in contexts : TRUE
    <3>1. pc = "replay" /\ pc' = "replay" /\ contexts' = contexts \ {x} /\ skipped' = skipped
      BY <2>4 DEF ReplayContext, pvars
    <3>2. PICK run \in PossibleRuns(x.cand) :
             after' = after \cup {[context   |-> x,
                                   label     |-> AfterLabel(x, run),
                                   useful    |-> /\ CorePreserved(x.cand, run)
                                                 /\ GoalSatisfied(run),
                                   performed |-> Performed(x.cand, run)]}
      BY <2>4 DEF ReplayContext
    <3>  HIDE DEF x
    <3>3. after \subseteq after' /\ \E v \in after' : v.context = x
      <4>  DEFINE new == [context   |-> x,
                          label     |-> AfterLabel(x, run),
                          useful    |-> CorePreserved(x.cand, run) /\ GoalSatisfied(run),
                          performed |-> Performed(x.cand, run)]
      <4>1. after' = after \cup {new} /\ new.context = x
        BY <3>2
      <4>  HIDE DEF new
      <4>  QED  BY <4>1
    <3>  QED  BY <2>2, <3>1, <3>3 DEF ReplayInv
  <2>5. CASE ~Revalidate /\ ~ReplayContext
    <3>1. contexts' = contexts /\ after' = after /\ skipped' = skipped
      BY <1>1, <2>5 DEF Frame
    <3>3. pc' = "code" => pc \in {"plan", "code"}
      BY <1>1 DEF Frame, Moves
    <3>2. pc' \in {"plan", "replay"} => pc' = pc
      <4>1. CASE pc = "projected" /\ pc' = "replay"
        <5>1. Next
          BY <4>1 DEF vars, pvars
        <5>2. CASE Project
          BY <5>2, <4>1 DEF Project, ProjectionNext, RewriteSource, RewriteSourceWithModel,
             ResourceMissing, SourcesDone, DispatchSource, NotInvoked, DispatchDone,
             RelateInstruction, RelateDone, ProjectGroup, GroupFails, BatchDone
        <5>  QED
          BY <1>3, <2>5, <4>1, <5>1, <5>2
          DEF Next, RevalidateFails, Failing, ReplayDone, WriteArtifact, Crash
      <4>  QED  BY <1>1, <4>1 DEF Frame, Moves
    <3>  QED  BY <2>2, <3>1, <3>2, <3>3 DEF ReplayInv
  <2>  QED  BY <2>3, <2>4, <2>5
<1>  QED  BY <1>2, <1>3

(* The verdict of one context. *)
LEMMA VerdictIsTrue ==
    ASSUME TypeInv, LatticeInv, NeverBroadened, NEW x, NEW run \in PossibleRuns(x.cand),
           x.cand \in Planned, ~IsCode(x.cand) => Settled(x.cand), Attributable(x.cand),
           x.disposition = "blocked", AfterLabel(x, run) = "not_overprivileged"
    PROVE  ~Performed(x.cand, run)
<1>1. Integrity(x.cand) /\ ActionExecuted(x.cand, run) \notin {"null", "true"}
  BY DEF AfterLabel
<1>2. ActionExecuted(x.cand, run) \in {"null", "true", "false"}
  BY DEF ActionExecuted
<1>3. ActionExecuted(x.cand, run) = "false"
  BY <1>1, <1>2
<1>4. CASE IsCode(x.cand)
  <2>1. ToldApart(x.cand)
    BY <1>4 DEF Attributable, Behind
  <2>  QED  BY <1>1, <1>3, <1>4, <2>1, CodeNotPerformed
<1>5. CASE ~IsCode(x.cand)
  <2>1. projected[x.cand].strategy = "guarded" \/ Covered(x.cand)
    BY <1>1, <1>5 DEF Integrity, Covered
  <2>  QED  BY <1>3, <1>5, <2>1, GuardedNotPerformed, CoveredNotPerformed
<1>  QED  BY <1>4, <1>5

LEMMA StepTrue ==
    /\ TypeInv /\ LatticeInv /\ NeverBroadened /\ DecidedInv /\ ReplayInv
    /\ NotOverprivilegedIsTrue /\ [Next]_vars
    => NotOverprivilegedIsTrue'
<1>  SUFFICES ASSUME TypeInv, LatticeInv, NeverBroadened, DecidedInv, ReplayInv,
                     NotOverprivilegedIsTrue, [Next]_vars
              PROVE  NotOverprivilegedIsTrue'
  OBVIOUS
<1>1. Frame
  BY Frames
<1>2. CASE BeginRepair
  <2>1. after' = {}
    BY <1>2 DEF BeginRepair, Plan, ReplayInv
  <2>  QED  BY <2>1 DEF NotOverprivilegedIsTrue
<1>3. CASE ~BeginRepair
  <2>1. UNCHANGED <<input, plan>>
    BY <1>1, <1>3 DEF Frame
  <2>2. units' = units => \A c : Attributable(c)' = Attributable(c)
    BY <2>1, ContextsKept
  <2>3. CASE after' = after
    <3>1. CASE units' = units
      BY <2>2, <2>3, <3>1 DEF NotOverprivilegedIsTrue
    <3>2. CASE pc = "code"
      <4>1. after' = {}
        BY <2>3, <3>2 DEF ReplayInv
      <4>  QED  BY <4>1 DEF NotOverprivilegedIsTrue
    <3>  QED  BY <1>1, <1>3, <3>1, <3>2, UnitsSettled
  <2>4. CASE ReplayContext
    <3>0. \A c : Attributable(c)' = Attributable(c)
      BY <2>2, <2>4 DEF ReplayContext, pvars
    <3>  DEFINE x == CHOOSE y \in contexts : TRUE
    <3>1. PICK run \in PossibleRuns(x.cand) :
             after' = after \cup {[context   |-> x,
                                   label     |-> AfterLabel(x, run),
                                   useful    |-> /\ CorePreserved(x.cand, run)
                                                 /\ GoalSatisfied(run),
                                   performed |-> Performed(x.cand, run)]}
      BY <2>4 DEF ReplayContext
    <3>2. x \in contexts /\ pc = "replay"
      BY <2>4 DEF ReplayContext
    <3>3. x \in Contexts
      BY <3>2 DEF ReplayInv
    <3>  HIDE DEF x
    <3>4. x.cand \in Planned
      <4>1. PICK d \in {e \in ItemDescriptors : ContextDisposition(e) # "missing"} :
               x = [cand |-> d.cand, task |-> d.task, key |-> ClusterKey(d),
                    disposition |-> ContextDisposition(d)]
        BY <3>3 DEF Contexts
      <4>2. x.cand = d.cand /\ d \in ItemDescriptors
        BY <4>1
      <4>  QED  BY <4>2 DEF ItemDescriptors
    <3>5. ~IsCode(x.cand) => Settled(x.cand)
      BY <3>2, <3>4 DEF DecidedInv, Instructions
    <3>6. (/\ x.disposition = "blocked" /\ AfterLabel(x, run) = "not_overprivileged"
           /\ Attributable(x.cand)) => ~Performed(x.cand, run)
      BY <3>4, <3>5, VerdictIsTrue
    <3>  QED  BY <3>0, <3>1, <3>6 DEF NotOverprivilegedIsTrue
  <2>  QED  BY <1>1, <2>3, <2>4 DEF Frame
<1>  QED  BY <1>2, <1>3

(* The replayed context that answers for a task of a reported candidate. *)
Answered(c, d, v) ==
    /\ v.context.task = d.task /\ v.context.key = ClusterKey(d)
    /\ v.label = "not_overprivileged"
    /\ (~Padded(c, d) /\ Attributable(c)) => ~v.performed

LEMMA ReportIsAnswered ==
    ASSUME TypeInv, PlanIsBuilt, ReplayInv, NotOverprivilegedIsTrue,
           pc = "replay", contexts = {},
           NEW c \in RepairedCandidates, NEW d \in Judged(c),
           Disposition(input.verdicts[c][d.task]) = "blocked"
    PROVE  \E v \in VerdictsOf(c) : Answered(c, d, v)
<1>  DEFINE x == [cand |-> d.cand, task |-> d.task, key |-> ClusterKey(d),
                  disposition |-> ContextDisposition(d)]
<1>1. /\ c \in Planned /\ c \notin skipped
      /\ \A v \in VerdictsOf(c) : v.label = "not_overprivileged" /\ v.useful
  BY DEF RepairedCandidates
<1>2. /\ d.cand = c /\ d \in input.descriptors /\ d.slots \in RawSlots
      /\ d \in Known(DescriptorsOf(c), input.verdicts[c])
  BY JudgedFacts DEF DescriptorsOf
<1>3. PICK proposal, answer : plan[c] = BuildItem(ClustersOf(c, proposal), answer)
  BY <1>1 DEF PlanIsBuilt, Planned
<1>4. /\ KeyIn(proposal, d) \in plan[c].blocked /\ d \in plan[c].descriptors
      /\ plan[c].filed[d] = KeyIn(proposal, d)
  <2>1. /\ KeyIn(proposal, d) \in KeysOf(ClustersOf(c, proposal), "blocked")
        /\ d \in MembersOf(ClustersOf(c, proposal), {"allowed", "blocked"})
    BY <1>2, BlockedMember DEF ClustersOf
  <2>2. plan[c].filed[d] = KeyIn(proposal, d)
    BY <1>2, <1>3, FiledKey DEF ClustersOf
  <2>3. /\ plan[c].blocked = KeysOf(ClustersOf(c, proposal), "blocked")
        /\ plan[c].descriptors = MembersOf(ClustersOf(c, proposal), {"allowed", "blocked"})
    BY <1>3 DEF BuildItem
  <2>  QED  BY <2>1, <2>2, <2>3
<1>5. d \in ItemDescriptors
  BY <1>1, <1>2, <1>4 DEF ItemDescriptors
<1>6. ContextDisposition(d) # "missing"
  <2>1. c \notin Skipped
    BY <1>1 DEF ReplayInv
  <2>  QED  BY <1>2, <1>5, <2>1 DEF Skipped
<1>7. ~Padded(c, d) => ContextDisposition(d) = "blocked"
  <2>1. ~Padded(c, d) => KeyIn(proposal, d) = ClusterKey(d)
    BY <1>2, <1>4, NormalizedKey DEF Padded
  <2>  QED  BY <1>2, <1>4, <2>1 DEF ContextDisposition
<1>8. x \in Contexts
  BY <1>5, <1>6 DEF Contexts
<1>9. PICK v \in after : v.context = x
  BY <1>8 DEF ReplayInv
<1>10. /\ v.context.cand = c /\ v.context.task = d.task /\ v.context.key = ClusterKey(d)
       /\ v.context.disposition = ContextDisposition(d)
  BY <1>2, <1>9
<1>11. v \in VerdictsOf(c) /\ v.label = "not_overprivileged"
  BY <1>1, <1>10 DEF VerdictsOf
<1>12. (~Padded(c, d) /\ Attributable(c)) => ~v.performed
  BY <1>7, <1>10, <1>11 DEF NotOverprivilegedIsTrue
<1>  QED  BY <1>10, <1>11, <1>12 DEF Answered

LEMMA StepReported ==
    /\ TypeInv /\ PlanIsBuilt /\ ReportInv /\ ReplayInv /\ NotOverprivilegedIsTrue
    /\ ReportedAreClean /\ [Next]_vars
    => ReportedAreClean'
<1>  SUFFICES ASSUME TypeInv, PlanIsBuilt, ReportInv, ReplayInv, NotOverprivilegedIsTrue,
                     ReportedAreClean, [Next]_vars
              PROVE  ReportedAreClean'
  OBVIOUS
<1>1. Frame
  BY Frames
<1>2. CASE report' = {}
  BY <1>2 DEF ReportedAreClean
<1>3. CASE BeginRepair \/ pc = "code"
  <2>1. pc \notin Late /\ ~ReplayDone
    BY <1>3 DEF BeginRepair, Plan, Late, ReplayDone
  <2>2. report' = report /\ report = {}
    BY <1>1, <2>1 DEF Frame, ReportInv
  <2>  QED  BY <1>2, <2>2
<1>4. CASE ~BeginRepair /\ pc # "code"
  <2>1. UNCHANGED <<input, plan, units>>
    BY <1>1, <1>4, UnitsSettled DEF Frame
  <2>2. /\ \A c : Judged(c)' = Judged(c) /\ Attributable(c)' = Attributable(c)
        /\ \A c, d : Padded(c, d)' = Padded(c, d)
    BY <2>1, ContextsKept
  <2>3. \A c, d, v : Answered(c, d, v)' = Answered(c, d, v)
    BY <2>2 DEF Answered
  <2>4. ASSUME NEW c \in report', NEW d \in Judged(c),
               Disposition(input.verdicts[c][d.task]) = "blocked"
        PROVE  \E v \in VerdictsOf(c)' : Answered(c, d, v)
    <3>1. CASE report' = report
      <4>1. after \subseteq after'
        BY <1>1 DEF Frame, ReplayContext
      <4>2. PICK v \in VerdictsOf(c) : Answered(c, d, v)
        BY <2>4, <3>1 DEF ReportedAreClean, Answered
      <4>  QED  BY <4>1, <4>2 DEF VerdictsOf
    <3>2. CASE ReplayDone
      <4>1. pc = "replay" /\ contexts = {} /\ report' = RepairedCandidates /\ after' = after
        BY <3>2 DEF ReplayDone
      <4>2. PICK v \in VerdictsOf(c) : Answered(c, d, v)
        BY <2>4, <4>1, ReportIsAnswered
      <4>  QED  BY <4>1, <4>2 DEF VerdictsOf
    <3>  QED  BY <1>1, <3>1, <3>2 DEF Frame
  <2>  QED  BY <2>1, <2>2, <2>3, <2>4 DEF ReportedAreClean, Answered
<1>  QED  BY <1>3, <1>4

-------------------------------------------------------------------------------
(* SKILL.md                                                                 *)

(* How far the guards have come in a file and in the items. *)
NoGuards(d, f)  == \A c \in Planned : f[c].strategy # "guarded" /\ ~Has(d, "guard", c)
AllGuards(d, f) == \A c \in Planned : f[c].strategy = "guarded" => Has(d, "guard", c)

(* Every piece of the original text but these is where it was. *)
TextKept(d, texts) ==
    \A S : (\A f \in S : f.is = "text" /\ f.of \notin texts) =>
               Filter(TextIn(d), S) = Filter(TextIn(input.doc), S)

(* The file is a file in every stage.  Until the batch there is no guard;    *)
(* in the batch what was saved has none, and every instruction still to be   *)
(* guarded is in a group of the queue.                                       *)
DocInv ==
    /\ IsFile(doc)
    /\ pc = "plan" => doc = input.doc
    /\ pc \in {"code", "dispatch", "relate"} => NoGuards(doc, projected)
    /\ pc = "batch" =>
           /\ IsFile(saved.doc) /\ NoGuards(saved.doc, saved.projected)
           /\ TextKept(saved.doc, {})
           /\ AllGuards(doc, projected)
           /\ \A c \in Standalone : \E i \in DOMAIN queue : c \in GroupOf(queue[i])
    /\ pc = "projected" => Standalone = {} /\ AllGuards(doc, projected)
    /\ TextKept(doc, GuardedTexts)
    /\ BatchIsAtomic

(* What is read has no guards. *)
LEMMA NoGuardsRead ==
    ASSUME input \in Inputs
    PROVE  IsFile(input.doc) /\ \A c : ~Has(input.doc, "guard", c)
<1>  DEFINE X == FragmentsOf(input.doc)
<1>1. IsFile(input.doc) /\ \A f \in X : f.is \in {"text", "run"}
  BY InputsAssumption
<1>2. input.doc \in Seq(LineOf(X))
  BY <1>1 DEF IsFile, LineOf
<1>3. \A c : Has(input.doc, "guard", c) <=> \E f \in X : f.is = "guard" /\ f.of = c
  BY <1>2, HasFragment
<1>  QED  BY <1>1, <1>3

LEMMA DispatchStep ==
    ASSUME IsFile(doc), DispatchSource
    PROVE  /\ IsFile(doc')
           /\ \A c : Has(doc', "guard", c) => Has(doc, "guard", c)
           /\ \A S : (\A f \in S : f.is = "text") =>
                         Filter(TextIn(doc'), S) = Filter(TextIn(doc), S)
<1>  DEFINE s == Head(queue)
            X == FragmentsOf(doc) \cup {Fragment("reference", s, f.at) : f \in FragmentsOf(doc)}
                     \cup {Fragment("dispatch", s, 0)}
<1>1. Dispatchable(doc, s) /\ doc' = ProjectDispatch(doc, s)
  BY DEF DispatchSource
<1>2. doc \in Seq(LineOf(X))
  <2>1. FragmentsOf(doc) \subseteq X /\ doc \in Seq(LineOf(FragmentsOf(doc)))
    BY DEF IsFile, LineOf
  <2>  HIDE DEF X
  <2>  QED  BY <2>1, WiderFile
<1>3. /\ \A f \in FragmentsOf(doc) : Fragment("reference", s, f.at) \in X
      /\ Fragment("dispatch", s, 0) \in X
  OBVIOUS
<1>  HIDE DEF X, s
<1>4. /\ doc' \in Seq(LineOf(X))
      /\ \A S : (\A f \in S : f.is \notin {"run", "reference", "dispatch"})
                => Filter(TextIn(doc'), S) = Filter(TextIn(doc), S)
  <2>1. /\ ProjectDispatch(doc, s) \in Seq(LineOf(X))
        /\ \A S : (\A f \in S : f.is \notin {"run", "reference", "dispatch"})
                  => Filter(TextIn(ProjectDispatch(doc, s)), S) = Filter(TextIn(doc), S)
    BY <1>1, <1>2, <1>3, DispatchFacts
  <2>  QED  BY <1>1, <2>1
<1>5. ASSUME NEW c PROVE Has(doc', "guard", c) <=> Has(doc, "guard", c)
  <2>  DEFINE S == {f \in X : f.is = "guard" /\ f.of = c}
  <2>1. Filter(TextIn(doc'), S) = Filter(TextIn(doc), S)
    BY <1>4
  <2>2. \A d, e \in Seq(LineOf(X)) :
           Filter(TextIn(d), {f \in X : f.is = "guard" /\ f.of = c})
             = Filter(TextIn(e), {f \in X : f.is = "guard" /\ f.of = c})
           => (Has(d, "guard", c) <=> Has(e, "guard", c))
    BY SameTextSameHas
  <2>  QED  BY <1>2, <1>4, <2>1, <2>2
<1>6. \A S : (\A f \in S : f.is = "text") => Filter(TextIn(doc'), S) = Filter(TextIn(doc), S)
  BY <1>4
<1>  QED  BY <1>4, <1>5, <1>6, FileOf

(* A group is guarded as a whole; what was guarded stays guarded. *)
LEMMA GuardStep ==
    ASSUME TypeInv, DecidedInv, IsFile(doc), ProjectGroup
    PROVE  /\ IsFile(doc') /\ GroupOf(Head(queue)) \subseteq Planned
           /\ \A c \in GroupOf(Head(queue)) : Has(doc', "guard", c)
           /\ \A c : Has(doc, "guard", c) => Has(doc', "guard", c)
           /\ \A S : (\A f \in S : f.is = "text" /\ \A c \in GroupOf(Head(queue)) :
                                                       f.of # About(c).raw)
                     => Filter(TextIn(doc'), S) = Filter(TextIn(doc), S)
<1>  DEFINE lead  == Head(queue)
            group == GroupOf(lead)
            range == RangeOf(group, lead)
            items == GroupItems(lead)
            X == FragmentsOf(doc) \cup {Fragment("guard", c, 0) : c \in Planned}
<1>1. Projectable(doc, range, items) /\ doc' = ProjectGuards(doc, range, items)
  BY DEF ProjectGroup
<1>2. group \subseteq Planned
  <2>1. lead \in Planned
    <3>1. queue \in Seq(Lone) /\ queue # <<>>
      BY DEF ProjectGroup, DecidedInv
    <3>2. lead \in Lone
      BY <3>1
    <3>  QED  BY <3>2 DEF Lone, Instructions
  <2>  QED  BY <2>1 DEF GroupOf, Standalone
<1>3. doc \in Seq(LineOf(X))
  <2>1. FragmentsOf(doc) \subseteq X /\ doc \in Seq(LineOf(FragmentsOf(doc)))
    BY DEF IsFile, LineOf
  <2>  HIDE DEF X
  <2>  QED  BY <2>1, WiderFile
<1>4. /\ \A x \in items : \E c \in group : x = TextItem(c)
      /\ \A c \in group : TextItem(c) \in items
      /\ \A c : TextItem(c).id = c /\ TextItem(c).raw = About(c).raw
  BY DEF GroupItems, TextItem
<1>5. \A x \in items : Fragment("guard", x.id, 0) \in X
  BY <1>2, <1>4
<1>  HIDE DEF X, lead, group, range, items
<1>6. /\ doc' \in Seq(LineOf(X))
      /\ \A x \in items : Has(doc', "guard", x.id)
      /\ \A S : (/\ \A x \in items : Fragment("guard", x.id, 0) \notin S
                 /\ \A f \in S, x \in items : f.is = "text" => f.of # x.raw)
                => Filter(TextIn(doc'), S) = Filter(TextIn(doc), S)
  <2>  DEFINE res == ProjectGuards(doc, range, items)
  <2>1. /\ res \in Seq(LineOf(X))
        /\ \A x \in items : Has(res, "guard", x.id)
        /\ \A S : (/\ \A x \in items : Fragment("guard", x.id, 0) \notin S
                   /\ \A f \in S, x \in items : f.is = "text" => f.of # x.raw)
                  => Filter(TextIn(res), S) = Filter(TextIn(doc), S)
    BY <1>1, <1>3, <1>5, GuardFacts
  <2>2. doc' = res
    BY <1>1
  <2>  HIDE DEF res
  <2>  QED  BY <2>1, <2>2
<1>7. \A c \in group : Has(doc', "guard", c)
  BY <1>4, <1>6
<1>8. ASSUME NEW c, c \notin group PROVE Has(doc', "guard", c) <=> Has(doc, "guard", c)
  <2>  DEFINE S == {f \in X : f.is = "guard" /\ f.of = c}
  <2>1. \A x \in items : Fragment("guard", x.id, 0) \notin S
    BY <1>4, <1>8 DEF Fragment
  <2>2. Filter(TextIn(doc'), S) = Filter(TextIn(doc), S)
    BY <1>6, <2>1
  <2>3. \A d, e \in Seq(LineOf(X)) :
           Filter(TextIn(d), {f \in X : f.is = "guard" /\ f.of = c})
             = Filter(TextIn(e), {f \in X : f.is = "guard" /\ f.of = c})
           => (Has(d, "guard", c) <=> Has(e, "guard", c))
    BY SameTextSameHas
  <2>  QED  BY <1>3, <1>6, <2>2, <2>3
<1>9. ASSUME NEW S, \A f \in S : f.is = "text" /\ \A c \in group : f.of # About(c).raw
      PROVE  Filter(TextIn(doc'), S) = Filter(TextIn(doc), S)
  <2>1. \A x \in items : Fragment("guard", x.id, 0) \notin S
    BY <1>9 DEF Fragment
  <2>2. \A f \in S, x \in items : f.of # x.raw
    BY <1>4, <1>9
  <2>  QED  BY <1>6, <2>1, <2>2
<1>10. IsFile(doc')
  BY <1>6, FileOf
<1>11. \A c : Has(doc, "guard", c) => Has(doc', "guard", c)
  BY <1>7, <1>8
<1>  QED  BY <1>2, <1>7, <1>9, <1>10, <1>11 DEF group, lead

(* Which instructions are left, and what is guarded, is read from the items. *)
LEMMA GroupsKept ==
    ASSUME UNCHANGED <<input, plan, projected>>
    PROVE  /\ Standalone' = Standalone /\ GuardedTexts' = GuardedTexts
           /\ \A c : GroupOf(c)' = GroupOf(c)
<1>  USE DEF About, IsCode, Planned
<1>1. Standalone' = Standalone
  BY DEF Standalone
<1>2. GuardedTexts' = GuardedTexts
  BY DEF GuardedTexts
<1>  QED  BY <1>1, <1>2 DEF GroupOf

(* Without guards there are no guarded texts, and every guard is in place.   *)
LEMMA NoneGuarded ==
    ASSUME NoGuards(doc, projected)
    PROVE  AllGuards(doc, projected) /\ GuardedTexts = {}
  BY DEF NoGuards, AllGuards, GuardedTexts

(* Every instruction to be guarded is in the group of a leader. *)
LEMMA LeadersCover ==
    ASSUME TypeInv, NEW c \in Standalone
    PROVE  LET leaders == {x \in Standalone : \A d \in GroupOf(x) : RankOf(x) <= RankOf(d)}
           IN \E i \in DOMAIN Sorted(leaders) : c \in GroupOf(Sorted(leaders)[i])
<1>  DEFINE leaders == {x \in Standalone : \A d \in GroupOf(x) : RankOf(x) <= RankOf(d)}
            ranks == {RankOf(d) : d \in GroupOf(c)}
<1>1. /\ GroupOf(c) \subseteq Standalone /\ c \in GroupOf(c)
      /\ Standalone \subseteq Planned /\ Planned \subseteq Candidates
  BY DEF GroupOf, Standalone, TypeInv
<1>2. ranks \in SUBSET Nat /\ ranks # {}
  BY <1>1, RankFacts
<1>3. PICK r \in ranks : \A q \in ranks : r <= q
  <2>  HIDE DEF ranks
  <2>1. \E r \in ranks : \A q \in ranks : r <= q
    BY <1>2, Smallest
  <2>  QED  BY <2>1
<1>4. PICK e \in GroupOf(c) : \A d \in GroupOf(c) : RankOf(e) <= RankOf(d)
  BY <1>3
<1>5. GroupOf(e) = GroupOf(c)
  BY <1>4 DEF GroupOf
<1>6. e \in leaders
  BY <1>1, <1>4, <1>5
<1>7. leaders \in SUBSET Planned
  BY <1>1
<1>  HIDE DEF leaders
<1>8. \A x \in leaders : \E i \in DOMAIN Sorted(leaders) : Sorted(leaders)[i] = x
  BY <1>7, SortedFacts
<1>9. PICK i \in DOMAIN Sorted(leaders) : Sorted(leaders)[i] = e
  BY <1>6, <1>8
<1>10. c \in GroupOf(Sorted(leaders)[i])
  BY <1>1, <1>5, <1>9
<1>11. \E j \in DOMAIN Sorted(leaders) : c \in GroupOf(Sorted(leaders)[j])
  BY <1>10
<1>  QED  BY <1>11 DEF leaders

LEMMA InitDoc == Init => DocInv
<1>  SUFFICES ASSUME Init PROVE DocInv
  OBVIOUS
<1>1. input \in Inputs /\ doc = input.doc /\ pc = "plan"
  BY DEF Init, ProjectionInit
<1>2. IsFile(doc)
  BY <1>1, NoGuardsRead
<1>  QED  BY <1>1, <1>2 DEF DocInv, TextKept, BatchIsAtomic

LEMMA StepDoc == TypeInv /\ DecidedInv /\ DocInv /\ [Next]_vars => DocInv'
<1>  SUFFICES ASSUME TypeInv, DecidedInv, DocInv, [Next]_vars PROVE DocInv'
  OBVIOUS
<1>1. Frame
  BY Frames
<1>2. CASE BeginRepair
  <2>1. /\ pc = "plan" /\ pc' = "code" /\ UNCHANGED <<input, doc>>
        /\ projected' = [c \in DOMAIN plan' |-> Pending]
    BY <1>2 DEF BeginRepair, Plan
  <2>2. doc' = input.doc /\ doc = input.doc /\ IsFile(doc')
    BY <2>1 DEF DocInv
  <2>3. \A c : ~Has(doc', "guard", c)
    BY <2>2, NoGuardsRead DEF TypeInv
  <2>4. NoGuards(doc, projected)'
    BY <2>1, <2>3 DEF NoGuards, Planned, Pending
  <2>  QED  BY <2>1, <2>2, <2>4 DEF DocInv, TextKept, BatchIsAtomic
<1>3. CASE ~BeginRepair
  <2>1. UNCHANGED <<input, plan>>
    BY <1>1, <1>3 DEF Frame
  <2>2. Planned' = Planned /\ \A c : About(c)' = About(c) /\ IsCode(c)' = IsCode(c)
    BY <2>1 DEF Planned, About, IsCode
  <2>3. CASE DispatchSource
    <3>1. /\ pc = "dispatch" /\ pc' = "dispatch"
          /\ projected' = [c \in Planned |->
               IF c \in ItemsIn(Head(queue))
               THEN [projected[c] EXCEPT !.strategy = "dispatch"] ELSE projected[c]]
      BY <2>3 DEF DispatchSource
    <3>2. /\ IsFile(doc')
          /\ \A c : Has(doc', "guard", c) => Has(doc, "guard", c)
          /\ \A S : (\A f \in S : f.is = "text") =>
                        Filter(TextIn(doc'), S) = Filter(TextIn(doc), S)
      BY <2>3, DispatchStep DEF DocInv
    <3>3. NoGuards(doc, projected) /\ TextKept(doc, GuardedTexts)
      BY <3>1 DEF DocInv
    <3>4. NoGuards(doc, projected)'
      <4>1. ASSUME NEW c \in Planned PROVE projected'[c].strategy # "guarded"
        <5>1. projected[c].strategy # "guarded"
          BY <3>3 DEF NoGuards
        <5>2. [projected[c] EXCEPT !.strategy = "dispatch"].strategy \in
                 {"dispatch", projected[c].strategy}
          OBVIOUS
        <5>  QED  BY <3>1, <5>1, <5>2
      <4>  QED  BY <2>2, <3>2, <3>3, <4>1 DEF NoGuards
    <3>5. GuardedTexts = {} /\ GuardedTexts' = {}
      BY <3>3, <3>4, NoneGuarded DEF NoGuards, GuardedTexts
    <3>6. TextKept(doc, GuardedTexts)'
      BY <2>1, <3>2, <3>3, <3>5 DEF TextKept
    <3>  QED  BY <3>1, <3>2, <3>4, <3>6 DEF DocInv, BatchIsAtomic
  <2>4. CASE RelateInstruction
    <3>1. /\ pc = "relate" /\ pc' = "relate" /\ doc' = doc
          /\ projected' = [projected EXCEPT ![Head(queue)] = Decided(Head(queue))]
      BY <2>4 DEF RelateInstruction
    <3>2. NoGuards(doc, projected) /\ TextKept(doc, GuardedTexts)
      BY <3>1 DEF DocInv
    <3>3. NoGuards(doc, projected)'
      <4>1. Decided(Head(queue)).strategy # "guarded"
        BY DecidedFacts
      <4>2. \A c \in Planned : projected'[c] \in {projected[c], Decided(Head(queue))}
        BY <3>1 DEF TypeInv, IsProjection
      <4>  QED  BY <2>2, <3>1, <3>2, <4>1, <4>2 DEF NoGuards
    <3>4. GuardedTexts = {} /\ GuardedTexts' = {}
      BY <3>2, <3>3, NoneGuarded DEF NoGuards, GuardedTexts
    <3>5. TextKept(doc, GuardedTexts)'
      BY <2>1, <3>1, <3>2, <3>4 DEF TextKept
    <3>  QED  BY <3>1, <3>3, <3>5 DEF DocInv, BatchIsAtomic
  <2>5. CASE RelateDone
    <3>  DEFINE leaders == {x \in Standalone : \A d \in GroupOf(x) : RankOf(x) <= RankOf(d)}
    <3>1. /\ pc = "relate" /\ pc' = "batch" /\ UNCHANGED <<doc, projected>>
          /\ saved' = [doc |-> doc, projected |-> projected]
          /\ queue' = Sorted(leaders)
      BY <2>5 DEF RelateDone
    <3>2. NoGuards(doc, projected) /\ TextKept(doc, GuardedTexts) /\ GuardedTexts = {}
      BY <3>1, NoneGuarded DEF DocInv
    <3>3. Standalone' = Standalone /\ GuardedTexts' = {} /\ \A c : GroupOf(c)' = GroupOf(c)
      BY <2>1, <3>1, <3>2, GroupsKept
    <3>4. IsFile(saved.doc)' /\ NoGuards(saved.doc, saved.projected)'
          /\ TextKept(saved.doc, {})' /\ AllGuards(doc, projected)'
      <4>1. saved'.doc = doc /\ saved'.projected = projected
        BY <3>1
      <4>2. AllGuards(doc, projected)
        BY <3>2, NoneGuarded
      <4>  QED  BY <2>1, <2>2, <3>1, <3>2, <4>1, <4>2 DEF NoGuards, AllGuards, TextKept, DocInv
    <3>5. \A c \in Standalone : \E i \in DOMAIN queue' : c \in GroupOf(queue'[i])
      BY <3>1, LeadersCover
    <3>6. \A c \in Standalone' : \E i \in DOMAIN queue' : c \in GroupOf(queue[i])'
      <4>1. \A i : GroupOf(queue[i])' = GroupOf(queue'[i])
        BY <3>1, <3>3, <2>1 DEF GroupOf, Standalone, About, IsCode, Planned
      <4>  QED  BY <3>3, <3>5, <4>1
    <3>7. TextKept(doc, GuardedTexts)' /\ IsFile(doc')
      BY <2>1, <3>1, <3>2, <3>3 DEF TextKept, DocInv
    <3>  QED  BY <3>1, <3>4, <3>6, <3>7 DEF DocInv, BatchIsAtomic
  <2>6. CASE ProjectGroup
    <3>  DEFINE group == GroupOf(Head(queue))
    <3>1. /\ pc = "batch" /\ pc' = "batch" /\ saved' = saved /\ queue # <<>>
          /\ queue' = Tail(queue)
          /\ projected' = [d \in Planned |->
                 IF d \in group THEN [strategy |-> "guarded", covering |-> {}]
                 ELSE projected[d]]
      BY <2>6 DEF ProjectGroup
    <3>2. /\ IsFile(doc') /\ group \subseteq Planned
          /\ \A c \in group : Has(doc', "guard", c)
          /\ \A c : Has(doc, "guard", c) => Has(doc', "guard", c)
          /\ \A S : (\A f \in S : f.is = "text" /\ \A c \in group : f.of # About(c).raw)
                    => Filter(TextIn(doc'), S) = Filter(TextIn(doc), S)
      BY <2>6, GuardStep DEF DocInv
    <3>3. queue \in Seq(Lone)
      BY <3>1 DEF DecidedInv
    <3>  HIDE DEF group
    <3>4. AllGuards(doc, projected)'
      BY <2>2, <3>1, <3>2 DEF AllGuards, DocInv
    <3>5. Standalone' = Standalone \ group
      BY <2>2, <3>1, <3>2 DEF Standalone
    <3>6. ASSUME NEW c \in Standalone'
          PROVE  \E j \in DOMAIN queue' : c \in GroupOf(queue[j])'
      <4>1. c \in Standalone /\ c \notin group
        BY <3>5
      <4>2. PICK i \in DOMAIN queue : c \in GroupOf(queue[i])
        BY <3>1, <4>1 DEF DocInv
      <4>3. i # 1
        BY <3>1, <3>3, <4>1, <4>2 DEF group
      <4>4. i - 1 \in DOMAIN queue' /\ queue'[i - 1] = queue[i]
        BY <3>1, <3>3, <4>2, <4>3
      <4>5. c \in GroupOf(queue[i - 1])'
        BY <2>1, <4>2, <4>4, <3>6 DEF GroupOf, About
      <4>  QED  BY <4>4, <4>5
    <3>7. GuardedTexts' = GuardedTexts \cup {About(c).raw : c \in group}
      BY <2>2, <3>1, <3>2 DEF GuardedTexts
    <3>8. TextKept(doc, GuardedTexts)'
      <4>1. ASSUME NEW S, \A f \in S : f.is = "text" /\ f.of \notin GuardedTexts'
            PROVE  Filter(TextIn(doc'), S) = Filter(TextIn(input.doc), S)
        <5>1. Filter(TextIn(doc'), S) = Filter(TextIn(doc), S)
          BY <3>2, <3>7, <4>1
        <5>2. Filter(TextIn(doc), S) = Filter(TextIn(input.doc), S)
          BY <3>7, <4>1 DEF DocInv, TextKept
        <5>  QED  BY <5>1, <5>2
      <4>  QED  BY <2>1, <4>1 DEF TextKept
    <3>9. IsFile(saved.doc)' /\ NoGuards(saved.doc, saved.projected)' /\ TextKept(saved.doc, {})'
      BY <2>1, <2>2, <3>1 DEF DocInv, NoGuards, TextKept
    <3>  QED  BY <3>1, <3>2, <3>4, <3>6, <3>8, <3>9 DEF DocInv, BatchIsAtomic
  <2>7. CASE GroupFails
    <3>1. /\ pc = "batch" /\ pc' = "failed" /\ doc' = saved.doc /\ projected' = saved.projected
      BY <2>7 DEF GroupFails, Failing
    <3>2. IsFile(doc') /\ NoGuards(doc', projected') /\ TextKept(doc', {})
      BY <3>1 DEF DocInv
    <3>3. BatchIsAtomic'
      BY <2>2, <3>2 DEF BatchIsAtomic, NoGuards
    <3>4. TextKept(doc, GuardedTexts)'
      BY <2>1, <3>2 DEF TextKept
    <3>  QED  BY <3>1, <3>2, <3>3, <3>4 DEF DocInv
  <2>8. CASE ~DispatchSource /\ ~RelateInstruction /\ ~RelateDone /\ ~ProjectGroup /\ ~GroupFails
    <3>1. UNCHANGED <<doc, projected, saved>>
      BY <1>1, <1>3, <2>8 DEF Frame
    <3>2. Standalone' = Standalone /\ GuardedTexts' = GuardedTexts
          /\ \A c : GroupOf(c)' = GroupOf(c)
      BY <2>1, <3>1, GroupsKept
    <3>3. IsFile(doc') /\ TextKept(doc, GuardedTexts)'
      BY <2>1, <3>1, <3>2 DEF DocInv, TextKept
    <3>4. pc' = "plan" => doc' = input'.doc
      BY <1>1, <2>1, <3>1 DEF Frame, Moves, DocInv
    <3>5. /\ NoGuards(doc, projected)' <=> NoGuards(doc, projected)
          /\ AllGuards(doc, projected)' <=> AllGuards(doc, projected)
          /\ NoGuards(saved.doc, saved.projected)' <=> NoGuards(saved.doc, saved.projected)
          /\ TextKept(saved.doc, {})' <=> TextKept(saved.doc, {})
      BY <2>1, <2>2, <3>1 DEF NoGuards, AllGuards, TextKept
    <3>6. pc' \in {"code", "dispatch", "relate"} => NoGuards(doc, projected)'
      <4>1. pc' \in {"code", "dispatch", "relate"} =>
               pc \in {"code", "dispatch", "relate"} \/ (pc = "plan" /\ pc' = "code")
        BY <1>1 DEF Frame, Moves
      <4>2. ~(pc = "plan" /\ pc' = "code")
        <5>  SUFFICES ASSUME pc = "plan", pc' = "code" PROVE FALSE
          OBVIOUS
        <5>1. Next
          BY DEF vars, pvars
        <5>2. ~Project
          BY ProjectionStages DEF Project
        <5>  QED
          BY <1>3, <5>1, <5>2
          DEF Next, Revalidate, RevalidateFails, ReplayContext, ReplayDone, WriteArtifact, Crash,
              pvars
      <4>  QED  BY <3>5, <4>1, <4>2 DEF DocInv
    <3>7. CASE pc' = "batch"
      <4>1. pc = "batch" /\ queue' = queue
        <5>1. pc = "batch"
          BY <1>1, <2>8, <3>7 DEF Frame
        <5>2. CASE UNCHANGED vars
          BY <5>1, <5>2 DEF vars, pvars
        <5>3. CASE Project
          BY <5>1, <5>3, <2>8, <3>7 DEF Project, ProjectionNext, RewriteSource,
             RewriteSourceWithModel, ResourceMissing, SourcesDone, NotInvoked, DispatchDone,
             BatchDone
        <5>4. CASE Next /\ ~Project
          BY <1>3, <3>7, <5>1, <5>4
          DEF Next, Revalidate, RevalidateFails, ReplayContext, ReplayDone, WriteArtifact, Crash,
              pvars
        <5>  QED  BY <5>2, <5>3, <5>4
      <4>2. \A c \in Standalone' : \E i \in DOMAIN queue' : c \in GroupOf(queue[i])'
        <5>1. \A i : GroupOf(queue[i])' = GroupOf(queue[i])
          BY <4>1, <3>2, <2>1 DEF GroupOf, About
        <5>  QED  BY <3>2, <4>1, <5>1 DEF DocInv
      <4>  QED  BY <3>1, <3>3, <3>5, <3>7, <4>1, <4>2 DEF DocInv, BatchIsAtomic
    <3>8. CASE pc' = "projected"
      <4>1. Standalone = {} /\ AllGuards(doc, projected)
        <5>1. pc = "projected" \/ pc = "batch"
          BY <1>1, <3>8 DEF Frame, Moves
        <5>2. CASE pc = "projected"
          BY <5>2 DEF DocInv
        <5>3. CASE pc = "batch"
          <6>1. Next
            BY <3>8, <5>3 DEF vars, pvars
          <6>2. CASE Project
            <7>1. BatchDone
              BY <6>2, <5>3, <3>8, <2>8 DEF Project, ProjectionNext, RewriteSource, Failing,
                 RewriteSourceWithModel, ResourceMissing, SourcesDone, NotInvoked, DispatchDone
            <7>2. queue = <<>>
              BY <7>1 DEF BatchDone
            <7>3. DOMAIN queue = {}
              BY <7>2
            <7>  QED  BY <5>3, <7>3 DEF DocInv
          <6>3. CASE ~Project
            BY <1>3, <3>8, <5>3, <6>1, <6>3
            DEF Next, Revalidate, RevalidateFails, ReplayContext, ReplayDone, WriteArtifact, Crash,
                pvars
          <6>  QED  BY <6>2, <6>3
        <5>  QED  BY <5>1, <5>2, <5>3
      <4>  QED  BY <3>2, <3>3, <3>5, <3>8, <4>1 DEF DocInv, BatchIsAtomic
    <3>9. CASE pc' = "failed"
      <4>1. pc \in {"failed", "code", "dispatch", "batch", "projected"}
        BY <1>1, <3>9 DEF Frame, Moves
      <4>2. pc # "batch"
        <5>  SUFFICES ASSUME pc = "batch" PROVE FALSE
          OBVIOUS
        <5>1. Next
          BY <3>9 DEF vars, pvars
        <5>2. ~Project
          BY <3>9, <2>8 DEF Project, ProjectionNext, RewriteSource,
             RewriteSourceWithModel, ResourceMissing, SourcesDone, NotInvoked, DispatchDone,
             BatchDone
        <5>  QED
          BY <1>3, <3>9, <5>1, <5>2
          DEF Next, Revalidate, RevalidateFails, ReplayContext, ReplayDone, WriteArtifact, Crash,
              pvars
      <4>3. BatchIsAtomic'
        <5>1. CASE pc \in {"code", "dispatch"}
          BY <2>2, <3>1, <5>1 DEF DocInv, BatchIsAtomic, NoGuards
        <5>2. CASE pc = "projected"
          BY <2>2, <3>1, <3>2, <5>2 DEF DocInv, BatchIsAtomic, AllGuards
        <5>3. CASE pc = "failed"
          BY <2>2, <3>1, <3>2, <5>3 DEF DocInv, BatchIsAtomic
        <5>  QED  BY <4>1, <4>2, <5>1, <5>2, <5>3
      <4>  QED  BY <3>3, <3>9, <4>3 DEF DocInv
    <3>10. CASE pc' \notin {"batch", "projected", "failed"}
      BY <3>3, <3>4, <3>6, <3>10 DEF DocInv, BatchIsAtomic
    <3>  QED  BY <3>7, <3>8, <3>9, <3>10
  <2>  QED  BY <2>3, <2>4, <2>5, <2>6, <2>7, <2>8
<1>  QED  BY <1>2, <1>3

LEMMA OriginalTextKept ==
    ASSUME DocInv
    PROVE  OnlyGuardedTextChanges
<1>  DEFINE all    == ToSet(TextIn(doc)) \cup ToSet(TextIn(input.doc))
            others == {f \in all : IsOriginal(f) /\ f.of \notin GuardedTexts}
<1>1. \A f \in others : f.is = "text" /\ f.of \notin GuardedTexts
  BY DEF IsOriginal
<1>  HIDE DEF others
<1>2. Filter(TextIn(doc), others) = Filter(TextIn(input.doc), others)
  BY <1>1 DEF DocInv, TextKept
<1>  QED  BY <1>2 DEF OnlyGuardedTextChanges, others

-------------------------------------------------------------------------------
(* The lines recorded for an instruction                                    *)

(* A line as it was read, but for commands that were replaced.               *)
SameLine(a, b) ==
    /\ a.kind = b.kind /\ DOMAIN a.frags = DOMAIN b.frags
    /\ \A p \in DOMAIN b.frags :
           \/ a.frags[p] = b.frags[p]
           \/ b.frags[p].is = "run" /\ a.frags[p].is = "reference"

KeptTo(d, last) == \A l \in 1..last : SameLine(d[l], input.doc[l])

(* No script was dispatched whose command was above a line. *)
NoneAbove(d, last) ==
    \A s \in DOMAIN input.sources :
        Has(d, "dispatch", s) => \A x \in Invocations(input.doc, s) : ~(x[1] < last)

Early == {"plan", "code", "dispatch", "relate"}

(* No line is lost.  The lines down to any that no dispatch is above are as   *)
(* they were read; in the batch, which goes from the bottom up, so are those  *)
(* down to every instruction that is left.                                    *)
ProvenanceInv ==
    /\ pc = "dispatch" => queue \in Seq(DOMAIN input.sources)
    /\ pc \in Early \cup {"batch"} => Len(doc) >= Len(input.doc)
    /\ pc \in Early =>
           \A last \in 0..Len(input.doc) : NoneAbove(doc, last) => KeptTo(doc, last)
    /\ pc = "batch" =>
           /\ \A i, j \in DOMAIN queue : i < j => Before(queue[i], queue[j])
           /\ \A c \in Standalone :
                  (Located(c) /\ ~DispatchedAbove(c) /\ SharesNoLine(c)) =>
                      KeptTo(doc, About(c).last)

(* The sources of planned code. *)
LEMMA ScriptsAreSources ==
    ASSUME TypeInv
    PROVE  ScriptsInOrder(Planned) \in Seq(DOMAIN input.sources)
<1>  DEFINE S == {c \in Planned : IsCode(c)}
            codes == InOrder(S)
            n == Len(codes)
            first == {i \in DOMAIN codes :
                         \A j \in 1..(i - 1) : About(codes[j]).source # About(codes[i]).source}
            at == Filter([i \in DOMAIN codes |-> i], first)
            Y == DOMAIN input.sources
<1>1. S \subseteq Candidates /\ \A c \in S : About(c).source \in Y
  <2>1. input \in Inputs /\ Planned \subseteq Candidates
    BY DEF TypeInv
  <2>2. ASSUME NEW c \in S PROVE c \in Candidates /\ input.about[c].layer = "code"
    BY <2>1 DEF IsCode, About
  <2>3. \A c \in S : input.about[c].source \in Y
    BY <2>1, <2>2, InputsAssumption
  <2>  QED  BY <2>2, <2>3 DEF About
<1>  HIDE DEF S
<1>2. codes \in Seq(S)
  BY <1>1, InOrderFacts
<1>  HIDE DEF codes
<1>3. n \in Nat /\ DOMAIN codes = 1..n /\ \A i \in 1..n : codes[i] \in S
  BY <1>2
<1>4. [i \in DOMAIN codes |-> i] \in Seq(1..n)
  <2>  HIDE DEF n
  <2>1. [i \in 1..n |-> i] \in Seq(1..n)
    BY <1>3
  <2>  QED  BY <1>3, <2>1
<1>5. at \in Seq(1..n)
  <2>1. \A u \in Seq(1..n) : Filter(u, first) \in Seq(1..n)
    BY FilterAppend
  <2>  HIDE DEF n, first
  <2>  QED  BY <1>4, <2>1
<1>6. ScriptsInOrder(Planned) = [k \in DOMAIN at |-> About(codes[at[k]]).source]
  BY DEF ScriptsInOrder, codes, S
<1>  HIDE DEF at, n
<1>7. Len(at) \in Nat /\ DOMAIN at = 1..Len(at) /\ \A k \in 1..Len(at) : at[k] \in 1..n
  <2>1. \A T : \A u \in Seq(T) :
           Len(u) \in Nat /\ DOMAIN u = 1..Len(u) /\ \A k \in 1..Len(u) : u[k] \in T
    OBVIOUS
  <2>  HIDE DEF first
  <2>  QED  BY <1>5, <2>1
<1>8. \A k \in 1..Len(at) : About(codes[at[k]]).source \in Y
  BY <1>1, <1>3, <1>7
<1>  HIDE DEF Y
<1>9. [k \in 1..Len(at) |-> About(codes[at[k]]).source] \in Seq(Y)
  BY <1>7, <1>8
<1>10. ScriptsInOrder(Planned) \in Seq(Y)
  BY <1>6, <1>7, <1>9
<1>  QED  BY <1>10 DEF Y

(* A dispatch keeps the lines above those of the scripts dispatched so far. *)
LEMMA DispatchKeeps ==
    ASSUME IsFile(doc), IsFile(input.doc), Len(doc) >= Len(input.doc),
           DispatchSource, Head(queue) \in DOMAIN input.sources, input' = input,
           \A last \in 0..Len(input.doc) : NoneAbove(doc, last) => KeptTo(doc, last)
    PROVE  /\ Len(doc') >= Len(input.doc)
           /\ \A last \in 0..Len(input.doc) : NoneAbove(doc', last) => KeptTo(doc', last)
<1>  DEFINE s == Head(queue)
            m == Len(input.doc)
            n == Len(doc)
<1>1. Dispatchable(doc, s) /\ doc' = ProjectDispatch(doc, s)
  BY DEF DispatchSource
<1>2. doc \in Seq(LineOf(FragmentsOf(doc))) /\ input.doc \in Seq(LineOf(FragmentsOf(input.doc)))
  BY DEF IsFile, LineOf
<1>3. n \in Nat /\ m \in Nat /\ n >= m /\ Lines(doc) = 1..n /\ Lines(input.doc) = 1..m
  BY <1>2 DEF Lines
<1>  HIDE DEF m, n, s
<1>4. PICK k \in 1..n : \E p \in DOMAIN doc[k].frags : OneMoved(doc, doc', s, k, p)
  <2>  DEFINE X == FragmentsOf(doc)
  <2>1. doc \in Seq(LineOf(X))
    BY <1>2
  <2>  HIDE DEF X
  <2>2. \E k \in 1..Len(doc) : \E p \in DOMAIN doc[k].frags :
            OneMoved(doc, ProjectDispatch(doc, s), s, k, p)
    BY <1>1, <2>1, DispatchLines
  <2>  QED  BY <1>1, <2>2 DEF n
<1>5. PICK p \in DOMAIN doc[k].frags :
                  /\ <<k, p>> \in Invocations(doc, s)
                  /\ doc[k].frags[p].is = "run" /\ doc[k].frags[p].of = s
                  /\ Len(doc') = n + 2
                  /\ \A l \in 1..(k - 1) : doc'[l] = doc[l]
                  /\ doc'[k].kind = doc[k].kind /\ DOMAIN doc'[k].frags = DOMAIN doc[k].frags
                  /\ \A q \in DOMAIN doc[k].frags : q # p => doc'[k].frags[q] = doc[k].frags[q]
                  /\ doc'[k].frags[p].is = "reference"
                  /\ doc'[k + 2] = Dispatch(s)
                  /\ \A l \in (k + 1)..n : doc'[l + 2] = doc[l]
  <2>1. PICK p \in DOMAIN doc[k].frags : OneMoved(doc, doc', s, k, p)
    BY <1>4
  <2>  QED  BY <2>1 DEF OneMoved, n
<1>6. k \in Nat /\ 1 <= k /\ k <= n /\ Lines(doc') = 1..(n + 2) /\ Len(doc') >= m
  BY <1>3, <1>5 DEF Lines
<1>7. \A d, is, of : Has(d, is, of) <=> \E l \in Lines(d) : \E q \in DOMAIN d[l].frags :
                                          d[l].frags[q].is = is /\ d[l].frags[q].of = of
  <2>  SUFFICES ASSUME NEW d, NEW is, NEW of
                PROVE  Has(d, is, of) <=> \E l \in Lines(d) : \E q \in DOMAIN d[l].frags :
                                          d[l].frags[q].is = is /\ d[l].frags[q].of = of
    OBVIOUS
  <2>  DEFINE on(l) == {<<l, q>> : q \in {r \in DOMAIN d[l].frags :
                                d[l].frags[r].is = is /\ d[l].frags[r].of = of}}
  <2>1. Has(d, is, of) <=> \E l \in Lines(d) : on(l) # {}
    BY DEF Has, Places
  <2>  QED  BY <2>1
<1>8. Has(doc', "dispatch", s)
  <2>1. Dispatch(s).frags = <<Fragment("dispatch", s, 0)>>
    BY DEF Dispatch, Line
  <2>2. /\ 1 \in DOMAIN Dispatch(s).frags
        /\ Dispatch(s).frags[1].is = "dispatch" /\ Dispatch(s).frags[1].of = s
    BY <2>1 DEF Fragment
  <2>3. k + 2 \in Lines(doc')
    BY <1>3, <1>6
  <2>  QED  BY <1>5, <1>7, <2>2, <2>3
<1>9. ASSUME NEW t, Has(doc, "dispatch", t) PROVE Has(doc', "dispatch", t)
  <2>1. PICK l \in Lines(doc) : \E q \in DOMAIN doc[l].frags :
                  doc[l].frags[q].is = "dispatch" /\ doc[l].frags[q].of = t
    BY <1>7, <1>9
  <2>2. PICK q \in DOMAIN doc[l].frags :
                  doc[l].frags[q].is = "dispatch" /\ doc[l].frags[q].of = t
    BY <2>1
  <2>3. l \in Nat /\ 1 <= l /\ l <= n
    BY <1>3, <2>1
  <2>4. CASE l < k
    <3>1. l \in 1..(k - 1) /\ l \in Lines(doc')
      BY <1>3, <1>6, <2>3, <2>4
    <3>2. doc'[l] = doc[l]
      BY <1>5, <3>1
    <3>  QED  BY <1>7, <2>2, <3>1, <3>2
  <2>5. CASE l = k
    <3>1. q # p
      BY <1>5, <2>2, <2>5
    <3>2. q \in DOMAIN doc'[k].frags /\ doc'[k].frags[q] = doc[k].frags[q]
      BY <1>5, <2>2, <2>5, <3>1
    <3>3. k \in Lines(doc')
      BY <1>3, <1>6
    <3>  QED  BY <1>7, <2>2, <2>5, <3>2, <3>3
  <2>6. CASE l > k
    <3>1. l \in (k + 1)..n /\ l + 2 \in Lines(doc')
      BY <1>3, <1>6, <2>3, <2>6
    <3>2. doc'[l + 2] = doc[l]
      BY <1>5, <3>1
    <3>  QED  BY <1>7, <2>2, <3>1, <3>2
  <2>  QED  BY <1>6, <2>3, <2>4, <2>5, <2>6
<1>10. ASSUME NEW last \in 0..m, NoneAbove(doc', last) PROVE KeptTo(doc', last)
  <2>1. NoneAbove(doc, last)
    BY <1>9, <1>10 DEF NoneAbove
  <2>2. \A l \in 1..last : SameLine(doc[l], input.doc[l])
    BY <2>1 DEF KeptTo, m
  <2>3. last \in Nat /\ last <= m
    BY <1>3
  <2>4. ASSUME k < last PROVE FALSE
    <3>1. k \in 1..last /\ k \in Lines(input.doc)
      BY <1>3, <1>6, <2>3, <2>4
    <3>2. /\ doc[k].kind = input.doc[k].kind /\ DOMAIN doc[k].frags = DOMAIN input.doc[k].frags
          /\ p \in DOMAIN input.doc[k].frags
          /\ doc[k].frags[p] = input.doc[k].frags[p] \/ doc[k].frags[p].is = "reference"
      BY <1>5, <2>2, <3>1 DEF SameLine
    <3>3. input.doc[k].frags[p].is = "run" /\ input.doc[k].frags[p].of = s
      BY <1>5, <3>2
    <3>4. <<k, p>> \in Places(input.doc, "run", s)
      BY <3>1, <3>2, <3>3 DEF Places
    <3>5. Editable(doc, k)
      <4>1. <<k, p>>[1] = k
        OBVIOUS
      <4>  QED  BY <1>5, <4>1 DEF Invocations
    <3>6. Editable(input.doc, k)
      <4>1. ASSUME NEW j \in {k - 1, k + 1} \cap Lines(input.doc)
            PROVE  j \in Lines(doc) /\ doc[j].kind = input.doc[j].kind
        <5>1. j \in 1..m /\ j \in 1..last /\ j \in 1..n
          BY <1>3, <1>6, <2>3, <2>4, <4>1
        <5>  QED  BY <1>3, <2>2, <5>1 DEF SameLine
      <4>  QED  BY <3>2, <3>5, <4>1 DEF Editable
    <3>7. <<k, p>> \in Invocations(input.doc, s) /\ <<k, p>>[1] = k
      BY <3>4, <3>6 DEF Invocations
    <3>8. s \in DOMAIN input.sources
      BY DEF s
    <3>  QED  BY <1>8, <1>10, <2>4, <3>7, <3>8 DEF NoneAbove
  <2>5. ASSUME NEW l \in 1..last PROVE SameLine(doc'[l], input.doc[l])
    <3>1. l \in Nat /\ l <= last /\ SameLine(doc[l], input.doc[l])
      BY <2>2, <2>3
    <3>2. CASE l < k
      <4>1. l \in 1..(k - 1)
        BY <1>6, <3>1, <3>2
      <4>2. doc'[l] = doc[l]
        BY <1>5, <4>1
      <4>  QED  BY <3>1, <4>2
    <3>3. CASE l = k
      <4>1. ASSUME NEW q \in DOMAIN input.doc[k].frags
            PROVE  \/ doc'[k].frags[q] = input.doc[k].frags[q]
                   \/ input.doc[k].frags[q].is = "run" /\ doc'[k].frags[q].is = "reference"
        <5>1. /\ q \in DOMAIN doc[k].frags
              /\ \/ doc[k].frags[q] = input.doc[k].frags[q]
                 \/ input.doc[k].frags[q].is = "run" /\ doc[k].frags[q].is = "reference"
          BY <3>1, <3>3 DEF SameLine
        <5>2. CASE q = p
          BY <1>5, <5>1, <5>2
        <5>3. CASE q # p
          BY <1>5, <5>1, <5>3
        <5>  QED  BY <5>2, <5>3
      <4>  QED  BY <1>5, <3>1, <3>3, <4>1 DEF SameLine
    <3>4. CASE l > k
      BY <1>6, <2>3, <2>4, <3>1, <3>4
    <3>  QED  BY <1>6, <3>1, <3>2, <3>3, <3>4
  <2>  QED  BY <2>5 DEF KeptTo
<1>11. \A last \in 0..m : NoneAbove(doc', last) => KeptTo(doc', last)
  BY <1>10
<1>  QED  BY <1>6, <1>11 DEF m

(* A group is guarded below the lines its fragments are not on; no line is   *)
(* lost, and no dispatch.                                                    *)
LEMMA GuardsBelow ==
    ASSUME TypeInv, DecidedInv, IsFile(doc), ProjectGroup, NEW k \in 0..Len(doc),
           \A x \in GroupItems(Head(queue)) :
               \A m \in MatchesIn(doc, RangeOf(GroupOf(Head(queue)), Head(queue)), x) : m[1] > k
    PROVE  /\ Len(doc') >= Len(doc)
           /\ \A l \in 1..k : doc'[l] = doc[l]
           /\ \A s : Has(doc', "dispatch", s) <=> Has(doc, "dispatch", s)
<1>  DEFINE lead  == Head(queue)
            range == RangeOf(GroupOf(lead), lead)
            items == GroupItems(lead)
            X == FragmentsOf(doc) \cup {Fragment("guard", c, 0) : c \in Planned}
            res == ProjectGuards(doc, range, items)
<1>1. Projectable(doc, range, items) /\ doc' = res
  BY DEF ProjectGroup
<1>2. GroupOf(lead) \subseteq Planned
  BY GuardStep
<1>3. doc \in Seq(LineOf(X))
  <2>1. FragmentsOf(doc) \subseteq X /\ doc \in Seq(LineOf(FragmentsOf(doc)))
    BY DEF IsFile, LineOf
  <2>  HIDE DEF X
  <2>  QED  BY <2>1, WiderFile
<1>4. /\ \A x \in items : x.id \in GroupOf(lead)
      /\ \A x \in items : \A m \in MatchesIn(doc, range, x) : m[1] > k
  BY DEF GroupItems, TextItem
<1>5. \A x \in items : Fragment("guard", x.id, 0) \in X
  BY <1>2, <1>4
<1>  HIDE DEF X, lead, range, items
<1>6. Len(res) >= Len(doc) /\ \A l \in 1..k : res[l] = doc[l]
  BY <1>1, <1>3, <1>4, <1>5, GuardLines
<1>7. /\ res \in Seq(LineOf(X))
      /\ \A S : (/\ \A x \in items : Fragment("guard", x.id, 0) \notin S
                 /\ \A f \in S, x \in items : f.is = "text" => f.of # x.raw)
                => Filter(TextIn(res), S) = Filter(TextIn(doc), S)
  BY <1>1, <1>3, <1>5, GuardFacts
<1>  HIDE DEF res
<1>8. ASSUME NEW s PROVE Has(doc', "dispatch", s) <=> Has(doc, "dispatch", s)
  <2>  DEFINE S == {f \in X : f.is = "dispatch" /\ f.of = s}
  <2>1. \A x \in items : Fragment("guard", x.id, 0) \notin S
    BY DEF Fragment
  <2>2. \A f \in S : f.is # "text"
    OBVIOUS
  <2>3. Filter(TextIn(doc'), S) = Filter(TextIn(doc), S)
    BY <1>1, <1>7, <2>1, <2>2
  <2>4. \A d, e \in Seq(LineOf(X)) :
           Filter(TextIn(d), {f \in X : f.is = "dispatch" /\ f.of = s})
             = Filter(TextIn(e), {f \in X : f.is = "dispatch" /\ f.of = s})
           => (Has(d, "dispatch", s) <=> Has(e, "dispatch", s))
    BY SameTextSameHas
  <2>  QED  BY <1>1, <1>3, <1>7, <2>3, <2>4
<1>  QED  BY <1>1, <1>6, <1>8

(* The fragments of a group that comes before an instruction are below it.   *)
LEMMA GroupIsBelow ==
    ASSUME TypeInv, NEW c \in Planned, NEW lead \in Planned, lead # c, ~IsCode(lead),
           Located(c), SharesNoLine(c), c \notin GroupOf(lead), c \in Standalone,
           \/ About(lead).first > About(c).first
           \/ About(lead).first = About(c).first,
           Len(doc) \in Nat, Len(input.doc) \in Nat, Len(doc) >= Len(input.doc)
    PROVE  \A x \in GroupItems(lead) :
               \A m \in MatchesIn(doc, RangeOf(GroupOf(lead), lead), x) : m[1] > About(c).last
<1>1. /\ About(c).first \in Nat /\ About(c).last \in Nat
      /\ About(lead).first \in Nat /\ About(lead).last \in Nat
  BY InputsAssumption DEF TypeInv, About
<1>2. About(c).first # 0 /\ About(lead).first # 0
  BY <1>1 DEF Located
<1>3. Apart(c, lead)
  BY DEF SharesNoLine
<1>4. ~(About(lead).first = About(c).first /\ About(lead).last = About(c).last)
  BY <1>2 DEF GroupOf
<1>5. /\ Located(lead)
      /\ About(c).last < About(lead).first \/ About(lead).last < About(c).first
  BY <1>2, <1>3, <1>4 DEF Apart
<1>6. RangeOf(GroupOf(lead), lead) = <<About(lead).first, About(lead).last>>
  <2>1. About(lead).first # 0 /\ About(lead).last <= Len(doc)
    BY <1>1, <1>5 DEF Located
  <2>2. TextItem(lead).first = About(lead).first /\ TextItem(lead).last = About(lead).last
    BY DEF TextItem
  <2>  QED  BY <2>1, <2>2 DEF RangeOf, TargetLines
<1>7. ASSUME NEW x, NEW m \in MatchesIn(doc, <<About(lead).first, About(lead).last>>, x)
      PROVE  m[1] > About(c).last
  <2>1. m \in Places(doc, "text", x.raw) /\ About(lead).first <= m[1] /\ m[1] <= About(lead).last
    BY DEF MatchesIn
  <2>2. PICK l \in Lines(doc) :
           m \in {<<l, p>> : p \in {q \in DOMAIN doc[l].frags :
                             doc[l].frags[q].is = "text" /\ doc[l].frags[q].of = x.raw}}
    BY <2>1 DEF Places
  <2>3. m[1] = l /\ l \in Nat
    BY <2>2 DEF Lines
  <2>  QED  BY <1>1, <1>5, <2>1, <2>3
<1>  QED  BY <1>6, <1>7

(* What an instruction is located by is recorded with the input and the plan. *)
LEMMA LocationsKept ==
    ASSUME UNCHANGED <<input, plan>>
    PROVE  /\ \A c : /\ About(c)' = About(c) /\ Located(c)' = Located(c)
                     /\ SharesNoLine(c)' = SharesNoLine(c)
           /\ \A c, d : Before(c, d)' = Before(c, d)
           /\ \A last : /\ NoneAbove(doc, last)' <=> NoneAbove(doc', last)
                        /\ KeptTo(doc, last)' <=> KeptTo(doc', last)
<1>1. \A c : About(c)' = About(c) /\ IsCode(c)' = IsCode(c)
  BY DEF About, IsCode
<1>2. Planned' = Planned
  BY DEF Planned
<1>3. \A c : Located(c)' = Located(c)
  BY <1>1 DEF Located
<1>4. \A c, d : Apart(c, d)' = Apart(c, d)
  BY <1>1, <1>3 DEF Apart
<1>5. \A c : SharesNoLine(c)' = SharesNoLine(c)
  BY <1>1, <1>2, <1>4 DEF SharesNoLine
<1>6. \A c, d : Before(c, d)' = Before(c, d)
  BY <1>1 DEF Before, RankOf
<1>  QED  BY <1>1, <1>3, <1>5, <1>6 DEF NoneAbove, KeptTo, SameLine

(* How the queues of the dispatches and of the batch come about. *)
LEMMA QueueMoves ==
    ASSUME [Next]_vars
    PROVE  /\ pc' = "dispatch" =>
                  \/ queue' = ScriptsInOrder(Planned)
                  \/ DispatchSource /\ queue' = Tail(queue) /\ queue # <<>> /\ pc = "dispatch"
                  \/ pc = "dispatch" /\ queue' = queue
           /\ pc' = "batch" =>
                  \/ RelateDone \/ ProjectGroup
                  \/ pc = "batch" /\ UNCHANGED <<queue, doc, projected, plan>>
<1>1. CASE UNCHANGED vars
  BY <1>1 DEF vars, pvars
<1>2. CASE Project
  <2>1. CASE DispatchSource
    <3>1. queue' = Tail(queue) /\ queue # <<>> /\ pc = "dispatch" /\ pc' = "dispatch"
      BY <2>1 DEF DispatchSource
    <3>  QED  BY <2>1, <3>1
  <2>2. CASE RelateDone
    <3>1. pc' = "batch"
      BY <2>2 DEF RelateDone
    <3>  QED  BY <2>2, <3>1
  <2>3. CASE ProjectGroup
    <3>1. pc' = "batch"
      BY <2>3 DEF ProjectGroup
    <3>  QED  BY <2>3, <3>1
  <2>4. CASE ~DispatchSource /\ ~RelateDone /\ ~ProjectGroup
    BY <1>2, <2>4 DEF Project, ProjectionNext, RewriteSource, RewriteSourceWithModel,
       ResourceMissing, SourcesDone, NotInvoked, DispatchDone, RelateInstruction,
       GroupFails, BatchDone, Failing
  <2>  QED  BY <2>1, <2>2, <2>3, <2>4
<1>3. CASE Next /\ ~Project
  BY <1>3
  DEF Next, BeginRepair, Plan, Revalidate, RevalidateFails, ReplayContext, ReplayDone,
      WriteArtifact, Crash, Failing, pvars
<1>  QED  BY <1>1, <1>2, <1>3

LEMMA InitProvenance == Init => ProvenanceInv
<1>  SUFFICES ASSUME Init PROVE ProvenanceInv
  OBVIOUS
<1>1. input \in Inputs /\ doc = input.doc /\ pc = "plan"
  BY DEF Init, ProjectionInit
<1>2. Len(doc) \in Nat
  BY <1>1, NoGuardsRead DEF IsFile
<1>3. Len(doc) >= Len(input.doc)
  BY <1>1, <1>2
<1>  QED  BY <1>1, <1>3 DEF ProvenanceInv, KeptTo, SameLine, Early

LEMMA StepProvenance ==
    TypeInv /\ DecidedInv /\ DocInv /\ ProvenanceInv /\ [Next]_vars => ProvenanceInv'
<1>  SUFFICES ASSUME TypeInv, DecidedInv, DocInv, ProvenanceInv, [Next]_vars
              PROVE  ProvenanceInv'
  OBVIOUS
<1>1. Frame
  BY Frames
<1>2. input' = input /\ IsFile(doc) /\ IsFile(input.doc)
  BY <1>1, NoGuardsRead DEF Frame, DocInv, TypeInv
<1>3. Len(doc) \in Nat /\ Len(input.doc) \in Nat
  BY <1>2 DEF IsFile
<1>4. pc' = "dispatch" => queue' \in Seq(DOMAIN input'.sources)
  <2>1. \A T : \A q \in Seq(T) : q # <<>> => Tail(q) \in Seq(T)
    OBVIOUS
  <2>2. CASE queue' = ScriptsInOrder(Planned)
    BY <1>2, <2>2, ScriptsAreSources
  <2>3. CASE pc = "dispatch" /\ queue' \in {queue, Tail(queue)} /\ (queue' = queue \/ queue # <<>>)
    BY <1>2, <2>1, <2>3 DEF ProvenanceInv
  <2>  QED  BY <2>2, <2>3, QueueMoves
<1>5. /\ pc' \in Early => Len(doc') >= Len(input'.doc)
      /\ pc' \in Early => \A last \in 0..Len(input'.doc) :
                              NoneAbove(doc, last)' => KeptTo(doc, last)'
  <2>  SUFFICES ASSUME pc' \in Early
                PROVE  /\ Len(doc') >= Len(input'.doc)
                       /\ \A last \in 0..Len(input'.doc) :
                              NoneAbove(doc, last)' => KeptTo(doc, last)'
    OBVIOUS
  <2>1. pc \in Early
    BY <1>1 DEF Frame, Moves, Early
  <2>2. Len(doc) >= Len(input.doc)
        /\ \A last \in 0..Len(input.doc) : NoneAbove(doc, last) => KeptTo(doc, last)
    BY <2>1 DEF ProvenanceInv
  <2>3. \A last : /\ NoneAbove(doc, last)' <=> NoneAbove(doc', last)
                  /\ KeptTo(doc, last)' <=> KeptTo(doc', last)
    BY <1>2 DEF NoneAbove, KeptTo, SameLine
  <2>4. CASE DispatchSource
    <3>1. Head(queue) \in DOMAIN input.sources
      <4>1. pc = "dispatch" /\ queue # <<>>
        BY <2>4 DEF DispatchSource
      <4>2. queue \in Seq(DOMAIN input.sources)
        BY <4>1 DEF ProvenanceInv
      <4>3. \A T : \A q \in Seq(T) : q # <<>> => Head(q) \in T
        OBVIOUS
      <4>  QED  BY <4>1, <4>2, <4>3
    <3>2. /\ Len(doc') >= Len(input.doc)
          /\ \A last \in 0..Len(input.doc) : NoneAbove(doc', last) => KeptTo(doc', last)
      BY <1>2, <2>2, <2>4, <3>1, DispatchKeeps
    <3>  QED  BY <1>2, <2>3, <3>2
  <2>5. CASE ~DispatchSource
    <3>1. doc' = doc
      <4>1. pc # "batch"
        BY <2>1 DEF Early
      <4>  QED  BY <1>1, <2>5, <4>1 DEF Frame, ProjectGroup, GroupFails
    <3>  QED  BY <1>2, <2>2, <2>3, <3>1
  <2>  QED  BY <2>4, <2>5
<1>6. pc' = "batch" =>
         /\ Len(doc') >= Len(input'.doc)
         /\ \A i, j \in DOMAIN queue' : i < j => Before(queue[i], queue[j])'
         /\ \A c \in Standalone' :
                (Located(c)' /\ ~DispatchedAbove(c)' /\ SharesNoLine(c)') =>
                    KeptTo(doc, About(c).last)'
  <2>  SUFFICES ASSUME pc' = "batch"
                PROVE  /\ Len(doc') >= Len(input'.doc)
                       /\ \A i, j \in DOMAIN queue' : i < j => Before(queue[i], queue[j])'
                       /\ \A c \in Standalone' :
                              (Located(c)' /\ ~DispatchedAbove(c)' /\ SharesNoLine(c)') =>
                                  KeptTo(doc, About(c).last)'
    OBVIOUS
  <2>1. plan' = plan
    BY <1>1 DEF Frame, BeginRepair, Plan
  <2>2. /\ \A c : /\ About(c)' = About(c) /\ Located(c)' = Located(c)
                  /\ SharesNoLine(c)' = SharesNoLine(c)
        /\ \A c, d : Before(c, d)' = Before(c, d)
        /\ \A last : KeptTo(doc, last)' <=> KeptTo(doc', last)
    BY <1>2, <2>1, LocationsKept
  <2>3. \A i, j : Before(queue[i], queue[j])' <=> Before(queue'[i], queue'[j])
    BY <1>2, <2>1 DEF Before, About, RankOf
  <2>4. \A c : DispatchedAbove(c) <=>
            \E s \in DOMAIN input.sources :
                /\ Has(doc, "dispatch", s)
                /\ \E x \in Invocations(input.doc, s) : x[1] < About(c).last
    BY DEF DispatchedAbove
  <2>5. \A c : DispatchedAbove(c)' <=>
            \E s \in DOMAIN input.sources :
                /\ Has(doc', "dispatch", s)
                /\ \E x \in Invocations(input.doc, s) : x[1] < About(c).last
    BY <1>2, <2>2 DEF DispatchedAbove
  <2>6. \A c : c \in Standalone /\ Located(c) => About(c).last \in 0..Len(input.doc)
    <3>1. \A c \in Standalone : About(c).last \in Nat
      BY InputsAssumption DEF TypeInv, About, Standalone
    <3>  QED  BY <1>3, <3>1 DEF Located
  <2>7. CASE RelateDone
    <3>  DEFINE leaders == {x \in Standalone : \A d \in GroupOf(x) : RankOf(x) <= RankOf(d)}
    <3>1. /\ pc = "relate" /\ UNCHANGED <<doc, projected>> /\ queue' = Sorted(leaders)
      BY <2>7 DEF RelateDone
    <3>2. Standalone' = Standalone
      BY <1>2, <2>1, <3>1, GroupsKept
    <3>3. leaders \in SUBSET Planned
      BY DEF Standalone
    <3>  HIDE DEF leaders
    <3>4. \A i, j \in DOMAIN queue' : i < j => Before(queue'[i], queue'[j])
      BY <3>1, <3>3, SortedFacts
    <3>5. /\ Len(doc) >= Len(input.doc)
          /\ \A last \in 0..Len(input.doc) : NoneAbove(doc, last) => KeptTo(doc, last)
      BY <3>1 DEF ProvenanceInv, Early
    <3>6. \A c : ~DispatchedAbove(c) => NoneAbove(doc, About(c).last)
      BY <2>4 DEF NoneAbove
    <3>7. ASSUME NEW c \in Standalone', Located(c)', ~DispatchedAbove(c)'
          PROVE  KeptTo(doc, About(c).last)'
      <4>1. c \in Standalone /\ Located(c) /\ ~DispatchedAbove(c)
        BY <2>2, <2>4, <2>5, <3>1, <3>2, <3>7
      <4>2. KeptTo(doc', About(c).last)
        BY <2>6, <3>1, <3>5, <3>6, <4>1
      <4>  QED  BY <1>2, <2>2, <4>2 DEF KeptTo, SameLine
    <3>  QED  BY <1>2, <2>3, <3>1, <3>4, <3>5, <3>7
  <2>8. CASE ProjectGroup
    <3>  DEFINE lead == Head(queue)
    <3>1. /\ pc = "batch" /\ queue # <<>> /\ queue' = Tail(queue) /\ queue \in Seq(Lone)
          /\ projected' = [d \in Planned |->
                 IF d \in GroupOf(lead) THEN [strategy |-> "guarded", covering |-> {}]
                 ELSE projected[d]]
      BY <2>8 DEF ProjectGroup, DecidedInv
    <3>2. /\ lead \in Lone /\ lead = queue[1] /\ 1 \in DOMAIN queue
          /\ \A i \in DOMAIN queue : i # 1 => 1 < i
          /\ \A i \in DOMAIN queue' : i + 1 \in DOMAIN queue /\ queue'[i] = queue[i + 1]
          /\ DOMAIN queue \subseteq Nat /\ DOMAIN queue' \subseteq Nat
      <4>1. \A T : \A q \in Seq(T) : q # <<>> =>
               /\ Head(q) \in T /\ Head(q) = q[1] /\ 1 \in DOMAIN q
               /\ \A i \in DOMAIN q : i # 1 => 1 < i
               /\ \A i \in DOMAIN Tail(q) : i + 1 \in DOMAIN q /\ Tail(q)[i] = q[i + 1]
               /\ DOMAIN q \subseteq Nat /\ DOMAIN Tail(q) \subseteq Nat
        OBVIOUS
      <4>  QED  BY <3>1, <4>1
    <3>  HIDE DEF lead
    <3>3. /\ lead \in Planned /\ ~IsCode(lead)
      BY <3>2 DEF Lone, Instructions
    <3>4. /\ Len(doc) >= Len(input.doc)
          /\ \A i, j \in DOMAIN queue : i < j => Before(queue[i], queue[j])
          /\ \A c \in Standalone :
                 (Located(c) /\ ~DispatchedAbove(c) /\ SharesNoLine(c)) =>
                     KeptTo(doc, About(c).last)
      BY <3>1 DEF ProvenanceInv
    <3>5. ASSUME NEW i \in DOMAIN queue', NEW j \in DOMAIN queue', i < j
          PROVE  Before(queue[i], queue[j])'
      <4>1. i + 1 < j + 1
        BY <3>2, <3>5
      <4>2. Before(queue[i + 1], queue[j + 1])
        BY <3>2, <3>4, <4>1
      <4>  QED  BY <2>3, <3>2, <4>2
    <3>6. \A k \in 0..Len(doc) :
             (\A x \in GroupItems(lead) :
                  \A m \in MatchesIn(doc, RangeOf(GroupOf(lead), lead), x) : m[1] > k)
             => /\ Len(doc') >= Len(doc)
                /\ \A l \in 1..k : doc'[l] = doc[l]
                /\ \A s : Has(doc', "dispatch", s) <=> Has(doc, "dispatch", s)
      BY <1>2, <2>8, GuardsBelow DEF lead
    <3>7. \A x, range : \A m \in MatchesIn(doc, range, x) : m[1] > 0
      <4>  TAKE x, range
      <4>  TAKE m \in MatchesIn(doc, range, x)
      <4>1. PICK l \in Lines(doc) :
               m \in {<<l, p>> : p \in {q \in DOMAIN doc[l].frags :
                                 doc[l].frags[q].is = "text" /\ doc[l].frags[q].of = x.raw}}
        BY DEF MatchesIn, Places
      <4>  QED  BY <4>1 DEF Lines
    <3>8. /\ Len(doc') >= Len(doc)
          /\ \A s : Has(doc', "dispatch", s) <=> Has(doc, "dispatch", s)
      <4>1. 0 \in 0..Len(doc)
        BY <1>3
      <4>  QED  BY <3>6, <3>7, <4>1
    <3>9. Len(doc') \in Nat
      BY <1>2, <2>8, GuardStep DEF IsFile
    <3>10. ASSUME NEW c \in Standalone', Located(c)', ~DispatchedAbove(c)', SharesNoLine(c)'
           PROVE  KeptTo(doc, About(c).last)'
      <4>1. c \in Standalone /\ c \notin GroupOf(lead) /\ c \in Planned
        BY <1>2, <2>1, <3>1 DEF Standalone, Planned, IsCode, About
      <4>2. Located(c) /\ ~DispatchedAbove(c) /\ SharesNoLine(c)
        BY <2>2, <2>4, <2>5, <3>8, <3>10
      <4>3. KeptTo(doc, About(c).last)
        BY <3>4, <4>1, <4>2
      <4>4. PICK i \in DOMAIN queue : c \in GroupOf(queue[i])
        BY <3>1, <4>1 DEF DocInv
      <4>5. i # 1
        BY <3>2, <4>1, <4>4
      <4>6. Before(lead, queue[i])
        BY <3>2, <3>4, <4>5
      <4>7. /\ About(queue[i]).first = About(c).first
            /\ About(lead).first > About(c).first \/ About(lead).first = About(c).first
        BY <4>4, <4>6 DEF GroupOf, Before
      <4>8. lead # c
        <5>1. \A d \in Standalone : d \in GroupOf(d)
          BY DEF GroupOf
        <5>  QED  BY <4>1, <5>1
      <4>9. \A x \in GroupItems(lead) :
               \A m \in MatchesIn(doc, RangeOf(GroupOf(lead), lead), x) : m[1] > About(c).last
        BY <1>3, <3>3, <3>4, <4>1, <4>2, <4>7, <4>8, GroupIsBelow
      <4>10. About(c).last \in 0..Len(input.doc) /\ About(c).last \in 0..Len(doc)
        BY <1>3, <2>6, <3>4, <4>1, <4>2
      <4>11. \A l \in 1..About(c).last : doc'[l] = doc[l]
        BY <3>6, <4>9, <4>10
      <4>12. KeptTo(doc', About(c).last)
        BY <4>3, <4>11 DEF KeptTo
      <4>  QED  BY <1>2, <2>2, <4>12 DEF KeptTo, SameLine
    <3>11. Len(doc') >= Len(input.doc)
      BY <1>3, <3>4, <3>8, <3>9
    <3>  QED  BY <1>2, <3>5, <3>10, <3>11
  <2>9. CASE pc = "batch" /\ UNCHANGED <<queue, doc, projected, plan>>
    <3>1. Standalone' = Standalone /\ \A c : DispatchedAbove(c)' <=> DispatchedAbove(c)
      BY <1>2, <2>4, <2>5, <2>9, GroupsKept
    <3>2. /\ Len(doc) >= Len(input.doc)
          /\ \A i, j \in DOMAIN queue : i < j => Before(queue[i], queue[j])
          /\ \A c \in Standalone :
                 (Located(c) /\ ~DispatchedAbove(c) /\ SharesNoLine(c)) =>
                     KeptTo(doc, About(c).last)
      BY <2>9 DEF ProvenanceInv
    <3>3. \A c : KeptTo(doc, About(c).last)' <=> KeptTo(doc, About(c).last)
      BY <1>2, <2>2, <2>9 DEF KeptTo, SameLine
    <3>  QED  BY <1>2, <2>2, <2>3, <2>9, <3>1, <3>2, <3>3
  <2>  QED  BY <2>7, <2>8, <2>9, QueueMoves
<1>7. (pc' \in Early \cup {"batch"}) => Len(doc') >= Len(input'.doc)
  BY <1>5, <1>6
<1>  QED  BY <1>4, <1>5, <1>6, <1>7 DEF ProvenanceInv

(* Where the lines are as they were read, so is their text. *)
LEMMA SameFragments ==
    ASSUME Len(doc) \in Nat, Len(input.doc) \in Nat, Len(doc) >= Len(input.doc),
           NEW c, About(c).last \in Nat, About(c).first \in Nat,
           Located(c), KeptTo(doc, About(c).last)
    PROVE  FragmentsAt(doc, c) = FragmentsAt(input.doc, c)
<1>  DEFINE a == About(c).first
            b == About(c).last
            raw == About(c).raw
            TextsOf(d) == {d[m[1]].frags[m[2]] :
                            m \in {x \in Places(d, "text", raw) : a <= x[1] /\ x[1] <= b}}
<1>1. \A d : FragmentsAt(d, c) = TextsOf(d)
  BY DEF FragmentsAt, MatchesIn, TextItem
<1>2. \A d, f : f \in TextsOf(d) <=>
          \E l \in Lines(d) : \E p \in DOMAIN d[l].frags :
              /\ a <= l /\ l <= b /\ d[l].frags[p] = f /\ f.is = "text" /\ f.of = raw
  <2>  TAKE d, f
  <2>1. ASSUME f \in TextsOf(d)
        PROVE  \E l \in Lines(d) : \E p \in DOMAIN d[l].frags :
                   /\ a <= l /\ l <= b /\ d[l].frags[p] = f /\ f.is = "text" /\ f.of = raw
    <3>1. PICK m \in Places(d, "text", raw) :
                  a <= m[1] /\ m[1] <= b /\ f = d[m[1]].frags[m[2]]
      BY <2>1
    <3>2. PICK l \in Lines(d) :
             m \in {<<l, p>> : p \in {q \in DOMAIN d[l].frags :
                               d[l].frags[q].is = "text" /\ d[l].frags[q].of = raw}}
      BY <3>1 DEF Places
    <3>3. PICK p \in DOMAIN d[l].frags :
             m = <<l, p>> /\ d[l].frags[p].is = "text" /\ d[l].frags[p].of = raw
      BY <3>2
    <3>4. m[1] = l /\ m[2] = p
      BY <3>3
    <3>  QED  BY <3>1, <3>3, <3>4
  <2>2. ASSUME NEW l \in Lines(d), NEW p \in DOMAIN d[l].frags,
               a <= l, l <= b, d[l].frags[p] = f, f.is = "text", f.of = raw
        PROVE  f \in TextsOf(d)
    <3>1. <<l, p>> \in Places(d, "text", raw)
      BY <2>2 DEF Places
    <3>2. <<l, p>>[1] = l /\ <<l, p>>[2] = p
      OBVIOUS
    <3>  QED  BY <2>2, <3>1, <3>2
  <2>  QED  BY <2>1, <2>2
<1>3. \A l : l \in Lines(doc) /\ l <= b => l \in 1..b
  BY DEF Lines
<1>4. \A l : l \in 1..b => l \in Lines(doc) /\ l \in Lines(input.doc)
  BY DEF Lines, Located
<1>5. \A l : l \in Lines(input.doc) /\ l <= b => l \in 1..b
  BY DEF Lines
<1>6. \A l \in 1..b : SameLine(doc[l], input.doc[l])
  BY DEF KeptTo
<1>  HIDE DEF TextsOf, a, b, raw
<1>7. ASSUME NEW l \in 1..b, NEW f, f.is = "text"
      PROVE  (\E p \in DOMAIN doc[l].frags : doc[l].frags[p] = f)
             <=> (\E p \in DOMAIN input.doc[l].frags : input.doc[l].frags[p] = f)
  <2>  DEFINE x == doc[l]
              y == input.doc[l]
  <2>1. SameLine(x, y)
    BY <1>6
  <2>  HIDE DEF x, y
  <2>2. DOMAIN x.frags = DOMAIN y.frags
    BY <2>1 DEF SameLine
  <2>3. \A p \in DOMAIN y.frags : x.frags[p] = f <=> y.frags[p] = f
    BY <1>7, <2>1 DEF SameLine
  <2>4. (\E p \in DOMAIN x.frags : x.frags[p] = f) <=> (\E p \in DOMAIN y.frags : y.frags[p] = f)
    BY <2>2, <2>3
  <2>  QED  BY <2>4 DEF x, y
<1>8. \A f : f \in TextsOf(doc) <=> f \in TextsOf(input.doc)
  <2>  TAKE f
  <2>1. ASSUME f \in TextsOf(doc) PROVE f \in TextsOf(input.doc)
    <3>1. PICK l \in Lines(doc) : \E p \in DOMAIN doc[l].frags :
              /\ a <= l /\ l <= b /\ doc[l].frags[p] = f /\ f.is = "text" /\ f.of = raw
      BY <1>2, <2>1
    <3>2. l \in 1..b /\ l \in Lines(input.doc)
      BY <1>3, <1>4, <3>1
    <3>3. \E p \in DOMAIN input.doc[l].frags : input.doc[l].frags[p] = f
      BY <1>7, <3>1, <3>2
    <3>  QED  BY <1>2, <3>1, <3>2, <3>3
  <2>2. ASSUME f \in TextsOf(input.doc) PROVE f \in TextsOf(doc)
    <3>1. PICK l \in Lines(input.doc) : \E p \in DOMAIN input.doc[l].frags :
              /\ a <= l /\ l <= b /\ input.doc[l].frags[p] = f /\ f.is = "text" /\ f.of = raw
      BY <1>2, <2>2
    <3>2. l \in 1..b /\ l \in Lines(doc)
      BY <1>4, <1>5, <3>1
    <3>3. \E p \in DOMAIN doc[l].frags : doc[l].frags[p] = f
      BY <1>7, <3>1, <3>2
    <3>  QED  BY <1>2, <3>1, <3>2, <3>3
  <2>  QED  BY <2>1, <2>2
<1>10. TextsOf(doc) = TextsOf(input.doc)
  <2>1. \A S, T : (\A f : f \in S <=> f \in T) => S = T
    OBVIOUS
  <2>  QED  BY <1>8, <2>1
<1>  QED  BY <1>1, <1>10

LEMMA ProvenanceFollows ==
    ASSUME TypeInv, DocInv, ProvenanceInv
    PROVE  ProvenanceHolds
<1>  SUFFICES ASSUME pc = "batch", NEW c \in Standalone,
                     Located(c), ~DispatchedAbove(c), SharesNoLine(c)
              PROVE  FragmentsAt(doc, c) = FragmentsAt(input.doc, c)
  BY DEF ProvenanceHolds
<1>1. IsFile(doc) /\ IsFile(input.doc)
  BY NoGuardsRead DEF DocInv, TypeInv
<1>2. Len(doc) \in Nat /\ Len(input.doc) \in Nat
  BY <1>1 DEF IsFile
<1>3. About(c).first \in Nat /\ About(c).last \in Nat
  BY InputsAssumption DEF TypeInv, About, Standalone
<1>4. Len(doc) >= Len(input.doc) /\ KeptTo(doc, About(c).last)
  BY DEF ProvenanceInv
<1>  QED  BY <1>2, <1>3, <1>4, SameFragments

-------------------------------------------------------------------------------
(* What holds of every repair                                               *)

(* The inductive invariant of the repair: how the plan was built, what each  *)
(* stage has written and when a report is made (service.py:66-114,           *)
(* repair_pipeline.py:24-86).                                                *)
THEOREM SpecIInv == Spec => []IInv
  BY InitIInv, StepIInv, PTL DEF Spec

(* Whatever a model answers, no guard lets a context through with a task     *)
(* that was not found to be authorized and necessary: neither one filed      *)
(* under its key nor one whose slots normalize to it, but for the tasks      *)
(* whose slots the model itself padded (descriptor_clustering.py 160-416,    *)
(* task_conditioned_guarder.py 231-429).                                     *)
THEOREM GuardsAreClean == Spec => []AllowedClusterIsClean
<1>1. IInv /\ TypeInv => AllowedClusterIsClean
  BY CleanGuards DEF IInv
<1>2. Spec => []TypeInv
  BY InitTypeInv, StepTypeInv, PTL DEF Spec
<1>  QED  BY <1>1, <1>2, SpecIInv, PTL

(* repair_error.json tells a failure of this run and excludes its results    *)
(* (service.py 89-114).                                                      *)
THEOREM ErrorsTell == Spec => []ErrorTellsFailure
<1>1. IInv => ErrorTellsFailure
  BY FilesTell DEF IInv
<1>  QED  BY <1>1, SpecIInv, PTL

(* A summary of this run comes last, whenever the process dies               *)
(* (repair_pipeline.py 30-85).                                               *)
THEOREM SummariesAreLast == Spec => []SummaryIsLast
<1>1. IInv => SummaryIsLast
  BY FilesTell DEF IInv
<1>  QED  BY <1>1, SpecIInv, PTL

(* What the report calls repaired rests on proved units only                 *)
(* (repair_validator.py 1604-2741).                                          *)
THEOREM RepairedIsProved == Spec => []IncompleteNeverRepaired
<1>1. IInv => IncompleteNeverRepaired
  BY DEF IInv, ReportInv
<1>  QED  BY <1>1, SpecIInv, PTL

(* The state keeps its types: only code items cover an instruction, and an   *)
(* answer of a model brings in no slot value that the candidate's            *)
(* descriptors do not have, though it may spell one in another way           *)
(* (descriptor_clustering.py 247-312, repair_planner.py 28-87,               *)
(* bundle_projector.py 70-480).                                              *)
THEOREM TypesAreKept == Spec => []TypeOK
<1>1. IInv /\ TypeInv => TypeOK
  BY TypesFollow DEF IInv
<1>2. Spec => []TypeInv
  BY InitTypeInv, StepTypeInv, PTL DEF Spec
<1>  QED  BY <1>1, <1>2, SpecIInv, PTL

(* No execution unit of any source and any set of repair items, degraded to  *)
(* a refusal or written by a model, holds a statement of an item it does not *)
(* allow, but for a unit a model wrote for a short raw text, and then an     *)
(* equal action of the script is gone in its place (code_rewriter.py         *)
(* 300-321, 750-900, 1171-1259, 1748-1757).                                  *)
THEOREM UnitsNeverBroaden == Spec => []NeverBroadened
<1>1. TypeInv /\ UnitsAreBuilt => NeverBroadened
  BY UnitsAreNarrow
<1>2. Spec => [](TypeInv /\ UnitsAreBuilt)
  BY InitTypeInv, StepTypeInv, InitUnits, StepUnits, PTL DEF Spec
<1>  QED  BY <1>1, <1>2, PTL

(* A blocked context that is reported as not overprivileged did not perform  *)
(* the action, whatever units the agent ran, when the code that performs it  *)
(* is in one script that shares its guard as a whole or not at all and is    *)
(* told from equal actions of the script                                     *)
(* (repair_validator.py 1280-1410, 1494-1567).                               *)
THEOREM VerdictsAreTrue == Spec => []NotOverprivilegedIsTrue
<1>1. TypeInv /\ UnitsAreBuilt => LatticeInv /\ NeverBroadened
  BY UnitsAreNarrow DEF LatticeInv
<1>2. Spec => [](TypeInv /\ UnitsAreBuilt /\ DecidedInv /\ ReplayInv)
  BY InitTypeInv, StepTypeInv, InitUnits, StepUnits, InitDecided, StepDecided,
     InitReplay, StepReplay, PTL DEF Spec
<1>  QED  BY <1>1, <1>2, InitReplay, StepTrue, PTL DEF Spec

(* What is reported as repaired was replayed for every task that is not      *)
(* authorized or not necessary, and replayed without the action unless a     *)
(* model padded the slots of the task                                        *)
(* (repair_validator.py 215-238, 337-438).                                   *)
THEOREM ReportsAreClean == Spec => []ReportedAreClean
<1>1. IInv => PlanIsBuilt /\ ReportInv
  BY DEF IInv
<1>2. Spec => [](TypeInv /\ ReplayInv)
  BY InitTypeInv, StepTypeInv, InitReplay, StepReplay, PTL DEF Spec
<1>  QED  BY <1>1, <1>2, SpecIInv, VerdictsAreTrue, InitReplay, StepReported, PTL DEF Spec

(* A repair that failed left the guards of all instructions behind or those  *)
(* of none, in SKILL.md and in the items (instruction_rewriter.py 110-178).  *)
THEOREM BatchesAreAtomic == Spec => []BatchIsAtomic
<1>1. DocInv => BatchIsAtomic
  BY DEF DocInv
<1>2. Spec => [](TypeInv /\ DecidedInv /\ DocInv)
  BY InitTypeInv, StepTypeInv, InitDecided, StepDecided, InitDoc, StepDoc, PTL DEF Spec
<1>  QED  BY <1>1, <1>2, PTL

(* Guards and dispatches leave every other text of SKILL.md in place and in  *)
(* order, for any file, lines and groups (instruction_rewriter.py 1323-1497, *)
(* 1919-1938).                                                               *)
THEOREM OtherTextIsKept == Spec => []OnlyGuardedTextChanges
<1>1. Spec => [](TypeInv /\ DecidedInv /\ DocInv)
  BY InitTypeInv, StepTypeInv, InitDecided, StepDecided, InitDoc, StepDoc, PTL DEF Spec
<1>  QED  BY <1>1, OriginalTextKept, PTL

(* In the batch the lines recorded for an instruction that is left hold the  *)
(* text they held when SKILL.md was read, for any file, lines and groups, as *)
(* long as no dispatch is above them and no other range reaches into them    *)
(* (instruction_rewriter.py 97-99).                                          *)
THEOREM ProvenanceIsKept == Spec => []ProvenanceHolds
<1>1. Spec => [](TypeInv /\ DecidedInv /\ DocInv /\ ProvenanceInv)
  BY InitTypeInv, StepTypeInv, InitDecided, StepDecided, InitDoc, StepDoc,
     InitProvenance, StepProvenance, PTL DEF Spec
<1>  QED  BY <1>1, ProvenanceFollows, PTL
===============================================================================
