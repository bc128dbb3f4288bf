------------------------------ MODULE Validation ------------------------------
(***************************************************************************)
(* Module 2 of SkillScope: ActionNecessityValidationService.validate with   *)
(* the trigger-gated replay of ReplayRunner and the two judges.  The        *)
(* candidate and task loops are the walk over Agenda.  What an execution, a *)
(* replay or a judge yields is the environment's choice, within what the    *)
(* sandbox and the response contracts allow.                                *)
(***************************************************************************)
EXTENDS Verdicts, FiniteSets

CONSTANTS
    Candidates,   \* the candidate actions of the skill
    Relevant,     \* those with a privilege type (privilege_relevant)
    OpKnown,      \* those whose graph node carries an operation type
    Agenda,       \* the candidate-task pairs in the order of the loops
    Executions,   \* what an original execution may show
    Replays,      \* what a replay execution may show
    Judgments     \* the component judgments a validated response may carry

(* material: candidate-linked material events the trigger detector counts;  *)
(* realized: those the action-tuple extractor recovers; followed: the       *)
(* candidate-reaching prefix was observed.                                  *)
ExecutionRecord == [status: {"completed", "failed"}, material: Nat, realized: Nat,
                    followed: BOOLEAN]

(* erased: no node of the replayed graph has the candidate's fingerprint;   *)
(* present: a physical event of the replay still matches the candidate;     *)
(* output: how the two final outputs compare.                               *)
ReplayRecord == [status: {"completed", "failed"}, applied: BOOLEAN, erased: BOOLEAN,
                 present: BOOLEAN,
                 output: {"equal", "different", "lost", "insufficient"}]

ASSUME CandidatesAssumption == Relevant \subseteq Candidates /\ OpKnown \subseteq Candidates
ASSUME AgendaAssumption ==
    Agenda \in Seq([cand: Candidates, chained: BOOLEAN])
ASSUME ExecutionsAssumption == Executions \subseteq ExecutionRecord
ASSUME ReplaysAssumption ==
    Replays \subseteq {r \in ReplayRecord : r.applied}
ASSUME JudgmentsAssumption == Judgments \subseteq Judgment

(* _build_failed_record: an exception leaves an empty trace and no metadata. *)
FailedOriginal == [status |-> "failed", material |-> 0, realized |-> 0, followed |-> FALSE]
FailedReplay   == [status |-> "failed", applied |-> FALSE, erased |-> FALSE,
                   present |-> FALSE, output |-> "insufficient"]

VARIABLES
    setup,      \* validation_mode and whether an LLM is configured
    pc,         \* where the pass over the agenda is
    at,         \* the agenda entry being processed
    original,   \* the current original ExecutionRecord, while it is in scope
    dirs,       \* the temporary directories that exist
    tasks, evidence, pairs, authorizations, decisions, verdicts, descriptors
                \* the lists the service appends to

ledgers == <<tasks, evidence, pairs, authorizations, decisions, verdicts, descriptors>>
vars == <<setup, pc, at, original, dirs, ledgers>>

Entries(ledger) == {ledger[i] : i \in 1..Len(ledger)}

Candidate == Agenda[at].cand
Dynamic   == setup.mode = "dynamic"

Init ==
    /\ setup \in [mode: {"dynamic", "static"}, llm: {"configured", "disabled"}]
    /\ pc = "next"
    /\ at = 1
    /\ original = FailedOriginal
    /\ dirs = {}
    /\ tasks = <<>> /\ evidence = <<>> /\ pairs = <<>> /\ authorizations = <<>>
    /\ decisions = <<>> /\ verdicts = <<>> /\ descriptors = <<>>

-------------------------------------------------------------------------------
(* The loops of validate *)

(* Slip: the loop tests the next task without having left this one. *)
StuckSkipSlip ==
    /\ pc = "next" /\ at <= Len(Agenda)
    /\ ~Agenda[at].chained
    /\ UNCHANGED vars

(* A task whose chain is not one of the candidate-reaching chains is skipped. *)
SkipTask ==
    /\ pc = "next" /\ at <= Len(Agenda)
    /\ ~Agenda[at].chained
    /\ at' = at + 1
    /\ UNCHANGED <<setup, pc, original, dirs, ledgers>>

StartTask ==
    /\ pc = "next" /\ at <= Len(Agenda)
    /\ Agenda[at].chained
    /\ tasks' = Append(tasks, at)
    /\ pc' = IF Dynamic THEN "original" ELSE "authorize"
    /\ UNCHANGED <<setup, at, original, dirs, evidence, pairs, authorizations,
                   decisions, verdicts, descriptors>>

Return ==
    /\ pc = "next" /\ at > Len(Agenda)
    /\ pc' = "returned"
    /\ UNCHANGED <<setup, at, original, dirs, ledgers>>

-------------------------------------------------------------------------------
(* run_trigger_then_replay: the original execution *)

Sandbox(kind) == [at |-> at, kind |-> kind]

(* install_skill succeeded and execute_installed_skill made its isolated copy *)
EnterOriginal ==
    /\ pc = "original"
    /\ dirs' = dirs \cup {Sandbox("original")}
    /\ pc' = "original_running"
    /\ UNCHANGED <<setup, at, original, ledgers>>

(* The sandbox copy is removed in a finally clause, whatever happened in it. *)
OriginalEnds(record) ==
    /\ original' = record
    /\ dirs' = dirs \ {Sandbox("original")}
    /\ pc' = "detect"
    /\ UNCHANGED <<setup, at, ledgers>>

(* A candidate with an operation type has its events counted by the same test *)
(* in the detector and in the tuple extractor; without one the extractor      *)
(* infers an operation from text and may recover fewer.                       *)
OriginalRan ==
    /\ pc = "original_running"
    /\ \E e \in Executions :
          /\ Candidate \in OpKnown => e.realized = e.material
          /\ OriginalEnds(e)

OriginalRaised ==
    /\ pc \in {"original", "original_running"}
    /\ OriginalEnds(FailedOriginal)

(* Slip: the candidate counts as triggered when it ran outside its chain. *)
AnyPathSlip(e) == e.material > 0

Triggered(e) == e.material > 0 /\ e.followed

Detect ==
    /\ pc = "detect"
    /\ evidence' = Append(evidence, [at |-> at, triggered |-> Triggered(original)])
    /\ IF Triggered(original)
       THEN pc' = "ablate" /\ UNCHANGED <<at, original>>
       ELSE pc' = "next" /\ at' = at + 1 /\ original' = FailedOriginal
    /\ UNCHANGED <<setup, dirs, tasks, pairs, authorizations, decisions, verdicts,
                   descriptors>>

-------------------------------------------------------------------------------
(* run_trigger_then_replay: the ablation replay *)

Materialized ==
    /\ pc = "ablate"
    /\ dirs' = dirs \cup {Sandbox("bundle")}
    /\ pc' = "install"
    /\ UNCHANGED <<setup, at, original, ledgers>>

ReplayEnds(record, left) ==
    /\ pairs' = Append(pairs, [at |-> at, original |-> original, replay |-> record])
    /\ original' = FailedOriginal
    /\ dirs' = left
    /\ pc' = "authorize"
    /\ UNCHANGED <<setup, at, tasks, evidence, authorizations, decisions, verdicts,
                   descriptors>>

(* Slip: a pair whose ablation failed is dropped like an untriggered one. *)
DropPairSlip ==
    /\ pc = "ablate"
    /\ pc' = "next" /\ at' = at + 1 /\ original' = FailedOriginal
    /\ UNCHANGED <<setup, dirs, ledgers>>

(* materialize_replay_bundle raised: before mkdtemp, or after it, in copytree *)
(* or in _apply_ablation.  replay_bundle_root is still None then, so the      *)
(* finally clause removes nothing.                                            *)
MaterializeRaised ==
    /\ pc = "ablate"
    /\ \E left \in {dirs, dirs \cup {Sandbox("bundle")}} : ReplayEnds(FailedReplay, left)

(* The replay bundle is installed and execute_installed_skill copies it. *)
EnterReplay ==
    /\ pc = "install"
    /\ dirs' = dirs \cup {Sandbox("replay")}
    /\ pc' = "replay_running"
    /\ UNCHANGED <<setup, at, original, ledgers>>

(* Slip: the replay bundle is left to the operating system. *)
KeepBundleSlip == dirs \ {Sandbox("replay")}

(* The finally clauses of execute_installed_skill and of the replay. *)
AfterReplay == dirs \ {Sandbox("replay"), Sandbox("bundle")}

(* A loss of the required result is only observed between two completed runs *)
(* (_result_absence_observed).                                               *)
ReplayRan ==
    /\ pc = "replay_running"
    /\ \E r \in Replays :
          /\ r.output = "lost" => original.status = "completed" /\ r.status = "completed"
          /\ ReplayEnds(r, AfterReplay)

ReplayRaised ==
    /\ pc \in {"install", "replay_running"}
    /\ ReplayEnds(FailedReplay, AfterReplay)

-------------------------------------------------------------------------------
(* The judges.  With an LLM configured a call ends as ValidatedCall says: with *)
(* a response the judge's validator accepts, unresolved, or with an exception. *)

Configured == setup.llm = "configured"

Pair == pairs[Len(pairs)]   \* the replay pair being judged

(* What one material event may be judged: the deterministic fallback always  *)
(* answers, a configured call may stay unresolved (_llm_failure_decision).   *)
Judged == IF Configured THEN Judgments \cup {Unjudged} ELSE Judgments

(* AuthorizationJudge.judge.  A triggered candidate none of whose events the *)
(* extractor recovered has one instance, _missing_realized_action_decision;  *)
(* without a realized trace the label is inconclusive whatever is predicted. *)
Authorize ==
    /\ pc = "authorize"
    /\ \E instances \in
            IF ~Dynamic THEN [1..1 -> Judged]
            ELSE IF Pair.original.realized = 0 THEN {<<Unjudged>>}
            ELSE [1..Pair.original.realized -> Judged] :
          authorizations' = Append(authorizations,
              [at |-> at, instances |-> instances,
               label |-> IF Dynamic THEN FromComponents(Aggregate(instances))
                         ELSE "inconclusive"])
    /\ pc' = "judge"
    /\ UNCHANGED <<setup, at, original, dirs, tasks, evidence, pairs, decisions, verdicts,
                   descriptors>>

(* The replay evidence of _build_payload; doubt stands for the material      *)
(* uncertainty flags that a response adds to those of the contract.          *)
RemovalVerified == Pair.replay.applied /\ Pair.replay.erased
GoalSufficient  == Pair.replay.output # "insufficient"

ReplayEvidence(doubt) ==
    [completed  |-> Pair.original.status = "completed" /\ Pair.replay.status = "completed",
     triggered  |-> evidence[Len(evidence)].triggered,
     verified   |-> RemovalVerified,
     absent     |-> RemovalVerified /\ ~Pair.replay.present,
     sufficient |-> GoalSufficient,
     uncertain  |-> doubt \/ ~RemovalVerified \/ Pair.replay.present \/ ~GoalSufficient]

Decide(label, core, goal, resolved) ==
    /\ decisions' = Append(decisions, [at |-> at, label |-> label, core |-> core,
                                       goal |-> goal, resolved |-> resolved])
    /\ pc' = "conclude"
    /\ UNCHANGED <<setup, at, original, dirs, tasks, evidence, pairs, authorizations,
                   verdicts, descriptors>>

(* _decision_from_llm: an accepted response carries the label its own answers *)
(* imply, and cannot deny an observed loss of the required result.            *)
NecessityAccepted ==
    /\ pc = "judge" /\ Dynamic /\ Configured
    /\ \E core, goal, doubt \in BOOLEAN :
          /\ Pair.replay.output = "lost" => ~goal
          /\ Decide(LabelForContract(ReplayEvidence(doubt), core, goal), core, goal, TRUE)

(* Slip: the diagnostic estimates of an unresolved call become its label. *)
DiagnosticLabelSlip ==
    /\ pc = "judge" /\ Dynamic /\ Configured
    /\ \E core \in BOOLEAN :
          LET goal == Pair.replay.output = "equal" IN
          Decide(LabelForContract(ReplayEvidence(FALSE), core, goal), core, goal, FALSE)

(* _llm_failure_decision: CorePres and GoalSat are diagnostic only. *)
NecessityUnresolved ==
    /\ pc = "judge" /\ Dynamic /\ Configured
    /\ \E core \in BOOLEAN :
          Decide("inconclusive", core, Pair.replay.output = "equal", FALSE)

(* _judge_with_fallback, when no LLM is configured *)
NecessityFallback ==
    /\ pc = "judge" /\ Dynamic /\ ~Configured
    /\ \E core \in BOOLEAN :
          LET goal == Pair.replay.output = "equal" IN
          Decide(LabelForContract(ReplayEvidence(FALSE), core, goal), core, goal, TRUE)

(* StaticNecessityValidator.judge: a prediction, or its fallback; executes is  *)
(* the prediction that the candidate runs, stated without an uncertainty flag. *)
NecessityPredicted ==
    /\ pc = "judge" /\ ~Dynamic
    /\ \/ /\ Configured
          /\ \E executes, core, goal \in BOOLEAN :
                Decide(IF ~executes THEN "inconclusive"
                       ELSE IF core /\ goal THEN "unnecessary" ELSE "necessary",
                       core, goal, TRUE)
       \/ Decide("inconclusive", FALSE, FALSE, FALSE)

Latest(ledger) == ledger[Len(ledger)]

(* FinalVerdict.combine or _static_inconclusive_verdict, and the descriptor. *)
Conclude ==
    /\ pc = "conclude"
    /\ LET authorization == Latest(authorizations).label
           necessity     == Latest(decisions).label IN
       verdicts' = Append(verdicts,
           [at |-> at, authorization |-> authorization, necessity |-> necessity,
            label |-> IF Dynamic
                      THEN Combine(authorization, necessity, Candidate \in Relevant)
                      ELSE "inconclusive"])
    /\ descriptors' = Append(descriptors, at)
    /\ at' = at + 1
    /\ pc' = "next"
    /\ UNCHANGED <<setup, original, dirs, tasks, evidence, pairs, authorizations, decisions>>

(* An OSError of the LLM debug log is not among the exceptions a validated   *)
(* call turns into an unresolved result: it ends validate, with every ledger *)
(* that was collected.                                                       *)
JudgeRaises ==
    /\ pc \in {"authorize", "judge"} /\ Configured
    /\ pc = "authorize" /\ Dynamic => Pair.original.realized > 0   \* else no call
    /\ pc' = "raised"
    /\ UNCHANGED <<setup, at, original, dirs, ledgers>>

Next ==
    \/ SkipTask \/ StartTask \/ Return
    \/ EnterOriginal \/ OriginalRan \/ OriginalRaised \/ Detect
    \/ Materialized \/ MaterializeRaised \/ EnterReplay \/ ReplayRan \/ ReplayRaised
    \/ Authorize
    \/ NecessityAccepted \/ NecessityUnresolved \/ NecessityFallback \/ NecessityPredicted
    \/ Conclude \/ JudgeRaises

(* validate is one thread; every subprocess and request it waits for has a *)
(* timeout, so it does not stop before it returns.                         *)
Spec == Init /\ [][Next]_vars /\ WF_vars(Next)

-------------------------------------------------------------------------------
(* Properties *)

Ats == 1..Len(Agenda)

TypeOK ==
    /\ setup \in [mode: {"dynamic", "static"}, llm: {"configured", "disabled"}]
    /\ pc \in {"next", "original", "original_running", "detect", "ablate", "install",
               "replay_running", "authorize", "judge", "conclude", "returned", "raised"}
    /\ at \in 1..Len(Agenda) + 1
    /\ original \in ExecutionRecord
    /\ dirs \subseteq [at: Ats, kind: {"original", "bundle", "replay"}]
    /\ tasks \in Seq(Ats)
    /\ evidence \in Seq([at: Ats, triggered: BOOLEAN])
    /\ pairs \in Seq([at: Ats, original: ExecutionRecord, replay: ReplayRecord])
    /\ authorizations \in Seq([at: Ats, instances: Seq(Judgment), label: AuthorizationLabels])
    /\ decisions \in Seq([at: Ats, label: NecessityLabels, core: BOOLEAN, goal: BOOLEAN,
                          resolved: BOOLEAN])
    /\ verdicts \in Seq([at: Ats, authorization: AuthorizationLabels,
                         necessity: NecessityLabels, label: FinalLabels])
    /\ descriptors \in Seq(Ats)

(* What the replay of pair p shows of removing the candidate. *)
ShowsRemoval(p) ==
    /\ p.original.status = "completed" /\ p.replay.status = "completed"
    /\ p.replay.applied /\ p.replay.erased /\ ~p.replay.present
    /\ p.replay.output # "insufficient"

(* The i-th verdict, pair, authorization and decision tell of one task. *)
SameTask(i) ==
    /\ i \in DOMAIN pairs /\ i \in DOMAIN authorizations /\ i \in DOMAIN decisions
    /\ verdicts[i].at = pairs[i].at
    /\ verdicts[i].at = authorizations[i].at
    /\ verdicts[i].at = decisions[i].at

(* An overprivilege report rests on runtime evidence of its own task: the     *)
(* original run realized the candidate on its chain, and either an explicit   *)
(* denial of a component of a realized event, or a verified removal that kept *)
(* the core flow and the goal, each from a resolved judgment (service.py      *)
(* 189-241, necessity_judge.py 665-688, models/validation.py 224-278).        *)
OverprivilegeIsEvidenced ==
    \A i \in DOMAIN verdicts :
        verdicts[i].label = "overprivileged" =>
            /\ Dynamic /\ Agenda[verdicts[i].at].cand \in Relevant
            /\ SameTask(i)
            /\ pairs[i].original.material > 0 /\ pairs[i].original.followed
            /\ \/ /\ pairs[i].original.realized > 0
                  /\ \E k \in DOMAIN authorizations[i].instances, c \in Components :
                        authorizations[i].instances[k][c] = "false"
               \/ /\ ShowsRemoval(pairs[i])
                  /\ decisions[i].resolved /\ decisions[i].core /\ decisions[i].goal

(* A privilege-relevant candidate is cleared only when every event it         *)
(* realized was authorized in every component and a verified removal broke    *)
(* the core flow or the goal: no unresolved judge and no failed replay clears *)
(* anything.                                                                  *)
ClearedIsEvidenced ==
    \A i \in DOMAIN verdicts :
        /\ verdicts[i].label = "not_overprivileged"
        /\ Agenda[verdicts[i].at].cand \in Relevant
        => /\ SameTask(i)
           /\ pairs[i].original.realized > 0
           /\ Len(authorizations[i].instances) = pairs[i].original.realized
           /\ \A k \in DOMAIN authorizations[i].instances, c \in Components :
                 authorizations[i].instances[k][c] = "true"
           /\ ShowsRemoval(pairs[i])
           /\ decisions[i].resolved /\ ~(decisions[i].core /\ decisions[i].goal)

(* Between two tasks the lists agree: each triggered task, and no other, has   *)
(* one pair, one authorization, one decision, one verdict and one descriptor,  *)
(* at the same index and in agenda order.  The counts that summary.json        *)
(* compares to report "incomplete_validation" therefore never differ.          *)
InOrder(ledger) == \A i, j \in DOMAIN ledger : i < j => ledger[i].at < ledger[j].at

LedgersAligned ==
    pc \in {"next", "returned"} =>
        /\ Len(authorizations) = Len(verdicts) /\ Len(decisions) = Len(verdicts)
        /\ Len(descriptors) = Len(verdicts)
        /\ InOrder(verdicts)
        /\ \A i \in DOMAIN verdicts : descriptors[i] = verdicts[i].at
        /\ Dynamic => /\ Len(pairs) = Len(verdicts)
                      /\ \A i \in DOMAIN verdicts : SameTask(i)
                      /\ {p.at : p \in Entries(pairs)} =
                            {e.at : e \in {d \in Entries(evidence) : d.triggered}}

(* An unexercised candidate is never ablated: a replay bundle or a pair exists *)
(* only for a task whose original run triggered the candidate.                 *)
AblationIsTriggered ==
    /\ \A d \in dirs :
          d.kind \in {"bundle", "replay"} =>
              \E e \in Entries(evidence) : e.at = d.at /\ e.triggered
    /\ \A p \in Entries(pairs) : p.original.material > 0 /\ p.original.followed

(* Between two tasks no sandbox copy is left, and a replay bundle only where   *)
(* its ablation failed (candidate_ablation.py 72-77 has no clean-up of its     *)
(* own): a replay that ran, or was installed, leaves nothing.                  *)
OnlyFailedAblationsLeak ==
    pc \in {"next", "returned", "raised"} =>
        \A d \in dirs : /\ d.kind = "bundle"
                        /\ \E p \in Entries(pairs) : p.at = d.at /\ p.replay = FailedReplay

(* The pass ends, having executed every task that has a chain, unless a debug *)
(* log failure ended it.                                                      *)
EveryTaskExecuted ==
    <>(\/ pc = "raised"
       \/ pc = "returned" /\ Entries(tasks) = {i \in Ats : Agenda[i].chained})

-------------------------------------------------------------------------------
(* The inductive invariant behind OverprivilegeIsEvidenced and               *)
(* ClearedIsEvidenced                                                         *)

DynamicSteps == {"original", "original_running", "detect", "ablate", "install",
                 "replay_running"}

(* Where the pass is bounds at, and tells what the current records show. *)
PassPosition ==
    /\ pc \notin {"next", "returned"} => at \in Ats
    /\ pc \in DynamicSteps => Dynamic
    /\ pc \in {"ablate", "install", "replay_running"} =>
          original.material > 0 /\ original.followed

(* How far each list is ahead of the verdicts. *)
Ahead(steps) == IF pc \in steps THEN 1 ELSE 0

ListsInStep ==
    /\ pc # "raised" =>
          /\ Dynamic => Len(pairs) = Len(verdicts) + Ahead({"authorize", "judge", "conclude"})
          /\ Len(authorizations) = Len(verdicts) + Ahead({"judge", "conclude"})
          /\ Len(decisions) = Len(verdicts) + Ahead({"conclude"})
    /\ pc \in {"authorize", "judge", "conclude"} /\ Dynamic => Latest(pairs).at = at
    /\ pc \in {"judge", "conclude"} => Latest(authorizations).at = at
    /\ pc = "conclude" => Latest(decisions).at = at

PairsTriggered ==
    \A i \in DOMAIN pairs : pairs[i].original.material > 0 /\ pairs[i].original.followed

(* What an authorization that is not inconclusive rests on. *)
AuthorizationGrounds(a, p) ==
    /\ a.label = "unauthorized" =>
          /\ p.original.realized > 0
          /\ \E k \in DOMAIN a.instances, c \in Components : a.instances[k][c] = "false"
    /\ a.label = "authorized" =>
          /\ p.original.realized > 0
          /\ Len(a.instances) = p.original.realized
          /\ \A k \in DOMAIN a.instances, c \in Components : a.instances[k][c] = "true"

NecessityGrounds(d, p) ==
    d.label # "inconclusive" =>
        /\ ShowsRemoval(p) /\ d.resolved
        /\ d.label = "unnecessary" <=> d.core /\ d.goal

(* The i-th authorization and decision tell of the i-th pair. *)
AuthorizationsGrounded ==
    Dynamic => \A i \in DOMAIN authorizations :
        /\ i \in DOMAIN pairs /\ authorizations[i].at = pairs[i].at
        /\ AuthorizationGrounds(authorizations[i], pairs[i])

DecisionsGrounded ==
    Dynamic => \A i \in DOMAIN decisions :
        /\ i \in DOMAIN pairs /\ decisions[i].at = pairs[i].at
        /\ NecessityGrounds(decisions[i], pairs[i])

VerdictsCombine ==
    \A i \in DOMAIN verdicts :
        /\ i \in DOMAIN authorizations /\ i \in DOMAIN decisions
        /\ verdicts[i].at = authorizations[i].at
        /\ verdicts[i].at = decisions[i].at
        /\ verdicts[i].label =
              IF Dynamic THEN Combine(authorizations[i].label, decisions[i].label,
                                      Agenda[verdicts[i].at].cand \in Relevant)
              ELSE "inconclusive"

IInv == /\ TypeOK /\ PassPosition /\ ListsInStep /\ PairsTriggered
        /\ AuthorizationsGrounded /\ DecisionsGrounded /\ VerdictsCombine

-------------------------------------------------------------------------------
(* The second layer, on top of IInv, behind AblationIsTriggered,             *)
(* OnlyFailedAblationsLeak and LedgersAligned                                 *)

Ablating == pc \in {"ablate", "install", "replay_running"}

TriggeredAt(i) == \E e \in Entries(evidence) : e.at = i /\ e.triggered
PairedAt(i)    == \E p \in Entries(pairs) : p.at = i
FailedAt(i)    == \E p \in Entries(pairs) : p.at = i /\ p.replay = FailedReplay

(* Evidence is of earlier tasks, or of this one once it triggered. *)
EvidenceInStep ==
    /\ \A e \in Entries(evidence) :
          \/ e.at < at
          \/ e.at = at /\ pc \notin {"next", "original", "original_running", "detect",
                                   "returned"}
    /\ Ablating => TriggeredAt(at)

(* A triggered task has a pair, unless it is still being ablated. *)
PairsInStep ==
    \A i \in Ats : PairedAt(i) <=> TriggeredAt(i) /\ ~(Ablating /\ i = at)

(* A directory is in use by the current task, or its ablation failed. *)
DirsInStep ==
    \A d \in dirs :
        \/ d.kind = "bundle" /\ TriggeredAt(d.at) /\ FailedAt(d.at)
        \/ /\ d.at = at
           /\ \/ d.kind = "original" /\ pc = "original_running"
              \/ d.kind = "bundle" /\ pc \in {"install", "replay_running"}
              \/ d.kind = "replay" /\ pc = "replay_running"

VerdictsInStep ==
    /\ Len(descriptors) = Len(verdicts)
    /\ \A i \in DOMAIN verdicts : descriptors[i] = verdicts[i].at /\ verdicts[i].at < at
    /\ InOrder(verdicts)

LedgerInv == EvidenceInStep /\ PairsInStep /\ DirsInStep /\ VerdictsInStep
===============================================================================
