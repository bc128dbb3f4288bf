# SkillScope: verification project

TLA+ models of SkillScope, the pipeline that finds over-privileged actions in
Agent Skills, validates them and repairs them, with the TLC runs that check the
models on small instances and the TLAPS proofs of what holds on every instance.
Paths below are relative to `src/skillscope/`.

## 1. The system

A command (`cli.py`) runs one of three pipelines, each of which runs the stages
before it in the same process:

    analyze   module 1: bundle -> graphs -> candidate actions
    validate  module 1, then module 2: candidate x task -> verdicts
    repair    modules 1 and 2, then module 3: verdicts -> patched bundle -> report

| component | state it keeps | operations | interacts with |
|---|---|---|---|
| validated LLM call (`common/llm`, `module2_action_necessity_validation/validated_llm.py`) | attempt and call counters, feedback, latest errors, debug log file | complete, complete_validated_json, complete_json | every judge, the endpoint over HTTP |
| validation service (`module2_action_necessity_validation/service.py`) | the lists it returns: tasks, trigger evidence, pairs, authorizations, decisions, verdicts, descriptors | validate | everything below |
| replay runner, ablation (`replay_runner.py`, `candidate_ablation.py`, `common/sandbox/agent.py`) | temporary directories, installation cache | run_trigger_then_replay, materialize_replay_bundle, install_skill, execute_installed_skill | agent runtime, trigger detector |
| trigger detector, tuple extractor (`trigger_detector.py`, `action_tuple.py`) | none | detect, extract_all_with_evidence | read one execution record |
| necessity judge, static validator (`necessity_judge.py`, `static_necessity_validator.py`) | none | judge | validated LLM call |
| authorization judge (`authorization_judge.py`) | none across calls; the decisions of one candidate's events | judge | tuple extractor, validated LLM call |
| verdict model (`common/models/validation.py`) | none | from_components, combine | the judges, module 3 |
| candidate extraction (module 1) | thread pool, graphs | run, extract | validated LLM call from several threads |
| chains, tasks, fixtures (`legitimate_chain_extractor.py`, `prompt_instantiator.py`, `fixture_builder.py`) | last coverage report | extract, instantiate, build | graph |
| agent runtime, sandbox (`common/sandbox`) | trace recorder, subprocesses, sandbox files | execute, run | endpoint, Python/Node/Bash subprocesses |
| repair planning (`descriptor_clustering.py`, `repair_planner.py`, `task_conditioned_guarder.py`) | clusters, repair items | plan | verdicts, descriptors |
| projection (`bundle_projector.py`, rewriters) | patched bundle directory | project | validated LLM call |
| repair validation (`repair_validator.py`) | report | validate | module 1 and agent runtime again |
| pipelines, artifacts (`pipeline`, `common/io`) | files of the output directory | run, write | file system |

What is hard here is only once concurrency (the thread pool that classifies
candidates, with the debug log its threads share); elsewhere it is long sequences with many ways to fail halfway:
nested retry loops around an endpoint that answers anything, exceptions caught
at three levels, evidence that can be missing, unverified or contradictory, and
lists that must keep telling of the same task. `PROJECT.json` lists each of
these hazards at its line with the properties that cover it.

Correctness, per component: a validated call is bounded, ends, and returns only
what the stage's validator accepts; a task's verdict rests on evidence of that
task; an action is condemned only on grounded, answered evidence and cleared
only when everything was shown; nothing is ablated that did not trigger;
directories do not outlive their task; no action is lost between the graph and
its chains without a report of it; a guard lets through only what was found
authorized and necessary, a repair rewrites what it guards and nothing else,
and what its report calls repaired was replayed without the action; a run of
the agent fails closed, its trace tells what ran, and its copy is removed.

## 2. Modules

| module | models | checked by | proved in |
|---|---|---|---|
| `ValidatedCall` | the abstract promise of one validated call | (refined) | |
| `ValidatedLLM` | `complete`, `complete_validated_json`, the HTTP client | `MCValidatedLLM*` | `ValidatedLLMProofs` |
| `Filters` | the filtering comprehensions of the code | with the modules that use them | `SharedFacts` |
| `Verdicts` | labels and the rules between them | with the two below | `SharedFacts` |
| `Validation` | `validate`, `run_trigger_then_replay`, how both judges end | `MCValidation*` | `ValidationProofs` |
| `AuthorizationJudge` | `AuthorizationJudge.judge` with its request contract | `MCAuthorizationJudge*` | `AuthorizationJudgeProofs` |
| `ExecutionGraph` | instruction and code graph and their composition | with the three below | |
| `CandidatePool` | candidate extraction by a thread pool, the shared log | `MCPreparation` | `PreparationProofs` |
| `ChainEnumeration` | the bounded enumeration of each candidate's chains; composes `CandidatePool` | `MCPreparation` | `PreparationProofs` |
| `AgentRun` | one execution of a skill by the sandbox agent | `MCAgentRun` | `AgentRunProofs` |
| `DescriptorClusters` | dispositions, clusters, guards | `MCRepair*` | `RepairProofs` |
| `SourceVariants` | the safe and composite variants of a source, what is proved of them | `MCRepair*` | `ProjectionFacts`, `RepairProofs` |
| `InstructionDocument` | SKILL.md as lines, guards and dispatches written into it | `MCRepair*` | `ProjectionFacts`, `RepairProofs` |
| `RepairProjection` | planning and `BundleProjector.project`; composes the three above | `MCRepair*` | `RepairProofs` |
| `Repair` | `repair`: projection, validation of the patched skill, artifacts | `MCRepair*` | `RepairProofs` |

Operators named `...Slip` are plausible bugs, each just before the definition it
would replace. No specification uses them; they are there to see that a
property notices.

**ValidatedLLM.** `setup` is the configuration `Init` picks: client configured
or disabled, called through the adapter or not, debug log or not, prompt asset
or not, attempts requested. The other variables are the locals of the three
nested functions: `attempt` (loop of `complete_validated_json`), `calls`
(`_CountingLLMClient.call_count`), `sent` and `requests` (the transport loop, and
a total), `feedback` (`validation_errors`) and `latest` (`latest_errors`), both as
the number of the attempt they describe. A response is a model value the stage's
validator accepts or not; error texts are left out. `LogWriteFails` is the one
exception no loop catches.

**Verdicts.** `Tri` is `bool | None`. The rules are operators without state:
`FromComponents`, `Aggregate`, `LabelForContract`, `Combine`.

**Validation.** `Agenda` is the sequence of (candidate, task) pairs in loop
order; a pair whose chain is missing is skipped. The service's lists are sequences whose
records keep the agenda position (`at`), standing for `candidate_id` and
`task_id`. An execution record is what later code reads of it: status, the
number of material events, how many the tuple extractor recovers, and whether
the candidate's path was observed; a replay record adds whether the ablation
was applied, the fingerprint is gone, an event is still there, and how the
outputs compare. These are chosen by the environment from `Executions` and
`Replays`, restricted where the code restricts them: a known operation is
counted alike by detector and extractor, a loss of the result is only observed
between two completed runs. `dirs` holds the temporary directories: the sandbox
copies of `execute_installed_skill` and the replay bundle. A judge ends in one
step, as `ValidatedCall` says a call ends.

**AuthorizationJudge.** Opens that step for authorization: one judgment per
realized event. An event is the action tuple as the contract sees it: the kind
of operation, which of object, source and destination are grounded, and
whether the prompt explicitly prohibits it. `Accepts` is the validator,
`Fallback` the set of judgments the deterministic fallback can return when the
prompt's words are unknown, restricted by what its keyword tables force (the
own effect of an operation is looked up with the operation's verbs).

**ExecutionGraph, CandidatePool, ChainEnumeration** are modules 1 and 2 up to
the first task. A skill is the record the parsers would build: ordered steps,
links, implicit false exits, scripts and which step invokes which.
`ExecutionGraph!Compose` adds entry, exit, call and return edges as
`UEGComposer` does, duplicates included. `CandidatePool` has one action per
step of a worker thread (take an item, begin and end a log line, classify), the
reading of results in submission order, and the failure of the first failed
result, which cancels pending items and waits for running threads.
`ChainEnumeration` makes the recursion of both searches a stack of paths, with
the four bounds and the flag each sets.

**AgentRun.** One call of `execute_installed_skill`: copy, fixtures, plan (by a
model that may answer any valid path, or by the fallback), then for each step
its tool requests, for each request the operations of its script in order, and
the events a tool records of them; a tool may hang, exit or fail at any point.
`performed` keeps what really happened, so that the trace can be compared with
it. Bash traces a command in the words it expands to, so a command has the set
`shows` of the words it may be traced in, its own or a neighbour's, or `Silent`;
an event carries those and a node its static text. What Node's coverage tells,
nothing included, is any choice of `Coverage`. A text of the final response is
the set of tool results it repeats: what a tool handed over (`printed`,
`returned`), the code's own `placeholder` "Executed ...", or the `raw` stdout of
the worker process; `direct` and `stdout` keep which of them a run has.

**DescriptorClusters, SourceVariants, InstructionDocument, RepairProjection,
Repair** are module 3. A cluster key is the slot values with the white space
around them: a model's slots are compared without it and hashed with it
(`descriptor_clustering.py:174, 242, 262-278, 441-456`), and `answers` of an
input are the slots its model may give for each descriptor. `filed` of an item
keeps the key each of its descriptors got. A source is a sequence of statements, each with its text
and privilege, the engine that rewrites it (Python tree, lines, or none) and
the calls it is chained to; a variant is what is left of it. A model may write
the safe unit of a lone item as any part of its source that passes the
comparison; that it does not hold the raw text is checked only for texts that
are not in `ShortTexts` (under 8 characters, `code_rewriter.py:1748-1757`), and
the comparison counts equal actions (300-321) without telling them apart
(`Doubles`). SKILL.md is a
sequence of lines of fragments that remember the line they came from. An item
is a candidate with its clusters, its guard and how it was projected. The run
of the patched skill executes any set of units the agent may choose;
`performed` in an after-repair verdict is what it really did. `files` holds for
each artifact whether it is of this run, of an earlier one, or absent; `Crash`
may stop the process between any two.

## 3. Runs

| run | instance | shows |
|---|---|---|
| `validated_llm` | one good and one bad response, requests for 0, 2 and 7 attempts, all 24 configurations | bounds, fresh feedback, no lost attempt, termination, refinement of `ValidatedCall` |
| `disabled_client` | same | finding 1 |
| `validation` | agenda of three pairs: runs, skipped, runs; three executions, two replays, two judgments | evidence behind verdicts, aligned lists, gated ablation, directories, every task executed |
| `validation_one_task` | one pair; every execution of up to two events, every replay, three judgments | the evidence properties on the worst evidence |
| `authorization` | every single tuple, four pairs of tuples, the empty trace; both modes, with and without LLM | denials, grounded condemnation, aggregation, termination |
| `unanswerable_denial`, `unbound_effect` | same | findings 2 and 3 |
| `preparation` | seven skills (guards, a loop, a shared script, more branches than the bounds allow, an uninvoked script, an empty document), two workers; 121,927 states | source order, whole log lines, every candidate reported, chains are paths of the graph, a report says so when a bound hid a chain |
| `agent_run` | seven skills (both sides of a repaired script behind a predicate or in sequence, an allowed side deeper than the planner searches, crowded lines, a script without columns, shell commands that expand, inline and Node tools, a target no tool runs), every isolation, with and without a model; 516,095 states | plans fail closed, the trace tells what ran, grounded output is real, every run ends with its copy removed |
| `repair` | 112 repairs of one to three items (three tasks in two clusters, slots a model padded, short texts with a double, one script of every engine, two items in one script, instructions covered by code, texts that share lines, ranges that overlap, two scripts), any answer of a model, any units executed, a crash anywhere; 750,122 states | guards are clean, no unit is broadened, batches are atomic, only guarded text changes, the lines of instructions still to be guarded are as they were read, repaired means replayed for every blocked task, artifacts tell how the run ended |
| `shifted_repair`, `second_script` | same | findings 4 and 5 |

Bounds. The retry bounds are the code's own, 5 and 3. The request values lie
below, between and above the clamp. Two running tasks around a skipped one are
the least in which an index can slip or a value of one task reach another; two
events are the least an aggregate can get wrong. The environment's sets of
`validation` are small because `validation_one_task` takes them whole. The
proofs have no bounds. `preparation` uses two workers, the least that can
interleave, and four chains, six nodes and three suffixes as bounds, which some
of its skills stay within and others exceed; `agent_run` searches paths of five
nodes, which one skill exceeds; its `max_paths` of 32 is never reached.
`repair` lets a run execute at most `MaxUnitsPerRun` = 2 units: the metric can
be wrong about one unit beside another, and a third adds no case. Two slot
values and three raw slots are the least with two tasks in one cluster and one
outside; one white space is the least with which a model can split a cluster.
The scenarios with most replays (`Composite`, `Answered`) follow an earlier
success only (`MCSpec`); what is left of an earlier run does not matter to them.
Deadlock is not checked: each model is one call, which stops.

Fairness. Every specification with a liveness property assumes weak fairness of
its whole next-state relation and nothing else: each models one call, whose
requests (60 s by default) and subprocesses have timeouts, so that a step that
can be taken is taken. No choice of the environment is assumed fair: connection
errors may recur for ever and termination still holds, by the bounds. In
`ChainEnumeration`, the one concurrent model, it says that some thread that can
move does, which is less than each thread's own fairness. `Repair` states
safety only.

## 4. Findings

1. *A disabled client is called.* `common/llm/validation.py:80-82` says no
   disabled calls are issued. `ValidatedLLMCaller.complete` puts
   `_CountingLLMClient` in front of the client (`validated_llm.py:77`), so the
   `isinstance` test never sees it; five calls are made. Their outcome is the
   same, the fallback.
2. *A prohibited command cannot be answered.* For an `exec_command` event whose
   command line was not observed, under a prompt that prohibits commands, the
   validator demands `False` (`authorization_judge.py:694-696`) and `None`
   (697-711) of the same component. No response passes, five attempts are spent
   and the label is `inconclusive`, where the contract (50-51) says false, and
   where the fallback without an LLM says `unauthorized`.
3. *The effect of an undecided command is authorized.* The fallback looks the
   effect of a command up on its own and returns `True` while the operation is
   `None`, though the request it answers says `must_equal: operation`. The label
   is `inconclusive` either way; the component reported is not.
4. *A dispatch moves the lines below it.* `instruction_rewriter.py:97-98` says
   that ranges are processed bottom-up "so line insertions at a later range
   cannot invalidate an earlier range's provenance". `BundleProjector.project`
   writes the dispatch blocks first (`bundle_projector.py:82-90`) and the guards
   afterwards (200) at the lines recorded before. Below a dispatch those lines
   hold other text: the guard is then placed by its text, or not at all. The
   same comment fails without a dispatch when ranges overlap: an instruction
   that cites several blocks has the range from the first to the last
   (`instruction_graph_builder.py:288-291`), and a guard written inside it moves
   what follows (run `shifted_repair` with `Inputs <- Overlapping` to see it).
   `ProvenanceHolds` says what does hold, and `SharesNoLine` in it excludes
   those.
5. *An instruction covered by two scripts is judged by the first.*
   `_apply_code_coverage` copies the units of `covering_items[0]`
   (`bundle_projector.py:302`), and the verdict looks for those only. A blocked
   context in which the second script performs the action is labelled
   `not_overprivileged`, against the metric contract
   (`repair_validator.py:320-323`). One script is enough when it holds two items
   and the instruction shares the guard of one of them: the other item's units
   are not looked for (1316-1342; run `second_script` with
   `Inputs <- Equivalents`). With the code in one script, all of whose items the
   instruction shares its guard with, and no equal short action beside it
   (below), the label is right (`NotOverprivilegedIsTrue` and its hypothesis
   `Attributable`).

Seen while modelling, stated by no document and therefore no finding: call and
return edges carry no call stack, so a chain may enter a script from one step
and return past another; the planner's model may not answer a plan that crosses
the allowed side of one repair and the safe side of another, though a path does
(`task_planner.py:201-208`); the Python worker instruments neither `os.remove`
nor `os.environ.get`; a return value left over by a script counts as a direct
result, and so does the placeholder "Executed ..." of a script whose process
wrote to stdout past the worker's capture (`agent_runtime.py:1192-1203`); a call
that hides its operations from its tool (`set +x`, words that cannot be split,
coverage that is missing) still completes; a cluster mixed of several tasks is blocked whole, and the report counts
an authorized and necessary task of it that still acts as over-privileged
(`repair_validator.py:262-265`); a sensitive-data candidate that is not
privilege-relevant is blocked by its labels though its verdict never is
over-privileged (`descriptor_clustering.py:403-415`), and is therefore planned
for repair (`repair_planner.py:123-133`); the guard of an item is looked up by its text,
which two items may share; a failed repair leaves the summary of an earlier one
beside `repair_error.json`. Three of them bound what properties can say:

- *A padded slot splits a cluster.* An answer that repeats the deterministic
  slots is accepted whatever white space is around them
  (`descriptor_clustering.py:262-278`), and the key is the hash of the padded
  ones (242, 441-456). An unauthorized task that should block the cluster of an
  authorized one is then in a cluster of its own; the validator derives keys
  without a model (`repair_validator.py:366-385`), finds the allowed one for
  both, and replays the unauthorized task as an allowed context, where its
  action counts as expected. `AllowedClusterIsClean` and `ReportedAreClean` hold
  of the tasks whose slots were not padded (`Padded`), and say so.
- *A short text may survive its repair.* A model's safe unit is searched for the
  raw text of its item only if that has 8 or more characters
  (`code_rewriter.py:1748-1757, 1851-1855`). Of two equal short calls the model
  may remove the other one: `compare_projection` counts calls (300-321), and
  `safe_targets_absent` (`repair_validator.py:1889`) is not part of `complete`
  (1915-1927). `NeverBroadened` names that exception (`Doubles`), and
  `NotOverprivilegedIsTrue` excludes it (`ToldApart`).
- *An expanded command may read as its neighbour.* Bash traces `cat "$F"` as
  `cat notes`, and its words are compared with the static text of the commands
  of its line (`agent_runtime.py:645-665`); if one of them alone reads so, the
  event is its. `TraceTellsRun` allows that for commands that expand
  (`MayBeTakenFor`), and for no other.

## 5. Proofs

Every safety invariant a run checks, and the safety half of the refinement and
of `RunEndsClean`, is a theorem. Each proof module states the inductive
invariants it needs and derives the properties from them.

- `SharedFacts` and `ProjectionFacts` hold the lemmas. The first: recursion and
  induction up to a number (a function defined by steps, a set closed under
  them), what filtered and flattened sequences contain and in which order, the
  label rules of `Verdicts`. The second: the variants of a source (none is
  broader than what it allows, which of them compare equal when proved), the
  ranks of sorted items, and what a guard and a dispatch do to a file, line by
  line and text by text. The code's comprehensions are `Filter` of `Filters`,
  a recursive function; nothing is provable of the built-in `SelectSeq`.
- `ValidatedLLMProofs`: `CountersAgree` says where the counters stand at each
  point of the call; without it the bounds do not survive a step (a request
  may be sent in attempt n only because n-1 attempts have sent at most three
  each). Types, bounds, fresh feedback, no early end, and the step simulation of
  `ValidatedCall` follow, for every set of responses and requests.
- `ValidationProofs`: a verdict is written three steps after the evidence it
  rests on, so `OverprivilegeIsEvidenced` and `ClearedIsEvidenced` are not
  inductive. `IInv` adds how far each list is ahead of the verdicts
  (`ListsInStep`), that the i-th authorization and decision tell of the i-th
  pair and are grounded in it (`AuthorizationsGrounded`, `DecisionsGrounded`),
  and that the i-th verdict combines them (`VerdictsCombine`). A second layer,
  `LedgerInv`, says what the lists tell of each other: evidence is of earlier
  tasks or of this one once triggered, a task is paired exactly when it
  triggered and is no longer being ablated, who uses each directory, verdicts
  are in agenda order. `AblationIsTriggered`, `OnlyFailedAblationsLeak` and
  `LedgersAligned` follow from it, for every agenda, candidate set, execution,
  replay and judgment.
- `AuthorizationJudgeProofs`: `IInv` says each judgment meets the contract of
  its event (`InstancesGrounded`) and the outcome is their aggregate
  (`OutcomeAggregates`). Denials, grounded condemnation and what the aggregate
  says of its instances follow, for traces of every length.
- `PreparationProofs`: the lock is held by one thread, an unfinished line is
  the last piece of the log and of the thread that holds the lock, and a thread
  past its start has its start line (`LockInv`, `StartInv`, `PiecesInv`); what
  the reader has passed stays done and labelled (`OrderInv`).
  `EnumerationKeepsPool` carries what is proved of the pool over to the pool
  with the enumeration behind it. `ChainInv` says, for each of the two searches
  and the join, that every result is a task path and, while no bound was met,
  that every task path is a result or extends a path still on the stack
  (`Covers`). With an empty stack this is `UntruncatedIsComplete`, for any
  graph, number of threads and bounds.
- `AgentRunProofs`: what is direct or on stdout belongs to planned steps, a
  placeholder is direct only beside raw stdout of the same call (`ResultsInv`),
  and a grounded response repeats nothing else; the copy exists exactly between
  copy and removal.
  `PlanInv` keeps that a plan takes one side of a repaired action and that only
  planned steps acted. `TraceInv` accounts for every operation performed: it is
  told by an entry of its own node, waits in the buffer of the running tool, or
  the run no longer counts as completed.
- `RepairProofs`, by part of the state. `PlanIsBuilt` keeps how each item was
  built from its clusters: a descriptor is filed under the key the model's
  answer left it (`FiledKey`), the members of a cluster are those with its key
  (`ClusterMembers`), so a guard stays clean whatever follows;
  `FilesInv` and `ReportInv` say which artifacts each stage has written and what
  each report passed. `TypeInv` is what the others rest on. `UnitsAreBuilt`:
  the units of a script are the lattice of its items, or that with a safe unit
  the validation accepted (`ModelWrote`); a unit that compares equal and holds
  its target has lost an equal action (`ModelUnitIsNarrow`, by counting), hence
  `NeverBroadened`. `DecidedInv` relates every
  instruction to the decision its plan and units imply; with the units it
  gives what a verdict says of a run the agent chose, in
  `NotOverprivilegedIsTrue`. `ReplayInv` says that every context is still
  waiting or has its verdict, and that nothing is skipped but what has no
  context: a blocked task whose slots are its own is then a blocked context of
  the report, hence `ReportedAreClean`. `DocInv` keeps, through
  dispatches and guards, that the file is one, that all other text is in place
  and that what the batch saved has no guard, and places every instruction left
  in a group of the queue: `BatchIsAtomic` and `OnlyGuardedTextChanges`.
  `ProvenanceInv` adds that no line is lost, that lines no dispatch is above are
  as they were read, and that the queue goes from the bottom up, so that a group
  guarded before an instruction lies below it: `ProvenanceHolds`.

Two properties turned out to be false outside the instances TLC had been given,
when their proofs failed: `ProvenanceHolds` without `SharesNoLine` (finding 4) and
`NotOverprivilegedIsTrue` for any code in one script (finding 5). The instances
that show it (`Overlapping`, `Equivalents`) are part of the run `repair` since.

Assumptions are those named in the modules, which TLC evaluates on every run.
They say what the code that builds an input sees to: constants are sets of
records of the stated shape, a replay that ran has its ablation applied, the
acceptable responses are responses; a graph's nodes are listed once and only the
synthetic ones are entry and exit (`SkillsAssumption`); an operation of an agent
skill has one node, and a Python worker tells operations on one line apart
(`AgentSkillsAssumption`); a file is read as text and commands on numbered
lines, and a code item quotes a statement of its own source
(`InputsAssumption`); `OrderAssumption`, `RunsAssumption` and `TextsAssumption`
say that an order lists everything once, that each action names what runs it
and that no text is the mark for none; `BareAssumption`, that slots may be
without white space.

Only model-checked: liveness (`Termination`, `EveryTaskExecuted`,
`JudgmentEnds`, `EveryCandidateIsReported`, and of `RunEndsClean` that a run
does end) and the fairness part of the refinement. All of them need ENABLED.

## 6. What is not modelled, and the plan

Not modelled and not planned:

- What parsers and text heuristics of module 1 find in files (four fifths of
  its lines): the graphs are inputs of the models. The same holds of prompt
  wording, lexical matching, text comparison and the LLM itself, which appear
  as the set of results they can have.
- The privilege taxonomy: a table.
- `instruction_rewriter.py` 218-677 (a single literal read rewritten in place)
  and 762-972 (a model writes the guard text): which text results, not whether.
- Of the agent: the literal Python one-liners of `tooling.py` 410-551, the
  ablation hooks of the worker, call and return events matched by summary,
  `_full_instruction_plan`, an explicit `instruction_node_ids`, and the
  installation cache, whose entries for deleted bundles change no result. That
  `rmtree(ignore_errors=True)` removes the copy is assumed. The planner's scores
  are a free choice among the paths it may take.
- Of the repair: a missing source file (reported in the notes), and a candidate
  whose two verdicts of one task conflict, which the clusterer skips.
- The command line and the analyze and validate pipelines, which write
  artifacts in a fixed order; `Repair` models the one with an error file.

Planned, in this order:

1. `TriggerDetection`: the observed prefix over a trace, so that `Triggered` of
   `Validation` is what the detector computes of `AgentRun`'s trace.
2. `AgentRun` as an implementation of `Validation`'s choice of executions, and
   `AuthorizationJudge` of its `Authorize`.
3. The artifacts of the validate pipeline, with the crash `Repair` has.
