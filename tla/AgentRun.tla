------------------------------ MODULE AgentRun ------------------------------
(***************************************************************************)
(* One execution of an installed skill by the sandbox agent: a copy of the *)
(* bundle, its fixtures, a plan of instruction steps, the tools each step  *)
(* calls, the trace they leave and the final response.                     *)
(*                                                                         *)
(* A skill is that of ExecutionGraph without its code part, and            *)
(*   branch    for a step, "allowed", "safe" or "none": which side of a    *)
(*             repaired action its text names                              *)
(*   calls     for a step, the tool requests it makes, in order            *)
(*   local     the steps with an instruction-only action                   *)
(*   fixtures  for each fixture, is it required?                           *)
(* A request is [tool, command, ops]: the tool its target's suffix selects *)
(* ("none": no tool does), whether the instruction spells the command out, *)
(* and the operations of the script in source order.  An operation is      *)
(* [node, kind, line, mark, known, hooked, shows]: its node in the graph,  *)
(* the line it is on, what the graph tells it by from its neighbours there *)
(* (its columns, or the text of a command), whether the graph knows them   *)
(* (for Node: whether it stands on that line alone), whether the Python    *)
(* worker instruments it, and the marks under which Bash may trace it: its *)
(* words once expanded, or Silent where no event tells of it.              *)
(***************************************************************************)
EXTENDS ExecutionGraph

CONSTANTS
  AgentSkills,   \* the skills the agent may run
  MaxPathNodes   \* max_depth of the planner: nodes on a path

ASSUME MaxPathNodesAssumption == MaxPathNodes \in Nat \ {0}

\* The mark of a command that is not traced, or not in words: after set +x,
\* and where its expansion cannot be split into words.
Silent == 0

Tools == {"python", "shell", "node", "inline", "none"}

Requests(s) == UNION {Range(s.calls[n]) : n \in Range(s.steps)}

\* What the graphs of a skill guarantee: a node stands for one operation of
\* one script and is no step; Python tells two calls of a line apart by their
\* columns.
ASSUME AgentSkillsAssumption ==
  \A s \in AgentSkills :
    /\ s.steps \in Seq(Range(s.steps)) /\ s.links \in Seq(Range(s.links))
    /\ \A n \in Range(s.steps) : s.calls[n] \in Seq(Requests(s))
    /\ \A c \in Requests(s) :
         /\ c.tool \in Tools /\ c.ops \in Seq(Range(c.ops))
         /\ \A x \in Range(c.ops) : x.node \notin Range(s.steps)
         /\ c.tool = "python" =>
              \A x, y \in Range(c.ops) :
                x.kind = y.kind /\ x.line = y.line /\ x.mark = y.mark => x = y
    /\ \A c, d \in Requests(s) :
         \A x \in Range(c.ops), y \in Range(d.ops) :
           x.node = y.node => x = y /\ c.tool = d.tool

VARIABLES
  skill,      \* the installed skill
  isolation,  \* "os", "guards" (accepted without an OS sandbox) or "none"
  llm,        \* is a model configured?
  stage,      \* where the execution stands
  sandbox,    \* "none", "present" or "removed"
  fixtures,   \* the fixtures still to materialize
  plan,       \* the instruction steps selected
  planner,    \* "none", "llm" or "fallback"
  position,   \* the step that is executed
  requests,   \* its tool requests still to make
  ops,        \* the operations its running script has still to reach
  buffer,     \* the events the running tool has recorded
  performed,  \* what really happened: [step, node]
  trace,      \* the code events of the run: [type, node, ran]
  marked,     \* executed_node_ids
  status,     \* "completed" or "failed"
  direct,     \* the direct results: [step, left, way] of a tool call
  stdout,     \* what the tools left on stdout, likewise
  final,      \* the final response: [text, grounded]
  outcome     \* "none", "raised" or "record"

planVars == <<plan, planner>>
stepVars == <<position, requests>>
toolVars == <<ops, buffer>>
evidence == <<performed, trace, marked, status, direct, stdout>>
fixed == <<skill, isolation, llm>>

vars == <<fixed, stage, sandbox, fixtures, planVars, stepVars, toolVars,
          evidence, final, outcome>>

\* A text is the set of the results it repeats; these repeat none of a tool.
NoText == {}
OwnWords(way) == {[step |-> "none", left |-> 0, way |-> way]}
Telemetry == OwnWords("telemetry")
Abstention == OwnWords("abstention")

-----------------------------------------------------------------------------
(* The planner.                                                            *)

InstructionTargets(n) == Range(TargetsOf(InstructionEdges(skill), n))

\* Every path from the entry to the exit, or to a node without a successor.
Paths ==
  LET Ends(p) == Last(p) = EXIT \/ InstructionTargets(Last(p)) = {}
      Longer(p) == {Append(p, n) :
                      n \in InstructionTargets(Last(p)) \ Range(p)}
      ofLength[k \in 1..MaxPathNodes] ==
        IF k = 1 THEN {<<ENTRY>>}
                 ELSE UNION {Longer(p) :
                               p \in {q \in ofLength[k - 1] : ~Ends(q)}}
  IN  {p \in UNION {ofLength[k] : k \in 1..MaxPathNodes} : Ends(p)}

StepsOf(path) == Filter(path, Range(skill.steps))

Allowed == {n \in Range(skill.steps) : skill.branch[n] = "allowed"}
Safe == {n \in Range(skill.steps) : skill.branch[n] = "safe"}

ValidPaths == {StepsOf(p) : p \in Paths} \ {<<>>}

\* A model's plan is one path exactly, and never both sides of a repair.
\* Without a path within the bounds any order of known steps passes.
LlmPlans ==
  LET grounded == IF ValidPaths # {} THEN ValidPaths
                  ELSE UNION {SetToSeqs(s) : s \in SUBSET Range(skill.steps)}
  IN  {p \in grounded \ {<<>>} : ~(/\ Range(p) \cap Allowed # {}
                                   /\ Range(p) \cap Safe # {})}

FullPlan == Filter(skill.steps, Range(skill.steps) \ Allowed)

\* Slip: the path is taken as it is when none of them is safe.
FallbackPlansSlip ==
  LET safeOnly == {p \in Paths : /\ Range(p) \cap Safe # {}
                                 /\ Range(p) \cap Allowed = {}}
      eligible == IF safeOnly # {} THEN safeOnly ELSE Paths
  IN  IF eligible = {} THEN {FullPlan} ELSE {StepsOf(p) : p \in eligible}

\* The score that selects among the eligible paths depends on the texts.
FallbackPlans ==
  LET safeOnly == {p \in Paths : /\ Range(p) \cap Safe # {}
                                 /\ Range(p) \cap Allowed = {}}
      eligible == IF Allowed # {} /\ safeOnly # {} THEN safeOnly ELSE Paths
      Materialized(p) == Filter(StepsOf(p), Range(skill.steps) \ Allowed)
      OrFull(p) == IF p = <<>> THEN FullPlan ELSE p
  IN  IF eligible = {} THEN {FullPlan}
                       ELSE {OrFull(Materialized(p)) : p \in eligible}

-----------------------------------------------------------------------------
(* The trace: events of a tool are attributed to nodes of the graph.       *)

Event(type, op, shown) == [type |-> type, op |-> op, shown |-> shown]

\* The worker tells the columns of a call, Bash the words it expanded to.
Shown(tool, op) == IF tool \in {"shell", "inline"} THEN op.shows ELSE {op.mark}

\* Every traced Python line leaves a line event; an operation leaves one of
\* its own only if the worker instruments it.  Bash leaves one per command
\* whose words it shows.  Node's coverage is read when its process has ended.
Recorded(tool, op, shown) ==
  CASE tool = "python" ->
         <<Event("line", op, shown)>> \o
         (IF op.kind # "plain" /\ op.hooked
            THEN <<Event("operation", op, shown)>> ELSE <<>>)
    [] tool \in {"shell", "inline"} /\ shown # Silent ->
         <<Event("command", op, shown)>>
    [] OTHER -> <<>>

OnLineOf(op, nodes) == {n \in nodes : n.line = op.line}

\* Slip: without a node in its own place the first on the line is taken.
MatchedSlip(event, nodes) ==
  LET near == OnLineOf(event.op, nodes)
      sameKind == {n \in near : n.kind = event.op.kind}
  IN  CASE event.type = "line" -> {n \in near : n.kind = "plain"}
        [] event.type = "covered" -> {event.op}
        [] event.type = "command" -> {n \in near : n.mark = event.shown}
        [] OTHER -> sameKind

\* An event is attributed only to the one node it identifies, a command by
\* its expanded words; a line stands for all the immaterial actions on it.
Matched(event, nodes) ==
  LET near == OnLineOf(event.op, nodes)
      sameKind == {n \in near : n.kind = event.op.kind}
      inPlace == {n \in sameKind : n.known /\ n.mark = event.shown}
      sameText == {n \in near : n.mark = event.shown}
      Sole(ns) == IF Cardinality(ns) = 1 THEN ns ELSE {}
  IN  CASE event.type = "line" -> {n \in near : n.kind = "plain"}
        [] event.type = "covered" -> {event.op}
        [] event.type = "command" -> Sole(sameText)
        [] OTHER -> IF inPlace = {} /\ \A n \in sameKind : ~n.known
                      THEN Sole(sameKind) ELSE Sole(inPlace)

\* The nodes of a script; a command written in the instruction has none.
NodesOfCall(call) == IF call.tool = "inline" THEN {} ELSE Range(call.ops)

Attributed(call, event) ==
  LET Entry(n) == [type |-> event.type, node |-> n, ran |-> event.op.node]
      nodes == {n.node : n \in Matched(event, NodesOfCall(call))}
  IN  IF nodes = {} THEN <<Entry("none")>>
      ELSE LET ordered == SetToSeq(nodes)
           IN  [i \in DOMAIN ordered |-> Entry(ordered[i])]

CallTrace(call, events) ==
  FlattenSeq([i \in DOMAIN events |-> Attributed(call, events[i])])

NodesIn(entries) == {entries[i].node : i \in DOMAIN entries} \ {"none"}

-----------------------------------------------------------------------------
(* The copy and its fixtures.                                              *)

Init ==
  /\ skill \in AgentSkills
  /\ isolation \in {"os", "guards", "none"}
  /\ llm \in BOOLEAN
  /\ stage = "copy"
  /\ sandbox = "none"
  /\ fixtures = skill.fixtures
  /\ plan = <<>> /\ planner = "none"
  /\ position = 1 /\ requests = <<>>
  /\ ops = <<>> /\ buffer = <<>>
  /\ performed = {} /\ trace = <<>> /\ marked = {}
  /\ status = "completed" /\ direct = <<>> /\ stdout = {}
  /\ final = [text |-> NoText, grounded |-> FALSE]
  /\ outcome = "none"

CopySkill ==
  /\ stage = "copy"
  /\ sandbox' = "present"
  /\ stage' = "fixtures"
  /\ UNCHANGED <<fixed, fixtures, planVars, stepVars, toolVars, evidence,
                 final, outcome>>

\* A copy that fails, or a link that escapes, removes what was copied.
CopyFails ==
  /\ stage = "copy"
  /\ outcome' = "raised"
  /\ stage' = "ended"
  /\ UNCHANGED <<fixed, sandbox, fixtures, planVars, stepVars, toolVars,
                 evidence, final>>

\* Slip: the error does not pass through the block that removes the copy.
RaiseSlip ==
  /\ outcome' = "raised"
  /\ stage' = "ended"

Raise ==
  /\ outcome' = "raised"
  /\ stage' = "cleanup"

Fixture ==
  /\ stage = "fixtures"
  /\ fixtures # <<>>
  /\ fixtures' = Tail(fixtures)
  /\ UNCHANGED <<fixed, stage, sandbox, planVars, stepVars, toolVars, evidence,
                 final, outcome>>

\* An optional fixture that fails is noted, a required one ends the run.
RequiredFixtureFails ==
  /\ stage = "fixtures"
  /\ fixtures # <<>> /\ Head(fixtures)
  /\ Raise
  /\ UNCHANGED <<fixed, sandbox, fixtures, planVars, stepVars, toolVars,
                 evidence, final>>

FixturesDone ==
  /\ stage = "fixtures"
  /\ fixtures = <<>>
  /\ stage' = "planning"
  /\ UNCHANGED <<fixed, sandbox, fixtures, planVars, stepVars, toolVars,
                 evidence, final, outcome>>

-----------------------------------------------------------------------------
(* The plan.                                                               *)

Planned(by, nodes) ==
  /\ plan' = nodes
  /\ planner' = by
  /\ stage' = "step"
  /\ UNCHANGED <<fixed, sandbox, fixtures, stepVars, toolVars, evidence, final,
                 outcome>>

PlanByModel ==
  /\ stage = "planning"
  /\ llm
  /\ \E p \in LlmPlans : Planned("llm", p)

\* Also when no answer of the model was accepted.
PlanByFallback ==
  /\ stage = "planning"
  /\ \E p \in FallbackPlans : Planned("fallback", p)

\* The debug log of the model client cannot be written.
ModelRaises ==
  /\ stage \in {"planning", "synthesis"}
  /\ llm
  /\ Raise
  /\ UNCHANGED <<fixed, sandbox, fixtures, planVars, stepVars, toolVars,
                 evidence, final>>

-----------------------------------------------------------------------------
(* One step: its requests are built first, then its tools run in order.    *)

Step == plan[position]
Call == Head(requests)

BeginStep ==
  /\ stage = "step"
  /\ position \in DOMAIN plan
  /\ \A i \in DOMAIN skill.calls[Step] : skill.calls[Step][i].tool # "none"
  /\ requests' = skill.calls[Step]
  /\ stage' = IF requests' = <<>> THEN "local" ELSE "call"
  /\ UNCHANGED <<fixed, sandbox, fixtures, planVars, position, toolVars,
                 evidence, final, outcome>>

\* No tool is registered for a target: nothing catches the error.
NoToolForTarget ==
  /\ stage = "step"
  /\ position \in DOMAIN plan
  /\ \E i \in DOMAIN skill.calls[Step] : skill.calls[Step][i].tool = "none"
  /\ Raise
  /\ UNCHANGED <<fixed, sandbox, fixtures, planVars, stepVars, toolVars,
                 evidence, final>>

\* The steps of the plan that make no request act in the sandbox themselves.
ActLocally ==
  /\ stage = "local"
  /\ Step \in skill.local
  /\ performed' = performed \union {[step |-> Step, node |-> Step]}
  /\ trace' =
       Append(trace, [type |-> "operation", node |-> Step, ran |-> Step])
  /\ marked' = marked \union {Step}
  /\ stage' = "endStep"
  /\ UNCHANGED <<fixed, sandbox, fixtures, planVars, stepVars, toolVars,
                 status, direct, stdout, final, outcome>>

\* No such action, or its fixture or file is missing.
NothingToDoLocally ==
  /\ stage = "local"
  /\ stage' = "endStep"
  /\ UNCHANGED <<fixed, sandbox, fixtures, planVars, stepVars, toolVars,
                 evidence, final, outcome>>

\* Python also runs under the language guards when that is accepted.
MayRun(tool) == isolation = "os" \/ (isolation = "guards" /\ tool = "python")

StartTool ==
  /\ stage = "call" /\ requests # <<>>
  /\ MayRun(Call.tool)
  /\ ops' = Call.ops
  /\ buffer' = <<>>
  /\ marked' = marked \union {Step}
  /\ stage' = "running"
  /\ UNCHANGED <<fixed, sandbox, fixtures, planVars, stepVars, performed,
                 trace, status, direct, stdout, final, outcome>>

NextCall ==
  /\ requests' = Tail(requests)
  /\ ops' = <<>> /\ buffer' = <<>>
  /\ stage' = IF Tail(requests) = <<>> THEN "endStep" ELSE "call"
  /\ UNCHANGED <<fixed, sandbox, fixtures, planVars, position, performed,
                 final, outcome>>

\* The policy, a missing runtime or a missing script: the tool is blocked.
ToolBlocked ==
  /\ stage = "call" /\ requests # <<>>
  /\ status' = "failed"
  /\ marked' = marked \union {Step}
  /\ UNCHANGED <<trace, direct, stdout>>
  /\ NextCall

PerformOperation ==
  /\ stage = "running" /\ ops # <<>>
  /\ performed' = performed \union {[step |-> Step, node |-> Head(ops).node]}
  /\ \E shown \in Shown(Call.tool, Head(ops)) :
       buffer' = buffer \o Recorded(Call.tool, Head(ops), shown)
  /\ ops' = Tail(ops)
  /\ UNCHANGED <<fixed, stage, sandbox, fixtures, planVars, stepVars, trace,
                 marked, status, direct, stdout, final, outcome>>

\* A branch not taken, an exception or an early exit passes the operation by.
PassOperation ==
  /\ stage = "running" /\ ops # <<>>
  /\ ops' = Tail(ops)
  /\ UNCHANGED <<fixed, stage, sandbox, fixtures, planVars, stepVars, buffer,
                 evidence, final, outcome>>

\* V8 counts blocks: what follows a call that threw counts as executed too.
\* An action that spans lines is never covered, and there may be no coverage
\* at all: it is missing, unreadable or not of blocks.
Coverage ==
  LET ran == {i \in DOMAIN Call.ops :
                [step |-> Step, node |-> Call.ops[i].node] \in performed}
      Kept(c) == Filter(Call.ops,
                        {Call.ops[i] : i \in {k \in c : Call.ops[k].known}})
      Covered(c) == [i \in DOMAIN Kept(c) |->
                       Event("covered", Kept(c)[i], Kept(c)[i].mark)]
  IN  {<<>>} \union {Covered(ran \union c) : c \in SUBSET DOMAIN Call.ops}

Result(way) == [step |-> Step, left |-> Len(requests), way |-> way]

\* What its process itself wrote to stdout, past the worker's capture.
Raw(raw) == IF raw THEN {Result("raw")} ELSE {}

\* Slip: "Executed ..." counts whatever the process wrote.
DirectSlip(output, raw) == IF output = "none" THEN "placeholder" ELSE output

\* The text that counts as direct: what was printed, else the last string
\* returned; else "Executed ...", if the process left anything on stdout.
Direct(output, raw) ==
  IF output = "none" /\ raw THEN "placeholder" ELSE output

\* The result of a tool that came back: with its events, whatever its status.
Observed(call, failed, events, output, raw) ==
  LET entries == CallTrace(call, events)
      bundled == IF call.command /\ call.tool # "inline"
                   THEN <<[type |-> "bundled", node |-> Step, ran |-> Step]>>
                   ELSE <<>>
  IN  /\ trace' = trace \o bundled \o entries
      /\ marked' = marked \union NodesIn(entries)
      /\ status' = IF failed THEN "failed" ELSE status
      /\ direct' = IF Direct(output, raw) = "none" THEN direct
                   ELSE Append(direct, Result(Direct(output, raw)))
      /\ stdout' = stdout \union Raw(raw) \union
                     (IF output = "printed" THEN {Result(output)} ELSE {})
      /\ NextCall

\* What a tool hands over as its output; for Python a returned string too.
Outputs(tool) ==
  {"none", "printed"} \union (IF tool = "python" THEN {"returned"} ELSE {})

\* Only the Python worker captures its script's stdout apart from its own.
RawOutputs(tool) == IF tool = "python" THEN BOOLEAN ELSE {FALSE}

ToolReturns ==
  /\ stage = "running"
  /\ ops = <<>>
  /\ \E failed \in BOOLEAN, output \in Outputs(Call.tool),
        raw \in RawOutputs(Call.tool),
        events \in IF Call.tool = "node" THEN Coverage ELSE {buffer} :
       Observed(Call, failed, events, output, raw)

\* Slip: a worker without a response counts as one that did nothing.
ToolResultLostSlip ==
  /\ stage = "running"
  /\ UNCHANGED <<trace, marked, direct, stdout, status>>
  /\ NextCall

\* A timeout, a worker that left no response (SystemExit does) or an error of
\* the dispatcher: what the tool did so far stays done, its events are lost;
\* of a worker without a response its process's own stdout is kept.
ToolResultLost ==
  /\ stage = "running"
  /\ status' = "failed"
  /\ \E raw \in RawOutputs(Call.tool) : stdout' = stdout \union Raw(raw)
  /\ UNCHANGED <<trace, marked, direct>>
  /\ NextCall

EndStep ==
  /\ stage = "endStep"
  /\ marked' = marked \union {Step}
  /\ position' = position + 1
  /\ stage' = "step"
  /\ UNCHANGED <<fixed, sandbox, fixtures, planVars, requests, toolVars,
                 performed, trace, status, direct, stdout, final, outcome>>

-----------------------------------------------------------------------------
(* The final response, and the end of the run.                             *)

StepsDone ==
  /\ stage = "step"
  /\ position \notin DOMAIN plan
  /\ stage' = "synthesis"
  /\ UNCHANGED <<fixed, sandbox, fixtures, planVars, stepVars, toolVars,
                 evidence, final, outcome>>

Respond(response) ==
  /\ final' = response
  /\ outcome' = "record"
  /\ stage' = "cleanup"
  /\ UNCHANGED <<fixed, sandbox, fixtures, planVars, stepVars, toolVars,
                 evidence>>

\* The latest direct result, or a telemetry summary that is not grounded,
\* whatever stdout holds.
WithoutModel ==
  /\ stage = "synthesis"
  /\ ~llm
  /\ Respond([text |-> IF direct # <<>> THEN {Last(direct)} ELSE Telemetry,
              grounded |-> direct # <<>>])

\* The texts an answer may cite: each direct result, and the whole stdout.
DirectTexts ==
  ({{result} : result \in Range(direct)} \union {stdout}) \ {{}}

\* An accepted answer repeats a direct text or stdout, and if there is
\* neither abstains in fixed words.
ByModel ==
  /\ stage = "synthesis"
  /\ llm
  /\ IF direct # <<>> \/ stdout # {}
       THEN \E text \in DirectTexts :
              Respond([text |-> text, grounded |-> TRUE])
       ELSE Respond([text |-> Abstention, grounded |-> FALSE])

NoAcceptedResponse ==
  /\ stage = "synthesis"
  /\ llm
  /\ Respond([text |-> NoText, grounded |-> FALSE])

RemoveSandbox ==
  /\ stage = "cleanup"
  /\ sandbox' = "removed"
  /\ stage' = "ended"
  /\ UNCHANGED <<fixed, fixtures, planVars, stepVars, toolVars, evidence,
                 final, outcome>>

Next ==
  \/ CopySkill \/ CopyFails
  \/ Fixture \/ RequiredFixtureFails \/ FixturesDone
  \/ PlanByModel \/ PlanByFallback \/ ModelRaises
  \/ BeginStep \/ NoToolForTarget \/ ActLocally \/ NothingToDoLocally
  \/ StartTool \/ ToolBlocked \/ PerformOperation \/ PassOperation
  \/ ToolReturns \/ ToolResultLost \/ EndStep
  \/ StepsDone \/ WithoutModel \/ ByModel \/ NoAcceptedResponse
  \/ RemoveSandbox

\* The call is synchronous, and a tool that hangs is ended by its timeout.
Spec == Init /\ [][Next]_vars /\ WF_vars(Next)

-----------------------------------------------------------------------------
Acted == {e.step : e \in performed}

AgentTypeOK ==
  /\ skill \in AgentSkills
  /\ stage \in {"copy", "fixtures", "planning", "step", "local", "call",
                "running", "endStep", "synthesis", "cleanup", "ended"}
  /\ sandbox \in {"none", "present", "removed"}
  /\ planner \in {"none", "llm", "fallback"}
  /\ Range(plan) \subseteq Range(skill.steps)
  /\ position \in Nat \ {0}
  /\ Acted \subseteq Range(plan)
  /\ status \in {"completed", "failed"}
  /\ outcome \in {"none", "raised", "record"}

(* Whatever plan was made and however it ended, no run acts on both sides  *)
(* of a repaired action, and without an accepted model answer nothing of   *)
(* the allowed side happens at all (task_planner.py:201-208, 270-303).     *)
PlanFailsClosed ==
  /\ planner = "fallback" => Acted \cap Allowed = {}
  /\ Acted \cap Allowed = {} \/ Acted \cap Safe = {}

\* What a tool that ends as it should tells of: what the worker instruments,
\* and a command that is sure to be shown; Node's coverage may be missing.
Shows(call, op) ==
  CASE call.tool = "python" -> op.hooked /\ op.kind # "plain"
    [] call.tool \in {"shell", "inline"} -> Silent \notin op.shows
    [] OTHER -> FALSE

StaysTraceable(step, node) ==
  \/ step = node
  \/ \E i \in DOMAIN skill.calls[step] :
       \E op \in Range(skill.calls[step][i].ops) :
         op.node = node /\ Shows(skill.calls[step][i], op)

\* A command that Bash shows in the script's own words, or not at all.
Literal(op) == op.shows \subseteq {op.mark, Silent}

\* An expanded command may carry the words of a neighbour on its line.
MayBeTakenFor(ran, node) ==
  \E call \in Requests(skill) :
    /\ call.tool = "shell"
    /\ \E x, y \in Range(call.ops) :
         /\ x.node = ran /\ ~Literal(x)
         /\ y.node = node /\ y.line = x.line /\ y.mark \in x.shows

(* The trace tells what ran.  An operation is attributed to the node that  *)
(* ran or to none, never to a neighbour of its line (agent_runtime.py:     *)
(* 564-566, 640-642); so is a command written out in full, and one whose   *)
(* words Bash expands is taken at worst for a command of its line that     *)
(* reads as those words do (645-665).  And a run that calls itself         *)
(* completed lost nothing of an instrumented operation or of a command     *)
(* sure to be shown: timeouts, exits and failed tools may hide what was    *)
(* done, but then the status says so.                                      *)
TraceTellsRun ==
  /\ \A i \in DOMAIN trace :
       trace[i].type \in {"operation", "command"} =>
         /\ trace[i].ran \in {e.node : e \in performed}
         /\ \/ trace[i].node \in {"none", trace[i].ran}
            \/ /\ trace[i].type = "command"
               /\ MayBeTakenFor(trace[i].ran, trace[i].node)
  /\ outcome = "record" /\ status = "completed" =>
       \A e \in performed :
         StaysTraceable(e.step, e.node) =>
           \E i \in DOMAIN trace :
             trace[i].ran = e.node /\ trace[i].type # "line"

(* A response marked as grounded repeats what tools of this run's steps    *)
(* handed over as output or left on stdout, and never a summary of         *)
(* telemetry, with one exception the code has: the text "Executed ...",    *)
(* which stands only for a call whose process wrote to stdout itself       *)
(* (agent_runtime.py:1192-1203, final_response_synthesizer.py:213).  Only  *)
(* a grounded response can establish that the goal was reached (1093).     *)
GroundedOutputIsReal ==
  final.grounded =>
    /\ final.text # {}
    /\ final.text \subseteq Range(direct) \union stdout
    /\ \A result \in final.text :
         /\ result.step \in Range(plan)
         /\ result.way = "placeholder" =>
              [result EXCEPT !.way = "raw"] \in stdout

(* Every execution ends, with a record or an error, and its copy of the    *)
(* skill is gone: a failed fixture, a missing tool and a broken log too    *)
(* (agent.py:170-200).                                                     *)
RunEndsClean ==
  <>[](stage = "ended" /\ outcome # "none" /\ sandbox # "present")
=============================================================================
