---------------------------- MODULE AgentRunProofs ----------------------------
(***************************************************************************)
(* One execution of a skill, for any skill, plan, isolation and answers of   *)
(* the model: what counts as grounded output was really produced by a tool   *)
(* of a planned step, no execution ends beside its copy, a plan takes one    *)
(* side of a repaired action, and the trace tells what ran.                  *)
(***************************************************************************)
EXTENDS AgentRun, SharedFacts

Early == {"copy", "fixtures", "planning"}
AtStep == {"local", "call", "running", "endStep"}

\* The same call's own writing to stdout.
RawOf(result) == [result EXCEPT !.way = "raw"]

\* Every result is one of a step of the plan, and the words "Executed ..."
\* are no output and stand for what a process wrote.
ResultsInv ==
  /\ \A result \in Range(direct) \union stdout : result.step \in Range(plan)
  /\ \A result \in stdout : result.way # "placeholder"
  /\ \A result \in Range(direct) :
       result.way = "placeholder" => RawOf(result) \in stdout

DirectInv ==
  /\ direct \in Seq(Range(direct))
  /\ ResultsInv
  /\ stage \in Early => direct = <<>> /\ stdout = {}
  /\ stage \in AtStep => position \in DOMAIN plan

FinalInv ==
  final.grounded =>
    final.text # {} /\ final.text \subseteq Range(direct) \union stdout

\* Nothing but the synthesis answers, and no tool runs after it.
AnswerInv ==
  /\ stage \notin {"cleanup", "ended"} => final.text = {} /\ ~final.grounded

\* The copy exists until it is removed, and only an outcome ends a run.
CopyInv ==
  /\ stage = "copy" => sandbox = "none"
  /\ stage = "ended" => sandbox # "present"
  /\ stage \in {"cleanup", "ended"} => outcome # "none"

IInv == DirectInv /\ FinalInv /\ AnswerInv /\ CopyInv

(* No execution ends beside its copy of the skill or without an outcome.     *)
EndsClean == stage = "ended" => sandbox # "present" /\ outcome # "none"

-----------------------------------------------------------------------------
(* One more result.                                                         *)

LEMMA AppendRange ==
  ASSUME NEW s, s \in Seq(Range(s)), NEW e
  PROVE  /\ Append(s, e) \in Seq(Range(Append(s, e)))
         /\ Range(Append(s, e)) = Range(s) \union {e}
<1>  DEFINE S == Range(s) \union {e}
            t == Append(s, e)
<1>1. s \in Seq(S) /\ e \in S
  BY DEF Range
<1>2. /\ Len(s) \in Nat /\ DOMAIN s = 1..Len(s)
      /\ t \in Seq(S) /\ Len(t) = Len(s) + 1 /\ DOMAIN t = 1..(Len(s) + 1)
      /\ \A k \in 1..Len(s) : t[k] = s[k]
      /\ t[Len(s) + 1] = e
  BY <1>1
<1>3. Range(t) = S
  <2>1. ASSUME NEW x \in S PROVE x \in Range(t)
    BY <1>2, <2>1 DEF Range
  <2>2. ASSUME NEW x \in Range(t) PROVE x \in S
    BY <1>2, <2>2 DEF Range
  <2>  QED  BY <2>1, <2>2
<1>  QED  BY <1>2, <1>3

LEMMA LastInRange ==
  ASSUME NEW s, s \in Seq(Range(s)), s # <<>>
  PROVE  Last(s) \in Range(s)
<1>  DEFINE S == Range(s)
<1>1. s \in Seq(S) /\ Len(s) \in DOMAIN s
  OBVIOUS
<1>  QED  BY <1>1 DEF Last, Range

-----------------------------------------------------------------------------
LEMMA InitIInv == Init => IInv
<1>  SUFFICES ASSUME Init PROVE IInv
  OBVIOUS
<1>1. direct = <<>> /\ stdout = {} /\ stage = "copy" /\ sandbox = "none"
      /\ final = [text |-> {}, grounded |-> FALSE]
  BY DEF Init, NoText
<1>2. DirectInv
  <2>1. Range(direct) = {} /\ direct \in Seq({})
    BY <1>1 DEF Range
  <2>  QED  BY <1>1, <2>1 DEF DirectInv, ResultsInv, AtStep
<1>  QED  BY <1>1, <1>2 DEF IInv, FinalInv, AnswerInv, CopyInv

\* A step that neither plans nor records a result.
LEMMA QuietStep ==
  ASSUME IInv, UNCHANGED <<plan, direct, stdout, final>>,
         stage' \in Early => stage \in Early,
         stage' \in AtStep => position' \in DOMAIN plan,
         stage' \notin {"cleanup", "ended"} => stage \notin {"cleanup", "ended"},
         CopyInv'
  PROVE  IInv'
  BY DEF IInv, DirectInv, ResultsInv, FinalInv, AnswerInv

\* A tool adds its results, of the step and the request it runs for.
LEMMA ResultsStep ==
  ASSUME IInv, stage = "running",
         UNCHANGED <<plan, position, final, outcome, sandbox>>,
         stage' \in {"endStep", "call"}, NEW raw \in BOOLEAN, NEW printed,
         printed \subseteq {Result("printed")},
         stdout' = stdout \union Raw(raw) \union printed,
         NEW told, told \in {"none", "printed", "returned", "placeholder"},
         told = "placeholder" => raw,
         direct' = IF told = "none" THEN direct ELSE Append(direct, Result(told))
  PROVE  IInv'
<1>1. /\ DirectInv /\ position \in DOMAIN plan
      /\ final.text = {} /\ ~final.grounded
  BY DEF IInv, DirectInv, AnswerInv, AtStep
<1>2. Step \in Range(plan)
  BY <1>1 DEF Step, Range
<1>3. /\ \A way : Result(way).step = Step /\ Result(way).way = way
      /\ RawOf(Result("placeholder")) = Result("raw")
  BY DEF Result, RawOf
<1>4. /\ direct' \in Seq(Range(direct'))
      /\ Range(direct') = Range(direct) \union (IF told = "none" THEN {}
                                                 ELSE {Result(told)})
  <2>1. direct \in Seq(Range(direct))
    BY <1>1 DEF DirectInv
  <2>2. CASE told = "none"
    BY <2>1, <2>2
  <2>3. CASE told # "none"
    <3>1. direct' = Append(direct, Result(told))
      BY <2>3
    <3>  QED  BY <2>1, <2>3, <3>1, AppendRange
  <2>  QED  BY <2>2, <2>3
<1>5. stdout \subseteq stdout' /\ stdout' \subseteq stdout \union {Result("raw"), Result("printed")}
      /\ (raw => Result("raw") \in stdout')
  BY DEF Raw
<1>6. ResultsInv'
  <2>1. \A result \in Range(direct)' \union stdout' : result.step \in Range(plan)
    BY <1>1, <1>2, <1>3, <1>4, <1>5 DEF DirectInv, ResultsInv
  <2>2. \A result \in stdout' : result.way # "placeholder"
    BY <1>1, <1>3, <1>5 DEF DirectInv, ResultsInv
  <2>3. ASSUME NEW result \in Range(direct)', result.way = "placeholder"
        PROVE  RawOf(result) \in stdout'
    <3>1. CASE result \in Range(direct)
      BY <1>1, <1>5, <2>3, <3>1 DEF DirectInv, ResultsInv
    <3>2. CASE result = Result(told)
      BY <1>3, <1>5, <2>3, <3>2
    <3>  QED  BY <1>4, <2>3, <3>1, <3>2
  <2>  QED  BY <2>1, <2>2, <2>3 DEF ResultsInv
<1>7. DirectInv'
  BY <1>1, <1>4, <1>6 DEF DirectInv, Early
<1>8. FinalInv' /\ AnswerInv' /\ CopyInv'
  BY <1>1 DEF FinalInv, AnswerInv, CopyInv
<1>  QED  BY <1>7, <1>8 DEF IInv

LEMMA ReturnStep ==
  ASSUME IInv, ToolReturns
  PROVE  IInv'
<1>1. PICK failed \in BOOLEAN, output \in Outputs(Call.tool),
           raw \in RawOutputs(Call.tool),
           events \in IF Call.tool = "node" THEN Coverage ELSE {buffer} :
         Observed(Call, failed, events, output, raw)
  BY DEF ToolReturns
<1>  DEFINE told == Direct(output, raw)
            printed == IF output = "printed" THEN {Result(output)} ELSE {}
<1>2. /\ stage = "running" /\ stage' \in {"endStep", "call"}
      /\ UNCHANGED <<plan, position, final, outcome, sandbox>>
      /\ direct' = IF told = "none" THEN direct ELSE Append(direct, Result(told))
      /\ stdout' = stdout \union Raw(raw) \union printed
  BY <1>1 DEF ToolReturns, Observed, NextCall, planVars
<1>3. /\ told \in {"none", "printed", "returned", "placeholder"}
      /\ told = "placeholder" => raw
      /\ printed \subseteq {Result("printed")} /\ raw \in BOOLEAN
  BY DEF Direct, Outputs, RawOutputs
<1>  HIDE DEF told, printed
<1>  QED  BY <1>2, <1>3, ResultsStep

LEMMA LostStep ==
  ASSUME IInv, ToolResultLost
  PROVE  IInv'
<1>1. PICK raw \in RawOutputs(Call.tool) : stdout' = stdout \union Raw(raw)
  BY DEF ToolResultLost
<1>  DEFINE printed == {}
            told == "none"
<1>2. /\ stage = "running" /\ stage' \in {"endStep", "call"}
      /\ UNCHANGED <<plan, position, final, outcome, sandbox>>
      /\ direct' = IF told = "none" THEN direct ELSE Append(direct, Result(told))
      /\ stdout' = stdout \union Raw(raw) \union printed
  BY <1>1 DEF ToolResultLost, NextCall, planVars
<1>3. /\ told \in {"none", "printed", "returned", "placeholder"}
      /\ told = "placeholder" => raw
      /\ printed \subseteq {Result("printed")} /\ raw \in BOOLEAN
  BY DEF RawOutputs
<1>  HIDE DEF told, printed
<1>  QED  BY <1>2, <1>3, ResultsStep

LEMMA RespondStep ==
  ASSUME IInv, stage = "synthesis", NEW response, Respond(response),
         response.grounded =>
           response.text # {} /\ response.text \subseteq Range(direct) \union stdout
  PROVE  IInv'
<1>1. /\ UNCHANGED <<plan, position, direct, stdout, sandbox>>
      /\ stage' = "cleanup" /\ outcome' = "record" /\ final' = response
  BY DEF Respond, planVars, stepVars, evidence
<1>2. DirectInv'
  BY <1>1 DEF IInv, DirectInv, ResultsInv, Early, AtStep
<1>  QED  BY <1>1, <1>2 DEF IInv, FinalInv, AnswerInv, CopyInv

LEMMA SynthesisStep ==
  ASSUME IInv, WithoutModel \/ ByModel \/ NoAcceptedResponse
  PROVE  IInv'
<1>1. direct # <<>> => Last(direct) \in Range(direct)
  BY LastInRange DEF IInv, DirectInv
<1>2. \A text \in DirectTexts :
        text # {} /\ text \subseteq Range(direct) \union stdout
  BY DEF DirectTexts
<1>3. CASE WithoutModel
  BY <1>1, <1>3, RespondStep DEF WithoutModel
<1>4. CASE ByModel
  <2>1. CASE direct # <<>> \/ stdout # {}
    BY <1>2, <1>4, <2>1, RespondStep DEF ByModel
  <2>2. CASE ~(direct # <<>> \/ stdout # {})
    BY <1>4, <2>2, RespondStep DEF ByModel
  <2>  QED  BY <2>1, <2>2
<1>5. CASE NoAcceptedResponse
  BY <1>5, RespondStep DEF NoAcceptedResponse
<1>  QED  BY <1>3, <1>4, <1>5

LEMMA StepIInv == IInv /\ [Next]_vars => IInv'
<1>  SUFFICES ASSUME IInv, [Next]_vars PROVE IInv'
  OBVIOUS
<1>  USE DEF CopyInv, Early, AtStep
<1>0. CopyInv /\ (stage \in AtStep => position \in DOMAIN plan)
  BY DEF IInv, DirectInv
<1>1. CASE CopySkill \/ CopyFails
  BY <1>0, <1>1, QuietStep DEF CopySkill, CopyFails, planVars, evidence
<1>2. CASE Fixture \/ RequiredFixtureFails \/ FixturesDone
  BY <1>0, <1>2, QuietStep
  DEF Fixture, RequiredFixtureFails, FixturesDone, Raise, planVars, evidence
<1>3. CASE PlanByModel \/ PlanByFallback
  <2>1. /\ stage = "planning" /\ stage' = "step"
        /\ UNCHANGED <<direct, stdout, final, sandbox, outcome>>
    BY <1>3 DEF PlanByModel, PlanByFallback, Planned, evidence
  <2>2. Range(direct) = {} /\ direct = <<>> /\ stdout = {}
    BY <2>1 DEF IInv, DirectInv, Range
  <2>  QED  BY <2>1, <2>2 DEF IInv, DirectInv, ResultsInv, FinalInv, AnswerInv
<1>4. CASE ModelRaises
  BY <1>0, <1>4, QuietStep DEF ModelRaises, Raise, planVars, evidence
<1>5. CASE BeginStep \/ NoToolForTarget
  BY <1>0, <1>5, QuietStep
  DEF BeginStep, NoToolForTarget, Raise, planVars, evidence
<1>6. CASE ActLocally \/ NothingToDoLocally
  BY <1>0, <1>6, QuietStep
  DEF ActLocally, NothingToDoLocally, planVars, stepVars, evidence
<1>7. CASE StartTool \/ ToolBlocked
  BY <1>0, <1>7, QuietStep
  DEF StartTool, ToolBlocked, NextCall, planVars, stepVars, evidence
<1>8. CASE PerformOperation \/ PassOperation
  BY <1>0, <1>8, QuietStep
  DEF PerformOperation, PassOperation, planVars, stepVars, evidence
<1>9. CASE ToolReturns
  BY <1>9, ReturnStep
<1>10. CASE ToolResultLost
  BY <1>10, LostStep
<1>11. CASE EndStep \/ StepsDone
  BY <1>0, <1>11, QuietStep DEF EndStep, StepsDone, planVars, stepVars, evidence
<1>12. CASE WithoutModel \/ ByModel \/ NoAcceptedResponse
  BY <1>12, SynthesisStep
<1>13. CASE RemoveSandbox
  BY <1>0, <1>13, QuietStep DEF RemoveSandbox, planVars, stepVars, evidence
<1>14. CASE UNCHANGED vars
  BY <1>0, <1>14, QuietStep DEF vars, planVars, stepVars, evidence
<1>  QED
  BY <1>1, <1>2, <1>3, <1>4, <1>5, <1>6, <1>7, <1>8, <1>9, <1>10, <1>11, <1>12,
     <1>13, <1>14 DEF Next

-----------------------------------------------------------------------------
(* What the planner may select.                                             *)

\* The nodes of the instruction layer: the entry, and what an edge leads to.
Nodes(s) == {ENTRY} \union {Target(e) : e \in Range(InstructionEdges(s))}

LEMMA EdgesAreSequence ==
  ASSUME NEW s \in AgentSkills
  PROVE  InstructionEdges(s) \in Seq(Range(InstructionEdges(s)))
<1>  DEFINE D == Range(s.steps)
            E == Range(s.links) \union ((D \union {ENTRY}) \X (D \union {EXIT}))
            toExit(ns) == [i \in DOMAIN ns |-> <<ns[i], EXIT>>]
            roots == Roots(s)
            leaves == Leaves(s)
            falseExits == Filter(s.steps, s.falseExit)
<1>1. s.steps \in Seq(D) /\ s.links \in Seq(Range(s.links))
  BY AgentSkillsAssumption
<1>2. \A S : Filter(s.steps, S) \in Seq(D)
  <2>  HIDE DEF D
  <2>1. \A S : \A u \in Seq(D) : Filter(u, S) \in Seq(D)
    BY FilterAppend
  <2>  QED  BY <1>1, <2>1
<1>3. roots \in Seq(D) /\ leaves \in Seq(D) /\ falseExits \in Seq(D)
  <2>  HIDE DEF D
  <2>  QED  BY <1>1, <1>2 DEF Roots, Leaves
<1>4. \A ns \in Seq(D) : toExit(ns) \in Seq(E)
  <2>  TAKE ns \in Seq(D)
  <2>1. toExit(ns) = [i \in 1..Len(ns) |-> <<ns[i], EXIT>>] /\ \A i \in 1..Len(ns) : ns[i] \in D
    OBVIOUS
  <2>2. \A i \in 1..Len(ns) : <<ns[i], EXIT>> \in E
    BY <2>1
  <2>  HIDE DEF E, D
  <2>  QED  BY <2>1, <2>2
<1>5. [i \in DOMAIN roots |-> <<ENTRY, roots[i]>>] \in Seq(E)
  <2>1. \A ns \in Seq(D) : [i \in DOMAIN ns |-> <<ENTRY, ns[i]>>] \in Seq(E)
    <3>  TAKE ns \in Seq(D)
    <3>1. [i \in DOMAIN ns |-> <<ENTRY, ns[i]>>] = [i \in 1..Len(ns) |-> <<ENTRY, ns[i]>>]
          /\ \A i \in 1..Len(ns) : ns[i] \in D
      OBVIOUS
    <3>2. \A i \in 1..Len(ns) : <<ENTRY, ns[i]>> \in E
      BY <3>1
    <3>  HIDE DEF E, D
    <3>  QED  BY <3>1, <3>2
  <2>  HIDE DEF roots, E, D
  <2>  QED  BY <1>3, <2>1
<1>6. s.links \in Seq(E)
  <2>1. Range(s.links) \subseteq E
    OBVIOUS
  <2>  HIDE DEF E
  <2>  QED  BY <1>1, <2>1
<1>7. CASE s.steps = <<>>
  <2>1. InstructionEdges(s) = << <<ENTRY, EXIT>> >>
    BY <1>7 DEF InstructionEdges
  <2>  QED  BY <2>1 DEF Range
<1>8. CASE s.steps # <<>>
  <2>1. InstructionEdges(s) = ((s.links \o toExit(falseExits))
                                 \o [i \in DOMAIN roots |-> <<ENTRY, roots[i]>>])
                                 \o toExit(leaves)
    BY <1>8 DEF InstructionEdges
  <2>  DEFINE es == InstructionEdges(s)
  <2>2. es \in Seq(E)
    <3>1. toExit(falseExits) \in Seq(E) /\ toExit(leaves) \in Seq(E)
      <4>  HIDE DEF falseExits, leaves, toExit, E, D
      <4>  QED  BY <1>3, <1>4
    <3>  HIDE DEF toExit, roots, leaves, falseExits, E, D
    <3>  QED  BY <2>1, <3>1, <1>5, <1>6
  <2>  HIDE DEF es, E
  <2>3. es \in Seq(Range(es))
    BY <2>2 DEF Range
  <2>  QED  BY <2>3 DEF es
<1>  QED  BY <1>7, <1>8

LEMMA TargetsAreNodes ==
  ASSUME skill \in AgentSkills, NEW n
  PROVE  InstructionTargets(n) \subseteq Nodes(skill)
<1>  DEFINE es == InstructionEdges(skill)
            fromN == Filter(es, {e \in Range(es) : e[1] = n})
<1>1. es \in Seq(Range(es))
  BY EdgesAreSequence
<1>2. ToSet(fromN) \subseteq Range(es)
  <2>  HIDE DEF es
  <2>1. \A S : ToSet(Filter(es, S)) = ToSet(es) \cap S
    BY <1>1, FilterElements
  <2>2. ToSet(fromN) \subseteq ToSet(es)
    BY <2>1
  <2>  HIDE DEF fromN
  <2>  QED  BY <2>2 DEF Range, ToSet
<1>3. TargetsOf(es, n) = [i \in DOMAIN fromN |-> Target(fromN[i])]
  BY DEF TargetsOf
<1>  HIDE DEF fromN, es
<1>4. Range(TargetsOf(es, n)) \subseteq {Target(e) : e \in Range(es)}
  BY <1>2, <1>3 DEF Range, ToSet
<1>  QED  BY <1>4 DEF InstructionTargets, Nodes, es

\* Whatever the bound, a path is a sequence of nodes.
LEMMA PathsAreSequences ==
  ASSUME skill \in AgentSkills
  PROVE  Paths \subseteq Seq(Nodes(skill))
<1>  DEFINE Y == Nodes(skill)
            U == SUBSET Seq(Y)
            N == MaxPathNodes
            n == N - 1
            Ends(p) == Last(p) = EXIT \/ InstructionTargets(Last(p)) = {}
            Longer(p) == {Append(p, m) : m \in InstructionTargets(Last(p)) \ Range(p)}
            step(A) == UNION {Longer(p) : p \in {q \in A : ~Ends(q)}}
            op == [m \in 1..n |-> [A \in U |-> step(A)]]
            base == {<<ENTRY>>}
            Eq(h) == h = [k \in 1..N |->
                            IF k = 1 THEN {<<ENTRY>>}
                                     ELSE UNION {Longer(p) : p \in {q \in h[k - 1] : ~Ends(q)}}]
            ofLength == CHOOSE h : Eq(h)
<1>1. N \in Nat \ {0} /\ n \in Nat
  BY MaxPathNodesAssumption
<1>2. \A A \in U : step(A) \in U
  <2>1. ASSUME NEW A \in U, NEW x \in step(A) PROVE x \in Seq(Y)
    <3>1. PICK p \in A : x \in Longer(p)
      OBVIOUS
    <3>2. PICK m \in InstructionTargets(Last(p)) : x = Append(p, m)
      BY <3>1
    <3>3. p \in Seq(Y) /\ m \in Y
      BY <3>2, TargetsAreNodes
    <3>  HIDE DEF Y
    <3>  QED  BY <3>2, <3>3
  <2>  QED  BY <2>1
<1>3. base \in U
  <2>1. ENTRY \in Y
    BY DEF Nodes
  <2>  HIDE DEF Y
  <2>2. <<ENTRY>> \in Seq(Y)
    BY <2>1
  <2>  QED  BY <2>2
<1>  HIDE DEF step
<1>4. op \in [1..n -> [U -> U]] /\ \A A \in U, m \in 1..n : op[m][A] = step(A)
  <2>1. [A \in U |-> step(A)] \in [U -> U]
    <3>  HIDE DEF U
    <3>  QED  BY <1>2
  <2>  HIDE DEF U, n
  <2>  QED  BY <2>1
<1>5. PICK f \in [0..n -> U] : f[0] = base /\ \A m \in 1..n : f[m] = op[m][f[m - 1]]
  <2>1. n \in Nat /\ op \in [1..n -> [U -> U]] /\ base \in U
    BY <1>1, <1>3, <1>4
  <2>  HIDE DEF op, U, n, base
  <2>  QED  BY ONLY <2>1, PrimitiveRecursion
<1>6. \A m \in 1..n : m - 1 \in 0..n /\ f[m] = step(f[m - 1])
  <2>  SUFFICES ASSUME NEW m \in 1..n PROVE m - 1 \in 0..n /\ f[m] = step(f[m - 1])
    OBVIOUS
  <2>1. m - 1 \in 0..n
    BY <1>1
  <2>  HIDE DEF op, U, n
  <2>2. f[m - 1] \in U
    BY <2>1
  <2>  QED  BY <2>1, <2>2, <1>4, <1>5
<1>  HIDE DEF op
<1>7. Eq(ofLength)
  <2>  DEFINE g == [k \in 1..N |-> f[k - 1]]
  <2>1. ASSUME NEW k \in 1..N
        PROVE  g[k] = IF k = 1 THEN {<<ENTRY>>}
                      ELSE UNION {Longer(p) : p \in {q \in g[k - 1] : ~Ends(q)}}
    <3>1. CASE k = 1
      BY <3>1, <1>5
    <3>2. CASE k # 1
      <4>1. k - 1 \in 1..n /\ k - 1 \in 1..N
        BY <3>2, <1>1
      <4>2. g[k] = f[k - 1] /\ g[k - 1] = f[(k - 1) - 1]
        BY <4>1
      <4>3. g[k] = step(g[k - 1])
        BY <1>6, <4>1, <4>2
      <4>  QED  BY <3>2, <4>3 DEF step
    <3>  QED  BY <3>1, <3>2
  <2>2. Eq(g)
    <3>1. g = [k \in 1..N |-> g[k]]
      OBVIOUS
    <3>  HIDE DEF g, Longer, Ends
    <3>  QED  BY <2>1, <3>1
  <2>3. \E h : Eq(h)
    BY <2>2
  <2>  HIDE DEF Eq
  <2>  QED  BY <2>3
<1>8. \A k \in 1..N : ofLength[k] = IF k = 1 THEN base ELSE step(ofLength[k - 1])
  <2>  HIDE DEF ofLength, Longer, Ends
  <2>  QED  BY <1>7 DEF step
<1>9. Paths = {p \in UNION {ofLength[k] : k \in 1..N} : Ends(p)}
  BY DEF Paths
<1>  HIDE DEF ofLength, Eq, base, Ends, Longer
<1>10. \A m \in 0..n : ofLength[m + 1] \in U
  <2>  DEFINE T == {m \in 0..n : ofLength[m + 1] \in U}
  <2>1. 0 \in T
    <3>1. ofLength[1] = base
      BY <1>1, <1>8
    <3>  HIDE DEF U
    <3>  QED  BY <1>1, <1>3, <3>1
  <2>2. ASSUME NEW m \in 1..n, m - 1 \in T PROVE m \in T
    <3>1. m + 1 \in 1..N /\ m + 1 # 1 /\ (m + 1) - 1 = m /\ (m - 1) + 1 = m /\ m \in 0..n
      BY <1>1
    <3>2. ofLength[m] \in U
      BY <2>2, <3>1
    <3>3. ofLength[m + 1] = step(ofLength[m])
      BY <1>8, <3>1
    <3>  HIDE DEF U
    <3>  QED  BY <1>2, <3>1, <3>2, <3>3
  <2>3. \A m \in 0..n : m \in T
    <3>  HIDE DEF T, n
    <3>  QED  BY <1>1, <2>1, <2>2, InductionUpTo
  <2>  QED  BY <2>3
<1>11. \A k \in 1..N : ofLength[k] \subseteq Seq(Y)
  <2>1. \A k \in 1..N : k - 1 \in 0..n /\ (k - 1) + 1 = k
    BY <1>1
  <2>  HIDE DEF Y, N, n
  <2>  QED  BY <1>10, <2>1
<1>12. Paths \subseteq Seq(Y)
  <2>  HIDE DEF Y, N
  <2>  QED  BY <1>9, <1>11
<1>  QED  BY <1>12

LEMMA LlmPlansAreSafe ==
  ASSUME skill \in AgentSkills, NEW p \in LlmPlans
  PROVE  /\ Range(p) \subseteq Range(skill.steps)
         /\ Range(p) \cap Allowed = {} \/ Range(p) \cap Safe = {}
<1>  DEFINE D == Range(skill.steps)
            anyOrder == UNION {SetToSeqs(S) : S \in SUBSET D}
<1>1. p \in ValidPaths \/ p \in anyOrder
  BY DEF LlmPlans
<1>2. Range(p) \cap Allowed = {} \/ Range(p) \cap Safe = {}
  BY DEF LlmPlans
<1>3. CASE p \in ValidPaths
  <2>1. PICK q \in Paths : p = StepsOf(q)
    BY <1>3 DEF ValidPaths
  <2>2. q \in Seq(Nodes(skill))
    BY <2>1, PathsAreSequences
  <2>3. \A S : ToSet(Filter(q, S)) = ToSet(q) \cap S
    BY <2>2, FilterElements
  <2>4. ToSet(p) \subseteq D
    BY <2>1, <2>3 DEF StepsOf
  <2>  QED  BY <1>2, <2>4 DEF Range, ToSet
<1>4. CASE p \in anyOrder
  <2>1. PICK S \in SUBSET D : p \in SetToSeqs(S)
    BY <1>4
  <2>2. p \in [1..Cardinality(S) -> S]
    BY <2>1 DEF SetToSeqs
  <2>3. Range(p) \subseteq S
    BY <2>2 DEF Range
  <2>  QED  BY <1>2, <2>1, <2>3
<1>  QED  BY <1>1, <1>3, <1>4

LEMMA FallbackPlansAreSafe ==
  ASSUME skill \in AgentSkills, NEW p \in FallbackPlans
  PROVE  Range(p) \subseteq Range(skill.steps) /\ Range(p) \cap Allowed = {}
<1>  DEFINE D == Range(skill.steps)
            rest == D \ Allowed
            Materialized(q) == Filter(StepsOf(q), rest)
            safeOnly == {q \in Paths : /\ Range(q) \cap Safe # {}
                                       /\ Range(q) \cap Allowed = {}}
            eligible == IF Allowed # {} /\ safeOnly # {} THEN safeOnly ELSE Paths
            OrFull(q) == IF q = <<>> THEN FullPlan ELSE q
<1>1. \A X : \A s \in Seq(X) : \A S : /\ ToSet(Filter(s, S)) = ToSet(s) \cap S
                                     /\ Filter(s, S) \in Seq(X)
  BY FilterElements, FilterAppend
<1>2. skill.steps \in Seq(D)
  BY AgentSkillsAssumption
<1>3. ToSet(FullPlan) \subseteq rest
  <2>  HIDE DEF D, rest
  <2>1. ToSet(Filter(skill.steps, rest)) \subseteq rest
    BY <1>1, <1>2
  <2>  QED  BY <2>1 DEF FullPlan, rest, D
<1>4. ASSUME NEW q \in Paths PROVE ToSet(Materialized(q)) \subseteq rest
  <2>1. q \in Seq(Nodes(skill))
    BY PathsAreSequences
  <2>2. StepsOf(q) \in Seq(Nodes(skill))
    BY <1>1, <2>1 DEF StepsOf
  <2>  HIDE DEF rest
  <2>  QED  BY <1>1, <2>2
<1>5. p = FullPlan \/ \E q \in Paths : p = Materialized(q)
  <2>1. FallbackPlans = IF eligible = {} THEN {FullPlan}
                        ELSE {OrFull(Materialized(q)) : q \in eligible}
    BY DEF FallbackPlans
  <2>2. eligible \subseteq Paths
    OBVIOUS
  <2>  HIDE DEF eligible, Materialized
  <2>  QED  BY <2>1, <2>2
<1>  HIDE DEF Materialized
<1>6. ToSet(p) \subseteq rest
  BY <1>3, <1>4, <1>5
<1>  QED  BY <1>6 DEF Range, ToSet

-----------------------------------------------------------------------------
(* What is done is done by a step of the plan.                              *)

PlanInv ==
  /\ skill \in AgentSkills
  /\ Range(plan) \subseteq Range(skill.steps)
  /\ planner = "fallback" => Range(plan) \cap Allowed = {}
  /\ Range(plan) \cap Allowed = {} \/ Range(plan) \cap Safe = {}
  /\ Acted \subseteq Range(plan)
  /\ stage \in Early => performed = {}

LEMMA InitPlan == Init => PlanInv
<1>  SUFFICES ASSUME Init PROVE PlanInv
  OBVIOUS
<1>1. plan = <<>> /\ performed = {} /\ planner = "none" /\ skill \in AgentSkills
  BY DEF Init
<1>2. Range(plan) = {}
  BY <1>1 DEF Range
<1>  QED  BY <1>1, <1>2 DEF PlanInv, Acted

\* The actions that plan, and those that act.
Quiet ==
  /\ UNCHANGED <<skill, plan, planner, performed>>
  /\ stage' \in Early => stage \in Early

LEMMA WhoPlansAndActs ==
  ASSUME [Next]_vars
  PROVE  \/ PlanByModel \/ PlanByFallback \/ ActLocally \/ PerformOperation
         \/ Quiet
<1>  USE DEF Quiet, Early, fixed, planVars, evidence
<1>1. CASE CopySkill \/ CopyFails
  BY <1>1 DEF CopySkill, CopyFails
<1>2. CASE Fixture \/ RequiredFixtureFails \/ FixturesDone
  BY <1>2 DEF Fixture, RequiredFixtureFails, FixturesDone, Raise
<1>3. CASE ModelRaises \/ BeginStep \/ NoToolForTarget \/ NothingToDoLocally
  BY <1>3 DEF ModelRaises, BeginStep, NoToolForTarget, NothingToDoLocally, Raise
<1>4. CASE StartTool \/ ToolBlocked \/ ToolReturns \/ ToolResultLost
  BY <1>4 DEF StartTool, ToolBlocked, ToolReturns, Observed, ToolResultLost, NextCall
<1>5. CASE PassOperation \/ EndStep \/ StepsDone \/ RemoveSandbox
  BY <1>5 DEF PassOperation, EndStep, StepsDone, RemoveSandbox
<1>6. CASE WithoutModel \/ ByModel \/ NoAcceptedResponse
  BY <1>6 DEF WithoutModel, ByModel, NoAcceptedResponse, Respond
<1>7. CASE UNCHANGED vars
  BY <1>7 DEF vars
<1>  QED  BY <1>1, <1>2, <1>3, <1>4, <1>5, <1>6, <1>7 DEF Next

LEMMA StepPlan == IInv /\ PlanInv /\ [Next]_vars => PlanInv'
<1>  SUFFICES ASSUME IInv, PlanInv, [Next]_vars PROVE PlanInv'
  OBVIOUS
<1>  USE DEF Allowed, Safe, Acted
<1>1. CASE PlanByModel \/ PlanByFallback
  <2>1. /\ stage = "planning" /\ stage' = "step" /\ UNCHANGED <<skill, performed>>
        /\ \/ plan' \in LlmPlans /\ planner' = "llm"
           \/ plan' \in FallbackPlans /\ planner' = "fallback"
    BY <1>1 DEF PlanByModel, PlanByFallback, Planned, fixed, evidence
  <2>2. performed = {} /\ skill \in AgentSkills
    BY <2>1 DEF PlanInv, Early
  <2>3. plan' \in LlmPlans =>
          /\ Range(plan') \subseteq Range(skill.steps)
          /\ Range(plan') \cap Allowed = {} \/ Range(plan') \cap Safe = {}
    BY <2>2, LlmPlansAreSafe
  <2>4. plan' \in FallbackPlans =>
          Range(plan') \subseteq Range(skill.steps) /\ Range(plan') \cap Allowed = {}
    BY <2>2, FallbackPlansAreSafe
  <2>  QED  BY <2>1, <2>2, <2>3, <2>4 DEF PlanInv, Early
<1>2. CASE ActLocally \/ PerformOperation
  <2>1. /\ stage \in AtStep /\ stage' \notin Early
        /\ UNCHANGED <<skill, plan, planner>>
    BY <1>2 DEF ActLocally, PerformOperation, fixed, planVars, AtStep, Early
  <2>2. \E node : performed' = performed \union {[step |-> Step, node |-> node]}
    BY <1>2 DEF ActLocally, PerformOperation
  <2>3. Step \in Range(plan)
    BY <2>1 DEF IInv, DirectInv, Step, Range
  <2>  QED  BY <2>1, <2>2, <2>3 DEF PlanInv
<1>3. CASE Quiet
  BY <1>3 DEF PlanInv, Quiet
<1>  QED  BY <1>1, <1>2, <1>3, WhoPlansAndActs

-----------------------------------------------------------------------------
(* What the events of a tool are attributed to.                             *)

\* An event that a tool may record of its script.
Heard(call, event) ==
  /\ event.op \in Range(call.ops)
  /\ event.type = "operation" =>
       call.tool = "python" /\ event.shown = event.op.mark
  /\ event.type = "command" =>
       /\ call.tool \in {"shell", "inline"}
       /\ event.shown \in event.op.shows /\ event.shown # Silent

\* What an entry of the trace may be attributed to.
Attribution(entry) ==
  \/ entry.node \in {"none", entry.ran}
  \/ entry.type = "command" /\ MayBeTakenFor(entry.ran, entry.node)

LEMMA AttributionStays ==
  ASSUME skill' = skill, NEW entry
  PROVE  Attribution(entry)' <=> Attribution(entry)
  BY DEF Attribution, MayBeTakenFor, Requests

\* An entry of the trace that an event leaves.
Tells(entry, event) ==
  /\ entry.type = event.type /\ entry.ran = event.op.node
  /\ event.type \in {"operation", "command"} => Attribution(entry)

\* An operation stands for itself or for nothing, a command also for one of
\* its line that reads as its expanded words do.
LEMMA MatchedFacts ==
  ASSUME skill \in AgentSkills, NEW call \in Requests(skill), NEW event,
         Heard(call, event)
  PROVE  /\ Matched(event, NodesOfCall(call)) \subseteq Range(call.ops)
         /\ event.type = "operation" =>
              Matched(event, NodesOfCall(call)) \subseteq {event.op}
         /\ event.type = "command" =>
              \A n \in Matched(event, NodesOfCall(call)) :
                \/ n = event.op
                \/ /\ call.tool = "shell" /\ ~Literal(event.op)
                   /\ n.line = event.op.line /\ n.mark \in event.op.shows
<1>  DEFINE nodes == NodesOfCall(call)
            near == OnLineOf(event.op, nodes)
            sameKind == {n \in near : n.kind = event.op.kind}
            inPlace == {n \in sameKind : n.known /\ n.mark = event.shown}
            sameText == {n \in near : n.mark = event.shown}
            Sole(ns) == IF Cardinality(ns) = 1 THEN ns ELSE {}
            matched == Matched(event, nodes)
<1>1. matched = CASE event.type = "line" -> {n \in near : n.kind = "plain"}
                  [] event.type = "covered" -> {event.op}
                  [] event.type = "command" -> Sole(sameText)
                  [] OTHER -> IF inPlace = {} /\ \A n \in sameKind : ~n.known
                                THEN Sole(sameKind) ELSE Sole(inPlace)
  BY DEF Matched
<1>2. nodes \subseteq Range(call.ops) /\ near \subseteq nodes
  BY DEF NodesOfCall, OnLineOf
<1>3. /\ Sole(sameText) \subseteq near /\ Sole(sameKind) \subseteq near
      /\ Sole(inPlace) \subseteq near
  OBVIOUS
<1>4. matched \subseteq Range(call.ops)
  <2>1. {n \in near : n.kind = "plain"} \subseteq near
    OBVIOUS
  <2>  HIDE DEF matched, near, nodes, Sole, sameText, sameKind, inPlace
  <2>2. CASE event.type = "line"
    BY <1>1, <1>2, <2>1, <2>2
  <2>3. CASE event.type = "covered"
    BY <1>1, <2>3 DEF Heard
  <2>4. CASE event.type = "command"
    BY <1>1, <1>2, <1>3, <2>4
  <2>5. CASE event.type \notin {"line", "covered", "command"}
    BY <1>1, <1>2, <1>3, <2>5
  <2>  QED  BY <2>2, <2>3, <2>4, <2>5
<1>5. IsFiniteSet(Range(call.ops))
  <2>1. call.ops \in Seq(Range(call.ops))
    BY AgentSkillsAssumption
  <2>2. Range(call.ops) = ToSet(call.ops)
    BY DEF Range, ToSet
  <2>  QED  BY <2>1, <2>2, ElementsFinite
<1>6. ASSUME NEW ns \in SUBSET Range(call.ops), event.op \in ns
      PROVE  Sole(ns) \subseteq {event.op}
  <2>1. IsFiniteSet(ns)
    BY <1>5, FS_Subset
  <2>2. ASSUME NEW x \in Sole(ns) PROVE x = event.op
    <3>1. Cardinality(ns) = 1 /\ x \in ns
      BY <2>2
    <3>2. PICK y : ns = {y}
      BY <2>1, <3>1, FS_Singleton
    <3>  QED  BY <3>1, <3>2, <1>6
  <2>  QED  BY <2>2
<1>7. nodes = {} \/ event.op \in near
  BY DEF NodesOfCall, OnLineOf, Heard
<1>8. CASE nodes = {}
  <2>1. near = {}
    BY <1>2, <1>8
  <2>2. Sole(sameText) = {} /\ Sole(sameKind) = {} /\ Sole(inPlace) = {}
    BY <1>3, <2>1
  <2>  HIDE DEF matched, near, nodes, Sole, sameText, sameKind, inPlace
  <2>3. event.type \in {"operation", "command"} => matched = {}
    BY <1>1, <2>2
  <2>  QED  BY <1>4, <2>3 DEF matched, nodes
<1>9. CASE event.op \in near
  <2>1. sameKind \subseteq Range(call.ops) /\ event.op \in sameKind
    BY <1>2, <1>9
  <2>2. Sole(sameKind) \subseteq {event.op}
    BY <1>6, <2>1
  <2>3. event.type = "operation" => inPlace \subseteq {event.op}
    <3>1. ASSUME event.type = "operation", NEW x \in inPlace PROVE x = event.op
      <4>1. call.tool = "python"
        BY <3>1 DEF Heard
      <4>2. x \in Range(call.ops) /\ event.op \in Range(call.ops)
            /\ x.kind = event.op.kind /\ x.line = event.op.line /\ x.mark = event.op.mark
        BY <1>2, <3>1 DEF Heard, OnLineOf
      <4>  QED  BY <4>1, <4>2, AgentSkillsAssumption
    <3>  QED  BY <3>1
  <2>4. event.type = "operation" => Sole(inPlace) \subseteq {event.op}
    BY <2>3
  <2>5. ASSUME event.type = "command", NEW n \in Sole(sameText)
        PROVE  \/ n = event.op
               \/ /\ call.tool = "shell" /\ ~Literal(event.op)
                  /\ n.line = event.op.line /\ n.mark \in event.op.shows
    <3>1. /\ call.tool = "shell"
          /\ event.shown \in event.op.shows /\ event.shown # Silent
      BY <1>9, <2>5 DEF Heard, OnLineOf, NodesOfCall
    <3>2. n \in near /\ n.line = event.op.line /\ n.mark = event.shown
      BY <2>5 DEF OnLineOf
    <3>3. CASE Literal(event.op)
      <4>1. event.shown = event.op.mark
        BY <3>1, <3>3 DEF Literal
      <4>2. event.op \in sameText /\ sameText \subseteq Range(call.ops)
        BY <1>2, <1>9, <4>1
      <4>3. Sole(sameText) \subseteq {event.op}
        BY <1>6, <4>2
      <4>  QED  BY <2>5, <4>3
    <3>4. CASE ~Literal(event.op)
      BY <3>1, <3>2, <3>4
    <3>  QED  BY <3>3, <3>4
  <2>  HIDE DEF matched, near, nodes, Sole, sameText, sameKind, inPlace
  <2>6. event.type = "command" => matched = Sole(sameText)
    BY <1>1
  <2>7. event.type = "operation" => matched \subseteq {event.op}
    BY <1>1, <2>2, <2>4
  <2>  QED  BY <1>4, <2>5, <2>6, <2>7 DEF matched, nodes
<1>  QED  BY <1>7, <1>8, <1>9

LEMMA AttributedFacts ==
  ASSUME skill \in AgentSkills, NEW call \in Requests(skill), NEW event,
         Heard(call, event)
  PROVE  /\ Attributed(call, event) \in Seq(Range(Attributed(call, event)))
         /\ Range(Attributed(call, event)) # {}
         /\ \A entry \in Range(Attributed(call, event)) : Tells(entry, event)
<1>  DEFINE Entry(n) == [type |-> event.type, node |-> n, ran |-> event.op.node]
            matched == Matched(event, NodesOfCall(call))
            nodes == {n.node : n \in matched}
            ordered == SetToSeq(nodes)
            told == Attributed(call, event)
<1>1. told = IF nodes = {} THEN <<Entry("none")>>
             ELSE [i \in DOMAIN ordered |-> Entry(ordered[i])]
  BY DEF Attributed
<1>2. CASE nodes = {}
  <2>1. told = <<Entry("none")>> /\ Tells(Entry("none"), event)
    BY <1>1, <1>2 DEF Tells, Attribution
  <2>  HIDE DEF told, Entry
  <2>2. told \in Seq({Entry("none")}) /\ Range(told) = {Entry("none")}
    BY <2>1 DEF Range
  <2>  QED  BY <2>1, <2>2 DEF told
<1>3. CASE nodes # {}
  <2>1. /\ matched \subseteq Range(call.ops)
        /\ event.type = "operation" => matched \subseteq {event.op}
        /\ event.type = "command" =>
             \A n \in matched :
               \/ n = event.op
               \/ /\ call.tool = "shell" /\ ~Literal(event.op)
                  /\ n.line = event.op.line /\ n.mark \in event.op.shows
    BY MatchedFacts
  <2>2. IsFiniteSet(nodes)
    <3>1. call.ops \in Seq(Range(call.ops))
      BY AgentSkillsAssumption
    <3>2. IsFiniteSet(Range(call.ops))
      BY <3>1, ElementsFinite DEF Range, ToSet
    <3>3. IsFiniteSet(matched)
      BY <2>1, <3>2, FS_Subset
    <3>  DEFINE f == [n \in matched |-> n.node]
    <3>4. DOMAIN f = matched /\ nodes = {f[n] : n \in matched}
      OBVIOUS
    <3>  HIDE DEF f, matched, nodes
    <3>  QED  BY <3>3, <3>4, ImageFinite
  <2>3. ordered \in Seq(nodes) /\ Len(ordered) \in Nat \ {0}
    <3>  HIDE DEF nodes
    <3>  QED  BY <1>3, <2>2, SequenceOfSet
  <2>4. ASSUME NEW n \in nodes PROVE Tells(Entry(n), event)
    <3>1. PICK x \in matched : n = x.node
      OBVIOUS
    <3>2. /\ Entry(n).type = event.type /\ Entry(n).ran = event.op.node
          /\ Entry(n).node = x.node
      BY <3>1
    <3>  HIDE DEF Entry, matched, nodes, told
    <3>3. CASE x = event.op
      BY <3>2, <3>3 DEF Tells, Attribution
    <3>4. CASE x # event.op /\ event.type = "command"
      <4>1. /\ call.tool = "shell" /\ ~Literal(event.op)
            /\ x.line = event.op.line /\ x.mark \in event.op.shows
            /\ x \in Range(call.ops) /\ event.op \in Range(call.ops)
        BY <2>1, <3>1, <3>4 DEF Heard
      <4>2. MayBeTakenFor(event.op.node, x.node)
        BY <4>1 DEF MayBeTakenFor
      <4>  QED  BY <3>2, <3>4, <4>2 DEF Tells, Attribution
    <3>5. CASE x # event.op /\ event.type # "command"
      <4>1. event.type # "operation"
        BY <2>1, <3>1, <3>5
      <4>  QED  BY <3>2, <3>5, <4>1 DEF Tells
    <3>  QED  BY <3>3, <3>4, <3>5
  <2>5. told = [i \in 1..Len(ordered) |-> Entry(ordered[i])]
    <3>  HIDE DEF nodes, ordered, told, Entry
    <3>1. DOMAIN ordered = 1..Len(ordered)
      BY <2>3
    <3>2. told = [i \in DOMAIN ordered |-> Entry(ordered[i])]
      BY <1>1, <1>3
    <3>  QED  BY <3>1, <3>2
  <2>  HIDE DEF nodes, ordered, told, Entry
  <2>6. \A i \in 1..Len(ordered) : ordered[i] \in nodes /\ told[i] = Entry(ordered[i])
    BY <2>3, <2>5
  <2>7. DOMAIN told = 1..Len(ordered) /\ Len(told) = Len(ordered)
    BY <2>3, <2>5
  <2>8. Range(told) = {told[i] : i \in 1..Len(ordered)}
    BY <2>7 DEF Range
  <2>9. told \in Seq(Range(told))
    BY <2>3, <2>5, <2>6, <2>8
  <2>10. \A entry \in Range(told) : Tells(entry, event)
    BY <2>4, <2>6, <2>8
  <2>11. Range(told) # {}
    <3>1. 1 \in 1..Len(ordered)
      BY <2>3
    <3>  QED  BY <2>8, <3>1
  <2>  QED  BY <2>9, <2>10, <2>11 DEF told
<1>  QED  BY <1>2, <1>3

\* Every event leaves an entry, and every entry is left by an event.
LEMMA CallTraceFacts ==
  ASSUME skill \in AgentSkills, NEW call \in Requests(skill), NEW events,
         events \in Seq(Range(events)), \A event \in Range(events) : Heard(call, event)
  PROVE  /\ CallTrace(call, events) \in Seq(Range(CallTrace(call, events)))
         /\ \A entry \in Range(CallTrace(call, events)) :
              \E event \in Range(events) : Tells(entry, event)
         /\ \A event \in Range(events) :
              \E entry \in Range(CallTrace(call, events)) : Tells(entry, event)
<1>  DEFINE told(event) == Attributed(call, event)
            X == UNION {Range(told(event)) : event \in Range(events)}
            n == Len(events)
            parts == [i \in 1..n |-> told(events[i])]
            all == CallTrace(call, events)
<1>1. n \in Nat /\ DOMAIN events = 1..n /\ \A i \in 1..n : events[i] \in Range(events)
  BY DEF Range
<1>2. all = FlattenSeq(parts)
  BY <1>1 DEF CallTrace
<1>3. ASSUME NEW event \in Range(events)
      PROVE  /\ told(event) \in Seq(X) /\ Range(told(event)) # {}
             /\ \A entry \in Range(told(event)) : Tells(entry, event)
  <2>1. /\ told(event) \in Seq(Range(told(event))) /\ Range(told(event)) # {}
        /\ \A entry \in Range(told(event)) : Tells(entry, event)
    BY AttributedFacts
  <2>2. Range(told(event)) \subseteq X
    OBVIOUS
  <2>  HIDE DEF X, told
  <2>  QED  BY <2>1, <2>2
<1>  HIDE DEF told, all
<1>4. parts \in Seq(Seq(X)) /\ DOMAIN parts = 1..n /\ \A i \in 1..n : parts[i] = told(events[i])
  <2>1. \A i \in 1..n : told(events[i]) \in Seq(X)
    BY <1>1, <1>3
  <2>  HIDE DEF X, n
  <2>  QED  BY <1>1, <2>1
<1>  HIDE DEF parts
<1>5. all \in Seq(X) /\ ToSet(all) = UNION {ToSet(parts[i]) : i \in DOMAIN parts}
  <2>1. \A ss \in Seq(Seq(X)) :
          /\ FlattenSeq(ss) \in Seq(X)
          /\ ToSet(FlattenSeq(ss)) = UNION {ToSet(ss[i]) : i \in DOMAIN ss}
    BY FlattenElements, FlattenAppend
  <2>  HIDE DEF X
  <2>  QED  BY <1>2, <1>4, <2>1
<1>6. Range(all) = UNION {Range(told(events[i])) : i \in 1..n}
  <2>1. Range(all) = UNION {ToSet(parts[i]) : i \in 1..n}
    BY <1>4, <1>5 DEF Range, ToSet
  <2>2. \A i \in 1..n : ToSet(parts[i]) = Range(told(events[i]))
    BY <1>4 DEF Range, ToSet
  <2>  QED  BY <2>1, <2>2
<1>7. Range(events) = {events[i] : i \in 1..n}
  BY <1>1 DEF Range
<1>8. all \in Seq(Range(all))
  <2>1. \A i \in 1..Len(all) : all[i] \in Range(all)
    BY <1>5 DEF Range
  <2>  DEFINE R == Range(all)
  <2>  HIDE DEF X, R
  <2>  QED  BY <1>5, <2>1 DEF R
<1>9. /\ \A entry \in Range(all) : \E event \in Range(events) : Tells(entry, event)
      /\ \A event \in Range(events) : \E entry \in Range(all) : Tells(entry, event)
  <2>1. ASSUME NEW entry \in Range(all)
        PROVE  \E event \in Range(events) : Tells(entry, event)
    <3>1. PICK i \in 1..n : entry \in Range(told(events[i]))
      BY <1>6
    <3>  QED  BY <1>1, <1>3, <3>1
  <2>2. ASSUME NEW event \in Range(events)
        PROVE  \E entry \in Range(all) : Tells(entry, event)
    <3>1. PICK i \in 1..n : event = events[i]
      BY <1>7
    <3>2. Range(told(event)) \subseteq Range(all)
      BY <1>6, <3>1
    <3>3. PICK entry : entry \in Range(told(event))
      BY <1>3
    <3>  QED  BY <1>3, <3>2, <3>3
  <2>  QED  BY <2>1, <2>2
<1>  QED  BY <1>8, <1>9 DEF all

-----------------------------------------------------------------------------
(* What the trace and the buffer of the running tool account for.           *)

Ran == {e.node : e \in performed}

Told(e) == \E entry \in Range(trace) : entry.ran = e.node /\ entry.type # "line"

\* The running tool has still to report it.
Pending(e) ==
  /\ stage = "running"
  /\ e.step = Step
  /\ \E x \in Range(Call.ops) :
       /\ x.node = e.node
       /\ \E event \in Range(buffer) : event.op = x /\ event.type # "line"

EntriesInv ==
  /\ trace \in Seq(Range(trace))
  /\ \A entry \in Range(trace) :
       entry.type \in {"operation", "command"} =>
         Attribution(entry) /\ entry.ran \in Ran

RequestsInv ==
  stage \in {"call", "running"} =>
    /\ requests \in Seq(Requests(skill)) /\ requests # <<>>
    /\ \A i \in DOMAIN requests : requests[i].tool # "none"

RunningInv ==
  stage = "running" =>
    /\ ops \in Seq(Range(Call.ops))
    /\ buffer \in Seq(Range(buffer))
    /\ Call.tool = "node" => buffer = <<>>
    /\ \A event \in Range(buffer) : Heard(Call, event) /\ event.op.node \in Ran

AccountedInv ==
  status = "completed" =>
    \A e \in performed : StaysTraceable(e.step, e.node) => Told(e) \/ Pending(e)

TraceInv ==
  /\ \A e \in performed : e = [step |-> e.step, node |-> e.node]
  /\ stage \notin {"cleanup", "ended"} => outcome = "none"
  /\ EntriesInv /\ RequestsInv /\ RunningInv /\ AccountedInv

LEMMA InitTrace == Init => TraceInv
<1>  SUFFICES ASSUME Init PROVE TraceInv
  OBVIOUS
<1>1. performed = {} /\ trace = <<>> /\ stage = "copy" /\ outcome = "none"
  BY DEF Init
<1>2. Range(trace) = {} /\ trace \in Seq({})
  BY <1>1 DEF Range
<1>  QED  BY <1>1, <1>2 DEF TraceInv, EntriesInv, RequestsInv, RunningInv, AccountedInv

\* A step after which no tool runs, and that does nothing of its own.
LEMMA TraceFrame ==
  ASSUME TraceInv, UNCHANGED <<skill, performed, trace>>,
         stage' # "running",
         \/ stage # "running" /\ status' = status
         \/ status' = "failed",
         stage' \notin {"cleanup", "ended"} => outcome' = "none",
         RequestsInv'
  PROVE  TraceInv'
<1>1. EntriesInv'
  BY AttributionStays DEF TraceInv, EntriesInv, Ran
<1>2. AccountedInv'
  <2>1. CASE stage # "running" /\ status' = status
    <3>1. \A e : Told(e)' <=> Told(e)
      BY DEF Told
    <3>2. \A e : StaysTraceable(e.step, e.node)' <=> StaysTraceable(e.step, e.node)
      BY DEF StaysTraceable
    <3>3. \A e : ~Pending(e)
      BY <2>1 DEF Pending
    <3>  QED  BY <2>1, <3>1, <3>2, <3>3 DEF TraceInv, AccountedInv
  <2>2. CASE status' = "failed"
    BY <2>2 DEF AccountedInv
  <2>  QED  BY <2>1, <2>2
<1>3. RunningInv'
  BY DEF RunningInv
<1>  QED  BY <1>1, <1>2, <1>3 DEF TraceInv

\* A tool that has ended leaves the other requests of its step.
LEMMA NextCallRequests ==
  ASSUME RequestsInv, stage \in {"call", "running"}, NextCall, skill' = skill
  PROVE  RequestsInv' /\ stage' \in {"endStep", "call"}
<1>1. /\ requests \in Seq(Requests(skill)) /\ requests # <<>>
      /\ \A i \in DOMAIN requests : requests[i].tool # "none"
  BY DEF RequestsInv
<1>2. requests' = Tail(requests) /\ stage' = IF Tail(requests) = <<>> THEN "endStep" ELSE "call"
  BY DEF NextCall
<1>  DEFINE q == Tail(requests)
<1>3. q \in Seq(Requests(skill)) /\ \A i \in DOMAIN q : i + 1 \in DOMAIN requests /\ q[i] = requests[i + 1]
  <2>1. q \in Seq(Requests(skill)) /\ Len(q) = Len(requests) - 1 /\ Len(q) \in Nat /\ DOMAIN q = 1..Len(q)
    BY <1>1
  <2>2. \A i \in 1..(Len(requests) - 1) : q[i] = requests[i + 1]
    BY <1>1
  <2>3. DOMAIN requests = 1..Len(requests)
    BY <1>1
  <2>  HIDE DEF q
  <2>  QED  BY <2>1, <2>2, <2>3
<1>  QED  BY <1>1, <1>2, <1>3 DEF RequestsInv

LEMMA BeginTrace ==
  ASSUME IInv, PlanInv, TraceInv, BeginStep
  PROVE  TraceInv'
<1>1. /\ stage = "step" /\ position \in DOMAIN plan /\ stage' \in {"local", "call"}
      /\ requests' = skill.calls[Step] /\ (stage' = "call" => requests' # <<>>)
      /\ \A i \in DOMAIN skill.calls[Step] : skill.calls[Step][i].tool # "none"
      /\ UNCHANGED <<skill, performed, trace, status, outcome>>
  BY DEF BeginStep, fixed, evidence
<1>2. Step \in Range(skill.steps) /\ skill \in AgentSkills
  BY <1>1 DEF PlanInv, Step, Range
<1>3. skill.calls[Step] \in Seq(Requests(skill))
  BY <1>2, AgentSkillsAssumption
<1>4. RequestsInv'
  BY <1>1, <1>3 DEF RequestsInv
<1>  QED  BY <1>1, <1>4, TraceFrame DEF TraceInv

LEMMA LocalTrace ==
  ASSUME TraceInv, ActLocally
  PROVE  TraceInv'
<1>  DEFINE new == [step |-> Step, node |-> Step]
            entry == [type |-> "operation", node |-> Step, ran |-> Step]
<1>1. /\ stage = "local" /\ stage' = "endStep"
      /\ performed' = performed \union {new}
      /\ trace' = Append(trace, entry)
      /\ UNCHANGED <<skill, status, outcome>>
  BY DEF ActLocally, fixed
<1>2. trace' \in Seq(Range(trace')) /\ Range(trace') = Range(trace) \union {entry}
  BY <1>1, AppendRange DEF TraceInv, EntriesInv
<1>3. EntriesInv'
  <2>1. Ran' = Ran \union {Step}
    <3>1. new.node = Step
      OBVIOUS
    <3>  HIDE DEF new
    <3>  QED  BY <1>1, <3>1 DEF Ran
  <2>2. \A x : x = entry => Attribution(x)'
    BY DEF Attribution
  <2>3. ASSUME NEW x \in Range(trace), x.type \in {"operation", "command"}
        PROVE  Attribution(x)' /\ x.ran \in Ran'
    <3>1. Attribution(x) /\ x.ran \in Ran
      BY <2>3 DEF TraceInv, EntriesInv
    <3>2. Attribution(x)'
      BY <1>1, <3>1, AttributionStays
    <3>  QED  BY <2>1, <3>1, <3>2
  <2>4. entry.ran \in Ran'
    BY <2>1
  <2>  HIDE DEF entry
  <2>5. ASSUME NEW x \in Range(trace'), x.type \in {"operation", "command"}
        PROVE  Attribution(x)' /\ x.ran \in Ran'
    <3>1. CASE x = entry
      <4>1. x.ran \in Ran'
        BY <2>4, <3>1
      <4>2. Attribution(x)'
        BY <2>2, <3>1
      <4>  QED  BY <4>1, <4>2
    <3>2. CASE x \in Range(trace)
      BY <2>3, <2>5, <3>2
    <3>  QED  BY <1>2, <3>1, <3>2
  <2>  QED  BY <1>2, <2>5 DEF EntriesInv
<1>4. AccountedInv'
  <2>1. ASSUME status' = "completed", NEW e \in performed', StaysTraceable(e.step, e.node)'
        PROVE  Told(e)'
    <3>1. CASE e = new
      <4>1. entry \in Range(trace') /\ entry.ran = e.node /\ entry.type # "line"
        BY <1>2, <3>1
      <4>  QED  BY <4>1 DEF Told
    <3>2. CASE e \in performed
      <4>1. StaysTraceable(e.step, e.node)
        BY <1>1, <2>1 DEF StaysTraceable
      <4>2. Told(e)
        BY <1>1, <2>1, <3>2, <4>1 DEF TraceInv, AccountedInv, Pending
      <4>  QED  BY <1>2, <4>2 DEF Told
    <3>  QED  BY <1>1, <3>1, <3>2
  <2>  QED  BY <2>1 DEF AccountedInv
<1>  QED  BY <1>1, <1>3, <1>4 DEF TraceInv, RequestsInv, RunningInv

LEMMA StartTrace ==
  ASSUME PlanInv, TraceInv, StartTool
  PROVE  TraceInv'
<1>1. /\ stage = "call" /\ stage' = "running" /\ ops' = Call.ops /\ buffer' = <<>>
      /\ UNCHANGED <<skill, plan, position, requests, performed, trace, status, outcome>>
  BY DEF StartTool, fixed, planVars, stepVars
<1>2. Call \in Requests(skill)
  <2>1. requests \in Seq(Requests(skill)) /\ requests # <<>>
    BY <1>1 DEF TraceInv, RequestsInv
  <2>  QED  BY <2>1 DEF Call
<1>3. Call.ops \in Seq(Range(Call.ops)) /\ Call' = Call
  BY <1>1, <1>2, AgentSkillsAssumption DEF PlanInv, Call
<1>4. RunningInv'
  <2>1. Range(buffer') = {} /\ buffer' \in Seq({})
    BY <1>1 DEF Range
  <2>  QED  BY <1>1, <1>3, <2>1 DEF RunningInv
<1>5. RequestsInv'
  BY <1>1 DEF TraceInv, RequestsInv
<1>6. EntriesInv'
  BY <1>1, AttributionStays DEF TraceInv, EntriesInv, Ran
<1>7. AccountedInv'
  <2>1. \A e : (Told(e) => Told(e)') /\ ~Pending(e)
    BY <1>1 DEF Told, Pending
  <2>2. \A e : StaysTraceable(e.step, e.node)' <=> StaysTraceable(e.step, e.node)
    BY <1>1 DEF StaysTraceable
  <2>  QED  BY <1>1, <2>1, <2>2 DEF TraceInv, AccountedInv
<1>  QED  BY <1>1, <1>4, <1>5, <1>6, <1>7 DEF TraceInv

\* The tool and the operation that a tool in the middle of its script is at.
LEMMA RunningFacts ==
  ASSUME IInv, PlanInv, TraceInv, stage = "running"
  PROVE  /\ Call \in Requests(skill) /\ Call.tool \in Tools \ {"none"}
         /\ Call.ops \in Seq(Range(Call.ops))
         /\ Step \in Range(skill.steps)
         /\ ops # <<>> => /\ Head(ops) \in Range(Call.ops)
                          /\ Tail(ops) \in Seq(Range(Call.ops))
<1>1. /\ requests \in Seq(Requests(skill)) /\ requests # <<>>
      /\ \A i \in DOMAIN requests : requests[i].tool # "none"
  BY DEF TraceInv, RequestsInv
<1>2. Call \in Requests(skill) /\ Call.tool # "none"
  <2>1. 1 \in DOMAIN requests /\ Call = requests[1]
    BY <1>1 DEF Call
  <2>  QED  BY <1>1, <2>1
<1>3. Call.tool \in Tools /\ Call.ops \in Seq(Range(Call.ops))
  BY <1>2, AgentSkillsAssumption DEF PlanInv
<1>4. Step \in Range(skill.steps)
  BY DEF IInv, DirectInv, AtStep, PlanInv, Step, Range
<1>5. ops \in Seq(Range(Call.ops))
  BY DEF TraceInv, RunningInv
<1>6. ops # <<>> => Head(ops) \in Range(Call.ops) /\ Tail(ops) \in Seq(Range(Call.ops))
  <2>  DEFINE X == Range(Call.ops)
  <2>1. ops \in Seq(X)
    BY <1>5
  <2>  HIDE DEF X
  <2>2. ops # <<>> => Head(ops) \in X /\ Tail(ops) \in Seq(X)
    BY <2>1
  <2>  QED  BY <2>2 DEF X
<1>  QED  BY <1>2, <1>3, <1>4, <1>6

LEMMA PassTrace ==
  ASSUME IInv, PlanInv, TraceInv, PassOperation
  PROVE  TraceInv'
<1>1. /\ stage = "running" /\ ops # <<>> /\ ops' = Tail(ops)
      /\ UNCHANGED <<skill, stage, plan, position, requests, buffer, performed, trace,
                     status, outcome>>
  BY DEF PassOperation, fixed, planVars, stepVars, evidence
<1>2. Call' = Call /\ Step' = Step
  BY <1>1 DEF Call, Step
<1>3. RunningInv'
  BY <1>1, <1>2, RunningFacts DEF TraceInv, RunningInv, Ran, Heard
<1>4. AccountedInv'
  BY <1>1, <1>2 DEF TraceInv, AccountedInv, Told, Pending, StaysTraceable
<1>5. EntriesInv'
  BY <1>1, AttributionStays DEF TraceInv, EntriesInv, Ran
<1>  QED  BY <1>1, <1>3, <1>4, <1>5 DEF TraceInv, RequestsInv

LEMMA RecordedFacts ==
  ASSUME NEW tool \in Tools, NEW op, NEW shown \in Shown(tool, op)
  PROVE  LET events == Recorded(tool, op, shown)
         IN  /\ events \in Seq(Range(events))
             /\ tool = "node" => events = <<>>
             /\ \A event \in Range(events) :
                  /\ event.op = op
                  /\ event.type = "operation" =>
                       tool = "python" /\ event.shown = op.mark
                  /\ event.type = "command" =>
                       /\ tool \in {"shell", "inline"}
                       /\ event.shown \in op.shows /\ event.shown # Silent
             /\ Shows([tool |-> tool], op)
                => \E event \in Range(events) : event.type # "line"
<1>  DEFINE line == Event("line", op, shown)
            own == Event("operation", op, shown)
            command == Event("command", op, shown)
            two == IF op.kind # "plain" /\ op.hooked THEN <<own>> ELSE <<>>
            X == {line, own}
            events == Recorded(tool, op, shown)
<1>1. /\ line.op = op /\ line.type = "line"
      /\ own.op = op /\ own.type = "operation" /\ own.shown = shown
      /\ command.op = op /\ command.type = "command" /\ command.shown = shown
  BY DEF Event
<1>5. Shows([tool |-> tool], op)
        <=> CASE tool = "python" -> op.hooked /\ op.kind # "plain"
              [] tool \in {"shell", "inline"} -> Silent \notin op.shows
              [] OTHER -> FALSE
  BY DEF Shows
<1>2. CASE tool = "python"
  <2>0. shown = op.mark
    BY <1>2 DEF Shown
  <2>1. events = <<line>> \o two
    BY <1>2 DEF Recorded
  <2>  HIDE DEF line, own
  <2>2. <<line>> \in Seq(X) /\ two \in Seq(X)
    <3>1. line \in X /\ own \in X
      OBVIOUS
    <3>  HIDE DEF X
    <3>2. <<>> \in Seq(X)
      OBVIOUS
    <3>3. <<line>> \in Seq(X) /\ <<own>> \in Seq(X)
      BY <3>1
    <3>  QED  BY <3>2, <3>3
  <2>3. ToSet(<<line>>) = {line}
        /\ ToSet(two) = IF op.kind # "plain" /\ op.hooked THEN {own} ELSE {}
    BY DEF ToSet
  <2>  HIDE DEF two, X, events
  <2>4. events \in Seq(X) /\ ToSet(events) = ToSet(<<line>>) \union ToSet(two)
    <3>1. \A u, v \in Seq(X) : u \o v \in Seq(X) /\ ToSet(u \o v) = ToSet(u) \union ToSet(v)
      BY ToSetOfConcat
    <3>  HIDE DEF X
    <3>  QED  BY <2>1, <2>2, <3>1
  <2>5. events \in Seq(Range(events))
    BY <2>4 DEF Range
  <2>6. Range(events) = {line} \union IF op.kind # "plain" /\ op.hooked THEN {own} ELSE {}
    BY <2>3, <2>4 DEF Range, ToSet
  <2>  QED  BY <1>1, <1>2, <1>5, <2>0, <2>5, <2>6 DEF events
<1>3. CASE tool \in {"shell", "inline"} /\ shown # Silent
  <2>0. shown \in op.shows
    BY <1>3 DEF Shown
  <2>1. events = <<command>>
    BY <1>3 DEF Recorded
  <2>  HIDE DEF command
  <2>2. Range(events) = {command} /\ events \in Seq({command})
    BY <2>1 DEF Range
  <2>  HIDE DEF events
  <2>  QED  BY <1>1, <1>3, <2>0, <2>2 DEF events
<1>4. CASE tool \in {"node", "none"} \/ (tool \in {"shell", "inline"} /\ shown = Silent)
  <2>1. events = <<>>
    BY <1>4 DEF Recorded
  <2>2. Range(events) = {} /\ events \in Seq({})
    BY <2>1 DEF Range
  <2>3. ~Shows([tool |-> tool], op)
    BY <1>4, <1>5 DEF Shown
  <2>  HIDE DEF events
  <2>  QED  BY <2>1, <2>2, <2>3 DEF events
<1>  QED  BY <1>2, <1>3, <1>4 DEF Tools

\* An operation of the running tool that counts as traceable is one its tool
\* tells of.
LEMMA TraceableIsSeen ==
  ASSUME skill \in AgentSkills, NEW n \in Range(skill.steps),
         NEW call \in Requests(skill), NEW x \in Range(call.ops),
         StaysTraceable(n, x.node)
  PROVE  Shows([tool |-> call.tool], x)
<1>1. n # x.node
  BY AgentSkillsAssumption
<1>2. PICK i \in DOMAIN skill.calls[n] :
         \E op \in Range(skill.calls[n][i].ops) :
           op.node = x.node /\ Shows(skill.calls[n][i], op)
  BY <1>1 DEF StaysTraceable
<1>  DEFINE c == skill.calls[n][i]
<1>3. PICK op \in Range(c.ops) : op.node = x.node /\ Shows(c, op)
  BY <1>2
<1>4. c \in Requests(skill)
  BY DEF Requests, Range
<1>5. op = x /\ c.tool = call.tool
  <2>  HIDE DEF c
  <2>  QED  BY <1>3, <1>4, AgentSkillsAssumption
<1>  HIDE DEF c
<1>  QED  BY <1>3, <1>5 DEF Shows

LEMMA PerformTrace ==
  ASSUME IInv, PlanInv, TraceInv, PerformOperation
  PROVE  TraceInv'
<1>  DEFINE x == Head(ops)
<1>0. PICK shown \in Shown(Call.tool, x) :
         buffer' = buffer \o Recorded(Call.tool, x, shown)
  BY DEF PerformOperation
<1>  DEFINE new == [step |-> Step, node |-> x.node]
            added == Recorded(Call.tool, x, shown)
<1>1. /\ stage = "running" /\ ops # <<>> /\ ops' = Tail(ops)
      /\ performed' = performed \union {new} /\ buffer' = buffer \o added
      /\ UNCHANGED <<skill, stage, plan, position, requests, trace, status, outcome>>
  BY <1>0 DEF PerformOperation, fixed, planVars, stepVars
<1>2. /\ Call \in Requests(skill) /\ Call.tool \in Tools \ {"none"}
      /\ Step \in Range(skill.steps) /\ x \in Range(Call.ops)
      /\ Tail(ops) \in Seq(Range(Call.ops)) /\ skill \in AgentSkills
  BY <1>1, RunningFacts DEF PlanInv
<1>3. Call' = Call /\ Step' = Step
  BY <1>1 DEF Call, Step
<1>4. new.step = Step /\ new.node = x.node
  OBVIOUS
<1>  HIDE DEF new, x, added
<1>5. Ran' = Ran \union {x.node}
  BY <1>1, <1>4 DEF Ran
<1>6. /\ added \in Seq(Range(added))
      /\ Call.tool = "node" => added = <<>>
      /\ \A event \in Range(added) :
           /\ event.op = x
           /\ event.type = "operation" =>
                Call.tool = "python" /\ event.shown = x.mark
           /\ event.type = "command" =>
                /\ Call.tool \in {"shell", "inline"}
                /\ event.shown \in x.shows /\ event.shown # Silent
      /\ Shows([tool |-> Call.tool], x)
         => \E event \in Range(added) : event.type # "line"
  BY <1>2, RecordedFacts DEF added
<1>7. buffer' \in Seq(Range(buffer')) /\ Range(buffer') = Range(buffer) \union Range(added)
  <2>  DEFINE X == Range(buffer) \union Range(added)
  <2>1. buffer \in Seq(Range(buffer))
    BY <1>1 DEF TraceInv, RunningInv
  <2>2. Range(buffer) \subseteq X /\ Range(added) \subseteq X
    OBVIOUS
  <2>  HIDE DEF X
  <2>3. buffer \in Seq(X) /\ added \in Seq(X)
    BY <1>6, <2>1, <2>2
  <2>4. ToSet(buffer \o added) = ToSet(buffer) \union ToSet(added) /\ buffer \o added \in Seq(X)
    BY <2>3, ToSetOfConcat
  <2>5. Range(buffer') = Range(buffer) \union Range(added)
    BY <1>1, <2>4 DEF Range, ToSet
  <2>6. buffer' \in Seq(Range(buffer'))
    <3>0. buffer' \in Seq(X)
      BY <1>1, <2>4
    <3>1. \A i \in 1..Len(buffer') : buffer'[i] \in Range(buffer')
      BY <3>0 DEF Range
    <3>  DEFINE R == Range(buffer')
    <3>  HIDE DEF R
    <3>2. buffer' \in Seq(R)
      BY <3>0, <3>1 DEF R
    <3>  QED  BY <3>2 DEF R
  <2>  QED  BY <2>5, <2>6
<1>8. RunningInv'
  <2>1. \A event \in Range(buffer) : Heard(Call, event) /\ event.op.node \in Ran
    BY <1>1 DEF TraceInv, RunningInv
  <2>2. \A event \in Range(buffer') : Heard(Call, event) /\ event.op.node \in Ran'
    BY <1>2, <1>5, <1>6, <1>7, <2>1 DEF Heard
  <2>3. Call.tool = "node" => buffer' = <<>>
    <3>1. Call.tool = "node" => buffer = <<>>
      BY <1>1 DEF TraceInv, RunningInv
    <3>  QED  BY <1>1, <1>6, <3>1
  <2>  QED  BY <1>1, <1>2, <1>3, <1>7, <2>2, <2>3 DEF RunningInv, Heard
<1>9. AccountedInv'
  <2>1. ASSUME status' = "completed", NEW e \in performed', StaysTraceable(e.step, e.node)'
        PROVE  Told(e)' \/ Pending(e)'
    <3>1. StaysTraceable(e.step, e.node)
      BY <1>1, <2>1 DEF StaysTraceable
    <3>2. CASE e = new
      <4>1. Shows([tool |-> Call.tool], x)
        BY <1>2, <1>4, <3>1, <3>2, TraceableIsSeen
      <4>2. \E event \in Range(added) : event.op = x /\ event.type # "line"
        BY <1>6, <4>1
      <4>3. \E event \in Range(buffer') : event.op = x /\ event.type # "line"
        BY <1>7, <4>2
      <4>  QED  BY <1>1, <1>2, <1>3, <1>4, <3>2, <4>3 DEF Pending
    <3>3. CASE e \in performed
      <4>1. Told(e) \/ Pending(e)
        BY <1>1, <2>1, <3>1, <3>3 DEF TraceInv, AccountedInv
      <4>2. Told(e) => Told(e)'
        BY <1>1 DEF Told
      <4>3. Pending(e) => Pending(e)'
        BY <1>1, <1>3, <1>7 DEF Pending
      <4>  QED  BY <4>1, <4>2, <4>3
    <3>  QED  BY <1>1, <3>2, <3>3
  <2>  QED  BY <2>1 DEF AccountedInv
<1>10. EntriesInv' /\ RequestsInv'
  BY <1>1, <1>5, AttributionStays DEF TraceInv, EntriesInv, RequestsInv
<1>11. \A e \in performed' : e = [step |-> e.step, node |-> e.node]
  BY <1>1, <1>4 DEF TraceInv, new
<1>  QED  BY <1>1, <1>8, <1>9, <1>10, <1>11 DEF TraceInv

\* The events a tool comes back with: they tell of what is still pending.
LEMMA ReturnedEvents ==
  ASSUME IInv, PlanInv, TraceInv, stage = "running",
         NEW events \in IF Call.tool = "node" THEN Coverage ELSE {buffer}
  PROVE  /\ events \in Seq(Range(events))
         /\ \A event \in Range(events) :
              /\ Heard(Call, event)
              /\ event.type \in {"operation", "command"} => event.op.node \in Ran
         /\ \A e \in performed : Pending(e) =>
              \E event \in Range(events) : event.op.node = e.node /\ event.type # "line"
<1>1. CASE Call.tool # "node"
  <2>1. events = buffer
    BY <1>1
  <2>  QED  BY <1>1, <2>1 DEF TraceInv, RunningInv, Pending
<1>2. CASE Call.tool = "node"
  <2>0. \A e \in performed : ~Pending(e)
    <3>1. buffer = <<>>
      BY <1>2 DEF TraceInv, RunningInv
    <3>2. Range(buffer) = {}
      BY <3>1 DEF Range
    <3>  QED  BY <3>2 DEF Pending
  <2>1. CASE events = <<>>
    <3>1. Range(events) = {} /\ events \in Seq({})
      BY <2>1 DEF Range
    <3>  QED  BY <2>0, <3>1
  <2>2. CASE events # <<>>
    <3>  DEFINE all == Call.ops
                ran == {i \in DOMAIN all : [step |-> Step, node |-> all[i].node] \in performed}
                Chosen(c) == {all[i] : i \in {k \in c : all[k].known}}
                kept(c) == Filter(all, Chosen(c))
                Told1(y) == Event("covered", y, y.mark)
    <3>1. PICK more \in SUBSET DOMAIN all :
             events = [i \in DOMAIN kept(ran \union more) |->
                         Told1(kept(ran \union more)[i])]
      BY <1>2, <2>2 DEF Coverage
    <3>  DEFINE c == ran \union more
                k == kept(c)
    <3>2. events = [i \in DOMAIN k |-> Told1(k[i])]
      BY <3>1
    <3>3. all \in Seq(Range(all))
      BY RunningFacts
    <3>4. k \in Seq(Range(all)) /\ ToSet(k) = ToSet(all) \cap Chosen(c)
      <4>1. \A X : \A s \in Seq(X) : \A S : /\ ToSet(Filter(s, S)) = ToSet(s) \cap S
                                            /\ Filter(s, S) \in Seq(X)
        BY FilterElements, FilterAppend
      <4>  HIDE DEF all, Chosen, c
      <4>  QED  BY <3>3, <4>1
    <3>5. \A y \in ToSet(k) : y \in Range(all)
      BY <3>4 DEF Range, ToSet
    <3>6. \A y : Told1(y).op = y /\ Told1(y).type = "covered"
      BY DEF Event
    <3>  HIDE DEF k, all, kept, c, Chosen, ran, Told1
    <3>7. DOMAIN k = 1..Len(k) /\ Len(k) \in Nat
      BY <3>4
    <3>8. ToSet(k) = {k[i] : i \in DOMAIN k}
      BY DEF ToSet
    <3>9. Range(events) = {Told1(y) : y \in ToSet(k)}
      BY <3>2, <3>8 DEF Range
    <3>10. events \in Seq(Range(events))
      <4>1. events = [i \in 1..Len(k) |-> Told1(k[i])]
        BY <3>2, <3>7
      <4>2. \A i \in 1..Len(k) : Told1(k[i]) \in Range(events)
        BY <3>7, <3>8, <3>9
      <4>  DEFINE R == Range(events)
      <4>  HIDE DEF R
      <4>3. events \in Seq(R)
        BY <3>7, <4>1, <4>2 DEF R
      <4>  QED  BY <4>3 DEF R
    <3>11. \A event \in Range(events) : event.type = "covered" /\ event.op \in Range(all)
      BY <3>5, <3>6, <3>9
    <3>  QED  BY <2>0, <3>10, <3>11 DEF Heard, all
  <2>  QED  BY <2>1, <2>2
<1>  QED  BY <1>1, <1>2

LEMMA ReturnTrace ==
  ASSUME IInv, PlanInv, TraceInv, ToolReturns
  PROVE  TraceInv'
<1>1. PICK failed \in BOOLEAN, output \in Outputs(Call.tool),
           raw \in RawOutputs(Call.tool),
           events \in IF Call.tool = "node" THEN Coverage ELSE {buffer} :
         Observed(Call, failed, events, output, raw)
  BY DEF ToolReturns
<1>  DEFINE entries == CallTrace(Call, events)
            note == [type |-> "bundled", node |-> Step, ran |-> Step]
            bundled == IF Call.command /\ Call.tool # "inline" THEN <<note>> ELSE <<>>
<1>2. /\ stage = "running" /\ NextCall /\ UNCHANGED <<skill, performed, outcome>>
      /\ trace' = trace \o bundled \o entries
      /\ status' = IF failed THEN "failed" ELSE status
  BY <1>1 DEF ToolReturns, Observed, NextCall, fixed
<1>3. Call \in Requests(skill) /\ skill \in AgentSkills
  BY <1>2, RunningFacts DEF PlanInv
<1>4. /\ events \in Seq(Range(events))
      /\ \A event \in Range(events) :
           /\ Heard(Call, event)
           /\ event.type \in {"operation", "command"} => event.op.node \in Ran
      /\ \A e \in performed : Pending(e) =>
           \E event \in Range(events) : event.op.node = e.node /\ event.type # "line"
  BY <1>2, ReturnedEvents
<1>5. /\ entries \in Seq(Range(entries))
      /\ \A entry \in Range(entries) : \E event \in Range(events) : Tells(entry, event)
      /\ \A event \in Range(events) : \E entry \in Range(entries) : Tells(entry, event)
  BY <1>3, <1>4, CallTraceFacts
<1>  HIDE DEF entries
<1>6. trace' \in Seq(Range(trace')) /\ Range(trace) \subseteq Range(trace')
      /\ Range(entries) \subseteq Range(trace')
      /\ \A entry \in Range(trace') :
           entry \in Range(trace) \/ entry \in Range(entries) \/ entry.type = "bundled"
  <2>1. note.type = "bundled"
    OBVIOUS
  <2>  HIDE DEF note
  <2>  DEFINE X == (Range(trace) \union Range(entries)) \union {note}
  <2>2. trace \in Seq(Range(trace))
    BY DEF TraceInv, EntriesInv
  <2>3. Range(trace) \subseteq X /\ Range(entries) \subseteq X /\ note \in X
    OBVIOUS
  <2>4. ToSet(bundled) \subseteq {note}
    BY DEF ToSet
  <2>  HIDE DEF X
  <2>5. trace \in Seq(X) /\ entries \in Seq(X)
    BY <1>5, <2>2, <2>3
  <2>6. <<>> \in Seq(X) /\ <<note>> \in Seq(X)
    BY <2>3
  <2>7. bundled \in Seq(X)
    BY <2>6
  <2>  HIDE DEF bundled
  <2>8. \A u, v \in Seq(X) : u \o v \in Seq(X) /\ ToSet(u \o v) = ToSet(u) \union ToSet(v)
    BY ToSetOfConcat
  <2>9. trace' \in Seq(X)
        /\ ToSet(trace') = (ToSet(trace) \union ToSet(bundled)) \union ToSet(entries)
    <3>1. trace \o bundled \in Seq(X)
          /\ ToSet(trace \o bundled) = ToSet(trace) \union ToSet(bundled)
      BY <2>5, <2>7, <2>8
    <3>2. /\ (trace \o bundled) \o entries \in Seq(X)
          /\ ToSet((trace \o bundled) \o entries) = ToSet(trace \o bundled) \union ToSet(entries)
      BY <2>5, <2>8, <3>1
    <3>  QED  BY <1>2, <3>1, <3>2
  <2>10. Range(trace') = (Range(trace) \union ToSet(bundled)) \union Range(entries)
    BY <2>9 DEF Range, ToSet
  <2>11. \A i \in 1..Len(trace') : trace'[i] \in Range(trace')
    BY <2>9 DEF Range
  <2>12. trace' \in Seq(Range(trace'))
    <3>  DEFINE R == Range(trace')
    <3>  HIDE DEF R
    <3>1. trace' \in Seq(R)
      BY <2>9, <2>11 DEF R
    <3>  QED  BY <3>1 DEF R
  <2>13. \A entry \in ToSet(bundled) : entry.type = "bundled"
    BY <2>1, <2>4
  <2>14. \A entry \in Range(trace') :
           entry \in Range(trace) \/ entry \in Range(entries) \/ entry.type = "bundled"
    BY <2>10, <2>13
  <2>  QED  BY <2>10, <2>12, <2>14
<1>7. EntriesInv'
  <2>1. Ran' = Ran
    BY <1>2 DEF Ran
  <2>2. ASSUME NEW entry \in Range(trace'), entry.type \in {"operation", "command"}
        PROVE  Attribution(entry) /\ entry.ran \in Ran
    <3>1. CASE entry \in Range(trace)
      BY <2>2, <3>1 DEF TraceInv, EntriesInv
    <3>2. CASE entry \in Range(entries)
      <4>1. PICK event \in Range(events) : Tells(entry, event)
        BY <1>5, <3>2
      <4>  QED  BY <1>4, <2>2, <4>1 DEF Tells
    <3>  QED  BY <1>6, <2>2, <3>1, <3>2
  <2>  QED  BY <1>2, <1>6, <2>1, <2>2, AttributionStays DEF EntriesInv
<1>8. RequestsInv' /\ stage' \in {"endStep", "call"}
  BY <1>2, NextCallRequests DEF TraceInv
<1>9. AccountedInv'
  <2>1. ASSUME status' = "completed", NEW e \in performed, StaysTraceable(e.step, e.node)'
        PROVE  Told(e)'
    <3>1. status = "completed" /\ StaysTraceable(e.step, e.node)
      BY <1>2, <2>1 DEF StaysTraceable
    <3>2. CASE Told(e)
      BY <1>6, <3>2 DEF Told
    <3>3. CASE Pending(e)
      <4>1. PICK event \in Range(events) : event.op.node = e.node /\ event.type # "line"
        BY <1>4, <3>3
      <4>2. PICK entry \in Range(entries) : Tells(entry, event)
        BY <1>5
      <4>  QED  BY <1>6, <4>1, <4>2 DEF Told, Tells
    <3>  QED  BY <3>1, <3>2, <3>3 DEF TraceInv, AccountedInv
  <2>  QED  BY <1>2, <2>1 DEF AccountedInv
<1>10. RunningInv' /\ outcome' = "none"
  BY <1>2, <1>8 DEF RunningInv, TraceInv
<1>  QED  BY <1>2, <1>7, <1>8, <1>9, <1>10 DEF TraceInv

LEMMA StepTrace == IInv /\ PlanInv /\ TraceInv /\ [Next]_vars => TraceInv'
<1>  SUFFICES ASSUME IInv, PlanInv, TraceInv, [Next]_vars PROVE TraceInv'
  OBVIOUS
<1>0. stage \notin {"cleanup", "ended"} => outcome = "none"
  BY DEF TraceInv
<1>  USE DEF fixed, planVars, stepVars, evidence, RequestsInv
<1>1. CASE CopySkill \/ CopyFails
  BY <1>0, <1>1, TraceFrame DEF CopySkill, CopyFails
<1>2. CASE Fixture \/ RequiredFixtureFails \/ FixturesDone
  BY <1>0, <1>2, TraceFrame DEF Fixture, RequiredFixtureFails, FixturesDone, Raise
<1>3. CASE PlanByModel \/ PlanByFallback \/ ModelRaises
  BY <1>0, <1>3, TraceFrame DEF PlanByModel, PlanByFallback, Planned, ModelRaises, Raise
<1>4. CASE BeginStep
  BY <1>4, BeginTrace
<1>5. CASE NoToolForTarget \/ NothingToDoLocally
  BY <1>0, <1>5, TraceFrame DEF NoToolForTarget, NothingToDoLocally, Raise
<1>6. CASE ActLocally
  BY <1>6, LocalTrace
<1>7. CASE StartTool
  BY <1>7, StartTrace
<1>8. CASE ToolBlocked \/ ToolResultLost
  <2>1. /\ NextCall /\ stage \in {"call", "running"} /\ status' = "failed"
        /\ UNCHANGED <<skill, performed, trace, outcome>>
    BY <1>8 DEF ToolBlocked, ToolResultLost, NextCall
  <2>2. RequestsInv' /\ stage' \in {"endStep", "call"}
    BY <2>1, NextCallRequests DEF TraceInv
  <2>  QED  BY <1>0, <2>1, <2>2, TraceFrame
<1>9. CASE PerformOperation
  BY <1>9, PerformTrace
<1>10. CASE PassOperation
  BY <1>10, PassTrace
<1>11. CASE ToolReturns
  BY <1>11, ReturnTrace
<1>12. CASE EndStep \/ StepsDone
  BY <1>0, <1>12, TraceFrame DEF EndStep, StepsDone
<1>13. CASE WithoutModel \/ ByModel \/ NoAcceptedResponse
  BY <1>0, <1>13, TraceFrame DEF WithoutModel, ByModel, NoAcceptedResponse, Respond
<1>14. CASE RemoveSandbox
  BY <1>0, <1>14, TraceFrame DEF RemoveSandbox
<1>15. CASE UNCHANGED vars
  BY <1>15, AttributionStays
  DEF vars, TraceInv, EntriesInv, RunningInv, AccountedInv, Ran, Told, Pending,
      StaysTraceable, Call, Step, toolVars
<1>  QED
  BY <1>1, <1>2, <1>3, <1>4, <1>5, <1>6, <1>7, <1>8, <1>9, <1>10, <1>11, <1>12,
     <1>13, <1>14, <1>15 DEF Next

-----------------------------------------------------------------------------
(* The inductive invariant of an execution (agent_runtime.py 856-1148,       *)
(* agent.py 156-238).                                                        *)
THEOREM SpecIInv == Spec => []IInv
  BY InitIInv, StepIInv, PTL DEF Spec

(* A grounded response repeats outputs or stdout of tools of planned steps,  *)
(* and the words "Executed ..." only of a call whose process wrote to stdout *)
(* (agent_runtime.py 1192-1203, final_response_synthesizer.py 213, 276-295). *)
THEOREM GroundedIsReal == Spec => []GroundedOutputIsReal
<1>1. IInv => GroundedOutputIsReal
  BY DEF IInv, DirectInv, ResultsInv, RawOf, FinalInv, GroundedOutputIsReal
<1>  QED  BY <1>1, SpecIInv, PTL

(* No execution ends beside its copy of the skill, or without telling how it *)
(* ended: the safety half of RunEndsClean (agent.py 170-200).                *)
THEOREM RunsEndClean == Spec => []EndsClean
<1>1. IInv => EndsClean
  BY DEF IInv, CopyInv, EndsClean
<1>  QED  BY <1>1, SpecIInv, PTL

(* No run acts on both sides of a repaired action, and without an accepted   *)
(* plan of the model none acts on the allowed side, whatever the skill's     *)
(* edges and the bound on its paths (task_planner.py 201-208, 270-303).      *)
THEOREM PlansFailClosed == Spec => []PlanFailsClosed
<1>1. PlanInv => PlanFailsClosed
  BY DEF PlanInv, PlanFailsClosed
<1>2. Spec => []PlanInv
  BY InitIInv, StepIInv, InitPlan, StepPlan, PTL DEF Spec
<1>  QED  BY <1>1, <1>2, PTL

(* The trace tells what ran: whatever tools were started, blocked, or lost,  *)
(* an operation and a command written out in full are attributed to the node *)
(* that ran or to none, an expanded command at worst to one of its line that *)
(* reads as its words do; and a run that calls itself completed told of      *)
(* every instrumented operation and every command sure to be shown           *)
(* (agent_runtime.py 525-694, 856-1148).                                     *)
THEOREM TracesTellRuns == Spec => []TraceTellsRun
<1>1. TraceInv => TraceTellsRun
  <2>  SUFFICES ASSUME TraceInv PROVE TraceTellsRun
    OBVIOUS
  <2>1. \A i \in DOMAIN trace : trace[i] \in Range(trace)
    BY DEF Range
  <2>2. ASSUME outcome = "record", status = "completed", NEW e \in performed,
               StaysTraceable(e.step, e.node)
        PROVE  \E i \in DOMAIN trace : trace[i].ran = e.node /\ trace[i].type # "line"
    <3>1. ~Pending(e)
      BY <2>2 DEF TraceInv, Pending
    <3>2. Told(e)
      BY <2>2, <3>1 DEF TraceInv, AccountedInv
    <3>  QED  BY <3>2 DEF Told, Range
  <2>  QED  BY <2>1, <2>2 DEF TraceTellsRun, TraceInv, EntriesInv, Attribution, Ran
<1>2. Spec => [](PlanInv /\ TraceInv)
  BY InitIInv, StepIInv, InitPlan, StepPlan, InitTrace, StepTrace, PTL DEF Spec
<1>  QED  BY <1>1, <1>2, PTL
=============================================================================
