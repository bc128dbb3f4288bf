--------------------------- MODULE ValidationProofs ---------------------------
(***************************************************************************)
(* Validation for every agenda and every outcome the environment may choose: *)
(* its types, that reports and clearances rest on runtime evidence, and, in a *)
(* second invariant on top of the first, what its lists tell of each other   *)
(* and of the directories.                                                   *)
(***************************************************************************)
EXTENDS Validation, SharedFacts

LEMMA RecordTypes ==
    /\ FailedOriginal \in ExecutionRecord /\ FailedReplay \in ReplayRecord
    /\ \A e \in Executions : e \in ExecutionRecord
    /\ \A r \in Replays : r \in ReplayRecord
    /\ Judged \subseteq Judgment
    /\ Unjudged \in Judgment
    /\ Len(Agenda) \in Nat
    /\ \A i \in Ats : i \in Nat
  <1>1. FailedOriginal \in ExecutionRecord /\ FailedReplay \in ReplayRecord
    BY DEF FailedOriginal, FailedReplay, ExecutionRecord, ReplayRecord
  <1>2. Unjudged \in Judgment
    BY DEF Unjudged, Judgment, Tri
  <1>3. Judged \subseteq Judgment
    BY <1>2, JudgmentsAssumption DEF Judged
  <1>4. Len(Agenda) \in Nat
    BY AgendaAssumption
  <1> QED
    BY <1>1, <1>2, <1>3, <1>4, ExecutionsAssumption, ReplaysAssumption DEF Ats

LEMMA InitIInv == Init => IInv
  <1> SUFFICES ASSUME Init PROVE IInv
    OBVIOUS
  <1>1. TypeOK
    BY RecordTypes DEF Init, TypeOK, Ats
  <1> QED
    BY <1>1 DEF Init, IInv, PassPosition, DynamicSteps, ListsInStep, Ahead, PairsTriggered,
                AuthorizationsGrounded, DecisionsGrounded, VerdictsCombine

(* The lists grow only in the steps that append to them; all others leave     *)
(* the evidence as it is and only move on.                                    *)
LedgerSteps == ReplayRan \/ ReplayRaised \/ MaterializeRaised \/ Authorize
               \/ NecessityAccepted \/ NecessityUnresolved \/ NecessityFallback
               \/ NecessityPredicted \/ Conclude

LEMMA QuietStep ==
    ASSUME IInv, [Next]_vars, ~LedgerSteps
    PROVE  IInv'
  <1> USE RecordTypes DEF IInv, TypeOK, PassPosition, DynamicSteps, ListsInStep, Ahead, Dynamic, Latest
  <1> DEFINE Moves == TypeOK' /\ PassPosition' /\ ListsInStep'
  <1> DEFINE Kept == /\ UNCHANGED <<setup, pairs, authorizations, decisions, verdicts>>
                     /\ Moves
  <1> SUFFICES Kept
    <2> SUFFICES ASSUME Kept PROVE IInv'
      OBVIOUS
    <2>1. PairsTriggered'
      BY DEF PairsTriggered
    <2>2. AuthorizationsGrounded' /\ DecisionsGrounded' /\ VerdictsCombine'
      BY DEF AuthorizationsGrounded, DecisionsGrounded, VerdictsCombine, ShowsRemoval,
             AuthorizationGrounds, NecessityGrounds
    <2> QED
      BY <2>1, <2>2
  <1>1. CASE SkipTask
    BY <1>1 DEF SkipTask, ledgers, Ats
  <1>2. CASE StartTask
    BY <1>2 DEF StartTask, Ats
  <1>3. CASE Return
    BY <1>3 DEF Return, ledgers
  <1>4. CASE EnterOriginal
    BY <1>4 DEF EnterOriginal, ledgers, Sandbox
  <1>5. CASE OriginalRan
    BY <1>5 DEF OriginalRan, OriginalEnds, ledgers
  <1>6. CASE OriginalRaised
    BY <1>6 DEF OriginalRaised, OriginalEnds, ledgers
  <1>7. CASE Detect
    <2>1. Triggered(original) \in BOOLEAN
      BY DEF Triggered, ExecutionRecord
    <2>2. evidence' \in Seq([at: Ats, triggered: BOOLEAN])
      BY <1>7, <2>1 DEF Detect
    <2> QED
      BY <1>7, <2>2 DEF Detect, Triggered, Ats
  <1>8. CASE Materialized
    BY <1>8 DEF Materialized, ledgers, Sandbox
  <1>9. CASE EnterReplay
    BY <1>9 DEF EnterReplay, ledgers, Sandbox
  <1>10. CASE JudgeRaises
    BY <1>10 DEF JudgeRaises, ledgers
  <1>11. CASE UNCHANGED vars
    BY <1>11 DEF vars, ledgers
  <1> QED
    BY <1>1, <1>2, <1>3, <1>4, <1>5, <1>6, <1>7, <1>8, <1>9, <1>10, <1>11
       DEF Next, LedgerSteps

(* The replay ended: a pair with a triggering original run is recorded.       *)
LEMMA PairStep ==
    ASSUME IInv, ReplayRan \/ ReplayRaised \/ MaterializeRaised
    PROVE  IInv'
  <1> USE RecordTypes DEF IInv
  <1> DEFINE Directories == [at: Ats, kind: {"original", "bundle", "replay"}]
  <1>1. PICK record \in ReplayRecord, left \in SUBSET Directories : ReplayEnds(record, left)
    <2>1. dirs \cup {Sandbox("bundle")} \subseteq Directories /\ dirs \subseteq Directories
      BY DEF Sandbox, TypeOK, PassPosition, ReplayRan, ReplayRaised, MaterializeRaised
    <2>2. AfterReplay \in SUBSET Directories
      BY <2>1 DEF AfterReplay
    <2>3. CASE ReplayRan
      BY <2>2, <2>3 DEF ReplayRan
    <2>4. CASE ReplayRaised
      BY <2>2, <2>4 DEF ReplayRaised
    <2>5. CASE MaterializeRaised
      BY <2>1, <2>5 DEF MaterializeRaised
    <2> QED
      BY <2>3, <2>4, <2>5
  <1>2. /\ pc \in {"ablate", "install", "replay_running"}
        /\ Dynamic /\ at \in Ats
        /\ original.material > 0 /\ original.followed
    BY DEF ReplayRan, ReplayRaised, MaterializeRaised, PassPosition, DynamicSteps
  <1> DEFINE p == [at |-> at, original |-> original, replay |-> record]
             S == [at: Ats, original: ExecutionRecord, replay: ReplayRecord]
  <1>3. p \in S /\ pairs \in Seq(S) /\ pairs' = Append(pairs, p)
    BY <1>1, <1>2 DEF ReplayEnds, TypeOK
  <1>4. /\ pairs' \in Seq(S) /\ Len(pairs') = Len(pairs) + 1
        /\ DOMAIN pairs' = 1..Len(pairs) + 1 /\ DOMAIN pairs = 1..Len(pairs)
        /\ Len(pairs) \in Nat
        /\ \A i \in 1..Len(pairs) : pairs'[i] = pairs[i]
        /\ pairs'[Len(pairs) + 1] = p
    <2> HIDE DEF p, S
    <2> QED
      BY <1>3, AppendFacts
  <1>5. UNCHANGED <<setup, at, authorizations, decisions, verdicts>> /\ pc' = "authorize"
    BY <1>1 DEF ReplayEnds
  <1>6. TypeOK'
    BY <1>1, <1>4 DEF ReplayEnds, TypeOK
  <1>7. PassPosition' /\ ListsInStep'
    <2>1. PassPosition'
      BY <1>2, <1>5 DEF PassPosition, DynamicSteps
    <2>2. Latest(pairs)'.at = at
      BY <1>4 DEF Latest
    <2>3. /\ Len(pairs) = Len(verdicts) /\ Len(authorizations) = Len(verdicts)
          /\ Len(decisions) = Len(verdicts)
          /\ Len(verdicts) \in Nat
      BY <1>2 DEF ListsInStep, Ahead, TypeOK
    <2> QED
      <3>1. Len(pairs') = Len(verdicts') + 1 /\ Len(authorizations') = Len(verdicts') + 0
            /\ Len(decisions') = Len(verdicts') + 0
        BY <2>3, <1>4, <1>5
      <3>2. ListsInStep'
        BY <2>2, <3>1, <1>5 DEF ListsInStep, Ahead
      <3> QED
        BY <2>1, <3>2
  <1>8. PairsTriggered'
    BY <1>2, <1>4 DEF PairsTriggered
  <1>9. AuthorizationsGrounded'
    BY <1>4, <1>5 DEF AuthorizationsGrounded, AuthorizationGrounds, Dynamic
  <1>10. DecisionsGrounded'
    BY <1>4, <1>5 DEF DecisionsGrounded, NecessityGrounds, ShowsRemoval, Dynamic
  <1>11. VerdictsCombine'
    BY <1>5 DEF VerdictsCombine, Dynamic
  <1> QED
    BY <1>6, <1>7, <1>8, <1>9, <1>10, <1>11

(* The pair that the judges look at is the last one, of the current task.     *)
LEMMA CurrentPair ==
    ASSUME IInv, Dynamic, pc \in {"authorize", "judge", "conclude"}
    PROVE  /\ Len(verdicts) \in Nat
           /\ Len(pairs) = Len(verdicts) + 1 /\ Len(pairs) \in DOMAIN pairs
           /\ Pair = pairs[Len(pairs)] /\ Pair.at = at
           /\ Pair.original \in ExecutionRecord /\ Pair.replay \in ReplayRecord
           /\ Pair.original.realized \in Nat
  <1>1. Len(pairs) = Len(verdicts) + 1 /\ Latest(pairs).at = at
    BY DEF IInv, ListsInStep, Ahead
  <1>2. Len(verdicts) \in Nat /\ DOMAIN pairs = 1..Len(pairs)
    BY DEF IInv, TypeOK
  <1>3. Len(pairs) \in DOMAIN pairs
    BY <1>1, <1>2
  <1>4. pairs[Len(pairs)] \in [at: Ats, original: ExecutionRecord, replay: ReplayRecord]
    BY <1>3, ElementType DEF IInv, TypeOK
  <1>5. /\ pairs[Len(pairs)].original \in ExecutionRecord
        /\ pairs[Len(pairs)].replay \in ReplayRecord
    BY <1>4
  <1>6. pairs[Len(pairs)].original.realized \in Nat
    BY <1>5 DEF ExecutionRecord
  <1> QED
    BY <1>1, <1>2, <1>3, <1>5, <1>6 DEF Pair, Latest

(* A candidate none of whose events was recovered stays inconclusive.         *)
LEMMA UnjudgedAlone == FromComponents(Aggregate(<<Unjudged>>)) = "inconclusive"
  BY DEF FromComponents, Aggregate, Unjudged, Components

LEMMA InstancesGround ==
    ASSUME NEW n \in Nat \ {0}, NEW instances \in [1..n -> Judgment]
    PROVE  /\ instances \in Seq(Judgment) /\ Len(instances) = n
           /\ FromComponents(Aggregate(instances)) \in AuthorizationLabels
           /\ FromComponents(Aggregate(instances)) = "unauthorized" =>
                 \E k \in DOMAIN instances, c \in Components : instances[k][c] = "false"
           /\ FromComponents(Aggregate(instances)) = "authorized" =>
                 \A k \in DOMAIN instances, c \in Components : instances[k][c] = "true"
  <1>1. instances \in Seq(Judgment) /\ Len(instances) = n
    BY FunctionIsSeq
  <1>2. Aggregate(instances) \in Judgment
    BY <1>1, AggregateByInstance
  <1>3. FromComponents(Aggregate(instances)) \in AuthorizationLabels
    BY <1>2, LabelTypes
  <1> QED
    BY <1>1, <1>3, AggregateByInstance

LEMMA AuthorizeAppends ==
    ASSUME IInv, Authorize
    PROVE  \E a \in [at: Ats, instances: Seq(Judgment), label: AuthorizationLabels] :
              /\ authorizations' = Append(authorizations, a)
              /\ a.at = at
              /\ Dynamic => AuthorizationGrounds(a, Pair)
  <1> DEFINE record(instances, label) == [at |-> at, instances |-> instances, label |-> label]
  <1>0. at \in Ats
    BY DEF Authorize, IInv, PassPosition
  <1>1. CASE ~Dynamic
    <2>1. PICK instances \in [1..1 -> Judged] :
             authorizations' = Append(authorizations, record(instances, "inconclusive"))
      BY <1>1 DEF Authorize
    <2>2. instances \in Seq(Judgment)
      BY RecordTypes, FunctionIsSeq
    <2>3. "inconclusive" \in AuthorizationLabels
      BY DEF AuthorizationLabels
    <2> QED
      BY <1>0, <1>1, <2>1, <2>2, <2>3
  <1>2. CASE Dynamic /\ Pair.original.realized = 0
    <2>1. authorizations' = Append(authorizations, record(<<Unjudged>>, "inconclusive"))
      BY <1>2, UnjudgedAlone DEF Authorize
    <2>2. <<Unjudged>> \in Seq(Judgment) /\ "inconclusive" \in AuthorizationLabels
      BY RecordTypes DEF AuthorizationLabels
    <2>3. AuthorizationGrounds(record(<<Unjudged>>, "inconclusive"), Pair)
      BY DEF AuthorizationGrounds
    <2> QED
      BY <1>0, <2>1, <2>2, <2>3
  <1>3. CASE Dynamic /\ Pair.original.realized # 0
    <2>1. PICK instances \in [1..Pair.original.realized -> Judged] :
             authorizations' = Append(authorizations,
                                      record(instances, FromComponents(Aggregate(instances))))
      BY <1>3 DEF Authorize
    <2>2. Pair.original.realized \in Nat \ {0}
      BY <1>3, CurrentPair DEF Authorize
    <2>3. instances \in [1..Pair.original.realized -> Judgment]
      BY RecordTypes
    <2> DEFINE label == FromComponents(Aggregate(instances))
    <2>4. /\ instances \in Seq(Judgment) /\ Len(instances) = Pair.original.realized
          /\ label \in AuthorizationLabels
          /\ label = "unauthorized" =>
                \E k \in DOMAIN instances, c \in Components : instances[k][c] = "false"
          /\ label = "authorized" =>
                \A k \in DOMAIN instances, c \in Components : instances[k][c] = "true"
      BY <2>2, <2>3, InstancesGround
    <2>5. authorizations' = Append(authorizations, record(instances, label))
      BY <2>1
    <2> HIDE DEF label
    <2>6. AuthorizationGrounds(record(instances, label), Pair)
      BY <2>2, <2>4 DEF AuthorizationGrounds
    <2> QED
      BY <1>0, <2>4, <2>5, <2>6
  <1> QED
    BY <1>1, <1>2, <1>3

(* The authorization judge's answer rests on the events of the current pair.  *)
LEMMA AuthorizeStep ==
    ASSUME IInv, Authorize
    PROVE  IInv'
  <1> DEFINE S == [at: Ats, instances: Seq(Judgment), label: AuthorizationLabels]
  <1>1. PICK a \in S : /\ authorizations' = Append(authorizations, a)
                       /\ a.at = at
                       /\ Dynamic => AuthorizationGrounds(a, Pair)
    BY AuthorizeAppends
  <1>2. pc = "authorize" /\ pc' = "judge" /\ at \in Ats
        /\ UNCHANGED <<setup, at, original, dirs, tasks, evidence, pairs, decisions, verdicts,
                       descriptors>>
    BY DEF Authorize, IInv, PassPosition
  <1>3. authorizations \in Seq(S)
    BY DEF IInv, TypeOK
  <1>4. /\ authorizations' \in Seq(S) /\ Len(authorizations') = Len(authorizations) + 1
        /\ DOMAIN authorizations' = 1..Len(authorizations) + 1
        /\ DOMAIN authorizations = 1..Len(authorizations)
        /\ Len(authorizations) \in Nat
        /\ \A i \in 1..Len(authorizations) : authorizations'[i] = authorizations[i]
        /\ authorizations'[Len(authorizations) + 1] = a
    <2> HIDE DEF S
    <2> QED
      BY <1>1, <1>3, AppendFacts
  <1>5. TypeOK'
    BY <1>2, <1>4 DEF IInv, TypeOK
  <1>6. PassPosition'
    BY <1>2 DEF PassPosition, DynamicSteps
  <1>7. ListsInStep'
    <2>1. /\ Dynamic => Len(pairs) = Len(verdicts) + 1 /\ Latest(pairs).at = at
          /\ Len(authorizations) = Len(verdicts) + 0
          /\ Len(decisions) = Len(verdicts) + 0
          /\ Len(verdicts) \in Nat
      BY <1>2 DEF IInv, TypeOK, ListsInStep, Ahead
    <2>2. Latest(authorizations)'.at = at
      BY <1>1, <1>4 DEF Latest
    <2>3. Len(authorizations') = Len(verdicts') + 1 /\ Len(decisions') = Len(verdicts') + 0
      BY <2>1, <1>2, <1>4
    <2> QED
      BY <1>2, <2>1, <2>2, <2>3 DEF ListsInStep, Ahead, Latest, Dynamic
  <1>8. PairsTriggered' /\ DecisionsGrounded'
    BY <1>2 DEF IInv, PairsTriggered, DecisionsGrounded, NecessityGrounds, ShowsRemoval, Dynamic
  <1>9. AuthorizationsGrounded'
    <2> SUFFICES ASSUME Dynamic, NEW i \in 1..Len(authorizations) + 1
                 PROVE  /\ i \in DOMAIN pairs /\ authorizations'[i].at = pairs[i].at
                        /\ AuthorizationGrounds(authorizations'[i], pairs[i])
      <3>1. pairs' = pairs /\ (Dynamic' <=> Dynamic)
        BY <1>2 DEF Dynamic
      <3>2. \A i : AuthorizationGrounds(authorizations[i], pairs[i])'
                     <=> AuthorizationGrounds(authorizations'[i], pairs[i])
        BY <3>1 DEF AuthorizationGrounds
      <3> QED
        BY <1>4, <3>1, <3>2 DEF AuthorizationsGrounded
    <2>1. CASE i \in 1..Len(authorizations)
      BY <2>1, <1>4 DEF IInv, AuthorizationsGrounded
    <2>2. CASE i = Len(authorizations) + 1
      <3>1. Len(authorizations) = Len(verdicts) + 0
        BY <1>2 DEF IInv, ListsInStep, Ahead
      <3>2. i = Len(pairs) /\ i \in DOMAIN pairs /\ pairs[i] = Pair /\ Pair.at = at
        BY <2>2, <3>1, <1>2, CurrentPair
      <3> QED
        BY <3>2, <2>2, <1>4, <1>1
    <2> QED
      BY <2>1, <2>2, <1>4
  <1>10. VerdictsCombine'
    BY <1>2, <1>4 DEF IInv, VerdictsCombine, Dynamic
  <1> QED
    BY <1>5, <1>6, <1>7, <1>8, <1>9, <1>10 DEF IInv

(* A label that is not inconclusive needs evidence of the removal.            *)
LEMMA ContractNeedsRemoval ==
    ASSUME IInv, Dynamic, pc = "judge",
           NEW doubt \in BOOLEAN, NEW core \in BOOLEAN, NEW goal \in BOOLEAN,
           LabelForContract(ReplayEvidence(doubt), core, goal) # "inconclusive"
    PROVE  /\ ShowsRemoval(Pair)
           /\ LabelForContract(ReplayEvidence(doubt), core, goal) = "unnecessary"
                 <=> core /\ goal
  BY DEF LabelForContract, ReplayEvidence, RemovalVerified, GoalSufficient, ShowsRemoval

LEMMA NecessityAppends ==
    ASSUME IInv,
           NecessityAccepted \/ NecessityUnresolved \/ NecessityFallback \/ NecessityPredicted
    PROVE  \E d \in [at: Ats, label: NecessityLabels, core: BOOLEAN, goal: BOOLEAN,
                     resolved: BOOLEAN] :
              /\ Decide(d.label, d.core, d.goal, d.resolved)
              /\ decisions' = Append(decisions, d)
              /\ d.at = at
              /\ Dynamic => NecessityGrounds(d, Pair)
  <1> DEFINE D == [at: Ats, label: NecessityLabels, core: BOOLEAN, goal: BOOLEAN,
                   resolved: BOOLEAN]
             record(label, core, goal, resolved) ==
                 [at |-> at, label |-> label, core |-> core, goal |-> goal,
                  resolved |-> resolved]
             Goal == \E d \in D : /\ Decide(d.label, d.core, d.goal, d.resolved)
                                  /\ decisions' = Append(decisions, d)
                                  /\ d.at = at
                                  /\ Dynamic => NecessityGrounds(d, Pair)
  <1> SUFFICES Goal
    OBVIOUS
  <1>0. pc = "judge" /\ at \in Ats
    BY DEF NecessityAccepted, NecessityUnresolved, NecessityFallback, NecessityPredicted, IInv,
           PassPosition
  <1>1. ASSUME NEW label \in NecessityLabels, NEW core \in BOOLEAN, NEW goal \in BOOLEAN,
               NEW resolved \in BOOLEAN, Decide(label, core, goal, resolved),
               Dynamic /\ label # "inconclusive" =>
                   /\ resolved /\ ShowsRemoval(Pair)
                   /\ label = "unnecessary" <=> core /\ goal
        PROVE  Goal
    <2> DEFINE d == record(label, core, goal, resolved)
    <2>1. /\ d \in D /\ d.at = at /\ d.label = label /\ d.core = core /\ d.goal = goal
          /\ d.resolved = resolved
      BY <1>0
    <2>2. decisions' = Append(decisions, d)
      BY <1>1 DEF Decide
    <2> HIDE DEF d
    <2>3. Dynamic => NecessityGrounds(d, Pair)
      BY <1>1, <2>1 DEF NecessityGrounds
    <2> QED
      BY <1>1, <2>1, <2>2, <2>3
  <1>2. "inconclusive" \in NecessityLabels /\ "necessary" \in NecessityLabels
        /\ "unnecessary" \in NecessityLabels
    BY DEF NecessityLabels
  <1> HIDE DEF Goal
  <1>3. CASE NecessityAccepted
    <2>1. PICK core \in BOOLEAN, goal \in BOOLEAN, doubt \in BOOLEAN :
             Decide(LabelForContract(ReplayEvidence(doubt), core, goal), core, goal, TRUE)
      BY <1>3 DEF NecessityAccepted
    <2> QED
      BY <1>0, <1>1, <2>1, LabelTypes, ContractNeedsRemoval
  <1>4. CASE NecessityUnresolved
    <2>1. PICK core \in BOOLEAN :
             Decide("inconclusive", core, Pair.replay.output = "equal", FALSE)
      BY <1>4 DEF NecessityUnresolved
    <2> QED
      BY <1>1, <1>2, <2>1
  <1>5. CASE NecessityFallback
    <2> DEFINE goal == Pair.replay.output = "equal"
    <2>1. PICK core \in BOOLEAN :
             Decide(LabelForContract(ReplayEvidence(FALSE), core, goal), core, goal, TRUE)
      BY <1>5 DEF NecessityFallback
    <2>2. goal \in BOOLEAN
      OBVIOUS
    <2> HIDE DEF goal
    <2> QED
      BY <1>0, <1>1, <2>1, <2>2, LabelTypes, ContractNeedsRemoval
  <1>6. CASE NecessityPredicted
    <2>1. ~Dynamic
      BY <1>6 DEF NecessityPredicted
    <2>2. CASE Decide("inconclusive", FALSE, FALSE, FALSE)
      BY <1>1, <1>2, <2>1, <2>2
    <2>3. ASSUME NEW executes \in BOOLEAN, NEW core \in BOOLEAN, NEW goal \in BOOLEAN,
                 NEW label,
                 label = IF ~executes THEN "inconclusive"
                         ELSE IF core /\ goal THEN "unnecessary" ELSE "necessary",
                 Decide(label, core, goal, TRUE)
          PROVE  Goal
      <3>1. label \in NecessityLabels
        BY <1>2, <2>3
      <3> QED
        BY <1>1, <3>1, <2>1, <2>3
    <2> QED
      BY <1>6, <2>2, <2>3 DEF NecessityPredicted
  <1> QED
    BY <1>3, <1>4, <1>5, <1>6

(* The necessity judge's answer rests on the replay of the current pair.      *)
LEMMA NecessityStep ==
    ASSUME IInv,
           NecessityAccepted \/ NecessityUnresolved \/ NecessityFallback \/ NecessityPredicted
    PROVE  IInv'
  <1> DEFINE S == [at: Ats, label: NecessityLabels, core: BOOLEAN, goal: BOOLEAN,
                   resolved: BOOLEAN]
  <1>1. PICK d \in S : /\ Decide(d.label, d.core, d.goal, d.resolved)
                       /\ decisions' = Append(decisions, d)
                       /\ d.at = at
                       /\ Dynamic => NecessityGrounds(d, Pair)
    BY NecessityAppends
  <1>2. pc = "judge" /\ pc' = "conclude" /\ at \in Ats
        /\ UNCHANGED <<setup, at, original, dirs, tasks, evidence, pairs, authorizations,
                       verdicts, descriptors>>
    BY <1>1 DEF NecessityAccepted, NecessityUnresolved, NecessityFallback, NecessityPredicted,
                Decide, IInv, PassPosition
  <1>3. decisions \in Seq(S)
    BY DEF IInv, TypeOK
  <1>4. /\ decisions' \in Seq(S) /\ Len(decisions') = Len(decisions) + 1
        /\ DOMAIN decisions' = 1..Len(decisions) + 1
        /\ DOMAIN decisions = 1..Len(decisions)
        /\ Len(decisions) \in Nat
        /\ \A i \in 1..Len(decisions) : decisions'[i] = decisions[i]
        /\ decisions'[Len(decisions) + 1] = d
    <2> HIDE DEF S
    <2> QED
      BY <1>1, <1>3, AppendFacts
  <1>5. TypeOK'
    BY <1>2, <1>4 DEF IInv, TypeOK
  <1>6. PassPosition'
    BY <1>2 DEF PassPosition, DynamicSteps
  <1>7. ListsInStep'
    <2>1. /\ Dynamic => Len(pairs) = Len(verdicts) + 1 /\ Latest(pairs).at = at
          /\ Len(authorizations) = Len(verdicts) + 1
          /\ Latest(authorizations).at = at
          /\ Len(decisions) = Len(verdicts) + 0
          /\ Len(verdicts) \in Nat
      BY <1>2 DEF IInv, TypeOK, ListsInStep, Ahead
    <2>2. Latest(decisions)'.at = at
      BY <1>1, <1>4 DEF Latest
    <2>3. Len(decisions') = Len(verdicts') + 1
      BY <2>1, <1>2, <1>4
    <2> QED
      BY <1>2, <2>1, <2>2, <2>3 DEF ListsInStep, Ahead, Latest, Dynamic
  <1>8. PairsTriggered' /\ AuthorizationsGrounded'
    BY <1>2 DEF IInv, PairsTriggered, AuthorizationsGrounded, AuthorizationGrounds, Dynamic
  <1>9. DecisionsGrounded'
    <2> SUFFICES ASSUME Dynamic, NEW i \in 1..Len(decisions) + 1
                 PROVE  /\ i \in DOMAIN pairs /\ decisions'[i].at = pairs[i].at
                        /\ NecessityGrounds(decisions'[i], pairs[i])
      <3>1. pairs' = pairs /\ (Dynamic' <=> Dynamic)
        BY <1>2 DEF Dynamic
      <3>2. \A i : NecessityGrounds(decisions[i], pairs[i])'
                     <=> NecessityGrounds(decisions'[i], pairs[i])
        BY <3>1 DEF NecessityGrounds, ShowsRemoval
      <3> QED
        BY <1>4, <3>1, <3>2 DEF DecisionsGrounded
    <2>1. CASE i \in 1..Len(decisions)
      BY <2>1, <1>4 DEF IInv, DecisionsGrounded
    <2>2. CASE i = Len(decisions) + 1
      <3>1. Len(decisions) = Len(verdicts) + 0
        BY <1>2 DEF IInv, ListsInStep, Ahead
      <3>2. i = Len(pairs) /\ i \in DOMAIN pairs /\ pairs[i] = Pair /\ Pair.at = at
        BY <2>2, <3>1, <1>2, CurrentPair
      <3> QED
        BY <3>2, <2>2, <1>4, <1>1
    <2> QED
      BY <2>1, <2>2, <1>4
  <1>10. VerdictsCombine'
    BY <1>2, <1>4 DEF IInv, VerdictsCombine, Dynamic
  <1> QED
    BY <1>5, <1>6, <1>7, <1>8, <1>9, <1>10 DEF IInv

LEMMA ElementLabels ==
    ASSUME IInv
    PROVE  /\ \A i \in DOMAIN authorizations : authorizations[i].label \in AuthorizationLabels
           /\ \A i \in DOMAIN decisions : decisions[i].label \in NecessityLabels
  <1> DEFINE A == [at: Ats, instances: Seq(Judgment), label: AuthorizationLabels]
             D == [at: Ats, label: NecessityLabels, core: BOOLEAN, goal: BOOLEAN,
                   resolved: BOOLEAN]
  <1>1. authorizations \in Seq(A) /\ decisions \in Seq(D)
    BY DEF IInv, TypeOK
  <1>2. /\ \A i \in DOMAIN authorizations : authorizations[i] \in A
        /\ \A i \in DOMAIN decisions : decisions[i] \in D
    <2> HIDE DEF A, D
    <2> QED
      BY <1>1, ElementType
  <1> QED
    BY <1>2

(* The verdict combines the last authorization and the last decision.         *)
LEMMA ConcludeStep ==
    ASSUME IInv, Conclude
    PROVE  IInv'
  <1> DEFINE label == IF Dynamic
                      THEN Combine(Latest(authorizations).label, Latest(decisions).label,
                                   Candidate \in Relevant)
                      ELSE "inconclusive"
             v == [at |-> at, authorization |-> Latest(authorizations).label,
                   necessity |-> Latest(decisions).label, label |-> label]
             S == [at: Ats, authorization: AuthorizationLabels, necessity: NecessityLabels,
                   label: FinalLabels]
  <1>1. /\ pc = "conclude" /\ pc' = "next" /\ at \in Ats /\ at' = at + 1
        /\ UNCHANGED <<setup, original, dirs, tasks, evidence, pairs, authorizations, decisions>>
        /\ descriptors' = Append(descriptors, at)
        /\ verdicts' = Append(verdicts, v)
    BY DEF Conclude, IInv, PassPosition
  <1>2. /\ Dynamic => Len(pairs) = Len(verdicts) + 1
        /\ Len(authorizations) = Len(verdicts) + 1 /\ Latest(authorizations).at = at
        /\ Len(decisions) = Len(verdicts) + 1 /\ Latest(decisions).at = at
        /\ Len(verdicts) \in Nat
    BY <1>1 DEF IInv, TypeOK, ListsInStep, Ahead
  <1>3. /\ Len(verdicts) + 1 \in DOMAIN authorizations
        /\ Len(verdicts) + 1 \in DOMAIN decisions
        /\ Latest(authorizations) = authorizations[Len(verdicts) + 1]
        /\ Latest(decisions) = decisions[Len(verdicts) + 1]
    <2>1. DOMAIN authorizations = 1..Len(authorizations) /\ DOMAIN decisions = 1..Len(decisions)
      BY DEF IInv, TypeOK
    <2> QED
      BY <2>1, <1>2 DEF Latest
  <1>4. Latest(authorizations).label \in AuthorizationLabels
        /\ Latest(decisions).label \in NecessityLabels
    BY <1>3, ElementLabels
  <1>5. label \in FinalLabels
    <2>1. "inconclusive" \in FinalLabels
      BY DEF FinalLabels
    <2>2. Combine(Latest(authorizations).label, Latest(decisions).label, Candidate \in Relevant)
             \in FinalLabels
      BY LabelTypes
    <2> QED
      BY <2>1, <2>2
  <1>6. v \in S /\ verdicts \in Seq(S)
    <2> HIDE DEF label
    <2> QED
      BY <1>1, <1>4, <1>5 DEF IInv, TypeOK
  <1>7. /\ verdicts' \in Seq(S) /\ Len(verdicts') = Len(verdicts) + 1
        /\ DOMAIN verdicts' = 1..Len(verdicts) + 1
        /\ DOMAIN verdicts = 1..Len(verdicts)
        /\ \A i \in 1..Len(verdicts) : verdicts'[i] = verdicts[i]
        /\ verdicts'[Len(verdicts) + 1] = v
    <2> HIDE DEF v, S
    <2> QED
      BY <1>1, <1>6, AppendFacts
  <1>8. descriptors' \in Seq(Ats) /\ at' \in 1..Len(Agenda) + 1
    <2>1. descriptors \in Seq(Ats)
      BY DEF IInv, TypeOK
    <2> QED
      BY <1>1, <2>1, AppendFacts, RecordTypes DEF Ats
  <1>9. TypeOK'
    BY <1>1, <1>7, <1>8 DEF IInv, TypeOK
  <1>10. PassPosition'
    BY <1>1 DEF PassPosition, DynamicSteps
  <1>11. ListsInStep'
    <2>1. /\ Dynamic => Len(pairs') = Len(verdicts') + 0
          /\ Len(authorizations') = Len(verdicts') + 0
          /\ Len(decisions') = Len(verdicts') + 0
      BY <1>1, <1>2, <1>7
    <2> QED
      BY <1>1, <2>1 DEF ListsInStep, Ahead, Dynamic
  <1>12. PairsTriggered'
    BY <1>1 DEF IInv, PairsTriggered
  <1>13. AuthorizationsGrounded' /\ DecisionsGrounded'
    BY <1>1 DEF IInv, AuthorizationsGrounded, AuthorizationGrounds, DecisionsGrounded,
                NecessityGrounds, ShowsRemoval, Dynamic
  <1>14. VerdictsCombine'
    <2> DEFINE Combined(verdict, i) ==
                  /\ i \in DOMAIN authorizations /\ i \in DOMAIN decisions
                  /\ verdict.at = authorizations[i].at
                  /\ verdict.at = decisions[i].at
                  /\ verdict.label =
                        IF Dynamic
                        THEN Combine(authorizations[i].label, decisions[i].label,
                                     Agenda[verdict.at].cand \in Relevant)
                        ELSE "inconclusive"
    <2>1. \A i \in 1..Len(verdicts) : Combined(verdicts[i], i)
      BY <1>7 DEF IInv, VerdictsCombine
    <2>2. Combined(v, Len(verdicts) + 1)
      <3>1. v.at = at /\ v.label = label
        OBVIOUS
      <3>2. label = IF Dynamic
                    THEN Combine(Latest(authorizations).label, Latest(decisions).label,
                                 Agenda[at].cand \in Relevant)
                    ELSE "inconclusive"
        BY DEF Candidate
      <3> HIDE DEF v, label
      <3> QED
        BY <3>1, <3>2, <1>2, <1>3
    <2>3. \A i \in 1..Len(verdicts) + 1 : Combined(verdicts'[i], i)
      <3> HIDE DEF Combined, v
      <3> QED
        BY <1>2, <1>7, <2>1, <2>2
    <2> QED
      BY <1>1, <1>7, <2>3 DEF VerdictsCombine, Dynamic
  <1> QED
    BY <1>9, <1>10, <1>11, <1>12, <1>13, <1>14 DEF IInv

LEMMA NextIInv == IInv /\ [Next]_vars => IInv'
  BY QuietStep, PairStep, AuthorizeStep, NecessityStep, ConcludeStep DEF LedgerSteps

(* Whatever the agenda holds and the environment answers, the lists, their     *)
(* lengths and their contents stay as IInv says.                              *)
THEOREM SpecIInv == Spec => []IInv
  <1>1. Init => IInv
    BY InitIInv
  <1>2. IInv /\ [Next]_vars => IInv'
    BY NextIInv
  <1> QED
    BY <1>1, <1>2, PTL DEF Spec

(* Every list of the validation holds records of its type, with labels of its *)
(* own taxonomy.                                                              *)
THEOREM TypeCorrect == Spec => []TypeOK
  <1>1. IInv => TypeOK
    BY DEF IInv
  <1> QED
    BY <1>1, SpecIInv, PTL

(* In dynamic mode the i-th verdict is about the i-th pair.                   *)
LEMMA VerdictsTellOneTask ==
    ASSUME IInv, Dynamic, NEW i \in DOMAIN verdicts
    PROVE  SameTask(i)
  BY DEF IInv, VerdictsCombine, AuthorizationsGrounded, SameTask

(* No overprivilege report without runtime evidence of its own task.          *)
THEOREM ReportsAreEvidenced == Spec => []OverprivilegeIsEvidenced
  <1>1. IInv => OverprivilegeIsEvidenced
    <2> SUFFICES ASSUME IInv, NEW i \in DOMAIN verdicts,
                        verdicts[i].label = "overprivileged"
                 PROVE  /\ Dynamic /\ Agenda[verdicts[i].at].cand \in Relevant
                        /\ SameTask(i)
                        /\ pairs[i].original.material > 0 /\ pairs[i].original.followed
                        /\ \/ /\ pairs[i].original.realized > 0
                              /\ \E k \in DOMAIN authorizations[i].instances,
                                    c \in Components :
                                    authorizations[i].instances[k][c] = "false"
                           \/ /\ ShowsRemoval(pairs[i])
                              /\ decisions[i].resolved /\ decisions[i].core
                              /\ decisions[i].goal
      BY DEF OverprivilegeIsEvidenced
    <2>1. Dynamic /\ Agenda[verdicts[i].at].cand \in Relevant
          /\ (authorizations[i].label = "unauthorized" \/ decisions[i].label = "unnecessary")
      <3>1. verdicts[i].label =
               IF Dynamic THEN Combine(authorizations[i].label, decisions[i].label,
                                       Agenda[verdicts[i].at].cand \in Relevant)
               ELSE "inconclusive"
        BY DEF IInv, VerdictsCombine
      <3>2. i \in DOMAIN authorizations /\ i \in DOMAIN decisions
        BY DEF IInv, VerdictsCombine
      <3>3. authorizations[i].label \in AuthorizationLabels
            /\ decisions[i].label \in NecessityLabels
        BY <3>2, ElementLabels
      <3>4. /\ Dynamic /\ Agenda[verdicts[i].at].cand \in Relevant
            /\ OverprivilegeReasons(authorizations[i].label, decisions[i].label) # {}
        BY <3>1 DEF Combine
      <3> QED
        BY <3>3, <3>4, ReasonsAreLabels
    <2>2. SameTask(i)
      BY <2>1, VerdictsTellOneTask
    <2>3. pairs[i].original.material > 0 /\ pairs[i].original.followed
      BY <2>2 DEF IInv, PairsTriggered, SameTask
    <2>4. /\ AuthorizationGrounds(authorizations[i], pairs[i])
          /\ NecessityGrounds(decisions[i], pairs[i])
      BY <2>1, <2>2 DEF IInv, AuthorizationsGrounded, DecisionsGrounded, SameTask
    <2> QED
      BY <2>1, <2>2, <2>3, <2>4 DEF AuthorizationGrounds, NecessityGrounds
  <1> QED
    BY <1>1, SpecIInv, PTL

(* No privilege-relevant candidate is cleared without it either.              *)
THEOREM ClearancesAreEvidenced == Spec => []ClearedIsEvidenced
  <1>1. IInv => ClearedIsEvidenced
    <2> SUFFICES ASSUME IInv, NEW i \in DOMAIN verdicts,
                        verdicts[i].label = "not_overprivileged",
                        Agenda[verdicts[i].at].cand \in Relevant
                 PROVE  /\ SameTask(i)
                        /\ pairs[i].original.realized > 0
                        /\ Len(authorizations[i].instances) = pairs[i].original.realized
                        /\ \A k \in DOMAIN authorizations[i].instances, c \in Components :
                              authorizations[i].instances[k][c] = "true"
                        /\ ShowsRemoval(pairs[i])
                        /\ decisions[i].resolved /\ ~(decisions[i].core /\ decisions[i].goal)
      BY DEF ClearedIsEvidenced
    <2>1. Dynamic /\ authorizations[i].label = "authorized" /\ decisions[i].label = "necessary"
      <3>1. verdicts[i].label =
               IF Dynamic THEN Combine(authorizations[i].label, decisions[i].label,
                                       Agenda[verdicts[i].at].cand \in Relevant)
               ELSE "inconclusive"
        BY DEF IInv, VerdictsCombine
      <3> QED
        BY <3>1 DEF Combine
    <2>2. SameTask(i)
      BY <2>1, VerdictsTellOneTask
    <2>3. /\ AuthorizationGrounds(authorizations[i], pairs[i])
          /\ NecessityGrounds(decisions[i], pairs[i])
      BY <2>1, <2>2 DEF IInv, AuthorizationsGrounded, DecisionsGrounded, SameTask
    <2> QED
      BY <2>1, <2>2, <2>3 DEF AuthorizationGrounds, NecessityGrounds
  <1> QED
    BY <1>1, SpecIInv, PTL

-------------------------------------------------------------------------------
(* The lists and the directories *)

LEMMA EntriesOfAppend ==
    ASSUME NEW S, NEW ledger \in Seq(S), NEW entry \in S
    PROVE  Entries(Append(ledger, entry)) = Entries(ledger) \cup {entry}
  <1>1. /\ Len(Append(ledger, entry)) = Len(ledger) + 1
        /\ Len(ledger) \in Nat
        /\ \A i \in 1..Len(ledger) : Append(ledger, entry)[i] = ledger[i]
        /\ Append(ledger, entry)[Len(ledger) + 1] = entry
    BY AppendFacts
  <1> DEFINE longer == Append(ledger, entry)
  <1>2. \A i \in 1..Len(longer) : longer[i] \in Entries(ledger) \cup {entry}
    BY <1>1 DEF Entries
  <1>3. ASSUME NEW e \in Entries(ledger) \cup {entry}
        PROVE  \E i \in 1..Len(longer) : longer[i] = e
    <2>1. CASE e = entry
      BY <1>1, <2>1
    <2>2. CASE e \in Entries(ledger)
      <3>1. PICK i \in 1..Len(ledger) : ledger[i] = e
        BY <2>2 DEF Entries
      <3> QED
        BY <1>1, <3>1
    <2> QED
      BY <2>1, <2>2
  <1> HIDE DEF longer
  <1>4. Entries(longer) = Entries(ledger) \cup {entry}
    BY <1>2, <1>3 DEF Entries
  <1> QED
    BY <1>4 DEF longer

LEMMA EntryTypes ==
    ASSUME TypeOK
    PROVE  /\ \A e \in Entries(evidence) : e \in [at: Ats, triggered: BOOLEAN]
           /\ \A p \in Entries(pairs) :
                 p \in [at: Ats, original: ExecutionRecord, replay: ReplayRecord]
           /\ \A i \in DOMAIN verdicts : verdicts[i].at \in Ats
           /\ at \in Nat
  <1> DEFINE E == [at: Ats, triggered: BOOLEAN]
             P == [at: Ats, original: ExecutionRecord, replay: ReplayRecord]
             V == [at: Ats, authorization: AuthorizationLabels,
                   necessity: NecessityLabels, label: FinalLabels]
  <1>1. evidence \in Seq(E) /\ pairs \in Seq(P) /\ verdicts \in Seq(V)
    BY DEF TypeOK
  <1>2. /\ \A e \in Entries(evidence) : e \in E
        /\ \A p \in Entries(pairs) : p \in P
        /\ \A i \in DOMAIN verdicts : verdicts[i] \in V
    <2> HIDE DEF E, P, V
    <2> QED
      BY <1>1, ElementType DEF Entries
  <1>3. \A i \in DOMAIN verdicts : verdicts[i].at \in Ats
    BY <1>2
  <1>4. at \in Nat
    BY RecordTypes DEF TypeOK
  <1> QED
    BY <1>2, <1>3, <1>4

LEMMA InitLedgerInv == Init => LedgerInv
  BY DEF Init, LedgerInv, EvidenceInStep, PairsInStep, DirsInStep, VerdictsInStep, InOrder,
         Entries, Ablating, TriggeredAt, PairedAt

(* The steps that record neither evidence nor a pair nor a verdict.           *)
LEMMA QuietLedgers ==
    ASSUME IInv, LedgerInv, [Next]_vars,
           ~(Detect \/ Conclude \/ ReplayRan \/ ReplayRaised \/ MaterializeRaised)
    PROVE  LedgerInv'
  <1>1. UNCHANGED <<evidence, pairs, verdicts, descriptors>>
    BY DEF Next, vars, ledgers, SkipTask, StartTask, Return, EnterOriginal, OriginalRan,
           OriginalRaised, OriginalEnds, Materialized, EnterReplay, Authorize,
           NecessityAccepted, NecessityUnresolved, NecessityFallback, NecessityPredicted,
           Decide, JudgeRaises
  <1>2. /\ \A i : TriggeredAt(i)' <=> TriggeredAt(i)
        /\ \A i : PairedAt(i)' <=> PairedAt(i)
        /\ \A i : FailedAt(i)' <=> FailedAt(i)
        /\ Entries(evidence)' = Entries(evidence)
    BY <1>1 DEF TriggeredAt, PairedAt, FailedAt, Entries
  <1>3. at \in Nat /\ (\A e \in Entries(evidence) : e.at \in Nat)
        /\ (\A i \in DOMAIN verdicts : verdicts[i].at \in Nat)
    BY EntryTypes, RecordTypes DEF IInv
  <1>4. /\ \/ pc' = pc
           \/ pc = "next" /\ pc' \notin {"ablate", "install", "replay_running"}
           \/ pc \in {"original", "original_running"}
                 /\ pc' \in {"original_running", "detect"}
           \/ Ablating /\ Ablating'
           \/ pc \in {"authorize", "judge"} /\ pc' \in {"judge", "conclude", "raised"}
        /\ at' = at \/ (pc = "next" /\ pc' = "next" /\ at' = at + 1)
    BY DEF Next, vars, ledgers, SkipTask, StartTask, Return, EnterOriginal, OriginalRan,
           OriginalRaised, OriginalEnds, Materialized, EnterReplay, Authorize,
           NecessityAccepted, NecessityUnresolved, NecessityFallback, NecessityPredicted,
           Decide, JudgeRaises, Ablating
  <1>5. EvidenceInStep'
    BY <1>2, <1>3, <1>4 DEF LedgerInv, EvidenceInStep, Ablating
  <1>6. PairsInStep'
    BY <1>2, <1>4 DEF LedgerInv, PairsInStep, Ablating
  <1>7. VerdictsInStep'
    BY <1>1, <1>3, <1>4 DEF LedgerInv, VerdictsInStep, InOrder
  <1>8. DirsInStep'
    <2> DEFINE Settled(d) == d.kind = "bundle" /\ TriggeredAt(d.at) /\ FailedAt(d.at)
    <2>1. \A d : Settled(d)' <=> Settled(d)
      BY <1>2
    <2> USE DEF LedgerInv, DirsInStep
    <2>2. CASE EnterOriginal
      BY <1>2, <2>2 DEF EnterOriginal, Sandbox
    <2>3. CASE OriginalRan \/ OriginalRaised
      <3>1. pc \in {"original", "original_running"} /\ at' = at /\ pc' = "detect"
            /\ dirs' = dirs \ {Sandbox("original")}
        BY <2>3 DEF OriginalRan, OriginalRaised, OriginalEnds
      <3>2. \A d \in dirs : d.at = at /\ d.kind = "original" => d = Sandbox("original")
        BY DEF IInv, TypeOK, Sandbox
      <3> QED
        BY <1>2, <3>1, <3>2
    <2>4. CASE Materialized
      BY <1>2, <2>4 DEF Materialized, Sandbox
    <2>5. CASE EnterReplay
      BY <1>2, <2>5 DEF EnterReplay, Sandbox
    <2>6. CASE dirs' = dirs /\ pc' = pc /\ at' = at
      BY <1>2, <2>6
    <2>7. CASE /\ dirs' = dirs
               /\ pc \notin {"original_running", "install", "replay_running"}
      BY <1>2, <2>7
    <2>8. \/ EnterOriginal \/ OriginalRan \/ OriginalRaised \/ Materialized \/ EnterReplay
          \/ dirs' = dirs /\ pc' = pc /\ at' = at
          \/ dirs' = dirs /\ pc \notin {"original_running", "install", "replay_running"}
      BY DEF Next, vars, ledgers, SkipTask, StartTask, Return, Authorize,
             NecessityAccepted, NecessityUnresolved, NecessityFallback, NecessityPredicted,
             Decide, JudgeRaises
    <2> QED
      BY <2>2, <2>3, <2>4, <2>5, <2>6, <2>7, <2>8
  <1> QED
    BY <1>5, <1>6, <1>7, <1>8 DEF LedgerInv

(* The detector records the current task, triggered or not.                   *)
LEMMA DetectLedgers ==
    ASSUME IInv, LedgerInv, Detect
    PROVE  LedgerInv'
  <1> DEFINE entry == [at |-> at, triggered |-> Triggered(original)]
  <1>1. /\ pc = "detect" /\ at \in Ats /\ at \in Nat
        /\ UNCHANGED <<dirs, pairs, verdicts, descriptors>>
        /\ IF Triggered(original) THEN pc' = "ablate" /\ at' = at
           ELSE pc' = "next" /\ at' = at + 1
    BY EntryTypes DEF Detect, IInv, PassPosition
  <1>2. Entries(evidence)' = Entries(evidence) \cup {entry}
    <2>1. Triggered(original) \in BOOLEAN
      BY DEF Triggered, IInv, TypeOK, ExecutionRecord
    <2> DEFINE E == [at: Ats, triggered: BOOLEAN]
    <2>2. entry \in E /\ evidence \in Seq(E) /\ evidence' = Append(evidence, entry)
      BY <1>1, <2>1 DEF Detect, IInv, TypeOK
    <2> HIDE DEF entry, E
    <2>3. Entries(evidence') = Entries(evidence) \cup {entry}
      BY <2>2, EntriesOfAppend
    <2> QED
      BY <2>3 DEF Entries
  <1>3. \A e \in Entries(evidence) : e.at < at /\ e.at \in Nat
    BY <1>1, EntryTypes, RecordTypes DEF LedgerInv, EvidenceInStep, IInv
  <1>4. \A i : TriggeredAt(i)' <=> TriggeredAt(i) \/ (i = at /\ Triggered(original))
    <2>1. entry.at = at /\ (entry.triggered <=> Triggered(original))
      OBVIOUS
    <2> HIDE DEF entry
    <2> QED
      BY <1>2, <2>1 DEF TriggeredAt
  <1>5. ~TriggeredAt(at)
    BY <1>1, <1>3 DEF TriggeredAt
  <1>6. \A i : PairedAt(i)' = PairedAt(i) /\ FailedAt(i)' = FailedAt(i)
    BY <1>1 DEF PairedAt, FailedAt, Entries
  <1>7. EvidenceInStep'
    BY <1>1, <1>2, <1>3, <1>4 DEF EvidenceInStep, Ablating
  <1>8. PairsInStep'
    BY <1>1, <1>4, <1>5, <1>6 DEF LedgerInv, PairsInStep, Ablating
  <1>9. DirsInStep'
    BY <1>1, <1>4, <1>6 DEF LedgerInv, DirsInStep
  <1>10. VerdictsInStep'
    <2>1. \A i \in DOMAIN verdicts : verdicts[i].at \in Nat
      BY EntryTypes, RecordTypes DEF IInv
    <2> QED
      BY <1>1, <2>1 DEF LedgerInv, VerdictsInStep, InOrder
  <1> QED
    BY <1>7, <1>8, <1>9, <1>10 DEF LedgerInv

(* The replay ended: its directories go, unless the ablation failed.          *)
LEMMA PairLedgers ==
    ASSUME IInv, LedgerInv, ReplayRan \/ ReplayRaised \/ MaterializeRaised
    PROVE  LedgerInv'
  <1>1. PICK record \in ReplayRecord, left \in SUBSET (dirs \cup {Sandbox("bundle")}) :
           /\ ReplayEnds(record, left)
           /\ \/ pc \in {"install", "replay_running"} /\ left = AfterReplay
              \/ pc = "ablate" /\ record = FailedReplay
    BY RecordTypes DEF ReplayRan, ReplayRaised, MaterializeRaised, AfterReplay
  <1> DEFINE entry == [at |-> at, original |-> original, replay |-> record]
  <1>2. /\ Ablating /\ at \in Ats /\ at \in Nat /\ at' = at /\ pc' = "authorize"
        /\ dirs' = left
        /\ UNCHANGED <<evidence, verdicts, descriptors>>
    BY <1>1, EntryTypes DEF ReplayEnds, Ablating, IInv, PassPosition
  <1>3. Entries(pairs)' = Entries(pairs) \cup {entry}
    <2> DEFINE P == [at: Ats, original: ExecutionRecord, replay: ReplayRecord]
    <2>1. entry \in P /\ pairs \in Seq(P) /\ pairs' = Append(pairs, entry)
      BY <1>1, <1>2 DEF ReplayEnds, IInv, TypeOK
    <2> HIDE DEF entry, P
    <2>2. Entries(pairs') = Entries(pairs) \cup {entry}
      BY <2>1, EntriesOfAppend
    <2> QED
      BY <2>2 DEF Entries
  <1>4. /\ \A i : PairedAt(i)' <=> PairedAt(i) \/ i = at
        /\ \A i : FailedAt(i) => FailedAt(i)'
        /\ record = FailedReplay => \A i : i = at => FailedAt(i)'
    <2>1. entry.at = at /\ entry.replay = record
      OBVIOUS
    <2> HIDE DEF entry
    <2>2. FailedReplay' = FailedReplay
      BY DEF FailedReplay
    <2> QED
      BY <1>3, <2>1, <2>2 DEF PairedAt, FailedAt
  <1>5. /\ Entries(evidence)' = Entries(evidence)
        /\ \A i : TriggeredAt(i)' <=> TriggeredAt(i)
        /\ TriggeredAt(at)
    BY <1>2 DEF TriggeredAt, Entries, LedgerInv, EvidenceInStep
  <1>6. EvidenceInStep'
    BY <1>2, <1>5 DEF LedgerInv, EvidenceInStep, Ablating
  <1>7. PairsInStep'
    BY <1>2, <1>4, <1>5 DEF LedgerInv, PairsInStep, Ablating
  <1>8. VerdictsInStep'
    BY <1>2 DEF LedgerInv, VerdictsInStep, InOrder
  <1>9. DirsInStep'
    <2> SUFFICES ASSUME NEW d \in left
                 PROVE  d.kind = "bundle" /\ TriggeredAt(d.at)' /\ FailedAt(d.at)'
      BY <1>2 DEF DirsInStep
    <2>1. CASE d = Sandbox("bundle") /\ record = FailedReplay
      BY <2>1, <1>4, <1>5 DEF Sandbox
    <2>2. CASE d \in dirs /\ d.kind = "bundle" /\ TriggeredAt(d.at) /\ FailedAt(d.at)
      BY <2>2, <1>4, <1>5
    <2>3. \/ d = Sandbox("bundle") /\ record = FailedReplay
          \/ d \in dirs /\ d.kind = "bundle" /\ TriggeredAt(d.at) /\ FailedAt(d.at)
      <3>1. \A k : d \in dirs /\ d.at = at /\ d.kind = k => d = Sandbox(k)
        BY DEF IInv, TypeOK, Sandbox
      <3> QED
        BY <1>1, <3>1 DEF LedgerInv, DirsInStep, AfterReplay
    <2> QED
      BY <2>1, <2>2, <2>3
  <1> QED
    BY <1>6, <1>7, <1>8, <1>9 DEF LedgerInv

(* The verdict of the current task comes after those of all earlier ones.     *)
LEMMA ConcludeLedgers ==
    ASSUME IInv, LedgerInv, Conclude
    PROVE  LedgerInv'
  <1> DEFINE V == [at: Ats, authorization: AuthorizationLabels,
                   necessity: NecessityLabels, label: FinalLabels]
  <1>1. /\ pc = "conclude" /\ pc' = "next" /\ at \in Ats /\ at \in Nat /\ at' = at + 1
        /\ UNCHANGED <<dirs, evidence, pairs>>
        /\ descriptors' = Append(descriptors, at)
    BY EntryTypes DEF Conclude, IInv, PassPosition
  <1>2. PICK v : v.at = at /\ verdicts' = Append(verdicts, v)
    BY DEF Conclude
  <1>3. /\ \A i : TriggeredAt(i)' <=> TriggeredAt(i)
        /\ \A i : PairedAt(i)' <=> PairedAt(i)
        /\ \A i : FailedAt(i)' <=> FailedAt(i)
        /\ Entries(evidence)' = Entries(evidence)
    BY <1>1 DEF TriggeredAt, PairedAt, FailedAt, Entries
  <1>4. /\ \A e \in Entries(evidence) : e.at \in Nat
        /\ \A i \in DOMAIN verdicts : verdicts[i].at \in Nat
    BY EntryTypes, RecordTypes DEF IInv
  <1>5. EvidenceInStep'
    BY <1>1, <1>3, <1>4 DEF LedgerInv, EvidenceInStep, Ablating
  <1>6. PairsInStep'
    BY <1>1, <1>3 DEF LedgerInv, PairsInStep, Ablating
  <1>7. DirsInStep'
    BY <1>1, <1>3 DEF LedgerInv, DirsInStep
  <1>8. VerdictsInStep'
    <2>1. /\ Len(verdicts') = Len(verdicts) + 1 /\ Len(verdicts) \in Nat
          /\ DOMAIN verdicts' = 1..Len(verdicts) + 1
          /\ DOMAIN verdicts = 1..Len(verdicts)
          /\ \A i \in 1..Len(verdicts) : verdicts'[i] = verdicts[i]
          /\ verdicts'[Len(verdicts) + 1] = v
      BY <1>2 DEF IInv, TypeOK
    <2>2. /\ Len(descriptors') = Len(descriptors) + 1
          /\ \A i \in 1..Len(descriptors) : descriptors'[i] = descriptors[i]
          /\ descriptors'[Len(descriptors) + 1] = at
      BY <1>1, AppendFacts DEF IInv, TypeOK
    <2>3. Len(descriptors) = Len(verdicts)
          /\ \A i \in 1..Len(verdicts) : descriptors[i] = verdicts[i].at /\ verdicts[i].at < at
      BY <2>1 DEF LedgerInv, VerdictsInStep
    <2>4. \A i \in 1..Len(verdicts) + 1 :
             descriptors'[i] = verdicts'[i].at /\ verdicts'[i].at < at'
      BY <1>1, <1>2, <1>4, <2>1, <2>2, <2>3
    <2>5. InOrder(verdicts)'
      <3> SUFFICES ASSUME NEW i \in 1..Len(verdicts) + 1, NEW j \in 1..Len(verdicts) + 1, i < j
                   PROVE  verdicts'[i].at < verdicts'[j].at
        BY <2>1 DEF InOrder
      <3>1. i \in 1..Len(verdicts)
        BY <2>1
      <3>2. CASE j \in 1..Len(verdicts)
        BY <3>1, <3>2, <2>1 DEF LedgerInv, VerdictsInStep, InOrder
      <3>3. CASE j = Len(verdicts) + 1
        BY <3>1, <3>3, <1>2, <2>1, <2>3
      <3> QED
        BY <3>2, <3>3, <2>1
    <2> QED
      BY <2>1, <2>2, <2>3, <2>4, <2>5 DEF VerdictsInStep
  <1> QED
    BY <1>5, <1>6, <1>7, <1>8 DEF LedgerInv

(* Evidence, pairs, directories and verdicts stay in step with the loop.      *)
THEOREM SpecLedgerInv == Spec => [](IInv /\ LedgerInv)
  <1>1. Init => LedgerInv
    BY InitLedgerInv
  <1>2. IInv /\ LedgerInv /\ [Next]_vars => LedgerInv'
    BY QuietLedgers, DetectLedgers, PairLedgers, ConcludeLedgers
  <1> QED
    BY <1>1, <1>2, SpecIInv, PTL DEF Spec

(* No directory of an ablation and no pair without a triggering run.          *)
THEOREM AblationsAreTriggered == Spec => []AblationIsTriggered
  <1>1. IInv /\ LedgerInv => AblationIsTriggered
    <2> SUFFICES ASSUME IInv, LedgerInv PROVE AblationIsTriggered
      OBVIOUS
    <2>1. ASSUME NEW d \in dirs, d.kind \in {"bundle", "replay"}
          PROVE  TriggeredAt(d.at)
      BY <2>1 DEF LedgerInv, DirsInStep, EvidenceInStep, Ablating
    <2>2. \A p \in Entries(pairs) : p.original.material > 0 /\ p.original.followed
      BY DEF Entries, IInv, TypeOK, PairsTriggered
    <2> QED
      BY <2>1, <2>2 DEF AblationIsTriggered, TriggeredAt
  <1> QED
    BY <1>1, SpecLedgerInv, PTL

(* Between two tasks, what is left in the file system is of failed ablations. *)
THEOREM OnlyFailuresLeak == Spec => []OnlyFailedAblationsLeak
  <1>1. IInv /\ LedgerInv => OnlyFailedAblationsLeak
    BY DEF LedgerInv, DirsInStep, FailedAt, OnlyFailedAblationsLeak
  <1> QED
    BY <1>1, SpecLedgerInv, PTL

(* Between two tasks the lists agree entry by entry and in agenda order.      *)
THEOREM LedgersStayAligned == Spec => []LedgersAligned
  <1>1. IInv /\ LedgerInv => LedgersAligned
    <2> SUFFICES ASSUME IInv, LedgerInv, pc \in {"next", "returned"}
                 PROVE  /\ Len(authorizations) = Len(verdicts)
                        /\ Len(decisions) = Len(verdicts)
                        /\ Len(descriptors) = Len(verdicts)
                        /\ InOrder(verdicts)
                        /\ \A i \in DOMAIN verdicts : descriptors[i] = verdicts[i].at
                        /\ Dynamic =>
                              /\ Len(pairs) = Len(verdicts)
                              /\ \A i \in DOMAIN verdicts : SameTask(i)
                              /\ {p.at : p \in Entries(pairs)} =
                                    {e.at : e \in {d \in Entries(evidence) : d.triggered}}
      BY DEF LedgersAligned
    <2>1. /\ Len(authorizations) = Len(verdicts) /\ Len(decisions) = Len(verdicts)
          /\ Dynamic => Len(pairs) = Len(verdicts)
      BY DEF IInv, TypeOK, ListsInStep, Ahead
    <2>2. Dynamic => \A i \in DOMAIN verdicts : SameTask(i)
      BY VerdictsTellOneTask
    <2>3. \A i \in Ats : PairedAt(i) <=> TriggeredAt(i)
      BY DEF LedgerInv, PairsInStep, Ablating
    <2>4. \A e \in Entries(evidence) \cup Entries(pairs) : e.at \in Ats
      BY EntryTypes DEF IInv
    <2>5. {p.at : p \in Entries(pairs)} =
             {e.at : e \in {d \in Entries(evidence) : d.triggered}}
      BY <2>3, <2>4 DEF PairedAt, TriggeredAt
    <2> QED
      BY <2>1, <2>2, <2>5 DEF LedgerInv, VerdictsInStep
  <1> QED
    BY <1>1, SpecLedgerInv, PTL
===============================================================================
