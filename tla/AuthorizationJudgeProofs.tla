----------------------- MODULE AuthorizationJudgeProofs -----------------------
(***************************************************************************)
(* AuthorizationJudge for traces of every length and every answer of the    *)
(* judge: its types, and what its label says of the judged events.          *)
(***************************************************************************)
EXTENDS AuthorizationJudge, SharedFacts

LEMMA JudgmentTypes ==
    /\ Unjudged \in Judgment
    /\ \A r \in Responses : r.components \in Judgment
    /\ \A a \in Actions : Fallback(a) \subseteq Judgment
  <1>1. Unjudged \in Judgment
    BY DEF Unjudged, Judgment, Tri
  <1>2. \A r \in Responses : r.components \in Judgment
    BY DEF Responses
  <1>3. ASSUME NEW a \in Actions, NEW k \in Judgment
        PROVE  [c \in Components |-> IF Denied(a, c) THEN "false"
                                     ELSE IF Available(a, c) THEN k[c] ELSE "null"] \in Judgment
    BY DEF Judgment, Tri
  <1> QED
    BY <1>1, <1>2, <1>3 DEF Fallback

(* A validated response to a grounded event satisfies the contract. *)
LEMMA AcceptedIsAnswered ==
    ASSUME NEW a \in Actions, Configured, NEW r \in Responses, Accepts(a, r)
    PROVE  Answered(a, r.components)
  <1>1. r.components \in Judgment
    BY JudgmentTypes
  <1>2. \A c \in Components : r.components[c] \in Tri
    BY <1>1 DEF Judgment
  <1>3. "operation" \in Components /\ Available(a, "operation")
    BY DEF Components, Available
  <1>4. ASSUME NEW c \in Components, r.components[c] = "false"
        PROVE  Available(a, c)
    BY <1>4 DEF Accepts
  <1>5. ASSUME r.components["operation"] = "false", NeedsObject(a)
        PROVE  a.object
    BY <1>5 DEF Accepts
  <1>6. a.denied => r.components["operation"] = "false"
    BY <1>3 DEF Accepts, Denied
  <1> QED
    BY <1>4, <1>5, <1>6 DEF Answered

LEMMA FallbackIsAnswered ==
    ASSUME NEW a \in Actions, ~Configured, NEW j \in Fallback(a)
    PROVE  Answered(a, j)
  <1>1. PICK k \in Judgment :
           /\ Worded(a, k)
           /\ j = [c \in Components |-> IF Denied(a, c) THEN "false"
                                        ELSE IF Available(a, c) THEN k[c] ELSE "null"]
    BY DEF Fallback
  <1>2. \A c \in Components :
           j[c] = IF Denied(a, c) THEN "false" ELSE IF Available(a, c) THEN k[c] ELSE "null"
    BY <1>1
  <1>3. "operation" \in Components
    BY DEF Components
  <1>4. ASSUME NEW c \in Components, j[c] = "false"
        PROVE  Available(a, c)
    BY <1>2, <1>4 DEF Denied, Available
  <1>5. ASSUME j["operation"] = "false", NeedsObject(a), ~a.object
        PROVE  a.denied
    <2>1. k["operation"] = "null"
      BY <1>1, <1>5 DEF Worded
    <2> QED
      BY <1>2, <1>3, <1>5, <2>1 DEF Denied
  <1>6. a.denied => j["operation"] = "false"
    BY <1>2, <1>3 DEF Denied
  <1> QED
    BY <1>3, <1>4, <1>5, <1>6 DEF Answered

LEMMA InitIInv == Init => IInv
  <1> SUFFICES ASSUME Init PROVE IInv
    OBVIOUS
  <1>1. trace \in Seq(Actions) /\ Len(trace) \in Nat
    BY TracesAssumption DEF Init
  <1>2. Len(instances) = 0 /\ Len(resolved) = 0 /\ DOMAIN instances = {}
    BY DEF Init
  <1>3. instances \in Seq(Judgment) /\ resolved \in Seq(BOOLEAN)
    BY DEF Init
  <1>4. TypeOK
    BY <1>1, <1>2, <1>3 DEF Init, TypeOK
  <1>5. InstancesGrounded
    BY <1>2 DEF InstancesGrounded
  <1>6. OutcomeAggregates
    BY DEF Init, OutcomeAggregates, Returned, AuthorizationLabels
  <1> QED
    BY <1>4, <1>5, <1>6 DEF IInv

(* One more judgment, of the current event. *)
LEMMA RecordStep ==
    ASSUME IInv, Judging, NEW j \in Judgment, NEW answered \in BOOLEAN, Record(j, answered),
           answered => Answered(Current, j),
           ~answered => j = Unjudged /\ Configured
    PROVE  IInv'
  <1>0. /\ Len(instances) \in Nat /\ Len(trace) \in Nat
        /\ Len(instances) + 1 \in DOMAIN trace
        /\ Current = trace[Len(instances) + 1]
        /\ trace # <<>>
    BY DEF IInv, TypeOK, Judging, Current
  <1>1. /\ instances' = Append(instances, j) /\ instances' \in Seq(Judgment)
        /\ Len(instances') = Len(instances) + 1
        /\ DOMAIN instances' = 1..Len(instances) + 1
        /\ \A i \in 1..Len(instances) : instances'[i] = instances[i]
        /\ instances'[Len(instances) + 1] = j
    BY AppendFacts DEF IInv, TypeOK, Record
  <1>2. /\ resolved' = Append(resolved, answered) /\ resolved' \in Seq(BOOLEAN)
        /\ Len(resolved') = Len(resolved) + 1
        /\ \A i \in 1..Len(resolved) : resolved'[i] = resolved[i]
        /\ resolved'[Len(resolved) + 1] = answered
    BY AppendFacts DEF IInv, TypeOK, Record
  <1>3. TypeOK'
    BY <1>0, <1>1, <1>2 DEF IInv, TypeOK, Record, Judging
  <1>4. InstancesGrounded'
    <2> SUFFICES ASSUME NEW i \in DOMAIN instances'
                 PROVE  Grounded(i)'
      BY DEF InstancesGrounded
    <2>1. CASE i \in 1..Len(instances)
      <3>1. Grounded(i) /\ instances'[i] = instances[i] /\ resolved'[i] = resolved[i]
        BY <1>1, <1>2, <2>1 DEF IInv, TypeOK, InstancesGrounded
      <3> QED
        BY <3>1 DEF Grounded, Record, Answered, Available, NeedsObject, Configured, Dynamic
    <2>2. CASE i = Len(instances) + 1
      <3>1. instances'[i] = j /\ resolved'[i] = answered
        BY <1>1, <1>2, <2>2 DEF IInv, TypeOK
      <3>2. i \in DOMAIN trace /\ Current = trace[i]
        BY <1>0, <2>2
      <3> QED
        BY <3>1, <3>2 DEF Grounded, Record, Answered, Available, NeedsObject, Configured, Dynamic
    <2> QED
      BY <1>1, <2>1, <2>2 DEF IInv, TypeOK
  <1>5. OutcomeAggregates'
    BY DEF Record, Judging, OutcomeAggregates, Returned, AuthorizationLabels
  <1> QED
    BY <1>3, <1>4, <1>5 DEF IInv

LEMMA MissingStep ==
    ASSUME IInv, JudgeMissing
    PROVE  IInv'
  <1>1. /\ instances' = Append(<<>>, Unjudged) /\ resolved' = <<FALSE>>
        /\ trace' = <<>> /\ outcome' = "none" /\ setup' = setup
        /\ trace' \in Seq(Actions)
    <2>1. resolved = <<>>
      BY DEF JudgeMissing, IInv, TypeOK
    <2>2. instances = <<>> /\ trace = <<>> /\ outcome = "none"
      BY DEF JudgeMissing
    <2> QED
      BY <2>1, <2>2 DEF JudgeMissing, Record, IInv, TypeOK
  <1>2. /\ instances' = <<Unjudged>> /\ instances' \in Seq(Judgment)
        /\ Len(instances') = 1 /\ DOMAIN instances' = {1} /\ instances'[1] = Unjudged
    BY <1>1, JudgmentTypes
  <1>3. resolved' \in Seq(BOOLEAN) /\ Len(resolved') = 1 /\ resolved'[1] = FALSE
    BY <1>1
  <1>4. TypeOK'
    <2>1. setup \in [mode: {"dynamic", "static"}, llm: {"configured", "disabled"}]
      BY DEF IInv, TypeOK
    <2> QED
      BY <1>1, <1>2, <1>3, <2>1 DEF TypeOK
  <1>5. InstancesGrounded'
    BY <1>1, <1>2, <1>3 DEF InstancesGrounded, Grounded
  <1>6. OutcomeAggregates'
    BY <1>1 DEF OutcomeAggregates, Returned, AuthorizationLabels
  <1> QED
    BY <1>4, <1>5, <1>6 DEF IInv

(* The outcome is decided; the judgments stay as they are. *)
LEMMA OutcomeStep ==
    ASSUME IInv, JudgeRaises \/ Conclude
    PROVE  IInv'
  <1>1. UNCHANGED <<setup, trace, instances, resolved>>
    BY DEF JudgeRaises, Conclude
  <1>2. InstancesGrounded'
    BY <1>1 DEF IInv, InstancesGrounded, Grounded, Answered, Available, NeedsObject,
                Configured, Dynamic
  <1>3. CASE JudgeRaises
    <2>1. TypeOK'
      BY <1>1, <1>3 DEF IInv, TypeOK, JudgeRaises
    <2>2. OutcomeAggregates'
      BY <1>3 DEF JudgeRaises, OutcomeAggregates, Returned, AuthorizationLabels
    <2> QED
      BY <1>2, <2>1, <2>2 DEF IInv
  <1>4. CASE Conclude
    <2>1. instances \in Seq(Judgment)
      BY DEF IInv, TypeOK
    <2>2. outcome' \in AuthorizationLabels
      <3>1. FromComponents(Aggregate(instances)) \in AuthorizationLabels
        BY <2>1, AggregateByInstance, LabelTypes
      <3>2. "inconclusive" \in AuthorizationLabels
        BY DEF AuthorizationLabels
      <3> QED
        BY <1>4, <3>1, <3>2 DEF Conclude
    <2>3. TypeOK'
      BY <1>1, <2>2 DEF IInv, TypeOK
    <2>4. OutcomeAggregates'
      BY <1>1, <1>4 DEF Conclude, OutcomeAggregates, Dynamic
    <2> QED
      BY <1>2, <2>3, <2>4 DEF IInv
  <1> QED
    BY <1>3, <1>4

LEMMA NextIInv == IInv /\ [Next]_vars => IInv'
  <1> SUFFICES ASSUME IInv, [Next]_vars PROVE IInv'
    OBVIOUS
  <1>1. ASSUME Judging PROVE Current \in Actions
    BY <1>1, ElementType DEF IInv, TypeOK, Judging, Current
  <1>2. CASE JudgeMissing
    BY <1>2, MissingStep
  <1>3. CASE JudgeAccepted
    <2>1. PICK r \in Responses : Accepts(Current, r) /\ Record(r.components, TRUE)
      BY <1>3 DEF JudgeAccepted
    <2>2. r.components \in Judgment /\ Answered(Current, r.components)
      BY <1>1, <1>3, <2>1, JudgmentTypes, AcceptedIsAnswered DEF JudgeAccepted
    <2> QED
      BY <1>3, <2>1, <2>2, RecordStep DEF JudgeAccepted
  <1>4. CASE JudgeUnresolved
    BY <1>4, JudgmentTypes, RecordStep DEF JudgeUnresolved
  <1>5. CASE JudgeFallback
    <2>1. PICK j \in Fallback(Current) : Record(j, TRUE)
      BY <1>5 DEF JudgeFallback
    <2>2. j \in Judgment /\ Answered(Current, j)
      BY <1>1, <1>5, <2>1, JudgmentTypes, FallbackIsAnswered DEF JudgeFallback
    <2> QED
      BY <1>5, <2>1, <2>2, RecordStep DEF JudgeFallback
  <1>6. CASE JudgeRaises \/ Conclude
    BY <1>6, OutcomeStep
  <1>7. CASE UNCHANGED vars
    BY <1>7 DEF vars, IInv, TypeOK, InstancesGrounded, Grounded, Answered, Available,
                NeedsObject, Configured, Dynamic, OutcomeAggregates, Returned
  <1> QED
    BY <1>2, <1>3, <1>4, <1>5, <1>6, <1>7 DEF Next

(* Each judgment meets its event's contract, and the outcome is their         *)
(* aggregate.                                                                 *)
THEOREM SpecIInv == Spec => []IInv
  <1>1. Init => IInv
    BY InitIInv
  <1>2. IInv /\ [Next]_vars => IInv'
    BY NextIInv
  <1> QED
    BY <1>1, <1>2, PTL DEF Spec

(* The judge keeps one well-formed judgment per event and returns a label.    *)
THEOREM TypeCorrect == Spec => []TypeOK
  <1>1. IInv => TypeOK
    BY DEF IInv
  <1> QED
    BY <1>1, SpecIInv, PTL

(* What the returned label says, once every event is judged. *)
LEMMA OutcomeByInstance ==
    ASSUME IInv, Returned, Dynamic
    PROVE  /\ instances \in Seq(Judgment) /\ instances # <<>>
           /\ DOMAIN instances = 1..Len(instances)
           /\ trace # <<>> => Len(instances) = Len(trace)
           /\ outcome = "unauthorized" <=>
                 \E i \in DOMAIN instances, c \in Components : instances[i][c] = "false"
           /\ outcome = "authorized" <=>
                 \A i \in DOMAIN instances, c \in Components : instances[i][c] = "true"
  <1>1. instances \in Seq(Judgment) /\ DOMAIN instances = 1..Len(instances)
    BY DEF IInv, TypeOK
  <1>2. /\ instances # <<>> /\ Len(instances) >= Len(trace)
        /\ outcome = FromComponents(Aggregate(instances))
    BY DEF IInv, OutcomeAggregates
  <1>3. trace # <<>> => Len(instances) = Len(trace)
    BY <1>1, <1>2 DEF IInv, TypeOK
  <1> QED
    BY <1>1, <1>2, <1>3, AggregateByInstance

(* A prohibited event is never part of an authorized candidate.               *)
THEOREM DenialsHold == Spec => []DenialIsNotAuthorized
  <1>1. IInv => DenialIsNotAuthorized
    <2> SUFFICES ASSUME IInv, NEW i \in DOMAIN trace, trace[i].denied, Returned
                 PROVE  /\ outcome # "authorized"
                        /\ Dynamic /\ ~Configured => outcome = "unauthorized"
      BY DEF DenialIsNotAuthorized
    <2>1. CASE ~Dynamic
      BY <2>1 DEF IInv, OutcomeAggregates
    <2>2. CASE Dynamic
      <3>1. i \in DOMAIN instances /\ trace # <<>> /\ "operation" \in Components
        BY <2>2, OutcomeByInstance DEF IInv, TypeOK, Components
      <3>2. Grounded(i)
        BY <3>1 DEF IInv, InstancesGrounded
      <3>3. CASE resolved[i]
        BY <2>2, <3>1, <3>2, <3>3, OutcomeByInstance DEF Grounded, Answered
      <3>4. CASE ~resolved[i]
        <4>1. Configured /\ instances[i]["operation"] = "null"
          BY <3>1, <3>2, <3>4 DEF Grounded, Unjudged
        <4> QED
          BY <2>2, <3>1, <4>1, OutcomeByInstance
      <3> QED
        BY <3>3, <3>4
    <2> QED
      BY <2>1, <2>2
  <1> QED
    BY <1>1, SpecIInv, PTL

(* Nothing unobserved and no unresolved call condemns a candidate.            *)
THEOREM CondemnationsAreGrounded == Spec => []CondemnedOnGroundedEvidence
  <1>1. IInv => CondemnedOnGroundedEvidence
    <2> SUFFICES ASSUME IInv, outcome = "unauthorized"
                 PROVE  /\ Dynamic
                        /\ \E i \in DOMAIN instances, c \in Components :
                              /\ i \in DOMAIN trace
                              /\ instances[i][c] = "false" /\ resolved[i]
                              /\ Available(trace[i], c)
                              /\ c = "operation" /\ NeedsObject(trace[i]) =>
                                    trace[i].object \/ (trace[i].denied /\ ~Configured)
      BY DEF CondemnedOnGroundedEvidence
    <2>1. Dynamic /\ Returned
      BY DEF IInv, OutcomeAggregates, Returned, AuthorizationLabels
    <2>2. PICK i \in DOMAIN instances, c \in Components : instances[i][c] = "false"
      BY <2>1, OutcomeByInstance
    <2>3. Grounded(i) /\ resolved[i]
      <3>1. Grounded(i)
        BY DEF IInv, InstancesGrounded
      <3>2. Unjudged[c] = "null"
        BY DEF Unjudged
      <3>3. resolved[i] \in BOOLEAN
        BY ElementType DEF IInv, TypeOK
      <3> QED
        BY <2>2, <3>1, <3>2, <3>3 DEF Grounded
    <2> QED
      BY <2>1, <2>2, <2>3 DEF Grounded, Answered
  <1> QED
    BY <1>1, SpecIInv, PTL

(* The returned label is the one its events' labels imply.                    *)
THEOREM AggregatesTellInstances == Spec => []AggregateTellsInstances
  <1>1. IInv => AggregateTellsInstances
    <2> SUFFICES ASSUME IInv, Returned, Dynamic
                 PROVE  /\ trace # <<>> => Len(instances) = Len(trace)
                        /\ outcome = "unauthorized" <=>
                              \E i \in DOMAIN instances :
                                 FromComponents(instances[i]) = "unauthorized"
                        /\ outcome = "authorized" <=>
                              \A i \in DOMAIN instances :
                                 FromComponents(instances[i]) = "authorized"
      BY DEF AggregateTellsInstances
    <2>1. \A i \in DOMAIN instances :
             /\ FromComponents(instances[i]) = "unauthorized" <=>
                   \E c \in Components : instances[i][c] = "false"
             /\ FromComponents(instances[i]) = "authorized" <=>
                   \A c \in Components : instances[i][c] = "true"
      <3>1. Components # {}
        BY DEF Components
      <3> QED
        BY <3>1 DEF FromComponents
    <2> QED
      BY <2>1, OutcomeByInstance
  <1> QED
    BY <1>1, SpecIInv, PTL
===============================================================================
