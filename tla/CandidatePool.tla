--------------------------- MODULE CandidatePool ---------------------------
(***************************************************************************)
(* Module 1's candidate extraction: every action of the graph is           *)
(* classified by a pool of threads; the results are read in source order,  *)
(* and the actions that may not be screened out become the candidates.     *)
(* All threads append to one debug log of the model client.                *)
(*                                                                         *)
(* A classification is one model call, with a "start" and a "finish" line  *)
(* in the log.  Whatever the call returns, one of the three labels comes   *)
(* out (an unusable answer falls back to the heuristic); only a log that   *)
(* cannot be opened makes the classification raise.                        *)
(***************************************************************************)
EXTENDS ExecutionGraph

CONSTANTS
  Skills,      \* the skills analysed; each also has a set .privileged
  MaxWorkers   \* the size of the thread pool

ASSUME MaxWorkersAssumption == MaxWorkers \in Nat \ {0}

\* What the graph builders see to: identifiers are numbered within their
\* graph, edges join nodes, and only the synthetic nodes are entry and exit.
ASSUME SkillsAssumption ==
  \A s \in Skills :
    LET g == Compose(s)
    IN  /\ g.nodes \in Seq(NodesOf(g)) /\ IsInjective(g.nodes)
        /\ \A n \in NodesOf(g) : g.succ[n] \in Seq(NodesOf(g))
        /\ \A n \in NodesOf(g) :
             /\ g.type[n] = "ENTRY" <=> n = ENTRY
             /\ g.type[n] = "EXIT" <=> n = EXIT
        /\ ENTRY \in NodesOf(g)

Labels == {"related", "suspicious", "ambiguous"}

VARIABLES
  skill,       \* the skill under analysis
  ueg,         \* its execution graph
  logging,     \* is the debug log configured?
  work,        \* where each work item stands
  label,       \* the label of each classified item
  reader,      \* the item whose result the extraction reads next
  outcome,     \* "running", "closing", "raised" or "extracted"
  log,         \* the pieces of text in the debug log
  logLock,     \* the items whose thread holds the log's lock
  candidates   \* the candidate nodes, in the order of their identifiers

poolVars == <<skill, ueg, logging, work, label, reader, outcome, log,
              logLock, candidates>>

-----------------------------------------------------------------------------
(* The work items: one per action node, in the order of the graph.         *)

PredicateTypes == {"INSTR_PREDICATE", "CODE_PREDICATE"}

IsAction(g, n) == ~IsStructural(g, n) /\ g.type[n] \notin PredicateTypes

ActionsOf(g) == Filter(g.nodes, {n \in NodesOf(g) : IsAction(g, n)})

Items == ActionsOf(ueg)

Indices == DOMAIN Items

InThread == {"start", "call", "finish"}

Running == {i \in Indices : work[i] \in InThread}

\* One worker or one item: the items are classified in the calling thread.
Sequential == MaxWorkers = 1 \/ Len(Items) = 1

\* Slip: an action related to the profile is always screened out.
RetainedSlip(n, l) == l \in {"suspicious", "ambiguous"}

\* A profile-compatible but privileged action is kept for the later modules.
Retained(n, l) == l \in {"suspicious", "ambiguous"} \/ n \in skill.privileged

PoolInit ==
  /\ skill \in Skills
  /\ ueg = Compose(skill)
  /\ logging \in BOOLEAN
  /\ work = [i \in Indices |-> "pending"]
  /\ label = [i \in Indices |-> "none"]
  /\ reader = 1
  /\ outcome = "running"
  /\ log = <<>>
  /\ logLock = {}
  /\ candidates = <<>>

-----------------------------------------------------------------------------
(* The threads.                                                            *)

\* A free worker takes the oldest pending item.
StartItem(i) ==
  /\ work[i] = "pending"
  /\ \A j \in 1..(i - 1) : work[j] # "pending"
  /\ Cardinality(Running) < MaxWorkers
  /\ Sequential => \A j \in 1..(i - 1) : work[j] = "done"
  /\ work' = [work EXCEPT ![i] = IF logging THEN "start" ELSE "call"]
  /\ UNCHANGED <<skill, ueg, logging, label, reader, outcome, log, logLock,
                 candidates>>

\* Slip: the line is written without taking the lock.
BeginLogLineSlip(i) ==
  /\ work[i] \in {"start", "finish"}
  /\ i \notin logLock
  /\ logLock' = {i}
  /\ log' = Append(log, [item |-> i, phase |-> work[i], part |-> "head"])
  /\ UNCHANGED <<skill, ueg, logging, work, label, reader, outcome, candidates>>

\* A line reaches the file in pieces; the lock is held around them.
BeginLogLine(i) ==
  /\ work[i] \in {"start", "finish"}
  /\ logLock = {}
  /\ logLock' = {i}
  /\ log' = Append(log, [item |-> i, phase |-> work[i], part |-> "head"])
  /\ UNCHANGED <<skill, ueg, logging, work, label, reader, outcome, candidates>>

EndLogLine(i) ==
  /\ work[i] \in {"start", "finish"}
  /\ log # <<>>
  /\ i \in logLock
  /\ logLock' = logLock \ {i}
  /\ log' = Append(log, [item |-> i, phase |-> work[i], part |-> "tail"])
  /\ work' = [work EXCEPT ![i] = IF @ = "start" THEN "call" ELSE "done"]
  /\ UNCHANGED <<skill, ueg, logging, label, reader, outcome, candidates>>

\* Slip: the lock is not released when the log cannot be opened.
FailLogLineSlip(i) ==
  /\ work[i] \in {"start", "finish"}
  /\ logLock = {}
  /\ logLock' = {i}
  /\ work' = [work EXCEPT ![i] = "raised"]
  /\ UNCHANGED <<skill, ueg, logging, label, reader, outcome, log, candidates>>

\* The log cannot be opened: the error leaves the classifier.
FailLogLine(i) ==
  /\ work[i] \in {"start", "finish"}
  /\ logLock = {}
  /\ work' = [work EXCEPT ![i] = "raised"]
  /\ UNCHANGED <<skill, ueg, logging, label, reader, outcome, log, logLock,
                 candidates>>

Classify(i) ==
  /\ work[i] = "call"
  /\ \E l \in Labels : label' = [label EXCEPT ![i] = l]
  /\ work' = [work EXCEPT ![i] = IF logging THEN "finish" ELSE "done"]
  /\ UNCHANGED <<skill, ueg, logging, reader, outcome, log, logLock, candidates>>

-----------------------------------------------------------------------------
(* The extraction, which reads the results in the order of submission.     *)

ReadResult ==
  /\ outcome = "running"
  /\ reader \in Indices
  /\ work[reader] = "done"
  /\ reader' = reader + 1
  /\ UNCHANGED <<skill, ueg, logging, work, label, outcome, log, logLock,
                 candidates>>

\* The first failed result in source order is raised; what no thread has
\* taken yet is cancelled.
ReadFailure ==
  /\ outcome = "running"
  /\ reader \in Indices
  /\ work[reader] = "raised"
  /\ outcome' = "closing"
  /\ work' = [i \in Indices |->
                IF work[i] = "pending" THEN "cancelled" ELSE work[i]]
  /\ UNCHANGED <<skill, ueg, logging, label, reader, log, logLock, candidates>>

\* The pool is left only when its threads have ended.
LeavePool ==
  /\ outcome = "closing"
  /\ Running = {}
  /\ outcome' = "raised"
  /\ UNCHANGED <<skill, ueg, logging, work, label, reader, log, logLock,
                 candidates>>

SelectCandidates ==
  LET keep == {i \in Indices : Retained(Items[i], label[i])}
      kept == Filter([i \in Indices |-> i], keep)
  IN  [k \in DOMAIN kept |-> Items[kept[k]]]

Extract ==
  /\ outcome = "running"
  /\ reader = Len(Items) + 1
  /\ outcome' = "extracted"
  /\ candidates' = SelectCandidates
  /\ UNCHANGED <<skill, ueg, logging, work, label, reader, log, logLock>>

PoolNext ==
  \/ \E i \in Indices :
       \/ StartItem(i)
       \/ BeginLogLine(i)
       \/ EndLogLine(i)
       \/ FailLogLine(i)
       \/ Classify(i)
  \/ ReadResult
  \/ ReadFailure
  \/ LeavePool
  \/ Extract

PoolSpec == PoolInit /\ [][PoolNext]_poolVars

-----------------------------------------------------------------------------
PoolTypeOK ==
  /\ skill \in Skills
  /\ work \in [Indices -> InThread \union
                            {"pending", "done", "raised", "cancelled"}]
  /\ label \in [Indices -> Labels \union {"none"}]
  /\ reader \in 1..(Len(Items) + 1)
  /\ outcome \in {"running", "closing", "raised", "extracted"}
  /\ logLock \subseteq Indices

Position(n) == CHOOSE i \in Indices : Items[i] = n

(* Whatever order the threads ran in, the candidates are the retained      *)
(* actions in the order of the graph: their identifiers are numbered by    *)
(* it.  No privileged action is screened out by any label, and none is     *)
(* taken over before its own classification ended                          *)
(* (candidate_extractor.py:64-68, 83-100).                                 *)
CandidatesInSourceOrder ==
  outcome = "extracted" =>
    /\ \A k \in DOMAIN candidates :
         k > 1 => Position(candidates[k - 1]) < Position(candidates[k])
    /\ \A i \in Indices :
         /\ work[i] = "done" /\ label[i] # "none"
         /\ Items[i] \in skill.privileged => Items[i] \in Range(candidates)
         /\ Items[i] \notin skill.privileged =>
              (Items[i] \in Range(candidates) <=> label[i] # "related")

(* The lines of the debug log are whole: the pieces of two threads never   *)
(* mix, and a call's finish line comes after its start line                *)
(* (client.py:34-47).                                                      *)
LogLinesAreWhole ==
  \A k \in DOMAIN log :
    /\ log[k].part = "head" =>
         (k < Len(log) => log[k + 1] = [log[k] EXCEPT !.part = "tail"])
    /\ log[k].part = "tail" =>
         (k > 1 /\ log[k - 1] = [log[k] EXCEPT !.part = "head"])
    /\ log[k].phase = "finish" =>
         \E j \in 1..k : log[j] = [log[k] EXCEPT !.phase = "start"]
=============================================================================
