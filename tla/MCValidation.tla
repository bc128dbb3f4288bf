----------------------------- MODULE MCValidation -----------------------------
(* Validation over three candidates: c1 is privilege relevant and has an       *)
(* operation type, c2 is relevant without one, c3 is outside the taxonomy.     *)
EXTENDS Validation

CONSTANTS c1, c2, c3

MCCandidates == {c1, c2, c3}
MCRelevant   == {c1, c2}
MCOpKnown    == {c1, c3}

Task(c, chained) == [cand |-> c, chained |-> chained]

(* Two tasks that run, around one that has no chain. *)
MCAgenda == <<Task(c1, TRUE), Task(c2, FALSE), Task(c3, TRUE)>>

Run(status, material, realized, followed) ==
    [status |-> status, material |-> material, realized |-> realized, followed |-> followed]

(* A plain trigger, a run that failed after two events, and a stray event. *)
MCExecutions == {Run("completed", 1, 1, TRUE), Run("failed", 2, 2, TRUE),
                 Run("completed", 1, 1, FALSE)}

AllTrue == [c \in Components |-> "true"]

MCJudgments == {AllTrue, [AllTrue EXCEPT !["destination"] = "false"]}

Replayed(status, erased, present, output) ==
    [status |-> status, applied |-> TRUE, erased |-> erased, present |-> present,
     output |-> output]

MCReplays == {Replayed("completed", TRUE, FALSE, "equal"),
              Replayed("completed", TRUE, FALSE, "lost")}

(* One task of the candidate whose events the extractor may miss, with every *)
(* outcome of at most two events and every replay that ran.                  *)
OneTask == <<Task(c2, TRUE)>>

AllExecutions == [status: {"completed", "failed"}, material: 0..2, realized: 0..2,
                  followed: BOOLEAN]

AllReplays == {r \in ReplayRecord : r.applied}

MixedJudgments == MCJudgments \cup {[AllTrue EXCEPT !["source"] = "null"]}
===============================================================================
