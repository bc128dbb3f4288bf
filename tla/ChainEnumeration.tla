-------------------------- MODULE ChainEnumeration --------------------------
(***************************************************************************)
(* Module 2's enumeration of the task chains of each candidate.  A chain   *)
(* is a prefix (a path of the execution graph from an entry to the         *)
(* candidate) joined to a suffix (a path from the candidate to an end),    *)
(* with the structural nodes removed.  Two depth-first searches collect    *)
(* them under four bounds, and the coverage report of the candidate says   *)
(* whether a bound cut one of them.                                        *)
(*                                                                         *)
(* The recursion of each search is a stack of the paths still to visit.    *)
(***************************************************************************)
EXTENDS CandidatePool

CONSTANTS
  MaxChains,     \* max_chains: of prefixes, and of chains
  MaxDepth,      \* max_depth: of the nodes on a prefix or on a suffix
  MaxSuffixes    \* max_suffixes_per_prefix

ASSUME BoundsAssumption ==
  /\ MaxChains \in Nat \ {0}
  /\ MaxDepth \in Nat \ {0, 1}
  /\ MaxSuffixes \in Nat \ {0}

VARIABLES
  phase,      \* "waiting", "prefixes", "suffixes", "joining" or "reported"
  turn,       \* the number of the candidate
  entries,    \* the entry nodes not searched yet
  stack,      \* the paths the search has still to visit
  prefixes,   \* the prefixes found
  suffixes,   \* the suffixes found
  pair,       \* the prefix and the suffix joined next
  chains,     \* the chains of the candidate
  flags,      \* the bounds that were met
  reports     \* the coverage reports of the candidates done

chainVars == <<phase, turn, entries, stack, prefixes, suffixes, pair, chains,
               flags, reports>>

vars == <<poolVars, chainVars>>

Candidate == candidates[turn]

\* Slip: the code entries are entries although an instruction entry exists.
EntriesOfSlip(g) ==
  Filter(g.nodes, {n \in NodesOf(g) : g.type[n] \in {"ENTRY", "CODE_ENTRY"}})

EntriesOf(g) ==
  LET OfType(t) == Filter(g.nodes, {n \in NodesOf(g) : g.type[n] = t})
  IN  IF OfType("ENTRY") # <<>> THEN OfType("ENTRY") ELSE OfType("CODE_ENTRY")

Extensions(g, path) ==
  [i \in DOMAIN Fresh(g, path) |-> Append(path, Fresh(g, path)[i])]

Materialized(g, path) == Filter(path, {n \in Range(path) : ~IsStructural(g, n)})

ChainInit ==
  /\ phase = "waiting" /\ turn = 1
  /\ entries = <<>> /\ stack = <<>> /\ prefixes = <<>> /\ suffixes = <<>>
  /\ pair = <<1, 1>> /\ chains = <<>> /\ flags = {} /\ reports = <<>>

-----------------------------------------------------------------------------
BeginCandidate ==
  /\ phase = "waiting"
  /\ outcome = "extracted"
  /\ turn \in DOMAIN candidates
  /\ phase' = "prefixes"
  /\ entries' = EntriesOf(ueg)
  /\ prefixes' = <<>> /\ suffixes' = <<>> /\ chains' = <<>> /\ flags' = {}
  /\ UNCHANGED <<turn, stack, pair, reports>>

\* The coverage report: truncated when any flag is set.
Report(found, met) ==
  /\ reports' = Append(reports, [candidate |-> Candidate,
                                 chains    |-> found,
                                 truncated |-> met # {}])
  /\ turn' = turn + 1
  /\ phase' = IF turn = Len(candidates) THEN "reported" ELSE "waiting"
  /\ pair' = <<1, 1>>

-----------------------------------------------------------------------------
(* The search for prefixes.                                                *)

NextEntry ==
  /\ phase = "prefixes" /\ stack = <<>> /\ entries # <<>>
  /\ Len(prefixes) < MaxChains
  /\ stack' = << <<Head(entries)>> >>
  /\ entries' = Tail(entries)
  /\ UNCHANGED <<phase, turn, prefixes, suffixes, pair, chains, flags, reports>>

PathTooDeep ==
  /\ phase \in {"prefixes", "suffixes"} /\ stack # <<>>
  /\ Len(Head(stack)) > MaxDepth
  /\ flags' = flags \union {"depth"}
  /\ stack' = Tail(stack)
  /\ UNCHANGED <<phase, turn, entries, prefixes, suffixes, pair, chains, reports>>

\* A full output unwinds the recursion; a caller on the way sets the flag.
PrefixFound ==
  /\ phase = "prefixes" /\ stack # <<>>
  /\ Len(Head(stack)) <= MaxDepth
  /\ Last(Head(stack)) = Candidate
  /\ prefixes' = Append(prefixes, Head(stack))
  /\ IF Len(prefixes') >= MaxChains
       THEN /\ stack' = <<>>
            /\ flags' = flags \union
                          (IF Len(Head(stack)) > 1 THEN {"prefix"} ELSE {})
       ELSE /\ stack' = Tail(stack)
            /\ flags' = flags
  /\ UNCHANGED <<phase, turn, entries, suffixes, pair, chains, reports>>

PrefixExtended ==
  /\ phase = "prefixes" /\ stack # <<>>
  /\ Len(Head(stack)) <= MaxDepth
  /\ Last(Head(stack)) # Candidate
  /\ stack' = Extensions(ueg, Head(stack)) \o Tail(stack)
  /\ UNCHANGED <<phase, turn, entries, prefixes, suffixes, pair, chains, flags,
                 reports>>

PrefixesDone ==
  /\ phase = "prefixes" /\ stack = <<>>
  /\ entries = <<>> \/ Len(prefixes) >= MaxChains
  /\ IF prefixes = <<>>
       THEN /\ Report(<<>>, flags)
            /\ stack' = stack
       ELSE /\ phase' = "suffixes"
            /\ stack' = << <<Candidate>> >>
            /\ UNCHANGED <<turn, pair, reports>>
  /\ UNCHANGED <<entries, prefixes, suffixes, chains, flags>>

-----------------------------------------------------------------------------
(* The search for suffixes.  The code repeats it for every prefix, with    *)
(* the same result; it is made once here.                                  *)

IsTerminal(g, path) == g.type[Last(path)] = "EXIT" \/ Fresh(g, path) = <<>>

\* Slip: the caller that unwinds does not set the flag.
SuffixFoundSlip ==
  /\ phase = "suffixes" /\ stack # <<>>
  /\ Len(Head(stack)) <= MaxDepth
  /\ IsTerminal(ueg, Head(stack))
  /\ suffixes' = Append(suffixes, Head(stack))
  /\ stack' = IF Len(suffixes') >= MaxSuffixes THEN <<>> ELSE Tail(stack)
  /\ UNCHANGED <<phase, turn, entries, prefixes, pair, chains, flags, reports>>

SuffixFound ==
  /\ phase = "suffixes" /\ stack # <<>>
  /\ Len(Head(stack)) <= MaxDepth
  /\ IsTerminal(ueg, Head(stack))
  /\ suffixes' = Append(suffixes, Head(stack))
  /\ IF Len(suffixes') >= MaxSuffixes
       THEN /\ stack' = <<>>
            /\ flags' = flags \union
                          (IF Len(Head(stack)) > 1 THEN {"suffix"} ELSE {})
       ELSE /\ stack' = Tail(stack)
            /\ flags' = flags
  /\ UNCHANGED <<phase, turn, entries, prefixes, pair, chains, reports>>

SuffixExtended ==
  /\ phase = "suffixes" /\ stack # <<>>
  /\ Len(Head(stack)) <= MaxDepth
  /\ ~IsTerminal(ueg, Head(stack))
  /\ stack' = Extensions(ueg, Head(stack)) \o Tail(stack)
  /\ UNCHANGED <<phase, turn, entries, prefixes, suffixes, pair, chains, flags,
                 reports>>

\* With no suffix at all the candidate alone ends the chain.
SuffixesDone ==
  /\ phase = "suffixes" /\ stack = <<>>
  /\ phase' = "joining"
  /\ suffixes' = IF suffixes = <<>> THEN << <<Candidate>> >> ELSE suffixes
  /\ UNCHANGED <<turn, entries, stack, prefixes, pair, chains, flags, reports>>

-----------------------------------------------------------------------------
(* The chains: every prefix with every suffix, each chain once.            *)

Joined ==
  Materialized(ueg, prefixes[pair[1]] \o Tail(suffixes[pair[2]]))

NextPair ==
  IF pair[2] < Len(suffixes) THEN <<pair[1], pair[2] + 1>>
                             ELSE <<pair[1] + 1, 1>>

JoinPair ==
  /\ phase = "joining"
  /\ pair[1] \in DOMAIN prefixes
  /\ IF Joined \in Range(chains)
       THEN /\ pair' = NextPair
            /\ UNCHANGED <<phase, turn, chains, flags, reports>>
       ELSE /\ chains' = Append(chains, Joined)
            /\ IF Len(chains') >= MaxChains
                 THEN /\ flags' = flags \union {"chain"}
                      /\ Report(chains', flags')
                 ELSE /\ pair' = NextPair
                      /\ UNCHANGED <<phase, turn, flags, reports>>
  /\ UNCHANGED <<entries, stack, prefixes, suffixes>>

AllPairsJoined ==
  /\ phase = "joining"
  /\ pair[1] \notin DOMAIN prefixes
  /\ Report(chains, flags)
  /\ UNCHANGED <<entries, stack, prefixes, suffixes, chains, flags>>

NoCandidates ==
  /\ phase = "waiting"
  /\ outcome = "extracted"
  /\ candidates = <<>>
  /\ phase' = "reported"
  /\ UNCHANGED <<turn, entries, stack, prefixes, suffixes, pair, chains, flags,
                 reports>>

ChainNext ==
  \/ BeginCandidate \/ NextEntry \/ PathTooDeep
  \/ PrefixFound \/ PrefixExtended \/ PrefixesDone
  \/ SuffixFound \/ SuffixExtended \/ SuffixesDone
  \/ JoinPair \/ AllPairsJoined \/ NoCandidates

Init == PoolInit /\ ChainInit

Next ==
  \/ PoolNext /\ UNCHANGED chainVars
  \/ ChainNext /\ UNCHANGED poolVars

\* The call is synchronous and every pool thread is scheduled: some step
\* that can be taken is taken.
Spec == Init /\ [][Next]_vars /\ WF_vars(Next)

-----------------------------------------------------------------------------
(* The task paths, defined without a search: by their length, with no      *)
(* bound but the number of nodes.                                          *)

Onward(g, p) == Range(g.succ[Last(p)]) \ Range(p)

SimplePaths(g, start, stop) ==
  LET Longer(paths) ==
        UNION {{Append(p, n) : n \in Onward(g, p)} :
                 p \in {q \in paths : Last(q) \notin stop}}
      ofLength[k \in 1..Cardinality(NodesOf(g))] ==
        IF k = 1 THEN {<<start>>} ELSE Longer(ofLength[k - 1])
  IN  UNION {ofLength[k] : k \in DOMAIN ofLength}

TaskPrefixes(g, c) == {p \in SimplePaths(g, ENTRY, {c}) : Last(p) = c}

TaskSuffixes(g, c) ==
  {p \in SimplePaths(g, c, {EXIT}) : Last(p) = EXIT \/ Onward(g, p) = {}}

Actions(path) ==
  Filter(path, {n \in Range(path) : ueg.type[n] \notin StructuralTypes})

TaskChains(g, c) ==
  {Actions(p \o Tail(s)) : p \in TaskPrefixes(g, c), s \in TaskSuffixes(g, c)}

(* Whatever the bounds cut, a reported chain is a path of the graph that   *)
(* runs through its candidate, is reported once, and a candidate that no   *)
(* entry reaches gets none (legitimate_chain_extractor.py:64-76).  Only a  *)
(* suffix that the depth bound cut may be missing.                         *)
ChainsAreTaskPaths ==
  \A r \in Range(reports) :
    /\ IsInjective(r.chains)
    /\ \A chain \in Range(r.chains) :
         /\ r.candidate \in Range(chain)
         /\ \/ chain \in TaskChains(ueg, r.candidate)
            \/ r.truncated /\ chain \in {Actions(p) : p \in TaskPrefixes(ueg, r.candidate)}

(* A report that does not say "truncated" misses no task path at all:      *)
(* the summary's coverage_incomplete cannot be false while a bound hid a   *)
(* chain (service.py:93-109, validate_pipeline.py:46-57).                  *)
UntruncatedIsComplete ==
  \A r \in Range(reports) :
    ~r.truncated => Range(r.chains) = TaskChains(ueg, r.candidate)

(* Every extraction ends: with an error of a classification, or with one   *)
(* coverage report for each candidate.                                     *)
EveryCandidateIsReported ==
  <>(\/ outcome = "raised"
     \/ phase = "reported" /\ Len(reports) = Len(candidates))
=============================================================================
