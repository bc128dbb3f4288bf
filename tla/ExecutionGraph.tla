--------------------------- MODULE ExecutionGraph ---------------------------
(***************************************************************************)
(* The unified execution graph (UEG) of a skill: the instruction graph     *)
(* built from SKILL.md, the graphs of its scripts, and the call and return *)
(* edges that join the two layers.                                         *)
(*                                                                         *)
(* A skill is a record:                                                    *)
(*   steps      the instruction nodes, in document order                   *)
(*   type       the node type of every instruction and code node           *)
(*   links      the instruction edges <<source, target>>, in order         *)
(*   falseExit  the predicates with an implicit false exit                 *)
(*   invokes    for an instruction node, the scripts it invokes, in order  *)
(*   code       for a script, its [nodes, entry, return, links]            *)
(*   scripts    the scripts that have a code graph, in bundle order        *)
(* An edge has no label here: every edge of the record is a control, call  *)
(* or return edge.  Data-dependency edges are left out, because no         *)
(* traversal modelled here follows one.                                    *)
(***************************************************************************)
EXTENDS Naturals, Sequences, FiniteSets, Filters

ENTRY == "entry"
EXIT  == "exit"

StructuralTypes == {"ENTRY", "EXIT", "CODE_ENTRY", "CODE_RETURN"}

Target(edge) == edge[2]

\* The targets of a node, one per edge: two edges give the node twice.
TargetsOf(edges, n) ==
  LET fromN == Filter(edges, {edge \in Range(edges) : edge[1] = n})
  IN  [i \in DOMAIN fromN |-> Target(fromN[i])]

-----------------------------------------------------------------------------
(* The instruction layer: the synthetic entry and exit.                    *)

Roots(s) ==
  LET HasNoEdgeIn(n) == \A i \in DOMAIN s.links : s.links[i][2] # n
      found == Filter(s.steps, {n \in Range(s.steps) : HasNoEdgeIn(n)})
  IN  IF found = <<>> THEN s.steps ELSE found

Leaves(s) ==
  LET HasNoEdgeOut(n) == \A i \in DOMAIN s.links : s.links[i][1] # n
      found == Filter(s.steps, {n \in Range(s.steps) : HasNoEdgeOut(n)})
  IN  IF found = <<>> THEN s.steps ELSE found

InstructionEdges(s) ==
  LET falseExits == Filter(s.steps, s.falseExit)
      ToExit(ns) == [i \in DOMAIN ns |-> <<ns[i], EXIT>>]
  IN  IF s.steps = <<>>
        THEN << <<ENTRY, EXIT>> >>
        ELSE s.links \o ToExit(falseExits)
               \o [i \in DOMAIN Roots(s) |-> <<ENTRY, Roots(s)[i]>>]
               \o ToExit(Leaves(s))

-----------------------------------------------------------------------------
(* The composition: an instruction calls the entry of each script it       *)
(* invokes, and the script returns to every successor of the instruction.  *)

CallEdges(s, n) ==
  LET called == Filter(s.invokes[n], DOMAIN s.code)
      after  == TargetsOf(InstructionEdges(s), n)
      Through(p) == << <<n, s.code[p].entry>> >>
                      \o [i \in DOMAIN after |-> <<s.code[p].return, after[i]>>]
  IN  FlattenSeq([i \in DOMAIN called |-> Through(called[i])])

\* _add_edge_once keeps the first of several equal edges.
AddEdgeOnce(edges, edge) ==
  IF edge \in Range(edges) THEN edges ELSE Append(edges, edge)

CrossLayerEdges(s) ==
  FoldLeft(AddEdgeOnce, <<>>,
           FlattenSeq([i \in DOMAIN s.steps |-> CallEdges(s, s.steps[i])]))

CodeEdges(s) ==
  FlattenSeq([i \in DOMAIN s.scripts |-> s.code[s.scripts[i]].links])

Compose(s) ==
  LET nodes == <<ENTRY>> \o s.steps \o <<EXIT>>
                 \o FlattenSeq([i \in DOMAIN s.scripts |->
                                  s.code[s.scripts[i]].nodes])
      edges == InstructionEdges(s) \o CodeEdges(s) \o CrossLayerEdges(s)
  IN  [nodes |-> nodes,
       type  |-> [n \in Range(nodes) |->
                    CASE n = ENTRY -> "ENTRY"
                      [] n = EXIT  -> "EXIT"
                      [] OTHER     -> s.type[n]],
       succ  |-> [n \in Range(nodes) |-> TargetsOf(edges, n)]]

-----------------------------------------------------------------------------
NodesOf(g) == Range(g.nodes)

IsStructural(g, n) == g.type[n] \in StructuralTypes

\* The two traversals of the code visit no node twice on one path.
Fresh(g, path) ==
  LET next == g.succ[Last(path)]
  IN  Filter(next, Range(next) \ Range(path))
=============================================================================
