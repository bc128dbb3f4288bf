-------------------------- MODULE InstructionDocument --------------------------
(***************************************************************************)
(* The text of SKILL.md as InstructionRewriter edits it: a sequence of      *)
(* lines of fragments.  A fragment is a piece of the original text, a       *)
(* command that runs a script, or what the rewriter put in its place.  Its  *)
(* field "at" is the line the fragment had in the original file; no         *)
(* definition that models the code reads it.                                *)
(***************************************************************************)
EXTENDS Naturals, Sequences, FiniteSets, Filters

LineKinds == {"bullet", "prose", "blank", "fixed"}

Fragment(is, of, at) == [is |-> is, of |-> of, at |-> at]
Line(kind, frags)    == [kind |-> kind, frags |-> frags]

Blank         == Line("blank", <<>>)
GuardLine(c)  == Line("bullet", <<Fragment("guard", c, 0)>>)
Dispatch(s)   == Line("bullet", <<Fragment("dispatch", s, 0)>>)

Lines(doc) == 1..Len(doc)

(* The fragments of a file, and in order. *)
FragmentsOf(doc) == UNION {ToSet(doc[l].frags) : l \in Lines(doc)}
TextIn(doc)      == FlattenSeq([l \in Lines(doc) |-> doc[l].frags])

IsFile(doc) == doc \in Seq([kind: LineKinds, frags: Seq(FragmentsOf(doc))])

Places(doc, is, of) ==
    UNION {{<<l, p>> : p \in {q \in DOMAIN doc[l].frags :
                                 doc[l].frags[q].is = is /\ doc[l].frags[q].of = of}}
               : l \in Lines(doc)}

Has(doc, is, of) == Places(doc, is, of) # {}

(* _assert_projection_context: a top-level bullet, or a paragraph of one line. *)
Editable(doc, l) ==
    \/ doc[l].kind = "bullet"
    \/ /\ doc[l].kind = "prose"
       /\ \A n \in {l - 1, l + 1} \cap Lines(doc) : doc[n].kind # "prose"

-------------------------------------------------------------------------------
(* Guards for instruction actions *)

(* _projection_target_lines: the recorded lines when the current file has    *)
(* them, else the first line with the raw text, else one past the end.       *)
TargetLines(doc, item) ==
    IF item.first # 0 /\ item.last <= Len(doc) THEN <<item.first, item.last>>
    ELSE LET found == {l \in Lines(doc) : \E p \in DOMAIN doc[l].frags :
                           doc[l].frags[p].is = "text" /\ doc[l].frags[p].of = item.raw}
             line  == IF found = {} THEN Len(doc) + 1
                      ELSE CHOOSE l \in found : \A m \in found : l <= m
         IN <<line, line>>

(* _grounded_fragment_match *)
MatchesIn(doc, range, item) ==
    {x \in Places(doc, "text", item.raw) : range[1] <= x[1] /\ x[1] <= range[2]}

(* _project_guard_fragments up to the edit: one match each, no two of them   *)
(* the same, on lines that may be edited.                                    *)
Projectable(doc, range, items) ==
    /\ range[1] \in Lines(doc) /\ range[2] \in Lines(doc)
    /\ \A x \in items : Cardinality(MatchesIn(doc, range, x)) = 1
    /\ \A x, y \in items :
           x # y => MatchesIn(doc, range, x) \cap MatchesIn(doc, range, y) = {}
    /\ \A x \in items : \A m \in MatchesIn(doc, range, x) : Editable(doc, m[1])

(* Slip: the text between two guarded fragments is lost. *)
DropGapSlip(line, guarded) ==
    LET n == Len(line.frags)
        last == CHOOSE p \in DOMAIN guarded : \A q \in DOMAIN guarded : q <= p
    IN FlattenSeq([p \in 1..n |-> IF p \in DOMAIN guarded THEN <<GuardLine(guarded[p])>> ELSE <<>>])
       \o (IF last = n THEN <<>> ELSE <<Line(line.kind, SubSeq(line.frags, last + 1, n))>>)

(* _project_compound_bullet_line and _project_compound_paragraph_line: a     *)
(* guard in the place of each matched fragment, the text between two of them  *)
(* on a line of its own.  guarded: the item of each matched position.         *)
SplitLine(line, guarded) ==
    LET n == Len(line.frags)
        hit(p)    == p \in DOMAIN guarded
        starts(p) == ~hit(p) /\ (p = 1 \/ hit(p - 1))
        ends(p)   == CHOOSE q \in p..n :
                         /\ \A r \in p..q : ~hit(r)
                         /\ q = n \/ hit(q + 1)
        gap       == IF line.kind = "prose" THEN <<Blank>> ELSE <<>>
        piece(p)  == IF hit(p) THEN <<GuardLine(guarded[p])>> \o gap
                     ELSE IF starts(p)
                     THEN <<Line(line.kind, SubSeq(line.frags, p, ends(p)))>>
                          \o (IF ends(p) = n THEN <<>> ELSE gap)
                     ELSE <<>>
    IN FlattenSeq([p \in 1..n |-> piece(p)])

ProjectGuards(doc, range, items) ==
    LET place(x) == CHOOSE m \in MatchesIn(doc, range, x) : TRUE
        on(l)    == {x \in items : place(x)[1] = l}
        guarded(l) == [p \in {place(x)[2] : x \in on(l)} |->
                           (CHOOSE x \in on(l) : place(x)[2] = p).id]
    IN FlattenSeq([l \in Lines(doc) |->
                      IF on(l) = {} THEN <<doc[l]>> ELSE SplitLine(doc[l], guarded(l))])

-------------------------------------------------------------------------------
(* Dispatch for code actions *)

(* _grounded_dispatch_invocation: the commands that run the script, on lines *)
(* that may be edited.                                                       *)
Invocations(doc, script) ==
    {x \in Places(doc, "run", script) : Editable(doc, x[1])}

Commands(line) == {p \in DOMAIN line.frags : line.frags[p].is = "run"}

Dispatchable(doc, script) ==
    /\ Cardinality(Invocations(doc, script)) = 1
    /\ \A x \in Invocations(doc, script) : Cardinality(Commands(doc[x[1]])) = 1

(* _project_dispatch_content: the command becomes a reference to the dispatch *)
(* that is inserted below its line.                                           *)
ProjectDispatch(doc, script) ==
    LET at   == CHOOSE x \in Invocations(doc, script) : TRUE
        line == doc[at[1]]
        rest == [line EXCEPT !.frags[at[2]] = Fragment("reference", script, line.frags[at[2]].at)]
    IN SubSeq(doc, 1, at[1] - 1) \o <<rest, Blank, Dispatch(script)>>
           \o SubSeq(doc, at[1] + 1, Len(doc))
===============================================================================
