---------------------------- MODULE SourceVariants ----------------------------
(***************************************************************************)
(* The execution units CodeRewriter makes of one source file, and the       *)
(* static comparison that decides whether a unit is the original with just  *)
(* the blocked actions removed.  A source is the sequence of its actions;   *)
(* a unit maps the position of each action it keeps to that action.         *)
(***************************************************************************)
EXTENDS Naturals, Sequences, FiniteSets

CONSTANTS
    Texts,        \* the raw texts of actions
    ShortTexts,   \* those of fewer than eight characters
    Privileges

NoLine == 0
None   == "none"

ASSUME TextsAssumption == None \notin Texts

(* A statement: the raw text and the privilege semantics of its action, where *)
(* it is, the calls its expression is chained on (by their text) and the      *)
(* statements nested in it.  Engine: how the file is edited; "opaque" files   *)
(* cannot be parsed into an action graph.                                     *)
Statement == [text: Texts, priv: Privileges \cup {None}, line: Nat,
              chain: SUBSET Texts, holds: SUBSET Nat]

Positions(src) == 1..Len(src.code)
Act(src, i)    == [text |-> src.code[i].text, priv |-> src.code[i].priv]

(* Slip: the raw text alone locates the target. *)
RawOnlySlip(src, item) == {i \in Positions(src) : src.code[i].text = item.raw}

(* PrivilegeSemanticAnalyzer._target_indices *)
Target(src, item) ==
    LET exact  == {i \in Positions(src) : src.code[i].text = item.raw}
        ranged == {i \in Positions(src) : item.line # NoLine /\ src.code[i].line = item.line}
    IN IF exact \cap ranged # {} THEN exact \cap ranged
       ELSE IF exact # {} THEN exact ELSE ranged

(* _dependent_receiver_call_indices: by the text of the expression. *)
Dependents(src, targets) ==
    {i \in Positions(src) \ targets :
        src.code[i].chain \cap {src.code[t].text : t \in targets} # {}}

(* _matches_target_call: the call itself, at its line. *)
Matched(src, item) ==
    {i \in Positions(src) :
        /\ item.line # NoLine /\ src.code[i].line = item.line
        /\ item.raw \in {None, src.code[i].text}}

(* _task_grounded_read_rebindings: the one matched read gets the resource the *)
(* tasks it is blocked for name.                                              *)
Rebindable(src, item) ==
    src.engine = "ast" /\ item.alt # None /\ Cardinality(Matched(src, item)) = 1

(* What is known of an item and its source: the text it quotes is there, and  *)
(* a rebinding names another resource than the read it replaces.              *)
Grounded(src, item) ==
    /\ \E i \in Positions(src) : src.code[i].text = item.raw
    /\ \A i \in Matched(src, item) : item.alt # src.code[i].text

Rebound(src, items, i) ==
    IF \E x \in items : Rebindable(src, x) /\ i \in Matched(src, x)
    THEN [Act(src, i) EXCEPT !.text =
            (CHOOSE x \in items : Rebindable(src, x) /\ i \in Matched(src, x)).alt]
    ELSE Act(src, i)

(* _neutralize_by_lines and _neutralize_raw_text *)
ErasedByLines(src, item) ==
    IF item.line \in {src.code[i].line : i \in Positions(src)}
    THEN {i \in Positions(src) : src.code[i].line = item.line}
    ELSE {i \in Positions(src) : /\ src.code[i].text = item.raw
                                 /\ \A j \in 1..(i - 1) : src.code[j].text # item.raw}

(* The transformers keep the calls nested in what they remove, not the calls *)
(* that contain it.                                                          *)
ErasedByTree(src, item) ==
    LET hit == Matched(src, item)
    IN hit \cup {i \in Positions(src) : src.code[i].holds \cap hit # {}}

(* _neutralize_source of one item: a file without a tree match is cut by lines. *)
ErasedAlone(src, item) ==
    IF src.engine = "ast" /\ Matched(src, item) # {}
    THEN ErasedByTree(src, item) ELSE ErasedByLines(src, item)

(* _neutralize_source_many: a Python group is one transformation, which does *)
(* not fall back, and nothing without every line.                            *)
ErasedTogether(src, items, item) ==
    IF src.engine = "ast"
    THEN IF \E x \in items : x.line = NoLine THEN {} ELSE ErasedByTree(src, item)
    ELSE ErasedByLines(src, item)

Erased(src, items, item) ==
    IF Cardinality(items) = 1 THEN ErasedAlone(src, item)
    ELSE ErasedTogether(src, items, item)

(* What neutralizing the blocked ones of the items of a source leaves. *)
Neutralized(src, items, blocked) ==
    LET cut  == {x \in blocked : ~Rebindable(src, x)}
        gone == UNION {Erased(src, items, x) : x \in cut}
    IN [i \in Positions(src) \ gone |-> Rebound(src, blocked, i)]

(* Every blocked item changed something: neutralized_ids = expected_ids. *)
Localized(src, items, blocked) ==
    \A x \in blocked : Rebindable(src, x) \/ Erased(src, items, x) # {}

-------------------------------------------------------------------------------
(* compare_projection *)

Expected(src, blocked) ==
    LET cut     == {x \in blocked : ~Rebindable(src, x)}
        gone(x) == Target(src, x) \cup Dependents(src, Target(src, x))
    IN [i \in Positions(src) \ UNION {gone(x) : x \in cut} |-> Rebound(src, blocked, i)]

CountOf(unit, a)      == Cardinality({i \in DOMAIN unit : unit[i] = a})
PrivilegeCount(unit, p) == Cardinality({i \in DOMAIN unit : unit[i].priv = p})
ActsOf(unit)          == {unit[i] : i \in DOMAIN unit}

NothingNew(unit, expected) ==
    \A a \in ActsOf(unit) : CountOf(unit, a) <= CountOf(expected, a)

(* Slip: the kinds of actions are compared, not how often they occur. *)
SetComparisonSlip(src, unit, blocked) ==
    /\ src.engine # "opaque"
    /\ \A x \in blocked : Target(src, x) # {}
    /\ ActsOf(unit) \subseteq {Act(src, i) : i \in Positions(src)}

(* complete: the targets are found, nothing is executed that the original   *)
(* does not execute without them, and every other privilege is preserved.   *)
Complete(src, unit, blocked) ==
    LET expected == Expected(src, blocked)
    IN /\ src.engine # "opaque"
       /\ \A x \in blocked : Target(src, x) # {}
       /\ NothingNew(unit, expected)
       /\ \A p \in Privileges : PrivilegeCount(unit, p) = PrivilegeCount(expected, p)

-------------------------------------------------------------------------------
(* The units of a source *)

(* _conservative_safe_source: a notice and nothing else. *)
Notice       == [text |-> "notice", priv |-> None]
Conservative == [i \in {0} |-> Notice]
Original(src) == [i \in Positions(src) |-> Act(src, i)]

(* Slip: a unit that could not be proved safe is kept as it was edited. *)
KeepUnprovenSlip(src, items, allowed) ==
    LET unit == Neutralized(src, items, items \ allowed)
    IN [unit |-> unit, complete |-> Complete(src, unit, items \ allowed)]

(* One variant of _materialize_composite_fallback_variants: the actions of   *)
(* the allowed items preserved, the others neutralized, or nothing at all.   *)
Variant(src, items, allowed) ==
    LET blocked == items \ allowed
        unit    == Neutralized(src, items, blocked)
        proved  == Localized(src, items, blocked) /\ Complete(src, unit, blocked)
    IN [unit |-> IF proved THEN unit ELSE Conservative, complete |-> proved]

(* _materialize_fallback_variants: the allowed unit is the original file;    *)
(* the safe one is accepted when it differs from it and is proved.           *)
Single(src, item, allowed) ==
    IF allowed # {} THEN [unit |-> Original(src), complete |-> TRUE]
    ELSE LET unit   == Neutralized(src, {item}, {item})
             proved == unit # Original(src) /\ Complete(src, unit, {item})
         IN [unit |-> IF proved THEN unit ELSE Conservative, complete |-> proved]

(* The lattice: one unit for each set of items whose condition holds. *)
Lattice(src, items) ==
    [allowed \in SUBSET items |->
        IF Cardinality(items) = 1
        THEN Single(src, CHOOSE x \in items : TRUE, allowed)
        ELSE Variant(src, items, allowed)]

(* The public entrypoint only ever starts the unit that allows nothing. *)
PublicUnit(lattice) == lattice[{}]

(* _rewrite_with_llm: the model may write the safe unit of a lone item, which *)
(* has to pass the comparison and not to hold the raw target, unless that is  *)
(* too short to be looked for; the allowed unit has to be the original and    *)
(* the entrypoint is never the model's.                                       *)
ModelUnitAccepted(src, item, unit) ==
    /\ item.line \in {src.code[i].line : i \in Positions(src)}
    /\ ~Rebindable(src, item)
    /\ item.raw \notin ShortTexts => \A i \in DOMAIN unit : unit[i].text # item.raw
    /\ Complete(src, unit, {item})

WithModelUnit(src, items, unit) ==
    [Lattice(src, items) EXCEPT ![{}] = [unit |-> unit, complete |-> TRUE]]

(* The comparison counts equal actions and cannot tell them apart: a short    *)
(* target may be kept in place of an equal action the item does not mean.     *)
Doubles(src, item) ==
    IF item.raw \in ShortTexts
    THEN {j \in Positions(src) \ Target(src, item) :
             \E i \in Target(src, item) : Act(src, j) = Act(src, i)} ELSE {}
===============================================================================
