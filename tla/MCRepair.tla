------------------------------- MODULE MCRepair -------------------------------
(***************************************************************************)
(* Small repairs for TLC: two code items, which share a script or do not,   *)
(* and three instruction items, with the verdicts, the sources and the      *)
(* SKILL.md that make the cases of the projection happen.                   *)
(***************************************************************************)
EXTENDS Repair

MCRawSlots   == {"a", "A", "b"}
MCSlotValues == {"ka", "kb"}
MCPaddings   == {"", " "}
MCCanonical  == [r \in MCRawSlots |-> IF r = "b" THEN "kb" ELSE "ka"]
MCTexts      == {"post", "get", "read", "read2", "rm"}
MCShortTexts == {"rm"}
MCPrivileges == {"send", "load"}
MCOrder      == <<"i1", "i2", "i3", "k1", "k2">>
MCCandidates == {MCOrder[i] : i \in DOMAIN MCOrder}
MCActions    == {"posts", "reads", "runs"}
MCRuns       == [a \in MCActions |-> IF a = "runs" THEN "tool" ELSE "none"]

Key(s, p)    == [slots |-> s, padding |-> p]
NoAnswer     == Key("", "")
MCAnswers    == {NoAnswer, Key("ka", ""), Key("ka", " "), Key("kb", " ")}
MCGuardAnswers ==
    [allowed: {{}, {Key("ka", "")}}, blocked: {{}, {Key("kb", "")}}, denyByDefault: BOOLEAN]

Good     == [label |-> "not_overprivileged", authorization |-> "authorized",
             necessity |-> "necessary"]
Bad      == [label |-> "overprivileged", authorization |-> "unauthorized",
             necessity |-> "necessary"]
Useless  == [label |-> "overprivileged", authorization |-> "authorized",
             necessity |-> "unnecessary"]
Unclear  == [label |-> "inconclusive", authorization |-> "inconclusive",
             necessity |-> "necessary"]

(* Sources *)
Stmt(text, priv, line, chain, holds) ==
    [text |-> text, priv |-> priv, line |-> line, chain |-> chain, holds |-> holds]
Src(engine, code) == [engine |-> engine, code |-> code]

Flat(engine)  == Src(engine, <<Stmt("post", "send", 1, {}, {}), Stmt("read", "load", 2, {}, {})>>)
Twice(engine, text) ==
    Src(engine, <<Stmt(text, "send", 1, {}, {}), Stmt(text, "send", 2, {}, {})>>)
Chained       == Src("ast", <<Stmt("get", "load", 1, {}, {}), Stmt("post", "send", 1, {"get"}, {1})>>)
NoSource      == Src("opaque", <<>>)

(* Candidates *)
Code(source, raw, line, alt, semantics) ==
    [layer |-> "code", source |-> source, raw |-> raw, line |-> line, alt |-> alt,
     first |-> 0, last |-> 0, semantics |-> semantics, summary |-> semantics, mentions |-> {}]
Instr(raw, first, semantics, mentions) ==
    [layer |-> "instruction", source |-> "none", raw |-> raw, line |-> 0, alt |-> "none",
     first |-> first, last |-> first, semantics |-> semantics, summary |-> semantics,
     mentions |-> mentions]
Reworded(instruction) == [instruction EXCEPT !.summary = "reworded"]
Span(instruction, last) == [instruction EXCEPT !.last = last]
Idle == Instr("none", 0, "none", {})

Desc(cand, task, slots, actions) ==
    [cand |-> cand, task |-> task, slots |-> slots, actions |-> actions]

About0(f) == f @@ [c \in MCCandidates |-> Idle]
Verdicts0(f) == f @@ [c \in MCCandidates |-> <<>>]
Sources0(f) == f @@ [s \in {"tool", "util"} |-> NoSource]

T(w)      == Fragment("text", w, 0)
R(s)      == Fragment("run", s, 0)
At(lines) == [l \in DOMAIN lines |->
                 [lines[l] EXCEPT !.frags = [p \in DOMAIN lines[l].frags |->
                      [lines[l].frags[p] EXCEPT !.at = l]]]]

ToolDoc   == At(<<Line("bullet", <<R("tool")>>), Line("prose", <<T("x")>>)>>)
BothDoc   == At(<<Line("bullet", <<R("tool")>>), Line("bullet", <<T("x"), R("util")>>)>>)
TextDoc   == At(<<Line("bullet", <<T("x"), T("w"), T("y")>>), Line("bullet", <<T("z")>>),
                  Blank, Line("prose", <<T("v"), T("u")>>)>>)
ShiftDoc  == At(<<Line("bullet", <<T("x"), R("tool")>>), Line("bullet", <<T("y")>>),
                  Line("bullet", <<T("z")>>)>>)

Scenario(about, descriptors, verdicts, sources, document) ==
    [about |-> About0(about), descriptors |-> descriptors, verdicts |-> Verdicts0(verdicts),
     sources |-> Sources0(sources), resources |-> {"read2"}, doc |-> document,
     answers |-> {NoAnswer}]

Blocked(c, actions) == Desc(c, "t1", "b", actions)

(* Three tasks of one code item, two of which share a cluster. *)
Clustered(v, w) ==
    Scenario("k1" :> Code("tool", "post", 1, "none", "none"),
             {Desc("k1", "t1", "a", {"posts"}), Desc("k1", "t2", "A", {"posts"}),
              Desc("k1", "t3", "b", {"posts"})},
             "k1" :> ("t1" :> Good @@ "t2" :> v @@ "t3" :> w),
             "tool" :> Flat("ast"), ToolDoc)

Clusterings == {Clustered(v, w) : v \in {Good, Bad, Unclear}, w \in {Useless, Good}}

(* The same with a model that may answer how slots are normalized. *)
Answered ==
    {[Clustered(v, Useless) EXCEPT !.answers = MCAnswers] : v \in {Good, Bad}}

(* One code item in sources of every engine, located, moved or rebound: what *)
(* a candidate quotes is always in its source, its line may be another.      *)
LoneItems ==
    {<<k, s>> \in {Code("tool", "post", 1, "none", "none"), Code("tool", "post", 2, "none", "none"),
                   Code("tool", "read", 2, "read2", "none"), Code("tool", "read", 2, "get", "none"),
                   Code("tool", "get", 1, "none", "none"), Code("tool", "rm", 1, "none", "none")}
                  \X {Flat("ast"), Flat("lines"), Flat("opaque"), Twice("ast", "post"),
                      Twice("lines", "post"), Twice("ast", "rm"), Chained} :
        \E i \in DOMAIN s.code : s.code[i].text = k.raw}

Lone ==
    {Scenario("k1" :> x[1], {Blocked("k1", {"posts"})}, "k1" :> ("t1" :> Bad), "tool" :> x[2], d)
        : x \in LoneItems, d \in {ToolDoc, TextDoc}}

(* Two items of one script, with an instruction that runs it. *)
SharedItems(n, alt, e, v, acts) ==
    Scenario("k1" :> Code("tool", "post", n, "none", "none")
             @@ "k2" :> Code("tool", "read", 2, alt, "none")
             @@ "i1" :> Instr("x", 2, "none", {"tool"}),
             {Blocked("k1", {"posts"}), Blocked("k2", {"reads"}), Blocked("i1", acts)},
             "k1" :> ("t1" :> Bad) @@ "k2" :> ("t1" :> Bad) @@ "i1" :> ("t1" :> v),
             "tool" :> Flat(e), ToolDoc)

Shared ==
    {SharedItems(1, "none", "ast", Bad, acts) :
        acts \in {{"posts"}, {"posts", "runs"}, {"posts", "reads"}}}
    \cup {SharedItems(1, "read2", "ast", Bad, {"posts", "reads"})}
    \cup {SharedItems(n, "none", e, v, {"posts"}) :
        <<n, e>> \in {<<1, "lines">>, <<3, "ast">>}, v \in {Useless}}

(* An instruction and the one code item it is equivalent to, or reaches.     *)
LayeredItems(text, n, i, allowed, acts) ==
    Scenario("k1" :> Code("tool", text, n, "none", "same") @@ "i1" :> i,
             {Blocked("k1", {"posts"}), Blocked("i1", acts)} \cup allowed,
             "k1" :> ("t1" :> Bad @@ "t2" :> Good) @@ "i1" :> ("t1" :> Bad),
             "tool" :> Twice("ast", text), ToolDoc)

RunsTool(m) == Instr("x", 2, m, {"tool"})

Layered ==
    {LayeredItems("post", 1, RunsTool(m), allowed, {"posts"}) :
        m \in {"same", "none"}, allowed \in {{}, {Desc("k1", "t2", "a", {"posts"})}}}
    \cup {LayeredItems("post", n, RunsTool("none"), {}, acts) :
              n \in {1, 3}, acts \in {{"runs"}, {"reads"}}}
    \cup {LayeredItems("rm", 1, RunsTool(m), {}, {"posts"}) : m \in {"same", "none"}}
    \cup {LayeredItems("post", 1, Reworded(RunsTool("same")), {}, {"posts"})}

(* Instructions that share lines, follow each other or are not to be found. *)
Texts3 ==
    {Scenario("i1" :> Instr("x", 1, "none", {}) @@ "i2" :> Instr(b, n, "none", {})
              @@ "i3" :> Instr(c, 4, "none", {}),
              {Blocked("i1", {}), Blocked("i2", {}), Blocked("i3", {})},
              "i1" :> ("t1" :> Bad) @@ "i2" :> ("t1" :> Useless) @@ "i3" :> ("t1" :> v),
              "tool" :> NoSource, TextDoc)
        : b \in {"y", "q", "x"}, n \in {1, 0}, c \in {"u", "v"}, v \in {Bad, Good}}

(* An instruction that cites two blocks, and one of a block between or in    *)
(* them: the lower range is guarded first.                                   *)
Overlapping ==
    {Scenario("i1" :> Span(Instr("x", 1, "none", {}), n) @@ "i2" :> Instr(x[1], x[2], "none", {})
              @@ "i3" :> Instr("u", 4, "none", {}),
              {Blocked("i1", {}), Blocked("i2", {}), Blocked("i3", {})},
              "i1" :> ("t1" :> Bad) @@ "i2" :> ("t1" :> Bad) @@ "i3" :> ("t1" :> v),
              "tool" :> NoSource, TextDoc)
        : n \in {2, 4}, x \in {<<"y", 1>>, <<"z", 2>>, <<"v", 4>>}, v \in {Bad, Good}}
    \cup
    {Scenario("i1" :> Span(Instr("u", 1, "none", {}), 4) @@ "i2" :> Instr("v", 4, "none", {}),
              {Blocked("i1", {}), Blocked("i2", {})},
              "i1" :> ("t1" :> Bad) @@ "i2" :> ("t1" :> Bad), "tool" :> NoSource, TextDoc)}

(* Code and instructions of one file: the dispatch moves the lines below it. *)
Mixed ==
    {Scenario("k1" :> Code("tool", "post", 1, "none", "none") @@ "i1" :> Instr("x", 1, "none", {})
              @@ "i2" :> Instr("y", 2, "none", {}),
              {Blocked("k1", {"posts"}), Blocked("i1", {}), Blocked("i2", {})},
              "k1" :> ("t1" :> v) @@ "i1" :> ("t1" :> Bad) @@ "i2" :> ("t1" :> w),
              "tool" :> Flat("ast"), ShiftDoc)
        : v \in {Bad, Good}, w \in {Bad, Good}}

(* An instruction that runs two scripts. *)
TwoScripts ==
    {Scenario("k1" :> Code("tool", "post", 1, "none", "same")
              @@ "k2" :> Code("util", "post", 1, "none", m)
              @@ "i1" :> Instr("x", 2, "same", {"tool", "util"}),
              {Blocked("k1", {"posts"}), Blocked("k2", {"posts"}), Blocked("i1", {"posts"})},
              "k1" :> ("t1" :> Bad) @@ "k2" :> ("t1" :> Bad) @@ "i1" :> ("t1" :> Bad),
              "tool" :> Flat("ast") @@ "util" :> Flat("ast"), BothDoc)
        : m \in {"same", "other"}}

(* An instruction that is equivalent to one of two items of the script it runs. *)
Equivalents ==
    {Scenario("k1" :> Code("tool", "post", 1, "none", "same")
              @@ "k2" :> Code("tool", "read", 2, "none", m)
              @@ "i1" :> Instr("x", 2, "same", {"tool"}),
              {Blocked("k1", {"posts"}), Blocked("k2", {"reads"}), Blocked("i1", acts)},
              "k1" :> ("t1" :> Bad) @@ "k2" :> ("t1" :> Bad) @@ "i1" :> ("t1" :> Bad),
              "tool" :> Flat("ast"), ToolDoc)
        : m \in {"same", "none"}, acts \in {{"posts", "runs"}, {"posts", "reads"}}}

Composite == Shared \cup TwoScripts \cup Equivalents

MCInputs == Clusterings \cup Answered \cup Lone \cup Layered \cup Texts3 \cup Overlapping
                \cup Mixed \cup Composite

(* Bound: the scenarios with most replays follow a run that succeeded. *)
MCInit == Init /\ (input \in Composite \cup Answered => files = AfterSuccess)
MCSpec == MCInit /\ [][Next]_vars
===============================================================================
