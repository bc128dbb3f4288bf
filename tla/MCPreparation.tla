---------------------------- MODULE MCPreparation ----------------------------
(* Small skills for ChainEnumeration: Module 1's pool and Module 2's chains. *)
EXTENDS ChainEnumeration

Skill(steps, links, falseExit, invokes, code, privileged) ==
  [steps |-> steps, links |-> links, falseExit |-> falseExit,
   invokes |-> [n \in Range(steps) |->
                  IF n \in invokes THEN <<"script">> ELSE <<>>],
   scripts |-> IF code THEN <<"script">> ELSE <<>>,
   code |-> IF code
              THEN [p \in {"script"} |->
                      [nodes |-> <<"enter", "k", "leave">>,
                       entry |-> "enter", return |-> "leave",
                       links |-> << <<"enter", "k">>, <<"k", "leave">> >>]]
              ELSE <<>>,
   type |-> [n \in Range(steps) \union {"enter", "c", "k", "leave"} |->
               CASE n = "enter" -> "CODE_ENTRY"
                 [] n = "leave" -> "CODE_RETURN"
                 [] n = "k" -> "CODE_ACTION"
                 [] n = "c" -> "CODE_PREDICATE"
                 [] n \in {"p", "q"} -> "INSTR_PREDICATE"
                 [] OTHER -> "INSTR_ACTION"],
   privileged |-> privileged]

\* A guard with an implicit false exit before a call of the script.
Guarded == Skill(<<"p", "a", "b">>, << <<"p", "a">>, <<"a", "b">> >>, {"p"},
                 {"a"}, TRUE, {"k"})

\* A guard that ends the document: two edges lead from it to the exit.
DoubleEdge == Skill(<<"a", "q">>, << <<"a", "q">> >>, {"q"}, {}, FALSE, {})

\* A loop of two steps: no root, no leaf.
Loop == Skill(<<"a", "b">>, << <<"a", "b">>, <<"b", "a">> >>, {}, {}, FALSE,
              {"a"})

\* Two steps call one script.
Shared == Skill(<<"a", "b">>, << <<"a", "b">> >>, {}, {"a", "b"}, TRUE, {"k"})

\* More branches than the bounds allow, before and after the step "b".
Wide == Skill(<<"p", "q", "b">>,
              << <<"p", "q">>, <<"p", "b">>, <<"q", "b">>, <<"b", "p">>,
                 <<"b", "q">> >>, {"q", "p"}, {}, FALSE, {"b"})

\* A script that no step invokes, with a condition.
Isolated ==
  [Skill(<<"a">>, <<>>, {}, {}, TRUE, {"k"}) EXCEPT !.code["script"] =
     [nodes |-> <<"enter", "c", "k", "leave">>, entry |-> "enter", return |-> "leave",
      links |-> << <<"enter", "c">>, <<"c", "k">>, <<"c", "leave">>, <<"k", "leave">> >>]]

\* A document without instructions.
Empty == Skill(<<>>, <<>>, {}, {}, FALSE, {})

MCSkills == {Guarded, DoubleEdge, Loop, Shared, Wide, Isolated, Empty}
=============================================================================
