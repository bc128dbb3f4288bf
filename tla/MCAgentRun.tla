----------------------------- MODULE MCAgentRun -----------------------------
(* Small skills for AgentRun. *)
EXTENDS AgentRun

Op(node, kind, line, mark, known, hooked) ==
  [node |-> node, kind |-> kind, line |-> line, mark |-> mark, known |-> known,
   hooked |-> hooked, shows |-> {mark}]

\* A command whose words depend on the values of variables.
Expanding(node, line, mark, shows) ==
  [Op(node, "command", line, mark, TRUE, TRUE) EXCEPT !.shows = shows]

Request(tool, command, reach) ==
  [tool |-> tool, command |-> command, ops |-> reach]

\* The steps run in document order unless links say otherwise.
Agent(steps, links, falseExit, branch, calls, local, required) ==
  [steps |-> steps, links |-> links, falseExit |-> falseExit,
   branch |-> [n \in Range(steps) |->
                 IF n \in DOMAIN branch THEN branch[n] ELSE "none"],
   calls |-> [n \in Range(steps) |->
                IF n \in DOMAIN calls THEN calls[n] ELSE <<>>],
   local |-> local, fixtures |-> required]

\* Both sides of a repaired script, selected by a predicate.
Send == Op("send", "network_send", 2, 1, TRUE, TRUE)
Read == Op("read", "file_read", 1, 1, TRUE, TRUE)

Repaired ==
  Agent(<<"p", "a", "b">>, << <<"p", "a">>, <<"p", "b">> >>, {},
        [n \in {"a", "b"} |-> IF n = "a" THEN "allowed" ELSE "safe"],
        [n \in {"a", "b"} |->
           IF n = "a" THEN <<Request("python", TRUE, <<Read, Send>>)>>
                      ELSE <<Request("python", FALSE, <<Op("safe_read",
                             "file_read", 1, 1, TRUE, TRUE)>>)>>],
        {}, <<TRUE, FALSE>>)

\* Both sides in sequence: each path runs through both.
Sequenced ==
  Agent(<<"a", "b">>, << <<"a", "b">> >>, {},
        [n \in {"a", "b"} |-> IF n = "a" THEN "allowed" ELSE "safe"],
        [n \in {"a", "b"} |-> <<Request("shell", FALSE, <<Op(n \o "_op",
                                "command", 1, 1, TRUE, TRUE)>>)>>], {}, <<>>)

\* Only an allowed side, on a path longer than the planner searches.
Deep ==
  Agent(<<"a", "b", "c", "d">>,
        << <<"a", "b">>, <<"b", "c">>, <<"c", "d">> >>, {},
        [n \in {"a"} |-> "allowed"], <<>>, {"a", "b"}, <<>>)

\* One line with two reads, a plain action and a delete nobody instruments.
Crowded ==
  Agent(<<"a">>, <<>>, {}, <<>>,
        [n \in {"a"} |->
           <<Request("python", FALSE,
               <<Op("r1", "file_read", 1, 1, TRUE, TRUE),
                 Op("r2", "file_read", 1, 2, TRUE, TRUE),
                 Op("x", "plain", 1, 3, TRUE, TRUE),
                 Op("gone", "delete", 1, 4, TRUE, FALSE)>>),
             Request("python", FALSE,
               <<Op("w", "file_write", 1, 1, TRUE, TRUE)>>)>>],
        {}, <<>>)

\* A script whose graph knows no columns.
Legacy ==
  Agent(<<"a">>, <<>>, {}, <<>>,
        [n \in {"a"} |->
           <<Request("python", FALSE,
               <<Op("o1", "file_read", 1, 1, FALSE, TRUE),
                 Op("o2", "file_read", 1, 2, FALSE, TRUE),
                 Op("o3", "file_read", 2, 1, FALSE, TRUE)>>)>>],
        {}, <<>>)

\* A script with one command twice on a line, and a command that may expand
\* to the words of its neighbour, to others, or to none; a command of the
\* instruction; a Node script with an action that spans lines.
Mixed ==
  Agent(<<"a", "b">>, << <<"a", "b">> >>, {"a"}, <<>>,
        [n \in {"a", "b"} |->
           IF n = "a"
             THEN <<Request("shell", TRUE,
                      <<Op("c1", "command", 1, 1, TRUE, TRUE),
                        Op("c2", "command", 1, 1, TRUE, TRUE),
                        Op("c3", "command", 2, 1, TRUE, TRUE),
                        Expanding("c4", 2, 2, {1, 3, Silent})>>),
                    Request("inline", TRUE,
                      <<Op("i1", "command", 1, 1, TRUE, TRUE)>>)>>
             ELSE <<Request("node", FALSE,
                      <<Op("j1", "file_read", 1, 1, TRUE, TRUE),
                        Op("j2", "network_send", 1, 2, FALSE, TRUE)>>)>>],
        {}, <<FALSE>>)

\* A target that no tool runs, after a step that acted.
Unknown ==
  Agent(<<"a", "b">>, << <<"a", "b">> >>, {}, <<>>,
        [n \in {"b"} |-> <<Request("none", FALSE, <<>>)>>], {"a"}, <<>>)

MCAgentSkills == {Repaired, Sequenced, Deep, Crowded, Legacy, Mixed, Unknown}
=============================================================================
