------------------------- MODULE MCAuthorizationJudge -------------------------
(* AuthorizationJudge over every single tuple, over pairs in which a prohibited *)
(* or ungrounded event stands before or after a plain one, and over no event.   *)
EXTENDS AuthorizationJudge

Tuple(kind, object, source, denied) ==
    [kind |-> kind, object |-> object, source |-> source, destination |-> TRUE,
     denied |-> denied]

Paired == {Tuple("command", FALSE, TRUE, TRUE), Tuple("effect", TRUE, FALSE, FALSE)}

MCTraces == {<<>>} \cup {<<a>> : a \in Actions} \cup {<<a, b>> : a, b \in Paired}
===============================================================================
