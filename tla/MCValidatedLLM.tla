---------------------------- MODULE MCValidatedLLM ----------------------------
(* ValidatedLLM with one acceptable and one unacceptable response, and callers *)
(* that ask for fewer attempts than one, for two, and for more than the bound. *)
EXTENDS ValidatedLLM

CONSTANTS good, bad

MCResponses  == {good, bad}
MCAcceptable == {good}
MCRequested  == {0, 2, 7}
===============================================================================
