-------------------------------- MODULE Filters --------------------------------
(***************************************************************************)
(* The comprehensions [x for x in s if ...] of the code: a sequence without *)
(* the elements outside a set.  SharedFacts proves what it returns; of the  *)
(* built-in SelectSeq the provers know nothing.                             *)
(***************************************************************************)
EXTENDS SequencesExt

Filter(s, S) ==
    LET kept[i \in 0..Len(s)] ==
            IF i = 0 THEN <<>>
            ELSE IF s[i] \in S THEN Append(kept[i - 1], s[i]) ELSE kept[i - 1]
    IN kept[Len(s)]
===============================================================================
