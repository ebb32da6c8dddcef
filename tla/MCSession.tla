----------------------------- MODULE MCSession -----------------------------
(***************************************************************************)
(* Two clients' documents, a few rules and two handlers for TLC.           *)
(***************************************************************************)
EXTENDS Session, TLC

MCTypes == {"FIO", "CVV"}
MCPool == [t \in MCTypes |-> 2]

\* Values and fakes are recognised by their form, masks are not.
MCSees(text, i) ==
  IF text[i].kind \in {"value", "fake"} THEN text[i].type ELSE NoType

\* The first document has two values of one type, as many as its pool has
\* fakes, and a CVV without its card; the second has one value more than there
\* are fakes.
MCDoc == [id \in Ids |->
            IF id = "b" THEN <<Value("FIO", 2), Value("FIO", 3), Value("CVV", 4)>>
            ELSE <<Value("FIO", 2), Value("FIO", 3), Value("FIO", 4)>>]

\* The whole mask, and a part of it the other way round.
MCPicks == {<<1, 2, 3>>, <<2, 1>>}

Rule(s, d, c) == [strategy |-> s, types |-> {}, demask |-> d, composite |-> c]

\* Two systems share ids; one of them may not restore.
TwoRules == {Rule("token", TRUE, TRUE), Rule("synthetic", FALSE, FALSE)}
SyntheticRule == {Rule("synthetic", TRUE, FALSE)}
TokenRule == {Rule("token", TRUE, FALSE)}

Symmetry == Permutations(Workers)
=============================================================================
