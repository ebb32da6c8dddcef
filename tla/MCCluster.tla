----------------------------- MODULE MCCluster -----------------------------
(***************************************************************************)
(* Two instances, two requests and two documents.  The synthetic strategy  *)
(* runs out of fakes for the second: a handler that is given it spins.     *)
(* The two rules differ in whether the system may restore.                 *)
(***************************************************************************)
EXTENDS Cluster, TLC

MCTypes == {"FIO", "CVV"}
MCPool == [t \in MCTypes |-> IF t = "FIO" THEN 1 ELSE 2]

\* Values and fakes are recognised by their form, masks are not.
MCSees(text, i) ==
  IF text[i].kind \in {"value", "fake"} THEN text[i].type ELSE NoType

MCDoc == [id \in Ids |->
            IF id = "a" THEN <<Value("FIO", 1)>>
            ELSE <<Value("FIO", 1), Value("FIO", 2)>>]

MCPicks == {<<1>>}

Rule(d) ==
  [strategy |-> "synthetic", types |-> {}, demask |-> d, composite |-> FALSE]
MCRules == {Rule(TRUE), Rule(FALSE)}
MCFileRule == Rule(TRUE)
=============================================================================
