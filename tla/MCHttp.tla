-------------------------------- MODULE MCHttp -----------------------------
(***************************************************************************)
(* The two parts of the HTTP layer that are shared by concurrent requests, *)
(* each in behaviors of its own: the middleware chain (Gateway), and the   *)
(* rules that administrators change (Configurator).  Neither reads what    *)
(* the other writes.                                                       *)
(***************************************************************************)
EXTENDS Gateway, Configurator, TLC

(***************************************************************************)
(* Gateway: one connection more than the limiter admits.                   *)
(*                                                                         *)
(* Configurator: one system, whose rule may be missing, disabled or one of *)
(* two.  Two administrators, so that PUTs can overlap, and two PUTs, so    *)
(* that a request can see a rule withdrawn and given back, or access       *)
(* control switched off between its reads and on again behind them.        *)
(***************************************************************************)
MCRules == {[enabled |-> FALSE, policy |-> "strict"],
            [enabled |-> TRUE, policy |-> "strict"],
            [enabled |-> TRUE, policy |-> "loose"]}

VARIABLE part   \* the part this behavior is about

ConfIdle ==
  /\ conf = [auth |-> FALSE, composite |-> FALSE,
             systems |-> [sys \in Systems |-> NoRule]]
  /\ composite = FALSE
  /\ admin = [a \in Admins |-> [pc |-> "idle"]]
  /\ call = [c \in Callers |-> [pc |-> "idle"]]
  /\ puts = 0
  /\ overlapped = FALSE

HttpInit ==
  \/ part = "gateway" /\ Init /\ ConfIdle
  \/ part = "config" /\ Init /\ ConfInit

HttpNext ==
  \/ part = "gateway" /\ Next /\ UNCHANGED <<confVars, part>>
  \/ part = "config" /\ ConfNext /\ UNCHANGED <<vars, part>>

HttpSpec == HttpInit /\ [][HttpNext]_<<vars, confVars, part>>

\* For the runs that ask of one part alone.
MCGatewaySpec ==
  /\ part = "gateway" /\ Init /\ ConfIdle
  /\ [][Next /\ UNCHANGED <<confVars, part>>]_<<vars, confVars, part>>

MCConfigSpec ==
  /\ part = "config" /\ Init /\ ConfInit
  /\ [][ConfNext /\ UNCHANGED <<vars, part>>]_<<vars, confVars, part>>

\* The goroutines of either part are interchangeable.
Symmetry == Permutations(Conns) \cup Permutations(Admins)
=============================================================================
