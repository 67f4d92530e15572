--------------------------- MODULE MCHybridGateway ---------------------------
(***************************************************************************)
(* Instances of HybridGateway for TLC: two gateways and two hybrid nodes.  *)
(***************************************************************************)
EXTENDS HybridGateway, MCLeader

CONSTANTS n1, n2,  \* hybrid nodes
          x        \* what they ask for

MCNode == {n1, n2}
\* n1 comes and goes beside n2, which stays.
Changing == [n \in MCNode |-> IF n = n1 THEN {x, Nil} ELSE {x}]
Fixed == [n \in MCNode |-> {x}]
=============================================================================
