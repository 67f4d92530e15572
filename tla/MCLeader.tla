------------------------------ MODULE MCLeader ------------------------------
(***************************************************************************)
(* Instances of Leader for TLC: two gateways, and users who may damage the *)
(* CiliumVTEPConfig.                                                       *)
(***************************************************************************)
EXTENDS Leader

CONSTANTS g1, g2,    \* gateways
          p, q       \* VPC CIDRs

MCGateway == {g1, g2}
OneCIDR == <<p>>
TwoCIDRs == <<p, q>>

\* A CIDR is changed in what g1 wrote.
WrongCIDR == [Desired(g1) EXCEPT !.endpoints[1].cidr = "other"]

\* A user damages the object, or repairs it for g2.
Edits == {WrongCIDR, Desired(g2)}

NoDamage == {}

\* For the overlap of leaders: the routes are as an earlier leader left them.
OverlapInit == Init /\ routes \in [Route -> Gateway]
OverlapSpec == OverlapInit /\ [][Next]_vars /\ Fairness
=============================================================================
