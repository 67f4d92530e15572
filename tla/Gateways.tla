------------------------------ MODULE Gateways ------------------------------
(***************************************************************************)
(* The replicas of the gateway Deployment, each on a node of its own.  One *)
(* stands for what the code derives from its node: the node IP, the MAC of *)
(* its VXLAN interface and the primary ENI of its instance.                *)
(***************************************************************************)

CONSTANTS Gateway,
          Nil         \* none: no holder, no route, no object

ASSUME GatewayAssumption == Nil \notin Gateway
=============================================================================
