-------------------------- MODULE MCNodeReconciler --------------------------
(***************************************************************************)
(* Instances of NodeReconciler for TLC: two nodes, two addresses, two pod  *)
(* CIDRs.                                                                  *)
(***************************************************************************)
EXTENDS NodeReconciler

CONSTANTS a, b,      \* nodes
          x, y,      \* addresses
          c, d       \* pod CIDRs

Internal(ip) == [type |-> "InternalIP", ip |-> ip]
Overlay(ip) == [type |-> "CiliumInternalIP", ip |-> ip]

Object(hybrid, addresses, podCIDRs) ==
    [hybrid |-> hybrid, addresses |-> addresses, podCIDRs |-> podCIDRs]

HybridObject(ip, cidr) == Object(TRUE, <<Internal(ip)>>, <<cidr>>)

MCNode == {a, b}
MCIP == {x, y}
MCCIDR == {c, d}

\* a at (x, c) and b at (y, d) live side by side.  Either CIDR can be handed
\* over with the address or to another one, and address y with or without its
\* CIDR.  a can also be unusable in each of the ways Reconcile rejects.
WideObjects ==
    [n \in MCNode |->
        IF n = a
        THEN {HybridObject(x, c),
              Object(TRUE, <<Overlay(x), Internal(y), Internal(x)>>, <<d, c>>),
              Object(TRUE, <<Overlay(x)>>, <<c>>),
              Object(TRUE, <<Internal(x)>>, <<>>),
              Object(FALSE, <<Internal(x)>>, <<c>>)}
        ELSE {HybridObject(y, c), HybridObject(y, d)}]

\* For the liveness run: a moves between CIDRs; b is a node whose reconcile
\* fails for ever, or takes over the CIDR and the address that a has had.
SmallObjects ==
    [n \in MCNode |->
        IF n = a THEN {HybridObject(x, c), HybridObject(x, d)}
                 ELSE {HybridObject(x, c), Object(TRUE, <<Internal(y)>>, <<>>)}]

\* The address of a changes.
MovingObjects ==
    [n \in MCNode |->
        IF n = a THEN {HybridObject(x, c), HybridObject(y, c)} ELSE {}]
=============================================================================
