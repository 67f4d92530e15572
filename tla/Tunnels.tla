------------------------------- MODULE Tunnels -------------------------------
(***************************************************************************)
(* What a gateway's tunnel entries promise to the hybrid nodes, without    *)
(* the entries: a node that is served stays served until it asks for       *)
(* something else or the gateway ends.  Work on other nodes, failed calls, *)
(* retries, the hourly resync and removals never take it out of service,   *)
(* and only nodes that ask for it are served.                              *)
(*                                                                         *)
(* NodeReconciler implements this with its queue, its worker and the       *)
(* kernel's tables; HybridGateway uses it as the part of each replica.     *)
(***************************************************************************)

CONSTANTS Node,
          Nil      \* the node asks for nothing

VARIABLES
    up,      \* is the gateway running?
    want,    \* want[n]: what node n asks for (its pod CIDR and its address)
    have     \* the nodes whose traffic reaches them, as they ask for it

tunnelVars == <<up, want, have>>

Wanted == {n \in Node : want[n] # Nil}

Init ==
    /\ up = FALSE
    /\ want = [n \in Node |-> Nil]
    /\ have = {}

\* Node n asks for something else, or no longer asks.  It may be served at
\* once, where what it asks for is still there; the others are not affected.
Change(n) ==
    /\ want'[n] # want[n]
    /\ \A m \in Node \ {n} : want'[m] = want[m]
    /\ have' \ {n} = have \ {n}
    /\ have' \subseteq {m \in Node : want'[m] # Nil}
    /\ up \/ have' = {}
    /\ UNCHANGED up

\* Nodes come into service; none leaves it.
Serve ==
    /\ up
    /\ have \subseteq have'
    /\ have' \subseteq Wanted
    /\ UNCHANGED <<up, want>>

\* The gateway starts with nothing, or ends; what the nodes ask for is listed
\* afresh.
Restart ==
    /\ up' = ~up
    /\ have' = {}

Next == (\E n \in Node : Change(n)) \/ Serve \/ Restart

Spec == Init /\ [][Next]_tunnelVars
=============================================================================
