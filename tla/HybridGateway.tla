---------------------------- MODULE HybridGateway ----------------------------
(***************************************************************************)
(* The gateways of a cluster, each with both of its parts: the leader-only *)
(* work of module Leader, and the tunnel entries that every replica keeps. *)
(* Of the latter, which are NodeReconciler's, only what module Tunnels     *)
(* promises is used here: NodeReconciler is proved to implement it.        *)
(*                                                                         *)
(* Traffic reaches a hybrid node when the routes and the CiliumVTEPConfig  *)
(* send it to a gateway (Leader) and this gateway serves the node          *)
(* (Tunnels).  The manager starts the Node reconciler and the election     *)
(* together, so nothing orders the two parts.                              *)
(***************************************************************************)
EXTENDS Leader

CONSTANTS Node,      \* hybrid nodes
          Demands    \* Demands[n]: what node n may ask for; Nil is nothing

VARIABLES
    want,     \* want[n]: what node n asks for, in the API server
    seen,     \* seen[g][n]: the same, in the cache of gateway g
    served    \* served[g]: the nodes gateway g has entries for, as it has
              \* seen them

tunnelVars == <<want, seen, served>>
sysVars == <<routes, upd, crd, ups, proc, lease, setup, watching, queued,
             want, seen, served>>

Demand == UNION {Demands[n] : n \in Node}

NothingSeen == [n \in Node |-> Nil]
Wanted == {n \in Node : want[n] # Nil}

SysInit ==
    /\ Init
    /\ want \in [Node -> Demand]
    /\ \A n \in Node : want[n] \in Demands[n]
    /\ seen = [g \in Gateway |-> NothingSeen]
    /\ served = [g \in Gateway |-> {}]

-----------------------------------------------------------------------------
Up(g) == proc[g] # "down"

\* A step of module Leader.  A process that starts lists the CiliumNodes and
\* has no entries; one that ends has nothing any more.
LeaderStep ==
    /\ Next
    /\ seen' = [g \in Gateway |->
                   IF ~Up(g)' THEN NothingSeen
                   ELSE IF Up(g) THEN seen[g] ELSE want]
    /\ served' = [g \in Gateway |-> IF Up(g) /\ Up(g)' THEN served[g] ELSE {}]
    /\ UNCHANGED want

ClusterChanges(n) ==
    /\ want' \in {[want EXCEPT ![n] = d] : d \in Demands[n] \ {want[n]}}
    /\ UNCHANGED <<vars, seen, served>>

\* Mutant: a change of one node flushes the entries of all.
InformFlush(g, n) ==
    /\ Up(g)
    /\ seen[g][n] # want[n]
    /\ seen' = [seen EXCEPT ![g][n] = want[n]]
    /\ served' = [served EXCEPT ![g] = {}]
    /\ UNCHANGED <<vars, want>>

\* The informer of gateway g learns of it; the entries of n that are there may
\* be the ones it asks for now.
Inform(g, n) ==
    /\ Up(g)
    /\ seen[g][n] # want[n]
    /\ seen' = [seen EXCEPT ![g][n] = want[n]]
    /\ \/ served' = [served EXCEPT ![g] = @ \ {n}]
       \/ want[n] # Nil /\ served' = [served EXCEPT ![g] = @ \cup {n}]
    /\ UNCHANGED <<vars, want>>

\* Reconcile has programmed node n.
Serve(g, n) ==
    /\ Up(g)
    /\ seen[g][n] # Nil
    /\ n \notin served[g]
    /\ served' = [served EXCEPT ![g] = @ \cup {n}]
    /\ UNCHANGED <<vars, want, seen>>

SysNext ==
    \/ LeaderStep
    \/ \E n \in Node : ClusterChanges(n)
    \/ \E g \in Gateway, n \in Node : Inform(g, n) \/ Serve(g, n)

SysSpec == SysInit /\ [][SysNext]_sysVars

\* Leader's fairness, a watch that delivers, and reconcilers that get through
\* (NodeReconciler!NodesConverge).
SysFairSpec ==
    /\ SysSpec
    /\ Fairness
    /\ Recovery
    /\ \A g \in Gateway, n \in Node : /\ WF_sysVars(Inform(g, n))
                                      /\ WF_sysVars(Serve(g, n))

-----------------------------------------------------------------------------
SysTypeOK ==
    /\ TypeOK
    /\ want \in [Node -> Demand]
    /\ seen \in [Gateway -> [Node -> Demand \cup {Nil}]]
    /\ served \in [Gateway -> SUBSET Node]
    /\ \A g \in Gateway : served[g] \subseteq {n \in Node : seen[g][n] # Nil}

\* Gateway g has the entries node n asks for.
Reaches(g, n) == n \in served[g] /\ seen[g][n] = want[n]

\* Traffic flows through gateway g to every hybrid node that asks for it.
Forwards(g) == Attracts(g) /\ \A n \in Wanted : Reaches(g, n)

\* Whatever gateways crashed before, at whatever step, and whatever they left
\* in the route tables and in the CiliumVTEPConfig: once nothing fails and the
\* cluster stays as it is, traffic flows again, and for good.
TrafficResumes ==
    <>[][~(Mishap \/ \E n \in Node : ClusterChanges(n))]_sysVars
        => <>[]\E g \in Gateway : Forwards(g)

\* Where leadership is exclusive, traffic that flows through a gateway to a
\* node goes on flowing for as long as this gateway leads: neither the upserts
\* of its reconciler, nor gateways that start, end or stand by, nor other nodes
\* that come, change or go interrupt it, until a user edits the
\* CiliumVTEPConfig or the node itself asks for something else.
TrafficKeepsFlowing ==
    [][\A g \in Gateway, n \in Node :
          Attracts(g) /\ Reaches(g, n) /\ Leads(g)' =>
             (Attracts(g) /\ Reaches(g, n))' \/ UserEdits \/ ClusterChanges(n)]_sysVars

\* README.md: every gateway "is ready to forward traffic immediately on
\* failover".  So after traffic has flowed, in a cluster that stays as it is,
\* a gateway that attracts the traffic forwards it.
ReadyOnFailover ==
    []((\E g \in Gateway : Forwards(g))
           => []\A g \in Gateway : Attracts(g) => Forwards(g))

\* The part of gateway g that module Tunnels is about, as g has seen the nodes.
T(g) == INSTANCE Tunnels WITH up <- Up(g), want <- seen[g], have <- served[g]
=============================================================================
