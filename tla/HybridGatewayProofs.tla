------------------------- MODULE HybridGatewayProofs -------------------------
(***************************************************************************)
(* Theorems about HybridGateway, for any number of gateways, routes and    *)
(* hybrid nodes.  The parts of a gateway do not disturb each other, so     *)
(* that what LeaderProofs shows of the leader holds in the whole system.   *)
(***************************************************************************)
EXTENDS HybridGateway, LeaderProofs

\* Every step of the system is a step of Leader or leaves its state alone.
LEMMA SysStep == [SysNext]_sysVars => [Next]_vars
  BY DEF SysNext, sysVars, vars, LeaderStep, ClusterChanges, Inform, Serve

\* The whole system implements Leader: the tunnel entries of the replicas add
\* no step to the lease, Setup, the routes and the CiliumVTEPConfig.
THEOREM ImplementsLeader == SysSpec => Spec
<1>1. SysInit => Init
  BY DEF SysInit
<1>2. QED
  BY <1>1, SysStep, PTL DEF SysSpec, Spec

-----------------------------------------------------------------------------
\* The types of the tunnel entries' part; a gateway serves nodes it has seen.
TunnelTypeOK ==
    /\ want \in [Node -> Demand]
    /\ seen \in [Gateway -> [Node -> Demand \cup {Nil}]]
    /\ served \in [Gateway -> SUBSET Node]
    /\ \A g \in Gateway : \A n \in served[g] : seen[g][n] # Nil

LEMMA TunnelTypeInit == SysInit => TunnelTypeOK
  BY DEF SysInit, TunnelTypeOK, NothingSeen

LEMMA TunnelTypeStep == TunnelTypeOK /\ [SysNext]_sysVars => TunnelTypeOK'
<1> SUFFICES ASSUME TunnelTypeOK, [SysNext]_sysVars PROVE TunnelTypeOK'
  OBVIOUS
<1> USE DEF TunnelTypeOK
<1>1. CASE LeaderStep
  <2>1. want' = want
    BY <1>1 DEF LeaderStep
  <2>2. seen' \in [Gateway -> [Node -> Demand \cup {Nil}]]
    <3>1. /\ NothingSeen \in [Node -> Demand \cup {Nil}]
          /\ want \in [Node -> Demand \cup {Nil}]
      BY DEF NothingSeen
    <3>2. QED
      BY <1>1, <3>1 DEF LeaderStep
  <2>3. served' \in [Gateway -> SUBSET Node]
    BY <1>1 DEF LeaderStep
  <2>4. ASSUME NEW g \in Gateway, NEW n \in served'[g]
        PROVE  seen'[g][n] # Nil
    <3>1. Up(g) /\ Up(g)' /\ n \in served[g]
      BY <1>1, <2>4 DEF LeaderStep
    <3>2. seen'[g] = seen[g]
      BY <1>1, <3>1 DEF LeaderStep
    <3>3. QED
      BY <3>1, <3>2
  <2>5. QED
    BY <2>1, <2>2, <2>3, <2>4
<1>2. ASSUME NEW n \in Node, ClusterChanges(n) PROVE TunnelTypeOK'
  <2>1. UNCHANGED <<seen, served>>
    BY <1>2 DEF ClusterChanges
  <2>2. want' \in [Node -> Demand]
    BY <1>2 DEF ClusterChanges, Demand
  <2>3. QED
    BY <2>1, <2>2
<1>3. ASSUME NEW g \in Gateway, NEW n \in Node, Inform(g, n)
      PROVE  TunnelTypeOK'
  <2>1. want' = want /\ want[n] \in Demand
    BY <1>3 DEF Inform
  <2>2. seen' = [seen EXCEPT ![g][n] = want[n]]
    BY <1>3 DEF Inform
  <2>3. \/ served' = [served EXCEPT ![g] = @ \ {n}]
        \/ want[n] # Nil /\ served' = [served EXCEPT ![g] = @ \cup {n}]
    BY <1>3 DEF Inform
  <2>4. seen' \in [Gateway -> [Node -> Demand \cup {Nil}]]
    BY <2>1, <2>2
  <2>5. served' \in [Gateway -> SUBSET Node]
    BY <2>3
  <2>6. ASSUME NEW h \in Gateway, NEW m \in served'[h]
        PROVE  seen'[h][m] # Nil
    <3>1. CASE h = g /\ m = n
      <4>1. want[n] # Nil
        BY <2>3, <2>6, <3>1
      <4>2. QED
        BY <2>2, <3>1, <4>1
    <3>2. CASE ~(h = g /\ m = n)
      <4>1. m \in served[h] /\ m \in Node
        BY <2>3, <2>5, <2>6, <3>2
      <4>2. seen'[h][m] = seen[h][m]
        BY <2>2, <3>2, <4>1
      <4>3. QED
        BY <4>1, <4>2
    <3>3. QED
      BY <3>1, <3>2
  <2>7. QED
    BY <2>1, <2>4, <2>5, <2>6
<1>4. ASSUME NEW g \in Gateway, NEW n \in Node, Serve(g, n)
      PROVE  TunnelTypeOK'
  BY <1>4 DEF Serve
<1>5. CASE UNCHANGED sysVars
  BY <1>5 DEF sysVars
<1>6. QED
  BY <1>1, <1>2, <1>3, <1>4, <1>5 DEF SysNext

\* The types of the whole system's state.
THEOREM SysTypeCorrect == SysSpec => []SysTypeOK
<1>1. TypeOK /\ TunnelTypeOK => SysTypeOK
  BY DEF TunnelTypeOK, SysTypeOK
<1>2. SysSpec => []TypeOK
  BY ImplementsLeader, TypeCorrect, PTL
<1>3. SysSpec => []TunnelTypeOK
  BY TunnelTypeInit, TunnelTypeStep, PTL DEF SysSpec
<1>4. QED
  BY <1>1, <1>2, <1>3, PTL

\* In the whole system too, where leadership is exclusive, a leader past
\* UpdateRoutes has every route.
THEOREM RoutesBelongToLeaderInSystem ==
    ASSUME Exclusive
    PROVE  SysSpec => []RoutesBelongToLeader
  BY ImplementsLeader, RoutesAlwaysBelongToLeader, PTL

\* And no upsert of any gateway overwrites an edit unread.
THEOREM NoEditIsLostInSystem == SysSpec => NoLostEdit
  BY ImplementsLeader, NoEditIsLost, PTL

-----------------------------------------------------------------------------
(* The two halves of a gateway together.                                    *)

\* A gateway that stays up keeps serving a node that asks for nothing else,
\* whatever the other nodes ask for.
LEMMA ServiceStep ==
    ASSUME TunnelTypeOK, [SysNext]_sysVars, NEW g \in Gateway, Up(g), Up(g)',
           NEW n \in Node, ~ClusterChanges(n), Reaches(g, n)
    PROVE  Reaches(g, n)'
<1> USE DEF TunnelTypeOK, Reaches
<1>1. CASE LeaderStep
  BY <1>1 DEF LeaderStep
<1>2. ASSUME NEW m \in Node, ClusterChanges(m)
      PROVE  Reaches(g, n)'
  <2>1. m # n
    BY <1>2
  <2>2. want'[n] = want[n] /\ UNCHANGED <<seen, served>>
    BY <1>2, <2>1 DEF ClusterChanges
  <2>3. QED
    BY <2>2
<1>3. ASSUME NEW h \in Gateway, NEW m \in Node, Inform(h, m)
      PROVE  Reaches(g, n)'
  <2>1. want' = want /\ ~(h = g /\ m = n)
    BY <1>3 DEF Inform
  <2>2. seen'[g][n] = seen[g][n]
    BY <1>3, <2>1 DEF Inform
  <2>3. n \in served'[g]
    BY <1>3, <2>1 DEF Inform
  <2>4. QED
    BY <2>1, <2>2, <2>3
<1>4. ASSUME NEW h \in Gateway, NEW m \in Node, Serve(h, m)
      PROVE  Reaches(g, n)'
  BY <1>4 DEF Serve
<1>5. CASE UNCHANGED sysVars
  BY <1>5 DEF sysVars
<1>6. QED
  BY <1>1, <1>2, <1>3, <1>4, <1>5 DEF SysNext

\* Where leadership is exclusive, traffic that flows to a node goes on flowing
\* while its gateway leads, users leave the CiliumVTEPConfig alone and the node
\* asks for nothing else, whatever the other gateways and the other nodes do:
\* for any number of gateways, routes and nodes.
THEOREM TrafficAlwaysKeepsFlowing ==
    ASSUME Exclusive
    PROVE  SysSpec => TrafficKeepsFlowing
<1>1. SysInit => RoutesInv /\ TunnelTypeOK
  BY ControlInit, TunnelTypeInit DEF SysInit, Init, RoutesInv, OneLeader, RouteProgress
<1>2. RoutesInv /\ TunnelTypeOK /\ [SysNext]_sysVars => RoutesInv' /\ TunnelTypeOK'
  BY SysStep, RoutesStep, TunnelTypeStep
<1> DEFINE Keeps(g, n) ==
               Attracts(g) /\ Reaches(g, n) /\ Leads(g)' =>
                  (Attracts(g) /\ Reaches(g, n))' \/ UserEdits \/ ClusterChanges(n)
<1>3. RoutesInv /\ TunnelTypeOK /\ [SysNext]_sysVars
          => [\A g \in Gateway, n \in Node : Keeps(g, n)]_sysVars
  <2> SUFFICES ASSUME RoutesInv, TunnelTypeOK, [SysNext]_sysVars,
                      NEW g \in Gateway, NEW n \in Node,
                      Attracts(g), Reaches(g, n), Leads(g)',
                      ~UserEdits, ~ClusterChanges(n)
               PROVE  Attracts(g)' /\ Reaches(g, n)'
    OBVIOUS
  <2>1. Attracts(g)'
    BY SysStep, AttractionKept
  <2>2. Up(g) /\ Up(g)'
    BY DEF Attracts, Leads, Up
  <2>3. Reaches(g, n)'
    BY <2>2, ServiceStep
  <2>4. QED
    BY <2>1, <2>3
<1>4. QED
  BY <1>1, <1>2, <1>3, PTL DEF SysSpec, TrafficKeepsFlowing

-----------------------------------------------------------------------------
(* Each gateway's part is what Tunnels allows.                              *)

\* A gateway that is down has seen nothing and serves nobody.
DownIsEmpty ==
    \A g \in Gateway : ~Up(g) => seen[g] = NothingSeen /\ served[g] = {}

ReplicaInv == TunnelTypeOK /\ DownIsEmpty

LEMMA ReplicaInit == SysInit => ReplicaInv
  BY TunnelTypeInit DEF SysInit, ReplicaInv, DownIsEmpty

LEMMA ReplicaInvStep == ReplicaInv /\ [SysNext]_sysVars => ReplicaInv'
<1> SUFFICES ASSUME ReplicaInv, [SysNext]_sysVars PROVE ReplicaInv'
  OBVIOUS
<1>t. TunnelTypeOK /\ TunnelTypeOK'
  BY TunnelTypeStep DEF ReplicaInv
<1> SUFFICES ASSUME NEW g \in Gateway, ~Up(g)'
             PROVE  seen'[g] = NothingSeen /\ served'[g] = {}
  BY <1>t DEF ReplicaInv, DownIsEmpty, NothingSeen
<1>1. CASE LeaderStep
  BY <1>1 DEF LeaderStep, Up
<1>2. ASSUME UNCHANGED proc, seen'[g] = seen[g], served'[g] = served[g]
      PROVE  seen'[g] = NothingSeen /\ served'[g] = {}
  BY <1>2 DEF ReplicaInv, DownIsEmpty, Up
<1>3. ASSUME NEW n \in Node, ClusterChanges(n)
      PROVE  UNCHANGED <<proc, seen, served>>
  BY <1>3 DEF ClusterChanges, vars
<1>4. ASSUME NEW h \in Gateway, NEW n \in Node, Inform(h, n) \/ Serve(h, n)
      PROVE  UNCHANGED proc /\ seen'[g] = seen[g] /\ served'[g] = served[g]
  <2>1. UNCHANGED proc /\ Up(h)
    BY <1>4 DEF Inform, Serve, vars
  <2>2. h # g
    BY <2>1 DEF Up
  <2>3. QED
    BY <1>4, <1>t, <2>1, <2>2 DEF Inform, Serve, TunnelTypeOK
<1>5. QED
  BY <1>1, <1>2, <1>3, <1>4 DEF SysNext, sysVars

\* Every step of the system is a step of Tunnels, or none, for each gateway.
LEMMA ReplicaStep ==
    ASSUME ReplicaInv, [SysNext]_sysVars, NEW g \in Gateway
    PROVE  [T(g)!Next]_(T(g)!tunnelVars)
<1>t. TunnelTypeOK /\ TunnelTypeOK' /\ DownIsEmpty
  BY TunnelTypeStep DEF ReplicaInv
<1>0. ASSUME UNCHANGED proc, seen'[g] = seen[g], served'[g] = served[g]
      PROVE  UNCHANGED T(g)!tunnelVars
  BY <1>0 DEF T!tunnelVars, Up
<1>1. CASE LeaderStep
  <2>1. CASE Up(g) /\ Up(g)'
    <3>1. seen'[g] = seen[g] /\ served'[g] = served[g]
      BY <1>1, <2>1 DEF LeaderStep
    <3>2. QED
      BY <2>1, <3>1 DEF T!tunnelVars
  <2>2. CASE ~Up(g) /\ ~Up(g)'
    <3>1. seen'[g] = seen[g] /\ served'[g] = served[g]
      BY <1>1, <1>t, <2>2 DEF LeaderStep, DownIsEmpty
    <3>2. QED
      BY <2>2, <3>1 DEF T!tunnelVars, Up
  <2>3. CASE Up(g)' # Up(g)
    <3>1. served'[g] = {}
      BY <1>1, <2>3 DEF LeaderStep, Up
    <3>2. Up(g)' = ~Up(g)
      BY <2>3 DEF Up
    <3>3. QED
      BY <3>1, <3>2 DEF T!Restart, T!Next
  <2>4. QED
    BY <2>1, <2>2, <2>3 DEF Up
<1>2. ASSUME NEW n \in Node, ClusterChanges(n)
      PROVE  UNCHANGED T(g)!tunnelVars
  BY <1>0, <1>2 DEF ClusterChanges, vars
<1>3. ASSUME NEW h \in Gateway, NEW n \in Node, Inform(h, n)
      PROVE  [T(g)!Next]_(T(g)!tunnelVars)
  <2>p. Up(h) /\ UNCHANGED proc /\ seen[h][n] # want[n]
        /\ seen' = [seen EXCEPT ![h][n] = want[n]]
    BY <1>3 DEF Inform, vars
  <2>1. CASE h # g
    <3>1. seen'[g] = seen[g] /\ served'[g] = served[g]
      BY <1>3, <1>t, <2>1 DEF Inform, TunnelTypeOK
    <3>2. QED
      BY <1>0, <2>p, <3>1
  <2>2. CASE h = g
    <3>1. seen'[g][n] = want[n] /\ \A m \in Node \ {n} : seen'[g][m] = seen[g][m]
      BY <1>t, <2>p, <2>2 DEF TunnelTypeOK
    <3>2. served'[g] \ {n} = served[g] \ {n}
      BY <1>3, <1>t, <2>2 DEF Inform, TunnelTypeOK
    <3>3. served'[g] \subseteq {m \in Node : seen'[g][m] # Nil}
      BY <1>t DEF TunnelTypeOK
    <3>4. Up(g) /\ Up(g)' = Up(g)
      BY <2>p, <2>2 DEF Up
    <3>5. T(g)!Change(n)
      BY <2>p, <2>2, <3>1, <3>2, <3>3, <3>4 DEF T!Change
    <3>6. QED
      BY <3>5 DEF T!Next
  <2>3. QED
    BY <2>1, <2>2
<1>4. ASSUME NEW h \in Gateway, NEW n \in Node, Serve(h, n)
      PROVE  [T(g)!Next]_(T(g)!tunnelVars)
  <2>p. Up(h) /\ UNCHANGED <<proc, seen>> /\ served' = [served EXCEPT ![h] = @ \cup {n}]
    BY <1>4 DEF Serve, vars
  <2>1. CASE h # g
    <3>1. seen'[g] = seen[g] /\ served'[g] = served[g]
      BY <1>t, <2>p, <2>1 DEF TunnelTypeOK
    <3>2. QED
      BY <1>0, <2>p, <3>1
  <2>2. CASE h = g
    <3>1. served[g] \subseteq served'[g]
      BY <1>t, <2>p, <2>2 DEF TunnelTypeOK
    <3>2. served'[g] \subseteq {m \in Node : seen[g][m] # Nil}
      BY <1>t, <2>p DEF TunnelTypeOK
    <3>3. Up(g) /\ Up(g)' = Up(g)
      BY <2>p, <2>2 DEF Up
    <3>4. T(g)!Serve
      BY <2>p, <3>1, <3>2, <3>3 DEF T!Serve, T!Wanted
    <3>5. QED
      BY <3>4 DEF T!Next
  <2>3. QED
    BY <2>1, <2>2
<1>5. CASE UNCHANGED sysVars
  BY <1>0, <1>5 DEF sysVars
<1>6. QED
  BY <1>1, <1>2, <1>3, <1>4, <1>5 DEF SysNext

\* The tunnel entries of each gateway behave as Tunnels allows, whatever the
\* lease, the other gateways and the cluster do.
THEOREM ReplicasImplementTunnels ==
    ASSUME NEW g \in Gateway
    PROVE  SysSpec => T(g)!Spec
<1>1. SysInit => T(g)!Init
  BY DEF SysInit, Init, T!Init, Up, NothingSeen
<1>2. ReplicaInv /\ [SysNext]_sysVars => [T(g)!Next]_(T(g)!tunnelVars)
  BY ReplicaStep
<1>3. QED
  BY <1>1, <1>2, ReplicaInit, ReplicaInvStep, PTL DEF SysSpec, T!Spec

\* And the other way round, HybridGateway leaves out nothing that Tunnels
\* allows of a running gateway whose informer brings what the API server has:
\* a step of Tunnels about one node is a step of the system.
THEOREM TunnelsStepsAreAllowed ==
    ASSUME TunnelTypeOK, TunnelTypeOK', NEW g \in Gateway, NEW n \in Node, Up(g),
           UNCHANGED <<vars, want>>,
           \A h \in Gateway \ {g} : seen'[h] = seen[h] /\ served'[h] = served[h],
           \/ T(g)!Change(n) /\ seen'[g][n] = want[n]
           \/ T(g)!Serve /\ served'[g] = served[g] \cup {n}
    PROVE  [SysNext]_sysVars
<1> USE DEF TunnelTypeOK
<1>1. CASE T(g)!Change(n) /\ seen'[g][n] = want[n]
  <2>1. /\ seen'[g][n] # seen[g][n]
        /\ \A m \in Node \ {n} : seen'[g][m] = seen[g][m]
        /\ served'[g] \ {n} = served[g] \ {n}
        /\ served'[g] \subseteq {m \in Node : seen'[g][m] # Nil}
    BY <1>1 DEF T!Change
  <2>2. seen' = [seen EXCEPT ![g][n] = want[n]]
    <3>1. seen'[g] = [seen[g] EXCEPT ![n] = want[n]]
      BY <1>1, <2>1
    <3>2. QED
      BY <3>1
  <2>3. \/ served'[g] = served[g] \ {n}
        \/ want[n] # Nil /\ served'[g] = served[g] \cup {n}
    BY <1>1, <2>1
  <2>4. \/ served' = [served EXCEPT ![g] = @ \ {n}]
        \/ want[n] # Nil /\ served' = [served EXCEPT ![g] = @ \cup {n}]
    BY <2>3
  <2>5. Inform(g, n)
    BY <1>1, <2>1, <2>2, <2>4 DEF Inform
  <2>6. QED
    BY <2>5 DEF SysNext
<1>2. CASE T(g)!Serve /\ served'[g] = served[g] \cup {n}
  <2>1. seen'[g] = seen[g] /\ served'[g] \subseteq {m \in Node : seen[g][m] # Nil}
    BY <1>2 DEF T!Serve, T!Wanted
  <2>2. seen' = seen
    BY <2>1
  <2>3. served' = [served EXCEPT ![g] = @ \cup {n}]
    BY <1>2
  <2>4. CASE n \in served[g]
    <3>1. served' = served
      BY <2>3, <2>4
    <3>2. QED
      BY <2>2, <3>1 DEF sysVars, vars
  <2>5. CASE n \notin served[g]
    <3>1. seen[g][n] # Nil
      BY <1>2, <2>1
    <3>2. Serve(g, n)
      BY <2>2, <2>3, <2>5, <3>1 DEF Serve
    <3>3. QED
      BY <3>2 DEF SysNext
  <2>6. QED
    BY <2>4, <2>5
<1>3. QED
  BY <1>1, <1>2
=============================================================================
