---------------------------- MODULE LeaderProofs ----------------------------
(***************************************************************************)
(* Theorems about Leader, for any number of gateways, routes and VPC CIDRs *)
(* and any contents users may give the CiliumVTEPConfig.                   *)
(***************************************************************************)
EXTENDS Leader, TLAPS

UpdType == {NotUpdating} \cup [pc : UpdPC, i : Route]
UpsType == [pc : UpsPC \cup {"idle"}, got : Contents, fresh : BOOLEAN]

\* A writer's two forms are two writers, and Nil is none.
LEMMA Writers ==
    \A g \in Gateway : /\ SetupOf(g) \in Writer /\ ReconcilerOf(g) \in Writer
                       /\ GatewayOf(SetupOf(g)) = g
                       /\ GatewayOf(ReconcilerOf(g)) = g
                       /\ \A h \in Gateway : /\ SetupOf(g) # ReconcilerOf(h)
                                             /\ SetupOf(g) = SetupOf(h) => g = h
                                             /\ ReconcilerOf(g) = ReconcilerOf(h) => g = h
  BY DEF SetupOf, ReconcilerOf, Writer, GatewayOf

-----------------------------------------------------------------------------
(* Types.                                                                   *)

\* A writer that does not upsert, or starts to, has read nothing.
LEMMA NothingRead ==
    NotUpserting \in UpsType /\ [NotUpserting EXCEPT !.pc = "get"] \in UpsType
<1>1. Nil \in Contents
  BY DEF Contents
<1>2. QED
  BY <1>1 DEF NotUpserting, UpsType, UpsPC

\* UpdateRoutes keeps the types of the tables and of its own position.
LEMMA RoutesTypeStep ==
    ASSUME RoutesTypeOK, NEW g \in Gateway,
           \/ Describe(g) \/ WriteRoute(g) \/ CallFails(g)
    PROVE  RoutesTypeOK'
<1> USE DEF RoutesTypeOK
<1>0. upd[g].pc \in UpdPC => upd[g] \in [pc : UpdPC, i : Route]
  BY DEF NotUpdating, UpdPC
<1>1. CASE Describe(g)
  <2>1. upd[g] \in [pc : UpdPC, i : Route]
    BY <1>0, <1>1 DEF Describe, UpdPC
  <2>2. QED
    BY <1>1, <2>1 DEF Describe, Reach, Updating, UpdPC
<1>2. CASE WriteRoute(g)
  <2>1. upd[g] \in [pc : UpdPC, i : Route]
    BY <1>0, <1>2 DEF WriteRoute, Accepts, UpdPC
  <2>2. QED
    BY <1>2, <2>1 DEF WriteRoute, Reach, Updating, UpdPC, Target
<1>3. CASE CallFails(g)
  <2>1. upd[g] \in [pc : UpdPC, i : Route]
    BY <1>0, <1>3 DEF CallFails
  <2>2. QED
    BY <1>3, <2>1 DEF CallFails, Target
<1>4. QED
  BY <1>1, <1>2, <1>3

\* A write keeps the types of the object and of the writers.
LEMMA WriteType ==
    ASSUME ConfigTypeOK, NEW object \in Contents, NEW w, Write(object, w)
    PROVE  ConfigTypeOK'
<1>1. \A v \in Writer : ups[v] \in UpsType
  BY DEF ConfigTypeOK, UpsType
<1>2. \A v \in Writer : [ups[v] EXCEPT !.fresh = FALSE] \in UpsType
  BY <1>1 DEF UpsType
<1>3. ups' \in [Writer -> UpsType]
  BY <1>2, NothingRead DEF Write
<1>4. QED
  BY <1>3 DEF ConfigTypeOK, Write, UpsType

\* So does every step of UpsertCiliumVTEPConfig.
LEMMA UpsertTypeStep ==
    ASSUME ConfigTypeOK, NEW w \in Writer,
           UpsertGoesOn(w) \/ Upserted(w) \/ UpsertFails(w)
    PROVE  ConfigTypeOK'
<1>1. ASSUME Return(w)
      PROVE  ConfigTypeOK'
  BY <1>1, NothingRead DEF Return, ConfigTypeOK, UpsType
<1>2. GatewayOf(w) \in Gateway
  BY DEF Writer, GatewayOf
<1>3. Desired(GatewayOf(w)) \in Contents
  BY <1>2 DEF Contents
<1>4. CASE GetMissing(w) \/ GetWrong(w)
  <2>1. ups[w] \in UpsType
    BY DEF ConfigTypeOK, UpsType
  <2>2. CASE GetMissing(w)
    <3>1. [ups[w] EXCEPT !.pc = "create"] \in UpsType
      BY <2>1 DEF UpsType, UpsPC
    <3>2. QED
      BY <2>2, <3>1 DEF GetMissing, ConfigTypeOK, UpsType
  <2>3. CASE GetWrong(w)
    BY <2>3 DEF GetWrong, ConfigTypeOK, UpsPC
  <2>4. QED
    BY <1>4, <2>2, <2>3
<1>5. CASE CreateOK(w) \/ UpdateOK(w)
  BY <1>3, <1>5, WriteType DEF CreateOK, UpdateOK
<1>6. CASE GetUpToDate(w) \/ CreateExists(w) \/ (ups[w].pc \in UpsPC /\ Return(w))
  BY <1>1, <1>6 DEF GetUpToDate, CreateExists
<1>7. QED
  BY <1>4, <1>5, <1>6 DEF UpsertGoesOn, Upserted, UpsertFails

\* What the lease, the processes and the watches hold.
ElectTypeOK ==
    /\ proc \in [Gateway -> {"down", "standby", "leader"}]
    /\ lease \in Gateway \cup {Nil}
    /\ setup \in [Gateway -> SetupPC]
    /\ watching \subseteq {g \in Gateway : proc[g] = "leader"}
    /\ queued \subseteq watching

\* Setup runs in leaders only, UpdateRoutes in Setup only, and the reconciler
\* only where the object is watched.
Placement ==
    \A g \in Gateway :
        /\ setup[g] = "none" <=> proc[g] # "leader"
        /\ upd[g] # NotUpdating => setup[g] = "routes"
        /\ ups[ReconcilerOf(g)].pc # "idle" => g \in watching

ControlInv ==
    /\ RoutesTypeOK
    /\ ConfigTypeOK
    /\ ElectTypeOK
    /\ Placement

\* ControlInv holds before any gateway is started.
LEMMA ControlInit == Init => ControlInv
<1> SUFFICES ASSUME Init PROVE ControlInv
  OBVIOUS
<1>1. RoutesTypeOK
  BY DEF Init, RoutesInit, RoutesTypeOK
<1>2. ConfigTypeOK
  BY DEF Init, ConfigInit, ConfigTypeOK, NotUpserting, Contents
<1>3. ElectTypeOK
  BY DEF Init, ElectTypeOK, SetupPC
<1>4. Placement
  BY Writers DEF Init, RoutesInit, ConfigInit, Placement, NotUpserting
<1>5. QED
  BY <1>1, <1>2, <1>3, <1>4 DEF ControlInv

\* A write, and so an upsert, moves no other writer.
LEMMA WriteFrame ==
    ASSUME ConfigTypeOK, NEW object, NEW w, Write(object, w),
           NEW v \in Writer, v # w
    PROVE  ups'[v].pc = ups[v].pc /\ ~ups'[v].fresh
<1>1. ups'[v] = [ups[v] EXCEPT !.fresh = FALSE]
  BY DEF Write
<1>2. ups[v] \in UpsType
  BY DEF ConfigTypeOK, UpsType
<1>3. QED
  BY <1>1, <1>2 DEF UpsType

LEMMA UpsertFrame ==
    ASSUME ConfigTypeOK, NEW w \in Writer, NEW v \in Writer, v # w,
           UpsertGoesOn(w) \/ Upserted(w) \/ UpsertFails(w)
    PROVE  ups'[v].pc = ups[v].pc
<1>1. CASE GetMissing(w) \/ GetWrong(w) \/ Return(w)
  BY <1>1 DEF GetMissing, GetWrong, Return, ConfigTypeOK
<1>2. CASE CreateOK(w) \/ UpdateOK(w)
  BY <1>2, WriteFrame DEF CreateOK, UpdateOK
<1>3. QED
  BY <1>1, <1>2 DEF UpsertGoesOn, Upserted, UpsertFails, GetUpToDate, CreateExists

\* Every step of the processes, the leader's work and the users keeps it.
LEMMA ControlStep == ControlInv /\ [Next]_vars => ControlInv'
<1> SUFFICES ASSUME ControlInv, [Next]_vars PROVE ControlInv'
  OBVIOUS
<1> USE DEF ControlInv
<1>p. \A g \in Gateway :
          /\ setup[g] \in {"routes", "upsert"} => proc[g] = "leader"
          /\ upd[g].pc \in UpdPC => upd[g] # NotUpdating
  BY DEF Placement, NotUpdating, UpdPC
<1>1. ASSUME NEW g \in Gateway, Start(g)
      PROVE  ControlInv'
  BY <1>1 DEF Start, RoutesTypeOK, ConfigTypeOK, ElectTypeOK, Placement,
              routeVars, configVars, watchVars
<1>2. ASSUME NEW g \in Gateway, Acquire(g)
      PROVE  ControlInv'
  <2>1. RoutesTypeOK'
    BY <1>2, RoutesAssumption DEF Acquire, Reach, RoutesTypeOK, Updating, UpdPC
  <2>2. ElectTypeOK'
    BY <1>2 DEF Acquire, ElectTypeOK, SetupPC, watchVars
  <2>3. Placement'
    BY <1>2 DEF Acquire, Placement, Reach, ElectTypeOK, RoutesTypeOK, configVars, watchVars
  <2>4. QED
    BY <1>2, <2>1, <2>2, <2>3 DEF Acquire, configVars, ConfigTypeOK
<1>3. CASE LeaseExpires
  BY <1>3 DEF LeaseExpires, RoutesTypeOK, ConfigTypeOK, ElectTypeOK, Placement,
              routeVars, configVars, watchVars
<1>4. ASSUME NEW g \in Gateway, Exit(g)
      PROVE  ControlInv'
  <2>1. RoutesTypeOK'
    BY <1>4 DEF Exit, RoutesTypeOK
  <2>2. ConfigTypeOK'
    <3>1. ups' \in [Writer -> UpsType]
      BY <1>4, NothingRead DEF Exit, ConfigTypeOK, UpsType
    <3>2. QED
      BY <1>4, <3>1 DEF Exit, ConfigTypeOK, UpsType
  <2>3. ElectTypeOK'
    BY <1>4 DEF Exit, ElectTypeOK, SetupPC
  <2>4. \A h \in Gateway : h # g => ups'[ReconcilerOf(h)] = ups[ReconcilerOf(h)]
    BY <1>4, Writers DEF Exit, ConfigTypeOK
  <2>5. ups'[ReconcilerOf(g)].pc = "idle"
    BY <1>4, Writers DEF Exit, ConfigTypeOK, NotUpserting
  <2>6. Placement'
    BY <1>4, <2>4, <2>5 DEF Exit, Placement, ElectTypeOK, RoutesTypeOK
  <2>7. QED
    BY <1>4, <2>1, <2>2, <2>3, <2>6 DEF Exit
<1>5. ASSUME NEW g \in Gateway, SetupRoutes(g) \/ SetupRoutesError(g)
      PROVE  ControlInv'
  <2>1. RoutesTypeOK'
    BY <1>5, RoutesTypeStep DEF SetupRoutes, SetupRoutesError
  <2>2. UNCHANGED <<ups, crd, proc, lease, watching, queued>>
    BY <1>5 DEF SetupRoutes, SetupRoutesError, configVars, watchVars, electVars
  <2>3. ElectTypeOK'
    BY <1>5, <2>2 DEF SetupRoutes, SetupRoutesError, electVars, ElectTypeOK, SetupPC
  <2>4. \A h \in Gateway \ {g} : upd'[h] = upd[h]
    BY <1>5 DEF SetupRoutes, SetupRoutesError, Describe, WriteRoute, CallFails, Reach,
                RoutesTypeOK
  <2>5. CASE SetupRoutes(g)
    <3>1. Placement'
      BY <1>p, <2>2, <2>4, <2>5 DEF SetupRoutes, electVars, Placement
    <3>2. QED
      BY <2>1, <2>2, <2>3, <3>1 DEF ConfigTypeOK
  <2>6. CASE SetupRoutesError(g)
    <3>1. upd'[g] = NotUpdating /\ setup' = [setup EXCEPT ![g] = "failed"]
      BY <2>6 DEF SetupRoutesError, CallFails, RoutesTypeOK
    <3>2. Placement'
      BY <1>p, <2>2, <2>4, <2>6, <3>1 DEF SetupRoutesError, Placement, ElectTypeOK
    <3>3. QED
      BY <2>1, <2>2, <2>3, <3>2 DEF ConfigTypeOK
  <2>7. QED
    BY <1>5, <2>1, <2>2, <2>3, <2>5, <2>6 DEF ConfigTypeOK
<1>6. ASSUME NEW g \in Gateway, SetupRoutesDone(g)
      PROVE  ControlInv'
  <2>1. \/ UNCHANGED ups
        \/ ups' = [ups EXCEPT ![SetupOf(g)] = [NotUpserting EXCEPT !.pc = "get"]]
    BY <1>6 DEF SetupRoutesDone, BeginUpsert
  <2>2. ConfigTypeOK'
    <3>1. crd' = crd
      BY <1>6 DEF SetupRoutesDone, BeginUpsert, configVars
    <3>2. QED
      BY <2>1, <3>1, NothingRead DEF ConfigTypeOK, UpsType
  <2>3. \A h \in Gateway : ups'[ReconcilerOf(h)] = ups[ReconcilerOf(h)]
    BY <2>1, Writers DEF ConfigTypeOK
  <2>4. ElectTypeOK'
    BY <1>6 DEF SetupRoutesDone, ElectTypeOK, SetupPC, watchVars
  <2>5. Placement'
    BY <1>p, <1>6, <2>3 DEF SetupRoutesDone, Placement, ElectTypeOK, routeVars, watchVars
  <2>6. QED
    BY <1>6, <2>2, <2>4, <2>5 DEF SetupRoutesDone, routeVars, RoutesTypeOK
<1>7. ASSUME NEW g \in Gateway, SetupUpsert(g) \/ SetupUpsertError(g)
      PROVE  ControlInv'
  <2>1. /\ UpsertGoesOn(SetupOf(g)) \/ Upserted(SetupOf(g)) \/ UpsertFails(SetupOf(g))
        /\ UNCHANGED <<routes, upd, proc, lease, watching>>
        /\ setup[g] = "upsert"
        /\ \/ UNCHANGED setup
           \/ setup' = [setup EXCEPT ![g] = "done"]
           \/ setup' = [setup EXCEPT ![g] = "failed"]
        /\ queued' \subseteq queued \cup watching
    BY <1>7 DEF SetupUpsert, SetupUpsertError, Notify, routeVars
  <2>2. ConfigTypeOK'
    BY <2>1, UpsertTypeStep, Writers
  <2>3. \A h \in Gateway : ups'[ReconcilerOf(h)].pc = ups[ReconcilerOf(h)].pc
    BY <2>1, UpsertFrame, Writers
  <2>4. ElectTypeOK'
    BY <2>1 DEF ElectTypeOK, SetupPC
  <2>5. Placement'
    BY <1>p, <2>1, <2>3 DEF Placement, ElectTypeOK
  <2>6. QED
    BY <2>1, <2>2, <2>4, <2>5 DEF RoutesTypeOK
<1>8. ASSUME NEW g \in Gateway, StartWatch(g) \/ Resync(g)
      PROVE  ControlInv'
  BY <1>8 DEF StartWatch, Resync, RoutesTypeOK, ConfigTypeOK, ElectTypeOK, Placement,
              routeVars, configVars, electVars
<1>9. ASSUME NEW g \in Gateway, Reconcile(g)
      PROVE  ControlInv'
  <2>1. ConfigTypeOK'
    BY <1>9, Writers, NothingRead DEF Reconcile, BeginUpsert, ConfigTypeOK, UpsType
  <2>2. \A h \in Gateway : h # g => ups'[ReconcilerOf(h)] = ups[ReconcilerOf(h)]
    BY <1>9, Writers DEF Reconcile, BeginUpsert, ConfigTypeOK
  <2>3. Placement'
    BY <1>9, <2>2 DEF Reconcile, Placement, ElectTypeOK, routeVars, electVars
  <2>4. QED
    BY <1>9, <2>1, <2>3 DEF Reconcile, ElectTypeOK, RoutesTypeOK, routeVars, electVars
<1>10. ASSUME NEW g \in Gateway, ReconcileStep(g) \/ ReconcileError(g)
       PROVE  ControlInv'
  <2>1. \/ UpsertGoesOn(ReconcilerOf(g))
        \/ Upserted(ReconcilerOf(g))
        \/ UpsertFails(ReconcilerOf(g))
    BY <1>10 DEF ReconcileStep, ReconcileError
  <2>2. UNCHANGED <<routes, upd, proc, lease, setup, watching>>
    BY <1>10 DEF ReconcileStep, ReconcileError, routeVars, electVars
  <2>3. ConfigTypeOK'
    BY <2>1, UpsertTypeStep, Writers
  <2>4. \A h \in Gateway \ {g} : ups'[ReconcilerOf(h)].pc = ups[ReconcilerOf(h)].pc
    BY <2>1, UpsertFrame, Writers
  <2>5. g \in watching
    <3>1. ups[ReconcilerOf(g)].pc \in UpsPC
      BY <2>1 DEF UpsertGoesOn, Upserted, UpsertFails, GetMissing, GetWrong,
                  GetUpToDate, CreateOK, CreateExists, UpdateOK, UpsPC
    <3>2. QED
      BY <3>1 DEF Placement, UpsPC
  <2>6. queued' \subseteq queued \cup watching
    BY <1>10, <2>5 DEF ReconcileStep, ReconcileError, Notify
  <2>7. ElectTypeOK'
    BY <2>2, <2>6 DEF ElectTypeOK
  <2>8. Placement'
    BY <2>2, <2>4, <2>5 DEF Placement
  <2>9. QED
    BY <2>2, <2>3, <2>7, <2>8 DEF RoutesTypeOK
<1>11. ASSUME NEW object \in UserContents \cup {Nil},
              UserWrites(object) \/ (object = Nil /\ UserDeletes)
       PROVE  ControlInv'
  <2>1. /\ Write(object, Nil)
        /\ UNCHANGED <<routes, upd, proc, lease, setup, watching>>
        /\ queued' \subseteq queued \cup watching
    BY <1>11 DEF UserWrites, UserDeletes, Notify, routeVars, electVars
  <2>2. ConfigTypeOK'
    BY <2>1, WriteType DEF Contents
  <2>3. \A h \in Gateway : ups'[ReconcilerOf(h)].pc = ups[ReconcilerOf(h)].pc
    BY <2>1, WriteFrame, Writers, WriterAssumption
  <2>4. Placement'
    BY <2>1, <2>3 DEF Placement
  <2>5. QED
    BY <2>1, <2>2, <2>4 DEF RoutesTypeOK, ElectTypeOK
<1>12. CASE UNCHANGED vars
  BY <1>12 DEF vars, RoutesTypeOK, ConfigTypeOK, ElectTypeOK, Placement
<1>13. QED
  BY <1>1, <1>2, <1>3, <1>4, <1>5, <1>6, <1>7, <1>8, <1>9, <1>10, <1>11, <1>12
     DEF Next

\* The types of the leader's variables.
THEOREM TypeCorrect == Spec => []TypeOK
<1>1. ControlInv => TypeOK
  BY DEF ControlInv, ElectTypeOK, Contents, TypeOK
<1>2. QED
  BY <1>1, ControlInit, ControlStep, PTL DEF Spec

-----------------------------------------------------------------------------
(***************************************************************************)
(* The routes.  Setup is past UpdateRoutes only when the loops have gone   *)
(* over every route, and no route that they have passed is taken away      *)
(* again because no other gateway is in UpdateRoutes meanwhile.            *)
(***************************************************************************)

OneLeader ==
    \A g, h \in Gateway : proc[g] = "leader" /\ proc[h] = "leader" => g = h

Passed(g, i) == upd[g] = NotUpdating \/ i < upd[g].i

RouteProgress ==
    \A g \in Gateway : setup[g] \in {"routes", "upsert", "done"} =>
        \A i \in Route : Passed(g, i) => routes[i] = g

RoutesInv == ControlInv /\ OneLeader /\ RouteProgress

\* Every step keeps RoutesInv, where leadership is exclusive.
LEMMA RoutesStep ==
    ASSUME Exclusive
    PROVE  RoutesInv /\ [Next]_vars => RoutesInv'
<1> SUFFICES ASSUME RoutesInv, [Next]_vars PROVE RoutesInv'
  OBVIOUS
<1>c. ControlInv /\ ControlInv'
  BY ControlStep DEF RoutesInv
<1>r. OneLeader /\ RouteProgress
  BY DEF RoutesInv
<1>s. SUFFICES OneLeader' /\ RouteProgress'
  BY <1>c DEF RoutesInv
<1>e. ElectTypeOK /\ Placement /\ RoutesTypeOK
  BY <1>c DEF ControlInv
<1>0. ASSUME UNCHANGED <<proc, setup, routes, upd>>
      PROVE  OneLeader' /\ RouteProgress'
  BY <1>r, <1>0 DEF OneLeader, RouteProgress, Passed
<1>1. ASSUME NEW g \in Gateway, Start(g)
      PROVE  OneLeader' /\ RouteProgress'
  BY <1>r, <1>e, <1>1 DEF Start, OneLeader, RouteProgress, Passed, ElectTypeOK, routeVars
<1>2. ASSUME NEW g \in Gateway, Acquire(g)
      PROVE  OneLeader' /\ RouteProgress'
  <2>1. OneLeader'
    BY <1>e, <1>2 DEF Acquire, OneLeader, ElectTypeOK
  <2>2. \A h \in Gateway \ {g} : setup'[h] = "none"
    BY <1>e, <1>2 DEF Acquire, Placement, ElectTypeOK
  <2>3. \A i \in Route : ~Passed(g, i)'
    <3> SUFFICES ASSUME NEW i \in Route PROVE ~Passed(g, i)'
      OBVIOUS
    <3>1. 1 \in Route /\ i \in Nat /\ i >= 1
      BY RoutesAssumption DEF Route
    <3>2. upd'[g] = [pc |-> "describe", i |-> 1]
      BY <1>e, <1>2, <3>1 DEF Acquire, Reach, Updating, RoutesTypeOK
    <3>3. upd'[g] # NotUpdating /\ upd'[g].i = 1
      BY <3>2 DEF NotUpdating
    <3>4. QED
      BY <3>1, <3>3 DEF Passed
  <2>4. QED
    BY <2>1, <2>2, <2>3 DEF RouteProgress
<1>3. ASSUME NEW g \in Gateway, Exit(g)
      PROVE  OneLeader' /\ RouteProgress'
  BY <1>r, <1>e, <1>3
     DEF Exit, OneLeader, RouteProgress, Passed, ElectTypeOK, RoutesTypeOK
<1>4. ASSUME NEW g \in Gateway, SetupRoutes(g)
      PROVE  OneLeader' /\ RouteProgress'
  <2>1. UNCHANGED <<proc, setup>> /\ setup[g] = "routes"
    BY <1>4 DEF SetupRoutes, electVars
  <2>2. \A h \in Gateway \ {g} : setup[h] = "none"
    BY <1>r, <1>e, <2>1 DEF OneLeader, Placement
  <2>3. upd[g].pc \in UpdPC
    BY <1>4 DEF SetupRoutes, Describe, WriteRoute, Accepts, UpdPC
  <2>4. upd[g] # NotUpdating /\ upd[g].i \in Route
    BY <1>e, <2>3 DEF RoutesTypeOK, NotUpdating, UpdPC
  <2>5. \A i \in Route : i < upd[g].i => routes[i] = g
    BY <1>r, <2>1, <2>4 DEF RouteProgress, Passed
  <2>6. ASSUME NEW i \in Route, Passed(g, i)' PROVE routes'[i] = g
    <3>1. upd[g].i \in Nat /\ i \in Nat /\ i <= NRoutes /\ NRoutes \in Nat
      BY <2>4, RoutesAssumption DEF Route
    <3>2. CASE Reach(g, upd[g].i + 1)
      <4>1. i < upd[g].i + 1
        <5>1. CASE upd[g].i + 1 \in Route
          <6>1. upd'[g] = [pc |-> "describe", i |-> upd[g].i + 1]
            BY <1>e, <3>2, <5>1 DEF Reach, Updating, RoutesTypeOK
          <6>2. upd'[g] # NotUpdating /\ upd'[g].i = upd[g].i + 1
            BY <6>1 DEF NotUpdating
          <6>3. QED
            BY <2>6, <6>2 DEF Passed
        <5>2. CASE upd[g].i + 1 \notin Route
          BY <3>1, <5>2 DEF Route
        <5>3. QED
          BY <5>1, <5>2
      <4>2. i < upd[g].i \/ i = upd[g].i
        BY <3>1, <4>1
      <4>3. \/ UNCHANGED routes /\ routes[upd[g].i] = g
            \/ routes' = [routes EXCEPT ![upd[g].i] = g]
        BY <1>4, <1>e, <2>4, <3>2, GatewayAssumption
           DEF SetupRoutes, Describe, getRoute, WriteRoute, Reach, RoutesTypeOK,
               Updating, NotUpdating
      <4>4. QED
        BY <1>e, <2>4, <2>5, <4>2, <4>3 DEF RoutesTypeOK
    <3>3. CASE UNCHANGED routes /\ upd'[g].i = upd[g].i /\ upd'[g] # NotUpdating
      BY <2>5, <2>6, <3>3 DEF Passed
    <3>4. QED
      <4>1. \/ Reach(g, upd[g].i + 1)
            \/ /\ UNCHANGED routes
               /\ \/ upd' = [upd EXCEPT ![g].pc = "replace"]
                  \/ upd' = [upd EXCEPT ![g].pc = "create"]
        BY <1>4 DEF SetupRoutes, Describe, WriteRoute
      <4>2. upd[g] \in [pc : UpdPC, i : Route]
        BY <1>e, <2>4 DEF RoutesTypeOK
      <4>3. ASSUME NEW k \in {"replace", "create"}, upd' = [upd EXCEPT ![g].pc = k]
            PROVE  upd'[g].i = upd[g].i /\ upd'[g] # NotUpdating
        <5>1. upd'[g] = [upd[g] EXCEPT !.pc = k]
          BY <1>e, <4>3 DEF RoutesTypeOK
        <5>2. upd'[g].pc = k /\ upd'[g].i = upd[g].i
          BY <4>2, <5>1
        <5>3. QED
          BY <5>2 DEF NotUpdating
      <4>4. QED
        BY <3>2, <3>3, <4>1, <4>3
  <2>7. RouteProgress'
    BY <2>1, <2>2, <2>6 DEF RouteProgress
  <2>8. QED
    BY <1>r, <2>1, <2>7 DEF OneLeader
<1>5. ASSUME NEW g \in Gateway, SetupRoutesError(g)
      PROVE  OneLeader' /\ RouteProgress'
  <2>1. /\ UNCHANGED proc
        /\ setup[g] = "routes"
        /\ setup' = [setup EXCEPT ![g] = "failed"]
    BY <1>5 DEF SetupRoutesError
  <2>2. \A h \in Gateway \ {g} : setup[h] = "none"
    BY <1>r, <1>e, <2>1 DEF OneLeader, Placement
  <2>3. \A h \in Gateway : setup'[h] \in {"none", "failed"}
    BY <1>e, <2>1, <2>2 DEF ElectTypeOK
  <2>4. QED
    BY <1>r, <2>1, <2>3 DEF OneLeader, RouteProgress
<1>6. ASSUME NEW g \in Gateway,
             SetupRoutesDone(g) \/ SetupUpsert(g) \/ SetupUpsertError(g)
      PROVE  OneLeader' /\ RouteProgress'
  <2>1. /\ UNCHANGED <<proc, routes, upd>>
        /\ setup[g] \in {"routes", "upsert"}
        /\ \E k \in {"upsert", "done", "failed"} : setup' = [setup EXCEPT ![g] = k]
    BY <1>6, <1>e
       DEF SetupRoutesDone, SetupUpsert, SetupUpsertError, routeVars, ElectTypeOK
  <2>2. \A h \in Gateway : setup'[h] \in {"routes", "upsert", "done"} =>
                              setup[h] \in {"routes", "upsert", "done"}
    BY <1>e, <2>1 DEF ElectTypeOK
  <2>3. QED
    BY <1>r, <2>1, <2>2 DEF OneLeader, RouteProgress, Passed
<1>7. CASE LeaseExpires
  BY <1>0, <1>7 DEF LeaseExpires, routeVars
<1>8. ASSUME NEW g \in Gateway,
             \/ StartWatch(g) \/ Resync(g)
             \/ Reconcile(g) \/ ReconcileStep(g) \/ ReconcileError(g)
      PROVE  OneLeader' /\ RouteProgress'
  BY <1>0, <1>8 DEF StartWatch, Resync, Reconcile, ReconcileStep, ReconcileError,
                    routeVars, electVars
<1>9. ASSUME NEW object, UserWrites(object)
      PROVE  OneLeader' /\ RouteProgress'
  BY <1>0, <1>9 DEF UserWrites, routeVars, electVars
<1>10. CASE UserDeletes
  BY <1>0, <1>10 DEF UserDeletes, routeVars, electVars
<1>11. CASE UNCHANGED vars
  BY <1>0, <1>11 DEF vars
<1>12. QED
  BY <1>1, <1>2, <1>3, <1>4, <1>5, <1>6, <1>7, <1>8, <1>9, <1>10, <1>11 DEF Next

\* Where the lease passes on only after the former leader has stopped, a
\* leader whose Setup is past UpdateRoutes has every route of every table.
THEOREM RoutesAlwaysBelongToLeader ==
    ASSUME Exclusive
    PROVE  Spec => []RoutesBelongToLeader
<1>1. Init => RoutesInv
  BY ControlInit DEF Init, RoutesInv, OneLeader, RouteProgress
<1>2. RoutesInv /\ [Next]_vars => RoutesInv'
  BY RoutesStep
<1>3. RoutesInv => RoutesBelongToLeader
  BY DEF RoutesInv, RouteProgress, RoutesBelongToLeader, AllRoutesTo, Passed,
         ControlInv, Placement
<1>4. QED
  BY <1>1, <1>2, <1>3, PTL DEF Spec

-----------------------------------------------------------------------------
(***************************************************************************)
(* Edits.  A writer whose version is current has read what the object      *)
(* still holds.                                                            *)
(***************************************************************************)

FreshIsCurrent ==
    \A w \in Writer :
        ups[w].fresh => ups[w].pc = "update" /\ crd = ups[w].got

EditInv == ControlInv /\ FreshIsCurrent

\* A write makes every reading stale.
LEMMA WriteStale ==
    ASSUME ConfigTypeOK, NEW object, NEW w, Write(object, w)
    PROVE  \A v \in Writer : ~ups'[v].fresh
<1> SUFFICES ASSUME NEW v \in Writer PROVE ~ups'[v].fresh
  OBVIOUS
<1>1. CASE v = w
  BY <1>1 DEF Write, NotUpserting
<1>2. CASE v # w
  BY <1>2, WriteFrame
<1>3. QED
  BY <1>1, <1>2

\* Every step of an upsert keeps FreshIsCurrent.
LEMMA UpsertEdit ==
    ASSUME EditInv, NEW w \in Writer,
           UpsertGoesOn(w) \/ Upserted(w) \/ UpsertFails(w)
    PROVE  FreshIsCurrent'
<1>c. ConfigTypeOK
  BY DEF EditInv, ControlInv
<1>t. \A v \in Writer : ups[v] \in UpsType
  BY <1>c DEF ConfigTypeOK, UpsType
<1>1. CASE GetMissing(w)
  <2>1. /\ ups'[w] = [ups[w] EXCEPT !.pc = "create"]
        /\ \A v \in Writer : v # w => ups'[v] = ups[v]
    BY <1>c, <1>1 DEF GetMissing, ConfigTypeOK
  <2>2. ~ups[w].fresh
    BY <1>1 DEF GetMissing, EditInv, FreshIsCurrent
  <2>3. ~ups'[w].fresh
    BY <1>t, <2>1, <2>2 DEF UpsType
  <2>4. QED
    BY <1>1, <2>1, <2>3 DEF GetMissing, EditInv, FreshIsCurrent
<1>2. CASE GetWrong(w)
  BY <1>c, <1>2 DEF GetWrong, ConfigTypeOK, EditInv, FreshIsCurrent
<1>3. CASE Return(w)
  BY <1>c, <1>3 DEF Return, ConfigTypeOK, EditInv, FreshIsCurrent, NotUpserting
<1>4. CASE CreateOK(w) \/ UpdateOK(w)
  BY <1>c, <1>4, WriteStale DEF CreateOK, UpdateOK, FreshIsCurrent
<1>5. QED
  BY <1>1, <1>2, <1>3, <1>4
     DEF UpsertGoesOn, Upserted, UpsertFails, GetUpToDate, CreateExists

\* Every step keeps EditInv.
LEMMA EditStep == EditInv /\ [Next]_vars => EditInv'
<1> SUFFICES ASSUME EditInv, [Next]_vars PROVE EditInv'
  OBVIOUS
<1>c. ControlInv /\ ControlInv' /\ ConfigTypeOK
  BY ControlStep DEF EditInv, ControlInv
<1>s. SUFFICES FreshIsCurrent'
  BY <1>c DEF EditInv
<1>0. ASSUME UNCHANGED configVars
      PROVE  FreshIsCurrent'
  BY <1>0 DEF EditInv, FreshIsCurrent, configVars
<1>1. ASSUME NEW w \in Writer, BeginUpsert(w), UNCHANGED crd
      PROVE  FreshIsCurrent'
  BY <1>c, <1>1 DEF BeginUpsert, NotUpserting, ConfigTypeOK, EditInv, FreshIsCurrent
<1>2. ASSUME NEW g \in Gateway,
             \/ Start(g) \/ Acquire(g) \/ SetupRoutes(g) \/ SetupRoutesError(g)
             \/ StartWatch(g) \/ Resync(g)
      PROVE  FreshIsCurrent'
  BY <1>0, <1>2 DEF Start, Acquire, SetupRoutes, SetupRoutesError, StartWatch, Resync
<1>3. ASSUME NEW g \in Gateway, Exit(g)
      PROVE  FreshIsCurrent'
  <2>1. \A v \in Writer : ups'[v] = ups[v] \/ ups'[v] = NotUpserting
    BY <1>c, <1>3 DEF Exit, ConfigTypeOK
  <2>2. ~NotUpserting.fresh
    BY DEF NotUpserting
  <2>3. \A v \in Writer : ups'[v].fresh => ups'[v] = ups[v]
    BY <2>1, <2>2
  <2>4. crd' = crd
    BY <1>3 DEF Exit
  <2>5. QED
    BY <2>3, <2>4 DEF EditInv, FreshIsCurrent
<1>4. ASSUME NEW g \in Gateway, SetupRoutesDone(g)
      PROVE  FreshIsCurrent'
  BY <1>0, <1>1, <1>4, Writers DEF SetupRoutesDone, configVars
<1>5. ASSUME NEW g \in Gateway, SetupUpsert(g) \/ SetupUpsertError(g)
      PROVE  FreshIsCurrent'
  BY <1>5, UpsertEdit, Writers DEF SetupUpsert, SetupUpsertError
<1>6. ASSUME NEW g \in Gateway, Reconcile(g)
      PROVE  FreshIsCurrent'
  BY <1>1, <1>6, Writers DEF Reconcile
<1>7. ASSUME NEW g \in Gateway, ReconcileStep(g) \/ ReconcileError(g)
      PROVE  FreshIsCurrent'
  BY <1>7, UpsertEdit, Writers DEF ReconcileStep, ReconcileError
<1>8. CASE LeaseExpires
  BY <1>0, <1>8 DEF LeaseExpires
<1>9. ASSUME NEW object, UserWrites(object) \/ (object = Nil /\ UserDeletes)
      PROVE  FreshIsCurrent'
  BY <1>c, <1>9, WriteStale DEF UserWrites, UserDeletes, FreshIsCurrent
<1>10. CASE UNCHANGED vars
  BY <1>0, <1>10 DEF vars, configVars
<1>11. QED
  BY <1>2, <1>3, <1>4, <1>5, <1>6, <1>7, <1>8, <1>9, <1>10 DEF Next

\* What an Update of Setup or of the reconciler replaces, in this gateway or in
\* another one that is still running, is what its own Get returned: no edit of
\* a user or of another writer in between is overwritten unread.  The
\* resourceVersion carries the decision from the Get to the Update.
THEOREM NoEditIsLost == Spec => NoLostEdit
<1>1. Init => EditInv
  BY ControlInit DEF EditInv, Init, ConfigInit, FreshIsCurrent, NotUpserting
<1>2. EditInv => \A w \in Writer : UpdateOK(w) => crd = ups[w].got
  BY DEF EditInv, FreshIsCurrent, UpdateOK
<1>3. QED
  BY <1>1, <1>2, EditStep, PTL DEF Spec, NoLostEdit

-----------------------------------------------------------------------------
(***************************************************************************)
(* The CiliumVTEPConfig.  An object that is wrong is always on some        *)
(* reconciler's list: it was queued by the write that made it wrong, or by *)
(* the informer's first list, and leaves the list only when it is right.   *)
(* Once Setup is done, the same is true of an object that is missing.      *)
(***************************************************************************)

Busy(g) == g \in queued \/ ups[ReconcilerOf(g)].pc # "idle"

WrongIsHandled == \A g \in watching : crd # Nil => Busy(g) \/ PointsTo(g)

MissingIsHandled ==
    \A g \in Gateway : setup[g] = "done" /\ crd = Nil => g \in watching /\ Busy(g)

\* Between a Get that finds nothing and the Create, a creation by somebody
\* else is noticed.
CreationIsQueued ==
    \A g \in Gateway :
        ups[ReconcilerOf(g)].pc = "create" /\ crd # Nil => g \in queued

Handled == WrongIsHandled /\ MissingIsHandled /\ CreationIsQueued

HandledInv == ControlInv /\ Handled

\* The lists of endpoints that are compared have the length of VpcCIDRs.
LEMMA DesiredEndpoints ==
    \A g \in Gateway : /\ DOMAIN Desired(g).endpoints = DOMAIN VpcCIDRs
                       /\ DOMAIN VpcCIDRs = 1 .. Len(VpcCIDRs)
                       /\ Len(Desired(g).endpoints) = Len(VpcCIDRs)
                       /\ Len(VpcCIDRs) \in Nat
<1>1. DOMAIN VpcCIDRs = 1 .. Len(VpcCIDRs) /\ Len(VpcCIDRs) \in Nat
  BY VpcCIDRsAssumption DEF IsSeq
<1>2. QED
  BY <1>1 DEF Desired

\* needsUpdate overlooks nothing that Cilium would do differently.
LEMMA UpToDatePoints ==
    ASSUME crd \in Contents, crd # Nil, NEW g \in Gateway, ~needsUpdate(crd, g)
    PROVE  PointsTo(g)
<1>1. crd.endpoints # Nil /\ Len(crd.endpoints) = Len(VpcCIDRs)
  BY DEF needsUpdate
<1>2. DOMAIN crd.endpoints = 1 .. Len(crd.endpoints)
  <2>1. CASE crd \in UserContents
    BY <1>1, <2>1, ContentsAssumption DEF IsSeq
  <2>2. CASE \E h \in Gateway : crd = Desired(h)
    BY <2>2, DesiredEndpoints
  <2>3. QED
    BY <2>1, <2>2 DEF Contents
<1>3. DOMAIN crd.endpoints = DOMAIN VpcCIDRs
  BY <1>1, <1>2, DesiredEndpoints
<1>4. \A i \in DOMAIN VpcCIDRs : /\ crd.endpoints[i].tunnelEndpoint = g
                                 /\ crd.endpoints[i].mac = <<"mac", g>>
                                 /\ crd.endpoints[i].cidr = VpcCIDRs[i]
  BY DEF needsUpdate
<1>5. \A i \in DOMAIN VpcCIDRs :
          /\ Desired(g).endpoints[i].tunnelEndpoint = g
          /\ Desired(g).endpoints[i].mac = <<"mac", g>>
          /\ Desired(g).endpoints[i].cidr = VpcCIDRs[i]
  BY DEF Desired
<1>6. Forwarding(crd) = Forwarding(Desired(g))
  BY <1>3, <1>4, <1>5, DesiredEndpoints DEF Forwarding
<1>7. QED
  BY <1>1, <1>6 DEF PointsTo

\* What a gateway writes points to it.
LEMMA DesiredPoints ==
    ASSUME NEW g \in Gateway, crd' = Desired(g)
    PROVE  crd' # Nil /\ PointsTo(g)'
  BY ContentsAssumption DEF PointsTo, Forwarding

\* A step that leaves the reconcilers alone and tells the watchers of a change.
LEMMA OthersStep ==
    ASSUME HandledInv, UNCHANGED watching,
           queued \subseteq queued',
           crd' # crd => watching \subseteq queued',
           \A h \in Gateway : ups'[ReconcilerOf(h)].pc = ups[ReconcilerOf(h)].pc,
           \A h \in Gateway : setup'[h] = "done" /\ crd' = Nil =>
                                 setup[h] = "done" /\ (crd # Nil => h \in watching)
    PROVE  Handled'
<1> USE DEF HandledInv, Handled
<1>w. watching \subseteq Gateway
  BY DEF ControlInv, ElectTypeOK
<1>1. WrongIsHandled'
  <2> SUFFICES ASSUME NEW g \in watching, crd' # Nil
               PROVE  Busy(g)' \/ PointsTo(g)'
    BY DEF WrongIsHandled
  <2>1. CASE crd' # crd
    BY <2>1 DEF Busy
  <2>2. CASE crd' = crd
    <3>1. Busy(g) \/ PointsTo(g)
      BY <2>2 DEF WrongIsHandled
    <3>2. Busy(g) => Busy(g)'
      BY <1>w DEF Busy
    <3>3. PointsTo(g) => PointsTo(g)'
      BY <2>2 DEF PointsTo, Forwarding
    <3>4. QED
      BY <3>1, <3>2, <3>3
  <2>3. QED
    BY <2>1, <2>2
<1>2. MissingIsHandled'
  <2> SUFFICES ASSUME NEW g \in Gateway, setup'[g] = "done", crd' = Nil
               PROVE  g \in watching' /\ Busy(g)'
    BY DEF MissingIsHandled
  <2>1. CASE crd = Nil
    BY <2>1 DEF MissingIsHandled, Busy
  <2>2. CASE crd # Nil
    BY <2>2 DEF Busy
  <2>3. QED
    BY <2>1, <2>2
<1>3. CreationIsQueued'
  <2> SUFFICES ASSUME NEW g \in Gateway, ups'[ReconcilerOf(g)].pc = "create", crd' # Nil
               PROVE  g \in queued'
    BY DEF CreationIsQueued
  <2>1. ups[ReconcilerOf(g)].pc = "create" /\ g \in watching
    BY DEF ControlInv, Placement
  <2>2. QED
    BY <2>1 DEF CreationIsQueued
<1>4. QED
  BY <1>1, <1>2, <1>3

\* A step of the reconciler of g, which has dealt with its own part.
LEMMA ReconcilerStep ==
    ASSUME HandledInv, NEW g \in Gateway, UNCHANGED <<setup, watching>>,
           g \in watching,
           queued \subseteq queued' \cup {g},
           crd' # crd => watching \subseteq queued',
           \A h \in Gateway \ {g} : ups'[ReconcilerOf(h)].pc = ups[ReconcilerOf(h)].pc,
           crd' = Nil => crd = Nil /\ Busy(g)',
           crd' # Nil => Busy(g)' \/ PointsTo(g)',
           ups'[ReconcilerOf(g)].pc = "create" /\ crd' # Nil => g \in queued'
    PROVE  Handled'
<1> USE DEF HandledInv, Handled
<1>w. watching \subseteq Gateway
  BY DEF ControlInv, ElectTypeOK
<1>1. WrongIsHandled'
  <2> SUFFICES ASSUME NEW h \in watching, h # g, crd' # Nil
               PROVE  Busy(h)' \/ PointsTo(h)'
    BY DEF WrongIsHandled
  <2>1. CASE crd' # crd
    BY <2>1 DEF Busy
  <2>2. CASE crd' = crd
    <3>1. Busy(h) \/ PointsTo(h)
      BY <2>2 DEF WrongIsHandled
    <3>2. Busy(h) => Busy(h)'
      BY <1>w DEF Busy
    <3>3. PointsTo(h) => PointsTo(h)'
      BY <2>2 DEF PointsTo, Forwarding
    <3>4. QED
      BY <3>1, <3>2, <3>3
  <2>3. QED
    BY <2>1, <2>2
<1>2. MissingIsHandled'
  <2> SUFFICES ASSUME NEW h \in Gateway, setup'[h] = "done", crd' = Nil
               PROVE  h \in watching' /\ Busy(h)'
    BY DEF MissingIsHandled
  <2>1. h \in watching /\ Busy(h)
    BY DEF MissingIsHandled
  <2>2. CASE h = g
    BY <2>1, <2>2
  <2>3. CASE h # g
    BY <2>1, <2>3 DEF Busy
  <2>4. QED
    BY <2>2, <2>3
<1>3. CreationIsQueued'
  <2> SUFFICES ASSUME NEW h \in Gateway, h # g,
                      ups'[ReconcilerOf(h)].pc = "create", crd' # Nil
               PROVE  h \in queued'
    BY DEF CreationIsQueued
  <2>1. ups[ReconcilerOf(h)].pc = "create" /\ h \in watching
    BY DEF ControlInv, Placement
  <2>2. QED
    BY <2>1 DEF CreationIsQueued
<1>4. QED
  BY <1>1, <1>2, <1>3

\* An upsert never deletes the object, and one that succeeds leaves one.
LEMMA UpsertKeepsObject ==
    ASSUME NEW w \in Writer, UpsertGoesOn(w) \/ Upserted(w) \/ UpsertFails(w)
    PROVE  /\ crd' = Nil => crd = Nil
           /\ Upserted(w) => crd' # Nil
<1>1. GatewayOf(w) \in Gateway
  BY DEF Writer, GatewayOf
<1>2. CASE CreateOK(w) \/ UpdateOK(w)
  BY <1>1, <1>2, ContentsAssumption DEF CreateOK, UpdateOK, Write
<1>3. CASE GetMissing(w) \/ GetWrong(w)
  <2>1. crd' = crd
    BY <1>3 DEF GetMissing, GetWrong
  <2>2. ~Upserted(w) \/ crd' # Nil
    BY <1>1, <1>3, ContentsAssumption
       DEF GetMissing, GetWrong, Upserted, GetUpToDate, CreateOK, CreateExists, UpdateOK
  <2>3. QED
    BY <2>1, <2>2
<1>4. CASE GetUpToDate(w) \/ CreateExists(w)
  BY <1>4 DEF GetUpToDate, CreateExists, Return
<1>5. CASE ups[w].pc \in UpsPC /\ Return(w)
  <2>1. crd' = crd
    BY <1>5 DEF Return
  <2>2. Upserted(w) => crd' # Nil
    BY <1>1, <2>1, ContentsAssumption
       DEF Upserted, GetUpToDate, CreateOK, CreateExists, UpdateOK, Write
  <2>3. QED
    BY <2>1, <2>2
<1>6. QED
  BY <1>2, <1>3, <1>4, <1>5 DEF UpsertGoesOn, Upserted, UpsertFails

\* Every step keeps HandledInv, where no object is deleted unseen.
LEMMA HandledStep ==
    ASSUME ~EarlyDelete, VpcCIDRs # <<>>
    PROVE  HandledInv /\ [Next]_vars => HandledInv'
<1> SUFFICES ASSUME HandledInv, [Next]_vars PROVE HandledInv'
  OBVIOUS
<1>c. ControlInv /\ ControlInv' /\ ConfigTypeOK /\ ElectTypeOK /\ Placement
  BY ControlStep DEF HandledInv, ControlInv
<1>s. SUFFICES Handled'
  BY <1>c DEF HandledInv
<1>0. ASSUME UNCHANGED <<crd, ups, watching>>, queued \subseteq queued',
             \A h \in Gateway : setup'[h] = "done" => setup[h] = "done"
      PROVE  Handled'
  BY <1>0, OthersStep
<1>1. ASSUME NEW g \in Gateway,
             Start(g) \/ SetupRoutes(g) \/ Resync(g)
      PROVE  Handled'
  BY <1>0, <1>1 DEF Start, SetupRoutes, Resync, configVars, watchVars, electVars
<1>2. ASSUME NEW g \in Gateway, Acquire(g) \/ SetupRoutesError(g)
      PROVE  Handled'
  BY <1>0, <1>2, <1>c DEF Acquire, SetupRoutesError, configVars, watchVars, ElectTypeOK
<1>3. CASE LeaseExpires \/ UNCHANGED vars
  BY <1>0, <1>3 DEF LeaseExpires, vars, configVars, watchVars, electVars
<1>4. ASSUME NEW g \in Gateway, Exit(g)
      PROVE  Handled'
  <2>1. /\ crd' = crd
        /\ watching' = watching \ {g} /\ queued' = queued \ {g}
        /\ setup'[g] = "none" /\ \A h \in Gateway \ {g} : setup'[h] = setup[h]
    BY <1>4, <1>c DEF Exit, ElectTypeOK
  <2>2. /\ ups'[ReconcilerOf(g)].pc = "idle"
        /\ \A h \in Gateway \ {g} : ups'[ReconcilerOf(h)] = ups[ReconcilerOf(h)]
    BY <1>4, <1>c, Writers DEF Exit, ConfigTypeOK, NotUpserting
  <2>3. watching \subseteq Gateway
    BY <1>c DEF ElectTypeOK
  <2>4. \A h \in Gateway \ {g} : Busy(h) => Busy(h)'
    BY <2>1, <2>2 DEF Busy
  <2>5. \A h \in Gateway : PointsTo(h) => PointsTo(h)'
    BY <2>1 DEF PointsTo, Forwarding
  <2>6. WrongIsHandled'
    BY <2>1, <2>3, <2>4, <2>5 DEF WrongIsHandled, HandledInv, Handled
  <2>7. MissingIsHandled'
    BY <2>1, <2>4 DEF MissingIsHandled, HandledInv, Handled
  <2>8. CreationIsQueued'
    BY <2>1, <2>2 DEF CreationIsQueued, HandledInv, Handled
  <2>9. QED
    BY <2>6, <2>7, <2>8 DEF Handled
<1>5. ASSUME NEW g \in Gateway, SetupRoutesDone(g)
      PROVE  Handled'
  <2>1. /\ UNCHANGED <<crd, watching, queued>>
        /\ setup' = [setup EXCEPT ![g] = "upsert"]
        /\ BeginUpsert(SetupOf(g))
    BY <1>5 DEF SetupRoutesDone, watchVars
  <2>2. \A h \in Gateway : ups'[ReconcilerOf(h)] = ups[ReconcilerOf(h)]
    BY <1>c, <2>1, Writers DEF BeginUpsert, ConfigTypeOK
  <2>3. \A h \in Gateway : setup'[h] = "done" => setup[h] = "done"
    BY <1>c, <2>1 DEF ElectTypeOK
  <2>4. QED
    BY <2>1, <2>2, <2>3, OthersStep
<1>6. ASSUME NEW g \in Gateway, SetupUpsert(g) \/ SetupUpsertError(g)
      PROVE  Handled'
  <2>1. /\ \/ UpsertGoesOn(SetupOf(g))
           \/ Upserted(SetupOf(g))
           \/ UpsertFails(SetupOf(g))
        /\ UNCHANGED watching
        /\ Notify
        /\ \/ UNCHANGED setup
           \/ Upserted(SetupOf(g)) /\ setup' = [setup EXCEPT ![g] = "done"]
           \/ setup' = [setup EXCEPT ![g] = "failed"]
    BY <1>6 DEF SetupUpsert, SetupUpsertError
  <2>2. \A h \in Gateway : ups'[ReconcilerOf(h)].pc = ups[ReconcilerOf(h)].pc
    BY <1>c, <2>1, UpsertFrame, Writers
  <2>3. crd' = Nil => crd = Nil /\ ~Upserted(SetupOf(g))
    BY <2>1, UpsertKeepsObject, Writers
  <2>4. \A h \in Gateway : setup'[h] = "done" /\ crd' = Nil =>
                              setup[h] = "done" /\ crd = Nil
    BY <1>c, <2>1, <2>3 DEF ElectTypeOK
  <2>5. QED
    BY <2>1, <2>2, <2>4, OthersStep DEF Notify
<1>7. ASSUME NEW g \in Gateway, StartWatch(g)
      PROVE  Handled'
  <2>1. /\ UNCHANGED <<crd, ups, setup>>
        /\ watching' = watching \cup {g}
        /\ queued' = IF crd # Nil THEN queued \cup {g} ELSE queued
    BY <1>7 DEF StartWatch, configVars, electVars
  <2>2. \A h : Busy(h) => Busy(h)'
    BY <2>1 DEF Busy
  <2>3. \A h : PointsTo(h) => PointsTo(h)'
    BY <2>1 DEF PointsTo, Forwarding
  <2>4. crd # Nil => Busy(g)'
    BY <2>1 DEF Busy
  <2>5. WrongIsHandled'
    BY <2>1, <2>2, <2>3, <2>4 DEF WrongIsHandled, HandledInv, Handled
  <2>6. MissingIsHandled' /\ CreationIsQueued'
    BY <2>1, <2>2 DEF MissingIsHandled, CreationIsQueued, HandledInv, Handled
  <2>7. QED
    BY <2>5, <2>6 DEF Handled
<1>8. ASSUME NEW object \in UserContents, UserWrites(object)
      PROVE  Handled'
  <2>1. /\ Write(object, Nil) /\ crd' # Nil
        /\ UNCHANGED <<watching, setup>> /\ queued' = queued \cup watching
    BY <1>8, ContentsAssumption DEF UserWrites, Write, electVars
  <2>2. \A h \in Gateway : ups'[ReconcilerOf(h)].pc = ups[ReconcilerOf(h)].pc
    BY <1>c, <2>1, WriteFrame, Writers, WriterAssumption
  <2>3. QED
    BY <2>1, <2>2, OthersStep
<1>9. CASE UserDeletes
  <2>1. /\ Write(Nil, Nil) /\ crd # Nil /\ crd' = Nil
        /\ UNCHANGED <<watching, setup>> /\ queued' = queued \cup watching
        /\ \A h \in Gateway : proc[h] = "leader" => h \in watching
    BY <1>9 DEF UserDeletes, Write, Notify, electVars
  <2>2. \A h \in Gateway : ups'[ReconcilerOf(h)].pc = ups[ReconcilerOf(h)].pc
    BY <1>c, <2>1, WriteFrame, Writers, WriterAssumption
  <2>3. \A h \in Gateway : setup[h] = "done" => h \in watching
    BY <1>c, <2>1 DEF Placement
  <2>4. QED
    BY <2>1, <2>2, <2>3, OthersStep
<1>10. ASSUME NEW g \in Gateway, Reconcile(g)
       PROVE  Handled'
  <2>1. /\ UNCHANGED <<crd, setup, watching>>
        /\ g \in watching /\ queued' = queued \ {g}
        /\ BeginUpsert(ReconcilerOf(g))
    BY <1>10, <1>c DEF Reconcile, electVars, ElectTypeOK
  <2>2. /\ ups'[ReconcilerOf(g)].pc = "get"
        /\ \A h \in Gateway \ {g} : ups'[ReconcilerOf(h)] = ups[ReconcilerOf(h)]
    BY <1>c, <2>1, Writers DEF BeginUpsert, ConfigTypeOK
  <2>3. Busy(g)'
    BY <2>2 DEF Busy
  <2>4. QED
    BY <2>1, <2>2, <2>3, ReconcilerStep
<1>11. ASSUME NEW g \in Gateway, ReconcileStep(g) \/ ReconcileError(g)
       PROVE  Handled'
  <2> DEFINE w == ReconcilerOf(g)
  <2>w. w \in Writer /\ GatewayOf(w) = g
    BY Writers
  <2>1. /\ UpsertGoesOn(w) \/ Upserted(w) \/ UpsertFails(w)
        /\ UNCHANGED <<setup, watching>>
        /\ queued \subseteq queued'
        /\ crd' # crd => watching \subseteq queued'
    BY <1>11 DEF ReconcileStep, ReconcileError, Notify, electVars
  <2>2. g \in watching
    <3>1. ups[w].pc \in UpsPC
      BY <2>1 DEF UpsertGoesOn, Upserted, UpsertFails, GetMissing, GetWrong,
                  GetUpToDate, CreateOK, CreateExists, UpdateOK, UpsPC
    <3>2. QED
      BY <1>c, <3>1 DEF Placement, UpsPC
  <2>3. \A h \in Gateway \ {g} : ups'[ReconcilerOf(h)].pc = ups[ReconcilerOf(h)].pc
    BY <1>c, <2>1, UpsertFrame, Writers
  <2>4. crd' = Nil => crd = Nil
    BY <2>w, <2>1, UpsertKeepsObject
  <2>5. SUFFICES /\ Busy(g)' \/ (PointsTo(g)' /\ crd' # Nil)
                 /\ ups'[w].pc = "create" /\ crd' # Nil => g \in queued'
    BY <2>1, <2>2, <2>3, <2>4, ReconcilerStep
  <2>6. CASE GetMissing(w)
    BY <1>c, <2>w, <2>6 DEF GetMissing, ConfigTypeOK, Busy
  <2>7. CASE GetWrong(w)
    BY <1>c, <2>w, <2>7 DEF GetWrong, ConfigTypeOK, Busy
  <2>9. CASE GetUpToDate(w)
    <3>1. PointsTo(g) /\ crd # Nil
      BY <1>c, <2>w, <2>9, UpToDatePoints DEF GetUpToDate, ControlInv, ConfigTypeOK
    <3>2. crd' = crd /\ ups'[w].pc = "idle"
      BY <1>c, <2>w, <2>9 DEF GetUpToDate, Return, ConfigTypeOK, NotUpserting
    <3>3. QED
      BY <3>1, <3>2 DEF PointsTo, Forwarding
  <2>10. CASE CreateOK(w) \/ UpdateOK(w)
    <3>1. Write(Desired(g), w)
      BY <2>w, <2>10 DEF CreateOK, UpdateOK
    <3>2. crd' = Desired(g) /\ ups'[w].pc = "idle"
      BY <2>w, <3>1 DEF Write, NotUpserting
    <3>3. crd' # Nil /\ PointsTo(g)'
      BY <3>2, DesiredPoints
    <3>4. QED
      BY <3>2, <3>3
  <2>11. CASE CreateExists(w)
    <3>1. g \in queued
      BY <2>11 DEF CreateExists, HandledInv, Handled, CreationIsQueued
    <3>2. g \in queued'
      BY <2>1, <3>1
    <3>3. QED
      BY <3>2 DEF Busy
  <2>12. CASE ReconcileError(g)
    <3>1. g \in queued'
      BY <2>12 DEF ReconcileError
    <3>2. QED
      BY <3>1 DEF Busy
  <2>13. CASE ReconcileStep(g)
    BY <2>6, <2>7, <2>9, <2>10, <2>11, <2>13 DEF ReconcileStep, UpsertGoesOn, Upserted
  <2>14. QED
    BY <1>11, <2>12, <2>13
<1>12. QED
  BY <1>1, <1>2, <1>3, <1>4, <1>5, <1>6, <1>7, <1>8, <1>9, <1>10, <1>11 DEF Next

\* Where users do not delete the object before a new leader's informer has
\* listed it, a leader that has finished Setup and has nothing to reconcile is
\* the gateway to which the CiliumVTEPConfig sends the traffic.
THEOREM SettledConfigAlwaysPointsToLeader ==
    ASSUME ~EarlyDelete, VpcCIDRs # <<>>
    PROVE  Spec => []SettledConfigPointsToLeader
<1>1. Init => HandledInv
  BY ControlInit, Writers
     DEF Init, ConfigInit, HandledInv, Handled, WrongIsHandled, MissingIsHandled,
         CreationIsQueued, NotUpserting
<1>2. HandledInv /\ [Next]_vars => HandledInv'
  BY HandledStep
<1>3. HandledInv => SettledConfigPointsToLeader
  <2> SUFFICES ASSUME HandledInv, NEW g \in Gateway, ConfigSettled(g)
               PROVE  PointsTo(g)
    BY DEF SettledConfigPointsToLeader
  <2>1. ~Busy(g)
    BY DEF ConfigSettled, Busy, NotUpserting
  <2>2. crd # Nil
    BY <2>1 DEF HandledInv, Handled, MissingIsHandled, ConfigSettled
  <2>3. QED
    BY <2>1, <2>2 DEF HandledInv, Handled, WrongIsHandled, ConfigSettled
<1>4. QED
  BY <1>1, <1>2, <1>3, PTL DEF Spec

-----------------------------------------------------------------------------
(* A leader that attracts the traffic goes on attracting it.                *)

\* What an upsert writes is its own gateway's object.
LEMMA UpsertWrites ==
    ASSUME NEW w \in Writer, UpsertGoesOn(w) \/ Upserted(w) \/ UpsertFails(w)
    PROVE  crd' = crd \/ crd' = Desired(GatewayOf(w))
  BY DEF UpsertGoesOn, Upserted, UpsertFails, GetMissing, GetWrong, GetUpToDate,
         CreateOK, CreateExists, UpdateOK, Write, Return

\* Only leaders write the object: Setup runs in them alone, and so does the
\* reconciler, which needs the watch.
LEMMA LeadersWrite ==
    ASSUME ControlInv, [Next]_vars, crd' # crd, ~UserEdits
    PROVE  \E h \in Gateway : proc[h] = "leader" /\ crd' = Desired(h)
<1>0. ElectTypeOK /\ Placement
  BY DEF ControlInv
<1>1. ASSUME NEW g \in Gateway, SetupUpsert(g) \/ SetupUpsertError(g)
      PROVE  proc[g] = "leader" /\ crd' = Desired(g)
  <2>1. /\ setup[g] = "upsert"
        /\ UpsertGoesOn(SetupOf(g)) \/ Upserted(SetupOf(g)) \/ UpsertFails(SetupOf(g))
    BY <1>1 DEF SetupUpsert, SetupUpsertError
  <2>2. proc[g] = "leader"
    BY <1>0, <2>1 DEF Placement
  <2>3. QED
    BY <2>1, <2>2, UpsertWrites, Writers
<1>2. ASSUME NEW g \in Gateway, ReconcileStep(g) \/ ReconcileError(g)
      PROVE  proc[g] = "leader" /\ crd' = Desired(g)
  <2> DEFINE w == ReconcilerOf(g)
  <2>1. UpsertGoesOn(w) \/ Upserted(w) \/ UpsertFails(w)
    BY <1>2 DEF ReconcileStep, ReconcileError
  <2>2. ups[w].pc \in UpsPC
    BY <2>1 DEF UpsertGoesOn, Upserted, UpsertFails, GetMissing, GetWrong,
                GetUpToDate, CreateOK, CreateExists, UpdateOK, UpsPC
  <2>3. g \in watching
    BY <1>0, <2>2 DEF Placement, UpsPC
  <2>4. proc[g] = "leader"
    BY <1>0, <2>3 DEF ElectTypeOK
  <2>5. QED
    BY <2>1, <2>4, UpsertWrites, Writers
<1>3. \E g \in Gateway : \/ SetupUpsert(g) \/ SetupUpsertError(g)
                         \/ ReconcileStep(g) \/ ReconcileError(g)
  <2>1. ~((\E object \in UserContents : UserWrites(object)) \/ UserDeletes)
    BY DEF UserEdits
  <2>2. ~LeaseExpires /\ ~UNCHANGED vars
    BY DEF LeaseExpires, configVars, vars
  <2>3. ASSUME NEW g \in Gateway
        PROVE  /\ ~Start(g) /\ ~Acquire(g) /\ ~Exit(g)
               /\ ~SetupRoutes(g) /\ ~SetupRoutesError(g) /\ ~SetupRoutesDone(g)
               /\ ~StartWatch(g) /\ ~Resync(g) /\ ~Reconcile(g)
    BY DEF Start, Acquire, Exit, SetupRoutes, SetupRoutesError, SetupRoutesDone,
           StartWatch, Resync, Reconcile, configVars
  <2>4. QED
    BY <2>1, <2>2, <2>3 DEF Next
<1>4. QED
  BY <1>1, <1>2, <1>3

\* Setup, once it has come to its end, stays there as long as the process does.
LEMMA DoneStays ==
    ASSUME ControlInv, [Next]_vars, NEW g \in Gateway, setup[g] = "done", Leads(g)'
    PROVE  setup'[g] = "done"
<1>0. ElectTypeOK /\ proc[g] = "leader"
  BY DEF ControlInv, Placement
<1>1. ASSUME NEW h \in Gateway, Acquire(h)
      PROVE  setup'[g] = "done"
  <2>1. h # g
    BY <1>0, <1>1 DEF Acquire
  <2>2. QED
    BY <1>0, <1>1, <2>1 DEF Acquire, ElectTypeOK
<1>2. ASSUME NEW h \in Gateway, Exit(h)
      PROVE  setup'[g] = "done"
  <2>1. h # g
    BY <1>0, <1>2 DEF Exit, ElectTypeOK, Leads
  <2>2. QED
    BY <1>0, <1>2, <2>1 DEF Exit, ElectTypeOK
<1>3. ASSUME NEW h \in Gateway,
             \/ SetupRoutes(h) \/ SetupRoutesError(h) \/ SetupRoutesDone(h)
             \/ SetupUpsert(h) \/ SetupUpsertError(h)
      PROVE  setup'[g] = "done"
  <2>1. h # g
    BY <1>3 DEF SetupRoutes, SetupRoutesError, SetupRoutesDone, SetupUpsert,
                SetupUpsertError
  <2>2. QED
    BY <1>0, <1>3, <2>1
       DEF SetupRoutes, SetupRoutesError, SetupRoutesDone, SetupUpsert,
           SetupUpsertError, electVars, ElectTypeOK
<1>4. ASSUME NEW h \in Gateway,
             \/ Start(h) \/ StartWatch(h) \/ Resync(h) \/ Reconcile(h)
             \/ ReconcileStep(h) \/ ReconcileError(h)
      PROVE  setup' = setup
  BY <1>4 DEF Start, StartWatch, Resync, Reconcile, ReconcileStep, ReconcileError, electVars
<1>5. ASSUME \/ LeaseExpires \/ (\E object \in UserContents : UserWrites(object))
             \/ UserDeletes \/ UNCHANGED vars
      PROVE  setup' = setup
  BY <1>5 DEF LeaseExpires, UserWrites, UserDeletes, electVars, vars
<1>6. QED
  BY <1>1, <1>2, <1>3, <1>4, <1>5 DEF Next

\* Where leadership is exclusive, the traffic that a leader attracts is taken
\* from it only by a user's edit or with the leadership.
LEMMA AttractionKept ==
    ASSUME Exclusive, RoutesInv, [Next]_vars,
           NEW g \in Gateway, Attracts(g), Leads(g)', ~UserEdits
    PROVE  Attracts(g)'
<1>0. ControlInv /\ OneLeader /\ RoutesInv'
  BY RoutesStep DEF RoutesInv
<1>1. setup'[g] = "done"
  BY <1>0, DoneStays DEF Attracts
<1>2. AllRoutesTo(g)'
  <2>1. upd'[g] = NotUpdating
    BY <1>0, <1>1 DEF RoutesInv, ControlInv, Placement
  <2>2. QED
    BY <1>0, <1>1, <2>1 DEF RoutesInv, RouteProgress, Passed, AllRoutesTo
<1>3. PointsTo(g)'
  <2>1. CASE crd' = crd
    BY <2>1 DEF Attracts, PointsTo, Forwarding
  <2>2. CASE crd' # crd
    <3>1. PICK h \in Gateway : proc[h] = "leader" /\ crd' = Desired(h)
      BY <1>0, <2>2, LeadersWrite
    <3>2. h = g
      BY <1>0, <3>1 DEF OneLeader, Attracts, Leads
    <3>3. QED
      BY <3>1, <3>2, DesiredPoints
  <2>3. QED
    BY <2>1, <2>2
<1>4. QED
  BY <1>1, <1>2, <1>3 DEF Attracts
=============================================================================
