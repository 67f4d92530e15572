------------------------------- MODULE Leader -------------------------------
(***************************************************************************)
(* The leader-only work of the gateways: Setup.Start                       *)
(* (internal/gateway/setup.go) updates the route tables and then upserts   *)
(* the CiliumVTEPConfig, once per leadership, while the VTEPConfig         *)
(* reconciler (internal/controller/vtepconfig.go) of the same process      *)
(* watches that object and upserts it whenever it changes.                 *)
(*                                                                         *)
(* External, modelled from how cmd/gateway/main.go uses it: the lease and  *)
(* the manager, which starts Setup and the reconciler together in the      *)
(* process that wins the lease, and ends that process when Setup returns   *)
(* an error or the lease is lost.                                          *)
(***************************************************************************)
EXTENDS RouteTables, VTEPConfig

CONSTANTS
    UserContents,  \* what cluster users may make of the CiliumVTEPConfig
    Exclusive,     \* TRUE: the lease passes on only after the holder's process
                   \* has ended and its calls are settled.  FALSE: a process
                   \* may go on for a while after its lease has passed on
    EarlyDelete    \* may a user delete the object between a leader's start
                   \* and the moment its informer has listed it?

ASSUME ContentsAssumption ==
    /\ Nil \notin UserContents
    /\ \A o \in UserContents : o.endpoints = Nil \/ IsSeq(o.endpoints)
    /\ \A g \in Gateway : Desired(g) # Nil /\ Desired(g).endpoints # Nil

VARIABLES
    proc,      \* proc[g]: "down", "standby" or "leader"
    lease,     \* the holder of the lease, or Nil
    setup,     \* setup[g]: how far Setup.Start has come in g
    watching,  \* gateways whose informer has listed the CiliumVTEPConfig
    queued     \* gateways with a request in the reconciler's queue

electVars == <<proc, lease, setup>>
watchVars == <<watching, queued>>
vars == <<routes, upd, crd, ups, proc, lease, setup, watching, queued>>

SetupPC == {"none", "routes", "upsert", "done", "failed"}

SetupOf(g) == <<g, "setup">>
ReconcilerOf(g) == <<g, "reconciler">>

Leads(g) == proc[g] = "leader" /\ lease = g

Init ==
    /\ RoutesInit
    /\ ConfigInit
    /\ crd \in UserContents \cup {Nil}
    /\ proc = [g \in Gateway |-> "down"]
    /\ lease = Nil
    /\ setup = [g \in Gateway |-> "none"]
    /\ watching = {}
    /\ queued = {}

\* The watch: a change of the object is queued wherever it is watched.
Notify == queued' = IF crd' # crd THEN queued \cup watching ELSE queued

-----------------------------------------------------------------------------
(* The process and the lease.                                               *)

Start(g) ==
    /\ proc[g] = "down"
    /\ proc' = [proc EXCEPT ![g] = "standby"]
    /\ UNCHANGED <<routeVars, configVars, lease, setup, watchVars>>

\* g wins the lease; the manager starts Setup, which enters UpdateRoutes.
Acquire(g) ==
    /\ proc[g] = "standby"
    /\ lease = Nil
    /\ Exclusive => \A h \in Gateway : proc[h] # "leader"
    /\ lease' = g
    /\ proc' = [proc EXCEPT ![g] = "leader"]
    /\ setup' = [setup EXCEPT ![g] = "routes"]
    /\ Reach(g, 1)
    /\ UNCHANGED <<routes, configVars, watchVars>>

\* The lease is not renewed in time.  A process that ends does not release it.
LeaseExpires ==
    /\ lease # Nil
    /\ Exclusive => proc[lease] # "leader"
    /\ lease' = Nil
    /\ UNCHANGED <<routeVars, configVars, proc, setup, watchVars>>

\* A crash, or os.Exit after Setup has failed or the lease is lost.
Exit(g) ==
    /\ proc[g] # "down"
    /\ proc' = [proc EXCEPT ![g] = "down"]
    /\ setup' = [setup EXCEPT ![g] = "none"]
    /\ upd' = [upd EXCEPT ![g] = NotUpdating]
    /\ ups' = [ups EXCEPT ![SetupOf(g)] = NotUpserting,
                          ![ReconcilerOf(g)] = NotUpserting]
    /\ watching' = watching \ {g}
    /\ queued' = queued \ {g}
    /\ UNCHANGED <<routes, crd, lease>>

\* Mutant: an error of Setup does not end the process.
ExitOnLostLease(g) == Exit(g) /\ proc[g] = "leader" /\ lease # g

MustExit(g) == Exit(g) /\ (setup[g] = "failed" \/ (proc[g] = "leader" /\ lease # g))

-----------------------------------------------------------------------------
(* Setup.Start.                                                             *)

SetupRoutes(g) ==
    /\ setup[g] = "routes"
    /\ Describe(g) \/ WriteRoute(g)
    /\ UNCHANGED <<configVars, electVars, watchVars>>

\* Mutant: an error of UpdateRoutes is logged and Setup goes on.
SetupRoutesIgnored(g) ==
    /\ setup[g] = "routes"
    /\ CallFails(g)
    /\ UNCHANGED <<configVars, electVars, watchVars>>

SetupRoutesError(g) ==
    /\ setup[g] = "routes"
    /\ CallFails(g)
    /\ setup' = [setup EXCEPT ![g] = "failed"]
    /\ UNCHANGED <<configVars, proc, lease, watchVars>>

\* UpdateRoutes has returned; without VPC CIDRs there is nothing to upsert.
SetupRoutesDone(g) ==
    /\ setup[g] = "routes"
    /\ upd[g] = NotUpdating
    /\ IF VpcCIDRs = <<>>
       THEN setup' = [setup EXCEPT ![g] = "done"] /\ UNCHANGED ups
       ELSE setup' = [setup EXCEPT ![g] = "upsert"] /\ BeginUpsert(SetupOf(g))
    /\ UNCHANGED <<routeVars, crd, proc, lease, watchVars>>

SetupUpsert(g) ==
    /\ setup[g] = "upsert"
    /\ \/ UpsertGoesOn(SetupOf(g)) /\ UNCHANGED setup
       \/ Upserted(SetupOf(g)) /\ setup' = [setup EXCEPT ![g] = "done"]
    /\ Notify
    /\ UNCHANGED <<routeVars, proc, lease, watching>>

SetupUpsertError(g) ==
    /\ setup[g] = "upsert"
    /\ UpsertFails(SetupOf(g))
    /\ setup' = [setup EXCEPT ![g] = "failed"]
    /\ Notify
    /\ UNCHANGED <<routeVars, proc, lease, watching>>

-----------------------------------------------------------------------------
(* The VTEPConfig reconciler, from the leader's start.                      *)

\* The informer lists the object and watches it from then on.
StartWatch(g) ==
    /\ proc[g] = "leader"
    /\ g \notin watching
    /\ watching' = watching \cup {g}
    /\ queued' = IF crd # Nil THEN queued \cup {g} ELSE queued
    /\ UNCHANGED <<routeVars, configVars, electVars>>

\* cache.Options.SyncPeriod.
Resync(g) ==
    /\ g \in watching
    /\ crd # Nil
    /\ queued' = queued \cup {g}
    /\ UNCHANGED <<routeVars, configVars, electVars, watching>>

Reconcile(g) ==
    /\ g \in queued
    /\ ups[ReconcilerOf(g)] = NotUpserting
    /\ queued' = queued \ {g}
    /\ BeginUpsert(ReconcilerOf(g))
    /\ UNCHANGED <<routeVars, crd, electVars, watching>>

ReconcileStep(g) ==
    /\ UpsertGoesOn(ReconcilerOf(g)) \/ Upserted(ReconcilerOf(g))
    /\ Notify
    /\ UNCHANGED <<routeVars, electVars, watching>>

\* Mutant: the error of the upsert is logged and not returned.
ReconcileErrorSwallowed(g) ==
    /\ UpsertFails(ReconcilerOf(g))
    /\ Notify
    /\ UNCHANGED <<routeVars, electVars, watching>>

ReconcileError(g) ==
    /\ UpsertFails(ReconcilerOf(g))
    /\ queued' = queued \cup {g} \cup (IF crd' # crd THEN watching ELSE {})
    /\ UNCHANGED <<routeVars, electVars, watching>>

-----------------------------------------------------------------------------
(* Cluster users, who may change or delete the object.                      *)

\* The content may stay as it is: an edit of its metadata is a change too.
UserWrites(object) ==
    /\ Write(object, Nil)
    /\ queued' = queued \cup watching
    /\ UNCHANGED <<routeVars, electVars, watching>>

UserDeletes ==
    /\ crd # Nil
    /\ EarlyDelete \/ \A g \in Gateway : proc[g] = "leader" => g \in watching
    /\ Write(Nil, Nil)
    /\ Notify
    /\ UNCHANGED <<routeVars, electVars, watching>>

Next ==
    \/ \E g \in Gateway :
          \/ Start(g) \/ Acquire(g) \/ Exit(g)
          \/ SetupRoutes(g) \/ SetupRoutesError(g) \/ SetupRoutesDone(g)
          \/ SetupUpsert(g) \/ SetupUpsertError(g)
          \/ StartWatch(g) \/ Resync(g)
          \/ Reconcile(g) \/ ReconcileStep(g) \/ ReconcileError(g)
    \/ LeaseExpires
    \/ \E object \in UserContents : UserWrites(object)
    \/ UserDeletes

Spec == Init /\ [][Next]_vars

(***************************************************************************)
(* Fairness: goroutines run; a process that must end ends; and the API     *)
(* server does not fail the reconciler's calls every time they are         *)
(* retried.  EC2, the lease and the users owe nothing.                     *)
(***************************************************************************)
Fairness ==
    \A g \in Gateway :
        /\ WF_vars(MustExit(g))
        /\ WF_vars(SetupRoutes(g) \/ SetupRoutesError(g) \/ SetupRoutesDone(g)
                     \/ SetupUpsert(g) \/ SetupUpsertError(g))
        /\ WF_vars(StartWatch(g) \/ Reconcile(g) \/ ReconcileStep(g) \/ ReconcileError(g))
        /\ SF_vars(ReconcileStep(g) /\ UpsertGoesOn(ReconcilerOf(g)))
        /\ SF_vars(ReconcileStep(g) /\ Upserted(ReconcilerOf(g)))

FairSpec == Spec /\ Fairness

\* For failover: the kubelet restarts a gateway, its lease runs out, and the
\* gateways that stand by compete for it.
Recovery ==
    /\ \A g \in Gateway : WF_vars(Start(g))
    /\ WF_vars(LeaseExpires /\ proc[lease] # "leader")
    /\ WF_vars(\E g \in Gateway : Acquire(g))

LiveSpec == FairSpec /\ Recovery

-----------------------------------------------------------------------------
Contents == UserContents \cup {Desired(g) : g \in Gateway} \cup {Nil}

ConfigTypeOK ==
    /\ crd \in Contents
    /\ ups \in [Writer -> [pc : UpsPC \cup {"idle"}, got : Contents, fresh : BOOLEAN]]

TypeOK ==
    /\ RoutesTypeOK
    /\ ConfigTypeOK
    /\ proc \in [Gateway -> {"down", "standby", "leader"}]
    /\ lease \in Gateway \cup {Nil}
    /\ setup \in [Gateway -> SetupPC]
    /\ watching \subseteq {g \in Gateway : proc[g] = "leader"}
    /\ queued \subseteq watching

AllRoutesTo(g) == \A i \in Route : routes[i] = g

\* A leader whose Setup is past UpdateRoutes has every pod CIDR of every route
\* table: whatever targets the routes had, and wherever earlier leaders were
\* stopped in the middle of them.  (Where leadership is exclusive.)
RoutesBelongToLeader ==
    \A g \in Gateway :
        Leads(g) /\ setup[g] \in {"upsert", "done"} => AllRoutesTo(g)

ConfigSettled(g) ==
    /\ Leads(g)
    /\ setup[g] = "done"
    /\ g \in watching
    /\ g \notin queued
    /\ ups[ReconcilerOf(g)] = NotUpserting

\* When the leader has finished Setup and has nothing to reconcile, the
\* CiliumVTEPConfig sends traffic to it: no write of a user, of a former
\* leader that is still running, or of the other goroutine is missed.
SettledConfigPointsToLeader ==
    \A g \in Gateway : ConfigSettled(g) => PointsTo(g)

\* What an update replaces is what the Get of the same upsert returned: a
\* content that a user, another gateway or the other goroutine has written
\* between the two calls, right or wrong, is never overwritten unread.
NoLostEdit ==
    [][\A w \in Writer : UpdateOK(w) => crd = ups[w].got]_vars

\* A user changes the content of the object, or deletes it.
UserEdits ==
    /\ crd' # crd
    /\ (\E object \in UserContents : UserWrites(object)) \/ UserDeletes

\* A leader that stays ends up with the CiliumVTEPConfig pointing to it for
\* good, whatever the users, former leaders and failed calls did before, once
\* the users leave the content alone.
ConfigFollowsLeader ==
    <>[][~UserEdits]_vars
        => \A g \in Gateway : <>[]Leads(g) => <>[]PointsTo(g)

\* A leader that stays ends up with all the routes for good.
RoutesFollowLeader ==
    \A g \in Gateway : <>[]Leads(g) => <>[]AllRoutesTo(g)

\* Gateway g leads, and traffic in both directions is sent to it.
Attracts(g) == Leads(g) /\ setup[g] = "done" /\ AllRoutesTo(g) /\ PointsTo(g)

\* Something fails that the gateways do not bring about themselves: a process
\* ends that need not, a lease expires that is held, a call fails that could
\* have succeeded, or a user changes the object.  A conflict of two upserts
\* counts: the two goroutines of a leader need not collide every time.
Mishap ==
    \/ \E g \in Gateway :
          \/ Exit(g) /\ ~MustExit(g)
          \/ SetupRoutesError(g) /\ (upd[g].pc = "describe" \/ Accepts(g))
          \/ SetupUpsertError(g)
          \/ ReconcileError(g)
    \/ LeaseExpires /\ proc[lease] = "leader"
    \/ UserEdits

\* README.md: "If the leader fails, the standby acquires the lease, updates
\* route tables and CiliumVTEPConfig to point to itself".  So whatever earlier
\* leaders left behind, once nothing fails any more some gateway leads and
\* attracts the traffic for good.
FailoverCompletes ==
    <>[][~Mishap]_vars => <>[]\E g \in Gateway : Attracts(g)

\* README.md, "Failover sequence": first (3) the route tables, then (4) the
\* CiliumVTEPConfig.
RoutesBeforeConfig ==
    [][\A w \in Writer :
          CreateOK(w) \/ UpdateOK(w) => AllRoutesTo(GatewayOf(w))]_vars
=============================================================================
