# A TLA+ model of the EKS hybrid nodes gateway

The gateway connects a VPC with hybrid (on-premises) nodes over VXLAN. Several
replicas run as a Deployment, each on a node of its own; one of them is the
leader. This directory models the parts of it that keep state, checks them with
TLC on small instances and proves the central properties with TLAPS for all
instances. `PROJECT.json` lists the runs, the source lines of every definition,
the hazards and the theorems.

    tlc -workers 2 -config NodeReconcilerSafety.cfg MCNodeReconciler
    tlapm LeaderProofs.tla

## The system

| component | code | state | operations | interacts with |
|---|---|---|---|---|
| VXLAN interface | `internal/vxlan/interface.go` | the link and the kernel tables behind it | Setup, Teardown | main at start and end |
| tunnel entries | `internal/vxlan/vtep.go` | routes, ARP, FDB in the kernel; `VTEP.nodes` | AddRemoteNode, RemoveRemoteNode: three netlink calls each | called by the Node reconciler |
| Node reconciler | `internal/controller/node.go` | work queue, informer cache (controller-runtime's) | Reconcile | CiliumNodes; runs on every replica |
| route table manager | `internal/aws/routetable.go` | EC2's route tables | UpdateRoutes: describe, then replace or create, for each route | called by Setup |
| CiliumVTEPConfig upsert | `internal/cilium/vtep.go` | the API object "hybrid-gateway" | UpsertCiliumVTEPConfig: get, then create or update | called by Setup and by the VTEPConfig reconciler, concurrently |
| leader setup | `internal/gateway/setup.go` | progress of the leader's start | Setup.Start | lease; an error ends the process |
| VTEPConfig reconciler | `internal/controller/vtepconfig.go` | its queue and watch | Reconcile | users' edits, other leaders' writes |
| process, lease | `cmd/gateway/main.go` | leader or standby, up or down | start, fatal errors, SIGTERM, loss of the lease | all of the above |
| instance metadata | `internal/aws/metadata.go` | none | HTTP reads at start | main |
| health, metrics | `internal/health`, `internal/metrics` | two flags; counters | probes, scrapes | kubelet, Prometheus |

What is hard: every operation above is several calls to somebody else (kernel,
EC2, API server) that can fail half way, take effect without an answer, or be
cut off by the end of the process; Setup and the VTEPConfig reconciler work on
one object from two goroutines; and a process may go on for a while after its
lease has passed to another replica.

What makes the components correct:

* start: a gateway that says it is ready has a VXLAN interface of its own making
  (`ReadyLinkIsWhole`) and access to its route tables (`ReadyHasAccess`), whatever
  an earlier process left behind; the manager never runs on an interface with
  somebody else's entries (`StartsClean`); and a gateway whose configuration
  suffices is not refused (`StartableIsNotRefused`) and gets ready
  (`GatewayStarts`);
* tunnel entries: what the gauge counts is reachable (`CountedNodesResolve`);
* Node reconciler: no live hybrid node is forgotten (`SettledNodesProgrammed`), a
  served one stays served (`ServiceIsKept`), and every one that stays is
  programmed in the end (`NodesConverge`, `SharedAddressRepaired`);
* routes: a leader past UpdateRoutes has them all (`RoutesBelongToLeader`);
* CiliumVTEPConfig: what an update replaces is what its own Get returned, so no
  edit is overwritten unread (`NoLostEdit`), a settled
  leader is where it points (`SettledConfigPointsToLeader`), and it follows a
  leader that stays (`ConfigFollowsLeader`);
* all of it together: traffic that flows goes on flowing while its gateway leads
  (`TrafficKeepsFlowing`, where leadership is exclusive), and after any sequence of failures it flows again
  (`TrafficResumes`).

## The modules

| module | models |
|---|---|
| `Startup` | main up to mgr.Start, Interface.Setup and Teardown, the metadata client, the constructor and access check of the route table manager, the ready flag |
| `Vtep` | `vtep.go`, and the interface by its effect on the tables |
| `NodeReconciler` | `node.go` driving `Vtep`, through the life of one process |
| `Tunnels` | abstract: what a gateway's tunnel entries promise to the nodes |
| `Process` | abstract: the life of a process, as its tunnel entries see it |
| `Gateways` | the replicas, and `Nil` |
| `RouteTables` | UpdateRoutes of any number of gateways on EC2's routes |
| `VTEPConfig` | UpsertCiliumVTEPConfig of any number of writers |
| `Leader` | Setup, the VTEPConfig reconciler, the lease and the users, over `RouteTables` and `VTEPConfig` |
| `HybridGateway` | whole gateways: `Leader`, with the tunnel entries of each replica as `Tunnels` promises them |
| `MCStartup`, `MCNodeReconciler`, `MCLeader`, `MCHybridGateway` | instances for TLC |
| `VtepProofs`, `NodeReconcilerProofs`, `LeaderProofs`, `HybridGatewayProofs`, `StartupProofs` | theorems |

`NodeReconciler` extends `Vtep` and implements `Tunnels`; `Leader` extends
`RouteTables` and `VTEPConfig`; `HybridGateway` extends `Leader`. Two abstract
specifications join the detailed ones. `Tunnels` is implemented by `NodeReconciler`
and describes each replica of `HybridGateway`, so the composition uses of the
reconciler what the reconciler is proved to do. `Process` is implemented by
`Startup`, whose `Program` is all of NodeReconciler, and by `NodeReconciler`, whose
`Start` and `StartFails` are runs of Startup's steps: both agree on what a process
finds on its interface and what it leaves.

**Startup.** `pc` is the next call of main; each step does it, and a call that
fails is `Exit` (os.Exit, without the deferred Teardown), as is a crash and a
SIGTERM before NotifyContext. After NotifyContext SIGTERM only cancels `ctx`: the
calls of the metadata service and of EC2 then fail, the others go on, and the
manager, once it runs, returns at once (`Terminate`, with Teardown). `link` is the
kernel's interface and outlives the process; `entries` tells whether tunnel
entries on it are this process's ("own") or an earlier one's ("old"). A list flag
is the sequence that strings.Split makes of it, so that empty and blank elements
are seen. What parsing makes of it is the same function without its blank
elements, the others staying at their places: a list with gaps has the elements
and the order of the slice, and only a slice's indices are lost, which nothing
looks at. A zone is the sequence of its parts. SHA-256 of an address is an
injective function of it.

**Vtep.** `route`, `arp`, `fdb` are the kernel's tables, `nodes` is `VTEP.nodes`.
A call of AddRemoteNode or RemoveRemoteNode is a value of `op` that moves from
one netlink call to the next. The first failing call ends an add with an error
(`AddFailed`); a removal goes on after a failure, so `DelRoute`, `DelArp` and
`DelFdb` each delete or leave their entry. The bookkeeping after the last call
is part of `AddFdb` and `DelFdb`. RemoveRemoteNode names its entries by CIDR and
by address alone, as the code does.

**NodeReconciler.** `cache` and `deleting` are the informer's view; `queue` and
`job` the work queue and its one worker (`MaxConcurrentReconciles` is left at
its default, 1). One action per way through Reconcile: `ReconcileGetError` (Get
fails), `ReconcileSkip` (gone, or not hybrid), `ReconcileReject` (an operand is missing or does not parse; error),
`ReconcileRemove`, `ReconcileAdd`, and the ends `ReconcileAdded`,
`ReconcileRemoved`, `ReconcileAddError`. An error queues the node again. The
process starts (the interface is made anew), fails to start after the old
interface has been deleted, exits without Teardown, or terminates with it. A
failed Teardown is the same as `Exit`. Constants: the contents each CiliumNode
may have, and `ShareIP`, whether two of them may name one address at a time.
Cilium's IPAM gives a CIDR to one node at a time; that is assumed.

**Tunnels.** Per gateway: what each node asks for, and which nodes are served. A
node leaves service only when what it asks for changes or the gateway ends. A
gateway that starts lists what the nodes ask for afresh (`Restart`). The
refinement mapping in NodeReconciler: a live node asks for its CIDR and address;
it is served when its route, ARP and FDB entries are in the kernel and the call
under way is not about to touch them for anybody else (`Threatened`). A node whose
address changes may be served at once, where its new entries happen to be there.

**Process.** Whether the manager runs, and whose tunnel entries are on the
interface: none, the process's own, or an earlier one's. A start that succeeds
finds none, a start that fails may have deleted what was there and writes none,
a crash leaves the entries behind, a Teardown does not.

**RouteTables.** A route is a position in the nested loops of UpdateRoutes; its
target is a gateway, something else (`Foreign`) or none. `CallFails` stands for
a refused call, one that did not arrive, and one that was carried out with its
answer lost. No route table manager (no `ROUTE_TABLE_IDS`) is `NRoutes = 0`.
`Unmasked` are the routes whose CIDR is configured with host bits set: EC2 records
them without, and getRoute, which compares strings, never finds them.

**VTEPConfig.** A writer's `pc` is its next API call. `fresh` tells whether the
version it has read is still the object's, which is all that resourceVersion is
for; `got` is the object it has read, and serves to state `NoLostEdit`. The manager's client reads unstructured objects from the server, not from
its cache, so `Get` is a step on the object itself. A malformed endpoint and one
with a wrong value make no difference to needsUpdate and are one case. The
endpoint's name is part of what is written and not of what needsUpdate compares,
so `PointsTo` is about what Cilium does with the object: CIDR, tunnel endpoint
and MAC.

**Leader.** Per gateway: the process, how far Setup has come, whether the
reconciler's informer has listed the object (`watching`), and whether a request
is queued. `Exclusive` is TRUE where the lease passes on only after the former
leader has stopped; FALSE lets a process go on after it has lost the lease, as a
process that is suspended or waits for EC2 does (its calls have a timeout of 30
seconds, the lease lasts 3). `EarlyDelete` lets users delete the object before a
new leader's informer has listed it. Users may write any of `UserContents`; an
edit of the metadata alone is a write of the content that is there.

**HybridGateway.** Adds to Leader, for each replica, what the informer has seen of
the nodes (`seen`) and whom it serves (`served`). Both start with the process and
end with it. Nothing orders the two parts of a gateway, as in main: the ready
flag is set, and the election begins, before a node has been reconciled.

External and modelled from use: EC2, the API server, the informers and work
queues, the lease and the manager of controller-runtime, Cilium's reading of the
CiliumVTEPConfig, users.

Left out of the control flow: log lines, and metrics other than
HybridNodesConfigured.

## The runs

Runs that pass:

| run | cfg | properties | instance and why it is enough | distinct states |
|---|---|---|---|---|
| startup | Startup | TypeOK, ReadyLinkIsWhole, ReadyHasAccess, StartableIsNotRefused, GatewayStarts, StartsClean | one deployment that is complete and thirteen that each differ from it in what main looks at (missing and blank flags, a table that cannot be described, a Local Zone, an unknown instance, one without primary interface, and all four mixtures of region and instance from flag or metadata); two tables, so that the loop can stop between them | 1,064 |
| node_safety | NodeReconcilerSafety | TypeOK, CountedNodesResolve, SettledNodesProgrammed, ServiceIsKept | two nodes, two CIDRs, two addresses: the nodes live side by side, and work on one of them meets the other while it is served; either CIDR can be handed over, and one address, with its CIDR or without; one node can also be unusable in every way Reconcile rejects | 201,718 |
| node_live | NodeReconcilerLive | NodesConverge, SharedAddressRepaired | one node that changes its CIDR beside one that fails for ever, or takes over its CIDR and address, or names its address at the same time | 14,341 |
| leader_overlap | LeaderOverlap | SettledConfigPointsToLeader, NoLostEdit, ConfigFollowsLeader | two gateways that may both run as leaders: four concurrent writers, and users who damage the object, repair it for one of the gateways and delete it. One route, which an earlier leader has left to a gateway (`OverlapSpec`), and one VPC CIDR: for the CiliumVTEPConfig, UpdateRoutes is a delay that may end in an error | 130,752 |
| gateway | HybridGateway | SysTypeOK, RoutesBelongToLeader, TrafficResumes, TrafficKeepsFlowing | two gateways, two routes with every initial target, two VPC CIDRs, users that delete the object, a node that comes and goes beside one that stays: leaders can be stopped before, between and after routes and upserts, and work on one node meets traffic to the other | 74,928 |

No run bounds a counter: the state spaces are finite because the queues are sets
and the objects come from finite sets. Deadlock is checked everywhere.

Runs that refute what a document or a comment says (see `findings`):

| run | shows |
|---|---|
| startup_access | VerifyRouteTableAccess passes, and the gateway is ready, without permission to write a route table |
| node_gauge | the gauge counts a node that has gone, or an address a node no longer has |
| gateway_failover | a gateway that has just started attracts the traffic before it has tunnel entries |
| leader_overlap_routes | a late route call of a former leader stays in force for good, because UpdateRoutes runs once per leadership |
| leader_order | the CiliumVTEPConfig may point to a new leader before its routes are in place |
| leader_early_delete | an object deleted before the informer's first list is not recreated |
| leader_notation | a pod CIDR with host bits set makes every leader after the first fail and exit, for ever |

### Fairness

`Startup`: the kubelet restarts the container, every call of main ends, and the
lookup of an interface that exists, if it is made for ever, does not fail every
time (strong). `GatewayStarts` is conditional on forwarding staying on and on
mishaps coming to an end: signals, and exits where the next step could have
succeeded.

`NodeReconciler`: the kubelet restarts a gateway that ended; the resync comes
round; the work queue hands out every item in the end (strong, since the worker
is taken and released in between); a reconcile that is under way goes on; Get
fails finitely often only, as it reads the informer's cache, which is synced
before the worker starts and has no other errors than NotFound; and each netlink call of an add, if it is retried for ever, is not refused every
time (strong). Nothing is assumed of the cluster.

`Leader`: goroutines run; a process that must end (Setup failed, or the lease is
lost) ends; an API call of the reconciler, retried for ever, is not refused every
time (strong). EC2, the lease and the users owe nothing: `ConfigFollowsLeader` is
conditional on a leader that stays and on users who leave the content of the object
alone from some time on, since a user can undo what the leader did at any time.

For failover (`Recovery`): gateways are restarted, the lease of a process that has
ended runs out, and the standbys compete for it. `FailoverCompletes` and
`TrafficResumes` are conditional on mishaps coming to an end (`Mishap`): what must
happen because of the gateways' own state is none, so that a Setup that fails for
a reason of its own, or a process that would not end, refutes them. A conflict
between a leader's two upserts counts as a mishap: each costs a leadership, and
the code does not exclude that it recurs, but nothing makes it recur.
`HybridGateway` adds that the watch delivers and that a reconciler gets through,
which `NodesConverge` shows.

## The proofs

All theorems hold for any number of nodes, gateways, routes and CIDRs.

* `VtepProofs`. `CountedNodesAlwaysResolve` with an arbitrary caller. The
  invariant adds, to the types and the property, that between the ARP and the
  FDB write of an add the ARP entry is in place.
* `NodeReconcilerProofs`. `ImplementsVtep`: the composed specification implements
  `VtepSpec` (identity mapping), from which `CountedNodesResolveInReconciler`
  follows. `SettledNodesAlwaysProgrammed`, assuming that no two CiliumNodes share
  an address (`~ShareIP`; without it a removal wipes the other
  node's entries, and only `SharedAddressRepaired` is left). The property is not inductive: the invariant says what
  the worker's operation has written so far for the node it is about, and that
  an operation whose operands are no longer those of its node can only damage
  nodes that are queued. `ServiceIsAlwaysKept`, under the same assumption: the
  specification implements `Tunnels`. On top of that invariant, a call serves its
  own node and threatens nobody who is served: a call that would has operands
  that are no longer those of its node, and whoever has taken them over is
  queued and not served yet. `ImplementsProcess`: starts, crashes and Teardown of
  this module are steps of `Process`; with no process there is no operation under
  way, so nothing touches the tables but the next Interface.Setup.
* `LeaderProofs`. `RoutesAlwaysBelongToLeader`, assuming `Exclusive` (without it
  the property is lost, as leader_overlap_routes shows of its liveness form): at
  most one process leads, and every route that its loops have passed is its own.
  `NoEditIsLost`: a writer whose version is current has read the content that the
  object still has. `SettledConfigAlwaysPointsToLeader`, assuming `~EarlyDelete`
  and at least one VPC CIDR, with any number of processes that believe they
  lead: an object that is wrong for a gateway that watches it is on that
  gateway's list (queued or being reconciled); a missing one is on the list of
  every gateway that has finished Setup; and a creation that a pending Create
  will run into has been queued. The last part is why returning nil on
  AlreadyExists is sound. The lemmas at the end are for `HybridGatewayProofs`: only
  processes that lead write the object, and what they write is their own
  endpoint (`LeadersWrite`), so what a leader attracts is taken from it only by a
  user or with the leadership (`AttractionKept`).
* `HybridGatewayProofs`. `ImplementsLeader`: the whole system implements `Leader`, so
  that `RoutesBelongToLeaderInSystem` and `NoEditIsLostInSystem` follow from the
  theorems above; `SysTypeCorrect`. `TrafficAlwaysKeepsFlowing`, assuming
  `Exclusive` (with overlapping leaders each may take the traffic from the other):
  `AttractionKept` for the routes and the CiliumVTEPConfig, and for the tunnel
  entries, node by node, that nothing but a change of its own demand takes a node
  out of `served`.
  `ReplicasImplementTunnels`: for each replica, `seen` and `served` follow `Tunnels`;
  the invariant adds that a gateway that is not up has seen and serves nothing.
  `TunnelsStepsAreAllowed` is the converse, so that the composition is not narrower
  than what the reconciler was proved to implement: a step of `Tunnels` about one
  node is a step of the system. A `Serve` of several nodes at once is several such
  steps.
* `StartupProofs`. Three invariants. `LinkInv` says, by the place main has reached,
  what Interface.Setup has done to the link: beyond LinkAdd no old entries,
  beyond LinkSetHardwareAddr the published MAC, beyond LinkSetUp up, and none of
  the process's own before the manager runs. From it `ReadyLinkIsAlwaysWhole` and
  `StartsAlwaysClean` (the refinement of `Process`). `AccessInv` says what has been
  found by then: the tables parsed from the flag, the ENI of the instance the
  flags or the metadata name, and that every table up to `verified` is readable.
  From it `TypeCorrect` and `ReadyAlwaysHasAccess`. `RegionInv` says that AWS is
  asked only about given tables and the metadata only for what the flags leave
  open; with `AccessInv` it gives `StartableIsNeverRefused`.

Assumptions on constants (`NilAssumption`, `ObjectsAssumption`,
`GatewayAssumption`, `RoutesAssumption`, `VpcCIDRsAssumption`, `StartupAssumption`,
`WriterAssumption`, `ContentsAssumption`) say that `Nil` and `Foreign` are none
of the values they stand beside, that lists are sequences, that a region has a
name and that no instance has the empty id; TLC evaluates them in every run.

Only model-checked: liveness (`NodesConverge`, `SharedAddressRepaired`,
`ConfigFollowsLeader`, `GatewayStarts`, `TrafficResumes`), since fairness and ENABLED
are beyond the prover. Every invariant and every action property that a passing
run checks is also a theorem. That a list with gaps is the slice the loop of
parseCIDRs builds is by definition and not proved: it is an induction over data.

## Not modelled

* Metrics: registration of counters, and a collector that reads /proc and netlink
  at each scrape and keeps no state. The one gauge that says what the program
  believes, HybridNodesConfigured, is Vtep's `nodes`.
* The healthy flag of the probe server, which nothing clears.
* The parameters of the lease, log levels and bind addresses.
* The Helm chart, hack scripts and end-to-end tests.
* IPv6: the gateway writes AF_INET entries and the models' addresses are IPv4.
  generateMACFromIP gives all other addresses one MAC; `hazards` lists it.
* What a gateway with an empty list of CIDRs should do (the flag ","): `Startup`
  lets it get ready, as the code does, and no document says more.

## Plan

1. `VTEPConfig` as an abstract register that is compared and set, implemented by
   the upserts of any number of writers.
2. Safety parts of the liveness properties: that a leader's Setup never goes back
   within a leadership, and that a queued node stays queued until it is taken.
3. What an overlap of leaders keeps: without `Exclusive`, that each route points
   to a gateway that led at some time, or to what it pointed to before.
