--------------------------- MODULE NodeReconciler ---------------------------
(***************************************************************************)
(* One gateway's Node reconciler (internal/controller/node.go) driving its *)
(* tunnel entries (module Vtep), through the life of the process           *)
(* (cmd/gateway/main.go).                                                  *)
(*                                                                         *)
(* External, modelled from how node.go uses it:                            *)
(*  - the informer cache.  CiliumNodes are read from it and nothing the    *)
(*    gateway does changes them, so its content is all that is modelled:   *)
(*    how far it lags the API server cannot be told apart from the order   *)
(*    in which objects change.                                             *)
(*  - the work queue: a set, because it drops duplicates and the backoff   *)
(*    of failed items lets any of them come first.  A node that changes    *)
(*    while it is reconciled is queued again.                              *)
(*  - the worker: one, as the options leave MaxConcurrentReconciles at 1.  *)
(***************************************************************************)
EXTENDS Vtep, Sequences

CONSTANTS Node,        \* names of CiliumNodes
          Objects,     \* Objects[n]: the contents CiliumNode n may have
          ShareIP      \* may two CiliumNodes name one internal IP at a time?

ASSUME ObjectsAssumption ==
    /\ Nil \notin Node /\ Nil \notin CIDR \X IP
    /\ DOMAIN Objects = Node
    /\ \A n \in Node : Nil \notin Objects[n]

VARIABLES
    cache,      \* cache[n]: the CiliumNode in the informer cache, or Nil
    deleting,   \* the cached nodes whose deletionTimestamp is set
    queue,      \* nodes waiting to be reconciled
    job,        \* the node being reconciled, or Nil
    proc        \* "up" from the start of the manager to the process's end

ctlVars == <<cache, deleting, queue, job, proc>>
vars == <<route, arp, fdb, nodes, op, cache, deleting, queue, job, proc>>

-----------------------------------------------------------------------------
(* Reading a CiliumNode.                                                    *)

IsHybridNode(o) == o.hybrid

\* The first address of type InternalIP.
GetNodeInternalIP(o) ==
    LET IsInternal(a) == a.type = "InternalIP"
        internal == SelectSeq(o.addresses, IsInternal)
    IN  IF internal = <<>> THEN Nil ELSE Head(internal).ip

\* The first CIDR of the IPAM spec.
GetPodCIDR(o) == IF o.podCIDRs = <<>> THEN Nil ELSE Head(o.podCIDRs)

\* Reconcile finds both operands, and net.ParseIP and net.ParseCIDR take them.
Usable(o) == GetNodeInternalIP(o) \in IP /\ GetPodCIDR(o) \in CIDR

Present == {n \in Node : cache[n] # Nil}
Hybrid == {n \in Present : IsHybridNode(cache[n])}

\* The hybrid nodes the gateway is to have tunnel entries for.
Live == {n \in Hybrid : Usable(cache[n]) /\ n \notin deleting}

NodeIP(n) == GetNodeInternalIP(cache[n])
PodCIDR(n) == GetPodCIDR(cache[n])

-----------------------------------------------------------------------------
Init ==
    /\ VtepInit
    /\ cache = [n \in Node |-> Nil]
    /\ deleting = {}
    /\ queue = {}
    /\ job = Nil
    /\ proc = "down"

(***************************************************************************)
(* The cluster.  The informer sees node n appear, change, start deleting   *)
(* or come back (Watch), or go (WatchDelete), and its handler queues n.    *)
(* Cilium's IPAM gives a pod CIDR to one node at a time.                   *)
(***************************************************************************)

Compatible(o, p) ==
    /\ GetPodCIDR(o) \in CIDR => GetPodCIDR(o) # GetPodCIDR(p)
    /\ ShareIP \/ (GetNodeInternalIP(o) \in IP =>
                       GetNodeInternalIP(o) # GetNodeInternalIP(p))

Enqueue(n) == queue' = IF proc = "up" THEN queue \cup {n} ELSE queue

Watch(n, o, dying) ==
    /\ \A m \in Present \ {n} : Compatible(o, cache[m])
    /\ cache' = [cache EXCEPT ![n] = o]
    /\ deleting' = IF dying THEN deleting \cup {n} ELSE deleting \ {n}
    /\ Enqueue(n)
    /\ UNCHANGED <<vtepVars, job, proc>>

WatchDelete(n) ==
    /\ n \in Present
    /\ cache' = [cache EXCEPT ![n] = Nil]
    /\ deleting' = deleting \ {n}
    /\ Enqueue(n)
    /\ UNCHANGED <<vtepVars, job, proc>>

\* Mutant: a predicate that lets only changes through drops the resync.
FilterResync == proc = "up" /\ UNCHANGED vars

\* cache.Options.SyncPeriod: every hour each cached object is queued again.
Resync ==
    /\ proc = "up"
    /\ queue' = queue \cup Present
    /\ UNCHANGED <<vtepVars, cache, deleting, job, proc>>

-----------------------------------------------------------------------------
(* Reconcile.                                                               *)

Take(n) ==
    /\ proc = "up"
    /\ job = Nil
    /\ n \in queue
    /\ queue' = queue \ {n}
    /\ job' = n
    /\ UNCHANGED <<vtepVars, cache, deleting, proc>>

\* The worker holds a node whose CiliumNode it has not read yet.
Reading == job # Nil /\ op = NoOp

Done(again) ==
    /\ queue' = IF again THEN queue \cup {job} ELSE queue
    /\ job' = Nil
    /\ UNCHANGED <<cache, deleting, proc>>

\* Get fails with something else than NotFound: an error.
ReconcileGetError ==
    /\ Reading
    /\ Done(TRUE)
    /\ UNCHANGED vtepVars

\* The node is gone, or is not a hybrid node.
ReconcileSkip ==
    /\ Reading
    /\ job \notin Hybrid
    /\ Done(FALSE)
    /\ UNCHANGED vtepVars

\* No internal IP, no pod CIDR, or one that does not parse: an error.
ReconcileReject ==
    /\ Reading
    /\ job \in Hybrid
    /\ ~Usable(cache[job])
    /\ Done(TRUE)
    /\ UNCHANGED vtepVars

ReconcileRemove ==
    /\ Reading
    /\ job \in Hybrid
    /\ Usable(cache[job])
    /\ job \in deleting
    /\ BeginRemove(PodCIDR(job), NodeIP(job))
    /\ UNCHANGED ctlVars

\* Mutant: the add is attempted without the check of its operands.
AddUnchecked ==
    /\ Reading
    /\ job \in Hybrid \ deleting
    /\ BeginAdd(PodCIDR(job), NodeIP(job))
    /\ UNCHANGED ctlVars

\* Mutant: an address that is already counted is taken to be configured.
SkipCountedAddress ==
    /\ Reading
    /\ job \in Live
    /\ IF NodeIP(job) \in nodes
       THEN Done(FALSE) /\ UNCHANGED vtepVars
       ELSE BeginAdd(PodCIDR(job), NodeIP(job)) /\ UNCHANGED ctlVars

ReconcileAdd ==
    /\ Reading
    /\ job \in Live
    /\ BeginAdd(PodCIDR(job), NodeIP(job))
    /\ UNCHANGED ctlVars

Netlink ==
    /\ AddRoute \/ AddArp \/ DelRoute \/ DelArp
    /\ UNCHANGED ctlVars

ReconcileAdded == AddFdb /\ Done(FALSE)

ReconcileRemoved == DelFdb /\ Done(FALSE)

\* Mutant: the error of AddRemoteNode is logged and not returned.
SwallowAddError == AddFailed /\ Done(FALSE)

\* AddRemoteNode's error is returned, and the node queued again.
ReconcileAddError == AddFailed /\ Done(TRUE)

-----------------------------------------------------------------------------
(* The process.                                                             *)

\* main: Interface.Setup, then the manager, whose informer lists every node.
Start ==
    /\ proc = "down"
    /\ InterfaceReset
    /\ proc' = "up"
    /\ queue' = Present
    /\ UNCHANGED <<cache, deleting, job>>

\* main exits with an error after Setup has deleted the old interface.
StartFails ==
    /\ proc = "down"
    /\ InterfaceReset
    /\ UNCHANGED ctlVars

Stop ==
    /\ proc = "up"
    /\ proc' = "down"
    /\ queue' = {}
    /\ job' = Nil
    /\ UNCHANGED <<cache, deleting>>

\* A crash or os.Exit: deferred calls do not run, the interface stays.
Exit == Stop /\ ProcessExit

\* SIGTERM: the manager waits for the worker, and main tears down.
Terminate == job = Nil /\ Stop /\ InterfaceReset

Next ==
    \/ \E n \in Node :
          \/ \E o \in Objects[n], dying \in BOOLEAN : Watch(n, o, dying)
          \/ WatchDelete(n)
          \/ Take(n)
    \/ Resync
    \/ ReconcileGetError
    \/ ReconcileSkip \/ ReconcileReject \/ ReconcileRemove \/ ReconcileAdd
    \/ Netlink \/ ReconcileAdded \/ ReconcileRemoved \/ ReconcileAddError
    \/ Start \/ StartFails \/ Exit \/ Terminate

Spec == Init /\ [][Next]_vars

(***************************************************************************)
(* Fairness.  The kubelet restarts a gateway that ended, the work queue    *)
(* hands out every item in the end, a reconcile that is taken is carried   *)
(* through, and netlink does not refuse a node's call every time it is     *)
(* retried.  Get reads the informer's cache, which has no errors of its    *)
(* own but while it starts.  Nothing is assumed of the cluster.            *)
(***************************************************************************)
Fairness ==
    /\ WF_vars(Start)
    /\ WF_vars(Resync)
    /\ \A n \in Node : SF_vars(Take(n))
    /\ WF_vars(ReconcileSkip \/ ReconcileReject \/ ReconcileRemove \/ ReconcileAdd)
    /\ <>[][~ReconcileGetError]_vars
    /\ \A n \in Node : /\ SF_vars(job = n /\ AddRoute /\ UNCHANGED ctlVars)
                       /\ SF_vars(job = n /\ AddArp /\ UNCHANGED ctlVars)
                       /\ SF_vars(job = n /\ ReconcileAdded)
    /\ WF_vars(Netlink \/ ReconcileRemoved)

FairSpec == Spec /\ Fairness

-----------------------------------------------------------------------------
TypeOK ==
    /\ VtepTypeOK
    /\ cache \in [Node -> UNION {Objects[n] \cup {Nil} : n \in Node}]
    /\ \A n \in Node : cache[n] \in Objects[n] \cup {Nil}
    /\ deleting \subseteq Present
    /\ queue \subseteq Node
    /\ job \in Node \cup {Nil}
    /\ proc \in {"up", "down"}

\* Traffic for the node's pods reaches it, and the gauge counts it.
Programmed(n) ==
    /\ n \in Live
    /\ route[PodCIDR(n)] = NodeIP(n)
    /\ Resolves(NodeIP(n))
    /\ NodeIP(n) \in nodes

Settled(n) == n \notin queue /\ job # n

\* Once a live hybrid node has left the queue and the worker, its route, ARP
\* and FDB entries are in the kernel and it is counted: no error, change of
\* the node, hand-over of its CIDR or its address, or restart lets Reconcile
\* forget a node.
SettledNodesProgrammed ==
    proc = "up" => \A n \in Live : Settled(n) => Programmed(n)

\* No other CiliumNode names the address of node n.
HasOwnIP(n) ==
    \A m \in Present \ {n} : NodeIP(m) # NodeIP(n)

\* A hybrid node that stays as it is, alone on its address, ends up with its
\* entries for good, whatever failed before and whoever had its address, as
\* long as the gateway is not restarted for ever.
NodesConverge ==
    \A n \in Node : \A o \in Objects[n] :
        <>[](proc = "up" /\ cache[n] = o /\ n \in Live /\ HasOwnIP(n))
            => <>[]Programmed(n)

\* Where two CiliumNodes name one address, removing one wipes entries of the
\* other; the hourly resync still brings them back again and again.
SharedAddressRepaired ==
    \A n \in Node : \A o \in Objects[n] :
        <>[](proc = "up" /\ cache[n] = o /\ n \in Live) => []<>Programmed(n)

\* metrics.go: HybridNodesConfigured "is the current number of hybrid nodes with
\* VTEP entries configured in the gateway".  So when all work is done, every
\* counted address is the address of a hybrid node in the cluster.
CountedNodesExist ==
    proc = "up" /\ queue = {} /\ job = Nil =>
        nodes \subseteq {NodeIP(n) : n \in Live}

(***************************************************************************)
(* The abstract specification (module Tunnels).  A node is served when its *)
(* entries are there and the call in progress will not touch them: it is   *)
(* not at work on the node's CIDR or address for another node, nor for     *)
(* what the node was before it changed.                                    *)
(***************************************************************************)
Demand(n) == IF n \in Live THEN <<PodCIDR(n), NodeIP(n)>> ELSE Nil

Threatened(n) ==
    /\ op # NoOp
    /\ IF job = n
       THEN ~(op.pc \in AddPC /\ op.cidr = PodCIDR(n) /\ op.ip = NodeIP(n))
       ELSE op.cidr = PodCIDR(n) \/ op.ip = NodeIP(n)

Demands == [n \in Node |-> Demand(n)]
Served == {n \in Live : proc = "up" /\ Programmed(n) /\ ~Threatened(n)}

T == INSTANCE Tunnels WITH up <- proc = "up", want <- Demands, have <- Served

\* The reconciler implements Tunnels: once a node's traffic reaches it, no
\* work on other nodes, late removal, failed or repeated call of
\* AddRemoteNode or resync interrupts it, until the CiliumNode itself changes
\* or the process ends.  (Where no two CiliumNodes name one address.)
ServiceIsKept == T!Spec

(***************************************************************************)
(* The life of the process (module Process), which Startup implements with *)
(* every call that Start here takes for one step.                          *)
(***************************************************************************)
Entries == IF TablesEmpty THEN "none" ELSE IF proc = "up" THEN "own" ELSE "old"

P == INSTANCE Process WITH up <- proc = "up", entries <- Entries
=============================================================================
