------------------------ MODULE NodeReconcilerProofs ------------------------
(***************************************************************************)
(* Theorems about NodeReconciler, for every set of nodes, addresses, CIDRs *)
(* and contents of CiliumNodes.                                            *)
(***************************************************************************)
EXTENDS NodeReconciler, VtepProofs

\* Reconcile uses the tunnel entries only as Vtep allows: one call at a time,
\* each carried on from netlink call to netlink call.
LEMMA NextImplementsVtepNext == [Next]_vars => [VtepNext]_vtepVars
<1> SUFFICES ASSUME [Next]_vars PROVE [VtepNext]_vtepVars
  OBVIOUS
<1>1. ASSUME NEW n \in Node, NEW o \in Objects[n], NEW dying \in BOOLEAN,
             Watch(n, o, dying)
      PROVE  UNCHANGED vtepVars
  BY <1>1 DEF Watch
<1>2. ASSUME NEW n \in Node, WatchDelete(n) \/ Take(n)
      PROVE  UNCHANGED vtepVars
  BY <1>2 DEF WatchDelete, Take
<1>3. CASE Resync \/ ReconcileGetError \/ ReconcileSkip \/ ReconcileReject
  BY <1>3 DEF Resync, ReconcileGetError, ReconcileSkip, ReconcileReject
<1>4. CASE ReconcileRemove
  BY <1>4 DEF ReconcileRemove, VtepNext, Usable, PodCIDR, NodeIP
<1>5. CASE ReconcileAdd
  BY <1>5 DEF ReconcileAdd, VtepNext, Live, Usable, PodCIDR, NodeIP
<1>6. CASE Netlink
  BY <1>6 DEF Netlink, VtepNext
<1>7. CASE ReconcileAdded \/ ReconcileRemoved \/ ReconcileAddError
  BY <1>7 DEF ReconcileAdded, ReconcileRemoved, ReconcileAddError, VtepNext
<1>8. CASE Start \/ StartFails \/ Terminate \/ Exit
  BY <1>8 DEF Start, StartFails, Terminate, Exit, VtepNext
<1>9. CASE UNCHANGED vars
  BY <1>9 DEF vars, vtepVars
<1>10. QED
  BY <1>1, <1>2, <1>3, <1>4, <1>5, <1>6, <1>7, <1>8, <1>9 DEF Next

-----------------------------------------------------------------------------
(* Types.  The queue only takes the worker's node back when there is one,   *)
(* so type correctness needs that an operation in progress is a job's, and  *)
(* that a process that is down has neither.                                 *)

CtlTypeOK ==
    /\ cache \in [Node -> UNION {Objects[n] \cup {Nil} : n \in Node}]
    /\ \A n \in Node : cache[n] \in Objects[n] \cup {Nil}
    /\ deleting \subseteq Present
    /\ queue \subseteq Node
    /\ job \in Node \cup {Nil}
    /\ proc \in {"up", "down"}
    /\ proc = "down" => queue = {} /\ job = Nil

OpHasJob == op # NoOp => job # Nil

ControlInv == VtepTypeOK /\ CtlTypeOK /\ OpHasJob

\* Steps of AddRemoteNode and RemoveRemoteNode are taken on behalf of a job.
LEMMA VtepStepHasJob ==
    ASSUME ControlInv,
           \/ AddRoute \/ AddArp \/ AddFdb \/ AddFailed
           \/ DelRoute \/ DelArp \/ DelFdb
    PROVE  job \in Node /\ op # NoOp /\ proc = "up"
  BY OpIdle DEF ControlInv, CtlTypeOK, OpHasJob, VtepTypeOK, AddRoute, AddArp,
                AddFdb, AddFailed, DelRoute, DelArp, DelFdb, AddPC, NoOp

\* Every step of the cluster, the worker and the process keeps ControlInv.
LEMMA ControlStep == ControlInv /\ [Next]_vars => ControlInv'
<1> SUFFICES ASSUME ControlInv, [Next]_vars PROVE ControlInv'
  OBVIOUS
<1>v. VtepTypeOK'
  BY NextImplementsVtepNext, VtepTypeStep DEF ControlInv
<1>t. CtlTypeOK /\ OpHasJob
  BY DEF ControlInv
<1>s. SUFFICES CtlTypeOK' /\ OpHasJob'
  BY <1>v DEF ControlInv
<1> USE DEF CtlTypeOK, Present, OpHasJob
<1>1. ASSUME NEW n \in Node, NEW o \in Objects[n], NEW dying \in BOOLEAN,
             Watch(n, o, dying)
      PROVE  CtlTypeOK' /\ OpHasJob'
  <2>1. o # Nil
    BY ObjectsAssumption
  <2>2. /\ cache' \in [Node -> UNION {Objects[m] \cup {Nil} : m \in Node}]
        /\ \A m \in Node : cache'[m] = IF m = n THEN o ELSE cache[m]
    BY <1>t, <1>1 DEF Watch
  <2>3. deleting' \subseteq deleting \cup {n}
    BY <1>1 DEF Watch
  <2>4. deleting' \subseteq Present'
    BY <1>t, <2>1, <2>2, <2>3
  <2>5. /\ queue' \subseteq Node /\ job' = job /\ proc' = proc /\ op' = op
        /\ proc = "down" => queue' = queue
    BY <1>t, <1>1 DEF Watch, Enqueue, vtepVars
  <2>6. QED
    BY <1>t, <2>2, <2>4, <2>5
<1>2. ASSUME NEW n \in Node, WatchDelete(n)
      PROVE  CtlTypeOK' /\ OpHasJob'
  <2>1. /\ cache' \in [Node -> UNION {Objects[m] \cup {Nil} : m \in Node}]
        /\ \A m \in Node : cache'[m] = IF m = n THEN Nil ELSE cache[m]
    BY <1>t, <1>2 DEF WatchDelete
  <2>2. deleting' \subseteq Present'
    BY <1>t, <1>2, <2>1 DEF WatchDelete
  <2>3. /\ queue' \subseteq Node /\ job' = job /\ proc' = proc /\ op' = op
        /\ proc = "down" => queue' = queue
    BY <1>t, <1>2 DEF WatchDelete, Enqueue, vtepVars
  <2>4. QED
    BY <1>t, <2>1, <2>2, <2>3
<1>3. ASSUME NEW n \in Node, Take(n)
      PROVE  CtlTypeOK' /\ OpHasJob'
  BY <1>t, <1>3, ObjectsAssumption DEF Take, vtepVars
<1>4. CASE Resync
  BY <1>t, <1>4 DEF Resync, vtepVars
<1>5. ASSUME NEW again \in BOOLEAN, job # Nil, Done(again), op' = NoOp
      PROVE  CtlTypeOK' /\ OpHasJob'
  BY <1>t, <1>5 DEF Done
<1>6. CASE ReconcileGetError \/ ReconcileSkip \/ ReconcileReject
  BY <1>5, <1>6 DEF ReconcileGetError, ReconcileSkip, ReconcileReject, Reading, vtepVars
<1>7. CASE ReconcileAdded \/ ReconcileRemoved \/ ReconcileAddError
  <2>1. job # Nil
    BY <1>7, VtepStepHasJob, ObjectsAssumption
       DEF ReconcileAdded, ReconcileRemoved, ReconcileAddError
  <2>2. op' = NoOp
    BY <1>7 DEF ReconcileAdded, ReconcileRemoved, ReconcileAddError,
                AddFdb, DelFdb, AddFailed
  <2>3. QED
    BY <1>5, <1>7, <2>1, <2>2
       DEF ReconcileAdded, ReconcileRemoved, ReconcileAddError
<1>8. CASE ReconcileAdd \/ ReconcileRemove
  BY <1>t, <1>8 DEF ReconcileAdd, ReconcileRemove, Reading, ctlVars
<1>9. CASE Netlink
  <2>1. job # Nil
    BY <1>9, VtepStepHasJob, ObjectsAssumption DEF Netlink
  <2>2. QED
    BY <1>t, <1>9, <2>1 DEF Netlink, ctlVars
<1>10. CASE Start \/ StartFails
  BY <1>t, <1>10 DEF Start, StartFails, ctlVars, InterfaceReset, LoseMemory
<1>11. CASE Exit \/ Terminate
  BY <1>t, <1>11 DEF Exit, Terminate, Stop, InterfaceReset, ProcessExit, LoseMemory
<1>12. CASE UNCHANGED vars
  BY <1>t, <1>12 DEF vars
<1>13. QED
  BY <1>1, <1>2, <1>3, <1>4, <1>6, <1>7, <1>8, <1>9, <1>10, <1>11, <1>12 DEF Next

\* ControlInv holds before the gateway is first started.
LEMMA ControlInit == Init => ControlInv
  BY VtepTypeInit DEF Init, ControlInv, CtlTypeOK, OpHasJob, Present, VtepInit

\* The types of the reconciler's variables and of the tables it programs.
THEOREM TypeCorrect == Spec => []TypeOK
<1>1. ControlInv => TypeOK
  BY DEF ControlInv, CtlTypeOK, TypeOK
<1>2. QED
  BY <1>1, ControlInit, ControlStep, PTL DEF Spec

\* Reconcile, driven by any sequence of events and restarts, implements the
\* tunnel-entry specification: it never runs two operations at once, never
\* abandons one half way but by an error or the end of the process, and only
\* names operands that parse.
THEOREM ImplementsVtep == Spec => VtepSpec
<1>1. Init => VtepInit
  BY DEF Init
<1>2. QED
  BY <1>1, NextImplementsVtepNext, PTL DEF Spec, VtepSpec

\* So on a running gateway every counted address resolves.
THEOREM CountedNodesResolveInReconciler == Spec => []CountedNodesResolve
  BY ImplementsVtep, CountedNodesAlwaysResolve, PTL

-----------------------------------------------------------------------------
(***************************************************************************)
(* No settled node is forgotten.  The invariant is not inductive alone: an *)
(* operation writes entries that may belong to another node, and finishes  *)
(* for a node that may have changed since it was read.  What saves both    *)
(* is the queue: whoever took over the operation's CIDR or address after   *)
(* it was read, or changed while it was running, is queued.                *)
(***************************************************************************)

NoSharing == \A m, n \in Present : m # n => Compatible(cache[m], cache[n])

OthersQueued ==
    op # NoOp => \A m \in Live \ {job} :
        PodCIDR(m) = op.cidr \/ NodeIP(m) = op.ip => m \in queue

JobCurrent ==
    op # NoOp /\ job \in Live /\ job \notin queue =>
        op.pc \in AddPC /\ op.cidr = PodCIDR(job) /\ op.ip = NodeIP(job)

SettledInv ==
    /\ ControlInv
    /\ VtepInv
    /\ NoSharing
    /\ OthersQueued
    /\ JobCurrent
    /\ SettledNodesProgrammed

\* SettledInv holds before the gateway is first started.
LEMMA SettledInit == Init => SettledInv
<1> SUFFICES ASSUME Init PROVE SettledInv
  OBVIOUS
<1>1. ControlInv
  BY ControlInit
<1>2. VtepInv
  BY VtepTypeInit DEF Init, VtepInv, VtepInit, AddWrote, CountedNodesResolve, NoOp
<1>3. op = NoOp /\ proc = "down" /\ Present = {}
  BY DEF Init, VtepInit, Present
<1>4. QED
  BY <1>1, <1>2, <1>3
     DEF SettledInv, NoSharing, OthersQueued, JobCurrent, SettledNodesProgrammed

\* A live node's operands are an address and a CIDR.
LEMMA LiveOperands ==
    \A n \in Live : n \in Node /\ PodCIDR(n) \in CIDR /\ NodeIP(n) \in IP
  BY DEF Live, Hybrid, Present, Usable, PodCIDR, NodeIP

\* An event about node n: n is queued if the process is up, and nothing that
\* the invariant says of other nodes is touched.
LEMMA EventStep ==
    ASSUME SettledInv, NEW n \in Node,
           UNCHANGED <<vtepVars, job, proc>>,
           Enqueue(n),
           \A m \in Node \ {n} : /\ cache'[m] = cache[m]
                                 /\ m \in deleting' <=> m \in deleting
    PROVE  OthersQueued' /\ JobCurrent' /\ SettledNodesProgrammed'
<1> USE DEF SettledInv
<1>0. UNCHANGED <<route, arp, fdb, nodes, op, job, proc>>
  BY DEF vtepVars
<1>1. CASE proc = "down"
  <2>1. op = NoOp
    BY <1>1 DEF ControlInv, CtlTypeOK, OpHasJob
  <2>2. QED
    BY <1>0, <1>1, <2>1 DEF OthersQueued, JobCurrent, SettledNodesProgrammed
<1>2. CASE proc = "up"
  <2>1. queue' = queue \cup {n}
    BY <1>2 DEF Enqueue
  <2>2. \A m \in Node \ {n} : m \in Live' <=> m \in Live
    BY DEF Live, Hybrid, Present
  <2>3. \A m \in Node \ {n} : PodCIDR(m)' = PodCIDR(m) /\ NodeIP(m)' = NodeIP(m)
    BY DEF PodCIDR, NodeIP
  <2>4. \A m \in Live' : m \in Node
    BY DEF Live, Hybrid, Present
  <2>5. OthersQueued'
    BY <1>0, <2>1, <2>2, <2>3, <2>4 DEF OthersQueued
  <2>6. JobCurrent'
    BY <1>0, <2>1, <2>2, <2>3, <2>4 DEF JobCurrent
  <2>7. SettledNodesProgrammed'
    <3> SUFFICES ASSUME NEW m \in Live', Settled(m)'
                 PROVE  Programmed(m)'
      BY DEF SettledNodesProgrammed
    <3>1. m \in Node \ {n}
      BY <2>1, <2>4 DEF Settled
    <3>2. m \in Live /\ Settled(m)
      BY <1>0, <2>1, <2>2, <3>1 DEF Settled
    <3>3. Programmed(m)
      BY <1>2, <3>2 DEF SettledNodesProgrammed
    <3>4. QED
      BY <1>0, <2>2, <2>3, <3>1, <3>3 DEF Programmed, Resolves
  <2>8. QED
    BY <2>5, <2>6, <2>7
<1>3. QED
  BY <1>1, <1>2 DEF ControlInv, CtlTypeOK

\* A netlink call only touches entries of its own CIDR and address.
TouchesOwnEntries ==
    /\ \A k \in CIDR \ {op.cidr} : route'[k] = route[k]
    /\ \A i \in IP \ {op.ip} :
          /\ arp'[i] = arp[i]
          /\ fdb'[generateMACFromIP(i)] = fdb[generateMACFromIP(i)]
          /\ i \in nodes' <=> i \in nodes

\* This is true of each of the seven calls.
LEMMA CallsTouchOwnEntries ==
    ASSUME VtepTypeOK,
           \/ AddRoute \/ AddArp \/ AddFdb \/ AddFailed
           \/ DelRoute \/ DelArp \/ DelFdb
    PROVE  TouchesOwnEntries
<1> USE DEF VtepTypeOK, TouchesOwnEntries
<1>o. op.cidr \in CIDR /\ op.ip \in IP
  BY OpOperands DEF AddRoute, AddArp, AddFdb, AddFailed,
                    DelRoute, DelArp, DelFdb, AddPC
<1>1. CASE AddRoute \/ DelRoute
  BY <1>o, <1>1 DEF AddRoute, DelRoute
<1>2. CASE AddArp \/ DelArp
  BY <1>o, <1>2 DEF AddArp, DelArp
<1>3. CASE AddFdb
  BY <1>o, <1>3, MACInjective, MACType DEF AddFdb
<1>4. CASE DelFdb
  BY <1>o, <1>4, MACInjective, MACType DEF DelFdb
<1>5. CASE AddFailed
  BY <1>5 DEF AddFailed, tables
<1>6. QED
  BY <1>1, <1>2, <1>3, <1>4, <1>5

\* So a call keeps the entries of every settled node but the job's.
LEMMA OthersKeepEntries ==
    ASSUME SettledInv, op # NoOp, proc = "up", TouchesOwnEntries,
           UNCHANGED <<cache, deleting>>,
           NEW m \in Live, m # job, m \notin queue
    PROVE  Programmed(m)'
<1>1. PodCIDR(m) # op.cidr /\ NodeIP(m) # op.ip
  BY DEF SettledInv, OthersQueued
<1>2. Programmed(m)
  BY DEF SettledInv, SettledNodesProgrammed, Settled
<1>3. m \in Live' /\ PodCIDR(m)' = PodCIDR(m) /\ NodeIP(m)' = NodeIP(m)
  BY DEF Live, Hybrid, Present, PodCIDR, NodeIP
<1>4. PodCIDR(m) \in CIDR /\ NodeIP(m) \in IP
  BY LiveOperands
<1>5. QED
  BY <1>1, <1>2, <1>3, <1>4 DEF Programmed, Resolves, TouchesOwnEntries

\* Every step keeps SettledInv, where addresses are not shared.
LEMMA SettledStep ==
    ASSUME ~ShareIP
    PROVE  SettledInv /\ [Next]_vars => SettledInv'
<1> SUFFICES ASSUME SettledInv, [Next]_vars PROVE SettledInv'
  OBVIOUS
<1>c. ControlInv /\ ControlInv'
  BY ControlStep DEF SettledInv
<1>v. VtepInv /\ VtepInv'
  BY NextImplementsVtepNext, VtepInvStep DEF SettledInv
<1> DEFINE Rest == NoSharing /\ OthersQueued /\ JobCurrent /\ SettledNodesProgrammed
<1>r. Rest
  BY DEF SettledInv
<1>s. SUFFICES Rest'
  BY <1>c, <1>v DEF SettledInv
<1>f. ASSUME UNCHANGED <<cache, deleting>>
      PROVE  /\ Live' = Live
             /\ Present' = Present
             /\ \A m : PodCIDR(m)' = PodCIDR(m) /\ NodeIP(m)' = NodeIP(m)
             /\ NoSharing'
  BY <1>r, <1>f DEF Live, Hybrid, Present, PodCIDR, NodeIP, NoSharing
<1>p. ASSUME UNCHANGED <<cache, deleting, vtepVars>>, NEW m \in Live, Programmed(m)
      PROVE  Programmed(m)'
  BY <1>f, <1>p DEF Programmed, Resolves, vtepVars
<1>i. op.pc = "idle" <=> op = NoOp
  BY <1>c, OpIdle DEF ControlInv, VtepTypeOK
<1>1. ASSUME NEW n \in Node, NEW o \in Objects[n], NEW dying \in BOOLEAN,
             Watch(n, o, dying)
      PROVE  Rest'
  <2>1. \A m \in Node : cache'[m] = IF m = n THEN o ELSE cache[m]
    BY <1>c, <1>1 DEF Watch, ControlInv, CtlTypeOK
  <2>2. \A m \in Node \ {n} : /\ cache'[m] = cache[m]
                              /\ m \in deleting' <=> m \in deleting
    BY <1>1, <2>1 DEF Watch
  <2>3. OthersQueued' /\ JobCurrent' /\ SettledNodesProgrammed'
    BY <1>1, <2>2, EventStep DEF Watch
  <2>4. NoSharing'
    <3> SUFFICES ASSUME NEW m \in Present', NEW k \in Present', m # k
                 PROVE  Compatible(cache'[m], cache'[k])
      BY DEF NoSharing
    <3>1. m \in Node /\ k \in Node
      BY DEF Present
    <3>2. CASE m # n /\ k # n
      BY <1>r, <2>1, <3>1, <3>2 DEF NoSharing, Present
    <3>3. CASE m = n
      BY <1>1, <2>1, <3>1, <3>3 DEF Watch, Present
    <3>4. CASE k = n
      <4>1. Compatible(o, cache[m])
        BY <1>1, <2>1, <3>1, <3>4 DEF Watch, Present
      <4>2. QED
        BY <2>1, <3>1, <3>4, <4>1 DEF Compatible
    <3>5. QED
      BY <3>2, <3>3, <3>4
  <2>5. QED
    BY <2>3, <2>4
<1>2. ASSUME NEW n \in Node, WatchDelete(n)
      PROVE  Rest'
  <2>1. \A m \in Node : cache'[m] = IF m = n THEN Nil ELSE cache[m]
    BY <1>c, <1>2 DEF WatchDelete, ControlInv, CtlTypeOK
  <2>2. \A m \in Node \ {n} : /\ cache'[m] = cache[m]
                              /\ m \in deleting' <=> m \in deleting
    BY <1>2, <2>1 DEF WatchDelete
  <2>3. OthersQueued' /\ JobCurrent' /\ SettledNodesProgrammed'
    BY <1>2, <2>2, EventStep DEF WatchDelete
  <2>4. NoSharing'
    BY <1>r, <2>1 DEF NoSharing, Present
  <2>5. QED
    BY <2>3, <2>4
<1>3. ASSUME NEW n \in Node, Take(n)
      PROVE  Rest'
  <2>1. op' = NoOp
    BY <1>c, <1>3 DEF Take, ControlInv, OpHasJob, vtepVars
  <2>2. SettledNodesProgrammed'
    BY <1>r, <1>3, <1>f, <1>p, ObjectsAssumption, LiveOperands
       DEF Take, SettledNodesProgrammed, Settled
  <2>3. QED
    BY <1>3, <1>f, <2>1, <2>2 DEF Take, OthersQueued, JobCurrent
<1>4. CASE Resync
  <2>1. OthersQueued' /\ JobCurrent'
    BY <1>r, <1>4, <1>f DEF Resync, OthersQueued, JobCurrent, vtepVars
  <2>2. SettledNodesProgrammed'
    BY <1>r, <1>4, <1>f, <1>p DEF Resync, SettledNodesProgrammed, Settled
  <2>3. QED
    BY <1>4, <1>f, <2>1, <2>2 DEF Resync
<1>5. CASE ReconcileGetError \/ ReconcileSkip \/ ReconcileReject
  <2>1. /\ UNCHANGED <<cache, deleting, vtepVars, proc>>
        /\ op' = NoOp /\ job' = Nil
        /\ queue \subseteq queue'
        /\ job \in Live => job \in queue'
    BY <1>5 DEF ReconcileGetError, ReconcileSkip, ReconcileReject, Done, Reading, Live, Hybrid, vtepVars
  <2>2. SettledNodesProgrammed'
    BY <1>r, <1>f, <1>p, <2>1 DEF SettledNodesProgrammed, Settled
  <2>3. QED
    BY <1>f, <2>1, <2>2 DEF OthersQueued, JobCurrent
<1>6. CASE ReconcileRemove \/ ReconcileAdd
  <2>1. /\ UNCHANGED <<route, arp, fdb, nodes, cache, deleting, queue, job, proc>>
        /\ job \in Present /\ Usable(cache[job])
        /\ op'.cidr = PodCIDR(job) /\ op'.ip = NodeIP(job)
        /\ job \in Live => op'.pc \in AddPC
    BY <1>6 DEF ReconcileRemove, ReconcileAdd, BeginRemove, BeginAdd, AddPC,
                ctlVars, tables, Live, Hybrid
  <2>2. OthersQueued'
    <3> SUFFICES ASSUME NEW m \in Live', m # job,
                        PodCIDR(m)' = op'.cidr \/ NodeIP(m)' = op'.ip
                 PROVE  FALSE
      BY <2>1 DEF OthersQueued
    <3>1. m \in Live /\ m \in Present /\ Usable(cache[m])
      BY <1>f, <2>1 DEF Live, Hybrid
    <3>2. Compatible(cache[m], cache[job])
      BY <1>r, <2>1, <3>1 DEF NoSharing
    <3>3. PodCIDR(m) = PodCIDR(job) \/ NodeIP(m) = NodeIP(job)
      BY <1>f, <2>1
    <3>4. QED
      BY <3>1, <3>2, <3>3 DEF Compatible, Usable, PodCIDR, NodeIP
  <2>3. JobCurrent'
    BY <1>f, <2>1 DEF JobCurrent
  <2>4. SettledNodesProgrammed'
    BY <1>r, <1>f, <2>1 DEF SettledNodesProgrammed, Settled, Programmed, Resolves
  <2>5. QED
    BY <1>f, <2>1, <2>2, <2>3, <2>4
<1>7. CASE Netlink
  <2>1. op # NoOp /\ proc = "up" /\ TouchesOwnEntries
    BY <1>c, <1>7, VtepStepHasJob, CallsTouchOwnEntries DEF Netlink, ControlInv
  <2>2. UNCHANGED <<cache, deleting, queue, job, proc>>
    BY <1>7 DEF Netlink, ctlVars
  <2>3. /\ op'.cidr = op.cidr /\ op'.ip = op.ip
        /\ op.pc \in AddPC <=> op'.pc \in AddPC
    BY <1>c, <1>7, OpOperands DEF Netlink, AddRoute, AddArp, DelRoute, DelArp, AddPC,
                      RemovePC, ControlInv, VtepTypeOK
  <2>4. OthersQueued' /\ JobCurrent'
    BY <1>r, <1>f, <2>1, <2>2, <2>3 DEF OthersQueued, JobCurrent
  <2>5. SettledNodesProgrammed'
    BY <1>f, <2>1, <2>2, OthersKeepEntries DEF SettledNodesProgrammed, Settled
  <2>6. QED
    BY <1>f, <2>2, <2>4, <2>5
<1>8. CASE ReconcileAdded \/ ReconcileRemoved \/ ReconcileAddError
  <2>1. op # NoOp /\ proc = "up" /\ TouchesOwnEntries
    BY <1>c, <1>8, VtepStepHasJob, CallsTouchOwnEntries
       DEF ReconcileAdded, ReconcileRemoved, ReconcileAddError, ControlInv
  <2>2. /\ UNCHANGED <<cache, deleting, proc>>
        /\ queue \subseteq queue' /\ job' = Nil /\ op' = NoOp
    BY <1>8 DEF ReconcileAdded, ReconcileRemoved, ReconcileAddError, Done,
                AddFdb, DelFdb, AddFailed
  <2>3. ASSUME NEW m \in Live, m = job, m \notin queue'
        PROVE  Programmed(m)'
    <3>1. /\ m \notin queue
          /\ op.pc \in AddPC /\ op.cidr = PodCIDR(m) /\ op.ip = NodeIP(m)
      BY <1>r, <2>1, <2>2, <2>3 DEF JobCurrent
    <3>2. AddFdb
      BY <1>8, <2>3, <3>1 DEF ReconcileAdded, ReconcileRemoved, ReconcileAddError,
                              Done, DelFdb, AddPC
    <3>3. route'[op.cidr] = op.ip /\ arp'[op.ip] = generateMACFromIP(op.ip)
      BY <1>v, <3>2 DEF VtepInv, AddWrote, AddFdb
    <3>4. fdb'[generateMACFromIP(op.ip)] = op.ip /\ op.ip \in nodes'
      BY <1>c, <2>3, <3>1, <3>2, LiveOperands, MACType
         DEF AddFdb, ControlInv, VtepTypeOK
    <3>5. QED
      BY <1>f, <2>2, <2>3, <3>1, <3>3, <3>4 DEF Programmed, Resolves
  <2>4. SettledNodesProgrammed'
    <3> SUFFICES ASSUME NEW m \in Live, m \notin queue'
                 PROVE  Programmed(m)'
      BY <1>f, <2>2 DEF SettledNodesProgrammed, Settled
    <3>1. QED
      BY <2>1, <2>2, <2>3, OthersKeepEntries
  <2>5. QED
    BY <1>f, <2>2, <2>4 DEF OthersQueued, JobCurrent
<1>9. CASE Start
  <2>1. op' = NoOp /\ queue' = Present /\ UNCHANGED <<cache, deleting>>
    BY <1>9 DEF Start, InterfaceReset, LoseMemory
  <2>2. \A m \in Live' : m \in queue'
    BY <1>f, <2>1 DEF Live, Hybrid
  <2>3. QED
    BY <1>f, <2>1, <2>2
       DEF OthersQueued, JobCurrent, SettledNodesProgrammed, Settled
<1>10. CASE StartFails \/ Exit \/ Terminate
  <2>1. op' = NoOp /\ proc' = "down" /\ UNCHANGED <<cache, deleting>>
    BY <1>10 DEF StartFails, Exit, Terminate, Stop, ctlVars,
                 InterfaceReset, ProcessExit, LoseMemory
  <2>2. QED
    BY <1>f, <2>1 DEF OthersQueued, JobCurrent, SettledNodesProgrammed
<1>11. CASE UNCHANGED vars
  <2>1. /\ UNCHANGED <<cache, deleting, vtepVars>>
        /\ UNCHANGED <<op, queue, job, proc>>
    BY <1>11 DEF vars, vtepVars
  <2>2. SettledNodesProgrammed'
    BY <1>r, <1>f, <1>p, <2>1 DEF SettledNodesProgrammed, Settled
  <2>3. QED
    BY <1>r, <1>f, <2>1, <2>2 DEF OthersQueued, JobCurrent
<1>12. QED
  BY <1>1, <1>2, <1>3, <1>4, <1>5, <1>6, <1>7, <1>8, <1>9, <1>10, <1>11 DEF Next

\* Where no two CiliumNodes name one address at a time, no live hybrid node
\* that the reconciler is done with lacks its route, its ARP entry, its FDB
\* entry or its place in the gauge.
THEOREM SettledNodesAlwaysProgrammed ==
    ASSUME ~ShareIP
    PROVE  Spec => []SettledNodesProgrammed
<1>1. SettledInv => SettledNodesProgrammed
  BY DEF SettledInv
<1>2. SettledInv /\ [Next]_vars => SettledInv'
  BY SettledStep
<1>3. QED
  BY <1>1, <1>2, SettledInit, PTL DEF Spec

-----------------------------------------------------------------------------
(***************************************************************************)
(* The reconciler implements Tunnels.  Of the invariant only the types and *)
(* NoSharing are needed: a call that begins names nobody else's CIDR or    *)
(* address, and whoever takes one of them over later is not served until   *)
(* the call has ended.                                                     *)
(***************************************************************************)

LiveNodesAsk == Live = {n \in Node : Demand(n) # Nil}

\* The nodes that ask for something are the live ones.
LEMMA LiveDemand == LiveNodesAsk
  BY LiveOperands, ObjectsAssumption DEF LiveNodesAsk, Demand

\* Served nodes are live, in a gateway that is up.
LEMMA ServedLive == Served \subseteq T!Wanted /\ (proc # "up" => Served = {})
  BY LiveDemand, LiveOperands DEF LiveNodesAsk, Served, T!Wanted, Demands

\* Steps that change neither CiliumNodes nor entries nor the call in progress.
LEMMA NothingMoves ==
    ASSUME UNCHANGED <<cache, deleting, vtepVars, proc>>, op # NoOp => job' = job
    PROVE  UNCHANGED T!tunnelVars
<1>1. UNCHANGED <<route, arp, fdb, nodes, op>>
  BY DEF vtepVars
<1>2. /\ Live' = Live
      /\ \A n : PodCIDR(n)' = PodCIDR(n) /\ NodeIP(n)' = NodeIP(n)
  BY DEF Live, Hybrid, Present, PodCIDR, NodeIP
<1>3. Demands' = Demands
  BY <1>2 DEF Demands, Demand
<1>4. \A n \in Live : /\ Programmed(n)' <=> Programmed(n)
                      /\ Threatened(n)' <=> Threatened(n)
  BY <1>1, <1>2 DEF Programmed, Resolves, Threatened
<1>5. Served' = Served
  BY <1>2, <1>4 DEF Served
<1>6. QED
  BY <1>3, <1>5 DEF T!tunnelVars

\* An event about node n is a change of what n asks for, or nothing.
LEMMA EventChanges ==
    ASSUME ControlInv, NEW n \in Node,
           UNCHANGED <<vtepVars, job, proc>>,
           \A m \in Node \ {n} : /\ cache'[m] = cache[m]
                                 /\ m \in deleting' <=> m \in deleting
    PROVE  T!Change(n) \/ UNCHANGED T!tunnelVars
<1>1. UNCHANGED <<route, arp, fdb, nodes, op, job, proc>>
  BY DEF vtepVars
<1>2. \A m \in Node \ {n} : /\ m \in Live' <=> m \in Live
                            /\ PodCIDR(m)' = PodCIDR(m) /\ NodeIP(m)' = NodeIP(m)
  BY DEF Live, Hybrid, Present, PodCIDR, NodeIP
<1>3. \A m \in Node \ {n} : Demand(m)' = Demand(m)
  BY <1>2 DEF Demand
<1>4. \A m \in Node \ {n} : m \in Served' <=> m \in Served
  BY <1>1, <1>2 DEF Served, Programmed, Resolves, Threatened
<1>5. Served \subseteq Node /\ Served' \subseteq Node
  BY DEF Served, Live, Hybrid, Present
<1>6. CASE Demand(n)' = Demand(n)
  <2>1. n \in Live' <=> n \in Live
    <3>1. LiveNodesAsk /\ LiveNodesAsk'
      BY LiveDemand, PTL
    <3>2. QED
      BY <1>6, <3>1 DEF LiveNodesAsk
  <2>2. n \in Live => PodCIDR(n)' = PodCIDR(n) /\ NodeIP(n)' = NodeIP(n)
    BY <1>6, <2>1 DEF Demand
  <2>3. n \in Served' <=> n \in Served
    BY <1>1, <2>1, <2>2 DEF Served, Programmed, Resolves, Threatened
  <2>4. Served' = Served
    BY <1>4, <1>5, <2>3
  <2>5. Demands' = Demands
    BY <1>3, <1>6 DEF Demands
  <2>6. QED
    BY <1>1, <2>4, <2>5 DEF T!tunnelVars
<1>7. CASE Demand(n)' # Demand(n)
  <2>1. Demands'[n] # Demands[n] /\ \A m \in Node \ {n} : Demands'[m] = Demands[m]
    BY <1>3, <1>7 DEF Demands
  <2>2. Served' \ {n} = Served \ {n}
    BY <1>4, <1>5
  <2>3. /\ Served' \subseteq {m \in Node : Demands'[m] # Nil}
        /\ proc = "up" \/ Served' = {}
    <3>1. (Served \subseteq T!Wanted /\ (proc # "up" => Served = {}))'
      BY ServedLive, PTL
    <3>2. QED
      BY <1>1, <3>1 DEF T!Wanted
  <2>4. QED
    BY <1>1, <2>1, <2>2, <2>3 DEF T!Change
<1>8. QED
  BY <1>6, <1>7

\* No call touches the entries of a served node, but to write them again.
LEMMA CallsKeepServed ==
    ASSUME ControlInv, NEW n \in Served,
           \/ AddRoute \/ AddArp \/ AddFdb \/ AddFailed
           \/ DelRoute \/ DelArp \/ DelFdb,
           UNCHANGED <<cache, deleting, proc>>
    PROVE  n \in Live' /\ Programmed(n)'
<1>1. n \in Live /\ Programmed(n) /\ ~Threatened(n)
  BY DEF Served
<1>2. n \in Live' /\ PodCIDR(n)' = PodCIDR(n) /\ NodeIP(n)' = NodeIP(n)
  BY <1>1 DEF Live, Hybrid, Present, PodCIDR, NodeIP
<1>3. n \in Node /\ PodCIDR(n) \in CIDR /\ NodeIP(n) \in IP
  BY <1>1, LiveOperands
<1>4. op # NoOp /\ TouchesOwnEntries
  BY VtepStepHasJob, CallsTouchOwnEntries DEF ControlInv
<1>5. CASE job # n
  <2>1. PodCIDR(n) # op.cidr /\ NodeIP(n) # op.ip
    BY <1>1, <1>4, <1>5 DEF Threatened
  <2>2. QED
    BY <1>1, <1>2, <1>3, <1>4, <2>1 DEF Programmed, Resolves, TouchesOwnEntries
<1>6. CASE job = n
  <2>1. op.pc \in AddPC /\ op.cidr = PodCIDR(n) /\ op.ip = NodeIP(n)
    BY <1>1, <1>4, <1>6 DEF Threatened
  <2>2. AddRoute \/ AddArp \/ AddFdb \/ AddFailed
    BY <2>1 DEF DelRoute, DelArp, DelFdb, AddPC
  <2>3. /\ route'[PodCIDR(n)] = NodeIP(n)
        /\ arp'[NodeIP(n)] = generateMACFromIP(NodeIP(n))
        /\ fdb'[generateMACFromIP(NodeIP(n))] = NodeIP(n)
        /\ NodeIP(n) \in nodes'
    BY <1>1, <1>3, <2>1, <2>2, MACType
       DEF Programmed, Resolves, AddRoute, AddArp, AddFdb, AddFailed, tables,
           ControlInv, VtepTypeOK
  <2>4. QED
    BY <1>1, <1>2, <2>3 DEF Programmed, Resolves
<1>7. QED
  BY <1>5, <1>6

\* So a step of a call, its last one or another, is a step of Tunnels.
LEMMA CallServes ==
    ASSUME ControlInv,
           \/ AddRoute \/ AddArp \/ AddFdb \/ AddFailed
           \/ DelRoute \/ DelArp \/ DelFdb,
           UNCHANGED <<cache, deleting, proc>>,
           \A n \in Served : ~Threatened(n)'
    PROVE  T!Serve
<1>1. proc = "up"
  BY VtepStepHasJob
<1>2. Served \subseteq Served'
  BY <1>1, CallsKeepServed DEF Served
<1>3. Demands' = Demands
  BY DEF Demands, Demand, Live, Hybrid, Present, PodCIDR, NodeIP
<1>4. (Served \subseteq T!Wanted /\ (proc # "up" => Served = {}))'
  BY ServedLive, PTL
<1>5. T!Wanted' = T!Wanted
  BY <1>3 DEF T!Wanted
<1>6. QED
  BY <1>1, <1>2, <1>3, <1>4, <1>5 DEF T!Serve

\* Every step of the reconciler is a step of Tunnels, or none.
LEMMA TunnelsStep ==
    ASSUME ~ShareIP
    PROVE  SettledInv /\ [Next]_vars => [T!Next]_(T!tunnelVars)
<1> SUFFICES ASSUME SettledInv, [Next]_vars PROVE [T!Next]_(T!tunnelVars)
  OBVIOUS
<1>c. ControlInv /\ NoSharing
  BY DEF SettledInv
<1>1. ASSUME NEW n \in Node, NEW o \in Objects[n], NEW dying \in BOOLEAN,
             Watch(n, o, dying)
      PROVE  [T!Next]_(T!tunnelVars)
  <2>1. \A m \in Node \ {n} : /\ cache'[m] = cache[m]
                              /\ m \in deleting' <=> m \in deleting
    BY <1>c, <1>1 DEF Watch, ControlInv, CtlTypeOK
  <2>2. QED
    BY <1>c, <1>1, <2>1, EventChanges DEF Watch, T!Next
<1>2. ASSUME NEW n \in Node, WatchDelete(n)
      PROVE  [T!Next]_(T!tunnelVars)
  <2>1. \A m \in Node \ {n} : /\ cache'[m] = cache[m]
                              /\ m \in deleting' <=> m \in deleting
    BY <1>c, <1>2 DEF WatchDelete, ControlInv, CtlTypeOK
  <2>2. QED
    BY <1>c, <1>2, <2>1, EventChanges DEF WatchDelete, T!Next
<1>3. ASSUME NEW n \in Node, Take(n)
      PROVE  UNCHANGED T!tunnelVars
  BY <1>c, <1>3, NothingMoves DEF Take, ControlInv, OpHasJob
<1>4. CASE Resync
  BY <1>4, NothingMoves DEF Resync
<1>5. CASE ReconcileGetError \/ ReconcileSkip \/ ReconcileReject
  BY <1>5, NothingMoves DEF ReconcileGetError, ReconcileSkip, ReconcileReject, Reading, Done
<1>6. CASE ReconcileRemove \/ ReconcileAdd
  <2>1. /\ UNCHANGED <<route, arp, fdb, nodes, cache, deleting, queue, job, proc>>
        /\ op = NoOp
        /\ job \in Present /\ Usable(cache[job])
        /\ op'.cidr = PodCIDR(job) /\ op'.ip = NodeIP(job)
        /\ job \in Live => op'.pc \in AddPC
    BY <1>6 DEF ReconcileRemove, ReconcileAdd, BeginRemove, BeginAdd, AddPC,
                ctlVars, tables, Live, Hybrid, Reading
  <2>2. /\ Live' = Live
        /\ \A n : PodCIDR(n)' = PodCIDR(n) /\ NodeIP(n)' = NodeIP(n)
    BY <2>1 DEF Live, Hybrid, Present, PodCIDR, NodeIP
  <2>3. Demands' = Demands
    BY <2>2 DEF Demands, Demand
  <2>4. ASSUME NEW n \in Live
        PROVE  ~Threatened(n) /\ ~Threatened(n)'
    <3>1. ~Threatened(n)
      BY <2>1 DEF Threatened
    <3>2. CASE n = job
      BY <2>1, <2>2, <3>1, <3>2 DEF Threatened
    <3>3. CASE n # job
      <4>1. n \in Present /\ Usable(cache[n])
        BY DEF Live, Hybrid
      <4>2. Compatible(cache[n], cache[job])
        BY <1>c, <2>1, <3>3, <4>1 DEF NoSharing
      <4>3. PodCIDR(n) # PodCIDR(job)
        BY <4>1, <4>2 DEF Compatible, Usable, PodCIDR
      <4>4. NodeIP(n) # NodeIP(job)
        BY <4>1, <4>2 DEF Compatible, Usable, NodeIP
      <4>5. QED
        BY <2>1, <2>2, <3>1, <3>3, <4>3, <4>4 DEF Threatened
    <3>4. QED
      BY <3>2, <3>3
  <2>5. Served' = Served
    BY <2>1, <2>2, <2>4 DEF Served, Programmed, Resolves
  <2>6. QED
    BY <2>1, <2>3, <2>5 DEF T!tunnelVars
<1>7. CASE Netlink
  <2>1. UNCHANGED <<cache, deleting, job, proc>>
    BY <1>7 DEF Netlink, ctlVars
  <2>2. /\ op # NoOp
        /\ op'.cidr = op.cidr /\ op'.ip = op.ip
        /\ op.pc \in AddPC <=> op'.pc \in AddPC
    BY <1>c, <1>7, VtepStepHasJob, OpOperands
       DEF Netlink, AddRoute, AddArp, DelRoute, DelArp, AddPC,
           RemovePC, ControlInv, VtepTypeOK
  <2>3. \A n \in Served : ~Threatened(n)'
    BY <2>1, <2>2 DEF Served, Threatened, PodCIDR, NodeIP
  <2>4. QED
    BY <1>c, <1>7, <2>1, <2>3, CallServes DEF Netlink, T!Next
<1>8. CASE ReconcileAdded \/ ReconcileRemoved \/ ReconcileAddError
  <2>1. op' = NoOp /\ UNCHANGED <<cache, deleting, proc>>
    BY <1>8 DEF ReconcileAdded, ReconcileRemoved, ReconcileAddError, Done,
                AddFdb, DelFdb, AddFailed
  <2>2. \A n \in Served : ~Threatened(n)'
    BY <2>1 DEF Threatened
  <2>3. QED
    BY <1>c, <1>8, <2>1, <2>2, CallServes
       DEF ReconcileAdded, ReconcileRemoved, ReconcileAddError, T!Next
<1>9. CASE Start
  <2>1. proc = "down" /\ proc' = "up" /\ route' = NoRoutes
        /\ UNCHANGED <<cache, deleting>>
    BY <1>9 DEF Start, InterfaceReset, ClearTables
  <2>2. /\ Live' = Live
        /\ \A n : PodCIDR(n)' = PodCIDR(n) /\ NodeIP(n)' = NodeIP(n)
    BY <2>1 DEF Live, Hybrid, Present, PodCIDR, NodeIP
  <2>3. Demands' = Demands
    BY <2>2 DEF Demands, Demand
  <2>4. Served' = {}
    BY <2>1, <2>2, LiveOperands, NilAssumption DEF Served, Programmed, NoRoutes
  <2>5. QED
    BY <2>1, <2>3, <2>4 DEF T!Restart, T!Next
<1>10. CASE StartFails
  <2>1. proc = "down" /\ UNCHANGED <<cache, deleting, proc>>
    BY <1>10 DEF StartFails, ctlVars
  <2>2. Demands' = Demands
    BY <2>1 DEF Demands, Demand, Live, Hybrid, Present, PodCIDR, NodeIP
  <2>3. Served = {} /\ Served' = {}
    BY <2>1 DEF Served
  <2>4. QED
    BY <2>1, <2>2, <2>3 DEF T!tunnelVars
<1>11. CASE Exit \/ Terminate
  <2>1. proc = "up" /\ proc' = "down" /\ UNCHANGED <<cache, deleting>>
    BY <1>11 DEF Exit, Terminate, Stop
  <2>2. Demands' = Demands
    BY <2>1 DEF Demands, Demand, Live, Hybrid, Present, PodCIDR, NodeIP
  <2>3. Served' = {}
    BY <2>1 DEF Served
  <2>4. QED
    BY <2>1, <2>2, <2>3 DEF T!Restart, T!Next
<1>12. CASE UNCHANGED vars
  BY <1>12, NothingMoves DEF vars, vtepVars
<1>13. QED
  BY <1>1, <1>2, <1>3, <1>4, <1>5, <1>6, <1>7, <1>8, <1>9, <1>10, <1>11, <1>12
     DEF Next

\* For any set of nodes, where no two CiliumNodes name one address at a time:
\* a node whose traffic reaches it stays served until its CiliumNode changes
\* or the process ends.
THEOREM ServiceIsAlwaysKept ==
    ASSUME ~ShareIP
    PROVE  Spec => ServiceIsKept
<1>1. Init => T!Init
  <2> SUFFICES ASSUME Init PROVE T!Init
    OBVIOUS
  <2>1. Live = {} /\ proc = "down"
    BY DEF Init, Live, Hybrid, Present
  <2>2. QED
    BY <2>1 DEF T!Init, Demands, Demand, Served
<1>2. SettledInv /\ [Next]_vars => SettledInv'
  BY SettledStep
<1>3. SettledInv /\ [Next]_vars => [T!Next]_(T!tunnelVars)
  BY TunnelsStep
<1>4. QED
  BY <1>1, <1>2, <1>3, SettledInit, PTL DEF Spec, ServiceIsKept, T!Spec

-----------------------------------------------------------------------------
(* The life of the process.                                                 *)

\* A step in which the gateway neither starts nor ends: entries are written or
\* deleted only while it runs.
LEMMA ProcessGoesOn ==
    ASSUME proc \in {"up", "down"}, proc' = proc, proc = "down" => UNCHANGED tables
    PROVE  [P!Next]_(P!processVars)
<1>1. CASE proc = "down"
  <2>1. Entries' = Entries
    BY <1>1 DEF Entries, TablesEmpty, tables
  <2>2. QED
    BY <2>1 DEF P!processVars
<1>2. CASE proc = "up"
  <2>1. Entries' \in {"none", "own"}
    BY <1>2 DEF Entries
  <2>2. QED
    BY <1>2, <2>1 DEF P!Next, P!Program
<1>3. QED
  BY <1>1, <1>2

\* The reconciler implements Process, as Startup does: a gateway runs on an
\* interface on which it found no entry, no entry is written or deleted when
\* none runs but by Interface.Setup, and a crash leaves the entries that
\* the next start deletes.
THEOREM ImplementsProcess == Spec => P!Spec
<1>1. Init => P!Init
  BY DEF Init, VtepInit, Entries, P!Init
<1>2. ControlInv /\ [Next]_vars => [P!Next]_(P!processVars)
  <2> SUFFICES ASSUME ControlInv, [Next]_vars PROVE [P!Next]_(P!processVars)
    OBVIOUS
  <2>p. proc \in {"up", "down"}
    BY DEF ControlInv, CtlTypeOK
  <2>r. InterfaceReset => Entries' = "none"
    BY DEF InterfaceReset, ClearTables, Entries, TablesEmpty
  <2>1. ASSUME NEW n \in Node, NEW o \in Objects[n], NEW dying \in BOOLEAN,
               Watch(n, o, dying)
        PROVE  [P!Next]_(P!processVars)
    BY <2>p, <2>1, ProcessGoesOn DEF Watch, vtepVars, tables
  <2>2. ASSUME NEW n \in Node, WatchDelete(n) \/ Take(n)
        PROVE  [P!Next]_(P!processVars)
    BY <2>p, <2>2, ProcessGoesOn DEF WatchDelete, Take, vtepVars, tables
  <2>3. CASE Resync \/ ReconcileGetError \/ ReconcileSkip \/ ReconcileReject
    BY <2>p, <2>3, ProcessGoesOn
       DEF Resync, ReconcileGetError, ReconcileSkip, ReconcileReject, Done, vtepVars, tables
  <2>4. CASE ReconcileRemove \/ ReconcileAdd
    BY <2>p, <2>4, ProcessGoesOn
       DEF ReconcileRemove, ReconcileAdd, BeginAdd, BeginRemove, ctlVars
  <2>5. CASE Netlink
    BY <2>p, <2>5, ProcessGoesOn, VtepStepHasJob DEF Netlink, ctlVars
  <2>6. CASE ReconcileAdded \/ ReconcileRemoved \/ ReconcileAddError
    BY <2>p, <2>6, ProcessGoesOn, VtepStepHasJob
       DEF ReconcileAdded, ReconcileRemoved, ReconcileAddError, Done
  <2>7. CASE Start
    BY <2>7, <2>r DEF Start, P!Next, P!Start
  <2>8. CASE StartFails
    BY <2>8, <2>r DEF StartFails, ctlVars, P!Next, P!StartFails
  <2>9. CASE Exit
    <3>1. proc = "up" /\ proc' = "down" /\ UNCHANGED tables
      BY <2>9 DEF Exit, Stop, ProcessExit
    <3>2. Entries' = IF Entries = "own" THEN "old" ELSE Entries
      BY <3>1 DEF Entries, TablesEmpty, tables
    <3>3. QED
      BY <3>1, <3>2 DEF P!Next, P!Exit
  <2>10. CASE Terminate
    BY <2>10, <2>r DEF Terminate, Stop, P!Next, P!Terminate
  <2>11. CASE UNCHANGED vars
    BY <2>p, <2>11, ProcessGoesOn DEF vars, tables
  <2>12. QED
    BY <2>1, <2>2, <2>3, <2>4, <2>5, <2>6, <2>7, <2>8, <2>9, <2>10, <2>11 DEF Next
<1>3. QED
  BY <1>1, <1>2, ControlInit, ControlStep, PTL DEF Spec, P!Spec
=============================================================================
