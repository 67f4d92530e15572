----------------------------- MODULE VtepProofs -----------------------------
(***************************************************************************)
(* Theorems about Vtep, for every set of addresses and of CIDRs.           *)
(***************************************************************************)
EXTENDS Vtep, TLAPS

\* Two addresses never share a MAC: generateMACFromIP keeps all of the address.
LEMMA MACInjective ==
    \A i, j : generateMACFromIP(i) = generateMACFromIP(j) => i = j
  BY DEF generateMACFromIP

\* generateMACFromIP of an address is one of the MACs the FDB is keyed by.
LEMMA MACType == \A i \in IP : generateMACFromIP(i) \in MAC
  BY DEF MAC

\* An operation in progress has its operands.
LEMMA OpOperands ==
    ASSUME op \in Op, op.pc # "idle"
    PROVE  op \in [pc : AddPC \cup RemovePC, cidr : CIDR, ip : IP]
  BY DEF Op, NoOp

\* The only operation at "idle" is none: the program counter says whether
\* AddRemoteNode or RemoveRemoteNode is running.
LEMMA OpIdle ==
    ASSUME op \in Op
    PROVE  op.pc = "idle" <=> op = NoOp
  BY DEF Op, NoOp, AddPC, RemovePC

\* Every netlink call and every end of the process keeps the types.
LEMMA VtepTypeStep == VtepTypeOK /\ [VtepNext]_vtepVars => VtepTypeOK'
<1> SUFFICES ASSUME VtepTypeOK, [VtepNext]_vtepVars PROVE VtepTypeOK'
  OBVIOUS
<1> USE DEF VtepTypeOK
<1>0. op.pc \in AddPC \cup RemovePC =>
          op \in [pc : AddPC \cup RemovePC, cidr : CIDR, ip : IP]
  BY OpOperands DEF AddPC, RemovePC
<1>1. ASSUME NEW c \in CIDR, NEW i \in IP, BeginAdd(c, i) \/ BeginRemove(c, i)
      PROVE  VtepTypeOK'
  BY <1>1 DEF BeginAdd, BeginRemove, Op, AddPC, RemovePC, tables
<1>2. CASE AddRoute
  BY <1>0, <1>2 DEF AddRoute, Op, AddPC, RemovePC
<1>3. CASE AddArp
  BY <1>0, <1>3, MACType DEF AddArp, Op, AddPC, RemovePC
<1>4. CASE AddFdb
  BY <1>0, <1>4, MACType DEF AddFdb, Op, AddPC, RemovePC
<1>5. CASE AddFailed
  BY <1>5 DEF AddFailed, Op, tables
<1>6. CASE DelRoute
  BY <1>0, <1>6 DEF DelRoute, Op, AddPC, RemovePC
<1>7. CASE DelArp
  BY <1>0, <1>7 DEF DelArp, Op, AddPC, RemovePC
<1>8. CASE DelFdb
  BY <1>0, <1>8, MACType DEF DelFdb, Op, AddPC, RemovePC
<1>9. CASE ProcessExit
  BY <1>9 DEF ProcessExit, LoseMemory, Op, tables
<1>10. CASE InterfaceReset
  BY <1>10 DEF InterfaceReset, LoseMemory, ClearTables, NoRoutes, NoArp, NoFdb, Op
<1>11. CASE UNCHANGED vtepVars
  BY <1>11 DEF vtepVars
<1>12. QED
  BY <1>1, <1>2, <1>3, <1>4, <1>5, <1>6, <1>7, <1>8, <1>9, <1>10, <1>11 DEF VtepNext

\* The types hold before the first operation.
LEMMA VtepTypeInit == VtepInit => VtepTypeOK
  BY DEF VtepInit, VtepTypeOK, TablesEmpty, NoRoutes, NoArp, NoFdb, Op

\* The values of the tables, the gauge's set and the operation in progress.
THEOREM VtepTypeCorrect == VtepSpec => []VtepTypeOK
  BY VtepTypeInit, VtepTypeStep, PTL DEF VtepSpec

-----------------------------------------------------------------------------
(* What AddRemoteNode has written when it reaches its next netlink call.    *)

AddWrote ==
    /\ op.pc \in {"arp", "fdb"} => route[op.cidr] = op.ip
    /\ op.pc = "fdb" => arp[op.ip] = generateMACFromIP(op.ip)

VtepInv == VtepTypeOK /\ AddWrote /\ CountedNodesResolve

\* Each netlink call keeps VtepInv.
LEMMA VtepInvStep == VtepInv /\ [VtepNext]_vtepVars => VtepInv'
<1> SUFFICES ASSUME VtepInv, [VtepNext]_vtepVars PROVE VtepInv'
  OBVIOUS
<1> USE DEF VtepInv, AddWrote, CountedNodesResolve, Resolves, NoOp
<1>t. VtepTypeOK /\ VtepTypeOK'
  BY VtepTypeStep
<1>o. op.pc \in AddPC \cup RemovePC => op.cidr \in CIDR /\ op.ip \in IP
  BY <1>t, OpOperands DEF VtepTypeOK, AddPC, RemovePC
<1>m. \A i \in nodes : i \in IP /\ generateMACFromIP(i) \in MAC
  BY <1>t, MACType DEF VtepTypeOK
<1>1. ASSUME NEW c \in CIDR, NEW i \in IP, BeginAdd(c, i) \/ BeginRemove(c, i)
      PROVE  VtepInv'
  BY <1>t, <1>1 DEF BeginAdd, BeginRemove, tables, AddPC, RemovePC
<1>2. CASE AddRoute
  BY <1>t, <1>o, <1>2 DEF AddRoute, AddPC, RemovePC, VtepTypeOK
<1>3. CASE AddArp
  BY <1>t, <1>o, <1>m, <1>3 DEF AddArp, AddPC, RemovePC, VtepTypeOK
<1>4. CASE AddFdb
  BY <1>t, <1>o, <1>m, <1>4, MACInjective, MACType
     DEF AddFdb, AddPC, RemovePC, VtepTypeOK
<1>5. CASE AddFailed
  BY <1>t, <1>5 DEF AddFailed, tables, AddPC, RemovePC
<1>6. CASE DelRoute
  BY <1>t, <1>o, <1>6 DEF DelRoute, AddPC, RemovePC, VtepTypeOK
<1>7. CASE DelArp
  BY <1>t, <1>o, <1>m, <1>7 DEF DelArp, AddPC, RemovePC, VtepTypeOK
<1>8. CASE DelFdb
  BY <1>t, <1>o, <1>m, <1>8, MACInjective, MACType
     DEF DelFdb, AddPC, RemovePC, VtepTypeOK
<1>9. CASE ProcessExit
  BY <1>t, <1>9 DEF ProcessExit, LoseMemory, tables
<1>10. CASE InterfaceReset
  BY <1>t, <1>10 DEF InterfaceReset, LoseMemory
<1>11. CASE UNCHANGED vtepVars
  BY <1>t, <1>11 DEF vtepVars
<1>12. QED
  BY <1>1, <1>2, <1>3, <1>4, <1>5, <1>6, <1>7, <1>8, <1>9, <1>10, <1>11 DEF VtepNext

\* Every address the gauge counts has both its ARP and its FDB entry, unless
\* a removal is working on it: whoever calls AddRemoteNode and
\* RemoveRemoteNode one at a time, and whichever netlink calls fail.
THEOREM CountedNodesAlwaysResolve == VtepSpec => []CountedNodesResolve
<1>1. VtepInit => VtepInv
  BY VtepTypeInit DEF VtepInv, VtepInit, AddWrote, CountedNodesResolve, NoOp
<1>2. VtepInv => CountedNodesResolve
  BY DEF VtepInv
<1>3. QED
  BY <1>1, <1>2, VtepInvStep, PTL DEF VtepSpec
=============================================================================
