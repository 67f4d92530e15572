-------------------------------- MODULE Vtep --------------------------------
(***************************************************************************)
(* The tunnel entries one gateway keeps for its remote hybrid nodes:       *)
(* internal/vxlan/vtep.go, with the kernel tables behind the VXLAN         *)
(* interface it programs through netlink.                                  *)
(*                                                                         *)
(* AddRemoteNode and RemoveRemoteNode are sequences of three netlink calls,*)
(* each of which may fail, and each of which other goroutines, the kernel's*)
(* forwarding path or the death of the process can observe.  So one call   *)
(* of either is an operation `op' that moves from one netlink call to the  *)
(* next.  The caller is arbitrary in this module; NodeReconciler composes  *)
(* it with the controller that really calls it.                            *)
(***************************************************************************)

CONSTANTS IP,       \* node addresses net.ParseIP accepts (IPv4)
          CIDR,     \* pod CIDRs net.ParseCIDR accepts
          Nil       \* no entry, no operand

ASSUME NilAssumption == Nil \notin IP /\ Nil \notin CIDR

VARIABLES
    route,  \* kernel routes on the interface: pod CIDR -> next hop
    arp,    \* static ARP entries: next hop -> MAC
    fdb,    \* forwarding database: MAC -> tunnel endpoint
    nodes,  \* VTEP.nodes, the addresses the gauge HybridNodesConfigured counts
    op      \* the AddRemoteNode or RemoveRemoteNode call in progress

tables == <<route, arp, fdb>>
vtepVars == <<route, arp, fdb, nodes, op>>

\* generateMACFromIP: 02:00 followed by the four octets of the address.
generateMACFromIP(ip) == <<2, 0, ip>>

MAC == {generateMACFromIP(ip) : ip \in IP}

AddPC == {"route", "arp", "fdb"}
RemovePC == {"delRoute", "delArp", "delFdb"}

NoOp == [pc |-> "idle", cidr |-> Nil, ip |-> Nil]
Op == {NoOp} \cup [pc : AddPC \cup RemovePC, cidr : CIDR, ip : IP]

NoRoutes == [c \in CIDR |-> Nil]
NoArp == [ip \in IP |-> Nil]
NoFdb == [m \in MAC |-> Nil]

TablesEmpty == route = NoRoutes /\ arp = NoArp /\ fdb = NoFdb

VtepInit ==
    /\ TablesEmpty
    /\ nodes = {}
    /\ op = NoOp

-----------------------------------------------------------------------------
(* AddRemoteNode.  The first call that fails returns its error and leaves   *)
(* what the earlier calls wrote.                                            *)

BeginAdd(cidr, ip) ==
    /\ op = NoOp
    /\ op' = [pc |-> "route", cidr |-> cidr, ip |-> ip]
    /\ UNCHANGED <<tables, nodes>>

AddRoute ==
    /\ op.pc = "route"
    /\ route' = [route EXCEPT ![op.cidr] = op.ip]
    /\ op' = [op EXCEPT !.pc = "arp"]
    /\ UNCHANGED <<arp, fdb, nodes>>

\* Mutant: the node is counted before its forwarding entry is written.
CountBeforeFdb ==
    /\ op.pc = "arp"
    /\ arp' = [arp EXCEPT ![op.ip] = generateMACFromIP(op.ip)]
    /\ nodes' = nodes \cup {op.ip}
    /\ op' = [op EXCEPT !.pc = "fdb"]
    /\ UNCHANGED <<route, fdb>>

AddArp ==
    /\ op.pc = "arp"
    /\ arp' = [arp EXCEPT ![op.ip] = generateMACFromIP(op.ip)]
    /\ op' = [op EXCEPT !.pc = "fdb"]
    /\ UNCHANGED <<route, fdb, nodes>>

\* The last call, and the bookkeeping after it: the node is counted.
AddFdb ==
    /\ op.pc = "fdb"
    /\ fdb' = [fdb EXCEPT ![generateMACFromIP(op.ip)] = op.ip]
    /\ nodes' = nodes \cup {op.ip}
    /\ op' = NoOp
    /\ UNCHANGED <<route, arp>>

AddFailed ==
    /\ op.pc \in AddPC
    /\ op' = NoOp
    /\ UNCHANGED <<tables, nodes>>

-----------------------------------------------------------------------------
(* RemoveRemoteNode.  A call that fails (the entry is missing, or the       *)
(* kernel refuses) is logged, the next one is made all the same, and the    *)
(* operation succeeds.                                                      *)

BeginRemove(cidr, ip) ==
    /\ op = NoOp
    /\ op' = [pc |-> "delRoute", cidr |-> cidr, ip |-> ip]
    /\ UNCHANGED <<tables, nodes>>

\* Mutant: the route is named by the link alone.
DelAnyRoute ==
    /\ op.pc = "delRoute"
    /\ \E cidr \in CIDR : route' = [route EXCEPT ![cidr] = Nil]
    /\ op' = [op EXCEPT !.pc = "delArp"]
    /\ UNCHANGED <<arp, fdb, nodes>>

\* The route is named by its destination and link alone, not by next hop.
DelRoute ==
    /\ op.pc = "delRoute"
    /\ \/ route' = [route EXCEPT ![op.cidr] = Nil]
       \/ UNCHANGED route
    /\ op' = [op EXCEPT !.pc = "delArp"]
    /\ UNCHANGED <<arp, fdb, nodes>>

DelArp ==
    /\ op.pc = "delArp"
    /\ \/ arp' = [arp EXCEPT ![op.ip] = Nil]
       \/ UNCHANGED arp
    /\ op' = [op EXCEPT !.pc = "delFdb"]
    /\ UNCHANGED <<route, fdb, nodes>>

\* The last call, and the bookkeeping after it: the node is counted out.
DelFdb ==
    /\ op.pc = "delFdb"
    /\ \/ fdb' = [fdb EXCEPT ![generateMACFromIP(op.ip)] = Nil]
       \/ UNCHANGED fdb
    /\ nodes' = nodes \ {op.ip}
    /\ op' = NoOp
    /\ UNCHANGED <<route, arp>>

-----------------------------------------------------------------------------
(* The interface and the process.  Interface.Setup deletes an interface     *)
(* that is left over and creates it anew, Teardown deletes it, and either   *)
(* empties the tables; the process loses its memory when it ends.           *)

ClearTables == route' = NoRoutes /\ arp' = NoArp /\ fdb' = NoFdb

LoseMemory == nodes' = {} /\ op' = NoOp

ProcessExit == LoseMemory /\ UNCHANGED tables

InterfaceReset == LoseMemory /\ ClearTables

VtepNext ==
    \/ \E cidr \in CIDR, ip \in IP : BeginAdd(cidr, ip) \/ BeginRemove(cidr, ip)
    \/ AddRoute \/ AddArp \/ AddFdb \/ AddFailed
    \/ DelRoute \/ DelArp \/ DelFdb
    \/ ProcessExit \/ InterfaceReset

VtepSpec == VtepInit /\ [][VtepNext]_vtepVars

-----------------------------------------------------------------------------
VtepTypeOK ==
    /\ route \in [CIDR -> IP \cup {Nil}]
    /\ arp \in [IP -> MAC \cup {Nil}]
    /\ fdb \in [MAC -> IP \cup {Nil}]
    /\ nodes \subseteq IP
    /\ op \in Op

\* The kernel can deliver a packet whose next hop is ip.
Resolves(ip) ==
    /\ arp[ip] = generateMACFromIP(ip)
    /\ fdb[generateMACFromIP(ip)] = ip

\* Every address the gauge counts can be reached: its ARP and FDB entries are
\* both in the kernel, unless it is the address a removal is working on.
\* (VTEP.nodes is written after the last netlink call of AddRemoteNode, and an
\* add that fails half way leaves the entries of earlier adds alone.)
CountedNodesResolve ==
    \A ip \in nodes : (op.pc \in RemovePC /\ op.ip = ip) \/ Resolves(ip)
=============================================================================
