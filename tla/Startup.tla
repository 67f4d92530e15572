------------------------------- MODULE Startup -------------------------------
(***************************************************************************)
(* The start of one gateway process, cmd/gateway/main.go from the flags to *)
(* mgr.Start, with what it calls on the way: Interface.Setup               *)
(* (internal/vxlan/interface.go), the instance metadata client             *)
(* (internal/aws/metadata.go), the constructor and the access check of the *)
(* route table manager (internal/aws/routetable.go) and the readiness flag *)
(* (internal/health/server.go).  The process may die or be terminated      *)
(* between any two steps, and the kernel keeps the VXLAN interface as the  *)
(* process left it.                                                        *)
(*                                                                         *)
(* A list flag is the sequence strings.Split makes of it, so <<"">> is the *)
(* empty flag and <<"", "">> is the flag ",".  What is parsed of a list is *)
(* the same with gaps: the elements that are not blank, where they were.   *)
(* A zone or region is the sequence of its parts, the last letter of a     *)
(* zone being one.                                                         *)
(***************************************************************************)
EXTENDS Naturals, Sequences

CONSTANTS
    Conf,         \* the deployments of a gateway: its flags and its instance
    IP,           \* node IPs net.ParseIP accepts
    Region,       \* the region the instance is in
    Interfaces,   \* Interfaces[id]: the network interfaces of instance id
    Readable,     \* route tables that exist and may be described
    Writable      \* route tables whose routes may be written

ASSUME StartupAssumption ==
    /\ Region # <<>> /\ "" \notin DOMAIN Interfaces
    /\ \A c \in Conf : /\ c.podCIDRs \in Seq(STRING) /\ c.vpcCIDR \in Seq(STRING)
                       /\ c.routeTableIDs \in Seq(STRING)
                       /\ c.zone \in Seq(STRING)

VARIABLES
    conf,        \* the flags and the metadata service's answers (zone, id),
                 \* the same at every start
    forwarding,  \* the sysctl net.ipv4.ip_forward
    link,        \* the VXLAN interface in the kernel, or NoLink
    pc,          \* where main is; "down" when there is no process
    ctx,         \* "none" until NotifyContext, then "live" or "cancelled"
    mem          \* what main has found out

vars == <<conf, forwarding, link, pc, ctx, mem>>

NoLink == [mac |-> <<>>, up |-> FALSE, entries |-> "none"]
NoMem == [mac |-> <<>>, podCIDRs |-> <<>>, vpcCIDRs |-> <<>>, region |-> <<>>,
          instance |-> "", tables |-> <<>>, eni |-> "", verified |-> 0,
          ready |-> FALSE]

PC == {"nodeIP", "forwarding", "delete", "add", "lookup", "mac", "up", "lists",
       "regionToken", "region", "idToken", "id", "tables", "eni", "verify",
       "manager", "ready", "run"}

Init ==
    /\ conf \in Conf
    /\ forwarding \in BOOLEAN
    /\ link = NoLink
    /\ pc = "down"
    /\ ctx = "none"
    /\ mem = NoMem

-----------------------------------------------------------------------------
(* Steps of the process.  One that fails ends it with os.Exit, which runs   *)
(* no deferred call: the interface stays, with the entries it has.          *)

At(p) == pc = p /\ UNCHANGED <<conf, forwarding>>

GoTo(p) == pc' = p /\ UNCHANGED ctx

Left(l) == [l EXCEPT !.entries = IF @ = "own" THEN "old" ELSE @]

Die ==
    /\ pc' = "down"
    /\ ctx' = "none"
    /\ mem' = NoMem
    /\ link' = Left(link)

Start == At("down") /\ GoTo("nodeIP") /\ UNCHANGED <<link, mem>>

\* A crash, a failed call, or SIGTERM before NotifyContext.
Exit == pc # "down" /\ Die /\ UNCHANGED <<conf, forwarding>>

CheckNodeIP ==
    /\ At("nodeIP")
    /\ IF conf.nodeIP \in IP THEN GoTo("forwarding") /\ UNCHANGED <<link, mem>>
                             ELSE Die

-----------------------------------------------------------------------------
(* Interface.Setup.                                                         *)

CheckIPForwarding ==
    /\ At("forwarding")
    /\ IF forwarding THEN GoTo("delete") /\ UNCHANGED <<link, mem>> ELSE Die

\* Mutant: an interface that is up is taken over as it is.
ReuseExisting ==
    /\ At("delete")
    /\ IF link.up THEN /\ GoTo("lists")
                       /\ mem' = [mem EXCEPT !.mac = link.mac]
                       /\ UNCHANGED link
                  ELSE GoTo("add") /\ link' = NoLink /\ UNCHANGED mem

\* Mutant: an existing interface is left alone.
KeepExisting == At("delete") /\ GoTo("add") /\ UNCHANGED <<link, mem>>

\* An error of the lookup is taken for a missing interface.
DeleteExisting ==
    /\ At("delete")
    /\ link' \in {link, NoLink}
    /\ GoTo("add")
    /\ UNCHANGED mem

generateDeterministicMAC(ip) == <<"sha256", ip>>

LinkAdd ==
    /\ At("add")
    /\ IF link = NoLink
       THEN /\ link' = [mac |-> <<"random">>, up |-> FALSE, entries |-> "none"]
            /\ GoTo("lookup")
            /\ UNCHANGED mem
       ELSE Die

LinkByName == At("lookup") /\ GoTo("mac") /\ UNCHANGED <<link, mem>>

LinkSetHardwareAddr ==
    /\ At("mac")
    /\ link' = [link EXCEPT !.mac = generateDeterministicMAC(conf.nodeIP)]
    /\ mem' = [mem EXCEPT !.mac = generateDeterministicMAC(conf.nodeIP)]
    /\ GoTo("up")

LinkSetUp ==
    /\ At("up")
    /\ link' = [link EXCEPT !.up = TRUE]
    /\ GoTo("lists")
    /\ UNCHANGED mem

-----------------------------------------------------------------------------
(* The lists and the context.                                               *)

TrimSpace(s) == IF s = " " THEN "" ELSE s

\* The elements that are not blank, trimmed, at the places they had.
Elements(list) ==
    [i \in {j \in DOMAIN list : TrimSpace(list[j]) # ""} |-> TrimSpace(list[i])]

parseCIDRs(list) == Elements(list)

\* Mutant: the IDs are not trimmed before they are compared with "".
ParseUntrimmed(list) == [i \in {j \in DOMAIN list : list[j] # ""} |-> list[i]]

ParseRouteTableIDs(list) == Elements(list)

\* Mutant: the instance ID is looked up only where the region is.
SkipInstanceLookup ==
    /\ At("lists")
    /\ IF <<"">> \in {conf.podCIDRs, conf.vpcCIDR}
       THEN Die
       ELSE /\ pc' = IF conf.routeTableIDs = <<"">> THEN "manager"
                     ELSE IF conf.region = <<>> THEN "regionToken" ELSE "tables"
            /\ ctx' = "live"
            /\ mem' = [mem EXCEPT !.podCIDRs = parseCIDRs(conf.podCIDRs),
                                  !.vpcCIDRs = parseCIDRs(conf.vpcCIDR),
                                  !.region = conf.region,
                                  !.instance = conf.instanceID]
            /\ UNCHANGED link

\* Both flags are given, though a list may turn out empty (the flag ",");
\* then NotifyContext.  Without route table IDs there is
\* nothing to ask AWS.
CheckLists ==
    /\ At("lists")
    /\ IF <<"">> \in {conf.podCIDRs, conf.vpcCIDR}
       THEN Die
       ELSE /\ pc' = IF conf.routeTableIDs = <<"">> THEN "manager"
                     ELSE IF conf.region = <<>> THEN "regionToken"
                     ELSE IF conf.instanceID = "" THEN "idToken"
                     ELSE "tables"
            /\ ctx' = "live"
            /\ mem' = [mem EXCEPT !.podCIDRs = parseCIDRs(conf.podCIDRs),
                                  !.vpcCIDRs = parseCIDRs(conf.vpcCIDR),
                                  !.region = conf.region,
                                  !.instance = conf.instanceID]
            /\ UNCHANGED link

-----------------------------------------------------------------------------
(* Calls of the metadata service and of EC2, which need a live context.     *)

Call(p) == At(p) /\ ctx = "live" /\ UNCHANGED link

\* getToken, which getMetadata calls before each request.
getToken ==
    \/ Call("regionToken") /\ GoTo("region") /\ UNCHANGED mem
    \/ Call("idToken") /\ GoTo("id") /\ UNCHANGED mem

\* The zone without its last letter.
RegionOf(zone) == SubSeq(zone, 1, Len(zone) - 1)

\* A zone of fewer than two letters is an error.
getRegion ==
    /\ Call("region")
    /\ Len(conf.zone) >= 2
    /\ mem' = [mem EXCEPT !.region = RegionOf(conf.zone)]
    /\ GoTo(IF conf.instanceID = "" THEN "idToken" ELSE "tables")

getInstanceID ==
    /\ Call("id")
    /\ mem' = [mem EXCEPT !.instance = conf.id]
    /\ GoTo("tables")

CheckTables ==
    /\ At("tables")
    /\ IF DOMAIN ParseRouteTableIDs(conf.routeTableIDs) = {}
       THEN Die
       ELSE /\ mem' = [mem EXCEPT !.tables = ParseRouteTableIDs(conf.routeTableIDs)]
            /\ GoTo("eni")
            /\ UNCHANGED link

\* EC2's DescribeInstances: the region has to exist and to hold the instance.
DescribeInstances ==
    IF mem.region = Region /\ mem.instance \in DOMAIN Interfaces
    THEN Interfaces[mem.instance] ELSE <<>>

IsPrimary(interface) == interface.attached /\ interface.device = 0

\* The ENI of the first primary interface, if there is one.
getPrimaryENI(interfaces) ==
    {interfaces[i].eni : i \in {k \in DOMAIN interfaces :
        /\ IsPrimary(interfaces[k])
        /\ \A j \in 1 .. k - 1 : ~IsPrimary(interfaces[j])}}

\* NewRouteTableManager.
NewRouteTableManager ==
    /\ Call("eni")
    /\ mem.instance # ""
    /\ \E eni \in getPrimaryENI(DescribeInstances) :
          mem' = [mem EXCEPT !.eni = eni]
    /\ GoTo("verify")

\* The tables the loop of VerifyRouteTableAccess has not come to yet.
Unverified == {i \in DOMAIN mem.tables : i > mem.verified}

\* One DescribeRouteTables call.
VerifyNext ==
    \E i \in Unverified :
        /\ \A j \in Unverified : i <= j
        /\ mem.tables[i] \in Readable
        /\ mem' = [mem EXCEPT !.verified = i]
        /\ GoTo("verify")

\* Mutant: the loop ends one table early.
VerifyAllButLast ==
    /\ Call("verify")
    /\ IF \A i, j \in Unverified : i = j
       THEN GoTo("manager") /\ UNCHANGED mem ELSE VerifyNext

VerifyRouteTableAccess ==
    /\ Call("verify")
    /\ IF Unverified = {}
       THEN GoTo("manager") /\ UNCHANGED mem ELSE VerifyNext

-----------------------------------------------------------------------------
(* The manager.                                                             *)

NewManager == At("manager") /\ GoTo("ready") /\ UNCHANGED <<link, mem>>

SetReady ==
    /\ At("ready")
    /\ mem' = [mem EXCEPT !.ready = TRUE]
    /\ GoTo("run")
    /\ UNCHANGED link

\* The probe server, which the manager runs, says that the gateway is ready.
ReadyCheck == pc = "run" /\ mem.ready

\* Mutant: nodes are programmed before the manager runs.
ProgramEarly ==
    /\ pc \in {"manager", "ready", "run"}
    /\ link' = [link EXCEPT !.entries = IF @ = "none" THEN "own" ELSE @]
    /\ UNCHANGED <<conf, forwarding, pc, ctx, mem>>

\* The running gateway writes tunnel entries (module NodeReconciler).
Program ==
    /\ At("run")
    /\ link' = [link EXCEPT !.entries = IF @ = "none" THEN "own" ELSE @]
    /\ UNCHANGED <<pc, ctx, mem>>

SigTerm ==
    /\ pc # "down"
    /\ ctx = "live"
    /\ ctx' = "cancelled"
    /\ UNCHANGED <<conf, forwarding, link, pc, mem>>

\* mgr.Start returns nil and main ends with the deferred Teardown, which may
\* fail.
Terminate ==
    /\ At("run")
    /\ ctx = "cancelled"
    /\ pc' = "down"
    /\ ctx' = "none"
    /\ mem' = NoMem
    /\ link' \in {NoLink, Left(link)}

\* The kubelet, or somebody else on the node, sets the sysctl.
SetForwarding ==
    /\ forwarding' = ~forwarding
    /\ UNCHANGED <<conf, link, pc, ctx, mem>>

Step ==
    \/ CheckNodeIP \/ CheckIPForwarding \/ DeleteExisting \/ LinkAdd \/ LinkByName
    \/ LinkSetHardwareAddr \/ LinkSetUp \/ CheckLists
    \/ getToken \/ getRegion \/ getInstanceID
    \/ CheckTables \/ NewRouteTableManager \/ VerifyRouteTableAccess
    \/ NewManager \/ SetReady

Next == Start \/ Step \/ Program \/ SigTerm \/ Terminate \/ Exit \/ SetForwarding

Spec == Init /\ [][Next]_vars

(***************************************************************************)
(* Fairness: the kubelet starts the container again, every step of main    *)
(* ends, and the lookup of an interface that exists does not fail for      *)
(* ever.                                                                   *)
(***************************************************************************)
Fairness ==
    /\ WF_vars(Start)
    /\ WF_vars(Step \/ (pc # "run" /\ Exit))
    /\ SF_vars(DeleteExisting /\ link' = NoLink)

FairSpec == Spec /\ Fairness

-----------------------------------------------------------------------------
TypeOK ==
    /\ conf \in Conf
    /\ forwarding \in BOOLEAN
    /\ link \in [mac : {<<>>, <<"random">>, generateDeterministicMAC(conf.nodeIP)},
                 up : BOOLEAN, entries : {"none", "own", "old"}]
    /\ pc \in PC \cup {"down"}
    /\ ctx \in {"none", "live", "cancelled"}
    /\ \A list \in {mem.podCIDRs, mem.vpcCIDRs, mem.tables} :
          \A i \in DOMAIN list : list[i] \in STRING \ {"", " "}
    /\ mem.verified \in DOMAIN mem.tables \cup {0}
    /\ mem.ready \in BOOLEAN

\* A gateway that says it is ready has an interface of its own making: it is
\* up, its MAC is the one the gateway will publish, and no entry of an earlier
\* process is on it, wherever that process was stopped.
ReadyLinkIsWhole ==
    ReadyCheck => /\ link.up
                  /\ link.mac = mem.mac
                  /\ mem.mac = generateDeterministicMAC(conf.nodeIP)
                  /\ link.entries # "old"

\* Start-up, link operation by link operation, implements what NodeReconciler
\* takes for one step: the manager starts on an interface without entries,
\* whatever an earlier process left and wherever it was stopped, and a start
\* that fails leaves entries behind only if it did not get to delete them.
P == INSTANCE Process WITH up <- pc = "run", entries <- link.entries

StartsClean == P!Spec

\* The instance the gateway runs on and its region, as the flags or the
\* metadata name them.
Own == IF conf.instanceID = "" THEN conf.id ELSE conf.instanceID
OwnRegion == IF conf.region = <<>> THEN RegionOf(conf.zone) ELSE conf.region

\* A gateway that says it is ready and has route tables to manage has found
\* the primary interface of its own instance, in the region it is in, and
\* could describe every table that the flag names, of which there is one.
ReadyHasAccess ==
    ReadyCheck /\ conf.routeTableIDs # <<"">> =>
        /\ mem.region = Region
        /\ Own \in DOMAIN Interfaces
        /\ mem.eni \in getPrimaryENI(Interfaces[Own])
        /\ mem.tables = ParseRouteTableIDs(conf.routeTableIDs)
        /\ DOMAIN mem.tables # {}
        /\ \A i \in DOMAIN mem.tables : mem.tables[i] \in Readable

\* routetable.go: VerifyRouteTableAccess "verifies that the instance has
\* permission to modify route tables".  So a ready gateway may write them.
ReadyMayModify ==
    ReadyCheck => \A i \in DOMAIN mem.tables : mem.tables[i] \in Writable

\* The configuration suffices, here and now, to start a gateway.
Startable ==
    /\ conf.nodeIP \in IP
    /\ <<"">> \notin {conf.podCIDRs, conf.vpcCIDR}
    /\ conf.routeTableIDs = <<"">> \/
          LET ids == ParseRouteTableIDs(conf.routeTableIDs) IN
             /\ DOMAIN ids # {}
             /\ \A i \in DOMAIN ids : ids[i] \in Readable
             /\ OwnRegion = Region
             /\ Own \in DOMAIN Interfaces
             /\ getPrimaryENI(Interfaces[Own]) # {}

\* A configuration that suffices is not refused: by whichever way main came to
\* its region and its instance, over the flags or over the metadata, none of the
\* checks that can end it there will.
StartableIsNotRefused ==
    Startable =>
        /\ pc = "region" => Len(conf.zone) >= 2
        /\ pc = "eni" => mem.instance # "" /\ getPrimaryENI(DescribeInstances) # {}
        /\ pc = "verify" => \A i \in Unverified : mem.tables[i] \in Readable

\* A signal, or the end of a process whose next step could have succeeded.
Mishap ==
    \/ SigTerm
    \/ Exit /\ ctx # "cancelled" /\ ~(pc = "add" /\ link # NoLink)

\* Whatever an earlier process left in the kernel, and wherever a crash or a
\* signal stopped it: once nothing from outside goes wrong any more, a gateway
\* that can start gets ready for good.
GatewayStarts ==
    Startable /\ <>[]forwarding /\ <>[][~Mishap]_vars => <>[]ReadyCheck
=============================================================================
