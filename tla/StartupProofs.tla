---------------------------- MODULE StartupProofs ----------------------------
(***************************************************************************)
(* Theorems about Startup, for any deployments, addresses and route        *)
(* tables.                                                                 *)
(***************************************************************************)
EXTENDS Startup, SequenceTheorems, TLAPS

\* The places of main after LinkSetUp, after the MAC is set, and after LinkAdd.
AfterUp == {"lists", "regionToken", "region", "idToken", "id", "tables", "eni",
            "verify", "manager", "ready", "run"}
AfterMac == AfterUp \cup {"up"}
AfterAdd == AfterMac \cup {"lookup", "mac"}

LinkType ==
    [mac : {<<>>, <<"random">>, generateDeterministicMAC(conf.nodeIP)},
     up : BOOLEAN, entries : {"none", "own", "old"}]
IsMem(m) ==
    m = [mac |-> m.mac, podCIDRs |-> m.podCIDRs, vpcCIDRs |-> m.vpcCIDRs,
         region |-> m.region, instance |-> m.instance, tables |-> m.tables,
         eni |-> m.eni, verified |-> m.verified, ready |-> m.ready]

\* What Interface.Setup has done to the link by the place main has reached; a
\* process has deleted and made the link anew before it gets beyond LinkAdd,
\* and writes entries only when it runs.
LinkProgress ==
    /\ pc # "run" => link.entries # "own"
    /\ pc \in AfterAdd => link.entries # "old"
    /\ pc \in AfterMac => /\ link.mac = mem.mac
                          /\ mem.mac = generateDeterministicMAC(conf.nodeIP)
    /\ pc \in AfterUp => link.up

LinkInv ==
    /\ link \in LinkType
    /\ IsMem(mem)
    /\ pc \in PC \cup {"down"}
    /\ LinkProgress

LEMMA NoLinkType == NoLink \in LinkType /\ NoLink.entries = "none"
<1>1. NoLink.entries = "none"
  BY DEF NoLink
<1>2. NoLink \in LinkType
  BY DEF NoLink, LinkType
<1>3. QED
  BY <1>1, <1>2

LEMMA InitLink == Init => LinkInv
<1>1. IsMem(NoMem)
  BY DEF NoMem, IsMem
<1>2. QED
  BY <1>1, NoLinkType DEF Init, LinkInv, LinkProgress, PC, AfterAdd, AfterMac, AfterUp

\* A process that ends leaves the invariant behind.
LEMMA DieKeepsLink == ASSUME LinkInv, Die, UNCHANGED conf PROVE LinkInv'
<1>1. (link \in LinkType)' /\ link'.entries # "own"
  BY DEF LinkInv, Die, Left, LinkType
<1>2. IsMem(mem)'
  BY DEF Die, NoMem, IsMem
<1>3. QED
  BY <1>1, <1>2 DEF LinkInv, Die, LinkProgress, AfterAdd, AfterMac, AfterUp

\* A step after Interface.Setup that leaves the link and the MAC alone.
LEMMA LaterKeepsLink ==
    ASSUME LinkInv, UNCHANGED <<conf, link>>, pc \in AfterUp, pc' \in AfterUp,
           pc # "run", IsMem(mem)', mem'.mac = mem.mac
    PROVE  LinkInv'
  BY DEF LinkInv, LinkProgress, AfterAdd, AfterMac, AfterUp, PC, LinkType

LEMMA LinkStep == LinkInv /\ [Next]_vars => LinkInv'
<1> SUFFICES ASSUME LinkInv, [Next]_vars PROVE LinkInv'
  OBVIOUS
<1>m. IsMem(mem) /\ link \in LinkType
  BY DEF LinkInv
<1>1. CASE Start
  BY <1>1 DEF Start, At, GoTo, LinkInv, LinkType, LinkProgress, PC, AfterAdd, AfterMac, AfterUp
<1>2. CASE CheckNodeIP
  <2>1. CASE Die
    BY <1>2, <2>1, DieKeepsLink DEF CheckNodeIP, At
  <2>2. CASE ~Die
    BY <1>2, <2>2 DEF CheckNodeIP, At, GoTo, LinkInv, LinkType, LinkProgress, PC, AfterAdd,
                      AfterMac, AfterUp
  <2>3. QED
    BY <2>1, <2>2
<1>3. CASE CheckIPForwarding
  <2>1. CASE Die
    BY <1>3, <2>1, DieKeepsLink DEF CheckIPForwarding, At
  <2>2. CASE ~Die
    BY <1>3, <2>2 DEF CheckIPForwarding, At, GoTo, LinkInv, LinkType, LinkProgress, PC,
                      AfterAdd, AfterMac, AfterUp
  <2>3. QED
    BY <2>1, <2>2
<1>4. CASE DeleteExisting
  <2>1. (link \in LinkType)' /\ link'.entries # "own"
    <3>1. pc = "delete" /\ conf' = conf /\ link' \in {link, NoLink}
      BY <1>4 DEF DeleteExisting, At
    <3>2. link' \in LinkType /\ link'.entries # "own"
      BY <1>m, <3>1, NoLinkType DEF LinkInv, LinkProgress
    <3>3. QED
      BY <3>1, <3>2 DEF LinkType
  <2>2. QED
    BY <1>4, <2>1 DEF DeleteExisting, At, GoTo, LinkInv, LinkType, LinkProgress, PC, AfterAdd,
                      AfterMac, AfterUp
<1>5. CASE LinkAdd
  <2>1. CASE Die
    BY <1>5, <2>1, DieKeepsLink DEF LinkAdd, At
  <2>2. CASE ~Die
    <3>1. link' = [mac |-> <<"random">>, up |-> FALSE, entries |-> "none"]
      BY <1>5, <2>2 DEF LinkAdd
    <3>2. (link \in LinkType)' /\ link'.entries = "none"
      BY <3>1 DEF LinkType
    <3>3. pc' = "lookup" /\ mem' = mem
      BY <1>5, <2>2 DEF LinkAdd, GoTo
    <3>4. QED
      BY <3>2, <3>3 DEF LinkInv, LinkType, LinkProgress, PC, AfterAdd, AfterMac, AfterUp
  <2>3. QED
    BY <2>1, <2>2
<1>6. CASE LinkByName
  BY <1>6 DEF LinkByName, At, GoTo, LinkInv, LinkType, LinkProgress, PC, AfterAdd, AfterMac,
              AfterUp
<1>7. CASE LinkSetHardwareAddr
  <2>1. /\ link' = [link EXCEPT !.mac = generateDeterministicMAC(conf.nodeIP)]
        /\ mem' = [mem EXCEPT !.mac = generateDeterministicMAC(conf.nodeIP)]
        /\ pc = "mac" /\ pc' = "up" /\ conf' = conf
    BY <1>7 DEF LinkSetHardwareAddr, At, GoTo
  <2>2. /\ (link \in LinkType)'
        /\ link'.mac = generateDeterministicMAC(conf.nodeIP)
        /\ link'.entries = link.entries
    BY <1>m, <2>1 DEF LinkType
  <2>3. IsMem(mem)' /\ mem'.mac = generateDeterministicMAC(conf.nodeIP)
    BY <1>m, <2>1 DEF IsMem
  <2>4. QED
    BY <2>1, <2>2, <2>3 DEF LinkInv, LinkType, LinkProgress, PC, AfterAdd, AfterMac, AfterUp,
                            generateDeterministicMAC
<1>8. CASE LinkSetUp
  <2>1. /\ link' = [link EXCEPT !.up = TRUE]
        /\ pc = "up" /\ pc' = "lists" /\ UNCHANGED <<conf, mem>>
    BY <1>8 DEF LinkSetUp, At, GoTo
  <2>2. /\ (link \in LinkType)' /\ link'.up
        /\ link'.mac = link.mac /\ link'.entries = link.entries
    BY <1>m, <2>1 DEF LinkType
  <2>3. QED
    BY <2>1, <2>2 DEF LinkInv, LinkType, LinkProgress, PC, AfterAdd, AfterMac, AfterUp
<1>9. CASE CheckLists
  <2>1. CASE Die
    BY <1>9, <2>1, DieKeepsLink DEF CheckLists, At
  <2>2. CASE ~Die
    <3>1. /\ pc = "lists" /\ UNCHANGED <<conf, link>>
          /\ mem' = [mem EXCEPT !.podCIDRs = parseCIDRs(conf.podCIDRs),
                                !.vpcCIDRs = parseCIDRs(conf.vpcCIDR),
                                !.region = conf.region,
                                !.instance = conf.instanceID]
      BY <1>9, <2>2 DEF CheckLists, At
    <3>2. IsMem(mem)' /\ mem'.mac = mem.mac
      BY <1>m, <3>1 DEF IsMem
    <3>3. pc' \in {"manager", "regionToken", "idToken", "tables"}
      BY <1>9, <2>2 DEF CheckLists
    <3>4. QED
      BY <3>1, <3>2, <3>3, LaterKeepsLink DEF AfterUp
  <2>3. QED
    BY <2>1, <2>2
<1>10. CASE getToken \/ NewManager
  BY <1>10, <1>m, LaterKeepsLink DEF getToken, NewManager, Call, At, GoTo, AfterUp,
                                     IsMem
<1>11. CASE getRegion
  <2>1. /\ pc = "region" /\ pc' \in {"idToken", "tables"} /\ UNCHANGED <<conf, link>>
        /\ mem' = [mem EXCEPT !.region = RegionOf(conf.zone)]
    BY <1>11 DEF getRegion, Call, At, GoTo
  <2>2. IsMem(mem)' /\ mem'.mac = mem.mac
    BY <1>m, <2>1 DEF IsMem
  <2>3. QED
    BY <2>1, <2>2, LaterKeepsLink DEF AfterUp
<1>12. CASE getInstanceID
  <2>1. /\ pc = "id" /\ pc' = "tables" /\ UNCHANGED <<conf, link>>
        /\ mem' = [mem EXCEPT !.instance = conf.id]
    BY <1>12 DEF getInstanceID, Call, At, GoTo
  <2>2. IsMem(mem)' /\ mem'.mac = mem.mac
    BY <1>m, <2>1 DEF IsMem
  <2>3. QED
    BY <2>1, <2>2, LaterKeepsLink DEF AfterUp
<1>13. CASE CheckTables
  <2>1. CASE Die
    BY <1>13, <2>1, DieKeepsLink DEF CheckTables, At
  <2>2. CASE ~Die
    <3>1. /\ pc = "tables" /\ pc' = "eni" /\ UNCHANGED <<conf, link>>
          /\ mem' = [mem EXCEPT !.tables = ParseRouteTableIDs(conf.routeTableIDs)]
      BY <1>13, <2>2 DEF CheckTables, At, GoTo
    <3>2. IsMem(mem)' /\ mem'.mac = mem.mac
      BY <1>m, <3>1 DEF IsMem
    <3>3. QED
      BY <3>1, <3>2, LaterKeepsLink DEF AfterUp
  <2>3. QED
    BY <2>1, <2>2
<1>14. CASE NewRouteTableManager
  <2>1. PICK eni : mem' = [mem EXCEPT !.eni = eni]
    BY <1>14 DEF NewRouteTableManager
  <2>2. pc = "eni" /\ pc' = "verify" /\ UNCHANGED <<conf, link>>
    BY <1>14 DEF NewRouteTableManager, Call, At, GoTo
  <2>3. IsMem(mem)' /\ mem'.mac = mem.mac
    BY <1>m, <2>1 DEF IsMem
  <2>4. QED
    BY <2>2, <2>3, LaterKeepsLink DEF AfterUp
<1>15. CASE VerifyRouteTableAccess
  <2>1. pc = "verify" /\ pc' \in {"verify", "manager"} /\ UNCHANGED <<conf, link>>
    BY <1>15 DEF VerifyRouteTableAccess, VerifyNext, Call, At, GoTo
  <2>2. mem' = mem \/ \E i : mem' = [mem EXCEPT !.verified = i]
    BY <1>15 DEF VerifyRouteTableAccess, VerifyNext
  <2>3. IsMem(mem)' /\ mem'.mac = mem.mac
    BY <1>m, <2>2 DEF IsMem
  <2>4. QED
    BY <2>1, <2>3, LaterKeepsLink DEF AfterUp
<1>16. CASE SetReady
  <2>1. /\ pc = "ready" /\ pc' = "run" /\ UNCHANGED <<conf, link>>
        /\ mem' = [mem EXCEPT !.ready = TRUE]
    BY <1>16 DEF SetReady, At, GoTo
  <2>2. IsMem(mem)' /\ mem'.mac = mem.mac
    BY <1>m, <2>1 DEF IsMem
  <2>3. QED
    BY <2>1, <2>2, LaterKeepsLink DEF AfterUp
<1>17. CASE Program
  <2>1. /\ pc = "run" /\ UNCHANGED <<conf, pc, mem>>
        /\ link' = [link EXCEPT !.entries = IF @ = "none" THEN "own" ELSE @]
    BY <1>17 DEF Program, At
  <2>2. link.entries # "old" /\ link.up
    BY <2>1 DEF LinkInv, LinkProgress, AfterAdd, AfterMac, AfterUp
  <2>3. /\ (link \in LinkType)' /\ link'.entries # "old"
        /\ link'.up = link.up /\ link'.mac = link.mac
    BY <1>m, <2>1, <2>2 DEF LinkType
  <2>4. QED
    BY <2>1, <2>2, <2>3 DEF LinkInv, LinkProgress, AfterAdd, AfterMac, AfterUp
<1>18. CASE SigTerm \/ SetForwarding \/ UNCHANGED vars
  BY <1>18 DEF SigTerm, SetForwarding, vars, LinkInv, LinkProgress, LinkType, IsMem
<1>19. CASE Exit
  BY <1>19, DieKeepsLink DEF Exit
<1>20. CASE Terminate
  <2>1. pc' = "down" /\ mem' = NoMem /\ link' \in {NoLink, Left(link)}
    BY <1>20 DEF Terminate
  <2>2. (link \in LinkType)' /\ link'.entries # "own"
    <3>1. Left(link) \in LinkType /\ Left(link).entries # "own"
      BY <1>m DEF Left, LinkType
    <3>2. link' \in LinkType /\ link'.entries # "own"
      BY <2>1, <3>1, NoLinkType
    <3>3. conf' = conf
      BY <1>20 DEF Terminate, At
    <3>4. QED
      BY <3>2, <3>3 DEF LinkType
  <2>3. IsMem(mem)'
    BY <2>1 DEF NoMem, IsMem
  <2>4. QED
    BY <2>1, <2>2, <2>3 DEF LinkInv, LinkProgress, AfterAdd, AfterMac, AfterUp
<1>21. QED
  BY <1>1, <1>2, <1>3, <1>4, <1>5, <1>6, <1>7, <1>8, <1>9, <1>10, <1>11, <1>12,
     <1>13, <1>14, <1>15, <1>16, <1>17, <1>18, <1>19, <1>20 DEF Next, Step

\* Wherever earlier processes were stopped, by a crash, a failed call or a
\* signal, and whatever link they left: a ready gateway's link is its own.
THEOREM ReadyLinkIsAlwaysWhole == Spec => []ReadyLinkIsWhole
<1>1. LinkInv => ReadyLinkIsWhole
  BY DEF LinkInv, LinkProgress, ReadyLinkIsWhole, ReadyCheck, AfterAdd, AfterMac,
         AfterUp
<1>2. QED
  BY <1>1, InitLink, LinkStep, PTL DEF Spec

-----------------------------------------------------------------------------
(* Startup implements Process.                                              *)

\* What a link that is left behind has on it, and the other changes of entries.
LEMMA LeftEntries ==
    ASSUME link \in LinkType
    PROVE  Left(link).entries = IF link.entries = "own" THEN "old" ELSE link.entries
  BY DEF LinkType, Left

\* A step before the manager runs keeps the entries or finds none.
LEMMA EarlyStep ==
    ASSUME LinkInv, [Next]_vars, pc # "run", pc' # "run"
    PROVE  link'.entries \in {link.entries, "none"}
<1>m. link \in LinkType /\ link.entries # "own"
  BY DEF LinkInv, LinkProgress
<1>1. CASE link' \in {link, NoLink}
  BY <1>1, NoLinkType
<1>2. CASE Die
  BY <1>2, <1>m, LeftEntries DEF Die
<1>3. CASE LinkAdd
  BY <1>3, <1>2 DEF LinkAdd
<1>4. CASE LinkSetHardwareAddr
  BY <1>4, <1>m DEF LinkSetHardwareAddr, LinkType
<1>5. CASE LinkSetUp
  BY <1>5, <1>m DEF LinkSetUp, LinkType
<1>6. Die \/ LinkAdd \/ LinkSetHardwareAddr \/ LinkSetUp \/ link' \in {link, NoLink}
  BY DEF Next, Step, vars, Start, CheckNodeIP, CheckIPForwarding, DeleteExisting,
         LinkByName, CheckLists, getToken, getRegion, getInstanceID, CheckTables,
         NewRouteTableManager, VerifyRouteTableAccess, NewManager, SetReady,
         Program, SigTerm, Terminate, Exit, SetForwarding, Call, At
<1>7. QED
  BY <1>1, <1>2, <1>3, <1>4, <1>5, <1>6

\* The manager starts in SetReady only, and on an interface without entries.
LEMMA StartStep ==
    ASSUME LinkInv, [Next]_vars, pc # "run", pc' = "run"
    PROVE  link'.entries = "none"
<1>1. SetReady
  BY DEF Next, Step, vars, Start, Die, CheckNodeIP, CheckIPForwarding, DeleteExisting,
         LinkAdd, LinkByName, LinkSetHardwareAddr, LinkSetUp,
         CheckLists, getToken, getRegion, getInstanceID, CheckTables, VerifyNext,
         NewRouteTableManager, VerifyRouteTableAccess, NewManager,
         Program, SigTerm, Terminate, Exit, SetForwarding, Call, At, GoTo
<1>2. pc = "ready" /\ link' = link
  BY <1>1 DEF SetReady, At
<1>3. link.entries \in {"none", "own", "old"}
  BY DEF LinkInv, LinkType
<1>4. QED
  BY <1>2, <1>3 DEF LinkInv, LinkProgress, AfterAdd, AfterMac, AfterUp

\* A step of the running gateway.
LEMMA RunStep ==
    ASSUME LinkInv, [Next]_vars, pc = "run"
    PROVE  \/ pc' = "run" /\ link'.entries = link.entries
           \/ pc' = "run" /\ link'.entries = "own"
           \/ pc' # "run" /\ link'.entries = "none"
           \/ pc' # "run" /\ link'.entries = IF link.entries = "own"
                                             THEN "old" ELSE link.entries
<1>m. link \in LinkType
  BY DEF LinkInv
<1>1. CASE Program
  <2>1. link'.entries = IF link.entries = "none" THEN "own" ELSE link.entries
    BY <1>1, <1>m DEF Program, LinkType
  <2>2. pc' = "run"
    BY <1>1 DEF Program, At
  <2>3. QED
    BY <2>1, <2>2
<1>2. CASE Exit
  BY <1>2, <1>m, LeftEntries DEF Exit, Die
<1>3. CASE Terminate
  BY <1>3, <1>m, LeftEntries, NoLinkType DEF Terminate
<1>4. CASE SigTerm \/ SetForwarding \/ UNCHANGED vars
  BY <1>4 DEF SigTerm, SetForwarding, vars
<1>5. ~(Start \/ Step)
  BY DEF Step, Start, CheckNodeIP, CheckIPForwarding, DeleteExisting,
         LinkAdd, LinkByName, LinkSetHardwareAddr, LinkSetUp,
         CheckLists, getToken, getRegion, getInstanceID, CheckTables,
         NewRouteTableManager, VerifyRouteTableAccess, NewManager, SetReady, Call, At
<1>6. QED
  BY <1>1, <1>2, <1>3, <1>4, <1>5 DEF Next

\* Every start, wherever the earlier processes were stopped, is one step of
\* Process: the manager runs only on an interface without entries.
THEOREM StartsAlwaysClean == Spec => StartsClean
<1>1. Init => LinkInv /\ P!Init
  BY InitLink, NoLinkType DEF Init, P!Init
<1>2. LinkInv /\ [Next]_vars => [P!Next]_(P!processVars)
  <2> SUFFICES ASSUME LinkInv, [Next]_vars PROVE [P!Next]_(P!processVars)
    OBVIOUS
  <2>1. CASE pc # "run" /\ pc' # "run"
    <3>1. CASE link'.entries = link.entries
      BY <2>1, <3>1 DEF P!processVars
    <3>2. CASE link'.entries = "none"
      BY <2>1, <3>2 DEF P!Next, P!StartFails
    <3>3. QED
      BY <2>1, <3>1, <3>2, EarlyStep
  <2>2. CASE pc # "run" /\ pc' = "run"
    BY <2>2, StartStep DEF P!Next, P!Start
  <2>3. CASE pc = "run"
    <3>1. CASE pc' = "run" /\ link'.entries = link.entries
      BY <2>3, <3>1 DEF P!processVars
    <3>2. CASE pc' = "run" /\ link'.entries = "own"
      BY <2>3, <3>2 DEF P!Next, P!Program
    <3>3. CASE pc' # "run" /\ link'.entries = "none"
      BY <2>3, <3>3 DEF P!Next, P!Terminate
    <3>4. CASE pc' # "run" /\ link'.entries = IF link.entries = "own"
                                              THEN "old" ELSE link.entries
      BY <2>3, <3>4 DEF P!Next, P!Exit
    <3>5. QED
      BY <2>3, <3>1, <3>2, <3>3, <3>4, RunStep
  <2>4. QED
    BY <2>1, <2>2, <2>3
<1>3. QED
  BY <1>1, <1>2, LinkStep, PTL DEF Spec, StartsClean, P!Spec

-----------------------------------------------------------------------------
(* What main finds out, up to the access check.                             *)

\* A parsed list: its places, and no element that is blank.
IsList(list) ==
    /\ DOMAIN list \subseteq Nat \ {0}
    /\ \A i \in DOMAIN list : list[i] \in STRING \ {"", " "}

\* The places of main from VerifyRouteTableAccess on; after it, with route
\* tables, everything has been found out that AWS can say.
Verified == pc \in {"manager", "ready", "run"} /\ conf.routeTableIDs # <<"">>
FromVerify == {"verify", "manager", "ready", "run"}

\* The instance's own interface, in its own region.
FoundENI ==
    /\ mem.region = Region
    /\ Own \in DOMAIN Interfaces
    /\ mem.eni \in getPrimaryENI(Interfaces[Own])

FoundTables ==
    /\ mem.tables = ParseRouteTableIDs(conf.routeTableIDs)
    /\ DOMAIN mem.tables # {}

AccessProgress ==
    /\ pc \notin FromVerify => mem.verified = 0
    /\ pc \in {"regionToken", "region"} => mem.instance = conf.instanceID
    /\ pc \in {"idToken", "id"} => conf.instanceID = ""
    /\ pc \in {"tables", "eni"} => mem.instance = Own
    /\ pc \in {"eni", "verify"} \/ Verified => FoundTables
    /\ pc = "verify" \/ Verified => FoundENI
    /\ pc = "verify" => \A i \in DOMAIN mem.tables \ Unverified : mem.tables[i] \in Readable
    /\ Verified => \A i \in DOMAIN mem.tables : mem.tables[i] \in Readable

MemType ==
    /\ IsList(mem.podCIDRs) /\ IsList(mem.vpcCIDRs) /\ IsList(mem.tables)
    /\ mem.verified \in DOMAIN mem.tables \cup {0}
    /\ mem.ready \in BOOLEAN

AccessInv ==
    /\ conf \in Conf
    /\ forwarding \in BOOLEAN
    /\ ctx \in {"none", "live", "cancelled"}
    /\ MemType
    /\ AccessProgress

LEMMA SeqElement == ASSUME NEW S, NEW s \in Seq(S), NEW i \in DOMAIN s PROVE s[i] \in S
  OBVIOUS

\* Whatever the flag holds, parsing it leaves no blank element.
LEMMA ElementsList == ASSUME NEW list \in Seq(STRING) PROVE IsList(Elements(list))
<1> DEFINE K == {j \in DOMAIN list : TrimSpace(list[j]) # ""}
<1>1. DOMAIN list \subseteq Nat \ {0}
  <2>1. DOMAIN list = 1 .. Len(list) /\ Len(list) \in Nat
    OBVIOUS
  <2>2. QED
    BY <2>1
<1>2. Elements(list) = [i \in K |-> TrimSpace(list[i])]
  BY DEF Elements
<1>3. ASSUME NEW i \in K PROVE TrimSpace(list[i]) \in STRING \ {"", " "}
  <2>1. i \in DOMAIN list /\ TrimSpace(list[i]) # ""
    OBVIOUS
  <2>2. list[i] \in STRING
    BY <2>1, SeqElement
  <2>3. QED
    BY <2>1, <2>2 DEF TrimSpace
<1>4. DOMAIN Elements(list) = K /\ \A i \in K : Elements(list)[i] = TrimSpace(list[i])
  BY <1>2
<1> HIDE DEF K
<1>5. K \subseteq DOMAIN list
  BY DEF K
<1>6. QED
  BY <1>1, <1>3, <1>4, <1>5 DEF IsList

LEMMA NoMemIsNothing ==
    /\ IsList(NoMem.podCIDRs) /\ IsList(NoMem.vpcCIDRs) /\ IsList(NoMem.tables)
    /\ NoMem.verified = 0
    /\ NoMem.ready = FALSE
<1>1. IsList(<<>>)
  BY DEF IsList
<1>2. /\ NoMem.podCIDRs = <<>> /\ NoMem.vpcCIDRs = <<>> /\ NoMem.tables = <<>>
      /\ NoMem.verified = 0 /\ NoMem.ready = FALSE
  BY DEF NoMem
<1>3. QED
  BY <1>1, <1>2

\* A process that ends forgets everything.
LEMMA DieKeepsAccess ==
    ASSUME AccessInv, pc' = "down", ctx' = "none", mem' = NoMem, UNCHANGED <<conf, forwarding>>
    PROVE  AccessInv'
<1>1. MemType'
  BY NoMemIsNothing DEF MemType
<1>2. AccessProgress'
  BY NoMemIsNothing DEF AccessProgress, FromVerify, Verified
<1>3. QED
  BY <1>1, <1>2 DEF AccessInv

LEMMA InitAccess == Init => AccessInv
  BY NoMemIsNothing DEF Init, AccessInv, MemType, AccessProgress, FromVerify, Verified

\* A step up to the parsing of the lists, which can change no more than the MAC.
LEMMA EarlyKeepsAccess ==
    ASSUME AccessInv, UNCHANGED <<conf, forwarding, ctx>>,
           mem'.podCIDRs = mem.podCIDRs, mem'.vpcCIDRs = mem.vpcCIDRs,
           mem'.tables = mem.tables, mem'.verified = mem.verified,
           mem'.ready = mem.ready,
           pc' \in {"nodeIP", "forwarding", "delete", "add", "lookup", "mac", "up", "lists"},
           pc \notin FromVerify
    PROVE  AccessInv'
<1>1. MemType'
  BY DEF AccessInv, MemType
<1>2. AccessProgress'
  BY DEF AccessInv, AccessProgress, FromVerify, Verified
<1>3. QED
  BY <1>1, <1>2 DEF AccessInv

LEMMA AccessStep == LinkInv /\ AccessInv /\ [Next]_vars => AccessInv'
<1> SUFFICES ASSUME LinkInv, AccessInv, [Next]_vars PROVE AccessInv'
  OBVIOUS
<1>m. IsMem(mem) /\ MemType /\ AccessProgress /\ conf \in Conf
  BY DEF LinkInv, AccessInv
<1>d. CASE Die /\ UNCHANGED <<conf, forwarding>>
  BY <1>d, DieKeepsAccess DEF Die
<1>1. CASE Start \/ DeleteExisting \/ LinkByName \/ LinkSetUp
  BY <1>1, EarlyKeepsAccess DEF Start, DeleteExisting, LinkByName, LinkSetUp, At, GoTo,
                                FromVerify
<1>2. CASE CheckNodeIP \/ CheckIPForwarding \/ LinkAdd
  <2>1. CASE Die
    BY <1>2, <2>1, <1>d DEF CheckNodeIP, CheckIPForwarding, LinkAdd, At
  <2>2. CASE ~Die
    BY <1>2, <2>2, EarlyKeepsAccess DEF CheckNodeIP, CheckIPForwarding, LinkAdd, At, GoTo,
                                        FromVerify
  <2>3. QED
    BY <2>1, <2>2
<1>3. CASE LinkSetHardwareAddr
  <2>1. mem' = [mem EXCEPT !.mac = generateDeterministicMAC(conf.nodeIP)]
    BY <1>3 DEF LinkSetHardwareAddr
  <2>2. /\ mem'.podCIDRs = mem.podCIDRs /\ mem'.vpcCIDRs = mem.vpcCIDRs
        /\ mem'.tables = mem.tables /\ mem'.verified = mem.verified
        /\ mem'.ready = mem.ready
    BY <1>m, <2>1 DEF IsMem
  <2>3. QED
    BY <1>3, <2>2, EarlyKeepsAccess DEF LinkSetHardwareAddr, At, GoTo, FromVerify
<1>4. CASE CheckLists
  <2>1. CASE Die
    BY <1>4, <2>1, <1>d DEF CheckLists, At
  <2>2. CASE ~Die
    <3>1. /\ pc = "lists" /\ UNCHANGED <<conf, forwarding>> /\ ctx' = "live"
          /\ mem' = [mem EXCEPT !.podCIDRs = parseCIDRs(conf.podCIDRs),
                                !.vpcCIDRs = parseCIDRs(conf.vpcCIDR),
                                !.region = conf.region,
                                !.instance = conf.instanceID]
          /\ pc' = IF conf.routeTableIDs = <<"">> THEN "manager"
                   ELSE IF conf.region = <<>> THEN "regionToken"
                   ELSE IF conf.instanceID = "" THEN "idToken"
                   ELSE "tables"
      BY <1>4, <2>2 DEF CheckLists, At
    <3>2. /\ mem'.podCIDRs = parseCIDRs(conf.podCIDRs)
          /\ mem'.vpcCIDRs = parseCIDRs(conf.vpcCIDR)
          /\ mem'.instance = conf.instanceID
          /\ mem'.tables = mem.tables /\ mem'.verified = mem.verified
          /\ mem'.ready = mem.ready
      BY <1>m, <3>1 DEF IsMem
    <3>3. MemType'
      BY <1>m, <3>2, ElementsList, StartupAssumption DEF MemType, parseCIDRs
    <3>4. AccessProgress'
      <4>1. mem'.verified = 0
        BY <1>m, <3>1, <3>2 DEF AccessProgress, FromVerify
      <4>2. conf.routeTableIDs = <<"">> => pc' = "manager"
        BY <3>1
      <4>3. conf.routeTableIDs # <<"">> => pc' \in {"regionToken", "idToken", "tables"}
        BY <3>1
      <4>4. conf.routeTableIDs # <<"">> /\ pc' = "idToken" => conf.instanceID = ""
        BY <3>1
      <4>5. conf.routeTableIDs # <<"">> /\ pc' = "tables" => conf.instanceID # ""
        BY <3>1
      <4>6. QED
        BY <3>1, <3>2, <4>1, <4>2, <4>3, <4>4, <4>5
           DEF AccessProgress, FromVerify, Verified, Own
    <3>5. QED
      BY <1>m, <3>1, <3>3, <3>4 DEF AccessInv
  <2>3. QED
    BY <2>1, <2>2
<1>5. CASE getToken
  BY <1>5, <1>m DEF getToken, Call, At, GoTo, AccessInv, MemType, AccessProgress,
                    FromVerify, Verified
<1>6. CASE getRegion
  <2>1. /\ pc = "region" /\ UNCHANGED <<conf, forwarding, ctx>>
        /\ pc' = IF conf.instanceID = "" THEN "idToken" ELSE "tables"
        /\ mem' = [mem EXCEPT !.region = RegionOf(conf.zone)]
    BY <1>6 DEF getRegion, Call, At, GoTo
  <2>2. /\ mem'.podCIDRs = mem.podCIDRs /\ mem'.vpcCIDRs = mem.vpcCIDRs
        /\ mem'.tables = mem.tables /\ mem'.verified = mem.verified
        /\ mem'.ready = mem.ready /\ mem'.instance = mem.instance
    BY <1>m, <2>1 DEF IsMem
  <2>3. MemType'
    BY <1>m, <2>2 DEF MemType
  <2>4. AccessProgress'
    BY <1>m, <2>1, <2>2 DEF AccessProgress, FromVerify, Verified, Own
  <2>5. QED
    BY <2>1, <2>3, <2>4 DEF AccessInv
<1>7. CASE getInstanceID
  <2>1. /\ pc = "id" /\ pc' = "tables" /\ UNCHANGED <<conf, forwarding, ctx>>
        /\ mem' = [mem EXCEPT !.instance = conf.id]
    BY <1>7 DEF getInstanceID, Call, At, GoTo
  <2>2. /\ mem'.podCIDRs = mem.podCIDRs /\ mem'.vpcCIDRs = mem.vpcCIDRs
        /\ mem'.tables = mem.tables /\ mem'.verified = mem.verified
        /\ mem'.ready = mem.ready /\ mem'.instance = conf.id
    BY <1>m, <2>1 DEF IsMem
  <2>3. MemType'
    BY <1>m, <2>2 DEF MemType
  <2>4. AccessProgress'
    BY <1>m, <2>1, <2>2 DEF AccessProgress, FromVerify, Verified, Own
  <2>5. QED
    BY <2>1, <2>3, <2>4 DEF AccessInv
<1>8. CASE CheckTables
  <2>1. CASE Die
    BY <1>8, <2>1, <1>d DEF CheckTables, At
  <2>2. CASE ~Die
    <3> DEFINE ids == ParseRouteTableIDs(conf.routeTableIDs)
    <3>1. /\ pc = "tables" /\ pc' = "eni" /\ UNCHANGED <<conf, forwarding, ctx>>
          /\ mem' = [mem EXCEPT !.tables = ids]
          /\ DOMAIN ids # {}
      BY <1>8, <2>2 DEF CheckTables, At, GoTo
    <3>2. IsList(ids)
      BY <1>m, ElementsList, StartupAssumption DEF ParseRouteTableIDs
    <3> HIDE DEF ids
    <3>3. /\ mem'.podCIDRs = mem.podCIDRs /\ mem'.vpcCIDRs = mem.vpcCIDRs
          /\ mem'.tables = ids /\ mem'.verified = mem.verified
          /\ mem'.ready = mem.ready /\ mem'.instance = mem.instance
      BY <1>m, <3>1 DEF IsMem
    <3>4. mem.verified = 0
      BY <1>m, <3>1 DEF AccessProgress, FromVerify
    <3>5. MemType'
      BY <1>m, <3>2, <3>3, <3>4 DEF MemType
    <3>6. AccessProgress'
      <4>1. mem'.instance = Own'
        BY <1>m, <3>1, <3>3 DEF AccessProgress, Own
      <4>2. FoundTables'
        BY <3>1, <3>3 DEF FoundTables, ids
      <4>3. QED
        BY <3>1, <3>3, <3>4, <4>1, <4>2 DEF AccessProgress, FromVerify, Verified
    <3>7. QED
      BY <3>1, <3>5, <3>6 DEF AccessInv
  <2>3. QED
    BY <2>1, <2>2
<1>9. CASE NewRouteTableManager
  <2>1. PICK eni \in getPrimaryENI(DescribeInstances) : mem' = [mem EXCEPT !.eni = eni]
    BY <1>9 DEF NewRouteTableManager
  <2>2. pc = "eni" /\ pc' = "verify" /\ UNCHANGED <<conf, forwarding, ctx>>
    BY <1>9 DEF NewRouteTableManager, Call, At, GoTo
  <2>3. /\ mem'.podCIDRs = mem.podCIDRs /\ mem'.vpcCIDRs = mem.vpcCIDRs
        /\ mem'.tables = mem.tables /\ mem'.verified = mem.verified
        /\ mem'.ready = mem.ready /\ mem'.region = mem.region /\ mem'.eni = eni
    BY <1>m, <2>1 DEF IsMem
  <2>4. MemType'
    BY <1>m, <2>3 DEF MemType
  <2>5. FoundENI'
    <3>1. DescribeInstances # <<>>
      <4>1. getPrimaryENI(<<>>) = {}
        BY DEF getPrimaryENI
      <4>2. QED
        BY <2>1, <4>1
    <3>2. mem.region = Region /\ mem.instance \in DOMAIN Interfaces
          /\ DescribeInstances = Interfaces[mem.instance]
      BY <3>1 DEF DescribeInstances
    <3>3. mem.instance = Own /\ Own' = Own
      BY <1>m, <2>2 DEF AccessProgress, Own
    <3>4. QED
      BY <2>1, <2>3, <3>2, <3>3 DEF FoundENI
  <2>6. FoundTables'
    BY <1>m, <2>2, <2>3 DEF AccessProgress, FoundTables
  <2>7. \A i \in DOMAIN mem'.tables \ Unverified' : mem'.tables[i] \in Readable
    <3>1. mem'.verified = 0 /\ DOMAIN mem'.tables \subseteq Nat \ {0}
      BY <1>m, <2>2, <2>3 DEF AccessProgress, FromVerify, MemType, IsList
    <3>2. Unverified' = DOMAIN mem'.tables
      BY <3>1 DEF Unverified
    <3>3. QED
      BY <3>2
  <2>8. AccessProgress'
    BY <2>2, <2>5, <2>6, <2>7 DEF AccessProgress, FromVerify, Verified
  <2>9. QED
    BY <2>2, <2>4, <2>8 DEF AccessInv
<1>10. CASE VerifyRouteTableAccess
  <2>1. pc = "verify" /\ UNCHANGED <<conf, forwarding, ctx>>
    BY <1>10 DEF VerifyRouteTableAccess, VerifyNext, Call, At, GoTo
  <2>2. FoundTables /\ FoundENI /\ DOMAIN mem.tables \subseteq Nat \ {0}
    BY <1>m, <2>1 DEF AccessProgress, MemType, IsList
  <2>3. CASE Unverified = {}
    <3>1. pc' = "manager" /\ mem' = mem
      BY <1>10, <2>3 DEF VerifyRouteTableAccess, GoTo
    <3>2. \A i \in DOMAIN mem.tables : mem.tables[i] \in Readable
      BY <1>m, <2>1, <2>3 DEF AccessProgress
    <3>3. MemType'
      BY <1>m, <3>1 DEF MemType
    <3>4. FoundTables' /\ FoundENI'
      BY <2>1, <2>2, <3>1 DEF FoundTables, FoundENI, Own
    <3>5. AccessProgress'
      BY <3>1, <3>2, <3>4 DEF AccessProgress, FromVerify, Verified
    <3>6. QED
      BY <2>1, <3>3, <3>5 DEF AccessInv
  <2>4. CASE Unverified # {}
    <3>1. PICK i \in Unverified :
             /\ \A j \in Unverified : i <= j
             /\ mem.tables[i] \in Readable
             /\ mem' = [mem EXCEPT !.verified = i]
             /\ pc' = "verify"
      BY <1>10, <2>4 DEF VerifyRouteTableAccess, VerifyNext, GoTo
    <3>2. /\ mem'.podCIDRs = mem.podCIDRs /\ mem'.vpcCIDRs = mem.vpcCIDRs
          /\ mem'.tables = mem.tables /\ mem'.verified = i
          /\ mem'.ready = mem.ready /\ mem'.region = mem.region /\ mem'.eni = mem.eni
      BY <1>m, <3>1 DEF IsMem
    <3>3. MemType'
      BY <1>m, <3>1, <3>2 DEF MemType, Unverified
    <3>4. FoundTables' /\ FoundENI'
      BY <2>1, <2>2, <3>2 DEF FoundTables, FoundENI, Own
    <3>5. ASSUME NEW k \in DOMAIN mem.tables, ~(k > i) PROVE mem.tables[k] \in Readable
      <4>1. CASE k \in Unverified
        <5>1. i <= k /\ i \in Nat /\ k \in Nat
          BY <2>2, <3>1, <4>1 DEF Unverified
        <5>2. k = i
          BY <3>5, <5>1
        <5>3. QED
          BY <3>1, <5>2
      <4>2. CASE k \notin Unverified
        BY <1>m, <2>1, <4>2 DEF AccessProgress
      <4>3. QED
        BY <4>1, <4>2
    <3>6. \A k \in DOMAIN mem'.tables \ Unverified' : mem'.tables[k] \in Readable
      BY <3>2, <3>5 DEF Unverified
    <3>7. AccessProgress'
      BY <3>1, <3>4, <3>6 DEF AccessProgress, FromVerify, Verified
    <3>8. QED
      BY <2>1, <3>3, <3>7 DEF AccessInv
  <2>5. QED
    BY <2>3, <2>4
<1>11. CASE NewManager
  <2>1. pc = "manager" /\ pc' = "ready" /\ UNCHANGED <<conf, forwarding, ctx, mem>>
    BY <1>11 DEF NewManager, At, GoTo
  <2>2. QED
    BY <1>m, <2>1 DEF AccessInv, MemType, AccessProgress, FromVerify, Verified, FoundTables,
                      FoundENI, Own
<1>12. CASE SetReady
  <2>1. /\ pc = "ready" /\ pc' = "run" /\ UNCHANGED <<conf, forwarding, ctx>>
        /\ mem' = [mem EXCEPT !.ready = TRUE]
    BY <1>12 DEF SetReady, At, GoTo
  <2>2. /\ mem'.podCIDRs = mem.podCIDRs /\ mem'.vpcCIDRs = mem.vpcCIDRs
        /\ mem'.tables = mem.tables /\ mem'.verified = mem.verified
        /\ mem'.ready = TRUE /\ mem'.region = mem.region /\ mem'.eni = mem.eni
    BY <1>m, <2>1 DEF IsMem
  <2>3. MemType'
    BY <1>m, <2>2 DEF MemType
  <2>4. AccessProgress'
    BY <1>m, <2>1, <2>2 DEF AccessProgress, FromVerify, Verified, FoundTables, FoundENI, Own
  <2>5. QED
    BY <2>1, <2>3, <2>4 DEF AccessInv
<1>13. CASE Program \/ SigTerm \/ SetForwarding \/ UNCHANGED vars
  <2>1. /\ UNCHANGED <<conf, pc, mem>> /\ forwarding' \in BOOLEAN
        /\ ctx' \in {"none", "live", "cancelled"}
    BY <1>13 DEF Program, SigTerm, SetForwarding, vars, At, AccessInv
  <2>2. QED
    BY <1>m, <2>1 DEF AccessInv, MemType, AccessProgress, FromVerify, Verified, FoundTables,
                      FoundENI, Own, Unverified
<1>14. CASE Exit \/ Terminate
  BY <1>14, DieKeepsAccess DEF Exit, Die, Terminate, At
<1>15. QED
  BY <1>1, <1>2, <1>3, <1>4, <1>5, <1>6, <1>7, <1>8, <1>9, <1>10, <1>11, <1>12,
     <1>13, <1>14 DEF Next, Step

\* The types, among them that no list main parses has a blank element and that
\* the access check never runs past the tables.
THEOREM TypeCorrect == Spec => []TypeOK
<1>1. LinkInv /\ AccessInv => TypeOK
  <2> SUFFICES ASSUME LinkInv, AccessInv PROVE TypeOK
    OBVIOUS
  <2>1. \A list \in {mem.podCIDRs, mem.vpcCIDRs, mem.tables} :
           \A i \in DOMAIN list : list[i] \in STRING \ {"", " "}
    BY DEF AccessInv, MemType, IsList
  <2>2. QED
    BY <2>1 DEF TypeOK, LinkInv, AccessInv, MemType, LinkType
<1>2. QED
  BY <1>1, InitLink, InitAccess, LinkStep, AccessStep, PTL DEF Spec

\* For any flags, metadata answers, interfaces and route tables: a gateway that
\* says it is ready has found its own primary interface and described every
\* table it was given.
THEOREM ReadyAlwaysHasAccess == Spec => []ReadyHasAccess
<1>1. AccessInv => ReadyHasAccess
  BY DEF AccessInv, AccessProgress, Verified, FoundENI, FoundTables, ReadyHasAccess, ReadyCheck
<1>2. QED
  BY <1>1, InitLink, InitAccess, LinkStep, AccessStep, PTL DEF Spec

-----------------------------------------------------------------------------
(* A configuration that suffices.                                           *)

Aws == {"regionToken", "region", "idToken", "id", "tables", "eni", "verify"}

\* AWS is asked only about given route tables, and the metadata service only
\* for what the flags do not say.
RegionInv ==
    /\ pc \in Aws => conf.routeTableIDs # <<"">>
    /\ pc \in {"regionToken", "region"} => conf.region = <<>>
    /\ pc \in {"idToken", "id", "tables", "eni"} => mem.region = OwnRegion

\* A zone of fewer than two letters has no region.
LEMMA RegionNeedsTwo ==
    ASSUME NEW S, NEW zone \in Seq(S), SubSeq(zone, 1, Len(zone) - 1) # <<>>
    PROVE  Len(zone) >= 2
<1>1. Len(zone) \in Nat
  OBVIOUS
<1>2. ~(Len(zone) - 1 < 1)
  BY <1>1, SubSeqEmpty
<1>3. QED
  BY <1>1, <1>2

LEMMA RegionStep == LinkInv /\ RegionInv /\ [Next]_vars => RegionInv'
<1> SUFFICES ASSUME LinkInv, RegionInv, [Next]_vars PROVE RegionInv'
  OBVIOUS
<1>m. IsMem(mem)
  BY DEF LinkInv
<1>0. ASSUME pc' \notin Aws PROVE RegionInv'
  BY <1>0 DEF RegionInv, Aws
<1>1. CASE Start \/ CheckNodeIP \/ CheckIPForwarding \/ DeleteExisting \/ LinkAdd
             \/ LinkByName \/ LinkSetHardwareAddr \/ LinkSetUp \/ NewManager
             \/ SetReady \/ Program \/ Exit \/ Terminate
  <2>1. pc' \notin Aws
    BY <1>1 DEF Start, CheckNodeIP, CheckIPForwarding, DeleteExisting, LinkAdd,
                LinkByName, LinkSetHardwareAddr, LinkSetUp, NewManager, SetReady,
                Program, Exit, Terminate, Die, At, GoTo, Aws
  <2>2. QED
    BY <1>0, <2>1
<1>2. CASE CheckLists
  <2>1. CASE Die
    BY <1>0, <2>1 DEF Die, Aws
  <2>2. CASE ~Die
    <3>1. /\ conf' = conf
          /\ mem' = [mem EXCEPT !.podCIDRs = parseCIDRs(conf.podCIDRs),
                                !.vpcCIDRs = parseCIDRs(conf.vpcCIDR),
                                !.region = conf.region,
                                !.instance = conf.instanceID]
          /\ pc' = IF conf.routeTableIDs = <<"">> THEN "manager"
                   ELSE IF conf.region = <<>> THEN "regionToken"
                   ELSE IF conf.instanceID = "" THEN "idToken"
                   ELSE "tables"
      BY <1>2, <2>2 DEF CheckLists, At
    <3>2. mem'.region = conf.region
      BY <1>m, <3>1 DEF IsMem
    <3>3. CASE conf.routeTableIDs = <<"">>
      BY <1>0, <3>1, <3>3 DEF Aws
    <3>4. CASE conf.routeTableIDs # <<"">> /\ conf.region = <<>>
      <4>1. pc' = "regionToken"
        BY <3>1, <3>4
      <4>2. QED
        BY <3>1, <3>4, <4>1 DEF RegionInv
    <3>5. CASE conf.routeTableIDs # <<"">> /\ conf.region # <<>>
      <4>1. pc' \in {"idToken", "tables"}
        BY <3>1, <3>5
      <4>2. OwnRegion' = conf.region
        BY <3>1, <3>5 DEF OwnRegion
      <4>3. QED
        BY <3>1, <3>2, <3>5, <4>1, <4>2 DEF RegionInv
    <3>6. QED
      BY <3>3, <3>4, <3>5
  <2>3. QED
    BY <2>1, <2>2
<1>o. ASSUME conf' = conf PROVE OwnRegion' = OwnRegion
  BY <1>o DEF OwnRegion
<1>3. CASE getToken
  BY <1>3, <1>o DEF getToken, Call, At, GoTo, RegionInv, Aws
<1>4. CASE getRegion
  <2>1. /\ pc = "region" /\ conf' = conf /\ pc' \in {"idToken", "tables"}
        /\ mem' = [mem EXCEPT !.region = RegionOf(conf.zone)]
    BY <1>4 DEF getRegion, Call, At, GoTo
  <2>2. mem'.region = RegionOf(conf.zone)
    BY <1>m, <2>1 DEF IsMem
  <2>3. OwnRegion' = RegionOf(conf.zone) /\ conf.routeTableIDs # <<"">>
    BY <2>1 DEF RegionInv, OwnRegion, Aws
  <2>4. QED
    BY <2>1, <2>2, <2>3 DEF RegionInv
<1>5. CASE getInstanceID \/ CheckTables \/ NewRouteTableManager
  <2>1. CASE Die
    BY <1>0, <2>1 DEF Die, Aws
  <2>2. CASE ~Die
    <3>1. /\ pc \in {"id", "tables", "eni"} /\ pc' \in {"tables", "eni", "verify"}
          /\ conf' = conf
          /\ \/ mem' = [mem EXCEPT !.instance = conf.id]
             \/ mem' = [mem EXCEPT !.tables = ParseRouteTableIDs(conf.routeTableIDs)]
             \/ \E eni : mem' = [mem EXCEPT !.eni = eni]
      BY <1>5, <2>2 DEF getInstanceID, CheckTables, NewRouteTableManager, Call, At, GoTo
    <3>2. mem'.region = mem.region
      BY <1>m, <3>1 DEF IsMem
    <3>3. QED
      BY <3>1, <3>2 DEF RegionInv, OwnRegion, Aws
  <2>3. QED
    BY <2>1, <2>2
<1>6. CASE VerifyRouteTableAccess
  BY <1>6 DEF VerifyRouteTableAccess, VerifyNext, Call, At, GoTo, RegionInv, Aws
<1>7. CASE SigTerm \/ SetForwarding \/ UNCHANGED vars
  BY <1>7, <1>o DEF SigTerm, SetForwarding, vars, RegionInv
<1>8. QED
  BY <1>1, <1>2, <1>3, <1>4, <1>5, <1>6, <1>7 DEF Next, Step

\* For any deployment whose flags and metadata name, in whichever mixture, its
\* own region and instance and readable tables: no check of main refuses it.
THEOREM StartableIsNeverRefused == Spec => []StartableIsNotRefused
<1>1. Init => RegionInv
  BY DEF Init, RegionInv, Aws
<1>2. AccessInv /\ RegionInv => StartableIsNotRefused
  <2> SUFFICES ASSUME AccessInv, RegionInv, Startable, conf.routeTableIDs # <<"">>
               PROVE  /\ pc = "region" => Len(conf.zone) >= 2
                      /\ pc = "eni" => /\ mem.instance # ""
                                       /\ getPrimaryENI(DescribeInstances) # {}
                      /\ pc = "verify" => \A i \in Unverified : mem.tables[i] \in Readable
    BY DEF StartableIsNotRefused, RegionInv, Aws
  <2> DEFINE ids == ParseRouteTableIDs(conf.routeTableIDs)
  <2>1. /\ \A i \in DOMAIN ids : ids[i] \in Readable
        /\ OwnRegion = Region
        /\ Own \in DOMAIN Interfaces
        /\ getPrimaryENI(Interfaces[Own]) # {}
    BY DEF Startable
  <2>2. ASSUME pc = "region" PROVE Len(conf.zone) >= 2
    <3>1. RegionOf(conf.zone) # <<>>
      BY <2>1, <2>2, StartupAssumption DEF RegionInv, OwnRegion
    <3>2. conf.zone \in Seq(STRING)
      BY StartupAssumption DEF AccessInv
    <3>3. QED
      BY <3>1, <3>2, RegionNeedsTwo DEF RegionOf
  <2>3. ASSUME pc = "eni"
        PROVE  mem.instance # "" /\ getPrimaryENI(DescribeInstances) # {}
    <3>1. mem.instance = Own /\ mem.region = Region
      BY <2>1, <2>3 DEF AccessInv, AccessProgress, RegionInv
    <3>2. DescribeInstances = Interfaces[Own]
      BY <2>1, <3>1 DEF DescribeInstances
    <3>3. QED
      BY <2>1, <3>1, <3>2, StartupAssumption
  <2>4. ASSUME pc = "verify", NEW i \in Unverified PROVE mem.tables[i] \in Readable
    <3>1. mem.tables = ids
      BY <2>4 DEF AccessInv, AccessProgress, FoundTables
    <3>2. QED
      BY <2>1, <3>1 DEF Unverified
  <2>5. QED
    BY <2>2, <2>3, <2>4
<1>3. QED
  BY <1>1, <1>2, InitLink, InitAccess, LinkStep, AccessStep, RegionStep, PTL DEF Spec
=============================================================================
