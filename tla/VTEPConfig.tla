----------------------------- MODULE VTEPConfig -----------------------------
(***************************************************************************)
(* UpsertCiliumVTEPConfig of internal/cilium/vtep.go, run by several       *)
(* writers at a time: in each gateway the leader's Setup and the           *)
(* VTEPConfig reconciler call it, in two goroutines.                       *)
(*                                                                         *)
(* The object is the API server's, external.  Get reads it from the server *)
(* (the manager's client does not cache unstructured objects), and Update  *)
(* is refused when the object's resourceVersion is not the one that was    *)
(* read.  All that matters of the version is whether it still is: `fresh'. *)
(* `got' is the object that was read, which the code keeps for its version *)
(* alone.                                                                  *)
(***************************************************************************)
EXTENDS Gateways, Naturals, Sequences

CONSTANT VpcCIDRs    \* the VPC CIDRs every gateway is configured with

IsSeq(s) == s \in Seq({s[i] : i \in DOMAIN s})

ASSUME VpcCIDRsAssumption == IsSeq(VpcCIDRs)

VARIABLES
    crd,    \* the CiliumVTEPConfig "hybrid-gateway", or Nil
    ups     \* ups[w]: where writer w is in UpsertCiliumVTEPConfig

configVars == <<crd, ups>>

Writer == Gateway \X {"setup", "reconciler"}
GatewayOf(w) == w[1]

ASSUME WriterAssumption == Nil \notin Writer

NotUpserting == [pc |-> "idle", got |-> Nil, fresh |-> FALSE]
UpsPC == {"get", "create", "update"}

ConfigInit == ups = [w \in Writer |-> NotUpserting]

-----------------------------------------------------------------------------
(* The object's content: spec.endpoints, or Nil when the field is missing.  *)

EndpointName(i) ==
    IF Len(VpcCIDRs) > 1 THEN <<"vpc-gateway", i - 1>> ELSE <<"vpc-gateway">>

Desired(g) ==
    [endpoints |-> [i \in DOMAIN VpcCIDRs |->
        [name |-> EndpointName(i), tunnelEndpoint |-> g,
         cidr |-> VpcCIDRs[i], mac |-> <<"mac", g>>]]]

\* Mutant: an endpoint is compared by its address and its MAC only.
IgnoreCIDRs(existing, g) ==
    ~ /\ existing.endpoints # Nil
      /\ Len(existing.endpoints) = Len(VpcCIDRs)
      /\ \A i \in DOMAIN VpcCIDRs :
            LET ep == existing.endpoints[i] IN
               ep.tunnelEndpoint = g /\ ep.mac = <<"mac", g>>

needsUpdate(existing, g) ==
    ~ /\ existing.endpoints # Nil
      /\ Len(existing.endpoints) = Len(VpcCIDRs)
      /\ \A i \in DOMAIN VpcCIDRs :
            LET ep == existing.endpoints[i] IN
               /\ ep.tunnelEndpoint = g
               /\ ep.mac = <<"mac", g>>
               /\ ep.cidr = VpcCIDRs[i]

\* What Cilium does with an object: the endpoint and the MAC of each CIDR.
Forwarding(object) ==
    {[cidr |-> object.endpoints[i].cidr, mac |-> object.endpoints[i].mac,
      to |-> object.endpoints[i].tunnelEndpoint] : i \in DOMAIN object.endpoints}

\* Cilium sends the traffic for every VPC CIDR to gateway g.
PointsTo(g) ==
    /\ crd # Nil
    /\ crd.endpoints # Nil
    /\ Forwarding(crd) = Forwarding(Desired(g))

-----------------------------------------------------------------------------
(* UpsertCiliumVTEPConfig.  Upsert and the writes leave the calling writer  *)
(* idle; what its caller does with the result is the caller's part.         *)

BeginUpsert(w) == ups' = [ups EXCEPT ![w] = [NotUpserting EXCEPT !.pc = "get"]]

\* Any write gives the object another version: what writers have read of it,
\* and have not written yet, is stale.  Writer w is done (Nil: no writer).
Write(object, w) ==
    /\ crd' = object
    /\ ups' = [v \in Writer |->
                  IF v = w THEN NotUpserting ELSE [ups[v] EXCEPT !.fresh = FALSE]]

Return(w) == ups' = [ups EXCEPT ![w] = NotUpserting] /\ UNCHANGED crd

\* Get, and the decision on what was found.
GetMissing(w) ==
    /\ ups[w].pc = "get" /\ crd = Nil
    /\ ups' = [ups EXCEPT ![w].pc = "create"]
    /\ UNCHANGED crd

GetWrong(w) ==
    /\ ups[w].pc = "get" /\ crd # Nil /\ needsUpdate(crd, GatewayOf(w))
    /\ ups' = [ups EXCEPT ![w] = [pc |-> "update", got |-> crd, fresh |-> TRUE]]
    /\ UNCHANGED crd

GetUpToDate(w) ==
    /\ ups[w].pc = "get" /\ crd # Nil /\ ~needsUpdate(crd, GatewayOf(w))
    /\ Return(w)

CreateOK(w) ==
    ups[w].pc = "create" /\ crd = Nil /\ Write(Desired(GatewayOf(w)), w)

\* Somebody else has created it: no error, whatever it holds.
CreateExists(w) == ups[w].pc = "create" /\ crd # Nil /\ Return(w)

\* Mutant: the version that was read is not sent with the update.
BlindUpdate(w) ==
    ups[w].pc = "update" /\ crd # Nil /\ Write(Desired(GatewayOf(w)), w)

UpdateOK(w) ==
    ups[w].pc = "update" /\ ups[w].fresh /\ Write(Desired(GatewayOf(w)), w)

Upserted(w) == GetUpToDate(w) \/ CreateOK(w) \/ CreateExists(w) \/ UpdateOK(w)

UpsertGoesOn(w) == GetMissing(w) \/ GetWrong(w)

\* An error: the call was refused (a conflict, for one) or did not reach the
\* server, or it was carried out and the answer was lost.
UpsertFails(w) ==
    \/ ups[w].pc \in UpsPC /\ Return(w)
    \/ CreateOK(w)
    \/ UpdateOK(w)
=============================================================================
