----------------------------- MODULE RouteTables -----------------------------
(***************************************************************************)
(* UpdateRoutes of internal/aws/routetable.go: a gateway points the routes *)
(* of the hybrid pod CIDRs in the VPC's route tables to itself, one EC2    *)
(* call after the other.  The tables are EC2's, external; any number of    *)
(* gateways may be updating them at a time.                                *)
(*                                                                         *)
(* A route is its position in the two nested loops of UpdateRoutes         *)
(* (routeTableIDs outside, podCIDRs inside).                               *)
(***************************************************************************)
EXTENDS Gateways, Naturals

CONSTANTS NRoutes,   \* Len(routeTableIDs) * Len(podCIDRs)
          Foreign,   \* a target that is no gateway's ENI
          Unmasked   \* the routes whose CIDR is configured with host bits
                     \* set, which EC2 clears in its own record of it

ASSUME RoutesAssumption ==
    NRoutes \in Nat /\ Foreign \notin Gateway /\ Foreign # Nil

VARIABLES
    routes,   \* routes[i]: the target of route i
    upd       \* upd[g]: where g is in UpdateRoutes, and at which route

routeVars == <<routes, upd>>

Route == 1 .. NRoutes
Target == Gateway \cup {Foreign, Nil}
UpdPC == {"describe", "replace", "create"}

NotUpdating == [pc |-> "idle", i |-> 0]
Updating(pc, i) == [pc |-> pc, i |-> i]

RoutesInit ==
    /\ routes \in [Route -> Target]
    /\ upd = [g \in Gateway |-> NotUpdating]

\* Mutant: the loops run one position too far.
ReachTooFar(g, i) ==
    upd' = [upd EXCEPT ![g] = IF i <= NRoutes + 1 THEN Updating("describe", i)
                                                  ELSE NotUpdating]

\* The loops reach route i, or end.
Reach(g, i) ==
    upd' = [upd EXCEPT ![g] = IF i \in Route THEN Updating("describe", i)
                                             ELSE NotUpdating]

-----------------------------------------------------------------------------
\* getRoute compares the CIDR as it is configured with EC2's record of it.
getRoute(i) == IF i \in Unmasked THEN Nil ELSE routes[i]

\* updateRoute's decision on the route that was found.
Describe(g) ==
    /\ upd[g].pc = "describe"
    /\ LET i == upd[g].i IN
         \/ getRoute(i) = g /\ Reach(g, i + 1)
         \/ /\ getRoute(i) \notin {g, Nil}
            /\ upd' = [upd EXCEPT ![g].pc = "replace"]
         \/ /\ getRoute(i) = Nil
            /\ upd' = [upd EXCEPT ![g].pc = "create"]
    /\ UNCHANGED routes

\* EC2 replaces a route that exists, and creates one that does not.
Accepts(g) ==
    \/ upd[g].pc = "replace" /\ routes[upd[g].i] # Nil
    \/ upd[g].pc = "create" /\ routes[upd[g].i] = Nil

\* replaceRoute or createRoute succeeds.
WriteRoute(g) ==
    /\ Accepts(g)
    /\ routes' = [routes EXCEPT ![upd[g].i] = g]
    /\ Reach(g, upd[g].i + 1)

\* A call fails, and UpdateRoutes with it: EC2 refused it, did not get it, or
\* carried it out and the answer was lost.
CallFails(g) ==
    /\ upd[g].pc \in UpdPC
    /\ upd' = [upd EXCEPT ![g] = NotUpdating]
    /\ \/ UNCHANGED routes
       \/ Accepts(g) /\ routes' = [routes EXCEPT ![upd[g].i] = g]

-----------------------------------------------------------------------------
RoutesTypeOK ==
    /\ routes \in [Route -> Target]
    /\ upd \in [Gateway -> {NotUpdating} \cup [pc : UpdPC, i : Route]]
=============================================================================
