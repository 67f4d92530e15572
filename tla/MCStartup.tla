----------------------------- MODULE MCStartup -----------------------------
(***************************************************************************)
(* Instances of Startup for TLC: one deployment that is complete, and the  *)
(* same with one thing changed, for each thing main looks at.              *)
(***************************************************************************)
EXTENDS Startup

MCIP == {"10.0.0.1"}
MCRegion == <<"us-west-2">>
MCReadable == {"rtb-1", "rtb-2"}
ReadOnly == {"rtb-1"}

\* The primary interface of i-1 is not the first; i-2 has none.
MCInterfaces ==
    [id \in {"i-1", "i-2"} |->
        <<[attached |-> TRUE, device |-> 1, eni |-> "eni-b"],
          [attached |-> id = "i-1", device |-> 0, eni |-> "eni-a"]>>]

Complete ==
    [nodeIP |-> "10.0.0.1", podCIDRs |-> <<"p">>, vpcCIDR |-> <<"v", " ", "w">>,
     routeTableIDs |-> <<"rtb-1", " ", "rtb-2">>, region |-> <<>>,
     instanceID |-> "", zone |-> <<"us-west-2", "a">>, id |-> "i-1"]

MCConf ==
    {Complete,
     [Complete EXCEPT !.nodeIP = ""],
     [Complete EXCEPT !.podCIDRs = <<"">>],
     [Complete EXCEPT !.vpcCIDR = <<"", "">>],
     [Complete EXCEPT !.routeTableIDs = <<"">>],
     [Complete EXCEPT !.routeTableIDs = <<" ", "">>],
     [Complete EXCEPT !.routeTableIDs = <<"rtb-1", "rtb-3">>],
     [Complete EXCEPT !.region = MCRegion, !.zone = <<"us-west-2", "-lax-1", "a">>],
     [Complete EXCEPT !.zone = <<"us-west-2", "-lax-1", "a">>],
     [Complete EXCEPT !.zone = <<"a">>],
     [Complete EXCEPT !.region = MCRegion, !.instanceID = "i-1", !.id = ""],
     [Complete EXCEPT !.instanceID = "i-1", !.id = ""],
     [Complete EXCEPT !.id = ""],
     [Complete EXCEPT !.id = "i-2"]}
=============================================================================
