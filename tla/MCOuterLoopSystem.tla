-------------------------- MODULE MCOuterLoopSystem --------------------------
(***************************************************************************)
(* A slack bus and a chain of two machines: the one at "gen" holds the bus *)
(* the other stands at, and that one holds a bus beyond.                   *)
(***************************************************************************)
EXTENDS OuterLoopSystem, TLC

MCBuses == {"slack", "gen", "held", "far"}
MCTypes == ("slack" :> "Slack") @@ ("gen" :> "PQ") @@ ("held" :> "PV")
           @@ ("far" :> "PV")
MCMachines == {"m1", "m2"}
MCAt == ("m1" :> "gen") @@ ("m2" :> "held")
MCControls == ("m1" :> "held") @@ ("m2" :> "far")

AllLoops == <<"remote", "balance", "qlimits">>
AllKinds == <<"Nothing", "Nothing", "Pattern">>
=============================================================================
