--------------------------- MODULE MCBatchUnsound ---------------------------
(***************************************************************************)
(* Calls the reuse of a worker's solver is not prepared for, on a ring of  *)
(* three buses and a fourth bus on a line of its own.                      *)
(***************************************************************************)
EXTENDS BatchSolver, TLC

MCBuses == 1..4
MCSlack == {1}
MCBranches == {"a", "b", "c", "d", "h"}
\* The half-open transformer h beside a line of the ring, or beside the only
\* line to the fourth bus.
RingFrom == ("a" :> 1) @@ ("b" :> 2) @@ ("c" :> 3) @@ ("d" :> 3) @@ ("h" :> 1)
RingTo   == ("a" :> 2) @@ ("b" :> 3) @@ ("c" :> 1) @@ ("d" :> 4) @@ ("h" :> 2)
BesideFrom == [RingFrom EXCEPT !["h"] = 3]
BesideTo   == [RingTo EXCEPT !["h"] = 4]

Out(s) == [outages |-> s, dead |-> {}]
Call(s) == << [net |-> "n1", dead |-> {}, scenarios |-> s] >>

BesideCalls == Call(<<Out(<<"a">>), Out(<<"d">>), Out(<<"d">>)>>)
=============================================================================
