---------------------------- MODULE MCBatchSolver ----------------------------
(***************************************************************************)
(* A ring of three buses with a half-open transformer beside one of its    *)
(* lines, and a fourth bus on a line of its own.                           *)
(***************************************************************************)
EXTENDS BatchSolver, TLC

MCBuses == 1..4
MCSlack == {1}
MCBranches == {"a", "b", "c", "d", "h"}
MCFrom == ("a" :> 1) @@ ("b" :> 2) @@ ("c" :> 3) @@ ("d" :> 3) @@ ("h" :> 1)
MCTo   == ("a" :> 2) @@ ("b" :> 3) @@ ("c" :> 1) @@ ("d" :> 4) @@ ("h" :> 2)

Out(s) == [outages |-> s, dead |-> {}]
Call(n, s) == [net |-> n, dead |-> {}, scenarios |-> s]

\* Severing and other outages in one call, a call on the same network that
\* finds the workers' solvers, one on another network that must not, and
\* the two calls that spawn nothing.
MCCalls ==
  << Call("n1", <<Out(<<"d">>), Out(<<"a">>), Out(<<"b", "h">>)>>),
     Call("n1", <<>>),
     Call("n1", <<Out(<<"c">>), Out(<<"d", "a">>)>>),
     Call("n1", <<Out(<<NoBranch>>)>>),
     Call("n2", <<Out(<<>>), Out(<<"h">>)>>) >>

\* The instance is one the theorems of BatchSolverProofs speak of.
ASSUME CallsAreSound == SoundCalls
=============================================================================
