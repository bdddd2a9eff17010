-------------------------- MODULE ControlFixedPoint --------------------------
(***************************************************************************)
(* What solve_with_loops promises, with no word of how the list of loops   *)
(* is walked: the network is solved, then adjusted and solved again at     *)
(* most Budget times, and the run ends with one verdict.  It may be        *)
(* "converged" only in a state every loop accepts; any other end is        *)
(* "stopped".  Nothing happens after the verdict.                          *)
(***************************************************************************)
EXTENDS Naturals

CONSTANTS NLoops, Budget

LoopIds == 1..NLoops

VARIABLES
  ok,          \* which loops accept the current solved state
  resolves,    \* re-solves so far
  verdict      \* "unsolved", "running", "converged" or "stopped"

vars == <<ok, resolves, verdict>>

Init ==
  /\ ok = [i \in LoopIds |-> FALSE]
  /\ resolves = 0
  /\ verdict = "unsolved"

\* The first solve may already be one no loop can be asked about.
Solve ==
  /\ verdict = "unsolved"
  /\ ok' \in [LoopIds -> BOOLEAN]
  /\ \/ verdict' \in {"running", "stopped"}
     \/ NLoops = 0 /\ verdict' = "converged"
  /\ UNCHANGED resolves

\* One loop moved something and the network was solved again.
Adjust ==
  /\ verdict = "running"
  /\ resolves < Budget
  /\ ok' \in [LoopIds -> BOOLEAN]
  /\ resolves' = resolves + 1
  /\ verdict' \in {"running", "stopped"}

Accept ==
  /\ verdict = "running"
  /\ \A i \in LoopIds : ok[i]
  /\ verdict' = "converged"
  /\ UNCHANGED <<ok, resolves>>

GiveUp ==
  /\ verdict = "running"
  /\ verdict' = "stopped"
  /\ UNCHANGED <<ok, resolves>>

Next == Solve \/ Adjust \/ Accept \/ GiveUp

Safety == Init /\ [][Next]_vars

Spec == Safety /\ WF_vars(Next)
=============================================================================
