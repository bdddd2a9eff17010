----------------------------- MODULE RaoScenario -----------------------------
(***************************************************************************)
(* One contingency of a plan (rao/castor.rs, scenarios_after): from what   *)
(* the preventive perimeter answered, the automatons fire, then each       *)
(* curative instant in turn is searched on the network the one before      *)
(* left.                                                                   *)
(*                                                                         *)
(* The open branches and the transformers are carried from stage to stage. *)
(* The buses are not: every stage is handed those of the network file, so  *)
(* a redispatch decided earlier is not there.                              *)
(***************************************************************************)
EXTENDS Automatons, TreeSearch

CONSTANTS
  Contingency,
  PreventiveGrids, \* what a preventive perimeter may leave
  Targets          \* what a curative perimeter may be asked to reach

ASSUME ScenarioAssumption ==
  PreventiveGrids \subseteq Configs /\ Targets \subseteq Int

VARIABLES
  preventive,      \* the preventive perimeter's grid
  target,
  remaining,       \* the curative instants still to search, a set
  left,            \* the grid the last stage left
  stage            \* "automatons", "between", "curative", "planned"

scenariovars == <<preventive, target, remaining, left, stage>>
vars == <<case, autovars, searchvars, scenariovars>>

Actionable(s) ==
  \/ \E a \in Actions : \E rule \in Rules[a] : Covers(rule, s)
  \/ \E r \in RangeActions : \E rule \in RangeRules[r] : Covers(rule, s)
Curatives == {s \in States : /\ s.contingency = Contingency
                             /\ Kind(s) = "curative"
                             /\ Actionable(s)}

\* What a stage is handed: switching and taps as they were left, and the
\* injections of the network file.
Carried(from) ==
  [e \in Elements |-> IF e \in Injections THEN Imported[e] ELSE from[e]]

Init ==
  /\ case \in Cases
  /\ preventive \in PreventiveGrids
  /\ target \in Targets
  /\ remaining = {s.instant : s \in Curatives}
  /\ left = preventive
  /\ stage = "automatons"
  /\ handed = Carried(preventive)
  /\ Begin
  /\ searching = "idle"
  /\ question = NoWinner /\ authority = {} /\ offers = {} /\ chosen = <<>>
  /\ best = NoWinner /\ winner = NoWinner /\ ledger = <<>>
  /\ next = 1 /\ depth = 0 /\ answer = NoWinner

Simulate ==
  /\ stage = "automatons"
  /\ AutoNext
  /\ UNCHANGED <<case, searchvars, scenariovars>>

AutomatonsDone ==
  /\ stage = "automatons" /\ doing = "done"
  /\ left' = grid
  /\ stage' = "between"
  /\ UNCHANGED <<case, autovars, searchvars, preventive, target, remaining>>

NextInstant ==
  /\ stage = "between" /\ remaining # {}
  /\ LET i == CHOOSE j \in remaining : \A k \in remaining : j <= k
         here == {[instant |-> i, contingency |-> Contingency]}
     IN  /\ Ask([base |-> Carried(left), perimeter |-> here, at |-> here,
                 held |-> NothingHeld, withheld |-> {}, target |-> target])
         /\ remaining' = remaining \ {i}
  /\ stage' = "curative"
  /\ UNCHANGED <<case, autovars, preventive, target, left>>

Search ==
  /\ stage = "curative"
  /\ SearchNext
  /\ UNCHANGED <<case, autovars, scenariovars>>

Leave ==
  /\ stage = "curative" /\ searching = "answered"
  /\ left' = answer.grid
  /\ stage' = "between"
  /\ UNCHANGED <<case, autovars, searchvars, preventive, target, remaining>>

Planned ==
  /\ stage = "between" /\ remaining = {}
  /\ stage' = "planned"
  /\ UNCHANGED <<case, autovars, searchvars, preventive, target, remaining, left>>

Next == Simulate \/ AutomatonsDone \/ NextInstant \/ Search \/ Leave \/ Planned

Spec == Init /\ [][Next]_vars
=============================================================================
