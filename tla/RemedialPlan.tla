----------------------------- MODULE RemedialPlan -----------------------------
(***************************************************************************)
(* The whole optimization (rao/castor.rs, run): a preventive perimeter,    *)
(* for each contingency its automatons and its curative perimeters, maybe  *)
(* a second preventive pass over every state with what the scenarios did   *)
(* held in force, and at the end the plan against doing nothing.           *)
(*                                                                         *)
(* A search gives any of the Answers it promises and automatons do         *)
(* anything they may do (Remedial), which TreeSearch and Automatons are    *)
(* checked to respect.                                                     *)
(***************************************************************************)
EXTENDS Remedial

CONSTANTS
  Contingencies,   \* 1..n, in the CRAC's order
  StopAtTarget,    \* NoTarget under a maximum-margin objective
  MinImprovement,  \* curative-min-obj-improvement
  EnforceSecurity, \* enforce-curative-security
  Conditions       \* when a second preventive pass may be told to run

VARIABLES
  condition,       \* when a second preventive pass runs: see SecondRuns
  phase,           \* see TypeOK
  pass,            \* 1 or 2
  preventive,      \* this pass's preventive answer, with the objective it reached
  decided,         \* what the second pass decided for the later states
  scenarios,       \* what follows it, for the contingencies done
  turn,            \* the contingency being done
  open,            \* its scenario so far: what its automatons and perimeters did
  first,           \* the first pass's plan
  steps            \* StepsExecuted

vars == <<case, condition, phase, pass, preventive, decided, scenarios, turn, open, first, steps>>

Nowhere == [base |-> <<>>]

-----------------------------------------------------------------------------
(* Who looks at what.                                                       *)

Actionable(s) ==
  \/ \E a \in Actions : Operates(Rules[a], s)
  \/ \E r \in RangeActions : Operates(RangeRules[r], s)

\* The preventive perimeter: the base case, the outages, and the curative states
\* nothing can act on, pulled forward.
PreventiveStates ==
  {s \in States : \/ Kind(s) \in {"preventive", "outage"}
                  \/ Kind(s) = "curative" /\ ~Actionable(s)}
BaseStates == {s \in States : Kind(s) = "preventive"}
HeldStates == {s \in States : Kind(s) \in {"auto", "curative"}}

Curatives(k) ==
  {s.instant : s \in {t \in States : /\ t.contingency = k
                                     /\ Kind(t) = "curative" /\ Actionable(t)}}
At(i, k) == [instant |-> i, contingency |-> k]
AutoStates(k) == {s \in States : s.contingency = k /\ Kind(s) = "auto"}
HasAutomatons(k) == \E c \in Cnecs : StateOf[c] \in AutoStates(k)

Branches == Elements \ (Shifters \cup Injections)
\* Between stages the injections go back to the network file's.
Carried(grid) ==
  [e \in Elements |-> IF e \in Injections THEN Imported[e] ELSE grid[e]]

-----------------------------------------------------------------------------
(* A plan, and what it is worth.                                            *)

\* Where a state is read (final_assessment): its own curative perimeter, else
\* its contingency's automatons, else the preventive network.
GridOf(s, plan) ==
  LET k == s.contingency
      done == plan.scenarios[k]
      own == {n \in DOMAIN done.perimeters : done.perimeters[n].state = s}
  IN  IF k = None \/ k \notin DOMAIN plan.scenarios THEN plan.preventive.grid
      ELSE IF own # {} THEN done.perimeters[CHOOSE n \in own : TRUE].grid
      ELSE IF done.automatons # Nowhere /\ s \in HeldStates
           THEN [e \in Elements |-> IF e \in Injections THEN plan.preventive.grid[e]
                                                         ELSE done.automatons.grid[e]]
      ELSE plan.preventive.grid

Judge(plan) ==
  WorstOf({Margin(case, c, GridOf(StateOf[c], plan)) : c \in Optimized})

Untouched == WorstOf({Margin(case, c, Imported) : c \in Optimized})

Plan == [preventive |-> preventive, scenarios |-> scenarios]

-----------------------------------------------------------------------------
(* Preventive perimeters.                                                   *)

Question(base, perimeter, at, held, withheld, target) ==
  [base |-> base, perimeter |-> perimeter, at |-> at, held |-> held,
   withheld |-> withheld, target |-> target]

Asked(question) ==
  {[acts |-> a.acts, moved |-> a.moved, grid |-> a.grid,
    objective |-> Objective(question.perimeter, a.grid, question.held)] :
     a \in Answers(question)}

Init ==
  /\ case \in Cases
  /\ condition \in Conditions
  /\ pass = 1
  /\ preventive \in
       Asked(Question(Imported, PreventiveStates, PreventiveStates, NothingHeld, {},
                      StopAtTarget))
  /\ decided = <<>>
  /\ scenarios = [k \in {} |-> Nowhere]
  /\ turn = 1 /\ open = Nowhere
  /\ phase = "automatons"
  /\ first = Nowhere
  /\ steps = "first only"

-----------------------------------------------------------------------------
(* Scenarios.                                                               *)

\* Where decisions put the machines; of two about one machine the later stands.
Placed(rs, d) ==
  [e \in {ElementOf[r] : r \in rs} |->
     d[CHOOSE r \in rs : /\ ElementOf[r] = e
                         /\ \A q \in rs : ElementOf[q] = e => q <= r]]

\* A decided tap counts where it is neither the file's nor where the preventive
\* pass left the machine: there the curative state inherits, it decides nothing.
\* Only taps are carried over; a decided redispatch is not applied again.
Activated ==
  {r \in DOMAIN decided : LET e == ElementOf[r] IN
     e \in Shifters /\ decided[r] \notin {Imported[e], preventive.grid[e]}}
WithDecided(grid) == With(grid, Placed(Activated, decided))

\* What a curative perimeter is asked to reach: better than preventive.
CurativeTarget ==
  IF StopAtTarget # NoTarget THEN StopAtTarget
  ELSE LET beaten == preventive.objective + MinImprovement
       IN  IF EnforceSecurity /\ beaten < 0 THEN 0 ELSE beaten

Pending == turn \in Contingencies

Touched(acts, moved) ==
  {ElementOf[r] : r \in moved} \cup UNION {DOMAIN Effect[a] : a \in acts}
AutomatonsDo(handed, s) ==
  {did \in UNION {{[fired |-> fired, moved |-> moved, grid |-> With(handed, f)] :
                     f \in [Touched(fired, moved) -> Positions]} :
                   fired \in SUBSET MayAct(s).actions,
                   moved \in SUBSET MayAct(s).shifters} :
     AutomatonsMay(handed, s, did)}

Automatons ==
  /\ phase = "automatons" /\ Pending
  /\ IF HasAutomatons(turn)
     THEN \E did \in AutomatonsDo(Carried(preventive.grid), CHOOSE t \in AutoStates(turn) : TRUE) :
            open' = [automatons |-> did, perimeters |-> <<>>,
                     left |-> WithDecided(did.grid)]
     ELSE open' = [automatons |-> Nowhere, perimeters |-> <<>>,
                   left |-> WithDecided(preventive.grid)]
  /\ phase' = "curative"
  /\ UNCHANGED <<case, condition, pass, preventive, decided, scenarios, turn, first, steps>>

Searched == {open.perimeters[n].state.instant : n \in DOMAIN open.perimeters}
Remaining == Curatives(turn) \ Searched

Curative ==
  /\ phase = "curative" /\ Remaining # {}
  /\ LET s == At(CHOOSE i \in Remaining : \A j \in Remaining : i <= j, turn)
         question == Question(Carried(open.left), {s}, {s}, NothingHeld,
                              DOMAIN decided, CurativeTarget)
     IN  \E a \in Asked(question) :
           open' = [open EXCEPT
             !.perimeters = Append(@, [state |-> s, acts |-> a.acts,
                                       moved |-> a.moved, given |-> Activated,
                                       grid |-> a.grid, objective |-> a.objective]),
             !.left = a.grid]
  /\ UNCHANGED <<case, condition, phase, pass, preventive, decided, scenarios, turn, first, steps>>

Nothing == open.automatons = Nowhere /\ Curatives(turn) = {}
NextContingency ==
  /\ phase = "curative" /\ Remaining = {}
  /\ scenarios' = IF Nothing THEN scenarios
                  ELSE [k \in DOMAIN scenarios \cup {turn} |->
                          IF k = turn THEN open ELSE scenarios[k]]
  /\ turn' = turn + 1
  /\ open' = Nowhere
  /\ phase' = "automatons"
  /\ UNCHANGED <<case, condition, pass, preventive, decided, first, steps>>

AllDone == phase = "automatons" /\ ~Pending

-----------------------------------------------------------------------------
(* The second preventive pass.                                              *)

Missed(target) ==
  \E k \in DOMAIN scenarios : \E n \in DOMAIN scenarios[k].perimeters :
    scenarios[k].perimeters[n].objective < target
SecondRuns ==
  CASE condition = "cost increase" -> Judge(Plan) < Untouched
    [] condition = "possible curative improvement" ->
         Missed(IF StopAtTarget # NoTarget THEN StopAtTarget
                ELSE preventive.objective + MinImprovement)
    [] OTHER -> FALSE

\* The branches the scenarios changed, and where to: an open one wins.
After(k) ==
  IF scenarios[k].perimeters # <<>>
  THEN scenarios[k].perimeters[Len(scenarios[k].perimeters)].grid
  ELSE scenarios[k].automatons.grid
Delta ==
  LET changed == {e \in Branches : \E k \in DOMAIN scenarios :
                    After(k)[e] # preventive.grid[e]}
  IN  [e \in changed |->
         IF \E k \in DOMAIN scenarios : After(k)[e] = 1 /\ preventive.grid[e] = 0
         THEN 1 ELSE 0]

Over(f, g) ==
  [e \in DOMAIN f \cup DOMAIN g |-> IF e \in DOMAIN g THEN g[e] ELSE f[e]]
Holding(taps) == [states |-> HeldStates, delta |-> Over(Delta, taps)]

\* Every state is looked at, and still only what the preventive state allows
\* may be done.
\* a mutant: available_at is left to its default, the perimeter.
SecondQuestionOfAll ==
  Question(Imported, States, States, Holding(<<>>), {}, StopAtTarget)
SecondQuestion ==
  Question(Imported, States, BaseStates, Holding(<<>>), {}, StopAtTarget)

\* The range actions that get a column of their own for the held states, and
\* where such a column may end: one on a machine that also has a preventive column
\* is written against that one.
Columns(authority) ==
  {r \in RangeActions : Allowed(RangeRules[r], HeldStates, authority)}
Previous(r, grid, authority) ==
  IF \E q \in Usable(SecondQuestion, authority) : ElementOf[q] = ElementOf[r]
  THEN grid ELSE Imported
Decisions(grid, authority) ==
  {d \in [Columns(authority) -> Positions] : \A r \in Columns(authority) :
     d[r] \in Permitted(r, Previous(r, grid, authority))}

Of(d, elements) == {r \in DOMAIN d : ElementOf[r] \in elements}

\* A decided tap is in force where it is held; a decided redispatch is written to
\* the buses every state shares.
SecondAnswers ==
  LET authority == Constrained(Imported, SecondQuestion.held)
      untouched == Objective(States, Imported, SecondQuestion.held)
      decisive == UNION {{[answer |-> a, decided |-> d,
                           grid |-> With(a.grid, Placed(Of(d, Injections), d)),
                           held |-> Holding(Placed(Of(d, Shifters), d))] :
                            d \in Decisions(a.grid, authority)} :
                         a \in Combined(SecondQuestion, authority)}
  IN  {[preventive |-> a, decided |-> <<>>] : a \in Asked(SecondQuestion)} \cup
      IF StopAtTarget # NoTarget /\ untouched >= StopAtTarget THEN {}
      ELSE {[preventive |-> [acts |-> x.answer.acts, moved |-> x.answer.moved,
                             grid |-> x.grid,
                             objective |-> Objective(States, x.grid, x.held)],
             decided |-> x.decided] :
              x \in {y \in decisive : Objective(States, y.grid, y.held) > untouched}}

SecondPreventive ==
  /\ AllDone /\ pass = 1 /\ SecondRuns
  /\ \E a \in SecondAnswers :
       /\ preventive' = a.preventive
       /\ decided' = a.decided
  /\ first' = Plan
  /\ pass' = 2
  /\ scenarios' = [k \in {} |-> Nowhere]
  /\ turn' = 1
  /\ UNCHANGED <<case, condition, phase, open, steps>>

\* What stands when the second pass does not beat the first.
\* a mutant: the scenarios of the second pass are kept.
FallBackHalfway == [first EXCEPT !.scenarios = scenarios]
FallBack == first

Compare ==
  /\ AllDone /\ pass = 2 /\ phase # "compared"
  /\ IF Judge(Plan) > Judge(first)
     THEN /\ steps' = "second improved"
          /\ UNCHANGED <<preventive, scenarios>>
     ELSE /\ steps' = "second fell back to first"
          /\ preventive' = FallBack.preventive
          /\ scenarios' = FallBack.scenarios
  /\ phase' = "compared"
  /\ UNCHANGED <<case, condition, pass, decided, turn, open, first>>

-----------------------------------------------------------------------------
(* Was it worth doing?                                                      *)

Unoptimized(plan) ==
  [preventive |-> [acts |-> {}, moved |-> {}, grid |-> Imported, objective |-> Untouched],
   scenarios |-> [k \in DOMAIN plan.scenarios |->
     [automatons |-> Nowhere, left |-> Imported,
      perimeters |-> [n \in DOMAIN plan.scenarios[k].perimeters |->
        [state |-> plan.scenarios[k].perimeters[n].state, acts |-> {}, moved |-> {},
         given |-> {}, grid |-> Imported, objective |-> Untouched]]]]]

\* a mutant: only the preventive perimeter is weighed.
WorsePreventively(plan) ==
  Objective(PreventiveStates, plan.preventive.grid, NothingHeld)
    < Objective(PreventiveStates, Imported, NothingHeld)
Worse(plan) == Judge(plan) < Untouched

Finish ==
  /\ phase = "compared" \/ (AllDone /\ pass = 1 /\ ~SecondRuns)
  /\ IF Worse(Plan)
     THEN /\ preventive' = Unoptimized(Plan).preventive
          /\ scenarios' = Unoptimized(Plan).scenarios
          /\ steps' = IF steps = "first only" THEN "first fell back to initial"
                                              ELSE "second fell back to initial"
     ELSE UNCHANGED <<preventive, scenarios, steps>>
  /\ phase' = "planned"
  /\ UNCHANGED <<case, condition, pass, decided, turn, open, first>>

Next ==
  \/ Automatons \/ Curative \/ NextContingency
  \/ SecondPreventive \/ Compare \/ Finish

Spec == Init /\ [][Next]_vars

-----------------------------------------------------------------------------
(* Properties.                                                              *)

TypeOK ==
  /\ phase \in {"automatons", "curative", "compared", "planned"}
  /\ pass \in 1..2
  /\ preventive.grid \in Configs
  /\ DOMAIN scenarios \subseteq Contingencies
  /\ turn \in Contingencies \cup {Cardinality(Contingencies) + 1}
  /\ DOMAIN decided \subseteq RangeActions
  /\ steps \in {"first only", "first fell back to initial", "second improved",
                "second fell back to first", "second fell back to initial"}

\* The perimeters each improve themselves and do not partition the harm: the
\* finished plan, every state read in its own network, is nevertheless no worse
\* than doing nothing, and no worse than the first pass's plan when a second ran.
TheBestOfWhatWasTried ==
  phase = "planned" =>
    /\ Judge(Plan) >= Untouched
    /\ pass = 2 => Judge(Plan) >= Judge(first)

\* By a scenario, up to its nth perimeter.
TouchedBy(done, n) ==
  (IF done.automatons = Nowhere THEN {}
     ELSE Touched(done.automatons.fired, done.automatons.moved))
  \cup UNION {Touched(done.perimeters[m].acts,
                      done.perimeters[m].moved \cup done.perimeters[m].given) : m \in 1..n}
SameBut(grid, base, touched) ==
  \A e \in Elements \ (Injections \cup touched) : grid[e] = base[e]
Coherent(plan) ==
  /\ SameBut(plan.preventive.grid, Imported,
             Touched(plan.preventive.acts, plan.preventive.moved))
  /\ \A k \in DOMAIN plan.scenarios : \A n \in DOMAIN plan.scenarios[k].perimeters :
       SameBut(plan.scenarios[k].perimeters[n].grid, plan.preventive.grid,
               TouchedBy(plan.scenarios[k], n))

\* The parts of a plan belong together, whichever pass each came from: in the
\* preventive network a branch or a shifter no preventive decision touched stands
\* where the file has it, though the second pass looked at the contingencies with
\* their remedies in force; in a curative perimeter's, one that nothing of its own
\* scenario touched stands where the plan's preventive perimeter left it.
CoherentPlan == phase \in {"compared", "planned"} => Coherent(Plan)

Available(acts, moved, states) ==
  /\ \A a \in acts : \E s \in states : Operates(Rules[a], s)
  /\ \A r \in moved : \E s \in states : Operates(RangeRules[r], s)
AllowedThere(p) ==
  Available(p.acts, p.moved, {p.state}) /\ p.moved \cap p.given = {}

\* One contingency's remedies never come into force for the others: what the
\* preventive perimeter does is available in a preventive or outage state, even
\* when the second pass looks at every state, and what a curative search does is
\* available in its own state and was not decided for it already.
ActsOnlyWhereAllowed ==
  /\ Available(preventive.acts, preventive.moved,
               {s \in States : Kind(s) \in {"preventive", "outage"}})
  /\ \A k \in DOMAIN scenarios : \A n \in DOMAIN scenarios[k].perimeters :
       AllowedThere(scenarios[k].perimeters[n])

\* A column decided for the held states is not in force in the network they share
\* with the preventive ones: an injection no preventive decision moved is the file's.
DecidedIsNotInForceYet ==
  \A e \in Injections \ Touched(preventive.acts, preventive.moved) :
    preventive.grid[e] = Imported[e]
=============================================================================
