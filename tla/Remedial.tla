------------------------------- MODULE Remedial -------------------------------
(***************************************************************************)
(* What the remedial-action optimizer (src/src/rao) decides over: the      *)
(* CRAC's states, CNECs, usage rules, usage limits, network actions and    *)
(* range actions, and the configuration of the network they change.        *)
(*                                                                         *)
(* A configuration gives every element a position: a branch is closed (0)  *)
(* or open (1), a phase shifter is on a tap, an injection is shifted.      *)
(* Margin is physics: what a load flow answers for a CNEC in a             *)
(* configuration is any function of the two, fixed at the start by the     *)
(* loading.  Contingencies are not applied to configurations: a CNEC       *)
(* belongs to a state, and Margin reads it in that state.                  *)
(***************************************************************************)
EXTENDS Integers, Sequences, FiniteSets

VARIABLE case      \* the loading; it never changes

CONSTANTS
  KindOf,          \* the kind of each instant, in chronological order
  None,            \* the contingency of the base case
  States,          \* [instant, contingency]
  Cnecs, StateOf, Optimized, CountriesOf,
  Elements,
  Shifters,        \* the elements with taps; the others are branches or injections
  Injections,
  NActions,        \* network actions are 1..NActions, in the CRAC's order
  Effect,          \* what a network action does: element -> position
  Rules, Operator, Elementary,
  NRange,          \* range actions are 1..NRange
  ElementOf, Table, Ranges, RangeRules, RangeOperator,
  MaxRa, MaxTopoPerTso, MaxPstPerTso, MaxRaPerTso, MaxElementaryPerTso,
  Imported,        \* the configuration of the network file
  Cases,           \* the loadings considered
  NoTarget,        \* a search without a target maximizes
  Margin(_, _, _)  \* margin of a CNEC, in a loading and a configuration

Actions == 1..NActions
RangeActions == 1..NRange
Positions == {0, 1} \cup UNION {Table[r] : r \in RangeActions}
Configs == [Elements -> Positions]
Kind(s) == KindOf[s.instant]

\* Every margin a load flow may answer; like the numbers of the code, bounded.
Margins == {Margin(k, c, g) : k \in Cases, c \in Cnecs, g \in Configs}

ASSUME RemedialAssumption ==
  /\ NActions \in Nat /\ NRange \in Nat
  /\ KindOf \in Seq({"preventive", "outage", "auto", "curative"})
  /\ \A s \in States : s.instant \in DOMAIN KindOf
  /\ StateOf \in [Cnecs -> States] /\ Optimized \subseteq Cnecs
  /\ \A a \in Actions : /\ DOMAIN Effect[a] \subseteq Elements
                         /\ Effect[a] \in [DOMAIN Effect[a] -> Positions]
  /\ ElementOf \in [RangeActions -> Elements \cap (Shifters \cup Injections)]
  /\ \A r \in RangeActions : Table[r] \subseteq Int
  /\ MaxRa \in [DOMAIN KindOf -> Nat]
  /\ \A i \in DOMAIN KindOf :
       \A caps \in {MaxTopoPerTso[i], MaxPstPerTso[i], MaxRaPerTso[i], MaxElementaryPerTso[i]} :
         \A tso \in DOMAIN caps : caps[tso] \in Nat
  /\ Imported \in Configs
  /\ Margins \subseteq Int
  /\ Margins # {} => \E low \in Margins : \A m \in Margins : low <= m

-----------------------------------------------------------------------------
(* Usage rules: the topological half, the flow half, and the automatons'.  *)

\* UsageRule::covers
Covers(rule, s) ==
  CASE rule.kind = "state"   -> rule.state = s
    [] rule.kind = "country" -> /\ s.instant = rule.instant
                                /\ rule.contingency \in {"any", s.contingency}
    [] OTHER                 -> s.instant = rule.instant

\* Constrained::activates, against the CNECs at or below zero
Activates(rule, s, constrained) ==
  /\ Covers(rule, s)
  /\ rule.kind = "constraint" =>
       /\ rule.cnec \in constrained
       /\ \/ KindOf[rule.instant] = "preventive"
          \/ StateOf[rule.cnec].contingency = s.contingency
  /\ rule.kind = "country" =>
       \E c \in constrained :
         /\ rule.country \in CountriesOf[c]
         /\ StateOf[c].instant >= rule.instant
         /\ rule.contingency \in {"any", StateOf[c].contingency}

Allowed(rules, perimeter, constrained) ==
  \E s \in perimeter, rule \in rules : Activates(rule, s, constrained)

\* The names an automaton's covering rules answer to, among what is violated.
Names(rule, violated) ==
  CASE rule.kind = "constraint" -> {rule.cnec} \cap violated
    [] rule.kind = "country"    -> {v \in violated :
                                      rule.country \in CountriesOf[v]}
    [] OTHER                    -> violated

Unconditional(rule) == rule.kind \in {"instant", "state"}

Triggered(rules, s, violated) ==
  \E rule \in rules :
    Covers(rule, s) /\ (Unconditional(rule) \/ Names(rule, violated) # {})

Watched(rules, s, violated) ==
  UNION {Names(rule, violated) : rule \in {u \in rules : Covers(u, s)}}

-----------------------------------------------------------------------------
(* Configurations.                                                         *)

\* The later of two effects on one element is the one that stands.
With(config, effect) ==
  [e \in Elements |-> IF e \in DOMAIN effect THEN effect[e] ELSE config[e]]

Put(config, e, position) == [config EXCEPT ![e] = position]

\* A set of network actions applied in the CRAC's order.
Latest(acts, e) ==
  CHOOSE a \in acts :
    /\ e \in DOMAIN Effect[a]
    /\ \A b \in acts : e \in DOMAIN Effect[b] => b <= a
WithAll(config, acts) ==
  [e \in Elements |->
     IF \E a \in acts : e \in DOMAIN Effect[a]
       THEN Effect[Latest(acts, e)][e] ELSE config[e]]

\* Two actions touching one element conflict.
Compatible(a, b) == DOMAIN Effect[a] \cap DOMAIN Effect[b] = {}

-----------------------------------------------------------------------------
(* Measurements.  The second preventive pass measures some states with what *)
(* automatons and curative perimeters did held in force (evaluate.rs, Held) *)
(* on top of whatever grid it tries.                                        *)

NothingHeld == [states |-> {}, delta |-> <<>>]
SeenBy(s, grid, held) == IF s \in held.states THEN With(grid, held.delta) ELSE grid
MarginOf(c, grid, held) == Margin(case, c, SeenBy(StateOf[c], grid, held))

Constrained(grid, held) == {c \in Cnecs : MarginOf(c, grid, held) <= 0}

Violated(s, grid) ==
  {c \in Cnecs : StateOf[c] = s /\ Margin(case, c, grid) < 0}

NoCnecMargin == 100          \* mnec::NO_CNEC_MARGIN, what a perimeter without a CNEC has

\* objective_of without monitored CNECs: the worst optimized margin.
WorstOf(margins) ==
  IF margins = {} THEN NoCnecMargin
    ELSE CHOOSE m \in margins : \A n \in margins : m <= n
Objective(perimeter, grid, held) ==
  WorstOf({MarginOf(c, grid, held) :
             c \in {d \in Optimized : StateOf[d] \in perimeter}})

-----------------------------------------------------------------------------
(* Range actions.                                                          *)

\* tap_bounds: every range holds about its own anchor; ranges that leave no
\* tap leave them all.
Anchor(g, r, previous) ==
  CASE g.kind = "initial"  -> Imported[ElementOf[r]]
    [] g.kind = "previous" -> previous[ElementOf[r]]
    [] OTHER               -> 0
Inside(r, previous) ==
  {t \in Table[r] :
     \A g \in Ranges[r] : t - Anchor(g, r, previous) \in g.min .. g.max}
Permitted(r, previous) ==
  IF Inside(r, previous) = {} THEN Table[r] ELSE Inside(r, previous)

-----------------------------------------------------------------------------
(* Usage limits of an instant.  A TSO the CRAC does not name is unlimited.  *)

OfTso(acts, tso) == {a \in acts : Operator[a] = tso}
RangesOfTso(rs, tso) == {r \in rs : RangeOperator[r] = tso}
ElementaryOf(acts) ==
  LET sum[n \in 0..NActions] ==
        IF n = 0 THEN 0 ELSE sum[n - 1] + IF n \in acts THEN Elementary[n] ELSE 0
  IN  sum[NActions]
Within(used, caps, tso) == tso \in DOMAIN caps => used <= caps[tso]

\* Limits::admits
Admits(i, acts) ==
  /\ Cardinality(acts) <= MaxRa[i]
  /\ \A tso \in {Operator[a] : a \in acts} :
       /\ Within(Cardinality(OfTso(acts, tso)), MaxTopoPerTso[i], tso)
       /\ Within(Cardinality(OfTso(acts, tso)), MaxRaPerTso[i], tso)
       /\ Within(ElementaryOf(OfTso(acts, tso)), MaxElementaryPerTso[i], tso)

\* Limits::remaining, then Budget::admits: what the network actions leave over.
Left(limit, used) == IF used >= limit THEN 0 ELSE limit - used
BudgetAdmits(i, acts, moved) ==
  /\ Cardinality(moved) <= Left(MaxRa[i], Cardinality(acts))
  /\ \A tso \in {RangeOperator[r] : r \in moved} :
       LET used == RangesOfTso(moved, tso) IN
       /\ tso \in DOMAIN MaxRaPerTso[i] =>
            Cardinality(used) <= Left(MaxRaPerTso[i][tso],
                                      Cardinality(OfTso(acts, tso)))
       /\ Within(Cardinality({r \in used : ElementOf[r] \in Shifters}),
                 MaxPstPerTso[i], tso)

\* What the limits are about: a whole plan's remedial actions at an instant.
WithinLimits(i, acts, moved) ==
  /\ Cardinality(acts) + Cardinality(moved) <= MaxRa[i]
  /\ \A tso \in DOMAIN MaxRaPerTso[i] :
       Cardinality(OfTso(acts, tso)) + Cardinality(RangesOfTso(moved, tso))
         <= MaxRaPerTso[i][tso]
  /\ \A tso \in DOMAIN MaxTopoPerTso[i] :
       Cardinality(OfTso(acts, tso)) <= MaxTopoPerTso[i][tso]
  /\ \A tso \in DOMAIN MaxPstPerTso[i] :
       Cardinality({r \in RangesOfTso(moved, tso) : ElementOf[r] \in Shifters})
         <= MaxPstPerTso[i][tso]

-----------------------------------------------------------------------------
(* What a search may answer.  A question says which perimeter is optimized, *)
(* on which network (base), at which states actions must be available (at), *)
(* what is held in force in some states (held), the range actions decided   *)
(* elsewhere (withheld) and the objective that is good enough (target).     *)

\* A network action the search can apply: no injection, shunt or switch pair.
Expressible == {a \in Actions : DOMAIN Effect[a] \cap Injections = {}}

Offered(at, authority) == {a \in Expressible : Allowed(Rules[a], at, authority)}
Usable(question, authority) ==
  {r \in RangeActions : Allowed(RangeRules[r], question.at, authority)} \ question.withheld
Earliest(at) == CHOOSE i \in {s.instant : s \in at} : \A s \in at : i <= s.instant

PairwiseCompatible(acts) == \A a, b \in acts : a # b => Compatible(a, b)

\* The grids in which exactly these range actions stand elsewhere.
Moves(grid, moved, previous) ==
  {With(grid, [e \in {ElementOf[r] : r \in moved} |->
                 place[CHOOSE r \in moved : ElementOf[r] = e]]) :
     place \in {p \in [moved -> Positions] : \A r \in moved :
                  p[r] \in Permitted(r, previous) \ {grid[ElementOf[r]]}}}
OnePerElement(moved) ==
  \A q, r \in moved : q # r => ElementOf[q] # ElementOf[r]

\* A leaf: the range actions moved within what is left of the budget, if that
\* gains anything, on a grid its network actions have already changed.
Leaves(question, grid, acts, authority) ==
  LET untouched == Objective(question.perimeter, grid, question.held)
      usable == Usable(question, authority)
  IN  {[grid |-> grid, moved |-> {}, score |-> untouched]} \cup
      UNION {{[grid |-> g, moved |-> moved,
               score |-> Objective(question.perimeter, g, question.held)] :
                g \in {h \in Moves(grid, moved, question.base) :
                         Objective(question.perimeter, h, question.held) > untouched}} :
             moved \in {m \in SUBSET usable :
                          OnePerElement(m) /\ BudgetAdmits(Earliest(question.at), acts, m)}}

\* Allowed and compatible network actions with range actions, within the limits,
\* and a grid that is what those do to the network handed in and to no other.
Combined(question, authority) ==
  {answer \in
     UNION {{[acts |-> acts, moved |-> moved, grid |-> g] :
               g \in Moves(WithAll(question.base, acts), moved, question.base)} :
            acts \in {x \in SUBSET Offered(question.at, authority) :
                        PairwiseCompatible(x)},
            moved \in {m \in SUBSET Usable(question, authority) : OnePerElement(m)}} :
   WithinLimits(Earliest(question.at), answer.acts, answer.moved)}

\* The promise: nothing at all when the untouched perimeter is good enough; else
\* such a combination, and never a loss.
Answers(question) ==
  LET untouched == Objective(question.perimeter, question.base, question.held)
      nothing == [acts |-> {}, moved |-> {}, grid |-> question.base]
  IN  IF question.target # NoTarget /\ untouched >= question.target
      THEN {nothing}
      ELSE {nothing} \cup
           {a \in Combined(question, Constrained(question.base, question.held)) :
              Objective(question.perimeter, a.grid, question.held) > untouched}

-----------------------------------------------------------------------------
(* What the automatons of a contingency may do.                              *)

Connections == {a \in Actions : DOMAIN Effect[a] \cap (Shifters \cup Injections) = {}}
Operates(rules, s) == \E rule \in rules : Covers(rule, s)
Forced(rules, s) == \E rule \in rules : Covers(rule, s) /\ Unconditional(rule)

\* The promise: what is unconditional acts, nothing acts that no rule covers, a
\* shifter stays in its range about where it was handed over, and nothing else
\* in the network changes.
MayStand(e, handed, fired, moved) ==
  LET by == {Effect[a][e] : a \in {b \in fired : e \in DOMAIN Effect[b]}}
            \cup UNION {Permitted(r, handed) : r \in {q \in moved : ElementOf[q] = e}}
  IN  IF by = {} THEN {handed[e]} ELSE by
MayAct(s) ==
  [actions |-> {a \in Connections : Operates(Rules[a], s)},
   forced |-> {a \in Connections : Forced(Rules[a], s)},
   shifters |-> {r \in RangeActions : Operates(RangeRules[r], s)
                                        /\ ElementOf[r] \in Shifters}]
AutomatonsMay(handed, s, did) ==
  /\ MayAct(s).forced \subseteq did.fired
  /\ did.fired \subseteq MayAct(s).actions /\ did.moved \subseteq MayAct(s).shifters
  /\ \A e \in Elements : did.grid[e] \in MayStand(e, handed, did.fired, did.moved)
=============================================================================
