-------------------------- MODULE RemedialPlanProofs --------------------------
(***************************************************************************)
(* What a plan keeps to whatever the searches and the automatons answer,   *)
(* for any CRAC, any loadings and any number of contingencies: remedial    *)
(* actions stay where a usage rule offers them, and the plan reported is   *)
(* no worse than what was tried besides.                                   *)
(***************************************************************************)
EXTENDS RemedialPlan, SequenceTheorems, WellFoundedInduction, TLAPS

-----------------------------------------------------------------------------
(* Actions only where they are allowed.                                     *)

BaseAndOutages == {s \in States : Kind(s) \in {"preventive", "outage"}}

LEMMA AllowedOperates ==
  ASSUME NEW rules, NEW at, NEW authority, Allowed(rules, at, authority)
  PROVE  \E s \in at : Operates(rules, s)
  BY DEF Allowed, Activates, Operates

\* Nothing can be done in a state that is pulled forward.
LEMMA PreventiveMeansBase ==
  ASSUME NEW acts \in SUBSET Actions, NEW moved \in SUBSET RangeActions,
         Available(acts, moved, PreventiveStates)
  PROVE  Available(acts, moved, BaseAndOutages)
<1>1. \A s \in PreventiveStates : Actionable(s) => s \in BaseAndOutages
  BY DEF PreventiveStates, BaseAndOutages
<1>2. \A a \in acts, s \in States : Operates(Rules[a], s) => Actionable(s)
  BY DEF Actionable
<1>3. \A r \in moved, s \in States : Operates(RangeRules[r], s) => Actionable(s)
  BY DEF Actionable
<1> QED
  BY <1>1, <1>2, <1>3 DEF Available, PreventiveStates

LEMMA BaseMeansBase ==
  ASSUME NEW acts, NEW moved, Available(acts, moved, BaseStates)
  PROVE  Available(acts, moved, BaseAndOutages)
  BY DEF Available, BaseStates, BaseAndOutages

LEMMA NothingIsAvailable ==
  ASSUME NEW at
  PROVE  Available({}, {}, at)
  BY DEF Available

LEMMA CombinedAllowed ==
  ASSUME NEW question, NEW authority, NEW answer \in Combined(question, authority)
  PROVE  /\ answer.acts \in SUBSET Actions /\ answer.moved \in SUBSET RangeActions
         /\ Available(answer.acts, answer.moved, question.at)
         /\ answer.moved \cap question.withheld = {}
<1>1. PICK acts \in SUBSET Offered(question.at, authority),
           moved \in SUBSET Usable(question, authority) :
        answer.acts = acts /\ answer.moved = moved
  BY Z3 DEF Combined
<1>2. \A a \in acts : a \in Actions /\ \E s \in question.at : Operates(Rules[a], s)
  BY AllowedOperates DEF Offered, Expressible
<1>3. \A r \in moved : /\ r \in RangeActions /\ r \notin question.withheld
                       /\ \E s \in question.at : Operates(RangeRules[r], s)
  BY AllowedOperates DEF Usable
<1> QED
  BY <1>1, <1>2, <1>3 DEF Available

LEMMA AnswersAllowed ==
  ASSUME NEW question, NEW answer \in Answers(question)
  PROVE  /\ answer.acts \in SUBSET Actions /\ answer.moved \in SUBSET RangeActions
         /\ Available(answer.acts, answer.moved, question.at)
         /\ answer.moved \cap question.withheld = {}
<1> DEFINE nothing == [acts |-> {}, moved |-> {}, grid |-> question.base]
           authority == Constrained(question.base, question.held)
<1>1. answer = nothing \/ answer \in Combined(question, authority)
  BY DEF Answers
<1>2. CASE answer = nothing
  BY <1>2, NothingIsAvailable
<1>3. CASE answer \in Combined(question, authority)
  BY <1>3, CombinedAllowed
<1> QED
  BY <1>1, <1>2, <1>3

\* What Asked adds is the objective.
LEMMA AskedAllowed ==
  ASSUME NEW question, NEW a \in Asked(question)
  PROVE  /\ a.acts \in SUBSET Actions /\ a.moved \in SUBSET RangeActions
         /\ Available(a.acts, a.moved, question.at)
         /\ a.moved \cap question.withheld = {}
<1>1. PICK answer \in Answers(question) : a.acts = answer.acts /\ a.moved = answer.moved
  BY DEF Asked
<1> QED
  BY <1>1, AnswersAllowed

LEMMA SecondAllowed ==
  ASSUME NEW a \in SecondAnswers
  PROVE  Available(a.preventive.acts, a.preventive.moved, BaseAndOutages)
<1> DEFINE authority == Constrained(Imported, SecondQuestion.held)
<1>0. SecondQuestion.at = BaseStates
  BY DEF SecondQuestion, Question
<1>1. \/ \E b \in Asked(SecondQuestion) : a.preventive = b
      \/ \E b \in Combined(SecondQuestion, authority) :
           a.preventive.acts = b.acts /\ a.preventive.moved = b.moved
  BY Z3 DEF SecondAnswers
<1>2. CASE \E b \in Asked(SecondQuestion) : a.preventive = b
  BY <1>0, <1>2, AskedAllowed, BaseMeansBase
<1>3. CASE \E b \in Combined(SecondQuestion, authority) :
             a.preventive.acts = b.acts /\ a.preventive.moved = b.moved
  BY <1>0, <1>3, CombinedAllowed, BaseMeansBase
<1> QED
  BY <1>1, <1>2, <1>3

\* A search in one state of a contingency.
LEMMA SearchedAllowed ==
  ASSUME NEW s, NEW base, NEW withheld, NEW target, NEW given \in SUBSET withheld,
         NEW a \in Asked(Question(base, {s}, {s}, NothingHeld, withheld, target)),
         NEW p, p.state = s, p.acts = a.acts, p.moved = a.moved, p.given = given
  PROVE  AllowedThere(p)
<1> DEFINE question == Question(base, {s}, {s}, NothingHeld, withheld, target)
<1>1. question.at = {s} /\ question.withheld = withheld
  BY DEF Question
<1>2. /\ Available(a.acts, a.moved, question.at)
      /\ a.moved \cap question.withheld = {}
  BY AskedAllowed
<1> QED
  BY <1>1, <1>2 DEF AllowedThere

-----------------------------------------------------------------------------
(* What the plan is made of.  While the second pass runs, the first pass's   *)
(* plan must be as allowed, for it may come back.                            *)

Perimeters(list) == \A n \in DOMAIN list : AllowedThere(list[n])
AllowedPlan(plan) ==
  /\ Available(plan.preventive.acts, plan.preventive.moved, BaseAndOutages)
  /\ \A k \in DOMAIN plan.scenarios : Perimeters(plan.scenarios[k].perimeters)

AllowedInv ==
  /\ AllowedPlan(Plan)
  /\ phase = "curative" => /\ open = [automatons |-> open.automatons,
                                      perimeters |-> open.perimeters, left |-> open.left]
                           /\ open.perimeters \in Seq(Range(open.perimeters))
                           /\ Perimeters(open.perimeters)
  /\ pass = 2 => AllowedPlan(first)

\* A list with one element more.
LEMMA OneMore ==
  ASSUME NEW list, list \in Seq(Range(list)), NEW p
  PROVE  /\ Append(list, p) \in Seq(Range(Append(list, p)))
         /\ \A n \in DOMAIN Append(list, p) :
              \/ Append(list, p)[n] = p
              \/ n \in DOMAIN list /\ Append(list, p)[n] = list[n]
<1> DEFINE S == Range(list) \cup {p}
           longer == Append(list, p)
<1>1. list \in Seq(S)
  BY DEF Range
<1>2. /\ longer \in Seq(S) /\ Len(longer) = Len(list) + 1
      /\ \A n \in 1..Len(list) : longer[n] = list[n]
      /\ longer[Len(list) + 1] = p
  BY <1>1, AppendProperties
<1>3. DOMAIN longer = 1..Len(longer) /\ DOMAIN list = 1..Len(list) /\ Len(list) \in Nat
  BY <1>1, <1>2
<1>4. longer \in Seq(Range(longer))
  BY <1>2, SeqOfRange
<1>5. \A n \in DOMAIN longer : \/ longer[n] = p
                               \/ n \in DOMAIN list /\ longer[n] = list[n]
  BY <1>2, <1>3
<1> QED
  BY <1>4, <1>5

LEMMA AllowedInit == Init => AllowedInv
<1> SUFFICES ASSUME Init PROVE AllowedInv
  OBVIOUS
<1> DEFINE question == Question(Imported, PreventiveStates, PreventiveStates, NothingHeld, {},
                                StopAtTarget)
<1>1. preventive \in Asked(question) /\ question.at = PreventiveStates
  BY DEF Init, Question
<1>2. Available(preventive.acts, preventive.moved, BaseAndOutages)
  BY <1>1, AskedAllowed, PreventiveMeansBase
<1>3. scenarios = [k \in {} |-> Nowhere] /\ phase = "automatons" /\ pass = 1
  BY DEF Init
<1> QED
  BY <1>2, <1>3 DEF AllowedInv, AllowedPlan, Plan

LEMMA UnoptimizedAllowed ==
  ASSUME NEW plan
  PROVE  AllowedPlan(Unoptimized(plan))
<1> DEFINE u == Unoptimized(plan)
<1>1. Available(u.preventive.acts, u.preventive.moved, BaseAndOutages)
  BY NothingIsAvailable DEF Unoptimized
<1>2. ASSUME NEW k \in DOMAIN u.scenarios,
             NEW n \in DOMAIN u.scenarios[k].perimeters
      PROVE  AllowedThere(u.scenarios[k].perimeters[n])
  <2>1. k \in DOMAIN plan.scenarios
    BY DEF Unoptimized
  <2>2. u.scenarios[k].perimeters =
          [m \in DOMAIN plan.scenarios[k].perimeters |->
            [state |-> plan.scenarios[k].perimeters[m].state, acts |-> {}, moved |-> {},
             given |-> {}, grid |-> Imported, objective |-> Untouched]]
    BY <2>1 DEF Unoptimized
  <2>3. u.scenarios[k].perimeters[n].acts = {} /\ u.scenarios[k].perimeters[n].moved = {}
    BY <2>2
  <2> QED
    BY <2>3, NothingIsAvailable DEF AllowedThere
<1> QED
  BY <1>1, <1>2 DEF AllowedPlan, Perimeters

LEMMA AllowedNext == AllowedInv /\ [Next]_vars => AllowedInv'
<1> SUFFICES ASSUME AllowedInv, [Next]_vars PROVE AllowedInv'
  OBVIOUS
<1>1. CASE Automatons
  <2>1. PICK did, grid : open' = [automatons |-> did, perimeters |-> <<>>, left |-> grid]
    <3>1. CASE HasAutomatons(turn)
      <4>1. PICK did \in AutomatonsDo(Carried(preventive.grid), CHOOSE t \in AutoStates(turn) : TRUE) :
              open' = [automatons |-> did, perimeters |-> <<>>,
                       left |-> WithDecided(did.grid)]
        BY <1>1, <3>1, Zenon DEF Automatons
      <4> QED
        BY <4>1
    <3>2. CASE ~HasAutomatons(turn)
      BY <1>1, <3>2, Zenon DEF Automatons
    <3> QED
      BY <3>1, <3>2
  <2>2. <<>> \in Seq(Range(<<>>)) /\ Perimeters(<<>>)
    BY DEF Perimeters
  <2> QED
    BY <1>1, <2>1, <2>2 DEF Automatons, AllowedInv, AllowedPlan, Plan
<1>2. CASE Curative
  <2> DEFINE s == At(CHOOSE i \in Remaining : \A j \in Remaining : i <= j, turn)
             question == Question(Carried(open.left), {s}, {s}, NothingHeld,
                                  DOMAIN decided, CurativeTarget)
             done(a) == [state |-> s, acts |-> a.acts, moved |-> a.moved,
                         given |-> Activated, grid |-> a.grid, objective |-> a.objective]
  <2>1. PICK a \in Asked(question) :
          open' = [open EXCEPT !.perimeters = Append(@, done(a)), !.left = a.grid]
    BY <1>2 DEF Curative
  <2>2. AllowedThere(done(a))
    <3>1. Activated \in SUBSET DOMAIN decided
      BY DEF Activated
    <3> QED
      BY <3>1, SearchedAllowed
  <2>3. /\ Append(open.perimeters, done(a)) \in Seq(Range(Append(open.perimeters, done(a))))
        /\ Perimeters(Append(open.perimeters, done(a)))
    <3> HIDE DEF done
    <3>1. open.perimeters \in Seq(Range(open.perimeters)) /\ Perimeters(open.perimeters)
      BY <1>2 DEF Curative, AllowedInv
    <3> QED
      BY <2>2, <3>1, OneMore DEF Perimeters
  <2>4. open' = [automatons |-> open.automatons,
                 perimeters |-> Append(open.perimeters, done(a)), left |-> a.grid]
    BY <1>2, <2>1 DEF Curative, AllowedInv
  <2>5. UNCHANGED <<phase, pass, preventive, scenarios, first>>
    BY <1>2 DEF Curative
  <2> HIDE DEF done
  <2> QED
    BY <1>2, <2>3, <2>4, <2>5 DEF AllowedInv, AllowedPlan, Plan
<1>3. CASE NextContingency
  <2>1. \A k \in DOMAIN scenarios' : Perimeters(scenarios'[k].perimeters)
    BY <1>3 DEF NextContingency, AllowedInv, AllowedPlan, Plan
  <2> QED
    BY <1>3, <2>1 DEF NextContingency, AllowedInv, AllowedPlan, Plan
<1>4. CASE SecondPreventive
  <2>1. PICK a \in SecondAnswers : preventive' = a.preventive
    BY <1>4 DEF SecondPreventive
  <2>2. Available(preventive'.acts, preventive'.moved, BaseAndOutages)
    BY <2>1, SecondAllowed
  <2> QED
    BY <1>4, <2>2 DEF SecondPreventive, AllDone, AllowedInv, AllowedPlan, Plan
<1>5. CASE Compare
  BY <1>5 DEF Compare, FallBack, AllowedInv, AllowedPlan, Plan, AllDone
<1>6. CASE Finish
  <2>1. AllowedPlan(Unoptimized(Plan))
    BY UnoptimizedAllowed
  <2>2. AllowedPlan(Plan')
    BY <1>6, <2>1 DEF Finish, AllowedInv, AllowedPlan, Plan
  <2> QED
    BY <1>6, <2>2 DEF Finish, AllowedInv, AllowedPlan
<1>7. CASE UNCHANGED vars
  BY <1>7 DEF vars, AllowedInv, AllowedPlan, Plan, Perimeters
<1> QED
  BY <1>1, <1>2, <1>3, <1>4, <1>5, <1>6, <1>7 DEF Next

\* Whatever the searches and the automatons answer, for any CRAC: remedial actions
\* are used only in states their usage rules offer them in, and no curative search
\* moves what the second preventive pass has decided for it.
THEOREM RemediesStayInTheirStates == Spec => []ActsOnlyWhereAllowed
<1>1. AllowedInv => ActsOnlyWhereAllowed
  BY DEF AllowedInv, AllowedPlan, Plan, Perimeters, ActsOnlyWhereAllowed, BaseAndOutages
<1> QED
  BY <1>1, AllowedInit, AllowedNext, PTL DEF Spec

-----------------------------------------------------------------------------
(* No worse than what was tried besides.  The comparisons say so at once     *)
(* wherever the objectives compared are numbers: that every network a plan   *)
(* is judged in is a configuration of this grid is what takes an invariant.  *)

LEMMA SmallestExists ==
  ASSUME NEW S \in SUBSET Int, S # {}, NEW low \in Int, \A m \in S : low <= m
  PROVE  \E m \in S : \A n \in S : m <= n
<1> DEFINE T == {m - low : m \in S}
<1>1. ASSUME NEW t \in T PROVE t \in Nat
  <2>1. PICK m \in S : t = m - low
    OBVIOUS
  <2>2. m \in Int /\ low <= m
    OBVIOUS
  <2> QED
    BY <2>1, <2>2
<1>2. T \in SUBSET Nat /\ T # {}
  BY <1>1
<1>3. PICK t \in T : \A u \in T : ~(<<u, t>> \in OpToRel(<, Nat))
  BY <1>2, NatLessThanWellFounded, WFMin
<1>4. PICK m \in S : t = m - low
  OBVIOUS
<1>5. ASSUME NEW n \in S PROVE m <= n
  <2> DEFINE u == n - low
  <2>1. u \in T /\ u \in Nat /\ t \in Nat
    BY <1>1
  <2>2. ~(u < t)
    BY <1>3, <2>1 DEF OpToRel
  <2>3. m \in Int /\ n \in Int
    OBVIOUS
  <2> QED
    BY <1>4, <2>1, <2>2, <2>3
<1> QED
  BY <1>5

LEMMA LargestExists ==
  ASSUME NEW n \in Nat, NEW S \in SUBSET (1..n), S # {}
  PROVE  \E m \in S : \A k \in S : k <= m
<1> DEFINE T == {n - k : k \in S}
<1>1. ASSUME NEW t \in T PROVE t \in Int /\ 0 <= t
  <2>1. PICK k \in S : t = n - k
    OBVIOUS
  <2>2. k \in 1..n
    OBVIOUS
  <2> QED
    BY <2>1, <2>2
<1>2. T \in SUBSET Int /\ T # {} /\ \A t \in T : 0 <= t
  BY <1>1
<1> HIDE DEF T
<1>3. PICK t \in T : \A u \in T : t <= u
  BY <1>2, SmallestExists
<1>4. PICK m \in S : t = n - m
  BY DEF T
<1>5. ASSUME NEW k \in S PROVE k <= m
  <2>1. n - k \in T
    BY DEF T
  <2>2. t <= n - k
    BY <1>3, <2>1
  <2>3. m \in Int /\ k \in Int
    OBVIOUS
  <2> QED
    BY <1>4, <2>2, <2>3
<1> QED
  BY <1>5

LEMMA WorstIsANumber ==
  ASSUME NEW margins \in SUBSET Margins
  PROVE  WorstOf(margins) \in Int
<1>1. CASE margins = {}
  BY <1>1 DEF WorstOf, NoCnecMargin
<1>2. CASE margins # {}
  <2>1. Margins \in SUBSET Int /\ Margins # {}
    BY <1>2, RemedialAssumption
  <2>2. PICK low \in Margins : \A m \in Margins : low <= m
    BY <2>1, RemedialAssumption
  <2>3. \E m \in margins : \A n \in margins : m <= n
    BY <1>2, <2>1, <2>2, SmallestExists
  <2> QED
    BY <1>2, <2>1, <2>3 DEF WorstOf
<1> QED
  BY <1>1, <1>2

LEMMA WithIsAConfig ==
  ASSUME NEW config \in Configs, NEW effect, \A e \in DOMAIN effect : effect[e] \in Positions
  PROVE  With(config, effect) \in Configs
  BY DEF With, Configs

LEMMA CarriedIsAConfig == ASSUME NEW grid \in Configs PROVE Carried(grid) \in Configs
  BY RemedialAssumption DEF Carried, Configs

\* Compatible actions never touch an element twice.
LEMMA WithAllIsAConfig ==
  ASSUME NEW config \in Configs, NEW acts \in SUBSET Actions, PairwiseCompatible(acts)
  PROVE  WithAll(config, acts) \in Configs
<1> SUFFICES ASSUME NEW e \in Elements, \E a \in acts : e \in DOMAIN Effect[a]
             PROVE  Effect[Latest(acts, e)][e] \in Positions
  BY DEF WithAll, Configs
<1>1. PICK a \in acts : e \in DOMAIN Effect[a]
  OBVIOUS
<1>2. \A b \in acts : e \in DOMAIN Effect[b] => b = a
  BY <1>1 DEF PairwiseCompatible, Compatible
<1>3. a \in Int /\ a <= a
  BY DEF Actions
<1>4. Latest(acts, e) \in acts /\ e \in DOMAIN Effect[Latest(acts, e)]
  BY <1>1, <1>2, <1>3 DEF Latest
<1> QED
  BY <1>4, RemedialAssumption

LEMMA MovesAreConfigs ==
  ASSUME NEW grid \in Configs, NEW moved \in SUBSET RangeActions, NEW previous
  PROVE  Moves(grid, moved, previous) \subseteq Configs
<1> SUFFICES ASSUME NEW g \in Moves(grid, moved, previous) PROVE g \in Configs
  OBVIOUS
<1> DEFINE standing(p) == [e \in {ElementOf[r] : r \in moved} |->
                             p[CHOOSE r \in moved : ElementOf[r] = e]]
<1>1. PICK place \in [moved -> Positions] : g = With(grid, standing(place))
  BY DEF Moves
<1>2. ASSUME NEW e \in DOMAIN standing(place) PROVE standing(place)[e] \in Positions
  <2>1. (CHOOSE r \in moved : ElementOf[r] = e) \in moved
    OBVIOUS
  <2> QED
    BY <2>1
<1> HIDE DEF standing
<1> QED
  BY <1>1, <1>2, WithIsAConfig

LEMMA CombinedAreConfigs ==
  ASSUME NEW question, question.base \in Configs, NEW authority,
         NEW answer \in Combined(question, authority)
  PROVE  answer.grid \in Configs
<1>1. PICK acts \in SUBSET Offered(question.at, authority),
           moved \in SUBSET Usable(question, authority) :
        /\ PairwiseCompatible(acts)
        /\ answer.grid \in Moves(WithAll(question.base, acts), moved, question.base)
  BY Z3 DEF Combined
<1>2. acts \in SUBSET Actions /\ moved \in SUBSET RangeActions
  BY DEF Offered, Expressible, Usable
<1> QED
  BY <1>1, <1>2, WithAllIsAConfig, MovesAreConfigs

LEMMA AskedAreConfigs ==
  ASSUME NEW question, question.base \in Configs, NEW a \in Asked(question)
  PROVE  a.grid \in Configs
<1>1. PICK answer \in Answers(question) : a.grid = answer.grid
  BY DEF Asked
<1>2. \/ answer.grid = question.base
      \/ answer \in Combined(question, Constrained(question.base, question.held))
  BY DEF Answers
<1> QED
  BY <1>1, <1>2, CombinedAreConfigs

LEMMA PlacedOnPositions ==
  ASSUME NEW d, NEW rs \in SUBSET RangeActions, \A r \in rs : d[r] \in Positions,
         NEW e \in DOMAIN Placed(rs, d)
  PROVE  Placed(rs, d)[e] \in Positions
<1> DEFINE on == {r \in rs : ElementOf[r] = e}
<1>1. on # {} /\ on \in SUBSET (1..NRange) /\ NRange \in Nat
  BY RemedialAssumption DEF Placed, RangeActions
<1>2. PICK last \in on : \A q \in on : q <= last
  BY <1>1, LargestExists
<1>3. (CHOOSE r \in rs : /\ ElementOf[r] = e
                         /\ \A q \in rs : ElementOf[q] = e => q <= r) \in rs
  BY <1>2
<1> QED
  BY <1>3 DEF Placed

LEMMA SecondAreConfigs ==
  ASSUME NEW a \in SecondAnswers
  PROVE  /\ a.preventive.grid \in Configs
         /\ DOMAIN a.decided \subseteq RangeActions
         /\ \A r \in DOMAIN a.decided : a.decided[r] \in Positions
<1> DEFINE authority == Constrained(Imported, SecondQuestion.held)
           put(b, d) == With(b.grid, Placed(Of(d, Injections), d))
<1>0. SecondQuestion.base \in Configs
  BY RemedialAssumption DEF SecondQuestion, Question
<1>1. \/ a.preventive \in Asked(SecondQuestion) /\ a.decided = <<>>
      \/ \E b \in Combined(SecondQuestion, authority) :
           \E d \in Decisions(b.grid, authority) :
             a.preventive.grid = put(b, d) /\ a.decided = d
  BY Z3 DEF SecondAnswers
<1>2. CASE a.preventive \in Asked(SecondQuestion) /\ a.decided = <<>>
  BY <1>0, <1>2, AskedAreConfigs
<1>3. CASE \E b \in Combined(SecondQuestion, authority) :
             \E d \in Decisions(b.grid, authority) :
               a.preventive.grid = put(b, d) /\ a.decided = d
  <2>0. PICK b \in Combined(SecondQuestion, authority) :
          \E d \in Decisions(b.grid, authority) :
            a.preventive.grid = put(b, d) /\ a.decided = d
    BY <1>3
  <2>1. PICK d \in Decisions(b.grid, authority) :
          a.preventive.grid = put(b, d) /\ a.decided = d
    BY <2>0
  <2>2. b.grid \in Configs
    BY <1>0, CombinedAreConfigs
  <2>3. d \in [Columns(authority) -> Positions] /\ Columns(authority) \subseteq RangeActions
    BY DEF Decisions, Columns
  <2>4. /\ Of(d, Injections) \in SUBSET RangeActions
        /\ \A r \in Of(d, Injections) : d[r] \in Positions
    BY <2>3 DEF Of
  <2>5. \A e \in DOMAIN Placed(Of(d, Injections), d) :
          Placed(Of(d, Injections), d)[e] \in Positions
    BY <2>4, PlacedOnPositions
  <2> QED
    BY <2>1, <2>2, <2>3, <2>5, WithIsAConfig
<1> QED
  BY <1>1, <1>2, <1>3

OnGrid(done) ==
  /\ done.automatons = Nowhere \/ done.automatons.grid \in Configs
  /\ \A n \in DOMAIN done.perimeters : done.perimeters[n].grid \in Configs
PlanOnGrid(plan) ==
  /\ plan.preventive.grid \in Configs
  /\ \A k \in DOMAIN plan.scenarios : OnGrid(plan.scenarios[k])

GridInv ==
  /\ case \in Cases
  /\ PlanOnGrid(Plan)
  /\ pass = 2 => PlanOnGrid(first)
  /\ DOMAIN decided \subseteq RangeActions
  /\ \A r \in DOMAIN decided : decided[r] \in Positions
  /\ phase = "curative" => OnGrid(open) /\ open.left \in Configs

LEMMA GridInit == Init => GridInv
<1> SUFFICES ASSUME Init PROVE GridInv
  OBVIOUS
<1> DEFINE question == Question(Imported, PreventiveStates, PreventiveStates, NothingHeld, {},
                                StopAtTarget)
<1>1. preventive \in Asked(question) /\ question.base \in Configs
  BY RemedialAssumption DEF Init, Question
<1>2. preventive.grid \in Configs
  BY <1>1, AskedAreConfigs
<1>3. /\ case \in Cases /\ scenarios = [k \in {} |-> Nowhere] /\ decided = <<>>
      /\ phase = "automatons" /\ pass = 1
  BY DEF Init
<1> QED
  BY <1>2, <1>3 DEF GridInv, PlanOnGrid, Plan

LEMMA DecidedOnGrid ==
  ASSUME GridInv, NEW grid \in Configs
  PROVE  WithDecided(grid) \in Configs
<1>1. Activated \in SUBSET RangeActions /\ \A r \in Activated : decided[r] \in Positions
  BY DEF Activated, GridInv
<1> QED
  BY <1>1, PlacedOnPositions, WithIsAConfig DEF WithDecided

LEMMA AutomatonsOnGrid ==
  ASSUME NEW handed \in Configs, NEW s, NEW did \in AutomatonsDo(handed, s)
  PROVE  did.grid \in Configs
<1>1. PICK fired \in SUBSET MayAct(s).actions, moved \in SUBSET MayAct(s).shifters :
        \E f \in [Touched(fired, moved) -> Positions] : did.grid = With(handed, f)
  BY Z3 DEF AutomatonsDo
<1>2. PICK f \in [Touched(fired, moved) -> Positions] : did.grid = With(handed, f)
  BY <1>1
<1> QED
  BY <1>2, WithIsAConfig

LEMMA UnoptimizedOnGrid ==
  ASSUME NEW plan
  PROVE  PlanOnGrid(Unoptimized(plan))
<1> DEFINE u == Unoptimized(plan)
<1>1. u.preventive.grid \in Configs
  BY RemedialAssumption DEF Unoptimized
<1>2. ASSUME NEW k \in DOMAIN u.scenarios PROVE OnGrid(u.scenarios[k])
  BY RemedialAssumption DEF Unoptimized, OnGrid
<1> QED
  BY <1>1, <1>2 DEF PlanOnGrid

LEMMA GridNext == AllowedInv /\ GridInv /\ [Next]_vars => GridInv'
<1> SUFFICES ASSUME AllowedInv, GridInv, [Next]_vars PROVE GridInv'
  OBVIOUS
<1>0. preventive.grid \in Configs
  BY DEF GridInv, PlanOnGrid, Plan
<1>1. CASE Automatons
  <2>1. PICK did, grid : /\ open' = [automatons |-> did, perimeters |-> <<>>, left |-> grid]
                         /\ did = Nowhere \/ did.grid \in Configs
                         /\ grid \in Configs
    <3>1. CASE HasAutomatons(turn)
      <4>1. PICK did \in AutomatonsDo(Carried(preventive.grid), CHOOSE t \in AutoStates(turn) : TRUE) :
              open' = [automatons |-> did, perimeters |-> <<>>,
                       left |-> WithDecided(did.grid)]
        BY <1>1, <3>1, Zenon DEF Automatons
      <4>2. did.grid \in Configs
        BY <1>0, CarriedIsAConfig, AutomatonsOnGrid
      <4> QED
        BY <4>1, <4>2, DecidedOnGrid
    <3>2. CASE ~HasAutomatons(turn)
      <4>1. open' = [automatons |-> Nowhere, perimeters |-> <<>>,
                     left |-> WithDecided(preventive.grid)]
        BY <1>1, <3>2, Zenon DEF Automatons
      <4> QED
        BY <1>0, <4>1, DecidedOnGrid
    <3> QED
      BY <3>1, <3>2
  <2>2. OnGrid(open') /\ open'.left \in Configs
    BY <2>1 DEF OnGrid
  <2>3. UNCHANGED <<case, pass, preventive, decided, scenarios, first>>
    BY <1>1 DEF Automatons
  <2> QED
    BY <2>2, <2>3 DEF GridInv, PlanOnGrid, Plan
<1>2. CASE Curative
  <2> DEFINE s == At(CHOOSE i \in Remaining : \A j \in Remaining : i <= j, turn)
             question == Question(Carried(open.left), {s}, {s}, NothingHeld,
                                  DOMAIN decided, CurativeTarget)
             done(a) == [state |-> s, acts |-> a.acts, moved |-> a.moved,
                         given |-> Activated, grid |-> a.grid, objective |-> a.objective]
  <2>1. PICK a \in Asked(question) :
          open' = [open EXCEPT !.perimeters = Append(@, done(a)), !.left = a.grid]
    BY <1>2 DEF Curative
  <2>2. question.base \in Configs
    BY <1>2, CarriedIsAConfig DEF Curative, GridInv, Question
  <2>3. a.grid \in Configs /\ done(a).grid \in Configs
    BY <2>2, AskedAreConfigs
  <2>4. open' = [automatons |-> open.automatons,
                 perimeters |-> Append(open.perimeters, done(a)), left |-> a.grid]
    BY <1>2, <2>1 DEF Curative, AllowedInv
  <2>5. /\ open.perimeters \in Seq(Range(open.perimeters)) /\ OnGrid(open)
    BY <1>2 DEF Curative, AllowedInv, GridInv
  <2> HIDE DEF done
  <2>6. \A n \in DOMAIN Append(open.perimeters, done(a)) :
          Append(open.perimeters, done(a))[n].grid \in Configs
    BY <2>3, <2>5, OneMore DEF OnGrid
  <2>7. OnGrid(open') /\ open'.left \in Configs
    BY <2>3, <2>4, <2>5, <2>6 DEF OnGrid
  <2>8. UNCHANGED <<case, pass, preventive, decided, scenarios, first>>
    BY <1>2 DEF Curative
  <2> QED
    BY <2>7, <2>8 DEF GridInv, PlanOnGrid, Plan
<1>3. CASE NextContingency
  <2>1. phase = "curative" /\ OnGrid(open)
    BY <1>3 DEF NextContingency, GridInv
  <2>2. \A k \in DOMAIN scenarios' : OnGrid(scenarios'[k])
    BY <1>3, <2>1 DEF NextContingency, GridInv, PlanOnGrid, Plan
  <2>3. phase' = "automatons" /\ UNCHANGED <<case, pass, preventive, decided, first>>
    BY <1>3 DEF NextContingency
  <2> QED
    BY <2>2, <2>3 DEF GridInv, PlanOnGrid, Plan
<1>4. CASE SecondPreventive
  <2>1. PICK a \in SecondAnswers : preventive' = a.preventive /\ decided' = a.decided
    BY <1>4 DEF SecondPreventive
  <2>2. /\ preventive'.grid \in Configs /\ DOMAIN decided' \subseteq RangeActions
        /\ \A r \in DOMAIN decided' : decided'[r] \in Positions
    BY <2>1, SecondAreConfigs
  <2>3. /\ case' = case /\ phase' = phase /\ phase = "automatons" /\ first' = Plan
        /\ scenarios' = [k \in {} |-> Nowhere]
    BY <1>4 DEF SecondPreventive, AllDone
  <2> QED
    BY <2>2, <2>3 DEF GridInv, PlanOnGrid, Plan
<1>5. CASE Compare
  <2>1. phase' = "compared" /\ UNCHANGED <<case, pass, decided, first>> /\ pass = 2
    BY <1>5 DEF Compare
  <2>2. \/ UNCHANGED <<preventive, scenarios>>
        \/ preventive' = first.preventive /\ scenarios' = first.scenarios
    BY <1>5 DEF Compare, FallBack
  <2> QED
    BY <2>1, <2>2 DEF GridInv, PlanOnGrid, Plan
<1>6. CASE Finish
  <2>1. PlanOnGrid(Unoptimized(Plan))
    BY UnoptimizedOnGrid
  <2>2. \/ UNCHANGED <<preventive, scenarios>>
        \/ /\ preventive' = Unoptimized(Plan).preventive
           /\ scenarios' = Unoptimized(Plan).scenarios
    BY <1>6 DEF Finish
  <2>3. phase' = "planned" /\ UNCHANGED <<case, pass, decided, first>>
    BY <1>6 DEF Finish
  <2>4. PlanOnGrid(Plan')
    BY <2>1, <2>2 DEF GridInv, PlanOnGrid, Plan
  <2> QED
    BY <2>3, <2>4 DEF GridInv
<1>7. CASE UNCHANGED vars
  BY <1>7 DEF vars, GridInv, PlanOnGrid, OnGrid, Plan
<1> QED
  BY <1>1, <1>2, <1>3, <1>4, <1>5, <1>6, <1>7 DEF Next

\* Every state of a plan is read in a configuration.
LEMMA GridOfOnGrid ==
  ASSUME NEW plan, PlanOnGrid(plan), NEW s
  PROVE  GridOf(s, plan) \in Configs
<1> DEFINE k == s.contingency
           done == plan.scenarios[k]
           own == {n \in DOMAIN done.perimeters : done.perimeters[n].state = s}
<1>1. CASE k = None \/ k \notin DOMAIN plan.scenarios
  BY <1>1 DEF GridOf, PlanOnGrid
<1>2. CASE ~(k = None \/ k \notin DOMAIN plan.scenarios)
  <2>1. OnGrid(done) /\ plan.preventive.grid \in Configs
    BY <1>2 DEF PlanOnGrid
  <2>2. own # {} => done.perimeters[CHOOSE n \in own : TRUE].grid \in Configs
    BY <2>1 DEF OnGrid
  <2>3. done.automatons # Nowhere =>
          [e \in Elements |-> IF e \in Injections THEN plan.preventive.grid[e]
                                                  ELSE done.automatons.grid[e]] \in Configs
    BY <2>1 DEF OnGrid, Configs
  <2> QED
    BY <1>2, <2>1, <2>2, <2>3 DEF GridOf
<1> QED
  BY <1>1, <1>2

LEMMA JudgedByNumbers ==
  ASSUME GridInv, NEW plan, PlanOnGrid(plan)
  PROVE  Judge(plan) \in Int
<1>1. \A c \in Optimized : GridOf(StateOf[c], plan) \in Configs
  BY GridOfOnGrid
<1>2. {Margin(case, c, GridOf(StateOf[c], plan)) : c \in Optimized} \in SUBSET Margins
  BY <1>1, RemedialAssumption DEF Margins, GridInv
<1> QED
  BY <1>2, WorstIsANumber DEF Judge

LEMMA UntouchedIsANumber == ASSUME GridInv PROVE Untouched \in Int
<1>1. {Margin(case, c, Imported) : c \in Optimized} \in SUBSET Margins
  BY RemedialAssumption DEF Margins, GridInv
<1> QED
  BY <1>1, WorstIsANumber DEF Untouched

\* Undoing everything is worth what doing nothing is.
LEMMA UnoptimizedIsUntouched ==
  ASSUME NEW plan
  PROVE  Judge(Unoptimized(plan)) = Untouched
<1> DEFINE u == Unoptimized(plan)
<1>1. ASSUME NEW s PROVE GridOf(s, u) = Imported
  <2> DEFINE k == s.contingency
             own == {n \in DOMAIN u.scenarios[k].perimeters :
                       u.scenarios[k].perimeters[n].state = s}
  <2>1. u.preventive.grid = Imported
    BY DEF Unoptimized
  <2>2. CASE k \in DOMAIN u.scenarios
    <3>1. k \in DOMAIN plan.scenarios
      BY <2>2 DEF Unoptimized
    <3>2. /\ u.scenarios[k].automatons = Nowhere
          /\ \A n \in DOMAIN u.scenarios[k].perimeters :
               u.scenarios[k].perimeters[n].grid = Imported
      BY <3>1 DEF Unoptimized
    <3>3. own # {} => u.scenarios[k].perimeters[CHOOSE n \in own : TRUE].grid = Imported
      BY <3>2
    <3> HIDE DEF u
    <3> QED
      BY <2>1, <2>2, <3>2, <3>3 DEF GridOf
  <2>3. CASE k \notin DOMAIN u.scenarios
    <3> HIDE DEF u
    <3> QED
      BY <2>1, <2>3 DEF GridOf
  <2> QED
    BY <2>2, <2>3
<1> HIDE DEF u
<1>2. {Margin(case, c, GridOf(StateOf[c], u)) : c \in Optimized} =
        {Margin(case, c, Imported) : c \in Optimized}
  BY <1>1
<1> QED
  BY <1>2 DEF Judge, Untouched, u

BestInv ==
  /\ phase = "compared" => pass = 2 /\ Judge(Plan) >= Judge(first)
  /\ TheBestOfWhatWasTried

LEMMA BestInit == Init => BestInv
  BY DEF Init, BestInv, TheBestOfWhatWasTried

LEMMA BestNext == GridInv /\ GridInv' /\ BestInv /\ [Next]_vars => BestInv'
<1> SUFFICES ASSUME GridInv, GridInv', BestInv, [Next]_vars PROVE BestInv'
  OBVIOUS
<1>1. CASE Automatons \/ Curative \/ NextContingency \/ SecondPreventive
  <2>1. phase' \notin {"compared", "planned"}
    BY <1>1 DEF Automatons, Curative, NextContingency, SecondPreventive, AllDone
  <2> QED
    BY <2>1 DEF BestInv, TheBestOfWhatWasTried
<1>2. CASE Compare
  <2>1. /\ pass = 2 /\ phase' = "compared" /\ UNCHANGED <<case, pass, first>>
        /\ \/ Judge(Plan) > Judge(first) /\ UNCHANGED <<preventive, scenarios>>
           \/ preventive' = first.preventive /\ scenarios' = first.scenarios
    BY <1>2 DEF Compare, FallBack
  <2>2. Judge(Plan) \in Int /\ Judge(first) \in Int
    BY <2>1, JudgedByNumbers DEF GridInv
  <2>3. Judge(Plan') >= Judge(first)
    <3>1. CASE Judge(Plan) > Judge(first) /\ UNCHANGED <<preventive, scenarios>>
      BY <2>2, <3>1 DEF Plan
    <3>2. CASE preventive' = first.preventive /\ scenarios' = first.scenarios
      <4>1. Judge(Plan') = Judge(first)
        BY <3>2, Zenon DEF Judge, GridOf, Plan
      <4> QED
        BY <2>2, <4>1
    <3> QED
      BY <2>1, <3>1, <3>2
  <2>4. Judge(Plan)' = Judge(Plan') /\ Judge(first)' = Judge(first)
    BY <2>1 DEF Judge
  <2> QED
    BY <2>1, <2>3, <2>4 DEF BestInv, TheBestOfWhatWasTried
<1>3. CASE Finish
  <2>1. /\ phase' = "planned" /\ UNCHANGED <<case, pass, first>>
        /\ phase = "compared" \/ pass = 1
    BY <1>3 DEF Finish
  <2>2. Judge(Plan) \in Int /\ Untouched \in Int /\ (pass = 2 => Judge(first) \in Int)
    BY JudgedByNumbers, UntouchedIsANumber DEF GridInv
  <2>3. pass = 2 => Judge(Plan) >= Judge(first)
    BY <2>1 DEF BestInv
  <2>4. Judge(Plan') >= Untouched /\ (pass = 2 => Judge(Plan') >= Judge(first))
    <3>1. CASE Worse(Plan)
      <4>1. /\ preventive' = Unoptimized(Plan).preventive
            /\ scenarios' = Unoptimized(Plan).scenarios
        BY <1>3, <3>1 DEF Finish
      <4>2. Judge(Plan') = Judge(Unoptimized(Plan))
        BY <4>1, Zenon DEF Judge, GridOf, Plan
      <4>3. Judge(Plan') = Untouched
        BY <4>2, UnoptimizedIsUntouched
      <4> QED
        BY <2>2, <2>3, <3>1, <4>3 DEF Worse
    <3>2. CASE ~Worse(Plan)
      <4>1. Plan' = Plan
        BY <1>3, <3>2 DEF Finish, Plan
      <4> QED
        BY <2>2, <2>3, <3>2, <4>1 DEF Worse
    <3> QED
      BY <3>1, <3>2
  <2>5. /\ Judge(Plan)' = Judge(Plan') /\ Judge(first)' = Judge(first)
        /\ Untouched' = Untouched
    BY <2>1 DEF Judge, Untouched
  <2> QED
    BY <2>1, <2>4, <2>5 DEF BestInv, TheBestOfWhatWasTried
<1>4. CASE UNCHANGED vars
  <2>1. /\ Plan' = Plan /\ UNCHANGED <<case, phase, pass, first>>
    BY <1>4 DEF vars, Plan
  <2>2. /\ Judge(Plan)' = Judge(Plan) /\ Judge(first)' = Judge(first)
        /\ Untouched' = Untouched
    BY <2>1 DEF Judge, Untouched
  <2> QED
    BY <2>1, <2>2 DEF BestInv, TheBestOfWhatWasTried
<1> QED
  BY <1>1, <1>2, <1>3, <1>4 DEF Next

\* For any CRAC and any loadings, and whatever the searches and the automatons
\* answer: the plan reported is no worse than doing nothing, and no worse than the
\* first pass's plan when a second one ran.
THEOREM NoWorseThanTried == Spec => []TheBestOfWhatWasTried
<1>1. BestInv => TheBestOfWhatWasTried
  BY DEF BestInv
<1>2. Init => AllowedInv /\ GridInv /\ BestInv
  BY AllowedInit, GridInit, BestInit
<1>3. AllowedInv /\ GridInv /\ BestInv /\ [Next]_vars => (AllowedInv /\ GridInv /\ BestInv)'
  BY AllowedNext, GridNext, BestNext
<1> QED
  BY <1>1, <1>2, <1>3, PTL DEF Spec

-----------------------------------------------------------------------------
(* The parts of a plan belong together.  A scenario is coherent with the     *)
(* preventive network it started from, and SecondPreventive and Compare take *)
(* the two together; what is decided stands between an open scenario's last  *)
(* network and what its perimeters are recorded to have done.                *)

LEMMA WhatIsTouched ==
  ASSUME NEW acts, NEW moved
  PROVE  /\ \A a \in acts : DOMAIN Effect[a] \subseteq Touched(acts, moved)
         /\ \A r \in moved : ElementOf[r] \in Touched(acts, moved)
<1>1. ASSUME NEW r \in moved PROVE ElementOf[r] \in Touched(acts, moved)
  BY DEF Touched
<1>2. ASSUME NEW a \in acts, NEW e \in DOMAIN Effect[a] PROVE e \in Touched(acts, moved)
  BY DEF Touched
<1> QED
  BY <1>1, <1>2

\* The automatons' part of what a scenario touched.
LEMMA AutomatonsTouch ==
  ASSUME NEW done, done.automatons # Nowhere, NEW n
  PROVE  Touched(done.automatons.fired, done.automatons.moved) \subseteq TouchedBy(done, n)
  BY DEF TouchedBy

LEMMA MovesKeep ==
  ASSUME NEW grid, NEW moved, NEW previous, NEW g \in Moves(grid, moved, previous),
         NEW e \in Elements, \A r \in moved : ElementOf[r] # e
  PROVE  g[e] = grid[e]
<1> DEFINE standing(p) == [x \in {ElementOf[r] : r \in moved} |->
                             p[CHOOSE r \in moved : ElementOf[r] = x]]
<1>1. PICK place \in [moved -> Positions] : g = With(grid, standing(place))
  BY DEF Moves
<1>2. e \notin DOMAIN standing(place)
  OBVIOUS
<1> HIDE DEF standing
<1> QED
  BY <1>1, <1>2 DEF With

LEMMA CombinedKeep ==
  ASSUME NEW question, NEW authority, NEW answer \in Combined(question, authority)
  PROVE  SameBut(answer.grid, question.base, Touched(answer.acts, answer.moved))
<1>1. PICK acts \in SUBSET Offered(question.at, authority),
           moved \in SUBSET Usable(question, authority) :
        /\ answer.acts = acts /\ answer.moved = moved
        /\ answer.grid \in Moves(WithAll(question.base, acts), moved, question.base)
  BY Z3 DEF Combined
<1>2. ASSUME NEW e \in Elements, e \notin Touched(acts, moved)
      PROVE  answer.grid[e] = question.base[e]
  <2>1. WithAll(question.base, acts)[e] = question.base[e]
    BY <1>2, WhatIsTouched DEF WithAll
  <2>2. \A r \in moved : ElementOf[r] # e
    BY <1>2, WhatIsTouched
  <2> QED
    BY <1>1, <2>1, <2>2, MovesKeep
<1> QED
  BY <1>1, <1>2 DEF SameBut

LEMMA AskedKeep ==
  ASSUME NEW question, NEW a \in Asked(question)
  PROVE  SameBut(a.grid, question.base, Touched(a.acts, a.moved))
<1>1. PICK answer \in Answers(question) :
        a.acts = answer.acts /\ a.moved = answer.moved /\ a.grid = answer.grid
  BY DEF Asked
<1>2. \/ answer.grid = question.base
      \/ answer \in Combined(question, Constrained(question.base, question.held))
  BY DEF Answers
<1> QED
  BY <1>1, <1>2, CombinedKeep DEF SameBut

LEMMA SecondKeeps ==
  ASSUME NEW a \in SecondAnswers
  PROVE  SameBut(a.preventive.grid, Imported, Touched(a.preventive.acts, a.preventive.moved))
<1> DEFINE authority == Constrained(Imported, SecondQuestion.held)
           put(b, d) == With(b.grid, Placed(Of(d, Injections), d))
<1>0. SecondQuestion.base = Imported
  BY DEF SecondQuestion, Question
<1>1. \/ a.preventive \in Asked(SecondQuestion)
      \/ \E b \in Combined(SecondQuestion, authority) :
           \E d \in Decisions(b.grid, authority) :
             /\ a.preventive.grid = put(b, d)
             /\ a.preventive.acts = b.acts /\ a.preventive.moved = b.moved
  BY Z3 DEF SecondAnswers
<1>2. CASE a.preventive \in Asked(SecondQuestion)
  BY <1>0, <1>2, AskedKeep
<1>3. ASSUME NEW b \in Combined(SecondQuestion, authority),
             NEW d \in Decisions(b.grid, authority), a.preventive.grid = put(b, d),
             a.preventive.acts = b.acts, a.preventive.moved = b.moved
      PROVE  SameBut(a.preventive.grid, Imported,
                     Touched(a.preventive.acts, a.preventive.moved))
  <2>1. DOMAIN Placed(Of(d, Injections), d) \subseteq Injections
    BY DEF Placed, Of
  <2>2. \A e \in Elements \ Injections : put(b, d)[e] = b.grid[e]
    BY <2>1 DEF With
  <2>3. SameBut(b.grid, Imported, Touched(b.acts, b.moved))
    BY <1>0, CombinedKeep
  <2> HIDE DEF put
  <2> QED
    BY <1>3, <2>2, <2>3 DEF SameBut
<1> QED
  BY <1>1, <1>2, <1>3

Follows(done) ==
  \A n \in DOMAIN done.perimeters :
    SameBut(done.perimeters[n].grid, preventive.grid, TouchedBy(done, n))

CoherentInv ==
  /\ Coherent(Plan)
  /\ pass = 2 => Coherent(first)
  /\ phase = "curative" =>
       /\ Follows(open)
       /\ SameBut(open.left, preventive.grid,
                  Touched({}, Activated) \cup TouchedBy(open, Len(open.perimeters)))

LEMMA CoherentInit == Init => CoherentInv
<1> SUFFICES ASSUME Init PROVE CoherentInv
  OBVIOUS
<1> DEFINE question == Question(Imported, PreventiveStates, PreventiveStates, NothingHeld, {},
                                StopAtTarget)
<1>1. preventive \in Asked(question) /\ question.base = Imported
  BY DEF Init, Question
<1>2. SameBut(preventive.grid, Imported, Touched(preventive.acts, preventive.moved))
  BY <1>1, AskedKeep
<1>3. scenarios = [k \in {} |-> Nowhere] /\ phase = "automatons" /\ pass = 1
  BY DEF Init
<1> QED
  BY <1>2, <1>3 DEF CoherentInv, Coherent, Plan

LEMMA UnoptimizedCoherent ==
  ASSUME NEW plan
  PROVE  Coherent(Unoptimized(plan))
<1> DEFINE u == Unoptimized(plan)
<1>1. u.preventive.grid = Imported
  BY DEF Unoptimized
<1>2. ASSUME NEW k \in DOMAIN u.scenarios, NEW n \in DOMAIN u.scenarios[k].perimeters
      PROVE  u.scenarios[k].perimeters[n].grid = Imported
  BY DEF Unoptimized
<1> HIDE DEF u
<1>3. Coherent(u)
  BY <1>1, <1>2 DEF Coherent, SameBut
<1> QED
  BY <1>3 DEF u

\* Automatons change what they are said to, and decided taps go where they stand.
LEMMA HandedOver ==
  ASSUME NEW handed, NEW s, NEW did \in AutomatonsDo(handed, s)
  PROVE  did # Nowhere /\ SameBut(did.grid, handed, Touched(did.fired, did.moved))
<1>1. PICK fired \in SUBSET MayAct(s).actions, moved \in SUBSET MayAct(s).shifters :
        \E f \in [Touched(fired, moved) -> Positions] :
          did = [fired |-> fired, moved |-> moved, grid |-> With(handed, f)]
  BY Z3 DEF AutomatonsDo
<1>2. PICK f \in [Touched(fired, moved) -> Positions] :
        did = [fired |-> fired, moved |-> moved, grid |-> With(handed, f)]
  BY <1>1
<1>3. did # Nowhere
  <2>1. "fired" \in DOMAIN did /\ "fired" \notin DOMAIN Nowhere
    BY <1>2 DEF Nowhere
  <2> QED
    BY <2>1
<1> QED
  BY <1>2, <1>3 DEF SameBut, With

LEMMA DecidedKeep ==
  ASSUME NEW grid
  PROVE  SameBut(WithDecided(grid), grid, Touched({}, Activated))
<1>1. ASSUME NEW e \in DOMAIN Placed(Activated, decided) PROVE e \in Touched({}, Activated)
  <2>1. PICK r \in Activated : e = ElementOf[r]
    BY DEF Placed
  <2> QED
    BY <2>1, WhatIsTouched
<1> QED
  BY <1>1 DEF SameBut, WithDecided, With

LEMMA CarriedKeep == ASSUME NEW grid PROVE SameBut(Carried(grid), grid, {})
  BY DEF SameBut, Carried

\* One perimeter more.
LEMMA SearchedFollows ==
  ASSUME NEW was, was.perimeters \in Seq(Range(was.perimeters)), Follows(was),
         NEW left, SameBut(left, preventive.grid,
                           Touched({}, Activated) \cup TouchedBy(was, Len(was.perimeters))),
         NEW p, p.given = Activated, SameBut(p.grid, left, Touched(p.acts, p.moved)),
         NEW now, now.automatons = was.automatons,
         now.perimeters = Append(was.perimeters, p)
  PROVE  /\ Follows(now)
         /\ SameBut(p.grid, preventive.grid,
                    Touched({}, Activated) \cup TouchedBy(now, Len(now.perimeters)))
<1> DEFINE len == Len(was.perimeters)
<1>1. /\ now.perimeters \in Seq(Range(was.perimeters) \cup {p})
      /\ Len(now.perimeters) = len + 1 /\ len \in Nat
      /\ \A n \in 1..len : now.perimeters[n] = was.perimeters[n]
      /\ now.perimeters[len + 1] = p
  <2>1. was.perimeters \in Seq(Range(was.perimeters) \cup {p})
    BY DEF Range
  <2> QED
    BY <2>1, AppendProperties
<1>2. DOMAIN now.perimeters = 1..(len + 1) /\ DOMAIN was.perimeters = 1..len
  BY <1>1
<1>3. ASSUME NEW n \in 1..len PROVE TouchedBy(now, n) = TouchedBy(was, n)
  <2>1. \A m \in 1..n : now.perimeters[m] = was.perimeters[m]
    BY <1>1
  <2> QED
    BY <2>1 DEF TouchedBy
<1>4. /\ TouchedBy(was, len) \subseteq TouchedBy(now, len + 1)
      /\ Touched(p.acts, p.moved) \subseteq TouchedBy(now, len + 1)
      /\ Touched({}, Activated) \subseteq TouchedBy(now, len + 1)
  <2>1. Touched(p.acts, p.moved \cup p.given) \subseteq TouchedBy(now, len + 1)
    <3>1. len + 1 \in 1..(len + 1)
      BY <1>1
    <3> QED
      BY <1>1, <3>1 DEF TouchedBy
  <2>2. /\ Touched(p.acts, p.moved) \subseteq Touched(p.acts, p.moved \cup p.given)
        /\ Touched({}, Activated) \subseteq Touched(p.acts, p.moved \cup p.given)
    BY DEF Touched
  <2>3. \A m \in 1..len : m \in 1..(len + 1) /\ now.perimeters[m] = was.perimeters[m]
    BY <1>1
  <2>4. TouchedBy(was, len) \subseteq TouchedBy(now, len + 1)
    BY <2>3 DEF TouchedBy
  <2> QED
    BY <2>1, <2>2, <2>4
<1>5. SameBut(p.grid, preventive.grid, TouchedBy(now, len + 1))
  BY <1>4 DEF SameBut
<1>6. Follows(now)
  <2> SUFFICES ASSUME NEW n \in 1..(len + 1)
               PROVE  SameBut(now.perimeters[n].grid, preventive.grid, TouchedBy(now, n))
    BY <1>2 DEF Follows
  <2>1. CASE n \in 1..len
    BY <1>1, <1>2, <1>3, <2>1 DEF Follows
  <2>2. CASE n = len + 1
    BY <1>1, <1>5, <2>2
  <2> QED
    BY <1>1, <2>1, <2>2
<1> QED
  BY <1>1, <1>5, <1>6 DEF SameBut

LEMMA CoherentNext == AllowedInv /\ CoherentInv /\ [Next]_vars => CoherentInv'
<1> SUFFICES ASSUME AllowedInv, CoherentInv, [Next]_vars PROVE CoherentInv'
  OBVIOUS
<1>1. CASE Automatons
  <2>0. UNCHANGED <<pass, preventive, decided, scenarios, first>>
    BY <1>1 DEF Automatons
  <2>1. /\ open'.perimeters = <<>>
        /\ SameBut(open'.left, preventive.grid,
                   Touched({}, Activated) \cup TouchedBy(open', 0))
    <3>1. CASE HasAutomatons(turn)
      <4> DEFINE handed == Carried(preventive.grid)
      <4>1. PICK did \in AutomatonsDo(handed, CHOOSE t \in AutoStates(turn) : TRUE) :
              open' = [automatons |-> did, perimeters |-> <<>>,
                       left |-> WithDecided(did.grid)]
        BY <1>1, <3>1, Zenon DEF Automatons
      <4>2. did # Nowhere /\ SameBut(did.grid, handed, Touched(did.fired, did.moved))
        BY HandedOver
      <4>3. SameBut(handed, preventive.grid, {})
        BY CarriedKeep
      <4>4. SameBut(open'.left, did.grid, Touched({}, Activated))
        BY <4>1, DecidedKeep
      <4>5. Touched(did.fired, did.moved) \subseteq TouchedBy(open', 0)
        <5>1. open'.automatons = did
          BY <4>1
        <5> QED
          BY <4>2, <5>1, AutomatonsTouch
      <4> HIDE DEF handed
      <4> QED
        BY <4>1, <4>2, <4>3, <4>4, <4>5 DEF SameBut
    <3>2. CASE ~HasAutomatons(turn)
      <4>1. open' = [automatons |-> Nowhere, perimeters |-> <<>>,
                     left |-> WithDecided(preventive.grid)]
        BY <1>1, <3>2, Zenon DEF Automatons
      <4>2. SameBut(open'.left, preventive.grid, Touched({}, Activated))
        BY <4>1, DecidedKeep
      <4> QED
        BY <4>1, <4>2 DEF SameBut
    <3> QED
      BY <3>1, <3>2
  <2>2. Len(open'.perimeters) = 0 /\ DOMAIN open'.perimeters = {}
    BY <2>1
  <2>3. Activated' = Activated
    BY <2>0 DEF Activated
  <2>4. (/\ Follows(open)
         /\ SameBut(open.left, preventive.grid,
                    Touched({}, Activated) \cup TouchedBy(open, Len(open.perimeters))))'
    BY <2>0, <2>1, <2>2, <2>3 DEF Follows
  <2> QED
    BY <2>0, <2>4 DEF CoherentInv, Plan
<1>2. CASE Curative
  <2> DEFINE s == At(CHOOSE i \in Remaining : \A j \in Remaining : i <= j, turn)
             question == Question(Carried(open.left), {s}, {s}, NothingHeld,
                                  DOMAIN decided, CurativeTarget)
             done(a) == [state |-> s, acts |-> a.acts, moved |-> a.moved,
                         given |-> Activated, grid |-> a.grid, objective |-> a.objective]
  <2>0. phase = "curative" /\ UNCHANGED <<pass, preventive, decided, scenarios, first>>
    BY <1>2 DEF Curative
  <2>1. PICK a \in Asked(question) :
          open' = [open EXCEPT !.perimeters = Append(@, done(a)), !.left = a.grid]
    BY <1>2 DEF Curative
  <2>2. open' = [automatons |-> open.automatons,
                 perimeters |-> Append(open.perimeters, done(a)), left |-> a.grid]
    BY <2>0, <2>1 DEF AllowedInv
  <2>3. SameBut(a.grid, open.left, Touched(a.acts, a.moved))
    <3>1. question.base = Carried(open.left)
      BY DEF Question
    <3>2. SameBut(a.grid, Carried(open.left), Touched(a.acts, a.moved))
      BY <3>1, AskedKeep
    <3>3. SameBut(Carried(open.left), open.left, {})
      BY CarriedKeep
    <3> QED
      BY <3>2, <3>3 DEF SameBut
  <2>4. /\ done(a).given = Activated /\ done(a).grid = a.grid
        /\ done(a).acts = a.acts /\ done(a).moved = a.moved
    OBVIOUS
  <2>5. /\ open'.automatons = open.automatons /\ open'.left = a.grid
        /\ open'.perimeters = Append(open.perimeters, done(a))
    BY <2>2
  <2> HIDE DEF done
  <2>6. /\ Follows(open')
        /\ SameBut(a.grid, preventive.grid,
                   Touched({}, Activated) \cup TouchedBy(open', Len(open'.perimeters)))
    <3>1. /\ open.perimeters \in Seq(Range(open.perimeters)) /\ Follows(open)
          /\ SameBut(open.left, preventive.grid,
                     Touched({}, Activated) \cup TouchedBy(open, Len(open.perimeters)))
      BY <2>0 DEF AllowedInv, CoherentInv
    <3>2. SameBut(done(a).grid, open.left, Touched(done(a).acts, done(a).moved))
      BY <2>3, <2>4
    <3> QED
      BY <2>4, <2>5, <3>1, <3>2, SearchedFollows
  <2>7. Activated' = Activated /\ preventive' = preventive
    BY <2>0 DEF Activated
  <2>8. (/\ Follows(open)
         /\ SameBut(open.left, preventive.grid,
                    Touched({}, Activated) \cup TouchedBy(open, Len(open.perimeters))))'
    BY <2>5, <2>6, <2>7 DEF Follows
  <2> QED
    BY <2>0, <2>8 DEF CoherentInv, Plan
<1>3. CASE NextContingency
  <2>1. /\ phase = "curative" /\ phase' = "automatons"
        /\ UNCHANGED <<pass, preventive, first>>
    BY <1>3 DEF NextContingency
  <2>2. Follows(open)
    BY <2>1 DEF CoherentInv
  <2>3. \A k \in DOMAIN scenarios' :
          \/ scenarios'[k] = open
          \/ k \in DOMAIN scenarios /\ scenarios'[k] = scenarios[k]
    BY <1>3 DEF NextContingency
  <2>4. \A k \in DOMAIN scenarios' : Follows(scenarios'[k])
    BY <2>2, <2>3 DEF CoherentInv, Coherent, Plan, Follows
  <2> QED
    BY <2>1, <2>4 DEF CoherentInv, Coherent, Plan, Follows
<1>4. CASE SecondPreventive
  <2>1. PICK a \in SecondAnswers : preventive' = a.preventive
    BY <1>4 DEF SecondPreventive
  <2>2. SameBut(preventive'.grid, Imported, Touched(preventive'.acts, preventive'.moved))
    BY <2>1, SecondKeeps
  <2>3. /\ phase' = phase /\ phase = "automatons" /\ first' = Plan
        /\ scenarios' = [k \in {} |-> Nowhere]
    BY <1>4 DEF SecondPreventive, AllDone
  <2> QED
    BY <2>2, <2>3 DEF CoherentInv, Coherent, Plan
<1>5. CASE Compare
  <2>1. phase' = "compared" /\ UNCHANGED <<pass, first>> /\ pass = 2
    BY <1>5 DEF Compare
  <2>2. \/ UNCHANGED <<preventive, scenarios>>
        \/ preventive' = first.preventive /\ scenarios' = first.scenarios
    BY <1>5 DEF Compare, FallBack
  <2> QED
    BY <2>1, <2>2 DEF CoherentInv, Coherent, Plan
<1>6. CASE Finish
  <2>1. Coherent(Unoptimized(Plan))
    BY UnoptimizedCoherent
  <2>2. \/ UNCHANGED <<preventive, scenarios>>
        \/ /\ preventive' = Unoptimized(Plan).preventive
           /\ scenarios' = Unoptimized(Plan).scenarios
    BY <1>6 DEF Finish
  <2>3. phase' = "planned" /\ UNCHANGED <<pass, first>>
    BY <1>6 DEF Finish
  <2>4. Coherent(Plan')
    BY <2>1, <2>2 DEF CoherentInv, Coherent, Plan
  <2> QED
    BY <2>3, <2>4 DEF CoherentInv
<1>7. CASE UNCHANGED vars
  <2>1. /\ Plan' = Plan /\ Activated' = Activated
        /\ UNCHANGED <<phase, pass, preventive, open, first>>
    BY <1>7 DEF vars, Plan, Activated
  <2> QED
    BY <2>1 DEF CoherentInv, Follows
<1> QED
  BY <1>1, <1>2, <1>3, <1>4, <1>5, <1>6, <1>7 DEF Next

\* For any CRAC, and whatever the searches and the automatons answer: each network
\* of the plan reported is what the remedial actions reported with it make of the
\* network it started from, injections aside.
THEOREM PlansAreCoherent == Spec => []CoherentPlan
<1>1. CoherentInv => CoherentPlan
  BY DEF CoherentInv, CoherentPlan
<1>2. Init => AllowedInv /\ CoherentInv
  BY AllowedInit, CoherentInit
<1>3. AllowedInv /\ CoherentInv /\ [Next]_vars => (AllowedInv /\ CoherentInv)'
  BY AllowedNext, CoherentNext
<1> QED
  BY <1>1, <1>2, <1>3, PTL DEF Spec
=============================================================================
