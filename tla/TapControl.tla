----------------------------- MODULE TapControl -----------------------------
(***************************************************************************)
(* A tap control loop: TapLoop, TransformerVoltageControl and PhaseControl *)
(* in crates/gridoxide-core/src/outerloop/taps.rs.                         *)
(*                                                                         *)
(* One check groups the controllers that are still in play by the quantity *)
(* they hold, measures its deviation, and asks the controllers of a group, *)
(* most authority first, for the position nearest to what is still         *)
(* missing.  Each position asked for goes through TapLoop::move_to: the    *)
(* cap on one move, the ends of the table, the direction budget.           *)
(*                                                                         *)
(* The two loops differ in the quantity and in the column of the table, so *)
(* one module stands for both.  Quantities, targets and ratios are         *)
(* integers.  What a solve gives (`measured`) and what a move is worth     *)
(* (`sens`, 0 when below MIN_SENSITIVITY) is physics: any value of a small *)
(* range, afresh at every solve.                                           *)
(***************************************************************************)
EXTENDS Integers, FiniteSets

CONSTANTS
  NControllers,      \* states.len(), in the order of ctx.net.regulation
  Quantity,          \* controlled_bus, or (branch, terminal)
  Target, Half,      \* per controller: set-point and half the deadband
  Low, High, Ratio,  \* per controller: the table of its tap changer
  Start,             \* per controller: the position it was imported with
  MaxTapShift,
  MaxDirectionChanges,
  Budget,            \* re-solves the run may spend
  Disturbances,      \* times the other loops move the network
  Measurements, Sensitivities   \* the ranges of the physics

Controllers == 1..NControllers
Quantities == {Quantity[c] : c \in Controllers}
Table(c) == Low[c]..High[c]
Width(c) == High[c] - Low[c]

ASSUME TapAssumption ==
  /\ NControllers \in Nat
  /\ Target \in [Controllers -> Int] /\ Half \in [Controllers -> Nat]
  /\ Low \in [Controllers -> Int] /\ High \in [Controllers -> Int]
  /\ \A c \in Controllers : Low[c] <= High[c]
  /\ \A c \in Controllers : Ratio[c] \in [Table(c) -> Int]
  /\ Start \in [Controllers -> Int]
  /\ MaxTapShift \in Nat \ {0}
  /\ MaxDirectionChanges \in Nat \ {0}
  /\ Budget \in Nat /\ Disturbances \in Nat
  /\ Measurements \subseteq Int /\ Sensitivities \subseteq Int

VARIABLES
  pc,
  position,                  \* TapChanger::position
  steps, changes, direction, \* ControllerState: steps_moved,
                             \* direction_changes, last_direction
  outcome, frozen,
  measured, sens,            \* the last solve
  todo, queue, lead, remaining, moved,   \* locals of check
  resolves, disturbed

run == <<resolves, disturbed>>
physics == <<measured, sens>>
locals == <<todo, queue, lead, remaining, moved>>
history == <<steps, changes, direction>>
vars == <<pc, position, history, outcome, frozen, physics, locals, run>>

Directions == {"none", "up", "down"}
Outcomes == {"InDeadband", "AtLimit", "Closest", "Insensitive", "Hunting",
             "Unfinished"}

Size(x) == IF x < 0 THEN -x ELSE x
Clamp(x, lo, hi) == IF x < lo THEN lo ELSE IF x > hi THEN hi ELSE x

-----------------------------------------------------------------------------
Init ==
  /\ pc = "solve"
  /\ position = Start
  /\ steps = [c \in Controllers |-> 0]
  /\ changes = [c \in Controllers |-> 0]
  /\ direction = [c \in Controllers |-> "none"]
  /\ outcome = [c \in Controllers |-> "Unfinished"]
  /\ frozen = [c \in Controllers |-> FALSE]
  /\ measured \in [Quantities -> Measurements]
  /\ sens \in [Controllers -> Sensitivities]
  /\ todo = {} /\ queue = {} /\ lead = 0 /\ remaining = 0 /\ moved = FALSE
  /\ resolves = 0 /\ disturbed = 0

\* The driver's solve.  The budget is looked at before the next check.
Solve ==
  /\ pc = "solve"
  /\ measured' \in [Quantities -> Measurements]
  /\ sens' \in [Controllers -> Sensitivities]
  /\ pc' = IF resolves >= Budget THEN "done" ELSE "check"
  /\ UNCHANGED <<position, history, outcome, frozen, locals, run>>

\* The head of check: the controllers still in play.
InPlay == {c \in Controllers : ~frozen[c]}

BeginCheck ==
  /\ pc = "check"
  /\ todo' = InPlay
  /\ moved' = FALSE
  /\ pc' = "group"
  /\ UNCHANGED <<position, history, outcome, frozen, physics, queue, lead,
                 remaining, run>>

\* AcSensitivity::new found the Jacobian singular.
CheckFailed ==
  /\ pc = "check"
  /\ InPlay # {}
  /\ pc' = "done"
  /\ UNCHANGED <<position, history, outcome, frozen, physics, locals, run>>

\* One group: the controllers of the quantity its leader holds, the leader
\* being the first controller not yet dealt with.  Its target and its
\* deadband count for the group.
IsLeader(l) == \A c \in todo : l <= c
Group(l) == {c \in todo : Quantity[c] = Quantity[l]}
Missing(l) == Target[l] - measured[Quantity[l]]

GroupHeld(l) ==
  /\ pc = "group"
  /\ IsLeader(l)
  /\ Size(Missing(l)) <= Half[l]
  /\ outcome' = [c \in Controllers |->
                   IF c \in Group(l) THEN "InDeadband" ELSE outcome[c]]
  /\ todo' = todo \ Group(l)
  /\ UNCHANGED <<pc, position, history, frozen, physics, queue, lead,
                 remaining, moved, run>>

Deaf(l) == {c \in Group(l) : sens[c] = 0}

GroupOut(l) ==
  /\ pc = "group"
  /\ IsLeader(l)
  /\ Size(Missing(l)) > Half[l]
  /\ outcome' = [c \in Controllers |->
                   IF c \in Deaf(l) THEN "Insensitive" ELSE outcome[c]]
  /\ frozen' = [c \in Controllers |-> frozen[c] \/ c \in Deaf(l)]
  /\ todo' = todo \ Group(l)
  /\ queue' = Group(l) \ Deaf(l)
  /\ lead' = l
  /\ remaining' = Missing(l)
  /\ pc' = "rank"
  /\ UNCHANGED <<position, history, physics, moved, run>>

-----------------------------------------------------------------------------
(* One controller of the ranked queue.                                     *)

\* The most authority first; a stable sort keeps ties in list order.
IsNext(c) ==
  \A d \in queue : \/ Size(sens[d]) < Size(sens[c])
                   \/ Size(sens[d]) = Size(sens[c]) /\ c <= d

WithinReach == Size(remaining) <= Half[lead]
OnTable(c) == position[c] \in Table(c)

\* What a move of controller c to position p would leave missing.  The ratio
\* asked for is the position's own plus remaining / sens, and this is its
\* distance from p's ratio, multiplied by sens.
Left(c, p) == remaining - sens[c] * (Ratio[c][p] - Ratio[c][position[c]])

\* nearest_to_ratio: the first of the nearest positions.
IsNearest(c, p) ==
  \A q \in Table(c) : \/ Size(Left(c, p)) < Size(Left(c, q))
                      \/ Size(Left(c, p)) = Size(Left(c, q)) /\ p <= q

SaturatedByDeviation(c) ==                                      \* a mutant
  \A p \in Table(c) : Size(Left(c, p)) > Half[lead]

\* The ratio asked for lies beyond every entry of the table.
Saturated(c) == \/ \A p \in Table(c) : Left(c, p) > 0
                \/ \A p \in Table(c) : Left(c, p) < 0

\* The nearest position, but no further than one pass may go.
Capped(c, p) ==
  Clamp(Clamp(p, position[c] - MaxTapShift, position[c] + MaxTapShift),
        Low[c], High[c])

Way(c, t) == IF t > position[c] THEN "up" ELSE "down"
Reverses(c, t) == direction[c] # "none" /\ direction[c] # Way(c, t)

LastReversalOneLate(c, t) ==                                    \* a mutant
  Reverses(c, t) /\ changes[c] >= MaxDirectionChanges

LastReversal(c, t) == Reverses(c, t) /\ changes[c] + 1 >= MaxDirectionChanges

\* The positions a move to t is charged with.
Charged(c, t) == Size(t - position[c])

ServedInReach(c) ==
  /\ pc = "rank"
  /\ IsNext(c)
  /\ WithinReach
  /\ outcome' = [outcome EXCEPT ![c] = "InDeadband"]
  /\ queue' = queue \ {c}
  /\ UNCHANGED <<pc, position, history, frozen, physics, todo, lead,
                 remaining, moved, run>>

OffTableCountsAsMoved(c) ==                                     \* a mutant
  /\ pc = "rank"
  /\ IsNext(c)
  /\ ~WithinReach /\ ~OnTable(c)
  /\ moved' = TRUE
  /\ queue' = queue \ {c}
  /\ UNCHANGED <<pc, position, history, outcome, frozen, physics, todo, lead,
                 remaining, run>>

\* TapChanger::ratio is None at a position the table does not have.
OffTable(c) ==
  /\ pc = "rank"
  /\ IsNext(c)
  /\ ~WithinReach /\ ~OnTable(c)
  /\ queue' = queue \ {c}
  /\ UNCHANGED <<pc, position, history, outcome, frozen, physics, todo, lead,
                 remaining, moved, run>>

\* What is asked of a controller: t is the target move_to arrives at.
Asked(c, t) ==
  /\ pc = "rank"
  /\ IsNext(c)
  /\ ~WithinReach /\ OnTable(c)
  /\ \E p \in Table(c) : IsNearest(c, p) /\ t = Capped(c, p)

StaysPutInPlay(c, t) ==                                         \* a mutant
  /\ Asked(c, t)
  /\ t = position[c]
  /\ outcome' = [outcome EXCEPT ![c] =
                   IF Saturated(c) THEN "AtLimit" ELSE "Closest"]
  /\ queue' = queue \ {c}
  /\ UNCHANGED <<pc, position, history, frozen, physics, todo, lead,
                 remaining, moved, run>>

\* move_to, first return: there is nothing nearer than where it is.
StaysPut(c, t) ==
  /\ Asked(c, t)
  /\ t = position[c]
  /\ outcome' = [outcome EXCEPT ![c] =
                   IF Saturated(c) THEN "AtLimit" ELSE "Closest"]
  /\ frozen' = [frozen EXCEPT ![c] = TRUE]
  /\ queue' = queue \ {c}
  /\ UNCHANGED <<pc, position, history, physics, todo, lead, remaining,
                 moved, run>>

\* move_to, second return: one reversal too many.
Hunts(c, t) ==
  /\ Asked(c, t)
  /\ t # position[c]
  /\ LastReversal(c, t)
  /\ changes' = [changes EXCEPT ![c] = @ + 1]
  /\ outcome' = [outcome EXCEPT ![c] = "Hunting"]
  /\ frozen' = [frozen EXCEPT ![c] = TRUE]
  /\ queue' = queue \ {c}
  /\ UNCHANGED <<pc, position, steps, direction, physics, todo, lead,
                 remaining, moved, run>>

\* move_to to the end: set_position, the history, and the effect the next
\* controller of the group is sized against.
Moves(c, t) ==
  /\ Asked(c, t)
  /\ t # position[c]
  /\ ~LastReversal(c, t)
  /\ changes' = [changes EXCEPT ![c] = IF Reverses(c, t) THEN @ + 1 ELSE @]
  /\ position' = [position EXCEPT ![c] = t]
  /\ direction' = [direction EXCEPT ![c] = Way(c, t)]
  /\ steps' = [steps EXCEPT ![c] = @ + Charged(c, t)]
  /\ remaining' = Left(c, t)
  /\ moved' = TRUE
  /\ queue' = queue \ {c}
  /\ UNCHANGED <<pc, outcome, frozen, physics, todo, lead, run>>

EndGroup ==
  /\ pc = "rank" /\ queue = {}
  /\ pc' = "group"
  /\ UNCHANGED <<position, history, outcome, frozen, physics, locals, run>>

-----------------------------------------------------------------------------
(* The answer of check, and what becomes of the run.                       *)

Unstable ==
  /\ pc = "group" /\ todo = {}
  /\ moved
  /\ resolves' = resolves + 1
  /\ pc' = "solve"
  /\ UNCHANGED <<position, history, outcome, frozen, physics, locals,
                 disturbed>>

Stable ==
  /\ pc = "group" /\ todo = {}
  /\ ~moved
  /\ pc' = "stable"
  /\ UNCHANGED <<position, history, outcome, frozen, physics, locals, run>>

\* Another loop moved the network, which spends a re-solve as well.
Disturbed ==
  /\ pc = "stable"
  /\ disturbed < Disturbances
  /\ disturbed' = disturbed + 1
  /\ resolves' = resolves + 1
  /\ pc' = "solve"
  /\ UNCHANGED <<position, history, outcome, frozen, physics, locals>>

\* No other loop moved anything: the run is over.
Accepted ==
  /\ pc = "stable"
  /\ pc' = "done"
  /\ UNCHANGED <<position, history, outcome, frozen, physics, locals, run>>

Next ==
  \/ Solve \/ BeginCheck \/ CheckFailed
  \/ \E l \in todo : GroupHeld(l) \/ GroupOut(l)
  \/ \E c \in queue :
       \/ ServedInReach(c) \/ OffTable(c)
       \/ \E t \in Table(c) : StaysPut(c, t) \/ Hunts(c, t) \/ Moves(c, t)
  \/ EndGroup \/ Unstable \/ Stable \/ Disturbed \/ Accepted

Spec == Init /\ [][Next]_vars

-----------------------------------------------------------------------------
(* Properties                                                              *)

TypeOK ==
  /\ pc \in {"solve", "check", "group", "rank", "stable", "done"}
  /\ position \in [Controllers -> Int]
  /\ steps \in [Controllers -> Nat]
  /\ changes \in [Controllers -> Nat]
  /\ direction \in [Controllers -> Directions]
  /\ outcome \in [Controllers -> Outcomes]
  /\ frozen \in [Controllers -> BOOLEAN]
  /\ measured \in [Quantities -> Measurements]
  /\ sens \in [Controllers -> Sensitivities]
  /\ todo \subseteq Controllers
  /\ queue \subseteq Controllers
  /\ lead \in Controllers \cup {0}
  /\ remaining \in Int
  /\ moved \in BOOLEAN
  /\ resolves \in Nat
  /\ disturbed \in 0..Disturbances

\* The direction budget bounds a controller's whole history, whatever the
\* network answers: it never travels more than MaxDirectionChanges times the
\* width of its table, although no single test in move_to says so.
StepsBounded ==
  \A c \in Controllers : steps[c] <= MaxDirectionChanges * Width(c)

\* steps_moved and the positions of the report agree: a controller is never
\* further from where it started than the steps it is charged with.
StepsCoverDisplacement ==
  \A c \in Controllers : Size(position[c] - Start[c]) <= steps[c]

GivenUp == {"AtLimit", "Closest", "Insensitive", "Hunting"}
Held(c) == \E d \in Controllers :
             /\ ~frozen[d] /\ Quantity[d] = Quantity[c]
             /\ Size(Target[d] - measured[Quantity[d]]) <= Half[d]

\* When check answers Stable, of every controller that stands on its table the
\* outcome is true of the solved state: it has given up for good, for a reason it
\* reports, or it reports InDeadband and its quantity was measured inside
\* (TransformerVoltageControl::check, the comment at its last branch).  Nothing
\* is said of a controller that is off its table, which check passes over: its
\* outcome may be of an earlier check, see InDeadbandIsMeasured.
StableMeansSettled ==
  pc = "stable" =>
    \A c \in Controllers : OnTable(c) =>
      \/ frozen[c] /\ outcome[c] \in GivenUp
      \/ outcome[c] = "InDeadband" /\ Held(c)

\* "The controlled quantity is inside the deadband" (ControllerOutcome::InDeadband):
\* when check answers Stable, so it is for every controller that reports it.  It is
\* not for one off its table: held in one check, passed over in the next.
InDeadbandIsMeasured ==
  pc = "stable" => \A c \in Controllers : outcome[c] = "InDeadband" => Held(c)

\* A controller that reports AtLimit is at an end of what its table can
\* produce, even though its moves are capped to MaxTapShift positions.
AtLimitIsExtreme ==
  \A c \in Controllers :
    outcome[c] = "AtLimit" =>
      \/ \A p \in Table(c) : Ratio[c][p] <= Ratio[c][position[c]]
      \/ \A p \in Table(c) : Ratio[c][p] >= Ratio[c][position[c]]

\* Giving up is final: once a controller is frozen neither its tap nor what
\* is reported of it ever changes.
FrozenIsFinal ==
  [][\A c \in Controllers : frozen[c] =>
       frozen'[c] /\ position'[c] = position[c] /\ outcome'[c] = outcome[c]]_vars

\* The loop ends on its own: with the network moved from outside a bounded
\* number of times, check stops answering Unstable before a budget of one
\* re-solve for every step the controllers may ever take is spent.
EndsWithinBudget == pc = "solve" => resolves < Budget
=============================================================================
