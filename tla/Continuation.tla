----------------------------- MODULE Continuation -----------------------------
(***************************************************************************)
(* One continuation power flow: the walk `trace` of                        *)
(* crates/gridoxide-core/src/continuation/mod.rs along a curve of          *)
(* solutions to its nose, and below it when asked.                         *)
(*                                                                         *)
(* Arclength is counted in ticks, the resolution of the locators.  The     *)
(* curve is physics: lambda rises by one a tick up to the fold and falls   *)
(* beyond it, the fold lies where the machines still holding their voltage *)
(* put it, and each machine reaches its limit at an arclength of its own.  *)
(* A probe may fail, for any step and any trial.  Reactive limits are      *)
(* enforced and events and the nose are located, the defaults.             *)
(***************************************************************************)
EXTENDS Integers, FiniteSets

CONSTANTS
  Units,             \* the machines with a reactive limit
  Folds,             \* curves: where the fold is, by the set of clamped machines
  Saturations,       \* the arclength at which each machine reaches its limit
  FirstStep, StepMin, StepMax,   \* ContinuationOptions, in ticks
  MaxSteps, TraceLower, TargetLambda,
  ProbesConverge     \* does every trial of a locator settle?

ASSUME ContinuationAssumption ==
  /\ Folds \subseteq [SUBSET Units -> Nat \ {0}]
  /\ Saturations \subseteq [Units -> Nat]
  /\ {FirstStep, StepMin, StepMax, MaxSteps} \subseteq Nat \ {0}
  /\ StepMin <= FirstStep /\ FirstStep <= StepMax
  /\ TraceLower \in BOOLEAN /\ ProbesConverge \in BOOLEAN

VARIABLES
  fold, saturation,  \* the curve; they never change
  arclength, lambda, clamped,   \* the committed point
  step, attempts, walking,
  points,            \* ContinuationCurve::points
  critical,          \* the critical point, if one was found
  ending,            \* ContinuationStatus
  clampedAt          \* history: the arclength at which each machine was clamped

curve == <<fold, saturation>>
walkvars == <<curve, arclength, lambda, clamped, step, attempts, walking, points,
              critical, ending, clampedAt>>

Free == -1
Clamp(s) == IF s < StepMin THEN StepMin ELSE IF s > StepMax THEN StepMax ELSE s

\* dlambda/dsigma > 0 at arclength a, and how far lambda moves over x ticks.
Rising(units, a) == a < fold[units]
Gain(units, a, x) ==
  LET up == IF fold[units] <= a THEN 0
            ELSE IF fold[units] >= a + x THEN x ELSE fold[units] - a
  IN  up - (x - up)

\* worst_violation > 0: a machine that still holds its voltage is past a limit.
Violated(a) == {u \in Units \ clamped : saturation[u] <= a}

\* The base solve clamps what is past its limit at lambda = 0.
WalkInit ==
  /\ fold \in Folds /\ saturation \in Saturations
  /\ arclength = 0 /\ lambda = 0
  /\ clamped = {u \in Units : saturation[u] = 0}
  /\ step = Clamp(FirstStep) /\ attempts = 0 /\ walking = TRUE
  /\ points = {[arclength |-> 0, lambda |-> 0]}
  /\ critical = {} /\ ending = "max steps"
  /\ clampedAt = [u \in Units |-> IF u \in clamped THEN 0 ELSE Free]

Trying == walking /\ attempts < MaxSteps /\ attempts' = attempts + 1

OutOfSteps ==
  /\ walking /\ attempts = MaxSteps
  /\ walking' = FALSE
  /\ UNCHANGED <<curve, arclength, lambda, clamped, step, attempts, points,
                 critical, ending, clampedAt>>

\* probe gives nothing: the corrector failed, or landed away from its predictor.
RejectStep ==
  /\ Trying
  /\ step' = step \div 2
  /\ walking' = (step' >= StepMin)
  /\ ending' = IF step' >= StepMin THEN ending ELSE "step floor"
  /\ UNCHANGED <<curve, arclength, lambda, clamped, points, critical, clampedAt>>

Ends(how) == walking' = FALSE /\ ending' = how
GoesOn == UNCHANGED <<walking, ending>>

\* The bordered matrix is singular: the point is committed and not recorded.
NoTangent == Ends("singular") /\ UNCHANGED <<step, points, critical>>

Record == points' = points \cup {[arclength |-> arclength', lambda |-> lambda']}

-----------------------------------------------------------------------------
(* A limit inside the step.                                                 *)

\* Where the locator stops: the first crossing, or any later trial past it when
\* trials fail; the step's end when the anchor was past a limit already.
Crossings == {x \in 1..step : Violated(arclength + x) # {}}
LocatedAt(x) ==
  /\ x \in Crossings
  /\ Violated(arclength) # {} => x = step
  /\ ProbesConverge /\ Violated(arclength) = {} => \A y \in Crossings : x <= y

\* a mutant: the event path falls through into the accept path.
TravelledWholeStep(x) == step
Travelled(x) == x

\* a mutant: only a smooth fold is watched for.
TurnsDownNever == FALSE
TurnsDown == ~Rising(clamped', arclength')

LimitEvent ==
  /\ Trying
  /\ \E x \in 1..step :
       /\ LocatedAt(x)
       /\ lambda' = lambda + Gain(clamped, arclength, x)
       /\ arclength' = arclength + Travelled(x)
       /\ clamped' = clamped \cup Violated(arclength + x)
       /\ clampedAt' = [u \in Units |-> IF u \in clamped' \ clamped
                                          THEN arclength + x ELSE clampedAt[u]]
  /\ \/ NoTangent
     \/ /\ Record
        /\ IF TurnsDown
             THEN /\ critical' = {[kind |-> "limit", lambda |-> lambda']}
                  /\ Ends("limit") /\ UNCHANGED step
             ELSE step' = Clamp(step \div 4) /\ GoesOn /\ UNCHANGED critical
  /\ UNCHANGED curve

-----------------------------------------------------------------------------
(* A step that is accepted.                                                 *)

PassesNose == /\ critical = {}
              /\ Rising(clamped, arclength) /\ ~Rising(clamped, arclength + step)

\* Where the refinement of the nose stops, past the fold.
NosePoints == {x \in 1..step : ~Rising(clamped, arclength + x)}
RefinedTo(x) ==
  /\ x \in NosePoints
  /\ ProbesConverge => \A y \in NosePoints : x <= y

Accept ==
  /\ Trying
  /\ Violated(arclength + step) = {}
  /\ lambda' = lambda + Gain(clamped, arclength, step)
  /\ arclength' = arclength + step
  /\ UNCHANGED <<curve, clamped, clampedAt>>

AcceptSingular == Accept /\ NoTangent

AcceptNose ==
  /\ Accept /\ PassesNose
  /\ Record
  /\ \E x \in 1..step :
       /\ RefinedTo(x)
       /\ critical' = {[kind |-> "fold", lambda |-> lambda + Gain(clamped, arclength, x)]}
  /\ ending' = "nose" /\ walking' = TraceLower
  /\ UNCHANGED step

\* step *= target_iterations / iterations, held between a half and two.
Rescaled == step' \in {Clamp(step \div 2), step, Clamp(2 * step)}

AtTarget == lambda + Gain(clamped, arclength, step) >= TargetLambda
AtZero == TraceLower /\ critical # {} /\ lambda' <= 0

AcceptOn ==
  /\ Accept /\ ~PassesNose /\ ~AtTarget
  /\ Record
  /\ IF AtZero THEN Ends("zero") /\ UNCHANGED step ELSE GoesOn /\ Rescaled
  /\ UNCHANGED critical

\* The last point is moved back to the target when that solve converges, and
\* keeps the arclength of the step.
AcceptTarget ==
  /\ Trying
  /\ Violated(arclength + step) = {} /\ ~PassesNose /\ AtTarget
  /\ arclength' = arclength + step
  /\ lambda' \in {TargetLambda, lambda + Gain(clamped, arclength, step)}
  /\ Record
  /\ Ends("target")
  /\ UNCHANGED <<curve, clamped, clampedAt, step, critical>>

WalkNext ==
  \/ OutOfSteps \/ RejectStep \/ LimitEvent
  \/ AcceptSingular \/ AcceptNose \/ AcceptOn \/ AcceptTarget

WalkSpec == WalkInit /\ [][WalkNext]_walkvars

-----------------------------------------------------------------------------
(* Properties                                                               *)

\* lambda where the curve is followed tick by tick, each machine clamped from
\* where its limit was located.
ClampedBefore(t) == {u \in Units : clampedAt[u] # Free /\ clampedAt[u] < t}
UpTicks(a) == {t \in 1..a : t <= fold[ClampedBefore(t)]}
OnCurve(a) == LET up == Cardinality(UpTicks(a)) IN up - (a - up)

\* "The event path and the ordinary accept path are mutually exclusive, and each
\* commits `buses`, `lambda` and `arclength` exactly once": whatever was
\* rejected, located and switched on the way, the point the walk stands on is
\* the one its arclength names, and no machine there is past its limit and
\* still holding its voltage (trace, mod.rs:978).
StandsOnTheCurve ==
  ending # "target" =>
    /\ lambda = OnCurve(arclength)
    /\ Violated(arclength) = {}

\* "A continuation watching only for a smooth fold marches past this": the walk
\* never goes on beyond a nose, smooth or a machine's limit, it has not
\* reported (trace, mod.rs:1053).
NoseIsNoticed ==
  walking /\ ~Rising(clamped, arclength) => critical # {}

\* CriticalPoint::lambda_max is "lambda at the nose, when one was found"
\* (mod.rs:297), and at a limit "lambda_max is the event itself" (mod.rs:219):
\* no point of the curve that was traced lies beyond it.
LambdaMaxIsTheMaximum ==
  \A c \in critical : \A p \in points : p.lambda <= c.lambda
=============================================================================
