------------------------------ MODULE Automatons ------------------------------
(***************************************************************************)
(* The automatons of one contingency (rao/automaton.rs, simulate): speeds  *)
(* in ascending order, an unstated one first; the network actions of a     *)
(* speed on one measurement, then its phase shifters one at a time, each   *)
(* on the flows as they stand.                                             *)
(*                                                                         *)
(* A shifter is sized from a linear estimate, which is any: no influence,  *)
(* or any permitted tap to go to next.  Positions are taps whose angles    *)
(* ascend with them, so the code's two orders agree.  The rounds and the   *)
(* shifts of one shifter are capped as in the code (MAX_ROUNDS,            *)
(* MAX_SHIFTS).                                                            *)
(***************************************************************************)
EXTENDS Remedial

CONSTANTS
  AutoState,       \* the auto state of the contingency
  Speed, RangeSpeed,   \* of network actions and range actions; 0 when unstated
  MaxRounds, MaxShifts

VARIABLES
  handed,          \* the configuration the automatons start from
  grid,            \* the configuration as they change it
  doing,           \* "speed", "network", "range", "shift", "again" or "done"
  ahead, speed,    \* the speeds to come, and the one being processed
  seen,            \* the CNECs found violated at the last measurement
  cursor,          \* the action considered next
  fired, moved,    \* network actions and range actions that acted
  rounds,
  trial,           \* the shifter being sized: its tap, direction, shifts
  hopeless         \* the CNECs it cannot help

autovars == <<handed, grid, doing, ahead, speed, seen, cursor, fired, moved,
              rounds, trial, hopeless>>

Speeds == {Speed[a] : a \in {b \in Actions : Operates(Rules[b], AutoState)}}
          \cup {RangeSpeed[r] : r \in {q \in RangeActions : Operates(RangeRules[q], AutoState)}}

\* Like the numbers of the code, speeds are bounded.
ASSUME SpeedAssumption ==
  /\ Speed \in [Actions -> Int] /\ RangeSpeed \in [RangeActions -> Int]
  /\ Speeds # {} => \E low \in Speeds : \A v \in Speeds : low <= v

AtRest == [tap |-> 0, from |-> 0, direction |-> 0, shifts |-> 0]

Sensed == Violated(AutoState, grid)

NextUp == CHOOSE v \in ahead : \A u \in ahead : v <= u

\* a mutant: anchored on the taps as the automatons have left them.
PermittedTapsNow(r) == Permitted(r, grid)
\* Anchored on the configuration handed over, measured once.
PermittedTaps(r) == Permitted(r, handed)

Nearest(taps, position) ==
  CHOOSE t \in taps : \A u \in taps :
    \/ (t - position) * (t - position) < (u - position) * (u - position)
    \/ (t - position) * (t - position) = (u - position) * (u - position) /\ t <= u

Begin ==
  /\ grid = handed
  /\ doing = IF \E c \in Cnecs : StateOf[c] = AutoState THEN "speed" ELSE "done"
  /\ ahead = Speeds /\ speed = 0
  /\ seen = {} /\ cursor = 1 /\ rounds = 0
  /\ fired = {} /\ moved = {}
  /\ trial = AtRest /\ hopeless = {}

-----------------------------------------------------------------------------
(* A speed's network actions.                                              *)

NextSpeed ==
  /\ doing = "speed"
  /\ ahead # {}
  /\ speed' = NextUp /\ ahead' = ahead \ {NextUp}
  /\ seen' = Sensed
  /\ cursor' = 1 /\ rounds' = 0
  /\ doing' = "network"
  /\ UNCHANGED <<handed, grid, fired, moved, trial, hopeless>>

Finish ==
  /\ doing = "speed"
  /\ ahead = {}
  /\ doing' = "done"
  /\ UNCHANGED <<handed, grid, ahead, speed, seen, cursor, fired, moved, rounds,
                 trial, hopeless>>

\* a mutant: each is asked what its sibling just did.
SnapshotAgain == Sensed
\* What the actions of a speed are asked against: one measurement for all.
Snapshot == seen

Fires(a) ==
  /\ a \notin fired
  /\ Speed[a] = speed
  /\ Triggered(Rules[a], AutoState, Snapshot)
  /\ a \in Connections                       \* refused whole otherwise

NetworkAction ==
  /\ doing = "network"
  /\ cursor <= NActions
  /\ IF Fires(cursor) THEN /\ grid' = With(grid, Effect[cursor])
                           /\ fired' = fired \cup {cursor}
     ELSE UNCHANGED <<grid, fired>>
  /\ cursor' = cursor + 1
  /\ UNCHANGED <<handed, doing, ahead, speed, seen, moved, rounds, trial, hopeless>>

-----------------------------------------------------------------------------
(* A speed's phase shifters.                                               *)

AfterNetworkActions == doing = "network" /\ cursor > NActions

\* What a round of shifters is asked against.
Measured == Sensed

StartRound ==
  /\ AfterNetworkActions \/ doing = "again"
  /\ rounds < MaxRounds
  /\ rounds' = rounds + 1
  /\ seen' = Measured
  /\ cursor' = 1
  /\ doing' = "range"
  /\ UNCHANGED <<handed, grid, ahead, speed, fired, moved, trial, hopeless>>

OutOfRounds ==
  /\ doing = "again"
  /\ rounds = MaxRounds
  /\ doing' = "speed"
  /\ UNCHANGED <<handed, grid, ahead, speed, seen, cursor, fired, moved, rounds,
                 trial, hopeless>>

WatchedBy(r) == Watched(RangeRules[r], AutoState, seen)
Eligible(r) ==
  /\ r \notin moved
  /\ RangeSpeed[r] = speed
  /\ Triggered(RangeRules[r], AutoState, seen)
  /\ ElementOf[r] \in Shifters
  /\ Table[r] # {}                          \* else it stands on no tap
  /\ WatchedBy(r) # {}

Skip ==
  /\ doing = "range"
  /\ cursor <= NRange /\ ~Eligible(cursor)
  /\ cursor' = cursor + 1
  /\ UNCHANGED <<handed, grid, doing, ahead, speed, seen, fired, moved, rounds,
                 trial, hopeless>>

NoneMoved ==
  /\ doing = "range"
  /\ cursor > NRange
  /\ doing' = "speed"
  /\ UNCHANGED <<handed, grid, ahead, speed, seen, cursor, fired, moved, rounds,
                 trial, hopeless>>

Consider ==
  /\ doing = "range"
  /\ cursor <= NRange /\ Eligible(cursor)
  /\ LET tap == Nearest(PermittedTaps(cursor), grid[ElementOf[cursor]])
     IN  trial' = [tap |-> tap, from |-> tap, direction |-> 0, shifts |-> 0]
  /\ hopeless' = {}
  /\ doing' = "shift"
  /\ UNCHANGED <<handed, grid, ahead, speed, seen, cursor, fired, moved, rounds>>

\* The grid with the shifter on a tap.
At(tap) == Put(grid, ElementOf[cursor], tap)
\* Before its first shift the shifter is measured where it is.
Tried == IF trial.tap = trial.from THEN grid ELSE At(trial.tap)

Offending == {c \in WatchedBy(cursor) \ hopeless : Margin(case, c, Tried) < 0}
WorstOffending == CHOOSE c \in Offending : \A d \in Offending :
                    Margin(case, c, Tried) <= Margin(case, d, Tried)

Sizing == doing = "shift" /\ Offending # {} /\ trial.shifts < MaxShifts

\* The estimate says the shifter has no influence on the worst CNEC.
NoInfluence ==
  /\ Sizing
  /\ hopeless' = hopeless \cup {WorstOffending}
  /\ trial' = [trial EXCEPT !.shifts = @ + 1]
  /\ UNCHANGED <<handed, grid, doing, ahead, speed, seen, cursor, fired, moved, rounds>>

Toward(tap) == IF tap > trial.tap THEN 1 ELSE -1
Reverses(tap) == trial.direction # 0 /\ Toward(tap) # trial.direction
Shift ==
  /\ Sizing
  /\ \E tap \in PermittedTaps(cursor) \ {trial.tap} :
       /\ ~Reverses(tap)
       /\ trial' = [trial EXCEPT !.tap = tap, !.direction = Toward(tap),
                                 !.shifts = @ + 1]
  /\ UNCHANGED <<handed, grid, doing, ahead, speed, seen, cursor, fired, moved,
                 rounds, hopeless>>

Secures(tap) ==
  \A c \in WatchedBy(cursor) \ hopeless : Margin(case, c, At(tap)) >= 0
Between ==
  {t \in PermittedTaps(cursor) : \/ trial.from < t /\ t < trial.tap
                                 \/ trial.tap < t /\ t < trial.from}
\* a mutant: the estimate is believed.
SmallestSecuringBelieved == trial.tap
SmallestSecuring ==
  LET securing == {t \in Between : Secures(t)}
  IN  IF securing = {} THEN trial.tap ELSE Nearest(securing, trial.from)

\* Secure, at a bound, asked to turn round, or out of turns: shifting ends.
Settle ==
  /\ doing = "shift"
  /\ trial.tap # trial.from
  /\ grid' = At(SmallestSecuring)
  /\ moved' = moved \cup {cursor}
  /\ doing' = "again"
  /\ trial' = AtRest /\ hopeless' = {}
  /\ UNCHANGED <<handed, ahead, speed, seen, cursor, fired, rounds>>

Decline ==
  /\ doing = "shift"
  /\ trial.tap = trial.from
  /\ cursor' = cursor + 1
  /\ doing' = "range"
  /\ trial' = AtRest /\ hopeless' = {}
  /\ UNCHANGED <<handed, grid, ahead, speed, seen, fired, moved, rounds>>

AutoNext ==
  \/ NextSpeed \/ Finish \/ NetworkAction
  \/ StartRound \/ OutOfRounds \/ Skip \/ NoneMoved \/ Consider
  \/ NoInfluence \/ Shift \/ Settle \/ Decline

-----------------------------------------------------------------------------
(* Properties.                                                             *)

\* Equipment of one speed samples the grid at the same moment: once a speed's
\* network actions have fired, two of them with the same rules have both acted
\* or neither has, whatever the first did to the flows the second watches.
SameSpeedSeesSameGrid ==
  AfterNetworkActions =>
    \A a, b \in Connections :
      Speed[a] = speed /\ Speed[b] = speed /\ Rules[a] = Rules[b]
        => (a \in fired <=> b \in fired)

\* What the automatons do together is what they may do: an unconditional one has
\* acted, none that nothing covers has, and a shifter is not exempt from its own
\* range, which is about where the preventive perimeter left it whatever another
\* automaton did to it since.
AutomatonsKeepTheirPromise ==
  doing = "done" /\ (\E c \in Cnecs : StateOf[c] = AutoState) =>
    AutomatonsMay(handed, AutoState, [fired |-> fired, moved |-> moved, grid |-> grid])

\* An automaton shifts until the CNECs it watches are secure and no further:
\* one tap less in the direction it went, and something it watches and can help
\* is still violated.
NoFurtherThanNeeded ==
  [][moved' # moved =>
       LET r == CHOOSE q \in moved' : q \notin moved
           reached == grid'[ElementOf[r]]
           short == {t \in Between : IF reached > trial.from THEN t < reached
                                                             ELSE t > reached}
       IN  \A t \in short :
             \E c \in WatchedBy(r) \ hopeless : Margin(case, c, At(t)) < 0]_autovars
=============================================================================
