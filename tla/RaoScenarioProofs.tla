--------------------------- MODULE RaoScenarioProofs ---------------------------
(***************************************************************************)
(* What a contingency's automatons and its curative searches keep to, for  *)
(* any CRAC, any loadings and whatever the load flows and the linear       *)
(* estimates answer.  RemedialPlan rests on these: it lets automatons do   *)
(* what AutomatonsMay says and a search give any of its Answers.           *)
(*                                                                         *)
(* AutoInv says of every moment what AutomatonsKeepTheirPromise says of    *)
(* the last; LedgerInv keeps the winner of a depth ahead of every offer    *)
(* looked at; PromiseInv follows one leaf through the depths: the network  *)
(* handed in, with the actions taken applied once each, and nothing else.  *)
(***************************************************************************)
EXTENDS RaoScenario, FiniteSetTheorems, WellFoundedInduction, TLAPS

-----------------------------------------------------------------------------
(* Smallest and largest.                                                    *)

LEMMA SmallestExists ==
  ASSUME NEW S \in SUBSET Int, S # {}, NEW low \in Int, \A m \in S : low <= m
  PROVE  \E m \in S : \A n \in S : m <= n
<1> DEFINE T == {m - low : m \in S}
<1>1. ASSUME NEW t \in T PROVE t \in Nat
  <2>1. PICK m \in S : t = m - low
    OBVIOUS
  <2>2. m \in Int /\ low <= m
    OBVIOUS
  <2> QED
    BY <2>1, <2>2
<1>2. T \in SUBSET Nat /\ T # {}
  BY <1>1
<1>3. PICK t \in T : \A u \in T : ~(<<u, t>> \in OpToRel(<, Nat))
  BY <1>2, NatLessThanWellFounded, WFMin
<1>4. PICK m \in S : t = m - low
  OBVIOUS
<1>5. ASSUME NEW n \in S PROVE m <= n
  <2> DEFINE u == n - low
  <2>1. u \in T /\ u \in Nat /\ t \in Nat
    BY <1>1
  <2>2. ~(u < t)
    BY <1>3, <2>1 DEF OpToRel
  <2>3. m \in Int /\ n \in Int
    OBVIOUS
  <2> QED
    BY <1>4, <2>1, <2>2, <2>3
<1> QED
  BY <1>5

LEMMA LargestExists ==
  ASSUME NEW n \in Nat, NEW S \in SUBSET (1..n), S # {}
  PROVE  \E m \in S : \A k \in S : k <= m
<1> DEFINE T == {n - k : k \in S}
<1>1. ASSUME NEW t \in T PROVE t \in Int /\ 0 <= t
  <2>1. PICK k \in S : t = n - k
    OBVIOUS
  <2>2. k \in 1..n
    OBVIOUS
  <2> QED
    BY <2>1, <2>2
<1>2. T \in SUBSET Int /\ T # {} /\ \A t \in T : 0 <= t
  BY <1>1
<1> HIDE DEF T
<1>3. PICK t \in T : \A u \in T : t <= u
  BY <1>2, SmallestExists
<1>4. PICK m \in S : t = n - m
  BY DEF T
<1>5. ASSUME NEW k \in S PROVE k <= m
  <2>1. n - k \in T
    BY DEF T
  <2>2. t <= n - k
    BY <1>3, <2>1
  <2>3. m \in Int /\ k \in Int
    OBVIOUS
  <2> QED
    BY <1>4, <2>2, <2>3
<1> QED
  BY <1>5

\* The nearest tap there is, and of two as near the lower.
LEMMA NearestIsThere ==
  ASSUME NEW taps \in SUBSET Int, taps # {}, NEW position \in Int
  PROVE  /\ Nearest(taps, position) \in taps
         /\ \A u \in taps :
              (Nearest(taps, position) - position) * (Nearest(taps, position) - position)
                <= (u - position) * (u - position)
<1> DEFINE away(t) == (t - position) * (t - position)
           S == {away(t) : t \in taps}
<1>1. ASSUME NEW t \in Int PROVE away(t) \in Int /\ 0 <= away(t) /\ position - away(t) <= t
  <2> DEFINE k == t - position
  <2>1. k \in Int
    OBVIOUS
  <2>2. ASSUME NEW i \in Int PROVE i * i \in Int /\ 0 <= i * i /\ -(i * i) <= i
    OBVIOUS
  <2>3. k * k \in Int /\ 0 <= k * k /\ -(k * k) <= k
    BY <2>1, <2>2
  <2> QED
    BY <2>1, <2>3
<1>2. S \in SUBSET Int /\ S # {} /\ \A m \in S : 0 <= m
  BY <1>1
<1> HIDE DEF S
<1>3. PICK m \in S : \A n \in S : m <= n
  BY <1>2, SmallestExists
<1> DEFINE T == {t \in taps : away(t) = m}
<1>4. T \in SUBSET Int /\ T # {} /\ m \in Int
  BY <1>2 DEF S
<1>5. position - m \in Int /\ \A t \in T : position - m <= t
  BY <1>1, <1>4
<1> HIDE DEF T
<1>6. PICK t \in T : \A u \in T : t <= u
  BY <1>4, <1>5, SmallestExists
<1>7. t \in taps /\ away(t) = m
  BY DEF T
<1> HIDE DEF away
<1>8. ASSUME NEW u \in taps PROVE away(t) < away(u) \/ (away(t) = away(u) /\ t <= u)
  <2>1. away(u) \in Int /\ away(t) \in Int /\ m <= away(u)
    BY <1>1, <1>3, <1>7 DEF S
  <2>2. away(u) = m => t <= u
    BY <1>6 DEF T
  <2> QED
    BY <1>7, <2>1, <2>2
<1>9. \E v \in taps : \A u \in taps :
        \/ (v - position) * (v - position) < (u - position) * (u - position)
        \/ (v - position) * (v - position) = (u - position) * (u - position) /\ v <= u
  BY <1>7, <1>8 DEF away
<1>10. /\ Nearest(taps, position) \in taps
       /\ \A u \in taps : \/ away(Nearest(taps, position)) < away(u)
                          \/ away(Nearest(taps, position)) = away(u)
  BY <1>9 DEF Nearest, away
<1>11. \A u \in taps : away(u) \in Int
  BY <1>1
<1>12. ASSUME NEW u \in taps PROVE away(Nearest(taps, position)) <= away(u)
  <2>1. away(u) \in Int /\ away(Nearest(taps, position)) \in Int
    BY <1>10, <1>11
  <2>2. away(Nearest(taps, position)) < away(u) \/ away(Nearest(taps, position)) = away(u)
    BY <1>10
  <2> QED
    BY <2>1, <2>2
<1> QED
  BY <1>10, <1>12 DEF away

-----------------------------------------------------------------------------
(* Configurations and measurements.                                         *)

LEMMA PositionsAreNumbers == Positions \subseteq Int
<1> SUFFICES ASSUME NEW p \in Positions PROVE p \in Int
  OBVIOUS
<1>1. p \in {0, 1} \/ \E r \in RangeActions : p \in Table[r]
  BY DEF Positions
<1> QED
  BY <1>1, RemedialAssumption

LEMMA PermittedArePositions ==
  ASSUME NEW r \in RangeActions, NEW previous
  PROVE  /\ Permitted(r, previous) \subseteq Table[r]
         /\ Permitted(r, previous) \subseteq Positions
         /\ Table[r] # {} => Permitted(r, previous) # {}
<1>1. Permitted(r, previous) \subseteq Table[r] /\ (Table[r] # {} => Permitted(r, previous) # {})
  BY DEF Permitted, Inside
<1> QED
  BY <1>1 DEF Positions

LEMMA WithIsAConfig ==
  ASSUME NEW config \in Configs, NEW effect, \A e \in DOMAIN effect : effect[e] \in Positions
  PROVE  With(config, effect) \in Configs
  BY DEF With, Configs

LEMMA PutIsAConfig ==
  ASSUME NEW config \in Configs, NEW e, NEW p \in Positions
  PROVE  Put(config, e, p) \in Configs
  BY DEF Put, Configs

LEMMA MarginsAreNumbers ==
  ASSUME case \in Cases, NEW c \in Cnecs, NEW g \in Configs
  PROVE  Margin(case, c, g) \in Margins /\ Margin(case, c, g) \in Int
<1>1. Margin(case, c, g) \in Margins
  BY DEF Margins
<1> QED
  BY <1>1, RemedialAssumption

-----------------------------------------------------------------------------
(* The automatons.                                                          *)

Trials == [tap : Int, from : Int, direction : Int, shifts : Int]

AutoTypes ==
  /\ case \in Cases
  /\ handed \in Configs /\ grid \in Configs
  /\ doing \in {"speed", "network", "range", "shift", "again", "done"}
  /\ ahead \subseteq Speeds
  /\ cursor \in Nat \ {0}
  /\ seen \subseteq Cnecs
  /\ trial \in Trials

\* What acted had a rule for it, and its speed has come.
ActedInv ==
  /\ fired \subseteq MayAct(AutoState).actions
  /\ moved \subseteq MayAct(AutoState).shifters
  /\ \A a \in fired : Speed[a] \notin ahead
  /\ doing = "network" => speed \notin ahead

\* Whether a network action of this speed has fired says what the snapshot says of
\* its rules, not what those before it did.
SnapshotInv ==
  doing = "network" =>
    \A a \in Connections :
      Speed[a] = speed =>
        (a \in fired <=> a < cursor /\ Triggered(Rules[a], AutoState, seen))

\* Once their speed has passed, the unconditional ones have fired.
ForcedInv ==
  /\ \A a \in MayAct(AutoState).forced :
       Speed[a] \notin ahead /\ ~(doing = "network" /\ Speed[a] = speed) => a \in fired
  /\ doing = "done" /\ (\E c \in Cnecs : StateOf[c] = AutoState) => ahead = {}

StandInv == \A e \in Elements : grid[e] \in MayStand(e, handed, fired, moved)

ShiftInv ==
  doing = "shift" =>
    /\ cursor \in RangeActions /\ Eligible(cursor)
    /\ trial.tap \in PermittedTaps(cursor)

AutoInv == AutoTypes /\ ActedInv /\ SnapshotInv /\ ForcedInv /\ StandInv /\ ShiftInv

LEMMA ForcedAreTriggered ==
  ASSUME NEW rules, NEW s, NEW violated, Forced(rules, s)
  PROVE  Triggered(rules, s, violated)
  BY DEF Forced, Triggered

LEMMA TriggeredOperate ==
  ASSUME NEW rules, NEW s, NEW violated, Triggered(rules, s, violated)
  PROVE  Operates(rules, s)
  BY DEF Operates, Triggered

LEMMA ForcedHaveASpeed ==
  ASSUME NEW a \in MayAct(AutoState).forced
  PROVE  a \in Connections /\ a \in Actions /\ Speed[a] \in Speeds
         /\ Forced(Rules[a], AutoState)
<1>1. a \in Connections /\ Forced(Rules[a], AutoState)
  BY DEF MayAct
<1>2. a \in Actions /\ Operates(Rules[a], AutoState)
  BY <1>1 DEF Connections, Forced, Operates
<1> QED
  BY <1>1, <1>2 DEF Speeds

\* What stands where nothing more has acted still stands there.
LEMMA StandsStill ==
  ASSUME NEW e, NEW f, NEW m
  PROVE  MayStand(e, handed, f, m) =
           LET by == {Effect[a][e] : a \in {b \in f : e \in DOMAIN Effect[b]}}
                     \cup UNION {Permitted(r, handed) : r \in {q \in m : ElementOf[q] = e}}
           IN  IF by = {} THEN {handed[e]} ELSE by
  BY DEF MayStand

LEMMA AutoInit ==
  ASSUME case \in Cases, handed \in Configs, Begin
  PROVE  AutoInv
<1>1. AutoTypes
  BY DEF Begin, AutoTypes, Trials, AtRest
<1>2. ActedInv /\ SnapshotInv /\ ShiftInv
  BY DEF Begin, ActedInv, SnapshotInv, ShiftInv
<1>3. ForcedInv
  BY ForcedHaveASpeed DEF Begin, ForcedInv
<1>4. StandInv
  <2> SUFFICES ASSUME NEW e \in Elements PROVE grid[e] \in MayStand(e, handed, fired, moved)
    BY DEF StandInv
  <2>1. fired = {} /\ moved = {} /\ grid = handed
    BY DEF Begin
  <2> QED
    BY <2>1 DEF MayStand
<1> QED
  BY <1>1, <1>2, <1>3, <1>4 DEF AutoInv

LEMMA NextSpeedKeepsInv ==
  ASSUME AutoInv, NextSpeed, UNCHANGED case
  PROVE  AutoInv'
<1> USE DEF AutoInv
<1>1. /\ doing = "speed" /\ doing' = "network" /\ cursor' = 1
      /\ speed' = NextUp /\ ahead' = ahead \ {NextUp} /\ ahead # {}
      /\ seen' \subseteq Cnecs
      /\ UNCHANGED <<case, handed, grid, fired, moved, trial>>
  BY DEF NextSpeed, Sensed, Violated
<1>2. NextUp \in ahead
  <2>1. Speeds \subseteq Int
    <3>1. \A a \in Actions : Speed[a] \in Int
      BY SpeedAssumption
    <3>2. \A r \in RangeActions : RangeSpeed[r] \in Int
      BY SpeedAssumption
    <3> QED
      BY <3>1, <3>2 DEF Speeds
  <2>2. ahead \in SUBSET Int /\ ahead # {} /\ Speeds # {}
    BY <1>1, <2>1 DEF AutoTypes
  <2>3. PICK low \in Speeds : \A v \in Speeds : low <= v
    BY <2>2, SpeedAssumption
  <2>4. low \in Int /\ \A v \in ahead : low <= v
    BY <2>1, <2>3 DEF AutoTypes
  <2>5. \E v \in ahead : \A u \in ahead : v <= u
    BY <2>2, <2>4, SmallestExists
  <2> QED
    BY <2>5 DEF NextUp
<1>3. AutoTypes'
  BY <1>1 DEF AutoTypes
<1>4. ActedInv'
  BY <1>1 DEF ActedInv
<1>5. SnapshotInv'
  <2> SUFFICES ASSUME NEW a \in Connections, Speed[a] = NextUp
               PROVE  a \notin fired /\ ~(a < 1)
    BY <1>1 DEF SnapshotInv
  <2>1. a \in 1..NActions /\ NActions \in Nat
    BY RemedialAssumption DEF Connections, Actions
  <2> QED
    BY <1>2, <2>1 DEF ActedInv
<1>6. ForcedInv'
  BY <1>1 DEF ForcedInv, ActedInv
<1>7. StandInv' /\ ShiftInv'
  BY <1>1 DEF StandInv, ShiftInv
<1> QED
  BY <1>3, <1>4, <1>5, <1>6, <1>7

\* An element stands where it did, or where what has just acted puts it.
LEMMA StandsAgain ==
  ASSUME NEW e, NEW f, NEW m, NEW a, NEW p, p \in MayStand(e, handed, f, m)
  PROVE  /\ e \in DOMAIN Effect[a] => Effect[a][e] \in MayStand(e, handed, f \cup {a}, m)
         /\ e \notin DOMAIN Effect[a] => p \in MayStand(e, handed, f \cup {a}, m)
<1> DEFINE put(g) == {Effect[b][e] : b \in {c \in g : e \in DOMAIN Effect[c]}}
           shifted == UNION {Permitted(r, handed) : r \in {q \in m : ElementOf[q] = e}}
<1>1. \A g : MayStand(e, handed, g, m) =
               IF put(g) \cup shifted = {} THEN {handed[e]} ELSE put(g) \cup shifted
  BY DEF MayStand
<1> HIDE DEF shifted
<1>2. CASE e \in DOMAIN Effect[a]
  BY <1>1, <1>2
<1>3. CASE e \notin DOMAIN Effect[a]
  <2>1. put(f \cup {a}) = put(f)
    BY <1>3
  <2> QED
    BY <1>1, <1>3, <2>1
<1> QED
  BY <1>2, <1>3

LEMMA NetworkActionKeepsInv ==
  ASSUME AutoInv, NetworkAction, UNCHANGED case
  PROVE  AutoInv'
<1> USE DEF AutoInv
<1>1. /\ doing = "network" /\ doing' = doing /\ cursor <= NActions /\ cursor' = cursor + 1
      /\ UNCHANGED <<case, handed, ahead, speed, seen, moved, trial>>
      /\ \/ Fires(cursor) /\ grid' = With(grid, Effect[cursor]) /\ fired' = fired \cup {cursor}
         \/ ~Fires(cursor) /\ UNCHANGED <<grid, fired>>
  BY DEF NetworkAction
<1>2. cursor \in Actions /\ cursor \in Nat /\ NActions \in Nat
  BY <1>1, RemedialAssumption DEF AutoTypes, Actions
<1>3. Fires(cursor) => /\ cursor \in MayAct(AutoState).actions /\ cursor \in Connections
                       /\ Speed[cursor] = speed
                       /\ Triggered(Rules[cursor], AutoState, seen)
  BY TriggeredOperate DEF Fires, MayAct, Snapshot
<1>4. AutoTypes'
  <2>1. \A e \in DOMAIN Effect[cursor] : Effect[cursor][e] \in Positions
    BY <1>2, RemedialAssumption
  <2>2. grid' \in Configs
    BY <1>1, <2>1, WithIsAConfig DEF AutoTypes
  <2> QED
    BY <1>1, <1>2, <2>2 DEF AutoTypes
<1>5. ActedInv'
  BY <1>1, <1>3 DEF ActedInv
<1>6. SnapshotInv'
  <2> SUFFICES ASSUME NEW a \in Connections, Speed[a] = speed
               PROVE  a \in fired' <=> a < cursor + 1 /\ Triggered(Rules[a], AutoState, seen)
    BY <1>1 DEF SnapshotInv
  <2>1. a \in Nat
    BY RemedialAssumption DEF Connections, Actions
  <2>2. a \in fired <=> a < cursor /\ Triggered(Rules[a], AutoState, seen)
    BY <1>1 DEF SnapshotInv
  <2>3. CASE a = cursor
    <3>1. a \notin fired /\ a < cursor + 1
      BY <1>2, <2>2, <2>3
    <3>2. Fires(cursor) <=> Triggered(Rules[a], AutoState, seen)
      BY <2>3, <3>1 DEF Fires, Snapshot
    <3> QED
      BY <1>1, <2>3, <3>1, <3>2
  <2>4. CASE a # cursor
    <3>1. a \in fired' <=> a \in fired
      BY <1>1, <2>4
    <3>2. a < cursor + 1 <=> a < cursor
      BY <1>2, <2>1, <2>4
    <3> QED
      BY <2>2, <3>1, <3>2
  <2> QED
    BY <2>3, <2>4
<1>7. ForcedInv'
  BY <1>1 DEF ForcedInv
<1>8. StandInv'
  <2> SUFFICES ASSUME NEW e \in Elements PROVE grid'[e] \in MayStand(e, handed, fired', moved)
    BY <1>1 DEF StandInv
  <2>1. grid[e] \in MayStand(e, handed, fired, moved)
    BY DEF StandInv
  <2>2. CASE ~Fires(cursor)
    BY <1>1, <2>1, <2>2
  <2>3. CASE Fires(cursor)
    <3>1. grid'[e] = IF e \in DOMAIN Effect[cursor] THEN Effect[cursor][e] ELSE grid[e]
      BY <1>1, <2>3 DEF With
    <3>2. fired' = fired \cup {cursor}
      BY <1>1, <2>3
    <3> QED
      BY <2>1, <3>1, <3>2, StandsAgain
  <2> QED
    BY <2>2, <2>3
<1>9. ShiftInv'
  BY <1>1 DEF ShiftInv
<1> QED
  BY <1>4, <1>5, <1>6, <1>7, <1>8, <1>9

\* The steps that touch neither the grid nor what has acted.
LEMMA StartRoundKeepsInv ==
  ASSUME AutoInv, StartRound, UNCHANGED case
  PROVE  AutoInv'
<1> USE DEF AutoInv
<1>1. /\ AfterNetworkActions \/ doing = "again"
      /\ doing' = "range" /\ cursor' = 1 /\ seen' \subseteq Cnecs
      /\ UNCHANGED <<case, handed, grid, ahead, speed, fired, moved, trial>>
  BY DEF StartRound, Measured, Sensed, Violated
<1>2. ForcedInv'
  <2>1. CASE doing = "again"
    BY <1>1, <2>1 DEF ForcedInv
  <2>2. CASE AfterNetworkActions
    <3> SUFFICES ASSUME NEW a \in MayAct(AutoState).forced, Speed[a] \notin ahead
                 PROVE  a \in fired
      BY <1>1 DEF ForcedInv
    <3>1. a \in Connections /\ a \in Actions /\ Triggered(Rules[a], AutoState, seen)
      BY ForcedHaveASpeed, ForcedAreTriggered
    <3>2. a < cursor
      BY <2>2, <3>1, RemedialAssumption DEF AfterNetworkActions, Actions, AutoTypes
    <3> QED
      BY <2>2, <3>1, <3>2 DEF AfterNetworkActions, SnapshotInv, ForcedInv
  <2> QED
    BY <1>1, <2>1, <2>2
<1>3. AutoTypes' /\ ActedInv' /\ SnapshotInv' /\ StandInv' /\ ShiftInv'
  BY <1>1 DEF AutoTypes, ActedInv, SnapshotInv, StandInv, ShiftInv
<1> QED
  BY <1>2, <1>3

LEMMA LookingOnKeepsInv ==
  ASSUME AutoInv, Finish \/ OutOfRounds \/ Skip \/ NoneMoved, UNCHANGED case
  PROVE  AutoInv'
<1> USE DEF AutoInv
<1>1. /\ UNCHANGED <<case, handed, grid, ahead, speed, seen, fired, moved, trial>>
      /\ doing # "network" /\ doing' \in {"speed", "range", "done"}
      /\ doing' = "done" => ahead = {}
      /\ cursor' \in {cursor, cursor + 1}
  BY DEF Finish, OutOfRounds, Skip, NoneMoved
<1>2. AutoTypes'
  BY <1>1 DEF AutoTypes
<1>3. ForcedInv'
  BY <1>1 DEF ForcedInv
<1>4. ActedInv' /\ SnapshotInv' /\ StandInv' /\ ShiftInv'
  BY <1>1 DEF ActedInv, SnapshotInv, StandInv, ShiftInv
<1> QED
  BY <1>2, <1>3, <1>4

LEMMA ConsiderKeepsInv ==
  ASSUME AutoInv, Consider, UNCHANGED case
  PROVE  AutoInv'
<1> USE DEF AutoInv
<1> DEFINE tap == Nearest(PermittedTaps(cursor), grid[ElementOf[cursor]])
<1>1. /\ doing = "range" /\ doing' = "shift" /\ cursor <= NRange /\ Eligible(cursor)
      /\ trial' = [tap |-> tap, from |-> tap, direction |-> 0, shifts |-> 0]
      /\ UNCHANGED <<case, handed, grid, ahead, speed, seen, cursor, fired, moved>>
  BY DEF Consider
<1>2. cursor \in RangeActions
  BY <1>1, RemedialAssumption DEF AutoTypes, RangeActions
<1>3. tap \in PermittedTaps(cursor) /\ tap \in Int
  <2>1. Table[cursor] \subseteq Int /\ Table[cursor] # {} /\ ElementOf[cursor] \in Elements
    BY <1>1, <1>2, RemedialAssumption DEF Eligible
  <2>2. PermittedTaps(cursor) \in SUBSET Int /\ PermittedTaps(cursor) # {}
    BY <1>2, <2>1, PermittedArePositions DEF PermittedTaps
  <2>3. grid[ElementOf[cursor]] \in Int
    BY <2>1, PositionsAreNumbers DEF AutoTypes, Configs
  <2> QED
    BY <2>2, <2>3, NearestIsThere
<1> HIDE DEF tap
<1>4. AutoTypes'
  BY <1>1, <1>3 DEF AutoTypes, Trials
<1>5. ShiftInv'
  BY <1>1, <1>2, <1>3 DEF ShiftInv, Eligible, WatchedBy, PermittedTaps
<1>6. ActedInv' /\ SnapshotInv' /\ ForcedInv' /\ StandInv'
  BY <1>1 DEF ActedInv, SnapshotInv, ForcedInv, StandInv
<1> QED
  BY <1>4, <1>5, <1>6

LEMMA ShiftedTrial ==
  ASSUME NEW x \in Trials, NEW t \in Int, NEW d \in Int
  PROVE  LET y == [x EXCEPT !.tap = t, !.direction = d, !.shifts = @ + 1]
         IN  y \in Trials /\ y.tap = t
<1> DEFINE n == x.shifts + 1
<1>1. n \in Int
  BY DEF Trials
<1>2. [x EXCEPT !.tap = t, !.direction = d, !.shifts = @ + 1]
        = [x EXCEPT !.tap = t, !.direction = d, !.shifts = n]
  BY DEF Trials
<1> HIDE DEF n
<1>3. [x EXCEPT !.tap = t, !.direction = d, !.shifts = n] \in Trials
  BY <1>1 DEF Trials
<1>4. [x EXCEPT !.tap = t, !.direction = d, !.shifts = n].tap = t
  BY DEF Trials
<1> QED
  BY <1>2, <1>3, <1>4

LEMMA SizingKeepsInv ==
  ASSUME AutoInv, NoInfluence \/ Shift, UNCHANGED case
  PROVE  AutoInv'
<1> USE DEF AutoInv
<1>1. /\ doing = "shift"
      /\ UNCHANGED <<case, handed, grid, doing, ahead, speed, seen, cursor, fired, moved>>
  BY DEF NoInfluence, Shift, Sizing
<1>2. cursor \in RangeActions /\ trial.tap \in PermittedTaps(cursor)
  BY <1>1 DEF ShiftInv
<1>3. PermittedTaps(cursor) \subseteq Int
  BY <1>2, PermittedArePositions, RemedialAssumption DEF PermittedTaps
<1>4. trial' \in Trials /\ trial'.tap \in PermittedTaps(cursor)
  <2>1. CASE NoInfluence
    BY <1>2, <2>1 DEF NoInfluence, AutoTypes, Trials
  <2>2. CASE Shift
    <3>1. PICK t \in PermittedTaps(cursor) :
            trial' = [trial EXCEPT !.tap = t, !.direction = Toward(t), !.shifts = @ + 1]
      BY <2>2 DEF Shift
    <3>2. t \in Int /\ Toward(t) \in Int
      BY <1>3 DEF Toward
    <3> QED
      BY <3>1, <3>2, ShiftedTrial DEF AutoTypes
  <2> QED
    BY <2>1, <2>2
<1>5. AutoTypes'
  BY <1>1, <1>4 DEF AutoTypes
<1>6. ShiftInv'
  BY <1>1, <1>2, <1>4 DEF ShiftInv, Eligible, WatchedBy, PermittedTaps
<1>7. ActedInv' /\ SnapshotInv' /\ ForcedInv' /\ StandInv'
  BY <1>1 DEF ActedInv, SnapshotInv, ForcedInv, StandInv
<1> QED
  BY <1>5, <1>6, <1>7

LEMMA DeclineKeepsInv ==
  ASSUME AutoInv, Decline, UNCHANGED case
  PROVE  AutoInv'
<1> USE DEF AutoInv
<1>1. /\ doing = "shift" /\ doing' = "range" /\ cursor' = cursor + 1 /\ trial' = AtRest
      /\ UNCHANGED <<case, handed, grid, ahead, speed, seen, fired, moved>>
  BY DEF Decline
<1>2. AutoTypes'
  BY <1>1 DEF AutoTypes, Trials, AtRest
<1>3. ActedInv' /\ SnapshotInv' /\ ForcedInv' /\ StandInv' /\ ShiftInv'
  BY <1>1 DEF ActedInv, SnapshotInv, ForcedInv, StandInv, ShiftInv
<1> QED
  BY <1>2, <1>3

\* Where a shifter settles is one of its own taps, whatever its estimates said.
LEMMA SettlesOnATap ==
  ASSUME AutoTypes, ShiftInv, doing = "shift"
  PROVE  /\ SmallestSecuring \in PermittedTaps(cursor)
         /\ \A t \in Between : Secures(t) =>
              /\ SmallestSecuring \in Between
              /\ (SmallestSecuring - trial.from) * (SmallestSecuring - trial.from)
                   <= (t - trial.from) * (t - trial.from)
<1> DEFINE securing == {t \in Between : Secures(t)}
<1>1. cursor \in RangeActions /\ trial.tap \in PermittedTaps(cursor)
  BY DEF ShiftInv
<1>2. PermittedTaps(cursor) \subseteq Int /\ trial.from \in Int
  BY <1>1, PermittedArePositions, RemedialAssumption DEF PermittedTaps, AutoTypes, Trials
<1>3. securing \subseteq Between /\ Between \subseteq PermittedTaps(cursor)
  BY DEF Between
<1>4. SmallestSecuring = IF securing = {} THEN trial.tap ELSE Nearest(securing, trial.from)
  BY DEF SmallestSecuring
<1>5. \A t \in Between : Secures(t) => t \in securing
  OBVIOUS
<1> HIDE DEF securing
<1>6. CASE securing = {}
  BY <1>1, <1>4, <1>5, <1>6
<1>7. CASE securing # {}
  <2>1. securing \in SUBSET Int
    BY <1>2, <1>3
  <2>2. /\ Nearest(securing, trial.from) \in securing
        /\ \A u \in securing :
             (Nearest(securing, trial.from) - trial.from) * (Nearest(securing, trial.from) - trial.from)
               <= (u - trial.from) * (u - trial.from)
    BY <1>2, <1>7, <2>1, NearestIsThere
  <2>3. SmallestSecuring = Nearest(securing, trial.from)
    BY <1>4, <1>7
  <2> QED
    BY <1>3, <1>5, <2>2, <2>3
<1> QED
  BY <1>6, <1>7

LEMMA SettleKeepsInv ==
  ASSUME AutoInv, Settle, UNCHANGED case
  PROVE  AutoInv'
<1> USE DEF AutoInv
<1>1. /\ doing = "shift" /\ doing' = "again" /\ trial' = AtRest
      /\ grid' = At(SmallestSecuring) /\ moved' = moved \cup {cursor}
      /\ UNCHANGED <<case, handed, ahead, speed, seen, cursor, fired>>
  BY DEF Settle
<1>2. cursor \in RangeActions /\ Eligible(cursor)
  BY <1>1 DEF ShiftInv
<1>3. /\ SmallestSecuring \in PermittedTaps(cursor)
      /\ PermittedTaps(cursor) \subseteq Positions
  BY <1>1, <1>2, SettlesOnATap, PermittedArePositions DEF PermittedTaps
<1>4. AutoTypes'
  BY <1>1, <1>3, PutIsAConfig DEF AutoTypes, At, Trials, AtRest
<1>5. ActedInv'
  <2>1. cursor \in MayAct(AutoState).shifters
    BY <1>2, TriggeredOperate DEF Eligible, MayAct
  <2> QED
    BY <1>1, <2>1 DEF ActedInv
<1>6. SnapshotInv' /\ ForcedInv' /\ ShiftInv'
  BY <1>1 DEF SnapshotInv, ForcedInv, ShiftInv
<1>7. StandInv'
  <2> SUFFICES ASSUME NEW e \in Elements
               PROVE  grid'[e] \in MayStand(e, handed, fired, moved \cup {cursor})
    BY <1>1 DEF StandInv
  <2> DEFINE put == {Effect[a][e] : a \in {b \in fired : e \in DOMAIN Effect[b]}}
             shifted(m) == UNION {Permitted(r, handed) : r \in {q \in m : ElementOf[q] = e}}
  <2>1. \A m : MayStand(e, handed, fired, m) =
                 IF put \cup shifted(m) = {} THEN {handed[e]} ELSE put \cup shifted(m)
    BY DEF MayStand
  <2>2. grid[e] \in MayStand(e, handed, fired, moved)
    BY DEF StandInv
  <2> HIDE DEF put
  <2>3. CASE e = ElementOf[cursor]
    <3>1. grid'[e] \in Permitted(cursor, handed)
      BY <1>1, <1>3, <2>3 DEF At, Put, AutoTypes, Configs, PermittedTaps
    <3>2. grid'[e] \in shifted(moved \cup {cursor})
      BY <2>3, <3>1
    <3> QED
      BY <2>1, <3>2
  <2>4. CASE e # ElementOf[cursor]
    <3>1. grid'[e] = grid[e]
      BY <1>1, <2>4 DEF At, Put, AutoTypes, Configs
    <3>2. shifted(moved \cup {cursor}) = shifted(moved)
      BY <2>4
    <3> QED
      BY <2>1, <2>2, <3>1, <3>2
  <2> QED
    BY <2>3, <2>4
<1> QED
  BY <1>4, <1>5, <1>6, <1>7

LEMMA AutoNextKeepsInv ==
  ASSUME AutoInv, AutoNext, UNCHANGED case
  PROVE  AutoInv'
  BY NextSpeedKeepsInv, NetworkActionKeepsInv, StartRoundKeepsInv, LookingOnKeepsInv,
     ConsiderKeepsInv, SizingKeepsInv, SettleKeepsInv, DeclineKeepsInv DEF AutoNext

LEMMA AutoStutter ==
  ASSUME AutoInv, UNCHANGED <<case, autovars>>
  PROVE  AutoInv'
<1>1. UNCHANGED <<case, handed, grid, doing, ahead, speed, seen, cursor, fired, moved, trial>>
  BY DEF autovars
<1> QED
  BY <1>1 DEF AutoInv, AutoTypes, ActedInv, SnapshotInv, ForcedInv, StandInv, ShiftInv,
              Eligible, WatchedBy, PermittedTaps

LEMMA AutoInvImplies ==
  ASSUME AutoInv
  PROVE  SameSpeedSeesSameGrid /\ AutomatonsKeepTheirPromise
<1> USE DEF AutoInv
<1>1. SameSpeedSeesSameGrid
  <2> SUFFICES ASSUME AfterNetworkActions, NEW a \in Connections, NEW b \in Connections,
                      Speed[a] = speed, Speed[b] = speed, Rules[a] = Rules[b]
               PROVE  a \in fired <=> b \in fired
    BY DEF SameSpeedSeesSameGrid
  <2>1. a < cursor /\ b < cursor
    BY RemedialAssumption DEF AfterNetworkActions, Connections, Actions, AutoTypes
  <2> QED
    BY <2>1 DEF AfterNetworkActions, SnapshotInv
<1>2. AutomatonsKeepTheirPromise
  <2> SUFFICES ASSUME doing = "done", \E c \in Cnecs : StateOf[c] = AutoState
               PROVE  AutomatonsMay(handed, AutoState,
                                    [fired |-> fired, moved |-> moved, grid |-> grid])
    BY DEF AutomatonsKeepTheirPromise
  <2>1. MayAct(AutoState).forced \subseteq fired
    BY DEF ForcedInv
  <2> QED
    BY <2>1 DEF AutomatonsMay, ActedInv, StandInv
<1> QED
  BY <1>1, <1>2

LEMMA WatchedAreSeen ==
  ASSUME NEW rules, NEW s, NEW violated
  PROVE  Watched(rules, s, violated) \subseteq violated
<1>1. \A rule : Names(rule, violated) \subseteq violated
  BY DEF Names
<1> QED
  BY <1>1 DEF Watched

LEMMA SmallerSquare ==
  ASSUME NEW i \in Int, NEW j \in Int, (0 < i /\ i < j) \/ (j < i /\ i < 0)
  PROVE  ~(j * j <= i * i)
<1>1. CASE 0 < i /\ i < j
  BY <1>1
<1>2. CASE j < i /\ i < 0
  BY <1>2
<1> QED
  BY <1>1, <1>2

\* A shorter travel that were enough would have been nearer.
LEMMA NoFurther ==
  ASSUME AutoInv, AutoNext, moved' # moved, UNCHANGED case
  PROVE  LET r == CHOOSE q \in moved' : q \notin moved
             reached == grid'[ElementOf[r]]
             short == {t \in Between : IF reached > trial.from THEN t < reached
                                                               ELSE t > reached}
         IN  \A t \in short :
               \E c \in WatchedBy(r) \ hopeless : Margin(case, c, At(t)) < 0
<1> USE DEF AutoInv
<1>1. /\ doing = "shift" /\ trial.tap # trial.from
      /\ grid' = At(SmallestSecuring) /\ moved' = moved \cup {cursor}
  BY DEF AutoNext, NextSpeed, Finish, NetworkAction, StartRound, OutOfRounds, Skip,
         NoneMoved, Consider, NoInfluence, Shift, Settle, Decline
<1>2. cursor \in RangeActions /\ cursor \notin moved /\ trial.tap \in PermittedTaps(cursor)
  BY <1>1 DEF ShiftInv, Eligible
<1>3. (CHOOSE q \in moved' : q \notin moved) = cursor
  BY <1>1, <1>2
<1>4. grid'[ElementOf[cursor]] = SmallestSecuring
  BY <1>1, <1>2, RemedialAssumption DEF At, Put, AutoTypes, Configs
<1>5. PermittedTaps(cursor) \subseteq Int /\ PermittedTaps(cursor) \subseteq Positions
      /\ trial.from \in Int /\ Between \subseteq PermittedTaps(cursor)
  BY <1>2, PermittedArePositions, RemedialAssumption DEF PermittedTaps, AutoTypes, Trials, Between
<1> SUFFICES ASSUME NEW t \in Between,
                    IF SmallestSecuring > trial.from THEN t < SmallestSecuring
                                                     ELSE t > SmallestSecuring
             PROVE  \E c \in WatchedBy(cursor) \ hopeless : Margin(case, c, At(t)) < 0
  BY <1>3, <1>4
<1>6. ~Secures(t)
  <2> SUFFICES ASSUME Secures(t) PROVE FALSE
    OBVIOUS
  <2> DEFINE s == SmallestSecuring  f == trial.from  p == trial.tap
  <2>1. s \in Between /\ (s - f) * (s - f) <= (t - f) * (t - f)
    BY <1>1, SettlesOnATap
  <2>2. s \in Int /\ t \in Int /\ f \in Int /\ p \in Int
    BY <1>2, <1>5, <2>1
  <2>3. /\ (f < s /\ s < p) \/ (p < s /\ s < f)
        /\ (f < t /\ t < p) \/ (p < t /\ t < f)
        /\ IF s > f THEN t < s ELSE t > s
    BY <2>1 DEF Between
  <2> HIDE DEF s, f, p
  <2>4. (f < t /\ t < s) \/ (s < t /\ t < f)
    BY <2>2, <2>3
  <2>5. t - f \in Int /\ s - f \in Int
        /\ ((0 < t - f /\ t - f < s - f) \/ (s - f < t - f /\ t - f < 0))
    BY <2>2, <2>4
  <2> QED
    BY <2>1, <2>5, SmallerSquare DEF s, f
<1>7. PICK c \in WatchedBy(cursor) \ hopeless : ~(Margin(case, c, At(t)) >= 0)
  BY <1>6 DEF Secures
<1>8. Margin(case, c, At(t)) \in Int
  <2>1. At(t) \in Configs
    BY <1>5, PutIsAConfig DEF At, AutoTypes
  <2>2. c \in Cnecs
    BY <1>7, WatchedAreSeen DEF WatchedBy, AutoTypes
  <2> QED
    BY <2>1, <2>2, MarginsAreNumbers DEF AutoTypes
<1> QED
  BY <1>7, <1>8

-----------------------------------------------------------------------------
(* What a search is made of.                                                *)

LEMMA WorstIsANumber ==
  ASSUME NEW margins \in SUBSET Margins
  PROVE  /\ WorstOf(margins) \in Int
         /\ margins # {} => \E m \in margins : \A n \in margins : m <= n
<1>1. CASE margins = {}
  BY <1>1 DEF WorstOf, NoCnecMargin
<1>2. CASE margins # {}
  <2>1. Margins \in SUBSET Int /\ Margins # {}
    BY <1>2, RemedialAssumption
  <2>2. PICK low \in Margins : \A m \in Margins : low <= m
    BY <2>1, RemedialAssumption
  <2>3. \E m \in margins : \A n \in margins : m <= n
    BY <1>2, <2>1, <2>2, SmallestExists
  <2> QED
    BY <1>2, <2>1, <2>3 DEF WorstOf
<1> QED
  BY <1>1, <1>2

LEMMA MarginHere ==
  ASSUME case \in Cases, NEW c \in Cnecs, NEW g \in Configs
  PROVE  MarginOf(c, g, NothingHeld) \in Margins
<1>1. MarginOf(c, g, NothingHeld) = Margin(case, c, g)
  BY DEF MarginOf, SeenBy, NothingHeld
<1> QED
  BY <1>1, MarginsAreNumbers

LEMMA ObjectiveIsANumber ==
  ASSUME case \in Cases, NEW perimeter, NEW g \in Configs
  PROVE  Objective(perimeter, g, NothingHeld) \in Int
<1> DEFINE margins == {MarginOf(c, g, NothingHeld) :
                         c \in {d \in Optimized : StateOf[d] \in perimeter}}
<1>1. margins \in SUBSET Margins
  BY MarginHere, RemedialAssumption
<1> HIDE DEF margins
<1>2. WorstOf(margins) \in Int
  BY <1>1, WorstIsANumber
<1> QED
  BY <1>2 DEF Objective, margins

\* Compatible actions never touch an element twice.
LEMMA LatestIsTheOne ==
  ASSUME NEW acts \in SUBSET Actions, PairwiseCompatible(acts),
         NEW a \in acts, NEW e \in DOMAIN Effect[a]
  PROVE  Latest(acts, e) = a
<1>1. \A b \in acts : e \in DOMAIN Effect[b] => b = a
  BY DEF PairwiseCompatible, Compatible
<1>2. a <= a
  BY DEF Actions
<1> QED
  BY <1>1, <1>2 DEF Latest

LEMMA WithAllIsAConfig ==
  ASSUME NEW config \in Configs, NEW acts \in SUBSET Actions, PairwiseCompatible(acts)
  PROVE  WithAll(config, acts) \in Configs
<1> SUFFICES ASSUME NEW e \in Elements, NEW a \in acts, e \in DOMAIN Effect[a]
             PROVE  Effect[Latest(acts, e)][e] \in Positions
  BY DEF WithAll, Configs
<1> QED
  BY LatestIsTheOne, RemedialAssumption

\* Applying what is compatible in two turns or in one is the same.
LEMMA WithAllTwice ==
  ASSUME NEW config \in Configs, NEW S \in SUBSET Actions, NEW T \in SUBSET Actions,
         PairwiseCompatible(S \cup T)
  PROVE  WithAll(WithAll(config, S), T) = WithAll(config, S \cup T)
<1>1. PairwiseCompatible(S) /\ PairwiseCompatible(T)
  BY DEF PairwiseCompatible
<1> SUFFICES ASSUME NEW e \in Elements
             PROVE  WithAll(WithAll(config, S), T)[e] = WithAll(config, S \cup T)[e]
  BY DEF WithAll
<1>2. CASE \E a \in T : e \in DOMAIN Effect[a]
  <2>1. PICK a \in T : e \in DOMAIN Effect[a]
    BY <1>2
  <2>2. Latest(T, e) = a /\ Latest(S \cup T, e) = a
    BY <1>1, <2>1, LatestIsTheOne
  <2> QED
    BY <2>1, <2>2 DEF WithAll
<1>3. CASE /\ ~\E a \in T : e \in DOMAIN Effect[a]
           /\ \E a \in S : e \in DOMAIN Effect[a]
  <2>1. PICK a \in S : e \in DOMAIN Effect[a]
    BY <1>3
  <2>2. Latest(S, e) = a /\ Latest(S \cup T, e) = a
    BY <1>1, <2>1, LatestIsTheOne
  <2> QED
    BY <1>3, <2>1, <2>2 DEF WithAll
<1>4. CASE ~\E a \in S \cup T : e \in DOMAIN Effect[a]
  BY <1>4 DEF WithAll
<1> QED
  BY <1>2, <1>3, <1>4

LEMMA MovesAreConfigs ==
  ASSUME NEW config \in Configs, NEW rs \in SUBSET RangeActions, NEW previous
  PROVE  Moves(config, rs, previous) \subseteq Configs
<1> SUFFICES ASSUME NEW g \in Moves(config, rs, previous) PROVE g \in Configs
  OBVIOUS
<1> DEFINE standing(p) == [e \in {ElementOf[r] : r \in rs} |->
                             p[CHOOSE r \in rs : ElementOf[r] = e]]
<1>1. PICK place \in [rs -> Positions] : g = With(config, standing(place))
  BY DEF Moves
<1>2. ASSUME NEW e \in DOMAIN standing(place) PROVE standing(place)[e] \in Positions
  <2>1. (CHOOSE r \in rs : ElementOf[r] = e) \in rs
    OBVIOUS
  <2> QED
    BY <2>1
<1> HIDE DEF standing
<1> QED
  BY <1>1, <1>2, WithIsAConfig

\* Range actions move shifters and injections and leave the branches alone.
LEMMA MovesLeaveBranches ==
  ASSUME NEW config, NEW rs \in SUBSET RangeActions, NEW previous,
         NEW g \in Moves(config, rs, previous),
         NEW e \in Elements, e \notin Shifters \cup Injections
  PROVE  g[e] = config[e]
<1> DEFINE standing(p) == [d \in {ElementOf[r] : r \in rs} |->
                             p[CHOOSE r \in rs : ElementOf[r] = d]]
<1>1. PICK place \in [rs -> Positions] : g = With(config, standing(place))
  BY DEF Moves
<1>2. e \notin DOMAIN standing(place)
  BY RemedialAssumption
<1> HIDE DEF standing
<1> QED
  BY <1>1, <1>2 DEF With

LEMMA MovingNothing ==
  ASSUME NEW config \in Configs, NEW previous
  PROVE  Moves(config, {}, previous) = {config}
<1> DEFINE standing(p) == [e \in {ElementOf[r] : r \in {}} |->
                             p[CHOOSE r \in {} : ElementOf[r] = e]]
<1>1. ASSUME NEW p PROVE With(config, standing(p)) = config
  <2>1. DOMAIN standing(p) = {}
    OBVIOUS
  <2> HIDE DEF standing
  <2> QED
    BY <2>1 DEF With, Configs
<1>2. ASSUME NEW g \in Moves(config, {}, previous) PROVE g = config
  <2>1. PICK p \in [{} -> Positions] : g = With(config, standing(p))
    BY DEF Moves
  <2> HIDE DEF standing
  <2> QED
    BY <1>1, <2>1
<1>3. config \in Moves(config, {}, previous)
  <2> DEFINE p == [r \in {} |-> 0]
  <2>1. p \in [{} -> Positions] /\ config = With(config, standing(p))
    BY <1>1
  <2> HIDE DEF p
  <2> QED
    BY <2>1 DEF Moves
<1> QED
  BY <1>2, <1>3

-----------------------------------------------------------------------------
(* Candidates and offers.                                                   *)

LEMMA CandidatesAct ==
  ASSUME NEW k \in Candidates
  PROVE  /\ k \in Nat /\ MembersOf(k) \in Seq(Actions) /\ ActsOf(k) \in SUBSET Actions
         /\ k \in Actions <=> k <= NActions
         /\ k <= NActions => ActsOf(k) = {k}
<1>1. NActions \in Nat /\ Len(Combinations) \in Nat /\ Combinations \in Seq(Seq(Actions))
  BY SearchAssumption, RemedialAssumption
<1>2. k \in Nat /\ 1 <= k /\ k <= NActions + Len(Combinations)
  BY <1>1 DEF Candidates
<1>3. CASE k <= NActions
  <2>1. k \in Actions /\ MembersOf(k) = <<k>>
    BY <1>1, <1>2, <1>3 DEF Actions, MembersOf
  <2>2. Range(<<k>>) = {k}
    BY DEF Range
  <2> QED
    BY <1>2, <1>3, <2>1, <2>2 DEF ActsOf
<1>4. CASE ~(k <= NActions)
  <2>1. k - NActions \in 1..Len(Combinations) /\ k \notin Actions
    BY <1>1, <1>2, <1>4 DEF Actions
  <2>2. MembersOf(k) = Combinations[k - NActions] /\ MembersOf(k) \in Seq(Actions)
    BY <1>1, <1>4, <2>1 DEF MembersOf
  <2>3. ActsOf(k) \in SUBSET Actions
    BY <2>2 DEF ActsOf, Range
  <2> QED
    BY <1>2, <1>4, <2>1, <2>2, <2>3
<1> QED
  BY <1>3, <1>4

LEMMA ActionsAreCandidates ==
  ASSUME NEW a \in Actions
  PROVE  a \in Candidates /\ ActsOf(a) = {a} /\ Touches({a}) = DOMAIN Effect[a]
<1>1. a \in Candidates
  BY SearchAssumption, RemedialAssumption DEF Actions, Candidates
<1> QED
  BY <1>1, CandidatesAct DEF Touches

LEMMA OneIsCompatible == ASSUME NEW a PROVE PairwiseCompatible({a})
  BY DEF PairwiseCompatible

LEMMA OffersAreWhole ==
  ASSUME NEW q, NEW constrained, NEW k \in Offering(q, constrained)
  PROVE  /\ k \in Candidates /\ PairwiseCompatible(ActsOf(k))
         /\ ActsOf(k) \subseteq Offered(q.at, constrained)
<1>1. k \in Candidates /\ ActsOf(k) \subseteq Offered(q.at, constrained)
      /\ (k > NActions => PairwiseCompatible(ActsOf(k)))
  BY DEF Offering, Whole
<1>2. k \in Nat /\ NActions \in Nat /\ (k <= NActions => ActsOf(k) = {k})
  BY <1>1, CandidatesAct, RemedialAssumption
<1>3. PairwiseCompatible(ActsOf(k))
  BY <1>1, <1>2, OneIsCompatible
<1> QED
  BY <1>1, <1>3

LEMMA RangeOfConcatenation ==
  ASSUME NEW S, NEW s \in Seq(S), NEW t \in Seq(S)
  PROVE  s \o t \in Seq(S) /\ Range(s \o t) = Range(s) \cup Range(t)
<1>1. s \o t \in Seq(S) /\ Len(s \o t) = Len(s) + Len(t)
  OBVIOUS
<1>2. ASSUME NEW n \in DOMAIN (s \o t) PROVE (s \o t)[n] \in Range(s) \cup Range(t)
  <2>1. n \in 1..Len(s) \/ n - Len(s) \in 1..Len(t)
    BY <1>1
  <2>2. CASE n \in 1..Len(s)
    BY <2>2 DEF Range
  <2>3. CASE n \notin 1..Len(s) /\ n - Len(s) \in 1..Len(t)
    <3>1. (s \o t)[n] = t[n - Len(s)]
      BY <1>1, <2>3
    <3> QED
      BY <2>3, <3>1 DEF Range
  <2> QED
    BY <2>1, <2>2, <2>3
<1>3. ASSUME NEW n \in DOMAIN s PROVE s[n] \in Range(s \o t)
  <2>1. n \in DOMAIN (s \o t) /\ (s \o t)[n] = s[n]
    BY <1>1
  <2> QED
    BY <2>1 DEF Range
<1>4. ASSUME NEW n \in DOMAIN t PROVE t[n] \in Range(s \o t)
  <2>1. n + Len(s) \in DOMAIN (s \o t) /\ (s \o t)[n + Len(s)] = t[n]
    BY <1>1
  <2> QED
    BY <2>1 DEF Range
<1> QED
  BY <1>1, <1>2, <1>3, <1>4 DEF Range

-----------------------------------------------------------------------------
(* Leaves.                                                                  *)

Worth0 == Objective(question.perimeter, question.base, question.held)

IsLeaf(leaf, start, acts) ==
  /\ leaf.moved \in SUBSET Usable(question, authority)
  /\ OnePerElement(leaf.moved)
  /\ leaf.grid \in Moves(start, leaf.moved, question.base)
  /\ leaf.score = Objective(question.perimeter, leaf.grid, question.held)
  /\ leaf.moved # {} => /\ BudgetAdmits(Instant, acts, leaf.moved)
                        /\ leaf.score > Objective(question.perimeter, start, question.held)

LEMMA LeavesAreLeaves ==
  ASSUME NEW start \in Configs, NEW acts, NEW leaf \in Leaves(question, start, acts, authority),
         question.held = NothingHeld, case \in Cases
  PROVE  IsLeaf(leaf, start, acts)
<1> DEFINE untouched == Objective(question.perimeter, start, question.held)
           here(h) == Objective(question.perimeter, h, question.held)
           usable == Usable(question, authority)
           sets == {m \in SUBSET usable :
                      OnePerElement(m) /\ BudgetAdmits(Earliest(question.at), acts, m)}
           moves(m) == {h \in Moves(start, m, question.base) : here(h) > untouched}
           still == [grid |-> start, moved |-> {}, score |-> untouched]
<1>1. Leaves(question, start, acts, authority) =
        {still} \cup UNION {{[grid |-> g, moved |-> m, score |-> here(g)] : g \in moves(m)} :
                              m \in sets}
  BY DEF Leaves
<1>2. CASE leaf = still
  <2>1. OnePerElement({}) /\ leaf.moved = {} /\ leaf.grid = start /\ leaf.score = untouched
    BY <1>2 DEF OnePerElement
  <2>2. start \in Moves(start, {}, question.base)
    BY MovingNothing
  <2> QED
    BY <2>1, <2>2 DEF IsLeaf
<1>3. CASE leaf # still
  <2> HIDE DEF still, moves, sets, here
  <2>1. PICK m \in sets : \E g \in moves(m) :
          leaf = [grid |-> g, moved |-> m, score |-> here(g)]
    BY <1>1, <1>3
  <2>2. PICK g \in moves(m) : leaf = [grid |-> g, moved |-> m, score |-> here(g)]
    BY <2>1
  <2>3. leaf.grid = g /\ leaf.moved = m /\ leaf.score = here(g)
    BY <2>2
  <2>4. /\ m \in SUBSET usable /\ OnePerElement(m) /\ BudgetAdmits(Instant, acts, m)
        /\ g \in Moves(start, m, question.base) /\ here(g) > untouched
    BY <2>1, <2>2 DEF sets, moves, Instant
  <2> QED
    BY <2>3, <2>4 DEF IsLeaf, here
<1> QED
  BY <1>2, <1>3

LEMMA LeafIsAConfig ==
  ASSUME NEW start \in Configs, NEW acts, NEW leaf, IsLeaf(leaf, start, acts),
         question.held = NothingHeld, case \in Cases
  PROVE  /\ leaf.grid \in Configs /\ leaf.score \in Int
         /\ leaf.score >= Objective(question.perimeter, start, question.held)
         /\ leaf.moved \in SUBSET RangeActions
         /\ leaf.moved = {} => leaf.grid = start
<1>1. leaf.moved \in SUBSET RangeActions
  BY DEF IsLeaf, Usable
<1>2. leaf.grid \in Configs
  BY <1>1, MovesAreConfigs DEF IsLeaf
<1>3. leaf.moved = {} => leaf.grid = start
  BY MovingNothing DEF IsLeaf
<1>4. /\ leaf.score \in Int /\ Objective(question.perimeter, start, question.held) \in Int
      /\ leaf.score = Objective(question.perimeter, leaf.grid, question.held)
  BY <1>2, ObjectiveIsANumber DEF IsLeaf
<1>5. leaf.score >= Objective(question.perimeter, start, question.held)
  BY <1>3, <1>4 DEF IsLeaf
<1> QED
  BY <1>1, <1>2, <1>3, <1>4, <1>5

-----------------------------------------------------------------------------
(* The search.                                                              *)

\* Every action taken was on offer, and together they stay what may be done.
TakenInv ==
  searching # "idle" =>
    /\ chosen \in Seq(Actions)
    /\ \A a \in Taken : \E k \in offers : a \in ActsOf(k)
    /\ PairwiseCompatible(Taken)
    /\ Taken # {} => Admits(Instant, Taken)

SearchTypes ==
  searching # "idle" =>
    /\ searching \in {"untouched", "depth", "offers", "answered"}
    /\ question.base \in Configs /\ question.held = NothingHeld
    /\ Instant \in DOMAIN KindOf
    /\ question.target \in Int
    /\ authority = Constrained(question.base, question.held)
    /\ offers = Offering(question, authority)
    /\ next \in Nat \ {0}
    /\ best.grid \in Configs /\ best.score \in Int
    /\ answer.grid \in Configs

Ahead(j, k) ==
  \/ ledger[j] < ledger[k]
  \/ ledger[j] = ledger[k] /\ Key[k] <= Key[j]

\* The ledger has every offer looked at that fits, and the winner is ahead of it.
LedgerInv ==
  searching = "offers" =>
    /\ DOMAIN ledger = {k \in offers : k < next /\ Fits(ActsOf(k))}
    /\ \A k \in DOMAIN ledger : ledger[k] \in Int
    /\ winner = NoWinner => DOMAIN ledger = {}
    /\ winner # NoWinner =>
         /\ winner.offer \in DOMAIN ledger
         /\ ledger[winner.offer] = winner.leaf.score
         /\ winner.leaf.grid \in Configs
         /\ \A k \in DOMAIN ledger : Ahead(k, winner.offer)

SearchInv == case \in Cases /\ SearchTypes /\ TakenInv /\ LedgerInv

LEMMA TakenAreActions ==
  ASSUME TakenInv, searching # "idle"
  PROVE  Taken \in SUBSET Actions
  BY DEF TakenInv, Taken, Range

\* The offer an action is rebuilt from: its own, or the first that has it.
LEMMA OfferOfIsAnOffer ==
  ASSUME SearchTypes, TakenInv, searching # "idle", NEW a \in Taken
  PROVE  OfferOf(a) \in SUBSET Actions /\ PairwiseCompatible(OfferOf(a))
<1>1. CASE a \in offers
  BY <1>1, TakenAreActions, OneIsCompatible DEF OfferOf
<1>2. CASE a \notin offers
  <2> DEFINE with == {k \in offers : a \in ActsOf(k)}
  <2>1. with # {} /\ with \subseteq offers
    BY DEF TakenInv
  <2>2. \A k \in offers : k \in Candidates /\ PairwiseCompatible(ActsOf(k))
    BY OffersAreWhole DEF SearchTypes
  <2>3. with \in SUBSET Int /\ \A k \in with : 0 <= k
    BY <2>1, <2>2, CandidatesAct
  <2>4. \E k \in with : \A j \in with : k <= j
    <3> HIDE DEF with
    <3>1. 0 \in Int
      OBVIOUS
    <3> QED
      BY <2>1, <2>3, <3>1, SmallestExists
  <2> DEFINE first == CHOOSE n \in offers : /\ a \in ActsOf(n)
                                            /\ \A j \in offers : a \in ActsOf(j) => n <= j
  <2>5. first \in offers
    BY <2>4
  <2>6. OfferOf(a) = ActsOf(first)
    BY <1>2 DEF OfferOf
  <2> HIDE DEF first
  <2> QED
    BY <2>2, <2>5, <2>6, CandidatesAct
<1> QED
  BY <1>1, <1>2

LEMMA DecidingIsAnAction ==
  ASSUME SearchTypes, TakenInv, searching # "idle", NEW e, Deciding(e) # {}
  PROVE  LET n == CHOOSE n \in Deciding(e) : \A m \in Deciding(e) : m <= n
         IN  /\ n \in DOMAIN chosen /\ chosen[n] \in Taken /\ n \in Deciding(e)
             /\ e \in Touches(OfferOf(chosen[n]))
<1>1. chosen \in Seq(Actions) /\ Len(chosen) \in Nat /\ DOMAIN chosen = 1..Len(chosen)
  BY DEF TakenInv
<1>2. Deciding(e) \in SUBSET (1..Len(chosen))
  BY <1>1 DEF Deciding
<1>3. \E n \in Deciding(e) : \A m \in Deciding(e) : m <= n
  BY <1>1, <1>2, LargestExists
<1> DEFINE last == CHOOSE n \in Deciding(e) : \A m \in Deciding(e) : m <= n
<1>4. last \in Deciding(e)
  BY <1>3
<1> HIDE DEF last
<1>5. last \in DOMAIN chosen /\ e \in Touches(OfferOf(chosen[last]))
  BY <1>4 DEF Deciding
<1>6. chosen[last] \in Taken
  BY <1>5 DEF Taken, Range
<1> QED
  BY <1>4, <1>5, <1>6 DEF last

LEMMA RebuiltIsAConfig ==
  ASSUME SearchTypes, TakenInv, searching # "idle"
  PROVE  Rebuilt \in Configs
<1>1. question.base \in Configs
  BY DEF SearchTypes
<1> SUFFICES ASSUME NEW e \in Elements PROVE Rebuilt[e] \in Positions
  BY DEF Rebuilt, RebuiltOn, Configs
<1>2. CASE Deciding(e) = {}
  BY <1>1, <1>2 DEF Rebuilt, RebuiltOn, Configs
<1>3. CASE Deciding(e) # {}
  <2> DEFINE n == CHOOSE n \in Deciding(e) : \A m \in Deciding(e) : m <= n
  <2>1. chosen[n] \in Taken
    BY <1>3, DecidingIsAnAction
  <2>2. Rebuilt[e] = WithAll(question.base, OfferOf(chosen[n]))[e]
    BY <1>3 DEF Rebuilt, RebuiltOn
  <2> HIDE DEF n
  <2>3. WithAll(question.base, OfferOf(chosen[n])) \in Configs
    BY <1>1, <2>1, OfferOfIsAnOffer, WithAllIsAConfig
  <2> QED
    BY <2>2, <2>3 DEF Configs
<1> QED
  BY <1>2, <1>3

\* What fits beside the taken is compatible with them.
LEMMA FittingIsCompatible ==
  ASSUME SearchTypes, TakenInv, searching # "idle", NEW k \in offers, Fits(ActsOf(k))
  PROVE  /\ PairwiseCompatible(Taken \cup ActsOf(k))
         /\ Taken \cup ActsOf(k) \in SUBSET Actions
         /\ PairwiseCompatible(ActsOf(k)) /\ ActsOf(k) \in SUBSET Actions
<1>1. PairwiseCompatible(ActsOf(k)) /\ ActsOf(k) \in SUBSET Actions
  BY OffersAreWhole, CandidatesAct DEF SearchTypes
<1>2. PairwiseCompatible(Taken) /\ Taken \in SUBSET Actions
  BY TakenAreActions DEF TakenInv
<1>3. \A a \in ActsOf(k), b \in Taken : Compatible(a, b) /\ Compatible(b, a)
  BY DEF Fits, Compatible
<1> QED
  BY <1>1, <1>2, <1>3 DEF PairwiseCompatible

LEMMA CandidateLeafIsAConfig ==
  ASSUME SearchInv, searching # "idle", NEW k \in offers, Fits(ActsOf(k))
  PROVE  WithAll(Rebuilt, ActsOf(k)) \in Configs
<1>1. SearchTypes /\ TakenInv
  BY DEF SearchInv
<1> QED
  BY <1>1, RebuiltIsAConfig, FittingIsCompatible, WithAllIsAConfig

LEMMA AskKeepsInv ==
  ASSUME NEW q, q.base \in Configs, q.held = NothingHeld, Earliest(q.at) \in DOMAIN KindOf,
         q.target \in Int, Ask(q), case \in Cases, UNCHANGED case
  PROVE  SearchInv'
<1>1. /\ question' = q /\ authority' = Constrained(q.base, q.held)
      /\ offers' = Offering(q, Constrained(q.base, q.held))
      /\ chosen' = <<>> /\ next' = 1 /\ searching' = "untouched"
      /\ best' = [grid |-> q.base, moved |-> {}, score |-> Objective(q.perimeter, q.base, q.held)]
      /\ answer' = [acts |-> {}, moved |-> {}, grid |-> q.base]
  BY DEF Ask
<1>2. /\ \A p, g, h : Objective(p, g, h)' = Objective(p, g, h)
      /\ \A g, h : Constrained(g, h)' = Constrained(g, h)
      /\ \A p, c : Offering(p, c)' = Offering(p, c)
  BY DEF Objective, MarginOf, Constrained, Offering, WorstCnec
<1>3. SearchTypes'
  <2>1. best'.grid = q.base /\ best'.score \in Int /\ answer'.grid = q.base
    BY <1>1, ObjectiveIsANumber
  <2>2. Instant' \in DOMAIN KindOf
    BY <1>1 DEF Instant
  <2> QED
    BY <1>1, <1>2, <2>1, <2>2 DEF SearchTypes
<1>4. TakenInv'
  <2>1. Taken' = {}
    BY <1>1 DEF Taken, Range
  <2> QED
    BY <1>1, <2>1 DEF TakenInv, PairwiseCompatible
<1>5. LedgerInv'
  BY <1>1 DEF LedgerInv
<1> QED
  BY <1>3, <1>4, <1>5 DEF SearchInv

\* What is judged beside the taken stays judged so.
LEMMA NothingNewTaken ==
  ASSUME UNCHANGED <<case, question, offers, chosen>>
  PROVE  /\ Taken' = Taken /\ Instant' = Instant
         /\ \A acts : Fits(acts)' = Fits(acts)
         /\ \A k : ActsOf(k)' = ActsOf(k)
         /\ \A p, g, h : Objective(p, g, h)' = Objective(p, g, h)
         /\ \A g, h : Constrained(g, h)' = Constrained(g, h)
         /\ \A q, c : Offering(q, c)' = Offering(q, c)
<1>1. Taken' = Taken /\ Instant' = Instant
  BY DEF Taken, Instant
<1> QED
  BY <1>1 DEF Fits, Objective, MarginOf, Constrained, Offering, WorstCnec

LEMMA SameTaken ==
  ASSUME SearchInv, searching # "idle", UNCHANGED <<case, question, authority, offers, chosen>>
  PROVE  TakenInv'
<1>1. Taken' = Taken /\ Instant' = Instant
  BY NothingNewTaken
<1> QED
  BY <1>1 DEF SearchInv, TakenInv

LEMMA RootKeepsInv ==
  ASSUME SearchInv, Root, UNCHANGED case
  PROVE  SearchInv'
<1>1. /\ searching = "untouched" /\ searching' = "depth"
      /\ best' \in Leaves(question, question.base, {}, authority)
      /\ UNCHANGED <<question, authority, offers, chosen, next, answer>>
  BY DEF Root
<1>2. SearchTypes /\ case \in Cases
  BY DEF SearchInv
<1>3. best'.grid \in Configs /\ best'.score \in Int
  <2>1. question.base \in Configs /\ question.held = NothingHeld
    BY <1>1, <1>2 DEF SearchTypes
  <2>2. IsLeaf(best', question.base, {})
    BY <1>1, <1>2, <2>1, LeavesAreLeaves
  <2> QED
    BY <1>2, <2>1, <2>2, LeafIsAConfig
<1>4. SearchTypes'
  BY <1>1, <1>2, <1>3, NothingNewTaken DEF SearchTypes
<1>5. TakenInv'
  BY <1>1, SameTaken
<1>6. LedgerInv'
  BY <1>1 DEF LedgerInv
<1> QED
  BY <1>2, <1>4, <1>5, <1>6 DEF SearchInv

LEMMA DeepenKeepsInv ==
  ASSUME SearchInv, Deepen, UNCHANGED case
  PROVE  SearchInv'
<1>1. /\ searching = "depth" /\ searching' = "offers" /\ next' = 1
      /\ winner' = NoWinner /\ ledger' = [k \in {} |-> 0]
      /\ UNCHANGED <<question, authority, offers, chosen, best, answer>>
  BY DEF Deepen
<1>2. SearchTypes' /\ TakenInv'
  BY <1>1, NothingNewTaken, SameTaken DEF SearchTypes, SearchInv
<1>3. LedgerInv'
  <2>1. \A k \in offers : ~(k < 1)
    <3>1. \A k \in offers : k \in Candidates
      BY <1>1, OffersAreWhole DEF SearchInv, SearchTypes
    <3>2. \A k \in Candidates : k \in Int /\ 1 <= k
      BY SearchAssumption, RemedialAssumption DEF Candidates
    <3> QED
      BY <3>1, <3>2
  <2>2. DOMAIN ledger' = {} /\ winner' = NoWinner
    BY <1>1
  <2> QED
    BY <1>1, <2>1, <2>2 DEF LedgerInv
<1> QED
  BY <1>2, <1>3 DEF SearchInv

\* Who is ahead of all is ahead of all with one more, or one more is.
LEMMA OneMore ==
  ASSUME NEW D \in SUBSET Candidates, NEW k \in Candidates, k \notin D,
         NEW f, DOMAIN f = D, \A j \in D : f[j] \in Int, NEW score \in Int,
         NEW w \in D, \A j \in D : f[j] < f[w] \/ (f[j] = f[w] /\ Key[w] <= Key[j]),
         NEW g, g = [j \in D \cup {k} |-> IF j = k THEN score ELSE f[j]]
  PROVE  /\ score > f[w] \/ (score = f[w] /\ Key[k] < Key[w]) =>
              \A j \in D \cup {k} : g[j] < g[k] \/ (g[j] = g[k] /\ Key[k] <= Key[j])
         /\ ~(score > f[w] \/ (score = f[w] /\ Key[k] < Key[w])) =>
              \A j \in D \cup {k} : g[j] < g[w] \/ (g[j] = g[w] /\ Key[w] <= Key[j])
<1>1. \A j \in D \cup {k} : Key[j] \in Int
  BY SearchAssumption
<1>2. /\ g[k] = score /\ \A j \in D : g[j] = f[j] /\ g[j] \in Int
      /\ w # k
  OBVIOUS
<1>3. ASSUME score > f[w] \/ (score = f[w] /\ Key[k] < Key[w]), NEW j \in D \cup {k}
      PROVE  g[j] < g[k] \/ (g[j] = g[k] /\ Key[k] <= Key[j])
  <2>1. CASE j = k
    BY <1>1, <2>1
  <2>2. CASE j \in D
    <3>1. f[j] < f[w] \/ (f[j] = f[w] /\ Key[w] <= Key[j])
      BY <2>2
    <3>2. /\ f[j] \in Int /\ f[w] \in Int /\ Key[j] \in Int /\ Key[w] \in Int /\ Key[k] \in Int
          /\ g[j] = f[j] /\ g[k] = score
      BY <1>1, <1>2, <2>2
    <3> QED
      BY <1>3, <3>1, <3>2
  <2> QED
    BY <2>1, <2>2
<1>4. ASSUME ~(score > f[w] \/ (score = f[w] /\ Key[k] < Key[w])), NEW j \in D \cup {k}
      PROVE  g[j] < g[w] \/ (g[j] = g[w] /\ Key[w] <= Key[j])
  <2>1. /\ f[w] \in Int /\ Key[k] \in Int /\ Key[w] \in Int /\ g[w] = f[w]
    BY <1>1, <1>2
  <2>2. CASE j = k
    BY <1>2, <1>4, <2>1, <2>2
  <2>3. CASE j \in D
    BY <1>2, <2>1, <2>3
  <2> QED
    BY <2>2, <2>3
<1> QED
  BY <1>3, <1>4

LEMMA EvaluateKeepsInv ==
  ASSUME SearchInv, Evaluate, UNCHANGED case
  PROVE  SearchInv'
<1> DEFINE start == WithAll(Rebuilt, ActsOf(next))
           acts == Taken \cup ActsOf(next)
<1>1. PICK leaf \in Leaves(question, start, acts, authority) :
        /\ ledger' = [k \in DOMAIN ledger \cup {next} |->
                        IF k = next THEN leaf.score ELSE ledger[k]]
        /\ winner' = IF Better(next, leaf) THEN [offer |-> next, leaf |-> leaf] ELSE winner
  BY DEF Evaluate
<1>2. /\ searching = "offers" /\ next \in Candidates /\ next \in offers /\ Fits(ActsOf(next))
      /\ next' = next + 1
      /\ UNCHANGED <<question, authority, offers, chosen, best, searching, answer>>
  BY DEF Evaluate
<1>3. SearchTypes /\ TakenInv /\ LedgerInv /\ case \in Cases
  BY DEF SearchInv
<1>4. SearchTypes' /\ TakenInv'
  BY <1>2, <1>3, NothingNewTaken, SameTaken DEF SearchTypes
<1>5. leaf.grid \in Configs /\ leaf.score \in Int
  <2>1. start \in Configs /\ question.held = NothingHeld
    BY <1>2, <1>3, CandidateLeafIsAConfig DEF SearchTypes
  <2> HIDE DEF start, acts
  <2>2. IsLeaf(leaf, start, acts)
    BY <1>3, <2>1, LeavesAreLeaves
  <2> QED
    BY <1>3, <2>1, <2>2, LeafIsAConfig
<1> HIDE DEF start, acts
<1>6. LedgerInv'
  <2> DEFINE D == DOMAIN ledger
  <2>1. /\ D = {k \in offers : k < next /\ Fits(ActsOf(k))}
        /\ \A k \in D : ledger[k] \in Int
        /\ winner = NoWinner => D = {}
        /\ winner # NoWinner => /\ winner.offer \in D
                                /\ ledger[winner.offer] = winner.leaf.score
                                /\ winner.leaf.grid \in Configs
                                /\ \A k \in D : Ahead(k, winner.offer)
    BY <1>2, <1>3 DEF LedgerInv
  <2>2. /\ offers \subseteq Candidates /\ Candidates \subseteq Nat /\ next \in Nat \ {0}
    BY <1>2, <1>3, OffersAreWhole, CandidatesAct DEF SearchTypes
  <2>3. D \cup {next} = {k \in offers : k < next + 1 /\ Fits(ActsOf(k))} /\ next \notin D
    <3>1. \A k \in offers : k < next + 1 <=> k < next \/ k = next
      BY <2>2
    <3> QED
      BY <1>2, <2>1, <2>2, <3>1
  <2>4. DOMAIN ledger' = {k \in offers' : k < next' /\ Fits(ActsOf(k))'}
    BY <1>1, <1>2, <2>3, NothingNewTaken
  <2>5. \A k \in DOMAIN ledger' : ledger'[k] \in Int
    BY <1>1, <1>5, <2>1
  <2>6. \A j, k : Ahead(j, k)' <=> \/ ledger'[j] < ledger'[k]
                                   \/ ledger'[j] = ledger'[k] /\ Key[k] <= Key[j]
    BY DEF Ahead
  <2>7. CASE winner = NoWinner
    <3>1. winner' = [offer |-> next, leaf |-> leaf] /\ DOMAIN ledger' = {next}
          /\ ledger'[next] = leaf.score
      BY <1>1, <2>1, <2>7 DEF Better
    <3>2. Key[next] \in Int /\ next # 0
      BY <1>2, <2>2, SearchAssumption
    <3>3. winner' # NoWinner /\ winner'.offer = next /\ winner'.leaf = leaf
      BY <3>1, <3>2 DEF NoWinner
    <3> QED
      BY <1>2, <1>5, <2>4, <2>5, <2>6, <3>1, <3>2, <3>3 DEF LedgerInv
  <2>8. CASE winner # NoWinner
    <3> DEFINE w == winner.offer
    <3>1. /\ w \in D /\ ledger[w] = winner.leaf.score /\ D \in SUBSET Candidates
          /\ \A j \in D : ledger[j] < ledger[w] \/ (ledger[j] = ledger[w] /\ Key[w] <= Key[j])
      BY <2>1, <2>2, <2>8 DEF Ahead
    <3> DEFINE ahead_(k) == \A j \in D \cup {next} :
                              \/ ledger'[j] < ledger'[k]
                              \/ ledger'[j] = ledger'[k] /\ Key[k] <= Key[j]
               beats == leaf.score > ledger[w] \/ (leaf.score = ledger[w] /\ Key[next] < Key[w])
    <3>2. (beats => ahead_(next)) /\ (~beats => ahead_(w))
      <4>1. /\ D \in SUBSET Candidates /\ next \in Candidates /\ next \notin D
            /\ DOMAIN ledger = D /\ (\A j \in D : ledger[j] \in Int) /\ leaf.score \in Int
            /\ w \in D
        BY <1>2, <1>5, <2>1, <2>3, <3>1
      <4>2. ledger' = [j \in D \cup {next} |-> IF j = next THEN leaf.score ELSE ledger[j]]
        BY <1>1
      <4> HIDE DEF D, w
      <4> QED
        BY <3>1, <4>1, <4>2, OneMore
    <3>3. Better(next, leaf) <=> beats
      BY <2>8, <3>1 DEF Better
    <3>4. DOMAIN ledger' = D \cup {next}
      BY <1>1
    <3>5. CASE beats
      <4>1. winner' = [offer |-> next, leaf |-> leaf]
        BY <1>1, <3>3, <3>5
      <4>2. winner'.offer = next /\ winner'.leaf = leaf /\ winner' # NoWinner
        BY <2>2, <4>1 DEF NoWinner
      <4>3. ledger'[next] = leaf.score
        BY <1>1
      <4> QED
        BY <1>2, <1>5, <2>4, <2>5, <2>6, <3>2, <3>4, <3>5, <4>2, <4>3 DEF LedgerInv
    <3>6. CASE ~beats
      <4>1. winner' = winner
        BY <1>1, <3>3, <3>6
      <4>2. ledger'[w] = ledger[w]
        BY <1>1, <2>3, <3>1
      <4> QED
        BY <1>2, <2>1, <2>4, <2>5, <2>6, <2>8, <3>1, <3>2, <3>4, <3>6, <4>1, <4>2 DEF LedgerInv
    <3> QED
      BY <3>5, <3>6
  <2> QED
    BY <2>7, <2>8
<1> QED
  BY <1>3, <1>4, <1>6 DEF SearchInv

LEMMA PassOverKeepsInv ==
  ASSUME SearchInv, PassOver, UNCHANGED case
  PROVE  SearchInv'
<1>1. /\ searching = "offers" /\ ~(next \in offers /\ Fits(ActsOf(next))) /\ next' = next + 1
      /\ UNCHANGED <<question, authority, offers, chosen, best, winner, ledger, searching, answer>>
  BY DEF PassOver
<1>2. SearchTypes /\ TakenInv /\ LedgerInv
  BY DEF SearchInv
<1>3. SearchTypes' /\ TakenInv'
  BY <1>1, <1>2, NothingNewTaken, SameTaken DEF SearchTypes
<1>4. LedgerInv'
  <2>1. offers \subseteq Nat /\ next \in Nat
    BY <1>1, <1>2, OffersAreWhole, CandidatesAct DEF SearchTypes
  <2>2. {k \in offers : k < next + 1 /\ Fits(ActsOf(k))}
          = {k \in offers : k < next /\ Fits(ActsOf(k))}
    <3>1. \A k \in offers : k < next + 1 <=> k < next \/ k = next
      BY <2>1
    <3> QED
      BY <1>1, <3>1
  <2>3. \A j, k : Ahead(j, k)' = Ahead(j, k)
    BY <1>1 DEF Ahead
  <2> QED
    BY <1>1, <1>2, <2>2, <2>3, NothingNewTaken DEF LedgerInv
<1> QED
  BY <1>3, <1>4 DEF SearchInv

LEMMA TakeKeepsInv ==
  ASSUME SearchInv, Take, UNCHANGED case
  PROVE  SearchInv'
<1>1. /\ searching = "offers" /\ winner # NoWinner /\ searching' = "depth"
      /\ chosen' = chosen \o MembersOf(winner.offer) /\ best' = winner.leaf
      /\ UNCHANGED <<question, authority, offers, next, answer>>
  BY DEF Take
<1>2. SearchTypes /\ TakenInv /\ LedgerInv /\ case \in Cases
  BY DEF SearchInv
<1>3. /\ winner.offer \in offers /\ Fits(ActsOf(winner.offer)) /\ winner.leaf.grid \in Configs
      /\ winner.leaf.score \in Int
  BY <1>1, <1>2 DEF LedgerInv
<1>4. SearchTypes'
  <2>1. Instant' = Instant /\ (\A g, h : Constrained(g, h)' = Constrained(g, h))
        /\ (\A q, c : Offering(q, c)' = Offering(q, c))
    BY <1>1 DEF Instant, MarginOf, Constrained, Offering, WorstCnec
  <2> QED
    BY <1>1, <1>2, <1>3, <2>1 DEF SearchTypes
<1>5. TakenInv'
  <2>1. chosen \in Seq(Actions) /\ MembersOf(winner.offer) \in Seq(Actions)
    BY <1>1, <1>2, <1>3, OffersAreWhole, CandidatesAct DEF SearchTypes, TakenInv
  <2>2. chosen' \in Seq(Actions) /\ Taken' = Taken \cup ActsOf(winner.offer)
    BY <1>1, <2>1, RangeOfConcatenation DEF Taken, ActsOf
  <2>3. PairwiseCompatible(Taken \cup ActsOf(winner.offer))
    BY <1>1, <1>2, <1>3, FittingIsCompatible
  <2>4. Instant' = Instant /\ Admits(Instant, Taken \cup ActsOf(winner.offer))
    BY <1>1, <1>3 DEF Instant, Fits
  <2>5. \A a \in Taken' : \E k \in offers : a \in ActsOf(k)
    BY <1>1, <1>2, <1>3, <2>2 DEF TakenInv
  <2> QED
    BY <1>1, <2>2, <2>3, <2>4, <2>5 DEF TakenInv
<1>6. LedgerInv'
  BY <1>1 DEF LedgerInv
<1> QED
  BY <1>2, <1>4, <1>5, <1>6 DEF SearchInv

LEMMA AnswerKeepsInv ==
  ASSUME SearchInv, LeaveAlone \/ NothingBetter \/ GoodOrDeep, UNCHANGED case
  PROVE  SearchInv'
<1>1. /\ searching # "idle" /\ searching' = "answered"
      /\ UNCHANGED <<question, authority, offers, chosen, best, next>>
      /\ answer' \in {answer, [acts |-> Taken, moved |-> best.moved, grid |-> Reported]}
  BY DEF LeaveAlone, NothingBetter, GoodOrDeep, Answer
<1>2. SearchTypes /\ TakenInv /\ case \in Cases
  BY DEF SearchInv
<1>3. Reported \in Configs
  <2>1. Rebuilt \in Configs /\ best.grid \in Configs
    BY <1>1, <1>2, RebuiltIsAConfig DEF SearchTypes
  <2> QED
    BY <2>1 DEF Reported, Configs
<1>4. SearchTypes'
  BY <1>1, <1>2, <1>3, NothingNewTaken DEF SearchTypes
<1>5. TakenInv' /\ LedgerInv'
  BY <1>1, SameTaken DEF LedgerInv
<1> QED
  BY <1>2, <1>4, <1>5 DEF SearchInv

LEMMA SearchNextKeepsInv ==
  ASSUME SearchInv, SearchNext, UNCHANGED case
  PROVE  SearchInv'
  BY RootKeepsInv, DeepenKeepsInv, EvaluateKeepsInv, PassOverKeepsInv, TakeKeepsInv,
     AnswerKeepsInv DEF SearchNext

LEMMA SearchStutter ==
  ASSUME SearchInv, UNCHANGED <<case, searchvars>>
  PROVE  SearchInv'
<1>1. UNCHANGED <<case, question, authority, offers, chosen, best, winner, ledger, next,
                  searching, answer>>
  BY DEF searchvars
<1>2. SearchTypes' /\ (searching # "idle" => TakenInv')
  BY <1>1, NothingNewTaken, SameTaken DEF SearchInv, SearchTypes
<1>3. TakenInv'
  BY <1>1, <1>2 DEF TakenInv
<1>4. LedgerInv'
  <2>1. \A j, k : Ahead(j, k)' = Ahead(j, k)
    BY <1>1 DEF Ahead
  <2> QED
    BY <1>1, <2>1, NothingNewTaken DEF SearchInv, LedgerInv
<1> QED
  BY <1>1, <1>2, <1>3, <1>4 DEF SearchInv

-----------------------------------------------------------------------------
(* The scenario.                                                            *)

HandOver ==
  /\ left \in Configs /\ target \in Int
  /\ remaining \subseteq {s.instant : s \in Curatives}

ScenarioInv == AutoInv /\ SearchInv /\ HandOver

LEMMA CarriedIsAConfig == ASSUME NEW from \in Configs PROVE Carried(from) \in Configs
  BY RemedialAssumption DEF Carried, Configs

LEMMA ScenarioInit == Init => ScenarioInv
<1> SUFFICES ASSUME Init PROVE ScenarioInv
  OBVIOUS
<1>1. /\ case \in Cases /\ preventive \in Configs /\ target \in Int
      /\ left = preventive /\ handed = Carried(preventive) /\ Begin
      /\ searching = "idle" /\ remaining = {s.instant : s \in Curatives}
  BY ScenarioAssumption DEF Init
<1>2. AutoInv
  BY <1>1, CarriedIsAConfig, AutoInit
<1>3. SearchInv
  BY <1>1 DEF SearchInv, SearchTypes, TakenInv, LedgerInv
<1> QED
  BY <1>1, <1>2, <1>3 DEF ScenarioInv, HandOver

\* What a search is asked.
LEMMA Asking ==
  ASSUME ScenarioInv, NextInstant
  PROVE  \E q : /\ Ask(q) /\ q.base \in Configs /\ q.held = NothingHeld
                /\ Earliest(q.at) \in DOMAIN KindOf /\ q.target \in Int
                /\ remaining' \subseteq remaining
<1> DEFINE i == CHOOSE j \in remaining : \A k \in remaining : j <= k
           here == {[instant |-> i, contingency |-> Contingency]}
           q == [base |-> Carried(left), perimeter |-> here, at |-> here,
                 held |-> NothingHeld, withheld |-> {}, target |-> target]
<1>1. Ask(q) /\ remaining' = remaining \ {i} /\ remaining # {}
  BY DEF NextInstant
<1>2. i \in DOMAIN KindOf
  <2>1. DOMAIN KindOf \subseteq Int /\ \A j \in DOMAIN KindOf : 0 <= j
    BY RemedialAssumption
  <2>2. remaining \subseteq DOMAIN KindOf
    BY RemedialAssumption DEF ScenarioInv, HandOver, Curatives
  <2>3. 0 \in Int
    OBVIOUS
  <2>4. \E j \in remaining : \A k \in remaining : j <= k
    BY <1>1, <2>1, <2>2, <2>3, SmallestExists
  <2> QED
    BY <2>2, <2>4
<1> HIDE DEF i
<1>3. Earliest(here) = i
  <2>1. {s.instant : s \in here} = {i} /\ i <= i
    BY <1>2, RemedialAssumption
  <2> QED
    BY <2>1 DEF Earliest
<1>4. q.base \in Configs
  BY CarriedIsAConfig DEF ScenarioInv, HandOver
<1>5. q.at = here /\ q.held = NothingHeld /\ q.target \in Int
  BY DEF ScenarioInv, HandOver
<1> HIDE DEF q, here
<1> QED
  BY <1>1, <1>2, <1>3, <1>4, <1>5

LEMMA ScenarioNext ==
  ASSUME ScenarioInv, [Next]_vars
  PROVE  ScenarioInv'
<1> USE DEF ScenarioInv
<1>1. CASE Simulate
  <2>1. AutoNext /\ UNCHANGED <<case, searchvars, left, target, remaining>>
    BY <1>1 DEF Simulate, scenariovars
  <2> QED
    BY <2>1, AutoNextKeepsInv, SearchStutter DEF HandOver, Curatives, Actionable
<1>2. CASE AutomatonsDone
  <2>1. left' = grid /\ UNCHANGED <<case, autovars, searchvars, target, remaining>>
    BY <1>2 DEF AutomatonsDone
  <2>2. HandOver'
    BY <2>1 DEF HandOver, AutoInv, AutoTypes, Curatives, Actionable
  <2> QED
    BY <2>1, <2>2, AutoStutter, SearchStutter
<1>3. CASE NextInstant
  <2>1. UNCHANGED <<case, autovars, left, target>>
    BY <1>3 DEF NextInstant
  <2>2. remaining' \subseteq remaining /\ SearchInv'
    BY <1>3, <2>1, Asking, AskKeepsInv DEF SearchInv
  <2>3. HandOver'
    BY <2>1, <2>2 DEF HandOver, Curatives, Actionable
  <2> QED
    BY <2>1, <2>2, <2>3, AutoStutter
<1>4. CASE Search
  <2>1. SearchNext /\ UNCHANGED <<case, autovars, left, target, remaining>>
    BY <1>4 DEF Search, scenariovars
  <2> QED
    BY <2>1, SearchNextKeepsInv, AutoStutter DEF HandOver, Curatives, Actionable
<1>5. CASE Leave
  <2>1. /\ searching = "answered" /\ left' = answer.grid
        /\ UNCHANGED <<case, autovars, searchvars, target, remaining>>
    BY <1>5 DEF Leave
  <2>2. answer.grid \in Configs
    BY <2>1 DEF SearchInv, SearchTypes
  <2> QED
    BY <2>1, <2>2, AutoStutter, SearchStutter DEF HandOver, Curatives, Actionable
<1>6. CASE Planned \/ UNCHANGED vars
  <2>1. UNCHANGED <<case, autovars, searchvars, left, target, remaining>>
    BY <1>6 DEF Planned, vars, scenariovars
  <2> QED
    BY <2>1, AutoStutter, SearchStutter DEF HandOver, Curatives, Actionable
<1> QED
  BY <1>1, <1>2, <1>3, <1>4, <1>5, <1>6 DEF Next

\* The invariant of a contingency's run: see the README for what each part is for.
THEOREM ScenarioInvariance == Spec => []ScenarioInv
  BY ScenarioInit, ScenarioNext, PTL DEF Spec

\* Equipment of one speed samples the grid at the same moment, so which of a speed's
\* network actions comes first decides nothing (automaton.rs, simulate).
THEOREM SpeedsSeeOneGrid == Spec => []SameSpeedSeesSameGrid
<1>1. ScenarioInv => SameSpeedSeesSameGrid
  BY AutoInvImplies DEF ScenarioInv
<1> QED
  BY <1>1, ScenarioInvariance, PTL

\* What the automatons of a contingency leave is what their rules let them do to the
\* grid they were handed: every unconditional one acted, none a rule does not cover,
\* and each shifter stands in the range about its tap at the hand-over.
THEOREM AutomatonsKeepIt == Spec => []AutomatonsKeepTheirPromise
<1>1. ScenarioInv => AutomatonsKeepTheirPromise
  BY AutoInvImplies DEF ScenarioInv
<1> QED
  BY <1>1, ScenarioInvariance, PTL

\* A shifter an automaton moves stops at the first tap that is enough, of those on
\* its way, and turns no further (automaton.rs, smallest_securing).
THEOREM NoFurtherThanNeededHolds == Spec => NoFurtherThanNeeded
<1> DEFINE body ==
      moved' # moved =>
        LET r == CHOOSE q \in moved' : q \notin moved
            reached == grid'[ElementOf[r]]
            short == {t \in Between : IF reached > trial.from THEN t < reached
                                                              ELSE t > reached}
        IN  \A t \in short :
              \E c \in WatchedBy(r) \ hopeless : Margin(case, c, At(t)) < 0
<1>1. ScenarioInv /\ [Next]_vars => [body]_autovars
  <2> SUFFICES ASSUME ScenarioInv, [Next]_vars, moved' # moved PROVE body
    BY DEF autovars
  <2>1. Simulate
    BY DEF Next, AutomatonsDone, NextInstant, Search, Leave, Planned, vars, autovars
  <2>2. AutoNext /\ UNCHANGED case /\ AutoInv
    BY <2>1 DEF Simulate, ScenarioInv
  <2> HIDE DEF body
  <2> QED
    BY <2>2, NoFurther DEF body
<1> QED
  BY <1>1, ScenarioInvariance, PTL DEF Spec, NoFurtherThanNeeded

\* Of a depth's offers the one taken is the best, and among equals the one whose name
\* sorts first, whatever order they were looked at in (search.rs, search_with_open).
THEOREM TheBestWins == Spec => []WinnerIsTheBest
<1>1. ScenarioInv => WinnerIsTheBest
  <2> SUFFICES ASSUME SearchTypes, LedgerInv, searching = "offers", next \notin Candidates
               PROVE  /\ DOMAIN ledger = {k \in offers : Fits(ActsOf(k))}
                      /\ winner # NoWinner => \A k \in DOMAIN ledger :
                           \/ ledger[k] < ledger[winner.offer]
                           \/ ledger[k] = ledger[winner.offer] /\ Key[winner.offer] <= Key[k]
    BY DEF ScenarioInv, SearchInv, WinnerIsTheBest
  <2>1. \A k \in offers : k < next
    <3> SUFFICES ASSUME NEW k \in offers PROVE k < next
      OBVIOUS
    <3>1. k \in Candidates
      BY OffersAreWhole DEF SearchTypes
    <3>2. next \in Nat \ {0} /\ NActions \in Nat /\ Len(Combinations) \in Nat
      BY SearchAssumption, RemedialAssumption DEF SearchTypes
    <3> QED
      BY <3>1, <3>2 DEF Candidates
  <2> QED
    BY <2>1 DEF LedgerInv, Ahead
<1> QED
  BY <1>1, ScenarioInvariance, PTL

-----------------------------------------------------------------------------
(* What a search answers.                                                   *)

\* Nothing is left out for being far from the worst CNEC: skip-far-actions is off
\* unless it is asked for (search.rs, SearchConfig::default).
NothingIsFar ==
  \A c \in Cnecs, a \in Actions :
    DOMAIN Effect[a] = {} \/ DOMAIN Effect[a] \cap Near[c] # {}

\* A leaf on the network handed in with these actions applied.
Stands(leaf, acts) == IsLeaf(leaf, WithAll(question.base, acts), acts)

PromiseInv ==
  /\ searching = "untouched" =>
       /\ chosen = <<>>
       /\ best = [grid |-> question.base, moved |-> {}, score |-> Worth0]
       /\ answer = [acts |-> {}, moved |-> {}, grid |-> question.base]
  /\ searching \in {"depth", "offers"} =>
       /\ ~Good(Worth0)
       /\ Stands(best, Taken)
       /\ best.score > Worth0 \/ (Taken = {} /\ best.moved = {})
  /\ searching = "offers" /\ winner # NoWinner =>
       Stands(winner.leaf, Taken \cup ActsOf(winner.offer))
  /\ searching = "answered" => answer \in Answers(question)

LEMMA WorstIsACnec ==
  ASSUME NEW q, q.base \in Configs, q.held = NothingHeld, case \in Cases,
         \E c \in Cnecs : StateOf[c] \in q.perimeter
  PROVE  WorstCnec(q) \in Cnecs
<1> DEFINE here == {c \in Cnecs : StateOf[c] \in q.perimeter}
           margins == {MarginOf(c, q.base, q.held) : c \in here}
<1>1. margins \in SUBSET Margins /\ margins # {}
  BY MarginHere
<1> HIDE DEF margins
<1>2. PICK m \in margins : \A n \in margins : m <= n
  BY <1>1, WorstIsANumber
<1>3. \E c \in here : \A d \in here : MarginOf(c, q.base, q.held) <= MarginOf(d, q.base, q.held)
  BY <1>2 DEF margins
<1>4. WorstCnec(q) \in here
  BY <1>3 DEF WorstCnec
<1> QED
  BY <1>4

\* With nothing far, every action of an offer is an offer by itself.
LEMMA SinglesAreOffered ==
  ASSUME SearchTypes, case \in Cases, searching # "idle", NothingIsFar,
         NEW k \in offers, NEW a \in ActsOf(k)
  PROVE  a \in offers
<1>1. offers = Offering(question, authority)
      /\ question.base \in Configs /\ question.held = NothingHeld
  BY DEF SearchTypes
<1>2. k \in Candidates /\ a \in Offered(question.at, authority)
  BY <1>1, OffersAreWhole
<1>3. a \in Actions
  BY <1>2, CandidatesAct
<1>4. a \in Candidates /\ ActsOf(a) = {a} /\ Touches({a}) = DOMAIN Effect[a] /\ ~(a > NActions)
  <2>1. a \in 1..NActions /\ NActions \in Nat
    BY <1>3, RemedialAssumption DEF Actions
  <2> QED
    BY <1>3, <2>1, ActionsAreCandidates
<1>5. a \in Whole(question, authority)
  BY <1>2, <1>4 DEF Whole
<1>6. (\E c \in Cnecs : StateOf[c] \in question.perimeter) => IsNear({a}, WorstCnec(question))
  BY <1>1, <1>3, <1>4, WorstIsACnec DEF IsNear, NothingIsFar
<1> QED
  BY <1>1, <1>4, <1>5, <1>6 DEF Offering

\* Then the network is rebuilt from the actions taken and from nothing else.
LEMMA RebuiltFromTaken ==
  ASSUME SearchInv, searching # "idle", NothingIsFar
  PROVE  Rebuilt = WithAll(question.base, Taken)
<1>1. SearchTypes /\ TakenInv /\ case \in Cases /\ question.base \in Configs
  BY DEF SearchInv, SearchTypes
<1>2. \A a \in Taken : a \in Actions /\ OfferOf(a) = {a} /\ Touches(OfferOf(a)) = DOMAIN Effect[a]
  <2> SUFFICES ASSUME NEW a \in Taken
               PROVE a \in Actions /\ OfferOf(a) = {a} /\ Touches(OfferOf(a)) = DOMAIN Effect[a]
    OBVIOUS
  <2>1. a \in Actions /\ a \in offers
    BY <1>1, TakenAreActions, SinglesAreOffered DEF TakenInv
  <2> QED
    BY <2>1, ActionsAreCandidates DEF OfferOf
<1>3. Taken \in SUBSET Actions /\ PairwiseCompatible(Taken)
  BY <1>1, TakenAreActions DEF TakenInv
<1> SUFFICES ASSUME NEW e \in Elements PROVE Rebuilt[e] = WithAll(question.base, Taken)[e]
  BY DEF Rebuilt, RebuiltOn, WithAll
<1>4. CASE Deciding(e) = {}
  <2>1. ~\E a \in Taken : e \in DOMAIN Effect[a]
    BY <1>2, <1>4 DEF Deciding, Taken, Range
  <2> QED
    BY <1>4, <2>1 DEF Rebuilt, RebuiltOn, WithAll
<1>5. CASE Deciding(e) # {}
  <2> DEFINE n == CHOOSE n \in Deciding(e) : \A m \in Deciding(e) : m <= n
             a == chosen[n]
  <2>1. a \in Taken /\ e \in Touches(OfferOf(a))
    BY <1>1, <1>5, DecidingIsAnAction
  <2>2. Rebuilt[e] = WithAll(question.base, OfferOf(a))[e]
    BY <1>5 DEF Rebuilt, RebuiltOn
  <2> HIDE DEF n, a
  <2>3. OfferOf(a) = {a} /\ e \in DOMAIN Effect[a] /\ a \in Actions
    BY <1>2, <2>1
  <2>4. Latest(Taken, e) = a /\ Latest({a}, e) = a
    BY <1>3, <2>1, <2>3, LatestIsTheOne, OneIsCompatible
  <2> QED
    BY <2>1, <2>2, <2>3, <2>4 DEF WithAll
<1> QED
  BY <1>4, <1>5

\* The branches as they are rebuilt are the branches of the leaf that stands.
LEMMA ReportedIsTheLeaf ==
  ASSUME SearchInv, searching # "idle", NothingIsFar, Stands(best, Taken)
  PROVE  Reported = best.grid
<1>1. Rebuilt = WithAll(question.base, Taken)
  BY RebuiltFromTaken
<1>2. best.grid \in Moves(WithAll(question.base, Taken), best.moved, question.base)
      /\ best.moved \in SUBSET RangeActions /\ best.grid \in Configs
  BY DEF Stands, IsLeaf, Usable, SearchInv, SearchTypes
<1>3. \A e \in Elements : e \notin Shifters \cup Injections => best.grid[e] = Rebuilt[e]
  BY <1>1, <1>2, MovesLeaveBranches
<1> QED
  BY <1>2, <1>3 DEF Reported, Configs

-----------------------------------------------------------------------------
(* The limits of an instant.                                                *)

LEMMA CountActions ==
  ASSUME NEW acts \in SUBSET Actions, NEW rs \in SUBSET RangeActions
  PROVE  /\ Cardinality(acts) \in Nat /\ Cardinality(rs) \in Nat
         /\ acts = {} => Cardinality(acts) = 0
         /\ rs = {} => Cardinality(rs) = 0
<1>1. IsFiniteSet(acts) /\ IsFiniteSet(rs)
  <2>1. IsFiniteSet(Actions) /\ IsFiniteSet(RangeActions)
    BY RemedialAssumption, FS_Interval DEF Actions, RangeActions
  <2> QED
    BY <2>1, FS_Subset
<1> QED
  BY <1>1, FS_CardinalityType, FS_EmptySet

\* What the two budgets admit, one after the other, is within the limits.
LEMMA BudgetsAreTheLimits ==
  ASSUME NEW i \in DOMAIN KindOf,
         NEW acts \in SUBSET Actions, acts # {} => Admits(i, acts),
         NEW shifted \in SUBSET RangeActions, shifted # {} => BudgetAdmits(i, acts, shifted)
  PROVE  WithinLimits(i, acts, shifted)
<1>1. MaxRa[i] \in Nat
  BY RemedialAssumption
<1>2. Cardinality(acts) + Cardinality(shifted) <= MaxRa[i]
  <2>1. Cardinality(acts) \in Nat /\ Cardinality(shifted) \in Nat
        /\ (acts = {} => Cardinality(acts) = 0) /\ (shifted = {} => Cardinality(shifted) = 0)
    BY CountActions
  <2>2. Cardinality(acts) <= MaxRa[i]
    BY <1>1, <2>1 DEF Admits
  <2>3. shifted # {} => Cardinality(shifted) <= Left(MaxRa[i], Cardinality(acts))
    BY DEF BudgetAdmits
  <2> QED
    BY <1>1, <2>1, <2>2, <2>3 DEF Left
<1>3. ASSUME NEW tso \in DOMAIN MaxRaPerTso[i]
      PROVE  Cardinality(OfTso(acts, tso)) + Cardinality(RangesOfTso(shifted, tso))
               <= MaxRaPerTso[i][tso]
  <2>1. /\ OfTso(acts, tso) \in SUBSET Actions /\ RangesOfTso(shifted, tso) \in SUBSET RangeActions
        /\ MaxRaPerTso[i][tso] \in Nat
    BY RemedialAssumption DEF OfTso, RangesOfTso
  <2>2. /\ Cardinality(OfTso(acts, tso)) \in Nat /\ Cardinality(RangesOfTso(shifted, tso)) \in Nat
        /\ (OfTso(acts, tso) = {} => Cardinality(OfTso(acts, tso)) = 0)
        /\ (RangesOfTso(shifted, tso) = {} => Cardinality(RangesOfTso(shifted, tso)) = 0)
    BY <2>1, CountActions
  <2>3. OfTso(acts, tso) # {} => Cardinality(OfTso(acts, tso)) <= MaxRaPerTso[i][tso]
    <3> SUFFICES ASSUME OfTso(acts, tso) # {}
                 PROVE Cardinality(OfTso(acts, tso)) <= MaxRaPerTso[i][tso]
      OBVIOUS
    <3>1. tso \in {Operator[a] : a \in acts} /\ acts # {}
      BY DEF OfTso
    <3> QED
      BY <3>1 DEF Admits, Within
  <2>4. RangesOfTso(shifted, tso) # {} =>
          Cardinality(RangesOfTso(shifted, tso))
            <= Left(MaxRaPerTso[i][tso], Cardinality(OfTso(acts, tso)))
    <3> SUFFICES ASSUME RangesOfTso(shifted, tso) # {}
                 PROVE Cardinality(RangesOfTso(shifted, tso))
                         <= Left(MaxRaPerTso[i][tso], Cardinality(OfTso(acts, tso)))
      OBVIOUS
    <3>1. tso \in {RangeOperator[r] : r \in shifted} /\ shifted # {}
      BY DEF RangesOfTso
    <3> QED
      BY <3>1 DEF BudgetAdmits
  <2> QED
    BY <2>1, <2>2, <2>3, <2>4 DEF Left
<1>4. ASSUME NEW tso \in DOMAIN MaxTopoPerTso[i]
      PROVE  Cardinality(OfTso(acts, tso)) <= MaxTopoPerTso[i][tso]
  <2>1. OfTso(acts, tso) \in SUBSET Actions /\ MaxTopoPerTso[i][tso] \in Nat
    BY RemedialAssumption DEF OfTso
  <2>2. CASE OfTso(acts, tso) = {}
    BY <2>1, <2>2, CountActions
  <2>3. CASE OfTso(acts, tso) # {}
    <3>1. tso \in {Operator[a] : a \in acts} /\ acts # {}
      BY <2>3 DEF OfTso
    <3> QED
      BY <3>1 DEF Admits, Within
  <2> QED
    BY <2>2, <2>3
<1>5. ASSUME NEW tso \in DOMAIN MaxPstPerTso[i]
      PROVE  Cardinality({r \in RangesOfTso(shifted, tso) : ElementOf[r] \in Shifters})
               <= MaxPstPerTso[i][tso]
  <2> DEFINE psts == {r \in RangesOfTso(shifted, tso) : ElementOf[r] \in Shifters}
  <2>1. psts \in SUBSET RangeActions /\ MaxPstPerTso[i][tso] \in Nat
    BY RemedialAssumption DEF RangesOfTso
  <2>2. CASE RangesOfTso(shifted, tso) = {}
    <3>1. psts = {}
      BY <2>2
    <3> QED
      BY <2>1, <3>1, CountActions
  <2>3. CASE RangesOfTso(shifted, tso) # {}
    <3>1. tso \in {RangeOperator[r] : r \in shifted} /\ shifted # {}
      BY <2>3 DEF RangesOfTso
    <3> QED
      BY <3>1 DEF BudgetAdmits, Within
  <2> QED
    BY <2>2, <2>3
<1> QED
  BY <1>2, <1>3, <1>4, <1>5 DEF WithinLimits

-----------------------------------------------------------------------------
(* The promise is kept.                                                     *)

LEMMA StandsAlike ==
  ASSUME UNCHANGED <<case, question, authority>>
  PROVE  \A leaf, acts : Stands(leaf, acts)' <=> Stands(leaf, acts)
  BY DEF Stands, IsLeaf, Instant, Objective, MarginOf

\* What stands after a step that asks the same question.
LEMMA SameQuestion ==
  ASSUME UNCHANGED <<case, question, authority, chosen>>
  PROVE  /\ Worth0' = Worth0 /\ Taken' = Taken
         /\ \A score : Good(score)' <=> Good(score)
         /\ best' = best => (Stands(best, Taken)' <=> Stands(best, Taken))
  BY DEF Worth0, Objective, MarginOf, Good, Taken, Stands, IsLeaf, Instant

LEMMA WorthIsANumber ==
  ASSUME SearchInv, searching # "idle"
  PROVE  Worth0 \in Int /\ question.target \in Int /\ question.base \in Configs
         /\ question.held = NothingHeld /\ case \in Cases
  BY ObjectiveIsANumber DEF SearchInv, SearchTypes, Worth0

LEMMA NothingIsTaken ==
  ASSUME NEW config \in Configs
  PROVE  WithAll(config, {}) = config
  BY DEF WithAll, Configs

LEMMA AskKeepsPromise ==
  ASSUME NEW q, Ask(q), UNCHANGED case
  PROVE  PromiseInv'
  BY DEF Ask, PromiseInv, Worth0, Objective, MarginOf

LEMMA LeaveAloneKeepsPromise ==
  ASSUME SearchInv, PromiseInv, LeaveAlone, UNCHANGED case
  PROVE  PromiseInv'
<1>1. /\ searching = "untouched" /\ Good(best.score) /\ searching' = "answered"
      /\ UNCHANGED <<question, answer>>
  BY DEF LeaveAlone
<1>2. best.score = Worth0 /\ answer = [acts |-> {}, moved |-> {}, grid |-> question.base]
  BY <1>1 DEF PromiseInv
<1>3. answer \in Answers(question)
  BY <1>1, <1>2 DEF Answers, Good, Worth0
<1>4. (answer \in Answers(question))'
  BY <1>1, <1>3 DEF Answers, Objective, MarginOf, Constrained, Combined
<1> QED
  BY <1>1, <1>4 DEF PromiseInv

LEMMA RootKeepsPromise ==
  ASSUME SearchInv, PromiseInv, Root, UNCHANGED case
  PROVE  PromiseInv'
<1>1. /\ searching = "untouched" /\ ~Good(best.score) /\ searching' = "depth"
      /\ best' \in Leaves(question, question.base, {}, authority)
      /\ UNCHANGED <<question, authority, offers, chosen>>
  BY DEF Root
<1>2. chosen = <<>> /\ Taken = {} /\ ~Good(Worth0)
  BY <1>1 DEF PromiseInv, Taken, Range
<1>3. /\ Worth0 \in Int /\ question.base \in Configs /\ question.held = NothingHeld
      /\ case \in Cases
  BY <1>1, WorthIsANumber
<1>4. IsLeaf(best', question.base, {})
  BY <1>1, <1>3, LeavesAreLeaves
<1>5. best'.score \in Int /\ (best'.score > Worth0 \/ best'.moved = {})
  BY <1>3, <1>4, LeafIsAConfig DEF IsLeaf, Worth0
<1>6. Stands(best, Taken)'
  <2>1. Stands(best', {})
    BY <1>3, <1>4, NothingIsTaken DEF Stands
  <2>2. Taken' = {} /\ UNCHANGED <<case, question, authority>>
    BY <1>1, <1>2 DEF Taken
  <2> QED
    BY <2>1, <2>2 DEF Stands, IsLeaf, Instant, Objective, MarginOf
<1> QED
  BY <1>1, <1>2, <1>5, <1>6, SameQuestion DEF PromiseInv

LEMMA DeepenKeepsPromise ==
  ASSUME SearchInv, PromiseInv, Deepen, UNCHANGED case
  PROVE  PromiseInv'
<1>1. /\ searching = "depth" /\ searching' = "offers" /\ winner' = NoWinner
      /\ UNCHANGED <<question, authority, offers, chosen, best>>
  BY DEF Deepen
<1> QED
  BY <1>1, SameQuestion DEF PromiseInv

LEMMA EvaluateKeepsPromise ==
  ASSUME SearchInv, PromiseInv, Evaluate, UNCHANGED case, NothingIsFar
  PROVE  PromiseInv'
<1>1. /\ searching = "offers" /\ searching' = "offers" /\ next \in Candidates
      /\ next \in offers /\ Fits(ActsOf(next))
      /\ UNCHANGED <<question, authority, offers, chosen, best>>
  BY DEF Evaluate
<1> DEFINE acts == Taken \cup ActsOf(next)
           start == WithAll(Rebuilt, ActsOf(next))
<1>2. PICK leaf \in Leaves(question, start, acts, authority) :
        winner' = IF Better(next, leaf) THEN [offer |-> next, leaf |-> leaf] ELSE winner
  BY DEF Evaluate
<1>3. /\ SearchTypes /\ TakenInv /\ case \in Cases /\ question.base \in Configs
      /\ question.held = NothingHeld
  BY <1>1 DEF SearchInv, SearchTypes
<1>4. start = WithAll(question.base, acts) /\ start \in Configs
  <2>1. /\ PairwiseCompatible(Taken \cup ActsOf(next)) /\ Taken \in SUBSET Actions
        /\ ActsOf(next) \in SUBSET Actions
    BY <1>1, <1>3, FittingIsCompatible
  <2>2. Rebuilt = WithAll(question.base, Taken)
    BY <1>1, RebuiltFromTaken
  <2> QED
    BY <1>1, <1>3, <2>1, <2>2, WithAllTwice, CandidateLeafIsAConfig
<1> HIDE DEF acts, start
<1>5. Stands(leaf, acts)
  BY <1>3, <1>4, LeavesAreLeaves DEF Stands
<1>6. winner # NoWinner => Stands(winner.leaf, Taken \cup ActsOf(winner.offer))
  BY <1>1 DEF PromiseInv
<1>7. winner' # NoWinner => Stands(winner.leaf, Taken \cup ActsOf(winner.offer))'
  <2>1. UNCHANGED <<case, question, authority, chosen>>
    BY <1>1
  <2>2. \A l, s : Stands(l, s)' <=> Stands(l, s)
    BY <2>1, StandsAlike
  <2>3. \A k : (Taken \cup ActsOf(k))' = Taken \cup ActsOf(k)
    BY <2>1 DEF Taken
  <2>4. CASE winner' = winner
    <3>1. (winner # NoWinner => Stands(winner.leaf, Taken \cup ActsOf(winner.offer)))'
      BY <1>6, <2>1, <2>4 DEF Stands, IsLeaf, Instant, Objective, MarginOf, Taken
    <3> QED
      BY <3>1
  <2>5. CASE winner' = [offer |-> next, leaf |-> leaf]
    <3>1. winner'.offer = next /\ winner'.leaf = leaf
      BY <2>5
    <3>2. Stands(leaf, Taken \cup ActsOf(next))
      BY <1>5 DEF acts
    <3> QED
      BY <2>1, <3>1, <3>2 DEF Stands, IsLeaf, Instant, Objective, MarginOf, Taken
  <2> QED
    BY <1>2, <2>4, <2>5
<1> QED
  BY <1>1, <1>7, SameQuestion DEF PromiseInv

LEMMA PassOverKeepsPromise ==
  ASSUME SearchInv, PromiseInv, PassOver, UNCHANGED case
  PROVE  PromiseInv'
<1>1. /\ searching = "offers"
      /\ UNCHANGED <<question, authority, offers, chosen, best, winner, searching>>
  BY DEF PassOver
<1>2. (winner # NoWinner => Stands(winner.leaf, Taken \cup ActsOf(winner.offer)))'
  BY <1>1 DEF PromiseInv, Stands, IsLeaf, Instant, Objective, MarginOf, Taken
<1> QED
  BY <1>1, <1>2, SameQuestion DEF PromiseInv

LEMMA TakeKeepsPromise ==
  ASSUME SearchInv, PromiseInv, Take, UNCHANGED case
  PROVE  PromiseInv'
<1>1. /\ searching = "offers" /\ searching' = "depth" /\ winner # NoWinner
      /\ Worth(winner.leaf) /\ chosen' = chosen \o MembersOf(winner.offer)
      /\ best' = winner.leaf
      /\ UNCHANGED <<question, authority, offers>>
  BY DEF Take
<1>2. SearchTypes /\ TakenInv /\ LedgerInv /\ case \in Cases
  BY DEF SearchInv
<1>3. /\ winner.offer \in offers /\ winner.leaf.score \in Int
      /\ best.score \in Int /\ Worth0 \in Int
  BY <1>1, <1>2, WorthIsANumber DEF LedgerInv, SearchTypes
<1>4. Taken' = Taken \cup ActsOf(winner.offer)
  <2>1. chosen \in Seq(Actions) /\ MembersOf(winner.offer) \in Seq(Actions)
    BY <1>1, <1>2, <1>3, OffersAreWhole, CandidatesAct DEF SearchTypes, TakenInv
  <2> QED
    BY <1>1, <2>1, RangeOfConcatenation DEF Taken, ActsOf
<1>5. winner.leaf.score > best.score
  <2>1. MinImpact \in Nat
    BY SearchAssumption
  <2>2. winner.leaf.score > best.score + MinImpact \/ winner.leaf.score > best.score
    BY <1>1 DEF Worth, ImprovedEnough
  <2> QED
    BY <1>3, <2>1, <2>2
<1>6. best.score >= Worth0
  <2>1. best.score > Worth0 \/ (Taken = {} /\ best.moved = {})
    BY <1>1 DEF PromiseInv
  <2>2. CASE Taken = {} /\ best.moved = {}
    <3>1. /\ Stands(best, {}) /\ question.base \in Configs /\ question.held = NothingHeld
      BY <1>1, <1>2, <2>2 DEF PromiseInv, SearchTypes
    <3>2. IsLeaf(best, question.base, {})
      BY <3>1, NothingIsTaken DEF Stands
    <3> QED
      BY <1>2, <3>1, <3>2, LeafIsAConfig DEF Worth0
  <2> QED
    BY <1>3, <2>1, <2>2
<1>7. best'.score > Worth0
  BY <1>1, <1>3, <1>5, <1>6
<1>8. Stands(best, Taken)'
  <2>1. Stands(winner.leaf, Taken \cup ActsOf(winner.offer))
    BY <1>1 DEF PromiseInv
  <2>2. Stands(best', Taken')
    BY <1>1, <1>4, <2>1
  <2> QED
    BY <1>1, <2>2 DEF Stands, IsLeaf, Instant, Objective, MarginOf
<1>9. Worth0' = Worth0 /\ ~Good(Worth0)
  BY <1>1 DEF PromiseInv, Worth0, Objective, MarginOf
<1>10. ~Good(Worth0)'
  BY <1>1, <1>9 DEF Good
<1> QED
  BY <1>1, <1>7, <1>8, <1>9, <1>10 DEF PromiseInv

\* What stands when the search ends is an answer.
LEMMA LeafIsAnAnswer ==
  ASSUME SearchInv, PromiseInv, searching \in {"depth", "offers"}, NothingIsFar
  PROVE  [acts |-> Taken, moved |-> best.moved, grid |-> Reported] \in Answers(question)
<1> DEFINE given == [acts |-> Taken, moved |-> best.moved, grid |-> Reported]
           nothing == [acts |-> {}, moved |-> {}, grid |-> question.base]
<1>1. SearchTypes /\ TakenInv /\ case \in Cases /\ searching # "idle"
  BY DEF SearchInv
<1>2. /\ ~Good(Worth0) /\ Stands(best, Taken)
      /\ best.score > Worth0 \/ (Taken = {} /\ best.moved = {})
  BY DEF PromiseInv
<1>3. Reported = best.grid
  BY <1>1, <1>2, ReportedIsTheLeaf
<1>4. /\ best.moved \in SUBSET Usable(question, authority) /\ OnePerElement(best.moved)
      /\ best.grid \in Moves(WithAll(question.base, Taken), best.moved, question.base)
      /\ best.score = Objective(question.perimeter, best.grid, question.held)
      /\ best.moved # {} => BudgetAdmits(Instant, Taken, best.moved)
  BY <1>2 DEF Stands, IsLeaf
<1>5. ~(question.target # NoTarget /\ Worth0 >= question.target)
  BY <1>2 DEF Good
<1>6. CASE Taken = {} /\ best.moved = {}
  <2>1. question.base \in Configs
    BY <1>1 DEF SearchTypes
  <2>2. best.grid = question.base
    BY <1>4, <1>6, <2>1, NothingIsTaken, MovingNothing
  <2> QED
    BY <1>3, <1>5, <1>6, <2>2 DEF Answers, Worth0
<1>7. CASE best.score > Worth0
  <2>1. Taken \in SUBSET Actions /\ best.moved \in SUBSET RangeActions
    BY <1>1, <1>4, TakenAreActions DEF Usable
  <2>2. Taken \in SUBSET Offered(question.at, authority)
    <3> SUFFICES ASSUME NEW a \in Taken PROVE a \in Offered(question.at, authority)
      OBVIOUS
    <3>1. PICK k \in offers : a \in ActsOf(k)
      BY <1>1 DEF TakenInv
    <3> QED
      BY <1>1, <3>1, OffersAreWhole DEF SearchTypes
  <2>3. PairwiseCompatible(Taken) /\ (Taken # {} => Admits(Instant, Taken))
    BY <1>1 DEF TakenInv
  <2>4. WithinLimits(Earliest(question.at), Taken, best.moved)
    BY <1>1, <1>4, <2>1, <2>3, BudgetsAreTheLimits DEF SearchTypes, Instant
  <2>5. authority = Constrained(question.base, question.held)
    BY <1>1 DEF SearchTypes
  <2>6. given \in Combined(question, authority)
    <3> DEFINE made(acts, rs) ==
                 {[acts |-> acts, moved |-> rs, grid |-> g] :
                    g \in Moves(WithAll(question.base, acts), rs, question.base)}
               A == {x \in SUBSET Offered(question.at, authority) : PairwiseCompatible(x)}
               M == {m \in SUBSET Usable(question, authority) : OnePerElement(m)}
    <3>1. given.acts = Taken /\ given.moved = best.moved
      OBVIOUS
    <3>2. given \in made(Taken, best.moved)
      BY <1>3, <1>4
    <3>3. Taken \in A /\ best.moved \in M
      BY <1>4, <2>2, <2>3
    <3>4. Combined(question, authority) =
            {one \in UNION {made(acts, rs) : acts \in A, rs \in M} :
               WithinLimits(Earliest(question.at), one.acts, one.moved)}
      BY DEF Combined
    <3> HIDE DEF given, made, A, M
    <3>5. given \in UNION {made(acts, rs) : acts \in A, rs \in M}
      BY <3>2, <3>3
    <3>6. WithinLimits(Earliest(question.at), given.acts, given.moved)
      BY <2>4, <3>1
    <3> QED
      BY <3>4, <3>5, <3>6
  <2>7. Objective(question.perimeter, given.grid, question.held) > Worth0
    BY <1>3, <1>4, <1>7
  <2> HIDE DEF given
  <2>8. given \in Answers(question)
    BY <1>5, <2>5, <2>6, <2>7 DEF Answers, Worth0
  <2> QED
    BY <2>8 DEF given
<1> QED
  BY <1>2, <1>6, <1>7

LEMMA AnswerKeepsPromise ==
  ASSUME SearchInv, PromiseInv, NothingBetter \/ GoodOrDeep, UNCHANGED case, NothingIsFar
  PROVE  PromiseInv'
<1>1. /\ searching \in {"depth", "offers"} /\ searching' = "answered"
      /\ answer' = [acts |-> Taken, moved |-> best.moved, grid |-> Reported]
      /\ UNCHANGED question
  BY DEF NothingBetter, GoodOrDeep, Answer
<1>2. answer' \in Answers(question)
  BY <1>1, LeafIsAnAnswer
<1>3. (answer \in Answers(question))'
  BY <1>1, <1>2 DEF Answers, Objective, MarginOf, Constrained, Combined
<1> QED
  BY <1>1, <1>3 DEF PromiseInv

LEMMA PromiseStutter ==
  ASSUME PromiseInv, UNCHANGED <<case, searchvars>>
  PROVE  PromiseInv'
<1>1. UNCHANGED <<case, question, authority, chosen, best, winner, searching, answer>>
  BY DEF searchvars
<1>2. (answer \in Answers(question))' <=> answer \in Answers(question)
  BY <1>1 DEF Answers, Objective, MarginOf, Constrained, Combined
<1>3. (Stands(winner.leaf, Taken \cup ActsOf(winner.offer)))'
        <=> Stands(winner.leaf, Taken \cup ActsOf(winner.offer))
  BY <1>1 DEF Stands, IsLeaf, Instant, Objective, MarginOf, Taken
<1> QED
  BY <1>1, <1>2, <1>3, SameQuestion DEF PromiseInv

\* What a search returns is one of the answers it may give: nothing at all if the
\* untouched perimeter is good enough, else allowed and compatible actions within
\* the limits of the instant, the network exactly those make of the one handed in,
\* and an objective that is better for it (search.rs, search_with_open).
THEOREM SearchesKeepTheirPromise ==
  ASSUME NothingIsFar
  PROVE  Spec => []SearchKeepsItsPromise
<1>1. Init => PromiseInv
  BY DEF Init, PromiseInv
<1>2. ScenarioInv /\ PromiseInv /\ [Next]_vars => PromiseInv'
  <2> SUFFICES ASSUME ScenarioInv, PromiseInv, [Next]_vars PROVE PromiseInv'
    OBVIOUS
  <2>1. SearchInv
    BY DEF ScenarioInv
  <2>2. CASE Search
    <3>1. SearchNext /\ UNCHANGED case
      BY <2>2 DEF Search
    <3> QED
      BY <2>1, <3>1, NothingIsFar, LeaveAloneKeepsPromise, RootKeepsPromise, DeepenKeepsPromise,
         EvaluateKeepsPromise, PassOverKeepsPromise, TakeKeepsPromise, AnswerKeepsPromise
         DEF SearchNext
  <2>3. CASE NextInstant
    BY <2>3, Asking, AskKeepsPromise DEF NextInstant
  <2>4. CASE ~Search /\ ~NextInstant
    <3>1. UNCHANGED <<case, searchvars>>
      BY <2>4 DEF Next, Simulate, AutomatonsDone, Leave, Planned, vars
    <3> QED
      BY <3>1, PromiseStutter
  <2> QED
    BY <2>2, <2>3, <2>4
<1>3. PromiseInv => SearchKeepsItsPromise
  BY DEF PromiseInv, SearchKeepsItsPromise
<1> QED
  BY <1>1, <1>2, <1>3, ScenarioInvariance, PTL DEF Spec

=============================================================================
