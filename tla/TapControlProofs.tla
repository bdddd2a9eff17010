-------------------------- MODULE TapControlProofs --------------------------
(***************************************************************************)
(* What TapLoop guarantees for every table, every number of controllers    *)
(* and every answer of the network: the direction budget bounds the steps  *)
(* a controller ever takes, giving up is final, what Stable and AtLimit    *)
(* say is so, and with enough re-solves the loop ends by itself.           *)
(***************************************************************************)
EXTENDS TapControl, FiniteSetTheorems, TLAPS

\* How much of the way to the far end of its table a controller has used
\* since it last turned.
Run(c) == CASE direction[c] = "up"   -> position[c] - Low[c]
            [] direction[c] = "down" -> High[c] - position[c]
            [] OTHER                 -> 0

\* Every reversal grants one more width of the table; the way since the last
\* one is paid for by where the controller stands.
StepsInv(c) ==
  /\ direction[c] = "none" => /\ steps[c] = 0
                              /\ changes[c] = 0
                              /\ position[c] = Start[c]
  /\ direction[c] # "none" => position[c] \in Table(c)
  /\ changes[c] < MaxDirectionChanges
       => steps[c] <= changes[c] * Width(c) + Run(c)
  /\ changes[c] >= MaxDirectionChanges
       => frozen[c] /\ steps[c] <= MaxDirectionChanges * Width(c)

DisplacementInv(c) == Size(position[c] - Start[c]) <= steps[c]

\* A controller that gave up is in neither worklist of a check, and no
\* controller is in both.
WorkInv ==
  /\ pc # "rank" => queue = {}
  /\ pc \notin {"group", "rank"} => todo = {}
  /\ todo \cap queue = {}
  /\ \A c \in todo \cup queue : ~frozen[c]

IInv ==
  /\ TypeOK
  /\ WorkInv
  /\ \A c \in Controllers : StepsInv(c)
  /\ \A c \in Controllers : DisplacementInv(c)

-----------------------------------------------------------------------------
(* Arithmetic.                                                             *)

LEMMA OneMoreWidth ==
  ASSUME NEW m \in Nat, NEW n \in Nat, NEW w \in Nat, m < n
  PROVE  m * w + w <= n * w
<1>1. PICK k \in Nat : n = m + 1 + k
  <2>1. n - m - 1 \in Nat /\ n = m + 1 + (n - m - 1)
    OBVIOUS
  <2> QED
    BY <2>1
<1>2. n * w = m * w + w + k * w
  BY <1>1
<1>3. k * w \in Nat
  BY <1>1
<1> QED
  BY <1>2, <1>3

LEMMA ProductNat ==
  ASSUME NEW m \in Nat, NEW w \in Nat
  PROVE  m * w \in Nat /\ (m + 1) * w = m * w + w
OBVIOUS

LEMMA TableWidth ==
  ASSUME NEW c \in Controllers
  PROVE  Width(c) \in Nat /\ Low[c] \in Int /\ High[c] \in Int
         /\ Low[c] <= High[c]
BY TapAssumption DEF Width

-----------------------------------------------------------------------------
(* The initial states and the steps.                                       *)

LEMMA InitIInv == Init => IInv
<1> SUFFICES ASSUME Init PROVE IInv
  OBVIOUS
<1>1. TypeOK
  <2>1. /\ steps \in [Controllers -> Nat]
        /\ changes \in [Controllers -> Nat]
        /\ direction \in [Controllers -> Directions]
        /\ outcome \in [Controllers -> Outcomes]
        /\ frozen \in [Controllers -> BOOLEAN]
    BY DEF Init, Directions, Outcomes
  <2>2. position \in [Controllers -> Int]
    BY TapAssumption DEF Init
  <2>3. disturbed \in 0..Disturbances
    BY TapAssumption DEF Init
  <2>4. /\ todo \subseteq Controllers /\ queue \subseteq Controllers
        /\ lead \in Controllers \cup {0}
        /\ moved \in BOOLEAN
    BY Zenon DEF Init
  <2>5. /\ measured \in [Quantities -> Measurements]
        /\ sens \in [Controllers -> Sensitivities]
        /\ pc \in {"solve", "check", "group", "rank", "stable", "done"}
        /\ remaining \in Int /\ resolves \in Nat
    BY DEF Init
  <2> QED
    BY <2>1, <2>2, <2>3, <2>4, <2>5 DEF TypeOK
<1>2. WorkInv
  BY DEF Init, WorkInv
<1>3. \A c \in Controllers : StepsInv(c)
  BY TapAssumption, ProductNat, TableWidth DEF Init, StepsInv, Run
<1>4. \A c \in Controllers : DisplacementInv(c)
  BY TapAssumption DEF Init, DisplacementInv, Size
<1> QED
  BY <1>1, <1>2, <1>3, <1>4 DEF IInv

\* A step that leaves a controller's tap and history alone, and does not
\* thaw it, keeps what is known of it.
LEMMA HistoryKept ==
  ASSUME NEW c \in Controllers, StepsInv(c), DisplacementInv(c),
         position'[c] = position[c], steps'[c] = steps[c],
         changes'[c] = changes[c], direction'[c] = direction[c],
         frozen[c] => frozen'[c]
  PROVE  StepsInv(c)' /\ DisplacementInv(c)'
BY DEF StepsInv, Run, DisplacementInv

LEMMA TypeStep == IInv /\ [Next]_vars => TypeOK'
<1> SUFFICES ASSUME IInv, [Next]_vars PROVE TypeOK'
  OBVIOUS
<1> USE TapAssumption DEF IInv, TypeOK, history, physics, locals, run
<1>1. CASE Solve BY <1>1 DEF Solve
<1>2. CASE BeginCheck BY <1>2 DEF BeginCheck, InPlay
<1>3. CASE CheckFailed BY <1>3 DEF CheckFailed
<1>4. ASSUME NEW l \in todo, GroupHeld(l) PROVE TypeOK'
  BY <1>4 DEF GroupHeld, Outcomes
<1>5. ASSUME NEW l \in todo, GroupOut(l) PROVE TypeOK'
  <2>1. l \in Controllers /\ Quantity[l] \in Quantities
    BY DEF Quantities
  <2>2. Missing(l) \in Int
    <3>1. measured[Quantity[l]] \in Int
      BY <2>1
    <3>2. Target[l] \in Int
      BY <2>1
    <3> QED
      BY <3>1, <3>2 DEF Missing
  <2>3. Group(l) \ Deaf(l) \subseteq Controllers
    BY DEF Group
  <2> QED
    BY <1>5, <2>1, <2>2, <2>3 DEF GroupOut, Outcomes
<1>6. ASSUME NEW c \in queue, ServedInReach(c) PROVE TypeOK'
  BY <1>6 DEF ServedInReach, Outcomes
<1>7. ASSUME NEW c \in queue, OffTable(c) PROVE TypeOK'
  BY <1>7 DEF OffTable
<1>8. ASSUME NEW c \in queue, NEW t \in Table(c), StaysPut(c, t)
      PROVE  TypeOK'
  BY <1>8 DEF StaysPut, Outcomes
<1>9. ASSUME NEW c \in queue, NEW t \in Table(c), Hunts(c, t)
      PROVE  TypeOK'
  BY <1>9 DEF Hunts, Outcomes
<1>10. ASSUME NEW c \in queue, NEW t \in Table(c), Moves(c, t)
       PROVE  TypeOK'
  <2>1. c \in Controllers /\ t \in Int /\ position[c] \in Int
    BY DEF Table
  <2>2. Left(c, t) \in Int
    <3>1. position[c] \in Table(c)
      BY <1>10 DEF Moves, Asked, OnTable
    <3>2. Ratio[c][t] \in Int /\ Ratio[c][position[c]] \in Int
      BY <2>1, <3>1
    <3>3. sens[c] \in Int
      BY <2>1
    <3> QED
      BY <3>2, <3>3 DEF Left
  <2>3. Charged(c, t) \in Nat
    BY <2>1 DEF Charged, Size
  <2>4. Way(c, t) \in Directions
    BY DEF Way, Directions
  <2> QED
    BY <1>10, <2>1, <2>2, <2>3, <2>4 DEF Moves
<1>11. CASE EndGroup BY <1>11 DEF EndGroup
<1>12. CASE Unstable BY <1>12 DEF Unstable
<1>13. CASE Stable BY <1>13 DEF Stable
<1>14. CASE Disturbed BY <1>14 DEF Disturbed
<1>15. CASE Accepted BY <1>15 DEF Accepted
<1>16. CASE UNCHANGED vars BY <1>16 DEF vars
<1> QED
  BY <1>1, <1>2, <1>3, <1>4, <1>5, <1>6, <1>7, <1>8, <1>9, <1>10, <1>11,
     <1>12, <1>13, <1>14, <1>15, <1>16 DEF Next

LEMMA WorkStep == IInv /\ [Next]_vars => WorkInv'
<1> SUFFICES ASSUME IInv, [Next]_vars PROVE WorkInv'
  OBVIOUS
<1> USE DEF IInv, WorkInv, history, physics, locals, run
<1>1. CASE Solve BY <1>1 DEF Solve
<1>2. CASE BeginCheck BY <1>2 DEF BeginCheck, InPlay
<1>3. CASE CheckFailed BY <1>3 DEF CheckFailed
<1>4. ASSUME NEW l \in todo, GroupHeld(l) PROVE WorkInv'
  BY <1>4 DEF GroupHeld
<1>5. ASSUME NEW l \in todo, GroupOut(l) PROVE WorkInv'
  <2>1. /\ todo' = todo \ Group(l) /\ queue' = Group(l) \ Deaf(l)
        /\ pc' = "rank"
        /\ frozen' = [c \in Controllers |-> frozen[c] \/ c \in Deaf(l)]
    BY <1>5 DEF GroupOut
  <2>2. Group(l) \subseteq todo /\ Deaf(l) \subseteq Group(l)
        /\ todo \subseteq Controllers
    BY DEF Group, Deaf, TypeOK
  <2>3. \A c \in todo' \cup queue' : ~frozen'[c]
    BY <2>1, <2>2
  <2> QED
    BY <2>1, <2>3
<1>6. ASSUME NEW c \in queue, ServedInReach(c) PROVE WorkInv'
  BY <1>6 DEF ServedInReach
<1>7. ASSUME NEW c \in queue, OffTable(c) PROVE WorkInv'
  BY <1>7 DEF OffTable
<1>8. ASSUME NEW c \in queue, NEW t \in Table(c), StaysPut(c, t)
      PROVE  WorkInv'
  BY <1>8 DEF StaysPut, Asked, TypeOK
<1>9. ASSUME NEW c \in queue, NEW t \in Table(c), Hunts(c, t)
      PROVE  WorkInv'
  BY <1>9 DEF Hunts, Asked, TypeOK
<1>10. ASSUME NEW c \in queue, NEW t \in Table(c), Moves(c, t)
       PROVE  WorkInv'
  BY <1>10 DEF Moves, Asked
<1>11. CASE EndGroup BY <1>11 DEF EndGroup
<1>12. CASE Unstable BY <1>12 DEF Unstable
<1>13. CASE Stable BY <1>13 DEF Stable
<1>14. CASE Disturbed BY <1>14 DEF Disturbed
<1>15. CASE Accepted BY <1>15 DEF Accepted
<1>16. CASE UNCHANGED vars BY <1>16 DEF vars
<1> QED
  BY <1>1, <1>2, <1>3, <1>4, <1>5, <1>6, <1>7, <1>8, <1>9, <1>10, <1>11,
     <1>12, <1>13, <1>14, <1>15, <1>16 DEF Next

\* The move itself.  A move on in the same direction is paid for by the
\* position it reaches; a reversal has a fresh width to spend.
LEMMA MoveStep ==
  ASSUME IInv, NEW c \in Controllers, NEW t \in Table(c), c \in queue,
         Moves(c, t)
  PROVE  StepsInv(c)' /\ DisplacementInv(c)'
<1> DEFINE w == Width(c)
<1>1. /\ w \in Nat /\ w = High[c] - Low[c]
      /\ Low[c] \in Int /\ High[c] \in Int /\ Low[c] <= High[c]
      /\ t \in Int /\ Low[c] <= t /\ t <= High[c]
  BY TableWidth DEF Width, Table
<1>2. /\ position[c] \in Int /\ Low[c] <= position[c]
      /\ position[c] <= High[c]
  BY <1>1 DEF Moves, Asked, OnTable, Table, IInv, TypeOK
<1>3. /\ steps[c] \in Nat /\ changes[c] \in Nat
      /\ direction[c] \in Directions /\ Start[c] \in Int
      /\ MaxDirectionChanges \in Nat
  BY TapAssumption DEF IInv, TypeOK
<1>4. /\ position'[c] = t
      /\ direction'[c] = Way(c, t)
      /\ changes'[c] = IF Reverses(c, t) THEN changes[c] + 1 ELSE changes[c]
      /\ steps'[c] = steps[c] + Charged(c, t)
  BY DEF Moves, IInv, TypeOK
<1>5. StepsInv(c) /\ DisplacementInv(c) /\ ~frozen[c]
  BY DEF IInv, WorkInv
<1>6. changes[c] < MaxDirectionChanges
      /\ steps[c] <= changes[c] * w + Run(c)
  BY <1>3, <1>5 DEF StepsInv
<1>7. changes'[c] < MaxDirectionChanges
  BY <1>3, <1>4, <1>6 DEF Moves, LastReversal
<1>8. changes[c] * w \in Nat /\ (changes[c] + 1) * w = changes[c] * w + w
  BY <1>1, <1>3, ProductNat
<1>9. steps'[c] <= changes'[c] * w + Run(c)'
  <2> HIDE DEF w
  <2>1. CASE t > position[c]
    <3>1. Run(c)' = t - Low[c] /\ Charged(c, t) = t - position[c]
      BY <2>1, <1>1, <1>2, <1>4 DEF Run, Way, Charged, Size
    <3>2. CASE direction[c] = "up"
      <4>1. changes'[c] = changes[c] /\ Run(c) = position[c] - Low[c]
        BY <3>2, <2>1, <1>4 DEF Reverses, Way, Run
      <4> QED
        BY <4>1, <3>1, <1>1, <1>2, <1>3, <1>4, <1>6, <1>8
    <3>3. CASE direction[c] = "down"
      <4>1. changes'[c] = changes[c] + 1 /\ Run(c) = High[c] - position[c]
        BY <3>3, <2>1, <1>4 DEF Reverses, Way, Run
      <4> QED
        BY <4>1, <3>1, <1>1, <1>2, <1>3, <1>4, <1>6, <1>8
    <3>4. CASE direction[c] = "none"
      <4>1. changes'[c] = changes[c] /\ Run(c) = 0
        BY <3>4, <2>1, <1>4 DEF Reverses, Way, Run
      <4> QED
        BY <4>1, <3>1, <1>1, <1>2, <1>3, <1>4, <1>6, <1>8
    <3> QED
      BY <3>2, <3>3, <3>4, <1>3 DEF Directions
  <2>2. CASE ~(t > position[c])
    <3>1. Run(c)' = High[c] - t /\ Charged(c, t) = position[c] - t
      BY <2>2, <1>1, <1>2, <1>4 DEF Run, Way, Charged, Size
    <3>2. CASE direction[c] = "down"
      <4>1. changes'[c] = changes[c] /\ Run(c) = High[c] - position[c]
        BY <3>2, <2>2, <1>4 DEF Reverses, Way, Run
      <4> QED
        BY <4>1, <3>1, <1>1, <1>2, <1>3, <1>4, <1>6, <1>8
    <3>3. CASE direction[c] = "up"
      <4>1. changes'[c] = changes[c] + 1 /\ Run(c) = position[c] - Low[c]
        BY <3>3, <2>2, <1>4 DEF Reverses, Way, Run
      <4> QED
        BY <4>1, <3>1, <1>1, <1>2, <1>3, <1>4, <1>6, <1>8
    <3>4. CASE direction[c] = "none"
      <4>1. changes'[c] = changes[c] /\ Run(c) = 0
        BY <3>4, <2>2, <1>4 DEF Reverses, Way, Run
      <4> QED
        BY <4>1, <3>1, <1>1, <1>2, <1>3, <1>4, <1>6, <1>8
    <3> QED
      BY <3>2, <3>3, <3>4, <1>3 DEF Directions
  <2> QED
    BY <2>1, <2>2
<1>10. StepsInv(c)'
  <2>1. direction'[c] # "none"
    BY <1>4 DEF Way
  <2>2. position'[c] \in Table(c)
    BY <1>4
  <2>3. changes'[c] \in Nat
    BY <1>3, <1>4
  <2> QED
    BY <2>1, <2>2, <2>3, <1>3, <1>7, <1>9 DEF StepsInv
<1>11. DisplacementInv(c)'
  BY <1>1, <1>2, <1>3, <1>4, <1>5 DEF DisplacementInv, Charged, Size
<1> QED
  BY <1>10, <1>11

\* The reversal that is refused: the width it would have spent is charged to
\* the budget, and the controller is frozen.
LEMMA HuntStep ==
  ASSUME IInv, NEW c \in Controllers, NEW t \in Table(c), c \in queue,
         Hunts(c, t)
  PROVE  StepsInv(c)' /\ DisplacementInv(c)'
<1> DEFINE w == Width(c)
<1>1. /\ w \in Nat /\ w = High[c] - Low[c]
      /\ Low[c] \in Int /\ High[c] \in Int /\ Low[c] <= High[c]
  BY TableWidth DEF Width
<1>2. /\ position[c] \in Int /\ Low[c] <= position[c]
      /\ position[c] <= High[c]
  BY <1>1 DEF Hunts, Asked, OnTable, Table, IInv, TypeOK
<1>3. /\ steps[c] \in Nat /\ changes[c] \in Nat
      /\ direction[c] \in Directions
      /\ MaxDirectionChanges \in Nat
  BY TapAssumption DEF IInv, TypeOK
<1>4. /\ position'[c] = position[c] /\ direction'[c] = direction[c]
      /\ steps'[c] = steps[c] /\ changes'[c] = changes[c] + 1
      /\ frozen'[c]
  BY DEF Hunts, IInv, TypeOK
<1>5. StepsInv(c) /\ DisplacementInv(c) /\ ~frozen[c]
  BY DEF IInv, WorkInv
<1>6. /\ changes[c] < MaxDirectionChanges
      /\ steps[c] <= changes[c] * w + Run(c)
  BY <1>3, <1>5 DEF StepsInv
<1>7. changes[c] * w + w <= MaxDirectionChanges * w
  BY <1>1, <1>3, <1>6, OneMoreWidth
<1>8. Run(c) \in Int /\ Run(c) <= w
  BY <1>1, <1>2 DEF Run
<1>9. steps[c] <= MaxDirectionChanges * w
  <2>1. changes[c] * w \in Nat /\ MaxDirectionChanges * w \in Nat
    BY <1>1, <1>3, ProductNat
  <2> HIDE DEF w
  <2> QED
    BY <2>1, <1>1, <1>3, <1>6, <1>7, <1>8
<1>10. changes'[c] >= MaxDirectionChanges
  BY <1>3, <1>4 DEF Hunts, LastReversal
<1>11. direction[c] # "none"
  BY DEF Hunts, LastReversal, Reverses
<1>12. position[c] \in Table(c)
  BY DEF Hunts, Asked, OnTable
<1>13. ~(changes'[c] < MaxDirectionChanges)
  BY <1>10, <1>3, <1>4
<1>14. StepsInv(c)'
  BY <1>4, <1>9, <1>11, <1>12, <1>13 DEF StepsInv
<1>15. DisplacementInv(c)'
  BY <1>4, <1>5 DEF DisplacementInv
<1> QED
  BY <1>14, <1>15

LEMMA HistoryStep ==
  ASSUME IInv, [Next]_vars, NEW c \in Controllers
  PROVE  StepsInv(c)' /\ DisplacementInv(c)'
<1> USE DEF history, physics, locals, run
<1>a. /\ position'[c] = position[c] /\ steps'[c] = steps[c]
      /\ changes'[c] = changes[c] /\ direction'[c] = direction[c]
      /\ frozen[c] => frozen'[c]
      => StepsInv(c)' /\ DisplacementInv(c)'
  BY HistoryKept DEF IInv
<1>b. queue \subseteq Controllers /\ frozen \in [Controllers -> BOOLEAN]
  BY DEF IInv, TypeOK
<1>1. CASE Solve BY <1>1, <1>a DEF Solve
<1>2. CASE BeginCheck BY <1>2, <1>a DEF BeginCheck
<1>3. CASE CheckFailed BY <1>3, <1>a DEF CheckFailed
<1>4. ASSUME NEW l \in todo, GroupHeld(l)
      PROVE  StepsInv(c)' /\ DisplacementInv(c)'
  BY <1>4, <1>a DEF GroupHeld
<1>5. ASSUME NEW l \in todo, GroupOut(l)
      PROVE  StepsInv(c)' /\ DisplacementInv(c)'
  BY <1>5, <1>a DEF GroupOut
<1>6. ASSUME NEW d \in queue, ServedInReach(d)
      PROVE  StepsInv(c)' /\ DisplacementInv(c)'
  BY <1>6, <1>a DEF ServedInReach
<1>7. ASSUME NEW d \in queue, OffTable(d)
      PROVE  StepsInv(c)' /\ DisplacementInv(c)'
  BY <1>7, <1>a DEF OffTable
<1>8. ASSUME NEW d \in queue, NEW t \in Table(d), StaysPut(d, t)
      PROVE  StepsInv(c)' /\ DisplacementInv(c)'
  BY <1>8, <1>a, <1>b DEF StaysPut
<1>9. ASSUME NEW d \in queue, NEW t \in Table(d), Hunts(d, t)
      PROVE  StepsInv(c)' /\ DisplacementInv(c)'
  <2>1. CASE c = d
    BY <2>1, <1>9, HuntStep
  <2>2. CASE c # d
    BY <2>2, <1>9, <1>a, <1>b DEF Hunts, IInv, TypeOK
  <2> QED
    BY <2>1, <2>2
<1>10. ASSUME NEW d \in queue, NEW t \in Table(d), Moves(d, t)
       PROVE  StepsInv(c)' /\ DisplacementInv(c)'
  <2>1. CASE c = d
    BY <2>1, <1>10, MoveStep
  <2>2. CASE c # d
    BY <2>2, <1>10, <1>a, <1>b DEF Moves, IInv, TypeOK
  <2> QED
    BY <2>1, <2>2
<1>11. CASE EndGroup BY <1>11, <1>a DEF EndGroup
<1>12. CASE Unstable BY <1>12, <1>a DEF Unstable
<1>13. CASE Stable BY <1>13, <1>a DEF Stable
<1>14. CASE Disturbed BY <1>14, <1>a DEF Disturbed
<1>15. CASE Accepted BY <1>15, <1>a DEF Accepted
<1>16. CASE UNCHANGED vars BY <1>16, <1>a DEF vars
<1> QED
  BY <1>1, <1>2, <1>3, <1>4, <1>5, <1>6, <1>7, <1>8, <1>9, <1>10, <1>11,
     <1>12, <1>13, <1>14, <1>15, <1>16 DEF Next

\* A controller that gave up keeps its position and what is reported of it.
LEMMA FrozenStep ==
  ASSUME IInv, [Next]_vars, NEW c \in Controllers, frozen[c]
  PROVE  frozen'[c] /\ position'[c] = position[c] /\ outcome'[c] = outcome[c]
<1>a. /\ c \notin todo /\ c \notin queue
      /\ frozen \in [Controllers -> BOOLEAN]
      /\ outcome \in [Controllers -> Outcomes]
      /\ position \in [Controllers -> Int]
  BY DEF IInv, WorkInv, TypeOK
<1>1. ASSUME NEW l \in todo, GroupHeld(l) \/ GroupOut(l)
      PROVE  frozen'[c] /\ position'[c] = position[c] /\ outcome'[c] = outcome[c]
  BY <1>1, <1>a DEF GroupHeld, GroupOut, Group, Deaf
<1>2. ASSUME NEW d \in queue, ServedInReach(d) \/ OffTable(d)
      PROVE  frozen'[c] /\ position'[c] = position[c] /\ outcome'[c] = outcome[c]
  BY <1>2, <1>a DEF ServedInReach, OffTable
<1>3. ASSUME NEW d \in queue, NEW t \in Table(d),
             StaysPut(d, t) \/ Hunts(d, t) \/ Moves(d, t)
      PROVE  frozen'[c] /\ position'[c] = position[c] /\ outcome'[c] = outcome[c]
  BY <1>3, <1>a DEF StaysPut, Hunts, Moves
<1>4. CASE \/ Solve \/ BeginCheck \/ CheckFailed
           \/ EndGroup \/ Unstable \/ Stable \/ Disturbed \/ Accepted
  BY <1>4 DEF Solve, BeginCheck, CheckFailed, EndGroup, Unstable, Stable,
              Disturbed, Accepted, history, physics, locals, run
<1>5. CASE UNCHANGED vars
  BY <1>5 DEF vars
<1> QED
  BY <1>1, <1>2, <1>3, <1>4, <1>5 DEF Next

-----------------------------------------------------------------------------
(* The theorems.                                                           *)

\* The step counts, the displacement and the worklists of a check keep their
\* bounds in every reachable state (TapLoop::move_to).
THEOREM Invariance == Spec => []IInv
<1>1. IInv /\ [Next]_vars => IInv'
  BY TypeStep, WorkStep, HistoryStep DEF IInv
<1> QED
  BY <1>1, InitIInv, PTL DEF Spec

\* Type correctness of the loop and its controllers.
THEOREM TypeCorrect == Spec => []TypeOK
BY Invariance, PTL DEF IInv

LEMMA InvStepsBounded == IInv => StepsBounded
<1> SUFFICES ASSUME IInv, NEW c \in Controllers
             PROVE  steps[c] <= MaxDirectionChanges * Width(c)
  BY DEF StepsBounded
<1> DEFINE w == Width(c)
<1>1. /\ w \in Nat /\ w = High[c] - Low[c]
      /\ Low[c] \in Int /\ High[c] \in Int /\ Low[c] <= High[c]
  BY TableWidth DEF Width
<1>2. /\ steps[c] \in Nat /\ changes[c] \in Nat
      /\ direction[c] \in Directions /\ MaxDirectionChanges \in Nat
      /\ position[c] \in Int
  BY TapAssumption DEF IInv, TypeOK
<1>3. StepsInv(c)
  BY DEF IInv
<1>4. CASE changes[c] >= MaxDirectionChanges
  BY <1>3, <1>4 DEF StepsInv
<1>5. CASE changes[c] < MaxDirectionChanges
  <2>1. Run(c) \in Int /\ Run(c) <= w
    BY <1>1, <1>2, <1>3 DEF StepsInv, Run, Table, Directions
  <2>2. changes[c] * w + w <= MaxDirectionChanges * w
    BY <1>1, <1>2, <1>5, OneMoreWidth
  <2>3. steps[c] <= changes[c] * w + Run(c)
    BY <1>3, <1>5 DEF StepsInv
  <2>4. changes[c] * w \in Nat /\ MaxDirectionChanges * w \in Nat
    BY <1>1, <1>2, ProductNat
  <2> HIDE DEF w
  <2>5. steps[c] <= MaxDirectionChanges * w
    BY <1>1, <1>2, <2>1, <2>2, <2>3, <2>4
  <2> QED
    BY <2>5 DEF w
<1> QED
  BY <1>2, <1>4, <1>5

\* The direction budget bounds the steps of every controller, for every
\* table and whatever the solves answer.
THEOREM StepsAreBounded == Spec => []StepsBounded
BY InvStepsBounded, Invariance, PTL

\* The steps a report charges cover the distance from the first position.
THEOREM DisplacementIsCovered == Spec => []StepsCoverDisplacement
<1>1. IInv => StepsCoverDisplacement
  BY DEF IInv, DisplacementInv, StepsCoverDisplacement
<1> QED
  BY <1>1, Invariance, PTL

\* A frozen controller is never moved, relabelled or thawed.
THEOREM GivingUpIsFinal == Spec => FrozenIsFinal
<1>1. IInv /\ [Next]_vars =>
        [\A c \in Controllers : frozen[c] =>
          frozen'[c] /\ position'[c] = position[c] /\ outcome'[c] = outcome[c]]_vars
  BY FrozenStep
<1> QED
  BY <1>1, Invariance, PTL DEF Spec, FrozenIsFinal
-----------------------------------------------------------------------------
(* What a check leaves behind: every controller accounted for, and every    *)
(* limit reported a real one.                                               *)

\* A controller is at an end of what its table can produce.
Extreme(c) ==
  \/ \A p \in Table(c) : Ratio[c][p] <= Ratio[c][position[c]]
  \/ \A p \in Table(c) : Ratio[c][p] >= Ratio[c][position[c]]

LimitInv(c) == outcome[c] = "AtLimit" => frozen[c] /\ Extreme(c)

\* The controllers a check still has to look at.
Pending == todo \cup queue

\* One that was served, with the one whose measurement said so.  That one has
\* been dealt with too, so it will not be frozen later in the same check.
Served(c) ==
  /\ outcome[c] = "InDeadband" /\ c \notin Pending
  /\ \E d \in Controllers :
       /\ ~frozen[d] /\ d \notin Pending /\ Quantity[d] = Quantity[c]
       /\ Size(Target[d] - measured[Quantity[d]]) <= Half[d]

Accounted(c) ==
  frozen[c] \/ c \in Pending \/ Served(c) \/ position[c] \notin Table(c)

\* Until something has moved, what is missing is what was measured, and that
\* is more than the deadband: nobody in the queue can be within reach.
RankInv ==
  /\ lead \in Controllers
  /\ \A c \in queue : sens[c] # 0
  /\ moved \/ (remaining = Missing(lead) /\ Size(Missing(lead)) > Half[lead])

CheckInv ==
  /\ pc = "rank" => RankInv
  /\ pc = "stable" => ~moved
  /\ pc \in {"group", "rank", "stable"} =>
       moved \/ \A c \in Controllers : Accounted(c)

\* Who gave up says why.
ReasonInv == \A c \in Controllers : frozen[c] => outcome[c] \in GivenUp

OutcomeInv == IInv /\ CheckInv /\ ReasonInv /\ \A c \in Controllers : LimitInv(c)

\* The caps of a move never turn one into none: a controller asked for the
\* position it has is at the position of its table nearest to what is missing.
LEMMA PutIsNearest ==
  ASSUME TypeOK, NEW c \in Controllers, Asked(c, position[c])
  PROVE  position[c] \in Table(c) /\ IsNearest(c, position[c])
<1>1. PICK p \in Table(c) : IsNearest(c, p) /\ position[c] = Capped(c, p)
  BY DEF Asked
<1>2. /\ position[c] \in Table(c) /\ position[c] \in Int /\ p \in Int
      /\ Low[c] \in Int /\ High[c] \in Int /\ MaxTapShift \in Nat /\ MaxTapShift > 0
  BY TapAssumption DEF Asked, OnTable, Table
<1>3. Low[c] <= p /\ p <= High[c] /\ Low[c] <= position[c] /\ position[c] <= High[c]
  BY <1>2 DEF Table
<1>4. p = position[c]
  BY <1>1, <1>2, <1>3 DEF Capped, Clamp
<1> QED
  BY <1>1, <1>2, <1>4

\* If even the nearest entry of the table leaves something, and every entry
\* leaves something on the same side, the nearest is an end of the table.
LEMMA SaturatedIsExtreme ==
  ASSUME TypeOK, NEW c \in Controllers, Asked(c, position[c]), Saturated(c), sens[c] # 0
  PROVE  Extreme(c)
<1> DEFINE r == Ratio[c][position[c]]
<1>1. position[c] \in Table(c) /\ IsNearest(c, position[c])
  BY PutIsNearest
<1>2. sens[c] \in Int /\ remaining \in Int /\ r \in Int
  BY <1>1, TapAssumption DEF TypeOK
<1>3. ASSUME NEW q \in Table(c)
      PROVE  /\ Ratio[c][q] \in Int
             /\ Left(c, q) = remaining - sens[c] * (Ratio[c][q] - r)
             /\ Left(c, q) \in Int
  BY <1>2, TapAssumption DEF Left
<1>4. Left(c, position[c]) = remaining
  BY <1>1, <1>2 DEF Left
<1>5. ASSUME NEW q \in Table(c) PROVE Size(remaining) <= Size(Left(c, q))
  BY <1>1, <1>2, <1>3, <1>4 DEF IsNearest, Size
<1>6. \/ \A q \in Table(c) : sens[c] * (Ratio[c][q] - r) <= 0
      \/ \A q \in Table(c) : sens[c] * (Ratio[c][q] - r) >= 0
  <2>1. CASE \A p \in Table(c) : Left(c, p) > 0
    <3> SUFFICES ASSUME NEW q \in Table(c) PROVE sens[c] * (Ratio[c][q] - r) <= 0
      OBVIOUS
    <3>1. remaining > 0 /\ Left(c, q) > 0
      BY <1>1, <1>4, <2>1
    <3>2. remaining <= Left(c, q)
      BY <1>2, <1>3, <1>5, <3>1 DEF Size
    <3> DEFINE e == sens[c] * (Ratio[c][q] - r)
    <3>3. e \in Int /\ Left(c, q) = remaining - e
      BY <1>2, <1>3
    <3> HIDE DEF e
    <3>4. e <= 0
      BY <1>2, <3>2, <3>3
    <3> QED
      BY <3>4 DEF e
  <2>2. CASE \A p \in Table(c) : Left(c, p) < 0
    <3> SUFFICES ASSUME NEW q \in Table(c) PROVE sens[c] * (Ratio[c][q] - r) >= 0
      OBVIOUS
    <3>1. remaining < 0 /\ Left(c, q) < 0
      BY <1>1, <1>4, <2>2
    <3>2. remaining >= Left(c, q)
      BY <1>2, <1>3, <1>5, <3>1 DEF Size
    <3> DEFINE e == sens[c] * (Ratio[c][q] - r)
    <3>3. e \in Int /\ Left(c, q) = remaining - e
      BY <1>2, <1>3
    <3> HIDE DEF e
    <3>4. e >= 0
      BY <1>2, <3>2, <3>3
    <3> QED
      BY <3>4 DEF e
  <2> QED
    BY <2>1, <2>2 DEF Saturated
<1>7. ASSUME NEW q \in Table(c)
      PROVE  /\ sens[c] > 0 /\ sens[c] * (Ratio[c][q] - r) <= 0 => Ratio[c][q] <= r
             /\ sens[c] > 0 /\ sens[c] * (Ratio[c][q] - r) >= 0 => Ratio[c][q] >= r
             /\ sens[c] < 0 /\ sens[c] * (Ratio[c][q] - r) <= 0 => Ratio[c][q] >= r
             /\ sens[c] < 0 /\ sens[c] * (Ratio[c][q] - r) >= 0 => Ratio[c][q] <= r
  <2> DEFINE s == sens[c]
             d == Ratio[c][q] - r
  <2>1. s \in Int /\ d \in Int /\ Ratio[c][q] \in Int /\ r \in Int /\ Ratio[c][q] = r + d
    BY <1>2, <1>3
  <2>2. /\ s > 0 /\ s * d <= 0 => d <= 0
        /\ s > 0 /\ s * d >= 0 => d >= 0
        /\ s < 0 /\ s * d <= 0 => d >= 0
        /\ s < 0 /\ s * d >= 0 => d <= 0
    <3> HIDE DEF s, d
    <3> QED
      BY <2>1
  <2> QED
    BY <2>1, <2>2
<1>8. sens[c] > 0 \/ sens[c] < 0
  BY <1>2
<1> QED
  BY <1>6, <1>7, <1>8 DEF Extreme

LEMMA LimitStep ==
  ASSUME IInv, [Next]_vars, pc = "rank" => RankInv, NEW c \in Controllers, LimitInv(c)
  PROVE  LimitInv(c)'
<1>1. CASE frozen[c]
  <2>1. frozen'[c] /\ position'[c] = position[c] /\ outcome'[c] = outcome[c]
    BY <1>1, FrozenStep
  <2>2. Extreme(c)' <=> Extreme(c)
    BY <2>1 DEF Extreme, Table
  <2> QED
    BY <2>1, <2>2 DEF LimitInv
<1>2. CASE ~frozen[c]
  <2>a. outcome[c] # "AtLimit" /\ outcome \in [Controllers -> Outcomes]
        /\ frozen \in [Controllers -> BOOLEAN] /\ queue \subseteq Controllers
    BY <1>2 DEF LimitInv, IInv, TypeOK
  <2>1. ASSUME NEW l \in todo, GroupHeld(l) \/ GroupOut(l) PROVE outcome'[c] # "AtLimit"
    BY <2>1, <2>a DEF GroupHeld, GroupOut
  <2>2. ASSUME NEW d \in queue, ServedInReach(d) \/ OffTable(d) PROVE outcome'[c] # "AtLimit"
    BY <2>2, <2>a DEF ServedInReach, OffTable
  <2>3. ASSUME NEW d \in queue, NEW t \in Table(d), Hunts(d, t) \/ Moves(d, t)
        PROVE  outcome'[c] # "AtLimit"
    BY <2>3, <2>a DEF Hunts, Moves
  <2>4. ASSUME NEW d \in queue, NEW t \in Table(d), StaysPut(d, t), d # c
        PROVE  outcome'[c] # "AtLimit"
    BY <2>4, <2>a DEF StaysPut
  <2>5. ASSUME c \in queue, NEW t \in Table(c), StaysPut(c, t), outcome'[c] = "AtLimit"
        PROVE  frozen'[c] /\ Extreme(c)'
    <3>1. Asked(c, position[c]) /\ pc = "rank" /\ position' = position /\ frozen'[c]
      BY <2>5, <2>a DEF StaysPut, Asked
    <3>2. Saturated(c)
      BY <2>5, <2>a DEF StaysPut
    <3>3. sens[c] # 0
      BY <2>5, <3>1 DEF RankInv
    <3>4. Extreme(c)
      BY <3>1, <3>2, <3>3, SaturatedIsExtreme DEF IInv
    <3> QED
      BY <3>1, <3>4 DEF Extreme, Table
  <2>6. CASE \/ Solve \/ BeginCheck \/ CheckFailed
             \/ EndGroup \/ Unstable \/ Stable \/ Disturbed \/ Accepted
    BY <2>6, <2>a DEF Solve, BeginCheck, CheckFailed, EndGroup, Unstable, Stable,
                Disturbed, Accepted, LimitInv
  <2>7. CASE UNCHANGED vars
    BY <2>7, <2>a DEF vars, LimitInv
  <2> QED
    BY <2>1, <2>2, <2>3, <2>4, <2>5, <2>6, <2>7 DEF Next, LimitInv
<1> QED
  BY <1>1, <1>2 DEF IInv, TypeOK

\* Every step that freezes a controller reports the reason.
LEMMA ReasonStep ==
  ASSUME IInv, ReasonInv, [Next]_vars
  PROVE  ReasonInv'
<1> SUFFICES ASSUME NEW c \in Controllers, frozen'[c] PROVE outcome'[c] \in GivenUp
  BY DEF ReasonInv
<1>1. CASE frozen[c]
  BY <1>1, FrozenStep DEF ReasonInv
<1>2. CASE ~frozen[c]
  <2>a. /\ outcome \in [Controllers -> Outcomes] /\ frozen \in [Controllers -> BOOLEAN]
        /\ queue \subseteq Controllers
    BY DEF IInv, TypeOK
  <2>1. ASSUME NEW l \in todo, GroupHeld(l) \/ GroupOut(l) PROVE outcome'[c] \in GivenUp
    BY <2>1, <2>a, <1>2 DEF GroupHeld, GroupOut, GivenUp
  <2>2. ASSUME NEW d \in queue, NEW t \in Table(d), StaysPut(d, t) \/ Hunts(d, t)
        PROVE  outcome'[c] \in GivenUp
    BY <2>2, <2>a, <1>2 DEF StaysPut, Hunts, GivenUp
  <2>3. ASSUME NEW d \in queue,
               ServedInReach(d) \/ OffTable(d) \/ \E t \in Table(d) : Moves(d, t)
        PROVE  FALSE
    BY <2>3, <1>2 DEF ServedInReach, OffTable, Moves
  <2>4. CASE \/ Solve \/ BeginCheck \/ CheckFailed \/ EndGroup \/ Unstable \/ Stable
             \/ Disturbed \/ Accepted \/ UNCHANGED vars
    BY <2>4, <1>2 DEF Solve, BeginCheck, CheckFailed, EndGroup, Unstable, Stable,
                Disturbed, Accepted, vars
  <2> QED
    BY <2>1, <2>2, <2>3, <2>4 DEF Next
<1> QED
  BY <1>1, <1>2

\* A controller that is accounted for and not at work in this step stays so.
LEMMA AccountedKept ==
  ASSUME NEW c \in Controllers, Accounted(c), c \notin Pending,
         measured' = measured, Pending' \subseteq Pending,
         \A d \in Controllers \ Pending :
           frozen'[d] = frozen[d] /\ position'[d] = position[d] /\ outcome'[d] = outcome[d]
  PROVE  Accounted(c)'
<1>1. c \notin Pending'
  BY DEF Pending
<1>2. ASSUME Served(c) PROVE Served(c)'
  <2>1. PICK d \in Controllers :
          /\ ~frozen[d] /\ d \notin Pending /\ Quantity[d] = Quantity[c]
          /\ Size(Target[d] - measured[Quantity[d]]) <= Half[d]
    BY <1>2 DEF Served
  <2>2. ~frozen'[d] /\ d \notin Pending'
    BY <2>1
  <2>3. outcome'[c] = "InDeadband"
    BY <1>2 DEF Served
  <2> QED
    BY <1>1, <2>1, <2>2, <2>3 DEF Served, Size
<1> QED
  BY <1>2 DEF Accounted, Table

\* The steps of a check that look at no controller.
LEMMA CheckInvIdle ==
  ASSUME OutcomeInv,
         \/ Solve \/ BeginCheck \/ CheckFailed
         \/ EndGroup \/ Unstable \/ Stable \/ Disturbed \/ Accepted \/ UNCHANGED vars
  PROVE  CheckInv'
<1> USE DEF OutcomeInv, CheckInv, history, physics, locals, run
<1>1. CASE Solve \/ CheckFailed \/ Unstable \/ Disturbed \/ Accepted
  BY <1>1 DEF Solve, CheckFailed, Unstable, Disturbed, Accepted
<1>2. CASE BeginCheck
  BY <1>2 DEF BeginCheck, InPlay, Accounted, Pending
<1>3. CASE EndGroup \/ Stable \/ UNCHANGED vars
  <2>1. UNCHANGED <<position, outcome, frozen, measured, sens, todo, queue, lead,
                    remaining, moved>>
    BY <1>3 DEF EndGroup, Stable, vars
  <2>2. RankInv' = RankInv
    BY <2>1 DEF RankInv, Missing, Size
  <2>3. \A c \in Controllers : Accounted(c)' = Accounted(c)
    BY <2>1 DEF Accounted, Served, Pending, Table, Size
  <2> QED
    BY <1>3, <2>1, <2>2, <2>3 DEF EndGroup, Stable, vars
<1> QED
  BY <1>1, <1>2, <1>3

\* A group whose quantity is in the deadband is served by its leader.
LEMMA CheckInvHeld ==
  ASSUME OutcomeInv, NEW l \in todo, GroupHeld(l)
  PROVE  CheckInv'
<1>1. /\ pc = "group" /\ pc' = "group" /\ moved' = moved /\ l \in Controllers
      /\ todo' = todo \ Group(l) /\ queue' = queue /\ queue = {}
      /\ frozen' = frozen /\ position' = position /\ measured' = measured
      /\ Size(Missing(l)) <= Half[l] /\ ~frozen[l]
      /\ outcome' = [c \in Controllers |-> IF c \in Group(l) THEN "InDeadband" ELSE outcome[c]]
  BY DEF GroupHeld, OutcomeInv, IInv, WorkInv, TypeOK, physics
<1>2. ASSUME NEW c \in Controllers, Accounted(c) PROVE Accounted(c)'
  <2>1. CASE c \in Group(l)
    <3>1. Quantity[l] = Quantity[c] /\ l \notin Pending' /\ c \notin Pending'
      BY <1>1, <2>1 DEF Group, Pending
    <3>2. Size(Target[l] - measured'[Quantity[l]]) <= Half[l]
      BY <1>1 DEF Missing
    <3> QED
      BY <1>1, <2>1, <3>1, <3>2 DEF Accounted, Served, Size
  <2>2. CASE c \in Pending /\ c \notin Group(l)
    BY <1>1, <2>2 DEF Accounted, Pending
  <2>3. CASE c \notin Pending
    BY <1>1, <1>2, <2>3, AccountedKept DEF Pending, Group
  <2> QED
    BY <2>1, <2>2, <2>3
<1> QED
  BY <1>1, <1>2 DEF OutcomeInv, CheckInv

\* A group that is out loses its deaf members, and the rest is ranked.
LEMMA CheckInvOut ==
  ASSUME OutcomeInv, NEW l \in todo, GroupOut(l)
  PROVE  CheckInv'
<1>1. /\ pc = "group" /\ pc' = "rank" /\ moved' = moved /\ l \in Controllers
      /\ todo' = todo \ Group(l) /\ queue' = Group(l) \ Deaf(l) /\ queue = {}
      /\ position' = position /\ measured' = measured /\ sens' = sens
      /\ lead' = l /\ remaining' = Missing(l) /\ Size(Missing(l)) > Half[l]
      /\ outcome' = [c \in Controllers |-> IF c \in Deaf(l) THEN "Insensitive" ELSE outcome[c]]
      /\ frozen' = [c \in Controllers |-> frozen[c] \/ c \in Deaf(l)]
  BY DEF GroupOut, OutcomeInv, IInv, WorkInv, TypeOK, physics
<1>2. RankInv'
  <2>1. Missing(lead)' = Missing(l)
    BY <1>1 DEF Missing
  <2>2. \A c \in queue' : sens'[c] # 0
    BY <1>1 DEF Deaf
  <2> QED
    BY <1>1, <2>1, <2>2 DEF RankInv, Size
<1>3. ASSUME NEW c \in Controllers, Accounted(c) PROVE Accounted(c)'
  <2>1. CASE c \in Deaf(l)
    BY <1>1, <2>1 DEF Accounted
  <2>2. CASE c \in Pending /\ c \notin Deaf(l)
    BY <1>1, <2>2 DEF Accounted, Pending
  <2>3. CASE c \notin Pending
    <3>1. Pending' \subseteq Pending /\ Deaf(l) \subseteq Pending
      BY <1>1 DEF Pending, Group, Deaf
    <3>2. \A d \in Controllers \ Pending :
            frozen'[d] = frozen[d] /\ position'[d] = position[d] /\ outcome'[d] = outcome[d]
      BY <1>1, <3>1 DEF OutcomeInv, IInv, TypeOK
    <3> QED
      BY <1>1, <1>3, <2>3, <3>1, <3>2, AccountedKept
  <2> QED
    BY <2>1, <2>2, <2>3
<1> QED
  BY <1>1, <1>2, <1>3 DEF OutcomeInv, CheckInv

\* One controller of the queue.
LEMMA CheckInvRank ==
  ASSUME OutcomeInv, NEW c \in queue,
         \/ ServedInReach(c) \/ OffTable(c)
         \/ \E t \in Table(c) : StaysPut(c, t) \/ Hunts(c, t) \/ Moves(c, t)
  PROVE  CheckInv'
<1> DEFINE puts == \E t \in Table(c) : StaysPut(c, t) \/ Hunts(c, t)
           moves == \E t \in Table(c) : Moves(c, t)
<1>1. /\ pc = "rank" /\ pc' = "rank" /\ c \in Controllers /\ RankInv
      /\ todo' = todo /\ queue' = queue \ {c} /\ lead' = lead
      /\ measured' = measured /\ sens' = sens
  BY DEF OutcomeInv, CheckInv, IInv, TypeOK, ServedInReach, OffTable, StaysPut, Hunts, Moves,
         Asked, physics
<1>2. Missing(lead)' = Missing(lead)
  BY <1>1 DEF Missing
<1>3. CASE moves
  BY <1>1, <1>3 DEF Moves, CheckInv, RankInv
<1>4. ServedInReach(c) => moved
  <2>1. remaining \in Int /\ Half[lead] \in Nat
    BY <1>1, TapAssumption DEF RankInv, OutcomeInv, IInv, TypeOK
  <2>2. Size(remaining) \in Int
    BY <2>1 DEF Size
  <2>3. ServedInReach(c) => Size(remaining) <= Half[lead]
    BY DEF ServedInReach, WithinReach
  <2>4. moved \/ Size(remaining) > Half[lead]
    BY <1>1 DEF RankInv
  <2> QED
    BY <2>1, <2>2, <2>3, <2>4
<1>5. CASE ServedInReach(c)
  <2>1. moved /\ moved' = moved
    BY <1>4, <1>5 DEF ServedInReach
  <2> QED
    BY <1>1, <2>1 DEF CheckInv, RankInv
<1>6. CASE OffTable(c) \/ puts
  <2>1. /\ moved' = moved /\ remaining' = remaining /\ position' = position
        /\ \A d \in Controllers \ Pending : frozen'[d] = frozen[d] /\ outcome'[d] = outcome[d]
        /\ frozen'[c] \/ position[c] \notin Table(c)
    BY <1>1, <1>6 DEF OffTable, OnTable, StaysPut, Hunts, Pending, OutcomeInv, IInv, TypeOK
  <2>2. RankInv'
    BY <1>1, <1>2, <2>1 DEF RankInv, Size
  <2>3. ASSUME NEW d \in Controllers, Accounted(d) PROVE Accounted(d)'
    <3>1. CASE d = c
      BY <2>1, <3>1 DEF Accounted, Table
    <3>2. CASE d \in Pending /\ d # c
      BY <1>1, <3>2 DEF Accounted, Pending
    <3>3. CASE d \notin Pending
      BY <1>1, <2>1, <2>3, <3>3, AccountedKept DEF Pending
    <3> QED
      BY <3>1, <3>2, <3>3
  <2> QED
    BY <1>1, <2>1, <2>2, <2>3 DEF OutcomeInv, CheckInv
<1> QED
  BY <1>3, <1>5, <1>6

\* What a check has said of a controller so far matches where the controller
\* stands (TapLoop::check, step_group).
THEOREM OutcomeInvariance == Spec => []OutcomeInv
<1>1. Init => OutcomeInv
  BY InitIInv DEF Init, OutcomeInv, CheckInv, ReasonInv, LimitInv
<1>2. OutcomeInv /\ [Next]_vars => OutcomeInv'
  <2> SUFFICES ASSUME OutcomeInv, [Next]_vars PROVE OutcomeInv'
    OBVIOUS
  <2>1. IInv'
    BY TypeStep, WorkStep, HistoryStep DEF OutcomeInv, IInv
  <2>2. CheckInv'
    BY CheckInvIdle, CheckInvHeld, CheckInvOut, CheckInvRank DEF Next
  <2>3. \A c \in Controllers : LimitInv(c)'
    BY LimitStep DEF OutcomeInv, CheckInv
  <2>4. ReasonInv'
    BY ReasonStep DEF OutcomeInv
  <2> QED
    BY <2>1, <2>2, <2>3, <2>4 DEF OutcomeInv
<1> QED
  BY <1>1, <1>2, PTL DEF Spec

\* A check that answers Stable has, of every controller whose position its table
\* has, measured the quantity inside the deadband and says so, or it has given up
\* on it and says why.  Of a controller off its table it claims nothing.
THEOREM StableIsSettled == Spec => []StableMeansSettled
<1>1. OutcomeInv => StableMeansSettled
  <2> SUFFICES ASSUME OutcomeInv, pc = "stable", NEW c \in Controllers, OnTable(c)
               PROVE  \/ frozen[c] /\ outcome[c] \in GivenUp
                      \/ outcome[c] = "InDeadband" /\ Held(c)
    BY DEF StableMeansSettled
  <2>1. Accounted(c) /\ Pending = {}
    BY DEF OutcomeInv, CheckInv, IInv, WorkInv, Pending
  <2>2. frozen[c] => outcome[c] \in GivenUp
    BY DEF OutcomeInv, ReasonInv
  <2> QED
    BY <2>1, <2>2 DEF Accounted, Served, OnTable, Held
<1> QED
  BY <1>1, OutcomeInvariance, PTL

\* Every limit reported is an end of the controller's table.
THEOREM LimitsAreReal == Spec => []AtLimitIsExtreme
<1>1. OutcomeInv => AtLimitIsExtreme
  BY DEF OutcomeInv, LimitInv, Extreme, AtLimitIsExtreme
<1> QED
  BY <1>1, OutcomeInvariance, PTL
-----------------------------------------------------------------------------
(* The loop ends on its own.                                               *)

\* Every step the direction budget can ever grant, one pair each; a controller
\* imported off its table is never granted one.
Grantable ==
  UNION {{c} \X (1..(MaxDirectionChanges * Width(c))) :
           c \in {d \in Controllers : Start[d] \in Table(d)}}

\* Those that have been used.
Used == {x \in Grantable : x[2] <= steps[x[1]]}

\* A re-solve is paid for by a step of this loop or a move of another.
PaidFor(spent) == spent <= Cardinality(Used) + disturbed

BudgetInv ==
  /\ \A c \in Controllers : direction[c] # "none" => Start[c] \in Table(c)
  /\ PaidFor(resolves)
  /\ pc \in {"group", "rank"} /\ moved => PaidFor(resolves + 1)

LEMMA GrantableFinite == IsFiniteSet(Grantable)
<1> DEFINE D == {d \in Controllers : Start[d] \in Table(d)}
           part(c) == {c} \X (1..(MaxDirectionChanges * Width(c)))
           f == [c \in D |-> part(c)]
           T == {part(c) : c \in D}
<1>1. IsFiniteSet(D)
  <2>1. IsFiniteSet(Controllers)
    BY FS_Interval, TapAssumption DEF Controllers
  <2> QED
    BY <2>1, FS_Subset
<1>2. f \in Surjection(D, T)
  BY DEF Surjection
<1>3. IsFiniteSet(T)
  <2> HIDE DEF f, T, D
  <2> QED
    BY <1>1, <1>2, FS_Surjection
<1>4. ASSUME NEW c \in D PROVE IsFiniteSet(part(c))
  <2>1. MaxDirectionChanges * Width(c) \in Int
    BY TapAssumption, TableWidth, ProductNat
  <2>2. IsFiniteSet(1..(MaxDirectionChanges * Width(c)))
    BY <2>1, FS_Interval
  <2>3. IsFiniteSet({c})
    BY FS_Singleton
  <2> QED
    BY <2>2, <2>3, FS_Product
<1>5. \A t \in T : IsFiniteSet(t)
  BY <1>4
<1> HIDE DEF T
<1>6. IsFiniteSet(UNION T)
  BY <1>3, <1>5, FS_UNION
<1> QED
  BY <1>6 DEF T, Grantable

LEMMA UsedFinite == IsFiniteSet(Used) /\ Cardinality(Used) \in Nat
                    /\ Cardinality(Used) <= Cardinality(Grantable)
<1>1. Used \in SUBSET Grantable
  BY DEF Used
<1> QED
  BY <1>1, GrantableFinite, FS_Subset, FS_CardinalityType

\* A move uses a step that was not used before, and frees none.
LEMMA MoveUses ==
  ASSUME IInv, IInv', NEW c \in Controllers, NEW t \in Table(c), Moves(c, t),
         direction[c] # "none" => Start[c] \in Table(c)
  PROVE  /\ Start[c] \in Table(c)
         /\ Cardinality(Used') >= Cardinality(Used) + 1
<1>1. /\ position[c] \in Table(c) /\ t # position[c] /\ t \in Int /\ position[c] \in Int
      /\ steps' = [steps EXCEPT ![c] = @ + Charged(c, t)]
      /\ steps \in [Controllers -> Nat]
  BY DEF Moves, Asked, OnTable, IInv, TypeOK, Table
<1>2. Start[c] \in Table(c)
  BY <1>1 DEF IInv, StepsInv
<1>3. Charged(c, t) \in Nat /\ Charged(c, t) > 0
  BY <1>1 DEF Charged, Size
<1>4. steps'[c] \in Nat /\ steps'[c] > steps[c]
  BY <1>1, <1>3
<1>5. steps'[c] <= MaxDirectionChanges * Width(c)
  <2>1. StepsBounded'
    BY InvStepsBounded, PTL
  <2> QED
    BY <2>1 DEF StepsBounded, Width
<1>6. /\ MaxDirectionChanges * Width(c) \in Nat /\ steps[c] \in Nat
  BY <1>1, TapAssumption, TableWidth, ProductNat
<1> DEFINE x == <<c, steps'[c]>>
<1>7. x \in Grantable
  <2>1. x \in {c} \X (1..(MaxDirectionChanges * Width(c)))
    BY <1>4, <1>5, <1>6
  <2> QED
    BY <1>2, <2>1 DEF Grantable
<1>8. x \in Used' /\ x \notin Used
  BY <1>4, <1>6, <1>7 DEF Used
<1>9. Used \subseteq Used'
  <2> SUFFICES ASSUME NEW y \in Grantable, y[2] <= steps[y[1]] PROVE y[2] <= steps'[y[1]]
    BY DEF Used
  <2>1. PICK d \in Controllers : y \in {d} \X (1..(MaxDirectionChanges * Width(d)))
    BY DEF Grantable
  <2>2. y[1] \in Controllers /\ y[2] \in Int
    BY <2>1
  <2>3. steps'[y[1]] >= steps[y[1]]
    BY <1>1, <1>4, <2>2
  <2> QED
    BY <1>1, <1>4, <2>2, <2>3
<1>10. IsFiniteSet(Used') /\ Used' \subseteq Grantable
  BY GrantableFinite, FS_Subset DEF Used
<1>11. Cardinality(Used \cup {x}) = Cardinality(Used) + 1
  BY <1>8, UsedFinite, FS_AddElement
<1>12. Cardinality(Used \cup {x}) <= Cardinality(Used')
  <2>1. Used \cup {x} \in SUBSET Used'
    BY <1>8, <1>9
  <2> QED
    BY <2>1, <1>10, FS_Subset
<1> QED
  BY <1>2, <1>11, <1>12, <1>10, UsedFinite, FS_CardinalityType

LEMMA BudgetStep == IInv /\ IInv' /\ BudgetInv /\ [Next]_vars => BudgetInv'
<1> SUFFICES ASSUME IInv, IInv', BudgetInv, [Next]_vars PROVE BudgetInv'
  OBVIOUS
<1>a. /\ resolves \in Nat /\ disturbed \in Nat /\ Cardinality(Used) \in Nat
      /\ queue \subseteq Controllers
  BY UsedFinite, TapAssumption DEF IInv, TypeOK
<1>1. ASSUME steps' = steps PROVE Used' = Used
  BY <1>1 DEF Used
<1>2. ASSUME NEW c \in queue, NEW t \in Table(c), Moves(c, t) PROVE BudgetInv'
  <2>1. /\ Start[c] \in Table(c) /\ Cardinality(Used') >= Cardinality(Used) + 1
        /\ c \in Controllers
    BY <1>2, <1>a, MoveUses DEF BudgetInv
  <2>2. Cardinality(Used') \in Nat
    BY GrantableFinite, FS_Subset, FS_CardinalityType DEF Used
  <2>3. resolves' = resolves /\ disturbed' = disturbed
        /\ direction' = [direction EXCEPT ![c] = Way(c, t)]
    BY <1>2 DEF Moves, run
  <2>4. PaidFor(resolves + 1)' /\ PaidFor(resolves)'
    BY <1>a, <2>1, <2>2, <2>3 DEF BudgetInv, PaidFor
  <2> QED
    BY <2>1, <2>3, <2>4 DEF BudgetInv, Table, IInv, TypeOK
<1>3. CASE \/ Solve \/ BeginCheck \/ CheckFailed \/ EndGroup \/ Accepted \/ Stable
           \/ UNCHANGED vars
           \/ \E l \in todo : GroupHeld(l) \/ GroupOut(l)
           \/ \E c \in queue : \/ ServedInReach(c) \/ OffTable(c)
                               \/ \E t \in Table(c) : StaysPut(c, t) \/ Hunts(c, t)
  <2>1. /\ steps' = steps /\ direction' = direction /\ resolves' = resolves
        /\ disturbed' = disturbed
    BY <1>3 DEF Solve, BeginCheck, CheckFailed, EndGroup, Accepted, Stable, vars, GroupHeld,
       GroupOut, ServedInReach, OffTable, StaysPut, Hunts, history, run
  <2>2. pc' \in {"group", "rank"} /\ moved' => pc \in {"group", "rank"} /\ moved
    BY <1>3 DEF Solve, BeginCheck, CheckFailed, EndGroup, Accepted, Stable, vars, GroupHeld,
       GroupOut, ServedInReach, OffTable, StaysPut, Hunts, Asked, locals
  <2>3. Used' = Used
    BY <1>1, <2>1
  <2> QED
    BY <2>1, <2>2, <2>3 DEF BudgetInv, PaidFor, Table
<1>4. CASE Unstable
  <2>1. Used' = Used /\ direction' = direction /\ disturbed' = disturbed
        /\ resolves' = resolves + 1 /\ pc' = "solve"
    BY <1>1, <1>4 DEF Unstable, history
  <2>2. PaidFor(resolves + 1)
    BY <1>4 DEF Unstable, BudgetInv
  <2> QED
    BY <2>1, <2>2 DEF BudgetInv, PaidFor, Table
<1>5. CASE Disturbed
  <2>1. Used' = Used /\ direction' = direction /\ disturbed' = disturbed + 1
        /\ resolves' = resolves + 1 /\ pc' = "solve"
    BY <1>1, <1>5 DEF Disturbed, history
  <2> QED
    BY <1>a, <2>1 DEF BudgetInv, PaidFor, Table
<1> QED
  BY <1>2, <1>3, <1>4, <1>5 DEF Next

\* With a re-solve in the budget for every step the tables can grant and every
\* move of the other loops, and one more, the loop ends before the budget does.
THEOREM EndsOnItsOwn ==
  ASSUME Cardinality(Grantable) + Disturbances < Budget
  PROVE  Spec => []EndsWithinBudget
<1>1. Init => BudgetInv
  BY UsedFinite DEF Init, BudgetInv, PaidFor
<1>2. IInv /\ BudgetInv => EndsWithinBudget
  <2> SUFFICES ASSUME IInv, BudgetInv PROVE resolves < Budget
    BY DEF EndsWithinBudget
  <2>1. /\ resolves \in Nat /\ disturbed \in 0..Disturbances /\ Cardinality(Used) \in Nat
        /\ Cardinality(Used) <= Cardinality(Grantable) /\ Cardinality(Grantable) \in Nat
        /\ Budget \in Nat /\ Disturbances \in Nat
    BY UsedFinite, GrantableFinite, FS_CardinalityType, TapAssumption DEF IInv, TypeOK
  <2> QED
    BY <2>1 DEF BudgetInv, PaidFor
<1> QED
  BY <1>1, <1>2, BudgetStep, Invariance, PTL DEF Spec
=============================================================================
