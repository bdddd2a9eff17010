-------------------------- MODULE BatchSolverProofs --------------------------
(***************************************************************************)
(* Proofs about BatchSolver, for any number of threads, any network and    *)
(* any sequence of sound calls: every answer is the scenario's own, what a *)
(* thread keeps between calls is the intact network of its key, and the    *)
(* pool does what BatchAnswers promises.                                   *)
(*                                                                         *)
(* The invariant says what each task holds at each stage: the intact Y-bus *)
(* and a solver that fits it between scenarios, the outaged ones while a   *)
(* scenario is solved in place, anything after a split until the reset.    *)
(***************************************************************************)
EXTENDS BatchSolver, FiniteSetTheorems, TLAPS

CompsOf(c) == ConnectedComponents(Intact(c))
PatternOf(c, y) == [y |-> y, unknowns |-> Unknowns(CompsOf(c), Calls[c].dead)]

\* The solvers that may be asked to solve for call c on Y-bus y.
Fitting(c, y) ==
  [comps : {{}, CompsOf(c)}, pattern : {{}, {PatternOf(c, y)}}]

During(k) == IF Splits(Mine(k)) THEN Intact(call) ELSE Without(call, Mine(k))

Assigned(k) == index[k] \in DOMAIN Scenarios
Answered(k) == answer[k] = {RightAnswers[call][index[k]]}

TaskInv(k) ==
  /\ stage[k] \in {"spawned", "claim", "prepare", "collect", "done"}
       => ybus[k] = Intact(call)
  /\ stage[k] \in {"claim", "prepare", "collect", "done"}
       => solver[k] \in Fitting(call, Intact(call))
  /\ stage[k] \in {"prepare", "solve", "restore", "collect"} => Assigned(k)
  /\ stage[k] \in {"restore", "collect"} => Answered(k)
  /\ stage[k] \in {"solve", "restore"} => ybus[k] = During(k)
  /\ stage[k] = "solve" =>
       /\ buses[k] = Calls[call].dead
       /\ solver[k] \in IF Splits(Mine(k)) THEN {NoSolver}
                                          ELSE Fitting(call, ybus[k])
  /\ stage[k] = "restore" /\ ~Splits(Mine(k))
       => solver[k] \in Fitting(call, ybus[k])

SlotInv == \A t \in Threads : \A kept \in slot[t] :
             \E c \in DOMAIN Calls : /\ kept.key = Key(c)
                                     /\ kept.solver \in Fitting(c, Intact(c))

CollectedInv == \A r \in collected :
                  r.answer = RightAnswers[call][r.scenario]

Shape ==
  /\ call \in Nat /\ call <= Len(Calls)
  /\ mode \in {"between", "running"}
  /\ mode = "running" => call \in DOMAIN Calls
  /\ mode = "between" => tasks = {} /\ collected = {}
  /\ next \in Nat /\ next >= 1
  /\ DOMAIN stage = tasks /\ DOMAIN ybus = tasks /\ DOMAIN buses = tasks
  /\ DOMAIN solver = tasks /\ DOMAIN answer = tasks /\ DOMAIN index = tasks
  /\ DOMAIN at = tasks
  /\ \A k \in tasks : stage[k] # "spawned" => at[k] \in Threads
  /\ DOMAIN slot = Threads

Inv == Shape /\ (\A k \in tasks : TaskInv(k)) /\ CollectedInv /\ SlotInv

-----------------------------------------------------------------------------
(* Facts about plans and solvers.                                          *)

LEMMA SeqElement ==
  ASSUME NEW T, NEW s \in Seq(T), NEW i \in DOMAIN s
  PROVE  s[i] \in T
  OBVIOUS

LEMMA CallShape ==
  ASSUME NEW c \in DOMAIN Calls
  PROVE  /\ Calls[c].dead \subseteq SlackBuses
         /\ Calls[c].scenarios \in Seq(Scenario)
         /\ \A i \in DOMAIN Calls[c].scenarios :
              /\ Calls[c].scenarios[i] \in Scenario
              /\ SoundCalls => SoundScenario(c, Calls[c].scenarios[i])
<1>1. Calls[c] \in CallRecord
  BY BatchAssumption, SeqElement DEF BatchAssumption
<1>2. \A i \in DOMAIN Calls[c].scenarios : Calls[c].scenarios[i] \in Scenario
  BY <1>1, SeqElement DEF CallRecord
<1> QED
  BY <1>1, <1>2 DEF SoundCalls, CallRecord

\* A branch that is not listed is stamped no time.
LEMMA Unstamped ==
  ASSUME NEW sc, NEW b, b \notin Outaged(sc)
  PROVE  Stamps(sc, b) = 0
<1>1. {i \in DOMAIN sc.outages : sc.outages[i] = b} = {}
  BY DEF Outaged, Range
<1> QED
  BY <1>1, FS_EmptySet DEF Stamps

\* Taking the outages of a sound scenario off the intact Y-bus in place
\* yields the network without them, and putting them back the intact one
\* (contingencies_each, the undo list).
LEMMA InPlace ==
  ASSUME NEW c \in DOMAIN Calls, NEW sc, SoundScenario(c, sc), ~Splits(sc)
  PROVE  /\ Taken(Intact(c), sc) = Without(c, sc)
         /\ PutBack(Without(c, sc), sc) = Intact(c)
<1>1. \A b \in Branches :
        Stamps(sc, b) = IF b \in Outaged(sc) THEN 1 ELSE 0
  BY Unstamped DEF SoundScenario
<1>2. Taken(Intact(c), sc).times =
        [b \in Branches |-> IF b \in Outaged(sc) THEN 0 ELSE 1]
  BY <1>1 DEF Taken, Intact
<1>3. PutBack(Without(c, sc), sc).times = [b \in Branches |-> 1]
  BY <1>1 DEF PutBack, Without
<1>4. Taken(Intact(c), sc) = Without(c, sc)
  BY <1>2 DEF Taken, Intact, Without
<1>5. PutBack(Without(c, sc), sc) = Intact(c)
  BY <1>3 DEF PutBack, Intact, Without
<1> QED
  BY <1>4, <1>5

\* Telling the cached Jacobian of a changed Y-bus makes a solver that fitted
\* the Y-bus before fit the one after, when they differ at the outages only.
LEMMA Told ==
  ASSUME NEW c, NEW sc, NEW y, NEW z, NEW s \in Fitting(c, y),
         y = [net |-> y.net, times |-> y.times],
         z = [net |-> y.net, times |-> z.times],
         z.times = [b \in DOMAIN y.times |->
                      IF b \in Outaged(sc) THEN z.times[b] ELSE y.times[b]]
  PROVE  WithAdmittances(s, z, sc) \in Fitting(c, z)
<1>1. Updated(y, z, sc) = z
  BY DEF Updated
<1>2. WithAdmittances(s, z, sc).pattern \in {{}, {PatternOf(c, z)}}
  <2>1. CASE s.pattern = {}
    BY <2>1 DEF WithAdmittances
  <2>2. CASE s.pattern = {PatternOf(c, y)}
    BY <1>1, <2>2 DEF WithAdmittances, PatternOf
  <2> QED
    BY <2>1, <2>2 DEF Fitting
<1> QED
  BY <1>2 DEF WithAdmittances, Fitting

\* The Y-buses of an in-place scenario differ at its outages only.
LEMMA ToldInPlace ==
  ASSUME NEW c \in DOMAIN Calls, NEW sc, ~Splits(sc)
  PROVE  /\ \A s \in Fitting(c, Intact(c)) :
              WithAdmittances(s, Without(c, sc), sc)
                \in Fitting(c, Without(c, sc))
         /\ \A s \in Fitting(c, Without(c, sc)) :
              WithAdmittances(s, Intact(c), sc) \in Fitting(c, Intact(c))
<1> DEFINE y == Intact(c)
           z == Without(c, sc)
<1>1. /\ y = [net |-> Calls[c].net, times |-> [b \in Branches |-> 1]]
      /\ z = [net |-> Calls[c].net,
              times |-> [b \in Branches |->
                           IF b \in Outaged(sc) THEN 0 ELSE 1]]
  BY DEF Intact, Without
<1>2. \A s \in Fitting(c, y) : WithAdmittances(s, z, sc) \in Fitting(c, z)
  BY <1>1, Told
<1>3. \A s \in Fitting(c, z) : WithAdmittances(s, y, sc) \in Fitting(c, y)
  BY <1>1, Told
<1> QED
  BY <1>2, <1>3

\* A solver that fits answers like a new one, and fits afterwards.
LEMMA FittingAnswers ==
  ASSUME NEW c \in DOMAIN Calls, NEW sc, NEW dead, ~Splits(sc),
         SoundScenario(c, sc), dead = Calls[c].dead,
         NEW s \in Fitting(c, Without(c, sc))
  PROVE  LET z == Without(c, sc)
         IN  /\ Solved(s, z, dead) = Solved(NoSolver, z, dead)
             /\ Solved(s, z, dead) \in Fitting(c, z)
<1> DEFINE z == Without(c, sc)
<1>1. ConnectedComponents(z) = CompsOf(c)
  BY DEF SoundScenario, CompsOf
<1>2. CompsFor(s, z) = CompsOf(c) /\ CompsFor(NoSolver, z) = CompsOf(c)
  BY <1>1 DEF CompsFor, Fitting, NoSolver
<1>3. PatternFor(s, z, CompsOf(c), dead) = {PatternOf(c, z)}
  BY DEF PatternFor, PatternOf, Fitting
<1>4. PatternFor(NoSolver, z, CompsOf(c), dead) = {PatternOf(c, z)}
  BY DEF PatternFor, PatternOf, NoSolver
<1>5. Solved(s, z, dead) = [comps |-> CompsOf(c), pattern |-> {PatternOf(c, z)}]
  BY <1>2, <1>3 DEF Solved
<1>6. Solved(NoSolver, z, dead)
        = [comps |-> CompsOf(c), pattern |-> {PatternOf(c, z)}]
  BY <1>2, <1>4 DEF Solved
<1> QED
  BY <1>5, <1>6 DEF Fitting

-----------------------------------------------------------------------------
(* The invariant.                                                          *)

LEMMA InitInv == Init => Inv
<1> SUFFICES ASSUME Init PROVE Inv
  OBVIOUS
<1>1. Len(Calls) \in Nat
  BY BatchAssumption DEF BatchAssumption
<1>2. Shape
  BY <1>1 DEF Init, Shape, NoTasks
<1>3. tasks = {} /\ collected = {} /\ SlotInv
  BY DEF Init, SlotInv
<1> QED
  BY <1>2, <1>3 DEF Inv, CollectedInv

\* What the steps of one task have in common: the other tasks keep their
\* locals, so their part of the invariant is kept.
Aside(k) ==
  /\ call' = call /\ tasks' = tasks
  /\ \A j \in tasks \ {k} :
       /\ stage'[j] = stage[j] /\ index'[j] = index[j]
       /\ ybus'[j] = ybus[j] /\ buses'[j] = buses[j]
       /\ solver'[j] = solver[j] /\ answer'[j] = answer[j]

LEMMA OthersKeep ==
  ASSUME Inv, NEW k \in tasks, Aside(k), NEW j \in tasks \ {k}
  PROVE  TaskInv(j)'
  BY DEF Inv, Aside, TaskInv, Assigned, Answered, During, Mine, Scenarios

\* The solver a task begins with fits the intact network of its call.
LEMMA TakenFits ==
  ASSUME SoundCalls, Inv, mode = "running", NEW t \in Threads
  PROVE  TakenSolver(t) \in Fitting(call, Intact(call))
<1>1. CASE Kept(t) = {}
  BY <1>1 DEF TakenSolver, NoSolver, Fitting
<1>2. CASE Kept(t) # {}
  <2>1. PICK kept \in Kept(t) : TakenSolver(t) = kept.solver
    BY <1>2 DEF TakenSolver
  <2>2. PICK c \in DOMAIN Calls :
          kept.key = Key(c) /\ kept.solver \in Fitting(c, Intact(c))
    BY <2>1 DEF Kept, Inv, SlotInv
  <2>3. Key(c) = Key(call)
    BY <2>1, <2>2 DEF Kept
  <2>4. Calls[c].dead = Calls[call].dead /\ Intact(c) = Intact(call)
    BY <2>3 DEF SoundCalls, Inv, Shape, Key, Intact
  <2>5. Fitting(c, Intact(c)) = Fitting(call, Intact(call))
    BY <2>4 DEF Fitting, CompsOf, PatternOf
  <2> QED
    BY <2>1, <2>2, <2>5
<1> QED
  BY <1>1, <1>2

\* The rest of the invariant, over a step of task k.
RestInv == Shape /\ CollectedInv /\ SlotInv

LEMMA OneTask ==
  ASSUME Inv, NEW k \in tasks, Aside(k), RestInv', TaskInv(k)'
  PROVE  Inv'
<1>1. \A j \in tasks : TaskInv(j)'
  BY OthersKeep
<1> QED
  BY <1>1 DEF Inv, RestInv, Aside

LEMMA BeginKeeps ==
  ASSUME SoundCalls, Inv, mode = "running", NEW k \in tasks,
         NEW t \in Threads, Begin(k, t)
  PROVE  Inv'
<1>1. Aside(k)
  BY DEF Begin, Aside, caller, shared, Inv, Shape
<1>2. TaskInv(k)'
  BY TakenFits DEF Begin, caller, shared, Inv, Shape, TaskInv
<1>3. Shape'
  BY DEF Begin, caller, shared, Inv, Shape
<1>4. CollectedInv'
  BY DEF Begin, caller, shared, Inv, CollectedInv
<1>5. SlotInv'
  BY DEF Begin, Inv, SlotInv, Shape
<1> QED
  BY <1>1, <1>2, <1>3, <1>4, <1>5, OneTask DEF RestInv

LEMMA ClaimKeeps ==
  ASSUME Inv, mode = "running", NEW k \in tasks, Claim(k)
  PROVE  Inv'
<1>1. Aside(k)
  BY DEF Claim, Aside, caller, threads, Inv, Shape
<1>2. next \in DOMAIN Scenarios
  <2>1. Scenarios \in Seq(Scenario)
    BY CallShape DEF Inv, Shape, Scenarios
  <2> QED
    BY <2>1 DEF Claim, OutOfScenarios, Inv, Shape
<1>3. TaskInv(k)'
  BY <1>2 DEF Claim, caller, Inv, Shape, TaskInv, Assigned, Scenarios
<1>4. Shape'
  BY DEF Claim, caller, threads, Inv, Shape
<1>5. CollectedInv'
  BY DEF Claim, caller, Inv, CollectedInv
<1>6. SlotInv'
  BY DEF Claim, threads, Inv, SlotInv
<1> QED
  BY <1>1, <1>3, <1>4, <1>5, <1>6, OneTask DEF RestInv

LEMMA FinishKeeps ==
  ASSUME Inv, mode = "running", NEW k \in tasks, Finish(k)
  PROVE  Inv'
<1>1. Aside(k)
  BY DEF Finish, Aside, caller, Inv, Shape
<1>2. TaskInv(k)'
  BY DEF Finish, caller, Inv, Shape, TaskInv
<1>3. Shape'
  BY DEF Finish, caller, Inv, Shape
<1>4. CollectedInv'
  BY DEF Finish, caller, Inv, CollectedInv
<1>5. solver[k] \in Fitting(call, Intact(call)) /\ call \in DOMAIN Calls
  BY DEF Finish, Inv, Shape, TaskInv
<1>6. SlotInv'
  <2> SUFFICES ASSUME NEW t \in Threads, NEW kept \in slot'[t]
               PROVE  \E c \in DOMAIN Calls :
                        kept.key = Key(c) /\ kept.solver \in Fitting(c, Intact(c))
    BY DEF SlotInv
  <2>1. CASE kept \in slot[t]
    BY <2>1 DEF Inv, SlotInv
  <2>2. CASE kept = [key |-> Key(call), solver |-> solver[k]]
    BY <1>5, <2>2
  <2> QED
    BY <2>1, <2>2 DEF Finish, Inv, Shape
<1> QED
  BY <1>1, <1>2, <1>3, <1>4, <1>6, OneTask DEF RestInv

\* The steps in the middle of a scenario touch none of the shared state.
Local(k) == Aside(k) /\ UNCHANGED <<caller, shared, at, threads>>

LEMMA LocalRest ==
  ASSUME Inv, NEW k \in tasks, Local(k),
         stage[k] # "spawned",
         DOMAIN stage' = tasks, DOMAIN index' = tasks, DOMAIN ybus' = tasks,
         DOMAIN buses' = tasks, DOMAIN solver' = tasks, DOMAIN answer' = tasks
  PROVE  RestInv'
<1>1. Shape'
  BY DEF Local, Aside, caller, shared, threads, Inv, Shape
<1>2. CollectedInv' /\ SlotInv'
  BY DEF Local, Aside, caller, shared, threads, Inv, CollectedInv, SlotInv
<1> QED
  BY <1>1, <1>2 DEF RestInv

\* The scenario a task has claimed.
LEMMA MineIs ==
  ASSUME SoundCalls, Inv, mode = "running", NEW k \in tasks, Assigned(k)
  PROVE  /\ call \in DOMAIN Calls
         /\ Mine(k) \in Scenario
         /\ SoundScenario(call, Mine(k))
         /\ Mine(k).dead \subseteq Calls[call].dead
<1>1. call \in DOMAIN Calls
  BY DEF Inv, Shape
<1>2. SoundScenario(call, Mine(k)) /\ Mine(k) \in Scenario
  BY <1>1, CallShape DEF Assigned, Mine, Scenarios
<1> QED
  BY <1>1, <1>2 DEF SoundScenario

\* What a scenario's answer has to be, spelled out.
LEMMA RightIs ==
  ASSUME NEW c \in DOMAIN Calls, NEW i \in DOMAIN Calls[c].scenarios,
         Calls[c].scenarios[i].dead \subseteq Calls[c].dead
  PROVE  LET y == Without(c, Calls[c].scenarios[i])
         IN  RightAnswers[c][i] =
               AnswerOf(Solved(NoSolver, y, Calls[c].dead), y, Calls[c].dead)
<1>1. Calls[c].dead \cup Calls[c].scenarios[i].dead = Calls[c].dead
  OBVIOUS
<1> QED
  BY <1>1 DEF RightAnswers, Alone

LEMMA PrepareSplitKeeps ==
  ASSUME SoundCalls, Inv, mode = "running", NEW k \in tasks, PrepareSplit(k)
  PROVE  Inv'
<1>1. Local(k) /\ stage[k] # "spawned"
  BY DEF PrepareSplit, Local, Aside, caller, shared, threads, Inv, Shape
<1>2. RestInv'
  BY <1>1, LocalRest DEF PrepareSplit, Inv, Shape
<1>3. Assigned(k) /\ ybus[k] = Intact(call)
  BY DEF PrepareSplit, Inv, TaskInv
<1>4. Buffer(k) = Calls[call].dead
  BY <1>3, MineIs DEF Buffer
<1>5. /\ stage'[k] = "solve" /\ ybus'[k] = Intact(call)
      /\ buses'[k] = Calls[call].dead /\ solver'[k] = NoSolver
      /\ Assigned(k)' /\ Mine(k)' = Mine(k) /\ call' = call
  BY <1>3, <1>4 DEF PrepareSplit, caller, Inv, Shape, Assigned, Mine, Scenarios
<1>6. TaskInv(k)'
  BY <1>5 DEF PrepareSplit, TaskInv, During
<1> QED
  BY <1>1, <1>2, <1>6, OneTask DEF Local

LEMMA PrepareInPlaceKeeps ==
  ASSUME SoundCalls, Inv, mode = "running", NEW k \in tasks, PrepareInPlace(k)
  PROVE  Inv'
<1>1. Local(k) /\ stage[k] # "spawned"
  BY DEF PrepareInPlace, Local, Aside, caller, shared, threads, Inv, Shape
<1>2. RestInv'
  BY <1>1, LocalRest DEF PrepareInPlace, Inv, Shape
<1>3. /\ Assigned(k) /\ ybus[k] = Intact(call) /\ ~Splits(Mine(k))
      /\ solver[k] \in Fitting(call, Intact(call))
  BY DEF PrepareInPlace, Inv, TaskInv
<1>4. Buffer(k) = Calls[call].dead
  BY <1>3, MineIs DEF Buffer
<1>5. Taken(ybus[k], Mine(k)) = Without(call, Mine(k))
  BY <1>3, MineIs, InPlace
<1>6. WithAdmittances(solver[k], Without(call, Mine(k)), Mine(k))
        \in Fitting(call, Without(call, Mine(k)))
  BY <1>3, MineIs, ToldInPlace
<1>7. /\ stage'[k] = "solve" /\ ybus'[k] = Without(call, Mine(k))
      /\ buses'[k] = Calls[call].dead
      /\ solver'[k] \in Fitting(call, Without(call, Mine(k)))
      /\ Assigned(k)' /\ Mine(k)' = Mine(k) /\ call' = call
  BY <1>3, <1>4, <1>5, <1>6
     DEF PrepareInPlace, caller, Inv, Shape, Assigned, Mine, Scenarios
<1>8. TaskInv(k)'
  BY <1>3, <1>7 DEF TaskInv, During
<1> QED
  BY <1>1, <1>2, <1>8, OneTask DEF Local

LEMMA SolveKeeps ==
  ASSUME SoundCalls, Inv, mode = "running", NEW k \in tasks, Solve(k)
  PROVE  Inv'
<1>1. Local(k) /\ stage[k] # "spawned"
  BY DEF Solve, Local, Aside, caller, shared, threads, Inv, Shape
<1>2. RestInv'
  BY <1>1, LocalRest DEF Solve, Inv, Shape
<1>3. /\ Assigned(k) /\ ybus[k] = During(k) /\ buses[k] = Calls[call].dead
      /\ solver[k] \in IF Splits(Mine(k)) THEN {NoSolver}
                                           ELSE Fitting(call, ybus[k])
  BY DEF Solve, Inv, TaskInv
<1> DEFINE y == Without(call, Mine(k))
           dead == Calls[call].dead
<1>4. SolveOn(k) = y
  BY <1>3 DEF SolveOn, During, Without
<1>5. Solved(solver[k], y, dead) = Solved(NoSolver, y, dead)
  <2>1. CASE Splits(Mine(k))
    BY <1>3, <2>1
  <2>2. CASE ~Splits(Mine(k))
    BY <1>3, <2>2, MineIs, FittingAnswers DEF During
  <2> QED
    BY <2>1, <2>2
<1>6. ~Splits(Mine(k)) => Solved(solver[k], y, dead) \in Fitting(call, y)
  BY <1>3, MineIs, FittingAnswers DEF During
<1>7. RightAnswers[call][index[k]]
        = AnswerOf(Solved(NoSolver, y, dead), y, dead)
  BY <1>3, MineIs, RightIs DEF Assigned, Mine, Scenarios
<1>8. /\ stage'[k] = "restore" /\ ybus'[k] = ybus[k] /\ call' = call
      /\ index'[k] = index[k] /\ Mine(k)' = Mine(k) /\ Assigned(k)'
      /\ solver'[k] = Solved(solver[k], y, dead)
      /\ answer'[k] = {AnswerOf(Solved(solver[k], y, dead), y, dead)}
  BY <1>3, <1>4
     DEF Solve, caller, Inv, Shape, Assigned, Mine, Scenarios
<1>9. Answered(k)'
  BY <1>5, <1>7, <1>8 DEF Answered
<1>10. TaskInv(k)'
  BY <1>3, <1>6, <1>8, <1>9 DEF TaskInv, During
<1> QED
  BY <1>1, <1>2, <1>10, OneTask DEF Local

LEMMA RestoreSplitKeeps ==
  ASSUME Inv, mode = "running", NEW k \in tasks, RestoreSplit(k)
  PROVE  Inv'
<1>1. Local(k) /\ stage[k] # "spawned"
  BY DEF RestoreSplit, Local, Aside, caller, shared, threads, Inv, Shape
<1>2. RestInv'
  BY <1>1, LocalRest DEF RestoreSplit, Inv, Shape
<1>3. Assigned(k) /\ Answered(k) /\ ybus[k] = Intact(call)
  BY DEF RestoreSplit, Inv, TaskInv, During
<1>4. /\ stage'[k] = "collect" /\ ybus'[k] = Intact(call) /\ call' = call
      /\ index'[k] = index[k] /\ answer'[k] = answer[k]
      /\ solver'[k] = NoSolver
  BY <1>3 DEF RestoreSplit, caller, Inv, Shape
<1>5. NoSolver \in Fitting(call, Intact(call))
  BY DEF NoSolver, Fitting
<1>6. TaskInv(k)'
  BY <1>3, <1>4, <1>5 DEF TaskInv, Assigned, Answered, Scenarios
<1> QED
  BY <1>1, <1>2, <1>6, OneTask DEF Local

LEMMA RestoreInPlaceKeeps ==
  ASSUME SoundCalls, Inv, mode = "running", NEW k \in tasks, RestoreInPlace(k)
  PROVE  Inv'
<1>1. Local(k) /\ stage[k] # "spawned"
  BY DEF RestoreInPlace, Local, Aside, caller, shared, threads, Inv, Shape
<1>2. RestInv'
  BY <1>1, LocalRest DEF RestoreInPlace, Inv, Shape
<1>3. /\ Assigned(k) /\ Answered(k) /\ ~Splits(Mine(k))
      /\ ybus[k] = Without(call, Mine(k))
      /\ solver[k] \in Fitting(call, Without(call, Mine(k)))
  BY DEF RestoreInPlace, Inv, TaskInv, During
<1>4. PutBack(ybus[k], Mine(k)) = Intact(call)
  BY <1>3, MineIs, InPlace
<1>5. WithAdmittances(solver[k], Intact(call), Mine(k))
        \in Fitting(call, Intact(call))
  BY <1>3, MineIs, ToldInPlace
<1>6. /\ stage'[k] = "collect" /\ ybus'[k] = Intact(call) /\ call' = call
      /\ index'[k] = index[k] /\ answer'[k] = answer[k]
      /\ solver'[k] \in Fitting(call, Intact(call))
  BY <1>3, <1>4, <1>5 DEF RestoreInPlace, caller, Inv, Shape
<1>7. TaskInv(k)'
  BY <1>3, <1>6 DEF TaskInv, Assigned, Answered, Scenarios
<1> QED
  BY <1>1, <1>2, <1>7, OneTask DEF Local

LEMMA CollectKeeps ==
  ASSUME Inv, mode = "running", NEW k \in tasks, Collect(k)
  PROVE  Inv'
<1>1. Aside(k)
  BY DEF Collect, Aside, caller, threads, Inv, Shape
<1>2. TaskInv(k)'
  BY DEF Collect, caller, Inv, Shape, TaskInv
<1>3. Shape'
  BY DEF Collect, caller, threads, Inv, Shape
<1>4. CollectedInv'
  <2>1. answer[k] = {RightAnswers[call][index[k]]}
    BY DEF Collect, Inv, TaskInv, Answered
  <2> QED
    BY <2>1 DEF Collect, caller, Inv, CollectedInv
<1>5. SlotInv'
  BY DEF Collect, threads, Inv, SlotInv
<1> QED
  BY <1>1, <1>2, <1>3, <1>4, <1>5, OneTask DEF RestInv

LEMMA CallerKeeps ==
  ASSUME Inv, Refuse \/ NothingToDo \/ Spawn \/ Return
  PROVE  Inv'
<1>0. Len(Calls) \in Nat /\ DOMAIN Calls = 1..Len(Calls)
  BY BatchAssumption DEF BatchAssumption
<1>1. CASE Refuse \/ NothingToDo
  <2>1. Shape'
    BY <1>0, <1>1 DEF Refuse, NothingToDo, shared, locals, threads, Inv, Shape
  <2>2. CollectedInv' /\ (\A k \in tasks' : TaskInv(k)') /\ SlotInv'
    BY <1>1 DEF Refuse, NothingToDo, shared, locals, threads, Inv, Shape,
                CollectedInv, SlotInv
  <2> QED
    BY <2>1, <2>2 DEF Inv
<1>2. CASE Spawn
  <2>1. Shape'
    BY <1>0, <1>2 DEF Spawn, threads, Inv, Shape
  <2>2. \A k \in tasks' : TaskInv(k)'
    BY <1>2 DEF Spawn, TaskInv
  <2>3. CollectedInv' /\ SlotInv'
    BY <1>2 DEF Spawn, threads, Inv, CollectedInv, SlotInv
  <2> QED
    BY <2>1, <2>2, <2>3 DEF Inv
<1>3. CASE Return
  <2>1. Shape'
    BY <1>3 DEF Return, Returning, threads, Inv, Shape, NoTasks
  <2>2. CollectedInv' /\ (\A k \in tasks' : TaskInv(k)') /\ SlotInv'
    BY <1>3 DEF Return, threads, Inv, CollectedInv, SlotInv
  <2> QED
    BY <2>1, <2>2 DEF Inv
<1> QED
  BY <1>1, <1>2, <1>3

LEMMA NextInv == SoundCalls /\ Inv /\ [Next]_vars => Inv'
<1> SUFFICES ASSUME SoundCalls, Inv, [Next]_vars PROVE Inv'
  OBVIOUS
<1>1. CASE Refuse \/ NothingToDo \/ Spawn \/ Return
  BY <1>1, CallerKeeps
<1>2. ASSUME NEW k \in tasks, TaskStep(k) PROVE Inv'
  <2>1. mode = "running"
    BY <1>2 DEF Inv, Shape
  <2>2. ASSUME NEW t \in Threads, Begin(k, t) PROVE Inv'
    BY <2>1, <2>2, BeginKeeps
  <2> QED
    BY <1>2, <2>1, <2>2, ClaimKeeps, FinishKeeps, PrepareSplitKeeps,
       PrepareInPlaceKeeps, SolveKeeps, RestoreSplitKeeps,
       RestoreInPlaceKeeps, CollectKeeps DEF TaskStep
<1>3. CASE UNCHANGED vars
  BY <1>3 DEF vars, caller, shared, locals, threads, Inv, Shape, TaskInv,
     Assigned, Answered, During, Mine, Scenarios, CollectedInv, SlotInv
<1> QED
  BY <1>1, <1>2, <1>3 DEF Next

-----------------------------------------------------------------------------
\* The tasks' locals, the collected answers and the kept solvers stay as
\* described above (BatchSolver::contingencies_each).
THEOREM Invariance == SoundCalls => (Spec => []Inv)
<1> SUFFICES ASSUME SoundCalls PROVE Spec => []Inv
  OBVIOUS
<1>1. Inv /\ [Next]_vars => Inv'
  BY NextInv
<1> QED
  BY <1>1, InitInv, PTL DEF Spec

\* Whatever the threads do, a sound batch answers every scenario as a solver
\* of its own would ("results are identical to a sequential loop",
\* BatchSolver::solve).
THEOREM OwnAnswers == SoundCalls => (Spec => []AnswersAreTheirOwn)
<1> SUFFICES ASSUME SoundCalls PROVE Spec => []AnswersAreTheirOwn
  OBVIOUS
<1>1. Inv => AnswersAreTheirOwn
  BY DEF Inv, CollectedInv, AnswersAreTheirOwn
<1> QED
  BY <1>1, Invariance, PTL

\* A solver kept between calls holds the intact network it is filed under
\* ("every outage is undone before the next", contingencies_each).
THEOREM KeptIntact == SoundCalls => (Spec => []KeptSolverIsIntact)
<1> SUFFICES ASSUME SoundCalls PROVE Spec => []KeptSolverIsIntact
  OBVIOUS
<1>1. Inv => KeptSolverIsIntact
  <2> SUFFICES ASSUME Inv, NEW t \in Threads, NEW kept \in slot[t]
               PROVE  LET intact == [net |-> kept.key,
                                     times |-> [b \in Branches |-> 1]]
                      IN  /\ kept.solver.comps
                               \in {{}, ConnectedComponents(intact)}
                          /\ \A p \in kept.solver.pattern : p.y = intact
    BY DEF KeptSolverIsIntact
  <2>1. PICK c \in DOMAIN Calls :
          kept.key = Key(c) /\ kept.solver \in Fitting(c, Intact(c))
    BY DEF Inv, SlotInv
  <2> QED
    BY <2>1 DEF Key, Intact, Fitting, CompsOf, PatternOf
<1> QED
  BY <1>1, Invariance, PTL

-----------------------------------------------------------------------------
(* Each scenario once: what the counter has given out is collected or in   *)
(* the hands of one task.                                                  *)

Working(k) == stage[k] \in {"prepare", "solve", "restore", "collect"}

HandedOut ==
  /\ \A r \in collected : r.scenario \in DOMAIN Scenarios /\ r.scenario < next
  /\ \A k \in tasks : Working(k) =>
       index[k] < next /\ \A r \in collected : r.scenario # index[k]
  /\ \A j, k \in tasks : Working(j) /\ Working(k) /\ index[j] = index[k] => j = k

NoneSkipped ==
  \A i \in DOMAIN Scenarios : i < next =>
    \/ \E r \in collected : r.scenario = i
    \/ \E k \in tasks : Working(k) /\ index[k] = i

LastIsOut == \A k \in tasks : stage[k] = "done" => next > Len(Scenarios)

LedgerInv ==
  mode = "running" =>
    tasks # {} /\ DOMAIN Scenarios # {} /\ HandedOut /\ NoneSkipped /\ LastIsOut

\* The scenarios of a call are numbered from one.
LEMMA ScenariosAre ==
  ASSUME Inv, mode = "running"
  PROVE  /\ Len(Scenarios) \in Nat /\ DOMAIN Scenarios = 1..Len(Scenarios)
         /\ next \in Nat /\ next >= 1
<1>1. Scenarios \in Seq(Scenario)
  BY CallShape DEF Inv, Shape, Scenarios
<1> QED
  BY <1>1 DEF Inv, Shape

\* The steps by which a task neither takes a scenario nor hands one in.
SameHands ==
  /\ UNCHANGED <<caller, next, collected, tasks, index>>
  /\ \A k \in tasks : Working(k)' = Working(k)
  /\ \A k \in tasks : stage'[k] = "done" <=> stage[k] = "done"

LEMMA SameHandsKeep ==
  ASSUME LedgerInv, SameHands
  PROVE  LedgerInv'
<1> SUFFICES ASSUME mode' = "running" PROVE LedgerInv'
  BY DEF LedgerInv
<1>1. /\ mode = "running" /\ next' = next /\ collected' = collected
      /\ tasks' = tasks /\ index' = index /\ Scenarios' = Scenarios
  BY DEF SameHands, caller, Scenarios
<1>2. tasks # {} /\ DOMAIN Scenarios # {} /\ HandedOut /\ NoneSkipped /\ LastIsOut
  BY <1>1 DEF LedgerInv
<1>3. HandedOut'
  BY <1>1, <1>2 DEF HandedOut, SameHands
<1>4. NoneSkipped'
  BY <1>1, <1>2 DEF NoneSkipped, SameHands
<1>5. LastIsOut'
  BY <1>1, <1>2 DEF LastIsOut, SameHands
<1> QED
  BY <1>1, <1>2, <1>3, <1>4, <1>5 DEF LedgerInv

LEMMA InnerStepsKeepHands ==
  ASSUME Inv, NEW k \in tasks,
         \/ \E t \in Threads : Begin(k, t)
         \/ PrepareSplit(k) \/ PrepareInPlace(k) \/ Solve(k)
         \/ RestoreSplit(k) \/ RestoreInPlace(k)
  PROVE  SameHands
<1>1. UNCHANGED <<caller, next, collected, tasks, index>>
  BY DEF Begin, PrepareSplit, PrepareInPlace, Solve, RestoreSplit,
         RestoreInPlace, shared
<1>2. \/ stage[k] = "spawned" /\ stage' = [stage EXCEPT ![k] = "claim"]
      \/ stage[k] = "prepare" /\ stage' = [stage EXCEPT ![k] = "solve"]
      \/ stage[k] = "solve" /\ stage' = [stage EXCEPT ![k] = "restore"]
      \/ stage[k] = "restore" /\ stage' = [stage EXCEPT ![k] = "collect"]
  BY DEF Begin, PrepareSplit, PrepareInPlace, Solve, RestoreSplit, RestoreInPlace
<1>3. \A j \in tasks :
        /\ j # k => stage'[j] = stage[j]
        /\ j = k => Working(j)' = Working(j) /\ stage[j] # "done" /\ stage'[j] # "done"
  BY <1>2 DEF Working, Inv, Shape
<1> QED
  BY <1>1, <1>3 DEF SameHands, Working

LEMMA ClaimKeepsLedger ==
  ASSUME Inv, LedgerInv, NEW k \in tasks, mode = "running", Claim(k)
  PROVE  LedgerInv'
<1>1. /\ mode' = mode /\ Scenarios' = Scenarios /\ next' = next + 1
      /\ collected' = collected /\ tasks' = tasks
      /\ stage[k] = "claim" /\ next <= Len(Scenarios)
      /\ stage' = [stage EXCEPT ![k] = "prepare"]
      /\ index' = [index EXCEPT ![k] = next]
  <2>1. ~(next > Len(Scenarios)) /\ next \in Nat /\ Len(Scenarios) \in Nat
    BY ScenariosAre DEF Claim, OutOfScenarios
  <2> QED
    BY <2>1 DEF Claim, caller, Scenarios
<1>2. tasks # {} /\ DOMAIN Scenarios # {} /\ HandedOut /\ NoneSkipped /\ LastIsOut
  BY DEF LedgerInv
<1>3. /\ Working(k)' /\ ~Working(k) /\ index'[k] = next /\ stage'[k] # "done"
      /\ \A j \in tasks \ {k} :
           /\ Working(j)' = Working(j) /\ index'[j] = index[j]
           /\ stage'[j] = stage[j]
  BY <1>1 DEF Working, Inv, Shape
<1>4. /\ next \in Nat /\ Len(Scenarios) \in Nat
      /\ DOMAIN Scenarios = 1..Len(Scenarios)
      /\ \A j \in tasks : Working(j) => index[j] \in Nat
  BY ScenariosAre DEF Inv, TaskInv, Working, Assigned
<1>5. HandedOut'
  <2>1. \A r \in collected : r.scenario \in DOMAIN Scenarios /\ r.scenario < next + 1
                             /\ r.scenario # next
    BY <1>2, <1>4 DEF HandedOut
  <2>2. \A j \in tasks : Working(j)' =>
          index'[j] < next + 1 /\ \A r \in collected : r.scenario # index'[j]
    BY <1>2, <1>3, <1>4, <2>1 DEF HandedOut
  <2>3. \A j \in tasks \ {k} : Working(j) => index[j] # next
    BY <1>2, <1>4 DEF HandedOut
  <2>4. \A i, j \in tasks : Working(i)' /\ Working(j)' /\ index'[i] = index'[j] => i = j
    BY <1>2, <1>3, <2>3 DEF HandedOut
  <2> QED
    BY <1>1, <2>1, <2>2, <2>4 DEF HandedOut
<1>6. NoneSkipped'
  <2> SUFFICES ASSUME NEW i \in DOMAIN Scenarios, i < next + 1
               PROVE  \/ \E r \in collected : r.scenario = i
                      \/ \E j \in tasks : Working(j)' /\ index'[j] = i
    BY <1>1 DEF NoneSkipped
  <2>1. CASE i = next
    BY <1>3, <2>1
  <2>2. CASE i # next
    <3>1. i < next
      BY <1>4, <2>2
    <3> QED
      BY <1>2, <1>3, <3>1 DEF NoneSkipped
  <2> QED
    BY <2>1, <2>2
<1>7. LastIsOut'
  BY <1>1, <1>2, <1>3, <1>4 DEF LastIsOut
<1> QED
  BY <1>1, <1>2, <1>5, <1>6, <1>7 DEF LedgerInv

LEMMA FinishKeepsLedger ==
  ASSUME Inv, LedgerInv, NEW k \in tasks, mode = "running", Finish(k)
  PROVE  LedgerInv'
<1>1. /\ mode' = mode /\ Scenarios' = Scenarios /\ next' = next + 1
      /\ collected' = collected /\ tasks' = tasks /\ index' = index
      /\ stage[k] = "claim" /\ next > Len(Scenarios)
      /\ stage' = [stage EXCEPT ![k] = "done"]
  BY DEF Finish, OutOfScenarios, caller, Scenarios
<1>2. tasks # {} /\ DOMAIN Scenarios # {} /\ HandedOut /\ NoneSkipped /\ LastIsOut
  BY DEF LedgerInv
<1>3. \A j \in tasks : Working(j)' = Working(j)
  BY <1>1 DEF Working, Inv, Shape
<1>4. /\ next \in Nat /\ Len(Scenarios) \in Nat
      /\ DOMAIN Scenarios = 1..Len(Scenarios)
      /\ \A j \in tasks : Working(j) => index[j] \in Nat
  BY ScenariosAre DEF Inv, TaskInv, Working, Assigned
<1>5. HandedOut'
  <2>1. \A r \in collected : r.scenario \in DOMAIN Scenarios /\ r.scenario < next + 1
    BY <1>2, <1>4 DEF HandedOut
  <2>2. \A j \in tasks : Working(j) =>
          index[j] < next + 1 /\ \A r \in collected : r.scenario # index[j]
    BY <1>2, <1>4 DEF HandedOut
  <2> QED
    BY <1>1, <1>2, <1>3, <2>1, <2>2 DEF HandedOut
<1>6. NoneSkipped'
  <2>1. \A i \in DOMAIN Scenarios : i < next
    BY <1>1, <1>4
  <2> QED
    BY <1>1, <1>2, <1>3, <2>1 DEF NoneSkipped
<1>7. LastIsOut'
  BY <1>1, <1>4 DEF LastIsOut
<1> QED
  BY <1>1, <1>2, <1>5, <1>6, <1>7 DEF LedgerInv

\* What a task hands in.
LEMMA HandedIn ==
  ASSUME Inv, NEW k \in tasks, mode = "running", Collect(k)
  PROVE  /\ index[k] \in DOMAIN Scenarios
         /\ collected' = collected \cup
              {[scenario |-> index[k], task |-> k,
                answer |-> RightAnswers[call][index[k]]]}
<1>1. stage[k] = "collect" /\ Assigned(k) /\ Answered(k)
  BY DEF Collect, Inv, TaskInv
<1> QED
  BY <1>1 DEF Collect, Assigned, Answered

LEMMA CollectKeepsLedger ==
  ASSUME Inv, LedgerInv, NEW k \in tasks, mode = "running", Collect(k)
  PROVE  LedgerInv'
<1> DEFINE new == [scenario |-> index[k], task |-> k,
                   answer |-> RightAnswers[call][index[k]]]
<1>1. /\ mode' = mode /\ Scenarios' = Scenarios /\ next' = next
      /\ tasks' = tasks /\ index' = index /\ stage[k] = "collect"
      /\ stage' = [stage EXCEPT ![k] = "claim"]
  BY DEF Collect, caller, Scenarios
<1>2. collected' = collected \cup {new} /\ new.scenario = index[k]
      /\ index[k] \in DOMAIN Scenarios
  BY HandedIn
<1> HIDE DEF new
<1>3. tasks # {} /\ DOMAIN Scenarios # {} /\ HandedOut /\ NoneSkipped /\ LastIsOut
  BY DEF LedgerInv
<1>4. /\ Working(k) /\ ~Working(k)' /\ stage'[k] # "done"
      /\ \A j \in tasks \ {k} : Working(j)' = Working(j) /\ stage'[j] = stage[j]
  BY <1>1 DEF Working, Inv, Shape
<1>5. HandedOut'
  <2>1. \A r \in collected' : r.scenario \in DOMAIN Scenarios /\ r.scenario < next
    BY <1>2, <1>3, <1>4 DEF HandedOut
  <2>2. \A j \in tasks : Working(j)' =>
          index[j] < next /\ \A r \in collected' : r.scenario # index[j]
    BY <1>2, <1>3, <1>4 DEF HandedOut
  <2>3. \A i, j \in tasks : Working(i)' /\ Working(j)' /\ index[i] = index[j] => i = j
    BY <1>3, <1>4 DEF HandedOut
  <2> QED
    BY <1>1, <2>1, <2>2, <2>3 DEF HandedOut
<1>6. NoneSkipped'
  <2> SUFFICES ASSUME NEW i \in DOMAIN Scenarios, i < next
               PROVE  \/ \E r \in collected' : r.scenario = i
                      \/ \E j \in tasks : Working(j)' /\ index[j] = i
    BY <1>1 DEF NoneSkipped
  <2>1. CASE i = index[k]
    BY <1>2, <2>1
  <2>2. CASE i # index[k]
    BY <1>2, <1>3, <1>4, <2>2 DEF NoneSkipped
  <2> QED
    BY <2>1, <2>2
<1>7. LastIsOut'
  BY <1>1, <1>3, <1>4 DEF LastIsOut
<1> QED
  BY <1>1, <1>3, <1>5, <1>6, <1>7 DEF LedgerInv

\* Between calls nothing is owed; a call begins with all of its scenarios to
\* hand out, and tasks to take them.
LEMMA CallerKeepsLedger ==
  ASSUME Inv, LedgerInv, Refuse \/ NothingToDo \/ Spawn \/ Return
  PROVE  LedgerInv'
<1>1. CASE Spawn
  <2>1. /\ mode' = "running" /\ collected' = {} /\ next' = 1
        /\ tasks' = Workers(call + 1) /\ Calls[call + 1].scenarios # <<>>
        /\ Scenarios' = Calls[call + 1].scenarios
        /\ \A k \in tasks' : stage'[k] = "spawned"
    BY <1>1 DEF Spawn, Scenarios
  <2>2. call + 1 \in DOMAIN Calls
    BY <1>1, BatchAssumption DEF Spawn, Inv, Shape
  <2>3. /\ Scenarios' \in Seq(Scenario) /\ Scenarios' # <<>>
        /\ Len(Scenarios') \in Nat /\ Len(Scenarios') >= 1
        /\ DOMAIN Scenarios' = 1..Len(Scenarios')
    <3>1. Calls[call + 1].scenarios \in Seq(Scenario)
      BY <2>2, CallShape
    <3> QED
      BY <2>1, <3>1
  <2>4. tasks' # {}
    <3>1. Cardinality(Threads) \in Nat /\ Cardinality(Threads) # 0
      BY BatchAssumption, FS_CardinalityType, FS_EmptySet
    <3>2. 1 \in Workers(call + 1)
      BY <2>1, <2>3, <3>1 DEF Workers
    <3> QED
      BY <2>1, <3>2
  <2>5. \A k \in tasks' : ~Working(k)' /\ stage'[k] # "done"
    BY <2>1 DEF Working
  <2>6. HandedOut'
    BY <2>1, <2>5 DEF HandedOut
  <2>7. NoneSkipped'
    BY <2>1, <2>3 DEF NoneSkipped
  <2>8. LastIsOut'
    BY <2>5 DEF LastIsOut
  <2> QED
    BY <2>3, <2>4, <2>6, <2>7, <2>8 DEF LedgerInv
<1>2. CASE Refuse \/ NothingToDo \/ Return
  BY <1>2 DEF Refuse, NothingToDo, Return, LedgerInv
<1> QED
  BY <1>1, <1>2

LEMMA NextLedger == Inv /\ LedgerInv /\ [Next]_vars => LedgerInv'
<1> SUFFICES ASSUME Inv, LedgerInv, [Next]_vars PROVE LedgerInv'
  OBVIOUS
<1>1. CASE Refuse \/ NothingToDo \/ Spawn \/ Return
  BY <1>1, CallerKeepsLedger
<1>2. ASSUME NEW k \in tasks, TaskStep(k) PROVE LedgerInv'
  <2>1. mode = "running"
    BY <1>2 DEF Inv, Shape
  <2>2. CASE Claim(k) \/ Finish(k) \/ Collect(k)
    BY <2>1, <2>2, ClaimKeepsLedger, FinishKeepsLedger, CollectKeepsLedger
  <2>3. CASE ~(Claim(k) \/ Finish(k) \/ Collect(k))
    BY <1>2, <2>3, InnerStepsKeepHands, SameHandsKeep DEF TaskStep
  <2> QED
    BY <2>2, <2>3
<1>3. CASE UNCHANGED vars
  <2>1. SameHands
    BY <1>3 DEF SameHands, vars, caller, shared, locals, Working
  <2> QED
    BY <2>1, SameHandsKeep
<1> QED
  BY <1>1, <1>2, <1>3 DEF Next

\* Every scenario given out is collected once or with one task, and a task
\* stops only when none is left (contingencies_each, the shared counter).
THEOREM EachScenarioOnce == SoundCalls => (Spec => []LedgerInv)
<1> SUFFICES ASSUME SoundCalls PROVE Spec => []LedgerInv
  OBVIOUS
<1>1. Init => LedgerInv
  BY DEF Init, LedgerInv
<1>2. Inv /\ LedgerInv /\ [Next]_vars => LedgerInv'
  BY NextLedger
<1> QED
  BY <1>1, <1>2, Invariance, PTL DEF Spec

-----------------------------------------------------------------------------
(* The promise of a batch, step by step.                                   *)

Asked == IF mode = "running" THEN DOMAIN Scenarios ELSE {}
Right == IF mode = "running" THEN RightAnswers[call] ELSE <<>>
Handed == IF mode = "running"
            THEN {<<r.scenario, r.answer>> : r \in collected} ELSE {}

LEMMA RightIsAsked ==
  ASSUME Inv, mode = "running"
  PROVE  DOMAIN RightAnswers[call] = DOMAIN Scenarios
  BY DEF Inv, Shape, RightAnswers, Scenarios

\* Taking a scenario's answer in is a reply.
LEMMA CollectReplies ==
  ASSUME Inv, LedgerInv, NEW k \in tasks, mode = "running", Collect(k)
  PROVE  Promise!Reply
<1> DEFINE i == index[k]
<1>1. /\ mode' = "running" /\ call' = call /\ Scenarios' = Scenarios
  BY DEF Collect, caller, Scenarios
<1>2. /\ i \in DOMAIN Scenarios
      /\ collected' = collected \cup
           {[scenario |-> i, task |-> k, answer |-> RightAnswers[call][i]]}
  BY HandedIn
<1>3. \A r \in collected : r.scenario # i
  BY DEF Collect, LedgerInv, HandedOut, Working
<1>4. Handed' = Handed \cup {<<i, Right[i]>>}
  <2> DEFINE new == [scenario |-> i, task |-> k, answer |-> RightAnswers[call][i]]
  <2>1. /\ Handed' = {<<r.scenario, r.answer>> : r \in collected'}
        /\ Handed = {<<r.scenario, r.answer>> : r \in collected}
    BY <1>1 DEF Handed
  <2>2. <<new.scenario, new.answer>> = <<i, Right[i]>> /\ collected' = collected \cup {new}
    BY <1>2 DEF Right
  <2> HIDE DEF new, i
  <2> QED
    BY <2>1, <2>2
<1>5. i \in Asked \ {a[1] : a \in Handed}
  BY <1>2, <1>3 DEF Asked, Handed
<1>6. Asked' = Asked /\ Right' = Right
  BY <1>1 DEF Asked, Right
<1> QED
  BY <1>4, <1>5, <1>6 DEF Promise!Reply, Asked, Right, Handed

\* A call returns with all of them.
LEMMA ReturnIsDone ==
  ASSUME Inv, LedgerInv, Return
  PROVE  Promise!Done
<1>1. /\ mode = "running" /\ mode' = "between"
      /\ \A k \in tasks : stage[k] = "done"
  BY DEF Return, Returning
<1>2. tasks # {} /\ DOMAIN Scenarios # {} /\ HandedOut /\ NoneSkipped /\ LastIsOut
  BY <1>1 DEF LedgerInv
<1>3. next > Len(Scenarios)
  BY <1>1, <1>2 DEF LastIsOut
<1>4. \A j \in DOMAIN Scenarios : j < next
  BY <1>1, <1>3, ScenariosAre
<1>5. \A j \in DOMAIN Scenarios : \E r \in collected : r.scenario = j
  BY <1>1, <1>2, <1>4 DEF NoneSkipped, Working
<1>6. \A r \in collected : r.scenario \in DOMAIN Scenarios
  BY <1>2 DEF HandedOut
<1>7. {a[1] : a \in Handed} = Asked
  <2>1. \A r \in collected : <<r.scenario, r.answer>> \in Handed
    BY <1>1 DEF Handed
  <2>2. \A a \in Handed : \E r \in collected : a = <<r.scenario, r.answer>>
    BY <1>1 DEF Handed
  <2>3. ASSUME NEW j \in DOMAIN Scenarios PROVE \E a \in Handed : a[1] = j
    BY <1>5, <2>1
  <2>4. ASSUME NEW a \in Handed PROVE a[1] \in DOMAIN Scenarios
    BY <1>6, <2>2
  <2> QED
    BY <1>1, <2>3, <2>4 DEF Asked
<1>8. Asked # {} /\ Asked' = {} /\ Right' = <<>> /\ Handed' = {}
  BY <1>1, <1>2 DEF Asked, Right, Handed
<1> QED
  BY <1>7, <1>8 DEF Promise!Done, Asked, Right, Handed

LEMMA SpawnAsks ==
  ASSUME Inv, LedgerInv', Inv', Spawn
  PROVE  Promise!Ask
<1>1. mode = "between" /\ mode' = "running" /\ collected' = {}
  BY DEF Spawn
<1>2. Promise!Idle
  BY <1>1 DEF Promise!Idle
<1>3. DOMAIN Scenarios' # {}
  BY <1>1 DEF LedgerInv
<1>4. DOMAIN (RightAnswers[call])' = DOMAIN Scenarios'
  BY <1>1 DEF Inv, Shape, RightAnswers, Scenarios
<1> QED
  BY <1>1, <1>2, <1>3, <1>4 DEF Promise!Ask

LEMMA StepsKeepPromise ==
  ASSUME Inv, LedgerInv, Inv', LedgerInv', [Next]_vars
  PROVE  [Promise!Next]_<<Asked, Right, Handed>>
<1>1. CASE Spawn \/ Return
  BY <1>1, SpawnAsks, ReturnIsDone DEF Promise!Next
<1>2. CASE Refuse \/ NothingToDo
  BY <1>2 DEF Refuse, NothingToDo, Asked, Right, Handed
<1>3. ASSUME NEW k \in tasks, TaskStep(k) PROVE [Promise!Next]_<<Asked, Right, Handed>>
  <2>1. mode = "running"
    BY <1>3 DEF Inv, Shape
  <2>2. CASE Collect(k)
    BY <2>1, <2>2, CollectReplies DEF Promise!Next
  <2>3. CASE ~Collect(k)
    <3>1. mode' = mode /\ call' = call /\ collected' = collected
      BY <1>3, <2>3 DEF TaskStep, Begin, Claim, Finish, PrepareSplit, PrepareInPlace,
         Solve, RestoreSplit, RestoreInPlace, caller, shared
    <3> QED
      BY <3>1 DEF Asked, Right, Handed, Scenarios
  <2> QED
    BY <2>2, <2>3
<1>4. CASE UNCHANGED vars
  BY <1>4 DEF vars, caller, shared, Asked, Right, Handed, Scenarios
<1> QED
  BY <1>1, <1>2, <1>3, <1>4 DEF Next

\* Between a call and its return each scenario is answered once, with the answer
\* it has on its own, and the call returns only with all of them: the steps of the
\* pool are steps of BatchAnswers (the safety half of KeepsPromise).
THEOREM PromiseKept == SoundCalls => (Spec => Promise!Safety)
<1> SUFFICES ASSUME SoundCalls PROVE Spec => Promise!Safety
  OBVIOUS
<1>1. Init => Promise!Idle
  BY DEF Init, Promise!Idle
<1>2. Inv /\ LedgerInv /\ Inv' /\ LedgerInv' /\ [Next]_vars
        => [Promise!Next]_<<Asked, Right, Handed>>
  BY StepsKeepPromise
<1> QED
  BY <1>1, <1>2, Invariance, EachScenarioOnce, PTL
     DEF Spec, Promise!Safety, Asked, Right, Handed
=============================================================================
