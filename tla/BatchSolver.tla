----------------------------- MODULE BatchSolver -----------------------------
(***************************************************************************)
(* BatchSolver::contingencies_each (crates/gridoxide-core/src/batch.rs)    *)
(* with the PersistentSolver of each worker (solver.rs) and the topology   *)
(* functions both read (network.rs).  BatchSolver::solve_each is the same  *)
(* code for scenarios without outages.                                     *)
(*                                                                         *)
(* A call spawns tasks on a pool.  A task takes the solver its thread kept *)
(* from an earlier call if its key is that of this call, claims scenarios  *)
(* from a shared counter, and for each changes its copy of the Y-bus and   *)
(* the admittances of the cached Jacobian in place, solves, and undoes the *)
(* change.  An outage that splits the network is solved on a Y-bus of its  *)
(* own between two resets.  The pool may start a task on a thread whose    *)
(* running task waits inside a solve; it then runs to its end first.       *)
(*                                                                         *)
(* A Y-bus is the times each stored branch counts in it, on top of the     *)
(* values of a network.  What a solve answers is what it was computed      *)
(* from: the islands, the unknowns, the Y-bus and the cached Jacobian.     *)
(***************************************************************************)
EXTENDS Integers, FiniteSets, Sequences, Functions

CONSTANTS
  Networks,        \* the Y-bus values and bus types a call may come with
  Buses, Branches,
  From, To,        \* per branch
  HalfOpen,        \* transformers with one terminal open
  SlackBuses,
  Threads,         \* of the pool
  Dedicated,       \* the pool is this solver's own
  Calls            \* the calls made, one after the other

\* An Option is the empty set or a singleton.  PersistentSolver::new, and
\* what reset leaves; a network has at least one component.
NoSolver == [comps |-> {}, pattern |-> {}]
NoBranch == "no such branch"      \* an index beyond the branch list

\* A call solves `scenarios` on network `net`, the template having the
\* slack buses of `dead` at zero volts; a scenario takes branches out and
\* sets slack buses to zero volts.
Scenario == [outages : Seq(Branches \cup {NoBranch}), dead : SUBSET SlackBuses]
CallRecord == [net : Networks, dead : SUBSET SlackBuses,
               scenarios : Seq(Scenario)]

ASSUME BatchAssumption ==
  /\ From \in [Branches -> Buses] /\ To \in [Branches -> Buses]
  /\ HalfOpen \subseteq Branches /\ SlackBuses \subseteq Buses
  /\ NoBranch \notin Branches
  /\ IsFiniteSet(Threads) /\ Threads # {}
  /\ Dedicated \in BOOLEAN
  /\ Calls \in Seq(CallRecord)

VARIABLES
  mode, call,          \* the caller: between calls, in one, how it returned
  next,                \* AtomicUsize, counted from one
  collected,           \* under the mutex: scenario, task, answer
  tasks,               \* what the scope spawned
  stage, at, index,    \* per task: its step, thread and scenario
  ybus, buses, solver, answer,   \* per task: locals
  running,             \* per thread: its tasks, the innermost first
  slot                 \* per thread: WORKER_SOLVER

caller == <<mode, call>>
shared == <<next, collected, tasks>>
locals == <<stage, at, index, ybus, buses, solver, answer>>
threads == <<running, slot>>
vars == <<caller, shared, locals, threads>>

-----------------------------------------------------------------------------
(* The topology functions.                                                 *)

Closed(X, S) == \A b \in S : From[b] \in X <=> To[b] \in X

\* The buses branches S join to bus i.
IslandOf(S, i) ==
  {j \in Buses : \A X \in SUBSET Buses : i \in X /\ Closed(X, S) => j \in X}
Islands == [S \in SUBSET Branches |-> {IslandOf(S, i) : i \in Buses}]

\* structural_component_count: every branch counts, whatever it carries.
StructuralCount(outaged) == Cardinality(Islands[Branches \ outaged])

\* connected_components: an entry of value zero joins nothing.
Carries(y) == {b \in DOMAIN y.times : y.times[b] # 0 /\ b \notin HalfOpen}
ConnectedComponents(y) == Islands[Carries(y)]

\* classify and mark_unreferenced_islands: a slack bus at zero volts is no
\* reference, and the islands without one are pinned.
Referenced(comps, dead) ==
  {i \in Buses : \E I \in comps : i \in I /\ (I \cap SlackBuses) \ dead # {}}
Unknowns(comps, dead) == Referenced(comps, dead) \ (SlackBuses \cup dead)

Intact(c) == [net |-> Calls[c].net, times |-> [b \in Branches |-> 1]]
Key(c) == Calls[c].net                  \* network_fingerprint

-----------------------------------------------------------------------------
(* A scenario's plan.                                                      *)

Scenarios == Calls[call].scenarios
Outaged(sc) == Range(sc.outages)
Splits(sc) ==
  /\ sc.outages # <<>>
  /\ StructuralCount(Outaged(sc)) # StructuralCount({})

\* Every entry of the list is stamped, a branch listed twice twice.
Stamps(sc, b) == Cardinality({i \in DOMAIN sc.outages : sc.outages[i] = b})

\* The Y-bus of a split, built from the branches that are left.
Rebuilt(c, sc) ==
  [net |-> Calls[c].net, times |-> [b \in Branches \ Outaged(sc) |-> 1]]

Taken(y, sc) ==
  [net |-> y.net,
   times |-> [b \in DOMAIN y.times |-> y.times[b] - Stamps(sc, b)]]
PutBack(y, sc) ==
  [net |-> y.net,
   times |-> [b \in DOMAIN y.times |-> y.times[b] + Stamps(sc, b)]]

\* PersistentSolver::set_admittance at every entry of the stamp.
Updated(y, from, sc) ==
  [net |-> y.net,
   times |-> [b \in DOMAIN y.times |->
                IF b \in Outaged(sc) THEN from.times[b] ELSE y.times[b]]]
WithAdmittances(s, y, sc) ==
  [comps |-> s.comps,
   pattern |-> {[y |-> Updated(p.y, y, sc), unknowns |-> p.unknowns]
                  : p \in s.pattern}]

\* PersistentSolver::solve_with_stats on bus buffer `dead` and Y-bus y: the
\* components and the Jacobian it goes on with, found anew if not kept.
CompsFor(s, y) == IF s.comps = {} THEN ConnectedComponents(y) ELSE s.comps
PatternFor(s, y, comps, dead) ==
  IF s.pattern = {} THEN {[y |-> y, unknowns |-> Unknowns(comps, dead)]}
                    ELSE s.pattern
Solved(s, y, dead) ==
  LET comps == CompsFor(s, y)
  IN  [comps |-> comps, pattern |-> PatternFor(s, y, comps, dead)]

\* And its answer, s being the solver after it.  Without unknowns the
\* Jacobian is never filled.
AnswerOf(s, y, dead) ==
  LET unknowns == Unknowns(s.comps, dead)
  IN  [islands  |-> s.comps,
       unknowns |-> unknowns,
       on       |-> y,
       jacobian |-> IF unknowns = {} THEN {} ELSE s.pattern]

\* What the scenario's answer has to be: that of a new solver on the network
\* without the outaged branches.
Without(c, sc) ==
  IF Splits(sc) THEN Rebuilt(c, sc)
  ELSE [net |-> Calls[c].net,
        times |-> [b \in Branches |-> IF b \in Outaged(sc) THEN 0 ELSE 1]]
Alone(c, i) ==
  LET sc == Calls[c].scenarios[i]
      y == Without(c, sc)
      dead == Calls[c].dead \cup sc.dead
  IN  AnswerOf(Solved(NoSolver, y, dead), y, dead)

RightAnswers ==
  [c \in DOMAIN Calls |-> [i \in DOMAIN Calls[c].scenarios |-> Alone(c, i)]]

\* What the reuse of a worker's solver takes for granted of the calls: no
\* branch is listed twice, no scenario turns off a source, an outage that is
\* not found to split the network leaves its components alone, and templates
\* that cannot be told apart by their key have the same dead sources.
SoundScenario(c, sc) ==
  /\ \A b \in Outaged(sc) : Stamps(sc, b) = 1
  /\ sc.dead \subseteq Calls[c].dead
  /\ Splits(sc) \/ ConnectedComponents(Without(c, sc))
                     = ConnectedComponents(Intact(c))

SoundCalls ==
  /\ \A c \in DOMAIN Calls : \A i \in DOMAIN Calls[c].scenarios :
       SoundScenario(c, Calls[c].scenarios[i])
  /\ \A c, d \in DOMAIN Calls :
       Key(c) = Key(d) => Calls[c].dead = Calls[d].dead

-----------------------------------------------------------------------------
NoIndex == 0
AllTasks == 1..Cardinality(Threads)
NoTasks == [k \in {} |-> 0]

Init ==
  /\ mode = "between" /\ call = 0
  /\ next = 1 /\ collected = {} /\ tasks = {}
  /\ stage = NoTasks /\ at = NoTasks /\ index = NoTasks
  /\ ybus = NoTasks /\ buses = NoTasks /\ solver = NoTasks /\ answer = NoTasks
  /\ running = [t \in Threads |-> <<>>]
  /\ slot = [t \in Threads |-> {}]

InRange(scenarios) == \A i \in DOMAIN scenarios :
                        NoBranch \notin Range(scenarios[i].outages)

\* The head of contingencies_each: validation, the empty batch, the spawns.
Refuse ==
  /\ mode = "between" /\ call < Len(Calls)
  /\ ~InRange(Calls[call + 1].scenarios)
  /\ call' = call + 1
  /\ UNCHANGED <<mode, shared, locals, threads>>

NothingToDo ==
  /\ mode = "between" /\ call < Len(Calls)
  /\ Calls[call + 1].scenarios = <<>>
  /\ call' = call + 1
  /\ UNCHANGED <<mode, shared, locals, threads>>

Workers(c) ==
  1..(IF Cardinality(Threads) <= Len(Calls[c].scenarios)
        THEN Cardinality(Threads) ELSE Len(Calls[c].scenarios))

Spawn ==
  /\ mode = "between" /\ call < Len(Calls)
  /\ InRange(Calls[call + 1].scenarios)
  /\ Calls[call + 1].scenarios # <<>>
  /\ mode' = "running" /\ call' = call + 1
  /\ next' = 1 /\ collected' = {}
  /\ tasks' = Workers(call + 1)
  /\ stage' = [k \in tasks' |-> "spawned"]
  /\ at' = [k \in tasks' |-> "nowhere"]
  /\ index' = [k \in tasks' |-> NoIndex]
  /\ ybus' = [k \in tasks' |-> Intact(call + 1)]
  /\ buses' = [k \in tasks' |-> {}]
  /\ solver' = [k \in tasks' |-> NoSolver]
  /\ answer' = [k \in tasks' |-> {}]
  /\ UNCHANGED threads

\* A thread may begin a task when it has none, or when its innermost one
\* waits inside a solve.
Free(t) == running[t] # <<>> => stage[Head(running[t])] = "solve"
Runs(k) == stage[k] # "spawned" /\ Head(running[at[k]]) = k

KeptWhateverItsKey(t) == slot[t]                                \* a mutant

Kept(t) == {s \in slot[t] : s.key = Key(call)}

TakenSolver(t) ==
  IF Kept(t) = {} THEN NoSolver ELSE (CHOOSE s \in Kept(t) : TRUE).solver

\* The closure's head: the solver is taken out of the thread's slot, and
\* dropped when it was built for another network.
Begin(k, t) ==
  /\ stage[k] = "spawned"
  /\ Free(t)
  /\ stage' = [stage EXCEPT ![k] = "claim"]
  /\ at' = [at EXCEPT ![k] = t]
  /\ solver' = [solver EXCEPT ![k] = TakenSolver(t)]
  /\ slot' = [slot EXCEPT ![t] = {}]
  /\ running' = [running EXCEPT ![t] = <<k>> \o @]
  /\ UNCHANGED <<caller, shared, index, ybus, buses, answer>>

OutOfScenarios == next > Len(Scenarios)

Claim(k) ==
  /\ stage[k] = "claim" /\ Runs(k)
  /\ ~OutOfScenarios
  /\ index' = [index EXCEPT ![k] = next]
  /\ next' = next + 1
  /\ stage' = [stage EXCEPT ![k] = "prepare"]
  /\ UNCHANGED <<caller, collected, tasks, at, ybus, buses, solver, answer,
                 threads>>

\* The counter runs on; the solver goes back into the thread's slot.
Finish(k) ==
  /\ stage[k] = "claim" /\ Runs(k)
  /\ OutOfScenarios
  /\ next' = next + 1
  /\ stage' = [stage EXCEPT ![k] = "done"]
  /\ slot' = IF Dedicated
               THEN [slot EXCEPT ![at[k]] =
                       {[key |-> Key(call), solver |-> solver[k]]}]
               ELSE slot
  /\ running' = [running EXCEPT ![at[k]] = Tail(@)]
  /\ UNCHANGED <<caller, collected, tasks, at, index, ybus, buses, solver,
                 answer>>

Mine(k) == Scenarios[index[k]]

\* The worker's bus buffer is filled from the template and the overrides.
Buffer(k) == Calls[call].dead \cup Mine(k).dead

PrepareSplit(k) ==
  /\ stage[k] = "prepare" /\ Runs(k)
  /\ Splits(Mine(k))
  /\ buses' = [buses EXCEPT ![k] = Buffer(k)]
  /\ solver' = [solver EXCEPT ![k] = NoSolver]
  /\ stage' = [stage EXCEPT ![k] = "solve"]
  /\ UNCHANGED <<caller, shared, at, index, ybus, answer, threads>>

PrepareInPlace(k) ==
  /\ stage[k] = "prepare" /\ Runs(k)
  /\ ~Splits(Mine(k))
  /\ buses' = [buses EXCEPT ![k] = Buffer(k)]
  /\ ybus' = [ybus EXCEPT ![k] = Taken(@, Mine(k))]
  /\ solver' = [solver EXCEPT ![k] = WithAdmittances(@, ybus'[k], Mine(k))]
  /\ stage' = [stage EXCEPT ![k] = "solve"]
  /\ UNCHANGED <<caller, shared, at, index, answer, threads>>

SolveOn(k) == IF Splits(Mine(k)) THEN Rebuilt(call, Mine(k)) ELSE ybus[k]

\* The solve also pins the buses of the islands without a reference.
Solve(k) ==
  /\ stage[k] = "solve" /\ Runs(k)
  /\ solver' = [solver EXCEPT ![k] = Solved(@, SolveOn(k), buses[k])]
  /\ answer' = [answer EXCEPT ![k] =
                  {AnswerOf(solver'[k], SolveOn(k), buses[k])}]
  /\ buses' = [buses EXCEPT ![k] =
                 @ \cup (Buses \ Referenced(solver'[k].comps, @))]
  /\ stage' = [stage EXCEPT ![k] = "restore"]
  /\ UNCHANGED <<caller, shared, at, index, ybus, threads>>

RestoreSplitWithoutReset(k) ==                                   \* a mutant
  /\ stage[k] = "restore" /\ Runs(k)
  /\ Splits(Mine(k))
  /\ stage' = [stage EXCEPT ![k] = "collect"]
  /\ UNCHANGED <<caller, shared, at, index, ybus, buses, solver, answer,
                 threads>>

RestoreSplit(k) ==
  /\ stage[k] = "restore" /\ Runs(k)
  /\ Splits(Mine(k))
  /\ solver' = [solver EXCEPT ![k] = NoSolver]
  /\ stage' = [stage EXCEPT ![k] = "collect"]
  /\ UNCHANGED <<caller, shared, at, index, ybus, buses, answer, threads>>

RestoreTheYbusAlone(k) ==                                        \* a mutant
  /\ stage[k] = "restore" /\ Runs(k)
  /\ ~Splits(Mine(k))
  /\ ybus' = [ybus EXCEPT ![k] = PutBack(@, Mine(k))]
  /\ stage' = [stage EXCEPT ![k] = "collect"]
  /\ UNCHANGED <<caller, shared, at, index, buses, solver, answer, threads>>

RestoreInPlace(k) ==
  /\ stage[k] = "restore" /\ Runs(k)
  /\ ~Splits(Mine(k))
  /\ ybus' = [ybus EXCEPT ![k] = PutBack(@, Mine(k))]
  /\ solver' = [solver EXCEPT ![k] = WithAdmittances(@, ybus'[k], Mine(k))]
  /\ stage' = [stage EXCEPT ![k] = "collect"]
  /\ UNCHANGED <<caller, shared, at, index, buses, answer, threads>>

Collect(k) ==
  /\ stage[k] = "collect" /\ Runs(k)
  /\ collected' = collected \cup
       {[scenario |-> index[k], task |-> k, answer |-> a] : a \in answer[k]}
  /\ stage' = [stage EXCEPT ![k] = "claim"]
  /\ UNCHANGED <<caller, next, tasks, at, index, ybus, buses, solver, answer,
                 threads>>

\* The scope ends with its last task, and the results are handed over.
Returning == mode = "running" /\ \A k \in tasks : stage[k] = "done"

Return ==
  /\ Returning
  /\ mode' = "between"
  /\ next' = 1 /\ collected' = {} /\ tasks' = {}
  /\ stage' = NoTasks /\ at' = NoTasks /\ index' = NoTasks
  /\ ybus' = NoTasks /\ buses' = NoTasks
  /\ solver' = NoTasks /\ answer' = NoTasks
  /\ UNCHANGED <<call, threads>>

TaskStep(k) ==
  \/ \E t \in Threads : Begin(k, t)
  \/ Claim(k) \/ Finish(k)
  \/ PrepareSplit(k) \/ PrepareInPlace(k)
  \/ Solve(k) \/ RestoreSplit(k) \/ RestoreInPlace(k)
  \/ Collect(k)

Next == Refuse \/ NothingToDo \/ Spawn \/ Return \/ \E k \in tasks : TaskStep(k)

\* Some thread goes on as long as one can: which one is up to the scheduler.
Spec == Init /\ [][Next]_vars /\ WF_vars(Next)
-----------------------------------------------------------------------------
(* Properties                                                              *)

\* "Results are identical to a sequential loop" (BatchSolver::solve): every
\* answer is the one a new solver gives on that scenario's own network,
\* whatever the worker solved before it, in this call or an earlier one, and
\* whichever tasks ran in between on its thread.
AnswersAreTheirOwn ==
  \A r \in collected : r.answer = RightAnswers[call][r.scenario]

\* "Every outage is undone before the next, so a worker's solver ends each
\* call holding the intact network's admittances" (contingencies_each): what
\* a thread keeps belongs to the network of its key, and to all of it.
KeptSolverIsIntact ==
  \A t \in Threads : \A kept \in slot[t] :
    LET intact == [net |-> kept.key, times |-> [b \in Branches |-> 1]]
    IN  /\ kept.solver.comps \in {{}, ConnectedComponents(intact)}
        /\ \A p \in kept.solver.pattern : p.y = intact

\* What the caller is promised of one call (BatchAnswers).
Promise == INSTANCE BatchAnswers WITH
  asked <- IF mode = "running" THEN DOMAIN Scenarios ELSE {},
  right <- IF mode = "running" THEN RightAnswers[call] ELSE <<>>,
  answered <- IF mode = "running"
                THEN {<<r.scenario, r.answer>> : r \in collected} ELSE {}

KeepsPromise == Promise!Spec

\* "The same outage appears twice; both occurrences must agree."
\* (tests/ac_contingency_test.rs:287)
SameOutageSameAnswer ==
  \A r, s \in collected :
    Scenarios[r.scenario] = Scenarios[s.scenario] => r.answer = s.answer
=============================================================================
