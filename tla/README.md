# gridoxide: verification project

TLA+ models of the parts of gridoxide whose correctness depends on order, reuse
and bookkeeping rather than on floating-point arithmetic: TLC checks them on
small instances, and TLAPS proves the most important invariants for every value
of the constants. Paths below are relative to the repository.

1. [The system](#1-the-system)
2. [The modules](#2-the-modules)
3. [The runs](#3-the-runs)
4. [Where code and documentation disagree](#4-where-code-and-documentation-disagree)
5. [What is proved](#5-what-is-proved)
6. [What is not modelled](#6-what-is-not-modelled)
7. [The plan](#7-the-plan)

Run anything from this directory:

    tlc -workers 2 -config OuterLoops.cfg MCOuterLoops.tla
    tlapm OuterLoopsProofs.tla

## 1. The system

gridoxide solves electrical networks: power flow, sensitivities, optimal power
flow, dynamics, short circuits, state estimation and remedial actions. Almost
all of it is numerical code that runs in one thread on data it owns. What makes
the rest hard is the state kept *between* solves.

### Components, their state and their operations

| Component | State it keeps | Operations | Hard because |
|---|---|---|---|
| Outer-loop driver, `crates/gridoxide-core/src/outerloop/mod.rs` | position in the list, last loop that moved, re-solve counters, last reports | `solve_with_loops` | loops undo one another; convergence is inferred from who moved last |
| Tap control, `outerloop/taps.rs` | per controller: steps, reversals, last direction, outcome, frozen | `initialize`, `check`, `move_to` | several transformers share a bus, hunt, hit their limits |
| Reactive limits, `outerloop/qlimits.rs` | the list of switched buses | `check` | changes bus types another loop chose |
| Remote voltage control, `outerloop/remote.rs` | controllers, retyped buses, previous set-points, outcomes | `initialize`, `check` | un-pins buses, moves capability limits, loses machines to reactive limits |
| Distributed slack and area interchange, `outerloop/{slack,area}.rs` | pass counter, exhausted flag, report | `check` | a cap of their own inside the shared budget |
| Persistent solver, `solver.rs`, `jacobian.rs` | components, Jacobian pattern and values, symbolic factorization | `solve_with_stats`, `reset`, `invalidate_admittances`, `set_admittance` | four caches, four validity conditions, three callers |
| Batch solver, `batch.rs` | per call: scenario counter, collected answers; per thread: one solver and its key | `contingencies_each`, `solve_each` | a thread pool, solvers that survive the call, changes undone in place |
| Islands and the Y-bus, `network.rs` | none | `connected_components`, `structural_component_count`, `branch_stamp` | two notions of connectivity that must agree |
| Dynamics, `src/dynamics/integrator.rs`, `events.rs` | time, next event, per relay: holding, pending, spent; damping counter | `integrate` | instants that coincide, crossings inside steps, relays that move one another |
| Branch and bound, `src/opf/bnb.rs` | stack, incumbent, root bound, node counter | `solve` | four ways to stop, each with its own claim |
| Inner optimisers, `src/opf/{ipm,highs,ipopt,nlp}.rs` | iterates | `solve` | numerical |
| Continuation and Q-V, `continuation/`, `qv.rs` | segment, tangent, step, clamped machines, nose, events | `trace`, `qv_curve` | rejected and halved steps, located limit switches, a nose that may be a fold or a limit |
| DC, sensitivities, `linear/`, `dc.rs`, `ac_sensitivity.rs` | factorizations of a fixed network | flows, PTDF, LODF, DC batch | numerical |
| State estimation, `se/` | estimate, suspects | `nr`, `iterative`, bad data, observability, batch | numerical (observability is the rank of a factored gain matrix) |
| Short circuit, `shortcircuit/` | none | one solve per fault | numerical |
| Topology, `topology/`, `switches.rs`, `constrained.rs` | retained switches and the branches stamped for them, union-find forests | bus view, `set_switch`, `solve_constrained` | caches must follow a switch; ties are redundant or too few |
| Reactive dispatch, `dispatch.rs` | pinned machines, per split | `reactive_keys`, `split`, `allocate` | rounds of pinning that change the remainder |
| RAO, `src/rao/` | per perimeter: chosen actions, open branches, taps; per run: two passes, decisions for later states, scenarios | `simulate`, `search_with_open`, `scenarios_after`, `run` | speeds and snapshots, shared machines, usage limits, fall-backs between passes |
| Sparse kernels, `crates/gridoxide-sparse` | symbolic and numeric factors; a workspace, scatter targets and scale factors that outlive a call | analyze, factor, refactor, solve | long ports of KLU and AMD; what a failed call leaves behind |
| GPU back ends, `crates/gridoxide-gpu` | device buffers | batches on CUDA | FFI |
| Import, `src/{load,matpower,ucte,cgmes}.rs`, `iidm/`, `pgm/` | none after loading | parsers | formats |
| MCP server, `crates/gridoxide-mcp` | loaded networks by path with file stamps, their last solution | `Session::network`, tools | files edited between listing, stamping and reading |
| Bindings and command line, `src/{python,main}.rs`, `src/capi/` | handles | conversions | none of their own |

### How they interact

* `newton_with_loops` (`lib.rs`) builds the list of loops and hands it to
  `solve_with_loops`, which calls each loop's `check` on the solved network. A
  loop changes the *inputs* of the solve (set-points, bus types, taps) and tells
  the driver through `invalidates()` which caches of the persistent solver that
  makes stale. Loops share the bus array: reactive limits and remote control both
  write bus types.
* The batch solver runs many persistent solvers at once, one per task, and leaves
  each in a thread-local slot for the next call with the same key. It is the only
  concurrent code modelled; tasks share an atomic counter and a mutex.
* `integrate` asks the dynamic system for one Newton solve per step and per trial
  of the crossing locator, and changes the system on events and relay actions.
* Branch and bound calls any `Solver` on a box, one node at a time.
* A remedial-action run (`castor.rs`) asks the search for one perimeter at a
  time: a preventive one over the base case, the outages and the curative states
  nothing can act on; for each contingency its automatons, then its curative
  instants in turn, each on the network the one before left; maybe a second
  preventive pass over all states with what the scenarios did held in force. The
  stages hand one another the open branches and the transformers, never the
  buses. The search and the automatons share the CRAC's usage rules and limits
  (`filter.rs`) and ask load flows for margins.
* A retained switch becomes a branch with a large admittance or a pair of equality
  constraints. The bindings' `set_switch` writes its terminal status and the Y-bus
  and resets the persistent solver; the next solve finds the islands and puts
  those without a source at zero volts. A constrained solve chooses its ties
  afresh each time.
* Every Newton iteration refactors one `KluNativeSystem` with the pivots it has;
  if that meets a zero or a solution that is not finite, the same call factors
  afresh, and later calls go on from whatever either left.
* The continuation calls the corrector for each step and for each trial of a
  locator, and the reactive limits' test after each; the dispatch splits what a
  solved bus injects. The MCP session reads a network through `load` and trusts
  it for as long as the files' stamps stay what they were.

### What makes each correct

*Driver*: converged means all loops accept one state; no loop sees a stale
solve; it ends within the budget. *Loops*: bounded travel, outcomes that are true of
the state returned, agreement on bus types. *Batch*: an answer does not depend on what the worker
solved before, or on the schedule. *Dynamics*: instants are exact and no trip is
owed, repeated or missed. *Branch and bound*: what is called optimal, infeasible
or a gap is so. *Remedial actions*: an action is used only where a rule offers
it, the limits are kept across stages, a plan is no worse than what it was chosen
over, and its parts belong together. *Continuation*: the walk stays on the curve
and never passes a nose unreported. *Dispatch*: what is missed is what no machine
has room for. *Session*: no answer is older than the files were. *Switches*: a
solve takes for energized what the conducting switches connect to a source, and the
ties are neither redundant nor too few. *Sparse systems*: nothing lies below the
blocks, no fill is dropped by pruning, and a solution is computed from the values
of its own call.

The hazards behind these are listed, with their lines, in `PROJECT.json`.

## 2. The modules

| Module | Models | Used by |
|---|---|---|
| `ControlFixedPoint` | what the driver promises, without the walk | `OuterLoops` (refinement) |
| `OuterLoops` | `solve_with_loops` and the cache it is responsible for | `MCOuterLoops`, `OuterLoopSystem`, `OuterLoopsProofs` |
| `OuterLoopSystem` | remote control, a balance (slack or areas) and reactive limits on the driver of `OuterLoops` | `MCOuterLoopSystem`, `OuterLoopsProofs` |
| `TapControl` | `TapLoop` with `TransformerVoltageControl::check` | `MCTapControl`, `TapControlProofs` |
| `BatchAnswers` | what a batch promises its caller | `BatchSolver` (refinement) |
| `BatchSolver` | `contingencies_each`, the persistent solver's contents, the topology functions | `MCBatchSolver`, `MCBatchUnsound`, `BatchSolverProofs` |
| `DynamicsRun` | `integrate` with events and relays | `MCDynamicsRun`, `DynamicsRunProofs` |
| `BranchAndBound` | `BranchAndBound::solve` | `MCStudies`, `BranchAndBoundProofs` |
| `Remedial` | the CRAC: states, rules, limits, what actions do; what a search and automatons promise (`Answers`, `AutomatonsMay`) | the four below |
| `Automatons` | `simulate`: the automatons of one contingency | `RaoScenario` |
| `TreeSearch` | `search_with_open`: one perimeter | `RaoScenario` |
| `RaoScenario` | `scenarios_after` for one contingency: automatons, then a search per curative instant | `MCRaoScenario`, `RaoScenarioProofs` |
| `RemedialPlan` | `castor::run`: both passes, all contingencies, the fall-backs | `MCRemedialPlan`, `RemedialPlanProofs` |
| `Continuation` | `trace` | `MCStudies`, `StudyProofs` |
| `ReactiveDispatch` | `reactive_keys`, `split`, `allocate` | `MCStudies`, `StudyProofs` |
| `NetworkSession` | `Session::network` and the tools that keep a solution | `MCStudies`, `StudyProofs` |
| `SwitchedNetwork` | the bus view, retained switches as branches and as equalities, `set_switch`, both solves | `MCStudies`, `StudyProofs` |
| `BlockTriangular` | `btf_order`: `maxtrans` and `strongcomp` | `MCStudies`, `StudyProofs` |
| `SparseFactors` | what a factorization's pattern is, between the two below | both |
| `LeftLookingLU` | `factor_block`: searches, pivots, pruning | `MCStudies`, `StudyProofs` |
| `Refactorization` | `KluNativeSystem`: `refactor` and `solve_packed` over its calls | `MCStudies`, `StudyProofs` |

A module `XProofs` holds the theorems about `X` (section 5), a module `MCX` the
instance TLC explores. `OuterLoopsProofs` speaks of `OuterLoopSystem` too,
`RaoScenarioProofs` of `Automatons` and `TreeSearch`, `StudyProofs` of
`Continuation`, `ReactiveDispatch`, `NetworkSession`, `SwitchedNetwork`,
`BlockTriangular`, `LeftLookingLU` and `Refactorization`.

Each module keeps the control of its source and replaces what the physics
answers by "any value of a small set". A property that holds under *any* answer
holds under the real one, so this widens what the passing runs show; a
counterexample, on the other hand, needs an argument that the answer it uses can
occur, and section 4 gives it.

**OuterLoops.** `pc` follows the nested loops of `solve_with_loops`: `first`
(the solve before the list is walked), `walk` (the tests before a loop is
consulted), `check`, `invalidate`, `solve`, `done`. `ok[i]` says whether loop
`i` would accept the current state and takes any value at each solve. The bus
values, the bus types and the taps have version numbers; the Y-bus and each
cached object remember the versions they were built from, so that "stale" is a
comparison. `Reset`, `InvalidateAdmittances` and the restamping are the three
arms of the match on `invalidates()`.

**OuterLoopSystem** extends it: the check of each loop becomes a concrete
action, and an action of the driver is taken together with the loop's part.
Bus types, limits, the switch list, the outcomes and the report of the balance
are variables; the solved quantities are open. The balance is distributed slack
or area interchange, chosen at the start as the options do; they share the pass
cap and differ in what they look at (one deviation, or one per area) and in whom
they can correct (an area without a participant is reported and left alone).
`initialize` of remote control is the two functions `Unpinned` and `Retyped`, in
the order of its two passes.

**TapControl.** One check is a sequence of steps: group the controllers in play
by the quantity they hold, take the groups in order, within a group ask the
controller with most authority first for the position nearest to what is
missing, and pass it through `move_to` (cap, clamp, saturation, direction
budget). Positions, targets and table entries are integers; the sensitivity of
a controller is an integer that is 0 when the code would call it insensitive.
`Disturbed` is another loop's turn between two checks.

**BatchSolver.** A task is a spawned closure with its stage, its thread, its
Y-bus, its buses and its solver. A Y-bus is how many times each branch counts in
it, so an outage applied twice or not undone is visible; a cached Jacobian is
the Y-bus and the unknowns it was built for; an answer is what it was computed
from. Rayon is external: a thread runs its innermost task, and may start another
task of its pool when the running one waits inside a solve (`Free`, `Runs`).

**DynamicsRun.** Time is counted in ticks, the resolution to which the locator
finds a crossing; `eps` is below a tick. `cond[i]` says whether relay `i`'s
trigger holds; inside a step it changes at most once, at a discontinuity in any
way. The step's stages are those of the code: choose the step (`Reaches`),
shorten it onto the first crossing (`Lands`), events of the instant, one pass
over the relays, the actions due.

**BranchAndBound.** Bounds are in half units: odd numbers stand for fractional
values. The problem is the function from feasible whole points to the cost of
their best completion, chosen at the start from all functions; the inner solver
answers a box with any value that no point of it improves on, or says it holds
nothing, which is then true, or fails.

**Remedial, Automatons, TreeSearch, RaoScenario, RemedialPlan.** A configuration
gives every element a position: a branch is closed or open, a shifter is on a
tap, an injection is shifted. A load flow is a function from a configuration to
the margin of each CNEC, chosen at the start (`case`). Rules, limits and offers
are the code's; the linear optimizer of range actions is any choice of permitted
positions that gains. `Automatons` steps through speeds, measurements, shifters
and shifts; `TreeSearch` through depths and leaves. `Remedial` states what each
promises its caller: `Answers` (what a search may return for a question) and
`AutomatonsMay` (what automatons may have done). `RaoScenario` runs the two for
one contingency, and `SearchKeepsItsPromise` and `AutomatonsKeepTheirPromise`
check them against those; `RemedialPlan` then runs the whole optimization with
the promises in place of the algorithms. The cut lets TLC see a run with two
passes and several contingencies, which the step-by-step searches would put out
of reach.

**Continuation.** Arclength is counted in ticks, the resolution of the locators.
Lambda rises by one a tick up to the fold and falls beyond it; where the fold is
depends on which machines still hold their voltage, and each machine reaches its
limit at an arclength of its own. One action per outcome of an attempt: rejected,
a limit located, a nose located, accepted (with the step grown or halved), the
target or the end of the budget. A probe may fail anywhere.

**ReactiveDispatch.** Powers are whole numbers; a free machine's share is a
fraction that is only compared. One action per round of `split`.

**NetworkSession.** A call lists the files, stamps them one by one, compares, and
if it must, lists again and reads them one by one; `Edit` may come between any
two of these steps, removing, adding or rewriting a file. A version is the time
of an edit, which is the stamp.

**SwitchedNetwork.** A bus is named by one of its nodes, so the union-find is the
map from nodes to names. `model` is what was imported (positions, switches out of
service, which are retained, and how they are treated), `dead` the buses the file
itself puts at zero volts, `branches` the regularized switches, `partition` the
components the solver has cached, `result` what a solve returned: the buses taken
for energized and the rows that are ties. Any admittance different from zero
connects; voltages are not modelled.

**BlockTriangular, LeftLookingLU, Refactorization.** Patterns are sets of rows by
column; values are open: any row a column reaches may be its pivot, and a pivot
may be zero at any time. The search for what a column reaches is a step per entry,
in any order the file may have them: `trail` and `eliminated` are the two ends of
the code's `stack`, `unscanned` its `ap_pos`. In `BlockTriangular` too each look at
an entry is a step, on the code's explicit stacks (`jstack`, `istack`, `cstack`; the
two searches have a `jstack` and a `pstack` each, never in use together, and share
the variables). A cursor into a column is the set of rows before it (`cheap`) or
after it (`pstack`); `entered` and the pair of `time` and `flag` are the code's two
kinds of marks. What a factorization leaves is stated once
(`IsFactor` in `SparseFactors`): shown of `LeftLookingLU`, whatever it prunes, and
assumed of each factor in
`Refactorization`. There a place of the workspace is zero, written in this
column, or left over from an earlier one, and each stored column remembers the
call whose values made it.

## 3. The runs

`PROJECT.json` lists the properties of each run; every one has a mutant, a
plausible bug in the mapped code that TLC finds with the run's own instance.

| Run | Instance | States | What it shows |
|---|---|---|---|
| `outer_loops` | 3 loops, one of each invalidation, budget 4 | 3,257 | converged is a common fixed point; the run ends |
| `tap_control` | 2 parallel transformers (one with a non-monotonous table) and one imported off its table, 3 measurements, 3 sensitivities, 1 disturbance | 785,934 | bounded travel, what Stable and AtLimit mean |
| `outer_loop_system` | 4 buses, a chain of two remote machines, slack or 2 areas, budget 3, 2 passes | 776,193 | the loops together |
| `batch_solver` | 4 buses, 5 branches with a half-open one, 5 calls, 2 networks, 2 threads | 2,336 | answers do not depend on history or schedule |
| `dynamics_run` | 5 events, 3 relays, 4 ticks in steps of 2 | 215,000 | instants, onsets, owed trips, damping, termination |
| `rao_scenario` | 2 lines, a shifter, a generator; one automaton speed, 2 curative instants | 30,383 | automatons and searches keep their promises |
| `rao_plan` | 2 contingencies, 3 network and 3 range actions, 2 passes | 93,049 | the plan as a whole |
| `studies` | 2 machines on every curve, 3 machines at a bus, 2 files with 3 edits, a ring of 3 switches and one more on 5 nodes, matrices and blocks of dimension 4, a system of 2 blocks over 3 calls, every problem on a 2 by 2 grid with costs 0..2 and 6 nodes | 2,000,161 | continuation, dispatch, session, switches, the sparse system, branch and bound |

*outer_loops.* `ConvergedIsFixedPoint` is the run's purpose: with three loops a
walk can be disturbed by the loop before, by the loop after and by the first
again, which is what the wrap-around test must see through. Budget 4 lets each
loop move and the first move twice; a larger budget only repeats the pass
structure. `KeepsPromise` states the same as an implementation of
`ControlFixedPoint`, in which nothing happens after the verdict and a verdict is
given; its fairness half is the driver's termination.

*tap_control.* The measurements reach beyond both ends of what the tables can
produce; a shift of 1 and tables two wide make a controller travel over several
checks, 2 reversals make it hunt. The code's constants differ in size, not in
the comparisons. Two reversals over
tables two wide give each of the two controllers at most four steps, hence at
most eight re-solves, and the disturbance one more: a budget of ten is never
exhausted (`EndsWithinBudget`, which is why it is a safety property).
`StableMeansSettled` speaks of the controllers that stand on their tables. The one
imported off its table is passed over by every check that finds its group outside
the deadband, and what it then reports may be of an earlier check: that is the
violation of `tap_stale` (section 4), on the same instance.

*outer_loop_system.* `m1` on bus `gen` holds bus `held`, and `m2`, which stands
there, holds bus `far`. `gen` starts PQ and is turned PV, `far` starts PV and is
un-pinned, and `held` is un-pinned for `m1` and turned back for `m2`: with the two
passes of `initialize` swapped, or made one, it would not be (the first mutant of
`SwitchedOnce`, which says which buses hold a voltage without saying by which
pass). Reactive limits can then take either machine away. Of
the two areas only `north` has a participant, so an area that cannot be balanced
stands beside one that can. Two passes in a budget of three leave one re-solve
for another loop before, between or after them; `ConvergedControlsAgree` also says
that the balance has no third (its second mutant), and excuses it from being kept
once they are spent.

*batch_solver.* The calls: one with a severing outage, one in place and one with
a parallel branch; an empty one; one on the same network that finds the solvers;
one refused; one on another network that must not find them. Two threads give
every nesting (a task started while the other one's solve waits).
The module asserts that this instance satisfies `SoundCalls`, the hypothesis of
the theorems. `KeepsPromise` implements `BatchAnswers`: each scenario of each
call is answered once, at its own index, and every call returns.

*dynamics_run.* An event before the start, one that names nothing, two at one
instant between step boundaries, one past the end; a one-shot relay, a repeating
one without delay that may be out of bounds when the run starts, one whose action
names nothing. Four ticks in steps of two leave room for a crossing inside a
step, one at its end, an expiry between boundaries and a step after them. The
locator's trial solves converge in this run. `CrossedAtIsTheOnset` allows a
relay whose onset another relay's action caused (`Unseen`) one step, which is
what the code takes (section 4).

*rao_scenario.* Two line automatons of one speed whose rules watch what the other
one cures, and two shifter automatons of that speed on one machine, are the
smallest instance in which the snapshot, the flows as they stand and the bound
about the initial tap differ. Two rounds of two shifts reach both caps. The first
curative instant may spend two remedial actions and the second one, so a
limit carried over or counted twice shows; a combination and its members are
offered together, so ties and exclusions occur. Two preventive networks, one
already on the automatons' positions. The only other speed holds an action that is
refused, so that a faster speed cures what a slower one watches does not occur;
that each speed measures anew is in `NextSpeed`. No action is far from any CNEC
here (section 4 shows why).

*rao_plan.* The first contingency has an automaton and a curative instant with a
line, a shifter and a generator, the second one a curative state nothing can act
on, which is pulled forward. One action is offered in both instants and one
machine to both perimeters, so that a decision can be held, withheld, inherited
or undone; every loading decides whether the second pass runs and what it falls
back to.

*studies.* Eight models that share no state, explored one at a time. Continuation:
folds at 1 to 6, limits from the start to beyond the walk, steps of 1 to 4 ticks
that may be rejected, halved and doubled, trials that may not settle: a step may
hold a fold, one or two limits, or a fold and a limit in either order. Dispatch:
three machines with limits on both sides of zero, keys 0, 1, 3 or none, totals in
and out of reach, the machines in the order of their keys since nothing tells
them apart: enough for two rounds of pinning at opposite limits. Session:
two files and three edits, so that a file may be edited twice in one call, or in
two calls, or removed and put back. Switches: every position and every retained
subset, one switch in or out of service, three assignments of machines with one
or two sources, any dead buses the file's positions do not reach, both
treatments, every switch operated at any moment: the ring closes and opens loops
of ties, the fourth switch severs and joins a line with a source of
its own. `EnergizedAsConnected` leaves aside buses dead at import, and says nothing
while a retained switch out of service is closed: the code takes it for a closed
one, against the documentation (section 4). It does cover a retained switch out of
service that is open, and a merged one in any position.
Block form: every matrix of dimension four with at most two entries in a column,
empty ones included, up to the names of the rows: matchings that must be augmented, that stay incomplete, and
components of every size. Factorization: every block of four with a full diagonal
and at most one entry without its mirror; symmetric patterns are what pruning
acts on, the one entry is what makes rows swap past one another. Refactorization:
a block that fills in whichever rows are pivots and a dense one, three calls, so
that one may fail after a failure. Branch and bound: the first column has the
fractional upper bound 1.5. Two
columns are what it takes for a branch on one to leave the other open and for a
box to be reached along two paths; six nodes are fewer than a full tree, so the
budget stops it with open nodes, at the last node and not at all.
`GapPercent = 40` makes both outcomes of the final test occur. A node nobody
answered is excluded from the claims here (section 4 says why).

**Deadlock** is not checked in any run: every modelled program ends, and its
last state has no successor. That a run does not stop early is what
`KeepsPromise` (driver, batch) and `Terminates` (integrator) say where the
program has more to do.

**Fairness.** Weak fairness of the whole next-state relation, no more. For the
driver and the integrator it says that a thread that can go on does. For the
batch it says that some thread goes on, which the pool's scheduler guarantees; no
fairness between tasks is assumed and none is needed, since a task works on as
long as there are scenarios. The other modules state no liveness: their loops
have explicit caps, and where the end is in question it is a bound
(`EndsWithinBudget`).

## 4. Where code and documentation disagree

Four runs expect a violation of one property that quotes the repository.

* **batch_half_open** (`network.rs:394`). `structural_component_count` counts a
  half-open transformer as an edge, `connected_components` does not. With such a
  transformer beside the only line to a bus, that line's outage is done in
  place, and its answer depends on which scenario the worker met first.
* **rao_held_redispatch** (`rao/linear.rs:2551`). A column decided for a curative
  state by the second preventive pass must not be in force in the network it
  shares with the preventive states (2569-2572). The loop over taps skips such
  columns, the loop over injections does not: with a generator that only a
  curative rule offers, the preventive network comes back with it moved.
* **lambda_max** (`continuation/mod.rs:1058`). The event path takes a limit after
  which lambda falls for the nose, without asking whether it still rose before. A
  step that passes the fold and then a limit reports the limit, and a
  `lambda_max` below points already traced. The first step is the one at risk:
  no shorter one has come near the fold before it.
* **tap_stale** (`outerloop/taps.rs:447`). "`InDeadband` is set where the deviation
  was actually measured to be inside" (478-482), and means that the quantity is
  inside (96). It is not taken back: a controller off its table is called InDeadband
  with its group (413-417) and, when another loop has taken the quantity outside
  again, skipped before anything is written (447-449). If nobody else in the group
  can move, the loop answers Stable and the controller still reports InDeadband.

Others met while reading, without a run of their own.

*Outer loops.* The slack report's `converged` is never taken back when another
loop's re-solve brings the deviation back and the cap is spent (`slack.rs:228`
against 100-101). The test for a bus that is held locally as well looks among
controllers filtered to those that hold another bus and finds nothing
(`remote.rs:243` against 237-240). InDeadband, "The controlled quantity is inside
the deadband" (`taps.rs:96`), is set from the predicted remainder (440). A controller that moves keeps the outcome
of an earlier check, so a run that ends on the budget or on another loop's failure
may report InDeadband where 118-120 promise Unfinished. A group
is said to use the tightest deadband (`taps.rs:405-407`); the code takes the
first controller's (408-410). AtReactiveLimit is documented as the doing of
reactive limits (`remote.rs:93-95`) and is set for every controller whose bus is
not PV, a slack bus included (320-323).

*Batch.* An outage that lists a branch twice takes it off the Y-bus twice in place
(`batch.rs:519-523`), but once when it splits. An override of a slack bus's
voltage to zero changes which islands are live, and with it the unknowns, which
`scenario.rs:17` means to exclude.

*Dynamics.* Relays are looked at once per accepted step, after the events: a
condition that ends inside a step and is restored by an event at its end was
never seen to stop (`integrator.rs:583` against `events.rs:277-280`). The onset
that one relay's action causes in another is seen by the next step's pass, and
reported and timed from there (616-669 against `events.rs:339-340`). A relay
whose condition holds at the start never acts (297-301 and 592 against
`events.rs:267`). A run that ends on a failed Newton step leaves the failed
iterate in `x0`, `v0` (676-677 against `dynamics/mod.rs:250`).

*Branch and bound.* A node whose relaxation fails is dropped and the tree still
counts as explored: gap zero, `Optimal` (`bnb.rs:191` against 105). The
interior-point method does fail, with `Other("iteration limit")`
(`ipm.rs:593`). `relative_gap` is documented as "Stop once ... falls below this"
(`bnb.rs:50`); it is compared after the search only (273).

*Remedial actions.*
* Curative perimeters are handed `network.buses`, so an earlier redispatch is not
  there (`castor.rs:878-890`, 926-938, against `search.rs:265-270`). A redispatch
  decided by the second pass is withheld from the curative searches
  (`castor.rs:847-850`) and applied by none of them (765-768).
* The final assessment reads a curative state nothing can act on, if a later one,
  in the automatons' or the preventive network.
* A tap decided for one contingency's curative state is applied and reported in
  every contingency's scenario; decided set-points count against no usage limit.
* The test `PossibleCurativeImprovement` (`search.rs:191-199`) leaves out the
  floor at zero that `enforce_curative_security` puts under the target.
* When the network is rebuilt, what a chosen action does is looked up among the
  candidates (`search.rs:826-832`): its own, else the first combination that
  contains it, although the comment above says an action is not to be taken "from
  a combination that merely happened to contain it". With `skip_far_actions`, an
  action far from the limiting CNEC is no candidate by itself and a combination
  with a near member is one. Two combinations that share such an action, the second
  of which wins, leave the first one's other member applied: nobody chose it, the
  leaf was not measured with it, and `open_branches` is no longer "Derivable from
  `network_actions`" (259). This came out of the proof of
  `SearchKeepsItsPromise`, which holds where nothing is dropped for being far.
* The sign of the CRAC's angles is missing where taps are
  applied without a solver (`search.rs:983`, `evaluate.rs:738-741`).

*Continuation.* The corrector's status after an event is not looked at
(1027-1037). The event's point is marked Upper whatever side of the nose it is on
(1051). A located nose is reported at the step's end, not at its own arclength
(1158); the target's point keeps the overshoot's. A step floor overwrites
NoseReached, and a limit on the lower branch overwrites the nose found before
(1058 does not test `critical`). `MissedQLimit` (`events.rs:52`) is constructed
nowhere. `locate` may return the side before the event when its bracket closes
(639).

*Dispatch.* Machines pinned at opposite limits in one round both stay pinned. Three
machines with equal keys, one with at most 1, one between 4 and 20, one with at
most 3.5, and 10 to split: the first round pins the first at 1, and the total
ends at 8.5 although the second has room; a free machine with key zero gets
nothing and is not pinned (against `dispatch.rs:39-44`). `NothingIsLeftOnTheTable`
says what does hold.

*Session.* A directory is listed twice, for the stamps (`session.rs:123`) and by
`load`: a file added between the two, read and removed is served until something
else changes. Two edits in one tick of the file system's clock share a stamp.
`.XML` files are watched and not read.

*Topology.* A retained switch that is out of service and not open is stamped, or
constrained, as closed (`bus_view.rs:220-228`, `switches.rs:138-157`), against "An
out-of-service switch conducts nothing regardless of position"
(`topology/model.rs:82-83`). A constrained solve calls the switch that closes a
loop indeterminate, although the flows of the whole loop depend on where it was
pinned (`constrained.rs:95-121`). `set_switch_open` refuses every switch of a
network whose switches are constraints, against `switches.rs:711-714`. Flipping a
switch changes the bus types and the number of unknowns when it islands something
(`constrained.rs:60-64` says values, not the pattern). `set_switch` of the
bindings is documented to call `invalidate_admittances` (`python.rs:1531-1537`)
and calls `reset` (1569), which is what it takes. Closing a switch onto a bus the
file left dead never energizes it (`network.rs:244-251`, `cgmes.rs:2357-2364`).
`batch.rs:387-389` says `connected_components` goes by structural entries; it
goes by values (`network.rs:190-200`).

*Sparse systems.* The workspace is "guaranteed all-zero on entry and guaranteed
all-zero again on return" (`klu_native/kernel.rs:559-560`); the return on a zero
pivot (605-607) leaves the column's rows of L in it. It is harmless, which is
what `AnswersAreOfTheirCall` and its proof show. The comment on `prune` (287)
says that the rows that are not pivotal come first; the code puts the pivotal
ones there (305). When both the refactorization and the fresh one fail, the
off-diagonal arrays stay empty (`refactor.rs:120-152`, `mod.rs:356-363`): a
public `solve` after that would index out of bounds instead of returning `None`
(`solve.rs:92`); no caller does so.

## 5. What is proved

All proofs are checked by TLAPS from the specifications, with the constants'
named assumptions (`LoopsAssumption`, `TapAssumption`, `BatchAssumption`,
`RunAssumption`, `BnbAssumption`, `RemedialAssumption`, `SpeedAssumption`,
`SearchAssumption`, `ScenarioAssumption`, `SystemAssumption`,
`ContinuationAssumption`, `SessionAssumption`, `FactoringAssumption`,
`DispatchAssumption`, `SwitchingAssumption`, `BlockAssumption`, `SparsityAssumption`), which TLC evaluates on every
instance. Three results have a hypothesis of their own; it is
stated in the theorem and named below.

* **OuterLoopsProofs**, for any number of loops, any kinds, any budget. What
  `ConvergedIsFixedPoint` needs is not in it: that at each point of the walk the
  loops *visited since the last re-solve* accept the state. `Visited(j)` says
  which those are, from `pos`, `before` and `lastUnstable`; `WalkInv` ties the
  three together. `CacheInv` gives the versions at each stage and yields
  `ConsultedOnCurrentSolve` and `ReturnedStateIsSolved`; `CountersInv` the
  accounting. `Refinement` maps every step to one of `ControlFixedPoint` or a
  stutter.
* Also there, the loops together, for any buses, machines, areas and any list of
  the three loops. Every step of `OuterLoopSystem` is one of the driver
  (`SystemRunsTheDriver`), so `IInv` holds of it. `SysInv` adds that a switched bus
  is PQ and at a limit, and an unswitched one has the type remote control gave it
  (`BusInv`, for `SwitchedOnce`; the two passes leave PV the buses that
  `HoldsAVoltage` names); that a layout which no longer fits the bus types
  is on its way out of the cache (`PatternInv`, for `PatternFitsBusTypes`: remote
  control changes types in `initialize` only, before there is a cache); and that
  what a loop reported is still true while it counts as visited (`ReportInv`).
  With `AcceptedInv` the last gives `ConvergedControlsAgree`, and `CapInv` its
  bound on the balance: each pass that moved is among those it counts.
* **TapControlProofs**, for every table and every answer. `StepsBounded` holds
  because each reversal grants at most one more width of the table: `StepsInv`
  charges the way since the last reversal to where the controller stands (`Run`).
  `FrozenIsFinal` needs that a frozen controller is in neither worklist
  (`WorkInv`). `OutcomeInv` follows one check: while nothing has moved, every
  controller already dealt with is `Accounted` for, and the lead of the group at
  hand misses its target by more than its deadband; a move that changes nothing
  was to the nearest position of the table (`PutIsNearest`), so AtLimit is said at
  its ends only. It yields `StableMeansSettled`, with `ReasonInv` (a
  frozen controller reports why) and only for controllers on their tables, and
  `AtLimitIsExtreme`.
  `EndsWithinBudget` is proved under a bound on the instance: each re-solve is
  charged to a step of some controller or to a turn of another loop
  (`BudgetInv`), so a budget above the number of grantable steps and turns is never
  spent. The instance TLC explores satisfies that bound.
* **BatchSolverProofs**, for any network, any number of threads and any sequence
  of *sound* calls. `TaskInv` says what a task holds at each stage, `SlotInv`
  what a thread keeps; nesting needs no special case because a task's solver is
  its own from the moment it is taken. `SoundCalls` is what the code takes for
  granted: no branch listed twice, no source turned off by a scenario, and an
  outage done in place leaves the components alone. The last is false for
  half-open transformers, which is the finding `batch_half_open`; the second and
  the first are in the list above. `LedgerInv` follows the shared counter: every
  scenario below it is collected once or with one task, none with two, and a task
  stops only when the counter is past the last. With `Inv` it gives `PromiseKept`:
  every step of the pool is a step of `BatchAnswers` or a stutter, where a call
  begins as `Ask`, handing an answer in is `Reply` and the join is `Done`. It needs
  a pool with at least one thread, which a rayon pool has; with none, a call would
  return with nothing answered.
* **DynamicsRunProofs**, for every schedule, set of relays and step. A pending
  delay's expiry is never behind the clock (`DelayInv`), the events not yet taken
  lie ahead (`ScheduleInv`), and the damping counter and the quiet steps add up.
  `CrossedAtIsTheOnset` and `OwedTripsHappen` follow from `NoticeInv`: a condition
  not yet noticed began at this instant, or after the relays were last looked at
  through another relay's action (`FreshInv`); one that is remembered and still
  owed is waiting (`WaitingInv`); and a waiting one is remembered, so that its own
  action is not taken for a new onset. They assume `TrialsConverge`, as the run
  does: a locator whose trial solve fails takes the step's end.
* **BranchAndBoundProofs**, for every problem, tolerance, gap and budget. The
  invariant says where each solution is: in an open box, or no better than the
  incumbent (`NothingLost`). Branching keeps it because a whole point is never at
  the odd value (`ChildrenHold`), pruning because relaxations bound their boxes,
  improving because incumbents only get better. `RootFirst` gives that the root's
  bound exists whenever there is an incumbent. The claims follow at the end.
* **RemedialPlanProofs**, for any CRAC, loading, number of contingencies and
  instants. `AllowedInv` gives `ActsOnlyWhereAllowed`: it must also speak of the
  scenario being built and, in the second pass, of the first pass's plan, which
  may come back. `BestInv` gives `TheBestOfWhatWasTried` from the comparison and
  the last test; it needs that a worst margin exists (`SmallestExists`, which
  rests on margins bounded below in `RemedialAssumption`, since the set of
  CNECs need not be finite) and that every network is a configuration
  (`GridInv`). `CoherentInv` gives `CoherentPlan`: perimeter by perimeter, what
  differs from the preventive network was touched by what is reported. The proof
  uses of searches and automatons only `Answers` and `AutomatonsMay`.
* **RaoScenarioProofs**, for any CRAC and loadings and whatever the linear
  estimates say; `RemedialPlanProofs` and this module meet at `Answers` and
  `AutomatonsMay`. `AutoInv` says at every step of the automatons what the
  promise says of the last: what has fired was allowed to (`ActedInv`), all of a
  speed are decided by one snapshot (`SnapshotInv`, for `SameSpeedSeesSameGrid`), the
  unconditional ones have fired when their speed is past (`ForcedInv`) and every
  element stands where what acted may have put it (`StandInv`).
  `NoFurtherThanNeeded` is an action property: settling takes the smallest shift
  seen to secure. For searches, `TakenInv` keeps what has been taken compatible and
  within the limits, `LedgerInv` keeps the winner ahead of every offer looked at
  (for `WinnerIsTheBest`), and `PromiseInv` says a depth's
  leaf is the network handed in with the actions taken applied and nothing else,
  and better than doing nothing if there are any. Its step is `RebuiltFromTaken`, which needs
  `NothingIsFar`: that no action is dropped for being far from the limiting CNEC.
  That is the default (`skip_far_actions`), and section 4 shows what happens
  without it.
* **StudyProofs**, for any set of files and any edits. `SessionInv` ties
  four clocks: what the files are and were when the call began (`ClockInv`), the
  stamps (`StampInv`: no older than the call), what has been read (`LoadInv`: a
  file that still shows its stamp was read as stamped) and what is kept and
  served (`KeptInv`, `ServedInv`). The order stamp-then-read is what makes
  `LoadInv` inductive: an edit after the stamp spoils the stamp, never the read.
  And for every curve and option of the continuation, `WalkInv`: no machine is
  past its limit where the walk stands (`WithinLimits`), and beyond a nose the
  nose is recorded. A located limit need not be exact for this, only the clamping
  that goes with it. `LocatedInv` adds that lambda is what the ticks up to here add
  up to, each on the curve of the machines clamped before it; `TicksAddUp` is its
  step, because clamping a machine where the walk arrives changes no earlier tick.
  `TheWalkStaysOnTheCurve` follows.
  Of `Refactorization`, for any blocks, factors and calls: the workspace need not
  be clean; what it needs is that a place some earlier column of this block
  has been through is zero before a column starts (`BeforeColumn`), and that a
  place no earlier column has been through is scattered onto before it is read
  (`FirstTouchIsScattered`: elimination puts into a place only what an earlier
  column holds there). `InColumn` carries this through a column's elimination,
  whose order must not visit a place before all that is put there has been; this
  is where `FactoringAssumption` is used. With `PassInv` (earlier columns are of
  this call, the targets of these pivots) the theorem `AnswersOfTheirCall`
  follows.
* Also there, what is computed over data of any size. A sum or a set of unions is
  a fold over a finite set, which the code's loop is; the library's induction
  theorems cannot be used (they take a predicate), so each fact about a fold is
  proved by the least set for which it could fail (`SetInduct`, from the
  well-founded order of the finite subsets), and each fact about a loop by the least
  number of passes (`Induct`).
  - `TheSplitIsComplete`, for any finite set of machines: a round that does not
    settle pins a machine, so the rounds are enough. If the split ends with
    machines left, each of their shares is within its limits, hence the whole
    is (`SharesAddUp`); if with none, the last ones pinned were all beyond the same
    limit or some are pinned at opposite ones (`LastPinned`, for `AllAtTheEnd`).
  - `EnergizedIsConnected`, for any nodes, switches, lines and sources. `SwitchInv` says
    that branches and remembered components agree with the positions, and that only
    retained switches move. A retained switch is taken by its position alone, so the
    theorem excepts the states in which one out of service is closed
    (`TakenAsItConducts`). Labels are
    known by the sets they respect: a union respects what was respected and does
    not part its ends (`UnionRespects`, `JoinedRespects`). Buses that no line or
    closed switch leaves are nodes no link leaves (`BusesAndNodes`), and `Fed` is
    said in these words, so the two agree. `InOrderIs` is what lets `BranchOf`,
    which counts, find the branch that `regularized_branches` stamped.
  - `TiesAreASpanningForest`, for any network and either kind of unknown:
    `TiesSoFar` holds after every switch. That no tie is redundant is a set for
    each that the tie alone leaves; a new tie may leave that set too, and then the
    group it comes from is moved to the other side (`Flipped`).
  - `PruningLosesNothing`, for any block, order of entries and choice of pivots.
    `PlacesInv` keeps the two permutations inverse with the pivots in front, which
    is why the code's test for a displaced row that was a pivot never says yes;
    `ColumnInv` is `IsFactor` by rows, since places still change; `PruneInv` says
    that what a cut column no longer shows is in the column of a pivot it does
    show. `SearchInv` is the search: whatever has been scanned is flagged, and
    comes after. It knows of the searched entries only; `ReachIsClosed` extends it
    to all by going down from the last place.

  - `TheFormIsFound`, for any pattern and any order of its entries. Of the matching,
    `PathInv` follows the path of `augment`: what a failed search has entered is a set
    of columns whose rows are all matched to columns of the set. `HallInv` adds these
    sets up (`FailedSearch`; a later path cannot enter them, `PathAvoids`), so at the
    end as many columns were flipped as some set has too few rows
    (`FlippedAreMissing`). Of the search for the blocks, Tarjan's, `low` is seldom
    the first node that can be reached; `LowInv` says what it is good for: every set of nodes
    of the stack that edges do not leave but for closed blocks contains, with a node,
    the one entered at its `low`, and what was entered above a node of the path has a
    `low` no less than that node's. With `ParentInv` (what is above a node was reached
    from it) a node left with `low` equal to `time` has on top of it exactly its
    component (`MembersAreClosed`, `MembersAreOne`), and `ClosedInv` and `BlocksInv`
    keep this for the blocks closed. `PlacesAre` is the permutation.

Only model-checked: liveness (`Terminates` and the fairness half of the
refinements), which is beyond the prover. Every invariant and action property of
a passing run that is about safety is a theorem. On the other hand `TypeOK` of OuterLoops,
TapControl, DynamicsRun and BranchAndBound, the accounting of the driver,
`StepsCoverDisplacement`, `FrozenIsFinal` and `OpenBoxesDisjoint` are theorems
only.

## 6. What is not modelled

Most of the repository is numerical code, parsers of file formats, and bindings:
the model covers the parts where control and shared or kept state decide, which
are a small share of its lines.

* Numbers: Newton iterations, the values of factors, optimisation steps, estimators,
  differential equations. Where their outcome matters it is an open choice.
* In modelled components: a group of phase shifters skipped because its branch is
  unknown; slack distribution over several islands; the sensitivity step of
  remote control; a batch task that panics; the linear start; shunts and
  zero-impedance lines; what a dynamic run leaves for the next one; snapping to
  whole numbers within the tolerance; costs, monitored CNECs and shunt or
  switch-pair actions of the RAO, and its linear optimizer beyond what its answer
  must satisfy; runs of the continuation with limits or locators switched off, and
  `qv_curve`; the tools of the MCP server that only read; two edits of a file within
  the clock's granularity (each edit has a time of its own).
* Early returns and fall-backs: `set_position` refusing a tap (`taps.rs:296-298`; the
  target has been clamped to the table); the failure of area interchange without
  branch lists and its entry for a slack in no area (`area.rs:283-288`, 322-332); the
  empty list of preventive states (`castor.rs:252-254`). In `TreeSearch` an action
  listed twice in a combination is treated more loosely than in the code
  (`search.rs:579-586`).
* Of the sparse kernels: the minimum-degree ordering (any column order is as good
  for what is checked here), and the back ends other than the port of KLU.
* Not started: GPU. Import, bindings, short circuit, state estimation (its
  observability is the rank of a factored matrix) and small-signal analysis have
  no state worth a model.

## 7. The plan

Done: the driver, tap control, the loops together with both balances, batch,
dynamics, branch and bound, remedial actions from automatons to the whole plan,
continuation, dispatch, the MCP session, switches and the port of KLU; the
theorems of section 5, which state every invariant and action property the passing
runs check.

Left: **Q-V curves** on the walk of `Continuation`, with its other parametrization.
