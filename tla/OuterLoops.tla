----------------------------- MODULE OuterLoops -----------------------------
(***************************************************************************)
(* The driver of the outer control loops, solve_with_loops in              *)
(* crates/gridoxide-core/src/outerloop/mod.rs, with the part of the        *)
(* PersistentSolver's cache it is responsible for.                         *)
(*                                                                         *)
(* A loop looks at the solved network and either accepts it (Stable),      *)
(* changes one of the solve's inputs (Unstable) or gives up (Failed).      *)
(* What a loop's criterion is, and what a re-solve does to the criteria of *)
(* the OTHER loops, is physics: `ok[i]` says whether loop i would accept   *)
(* the current solved state, and a solve sets it to anything.  The driver  *)
(* is modelled in full: the walk down the list, the inner loop at each     *)
(* position, the wrap-around test, the shared budget, the invalidation of  *)
(* the solver's cache, the counters and the verdict.                       *)
(***************************************************************************)
EXTENDS Naturals

CONSTANTS
  NLoops,    \* loops.len(); the loops are 1..NLoops, innermost first
  Kind,      \* what each loop's invalidates() answers
  Budget     \* the cap on re-solves, shared by every loop

Kinds == {"Nothing", "Pattern", "Admittances"}
LoopIds == 1..NLoops

ASSUME LoopsAssumption == /\ NLoops \in Nat
                          /\ Kind \in [LoopIds -> Kinds]
                          /\ Budget \in Nat

NoLoop == 0          \* last_unstable = None
Empty  == 0          \* a cache slot that holds nothing

VARIABLES
  pc,                \* where the driver is
  pos,               \* i of `for i in 0..loops.len()`, counted from one
  before,            \* total at the start of this pass
  total, solves,     \* re-solves, and solves including the first
  counts, statuses,  \* per loop
  lastUnstable,
  budgetExhausted, failed, settled,
  ok,                \* would loop i accept the current solved state?
  net,               \* versions of the bus values, bus types and taps
  ybus,              \* the tap version the Y-bus was stamped from
  cache,             \* versions the solver's cached objects were built from
  solved             \* the network version the last solve answered for

driver == <<pos, before, total, solves, counts, statuses, lastUnstable,
            budgetExhausted, failed, settled>>
matrices == <<net, ybus, cache, solved>>
vars == <<pc, driver, ok, matrices>>

Statuses == {"Stable", "Unstable", "Failed"}
Versions == [values : Nat \ {0}, types : Nat \ {0}, taps : Nat \ {0}]

-----------------------------------------------------------------------------
(* What the driver tells the solver, by the kind of change.                *)

\* PersistentSolver::reset drops the cached Jacobian and the symbolic
\* factorization; invalidate_admittances drops the Jacobian alone.
InvalidateAdmittances ==
  cache' = [cache EXCEPT !.types = Empty, !.taps = Empty]

ResetKeepingSymbolic == InvalidateAdmittances                   \* a mutant
ResetForgotten == UNCHANGED cache                               \* a mutant

Reset == cache' = [types |-> Empty, taps |-> Empty, symbolic |-> Empty]

InvalidatedWithoutRestamp(kind) ==                              \* a mutant
  CASE kind = "Nothing"     -> UNCHANGED <<ybus, cache>>
    [] kind = "Pattern"     -> Reset /\ UNCHANGED ybus
    [] kind = "Admittances" -> InvalidateAdmittances /\ UNCHANGED ybus

Invalidated(kind) ==
  CASE kind = "Nothing"     -> UNCHANGED <<ybus, cache>>
    [] kind = "Pattern"     -> Reset /\ UNCHANGED ybus
    [] kind = "Admittances" -> ybus' = net.taps /\ InvalidateAdmittances

\* A solve rebuilds what the cache is missing from the bus types and the
\* Y-bus as they are now, and uses what the cache holds as it is.
Refill ==
  [types    |-> IF cache.types = Empty THEN net.types ELSE cache.types,
   taps     |-> IF cache.types = Empty THEN ybus ELSE cache.taps,
   symbolic |-> IF cache.symbolic = Empty THEN net.types ELSE cache.symbolic]

\* The answer of a solve is the answer for the values it reads directly and
\* for the types and taps its cached Jacobian stands for.
SolverRun ==
  /\ cache' = Refill
  /\ solved' = [values |-> net.values, types |-> Refill.types,
                taps |-> Refill.taps]
  /\ settled' \in BOOLEAN
  /\ ok' \in [LoopIds -> BOOLEAN]
  /\ UNCHANGED <<net, ybus>>

\* What an Unstable check has written, by the kind the loop declares.
Written(kind) ==
  CASE kind = "Nothing"     -> [net EXCEPT !.values = @ + 1]
    [] kind = "Pattern"     -> [net EXCEPT !.types = @ + 1]
    [] kind = "Admittances" -> [net EXCEPT !.taps = @ + 1]

-----------------------------------------------------------------------------
Init ==
  /\ pc = "first"
  /\ pos = 1 /\ before = 0 /\ total = 0 /\ solves = 0
  /\ counts = [i \in LoopIds |-> 0]
  /\ statuses = [i \in LoopIds |-> "Stable"]
  /\ lastUnstable = NoLoop
  /\ budgetExhausted = FALSE /\ failed = FALSE /\ settled = FALSE
  /\ ok = [i \in LoopIds |-> FALSE]
  /\ net = [values |-> 1, types |-> 1, taps |-> 1]
  /\ ybus = 1
  /\ cache = [types |-> Empty, taps |-> Empty, symbolic |-> Empty]
  /\ solved = [values |-> Empty, types |-> Empty, taps |-> Empty]

\* The solve before any loop is consulted. One that does not settle, or an
\* empty list, ends the run.
FirstSolve ==
  /\ pc = "first"
  /\ SolverRun
  /\ solves' = 1
  /\ pc' = IF NLoops = 0 \/ ~settled' THEN "done" ELSE "walk"
  /\ UNCHANGED <<pos, before, total, counts, statuses, lastUnstable,
                 budgetExhausted, failed>>

\* The two tests at the head of the for loop, and the consultation.
Wrapped == pos = lastUnstable

Spent(n) == n >= Budget
OutOfBudget == Spent(total)

Stops == Wrapped \/ OutOfBudget

StopEarly ==
  /\ pc = "walk" /\ pos \in LoopIds
  /\ Stops
  /\ budgetExhausted' = IF Wrapped THEN budgetExhausted ELSE TRUE
  /\ pc' = "done"
  /\ UNCHANGED <<pos, before, total, solves, counts, statuses, lastUnstable,
                 failed, settled, ok, matrices>>

Consult ==
  /\ pc = "walk" /\ pos \in LoopIds
  /\ ~Stops
  /\ pc' = "check"
  /\ UNCHANGED <<driver, ok, matrices>>

\* A full pass that moved nothing ends the run; any other is walked again.
QuietPass ==
  /\ pc = "walk" /\ pos = NLoops + 1
  /\ total = before
  /\ pc' = "done"
  /\ UNCHANGED <<driver, ok, matrices>>

NextPass ==
  /\ pc = "walk" /\ pos = NLoops + 1
  /\ total # before
  /\ pos' = 1 /\ before' = total
  /\ UNCHANGED <<pc, total, solves, counts, statuses, lastUnstable,
                 budgetExhausted, failed, settled, ok, matrices>>

\* loops[i].check: the three answers.
CheckStable ==
  /\ pc = "check"
  /\ ok[pos]
  /\ statuses' = [statuses EXCEPT ![pos] = "Stable"]
  /\ pos' = pos + 1
  /\ pc' = "walk"
  /\ UNCHANGED <<before, total, solves, counts, lastUnstable,
                 budgetExhausted, failed, settled, ok, matrices>>

CheckFailed ==
  /\ pc = "check"
  /\ statuses' = [statuses EXCEPT ![pos] = "Failed"]
  /\ failed' = TRUE
  /\ pc' = "done"
  /\ UNCHANGED <<pos, before, total, solves, counts, lastUnstable,
                 budgetExhausted, settled, ok, matrices>>

CheckUnstable ==
  /\ pc = "check"
  /\ ~ok[pos]
  /\ statuses' = [statuses EXCEPT ![pos] = "Unstable"]
  /\ net' = Written(Kind[pos])
  /\ pc' = "invalidate"
  /\ UNCHANGED <<pos, before, total, solves, counts, lastUnstable,
                 budgetExhausted, failed, settled, ok, ybus, cache, solved>>

Invalidate ==
  /\ pc = "invalidate"
  /\ Invalidated(Kind[pos])
  /\ pc' = "solve"
  /\ UNCHANGED <<driver, ok, net, solved>>

\* The re-solve, its accounting, and the two ways it can end the run.
SpendOneForgettingWho ==                                        \* a mutant
  /\ solves' = solves + 1
  /\ counts' = [counts EXCEPT ![pos] = @ + 1]
  /\ total' = total + 1
  /\ lastUnstable' = IF lastUnstable = NoLoop THEN pos ELSE lastUnstable

SpendOne ==
  /\ solves' = solves + 1
  /\ counts' = [counts EXCEPT ![pos] = @ + 1]
  /\ total' = total + 1
  /\ lastUnstable' = pos

ReSolve ==
  /\ pc = "solve"
  /\ SolverRun
  /\ SpendOne
  /\ budgetExhausted' = (settled' /\ Spent(total'))
  /\ pc' = IF ~settled' \/ Spent(total') THEN "done" ELSE "check"
  /\ UNCHANGED <<pos, before, statuses, failed>>

Next ==
  \/ FirstSolve
  \/ StopEarly \/ Consult
  \/ QuietPass \/ NextPass
  \/ CheckStable \/ CheckFailed \/ CheckUnstable
  \/ Invalidate \/ ReSolve

\* One thread runs the driver from beginning to end, so as long as a step is
\* possible one is taken.
Spec == Init /\ [][Next]_vars /\ WF_vars(Next)

\* The verdict, computed once the walk is over.
Converged ==
  /\ ~failed /\ ~budgetExhausted /\ settled
  /\ \A i \in LoopIds : statuses[i] = "Stable"

Done == pc = "done"

-----------------------------------------------------------------------------
(* Properties                                                              *)

\* The state's shape: positions, counters and versions in range.
TypeOK ==
  /\ pc \in {"first", "walk", "check", "invalidate", "solve", "done"}
  /\ pos \in 1..(NLoops + 1)
  /\ before \in 0..Budget /\ total \in 0..Budget /\ solves \in 0..(Budget + 1)
  /\ counts \in [LoopIds -> 0..Budget]
  /\ statuses \in [LoopIds -> Statuses]
  /\ lastUnstable \in LoopIds \cup {NoLoop}
  /\ budgetExhausted \in BOOLEAN /\ failed \in BOOLEAN /\ settled \in BOOLEAN
  /\ ok \in [LoopIds -> BOOLEAN]
  /\ net \in Versions
  /\ ybus \in Nat
  /\ cache \in [types : Nat, taps : Nat, symbolic : Nat]
  /\ solved \in [values : Nat, types : Nat, taps : Nat]

\* "Every criterion holds simultaneously": a run that reports convergence ends
\* in a solved state every loop accepts, although each was consulted at a
\* different moment and re-solves in between disturbed the others
\* (solve_with_loops, the wrap-around test on last_unstable).
ConvergedIsFixedPoint == Done /\ Converged => \A i \in LoopIds : ok[i]

\* A loop is consulted only on a solve that settled and that answers for the
\* network as it is now: no change of a value, a bus type or a tap is still
\* waiting for its restamp, its reset or its re-solve
\* (solve_with_loops, the match on loops[i].invalidates()).
ConsultedOnCurrentSolve ==
  pc = "check" => settled /\ solved = net /\ ybus = net.taps

\* What the caller gets back belongs together: when the run ends, however it
\* ends, the reports are those of the network as the loops left it, and the
\* symbolic factorization still in the solver is one for its bus types.
ReturnedStateIsSolved ==
  Done => solved = net /\ cache.symbolic = net.types

\* The counters of the report agree: one solve more than re-solves, never
\* more re-solves than the shared budget, and the budget is blamed only when
\* it is spent (OuterLoopReport, total_iterations, solves, budget_exhausted).
BudgetAccounting ==
  /\ pc # "first" => solves = total + 1
  /\ total <= Budget
  /\ budgetExhausted => total = Budget

\* The driver keeps the promise ControlFixedPoint makes.
Promise == INSTANCE ControlFixedPoint WITH
  resolves <- total,
  verdict <- CASE pc = "first" -> "unsolved"
               [] Done -> IF Converged THEN "converged" ELSE "stopped"
               [] OTHER -> "running"

KeepsPromise == Promise!Spec
=============================================================================
