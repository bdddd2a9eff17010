--------------------------- MODULE Refactorization ---------------------------
(***************************************************************************)
(* One KluNativeSystem over its calls (solve_packed in                     *)
(* crates/gridoxide-sparse/src/klu_native/mod.rs): refactor the new values *)
(* with the pivots there are, block by block and column by column in a     *)
(* workspace that outlives the call (refactor.rs,                          *)
(* refactor_block_in_place in kernel.rs), fall back to fresh pivots if     *)
(* that fails, and solve.                                                  *)
(*                                                                         *)
(* Values are not modelled, only which call they come from: a pivot may be *)
(* zero and a solution not finite at any time. A fresh factorization       *)
(* (factor.rs) keeps what LeftLookingLU shows of the kernel.               *)
(***************************************************************************)
EXTENDS SparseFactors, FiniteSets

CONSTANTS
  NBlocks, Sizes, Matrices,  \* the diagonal blocks, their sizes and patterns
  Factorings,                \* by block, the factors there are of it
  MaxCalls                   \* bounds how many calls are made

Blocks == 1..NBlocks
Cols(b) == 1..Sizes[b]
Workspace == UNION {Cols(b) : b \in Blocks}

ASSUME FactoringAssumption ==
  /\ NBlocks \in Nat \ {0} /\ Sizes \in [Blocks -> Nat \ {0}] /\ MaxCalls \in Nat
  /\ \A b \in Blocks : \A f \in Factorings[b] : IsFactor(f, Matrices[b], Sizes[b])

VARIABLES
  stage,             \* "idle", "scatter", "eliminate", "solve", "factor" or "resolve"
  call,              \* the calls made
  pivots,            \* num: the factor of each block, its pivots and patterns
  made,              \* by block and column, the call whose values it holds, 0 if mixed
  offs,              \* off_p, off_i and off_x: the call they are of, 0 if taken apart
  targets,           \* RefactorScratch::target: the rows it was computed for, if any
  scaled,            \* rs: the call whose row factors it holds, and their order
  x,                 \* RefactorScratch::x: "zero", "now" in this column, or "left"
  block, col, next,  \* where the refactorization is, and in U's column
  clean,             \* whether this column has used nothing but its own values
  solution           \* what the last call returned, if anything

refactorvars ==
  <<stage, call, pivots, made, offs, targets, scaled, x, block, col, next, clean, solution>>

Nothing == [none |-> TRUE]
RowsNow(num) == [b \in Blocks |-> num[b].row]
MadeBy(c) == [b \in Blocks |-> [k \in Cols(b) |-> c]]
ScaledBy(c, num) == [by |-> c, order |-> RowsNow(num)]
Numerics == {num \in [Blocks -> UNION {Factorings[b] : b \in Blocks}] :
               \A b \in Blocks : num[b] \in Factorings[b]}

\* with_scale: the first factorization, which must succeed.
RefactorInit ==
  /\ stage = "idle" /\ call = 0
  /\ pivots \in Numerics
  /\ made = MadeBy(0) /\ offs = 0
  /\ targets = Nothing /\ scaled = ScaledBy(0, pivots)
  /\ x = [r \in Workspace |-> "zero"]
  /\ block = 1 /\ col = 1 /\ next = 1 /\ clean = TRUE
  /\ solution = Nothing

Factor == pivots[block]
UColumn == Factor.above[col]

-----------------------------------------------------------------------------
(* refactor.                                                               *)

\* The scatter targets are found once for a pivot order, the off-diagonal
\* arrays emptied.
Call ==
  /\ stage = "idle" /\ call < MaxCalls
  /\ stage' = "scatter" /\ call' = call + 1
  /\ targets' = IF targets = Nothing THEN RowsNow(pivots) ELSE targets
  /\ offs' = 0
  /\ block' = 1 /\ col' = 1 /\ solution' = Nothing
  /\ UNCHANGED <<pivots, made, scaled, x, next, clean>>

\* What is scattered replaces what was there; elsewhere the workspace is taken
\* for zero.
Scattered(r, entries) ==
  IF r \in entries THEN "now" ELSE IF x[r] = "zero" THEN "zero" ELSE "left"

Scatter ==
  /\ stage = "scatter" /\ stage' = "eliminate"
  /\ x' = [r \in Workspace |-> Scattered(r, Entries(Factor, col, Matrices[block]))]
  /\ next' = 1 /\ clean' = (targets = RowsNow(pivots))
  /\ UNCHANGED <<call, pivots, made, offs, targets, scaled, block, col, solution>>

\* One entry of U: read, cleared, and its column of L taken off.
Eliminate ==
  /\ stage = "eliminate" /\ next \in DOMAIN UColumn
  /\ LET j == UColumn[next] IN
       /\ x' = [r \in Workspace |-> IF r = j THEN "zero"
                                    ELSE IF r \in Factor.below[j] /\ x[r] = "zero" THEN "now"
                                    ELSE x[r]]
       /\ clean' = (clean /\ x[j] # "left" /\ made[block][j] = call)
  /\ next' = next + 1
  /\ UNCHANGED <<stage, call, pivots, made, offs, targets, scaled, block, col, solution>>

AtPivot == stage = "eliminate" /\ next \notin DOMAIN UColumn

\* The diagonal and the column of L are gathered and cleared.
Gather ==
  /\ AtPivot
  /\ LET read == {col} \cup Factor.below[col] IN
       /\ made' = [made EXCEPT ![block][col] =
                     IF clean /\ \A r \in read : x[r] # "left" THEN call ELSE 0]
       /\ x' = [r \in Workspace |-> IF r \in read THEN "zero" ELSE x[r]]
  /\ IF col < Sizes[block] THEN col' = col + 1 /\ block' = block /\ stage' = "scatter"
     ELSE IF block < NBlocks THEN col' = 1 /\ block' = block + 1 /\ stage' = "scatter"
     ELSE UNCHANGED <<col, block>> /\ stage' = "solve"
  /\ offs' = IF stage' = "solve" THEN call ELSE offs
  /\ scaled' = IF stage' = "solve" THEN ScaledBy(call, pivots) ELSE scaled
  /\ UNCHANGED <<call, pivots, targets, next, clean, solution>>

\* An exact zero: only the diagonal has been cleared, the column's rows of L
\* stay in the workspace and the off-diagonal arrays are not put back.
ZeroPivot ==
  /\ AtPivot
  /\ x' = [x EXCEPT ![col] = "zero"]
  /\ made' = [made EXCEPT ![block][col] = 0]
  /\ stage' = "factor"
  /\ UNCHANGED <<call, pivots, offs, targets, scaled, block, col, next, clean, solution>>

-----------------------------------------------------------------------------
(* solve_packed after the refactorization.                                 *)

Answer ==
  /\ stage \in {"solve", "resolve"} /\ stage' = "idle"
  /\ solution' = [made |-> made, offs |-> offs, scaled |-> scaled, rows |-> RowsNow(pivots)]
  /\ UNCHANGED <<call, pivots, made, offs, targets, scaled, x, block, col, next, clean>>

\* The refactored solution is not finite.
NotFinite ==
  /\ stage = "solve" /\ stage' = "factor"
  /\ UNCHANGED <<call, pivots, made, offs, targets, scaled, x, block, col, next, clean, solution>>

\* Fresh pivots on the same blocks; the targets follow them. The workspace is
\* not the kernel's and stays as it is.
TargetsAfterKept == targets
TargetsAfter == Nothing
FactorAfresh ==
  /\ stage = "factor" /\ stage' = "resolve"
  /\ pivots' \in Numerics
  /\ made' = MadeBy(call) /\ offs' = call
  /\ targets' = TargetsAfter
  /\ scaled' = ScaledBy(call, pivots')
  /\ UNCHANGED <<call, x, block, col, next, clean, solution>>

\* The matrix is singular, or the fresh solution not finite either.
GiveUp ==
  /\ stage \in {"factor", "resolve"} /\ stage' = "idle"
  /\ UNCHANGED <<call, pivots, made, offs, targets, scaled, x, block, col, next, clean, solution>>

RefactorNext ==
  Call \/ Scatter \/ Eliminate \/ Gather \/ ZeroPivot \/ Answer \/ NotFinite \/ FactorAfresh \/ GiveUp

RefactorSpec == RefactorInit /\ [][RefactorNext]_refactorvars

-----------------------------------------------------------------------------
(* Properties.                                                             *)

\* Whatever earlier calls left behind, failed or not, a solution is computed from
\* the values of its own call alone: every column of the factor, what lies off
\* the blocks and the row factors, which are in the order of the pivots used.
AnswersAreOfTheirCall ==
  solution # Nothing =>
    /\ solution.made = MadeBy(call) /\ solution.offs = call
    /\ solution.scaled = [by |-> call, order |-> solution.rows]
=============================================================================
