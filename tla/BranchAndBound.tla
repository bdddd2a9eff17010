--------------------------- MODULE BranchAndBound ---------------------------
(***************************************************************************)
(* BranchAndBound::solve (src/opf/bnb.rs): depth-first branch and bound    *)
(* over a continuous solver.                                               *)
(*                                                                         *)
(* The integral columns are kept, in half units, so that an odd number     *)
(* stands for any value strictly between two whole ones and a bound may be *)
(* fractional.  What the continuous columns and the rows amount to is      *)
(* `cost`: the whole points that are feasible, each with the objective of  *)
(* its best completion.  The inner solver is any relaxation: it answers a  *)
(* box with a value no point of it improves on, at a whole point that      *)
(* attains it or at a fractional one, or says the box holds nothing, which *)
(* is true of its points; and it may fail to answer at all.                *)
(***************************************************************************)
EXTENDS Integers, Sequences

CONSTANTS
  Columns,           \* the integral columns
  Lower, Upper,      \* col_lower, col_upper, in half units
  Objectives,        \* the values an objective can take
  Tolerance,         \* integrality_tolerance, as the pruning test uses it
  MaxNodes,          \* BnbOptions::max_nodes
  GapPercent         \* BnbOptions::relative_gap, in hundredths

ASSUME BnbAssumption ==
  /\ Columns # {}
  /\ Lower \in [Columns -> Int] /\ Upper \in [Columns -> Int]
  /\ Objectives \subseteq Int
  /\ Tolerance \in Nat /\ MaxNodes \in Nat /\ GapPercent \in Nat

IsWhole(v) == v % 2 = 0
Points ==
  {p \in [Columns -> UNION {Lower[c]..Upper[c] : c \in Columns}] :
     \A c \in Columns : IsWhole(p[c]) /\ Lower[c] <= p[c] /\ p[c] <= Upper[c]}

VARIABLES
  cost,          \* the problem: its feasible points, and what they cost
  pc,
  stack,         \* open nodes, the last to be visited next
  nodes,
  incumbent,     \* Option: none, or the best point met with its objective
  bestBound,     \* Option: the root relaxation's objective
  exhausted,     \* false once the budget has stopped the search
  status, gap,   \* the answer; gap is (incumbent - bound), over |incumbent|+1
  unanswered     \* history: was a node dropped that nobody answered?

search == <<stack, nodes, incumbent, bestBound, exhausted>>
verdict == <<status, gap>>
bnbvars == <<cost, pc, search, verdict, unanswered>>

Feasible == DOMAIN cost
Infinite == -1

\* A node is a box: the bounds that distinguish it, met with the root's.
Node == [lo : [Columns -> Int], hi : [Columns -> Int], root : BOOLEAN]
Root == [lo |-> Lower, hi |-> Upper, root |-> TRUE]

Admits(n, p) == \A c \in Columns : n.lo[c] <= p[c] /\ p[c] <= n.hi[c]
Inside(n) == {p \in Feasible : Admits(n, p)}
IsEmpty(n) == \E c \in Columns : n.lo[c] > n.hi[c]

BnbInit ==
  /\ cost \in UNION {[F -> Objectives] : F \in SUBSET Points}
  /\ pc = "search"
  /\ stack = <<Root>>
  /\ nodes = 0
  /\ incumbent = {} /\ bestBound = {}
  /\ exhausted = TRUE
  /\ status = "none" /\ gap = Infinite
  /\ unanswered = FALSE

-----------------------------------------------------------------------------
(* One node.                                                               *)

TopNode == stack[Len(stack)]
Rest == SubSeq(stack, 1, Len(stack) - 1)

\* A node is popped, and counted, if the budget lets it.
WithinBudget == nodes < MaxNodes

Visit ==
  /\ pc = "search" /\ stack # <<>> /\ WithinBudget
  /\ nodes' = nodes + 1
  /\ UNCHANGED <<cost, exhausted>>

OutOfNodes ==
  /\ pc = "search" /\ stack # <<>> /\ ~WithinBudget
  /\ stack' = Rest
  /\ exhausted' = FALSE
  /\ pc' = "conclude"
  /\ UNCHANGED <<cost, nodes, incumbent, bestBound, verdict, unanswered>>

Skip ==
  /\ stack' = Rest
  /\ UNCHANGED <<pc, incumbent, bestBound, verdict>>

\* The branch is empty by construction: nothing to solve.
SkipEmpty == Visit /\ IsEmpty(TopNode) /\ Skip /\ UNCHANGED unanswered

Relax == Visit /\ ~IsEmpty(TopNode)

Infeasible == Relax /\ Inside(TopNode) = {} /\ Skip /\ UNCHANGED unanswered

\* The inner solver returns an error, or a status that decides nothing: the
\* node is dropped all the same.
Unanswered ==
  /\ Relax
  /\ Skip
  /\ unanswered' = TRUE

Unbounded ==
  /\ Relax
  /\ stack' = Rest
  /\ status' = "Unbounded"
  /\ pc' = "done"
  /\ UNCHANGED <<incumbent, bestBound, gap, unanswered>>

\* What an optimal relaxation of the top node says of it.
Relaxed(o) ==
  /\ \A p \in Inside(TopNode) : o <= cost[p]
  /\ bestBound' = IF TopNode.root THEN {o} ELSE bestBound
  /\ UNCHANGED <<pc, verdict, unanswered>>

PrunesTies(o) == \E best \in incumbent : o >= best.objective - Tolerance - 1  \* a mutant

Prunes(o) == \E best \in incumbent : o >= best.objective - Tolerance

Bounded ==
  /\ Relax
  /\ \E o \in Objectives : Relaxed(o) /\ Prunes(o)
  /\ stack' = Rest
  /\ UNCHANGED incumbent

Improve ==
  /\ Relax
  /\ \E p \in Inside(TopNode) :
       /\ Relaxed(cost[p]) /\ ~Prunes(cost[p])
       /\ incumbent' = {[point |-> p, objective |-> cost[p]]}
  /\ stack' = Rest

\* Two children, either side of a fractional value; the nearer is visited
\* first.
Below(n, c, v) == [lo |-> n.lo, hi |-> [n.hi EXCEPT ![c] = v - 1], root |-> FALSE]
Above(n, c, v) == [lo |-> [n.lo EXCEPT ![c] = v + 1], hi |-> n.hi, root |-> FALSE]

Push(near, far) == stack' = Append(Append(Rest, far), near)

Branch ==
  /\ Relax
  /\ \E o \in Objectives : Relaxed(o) /\ ~Prunes(o)
  /\ \E c \in Columns : \E v \in TopNode.lo[c]..TopNode.hi[c] :
       /\ ~IsWhole(v)
       /\ \/ Push(Below(TopNode, c, v), Above(TopNode, c, v))
          \/ Push(Above(TopNode, c, v), Below(TopNode, c, v))
  /\ UNCHANGED incumbent

-----------------------------------------------------------------------------
(* The answer.                                                             *)

Emptied ==
  /\ pc = "search" /\ stack = <<>>
  /\ pc' = "conclude"
  /\ UNCHANGED <<cost, search, verdict, unanswered>>

InfeasibleWhateverTheBudget ==                                  \* a mutant
  /\ pc = "conclude" /\ incumbent = {}
  /\ status' = "Infeasible"
  /\ pc' = "done"
  /\ UNCHANGED <<cost, search, gap, unanswered>>

NothingFound ==
  /\ pc = "conclude" /\ incumbent = {}
  /\ status' = IF nodes >= MaxNodes THEN "Other" ELSE "Infeasible"
  /\ pc' = "done"
  /\ UNCHANGED <<cost, search, gap, unanswered>>

GapAlwaysClosed(best) == 0                                      \* a mutant

RootBound == CHOOSE b \in bestBound : TRUE

GapTo(best) ==
  IF exhausted \/ best.objective <= RootBound THEN 0
  ELSE best.objective - RootBound

Abs(n) == IF n >= 0 THEN n ELSE -n
WithinGap(best, g) == g * 100 <= GapPercent * (Abs(best.objective) + 1)

Found ==
  /\ pc = "conclude"
  /\ \E best \in incumbent :
       /\ gap' = IF ~exhausted /\ bestBound = {} THEN Infinite ELSE GapTo(best)
       /\ status' = IF exhausted \/ (gap' # Infinite /\ WithinGap(best, gap'))
                      THEN "Optimal" ELSE "Other"
  /\ pc' = "done"
  /\ UNCHANGED <<cost, search, unanswered>>

BnbNext ==
  \/ OutOfNodes \/ SkipEmpty \/ Infeasible \/ Unanswered \/ Unbounded
  \/ Bounded \/ Improve \/ Branch
  \/ Emptied \/ NothingFound \/ Found

\* The search is one thread's: while it can take a step it does.
BnbSpec == BnbInit /\ [][BnbNext]_bnbvars /\ WF_bnbvars(BnbNext)

-----------------------------------------------------------------------------
(* Properties                                                              *)

\* The state's shape: an incumbent is a feasible point at its own cost, and
\* the budget bounds the nodes visited.
TypeOK ==
  /\ cost \in UNION {[F -> Objectives] : F \in SUBSET Points}
  /\ pc \in {"search", "conclude", "done"}
  /\ stack \in Seq(Node)
  /\ nodes \in 0..MaxNodes
  /\ incumbent \in {{}} \cup {{[point |-> p, objective |-> cost[p]]} : p \in Feasible}
  /\ bestBound \in {{}} \cup {{o} : o \in Objectives}
  /\ exhausted \in BOOLEAN
  /\ status \in {"none", "Optimal", "Infeasible", "Unbounded", "Other"}
  /\ gap \in Nat \cup {Infinite}
  /\ unanswered \in BOOLEAN

\* What depth-first search relies on: the children of a node share none of
\* its points, so no point is ever in two open boxes, and the tree visits
\* each at most once.
OpenBoxesDisjoint ==
  \A i, j \in 1..Len(stack) :
    i # j => ~\E p \in Points : Admits(stack[i], p) /\ Admits(stack[j], p)

\* No solution is lost: a point is still in an open box, or does not improve
\* on the incumbent by more than the tolerance.
StillOpen(p) == \E i \in 1..Len(stack) : Admits(stack[i], p)
NotBetter(p) == \E best \in incumbent : best.objective - Tolerance <= cost[p]
NothingLost ==
  pc = "search" /\ ~unanswered => \A p \in Feasible : StillOpen(p) \/ NotBetter(p)

\* "Node budget. Exhausting it returns the incumbent with OptStatus::Other,
\* never a wrong answer claimed as optimal" (BnbOptions::max_nodes): when every
\* node was answered, no point beats what is called optimal by more than the
\* tolerance or the gap asked for.
OptimalIsOptimal ==
  status = "Optimal" /\ ~unanswered =>
    \E best \in incumbent : \A p \in Feasible :
      \/ best.objective - cost[p] <= Tolerance
      \/ WithinGap(best, best.objective - cost[p])

\* "It never understates the gap": no point is better than the incumbent by
\* more than the gap reported (solve, the end).
GapIsNeverUnderstated ==
  gap # Infinite /\ ~unanswered =>
    \A best \in incumbent : \A p \in Feasible :
      best.objective - cost[p] <= gap \/ best.objective - cost[p] <= Tolerance

\* "Proved there is none" and "ran out of nodes" are told apart: infeasible
\* is said of problems without a solution only.
InfeasibleIsProven == status = "Infeasible" /\ ~unanswered => Feasible = {}

=============================================================================
