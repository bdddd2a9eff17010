---------------------------- MODULE LeftLookingLU ----------------------------
(***************************************************************************)
(* The factorization of one diagonal block (factor_block in                *)
(* crates/gridoxide-sparse/src/klu_native/kernel.rs), column by column:    *)
(* which rows a column reaches through the columns before it (dfs), which  *)
(* of them becomes the pivot (lpivot), and how much of the earlier columns *)
(* later searches need to look at (prune).                                 *)
(*                                                                         *)
(* The values decide the pivot: any row the column reaches may have the    *)
(* largest one, or none may be different from zero.                        *)
(***************************************************************************)
EXTENDS SparseFactors, Integers, SequencesExt

CONSTANTS
  BlockSize,
  BlockPatterns      \* the patterns of the block: the rows of each column

Rows == 1..BlockSize

ASSUME BlockAssumption ==
  BlockSize \in Nat \ {0} /\ BlockPatterns \subseteq [Rows -> SUBSET Rows]

VARIABLES
  matrix,
  prow,              \* P: the row at each place, as it stands
  place,             \* Pinv: the place of a row
  pivotal,           \* the rows that have been pivots; Pinv is flipped for the others
  lower,             \* columns of L so far, rows as they were given
  upper,             \* columns of U so far, by place, in the order of elimination
  pruned,            \* Lpend: how many entries of a column are searched, or NotPruned
  outcome,           \* "factoring", "done" or "singular"
  todo,              \* the column's entries not looked at yet
  flagged,           \* flag: the rows the column reaches, so far
  trail,             \* the front of stack: the pivotal rows entered and not finished
  unscanned,         \* ap_pos: how much of a row's column of L is still to be scanned
  eliminated,        \* the back of stack: the pivotal rows finished, the last one first
  lik                \* the rows of the column of L, in the order they were found

factors == <<matrix, prow, place, pivotal, lower, upper, pruned, outcome>>
luvars == <<factors, todo, flagged, trail, unscanned, eliminated, lik>>

NotPruned == -1

Searched == todo = {} /\ trail = <<>>

LuInit ==
  /\ matrix \in BlockPatterns
  /\ prow = [k \in Rows |-> k] /\ place = [i \in Rows |-> i] /\ pivotal = {}
  /\ lower = <<>> /\ upper = <<>> /\ pruned = <<>>
  /\ outcome = "factoring"
  /\ todo = matrix[1] /\ flagged = {} /\ trail = <<>>
  /\ unscanned = [i \in Rows |-> 0] /\ eliminated = <<>> /\ lik = <<>>

Col == Len(lower) + 1

-----------------------------------------------------------------------------
(* lsolve_symbolic and dfs: the rows reached from the column's entries, in *)
(* whatever order the file has them.                                       *)

\* A pruned column is searched up to where it was cut.
SearchLength(i) ==
  IF pruned[place[i]] = NotPruned THEN Len(lower[place[i]]) ELSE pruned[place[i]]

\* A pivotal row met for the first time is entered, any other becomes part of L.
Meet(i, remaining) ==
  /\ flagged' = flagged \cup {i}
  /\ IF i \in flagged THEN unscanned' = remaining /\ UNCHANGED <<trail, lik>>
     ELSE IF i \in pivotal
     THEN /\ trail' = Append(trail, i) /\ UNCHANGED lik
          /\ unscanned' = [remaining EXCEPT ![i] = SearchLength(i)]
     ELSE lik' = Append(lik, i) /\ unscanned' = remaining /\ UNCHANGED trail

TakeEntry ==
  /\ outcome = "factoring" /\ trail = <<>>
  /\ \E i \in todo : todo' = todo \ {i} /\ Meet(i, unscanned)
  /\ UNCHANGED <<factors, eliminated>>

\* A column is scanned from the last entry that is searched to the first.
ScanEntry ==
  /\ trail # <<>>
  /\ LET i == Last(trail) IN
       /\ unscanned[i] > 0
       /\ Meet(lower[place[i]][unscanned[i]], [unscanned EXCEPT ![i] = @ - 1])
  /\ UNCHANGED <<factors, todo, eliminated>>

LeaveRow ==
  /\ trail # <<>> /\ unscanned[Last(trail)] = 0
  /\ trail' = Front(trail) /\ eliminated' = <<Last(trail)>> \o eliminated
  /\ UNCHANGED <<factors, todo, flagged, unscanned, lik>>

-----------------------------------------------------------------------------
(* lpivot and prune.                                                       *)

\* The last entry takes the place of the one that became the pivot.
Without(rows, n) ==
  IF n = Len(rows) THEN Front(rows) ELSE [Front(rows) EXCEPT ![n] = Last(rows)]

\* The pivotal rows come first and are the ones still searched: the others are
\* reached through the pivot row.
StaysInFrontOpposite(i, pivots) == i \notin pivots
StaysInFront(i, pivots) == i \in pivots

\* head and tail close in on each other: a row that does not stay changes places
\* with the last one not looked at.
PartitionStep(s, pivots) ==
  IF StaysInFront(s.rows[s.head], pivots) THEN [s EXCEPT !.head = @ + 1]
  ELSE [rows |-> [s.rows EXCEPT ![s.head] = s.rows[s.tail - 1], ![s.tail - 1] = s.rows[s.head]],
        head |-> s.head, tail |-> s.tail - 1]
Partition(rows, pivots) ==
  LET after[n \in 0..Len(rows)] ==
        IF n = 0 THEN [rows |-> rows, head |-> 1, tail |-> Len(rows) + 1]
        ELSE PartitionStep(after[n - 1], pivots)
  IN  after[Len(rows)]

\* The columns of U of this column that hold the pivot row and were not pruned.
ToPrune(pivot, ucol) ==
  {j \in Range(ucol) : pruned[j] = NotPruned /\ pivot \in Range(lower[j])}

\* A row that loses its place to the pivot takes the pivot's, unless it has been
\* a pivot itself.
Displaced(pivot) == prow[Col] # pivot /\ prow[Col] \notin pivotal

FactorColumn ==
  /\ outcome = "factoring" /\ Searched
  /\ \E n \in DOMAIN lik :
       LET pivot == lik[n]
           ucol == [m \in DOMAIN eliminated |-> place[eliminated[m]]]
           cut == ToPrune(pivot, ucol)
           parted == [j \in cut |-> Partition(lower[j], pivotal')]
       IN  /\ prow' = IF Displaced(pivot)
                      THEN [prow EXCEPT ![place[pivot]] = prow[Col], ![Col] = pivot]
                      ELSE [prow EXCEPT ![Col] = pivot]
           /\ place' = IF Displaced(pivot)
                       THEN [place EXCEPT ![prow[Col]] = place[pivot], ![pivot] = Col]
                       ELSE [place EXCEPT ![pivot] = Col]
           /\ pivotal' = pivotal \cup {pivot}
           /\ lower' = Append([j \in DOMAIN lower |->
                                 IF j \in cut THEN parted[j].rows ELSE lower[j]],
                              Without(lik, n))
           /\ upper' = Append(upper, ucol)
           /\ pruned' = Append([j \in DOMAIN pruned |->
                                  IF j \in cut THEN parted[j].tail - 1 ELSE pruned[j]],
                               NotPruned)
  /\ IF Col = BlockSize THEN outcome' = "done" /\ UNCHANGED todo
     ELSE outcome' = "factoring" /\ todo' = matrix[Col + 1]
  /\ flagged' = {} /\ eliminated' = <<>> /\ lik' = <<>>
  /\ UNCHANGED <<matrix, trail, unscanned>>

\* No row that is not pivotal, or only zeros there.
Singular ==
  /\ outcome = "factoring" /\ Searched /\ outcome' = "singular"
  /\ UNCHANGED <<matrix, prow, place, pivotal, lower, upper, pruned>>
  /\ UNCHANGED <<todo, flagged, trail, unscanned, eliminated, lik>>

LuNext == TakeEntry \/ ScanEntry \/ LeaveRow \/ FactorColumn \/ Singular

LuSpec == LuInit /\ [][LuNext]_luvars

-----------------------------------------------------------------------------
(* Properties.                                                             *)

\* The rows of L are renumbered by their final places.
Finished ==
  [row |-> prow, above |-> upper,
   below |-> [k \in Rows |-> {place[i] : i \in Range(lower[k])}]]

\* However much was pruned and whichever rows were chosen, a finished factor has
\* exactly the places elimination fills and U in an order that can be followed:
\* what every refactorization with these pivots takes for granted.
FactorHoldsTheReach == outcome = "done" => IsFactor(Finished, matrix, BlockSize)
=============================================================================
