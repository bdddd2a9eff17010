--------------------------- MODULE BlockTriangular ---------------------------
(***************************************************************************)
(* The block triangular form of a sparse matrix before it is factored      *)
(* (crates/gridoxide-sparse/src/klu_native/btf): a maximum matching of     *)
(* columns with rows (maxtrans.rs), completed if the matrix is             *)
(* structurally singular (mod.rs), and the strong components of the        *)
(* matched graph in an order that leaves nothing below the blocks          *)
(* (strongcomp.rs).                                                        *)
(*                                                                         *)
(* The searches look at the entries of a column in whatever order the file *)
(* has them.  Both have stacks of their own, empty at first: jstack and    *)
(* pstack stand for either's.                                              *)
(***************************************************************************)
EXTENDS SequencesExt

CONSTANTS
  Dimension,
  Sparsities         \* the matrices' patterns: the rows of each column

Places == 1..Dimension

ASSUME SparsityAssumption ==
  Dimension \in Nat /\ Sparsities \subseteq [Places -> SUBSET Places]

VARIABLES
  sparsity,
  column,            \* the column to match, and beyond the last when all were tried
  match,             \* the column of a row, 0 if none
  cheap,             \* the rows of a column that are known to be matched
  entered,           \* maxtrans' flag: the columns this augment has looked at
  istack,            \* the rows that lead from each column of the path to the next
  flipped,           \* the rows given a column without an entry there
  jstack,            \* the columns, or nodes, entered and not left
  pstack,            \* the rows of each that are still to be looked at
  time, low,         \* when a node was entered, and the first entry it is known to reach
  flag,              \* strongcomp's: the block of a node, 0 if none yet
  cstack,            \* the nodes entered and in no block
  blocks, timestamp,
  order              \* p, q and the block of each place, at the end

matching == <<match, cheap, entered, istack, column, flipped>>
components == <<time, low, flag, cstack, blocks, timestamp>>
btfvars == <<sparsity, matching, jstack, pstack, components, order>>

Unordered == <<>>
NoRows == [j \in Places |-> {}]

BtfInit ==
  /\ sparsity \in Sparsities
  /\ column = 1
  /\ match = [i \in Places |-> 0] /\ cheap = NoRows
  /\ entered = {} /\ istack = <<>> /\ flipped = {}
  /\ jstack = <<>> /\ pstack = NoRows
  /\ time = [j \in Places |-> 0] /\ low = [j \in Places |-> 0] /\ flag = [j \in Places |-> 0]
  /\ cstack = <<>> /\ blocks = 0 /\ timestamp = 0
  /\ order = Unordered

Top == Last(jstack)
Lowest(S) == CHOOSE i \in S : \A k \in S : i <= k

-----------------------------------------------------------------------------
(* maxtrans: an augmenting path for each column, looking first for a row   *)
(* nobody has.                                                             *)

BeginColumn ==
  /\ column <= Dimension /\ jstack = <<>>
  /\ jstack' = <<column>>
  /\ UNCHANGED <<sparsity, matching, pstack, components, order>>

Entering == column <= Dimension /\ jstack # <<>> /\ Top \notin entered
FreeRows(j) == {i \in sparsity[j] \ cheap[j] : match[i] = 0}

\* The path is unwound: each of its columns takes the row that led on from it.
TakeFreeRow ==
  /\ Entering
  /\ \E i \in FreeRows(Top) :
       /\ LET path == Append(istack, i) IN
            match' = [r \in Places |->
                        IF r \in Range(path) THEN jstack[CHOOSE n \in DOMAIN path : path[n] = r]
                        ELSE match[r]]
       /\ \E passed \in SUBSET {r \in sparsity[Top] : match[r] # 0} :
            cheap' = [cheap EXCEPT ![Top] = @ \cup passed \cup {i}]
  /\ column' = column + 1 /\ entered' = {}
  /\ jstack' = <<>> /\ istack' = <<>> /\ pstack' = NoRows
  /\ UNCHANGED <<sparsity, flipped, components, order>>

EnterColumn ==
  /\ Entering /\ FreeRows(Top) = {}
  /\ entered' = entered \cup {Top}
  /\ cheap' = [cheap EXCEPT ![Top] = sparsity[Top]]
  /\ pstack' = [pstack EXCEPT ![Top] = sparsity[Top]]
  /\ UNCHANGED <<sparsity, column, match, istack, flipped, jstack, components, order>>

Looking == column <= Dimension /\ jstack # <<>> /\ Top \in entered

\* All rows here are matched: on to the column that has this one.
FollowRow ==
  /\ Looking
  /\ \E i \in pstack[Top] :
       /\ pstack' = [pstack EXCEPT ![Top] = @ \ {i}]
       /\ IF match[i] \in entered THEN UNCHANGED <<istack, jstack>>
          ELSE istack' = Append(istack, i) /\ jstack' = Append(jstack, match[i])
  /\ UNCHANGED <<sparsity, column, match, cheap, entered, flipped, components, order>>

LeaveColumn ==
  /\ Looking /\ pstack[Top] = {}
  /\ jstack' = Front(jstack)
  /\ IF Len(jstack) = 1 THEN column' = column + 1 /\ entered' = {} /\ UNCHANGED istack
     ELSE istack' = Front(istack) /\ UNCHANGED <<column, entered>>
  /\ UNCHANGED <<sparsity, match, cheap, flipped, pstack, components, order>>

Unmatched == {i \in Places : match[i] = 0}
LeftOver == Places \ Range(match)

\* btf_order gives the rows left over the columns left over, in order.
CompleteMatching ==
  /\ column > Dimension /\ Unmatched # {} /\ LeftOver # {}
  /\ match' = [match EXCEPT ![Lowest(Unmatched)] = Lowest(LeftOver)]
  /\ flipped' = flipped \cup {Lowest(Unmatched)}
  /\ UNCHANGED <<sparsity, column, cheap, entered, istack, jstack, pstack, components, order>>

-----------------------------------------------------------------------------
(* strongcomp: node i is row i with the column it was given; an edge leads *)
(* to the rows of that column.                                             *)

Searching == column > Dimension /\ Unmatched = {} /\ order = Unordered
Targets(j) == sparsity[match[j]]

Lesser(a, b) == IF a < b THEN a ELSE b
Unvisited(i) == time[i] = 0
Unassigned(i) == time[i] # 0 /\ flag[i] = 0
Unreached == {j \in Places : Unvisited(j)}

EnterNode(j, remaining) ==
  /\ jstack' = Append(jstack, j) /\ cstack' = Append(cstack, j)
  /\ timestamp' = timestamp + 1
  /\ time' = [time EXCEPT ![j] = timestamp + 1] /\ low' = [low EXCEPT ![j] = timestamp + 1]
  /\ pstack' = [remaining EXCEPT ![j] = Targets(j)]

SearchRoot ==
  /\ Searching /\ jstack = <<>> /\ Unreached # {}
  /\ EnterNode(Lowest(Unreached), pstack)
  /\ UNCHANGED <<sparsity, matching, flag, blocks, order>>

\* dfs: only a node still on cstack lowers the one that sees it.
LowersAlways(i) == ~Unvisited(i)
Lowers(i) == Unassigned(i)

ScanEdge ==
  /\ Searching /\ jstack # <<>>
  /\ \E i \in pstack[Top] :
       LET remaining == [pstack EXCEPT ![Top] = @ \ {i}] IN
       IF Unvisited(i) THEN EnterNode(i, remaining)
       ELSE /\ pstack' = remaining
            /\ low' = IF Lowers(i) THEN [low EXCEPT ![Top] = Lesser(@, time[i])] ELSE low
            /\ UNCHANGED <<jstack, cstack, timestamp, time>>
  /\ UNCHANGED <<sparsity, matching, flag, blocks, order>>

\* The members of a block are on cstack from its first node to the top.
CloseBlock ==
  LET at == CHOOSE n \in DOMAIN cstack : cstack[n] = Top
      members == Range(SubSeq(cstack, at, Len(cstack)))
  IN  /\ cstack' = SubSeq(cstack, 1, at - 1)
      /\ flag' = [i \in Places |-> IF i \in members THEN blocks + 1 ELSE flag[i]]
      /\ blocks' = blocks + 1

LeaveNode ==
  /\ Searching /\ jstack # <<>> /\ pstack[Top] = {}
  /\ IF low[Top] = time[Top] THEN CloseBlock ELSE UNCHANGED <<cstack, flag, blocks>>
  /\ jstack' = Front(jstack)
  /\ low' = IF Len(jstack) = 1 THEN low
             ELSE [low EXCEPT ![jstack[Len(jstack) - 1]] = Lesser(@, low[Top])]
  /\ UNCHANGED <<sparsity, matching, pstack, time, timestamp, order>>

\* A node's place: after the blocks before its own, in natural order within it.
Precedes(i, j) == flag[i] < flag[j] \/ (flag[i] = flag[j] /\ i < j)
Place(j) == Cardinality({i \in Places : Precedes(i, j)}) + 1

Permute ==
  /\ Searching /\ jstack = <<>> /\ Unreached = {}
  /\ LET p == [k \in Places |-> CHOOSE j \in Places : Place(j) = k]
     IN  order' = [p |-> p, q |-> [k \in Places |-> match[p[k]]],
                   block |-> [k \in Places |-> flag[p[k]]]]
  /\ UNCHANGED <<sparsity, matching, jstack, pstack, components>>

BtfNext ==
  \/ BeginColumn \/ TakeFreeRow \/ EnterColumn \/ FollowRow \/ LeaveColumn
  \/ CompleteMatching
  \/ SearchRoot \/ ScanEdge \/ LeaveNode \/ Permute

BtfSpec == BtfInit /\ [][BtfNext]_btfvars

-----------------------------------------------------------------------------
(* Properties.                                                             *)

\* The form the factorization relies on, for every pattern: rows and columns
\* are permuted, blocks are contiguous and no entry lies below them (solve
\* substitutes them in reverse), no block could be split further, an entry stands
\* on the diagonal exactly where the column was not flipped, and no matching has
\* more of them (Hall: each set of columns leaves out as many as it has too few
\* rows).
IsEntry(row, col) == order.p[row] \in sparsity[order.q[col]]
InBlock(b) == {k \in Places : order.block[k] = b}
Reducible(S) == \E T \in SUBSET S :
  T # {} /\ T # S /\ \A row \in S \ T, col \in T : ~IsEntry(row, col)
BlockTriangularForm ==
  order # Unordered =>
    /\ Range(order.p) = Places /\ Range(order.q) = Places
    /\ \A k, l \in Places : k <= l => order.block[k] <= order.block[l]
    /\ \A row, col \in Places : IsEntry(row, col) => order.block[row] <= order.block[col]
    /\ \A b \in Range(order.block) : ~Reducible(InBlock(b))
    /\ \A k \in Places : IsEntry(k, k) <=> order.p[k] \notin flipped
    /\ \E S \in SUBSET Places :
         Cardinality(flipped) = Cardinality(S) - Cardinality(UNION {sparsity[j] : j \in S})
=============================================================================
