------------------------------ MODULE MCStudies ------------------------------
(***************************************************************************)
(* Eight small studies that share no state, in one run: a run explores one *)
(* of them and the others stand still.                                     *)
(***************************************************************************)
EXTENDS Continuation, ReactiveDispatch, NetworkSession, SwitchedNetwork,
        BlockTriangular, LeftLookingLU, Refactorization, BranchAndBound, TLC

VARIABLE study

MCUnits == {"g1", "g2"}
\* Losing a machine's support brings the fold nearer.
MCFolds ==
  {f \in [SUBSET MCUnits -> {1, 2, 4, 6}] :
     /\ f[{}] \in {4, 6} /\ \A s, t \in SUBSET MCUnits : s \subseteq t => f[t] <= f[s]
     /\ f[{"g1"}] >= f[{"g2"}]}
MCSaturations == [MCUnits -> {0, 1, 2, 3, 5, 9}]

MCRatings ==
  {[min |-> lo, max |-> hi, key |-> k] :
     lo \in {-2, 1}, hi \in {2, 4}, k \in {0, 1, 3, 99}}
\* Nothing tells the machines of a bus apart: they are taken in the order of
\* their keys.
MCByKey ==
  {r \in [Shared -> Ratings] : r["m1"].key <= r["m2"].key /\ r["m2"].key <= r["m3"].key}
MCTotals == {-7, -1, 2, 3, 5, 7, 13}

\* A ring of three switches, one of which may be out of service, and a fourth to
\* a line whose far end may be a second source.
MCNodes == 1..5
MCSwitchEnds == <<<<1, 2>>, <<2, 3>>, <<1, 3>>, <<3, 4>>>>
MCFeeders == {<<4, 5>>}
MCMachines ==
  {<<"slack", "pq", "pq", "pq", "pq">>, <<"slack", "pq", "pv", "pq", "slack">>,
   <<"slack", "pv", "pq", "pv", "pq">>}
MCOutOfService == {{}, {2}}

\* Every matrix with at most two entries in a column, those without any included,
\* up to the names of the rows: the first column's are the first ones.
MCSparsities ==
  {s \in [1..Dimension -> SUBSET (1..Dimension)] :
     s[1] \subseteq {1, 2} /\ \A j \in 1..Dimension : Cardinality(s[j]) <= 2}

\* Every block with a full diagonal and at most one entry without its mirror.
OneSided(s) ==
  {e \in (1..BlockSize) \X (1..BlockSize) : e[1] \in s[e[2]] /\ e[2] \notin s[e[1]]}
MCBlockPatterns ==
  {s \in [1..BlockSize -> SUBSET (1..BlockSize)] :
     (\A j \in 1..BlockSize : j \in s[j]) /\ Cardinality(OneSided(s)) <= 1}

\* A block that fills in whichever pivots are taken and a dense one, with the
\* factors each order of pivots gives.
MCSizes == <<3, 2>>
MCMatrices == <<<<{1, 2}, {2, 3}, {1, 3}>>, <<{1, 2}, {1, 2}>>>>
FillOf(row, pattern, n) ==
  LET fill[k \in 1..n] ==
        FoldLeft(LAMBDA rows, j : IF j \in rows THEN rows \cup {r \in fill[j] : r > j} ELSE rows,
                 {r \in 1..n : row[r] \in pattern[k]}, [j \in 1..(k - 1) |-> j])
  IN  fill
FactorsOf(pattern, n) ==
  LET orders == {row \in [1..n -> 1..n] : \A i, j \in 1..n : row[i] = row[j] => i = j}
  IN  {LET fill == FillOf(row, pattern, n) IN
       [row |-> row,
        above |-> [k \in 1..n |-> SetToSortSeq({r \in fill[k] : r < k}, LAMBDA i, j : i < j)],
        below |-> [k \in 1..n |-> {r \in fill[k] : r > k}]] :
         row \in {o \in orders :
                    LET fill == FillOf(o, pattern, n) IN \A k \in 1..n : k \in fill[k]}}
MCFactorings == <<FactorsOf(MCMatrices[1], 3), FactorsOf(MCMatrices[2], 2)>>
MCPivots == <<CHOOSE f \in MCFactorings[1] : TRUE, CHOOSE f \in MCFactorings[2] : TRUE>>

\* Every problem on two columns with two whole values each; the first one's upper
\* bound is fractional.
MCColumns == {"x", "y"}
MCLower == ("x" :> 0) @@ ("y" :> 0)
MCUpper == ("x" :> 3) @@ ("y" :> 2)
MCObjectives == 0..2

\* A model that stands still; each comes before the one explored.
WalkStill ==
  fold = [s \in SUBSET Units |-> 4] /\ saturation = [u \in Units |-> 9] /\ WalkInit
DispatchStill ==
  rating = [m \in Shared |-> [min |-> 1, max |-> 2, key |-> 0]] /\ required = 2 /\ DispatchInit
SwitchingStill ==
  /\ model = [open |-> {}, out |-> {}, retained |-> {}, constrained |-> FALSE,
              machine |-> <<"slack", "pq", "pq", "pq", "pq">>]
  /\ SwitchingInit /\ dead = {}
BtfStill == sparsity = [j \in 1..Dimension |-> {}] /\ BtfInit
LuStill == matrix = [j \in 1..BlockSize |-> {j}] /\ LuInit
RefactorStill == pivots = MCPivots /\ RefactorInit
BnbStill == cost = <<>> /\ BnbInit
StudiesStill == WalkStill /\ DispatchStill /\ SessionInit /\ SwitchingStill
SolvingStill == BtfStill /\ LuStill /\ RefactorStill /\ BnbStill

Init ==
  \/ /\ study = "walk" /\ DispatchStill /\ SessionInit /\ SwitchingStill /\ SolvingStill
     /\ fold \in Folds /\ saturation \in Saturations /\ WalkInit
  \/ /\ study = "split" /\ WalkStill /\ SessionInit /\ SwitchingStill /\ SolvingStill
     /\ rating \in MCByKey /\ required \in Totals /\ DispatchInit
  \/ study = "session" /\ StudiesStill /\ SolvingStill
  \/ /\ study = "switches" /\ WalkStill /\ DispatchStill /\ SessionInit /\ SolvingStill
     /\ model \in Models /\ SwitchingInit
  \/ /\ study = "blocks" /\ StudiesStill /\ LuStill /\ RefactorStill /\ BnbStill
     /\ sparsity \in Sparsities /\ BtfInit
  \/ /\ study = "kernel" /\ StudiesStill /\ BtfStill /\ RefactorStill /\ BnbStill
     /\ matrix \in BlockPatterns /\ LuInit
  \/ study = "refactor" /\ StudiesStill /\ BtfStill /\ LuStill /\ BnbStill /\ RefactorInit
  \/ study = "tree" /\ StudiesStill /\ BtfStill /\ LuStill /\ RefactorStill /\ BnbInit

solving == <<btfvars, luvars, refactorvars, bnbvars>>

Next ==
  /\ UNCHANGED study
  /\ \/ study = "walk" /\ WalkNext /\ UNCHANGED <<dispatchvars, sessionvars, switchvars, solving>>
     \/ study = "split" /\ DispatchNext /\ UNCHANGED <<walkvars, sessionvars, switchvars, solving>>
     \/ study = "session" /\ SessionNext /\ UNCHANGED <<walkvars, dispatchvars, switchvars, solving>>
     \/ study = "switches" /\ SwitchingNext /\ UNCHANGED <<walkvars, dispatchvars, sessionvars, solving>>
     \/ /\ UNCHANGED <<walkvars, dispatchvars, sessionvars, switchvars>>
        /\ \/ study = "blocks" /\ BtfNext /\ UNCHANGED <<luvars, refactorvars, bnbvars>>
           \/ study = "kernel" /\ LuNext /\ UNCHANGED <<btfvars, refactorvars, bnbvars>>
           \/ study = "refactor" /\ RefactorNext /\ UNCHANGED <<btfvars, luvars, bnbvars>>
           \/ study = "tree" /\ BnbNext /\ UNCHANGED <<btfvars, luvars, refactorvars>>

Spec == Init /\ [][Next]_<<walkvars, dispatchvars, sessionvars, switchvars, solving, study>>
=============================================================================
