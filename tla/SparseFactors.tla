---------------------------- MODULE SparseFactors ----------------------------
(***************************************************************************)
(* The pattern of an LU factorization of one block, whatever its values:   *)
(* what the kernel that chooses the pivots leaves (LeftLookingLU) and what *)
(* a refactorization with the same pivots reuses (Refactorization).        *)
(*                                                                         *)
(* A factor is [row, above, below]: the row that became each place, and by *)
(* column the places of U in the order they are eliminated and those of L. *)
(***************************************************************************)
EXTENDS Naturals, Sequences

InU(f, k) == {f.above[k][n] : n \in DOMAIN f.above[k]}
Filled(f, k) == InU(f, k) \cup {k} \cup f.below[k]
\* The places at which the matrix itself has entries, by its rows per column.
Entries(f, k, matrix) == {r \in DOMAIN f.row : f.row[r] \in matrix[k]}

\* Each place of a column is an entry of the matrix or put there by an earlier
\* column that the elimination passes through, all of those are there, and a
\* column is eliminated before those it puts something into are not.
IsFactor(f, matrix, n) ==
  LET Cols == 1..n IN
  /\ f.row \in [Cols -> Cols] /\ \A i, j \in Cols : f.row[i] = f.row[j] => i = j
  /\ f.above \in [Cols -> Seq(Cols)] /\ f.below \in [Cols -> SUBSET Cols]
  /\ \A k \in Cols :
       /\ InU(f, k) \subseteq 1..(k - 1) /\ f.below[k] \subseteq (k + 1)..n
       /\ Entries(f, k, matrix) \subseteq Filled(f, k)
       /\ \A j \in InU(f, k) : f.below[j] \subseteq Filled(f, k)
       /\ \A r \in Filled(f, k) \ Entries(f, k, matrix) : \E j \in InU(f, k) : r \in f.below[j]
       /\ \A a, b \in DOMAIN f.above[k] : a < b => /\ f.above[k][a] # f.above[k][b]
                                                  /\ f.above[k][a] \notin f.below[f.above[k][b]]
=============================================================================
