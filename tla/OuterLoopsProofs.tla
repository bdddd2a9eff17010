-------------------------- MODULE OuterLoopsProofs --------------------------
(***************************************************************************)
(* The driver of the outer loops, proved for every list of loops and every *)
(* budget: its inductive invariant, what it says of the verdict and of the *)
(* solver's cache, and the refinement of ControlFixedPoint.  Then the      *)
(* driver with its three loops, which is the driver and keeps what is      *)
(* proved of it: the bus types that two loops write fit the Jacobian and   *)
(* one another, and what is called converged is accepted by all of them.   *)
(***************************************************************************)
EXTENDS OuterLoopSystem, TLAPS

InLoop == {"check", "invalidate", "solve"}
Running == InLoop \cup {"walk"}

\* The counters.  A loop is only ever consulted below the budget, which is
\* what keeps the re-solve that may follow within it.
CountersInv ==
  /\ pc = "first" => total = 0 /\ solves = 0 /\ pos = 1
  /\ pc # "first" => solves = total + 1
  /\ before <= total
  /\ \A i \in LoopIds : counts[i] <= total
  /\ pc \in InLoop => total < Budget
  /\ budgetExhausted => pc = "done" /\ total = Budget
  /\ failed => pc = "done"
  /\ pc \in Running => settled

\* Where the walk stands relative to the loop that last moved something.
\* In the pass in which it moved (before < total) the walk is past it; in the
\* pass after (before = total) the walk has yet to come back to it.
WalkInv ==
  /\ pc \in InLoop => pos \in LoopIds
  /\ pc \in Running => NLoops > 0
  /\ lastUnstable = NoLoop <=> total = 0
  /\ before < total => lastUnstable <= pos
  /\ before < total /\ pc = "walk" => lastUnstable < pos
  /\ before = total /\ lastUnstable # NoLoop /\ pc \in Running
       => pos <= lastUnstable
  /\ before = total /\ lastUnstable # NoLoop /\ pc \in InLoop
       => pos < lastUnstable

\* The loops consulted since the last re-solve, all of which answered Stable.
Visited(j) ==
  \/ before = total /\ j < pos
  \/ before = total /\ lastUnstable # NoLoop /\ lastUnstable <= j
  \/ before < total /\ lastUnstable <= j /\ j < pos

AcceptedInv ==
  pc \in Running => \A j \in LoopIds : Visited(j) => ok[j]

VerdictInv == Done /\ Converged => \A j \in LoopIds : ok[j]

\* The solver's cache against the network, at every stage of a re-solve.
CacheInv ==
  /\ pc = "first" => /\ cache.types = Empty
                     /\ cache.symbolic = Empty
                     /\ ybus = net.taps
  /\ pc \in {"walk", "check", "done"} =>
       /\ solved = net
       /\ ybus = net.taps
       /\ cache.types = net.types /\ cache.taps = net.taps
       /\ cache.symbolic = net.types
  /\ pc = "invalidate" =>
       /\ Kind[pos] # "Pattern" => /\ cache.types = net.types
                                   /\ cache.symbolic = net.types
       /\ Kind[pos] # "Admittances" => /\ cache.taps = net.taps
                                       /\ ybus = net.taps
  /\ pc = "solve" =>
       /\ ybus = net.taps
       /\ cache.types # Empty => /\ cache.types = net.types
                                 /\ cache.taps = net.taps
       /\ cache.symbolic # Empty => cache.symbolic = net.types

IInv ==
  /\ TypeOK
  /\ CountersInv
  /\ WalkInv
  /\ AcceptedInv
  /\ VerdictInv
  /\ CacheInv

-----------------------------------------------------------------------------
(* What a write, an invalidation and a solve do to the versions.           *)

CacheType == [types : Nat, taps : Nat, symbolic : Nat]

\* Two versions of the network are equal when their fields are.
LEMMA VersionsExt ==
  ASSUME NEW v \in Versions
  PROVE  v = [values |-> v.values, types |-> v.types, taps |-> v.taps]
BY DEF Versions

\* A loop writes what it declares and leaves the rest of the network alone.
LEMMA WrittenFields ==
  ASSUME net \in Versions, NEW kind \in Kinds
  PROVE  /\ Written(kind) \in Versions
         /\ kind # "Pattern" => Written(kind).types = net.types
         /\ kind # "Admittances" => Written(kind).taps = net.taps
<1>1. CASE kind = "Nothing"
  <2>1. Written(kind) = [net EXCEPT !.values = net.values + 1]
    BY <1>1 DEF Written
  <2> QED
    BY <2>1, <1>1 DEF Versions
<1>2. CASE kind = "Pattern"
  <2>1. Written(kind) = [net EXCEPT !.types = net.types + 1]
    BY <1>2 DEF Written
  <2> QED
    BY <2>1, <1>2 DEF Versions
<1>3. CASE kind = "Admittances"
  <2>1. Written(kind) = [net EXCEPT !.taps = net.taps + 1]
    BY <1>3 DEF Written
  <2> QED
    BY <2>1, <1>3 DEF Versions
<1> QED
  BY <1>1, <1>2, <1>3 DEF Kinds

\* After an invalidation the Y-bus is that of the taps, and whatever the
\* cache still holds was built from the network as it is.
LEMMA InvalidatedFields ==
  ASSUME net \in Versions, cache \in CacheType, ybus \in Nat,
         NEW kind \in Kinds,
         kind # "Pattern" => /\ cache.types = net.types
                             /\ cache.symbolic = net.types,
         kind # "Admittances" => cache.taps = net.taps /\ ybus = net.taps,
         Invalidated(kind)
  PROVE  /\ cache' \in CacheType /\ ybus' \in Nat
         /\ ybus' = net.taps
         /\ cache'.types # Empty => /\ cache'.types = net.types
                                    /\ cache'.taps = net.taps
         /\ cache'.symbolic # Empty => cache'.symbolic = net.types
<1>1. CASE kind = "Nothing"
  BY <1>1 DEF Invalidated
<1>2. CASE kind = "Pattern"
  <2>1. cache' = [types |-> Empty, taps |-> Empty, symbolic |-> Empty]
        /\ ybus' = ybus
    BY <1>2 DEF Invalidated, Reset
  <2> QED
    BY <2>1, <1>2 DEF Empty, CacheType
<1>3. CASE kind = "Admittances"
  <2>1. cache' = [cache EXCEPT !.types = Empty, !.taps = Empty]
        /\ ybus' = net.taps
    BY <1>3 DEF Invalidated, InvalidateAdmittances
  <2> QED
    BY <2>1, <1>3 DEF Empty, CacheType, Versions
<1> QED
  BY <1>1, <1>2, <1>3 DEF Kinds

\* A solve whose cache holds nothing out of date answers for the network.
LEMMA SolverRunFields ==
  ASSUME net \in Versions, cache \in CacheType,
         ybus = net.taps,
         cache.types # Empty => /\ cache.types = net.types
                                /\ cache.taps = net.taps,
         cache.symbolic # Empty => cache.symbolic = net.types,
         SolverRun
  PROVE  /\ cache' \in CacheType
         /\ cache'.types = net.types /\ cache'.taps = net.taps
         /\ cache'.symbolic = net.types
         /\ solved' = net
<1>1. Refill = [types |-> net.types, taps |-> net.taps,
                symbolic |-> net.types]
  BY DEF Refill
<1>2. solved' = [values |-> net.values, types |-> net.types,
                 taps |-> net.taps]
  BY <1>1 DEF SolverRun
<1>3. solved' = net
  BY <1>2, VersionsExt
<1>4. cache' = [types |-> net.types, taps |-> net.taps,
                symbolic |-> net.types]
  BY <1>1 DEF SolverRun
<1> QED
  BY <1>3, <1>4 DEF CacheType, Versions

-----------------------------------------------------------------------------
(* The invariant holds at the start and is kept by every step.             *)

LEMMA InitIInv == Init => IInv
<1> SUFFICES ASSUME Init PROVE IInv
  OBVIOUS
<1>1. TypeOK
  <2>1. /\ pos \in 1..(NLoops + 1) /\ before \in 0..Budget
        /\ total \in 0..Budget /\ solves \in 0..(Budget + 1)
    BY LoopsAssumption DEF Init
  <2>2. /\ counts \in [LoopIds -> 0..Budget]
        /\ statuses \in [LoopIds -> Statuses]
        /\ ok \in [LoopIds -> BOOLEAN]
    BY LoopsAssumption DEF Init, Statuses
  <2>3. /\ net \in Versions /\ ybus \in Nat
        /\ cache \in [types : Nat, taps : Nat, symbolic : Nat]
        /\ solved \in [values : Nat, types : Nat, taps : Nat]
    BY DEF Init, Versions, Empty
  <2> QED
    BY <2>1, <2>2, <2>3 DEF Init, TypeOK, NoLoop
<1>2. CountersInv /\ WalkInv
  BY LoopsAssumption
     DEF Init, CountersInv, WalkInv, InLoop, Running, LoopIds, NoLoop
<1>3. AcceptedInv /\ VerdictInv
  BY DEF Init, AcceptedInv, VerdictInv, Done, Running, InLoop
<1>4. CacheInv
  BY DEF Init, CacheInv, Empty
<1> QED
  BY <1>1, <1>2, <1>3, <1>4 DEF IInv

LEMMA FirstSolveIInv == IInv /\ FirstSolve => IInv'
<1> SUFFICES ASSUME IInv, FirstSolve PROVE IInv'
  OBVIOUS
<1>1. TypeOK'
  <2>1. /\ cache' \in CacheType
        /\ cache'.types = net.types /\ cache'.taps = net.taps
        /\ cache'.symbolic = net.types
        /\ solved' = net
    BY SolverRunFields
       DEF IInv, TypeOK, CacheInv, CacheType, FirstSolve
  <2>2. /\ settled' \in BOOLEAN /\ ok' \in [LoopIds -> BOOLEAN]
        /\ net' = net /\ ybus' = ybus
    BY DEF FirstSolve, SolverRun
  <2> QED
    BY <2>1, <2>2, LoopsAssumption
       DEF IInv, TypeOK, CountersInv, WalkInv, InLoop, LoopIds, Versions,
           CacheType, NoLoop, FirstSolve
<1>2. CountersInv'
  BY LoopsAssumption
     DEF IInv, TypeOK, CountersInv, WalkInv, InLoop, Running, LoopIds,
         NoLoop, FirstSolve, SolverRun
<1>3. WalkInv'
  BY LoopsAssumption
     DEF IInv, TypeOK, CountersInv, WalkInv, InLoop, Running, LoopIds,
         NoLoop, FirstSolve, SolverRun
<1>4. AcceptedInv'
  <2>1. pos = 1 => \A j \in LoopIds : ~(j < pos)
    BY LoopsAssumption DEF LoopIds
  <2>2. total = 0 /\ before = 0 /\ lastUnstable = NoLoop
    BY DEF IInv, TypeOK, CountersInv, WalkInv, FirstSolve
  <2>3. pos = 1
    BY DEF IInv, CountersInv, FirstSolve
  <2> QED
    BY <2>1, <2>2, <2>3 DEF AcceptedInv, Visited, FirstSolve
<1>5. VerdictInv'
  BY LoopsAssumption
     DEF IInv, TypeOK, CountersInv, WalkInv, InLoop, Running, LoopIds,
         NoLoop, VerdictInv, AcceptedInv, Visited, Done, Converged,
         FirstSolve, SolverRun
<1>6. CacheInv'
  <2>1. /\ cache' \in CacheType
        /\ cache'.types = net.types /\ cache'.taps = net.taps
        /\ cache'.symbolic = net.types
        /\ solved' = net
    BY SolverRunFields
       DEF IInv, TypeOK, CacheInv, CacheType, FirstSolve
  <2>2. net' = net /\ ybus' = ybus /\ ybus = net.taps
    BY DEF FirstSolve, SolverRun, IInv, CacheInv
  <2>3. pc' \in {"walk", "check", "done"}
    BY DEF FirstSolve
  <2> QED
    BY <2>1, <2>2, <2>3 DEF CacheInv
<1> QED
  BY <1>1, <1>2, <1>3, <1>4, <1>5, <1>6 DEF IInv

LEMMA StopEarlyIInv == IInv /\ StopEarly => IInv'
<1> SUFFICES ASSUME IInv, StopEarly PROVE IInv'
  OBVIOUS
<1>1. TypeOK'
  BY LoopsAssumption
     DEF IInv, TypeOK, CountersInv, WalkInv, InLoop, Running, LoopIds,
         NoLoop, Statuses, Versions, StopEarly, Stops, Wrapped, OutOfBudget,
         Spent, matrices
<1>2. CountersInv'
  BY LoopsAssumption
     DEF IInv, TypeOK, CountersInv, WalkInv, InLoop, Running, LoopIds,
         NoLoop, StopEarly, Stops, Wrapped, OutOfBudget, Spent, matrices
<1>3. WalkInv'
  BY LoopsAssumption
     DEF IInv, TypeOK, CountersInv, WalkInv, InLoop, Running, LoopIds,
         NoLoop, StopEarly, Stops, Wrapped, OutOfBudget, Spent, matrices
<1>4. AcceptedInv'
  BY LoopsAssumption
     DEF IInv, TypeOK, CountersInv, WalkInv, InLoop, Running, LoopIds,
         NoLoop, AcceptedInv, Visited, StopEarly, Stops, Wrapped,
         OutOfBudget, Spent, matrices
<1>5. VerdictInv'
  BY LoopsAssumption
     DEF IInv, TypeOK, CountersInv, WalkInv, InLoop, Running, LoopIds,
         NoLoop, VerdictInv, AcceptedInv, Visited, Done, Converged,
         StopEarly, Stops, Wrapped, OutOfBudget, Spent, matrices
<1>6. CacheInv'
  BY LoopsAssumption
     DEF IInv, TypeOK, CountersInv, WalkInv, InLoop, Running, LoopIds,
         NoLoop, CacheInv, StopEarly, Stops, Wrapped, OutOfBudget, Spent,
         matrices
<1> QED
  BY <1>1, <1>2, <1>3, <1>4, <1>5, <1>6 DEF IInv

LEMMA ConsultIInv == IInv /\ Consult => IInv'
<1> SUFFICES ASSUME IInv, Consult PROVE IInv'
  OBVIOUS
<1>1. TypeOK'
  BY LoopsAssumption
     DEF IInv, TypeOK, CountersInv, WalkInv, InLoop, Running, LoopIds,
         NoLoop, Statuses, Versions, Consult, Stops, Wrapped, OutOfBudget, Spent,
         driver, matrices
<1>2. CountersInv'
  BY LoopsAssumption
     DEF IInv, TypeOK, CountersInv, WalkInv, InLoop, Running, LoopIds,
         NoLoop, Consult, Stops, Wrapped, OutOfBudget, Spent, driver, matrices
<1>3. WalkInv'
  BY LoopsAssumption
     DEF IInv, TypeOK, CountersInv, WalkInv, InLoop, Running, LoopIds,
         NoLoop, Consult, Stops, Wrapped, OutOfBudget, Spent, driver, matrices
<1>4. AcceptedInv'
  BY LoopsAssumption
     DEF IInv, TypeOK, CountersInv, WalkInv, InLoop, Running, LoopIds,
         NoLoop, AcceptedInv, Visited, Consult, Stops, Wrapped, OutOfBudget, Spent,
         driver, matrices
<1>5. VerdictInv'
  BY LoopsAssumption
     DEF IInv, TypeOK, CountersInv, WalkInv, InLoop, Running, LoopIds,
         NoLoop, VerdictInv, AcceptedInv, Visited, Done, Converged, Consult,
         Stops, Wrapped, OutOfBudget, Spent, driver, matrices
<1>6. CacheInv'
  BY LoopsAssumption
     DEF IInv, TypeOK, CountersInv, WalkInv, InLoop, Running, LoopIds,
         NoLoop, CacheInv, Consult, Stops, Wrapped, OutOfBudget, Spent, driver,
         matrices
<1> QED
  BY <1>1, <1>2, <1>3, <1>4, <1>5, <1>6 DEF IInv

LEMMA QuietPassIInv == IInv /\ QuietPass => IInv'
<1> SUFFICES ASSUME IInv, QuietPass PROVE IInv'
  OBVIOUS
<1>1. TypeOK'
  BY LoopsAssumption
     DEF IInv, TypeOK, CountersInv, WalkInv, InLoop, Running, LoopIds,
         NoLoop, Statuses, Versions, QuietPass, driver, matrices
<1>2. CountersInv'
  BY LoopsAssumption
     DEF IInv, TypeOK, CountersInv, WalkInv, InLoop, Running, LoopIds,
         NoLoop, QuietPass, driver, matrices
<1>3. WalkInv'
  BY LoopsAssumption
     DEF IInv, TypeOK, CountersInv, WalkInv, InLoop, Running, LoopIds,
         NoLoop, QuietPass, driver, matrices
<1>4. AcceptedInv'
  BY LoopsAssumption
     DEF IInv, TypeOK, CountersInv, WalkInv, InLoop, Running, LoopIds,
         NoLoop, AcceptedInv, Visited, QuietPass, driver, matrices
<1>5. VerdictInv'
  BY LoopsAssumption
     DEF IInv, TypeOK, CountersInv, WalkInv, InLoop, Running, LoopIds,
         NoLoop, VerdictInv, AcceptedInv, Visited, Done, Converged,
         QuietPass, driver, matrices
<1>6. CacheInv'
  BY LoopsAssumption
     DEF IInv, TypeOK, CountersInv, WalkInv, InLoop, Running, LoopIds,
         NoLoop, CacheInv, QuietPass, driver, matrices
<1> QED
  BY <1>1, <1>2, <1>3, <1>4, <1>5, <1>6 DEF IInv

LEMMA NextPassIInv == IInv /\ NextPass => IInv'
<1> SUFFICES ASSUME IInv, NextPass PROVE IInv'
  OBVIOUS
<1>1. TypeOK'
  BY LoopsAssumption
     DEF IInv, TypeOK, CountersInv, WalkInv, InLoop, Running, LoopIds,
         NoLoop, Statuses, Versions, NextPass, matrices
<1>2. CountersInv'
  BY LoopsAssumption
     DEF IInv, TypeOK, CountersInv, WalkInv, InLoop, Running, LoopIds,
         NoLoop, NextPass, matrices
<1>3. WalkInv'
  BY LoopsAssumption
     DEF IInv, TypeOK, CountersInv, WalkInv, InLoop, Running, LoopIds,
         NoLoop, NextPass, matrices
<1>4. AcceptedInv'
  BY LoopsAssumption
     DEF IInv, TypeOK, CountersInv, WalkInv, InLoop, Running, LoopIds,
         NoLoop, AcceptedInv, Visited, NextPass, matrices
<1>5. VerdictInv'
  BY LoopsAssumption
     DEF IInv, TypeOK, CountersInv, WalkInv, InLoop, Running, LoopIds,
         NoLoop, VerdictInv, AcceptedInv, Visited, Done, Converged,
         NextPass, matrices
<1>6. CacheInv'
  BY LoopsAssumption
     DEF IInv, TypeOK, CountersInv, WalkInv, InLoop, Running, LoopIds,
         NoLoop, CacheInv, NextPass, matrices
<1> QED
  BY <1>1, <1>2, <1>3, <1>4, <1>5, <1>6 DEF IInv

LEMMA CheckStableIInv == IInv /\ CheckStable => IInv'
<1> SUFFICES ASSUME IInv, CheckStable PROVE IInv'
  OBVIOUS
<1>1. TypeOK'
  BY LoopsAssumption
     DEF IInv, TypeOK, CountersInv, WalkInv, InLoop, Running, LoopIds,
         NoLoop, Statuses, Versions, CheckStable, matrices
<1>2. CountersInv'
  BY LoopsAssumption
     DEF IInv, TypeOK, CountersInv, WalkInv, InLoop, Running, LoopIds,
         NoLoop, CheckStable, matrices
<1>3. WalkInv'
  BY LoopsAssumption
     DEF IInv, TypeOK, CountersInv, WalkInv, InLoop, Running, LoopIds,
         NoLoop, CheckStable, matrices
<1>4. AcceptedInv'
  BY LoopsAssumption
     DEF IInv, TypeOK, CountersInv, WalkInv, InLoop, Running, LoopIds,
         NoLoop, AcceptedInv, Visited, CheckStable, matrices
<1>5. VerdictInv'
  BY LoopsAssumption
     DEF IInv, TypeOK, CountersInv, WalkInv, InLoop, Running, LoopIds,
         NoLoop, VerdictInv, AcceptedInv, Visited, Done, Converged,
         CheckStable, matrices
<1>6. CacheInv'
  BY LoopsAssumption
     DEF IInv, TypeOK, CountersInv, WalkInv, InLoop, Running, LoopIds,
         NoLoop, CacheInv, CheckStable, matrices
<1> QED
  BY <1>1, <1>2, <1>3, <1>4, <1>5, <1>6 DEF IInv

LEMMA CheckFailedIInv == IInv /\ CheckFailed => IInv'
<1> SUFFICES ASSUME IInv, CheckFailed PROVE IInv'
  OBVIOUS
<1>1. TypeOK'
  BY LoopsAssumption
     DEF IInv, TypeOK, CountersInv, WalkInv, InLoop, Running, LoopIds,
         NoLoop, Statuses, Versions, CheckFailed, matrices
<1>2. CountersInv'
  BY LoopsAssumption
     DEF IInv, TypeOK, CountersInv, WalkInv, InLoop, Running, LoopIds,
         NoLoop, CheckFailed, matrices
<1>3. WalkInv'
  BY LoopsAssumption
     DEF IInv, TypeOK, CountersInv, WalkInv, InLoop, Running, LoopIds,
         NoLoop, CheckFailed, matrices
<1>4. AcceptedInv'
  BY LoopsAssumption
     DEF IInv, TypeOK, CountersInv, WalkInv, InLoop, Running, LoopIds,
         NoLoop, AcceptedInv, Visited, CheckFailed, matrices
<1>5. VerdictInv'
  BY LoopsAssumption
     DEF IInv, TypeOK, CountersInv, WalkInv, InLoop, Running, LoopIds,
         NoLoop, VerdictInv, AcceptedInv, Visited, Done, Converged,
         CheckFailed, matrices
<1>6. CacheInv'
  BY LoopsAssumption
     DEF IInv, TypeOK, CountersInv, WalkInv, InLoop, Running, LoopIds,
         NoLoop, CacheInv, CheckFailed, matrices
<1> QED
  BY <1>1, <1>2, <1>3, <1>4, <1>5, <1>6 DEF IInv

LEMMA CheckUnstableIInv == IInv /\ CheckUnstable => IInv'
<1> SUFFICES ASSUME IInv, CheckUnstable PROVE IInv'
  OBVIOUS
<1>1. TypeOK'
  <2>1. pos \in LoopIds /\ Kind[pos] \in Kinds
    BY LoopsAssumption DEF IInv, WalkInv, InLoop, CheckUnstable
  <2>2. net' \in Versions
    BY <2>1, WrittenFields DEF IInv, TypeOK, CheckUnstable
  <2> QED
    BY <2>1, <2>2 DEF IInv, TypeOK, Statuses, CheckUnstable
<1>2. CountersInv'
  BY LoopsAssumption
     DEF IInv, TypeOK, CountersInv, WalkInv, InLoop, Running, LoopIds,
         NoLoop, CheckUnstable
<1>3. WalkInv'
  BY LoopsAssumption
     DEF IInv, TypeOK, CountersInv, WalkInv, InLoop, Running, LoopIds,
         NoLoop, CheckUnstable
<1>4. AcceptedInv'
  BY LoopsAssumption
     DEF IInv, TypeOK, CountersInv, WalkInv, InLoop, Running, LoopIds,
         NoLoop, AcceptedInv, Visited, CheckUnstable
<1>5. VerdictInv'
  BY LoopsAssumption
     DEF IInv, TypeOK, CountersInv, WalkInv, InLoop, Running, LoopIds,
         NoLoop, VerdictInv, AcceptedInv, Visited, Done, Converged,
         CheckUnstable
<1>6. CacheInv'
  <2>1. pos \in LoopIds /\ Kind[pos] \in Kinds
    BY LoopsAssumption DEF IInv, WalkInv, InLoop, CheckUnstable
  <2>2. /\ Kind[pos] # "Pattern" => net'.types = net.types
        /\ Kind[pos] # "Admittances" => net'.taps = net.taps
    BY <2>1, WrittenFields DEF IInv, TypeOK, CheckUnstable
  <2> QED
    BY <2>1, <2>2 DEF IInv, CacheInv, CheckUnstable
<1> QED
  BY <1>1, <1>2, <1>3, <1>4, <1>5, <1>6 DEF IInv

LEMMA InvalidateIInv == IInv /\ Invalidate => IInv'
<1> SUFFICES ASSUME IInv, Invalidate PROVE IInv'
  OBVIOUS
<1>1. TypeOK'
  <2>1. pos \in LoopIds /\ Kind[pos] \in Kinds
    BY LoopsAssumption DEF IInv, WalkInv, InLoop, Invalidate
  <2>2. /\ cache' \in CacheType /\ ybus' \in Nat
        /\ ybus' = net.taps
        /\ cache'.types # Empty => /\ cache'.types = net.types
                                   /\ cache'.taps = net.taps
        /\ cache'.symbolic # Empty => cache'.symbolic = net.types
    BY <2>1, InvalidatedFields
       DEF IInv, TypeOK, CacheInv, CacheType, Invalidate
  <2> QED
    BY <2>1, <2>2 DEF IInv, TypeOK, CacheType, Invalidate, driver
<1>2. CountersInv'
  BY LoopsAssumption
     DEF IInv, TypeOK, CountersInv, WalkInv, InLoop, Running, LoopIds,
         NoLoop, Invalidate, driver
<1>3. WalkInv'
  BY LoopsAssumption
     DEF IInv, TypeOK, CountersInv, WalkInv, InLoop, Running, LoopIds,
         NoLoop, Invalidate, driver
<1>4. AcceptedInv'
  BY LoopsAssumption
     DEF IInv, TypeOK, CountersInv, WalkInv, InLoop, Running, LoopIds,
         NoLoop, AcceptedInv, Visited, Invalidate, driver
<1>5. VerdictInv'
  BY LoopsAssumption
     DEF IInv, TypeOK, CountersInv, WalkInv, InLoop, Running, LoopIds,
         NoLoop, VerdictInv, AcceptedInv, Visited, Done, Converged,
         Invalidate, driver
<1>6. CacheInv'
  <2>1. pos \in LoopIds /\ Kind[pos] \in Kinds
    BY LoopsAssumption DEF IInv, WalkInv, InLoop, Invalidate
  <2>2. /\ cache' \in CacheType /\ ybus' \in Nat
        /\ ybus' = net.taps
        /\ cache'.types # Empty => /\ cache'.types = net.types
                                   /\ cache'.taps = net.taps
        /\ cache'.symbolic # Empty => cache'.symbolic = net.types
    BY <2>1, InvalidatedFields
       DEF IInv, TypeOK, CacheInv, CacheType, Invalidate
  <2> QED
    BY <2>1, <2>2 DEF CacheInv, Invalidate
<1> QED
  BY <1>1, <1>2, <1>3, <1>4, <1>5, <1>6 DEF IInv

LEMMA ReSolveIInv == IInv /\ ReSolve => IInv'
<1> SUFFICES ASSUME IInv, ReSolve PROVE IInv'
  OBVIOUS
<1>1. TypeOK'
  <2>1. /\ cache' \in CacheType
        /\ cache'.types = net.types /\ cache'.taps = net.taps
        /\ cache'.symbolic = net.types
        /\ solved' = net
    BY SolverRunFields
       DEF IInv, TypeOK, CacheInv, CacheType, ReSolve
  <2>2. /\ settled' \in BOOLEAN /\ ok' \in [LoopIds -> BOOLEAN]
        /\ net' = net /\ ybus' = ybus
    BY DEF ReSolve, SolverRun
  <2>3. /\ pos \in LoopIds /\ total \in 0..Budget /\ total < Budget
        /\ solves = total + 1
        /\ counts \in [LoopIds -> 0..Budget] /\ counts[pos] <= total
    BY LoopsAssumption
       DEF IInv, TypeOK, CountersInv, WalkInv, InLoop, LoopIds, ReSolve
  <2>4. /\ total' \in 0..Budget /\ solves' \in 0..(Budget + 1)
        /\ counts' \in [LoopIds -> 0..Budget] /\ lastUnstable' \in LoopIds
    BY <2>3, LoopsAssumption DEF ReSolve, SpendOne
  <2>5. /\ pc' \in {"done", "check"} /\ budgetExhausted' \in BOOLEAN
        /\ UNCHANGED <<pos, before, statuses, failed>>
    BY <2>2, <2>4 DEF ReSolve, Spent
  <2> QED
    BY <2>1, <2>2, <2>4, <2>5 DEF IInv, TypeOK, Versions, CacheType
<1>2. CountersInv'
  BY LoopsAssumption
     DEF IInv, TypeOK, CountersInv, WalkInv, InLoop, Running, LoopIds,
         NoLoop, ReSolve, SolverRun, SpendOne, Spent
<1>3. WalkInv'
  BY LoopsAssumption
     DEF IInv, TypeOK, CountersInv, WalkInv, InLoop, Running, LoopIds,
         NoLoop, ReSolve, SolverRun, SpendOne, Spent
<1>4. AcceptedInv'
  BY LoopsAssumption
     DEF IInv, TypeOK, CountersInv, WalkInv, InLoop, Running, LoopIds,
         NoLoop, AcceptedInv, Visited, ReSolve, SolverRun, SpendOne, Spent
<1>5. VerdictInv'
  BY LoopsAssumption
     DEF IInv, TypeOK, CountersInv, WalkInv, InLoop, Running, LoopIds,
         NoLoop, VerdictInv, AcceptedInv, Visited, Done, Converged, ReSolve,
         SolverRun, SpendOne, Spent
<1>6. CacheInv'
  <2>1. /\ cache' \in CacheType
        /\ cache'.types = net.types /\ cache'.taps = net.taps
        /\ cache'.symbolic = net.types
        /\ solved' = net
    BY SolverRunFields
       DEF IInv, TypeOK, CacheInv, CacheType, ReSolve
  <2>2. net' = net /\ ybus' = ybus /\ ybus = net.taps
    BY DEF ReSolve, SolverRun, IInv, CacheInv
  <2>3. pc' \in {"walk", "check", "done"}
    BY DEF ReSolve
  <2> QED
    BY <2>1, <2>2, <2>3 DEF CacheInv
<1> QED
  BY <1>1, <1>2, <1>3, <1>4, <1>5, <1>6 DEF IInv

-----------------------------------------------------------------------------
(* The theorems.                                                           *)

LEMMA NextIInv == IInv /\ [Next]_vars => IInv'
<1> SUFFICES ASSUME IInv, [Next]_vars PROVE IInv'
  OBVIOUS
<1>1. CASE FirstSolve     BY <1>1, FirstSolveIInv
<1>2. CASE StopEarly      BY <1>2, StopEarlyIInv
<1>3. CASE Consult        BY <1>3, ConsultIInv
<1>4. CASE QuietPass      BY <1>4, QuietPassIInv
<1>5. CASE NextPass       BY <1>5, NextPassIInv
<1>6. CASE CheckStable    BY <1>6, CheckStableIInv
<1>7. CASE CheckFailed    BY <1>7, CheckFailedIInv
<1>8. CASE CheckUnstable  BY <1>8, CheckUnstableIInv
<1>9. CASE Invalidate    BY <1>9, InvalidateIInv
<1>10. CASE ReSolve       BY <1>10, ReSolveIInv
<1>11. CASE UNCHANGED vars
  BY <1>11
     DEF vars, driver, matrices, IInv, TypeOK, CountersInv, WalkInv,
         AcceptedInv, Visited, VerdictInv, Done, Converged, CacheInv
<1> QED
  BY <1>1, <1>2, <1>3, <1>4, <1>5, <1>6, <1>7, <1>8, <1>9, <1>10,
     <1>11 DEF Next

\* The invariant holds in every reachable state of every instance.
THEOREM Invariance == Spec => []IInv
  BY InitIInv, NextIInv, PTL DEF Spec

\* Type correctness (the driver's counters stay within the budget).
THEOREM TypeCorrect == Spec => []TypeOK
BY Invariance, PTL DEF IInv

\* A run that reports convergence ends where every loop accepts the state,
\* for any number of loops that disturb one another in any way.
THEOREM FixedPoint == Spec => []ConvergedIsFixedPoint
<1>1. IInv => ConvergedIsFixedPoint
  BY DEF IInv, VerdictInv, ConvergedIsFixedPoint
<1> QED
  BY <1>1, Invariance, PTL

\* No loop is ever shown a state that is not the solution of the network as
\* the loops before it left it.
THEOREM CurrentSolve == Spec => []ConsultedOnCurrentSolve
<1>1. IInv => ConsultedOnCurrentSolve
  BY DEF IInv, CountersInv, CacheInv, Running, InLoop,
         ConsultedOnCurrentSolve
<1> QED
  BY <1>1, Invariance, PTL

\* The reports returned are those of the network returned.
THEOREM ReturnedState == Spec => []ReturnedStateIsSolved
<1>1. IInv => ReturnedStateIsSolved
  BY DEF IInv, CacheInv, Done, ReturnedStateIsSolved
<1> QED
  BY <1>1, Invariance, PTL

\* The counters agree with one another and with the budget.
THEOREM Accounting == Spec => []BudgetAccounting
<1>1. IInv => BudgetAccounting
  BY LoopsAssumption DEF IInv, TypeOK, CountersInv, BudgetAccounting
<1> QED
  BY <1>1, Invariance, PTL

\* Step by step, the driver does what ControlFixedPoint allows.
THEOREM Refinement == Spec => Promise!Safety
<1> DEFINE verdict == CASE pc = "first" -> "unsolved"
                        [] Done -> IF Converged THEN "converged"
                                                ELSE "stopped"
                        [] OTHER -> "running"
<1>1. Init => Promise!Init
  BY DEF Init, Promise!Init, Promise!LoopIds, LoopIds, Done
<1>2. IInv /\ IInv' /\ [Next]_vars => [Promise!Next]_(Promise!vars)
  <2> SUFFICES ASSUME IInv, IInv', [Next]_vars
               PROVE  [Promise!Next]_(Promise!vars)
    OBVIOUS
  <2>a. /\ pc = "first" => verdict = "unsolved"
        /\ pc = "done" /\ Converged => verdict = "converged"
        /\ pc = "done" /\ ~Converged => verdict = "stopped"
        /\ pc \in Running => verdict = "running"
    BY DEF Done, Running, InLoop
  <2>b. /\ pc' = "first" => verdict' = "unsolved"
        /\ pc' = "done" /\ Converged' => verdict' = "converged"
        /\ pc' = "done" /\ ~Converged' => verdict' = "stopped"
        /\ pc' \in Running => verdict' = "running"
    BY DEF Done, Running, InLoop
  <2> HIDE DEF verdict
  <2>1. CASE FirstSolve
    <3>1. NLoops # 0 /\ pc' = "done" => ~Converged'
      BY <2>1 DEF FirstSolve, Converged
    <3>2. NLoops = 0 => pc' = "done"
      BY <2>1 DEF FirstSolve
    <3> QED
      BY <2>1, <2>a, <2>b, <3>1, <3>2
         DEF FirstSolve, SolverRun, Promise!Next, Promise!Solve,
             Promise!LoopIds, LoopIds, Running, verdict
  <2>2. CASE StopEarly \/ QuietPass \/ CheckFailed
    <3>1. pc \in Running /\ pc' = "done" /\ ok' = ok /\ total' = total
      BY <2>2 DEF StopEarly, Stops, Wrapped, QuietPass, CheckFailed,
                  Running, InLoop, driver, matrices
    <3>2. Converged' => \A i \in LoopIds : ok[i]
      BY <3>1 DEF IInv, VerdictInv, Done
    <3> QED
      BY <2>a, <2>b, <3>1, <3>2
         DEF Promise!Next, Promise!Accept, Promise!GiveUp,
             Promise!LoopIds, LoopIds, verdict
  <2>3. CASE Consult \/ NextPass \/ CheckStable \/ CheckUnstable \/ Invalidate
    <3>1. pc \in Running /\ pc' \in Running /\ ok' = ok /\ total' = total
      BY <2>3 DEF Consult, NextPass, CheckStable, CheckUnstable, Invalidate,
                  Running, InLoop, driver, matrices
    <3> QED
      BY <2>a, <2>b, <3>1 DEF Promise!vars, verdict
  <2>4. CASE ReSolve
    <3>1. /\ pc \in Running /\ total < Budget /\ total' = total + 1
          /\ ok' \in [LoopIds -> BOOLEAN]
      BY <2>4 DEF ReSolve, SolverRun, SpendOne, IInv, CountersInv, Running,
                  InLoop
    <3>2. pc' = "done" => ~Converged'
      BY <2>4 DEF ReSolve, Converged
    <3>3. pc' \in {"done", "check"}
      BY <2>4 DEF ReSolve
    <3> QED
      BY <2>a, <2>b, <3>1, <3>2, <3>3
         DEF Promise!Next, Promise!Adjust, Promise!LoopIds, LoopIds,
             Running, InLoop, verdict
  <2>5. CASE UNCHANGED vars
    BY <2>5 DEF vars, driver, matrices, Promise!vars, Done, Converged
  <2> QED
    BY <2>1, <2>2, <2>3, <2>4, <2>5 DEF Next
<1> QED
  BY <1>1, <1>2, Invariance, PTL DEF Spec, Promise!Safety
-----------------------------------------------------------------------------
(* The loops on the driver (OuterLoopSystem), for every network, every      *)
(* order of the loops and every answer of a solve.                          *)

Names == {"remote", "balance", "qlimits"}

LEMMA NamesOfLoops == \A i \in LoopIds : LoopList[i] \in Names /\ Kind[i] = KindOf(LoopList[i])
<1>1. LoopList \in Seq(Names) /\ NLoops = Len(LoopList) /\ Kind = [i \in LoopIds |-> KindOf(LoopList[i])]
  BY SystemAssumption DEF Names
<1> QED
  BY <1>1 DEF LoopIds

\* Every step of the system is one of the driver's, whatever the loops do.
LEMMA SystemStepsAreDriverSteps == [SysNext]_sysVars => [Next]_vars
  BY DEF SysNext, SysFirstSolve, SysReSolve, SysDriver, SysCheck, SysRemoteStable,
     SysRemoteUnstable, SysBalanceStable, SysBalanceUnstable, SysLimitsUnstable,
     SysLimitsStable, Next, sysVars

\* The driver with its loops is the driver: what is proved of it for loops that
\* answer anything holds of these.
THEOREM SystemRunsTheDriver == SysSpec => Init /\ [][Next]_vars
<1>1. SysInit => Init
  BY DEF SysInit
<1> QED
  BY <1>1, SystemStepsAreDriverSteps, PTL DEF SysSpec

\* Which loops count as consulted after a step: none after a solve, the one that
\* has just accepted, and otherwise those that did.
LEMMA VisitedAfter ==
  ASSUME IInv, Next, NEW j \in LoopIds, Visited(j)', pc' \in {"walk", "check"}
  PROVE  /\ ~FirstSolve /\ ~ReSolve
         /\ Visited(j) \/ (CheckStable /\ j = pos)
<1> USE LoopsAssumption DEF IInv, TypeOK, CountersInv, WalkInv, InLoop, Running, LoopIds,
    NoLoop, Visited
<1>1. CASE FirstSolve
  BY <1>1 DEF FirstSolve
<1>2. CASE ReSolve
  BY <1>2 DEF ReSolve, SpendOne
<1>3. CASE NextPass
  BY <1>3 DEF NextPass, FirstSolve, ReSolve
<1>4. CASE CheckStable
  BY <1>4 DEF CheckStable, FirstSolve, ReSolve
<1>5. CASE Consult
  BY <1>5 DEF Consult, driver, FirstSolve, ReSolve
<1>6. CASE StopEarly \/ QuietPass \/ CheckFailed \/ CheckUnstable \/ Invalidate
  BY <1>6 DEF StopEarly, QuietPass, CheckFailed, CheckUnstable, Invalidate
<1> QED
  BY <1>1, <1>2, <1>3, <1>4, <1>5, <1>6 DEF Next

\* A run that converges has consulted every loop since its last solve.
LEMMA AllVisitedAtTheEnd ==
  ASSUME IInv, Next, pc' = "done", Converged', NEW j \in LoopIds
  PROVE  pc = "walk" /\ Visited(j)
<1> USE LoopsAssumption DEF IInv, TypeOK, CountersInv, WalkInv, InLoop, Running, LoopIds,
    NoLoop, Visited, Converged
<1>1. CASE FirstSolve
  BY <1>1 DEF FirstSolve
<1>2. CASE ReSolve
  BY <1>2 DEF ReSolve
<1>3. CASE StopEarly
  BY <1>3 DEF StopEarly, Stops, Wrapped
<1>4. CASE QuietPass
  BY <1>4 DEF QuietPass, driver
<1>5. CASE Consult \/ NextPass \/ CheckStable \/ CheckFailed \/ CheckUnstable \/ Invalidate
  BY <1>5 DEF Consult, NextPass, CheckStable, CheckFailed, CheckUnstable, Invalidate
<1> QED
  BY <1>1, <1>2, <1>3, <1>4, <1>5 DEF Next
-----------------------------------------------------------------------------
(* The invariant of the system.                                            *)

BusTypes == {"PQ", "PV", "Slack"}

SysTypes ==
  /\ busType \in [Buses -> BusTypes]
  /\ qSpec \in [Buses -> {"schedule", "min", "max"}]
  /\ switched \in [Buses -> {0, 1}]
  /\ reactive \in [Buses -> {"within", "min", "max"}]
  /\ previous \in [Remote -> BOOLEAN]

\* A bus leaves PV once, for the limit it broke, and never comes back.
BusInv ==
  \A b \in Buses :
    /\ switched[b] = 1 => busType[b] = "PQ" /\ qSpec[b] # "schedule" /\ pc # "first"
    /\ switched[b] = 0 /\ pc # "first" /\ HasRemote => busType[b] = Retyped[b]

\* A Jacobian that no longer fits is on its way out of the cache.
PatternInv ==
  /\ pc \in {"walk", "check", "done"} => pattern = busType
  /\ pc = "invalidate" => pattern = busType \/ Kind[pos] = "Pattern"
  /\ pc = "solve" => pattern = busType \/ cache.types = Empty

\* What a loop has reported of the state it accepted is still true of it.
Reported(j) ==
  /\ LoopList[j] = "balance" /\ balance = "area" /\ ~exhausted
       => unbalanced = offSchedule \ Driven
  /\ LoopList[j] = "remote" => outcome = RemoteOutcome

ReportInv ==
  /\ pc \in {"walk", "check", "done"} => ok = Acceptance
  /\ pc \in {"walk", "check"} => \A j \in LoopIds : Visited(j) => Reported(j)
  /\ Done /\ Converged => \A j \in LoopIds : Reported(j)

SysInv == IInv /\ SysTypes /\ BusInv /\ PatternInv /\ ReportInv

LEMMA InitSysInv == SysInit => SysInv
<1> SUFFICES ASSUME SysInit PROVE SysInv
  OBVIOUS
<1>1. IInv
  BY InitIInv DEF SysInit
<1>2. SysTypes
  BY SystemAssumption DEF SysInit, SysTypes, BusTypes
<1>3. BusInv /\ PatternInv /\ ReportInv
  BY DEF SysInit, Init, BusInv, PatternInv, ReportInv, Done
<1> QED
  BY <1>1, <1>2, <1>3 DEF SysInv

\* What a loop makes of a state, and what it said of it, depend on that state only.
LEMMA SameState ==
  ASSUME UNCHANGED <<busType, limits, previous, balance, exhausted, physics>>
  PROVE  /\ Acceptance' = Acceptance /\ Movers' = Movers
         /\ Driven' = Driven /\ Adrift' = Adrift
         /\ outcome' = outcome \/ outcome' = RemoteOutcome => RemoteOutcome' = RemoteOutcome
<1>1. /\ Movers' = Movers /\ Driven' = Driven /\ Adrift' = Adrift
      /\ Violators' = Violators
  BY DEF Movers, InControl, NoResponse, Driven, Adrift, Violators, physics
<1>2. Acceptance' = Acceptance
  BY <1>1 DEF Acceptance, Accepts
<1>3. ASSUME outcome' = outcome \/ outcome' = RemoteOutcome
      PROVE  RemoteOutcome' = RemoteOutcome
  <2>1. \A m \in Remote : m \notin Kept => outcome'[m] = outcome[m]
    <3> SUFFICES ASSUME NEW m \in Remote, m \notin Kept, outcome' = RemoteOutcome
                 PROVE  outcome'[m] = outcome[m]
      BY <1>3
    <3>1. RemoteOutcome[m] = outcome[m]
      BY DEF RemoteOutcome
    <3> QED
      BY <3>1
  <2> QED
    BY <2>1 DEF RemoteOutcome, InControl, NoResponse, physics
<1> QED
  BY <1>1, <1>2, <1>3

\* A step that is neither a solve nor a loop's answer.
LEMMA DriverStepKeeps ==
  ASSUME SysInv, SysDriver
  PROVE  SysTypes' /\ BusInv' /\ PatternInv' /\ ReportInv'
<1>1. /\ UNCHANGED <<buses, switched, remoteState, balanceState, physics, pattern>>
      /\ StopEarly \/ Consult \/ QuietPass \/ NextPass \/ Invalidate
      /\ Next /\ pc # "first" /\ pc' # "first"
  BY DEF SysDriver, Next, StopEarly, Consult, QuietPass, NextPass, Invalidate, SysInv, IInv, TypeOK
<1>2. SysTypes' /\ BusInv'
  BY <1>1 DEF SysInv, SysTypes, BusInv, buses, physics, remoteState, Retyped, Unpinned
<1>3. PatternInv'
  <2>1. CASE Invalidate
    <3>1. pattern = busType \/ Kind[pos] = "Pattern"
      BY <2>1 DEF Invalidate, SysInv, PatternInv
    <3>2. Kind[pos] = "Pattern" => cache'.types = Empty
      BY <2>1 DEF Invalidate, Invalidated, Reset
    <3>3. pos' = pos /\ pattern' = pattern /\ busType' = busType /\ pc' = "solve"
      BY <1>1, <2>1 DEF Invalidate, driver, buses
    <3> QED
      BY <3>1, <3>2, <3>3 DEF PatternInv
  <2>2. CASE ~Invalidate
    BY <1>1, <2>2 DEF StopEarly, Consult, QuietPass, NextPass, SysInv, PatternInv, buses
  <2> QED
    BY <2>1, <2>2
<1>4. ReportInv'
  <2>1. /\ Acceptance' = Acceptance
        /\ \A j \in LoopIds : Reported(j) => Reported(j)'
    <3>1. UNCHANGED <<busType, limits, previous, balance, exhausted, physics>>
      BY <1>1 DEF buses, remoteState, balanceState
    <3>2. /\ Acceptance' = Acceptance /\ Driven' = Driven
          /\ outcome' = outcome \/ outcome' = RemoteOutcome => RemoteOutcome' = RemoteOutcome
      BY <3>1, SameState
    <3>3. outcome' = outcome /\ unbalanced' = unbalanced /\ offSchedule' = offSchedule
      BY <1>1 DEF remoteState, balanceState, physics
    <3> QED
      BY <3>1, <3>2, <3>3 DEF Reported
  <2>2. ok' = ok
    BY <1>1 DEF StopEarly, Consult, QuietPass, NextPass, Invalidate, matrices
  <2>3. CASE pc' \in {"walk", "check"}
    <3>1. pc = "walk"
      BY <1>1, <2>3 DEF StopEarly, Consult, QuietPass, NextPass, Invalidate
    <3>2. ASSUME NEW j \in LoopIds, Visited(j)' PROVE Reported(j)'
      <4>1. Visited(j)
        BY <1>1, <2>3, <3>1, <3>2, VisitedAfter DEF SysInv, CheckStable
      <4> QED
        BY <2>1, <3>1, <4>1 DEF SysInv, ReportInv
    <3> QED
      BY <2>1, <2>2, <2>3, <3>1, <3>2 DEF SysInv, ReportInv, Done
  <2>4. CASE pc' = "done"
    <3>1. pc = "walk"
      BY <1>1, <2>4 DEF StopEarly, Consult, QuietPass, NextPass, Invalidate
    <3>2. ASSUME Converged', NEW j \in LoopIds PROVE Reported(j)'
      <4>1. Visited(j)
        BY <1>1, <2>4, <3>2, AllVisitedAtTheEnd DEF SysInv
      <4> QED
        BY <2>1, <3>1, <4>1 DEF SysInv, ReportInv
    <3> QED
      BY <2>1, <2>2, <2>4, <3>1, <3>2 DEF SysInv, ReportInv, Done
  <2>5. CASE pc' = "solve"
    BY <2>5 DEF ReportInv, Done
  <2> QED
    BY <1>1, <2>3, <2>4, <2>5 DEF StopEarly, Consult, QuietPass, NextPass, Invalidate
<1> QED
  BY <1>2, <1>3, <1>4
\* What a solve leaves in the quantities the loops read.
LEMMA MeasuredTypes ==
  ASSUME Measured, qSpec \in [Buses -> {"schedule", "min", "max"}],
         switched' \in [Buses -> {0, 1}],
         \A b \in Buses : switched'[b] = 1 => qSpec[b] # "schedule"
  PROVE  reactive' \in [Buses -> {"within", "min", "max"}]
<1>1. PICK free \in [Holding' -> {"within", "min", "max"}], beyond \in SUBSET AtALimit' :
        reactive' = [b \in Buses |-> CASE b \in Holding' -> free[b]
                                       [] b \in beyond -> qSpec[b]
                                       [] OTHER -> "within"]
  BY DEF Measured
<1>2. ASSUME NEW b \in Buses PROVE reactive'[b] \in {"within", "min", "max"}
  <2>1. b \in beyond => b \notin Holding' /\ qSpec[b] \in {"min", "max"}
    BY DEF AtALimit, Holding
  <2>2. CASE b \in Holding'
    BY <1>1, <2>1, <2>2
  <2>3. CASE b \in beyond
    BY <1>1, <2>1, <2>3
  <2>4. CASE b \notin Holding' /\ b \notin beyond
    BY <1>1, <2>4
  <2> QED
    BY <2>2, <2>3, <2>4
<1> QED
  BY <1>1, <1>2

\* The first solve, and what remote control prepares for it.
LEMMA FirstSolveKeeps ==
  ASSUME SysInv, SysFirstSolve
  PROVE  SysTypes' /\ BusInv' /\ PatternInv' /\ ReportInv'
<1>1. /\ RemoteInitialize /\ Measured /\ FirstSolve /\ Next
      /\ UNCHANGED <<qSpec, switched, outcome, previous, balanceState>>
      /\ pc = "first" /\ pc' # "first" /\ pc' \in {"walk", "done"}
  BY DEF SysFirstSolve, FirstSolve, Next
<1>2. \A b \in Buses : switched[b] = 0
  BY <1>1 DEF SysInv, BusInv, SysTypes
<1>3. Retyped \in [Buses -> BusTypes]
  <2>1. Unpinned \in [Buses -> BusTypes]
    BY SystemAssumption DEF Unpinned, BusTypes
  <2> QED
    BY <2>1 DEF Retyped, BusTypes
<1>4. SysTypes'
  <2>1. reactive' \in [Buses -> {"within", "min", "max"}]
    BY <1>1, <1>2, MeasuredTypes DEF SysInv, SysTypes
  <2>2. busType' \in [Buses -> BusTypes]
    BY <1>1, <1>3 DEF RemoteInitialize, SysInv, SysTypes
  <2> QED
    BY <1>1, <2>1, <2>2 DEF SysInv, SysTypes
<1>5. BusInv'
  <2>1. HasRemote => busType' = Retyped
    BY <1>1 DEF RemoteInitialize
  <2>2. Retyped' = Retyped /\ HasRemote' = HasRemote
    BY DEF Retyped, Unpinned, HasRemote, HasLoop
  <2> QED
    BY <1>1, <1>2, <2>1, <2>2 DEF BusInv
<1>6. PatternInv'
  BY <1>1 DEF SysInv, IInv, CacheInv, Measured, PatternInv
<1>7. ReportInv'
  <2>1. ok' = Acceptance'
    BY <1>1 DEF Measured
  <2>2. ASSUME NEW j \in LoopIds, pc' \in {"walk", "check"} PROVE ~Visited(j)'
    BY <1>1, <2>2, VisitedAfter DEF SysInv
  <2>3. ASSUME NEW j \in LoopIds, pc' = "done" PROVE ~Converged'
    BY <1>1, <2>3, AllVisitedAtTheEnd DEF SysInv
  <2> QED
    BY <2>1, <2>2, <2>3 DEF ReportInv, Done
<1> QED
  BY <1>4, <1>5, <1>6, <1>7

\* A re-solve answers for the network as it is, and nothing has been said of the
\* state it leaves.
LEMMA ReSolveKeeps ==
  ASSUME SysInv, SysReSolve
  PROVE  SysTypes' /\ BusInv' /\ PatternInv' /\ ReportInv'
<1>1. /\ Measured /\ ReSolve /\ Next
      /\ UNCHANGED <<buses, switched, remoteState, balanceState>>
      /\ pc = "solve" /\ pc' \in {"check", "done"}
  BY DEF SysReSolve, ReSolve, Next
<1>2. /\ busType' = busType /\ qSpec' = qSpec /\ switched' = switched
      /\ previous' = previous
  BY <1>1 DEF buses, remoteState
<1>3. SysTypes'
  <2>1. \A b \in Buses : switched'[b] = 1 => qSpec[b] # "schedule"
    BY <1>2 DEF SysInv, BusInv
  <2>2. reactive' \in [Buses -> {"within", "min", "max"}]
    BY <1>1, <1>2, <2>1, MeasuredTypes DEF SysInv, SysTypes
  <2> QED
    BY <1>2, <2>2 DEF SysInv, SysTypes
<1>4. BusInv'
  <2>1. Retyped' = Retyped /\ HasRemote' = HasRemote
    BY DEF Retyped, Unpinned, HasRemote, HasLoop
  <2> QED
    BY <1>1, <1>2, <2>1 DEF SysInv, BusInv
<1>5. PatternInv'
  BY <1>1, <1>2 DEF SysInv, Measured, PatternInv
<1>6. ReportInv'
  <2>1. ok' = Acceptance'
    BY <1>1 DEF Measured
  <2>2. ASSUME NEW j \in LoopIds, pc' \in {"walk", "check"} PROVE ~Visited(j)'
    BY <1>1, <2>2, VisitedAfter DEF SysInv
  <2>3. ASSUME NEW j \in LoopIds, pc' = "done" PROVE ~Converged'
    BY <1>1, <2>3, AllVisitedAtTheEnd DEF SysInv
  <2> QED
    BY <1>1, <2>1, <2>2, <2>3 DEF ReportInv, Done
<1> QED
  BY <1>3, <1>4, <1>5, <1>6

\* A loop that accepts changes nothing another loop reads, and reports on the
\* state it accepts.
LEMMA StableKeeps ==
  ASSUME SysInv, SysRemoteStable \/ SysBalanceStable \/ SysLimitsStable
  PROVE  SysTypes' /\ BusInv' /\ PatternInv' /\ ReportInv'
<1>1. /\ CheckStable /\ Next /\ pc = "check" /\ pc' = "walk" /\ pos \in LoopIds
      /\ UNCHANGED <<buses, switched, physics, pattern>>
  BY LoopsAssumption DEF SysRemoteStable, SysBalanceStable, SysLimitsStable, CheckStable, Next,
     RemoteCheck, BalanceAccepts, SysInv, IInv, WalkInv, InLoop
<1>2. previous' = previous
  <2>1. CASE SysRemoteStable
    <3>1. Movers = {}
      BY <1>1, <2>1 DEF SysInv, ReportInv, Acceptance, Accepts, SysRemoteStable, Name, CheckStable
    <3> QED
      BY <2>1, <3>1 DEF SysRemoteStable, RemoteCheck, SysInv, SysTypes
  <2>2. CASE SysBalanceStable \/ SysLimitsStable
    BY <2>2 DEF SysBalanceStable, SysLimitsStable, BalanceAccepts, remoteState
  <2> QED
    BY <2>1, <2>2
<1>3. UNCHANGED <<busType, limits, qSpec, switched, previous, balance, exhausted, physics, pattern>>
  <2>1. balance' = balance /\ exhausted' = exhausted
    BY DEF SysRemoteStable, SysBalanceStable, SysLimitsStable, RemoteCheck, BalanceAccepts,
       balanceState
  <2> QED
    BY <1>1, <1>2, <2>1 DEF buses
<1>4. SysTypes' /\ BusInv' /\ PatternInv'
  <2>1. Retyped' = Retyped /\ HasRemote' = HasRemote
    BY DEF Retyped, Unpinned, HasRemote, HasLoop
  <2> QED
    BY <1>1, <1>3, <2>1 DEF SysInv, SysTypes, BusInv, PatternInv, physics
<1>5. outcome' = outcome \/ outcome' = RemoteOutcome
  BY DEF SysRemoteStable, SysBalanceStable, SysLimitsStable, RemoteCheck, BalanceAccepts,
     remoteState
<1>6. Acceptance' = Acceptance /\ Driven' = Driven /\ RemoteOutcome' = RemoteOutcome
  BY <1>3, <1>5, SameState
<1>7. ASSUME NEW j \in LoopIds, Reported(j) \/ j = pos PROVE Reported(j)'
  <2>1. offSchedule' = offSchedule /\ balance' = balance /\ exhausted' = exhausted
    BY <1>3 DEF physics
  <2>2. ASSUME LoopList[j] = "remote" PROVE outcome' = RemoteOutcome
    BY <1>5, <1>7, <2>2 DEF Reported, Name, SysRemoteStable, SysBalanceStable,
       SysLimitsStable, RemoteCheck
  <2>3. ASSUME LoopList[j] = "balance", balance = "area", ~exhausted
        PROVE  unbalanced' = offSchedule \ Driven
    <3>1. CASE SysBalanceStable
      BY <2>3, <3>1 DEF SysBalanceStable, BalanceAccepts, ReportUnbalanced
    <3>2. CASE SysRemoteStable \/ SysLimitsStable
      BY <1>7, <2>3, <3>2 DEF Reported, Name, SysRemoteStable, SysLimitsStable, RemoteCheck,
         balanceState
    <3> QED
      BY <3>1, <3>2
  <2> QED
    BY <1>6, <2>1, <2>2, <2>3 DEF Reported
<1>8. ReportInv'
  <2>1. \A j \in LoopIds : Visited(j)' => Visited(j) \/ j = pos
    BY <1>1, VisitedAfter DEF SysInv
  <2>2. ok' = ok
    BY <1>1 DEF CheckStable
  <2> QED
    BY <1>1, <1>6, <1>7, <2>1, <2>2 DEF SysInv, ReportInv, Done
<1> QED
  BY <1>4, <1>8

\* A loop that moves something leaves bus types that fit the pattern, unless it
\* is one that says so.
LEMMA UnstableKeeps ==
  ASSUME SysInv, SysRemoteUnstable \/ SysBalanceUnstable \/ SysLimitsUnstable
  PROVE  SysTypes' /\ BusInv' /\ PatternInv' /\ ReportInv'
<1>1. /\ CheckUnstable /\ pc = "check" /\ pc' = "invalidate" /\ pos' = pos /\ pos \in LoopIds
      /\ UNCHANGED <<physics, pattern>>
  BY LoopsAssumption DEF SysRemoteUnstable, SysBalanceUnstable, SysLimitsUnstable, CheckUnstable,
     RemoteCheck, BalanceMoves, LimitsSwitch, SysInv, IInv, WalkInv, InLoop
<1>2. ReportInv'
  BY <1>1 DEF ReportInv, Done
<1>3. Retyped' = Retyped /\ HasRemote' = HasRemote
  BY DEF Retyped, Unpinned, HasRemote, HasLoop
<1>4. CASE SysLimitsUnstable
  <2>1. LimitsSwitch /\ Kind[pos] = "Pattern"
    BY <1>1, <1>4, NamesOfLoops DEF SysLimitsUnstable, Name, KindOf
  <2>2. \A b \in Violators : /\ b \in Buses /\ busType[b] = "PV" /\ switched[b] = 0
                             /\ reactive[b] \in {"min", "max"}
    BY DEF Violators, SysInv, SysTypes, BusInv
  <2>3. SysTypes'
    BY <1>1, <2>1, <2>2 DEF LimitsSwitch, SysInv, SysTypes, BusTypes, physics, remoteState
  <2>4. BusInv'
    BY <1>1, <1>3, <2>1, <2>2 DEF LimitsSwitch, SysInv, SysTypes, BusInv
  <2> QED
    BY <1>1, <1>2, <2>1, <2>3, <2>4 DEF PatternInv
<1>5. CASE SysRemoteUnstable \/ SysBalanceUnstable
  <2>1. UNCHANGED <<busType, qSpec, switched>> /\ previous' \in [Remote -> BOOLEAN]
    BY <1>5 DEF SysRemoteUnstable, SysBalanceUnstable, RemoteCheck, BalanceMoves, buses,
       remoteState, SysInv, SysTypes, Movers
  <2> QED
    BY <1>1, <1>2, <1>3, <2>1 DEF SysInv, SysTypes, BusInv, PatternInv, physics
<1> QED
  BY <1>4, <1>5

LEMMA NextSysInv == SysInv /\ [SysNext]_sysVars => SysInv'
<1> SUFFICES ASSUME SysInv, [SysNext]_sysVars PROVE SysInv'
  OBVIOUS
<1>1. IInv'
  BY SystemStepsAreDriverSteps, NextIInv DEF SysInv
<1>2. CASE SysNext
  BY <1>1, <1>2, FirstSolveKeeps, ReSolveKeeps, DriverStepKeeps, StableKeeps, UnstableKeeps
     DEF SysInv, SysNext, SysCheck
<1>3. CASE UNCHANGED sysVars
  <2>1. UNCHANGED <<pc, pos, total, before, lastUnstable, statuses, cache, ok, busType, limits,
                    qSpec, switched, previous, outcome, balance, exhausted, unbalanced, reactive,
                    physics, pattern, failed, budgetExhausted, settled>>
    BY <1>3 DEF sysVars, vars, driver, matrices, buses, remoteState, balanceState, physics
  <2>2. SysTypes' /\ BusInv' /\ PatternInv'
    BY <2>1 DEF SysInv, SysTypes, BusInv, PatternInv, Retyped, Unpinned
  <2>3. /\ Acceptance' = Acceptance /\ Driven' = Driven /\ RemoteOutcome' = RemoteOutcome
    BY <2>1, SameState
  <2>4. \A j \in LoopIds : (Reported(j) => Reported(j)') /\ (Visited(j)' = Visited(j))
    BY <2>1, <2>3 DEF Reported, Visited, physics
  <2>5. ReportInv'
    BY <2>1, <2>3, <2>4 DEF SysInv, ReportInv, Done, Converged
  <2> QED
    BY <1>1, <2>2, <2>5 DEF SysInv
<1> QED
  BY <1>2, <1>3

\* Bus types, clamped machines, reports and caches stay in step with one another,
\* whichever loop wrote last (qlimits.rs, remote.rs, slack.rs, area.rs).
THEOREM SystemInvariance == SysSpec => []SysInv
  BY InitSysInv, NextSysInv, PTL DEF SysSpec

\* The Jacobian a solve used fits the bus types it solved, whoever changed them.
THEOREM PatternFits == SysSpec => []PatternFitsBusTypes
<1>1. SysInv => PatternFitsBusTypes
  BY DEF SysInv, PatternInv, PatternFitsBusTypes
<1> QED
  BY <1>1, SystemInvariance, PTL

\* A bus is switched at most once, from PV, to the limit it broke;
\* any other bus holds a voltage as remote control left it.
THEOREM OneSwitchPerBus == SysSpec => []SwitchedOnce
<1>1. \A b \in Buses : Retyped[b] = "PV" <=> HoldsAVoltage(b)
  BY SystemAssumption DEF Retyped, Unpinned, HoldsAVoltage
<1>2. SysInv => SwitchedOnce
  BY <1>1 DEF SysInv, SysTypes, BusInv, SwitchedOnce
<1> QED
  BY <1>2, SystemInvariance, PTL

\* The re-solves a loop has asked for, the one under way included.
Moves(j) == counts[j] + (IF pc \in {"invalidate", "solve"} /\ pos = j THEN 1 ELSE 0)

\* The balance counts every pass, and those that move are among them.
CapInv ==
  /\ passes \in Nat
  /\ \A j \in LoopIds : LoopList[j] = "balance" =>
       /\ Moves(j) <= passes /\ Moves(j) <= MaxOf(MaxOuterIter, 1)
       /\ exhausted \/ Moves(j) < MaxOf(MaxOuterIter, 1)

LEMMA InitCapInv == SysInit => CapInv
<1>1. MaxOf(MaxOuterIter, 1) \in Nat /\ MaxOf(MaxOuterIter, 1) >= 1
  BY SystemAssumption DEF MaxOf
<1> QED
  BY <1>1 DEF SysInit, Init, CapInv, Moves

LEMMA NextCapInv == SysInv /\ CapInv /\ [SysNext]_sysVars => CapInv'
<1> SUFFICES ASSUME SysInv, CapInv, [SysNext]_sysVars PROVE CapInv'
  OBVIOUS
<1>1. MaxOf(MaxOuterIter, 1) \in Nat /\ MaxOf(MaxOuterIter, 1) >= 1
  BY SystemAssumption DEF MaxOf
<1>2. pos \in 1..(NLoops + 1) /\ counts \in [LoopIds -> 0..Budget] /\ Budget \in Nat
  BY LoopsAssumption DEF SysInv, IInv, TypeOK
<1>3. ASSUME passes' = passes, exhausted' = exhausted,
             \A j \in LoopIds : LoopList[j] = "balance" => Moves(j)' = Moves(j)
      PROVE  CapInv'
  BY <1>3 DEF CapInv
<1>4. CASE SysFirstSolve
  BY <1>3, <1>4 DEF SysFirstSolve, FirstSolve, Moves, balanceState
<1>5. CASE SysReSolve
  <2>1. /\ UNCHANGED <<passes, exhausted, pos>> /\ counts' = [counts EXCEPT ![pos] = @ + 1]
        /\ pc = "solve" /\ pc' \in {"check", "done"}
    BY <1>5 DEF SysReSolve, ReSolve, SpendOne, balanceState
  <2>2. \A j \in LoopIds : Moves(j)' = Moves(j)
    BY <1>2, <2>1 DEF Moves
  <2> QED
    BY <1>3, <2>1, <2>2
<1>6. CASE SysDriver
  <2>1. UNCHANGED <<passes, exhausted>>
    BY <1>6 DEF SysDriver, balanceState
  <2>2. \A j \in LoopIds : Moves(j)' = Moves(j)
    BY <1>6 DEF SysDriver, StopEarly, Consult, QuietPass, NextPass, Invalidate, driver, Moves
  <2> QED
    BY <1>3, <2>1, <2>2
<1>7. CASE SysRemoteStable \/ SysLimitsStable \/ SysBalanceStable
  <2>1. counts' = counts /\ pc = "check" /\ pc' = "walk"
    BY <1>7 DEF SysRemoteStable, SysLimitsStable, SysBalanceStable, CheckStable
  <2>2. /\ exhausted' = exhausted /\ passes' \in {passes, passes + 1}
    BY <1>7 DEF SysRemoteStable, SysLimitsStable, SysBalanceStable, RemoteCheck, BalanceAccepts,
       balanceState
  <2>3. \A j \in LoopIds : Moves(j)' = Moves(j) /\ Moves(j) \in Nat
    BY <1>2, <2>1 DEF Moves
  <2> QED
    BY <1>1, <2>2, <2>3 DEF CapInv
<1>8. CASE SysRemoteUnstable \/ SysLimitsUnstable
  <2>1. /\ UNCHANGED <<passes, exhausted, counts, pos>> /\ pc = "check"
        /\ LoopList[pos] \in {"remote", "qlimits"}
    BY <1>8 DEF SysRemoteUnstable, SysLimitsUnstable, CheckUnstable, RemoteCheck, LimitsSwitch,
       balanceState, Name
  <2>2. \A j \in LoopIds : LoopList[j] = "balance" => Moves(j)' = Moves(j)
    BY <2>1 DEF Moves
  <2> QED
    BY <1>3, <2>1, <2>2
<1>9. CASE SysBalanceUnstable
  <2>1. /\ UNCHANGED <<counts, pos>> /\ pc = "check" /\ pc' = "invalidate" /\ ~ok[pos]
        /\ LoopList[pos] = "balance" /\ passes' = passes + 1 /\ exhausted' = LastPass
        /\ pos \in LoopIds
    BY <1>9 DEF SysBalanceUnstable, CheckUnstable, BalanceMoves, Name, SysInv, IInv, WalkInv,
       InLoop
  <2>2. ~exhausted
    BY <2>1 DEF SysInv, ReportInv, Acceptance, Accepts
  <2>3. \A j \in LoopIds : /\ Moves(j) \in Nat
                           /\ Moves(j)' = Moves(j) + (IF j = pos THEN 1 ELSE 0)
    BY <1>2, <2>1 DEF Moves
  <2>4. LastPass <=> passes + 1 >= MaxOf(MaxOuterIter, 1)
    BY DEF LastPass
  <2> QED
    BY <1>1, <2>1, <2>2, <2>3, <2>4 DEF CapInv
<1>10. CASE UNCHANGED sysVars
  <2>1. UNCHANGED <<passes, exhausted, counts, pos, pc>>
    BY <1>10 DEF sysVars, vars, driver, balanceState
  <2> QED
    BY <1>3, <2>1 DEF Moves
<1> QED
  BY <1>4, <1>5, <1>6, <1>7, <1>8, <1>9, <1>10 DEF SysNext, SysCheck

LEMMA CapInvariance == SysSpec => []CapInv
  BY SystemInvariance, InitCapInv, NextCapInv, PTL DEF SysSpec

\* The balance never moves more often than its cap, and when the run says it
\* converged, the controls agree on the state returned.
THEOREM ControlsAgree == SysSpec => []ConvergedControlsAgree
<1>1. ASSUME SysInv, CapInv PROVE ConvergedControlsAgree
  <2>0. ASSUME NEW j \in LoopIds, LoopList[j] = "balance"
        PROVE  counts[j] <= MaxOf(MaxOuterIter, 1)
    <3>1. Moves(j) <= MaxOf(MaxOuterIter, 1)
      BY <1>1, <2>0 DEF CapInv
    <3>2. counts[j] \in Nat /\ MaxOf(MaxOuterIter, 1) \in Nat
      BY <1>1, SystemAssumption, LoopsAssumption DEF SysInv, IInv, TypeOK, MaxOf
    <3> QED
      BY <3>1, <3>2 DEF Moves
  <2>1. ASSUME Done, Converged
        PROVE  \A j \in LoopIds : ok[j] /\ Reported(j) /\ ok[j] = Accepts(LoopList[j])
    BY <1>1, <2>1 DEF SysInv, IInv, VerdictInv, ReportInv, Done, Acceptance
  <2>2. Done /\ Converged /\ HasLoop("qlimits") => Violators = {}
    BY <2>1 DEF HasLoop, Accepts
  <2>3. Done /\ Converged /\ HasLoop("remote") => Movers = {} /\ outcome = RemoteOutcome
    BY <2>1 DEF HasLoop, Accepts, Reported
  <2>4. ASSUME Done, Converged, HasLoop("balance"), ~exhausted
        PROVE  Adrift = {} /\ (balance = "area" => unbalanced = offSchedule)
    <3>1. Adrift = {}
      BY <2>1, <2>4 DEF HasLoop, Accepts
    <3>2. balance = "area" => unbalanced = offSchedule \ Driven
      BY <2>1, <2>4 DEF HasLoop, Reported
    <3> QED
      BY <3>1, <3>2 DEF Adrift
  <2> QED
    BY <2>0, <2>2, <2>3, <2>4 DEF ConvergedControlsAgree
<1> QED
  BY <1>1, SystemInvariance, CapInvariance, PTL
=============================================================================
