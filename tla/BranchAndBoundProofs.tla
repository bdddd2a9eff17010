------------------------ MODULE BranchAndBoundProofs ------------------------
(***************************************************************************)
(* What a finished branch and bound search may claim, for every problem,   *)
(* every relaxation, every tolerance and every budget.                     *)
(*                                                                         *)
(* The invariant says where each solution is: in an open box, or no better *)
(* than the incumbent.  Branching keeps it because a whole point is never  *)
(* at the odd value branched on; pruning keeps it because a relaxation's   *)
(* objective is below that of every point of its box and incumbents only   *)
(* get better.                                                             *)
(***************************************************************************)
EXTENDS BranchAndBound, TLAPS

USE BnbAssumption

\* The root relaxation is the first solved, so its bound is there before any
\* incumbent, and it bounds every point.
RootFirst ==
  /\ bestBound = {} => incumbent = {} /\ \A i \in 1..Len(stack) : stack[i].root
  /\ \A i \in 1..Len(stack) : stack[i].root => stack[i] = Root
BoundIsSound == \A o \in bestBound : \A p \in Feasible : o <= cost[p]

BudgetSpent == ~exhausted => nodes >= MaxNodes

\* Once the tree is explored no point is open any more.
Concluded ==
  pc = "conclude" /\ exhausted /\ ~unanswered => \A p \in Feasible : NotBetter(p)

Undecided == pc # "done" => status = "none" /\ gap = Infinite

Claims == OptimalIsOptimal /\ GapIsNeverUnderstated /\ InfeasibleIsProven

IInv ==
  /\ TypeOK /\ RootFirst /\ BoundIsSound /\ BudgetSpent
  /\ NothingLost /\ Concluded /\ Undecided /\ Claims

-----------------------------------------------------------------------------
\* Feasible points are whole points of the root box, at integer costs.
LEMMA FeasibleType ==
  ASSUME TypeOK
  PROVE  /\ Feasible \subseteq Points
         /\ \A p \in Feasible : cost[p] \in Objectives /\ cost[p] \in Int
<1>1. PICK F \in SUBSET Points : cost \in [F -> Objectives]
  BY DEF TypeOK
<1>2. Feasible = F
  BY <1>1 DEF Feasible
<1> QED BY <1>1, <1>2

LEMMA PointType ==
  ASSUME NEW p \in Points, NEW c \in Columns
  PROVE  p[c] \in Int /\ p[c] % 2 = 0 /\ Lower[c] <= p[c] /\ p[c] <= Upper[c]
BY DEF Points, IsWhole

LEMMA RootType == Root \in Node /\ Root.root
BY DEF Root, Node

\* The root box holds every feasible point.
LEMMA RootHolds ==
  ASSUME NEW p \in Points
  PROVE  Admits(Root, p)
BY PointType DEF Admits, Root

LEMMA RootHoldsAll ==
  ASSUME TypeOK, NEW n, n = Root
  PROVE  \A p \in Feasible : Admits(n, p)
BY FeasibleType, RootHolds

\* Popping: what is left are the boxes below the top one.
LEMMA Popped ==
  ASSUME stack \in Seq(Node), stack # <<>>
  PROVE  /\ TopNode \in Node
         /\ Len(stack) \in Nat /\ Len(stack) >= 1
         /\ Rest \in Seq(Node)
         /\ Len(Rest) = Len(stack) - 1
         /\ \A i \in 1..Len(Rest) : Rest[i] = stack[i]
<1>1. Len(stack) \in Nat /\ Len(stack) >= 1
  OBVIOUS
<1>2. TopNode \in Node
  BY <1>1 DEF TopNode
<1>3. Rest = [i \in 1..(Len(stack) - 1) |-> stack[i]]
  BY <1>1 DEF Rest
<1>4. Rest \in Seq(Node) /\ Len(Rest) = Len(stack) - 1
  BY <1>1, <1>3
<1> QED BY <1>1, <1>2, <1>3, <1>4

LEMMA ChildType ==
  ASSUME NEW n \in Node, NEW c \in Columns, NEW v \in Int
  PROVE  /\ Below(n, c, v) \in Node /\ ~Below(n, c, v).root
         /\ Above(n, c, v) \in Node /\ ~Above(n, c, v).root
BY DEF Node, Below, Above

\* The two children of a node hold its whole points, each in one of them.
LEMMA ChildrenHold ==
  ASSUME NEW n \in Node, NEW c \in Columns, NEW v \in Int, ~IsWhole(v),
         NEW p \in Points
  PROVE  /\ Admits(n, p) => Admits(Below(n, c, v), p) \/ Admits(Above(n, c, v), p)
         /\ Admits(Below(n, c, v), p) \/ Admits(Above(n, c, v), p)
              => Admits(n, p) \/ ~(n.lo[c] <= v /\ v <= n.hi[c])
         /\ ~(Admits(Below(n, c, v), p) /\ Admits(Above(n, c, v), p))
<1> DEFINE b == Below(n, c, v)
           a == Above(n, c, v)
<1>1. /\ b.lo = n.lo /\ a.hi = n.hi
      /\ b.hi = [n.hi EXCEPT ![c] = v - 1] /\ a.lo = [n.lo EXCEPT ![c] = v + 1]
  BY DEF Below, Above, Node
<1>2. n.lo \in [Columns -> Int] /\ n.hi \in [Columns -> Int]
  BY DEF Node
<1>3. \A d \in Columns : p[d] \in Int /\ p[d] % 2 = 0
  BY PointType
<1>4. p[c] # v
  BY <1>3 DEF IsWhole
<1>5. ASSUME Admits(n, p) PROVE Admits(b, p) \/ Admits(a, p)
  <2>1. CASE p[c] <= v - 1
    BY <2>1, <1>5, <1>1, <1>2 DEF Admits
  <2>2. CASE p[c] >= v + 1
    BY <2>2, <1>5, <1>1, <1>2 DEF Admits
  <2> QED BY <2>1, <2>2, <1>3, <1>4
<1>6. ASSUME Admits(b, p), n.lo[c] <= v, v <= n.hi[c] PROVE Admits(n, p)
  <2> SUFFICES ASSUME NEW d \in Columns PROVE n.lo[d] <= p[d] /\ p[d] <= n.hi[d]
    BY DEF Admits
  <2>1. CASE d = c
    BY <2>1, <1>6, <1>1, <1>2, <1>3 DEF Admits
  <2>2. CASE d # c
    BY <2>2, <1>6, <1>1, <1>2, <1>3 DEF Admits
  <2> QED BY <2>1, <2>2
<1>7. ASSUME Admits(a, p), n.lo[c] <= v, v <= n.hi[c] PROVE Admits(n, p)
  <2> SUFFICES ASSUME NEW d \in Columns PROVE n.lo[d] <= p[d] /\ p[d] <= n.hi[d]
    BY DEF Admits
  <2>1. CASE d = c
    BY <2>1, <1>7, <1>1, <1>2, <1>3 DEF Admits
  <2>2. CASE d # c
    BY <2>2, <1>7, <1>1, <1>2, <1>3 DEF Admits
  <2> QED BY <2>1, <2>2
<1>8. ~(Admits(b, p) /\ Admits(a, p))
  BY <1>1, <1>2, <1>3 DEF Admits
<1> QED BY <1>5, <1>6, <1>7, <1>8

\* A point in an open box is in the top one or in one of the rest.
LEMMA OpenAfterPop ==
  ASSUME stack \in Seq(Node), stack # <<>>, NEW p, StillOpen(p)
  PROVE  Admits(TopNode, p) \/ \E i \in 1..Len(Rest) : Admits(Rest[i], p)
<1>1. PICK i \in 1..Len(stack) : Admits(stack[i], p)
  BY DEF StillOpen
<1>2. CASE i = Len(stack)
  BY <1>1, <1>2 DEF TopNode
<1>3. CASE i # Len(stack)
  BY <1>1, <1>3, Popped
<1> QED BY <1>2, <1>3

\* What popping leaves of the invariant.
LEMMA PopKeeps ==
  ASSUME TypeOK, RootFirst, stack # <<>>, stack' = Rest
  PROVE  /\ TopNode \in Node
         /\ TopNode.root => TopNode = Root
         /\ bestBound = {} => TopNode.root
         /\ stack' \in Seq(Node)
         /\ \A i \in 1..Len(stack') : stack'[i].root => stack'[i] = Root
         /\ bestBound = {} => \A i \in 1..Len(stack') : stack'[i].root
         /\ \A p : StillOpen(p) => Admits(TopNode, p) \/ StillOpen(p)'
<1>1. stack \in Seq(Node)
  BY DEF TypeOK
<1>2. /\ TopNode \in Node /\ Len(stack) \in 1..Len(stack)
      /\ Rest \in Seq(Node) /\ Len(Rest) = Len(stack) - 1
      /\ \A i \in 1..Len(Rest) : i \in 1..Len(stack) /\ Rest[i] = stack[i]
  BY <1>1, Popped
<1>3. TopNode.root => TopNode = Root
  BY <1>2 DEF RootFirst, TopNode
<1>4. bestBound = {} => TopNode.root
  BY <1>2 DEF RootFirst, TopNode
<1>5. \A i \in 1..Len(stack') : stack'[i].root => stack'[i] = Root
  BY <1>2 DEF RootFirst
<1>6. bestBound = {} => \A i \in 1..Len(stack') : stack'[i].root
  BY <1>2 DEF RootFirst
<1>7. ASSUME NEW p, StillOpen(p) PROVE Admits(TopNode, p) \/ StillOpen(p)'
  <2>1. Admits(TopNode, p) \/ \E i \in 1..Len(Rest) : Admits(Rest[i], p)
    BY <1>1, <1>7, OpenAfterPop
  <2> QED BY <2>1 DEF StillOpen, Admits
<1> QED BY <1>2, <1>3, <1>4, <1>5, <1>6, <1>7

\* While the search goes on nothing has been claimed.
LEMMA NoClaims ==
  ASSUME status = "none", gap = Infinite
  PROVE  Claims
BY DEF Claims, OptimalIsOptimal, GapIsNeverUnderstated, InfeasibleIsProven

\* A visit that neither branches nor improves keeps the invariant if every
\* point of the box it drops is covered.
LEMMA Dropped ==
  ASSUME IInv, Visit, stack' = Rest, pc' = pc,
         UNCHANGED <<incumbent, verdict>>, unanswered' \in BOOLEAN,
         \/ bestBound' = bestBound
         \/ \E o \in Objectives : /\ bestBound' = {o}
                                 /\ \A p \in Feasible : o <= cost[p],
         ~unanswered' => /\ ~unanswered
                         /\ \A p \in Feasible : Admits(TopNode, p) => NotBetter(p)
  PROVE  IInv'
<1>1. TypeOK /\ RootFirst /\ BoundIsSound /\ stack # <<>> /\ pc = "search"
  BY DEF IInv, Visit
<1>2. /\ stack' \in Seq(Node)
      /\ \A i \in 1..Len(stack') : stack'[i].root => stack'[i] = Root
      /\ bestBound = {} => \A i \in 1..Len(stack') : stack'[i].root
      /\ \A p : StillOpen(p) => Admits(TopNode, p) \/ StillOpen(p)'
  BY <1>1, PopKeeps
<1>3. cost' = cost /\ Feasible' = Feasible
  BY DEF Visit, Feasible
<1>4. TypeOK'
  <2>1. nodes' \in 0..MaxNodes
    BY <1>1 DEF TypeOK, Visit, WithinBudget
  <2>2. bestBound' \in {{}} \cup {{o} : o \in Objectives}
    BY <1>1 DEF TypeOK
  <2> QED BY <1>1, <1>2, <1>3, <2>1, <2>2 DEF TypeOK, Visit, verdict, Feasible
<1>5. RootFirst'
  BY <1>1, <1>2 DEF RootFirst
<1>6. BoundIsSound'
  BY <1>1, <1>3 DEF BoundIsSound
<1>7. BudgetSpent'
  BY <1>1 DEF IInv, BudgetSpent, Visit, TypeOK
<1>8. NothingLost'
  <2> SUFFICES ASSUME ~unanswered', NEW p \in Feasible
               PROVE  StillOpen(p)' \/ NotBetter(p)
    BY <1>3 DEF NothingLost, NotBetter
  <2>1. StillOpen(p) \/ NotBetter(p)
    BY <1>1 DEF IInv, NothingLost
  <2> QED BY <2>1, <1>2
<1>9. Concluded' /\ Undecided'
  BY <1>1 DEF IInv, Concluded, Undecided, verdict
<1>10. Claims'
  <2>1. status' = "none" /\ gap' = Infinite
    BY <1>1 DEF IInv, Undecided, verdict
  <2> QED BY <2>1 DEF Claims, OptimalIsOptimal, GapIsNeverUnderstated,
                      InfeasibleIsProven, Infinite
<1> QED BY <1>4, <1>5, <1>6, <1>7, <1>8, <1>9, <1>10 DEF IInv

-----------------------------------------------------------------------------
LEMMA InvInit == BnbInit => IInv
<1> SUFFICES ASSUME BnbInit PROVE IInv
  OBVIOUS
<1>1. stack = <<Root>> /\ Len(stack) = 1 /\ stack[1] = Root /\ stack \in Seq(Node)
  BY RootType DEF BnbInit
<1>2. TypeOK
  <2>1. nodes \in 0..MaxNodes
    BY DEF BnbInit, BnbAssumption
  <2>2. cost \in UNION {[F -> Objectives] : F \in SUBSET Points}
    BY DEF BnbInit
  <2>3. incumbent \in {{}} /\ bestBound \in {{}} /\ gap = Infinite
    BY DEF BnbInit
  <2> QED BY <1>1, <2>1, <2>2, <2>3 DEF BnbInit, TypeOK
<1>3. RootFirst
  BY <1>1, RootType DEF RootFirst, BnbInit
<1>4. BoundIsSound /\ BudgetSpent /\ Concluded /\ Undecided
  BY DEF BnbInit, BoundIsSound, BudgetSpent, Concluded, Undecided
<1>5. NothingLost
  <2> SUFFICES ASSUME NEW p \in Feasible PROVE StillOpen(p)
    BY DEF NothingLost
  <2>1. Admits(Root, p)
    BY <1>2, FeasibleType, RootHolds
  <2> QED BY <1>1, <2>1 DEF StillOpen
<1>6. Claims
  BY NoClaims DEF BnbInit
<1> QED BY <1>2, <1>3, <1>4, <1>5, <1>6 DEF IInv

\* A new incumbent is better than the one it replaces by more than the
\* tolerance, and no worse than any point of its box.
LEMMA ImproveKeeps ==
  ASSUME IInv, Improve
  PROVE  IInv'
<1>1. /\ TypeOK /\ RootFirst /\ BoundIsSound /\ stack # <<>> /\ pc = "search"
      /\ stack' = Rest /\ pc' = pc /\ verdict' = verdict /\ unanswered' = unanswered
  BY DEF IInv, Improve, Relax, Visit, Relaxed
<1>2. PICK q \in Inside(TopNode) :
        /\ Relaxed(cost[q]) /\ ~Prunes(cost[q])
        /\ incumbent' = {[point |-> q, objective |-> cost[q]]}
  BY DEF Improve
<1>3. cost' = cost /\ Feasible' = Feasible /\ q \in Feasible
  BY <1>2 DEF Improve, Relax, Visit, Feasible, Inside
<1>4. \A p \in Feasible : cost[p] \in Int /\ cost[p] \in Objectives
  BY <1>1, FeasibleType
<1>5. /\ TopNode \in Node
      /\ TopNode.root => TopNode = Root
      /\ bestBound = {} => TopNode.root
      /\ stack' \in Seq(Node)
      /\ \A i \in 1..Len(stack') : stack'[i].root => stack'[i] = Root
      /\ \A p : StillOpen(p) => Admits(TopNode, p) \/ StillOpen(p)'
  BY <1>1, PopKeeps
<1>6. \A p \in Feasible : Admits(TopNode, p) => cost[q] <= cost[p]
  BY <1>2 DEF Relaxed, Inside
<1>7. bestBound' = IF TopNode.root THEN {cost[q]} ELSE bestBound
  BY <1>2 DEF Relaxed
<1>8. TypeOK'
  <2>1. nodes' \in 0..MaxNodes
    BY <1>1 DEF TypeOK, Improve, Relax, Visit, WithinBudget
  <2>2. bestBound' \in {{}} \cup {{o} : o \in Objectives}
    BY <1>1, <1>3, <1>4, <1>7 DEF TypeOK
  <2>3. incumbent' \in {{[point |-> p, objective |-> cost[p]]} : p \in Feasible}
    BY <1>2, <1>3
  <2>4. UNCHANGED <<cost, exhausted>>
    BY DEF Improve, Relax, Visit
  <2> QED BY <1>1, <1>3, <1>5, <2>1, <2>2, <2>3, <2>4 DEF TypeOK, verdict
<1>9. RootFirst'
  BY <1>5, <1>7 DEF RootFirst
<1>10. BoundIsSound'
  <2> SUFFICES ASSUME NEW u \in bestBound', NEW p \in Feasible PROVE u <= cost[p]
    BY <1>3 DEF BoundIsSound
  <2>1. CASE ~TopNode.root
    BY <2>1, <1>1, <1>7 DEF BoundIsSound
  <2>2. CASE TopNode.root
    <3>1. u = cost[q] /\ TopNode = Root
      BY <2>2, <1>5, <1>7
    <3>2. Admits(TopNode, p)
      BY <1>1, <3>1, RootHoldsAll
    <3> QED BY <1>6, <3>1, <3>2
  <2> QED BY <2>1, <2>2
<1>11. BudgetSpent'
  BY <1>1 DEF IInv, BudgetSpent, Improve, Relax, Visit, TypeOK
<1>12. NothingLost'
  <2> SUFFICES ASSUME ~unanswered', NEW p \in Feasible
               PROVE  StillOpen(p)' \/ cost[q] - Tolerance <= cost[p]
    BY <1>2, <1>3 DEF NothingLost, NotBetter
  <2>1. StillOpen(p) \/ NotBetter(p)
    BY <1>1 DEF IInv, NothingLost
  <2>2. CASE StillOpen(p)
    BY <2>2, <1>3, <1>4, <1>5, <1>6
  <2>3. CASE NotBetter(p)
    <3>1. PICK best \in incumbent : best.objective - Tolerance <= cost[p]
      BY <2>3 DEF NotBetter
    <3>2. best.objective \in Int
      BY <1>1, <1>4 DEF TypeOK
    <3>3. ~(cost[q] >= best.objective - Tolerance)
      BY <1>2 DEF Prunes
    <3> QED BY <1>3, <1>4, <3>1, <3>2, <3>3
  <2> QED BY <2>1, <2>2, <2>3
<1>13. Concluded' /\ Undecided'
  BY <1>1 DEF IInv, Concluded, Undecided, verdict
<1>14. Claims'
  <2>1. status' = "none" /\ gap' = Infinite
    BY <1>1 DEF IInv, Undecided, verdict
  <2> QED BY <2>1 DEF Claims, OptimalIsOptimal, GapIsNeverUnderstated,
                      InfeasibleIsProven, Infinite
<1> QED BY <1>8, <1>9, <1>10, <1>11, <1>12, <1>13, <1>14 DEF IInv

\* A box is replaced by two that hold its whole points.
LEMMA BranchKeeps ==
  ASSUME IInv, Branch
  PROVE  IInv'
<1>1. /\ TypeOK /\ RootFirst /\ BoundIsSound /\ stack # <<>> /\ pc = "search"
      /\ pc' = pc /\ verdict' = verdict /\ unanswered' = unanswered
      /\ incumbent' = incumbent
  BY DEF IInv, Branch, Relax, Visit, Relaxed
<1>2. PICK o \in Objectives : Relaxed(o) /\ ~Prunes(o)
  BY DEF Branch
<1>3. cost' = cost /\ Feasible' = Feasible
  BY DEF Branch, Relax, Visit, Feasible
<1>4. stack \in Seq(Node) /\ TopNode \in Node /\ Rest \in Seq(Node)
  BY <1>1, Popped DEF TypeOK
<1>5. PICK c \in Columns :
        \E v \in TopNode.lo[c]..TopNode.hi[c] :
          /\ ~IsWhole(v)
          /\ \/ Push(Below(TopNode, c, v), Above(TopNode, c, v))
             \/ Push(Above(TopNode, c, v), Below(TopNode, c, v))
  BY DEF Branch
<1>6. PICK v \in Int :
        /\ ~IsWhole(v)
        /\ \/ Push(Below(TopNode, c, v), Above(TopNode, c, v))
           \/ Push(Above(TopNode, c, v), Below(TopNode, c, v))
  BY <1>4, <1>5 DEF Node
<1> DEFINE b == Below(TopNode, c, v)
           a == Above(TopNode, c, v)
<1>7. b \in Node /\ a \in Node /\ ~b.root /\ ~a.root
  BY <1>4, ChildType
<1>8. PICK near \in {a, b}, far \in {a, b} :
        {near, far} = {a, b} /\ stack' = Append(Append(Rest, far), near)
  <2>1. CASE Push(b, a)
    <3>1. stack' = Append(Append(Rest, a), b)
      BY <2>1 DEF Push
    <3> HIDE DEF a, b
    <3>2. {b, a} = {a, b}
      OBVIOUS
    <3> QED BY <3>1, <3>2
  <2>2. CASE Push(a, b)
    <3>1. stack' = Append(Append(Rest, b), a)
      BY <2>2 DEF Push
    <3> HIDE DEF a, b
    <3> QED BY <3>1
  <2> QED BY <1>6, <2>1, <2>2
<1>9. near \in Node /\ far \in Node /\ ~near.root /\ ~far.root
  BY <1>7
<1> HIDE DEF a, b
<1>10. /\ stack' \in Seq(Node) /\ Len(Rest) \in Nat
       /\ Len(stack') = Len(Rest) + 2
       /\ \A i \in 1..Len(Rest) : stack'[i] = Rest[i]
       /\ stack'[Len(Rest) + 1] = far /\ stack'[Len(Rest) + 2] = near
  BY <1>4, <1>8, <1>9
<1>11. /\ TopNode.root => TopNode = Root
       /\ \A i \in 1..Len(stack') : stack'[i].root => stack'[i] = Root
       /\ bestBound = {} => TopNode.root
  <2>1. Len(stack) \in Nat /\ Len(stack) >= 1 /\ Len(Rest) = Len(stack) - 1
        /\ \A i \in 1..Len(Rest) : Rest[i] = stack[i]
    BY <1>1, <1>4, Popped
  <2>2. \A i \in 1..Len(stack') :
          i \in 1..Len(Rest) \/ i = Len(Rest) + 1 \/ i = Len(Rest) + 2
    BY <1>10
  <2>3. TopNode.root => TopNode = Root
    BY <1>1, <2>1 DEF RootFirst, TopNode
  <2>4. bestBound = {} => TopNode.root
    BY <1>1, <2>1 DEF RootFirst, TopNode
  <2>5. \A i \in 1..Len(Rest) : Rest[i].root => Rest[i] = Root
    BY <1>1, <2>1 DEF RootFirst
  <2> QED BY <1>9, <1>10, <2>2, <2>3, <2>4, <2>5
<1>12. bestBound' = IF TopNode.root THEN {o} ELSE bestBound
  BY <1>2 DEF Relaxed
<1>13. TypeOK'
  <2>1. nodes' \in 0..MaxNodes
    BY <1>1 DEF TypeOK, Branch, Relax, Visit, WithinBudget
  <2>2. bestBound' \in {{}} \cup {{u} : u \in Objectives}
    BY <1>1, <1>12 DEF TypeOK
  <2>3. UNCHANGED <<cost, exhausted>>
    BY DEF Branch, Relax, Visit
  <2> QED BY <1>1, <1>3, <1>10, <2>1, <2>2, <2>3 DEF TypeOK, verdict
<1>14. RootFirst'
  BY <1>11, <1>12 DEF RootFirst
<1>15. BoundIsSound'
  <2>1. TopNode.root => \A p \in Feasible : Admits(TopNode, p)
    BY <1>1, <1>11, RootHoldsAll
  <2>2. TopNode.root => \A p \in Feasible : o <= cost[p]
    BY <2>1, <1>2 DEF Relaxed, Inside
  <2> QED BY <1>1, <1>3, <1>12, <2>2 DEF BoundIsSound
<1>16. BudgetSpent'
  BY <1>1 DEF IInv, BudgetSpent, Branch, Relax, Visit, TypeOK
<1>17. NothingLost'
  <2> SUFFICES ASSUME ~unanswered', NEW p \in Feasible, ~NotBetter(p)
               PROVE  \E i \in 1..Len(stack') : Admits(stack'[i], p)
    BY <1>1, <1>3 DEF NothingLost, NotBetter, StillOpen, Admits
  <2>1. Admits(TopNode, p) \/ \E i \in 1..Len(Rest) : Admits(Rest[i], p)
    BY <1>1, <1>4, OpenAfterPop DEF IInv, NothingLost
  <2>2. ASSUME Admits(TopNode, p) PROVE Admits(near, p) \/ Admits(far, p)
    <3>1. p \in Points
      BY <1>1, FeasibleType
    <3>2. Admits(a, p) \/ Admits(b, p)
      BY <1>4, <1>6, <2>2, <3>1, ChildrenHold DEF a, b
    <3> QED BY <3>2, <1>8
  <2>3. /\ \A i \in 1..Len(Rest) : i \in 1..Len(stack')
        /\ Len(Rest) + 1 \in 1..Len(stack') /\ Len(Rest) + 2 \in 1..Len(stack')
    BY <1>10
  <2> QED BY <1>10, <2>1, <2>2, <2>3
<1>18. Concluded' /\ Undecided'
  BY <1>1 DEF IInv, Concluded, Undecided, verdict
<1>19. Claims'
  <2>1. status' = "none" /\ gap' = Infinite
    BY <1>1 DEF IInv, Undecided, verdict
  <2> QED BY <2>1 DEF Claims, OptimalIsOptimal, GapIsNeverUnderstated,
                      InfeasibleIsProven, Infinite
<1> QED BY <1>13, <1>14, <1>15, <1>16, <1>17, <1>18, <1>19 DEF IInv

-----------------------------------------------------------------------------
(* The answer.                                                             *)

LEMMA OutOfNodesKeeps ==
  ASSUME IInv, OutOfNodes
  PROVE  IInv'
<1>1. /\ TypeOK /\ RootFirst /\ stack # <<>> /\ stack' = Rest
      /\ pc = "search" /\ pc' = "conclude" /\ exhausted' = FALSE
      /\ UNCHANGED <<cost, nodes, incumbent, bestBound, verdict, unanswered>>
  BY DEF IInv, OutOfNodes
<1>2. /\ stack' \in Seq(Node)
      /\ \A i \in 1..Len(stack') : stack'[i].root => stack'[i] = Root
      /\ bestBound = {} => \A i \in 1..Len(stack') : stack'[i].root
  BY <1>1, PopKeeps
<1>3. Feasible' = Feasible
  BY <1>1 DEF Feasible
<1>4. TypeOK'
  BY <1>1, <1>2, <1>3 DEF TypeOK, verdict
<1>5. RootFirst' /\ BoundIsSound'
  BY <1>1, <1>2, <1>3 DEF IInv, RootFirst, BoundIsSound
<1>6. BudgetSpent'
  BY <1>1 DEF OutOfNodes, BudgetSpent, WithinBudget, TypeOK, BnbAssumption
<1>7. NothingLost' /\ Concluded' /\ Undecided'
  BY <1>1 DEF IInv, NothingLost, Concluded, Undecided, verdict
<1>8. Claims'
  BY <1>1 DEF IInv, Undecided, verdict, Claims, OptimalIsOptimal,
              GapIsNeverUnderstated, InfeasibleIsProven, Infinite
<1> QED BY <1>4, <1>5, <1>6, <1>7, <1>8 DEF IInv

\* With no open box left every solution is covered by the incumbent.
LEMMA EmptiedKeeps ==
  ASSUME IInv, Emptied
  PROVE  IInv'
<1>1. /\ TypeOK /\ stack = <<>> /\ pc = "search" /\ pc' = "conclude"
      /\ UNCHANGED <<cost, search, verdict, unanswered>>
  BY DEF IInv, Emptied
<1>2. Feasible' = Feasible
  BY <1>1 DEF Feasible
<1>3. TypeOK' /\ RootFirst' /\ BoundIsSound' /\ BudgetSpent'
  BY <1>1, <1>2 DEF IInv, TypeOK, RootFirst, BoundIsSound, BudgetSpent, search,
                    verdict
<1>4. Concluded'
  <2> SUFFICES ASSUME ~unanswered, NEW p \in Feasible PROVE NotBetter(p)
    BY <1>1, <1>2 DEF Concluded, NotBetter, search
  <2>1. ~StillOpen(p)
    BY <1>1 DEF StillOpen
  <2> QED BY <1>1, <2>1 DEF IInv, NothingLost
<1>5. NothingLost' /\ Undecided' /\ Claims'
  BY <1>1 DEF IInv, NothingLost, Undecided, verdict, Claims, OptimalIsOptimal,
              GapIsNeverUnderstated, InfeasibleIsProven, Infinite
<1> QED BY <1>3, <1>4, <1>5 DEF IInv

\* Without an incumbent "infeasible" is said below the budget only, where the
\* tree was explored to the end.
LEMMA NothingFoundKeeps ==
  ASSUME IInv, NothingFound
  PROVE  IInv'
<1>1. /\ TypeOK /\ incumbent = {} /\ pc = "conclude" /\ pc' = "done"
      /\ UNCHANGED <<cost, search, gap, unanswered>>
      /\ status' = IF nodes >= MaxNodes THEN "Other" ELSE "Infeasible"
  BY DEF IInv, NothingFound
<1>2. Feasible' = Feasible /\ gap = Infinite
  BY <1>1 DEF Feasible, IInv, Undecided
<1>3. TypeOK' /\ RootFirst' /\ BoundIsSound' /\ BudgetSpent'
  BY <1>1, <1>2 DEF IInv, TypeOK, RootFirst, BoundIsSound, BudgetSpent, search
<1>4. NothingLost' /\ Concluded' /\ Undecided'
  BY <1>1 DEF NothingLost, Concluded, Undecided
<1>5. InfeasibleIsProven'
  <2> SUFFICES ASSUME ~(nodes >= MaxNodes), ~unanswered PROVE Feasible = {}
    BY <1>1, <1>2 DEF InfeasibleIsProven
  <2>1. exhausted
    BY DEF IInv, BudgetSpent
  <2> QED BY <1>1, <2>1 DEF IInv, Concluded, NotBetter
<1>6. OptimalIsOptimal' /\ GapIsNeverUnderstated'
  BY <1>1, <1>2 DEF OptimalIsOptimal, GapIsNeverUnderstated
<1> QED BY <1>3, <1>4, <1>5, <1>6 DEF IInv, Claims

LEMMA HundredTimes ==
  ASSUME NEW x \in Int, NEW y \in Int, NEW m \in Int, x <= y, y * 100 <= m
  PROVE  x * 100 <= m
OBVIOUS

\* With one, an explored tree proves it, and otherwise the root's bound does
\* as far as the gap says.
LEMMA FoundKeeps ==
  ASSUME IInv, Found
  PROVE  IInv'
<1>1. /\ TypeOK /\ BoundIsSound /\ pc = "conclude" /\ pc' = "done"
      /\ UNCHANGED <<cost, search, unanswered>>
  BY DEF IInv, Found
<1>2. PICK best \in incumbent :
        /\ gap' = IF ~exhausted /\ bestBound = {} THEN Infinite ELSE GapTo(best)
        /\ status' = IF exhausted \/ (gap' # Infinite /\ WithinGap(best, gap'))
                       THEN "Optimal" ELSE "Other"
  BY DEF Found
<1>3. Feasible' = Feasible /\ cost' = cost /\ incumbent' = incumbent
  BY <1>1 DEF Feasible, search
<1>4. /\ incumbent = {best} /\ best.objective \in Int
      /\ \A p \in Feasible : cost[p] \in Int
  BY <1>1, FeasibleType DEF TypeOK
<1>5. PICK b \in Int : bestBound = {b} /\ \A p \in Feasible : b <= cost[p]
  <2>1. bestBound # {}
    BY <1>2 DEF IInv, RootFirst
  <2>2. PICK o \in Objectives : bestBound = {o}
    BY <1>1, <2>1 DEF TypeOK
  <2>3. o \in Int
    BY DEF BnbAssumption
  <2> QED BY <1>1, <2>2, <2>3 DEF BoundIsSound
<1>6. RootBound = b
  BY <1>5 DEF RootBound
<1>7. /\ gap' \in Nat
      /\ exhausted => gap' = 0
      /\ ~exhausted => best.objective - b <= gap'
  <2>1. gap' = GapTo(best)
    BY <1>2, <1>5
  <2>2. CASE exhausted
    BY <2>1, <2>2 DEF GapTo
  <2>3. CASE ~exhausted
    BY <2>1, <2>3, <1>4, <1>6 DEF GapTo
  <2> QED BY <2>2, <2>3
<1>8. ASSUME exhausted, ~unanswered, NEW p \in Feasible
      PROVE  best.objective - cost[p] <= Tolerance
  <2>1. \E u \in incumbent : u.objective - Tolerance <= cost[p]
    BY <1>1, <1>8 DEF IInv, Concluded, NotBetter
  <2> QED BY <2>1, <1>4 DEF BnbAssumption
<1>9. ASSUME ~exhausted, NEW p \in Feasible
      PROVE  best.objective - cost[p] <= gap'
  BY <1>4, <1>5, <1>7, <1>9
<1>10. TypeOK' /\ RootFirst' /\ BoundIsSound' /\ BudgetSpent'
  BY <1>1, <1>2, <1>3, <1>7 DEF IInv, TypeOK, RootFirst, BoundIsSound,
                                BudgetSpent, search
<1>11. NothingLost' /\ Concluded' /\ Undecided' /\ InfeasibleIsProven'
  BY <1>1, <1>2 DEF NothingLost, Concluded, Undecided, InfeasibleIsProven
<1>12. GapIsNeverUnderstated'
  BY <1>1, <1>3, <1>4, <1>8, <1>9 DEF GapIsNeverUnderstated
<1>13. OptimalIsOptimal'
  <2> SUFFICES ASSUME status' = "Optimal", ~unanswered, NEW p \in Feasible
               PROVE  \/ best.objective - cost[p] <= Tolerance
                      \/ WithinGap(best, best.objective - cost[p])
    BY <1>1, <1>3 DEF OptimalIsOptimal, WithinGap
  <2>1. CASE exhausted
    BY <2>1, <1>8
  <2>2. CASE ~exhausted
    <3> DEFINE most == GapPercent * (Abs(best.objective) + 1)
    <3>1. most \in Int
      BY <1>4 DEF Abs, BnbAssumption
    <3>2. gap' * 100 <= most
      BY <1>2, <2>2 DEF WithinGap
    <3>3. best.objective - cost[p] <= gap'
      BY <2>2, <1>9
    <3> HIDE DEF most
    <3>4. best.objective - cost[p] \in Int /\ gap' \in Int
      BY <1>4, <1>7
    <3>5. (best.objective - cost[p]) * 100 <= most
      BY <3>1, <3>2, <3>3, <3>4, HundredTimes
    <3> QED BY <3>5 DEF WithinGap, most
  <2> QED BY <2>1, <2>2
<1> QED BY <1>10, <1>11, <1>12, <1>13 DEF IInv, Claims

-----------------------------------------------------------------------------
\* A step that claims nothing and drops the top box without an incumbent or a
\* child: an empty branch, an infeasible or unanswered node, a pruned one.
LEMMA DropsKeep ==
  ASSUME IInv, SkipEmpty \/ Infeasible \/ Unanswered \/ Bounded
  PROVE  IInv'
<1>1. TypeOK /\ RootFirst /\ BoundIsSound
  BY DEF IInv
<1>2. CASE SkipEmpty
  <2>1. \A p \in Feasible : ~Admits(TopNode, p)
    <3> SUFFICES ASSUME NEW p \in Feasible, Admits(TopNode, p) PROVE FALSE
      OBVIOUS
    <3>1. TopNode \in Node
      BY <1>1, <1>2, Popped DEF TypeOK, SkipEmpty, Visit
    <3>2. PICK c \in Columns : TopNode.lo[c] > TopNode.hi[c]
      BY <1>2 DEF SkipEmpty, IsEmpty
    <3>3. TopNode.lo[c] \in Int /\ TopNode.hi[c] \in Int /\ p[c] \in Int
      BY <3>1, <1>1, FeasibleType, PointType DEF Node
    <3> QED BY <3>2, <3>3 DEF Admits
  <2> QED BY <1>1, <1>2, <2>1, Dropped DEF SkipEmpty, Skip, Visit, TypeOK
<1>3. CASE Infeasible
  <2>1. \A p \in Feasible : ~Admits(TopNode, p)
    BY <1>3 DEF Infeasible, Inside
  <2> QED BY <1>1, <1>3, <2>1, Dropped DEF Infeasible, Relax, Skip, TypeOK
<1>4. CASE Unanswered
  BY <1>4, Dropped DEF Unanswered, Relax, Skip
<1>5. CASE Bounded
  <2>1. PICK o \in Objectives : Relaxed(o) /\ Prunes(o)
    BY <1>5 DEF Bounded
  <2>2. /\ Visit /\ stack' = Rest /\ pc' = pc /\ unanswered' = unanswered
        /\ UNCHANGED <<incumbent, verdict>>
    BY <1>5, <2>1 DEF Bounded, Relax, Relaxed
  <2>3. \A p \in Feasible : Admits(TopNode, p) => o <= cost[p]
    BY <2>1 DEF Relaxed, Inside
  <2>4. \A p \in Feasible : Admits(TopNode, p) => NotBetter(p)
    <3> SUFFICES ASSUME NEW p \in Feasible, Admits(TopNode, p) PROVE NotBetter(p)
      OBVIOUS
    <3>1. PICK best \in incumbent : o >= best.objective - Tolerance
      BY <2>1 DEF Prunes
    <3>2. best.objective \in Int /\ cost[p] \in Int /\ o \in Int
      BY <1>1, FeasibleType DEF TypeOK
    <3>3. best.objective - Tolerance <= cost[p]
      BY <2>3, <3>1, <3>2
    <3> QED BY <3>3 DEF NotBetter
  <2>5. \/ bestBound' = bestBound
        \/ /\ bestBound' = {o}
           /\ \A p \in Feasible : o <= cost[p]
    <3>1. CASE ~TopNode.root
      BY <3>1, <2>1 DEF Relaxed
    <3>2. CASE TopNode.root
      <4>1. TopNode = Root
        BY <3>2, <1>1, <2>2, PopKeeps DEF Visit
      <4>2. \A p \in Feasible : Admits(TopNode, p)
        BY <1>1, <4>1, RootHoldsAll
      <4> QED BY <3>2, <4>2, <2>1, <2>3 DEF Relaxed
    <3> QED BY <3>1, <3>2
  <2> QED BY <1>1, <2>2, <2>4, <2>5, Dropped DEF TypeOK
<1> QED BY <1>2, <1>3, <1>4, <1>5

\* An unbounded relaxation ends the search with no claim about optimality.
LEMMA UnboundedKeeps ==
  ASSUME IInv, Unbounded
  PROVE  IInv'
<1>1. /\ TypeOK /\ RootFirst /\ stack # <<>> /\ stack' = Rest
      /\ pc = "search" /\ pc' = "done" /\ status' = "Unbounded"
      /\ nodes < MaxNodes /\ nodes' = nodes + 1
      /\ UNCHANGED <<cost, exhausted, incumbent, bestBound, gap, unanswered>>
  BY DEF IInv, Unbounded, Relax, Visit, WithinBudget
<1>2. /\ stack' \in Seq(Node)
      /\ \A i \in 1..Len(stack') : stack'[i].root => stack'[i] = Root
      /\ bestBound = {} => \A i \in 1..Len(stack') : stack'[i].root
  BY <1>1, PopKeeps
<1>3. Feasible' = Feasible /\ gap = Infinite
  BY <1>1 DEF Feasible, IInv, Undecided
<1>4. nodes' \in 0..MaxNodes
  BY <1>1 DEF TypeOK
<1>5. TypeOK'
  BY <1>1, <1>2, <1>3, <1>4 DEF TypeOK
<1>6. RootFirst' /\ BoundIsSound'
  BY <1>1, <1>2, <1>3 DEF IInv, RootFirst, BoundIsSound
<1>7. BudgetSpent'
  BY <1>1 DEF IInv, BudgetSpent, TypeOK
<1>8. NothingLost' /\ Concluded' /\ Undecided'
  BY <1>1 DEF NothingLost, Concluded, Undecided
<1>9. Claims'
  BY <1>1, <1>3 DEF Claims, OptimalIsOptimal, GapIsNeverUnderstated,
                    InfeasibleIsProven, Infinite
<1> QED BY <1>5, <1>6, <1>7, <1>8, <1>9 DEF IInv

LEMMA StutterKeeps ==
  ASSUME IInv, UNCHANGED bnbvars
  PROVE  IInv'
BY DEF IInv, bnbvars, search, verdict, TypeOK, RootFirst, BoundIsSound, BudgetSpent,
       NothingLost, StillOpen, NotBetter, Admits, Concluded, Undecided, Claims,
       OptimalIsOptimal, GapIsNeverUnderstated, InfeasibleIsProven, Feasible,
       WithinGap

\* The inductive invariant of the search, whatever the problem and the
\* relaxations are.
THEOREM Invariance == BnbSpec => []IInv
<1>1. IInv /\ [BnbNext]_bnbvars => IInv'
  BY DropsKeep, UnboundedKeeps, ImproveKeeps, BranchKeeps, OutOfNodesKeeps,
     EmptiedKeeps, NothingFoundKeeps, FoundKeeps, StutterKeeps DEF BnbNext
<1> QED BY InvInit, <1>1, PTL DEF BnbSpec

\* The search's state keeps its shape: the incumbent is always a feasible point
\* at its own cost, and no more than MaxNodes nodes are visited.
THEOREM TypeCorrect == BnbSpec => []TypeOK
BY Invariance, PTL DEF IInv

\* What branch and bound promises of OptStatus::Optimal: no feasible point
\* beats it by more than the tolerance or the relative gap, unless a node went
\* unanswered.
THEOREM OptimalIsProven == BnbSpec => []OptimalIsOptimal
BY Invariance, PTL DEF IInv, Claims

\* The reported gap is never smaller than what is left to gain.
THEOREM GapHolds == BnbSpec => []GapIsNeverUnderstated
BY Invariance, PTL DEF IInv, Claims

\* A search that stopped on its budget is never taken for a proof of
\* infeasibility.
THEOREM InfeasibleHolds == BnbSpec => []InfeasibleIsProven
BY Invariance, PTL DEF IInv, Claims

-----------------------------------------------------------------------------
\* What is left of disjoint boxes when the top one is popped.
LEMMA PopDisjoint ==
  ASSUME TypeOK, stack # <<>>, OpenBoxesDisjoint
  PROVE  /\ \A i, j \in 1..Len(Rest) :
              i # j => ~\E p \in Points : Admits(Rest[i], p) /\ Admits(Rest[j], p)
         /\ \A i \in 1..Len(Rest) :
              ~\E p \in Points : Admits(Rest[i], p) /\ Admits(TopNode, p)
<1>1. /\ Len(stack) \in Nat /\ Len(stack) >= 1 /\ Len(Rest) = Len(stack) - 1
      /\ \A i \in 1..Len(Rest) : Rest[i] = stack[i]
  BY Popped DEF TypeOK
<1>2. \A i \in 1..Len(Rest) : i \in 1..Len(stack) /\ i # Len(stack)
  BY <1>1
<1>3. TopNode = stack[Len(stack)] /\ Len(stack) \in 1..Len(stack)
  BY <1>1 DEF TopNode
<1> QED BY <1>1, <1>2, <1>3 DEF OpenBoxesDisjoint

LEMMA DisjointAfterPop ==
  ASSUME TypeOK, stack # <<>>, stack' = Rest, OpenBoxesDisjoint
  PROVE  OpenBoxesDisjoint'
<1> SUFFICES ASSUME NEW i \in 1..Len(stack'), NEW j \in 1..Len(stack'), i # j,
                    NEW p \in Points, Admits(stack'[i], p), Admits(stack'[j], p)
             PROVE  FALSE
  BY DEF OpenBoxesDisjoint, Admits
<1> QED BY PopDisjoint

\* Two boxes that share no point, and share none with the others, can be
\* pushed.
LEMMA DisjointAfterPush ==
  ASSUME TypeOK, stack # <<>>, OpenBoxesDisjoint,
         NEW near \in Node, NEW far \in Node, Push(near, far),
         \A p \in Points : ~(Admits(near, p) /\ Admits(far, p)),
         \A p \in Points : Admits(near, p) \/ Admits(far, p) => Admits(TopNode, p)
  PROVE  OpenBoxesDisjoint'
<1>1. stack' = Append(Append(Rest, far), near) /\ Rest \in Seq(Node)
  BY Popped DEF TypeOK, Push
<1>2. /\ Len(Rest) \in Nat /\ Len(stack') = Len(Rest) + 2
      /\ \A i \in 1..Len(Rest) : stack'[i] = Rest[i]
      /\ stack'[Len(Rest) + 1] = far /\ stack'[Len(Rest) + 2] = near
  BY <1>1
<1>3. \A i \in 1..Len(Rest) : ~\E p \in Points : Admits(Rest[i], p) /\ Admits(TopNode, p)
  BY PopDisjoint
<1>4. \A i, j \in 1..Len(Rest) :
        i # j => ~\E p \in Points : Admits(Rest[i], p) /\ Admits(Rest[j], p)
  BY PopDisjoint
<1> SUFFICES ASSUME NEW i \in 1..Len(stack'), NEW j \in 1..Len(stack'), i # j,
                    NEW p \in Points, Admits(stack'[i], p), Admits(stack'[j], p)
             PROVE  FALSE
  BY DEF OpenBoxesDisjoint, Admits
<1>5. /\ i \in 1..Len(Rest) \/ i = Len(Rest) + 1 \/ i = Len(Rest) + 2
      /\ j \in 1..Len(Rest) \/ j = Len(Rest) + 1 \/ j = Len(Rest) + 2
  BY <1>2
<1>6. CASE i \in 1..Len(Rest) /\ j \in 1..Len(Rest)
  BY <1>2, <1>4, <1>6
<1>7. CASE i \in 1..Len(Rest) /\ j \notin 1..Len(Rest)
  BY <1>2, <1>3, <1>5, <1>7
<1>8. CASE i \notin 1..Len(Rest) /\ j \in 1..Len(Rest)
  BY <1>2, <1>3, <1>5, <1>8
<1>9. CASE i \notin 1..Len(Rest) /\ j \notin 1..Len(Rest)
  BY <1>2, <1>5, <1>9
<1> QED BY <1>6, <1>7, <1>8, <1>9

\* No point is ever in two open boxes: the two children of a node share none,
\* and share only the node's own with it.
THEOREM BoxesStayDisjoint == BnbSpec => []OpenBoxesDisjoint
<1>1. BnbInit => OpenBoxesDisjoint
  BY DEF BnbInit, OpenBoxesDisjoint
<1>2. ASSUME TypeOK, OpenBoxesDisjoint, [BnbNext]_bnbvars
      PROVE  OpenBoxesDisjoint'
  <2>1. CASE Branch
    <3>1. stack # <<>> /\ TopNode \in Node
      BY <1>2, <2>1, Popped DEF Branch, Relax, Visit, TypeOK
    <3>2. PICK c \in Columns :
            \E v \in TopNode.lo[c]..TopNode.hi[c] :
              /\ ~IsWhole(v)
              /\ \/ Push(Below(TopNode, c, v), Above(TopNode, c, v))
                 \/ Push(Above(TopNode, c, v), Below(TopNode, c, v))
      BY <2>1 DEF Branch
    <3>3. PICK v \in Int :
            /\ ~IsWhole(v) /\ TopNode.lo[c] <= v /\ v <= TopNode.hi[c]
            /\ \/ Push(Below(TopNode, c, v), Above(TopNode, c, v))
               \/ Push(Above(TopNode, c, v), Below(TopNode, c, v))
      BY <3>1, <3>2 DEF Node
    <3> DEFINE b == Below(TopNode, c, v)
               a == Above(TopNode, c, v)
    <3>4. b \in Node /\ a \in Node
      BY <3>1, ChildType
    <3>5. \A p \in Points : /\ ~(Admits(b, p) /\ Admits(a, p))
                            /\ Admits(b, p) \/ Admits(a, p) => Admits(TopNode, p)
      BY <3>1, <3>3, ChildrenHold
    <3>6. Push(b, a) \/ Push(a, b)
      BY <3>3
    <3> HIDE DEF a, b
    <3> QED BY <1>2, <3>1, <3>4, <3>5, <3>6, DisjointAfterPush
  <2>2. CASE OutOfNodes \/ SkipEmpty \/ Infeasible \/ Unanswered \/ Unbounded
             \/ Bounded \/ Improve
    BY <1>2, <2>2, DisjointAfterPop
       DEF OutOfNodes, SkipEmpty, Infeasible, Unanswered, Unbounded, Bounded,
           Improve, Relax, Visit, Skip
  <2>3. CASE Emptied \/ NothingFound \/ Found \/ UNCHANGED bnbvars
    BY <1>2, <2>3 DEF Emptied, NothingFound, Found, bnbvars, search,
                      OpenBoxesDisjoint, Admits
  <2> QED BY <1>2, <2>1, <2>2, <2>3 DEF BnbNext
<1> QED BY <1>1, <1>2, TypeCorrect, PTL DEF BnbSpec
=============================================================================
