------------------------------ MODULE TreeSearch ------------------------------
(***************************************************************************)
(* The search of one perimeter (rao/search.rs, search_with_open).          *)
(*                                                                         *)
(* The tree is greedy: at each depth every offer that fits is evaluated as *)
(* a leaf, and the best one is taken if it gains enough.  An offer is a    *)
(* network action or a predefined combination of them.                     *)
(***************************************************************************)
EXTENDS Remedial, Functions

CONSTANTS
  Combinations,    \* the predefined combinations, a sequence of sequences of actions
  Key,             \* where the joined names of a candidate's actions sort
  Near,            \* elements close enough to a CNEC to be offered for it
  MaxDepth,
  MinImpact,       \* absolute, in the objective's unit
  RelativeImpact   \* in percent of the objective it improves on

VARIABLES
  question,        \* what is asked: see Remedial
  authority,       \* the CNECs constrained before the perimeter acted
  offers,          \* the candidates on offer
  chosen,          \* the actions taken, in the order they were taken
  best,            \* the leaf that stands: [grid, moved, score]
  winner,          \* the best leaf of this depth, with its offer, or NoWinner
  ledger,          \* history: the score of every offer evaluated at this depth
  next, depth,
  searching,
  answer           \* what the search returns: [acts, moved, grid]

searchvars == <<question, authority, offers, chosen, best, winner, ledger,
                next, depth, searching, answer>>

NoWinner == [offer |-> 0]
Taken == Range(chosen)
Instant == Earliest(question.at)

\* What may be tried, in order: the network actions one by one, then the
\* predefined combinations.
Candidates == 1..NActions + Len(Combinations)
MembersOf(k) == IF k <= NActions THEN <<k>> ELSE Combinations[k - NActions]
ActsOf(k) == Range(MembersOf(k))

ASSUME SearchAssumption ==
  /\ Combinations \in Seq(Seq(Actions))
  /\ Key \in [Candidates -> Int]
  /\ MaxDepth \in Nat /\ MinImpact \in Nat /\ RelativeImpact \in Nat
  /\ NoTarget \in Int

-----------------------------------------------------------------------------
(* What may be offered.                                                    *)

\* A member that is not on offer takes the whole combination with it.
Whole(q, constrained) ==
  {k \in Candidates :
     /\ ActsOf(k) \subseteq Offered(q.at, constrained)
     /\ k > NActions => Len(MembersOf(k)) > 1 /\ PairwiseCompatible(ActsOf(k))}

\* near_most_limiting: what touches nothing near the worst CNEC is not tried.
WorstCnec(q) ==
  LET here == {c \in Cnecs : StateOf[c] \in q.perimeter}
  IN  CHOOSE c \in here : \A d \in here :
        MarginOf(c, q.base, q.held) <= MarginOf(d, q.base, q.held)
Touches(acts) == UNION {DOMAIN Effect[a] : a \in acts}
IsNear(acts, c) == Touches(acts) = {} \/ Touches(acts) \cap Near[c] # {}
Offering(q, constrained) ==
  {k \in Whole(q, constrained) :
     (\E c \in Cnecs : StateOf[c] \in q.perimeter) => IsNear(ActsOf(k), WorstCnec(q))}

Good(score) == question.target # NoTarget /\ score >= question.target

-----------------------------------------------------------------------------
(* The grid the chosen actions leave.                                       *)

\* effect_of_chosen: the single offer of an action, else the first that has it.
OfferOf(a) ==
  IF a \in offers THEN {a}
  ELSE ActsOf(CHOOSE k \in offers : /\ a \in ActsOf(k)
                                     /\ \A j \in offers : a \in ActsOf(j) => k <= j)
\* The last of the chosen whose offer touches an element decides where it stands.
Deciding(e) == {n \in DOMAIN chosen : e \in Touches(OfferOf(chosen[n]))}
RebuiltOn(base) ==
  [e \in Elements |->
     IF Deciding(e) = {} THEN base[e]
     ELSE LET n == CHOOSE n \in Deciding(e) : \A m \in Deciding(e) : m <= n
          IN  WithAll(base, OfferOf(chosen[n]))[e]]
\* a mutant: rebuilt from the network file, not from the network handed in.
RebuiltFromFile == RebuiltOn(Imported)
Rebuilt == RebuiltOn(question.base)

\* The branches as rebuilt, shifters and injections as the winning leaf left them.
Reported ==
  [e \in Elements |->
     IF e \in Shifters \cup Injections THEN best.grid[e] ELSE Rebuilt[e]]

-----------------------------------------------------------------------------
(* The search.                                                              *)

Ask(q) ==
  /\ question' = q
  /\ authority' = Constrained(q.base, q.held)
  /\ offers' = Offering(q, Constrained(q.base, q.held))
  /\ chosen' = <<>>
  /\ best' = [grid |-> q.base, moved |-> {},
              score |-> Objective(q.perimeter, q.base, q.held)]
  /\ winner' = NoWinner /\ ledger' = <<>>
  /\ next' = 1 /\ depth' = 0
  /\ searching' = "untouched"
  /\ answer' = [acts |-> {}, moved |-> {}, grid |-> q.base]

\* Nothing at all is needed: not even the range actions are optimized.
LeaveAlone ==
  /\ searching = "untouched"
  /\ Good(best.score)
  /\ searching' = "answered"
  /\ UNCHANGED <<question, authority, offers, chosen, best, winner, ledger,
                 next, depth, answer>>

Root ==
  /\ searching = "untouched"
  /\ ~Good(best.score)
  /\ best' \in Leaves(question, question.base, {}, authority)
  /\ searching' = "depth"
  /\ UNCHANGED <<question, authority, offers, chosen, winner, ledger, next,
                 depth, answer>>

Deepen ==
  /\ searching = "depth"
  /\ depth < MaxDepth /\ ~Good(best.score)
  /\ winner' = NoWinner /\ ledger' = [k \in {} |-> 0]
  /\ next' = 1
  /\ searching' = "offers"
  /\ UNCHANGED <<question, authority, offers, chosen, best, depth, answer>>

\* An offer fits beside what is chosen and inside the limits of the instant.
Fits(acts) ==
  /\ acts \cap Taken = {}
  /\ \A a \in acts, b \in Taken : Compatible(a, b)
  /\ Admits(Instant, Taken \cup acts)

\* a mutant: the last of equals wins, so the answer depends on the order.
BetterOrEqual(k, leaf) ==
  winner = NoWinner \/ leaf.score >= winner.leaf.score
Better(k, leaf) ==
  \/ winner = NoWinner
  \/ leaf.score > winner.leaf.score
  \/ leaf.score = winner.leaf.score /\ Key[k] < Key[winner.offer]

Evaluate ==
  /\ searching = "offers"
  /\ next \in Candidates /\ next \in offers /\ Fits(ActsOf(next))
  /\ \E leaf \in Leaves(question, WithAll(Rebuilt, ActsOf(next)),
                        Taken \cup ActsOf(next), authority) :
       /\ ledger' = [k \in DOMAIN ledger \cup {next} |->
                       IF k = next THEN leaf.score ELSE ledger[k]]
       /\ winner' = IF Better(next, leaf) THEN [offer |-> next, leaf |-> leaf]
                                          ELSE winner
  /\ next' = next + 1
  /\ UNCHANGED <<question, authority, offers, chosen, best, depth, searching, answer>>

PassOver ==
  /\ searching = "offers"
  /\ next \in Candidates /\ ~(next \in offers /\ Fits(ActsOf(next)))
  /\ next' = next + 1
  /\ UNCHANGED <<question, authority, offers, chosen, best, winner, ledger,
                 depth, searching, answer>>

Abs(n) == IF n < 0 THEN -n ELSE n
ImprovedEnough(score) ==
  /\ score > best.score + MinImpact
  /\ (score - best.score) * 100 >= RelativeImpact * (IF Abs(best.score) > 1 THEN Abs(best.score) ELSE 1)

Worth(leaf) ==
  \/ ImprovedEnough(leaf.score)
  \/ leaf.score > best.score /\ Good(leaf.score)

Take ==
  /\ searching = "offers" /\ next \notin Candidates
  /\ winner # NoWinner /\ Worth(winner.leaf)
  /\ chosen' = chosen \o MembersOf(winner.offer)
  /\ best' = winner.leaf
  /\ depth' = depth + 1
  /\ searching' = "depth"
  /\ UNCHANGED <<question, authority, offers, winner, ledger, next, answer>>

Answer ==
  /\ answer' = [acts |-> Taken, moved |-> best.moved, grid |-> Reported]
  /\ searching' = "answered"
  /\ UNCHANGED <<question, authority, offers, chosen, best, winner, ledger, next, depth>>

NothingBetter ==
  /\ searching = "offers" /\ next \notin Candidates
  /\ ~(winner # NoWinner /\ Worth(winner.leaf))
  /\ Answer

GoodOrDeep ==
  /\ searching = "depth"
  /\ depth = MaxDepth \/ Good(best.score)
  /\ Answer

SearchNext ==
  \/ LeaveAlone \/ Root \/ Deepen \/ Evaluate \/ PassOver
  \/ Take \/ NothingBetter \/ GoodOrDeep

-----------------------------------------------------------------------------
(* Properties.                                                              *)

\* What a search returns is one of the answers it promises: the grid it reports
\* is what the actions it reports do to the network it was handed, those are
\* allowed, compatible and within the instant's limits together, range actions
\* included, and the objective in that grid is not below the untouched one.
SearchKeepsItsPromise ==
  searching = "answered" => answer \in Answers(question)

\* The winner of a depth does not depend on the order of the offers: every one
\* that fits was evaluated, none scored higher, and among equals it is the one
\* whose name sorts first.
WinnerIsTheBest ==
  searching = "offers" /\ next \notin Candidates =>
    /\ DOMAIN ledger = {k \in offers : Fits(ActsOf(k))}
    /\ winner # NoWinner => \A k \in DOMAIN ledger :
         \/ ledger[k] < ledger[winner.offer]
         \/ ledger[k] = ledger[winner.offer]
              /\ Key[winner.offer] <= Key[k]

=============================================================================
