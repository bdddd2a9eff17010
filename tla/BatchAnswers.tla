---------------------------- MODULE BatchAnswers ----------------------------
(***************************************************************************)
(* What a batch promises its caller: between a call and its return each    *)
(* scenario is answered once, with the answer it has on its own, in any    *)
(* order, and the call returns only with all of them.                      *)
(***************************************************************************)
EXTENDS Naturals, FiniteSets

VARIABLES
  asked,      \* the scenarios of the call being served
  right,      \* the answer each one has on its own
  answered    \* scenario and answer, as they are collected

Idle == asked = {} /\ answered = {} /\ right = <<>>

Ask ==
  /\ Idle
  /\ asked' # {} /\ DOMAIN right' = asked'
  /\ answered' = {}

Reply ==
  /\ \E i \in asked \ {a[1] : a \in answered} :
       answered' = answered \cup {<<i, right[i]>>}
  /\ UNCHANGED <<asked, right>>

Done ==
  /\ asked # {}
  /\ {a[1] : a \in answered} = asked
  /\ asked' = {} /\ right' = <<>> /\ answered' = {}

Next == Ask \/ Reply \/ Done

\* A call returns.
Returns == asked # {} ~> asked = {}

Safety == Idle /\ [][Next]_<<asked, right, answered>>

Spec == Safety /\ Returns
=============================================================================
