---------------------------- MODULE MCOuterLoops ----------------------------
(***************************************************************************)
(* Three loops, one of each kind of invalidation, in the order             *)
(* newton_with_loops gives them: slack, reactive limits, tap control.      *)
(***************************************************************************)
EXTENDS OuterLoops

MCKind == <<"Nothing", "Pattern", "Admittances">>
=============================================================================
