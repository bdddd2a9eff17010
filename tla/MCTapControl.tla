---------------------------- MODULE MCTapControl ----------------------------
(***************************************************************************)
(* Two parallel transformers that hold one bus, and a third one imported   *)
(* at a position its table does not have.  The second one's table is not   *)
(* monotonous, as an imported table may be.  The measurements reach past   *)
(* both ends of what the tables can produce and leave both transformers    *)
(* positions that miss the target by more than the deadband, so that the   *)
(* third one may be held at first and passed over after a disturbance.     *)
(***************************************************************************)
EXTENDS TapControl

MCQuantity == <<"v", "v", "v">>
MCTarget == <<0, 0, 0>>
MCHalf == <<1, 1, 1>>
MCLow == <<-1, 0, 0>>
MCHigh == <<1, 2, 1>>
MCRatio == << [p \in -1..1 |-> 2 * p],
              [p \in 0..2 |-> <<0, 4, 2>>[p + 1]],
              [p \in 0..1 |-> 2 * p] >>
MCStart == <<0, 1, 5>>
MCMeasurements == {-3, 0, 2}
MCSensitivities == {0, 1, -2}
=============================================================================
