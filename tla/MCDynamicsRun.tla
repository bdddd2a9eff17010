--------------------------- MODULE MCDynamicsRun ---------------------------
(***************************************************************************)
(* A schedule and relays for the run of DynamicsRun.                       *)
(***************************************************************************)
EXTENDS DynamicsRun

Ev(time, valid) == [time |-> time, valid |-> valid]
Rel(delay, repeating, valid, known, mayStartOut) ==
  [delay |-> delay, repeating |-> repeating, valid |-> valid, known |-> known,
   mayStartOut |-> mayStartOut]

\* An event before the start, one that names nothing, two at one instant
\* between two step boundaries, one past the end.
MCSchedule == <<Ev(-1, TRUE), Ev(1, FALSE), Ev(3, TRUE), Ev(3, TRUE), Ev(9, TRUE)>>

\* A one-shot relay, a repeating one that acts at once and may be out of bounds
\* from the start, and one whose action names nothing.
MCRelay == <<Rel(1, FALSE, TRUE, TRUE, FALSE), Rel(0, TRUE, TRUE, TRUE, TRUE),
             Rel(1, FALSE, FALSE, TRUE, FALSE)>>
=============================================================================
