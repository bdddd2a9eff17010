---------------------------- MODULE MCRemedialPlan ----------------------------
(***************************************************************************)
(* Two contingencies.  The first has an automaton and a curative instant,  *)
(* where a line, the phase shifter and a generator may be used; the second *)
(* one has a curative state that nothing can act on, pulled forward.  The  *)
(* preventive perimeter may open a line and use the same shifter.          *)
(***************************************************************************)
EXTENDS RemedialPlan

MCKindOf == <<"preventive", "auto", "curative">>
MCNone == 0
At1(i) == [instant |-> i, contingency |-> 1]
At2(i) == [instant |-> i, contingency |-> 2]
Base == [instant |-> 1, contingency |-> MCNone]
MCStates == {Base, At1(2), At1(3), At2(3)}

MCStateOf == [b |-> Base, x |-> At1(2), u |-> At1(3), v |-> At2(3)]
MCCnecs == DOMAIN MCStateOf
MCCountriesOf == [c \in MCCnecs |-> {"be"}]

MCImported == [l1 |-> 0, l2 |-> 0, p |-> 0, g |-> 0]
MCElements == DOMAIN MCImported

OnConstraint(i, c) == [kind |-> "constraint", instant |-> i, cnec |-> c]
OnInstant(i) == [kind |-> "instant", instant |-> i]
OnState(s) == [kind |-> "state", state |-> s, instant |-> s.instant]

MCEffect == << [l1 |-> 1], [l2 |-> 1], [l1 |-> 1] >>
MCRules == << {OnInstant(1)}, {OnState(At1(3))}, {OnConstraint(2, "x")} >>
MCOperator == <<"be", "be", "be">>
MCElementary == <<1, 1, 1>>

MCElementOf == <<"p", "p", "g">>
MCTable == << -1..1, -1..1, 0..1 >>
MCRanges == << {[kind |-> "initial", min |-> 0, max |-> 1]},
               {[kind |-> "previous", min |-> -1, max |-> 1]}, {} >>
MCRangeRules == << {OnInstant(1)}, {OnState(At1(3))}, {OnState(At1(3))} >>
MCRangeOperator == <<"be", "be", "be">>

MCMaxRa == <<2, 9, 2>>
MCNoCap == << <<>>, <<>>, <<>> >>

MCCases == [b : {-1, 0}, x : {-1, 1}, u : {-2, 0}, v : {-1, 1}]
MCMargin(k, c, e) ==
  LET change == CASE c = "b" -> e.l1 + e.p + e.g
                 [] c = "x" -> e.l1 - e.p
                 [] c = "u" -> 2 * e.l2 - 2 * e.l1 - e.p + e.g
                 [] c = "v" -> 0 - e.l1 + e.p
  IN  k[c] + change
=============================================================================
