---------------------------- MODULE MCRaoScenario ----------------------------
(***************************************************************************)
(* A network of two lines, a phase shifter and a generator; an auto        *)
(* instant and two curative ones.  Two line automatons of one speed share  *)
(* their rules and undo each other's trigger; two shifter automatons of    *)
(* that speed act on one machine.  The first curative instant may spend    *)
(* two remedial actions and the second one, and there a combination        *)
(* competes with its members.                                              *)
(***************************************************************************)
EXTENDS RaoScenario

MCKindOf == <<"preventive", "auto", "curative", "curative">>
MCNone == "base"
Co(i) == [instant |-> i, contingency |-> "co"]
MCStates == {[instant |-> 1, contingency |-> MCNone], Co(2), Co(3), Co(4)}
MCAutoState == Co(2)
MCStateOf == [x |-> Co(2), y |-> Co(2), u |-> Co(3), w |-> Co(3), v |-> Co(4)]
MCCnecs == DOMAIN MCStateOf
MCOptimized == MCCnecs \ {"w"}
MCCountriesOf == [x |-> {"be"}, y |-> {"fr"}, u |-> {"be"}, w |-> {"fr"}, v |-> {"be", "fr"}]

MCImported == [l1 |-> 0, l2 |-> 0, p |-> 0, g |-> 0]
MCElements == DOMAIN MCImported
MCPreventiveGrids == {MCImported, [MCImported EXCEPT !.p = 1, !.l2 = 1, !.g = 1]}

OnConstraint(i, c) == [kind |-> "constraint", instant |-> i, cnec |-> c]
InCountry(i, c) == [kind |-> "country", instant |-> i, country |-> c, contingency |-> "any"]
OnInstant(i) == [kind |-> "instant", instant |-> i]
OnState(s) == [kind |-> "state", state |-> s, instant |-> s.instant]

MCEffect == << [l1 |-> 1], [l2 |-> 1], [l1 |-> 0], [p |-> 2], [l2 |-> 1] >>
MCRules == << {OnConstraint(2, "x")}, {OnConstraint(2, "x")},
              {OnInstant(3)}, {OnConstraint(3, "u"), OnInstant(2)}, {InCountry(3, "be"), OnState(Co(4))} >>
MCOperator == <<"be", "fr", "be", "be", "fr">>
MCElementary == <<1, 1, 1, 1, 1>>
MCSpeed == <<1, 1, 0, 0, 0>>

MCElementOf == <<"p", "p", "p", "g">>
MCTable == << -2..2, -2..2, -2..2, 0..1 >>
Bounds(k, lo, hi) == [kind |-> k, min |-> lo, max |-> hi]
MCRanges == << {Bounds("previous", -2, 1)}, {Bounds("previous", -1, 1), Bounds("absolute", -2, 2)},
               {Bounds("previous", -1, 1), Bounds("initial", -1, 2)}, {} >>
MCRangeRules == << {OnConstraint(2, "x")}, {InCountry(2, "fr")},
                   {OnInstant(3), OnInstant(4)}, {OnInstant(3)} >>
MCRangeOperator == <<"be", "fr", "fr", "be">>
MCRangeSpeed == <<1, 1, 0, 0>>

MCMaxRa == <<9, 9, 2, 1>>
MCMaxTopoPerTso == << <<>>, <<>>, [fr |-> 1], <<>> >>
MCMaxPstPerTso == << <<>>, <<>>, [fr |-> 1], [fr |-> 0] >>
MCMaxRaPerTso == << <<>>, <<>>, [fr |-> 1], <<>> >>
MCMaxElementaryPerTso == << <<>>, <<>>, [be |-> 1], <<>> >>

MCCases == [x : {-5, -3}, y : {-1, 0}, u : {-2, 0}, w : {-1}, v : {-1}]
MCMargin(k, c, e) ==
  LET change == CASE c = "x" -> 2 * e.l1 + 2 * e.l2 + e.p
                 [] c = "y" -> 1 - e.l2 - e.p
                 [] c = "u" -> 2 * e.l2 - e.l1 + e.p + e.g
                 [] c = "w" -> e.p
                 [] c = "v" -> e.l2 - e.p - e.l1
  IN  k[c] + change

MCCombinations == << <<3, 5>>, <<4, 5>>, <<1, 2>> >>
MCKey == <<6, 6, 5, 1, 2, 4, 3, 6>>
MCNear == [c \in MCCnecs |-> MCElements]

=============================================================================
