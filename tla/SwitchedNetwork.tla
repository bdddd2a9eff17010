--------------------------- MODULE SwitchedNetwork ---------------------------
(***************************************************************************)
(* A node-breaker model and the switches kept in it: the bus view          *)
(* (topology/bus_view.rs), the branches or the equalities that stand for   *)
(* the retained switches (switches.rs, constrained.rs), their operation    *)
(* through the bindings (src/python.rs, set_switch and solve), and which   *)
(* buses a solve takes for energized (network.rs).                         *)
(*                                                                         *)
(* Voltages and flows are not modelled: every nonzero admittance connects, *)
(* an equality between two unknowns is a row or is not.                    *)
(***************************************************************************)
EXTENDS Sequences, FiniteSetsExt

CONSTANTS
  Nodes,
  SwitchEnds,        \* the switches in file order, each a pair of nodes
  Operable,          \* all but the junctions
  Feeders,           \* lines, as pairs of nodes
  Machines,          \* which nodes hold a voltage: "slack", "pv" or "pq" by node
  OutOfService       \* the sets of switches that may be out of service

Switches == DOMAIN SwitchEnds

ASSUME SwitchingAssumption ==
  /\ SwitchEnds \in Seq(Nodes \X Nodes) /\ Operable \subseteq Switches
  /\ Feeders \subseteq Nodes \X Nodes /\ IsFiniteSet(Feeders)
  /\ Machines \subseteq [Nodes -> {"slack", "pv", "pq"}]
  /\ OutOfService \subseteq SUBSET Switches

VARIABLES
  model,             \* what was imported, see Models
  dead,              \* the buses it leaves at zero volts
  bus,               \* BusView::bus_of, a bus named by a node of it
  position,          \* the switches open by the file and the calls accepted since
  branches,          \* the branches stamped for switches: their buses and status
  partition,         \* PersistentSolver::components, a bus's label by bus
  result             \* what the last solve took for energized and tied

switchvars == <<model, dead, bus, position, branches, partition, result>>

NotYet == [none |-> TRUE]

\* UnionFind, as the label of each element's group.
Union(d, a, b) == [x \in DOMAIN d |-> IF d[x] = d[a] THEN d[b] ELSE d[x]]
Apart(S) == [x \in S |-> x]
Joined(d, pairs) == FoldSet(LAMBDA p, e : Union(e, p[1], p[2]), d, pairs)

Conducting(m, s) == s \notin m.open \cup m.out
EndsOf(S) == {SwitchEnds[s] : s \in S}

\* bus_view: every switch that is not retained and conducts makes one bus of
\* its ends. A junction is never retained.
Merged(m) ==
  Joined(Apart(Nodes), EndsOf({s \in Switches : s \notin m.retained /\ Conducting(m, s)}))

Linked(pairs, S) == \A p \in pairs : p[1] \in S <=> p[2] \in S
\* The nodes the lines and switches connect to a source, by definition: those
\* of every set that holds the sources and no link leaves.
Fed(m, pairs) ==
  LET sources == {n \in Nodes : m.machine[n] = "slack"} IN
  {n \in Nodes : \A S \in SUBSET Nodes : sources \subseteq S /\ Linked(pairs, S) => n \in S}
FedByFile(m) == Fed(m, Feeders \cup EndsOf({s \in Switches : Conducting(m, s)}))

Models ==
  [open : SUBSET Operable, out : OutOfService, retained : SUBSET Operable,
   constrained : BOOLEAN, machine : Machines]

Buses == {bus[n] : n \in Nodes}
From(s) == bus[SwitchEnds[s][1]]
To(s) == bus[SwitchEnds[s][2]]
Degenerate(s) == From(s) = To(s)
InOrder(S) ==
  CHOOSE list \in [1..Cardinality(S) -> S] : \A i, j \in DOMAIN list : i < j => list[i] < list[j]
Holds(b, what) == \E n \in Nodes : bus[n] = b /\ model.machine[n] = what

\* regularized_branches: retained switches in order, the degenerate skipped, by
\* their position alone.
Regularized ==
  LET stamped == InOrder({s \in model.retained : ~Degenerate(s)})
  IN  [n \in DOMAIN stamped |-> [ends |-> <<From(stamped[n]), To(stamped[n])>>,
                                 closed |-> stamped[n] \notin model.open]]
\* NodeBreakerNetwork::new counts the same switches a second time.
BranchOf(s) == Cardinality({t \in model.retained : t <= s /\ ~Degenerate(t)})
HasBranch(s) == ~model.constrained /\ s \in model.retained /\ ~Degenerate(s)

\* The file leaves some buses without voltage that its own positions do not
\* reach (TopologicalIsland.TopologicalNodes): convert_equipment fixes those at
\* zero volts.
SwitchingInit ==
  /\ model \in Models
  /\ bus = Merged(model)
  /\ dead \in SUBSET (Buses \ {bus[n] : n \in FedByFile(model)})
  /\ position = model.open
  /\ branches = IF model.constrained THEN <<>> ELSE Regularized
  /\ partition = NotYet /\ result = NotYet

\* connected_components, by the entries of the Y-bus that are not zero.
Lines == {<<bus[f[1]], bus[f[2]]>> : f \in Feeders}
Closed == {n \in DOMAIN branches : branches[n].closed}
Components == Joined(Apart(Buses), Lines \cup {branches[n].ends : n \in Closed})

\* classify and mark_unreferenced_islands: a component without a source is put
\* at zero volts. A bus at zero volts is no source, and one imported so stays so.
Live(label) ==
  {b \in Buses \ dead : \E r \in Buses : label[r] = label[b] /\ Holds(r, "slack")}

-----------------------------------------------------------------------------
(* Operating a switch, and solving with switches as branches.              *)

PartitionKept == partition
AfterSwitching == NotYet

\* set_switch: refused without a branch; otherwise the terminal statuses, the
\* Y-bus and everything the solver remembers.
SetSwitch ==
  \E s \in Switches, open \in BOOLEAN :
    /\ HasBranch(s)
    /\ branches' = [branches EXCEPT ![BranchOf(s)].closed = ~open]
    /\ position' = IF open THEN position \cup {s} ELSE position \ {s}
    /\ partition' = AfterSwitching
    /\ result' = NotYet
    /\ UNCHANGED <<model, dead, bus>>

\* PersistentSolver::solve on a clone of the imported buses.
Solve ==
  /\ ~model.constrained /\ result = NotYet
  /\ partition' = IF partition = NotYet THEN Components ELSE partition
  /\ result' = [live |-> Live(partition')]
  /\ UNCHANGED <<model, dead, bus, position, branches>>

-----------------------------------------------------------------------------
(* Switches as equalities: one row for the angles of a switch's ends, one  *)
(* for their magnitudes.                                                   *)

Halves == {"angle", "magnitude"}

\* The buses whose unknown is not free, once the islands are marked.
Fixed(half, live) ==
  {b \in Buses : \/ b \notin live \/ Holds(b, "slack")
                 \/ half = "magnitude" /\ Holds(b, "pv")}

\* seed_fixed: they start as one group.
SeededApart(fixed) == Apart(Buses)
Seeded(fixed) ==
  LET anchor == CHOOSE b \in fixed : TRUE
  IN  [b \in Buses |-> IF b \in fixed THEN anchor ELSE b]

\* tie_or_pin, switch by switch: one that joins two groups ties its ends, any
\* other closed one has its flow pinned to zero.
TieOrPin(acc, s) ==
  IF acc.label[From(s)] = acc.label[To(s)] THEN acc
  ELSE [label |-> Union(acc.label, From(s), To(s)), tied |-> acc.tied \cup {s}]
Tied(fixed, closed) ==
  LET upTo[s \in 0..Len(SwitchEnds)] ==
        IF s = 0 THEN [label |-> Seeded(fixed), tied |-> {}]
        ELSE IF s \in closed THEN TieOrPin(upTo[s - 1], s) ELSE upTo[s - 1]
  IN  upTo[Len(SwitchEnds)].tied

ClosedSwitches == model.retained \ position

\* solve_constrained: components across the closed switches, then the rows.
SolveConstrained ==
  /\ model.constrained /\ result = NotYet
  /\ LET across == Joined(Components, {<<From(s), To(s)>> : s \in ClosedSwitches})
         live == Live(across)
         rows == [half \in Halves |-> Tied(Fixed(half, live), ClosedSwitches)]
     IN  result' = [live |-> live, rows |-> rows,
                    indeterminate |-> {s \in ClosedSwitches : \E h \in Halves : s \notin rows[h]}]
  /\ UNCHANGED <<model, dead, bus, position, branches, partition>>

SwitchingNext == SetSwitch \/ Solve \/ SolveConstrained

SwitchingSpec == SwitchingInit /\ [][SwitchingNext]_switchvars

-----------------------------------------------------------------------------
(* Properties.                                                             *)

\* Whatever was merged, retained, stamped and switched since, a solve takes a
\* node for energized exactly when lines and the switches that conduct connect it
\* to a source: those in service and closed, by the file and the calls since
\* (topology/model.rs, Switch::in_service). Buses the file itself left dead are
\* not counted, and nothing is claimed while a retained switch is out of service
\* and closed: it is stamped by its position alone.
ConductsNow(s) == s \notin position \cup model.out
StampedAsItConducts == model.retained \cap model.out \subseteq position
EnergizedAsConnected ==
  result # NotYet /\ StampedAsItConducts =>
    {n \in Nodes : bus[n] \in result.live} =
      {n \in Fed(model, Feeders \cup EndsOf({s \in Switches : ConductsNow(s)})) :
         bus[n] \notin dead}

\* The rows of the constrained system are neither redundant, which makes it
\* singular, nor too few, which lets the ends of a closed switch differ: for the
\* angles and for the magnitudes, with what is already fixed counted as one, the
\* ties join the ends of every closed switch and no tie joins what the others do.
SameSide(fixed, S) == fixed \subseteq S \/ fixed \cap S = {}
Determined(fixed, ties, s) ==
  \A S \in SUBSET Buses :
    SameSide(fixed, S) /\ Linked({<<From(t), To(t)>> : t \in ties}, S)
      => (From(s) \in S <=> To(s) \in S)
TiesSpanTheLoops ==
  result # NotYet /\ model.constrained =>
    \A half \in Halves :
      LET fixed == Fixed(half, result.live)
          ties == result.rows[half]
      IN  /\ \A s \in ClosedSwitches : Determined(fixed, ties, s)
          /\ \A t \in ties : ~Determined(fixed, ties \ {t}, t)
=============================================================================
