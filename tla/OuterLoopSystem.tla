--------------------------- MODULE OuterLoopSystem ---------------------------
(***************************************************************************)
(* Three of the loops newton_with_loops lists, on the driver of            *)
(* OuterLoops: remote voltage control, the active power balance and        *)
(* reactive limits (crates/gridoxide-core/src/outerloop/{remote,slack,     *)
(* area,qlimits}.rs, crates/gridoxide-core/src/lib.rs).                    *)
(*                                                                         *)
(* The balance is distributed slack or, in its place, area interchange.    *)
(* Remote control and reactive limits meet in the bus types: the one       *)
(* decides at the start which buses are PV, the other takes PV buses away  *)
(* while the run goes on, and remote control must notice.  The solved      *)
(* quantities the loops read are physics and take any value at every       *)
(* solve: whether a PV bus is within its reactive limits, whether a        *)
(* remotely held bus is inside the deadband and answers to its machine,    *)
(* which areas are off what is asked of them.  One island with a single    *)
(* slack bus is modelled.                                                  *)
(***************************************************************************)
EXTENDS OuterLoops, Sequences, FiniteSets

CONSTANTS
  LoopList,        \* names of the loops, in the order of the run
  Buses,
  ImportedType,    \* the bus types the importer produced
  Machines,
  At, Controls,    \* RegulatingMachine::at_bus, controls_bus
  Balances,        \* the balances a run may be configured with: slack, area
  Areas,
  Participating,   \* the areas with a participating generator
  MaxOuterIter     \* SlackDistribution::max_outer_iter, AreaDefinition's

KindOf(name) ==
  IF name = "qlimits" THEN "Pattern" ELSE "Nothing"
MaxOf(a, b) == IF a >= b THEN a ELSE b

ASSUME SystemAssumption ==
  /\ LoopList \in Seq({"remote", "balance", "qlimits"}) /\ NLoops = Len(LoopList)
  /\ Kind = [i \in LoopIds |-> KindOf(LoopList[i])]
  /\ ImportedType \in [Buses -> {"PQ", "PV", "Slack"}]
  /\ At \in [Machines -> Buses] /\ Controls \in [Machines -> Buses]
  /\ Balances \subseteq {"slack", "area"} /\ Participating \subseteq Areas
  /\ MaxOuterIter \in Nat

Remote == {m \in Machines : At[m] # Controls[m]}

VARIABLES
  busType, limits,            \* "own", "machines" or "none"
  qSpec,                      \* "schedule", or the limit it is clamped to
  switched,                   \* times each bus is in ReactiveLimits::switches
  contested, outcome, previous,            \* RemoteVoltageControl
  balance,                    \* the balance configured; it never changes
  passes, exhausted, balanced, unbalanced, \* DistributedSlack, AreaInterchange
  reactive, offTarget, responds, offSchedule,   \* the last solve
  pattern                     \* the bus types the cached Jacobian is laid out for

buses == <<busType, limits, qSpec>>
remoteState == <<contested, outcome, previous>>
balanceState == <<balance, passes, exhausted, balanced, unbalanced>>
physics == <<reactive, offTarget, responds, offSchedule>>
sysVars == <<vars, buses, switched, remoteState, balanceState, physics, pattern>>

Name == LoopList[pos]
HasLoop(name) == \E i \in LoopIds : LoopList[i] = name
HasRemote == HasLoop("remote")

-----------------------------------------------------------------------------
(* RemoteVoltageControl                                                    *)

\* The importer pins the bus a machine holds, so a bus is held when it is PV.
\* A machine counts as held locally if another CONTROLLER regulates its own
\* bus there; every controller is a machine that does not.
HeldLocally(m) ==
  \E o \in Remote : At[o] = Controls[m] /\ Controls[o] = Controls[m]

Kept == {m \in Remote : ~HeldLocally(m)}
Hosts(b) == \E m \in Machines : At[m] = b

\* initialize, whose two passes over the controllers are two functions: first
\* every controlled PV bus becomes PQ, then every controller's PQ bus PV.
Unpinned ==
  [b \in Buses |->
     IF ImportedType[b] = "PV" /\ \E m \in Kept : Controls[m] = b
       THEN "PQ" ELSE ImportedType[b]]
RetypedFirst ==                                       \* a mutant: passes swapped
  [b \in Buses |->
     IF ImportedType[b] # "Slack" /\ \E m \in Kept : Controls[m] = b THEN "PQ"
       ELSE IF ImportedType[b] = "PQ" /\ \E m \in Kept : At[m] = b THEN "PV"
       ELSE ImportedType[b]]
Retyped ==
  [b \in Buses |->
     IF Unpinned[b] = "PQ" /\ \E m \in Kept : At[m] = b
       THEN "PV" ELSE Unpinned[b]]
MovedLimits ==
  [b \in Buses |->
     IF Retyped[b] # "Slack" /\ \E m \in Kept : At[m] = b THEN "machines"
       ELSE IF Unpinned[b] = ImportedType[b] THEN "own"
       ELSE IF Hosts(b) THEN "machines" ELSE "none"]

RemoteInitialize ==
  IF HasRemote
    THEN /\ busType' = Retyped
         /\ limits' = MovedLimits
         /\ contested' = {m \in Remote : HeldLocally(m)}
    ELSE UNCHANGED <<busType, limits, contested>>

\* check, controller by controller: each looks at its own bus only.
InControl(m) == busType[At[m]] = "PV"
NoResponse(m) == previous[m] /\ ~responds[m]
Movers == {m \in Kept : InControl(m) /\ offTarget[m] /\ ~NoResponse(m)}

RemoteOutcome ==
  [m \in Remote |->
     IF m \notin Kept THEN outcome[m]
       ELSE IF ~InControl(m) THEN "AtReactiveLimit"
       ELSE IF ~offTarget[m] THEN "Held"
       ELSE IF NoResponse(m) THEN "Insensitive" ELSE "Unfinished"]

RemoteCheck ==
  /\ outcome' = RemoteOutcome
  /\ previous' = [m \in Remote |-> previous[m] \/ m \in Movers]
  /\ UNCHANGED <<contested, buses, switched, balanceState, physics, pattern>>

-----------------------------------------------------------------------------
(* DistributedSlack, and AreaInterchange in its place.                      *)

\* What the balance looks at, and the part of it that has anyone to move.  An
\* area is off by its net export, the one that holds the slack by the slack's
\* own deviation; one without a participant is reported and left alone.
Zones == IF balance = "area" THEN Areas ELSE {"slack"}
Driven == IF balance = "area" THEN Participating ELSE {"slack"}
Adrift == offSchedule \cap Driven

ReportUnbalanced ==
  unbalanced' = IF balance = "area" THEN offSchedule \ Driven ELSE unbalanced

LastPassOneLate == passes + 1 > MaxOf(MaxOuterIter, 1)         \* a mutant
LastPass == passes + 1 >= MaxOf(MaxOuterIter, 1)

BalanceAccepts ==
  /\ IF exhausted
       THEN UNCHANGED balanceState
       ELSE /\ passes' = passes + 1
            /\ balanced' = TRUE
            /\ ReportUnbalanced
            /\ UNCHANGED <<balance, exhausted>>
  /\ UNCHANGED <<buses, switched, remoteState, physics, pattern>>

BalanceMoves ==
  /\ passes' = passes + 1
  /\ exhausted' = LastPass
  /\ ReportUnbalanced
  /\ UNCHANGED <<balance, balanced>>
  /\ UNCHANGED <<buses, switched, remoteState, physics, pattern>>

-----------------------------------------------------------------------------
(* ReactiveLimits                                                          *)

ViolatorsOfAnyType ==                                           \* a mutant
  {b \in Buses : busType[b] # "Slack" /\ limits[b] # "none"
                 /\ reactive[b] # "within"}

Violators ==
  {b \in Buses : busType[b] = "PV" /\ limits[b] # "none"
                 /\ reactive[b] # "within"}

LimitsSwitch ==
  /\ busType' = [b \in Buses |-> IF b \in Violators THEN "PQ" ELSE busType[b]]
  /\ qSpec' = [b \in Buses |-> IF b \in Violators
                                 THEN reactive[b] ELSE qSpec[b]]
  /\ switched' = [b \in Buses |-> IF b \in Violators
                                    THEN switched[b] + 1 ELSE switched[b]]
  /\ UNCHANGED <<limits, remoteState, balanceState, physics, pattern>>

-----------------------------------------------------------------------------
(* The loops on the driver.                                                *)

Accepts(name) ==
  CASE name = "remote"  -> Movers = {}
    [] name = "balance" -> exhausted \/ Adrift = {}
    [] name = "qlimits" -> Violators = {}

Acceptance == [i \in LoopIds |-> Accepts(LoopList[i])]

\* A solve gives every measured quantity a new value, and lays the Jacobian
\* out for the bus types when the cache does not hold one. A bus that holds its
\* voltage may end beyond a limit; one switched to its limit is at it, within
\* or just beyond; any other injects what it is given. Whether a machine answers
\* is told from its last move, so only of those that made one.
Holding == {b \in Buses : busType[b] = "PV"}
AtALimit == {b \in Buses : busType[b] # "PV" /\ switched[b] > 0}

Measured ==
  /\ \E free \in [Holding' -> {"within", "min", "max"}], beyond \in SUBSET AtALimit' :
       reactive' = [b \in Buses |-> CASE b \in Holding' -> free[b]
                                      [] b \in beyond -> qSpec[b]
                                      [] OTHER -> "within"]
  /\ offTarget' \in [Remote -> BOOLEAN]
  /\ \E deaf \in SUBSET {m \in Remote : previous'[m]} :
       responds' = [m \in Remote |-> m \notin deaf]
  /\ offSchedule' \in IF HasLoop("balance") THEN SUBSET Zones ELSE {{}}
  /\ pattern' = IF cache.types = Empty THEN busType' ELSE pattern
  /\ ok' = Acceptance'

SysInit ==
  /\ Init
  /\ busType = ImportedType
  /\ limits = [b \in Buses |-> "own"]
  /\ qSpec = [b \in Buses |-> "schedule"]
  /\ switched = [b \in Buses |-> 0]
  /\ contested = {}
  /\ outcome = [m \in Remote |-> "Unfinished"]
  /\ previous = [m \in Remote |-> FALSE]
  /\ balance \in Balances
  /\ passes = 0 /\ exhausted = FALSE /\ balanced = FALSE /\ unbalanced = {}
  /\ reactive = [b \in Buses |-> "within"]
  /\ offTarget = [m \in Remote |-> FALSE]
  /\ responds = [m \in Remote |-> TRUE]
  /\ offSchedule = {}
  /\ pattern = ImportedType

SysFirstSolve ==
  /\ pc = "first"
  /\ RemoteInitialize
  /\ UNCHANGED <<qSpec, switched, outcome, previous, balanceState>>
  /\ Measured
  /\ FirstSolve

SysReSolve ==
  /\ pc = "solve"
  /\ UNCHANGED <<buses, switched, remoteState, balanceState>>
  /\ Measured
  /\ ReSolve

SysDriver ==
  /\ StopEarly \/ Consult \/ QuietPass \/ NextPass
     \/ Invalidate
  /\ UNCHANGED <<buses, switched, remoteState, balanceState, physics, pattern>>

SysRemoteStable    == Name = "remote" /\ CheckStable /\ RemoteCheck
SysRemoteUnstable  == Name = "remote" /\ CheckUnstable /\ RemoteCheck
SysBalanceStable   == Name = "balance" /\ CheckStable /\ BalanceAccepts
SysBalanceUnstable == Name = "balance" /\ CheckUnstable /\ BalanceMoves
SysLimitsUnstable  == Name = "qlimits" /\ CheckUnstable /\ LimitsSwitch
SysLimitsStable    ==
  /\ Name = "qlimits" /\ CheckStable
  /\ UNCHANGED <<buses, switched, remoteState, balanceState, physics, pattern>>

SysCheck ==
  /\ pc = "check"
  /\ \/ SysRemoteStable \/ SysRemoteUnstable
     \/ SysBalanceStable \/ SysBalanceUnstable
     \/ SysLimitsStable \/ SysLimitsUnstable

SysNext == SysFirstSolve \/ SysReSolve \/ SysDriver \/ SysCheck

SysSpec == SysInit /\ [][SysNext]_sysVars

-----------------------------------------------------------------------------
(* Properties                                                              *)

\* The Jacobian a solve used is laid out for the bus types it solved, although
\* bus types are changed by two loops that declare different invalidations
\* (RemoteVoltageControl::invalidates, "before any factorization exists").
PatternFitsBusTypes == pc \in {"walk", "check", "done"} => pattern = busType

\* Which buses hold a voltage once remote control has prepared the network: not
\* the slack; every other that a machine with a bus of its own to hold elsewhere
\* stands at; and of those imported so, the ones no machine holds from elsewhere.
HoldsAVoltage(b) ==
  \/ ImportedType[b] # "Slack" /\ \E m \in Kept : At[m] = b
  \/ ImportedType[b] = "PV" /\ \A m \in Kept : Controls[m] # b

\* The one-directional switch: a bus enters the switch list at most once,
\* only PV buses do, and it is injecting the limit it broke from then on
\* (outerloop/qlimits.rs, module comment). One that is not in the list holds a
\* voltage exactly if remote control left it to, although in a chain of machines
\* one pass of initialize undoes what the other did (outerloop/remote.rs).
SwitchedOnce ==
  \A b \in Buses :
    /\ switched[b] <= 1
    /\ switched[b] = 1 => busType[b] = "PQ" /\ qSpec[b] # "schedule"
    /\ switched[b] = 0 /\ pc # "first" /\ HasRemote =>
         (busType[b] = "PV" <=> HoldsAVoltage(b))

\* Converged means the controls agree on one state: no PV bus is beyond its
\* limits, no remote machine still has a move to make, the outcomes reported
\* are those of this state, and the balance is kept and the areas named as left
\* alone are those that are off, unless its pass cap is spent. The pass that
\* spends it is the last the balance has re-solved, whatever ends the run
\* (outerloop/slack.rs, max_outer_iter).
ConvergedControlsAgree ==
  /\ \A i \in LoopIds : LoopList[i] = "balance" => counts[i] <= MaxOf(MaxOuterIter, 1)
  /\ Done /\ Converged =>
       /\ HasLoop("qlimits") => Violators = {}
       /\ HasLoop("balance") => \/ exhausted
                                \/ /\ Adrift = {}
                                   /\ balance = "area" => unbalanced = offSchedule
       /\ HasLoop("remote") => Movers = {} /\ outcome = RemoteOutcome
=============================================================================
