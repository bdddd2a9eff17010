--------------------------- MODULE ReactiveDispatch ---------------------------
(***************************************************************************)
(* The reactive power a solve put at one bus, split among the machines     *)
(* that hold it: reactive_keys, split and allocate of                      *)
(* crates/gridoxide-core/src/dispatch.rs.                                  *)
(*                                                                         *)
(* Powers are whole numbers.  Limits are where machines are pinned, so     *)
(* what is left to split is whole as well; a free machine's own share is   *)
(* the fraction left * key / freeKey and is only ever compared.            *)
(***************************************************************************)
EXTENDS Integers, FiniteSetsExt

CONSTANTS
  Shared,            \* the machines that hold the bus
  Ratings,           \* what a machine may be: [min, max, key]
  Totals,            \* what the bus may require
  PlausibleMin, PlausibleMax,    \* MIN/MAX_PLAUSIBLE_RANGE_PU
  NoKey

ASSUME DispatchAssumption ==
  /\ IsFiniteSet(Shared) /\ Shared # {}
  /\ \A r \in Ratings : /\ r.min \in Int /\ r.max \in Int /\ r.min <= r.max
                        /\ r.key \in Nat \cup {NoKey}
  /\ Totals \subseteq Int /\ PlausibleMin \in Nat /\ PlausibleMax \in Nat

VARIABLES
  rating, required,  \* the machines and the total; they never change
  pinned,            \* those pinned at a limit
  q,                 \* and where
  rounds, settled

dispatchvars == <<rating, required, pinned, q, rounds, settled>>

\* reactive_keys: one basis for all the machines.
Width(m) == rating[m].max - rating[m].min
Explicit == /\ \A m \in Shared : rating[m].key # NoKey
            /\ \E m \in Shared : rating[m].key # 0
ByCapability == /\ \A m \in Shared : Width(m) \in PlausibleMin..PlausibleMax
                /\ \E m \in Shared : Width(m) # 0
Keys == [m \in Shared |-> IF Explicit THEN rating[m].key
                         ELSE IF ByCapability THEN Width(m) ELSE 1]

DispatchInit ==
  /\ rating \in [Shared -> Ratings] /\ required \in Totals
  /\ pinned = {} /\ q = [m \in Shared |-> 0]
  /\ rounds = 0 /\ settled = FALSE

FreeKey == SumFunctionOnSet(Keys, Shared \ pinned)

\* a mutant: what the pinned machines give is not taken off.
RemainingWhole == required
Remaining == required - SumFunctionOnSet(q, pinned)

\* Whether the share of a free machine is beyond a limit; it is nothing when
\* the free machines have no key left.
Over(m) == IF FreeKey = 0 THEN 0 > rating[m].max
           ELSE Remaining * Keys[m] > rating[m].max * FreeKey
Under(m) == IF FreeKey = 0 THEN 0 < rating[m].min
            ELSE Remaining * Keys[m] < rating[m].min * FreeKey
Beyond == {m \in Shared \ pinned : Over(m) \/ Under(m)}

Rounds == Cardinality(Shared) + 1

SplitRound ==
  /\ ~settled /\ rounds < Rounds
  /\ q' = [m \in Shared |-> CASE m \in Beyond /\ Over(m) -> rating[m].max
                              [] m \in Beyond /\ ~Over(m) -> rating[m].min
                              [] OTHER -> q[m]]
  /\ pinned' = pinned \cup Beyond
  /\ settled' = (Beyond = {})
  /\ rounds' = rounds + 1
  /\ UNCHANGED <<rating, required>>

DispatchNext == SplitRound

DispatchSpec == DispatchInit /\ [][DispatchNext]_dispatchvars

\* allocate: what the shares add up to.
Attributed ==
  SumFunctionOnSet(q, pinned)
    + (IF pinned # Shared /\ FreeKey > 0 THEN Remaining ELSE 0)

-----------------------------------------------------------------------------
\* The most of what is required that the machines can give together.
Capability ==
  LET low == SumFunctionOnSet([m \in Shared |-> rating[m].min], Shared)
      high == SumFunctionOnSet([m \in Shared |-> rating[m].max], Shared)
  IN  IF required < low THEN low ELSE IF required > high THEN high ELSE required

\* "What they could actually be given, once each one's own limits were
\* respected" (BusDispatch::attributed): the rounds allowed are enough, the free
\* machines are within their limits, and the machines leave nothing they could
\* have given together, unless some were pinned at opposite limits or what was
\* left fell to machines with a key of zero.
PinnedBothWays ==
  \E m, n \in pinned : m # n /\ q[m] = rating[m].max /\ q[n] = rating[n].min
NothingIsLeftOnTheTable ==
  rounds > 0 /\ (settled \/ rounds = Rounds) =>
    /\ settled /\ Beyond = {}
    /\ (\A m \in Shared : Keys[m] > 0) /\ ~PinnedBothWays
         => Attributed = Capability
=============================================================================
