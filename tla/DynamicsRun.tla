---------------------------- MODULE DynamicsRun ----------------------------
(***************************************************************************)
(* One time-domain run: the integration loop `integrate` of                *)
(* src/dynamics/integrator.rs with its scheduled events and its protection *)
(* relays.                                                                 *)
(*                                                                         *)
(* Time is counted in ticks, the resolution to which a crossing is located *)
(* inside a step, so the code's tolerance eps is less than a tick.  What   *)
(* the network does is physics: `cond[i]`, whether relay i's trigger holds *)
(* at the current point, changes at most once inside a step and in any way *)
(* at a discontinuity, and every solve may fail.  The loop is modelled in  *)
(* full: the instants it lands on, the shortening onto a crossing, the     *)
(* events of an instant, the one pass over the relays, the actions due.    *)
(***************************************************************************)
EXTENDS Integers, Sequences

CONSTANTS
  End, Step, DampingSteps,   \* DynamicsOptions
  Schedule,                  \* the events, stably sorted by time
  Relay,                     \* the relays, in order
  TrialsConverge             \* does every trial solve of the locator settle?

Relays == 1..Len(Relay)
Events == 1..Len(Schedule)

ASSUME RunAssumption ==
  /\ End \in Nat /\ Step \in Nat \ {0} /\ DampingSteps \in Nat
  /\ Schedule \in Seq([time : Int, valid : BOOLEAN])
  /\ \A j, k \in Events : j < k => Schedule[j].time <= Schedule[k].time
  /\ Relay \in Seq([delay : Nat, repeating : BOOLEAN, valid : BOOLEAN,
                    known : BOOLEAN, mayStartOut : BOOLEAN])
  /\ TrialsConverge \in BOOLEAN

VARIABLES
  pc,            \* where the loop is
  now,           \* t
  nextEvent,
  cond,          \* does relay i's trigger hold at the current point?
  holding,       \* what the loop remembers of it
  pending,       \* conditions waiting out their delay
  due,           \* those that act at this instant and have not yet
  spent,
  dampingLeft,
  status,
  since,         \* history: when relay i's condition last began to hold
  appliedAt,     \* history: when each event was taken off the schedule
  acts,          \* history: relay_actions, with what was true when they acted
  quiet          \* history: accepted steps since the last discontinuity,
                 \* counted up to DampingSteps

loop == <<now, nextEvent, holding, pending, due, spent, dampingLeft, status>>
history == <<since, appliedAt, acts, quiet>>
vars == <<pc, loop, cond, history>>

Never == -1
Pending == [relay : Relays, crossed : Nat, fires : Nat]
Acts == [relay : Relays, crossed : Nat, fired : Nat, since : Int,
         held : BOOLEAN]

IsPending(i) == \E p \in pending : p.relay = i

-----------------------------------------------------------------------------
\* A relay that watches nothing that exists is dropped: it counts as spent.
Init ==
  /\ pc = "start"
  /\ now = 0 /\ nextEvent = 1
  /\ cond \in [Relays -> BOOLEAN]
  /\ \A i \in Relays : cond[i] => Relay[i].known /\ Relay[i].mayStartOut
  /\ holding = cond
  /\ pending = {} /\ due = {}
  /\ spent = [i \in Relays |-> ~Relay[i].known]
  /\ dampingLeft = DampingSteps
  /\ status = "completed"
  /\ since = [i \in Relays |-> IF cond[i] THEN 0 ELSE Never]
  /\ appliedAt = [k \in Events |-> Never]
  /\ acts = <<>>
  /\ quiet = 0

Fails ==
  /\ status' = "failed" /\ pc' = "done"
  /\ UNCHANGED <<cond, dampingLeft, since, quiet>>

\* The algebraic re-solve at a discontinuity: the watched quantities jump.
Jump ==
  /\ cond' \in [Relays -> BOOLEAN]
  /\ \A i \in Relays : cond'[i] => Relay[i].known
  /\ since' = [i \in Relays |-> IF cond'[i] /\ ~cond[i] THEN now ELSE since[i]]
  /\ quiet' = 0
  /\ UNCHANGED status

RedampedWhenOver ==                                             \* a mutant
  dampingLeft' = IF dampingLeft = 0 THEN DampingSteps ELSE dampingLeft

Redamped == dampingLeft' = DampingSteps

\* `fire`: every event of this instant is applied before the one re-solve, and
\* an event that names nothing is skipped with a warning. Before the first
\* step nothing follows; after a step the pass over the relays does.
IsDue(k) == k >= nextEvent /\ Schedule[k].time <= now
Batch == {k \in Events : IsDue(k)}

Fire(next) ==
  /\ nextEvent' \in nextEvent..(Len(Schedule) + 1)
  /\ \A k \in Events : k < nextEvent' <=> k < nextEvent \/ IsDue(k)
  /\ appliedAt' = [k \in Events |-> IF IsDue(k) THEN now ELSE appliedAt[k]]
  /\ \/ /\ \E k \in Batch : Schedule[k].valid
        /\ \/ Fails
           \/ Jump /\ Redamped /\ pc' = next
     \/ /\ \A k \in Batch : ~Schedule[k].valid
        /\ pc' = next
        /\ UNCHANGED <<cond, dampingLeft, status, since, quiet>>
  /\ UNCHANGED <<now, holding, pending, due, spent, acts>>

Begin == pc = "start" /\ Fire("step")

FireEvents == pc = "events" /\ Fire("watch")

-----------------------------------------------------------------------------
(* One step.                                                               *)

\* The instants the run must land on: the next event, and every expiry of a
\* delay.
DelaysExpire == {p.fires : p \in pending}
EventsFall == {Schedule[k].time : k \in {nextEvent} \cap Events}

ExactInstantsWithoutRelays == EventsFall                        \* a mutant
ExactInstantsWithoutEvents == DelaysExpire                      \* a mutant
ExactInstants == EventsFall \cup DelaysExpire

Reaches(t) ==
  LET ahead == {u \in {now + Step, End} \cup ExactInstants : u > now}
  IN t \in ahead /\ \A u \in ahead : t <= u

\* The condition of relay i once the step has come to instant t, when it
\* changes at flip[i] (Never when it does not change in this step).
CondAt(flip, t) ==
  [i \in Relays |-> IF flip[i] \in (now + 1)..t THEN ~cond[i] ELSE cond[i]]

\* Relays whose condition began to hold inside the step, judged on its ends.
Crossers(flip, t) ==
  {i \in Relays : /\ ~spent[i] /\ ~holding[i] /\ ~IsPending(i)
                  /\ ~cond[i] /\ CondAt(flip, t)[i]}

\* What the locator makes of a crossing: the upper end of its bracket, which
\* is the crossing unless a trial solve stopped it short.
LocatedAtLowerEnd(at, t) == {at - 1}                            \* a mutant
Located(at, t) == IF TrialsConverge THEN {at} ELSE at..t

\* The step is shortened onto the first of its crossings.
LandsPastCrossings(flip, t, land) == land = t                   \* a mutant

Lands(flip, t, land) ==
  LET crossers == Crossers(flip, t)
  IN \/ crossers = {} /\ land = t
     \/ \E found \in [crossers -> now..t] :
          /\ \A i \in crossers : found[i] \in Located(flip[i], t)
          /\ \E i \in crossers : land = found[i]
          /\ \A i \in crossers : land <= found[i]

Elapsed(n) == IF n = 0 THEN 0 ELSE n - 1

Attempt ==
  /\ pc = "step" /\ now < End
  /\ \E t \in (now + 1)..(now + Step) : Reaches(t) /\
     \E flip \in [Relays -> {Never} \cup ((now + 1)..t)], land \in now..t :
       /\ \A i \in Relays : ~Relay[i].known => flip[i] = Never
       /\ Lands(flip, t, land)
       /\ now' = land
       /\ cond' = CondAt(flip, land)
       /\ since' = [i \in Relays |->
                      IF cond'[i] /\ ~cond[i] THEN flip[i] ELSE since[i]]
  /\ dampingLeft' = Elapsed(dampingLeft)
  /\ quiet' = IF quiet < DampingSteps THEN quiet + 1 ELSE quiet
  /\ pc' = "events"
  /\ UNCHANGED <<nextEvent, holding, pending, due, spent, status, appliedAt,
                 acts>>

\* Newton does not settle, or the matrix is singular, at either attempt.
AttemptFails ==
  /\ pc = "step" /\ now < End
  /\ Fails
  /\ UNCHANGED <<now, nextEvent, holding, pending, due, spent, appliedAt, acts>>

Complete ==
  /\ pc = "step" /\ now >= End
  /\ pc' = "done"
  /\ UNCHANGED <<loop, cond, history>>

-----------------------------------------------------------------------------
(* The relays.                                                             *)

Starts(i) == cond[i] /\ ~holding[i] /\ ~IsPending(i)

Remembered == [i \in Relays |-> IF spent[i] THEN holding[i] ELSE cond[i]]

\* What the pass leaves waiting: what was and still holds, and what has just
\* begun, at the instant the step was shortened onto or the event's own.
KeptInverted(p) == ~Remembered[p.relay]                         \* a mutant
Kept(p) == Remembered[p.relay]
Onset(i) == [relay |-> i, crossed |-> now, fires |-> now + Relay[i].delay]
Waiting == {p \in pending : Kept(p)}
             \cup {Onset(i) : i \in {j \in Relays : ~spent[j] /\ Starts(j)}}

Watch ==
  /\ pc = "watch"
  /\ holding' = Remembered
  /\ due' = {p \in Waiting : p.fires <= now}
  /\ pending' = {p \in Waiting : p.fires > now}
  /\ pc' = IF due' = {} THEN "step" ELSE "act"
  /\ UNCHANGED <<now, nextEvent, spent, dampingLeft, status, cond, history>>

\* One due relay acts: its own re-solve, and its own entry in the report. An
\* action that names nothing is skipped with a warning, and still spends it.
\* They act in the order their conditions were noticed in.
Precedes(p, q) == p.crossed < q.crossed \/ (p.crossed = q.crossed /\ p.relay <= q.relay)
First(p) == p \in due /\ \A q \in due : Precedes(p, q)

Acted(p) == [relay |-> p.relay, crossed |-> p.crossed, fired |-> now,
             since |-> since[p.relay], held |-> cond[p.relay]]

SpentByActing(i) ==
  IF Relay[i].repeating THEN spent ELSE [spent EXCEPT ![i] = TRUE]

Finish(p) ==
  /\ spent' = SpentByActing(p.relay)
  /\ due' = due \ {p}
  /\ pc' = IF due' = {} THEN "step" ELSE "act"

Act ==
  /\ pc = "act"
  /\ \E p \in due :
       /\ First(p) /\ Relay[p.relay].valid
       /\ acts' = Append(acts, Acted(p))
       /\ Finish(p)
  /\ Jump /\ Redamped
  /\ UNCHANGED <<now, nextEvent, holding, pending, appliedAt>>

ActSkipped ==
  /\ pc = "act"
  /\ \E p \in due : First(p) /\ ~Relay[p.relay].valid /\ Finish(p)
  /\ UNCHANGED <<now, nextEvent, holding, pending, dampingLeft, status, cond,
                 history>>

ActFails ==
  /\ pc = "act"
  /\ \E p \in due : First(p) /\ Relay[p.relay].valid
  /\ Fails
  /\ UNCHANGED <<now, nextEvent, holding, pending, due, spent, appliedAt, acts>>

Next ==
  \/ Begin \/ FireEvents
  \/ Attempt \/ AttemptFails \/ Complete
  \/ Watch \/ Act \/ ActSkipped \/ ActFails

\* The loop is one thread's: while it can take a step it does.
Spec == Init /\ [][Next]_vars /\ WF_vars(Next)

-----------------------------------------------------------------------------
(* Properties                                                              *)

\* The state's shape; the damping counter never runs below zero.
TypeOK ==
  /\ pc \in {"start", "step", "events", "watch", "act", "done"}
  /\ now \in 0..End
  /\ nextEvent \in 1..(Len(Schedule) + 1)
  /\ cond \in [Relays -> BOOLEAN] /\ holding \in [Relays -> BOOLEAN]
  /\ pending \in SUBSET Pending /\ due \in SUBSET Pending
  /\ spent \in [Relays -> BOOLEAN]
  /\ dampingLeft \in 0..DampingSteps
  /\ status \in {"completed", "failed"}
  /\ since \in [Relays -> Nat \cup {Never}]
  /\ appliedAt \in [Events -> Nat \cup {Never}]
  /\ acts \in Seq(Acts)
  /\ quiet \in 0..DampingSteps

\* Each event happens at exactly its own time, those before zero at zero,
\* however many steps, shortenings and relay actions came before; and a
\* completed run has missed none (integrate, `snap` and `fire`).
OnTime(k, t) == t = Schedule[k].time \/ (t = 0 /\ Schedule[k].time <= 0)
EventsOnTime ==
  \A k \in Events :
    /\ appliedAt[k] # Never => OnTime(k, appliedAt[k])
    /\ pc = "done" /\ status = "completed" /\ Schedule[k].time <= End
         => appliedAt[k] # Never

\* A relay acts exactly its delay after the crossing it reports, although the
\* instant it is due was fixed before the steps that lead to it were chosen
\* (RelayAction::fired_at, "crossed_at + delay").
DelayExact ==
  \A a \in 1..Len(acts) :
    acts[a].fired = acts[a].crossed + Relay[acts[a].relay].delay

\* The first DampingSteps steps after the start and after every discontinuity,
\* an event or a relay's action, are backward Euler, and no others are
\* (integrate, `damping_left`).
DampedAfterDiscontinuity ==
  pc = "step" => (dampingLeft > 0 <=> quiet < DampingSteps)

\* The run ends: every step makes progress, whatever it is shortened onto
\* (integrate, the `while t < opts.end_time`).
Terminates == <>(pc = "done")

\* The pass over the relays has gone by when another relay acts, and has not
\* begun when the run starts: an onset of these instants is first seen at the
\* end of the next step.
Unseen(i, t) ==
  IF t = 0 \/ \E b \in 1..Len(acts) : acts[b].relay # i /\ acts[b].fired = t
    THEN Step ELSE 0

\* "When the watched quantity crossed its threshold - located, not rounded to
\* a step boundary": the crossing a relay reports is not later than the one
\* that started it, except that what another relay's action brought about may
\* be reported one step late (RelayAction::crossed_at,
\* src/dynamics/events.rs:339).
CrossedAtIsTheOnset ==
  \A a \in 1..Len(acts) :
    acts[a].crossed <= acts[a].since + Unseen(acts[a].relay, acts[a].since)

\* "Watch a quantity, and act if it stays out of bounds": however the relays
\* disturb one another, none whose condition has held for its delay is left
\* without having acted when the run completes (Relay,
\* src/dynamics/events.rs:267).  One that is out of bounds before the run
\* starts waits for a new onset.
OwedTripsHappen ==
  pc = "done" /\ status = "completed" =>
    \A i \in Relays :
      Relay[i].valid /\ ~Relay[i].mayStartOut /\ cond[i]
        /\ since[i] + Unseen(i, since[i]) + Relay[i].delay <= End
        => \E a \in 1..Len(acts) : acts[a].relay = i
=============================================================================
