------------------------- MODULE DynamicsRunProofs -------------------------
(***************************************************************************)
(* What the integration loop guarantees for every schedule, every set of   *)
(* relays and every answer of the network: relays act exactly their delay  *)
(* after the crossing they report, events happen at their own time, the    *)
(* damping follows every discontinuity, and a condition that holds is      *)
(* noticed where it began and acted upon.                                  *)
(***************************************************************************)
EXTENDS DynamicsRun, TLAPS

\* A delay is fixed when it starts, and the loop never steps past its expiry.
DelayInv ==
  /\ \A p \in pending \cup due : p.fires = p.crossed + Relay[p.relay].delay
  /\ \A p \in pending : p.fires >= now
  /\ pc \in {"step", "act"} => \A p \in pending : p.fires > now
  /\ \A p \in due : p.fires = now
  /\ pc \notin {"act", "done"} => due = {}
  /\ pc = "start" => pending = {}

\* The events taken off the schedule are those before nextEvent; what is left
\* lies ahead, or falls on the instant the loop has just landed on.
Left == {k \in Events : k >= nextEvent}
ScheduleInv ==
  /\ \A k \in Events : appliedAt[k] # Never <=> k < nextEvent
  /\ \A k \in Events : appliedAt[k] # Never => OnTime(k, appliedAt[k])
  /\ pc = "start" => now = 0 /\ nextEvent = 1
  /\ pc = "events" => \A k \in Left : Schedule[k].time >= now
  /\ pc \in {"step", "watch", "act"} => \A k \in Left : Schedule[k].time > now
  /\ pc = "done" /\ status = "completed"
       => now >= End /\ \A k \in Left : Schedule[k].time > now

DampingInv == dampingLeft + quiet = DampingSteps

IInv == TypeOK /\ DelayInv /\ DelayExact /\ ScheduleInv /\ DampingInv

-----------------------------------------------------------------------------
\* The constants, field by field.
LEMMA Constants ==
  /\ End \in Nat /\ Step \in Nat \ {0} /\ DampingSteps \in Nat
  /\ Len(Schedule) \in Nat /\ Len(Relay) \in Nat
  /\ \A k \in Events : Schedule[k].time \in Int
  /\ \A j, k \in Events : j <= k => Schedule[j].time <= Schedule[k].time
  /\ \A i \in Relays : Relay[i].delay \in Nat
<1>1. /\ Len(Schedule) \in Nat /\ Len(Relay) \in Nat
      /\ \A k \in Events : Schedule[k].time \in Int
      /\ \A i \in Relays : Relay[i].delay \in Nat
  <2>1. Len(Schedule) \in Nat /\ Len(Relay) \in Nat
    BY RunAssumption
  <2>2. ASSUME NEW k \in Events
        PROVE  Schedule[k].time \in Int
    <3> DEFINE Entries == [time : Int, valid : BOOLEAN]
    <3>0. Schedule \in Seq(Entries)
      BY RunAssumption
    <3>1. Schedule[k] \in Entries
      <4> HIDE DEF Entries
      <4> QED
        BY <3>0 DEF Events
    <3> QED
      BY <3>1
  <2>3. ASSUME NEW i \in Relays
        PROVE  Relay[i].delay \in Nat
    <3> DEFINE Settings == [delay : Nat, repeating : BOOLEAN, valid : BOOLEAN,
                            known : BOOLEAN, mayStartOut : BOOLEAN]
    <3>0. Relay \in Seq(Settings)
      BY RunAssumption
    <3>1. Relay[i] \in Settings
      <4> HIDE DEF Settings
      <4> QED
        BY <3>0 DEF Relays
    <3> QED
      BY <3>1
  <2> QED
    BY <2>1, <2>2, <2>3
<1>2. ASSUME NEW j \in Events, NEW k \in Events, j <= k
      PROVE  Schedule[j].time <= Schedule[k].time
  <2>1. CASE j = k
    BY <2>1, <1>1
  <2>2. CASE j < k
    BY <2>2, RunAssumption
  <2> QED
    BY <1>2, <2>1, <2>2, <1>1 DEF Events
<1> QED
  BY <1>1, <1>2, RunAssumption

\* A step lands on nothing later than the end, the next event or the expiry of
\* a delay.
LEMMA ReachesNothingLater ==
  ASSUME TypeOK, NEW t \in (now + 1)..(now + Step), Reaches(t), now < End
  PROVE  /\ t <= End
         /\ \A p \in pending : p.fires > now => t <= p.fires
         /\ \A k \in Events :
              k = nextEvent /\ Schedule[k].time > now => t <= Schedule[k].time
<1>1. t <= End
  BY Constants DEF Reaches, TypeOK
<1>2. ASSUME NEW p \in pending, p.fires > now
      PROVE  t <= p.fires
  BY <1>2 DEF Reaches, ExactInstants, DelaysExpire
<1>3. ASSUME NEW k \in Events, k = nextEvent, Schedule[k].time > now
      PROVE  t <= Schedule[k].time
  BY <1>3 DEF Reaches, ExactInstants, EventsFall
<1> QED
  BY <1>1, <1>2, <1>3

LEMMA InitIInv == Init => IInv
<1> SUFFICES ASSUME Init PROVE IInv
  OBVIOUS
<1>1. TypeOK
  <2>1. acts \in Seq(Acts)
    BY DEF Init
  <2> QED
    BY <2>1, Constants DEF Init, TypeOK, Never
<1>2. DelayInv /\ DelayExact
  BY DEF Init, DelayInv, DelayExact
<1>3. ScheduleInv
  BY Constants DEF Init, ScheduleInv, Never, Events, Left
<1>4. DampingInv
  BY Constants DEF Init, DampingInv
<1> QED
  BY <1>1, <1>2, <1>3, <1>4 DEF IInv

-----------------------------------------------------------------------------
(* One lemma per action.                                                   *)

\* What firing the events of an instant keeps.
LEMMA FireStep ==
  ASSUME IInv, NEW next \in {"step", "watch"}, Fire(next),
         \/ pc = "start" /\ next = "step"
         \/ pc = "events" /\ next = "watch"
  PROVE  IInv'
<1> USE DEF IInv
<1>1. /\ pc' \in {next, "done"}
      /\ pc' = "done" => status' = "failed"
      /\ pc' # "done" => status' = status
      /\ cond' \in [Relays -> BOOLEAN]
      /\ since' \in [Relays -> Nat \cup {Never}]
      /\ status' \in {"completed", "failed"}
  BY DEF Fire, Fails, Jump, TypeOK
<1>2. \/ dampingLeft' = DampingSteps /\ quiet' = 0
      \/ dampingLeft' = dampingLeft /\ quiet' = quiet
  BY DEF Fire, Fails, Jump, Redamped
<1>3. /\ nextEvent' \in 1..(Len(Schedule) + 1)
      /\ \A k \in Events : k < nextEvent' <=> k < nextEvent \/ IsDue(k)
      /\ appliedAt' = [k \in Events |-> IF IsDue(k) THEN now ELSE appliedAt[k]]
      /\ UNCHANGED <<now, holding, pending, due, spent, acts>>
  BY Constants DEF Fire, TypeOK
<1>4. TypeOK'
  BY <1>1, <1>2, <1>3, Constants DEF TypeOK
<1>5. DelayInv'
  <2>1. due = {}
    BY DEF DelayInv
  <2>2. pc = "start" => next = "step"
    OBVIOUS
  <2> QED
    BY <1>1, <1>3, <2>1 DEF DelayInv
<1>6. DelayExact'
  BY <1>3 DEF DelayExact
<1>7. ScheduleInv'
  <2>1. ASSUME NEW k \in Events
        PROVE  /\ appliedAt'[k] # Never <=> k < nextEvent'
               /\ appliedAt'[k] # Never => OnTime(k, appliedAt'[k])
    <3>1. now \in Nat /\ nextEvent \in Nat /\ k \in Nat
      BY Constants DEF TypeOK, Events
    <3>2. CASE IsDue(k)
      <4>1. appliedAt'[k] = now /\ now # Never /\ k < nextEvent'
        BY <1>3, <3>1, <3>2 DEF Never
      <4>2. OnTime(k, now)
        BY <3>1, <3>2, Constants DEF IsDue, OnTime, ScheduleInv, Left
      <4> QED
        BY <4>1, <4>2
    <3>3. CASE ~IsDue(k)
      BY <1>3, <3>1, <3>3 DEF ScheduleInv
    <3> QED
      BY <3>2, <3>3
  <2>2. ASSUME NEW k \in Events, k >= nextEvent'
        PROVE  Schedule[k].time > now'
    <3>1. ~(k < nextEvent) /\ ~IsDue(k)
      BY <1>3, <2>2 DEF Events
    <3> QED
      BY <1>3, <3>1, Constants DEF IsDue, TypeOK, Events
  <2> QED
    BY <1>1, <2>1, <2>2 DEF ScheduleInv, Left
<1>8. DampingInv'
  BY <1>2, Constants DEF DampingInv
<1> QED
  BY <1>4, <1>5, <1>6, <1>7, <1>8

LEMMA AttemptStep ==
  ASSUME IInv, Attempt
  PROVE  IInv'
<1> USE DEF IInv
<1>0. PICK t \in (now + 1)..(now + Step) :
        /\ Reaches(t)
        /\ \E flip \in [Relays -> {Never} \cup ((now + 1)..t)], land \in now..t :
             /\ now' = land
             /\ cond' = CondAt(flip, land)
             /\ since' = [i \in Relays |->
                            IF cond'[i] /\ ~cond[i] THEN flip[i] ELSE since[i]]
  BY DEF Attempt
<1>1. PICK flip \in [Relays -> {Never} \cup ((now + 1)..t)], land \in now..t :
        /\ Reaches(t)
        /\ now' = land
        /\ cond' = CondAt(flip, land)
        /\ since' = [i \in Relays |->
                       IF cond'[i] /\ ~cond[i] THEN flip[i] ELSE since[i]]
  BY <1>0
<1>2. /\ now \in Nat /\ now < End /\ pc = "step"
      /\ t \in Nat /\ land \in Nat /\ land >= now /\ land <= t
  BY <1>1, Constants DEF Attempt, TypeOK
<1>3. /\ t <= End
      /\ \A p \in pending : p.fires > now => t <= p.fires
      /\ \A k \in Events :
           k = nextEvent /\ Schedule[k].time > now => t <= Schedule[k].time
  BY <1>1, <1>2, ReachesNothingLater
<1>4. /\ UNCHANGED <<nextEvent, holding, pending, due, spent, status, appliedAt,
                     acts>>
      /\ pc' = "events"
      /\ dampingLeft' = Elapsed(dampingLeft)
      /\ quiet' = IF quiet < DampingSteps THEN quiet + 1 ELSE quiet
  BY DEF Attempt
<1>5. TypeOK'
  <2>1. cond' \in [Relays -> BOOLEAN]
    BY <1>1 DEF CondAt, TypeOK
  <2>2. since' \in [Relays -> Nat \cup {Never}]
    <3>1. ASSUME NEW i \in Relays
          PROVE  flip[i] \in Nat \cup {Never} /\ since[i] \in Nat \cup {Never}
      BY <1>1, <1>2 DEF TypeOK
    <3> QED
      BY <1>1, <3>1
  <2>3. dampingLeft' \in 0..DampingSteps /\ quiet' \in 0..DampingSteps
    BY <1>4, Constants DEF TypeOK, Elapsed
  <2>4. now' \in 0..End
    BY <1>1, <1>2, <1>3, Constants
  <2> QED
    BY <1>4, <2>1, <2>2, <2>3, <2>4 DEF TypeOK
<1>6. DelayInv'
  <2>1. ASSUME NEW p \in pending
        PROVE  p.fires >= now'
    <3>1. p.fires > now /\ p.fires \in Nat
      BY <1>2 DEF DelayInv, TypeOK, Pending
    <3> QED
      BY <1>1, <1>2, <1>3, <3>1
  <2>2. due = {}
    BY <1>2 DEF DelayInv
  <2> QED
    BY <1>4, <2>1, <2>2 DEF DelayInv
<1>7. DelayExact'
  BY <1>4 DEF DelayExact
<1>8. ScheduleInv'
  <2>1. ASSUME NEW k \in Events, k >= nextEvent
        PROVE  Schedule[k].time >= now'
    <3>1. nextEvent \in Events /\ nextEvent <= k
      BY <2>1, Constants DEF TypeOK, Events
    <3>2. Schedule[nextEvent].time > now
      BY <1>2, <3>1 DEF ScheduleInv, Left, Events
    <3>3. t <= Schedule[nextEvent].time
      BY <1>3, <3>1, <3>2
    <3>4. Schedule[nextEvent].time <= Schedule[k].time
      BY <2>1, <3>1, Constants
    <3> QED
      BY <1>1, <1>2, <2>1, <3>1, <3>3, <3>4, Constants
  <2> QED
    BY <1>4, <2>1 DEF ScheduleInv, Left, OnTime
<1>9. DampingInv'
  BY <1>4, Constants DEF DampingInv, Elapsed, TypeOK
<1> QED
  BY <1>5, <1>6, <1>7, <1>8, <1>9

LEMMA WatchStep ==
  ASSUME IInv, Watch
  PROVE  IInv'
<1> USE DEF IInv
<1>1. /\ pc = "watch"
      /\ holding' = Remembered
      /\ due' = {p \in Waiting : p.fires <= now}
      /\ pending' = {p \in Waiting : p.fires > now}
      /\ pc' \in {"step", "act"}
      /\ pc' = "step" => due' = {}
      /\ UNCHANGED <<now, nextEvent, spent, dampingLeft, status, cond, history>>
  BY DEF Watch
<1>2. ASSUME NEW p \in Waiting
      PROVE  /\ p \in Pending
             /\ p.fires = p.crossed + Relay[p.relay].delay
             /\ p.fires >= now
  <2>1. CASE p \in pending
    BY <2>1 DEF TypeOK, DelayInv
  <2>2. CASE \E i \in Relays : p = Onset(i)
    <3>1. PICK i \in Relays : p = Onset(i)
      BY <2>2
    <3>2. now \in Nat /\ Relay[i].delay \in Nat
      BY Constants DEF TypeOK
    <3> QED
      BY <3>1, <3>2 DEF Onset, Pending
  <2> QED
    BY <2>1, <2>2 DEF Waiting
<1>3. TypeOK'
  <2>1. holding' \in [Relays -> BOOLEAN]
    BY <1>1 DEF Remembered, TypeOK
  <2>2. pending' \in SUBSET Pending /\ due' \in SUBSET Pending
    BY <1>1, <1>2
  <2> QED
    BY <1>1, <2>1, <2>2 DEF TypeOK, history
<1>4. DelayInv'
  <2>1. ASSUME NEW p \in due'
        PROVE  p.fires = now' /\ p.fires = p.crossed + Relay[p.relay].delay
    BY <1>1, <1>2, <2>1 DEF TypeOK, Pending
  <2>2. ASSUME NEW p \in pending'
        PROVE  p.fires > now' /\ p.fires >= now'
               /\ p.fires = p.crossed + Relay[p.relay].delay
    BY <1>1, <1>2, <2>2 DEF TypeOK, Pending
  <2> QED
    BY <1>1, <2>1, <2>2 DEF DelayInv
<1>5. DelayExact' /\ ScheduleInv' /\ DampingInv'
  BY <1>1 DEF history, DelayExact, ScheduleInv, Left, OnTime, DampingInv
<1> QED
  BY <1>3, <1>4, <1>5

\* What a due relay's turn keeps, with or without an entry in the report.
LEMMA FinishKeeps ==
  ASSUME IInv, pc = "act", NEW p \in due, Finish(p),
         UNCHANGED <<now, nextEvent, holding, pending, appliedAt>>,
         status' = status
  PROVE  /\ spent' \in [Relays -> BOOLEAN]
         /\ due' \in SUBSET Pending
         /\ pc' \in {"step", "act"}
         /\ DelayInv' /\ ScheduleInv'
<1> USE DEF IInv
<1>1. /\ due' = due \ {p}
      /\ pc' \in {"step", "act"}
      /\ pc' = "step" => due' = {}
      /\ spent' = SpentByActing(p.relay)
  BY DEF Finish
<1>2. spent' \in [Relays -> BOOLEAN] /\ due' \in SUBSET Pending
  BY <1>1 DEF SpentByActing, TypeOK, Pending
<1>3. DelayInv'
  BY <1>1 DEF DelayInv
<1>4. ScheduleInv'
  BY <1>1 DEF ScheduleInv, Left, OnTime
<1> QED
  BY <1>1, <1>2, <1>3, <1>4

LEMMA ActStep ==
  ASSUME IInv, Act
  PROVE  IInv'
<1> USE DEF IInv
<1>1. PICK p \in due : acts' = Append(acts, Acted(p)) /\ Finish(p)
  BY DEF Act
<1>2. /\ pc = "act" /\ Jump /\ Redamped
      /\ UNCHANGED <<now, nextEvent, holding, pending, appliedAt>>
  BY DEF Act
<1>3. /\ status' = status /\ quiet' = 0 /\ dampingLeft' = DampingSteps
      /\ cond' \in [Relays -> BOOLEAN]
      /\ since' \in [Relays -> Nat \cup {Never}]
  BY <1>2 DEF Jump, Redamped, TypeOK
<1>4. /\ spent' \in [Relays -> BOOLEAN]
      /\ due' \in SUBSET Pending
      /\ pc' \in {"step", "act"}
      /\ DelayInv' /\ ScheduleInv'
  BY <1>1, <1>2, <1>3, FinishKeeps
<1>5. Acted(p) \in Acts /\ Acted(p).fired = Acted(p).crossed
                                              + Relay[Acted(p).relay].delay
  <2>1. p \in Pending /\ now \in Nat /\ p.fires = now
        /\ p.fires = p.crossed + Relay[p.relay].delay
    BY DEF TypeOK, DelayInv
  <2>2. since[p.relay] \in Int /\ cond[p.relay] \in BOOLEAN
    BY <2>1 DEF TypeOK, Pending, Never
  <2> QED
    BY <2>1, <2>2 DEF Acted, Acts, Pending
<1>6. acts' \in Seq(Acts)
  BY <1>1, <1>5 DEF TypeOK
<1>7. TypeOK'
  BY <1>2, <1>3, <1>4, <1>6, Constants DEF TypeOK
<1>8. DelayExact'
  <2> SUFFICES ASSUME NEW a \in 1..Len(acts')
               PROVE  acts'[a].fired = acts'[a].crossed
                                         + Relay[acts'[a].relay].delay
    BY DEF DelayExact
  <2>1. acts \in Seq(Acts) /\ Len(acts) \in Nat
    BY DEF TypeOK
  <2>2. CASE a \in 1..Len(acts)
    <3>1. acts'[a] = acts[a]
      BY <1>1, <1>5, <2>1, <2>2
    <3> QED
      BY <2>2, <3>1 DEF DelayExact
  <2>3. CASE a \notin 1..Len(acts)
    <3>1. acts'[a] = Acted(p)
      BY <1>1, <1>5, <2>1, <2>3
    <3> QED
      BY <1>5, <3>1
  <2> QED
    BY <2>2, <2>3
<1>9. DampingInv'
  BY <1>3, Constants DEF DampingInv
<1> QED
  BY <1>4, <1>7, <1>8, <1>9

LEMMA ActSkippedStep ==
  ASSUME IInv, ActSkipped
  PROVE  IInv'
<1> USE DEF IInv
<1>1. PICK p \in due : Finish(p)
  BY DEF ActSkipped
<1>2. /\ pc = "act"
      /\ UNCHANGED <<now, nextEvent, holding, pending, dampingLeft, status,
                     cond, history>>
  BY DEF ActSkipped
<1>3. /\ spent' \in [Relays -> BOOLEAN]
      /\ due' \in SUBSET Pending
      /\ pc' \in {"step", "act"}
      /\ DelayInv' /\ ScheduleInv'
  BY <1>1, <1>2, FinishKeeps DEF history
<1>4. TypeOK'
  BY <1>2, <1>3 DEF TypeOK, history
<1>5. DelayExact' /\ DampingInv'
  BY <1>2 DEF DelayExact, DampingInv, history
<1> QED
  BY <1>3, <1>4, <1>5

\* A solve that fails ends the run with everything else as it is.
LEMMA FailStep ==
  ASSUME IInv, AttemptFails \/ ActFails
  PROVE  IInv'
<1> USE DEF IInv
<1>1. /\ status' = "failed" /\ pc' = "done"
      /\ UNCHANGED <<now, nextEvent, holding, pending, due, spent, appliedAt,
                     acts, cond, dampingLeft, since, quiet>>
  BY DEF AttemptFails, ActFails, Fails
<1>2. TypeOK'
  BY <1>1 DEF TypeOK
<1>3. DelayInv' /\ DelayExact' /\ DampingInv'
  BY <1>1 DEF DelayInv, DelayExact, DampingInv
<1>4. ScheduleInv'
  BY <1>1 DEF ScheduleInv, Left, OnTime
<1> QED
  BY <1>2, <1>3, <1>4

LEMMA CompleteStep ==
  ASSUME IInv, Complete
  PROVE  IInv'
<1> USE DEF IInv
<1>1. pc = "step" /\ now >= End /\ pc' = "done" /\ UNCHANGED <<loop, cond, history>>
  BY DEF Complete
<1>2. TypeOK'
  BY <1>1 DEF TypeOK, loop, history
<1>3. DelayInv' /\ DelayExact' /\ DampingInv'
  BY <1>1 DEF DelayInv, DelayExact, DampingInv, loop, history
<1>4. ScheduleInv'
  BY <1>1 DEF ScheduleInv, Left, OnTime, loop, history
<1> QED
  BY <1>2, <1>3, <1>4

LEMMA NextIInv == IInv /\ [Next]_vars => IInv'
<1> SUFFICES ASSUME IInv, [Next]_vars PROVE IInv'
  OBVIOUS
<1>1. CASE Begin
  BY <1>1, FireStep DEF Begin
<1>2. CASE FireEvents
  BY <1>2, FireStep DEF FireEvents
<1>3. CASE Attempt
  BY <1>3, AttemptStep
<1>4. CASE AttemptFails \/ ActFails
  BY <1>4, FailStep
<1>5. CASE Complete
  BY <1>5, CompleteStep
<1>6. CASE Watch
  BY <1>6, WatchStep
<1>7. CASE Act
  BY <1>7, ActStep
<1>8. CASE ActSkipped
  BY <1>8, ActSkippedStep
<1>9. CASE UNCHANGED vars
  <2>1. TypeOK'
    BY <1>9 DEF IInv, TypeOK, vars, loop, history
  <2>2. DelayInv' /\ DelayExact' /\ DampingInv'
    BY <1>9 DEF IInv, DelayInv, DelayExact, DampingInv, vars, loop, history
  <2>3. ScheduleInv'
    BY <1>9 DEF IInv, ScheduleInv, Left, OnTime, vars, loop, history
  <2> QED
    BY <2>1, <2>2, <2>3 DEF IInv
<1> QED
  BY <1>1, <1>2, <1>3, <1>4, <1>5, <1>6, <1>7, <1>8, <1>9 DEF Next

\* What the loop remembers of delays, events and damping is right at every
\* stage of every step (integrate).
THEOREM Invariance == Spec => []IInv
<1> QED
  BY InitIInv, NextIInv, PTL DEF Spec

-----------------------------------------------------------------------------
\* Every state of every run has the shape TypeOK gives it.
THEOREM TypeCorrect == Spec => []TypeOK
<1>1. IInv => TypeOK
  BY DEF IInv
<1> QED
  BY <1>1, Invariance, PTL

\* For every schedule, every set of relays and every step size, a relay acts
\* exactly its delay after the crossing it reports.
THEOREM RelaysActOnTime == Spec => []DelayExact
<1>1. IInv => DelayExact
  BY DEF IInv
<1> QED
  BY <1>1, Invariance, PTL

\* Every event happens at its own time and a completed run misses none,
\* however the steps were shortened on the way.
THEOREM EventsAreOnTime == Spec => []EventsOnTime
<1>1. IInv => EventsOnTime
  <2> SUFFICES ASSUME IInv, NEW k \in Events
               PROVE  /\ appliedAt[k] # Never => OnTime(k, appliedAt[k])
                      /\ pc = "done" /\ status = "completed"
                           /\ Schedule[k].time <= End => appliedAt[k] # Never
    BY DEF EventsOnTime
  <2>1. appliedAt[k] # Never => OnTime(k, appliedAt[k])
    BY DEF IInv, ScheduleInv
  <2>2. ASSUME pc = "done", status = "completed", Schedule[k].time <= End
        PROVE  appliedAt[k] # Never
    <3>1. now \in Nat /\ nextEvent \in Nat /\ k \in Nat
      BY Constants DEF IInv, TypeOK, Events
    <3>2. ~(k >= nextEvent)
      BY <2>2, <3>1, Constants DEF IInv, ScheduleInv, Left
    <3> QED
      BY <3>1, <3>2 DEF IInv, ScheduleInv
  <2> QED
    BY <2>1, <2>2
<1> QED
  BY <1>1, Invariance, PTL

\* The steps after a discontinuity, and no others, are the damped ones.
THEOREM StepsAreDamped == Spec => []DampedAfterDiscontinuity
<1>1. IInv => DampedAfterDiscontinuity
  BY Constants DEF IInv, TypeOK, DampingInv, DampedAfterDiscontinuity
<1> QED
  BY <1>1, Invariance, PTL
-----------------------------------------------------------------------------
(* What the relays notice.  With trial solves that settle, a step is        *)
(* shortened onto the first crossing in it, so that an onset is seen where   *)
(* it happens; only what a relay's own action, or the start of the run,      *)
(* brings about comes after the pass of its instant and is seen one step     *)
(* late.                                                                     *)

HasActed(i) == \E a \in 1..Len(acts) : acts[a].relay = i

\* An onset the pass has not seen yet, and what it may be put down to.
Fresh(i) == cond[i] /\ ~spent[i] /\ ~holding[i]
Excused(i) ==
  \/ since[i] = 0
  \/ \E b \in 1..Len(acts) : acts[b].relay # i /\ acts[b].fired = since[i]

\* The relays whose trips OwedTripsHappen is about.
Owing(i) == Relay[i].valid /\ ~Relay[i].mayStartOut /\ ~HasActed(i)

KnownInv == \A i \in Relays : cond[i] \/ holding[i] => Relay[i].known

\* What waits is remembered as holding, so that its own action cannot be the
\* one that starts it anew.
HoldInv == \A p \in pending \cup due : holding[p.relay]

SpentInv == \A i \in Relays : spent[i] /\ Relay[i].known => ~Owing(i)

FreshInv ==
  \A i \in Relays : Fresh(i) =>
    /\ pc # "start"
    /\ pc \in {"step", "act"} => since[i] = now /\ Excused(i)
    /\ pc \in {"events", "watch"} =>
         since[i] = now \/ (Excused(i) /\ now <= since[i] + Step)

\* What waits was noticed in time.
CrossedInv ==
  \A p \in pending \cup due :
    p.crossed <= now /\ p.crossed <= since[p.relay] + Unseen(p.relay, since[p.relay])

\* A condition remembered as holding is waiting for its turn until it acts.
WaitingInv ==
  \A i \in Relays :
    holding[i] /\ Owing(i) => \E p \in pending \cup due : p.relay = i

NoticeInv ==
  /\ KnownInv /\ HoldInv /\ SpentInv /\ FreshInv /\ CrossedInv /\ WaitingInv
  /\ CrossedAtIsTheOnset /\ OwedTripsHappen

LEMMA UnseenSize ==
  ASSUME NEW i \in Relays, NEW t \in Int
  PROVE  Unseen(i, t) \in Nat
BY Constants DEF Unseen

\* The report only grows.
LEMMA ActsGrow ==
  ASSUME TypeOK, acts' = acts \/ \E x \in Acts : acts' = Append(acts, x)
  PROVE  /\ \A a \in 1..Len(acts) : a \in 1..Len(acts') /\ acts'[a] = acts[a]
         /\ \A i \in Relays : HasActed(i) => HasActed(i)'
         /\ \A i \in Relays : Owing(i)' => Owing(i)
         /\ \A i \in Relays : \A t \in Int :
              (\E b \in 1..Len(acts) : acts[b].relay # i /\ acts[b].fired = t)
                => \E b \in 1..Len(acts') : acts'[b].relay # i /\ acts'[b].fired = t
<1>1. ASSUME NEW a \in 1..Len(acts) PROVE a \in 1..Len(acts') /\ acts'[a] = acts[a]
  <2>1. acts \in Seq(Acts) /\ Len(acts) \in Nat
    BY DEF TypeOK
  <2>2. ASSUME NEW x \in Acts, acts' = Append(acts, x)
        PROVE  a \in 1..Len(acts') /\ acts'[a] = acts[a]
    BY <2>1, <2>2
  <2> QED
    BY <2>2
<1>2. \A i \in Relays : HasActed(i) => HasActed(i)'
  BY <1>1 DEF HasActed
<1> QED
  BY <1>1, <1>2 DEF Owing

\* Nothing that was noticed in time becomes late, wherever the point moves.
LEMMA CrossedKept ==
  ASSUME TypeOK, TypeOK', CrossedInv, CrossedAtIsTheOnset,
         acts' = acts, now' >= now, pending' \cup due' \subseteq pending \cup due,
         \A i \in Relays : since'[i] = since[i] \/ since'[i] >= now
  PROVE  CrossedInv' /\ CrossedAtIsTheOnset'
<1>1. CrossedAtIsTheOnset'
  BY DEF CrossedAtIsTheOnset, Unseen
<1>2. ASSUME NEW p \in pending' \cup due'
      PROVE  /\ p.crossed <= now'
             /\ p.crossed <= since'[p.relay] + Unseen(p.relay, since[p.relay])'
  <2>1. /\ p \in pending \cup due /\ p.crossed \in Nat /\ p.relay \in Relays
        /\ now \in Int /\ now' \in Int /\ since[p.relay] \in Int /\ since'[p.relay] \in Int
    BY Constants DEF TypeOK, Pending, Never
  <2>2. p.crossed <= now /\ p.crossed <= since[p.relay] + Unseen(p.relay, since[p.relay])
    BY <2>1 DEF CrossedInv
  <2>3. CASE since'[p.relay] = since[p.relay]
    BY <2>1, <2>2, <2>3 DEF Unseen
  <2>4. CASE since'[p.relay] >= now
    <3>1. Unseen(p.relay, since[p.relay])' \in Nat
      BY <2>1, Constants DEF Unseen
    <3> QED
      BY <2>1, <2>2, <2>4, <3>1
  <2> QED
    BY <2>1, <2>2, <2>3, <2>4
<1> QED
  BY <1>1, <1>2 DEF CrossedInv

LEMMA NoticeInit == Init => NoticeInv
<1> SUFFICES ASSUME Init PROVE NoticeInv
  OBVIOUS
<1>1. Len(acts) = 0
  BY DEF Init
<1>2. SpentInv /\ KnownInv
  BY DEF Init, SpentInv, KnownInv
<1>3. HoldInv /\ FreshInv /\ CrossedInv
  BY DEF Init, HoldInv, FreshInv, CrossedInv, Fresh
<1>4. WaitingInv
  BY DEF Init, WaitingInv, Owing
<1>5. CrossedAtIsTheOnset /\ OwedTripsHappen
  BY <1>1 DEF Init, CrossedAtIsTheOnset, OwedTripsHappen
<1> QED
  BY <1>2, <1>3, <1>4, <1>5 DEF NoticeInv

\* The events of an instant, before the pass over the relays or, at the start
\* of the run, without one.
LEMMA NoticeFire ==
  ASSUME IInv, IInv', NoticeInv, NEW next \in {"step", "watch"}, Fire(next),
         \/ pc = "start" /\ next = "step"
         \/ pc = "events" /\ next = "watch"
  PROVE  NoticeInv'
<1> USE DEF NoticeInv, IInv
<1>1. /\ UNCHANGED <<now, holding, pending, due, spent, acts>>
      /\ pc' \in {next, "done"} /\ (pc' = "done" => status' = "failed")
  BY DEF Fire, Fails, Jump
<1>2. ASSUME NEW i \in Relays
      PROVE  /\ cond'[i] => Relay[i].known
             /\ \/ cond'[i] = cond[i] /\ since'[i] = since[i]
                \/ cond[i] /\ since'[i] = since[i]
                \/ ~cond'[i] /\ since'[i] = since[i]
                \/ ~cond[i] /\ cond'[i] /\ since'[i] = now
  BY DEF Fire, Fails, Jump, KnownInv
<1>3. KnownInv' /\ HoldInv' /\ SpentInv' /\ WaitingInv'
  BY <1>1, <1>2 DEF KnownInv, HoldInv, SpentInv, WaitingInv, Owing, HasActed
<1>4. FreshInv'
  <2> SUFFICES ASSUME NEW i \in Relays, Fresh(i)'
               PROVE  /\ pc' # "start"
                      /\ pc' \in {"step", "act"} => since'[i] = now' /\ Excused(i)'
                      /\ pc' \in {"events", "watch"} =>
                           since'[i] = now' \/ (Excused(i)' /\ now' <= since'[i] + Step)
    BY DEF FreshInv
  <2>1. CASE cond[i]
    <3>1. Fresh(i) /\ since'[i] = since[i]
      BY <1>1, <1>2, <2>1 DEF Fresh
    <3>2. pc = "events" /\ Excused(i)' = Excused(i)
      BY <1>1, <3>1 DEF FreshInv, Excused
    <3> QED
      BY <1>1, <3>1, <3>2 DEF FreshInv
  <2>2. CASE ~cond[i]
    <3>1. since'[i] = now
      BY <1>2, <2>2 DEF Fresh
    <3>2. pc = "start" => now = 0
      BY DEF ScheduleInv
    <3> QED
      BY <1>1, <3>1, <3>2 DEF Excused
  <2> QED
    BY <2>1, <2>2
<1>5. CrossedInv' /\ CrossedAtIsTheOnset'
  <2>1. now \in Int
    BY Constants DEF TypeOK
  <2> QED
    BY <1>1, <1>2, <2>1, CrossedKept
<1>6. OwedTripsHappen'
  BY <1>1 DEF OwedTripsHappen
<1> QED
  BY <1>3, <1>4, <1>5, <1>6

\* A step lands on the first of the onsets in it that nobody waits for yet.
LEMMA NoticeAttempt ==
  ASSUME TrialsConverge, IInv, IInv', NoticeInv, Attempt
  PROVE  NoticeInv'
<1> USE DEF NoticeInv, IInv
<1>1. PICK t \in (now + 1)..(now + Step) :
        \E flip \in [Relays -> {Never} \cup ((now + 1)..t)], land \in now..t :
          /\ \A i \in Relays : ~Relay[i].known => flip[i] = Never
          /\ Lands(flip, t, land)
          /\ now' = land
          /\ cond' = CondAt(flip, land)
          /\ since' = [i \in Relays |->
                         IF cond'[i] /\ ~cond[i] THEN flip[i] ELSE since[i]]
  BY DEF Attempt
<1>2. PICK flip \in [Relays -> {Never} \cup ((now + 1)..t)], land \in now..t :
        /\ \A i \in Relays : ~Relay[i].known => flip[i] = Never
        /\ Lands(flip, t, land)
        /\ now' = land
        /\ cond' = CondAt(flip, land)
        /\ since' = [i \in Relays |->
                       IF cond'[i] /\ ~cond[i] THEN flip[i] ELSE since[i]]
  BY <1>1
<1>3. /\ UNCHANGED <<holding, pending, due, spent, status, acts>>
      /\ pc = "step" /\ pc' = "events"
      /\ now \in Nat /\ Step \in Nat /\ t \in Nat /\ land \in Nat
      /\ now <= land /\ land <= t /\ t <= now + Step
  BY <1>2, Constants DEF Attempt, TypeOK
<1>4. ASSUME NEW i \in Relays
      PROVE  /\ flip[i] = Never \/ flip[i] \in (now + 1)..t
             /\ cond'[i] = IF flip[i] \in (now + 1)..land THEN ~cond[i] ELSE cond[i]
             /\ since'[i] = IF cond'[i] /\ ~cond[i] THEN flip[i] ELSE since[i]
  BY <1>2 DEF CondAt
<1>5. ASSUME NEW i \in Relays, ~cond[i], cond'[i]
      PROVE  since'[i] = flip[i] /\ flip[i] \in Nat /\ now < flip[i] /\ flip[i] <= land
  BY <1>3, <1>4, <1>5 DEF TypeOK
<1>6. KnownInv'
  <2> SUFFICES ASSUME NEW i \in Relays, cond'[i] PROVE Relay[i].known
    BY <1>3 DEF KnownInv
  <2>1. CASE cond[i]
    BY <2>1 DEF KnownInv
  <2>2. CASE ~cond[i]
    BY <1>2, <1>3, <1>5, <2>2 DEF Never
  <2> QED
    BY <2>1, <2>2
<1>7. HoldInv' /\ SpentInv' /\ WaitingInv'
  BY <1>3 DEF HoldInv, SpentInv, WaitingInv, Owing, HasActed
<1>8. FreshInv'
  <2> SUFFICES ASSUME NEW i \in Relays, Fresh(i)'
               PROVE  since'[i] = now' \/ (Excused(i)' /\ now' <= since'[i] + Step)
    BY <1>3 DEF FreshInv
  <2>1. CASE cond[i]
    <3>1. Fresh(i) /\ since'[i] = since[i]
      BY <1>3, <1>4, <2>1 DEF Fresh
    <3>2. since[i] = now /\ Excused(i)
      BY <1>3, <3>1 DEF FreshInv
    <3>3. Excused(i)'
      BY <1>3, <3>1, <3>2 DEF Excused
    <3> QED
      BY <1>2, <1>3, <3>1, <3>2, <3>3
  <2>2. CASE ~cond[i]
    <3>1. cond'[i] /\ ~spent[i] /\ ~holding[i]
      BY <1>3 DEF Fresh
    <3>2. ~IsPending(i)
      BY <3>1 DEF IsPending, HoldInv
    <3>3. flip[i] \in (now + 1)..t /\ flip[i] <= land /\ since'[i] = flip[i]
      BY <1>3, <1>4, <1>5, <2>2, <3>1
    <3>4. i \in Crossers(flip, t)
      <4>1. CondAt(flip, t)[i] = TRUE
        BY <2>2, <3>3 DEF CondAt
      <4> QED
        BY <2>2, <3>1, <3>2, <4>1 DEF Crossers
    <3>5. PICK found \in [Crossers(flip, t) -> now..t] :
            /\ \A j \in Crossers(flip, t) : found[j] \in Located(flip[j], t)
            /\ \A j \in Crossers(flip, t) : land <= found[j]
      BY <1>2, <3>4 DEF Lands
    <3>6. land <= flip[i]
      BY <3>4, <3>5 DEF Located
    <3> QED
      BY <1>2, <1>3, <3>3, <3>6
  <2> QED
    BY <2>1, <2>2
<1>9. CrossedInv' /\ CrossedAtIsTheOnset'
  <2>1. \A i \in Relays : since'[i] = since[i] \/ since'[i] >= now
    BY <1>3, <1>4, <1>5
  <2>2. now' >= now
    BY <1>2, <1>3
  <2> QED
    BY <1>3, <2>1, <2>2, CrossedKept
<1>10. OwedTripsHappen'
  BY <1>3 DEF OwedTripsHappen
<1> QED
  BY <1>6, <1>7, <1>8, <1>9, <1>10

\* The pass: what is fresh starts to wait, and what no longer holds is let go.
LEMMA NoticeWatch ==
  ASSUME IInv, IInv', NoticeInv, Watch
  PROVE  NoticeInv'
<1> USE DEF NoticeInv, IInv
<1>1. /\ pc = "watch" /\ pc' \in {"step", "act"}
      /\ holding' = Remembered
      /\ pending' \cup due' = Waiting
      /\ UNCHANGED <<now, spent, status, cond, since, acts>>
      /\ due = {}
  <2>1. pending' \cup due' = Waiting
    <3>1. \A p \in Waiting : p.fires \in Int
      <4>1. \A p \in pending : p.fires \in Int
        BY DEF TypeOK, Pending
      <4>2. \A i \in Relays : Onset(i).fires \in Int
        BY Constants DEF Onset, TypeOK
      <4> QED
        BY <4>1, <4>2 DEF Waiting
    <3>2. now \in Int
      BY Constants DEF TypeOK
    <3> QED
      BY <3>1, <3>2 DEF Watch
  <2> QED
    BY <2>1 DEF Watch, history, DelayInv
<1>2. ASSUME NEW i \in Relays
      PROVE  holding'[i] = IF spent[i] THEN holding[i] ELSE cond[i]
  BY <1>1 DEF Remembered
<1>3. ASSUME NEW p \in Waiting
      PROVE  \/ p \in pending /\ holding'[p.relay]
             \/ \E i \in Relays : p = Onset(i) /\ Fresh(i) /\ holding'[i]
  BY <1>1, <1>2 DEF Waiting, Kept, Starts, Fresh
<1>4. KnownInv' /\ SpentInv'
  BY <1>1, <1>2 DEF KnownInv, SpentInv, Owing, HasActed
<1>5. HoldInv'
  <2>1. \A i \in Relays : Onset(i).relay = i
    BY DEF Onset
  <2> QED
    BY <1>1, <1>3, <2>1 DEF HoldInv
<1>6. FreshInv'
  BY <1>1, <1>2 DEF FreshInv, Fresh
<1>7. CrossedInv' /\ CrossedAtIsTheOnset'
  <2>1. CrossedAtIsTheOnset'
    BY <1>1 DEF CrossedAtIsTheOnset, Unseen
  <2>2. ASSUME NEW p \in Waiting
        PROVE  p.crossed <= now /\ p.crossed <= since[p.relay] + Unseen(p.relay, since[p.relay])
    <3>1. CASE p \in pending
      BY <3>1 DEF CrossedInv
    <3>2. ASSUME NEW i \in Relays, p = Onset(i), Fresh(i)
          PROVE  p.crossed <= now /\ p.crossed <= since[p.relay] + Unseen(p.relay, since[p.relay])
      <4>1. p.crossed = now /\ p.relay = i
        BY <3>2 DEF Onset
      <4>2. now \in Int /\ since[i] \in Int /\ Unseen(i, since[i]) \in Nat
        <5>1. since[i] \in Int
          BY DEF TypeOK, Never
        <5> QED
          BY <5>1, Constants, UnseenSize DEF TypeOK
      <4>3. since[i] = now \/ (Excused(i) /\ now <= since[i] + Step)
        BY <1>1, <3>2 DEF FreshInv
      <4>4. Excused(i) => Unseen(i, since[i]) = Step
        BY DEF Excused, Unseen
      <4> QED
        BY <4>1, <4>2, <4>3, <4>4
    <3> QED
      BY <1>3, <3>1, <3>2
  <2> QED
    BY <1>1, <2>1, <2>2 DEF CrossedInv, Unseen
<1>8. WaitingInv'
  <2> SUFFICES ASSUME NEW i \in Relays, holding'[i], Owing(i)
               PROVE  \E p \in Waiting : p.relay = i
    BY <1>1 DEF WaitingInv, Owing, HasActed
  <2>1. ~spent[i] /\ cond[i]
    BY <1>2 DEF SpentInv, KnownInv
  <2>2. CASE holding[i]
    <3>1. PICK p \in pending : p.relay = i
      BY <1>1, <2>2 DEF WaitingInv
    <3>2. Kept(p)
      BY <2>1, <3>1 DEF Kept, Remembered
    <3> QED
      BY <3>1, <3>2 DEF Waiting
  <2>3. CASE ~holding[i] /\ IsPending(i)
    BY <2>3 DEF IsPending, HoldInv
  <2>4. CASE ~holding[i] /\ ~IsPending(i)
    <3>1. Onset(i) \in Waiting
      BY <2>1, <2>4 DEF Starts, Waiting
    <3> QED
      BY <3>1 DEF Onset
  <2> QED
    BY <2>2, <2>3, <2>4
<1>9. OwedTripsHappen'
  BY <1>1 DEF OwedTripsHappen
<1> QED
  BY <1>4, <1>5, <1>6, <1>7, <1>8, <1>9

\* A relay acts: what its action brings about is excused, to every other relay.
LEMMA NoticeAct ==
  ASSUME IInv, IInv', NoticeInv, Act \/ ActSkipped
  PROVE  NoticeInv'
<1> USE DEF NoticeInv, IInv
<1>1. PICK p \in due :
        /\ Finish(p)
        /\ \/ acts' = Append(acts, Acted(p)) /\ Jump
           \/ ~Relay[p.relay].valid /\ UNCHANGED <<status, cond, since, acts>>
  BY DEF Act, ActSkipped, history
<1>2. /\ UNCHANGED <<now, holding, pending>> /\ pc = "act" /\ status' = status
      /\ pc' \in {"step", "act"} /\ due' = due \ {p}
      /\ p \in Pending /\ p.relay \in Relays /\ p.crossed \in Nat
      /\ now \in Nat /\ holding[p.relay]
  BY <1>1, Constants DEF Act, ActSkipped, Finish, Jump, HoldInv, TypeOK, Pending
<1>3. ASSUME NEW i \in Relays
      PROVE  /\ spent[i] => spent'[i]
             /\ i # p.relay => spent'[i] = spent[i]
  BY <1>1, <1>2 DEF Finish, SpentByActing, TypeOK
<1>4. /\ acts' = acts \/ \E x \in Acts : acts' = Append(acts, x)
      /\ acts' # acts => acts' = Append(acts, Acted(p))
  <2>1. Acted(p) \in Acts
    BY <1>2 DEF Acted, Acts, TypeOK, Never
  <2> QED
    BY <1>1, <2>1
<1>5. /\ \A a \in 1..Len(acts) : a \in 1..Len(acts') /\ acts'[a] = acts[a]
      /\ \A i \in Relays : Owing(i)' => Owing(i)
      /\ \A i \in Relays : \A t \in Int :
           (\E b \in 1..Len(acts) : acts[b].relay # i /\ acts[b].fired = t)
             => \E b \in 1..Len(acts') : acts'[b].relay # i /\ acts'[b].fired = t
  BY <1>4, ActsGrow
<1>6. ~Owing(p.relay)'
  <2>1. CASE acts' = Append(acts, Acted(p))
    <3>1. Len(acts') = Len(acts) + 1 /\ acts'[Len(acts) + 1] = Acted(p) /\ Len(acts) \in Nat
      BY <2>1 DEF TypeOK
    <3>2. HasActed(p.relay)'
      BY <3>1 DEF HasActed, Acted
    <3> QED
      BY <3>2 DEF Owing
  <2>2. CASE ~Relay[p.relay].valid
    BY <2>2 DEF Owing
  <2> QED
    BY <1>1, <2>1, <2>2
<1>7. ASSUME NEW i \in Relays
      PROVE  /\ cond'[i] => Relay[i].known
             /\ cond'[i] /\ ~cond[i] => acts' = Append(acts, Acted(p)) /\ since'[i] = now
             /\ ~(cond'[i] /\ ~cond[i]) => since'[i] = since[i]
  BY <1>1 DEF Jump, KnownInv
<1>8. KnownInv' /\ HoldInv'
  BY <1>2, <1>7 DEF KnownInv, HoldInv
<1>9. SpentInv'
  BY <1>3, <1>5, <1>6 DEF SpentInv
<1>10. WaitingInv'
  <2> SUFFICES ASSUME NEW i \in Relays, holding'[i], Owing(i)'
               PROVE  \E q \in pending' \cup due' : q.relay = i
    BY DEF WaitingInv
  <2>1. PICK q \in pending \cup due : q.relay = i
    BY <1>2, <1>5 DEF WaitingInv
  <2>2. q # p
    BY <1>6, <2>1
  <2> QED
    BY <1>2, <2>1, <2>2
<1>11. FreshInv'
  <2> SUFFICES ASSUME NEW i \in Relays, Fresh(i)'
               PROVE  since'[i] = now' /\ Excused(i)'
    BY <1>2 DEF FreshInv
  <2>1. ~holding[i] /\ ~spent[i] /\ cond'[i] /\ i # p.relay
    BY <1>2, <1>3 DEF Fresh
  <2>2. CASE cond[i]
    <3>1. since[i] = now /\ Excused(i) /\ since'[i] = since[i]
      BY <1>2, <1>7, <2>1, <2>2 DEF FreshInv, Fresh
    <3> QED
      BY <1>2, <1>5, <3>1 DEF Excused
  <2>3. CASE ~cond[i]
    <3>1. acts' = Append(acts, Acted(p)) /\ since'[i] = now
      BY <1>7, <2>1, <2>3
    <3>2. Len(acts') = Len(acts) + 1 /\ acts'[Len(acts) + 1] = Acted(p) /\ Len(acts) \in Nat
      BY <3>1 DEF TypeOK
    <3>3. Acted(p).relay # i /\ Acted(p).fired = now
      BY <2>1 DEF Acted
    <3> QED
      BY <1>2, <3>1, <3>2, <3>3 DEF Excused
  <2> QED
    BY <2>2, <2>3
<1>12. ASSUME NEW i \in Relays, NEW u \in Int PROVE Unseen(i, u)' >= Unseen(i, u)
  BY <1>5, Constants DEF Unseen
<1>13. CrossedInv'
  <2> SUFFICES ASSUME NEW q \in pending' \cup due'
               PROVE  /\ q.crossed <= now'
                      /\ q.crossed <= since'[q.relay] + Unseen(q.relay, since[q.relay])'
    BY DEF CrossedInv
  <2>1. /\ q \in pending \cup due /\ q.crossed \in Nat /\ q.relay \in Relays
        /\ since[q.relay] \in Int /\ since'[q.relay] \in Int
    BY <1>2 DEF TypeOK, Pending, Never
  <2>2. q.crossed <= now /\ q.crossed <= since[q.relay] + Unseen(q.relay, since[q.relay])
    BY <2>1 DEF CrossedInv
  <2>3. /\ Unseen(q.relay, since[q.relay]) \in Nat /\ Unseen(q.relay, since[q.relay])' \in Nat
    BY <2>1, Constants DEF Unseen
  <2>4. CASE since'[q.relay] = since[q.relay]
    <3>1. Unseen(q.relay, since[q.relay])' >= Unseen(q.relay, since[q.relay])
      <4>1. PICK i \in Relays, u \in Int :
              i = q.relay /\ u = since[q.relay] /\ u = since'[q.relay]
        BY <2>1, <2>4
      <4>2. /\ Unseen(q.relay, since[q.relay]) = Unseen(i, u)
            /\ Unseen(q.relay, since[q.relay])' = Unseen(i, u)'
        BY <4>1 DEF Unseen
      <4> QED
        BY <1>12, <4>2
    <3> QED
      BY <1>2, <2>1, <2>2, <2>3, <2>4, <3>1
  <2>5. CASE since'[q.relay] = now
    BY <1>2, <2>1, <2>2, <2>3, <2>5
  <2> QED
    BY <1>7, <2>1, <2>4, <2>5
<1>14. CrossedAtIsTheOnset'
  <2> SUFFICES ASSUME NEW a \in 1..Len(acts')
               PROVE  acts'[a].crossed <= acts'[a].since
                                            + Unseen(acts[a].relay, acts[a].since)'
    BY DEF CrossedAtIsTheOnset
  <2>1. ASSUME a \in 1..Len(acts)
        PROVE  acts'[a].crossed <= acts'[a].since + Unseen(acts[a].relay, acts[a].since)'
    <3>1. acts'[a] = acts[a] /\ acts[a] \in Acts
      BY <1>5, <2>1 DEF TypeOK
    <3>2. /\ acts[a].relay \in Relays /\ acts[a].since \in Int /\ acts[a].crossed \in Int
      BY <3>1 DEF Acts
    <3>3. acts[a].crossed <= acts[a].since + Unseen(acts[a].relay, acts[a].since)
      BY <2>1 DEF CrossedAtIsTheOnset
    <3>4. Unseen(acts[a].relay, acts[a].since)' >= Unseen(acts[a].relay, acts[a].since)
      <4>1. PICK i \in Relays, u \in Int :
              /\ i = acts[a].relay /\ u = acts[a].since
              /\ i = acts'[a].relay /\ u = acts'[a].since
        BY <3>1, <3>2
      <4>2. /\ Unseen(acts[a].relay, acts[a].since) = Unseen(i, u)
            /\ Unseen(acts[a].relay, acts[a].since)' = Unseen(i, u)'
        BY <4>1 DEF Unseen
      <4> QED
        BY <1>12, <4>2
    <3>5. /\ Unseen(acts[a].relay, acts[a].since)' \in Nat
          /\ Unseen(acts[a].relay, acts[a].since) \in Nat
      BY <3>2, Constants DEF Unseen
    <3> QED
      BY <3>1, <3>2, <3>3, <3>4, <3>5
  <2>2. ASSUME a \notin 1..Len(acts)
        PROVE  acts'[a].crossed <= acts'[a].since + Unseen(acts[a].relay, acts[a].since)'
    <3>1. acts' = Append(acts, Acted(p)) /\ a = Len(acts) + 1 /\ Len(acts) \in Nat
      BY <1>4, <2>2 DEF TypeOK
    <3>2. acts'[a] = Acted(p)
      BY <3>1 DEF TypeOK
    <3>3. /\ acts'[a].relay = p.relay /\ acts'[a].crossed = p.crossed
          /\ acts'[a].since = since[p.relay]
      BY <3>2 DEF Acted
    <3>4. p.crossed <= since[p.relay] + Unseen(p.relay, since[p.relay])
      BY DEF CrossedInv
    <3>5. /\ since[p.relay] \in Int
          /\ Unseen(p.relay, since[p.relay]) \in Nat
      <4>1. since[p.relay] \in Int
        BY <1>2 DEF TypeOK, Never
      <4> QED
        BY <1>2, <4>1, UnseenSize
    <3>6. Unseen(acts[a].relay, acts[a].since)' >= Unseen(p.relay, since[p.relay])
      BY <1>2, <1>5, <3>3, <3>5, Constants DEF Unseen
    <3>7. Unseen(acts[a].relay, acts[a].since)' \in Nat
      BY Constants DEF Unseen
    <3> QED
      BY <1>2, <3>3, <3>4, <3>5, <3>6, <3>7
  <2> QED
    BY <2>1, <2>2
<1>15. OwedTripsHappen'
  BY <1>2 DEF OwedTripsHappen
<1> QED
  BY <1>8, <1>9, <1>10, <1>11, <1>13, <1>14, <1>15

\* The run completes: whoever is owed a trip would have had to start waiting,
\* and every wait ends before the end of the run or after it.
LEMMA NoticeComplete ==
  ASSUME IInv, IInv', NoticeInv, Complete
  PROVE  NoticeInv'
<1> USE DEF NoticeInv, IInv
<1>1. /\ pc = "step" /\ now >= End /\ pc' = "done"
      /\ UNCHANGED <<now, holding, pending, due, spent, cond, status, since, acts>>
      /\ due = {}
  BY DEF Complete, loop, history, DelayInv
<1>2. /\ KnownInv' /\ HoldInv' /\ SpentInv' /\ FreshInv' /\ WaitingInv'
  BY <1>1 DEF KnownInv, HoldInv, SpentInv, FreshInv, WaitingInv, Owing, HasActed
<1>3. CrossedInv' /\ CrossedAtIsTheOnset'
  <2>1. now \in Int
    BY Constants DEF TypeOK
  <2> QED
    BY <1>1, <2>1, CrossedKept
<1>4. OwedTripsHappen'
  <2> SUFFICES ASSUME NEW i \in Relays, Relay[i].valid, ~Relay[i].mayStartOut, cond[i],
                      since[i] + Unseen(i, since[i]) + Relay[i].delay <= End,
                      ~HasActed(i)
               PROVE  FALSE
    BY <1>1 DEF OwedTripsHappen, HasActed, Unseen
  <2>0. /\ now \in Int /\ since[i] \in Int /\ Unseen(i, since[i]) \in Nat
        /\ Relay[i].delay \in Nat /\ End \in Nat /\ Step \in Nat \ {0}
    <3>1. since[i] \in Int
      BY DEF TypeOK, Never
    <3> QED
      BY <3>1, Constants, UnseenSize DEF TypeOK
  <2>1. ~spent[i]
    BY DEF SpentInv, KnownInv, Owing
  <2>2. CASE holding[i]
    <3>1. PICK p \in pending : p.relay = i
      BY <1>1, <2>2 DEF WaitingInv, Owing
    <3>2. /\ p.fires > now /\ p.fires = p.crossed + Relay[i].delay
          /\ p.crossed <= since[i] + Unseen(i, since[i])
          /\ p.crossed \in Nat
      BY <1>1, <3>1 DEF DelayInv, CrossedInv, TypeOK, Pending
    <3> QED
      BY <1>1, <2>0, <3>2
  <2>3. CASE ~holding[i]
    <3>1. since[i] = now /\ Excused(i)
      BY <1>1, <2>1, <2>3 DEF FreshInv, Fresh
    <3>2. Unseen(i, since[i]) = Step
      BY <3>1 DEF Excused, Unseen
    <3> QED
      BY <1>1, <2>0, <3>1, <3>2
  <2> QED
    BY <2>2, <2>3
<1> QED
  BY <1>2, <1>3, <1>4

\* A solve that fails, or nothing at all.
LEMMA NoticeStill ==
  ASSUME IInv, IInv', NoticeInv, AttemptFails \/ ActFails \/ UNCHANGED vars
  PROVE  NoticeInv'
<1> USE DEF NoticeInv, IInv
<1>1. /\ UNCHANGED <<now, holding, pending, due, spent, cond, since, acts>>
      /\ \/ pc' = "done" /\ status' = "failed"
         \/ pc' = pc /\ status' = status
  BY DEF AttemptFails, ActFails, Fails, vars, loop, history
<1>2. KnownInv' /\ HoldInv' /\ SpentInv' /\ WaitingInv'
  BY <1>1 DEF KnownInv, HoldInv, SpentInv, WaitingInv, Owing, HasActed
<1>3. FreshInv'
  BY <1>1 DEF FreshInv, Fresh, Excused
<1>4. CrossedInv' /\ CrossedAtIsTheOnset'
  <2>1. now \in Int
    BY Constants DEF TypeOK
  <2> QED
    BY <1>1, <2>1, CrossedKept
<1>5. OwedTripsHappen'
  BY <1>1 DEF OwedTripsHappen, Unseen
<1> QED
  BY <1>2, <1>3, <1>4, <1>5

LEMMA NextNoticeInv ==
  ASSUME TrialsConverge, IInv, IInv', NoticeInv, [Next]_vars
  PROVE  NoticeInv'
BY NoticeFire, NoticeAttempt, NoticeWatch, NoticeAct, NoticeComplete, NoticeStill
   DEF Next, Begin, FireEvents

\* When every trial solve of the locator settles, whatever the relays watch and
\* however they disturb one another.
THEOREM OnsetsAreNoticed == TrialsConverge => (Spec => []NoticeInv)
<1> SUFFICES ASSUME TrialsConverge PROVE Spec => []NoticeInv
  OBVIOUS
<1>1. IInv /\ IInv' /\ NoticeInv /\ [Next]_vars => NoticeInv'
  BY NextNoticeInv
<1> QED
  BY <1>1, NoticeInit, Invariance, PTL DEF Spec

\* A relay reports the crossing that started it, or, if another relay's action
\* did, an instant at most one step later.
THEOREM CrossingsAreLocated == TrialsConverge => (Spec => []CrossedAtIsTheOnset)
<1>1. NoticeInv => CrossedAtIsTheOnset
  BY DEF NoticeInv
<1> QED
  BY <1>1, OnsetsAreNoticed, PTL

\* No relay whose condition has held for its delay is left out.
THEOREM TripsAreNotLost == TrialsConverge => (Spec => []OwedTripsHappen)
<1>1. NoticeInv => OwedTripsHappen
  BY DEF NoticeInv
<1> QED
  BY <1>1, OnsetsAreNoticed, PTL
=============================================================================
